-------------------------------- MODULE Sessions --------------------------------
(***************************************************************************)
(* The credentials of one user: password, reset links, refresh and access  *)
(* tokens (db/src/models/concerns/users/password_resetable.rs,             *)
(* api/src/auth, controllers/auth.rs and controllers/password_resets.rs).  *)
(*                                                                         *)
(* The clock counts the seconds that tokens and password_modified_at are   *)
(* compared in; any number of steps fit in one.  A token is not stored: it *)
(* is its claims.  What a request reads before the slow hashing of a       *)
(* password and what it writes or issues afterwards are two steps.         *)
(***************************************************************************)
EXTENDS Integers, FiniteSets, Sequences

CONSTANTS
    Calls,       \* each logs in, refreshes or resets once
    Links,          \* password reset tokens
    LinkLife,       \* PASSWORD_RESET_EXPIRATION_PERIOD_IN_DAYS
    AccessLife,     \* jwt_expiry_time
    MaxTime,        \* bound of the clock
    None

ASSUME LifeAssumption == {LinkLife, AccessLife} \subseteq Nat \ {0} /\ MaxTime \in Nat
ASSUME NoneAssumption == None \notin Calls \cup Links \cup Nat

VARIABLES
    now,
    password,       \* the request that set it; None is the first password
    modified,       \* password_modified_at
    link,           \* password_reset_token
    requested,      \* password_reset_requested_at
    call,            \* what each request has read
    session,        \* the refresh token each request was given
    access,         \* the access token each request was given
    sent,           \* history: the links, in the order they were mailed
    uses,           \* history: the requests that changed the password by each link
    mixed           \* history: a reset overlapped another one, or a new link

sessionVars ==
    <<now, password, modified, link, requested, call, session, access, sent, uses, mixed>>

Times == 0..MaxTime
Passwords == Calls \cup {None}

Reqs ==
    [kind : {"idle", "done"}]
        \cup [kind : {"login"}, password : Passwords]
        \cup [kind : {"refresh"}, of : Calls, password : Passwords]
        \cup [kind : {"reset"}, link : Links, since : Times]

\* "spared" is history: the token was issued while the password was changing.
Refreshes == [issued : Times, password : Passwords, spared : BOOLEAN]
Accesses == [exp : 0..(MaxTime + AccessLife), password : Passwords, spared : BOOLEAN]

ASSUME TokenAssumption == None \notin Refreshes \cup Accesses

SessionsTypeOK ==
    /\ now \in Times
    /\ password \in Passwords
    /\ modified \in Times
    /\ link \in Links \cup {None}
    /\ requested \in Times \cup {None}
    /\ link = None <=> requested = None
    /\ call \in [Calls -> Reqs]
    /\ session \in [Calls -> Refreshes \cup {None}]
    /\ access \in [Calls -> Accesses \cup {None}]
    /\ sent \in Seq(Links)
    /\ uses \in [Links -> SUBSET Calls]
    /\ mixed \in BOOLEAN

SessionsInit ==
    /\ now = 0
    /\ password = None
    /\ modified = 0
    /\ link = None
    /\ requested = None
    /\ call = [r \in Calls |-> [kind |-> "idle"]]
    /\ session = [r \in Calls |-> None]
    /\ access = [r \in Calls |-> None]
    /\ sent = <<>>
    /\ uses = [k \in Links |-> {}]
    /\ mixed = FALSE

Row == <<password, modified, link, requested>>
Resetting == {r \in Calls : call[r].kind = "reset"}
Answer(r) == call' = [call EXCEPT ![r] = [kind |-> "done"]]

-----------------------------------------------------------------------------
(* Tokens.                                                                 *)

\* RefreshToken::new and AccessToken::new
Refresh(pw, spared) == [issued |-> now, password |-> pw, spared |-> spared]
Access(pw, spared) == [exp |-> now + AccessLife, password |-> pw, spared |-> spared]

\* Mutant: a token of the very second of the change is refused as well.
RefusedSameSecond(token) == modified >= token.issued

\* token_refresh: the expiry is not validated, the age of the password is.
Refused(token) == modified > token.issued

\* The extractor of authenticated requests.
Admitted(token) == token.exp >= now

-----------------------------------------------------------------------------
(* Logins: controllers/auth.rs token, and web_login of an external account. *)

\* The row is found and the password, if one is asked for, compared with it.
LoginRead(r) ==
    /\ call[r].kind = "idle"
    /\ call' = [call EXCEPT ![r] = [kind |-> "login", password |-> password]]
    /\ UNCHANGED <<now, Row, session, access, sent, uses, mixed>>

\* TokenResponse::create_from_user
LoginIssue(r) ==
    LET pw == call[r].password
        spared == pw # password \/ Resetting # {}
    IN  /\ call[r].kind = "login"
        /\ session' = [session EXCEPT ![r] = Refresh(pw, spared)]
        /\ access' = [access EXCEPT ![r] = Access(pw, spared)]
        /\ Answer(r)
        /\ UNCHANGED <<now, Row, sent, uses, mixed>>

RefreshRead(r, s) ==
    /\ call[r].kind = "idle"
    /\ session[s] # None /\ ~Refused(session[s])
    /\ call' = [call EXCEPT ![r] =
                  [kind |-> "refresh", of |-> s, password |-> password]]
    /\ UNCHANGED <<now, Row, session, access, sent, uses, mixed>>

\* TokenResponse::create_from_refresh_token: the refresh token stays the same.
RefreshIssue(r) ==
    LET old == session[call[r].of]
        spared == old.spared \/ call[r].password # password \/ Resetting # {}
    IN  /\ call[r].kind = "refresh"
        /\ access' = [access EXCEPT ![r] = Access(old.password, spared)]
        /\ Answer(r)
        /\ UNCHANGED <<now, Row, session, sent, uses, mixed>>

-----------------------------------------------------------------------------
(* Resets.                                                                 *)

\* Mutant: a link that is there is sent again.
MailLinkAgain(k) ==
    /\ k \notin {sent[n] : n \in DOMAIN sent}
    /\ link' = IF link = None THEN k ELSE link
    /\ requested' = now
    /\ sent' = Append(sent, k)
    /\ mixed' = (mixed \/ Resetting # {})
    /\ UNCHANGED <<now, password, modified, call, session, access, uses>>

\* create, create_password_reset_token: whatever link there was is replaced.
MailLink(k) ==
    /\ k \notin {sent[n] : n \in DOMAIN sent}
    /\ link' = k
    /\ requested' = now
    /\ sent' = Append(sent, k)
    /\ mixed' = (mixed \/ Resetting # {})
    /\ UNCHANGED <<now, password, modified, call, session, access, uses>>

\* find_by_password_reset_token, has_valid_password_reset_token
ResetRead(r, k) ==
    /\ call[r].kind = "idle"
    /\ link = k
    /\ now - requested < LinkLife
    /\ call' = [call EXCEPT ![r] = [kind |-> "reset", link |-> k, since |-> now]]
    /\ mixed' = (mixed \/ Resetting # {})
    /\ UNCHANGED <<now, Row, session, access, sent, uses>>

\* Mutants: the password counts as changed when the link was asked for; the link
\* can be used again; the row keeps the time the link was asked for.
StampedAtRequest(r, at) ==
    /\ password' = r
    /\ modified' = IF requested = None THEN at ELSE requested
    /\ link' = None /\ requested' = None
KeepingLink(r, at) ==
    /\ password' = r
    /\ modified' = at
    /\ UNCHANGED <<link, requested>>

KeepingTime(r, at) ==
    /\ password' = r
    /\ modified' = at
    /\ link' = None
    /\ UNCHANGED requested

\* The update is by id, whatever link the row now has.
NewPassword(r, at) ==
    /\ password' = r
    /\ modified' = at
    /\ link' = None /\ requested' = None

\* consume_password_reset_token hashes the new password, reads the clock, writes
\* the row and, with its commit, answers with a session of the new password.
ResetWrite(r, at) ==
    /\ call[r].kind = "reset"
    /\ at \in call[r].since..now
    /\ NewPassword(r, at)
    /\ session' = [s \in Calls |->
                      IF s = r THEN Refresh(r, FALSE)
                      ELSE IF session[s] # None /\ session[s].issued = at
                      THEN [session[s] EXCEPT !.spared = TRUE]
                      ELSE session[s]]
    /\ access' = [access EXCEPT ![r] = Access(r, FALSE)]
    /\ uses' = [uses EXCEPT ![call[r].link] = @ \cup {r}]
    /\ Answer(r)
    /\ UNCHANGED <<now, sent, mixed>>

-----------------------------------------------------------------------------
Tick ==
    /\ now < MaxTime
    /\ now' = now + 1
    /\ UNCHANGED <<Row, call, session, access, sent, uses, mixed>>

SessionsNext ==
    \/ Tick
    \/ \E k \in Links : MailLink(k)
    \/ \E r \in Calls :
          \/ LoginRead(r)
          \/ LoginIssue(r)
          \/ \E s \in Calls : RefreshRead(r, s)
          \/ RefreshIssue(r)
          \/ \E k \in Links : ResetRead(r, k)
          \/ \E at \in Times : ResetWrite(r, at)

SessionsSpec == SessionsInit /\ [][SessionsNext]_sessionVars

-----------------------------------------------------------------------------
(* What a change of the password is for.                                   *)

\* Once the password is changed, the refresh tokens of earlier logins are refused
\* ("invalidate all refresh tokens", token_refresh).  Excepted are those issued
\* in the second of the change or while it was under way, and resets that
\* overlapped: there the later commit may carry the earlier time.
OldSessionsEnd ==
    \A r \in Calls :
        session[r] # None /\ session[r].password # password
            /\ ~session[r].spared /\ ~mixed
        => Refused(session[r])

\* With the refresh tokens the access tokens end, AccessLife after the change: none
\* of a replaced password is admitted longer.
OldAccessLapses ==
    \A r \in Calls :
        access[r] # None /\ access[r].password # password
            /\ ~access[r].spared /\ ~mixed /\ now > modified + AccessLife
        => ~Admitted(access[r])

\* Whoever logged in with the present password, in the very second of its change
\* too, can go on refreshing, however the resets overlapped.
CurrentSessionsLive ==
    \A r \in Calls :
        session[r] # None /\ session[r].password = password => ~Refused(session[r])

\* A change of the password ends what was obtained with the one before, and
\* nothing else (the second's resolution of password_modified_at decides).
SessionsFollowThePassword ==
    SessionsTypeOK /\ OldSessionsEnd /\ OldAccessLapses /\ CurrentSessionsLive

\* A link changes the password once; only requests that had both found it before
\* either wrote can use it twice.
LinkIsUsedOnce == mixed \/ \A k \in Links : Cardinality(uses[k]) <= 1

\* The link of the last mail is the one that works, until it is used: no earlier
\* link, and no reset by one, takes its place.
LastLinkWorks ==
    ~mixed /\ sent # <<>> =>
        LET last == sent[Len(sent)]
        IN  link = IF uses[last] = {} THEN last ELSE None

\* Of all the links mailed the last works, once (create_password_reset_token,
\* consume_password_reset_token).
LastLinkWorksOnce == LinkIsUsedOnce /\ LastLinkWorks
=============================================================================
