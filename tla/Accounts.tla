------------------------------- MODULE Accounts -------------------------------
(***************************************************************************)
(* The accounts of people, and their membership of organizations:          *)
(* db/src/models/users.rs, organization_invites.rs, organization_users.rs  *)
(* and the handlers that register, invite, add and remove.                 *)
(*                                                                         *)
(* A request is one database transaction.  What it reads and what it       *)
(* writes are two steps wherever another request can commit in between and *)
(* the later one does not look again.  A row that a transaction has        *)
(* updated is locked until it ends; its writes are seen when it commits.   *)
(*                                                                         *)
(* A list of roles is one role here, or none: the handlers test each role  *)
(* of the list on its own, so that an empty list is not tested at all.     *)
(***************************************************************************)
EXTENDS Scopes, Integers, FiniteSets

CONSTANTS
    Ids,            \* ids of user rows
    Admins,         \* the users whose global role is Admin, there from the start
    Addresses,      \* email addresses as people type them
    Lower,          \* to_lowercase: Addresses -> Addresses
    FacebookIds,    \* accounts at the external login provider
    FacebookEmail,  \* FacebookIds -> Addresses
    Orgs,           \* organizations
    FirstInvites,   \* invites that an administrator may have sent before: the address
                    \* and the role
    Granted,        \* the roles that are handed out, or "NoRole" for none
    Rows,           \* ids of organization_users rows
    Invites,        \* ids of organization_invites rows
    Requests,       \* requests about membership and invites, each made once
    Null

ASSUME AdminAssumption == Admins \subseteq Ids
ASSUME LowerAssumption ==
    /\ Lower \in [Addresses -> Addresses]
    /\ \A a \in Addresses : Lower[Lower[a]] = Lower[a]
ASSUME FacebookAssumption == FacebookEmail \in [FacebookIds -> Addresses]
ASSUME RoleAssumption == Granted \subseteq OrgRoles \cup {"NoRole"}
ASSUME FirstAssumption == FirstInvites \subseteq Addresses \X Granted

VARIABLES
    user,       \* users: the email, and whether it is stored as it was typed
    login,      \* external_logins: the user of each external account
    member,     \* organization_users
    invite,     \* organization_invites
    req,        \* what each request has read
    joined,     \* history: who joined by each invite
    raced       \* history: invites that two requests dealt with at once, users
                \* whom two added at once, and addresses that two invited at once

vars == <<user, login, member, invite, req, joined, raced>>

Person == [email : Addresses \cup {Null}, typed : BOOLEAN]
MemberRow == [org : Orgs, user : Ids, role : Granted, by : Ids]
InviteRow ==
    [org : Orgs, inviter : Ids, email : Addresses, user : Ids \cup {Null},
     role : Granted, token : BOOLEAN, expired : BOOLEAN, accepted : {Null, "no", "yes"}]

ASSUME NullAssumption ==
    /\ Null \notin Ids \cup Addresses \cup Orgs \cup Rows \cup Invites \cup {"no", "yes"}
    /\ Null \notin Person \cup MemberRow \cup InviteRow

NewInvite(o, by, a, u, role) ==
    [org |-> o, inviter |-> by, email |-> a, user |-> u, role |-> role, token |-> TRUE,
     expired |-> FALSE, accepted |-> Null]

Idle == [kind |-> "idle"]
Done == [kind |-> "done"]
Inviting ==
    [kind : {"invite"}, org : Orgs, by : Ids, email : Addresses,
     user : Ids \cup {Null}, role : Granted, active : Invites \cup {Null}]
Accepting ==
    [kind : {"accept"}, invite : Invites, org : Orgs, user : Ids, role : Granted,
     by : Ids]
Destroying == [kind : {"destroy"}, invite : Invites]
\* A request that is about to write a membership, as an invite's or on its own.
Joining ==
    [kind : {"join"}, invite : Invites \cup {Null}, org : Orgs, user : Ids,
     role : Granted, by : Ids, row : Rows \cup {Null}]

TypeOK ==
    /\ user \in [Ids -> Person \cup {Null}]
    /\ login \in [FacebookIds -> Ids \cup {Null}]
    /\ member \in [Rows -> MemberRow \cup {Null}]
    /\ invite \in [Invites -> InviteRow \cup {Null}]
    /\ req \in [Requests ->
                   {Idle, Done} \cup Inviting \cup Accepting \cup Destroying \cup Joining]
    /\ joined \in [Invites -> SUBSET Ids]
    /\ raced \subseteq Invites \cup Ids \cup Addresses

Init ==
    /\ user = [u \in Ids |-> IF u \in Admins THEN [email |-> Null, typed |-> FALSE]
                             ELSE Null]
    /\ login = [f \in FacebookIds |-> Null]
    /\ member = [m \in Rows |-> Null]
    /\ \/ invite = [i \in Invites |-> Null]
       \/ \E first \in FirstInvites, by \in Admins, o \in Orgs, i \in Invites :
            invite = [j \in Invites |-> IF j = i THEN NewInvite(o, by, first[1], Null, first[2])
                                        ELSE Null]
    /\ req = [r \in Requests |-> Idle]
    /\ joined = [i \in Invites |-> {}]
    /\ raced = {}

-----------------------------------------------------------------------------
(* People: users.email is unique, and looked up in lower case.             *)

People == {u \in Ids : user[u] # Null}
FindByEmail(a) == {u \in People : user[u].email = Lower[a]}
Taken(a) == a # Null /\ \E u \in People : user[u].email = a

\* NewUser::commit.  Another request's row with this address makes it fail.
NewUser(u, a, typed) ==
    /\ user[u] = Null /\ ~Taken(a)
    /\ user' = [user EXCEPT ![u] = [email |-> a, typed |-> typed]]

\* register, register_and_login
Register(u, a) ==
    /\ NewUser(u, Lower[a], FALSE)
    /\ UNCHANGED <<login, member, invite, req, joined, raced>>

\* user_invites::create, for an address nobody has.
InviteUser(u, a) ==
    /\ FindByEmail(a) = {}
    /\ NewUser(u, Lower[a], FALSE)
    /\ UNCHANGED <<login, member, invite, req, joined, raced>>

\* The box office sells to a guest: create_stub stores the address as typed.
SellToGuest(u, a) ==
    /\ a # Null => FindByEmail(a) = {}
    /\ NewUser(u, a, a # Null)
    /\ UNCHANGED <<login, member, invite, req, joined, raced>>

\* Mutant: the external account is joined to the address, not to the user.
LinkLoginToEmail(u, f) ==
    /\ login[f] = Null
    /\ u \in FindByEmail(FacebookEmail[f])
    /\ login' = [login EXCEPT ![f] = user[u].email]
    /\ UNCHANGED <<user, member, invite, req, joined, raced>>

\* web_login of an external account seen for the first time: it joins the user
\* with its address, or makes one.
LinkLogin(u, f) ==
    /\ login[f] = Null
    /\ u \in FindByEmail(FacebookEmail[f])
    /\ login' = [login EXCEPT ![f] = u]
    /\ UNCHANGED <<user, member, invite, req, joined, raced>>

RegisterByLogin(u, f) ==
    /\ login[f] = Null
    /\ FindByEmail(FacebookEmail[f]) = {}
    /\ NewUser(u, Lower[FacebookEmail[f]], FALSE)
    /\ login' = [login EXCEPT ![f] = u]
    /\ UNCHANGED <<member, invite, req, joined, raced>>

\* Mutant: the new address is stored as it was typed.
ChangeEmailAsTyped(u, a) ==
    /\ u \in People
    /\ user[u].email = a \/ ~Taken(a)
    /\ user' = [user EXCEPT ![u] = [email |-> a, typed |-> FALSE]]
    /\ UNCHANGED <<login, member, invite, req, joined, raced>>

\* update_current_user; a blank address becomes none.
ChangeEmail(u, a) ==
    LET email == IF a = Null THEN Null ELSE Lower[a] IN
    /\ u \in People
    /\ user[u].email = email \/ ~Taken(email)
    /\ user' = [user EXCEPT ![u] = [email |-> email, typed |-> FALSE]]
    /\ UNCHANGED <<login, member, invite, req, joined, raced>>

-----------------------------------------------------------------------------
(* Authority: check_scope_access.                                          *)

MembershipsOf(u, o) ==
    {m \in Rows : member[m] # Null /\ member[m].user = u /\ member[m].org = o}

\* get_roles_for_user takes the first row it finds.
RolesIn(u, o) ==
    IF u \in Admins THEN {"OrgOwner"}
    ELSE {member[m].role : m \in MembershipsOf(u, o)} \ {"NoRole"}

GlobalRoles(u) == IF u \in Admins THEN {"User", "Admin"} ELSE {"User"}

HasScope(u, scope, o) ==
    /\ u \in People
    /\ scope \in ScopesOf(GlobalRoles(u)) \cup ScopesOf(RolesIn(u, o))

\* Mutant: owners may make owners.
NeededScopeOfOwners(role) ==
    IF role \in {"OrgOwner", "OrgAdmin"} THEN "org:admin-users" ELSE "org:users"

\* The scope that handing out, or taking back, a role needs.
NeededScope(role) ==
    CASE role = "OrgOwner" -> "org:admin"
      [] role = "OrgAdmin" -> "org:admin-users"
      [] OTHER -> "org:users"

\* The loop over the roles of a list: whoever has logged in passes an empty one.
MayHandOut(by, role, o) ==
    by \in People /\ (role # "NoRole" => HasScope(by, NeededScope(role), o))

-----------------------------------------------------------------------------
(* Invites.                                                                *)

DealsWith(r, i) ==
    \/ req[r].kind \in {"accept", "join", "destroy"} /\ req[r].invite = i
    \/ req[r].kind = "invite" /\ req[r].active = i

\* A joining request has updated its invite and not committed.
Locked(i) ==
    i # Null /\ \E r \in Requests : req[r].kind = "join" /\ req[r].invite = i

\* Remember that request r and another one deal with i.
Meet(r, i) ==
    raced' = IF i # Null /\ (\E s \in Requests \ {r} : DealsWith(s, i))
             THEN raced \cup {i} ELSE raced

\* find_active_invite_by_email: the token is there, whatever its age and
\* whichever organization sent it.
ActiveInvites(a) ==
    {i \in Invites : invite[i] # Null /\ invite[i].email = a /\ invite[i].token}

\* change_invite_status.  A row that has been deleted is not found, which is no
\* error.
\* Mutants: the token stays; the status is not written.
AnsweredKeepingToken(row, answer) ==
    IF row = Null THEN Null ELSE [row EXCEPT !.accepted = answer]
AnsweredInSilence(row, answer) ==
    IF row = Null THEN Null ELSE [row EXCEPT !.token = FALSE]

Answered(row, answer) ==
    IF row = Null THEN Null ELSE [row EXCEPT !.token = FALSE, !.accepted = answer]

\* An id that no invite has had, as far as anyone remembers.
Unused(i) ==
    invite[i] = Null /\ joined[i] = {} /\ \A r \in Requests : ~DealsWith(r, i)

\* create, up to its first write.
InviteRead(r, by, o, a, role) ==
    /\ req[r] = Idle
    /\ MayHandOut(by, role, o)
    /\ \E u \in IF FindByEmail(a) = {} THEN {Null} ELSE FindByEmail(a),
          i \in IF ActiveInvites(a) = {} THEN {Null} ELSE ActiveInvites(a) :
          /\ req' = [req EXCEPT ![r] =
                        [kind |-> "invite", org |-> o, by |-> by, email |-> a,
                         user |-> u, role |-> role, active |-> i]]
          /\ Meet(r, i)
    /\ UNCHANGED <<user, login, member, invite, joined>>

\* Mutant: the invite that is there stays as it is.
InviteAnew(r, i) ==
    LET q == req[r]
        new == NewInvite(q.org, q.by, q.email, q.user, q.role)
    IN  /\ q.kind = "invite" /\ Unused(i)
        /\ invite' = [invite EXCEPT ![i] = new]
        /\ req' = [req EXCEPT ![r] = Done]
        /\ UNCHANGED <<user, login, member, joined, raced>>

\* It declines the invite it found, inserts its own under the new id i, and
\* commits.
Invite(r, i) ==
    LET q == req[r]
        new == NewInvite(q.org, q.by, q.email, q.user, q.role)
        rival == \E s \in Requests \ {r} : req[s].kind = "invite" /\ req[s].email = q.email
    IN  /\ q.kind = "invite" /\ ~Locked(q.active)
        /\ Unused(i)
        /\ invite' = [j \in Invites |->
                         IF j = i THEN new
                         ELSE IF j = q.active THEN Answered(invite[j], "no")
                         ELSE invite[j]]
        /\ req' = [req EXCEPT ![r] = Done]
        /\ raced' = IF rival THEN raced \cup {q.email} ELSE raced
        /\ UNCHANGED <<user, login, member, joined>>

\* INVITE_EXPIRATION_PERIOD_IN_DAYS have passed.
Expire(i) ==
    /\ invite[i] # Null /\ invite[i].token /\ ~invite[i].expired
    /\ invite' = [invite EXCEPT ![i].expired = TRUE]
    /\ UNCHANGED <<user, login, member, req, joined, raced>>

\* destroy: the invite as it was read must be unanswered; the delete is by id.
DestroyRead(r, by, i) ==
    /\ req[r] = Idle
    /\ invite[i] # Null /\ invite[i].accepted = Null
    /\ MayHandOut(by, invite[i].role, invite[i].org)
    /\ req' = [req EXCEPT ![r] = [kind |-> "destroy", invite |-> i]]
    /\ Meet(r, i)
    /\ UNCHANGED <<user, login, member, invite, joined>>

Destroy(r) ==
    /\ req[r].kind = "destroy" /\ ~Locked(req[r].invite)
    /\ invite' = [invite EXCEPT ![req[r].invite] = Null]
    /\ req' = [req EXCEPT ![r] = Done]
    /\ UNCHANGED <<user, login, member, joined, raced>>

\* accept_request: find_by_token, and whom the invite is for.
ForUser(row, u) ==
    IF row.user # Null THEN row.user = u ELSE user[u].email = row.email

AcceptRead(r, u, i) ==
    /\ req[r] = Idle /\ u \in People
    /\ invite[i] # Null /\ invite[i].token
    /\ invite[i].accepted = Null /\ ~invite[i].expired
    /\ ForUser(invite[i], u)
    /\ req' = [req EXCEPT ![r] =
                  [kind |-> "accept", invite |-> i, org |-> invite[i].org, user |-> u,
                   role |-> invite[i].role, by |-> invite[i].inviter]]
    /\ Meet(r, i)
    /\ UNCHANGED <<user, login, member, invite, joined>>

-----------------------------------------------------------------------------
(* Membership: NewOrganizationUser::commit finds a row, then writes.       *)

\* Mutant: there is no look-up.
NoMembership(u, o) == {Null}

FindMembership(u, o) ==
    IF MembershipsOf(u, o) = {} THEN {Null} ELSE MembershipsOf(u, o)

\* Remember that r and another request add u.
Adding(r, u, o) ==
    raced' = IF \E s \in Requests \ {r} :
                   req[s].kind = "join" /\ req[s].user = u /\ req[s].org = o
             THEN raced \cup {u} ELSE raced

\* accept_request marks the invite by its id, whoever has dealt with it since,
\* and looks for the membership.
AcceptMark(r) ==
    LET q == req[r]
    IN  /\ q.kind = "accept" /\ ~Locked(q.invite)
        /\ \E m \in FindMembership(q.user, q.org) :
              req' = [req EXCEPT ![r] =
                         [kind |-> "join", invite |-> q.invite, org |-> q.org,
                          user |-> q.user, role |-> q.role, by |-> q.by, row |-> m]]
        /\ Adding(r, q.user, q.org)
        /\ UNCHANGED <<user, login, member, invite, joined>>

\* add_or_replace_user
AddRead(r, by, o, u, role) ==
    /\ req[r] = Idle /\ u \in People
    /\ MayHandOut(by, role, o)
    /\ \E m \in FindMembership(u, o) :
          req' = [req EXCEPT ![r] =
                     [kind |-> "join", invite |-> Null, org |-> o, user |-> u,
                      role |-> role, by |-> by, row |-> m]]
    /\ Adding(r, u, o)
    /\ UNCHANGED <<user, login, member, invite, joined>>

NewRow(m) ==
    member[m] = Null /\ \A r \in Requests : req[r].kind = "join" => req[r].row # m

\* The row it found is updated, or a new one m is inserted; commit.
Join(r, m) ==
    LET q == req[r]
    IN  /\ q.kind = "join"
        /\ IF q.row = Null THEN NewRow(m) ELSE m = q.row /\ member[m] # Null
        /\ member' = [member EXCEPT ![m] =
                         [org |-> q.org, user |-> q.user, role |-> q.role, by |-> q.by]]
        /\ invite' = [i \in Invites |->
                         IF i = q.invite THEN Answered(invite[i], "yes") ELSE invite[i]]
        /\ joined' = [i \in Invites |->
                         IF i = q.invite THEN joined[i] \cup {q.user} ELSE joined[i]]
        /\ req' = [req EXCEPT ![r] = Done]
        /\ UNCHANGED <<user, login, raced>>

\* The row it found has been deleted: the update finds nothing, which here is an
\* error, and the request is rolled back.
JoinFails(r) ==
    /\ req[r].kind = "join" /\ req[r].row # Null /\ member[req[r].row] = Null
    /\ req' = [req EXCEPT ![r] = Done]
    /\ UNCHANGED <<user, login, member, invite, joined, raced>>

\* remove_user deletes every row of the user.
Remove(by, o, u) ==
    /\ HasScope(by, "org:users", o)
    /\ MembershipsOf(u, o) # {}
    /\ member' = [m \in Rows |-> IF m \in MembershipsOf(u, o) THEN Null ELSE member[m]]
    /\ UNCHANGED <<user, login, invite, req, joined, raced>>

-----------------------------------------------------------------------------
\* Bound: administrators keep their accounts as they are.
Others == Ids \ Admins

PeopleStep ==
    \E u \in Others :
        \/ \E a \in Addresses : Register(u, a) \/ InviteUser(u, a)
        \/ \E a \in Addresses \cup {Null} : SellToGuest(u, a) \/ ChangeEmail(u, a)
        \/ \E f \in FacebookIds : LinkLogin(u, f) \/ RegisterByLogin(u, f)

InviteStep ==
    \/ \E i \in Invites : Expire(i)
    \/ \E r \in Requests :
          \/ \E by \in Ids, o \in Orgs, a \in Addresses, role \in Granted :
                InviteRead(r, by, o, a, role)
          \/ \E i \in Invites :
                \/ Invite(r, i)
                \/ \E u \in Ids : DestroyRead(r, u, i) \/ AcceptRead(r, u, i)
          \/ Destroy(r)

MemberStep ==
    \/ \E r \in Requests :
          \/ AcceptMark(r)
          \/ \E by, u \in Ids, o \in Orgs, role \in Granted : AddRead(r, by, o, u, role)
          \/ \E m \in Rows : Join(r, m)
          \/ JoinFails(r)
    \/ \E by, u \in Ids, o \in Orgs : Remove(by, o, u)

Next == PeopleStep \/ InviteStep \/ MemberStep

Spec == Init /\ [][Next]_vars

-----------------------------------------------------------------------------
(* What people and organizations are promised.                             *)

\* Whoever has an account with an address is found by it, and is the only one:
\* however the account came about and whatever happened to the address since,
\* it is kept in lower case, which find_by_email looks for.  Guests of the box
\* office are excepted until they edit their address.
FoundByEmail ==
    \A u \in People :
        user[u].email # Null /\ ~user[u].typed => FindByEmail(user[u].email) = {u}

\* An owner of an organization was made one by an administrator of the system,
\* by an invite or directly: a chain of invitations between members of the
\* organization, in any order of requests, never ends in one.
OwnersAreAppointed ==
    \A m \in Rows :
        member[m] # Null /\ member[m].role = "OrgOwner" => member[m].by \in Admins

\* The invite's answer tells what became of it: the one person who joined by it,
\* or nobody.  Promised of invites that were not dealt with by two requests at
\* once; change_invite_status does not look at what it overwrites.
AnswersAreTrue ==
    \A i \in Invites \ raced :
        /\ Cardinality(joined[i]) <= 1
        /\ invite[i] # Null => (invite[i].accepted = "yes" <=> joined[i] # {})

\* An invite by which somebody has joined cannot be read by another request,
\* even if several requests were dealing with it.
SpentInviteIsDead ==
    \A i \in Invites :
        joined[i] # {} /\ invite[i] # Null =>
            ~invite[i].token /\ invite[i].accepted # Null

\* An address has at most one invite that can be accepted (the comment in
\* create), of whichever organization.  Promised of addresses that were never
\* invited twice at the same time: then there are two, of which each later
\* request declines one.
OneActiveInvite ==
    \A a \in Addresses \ raced : \A i, j \in ActiveInvites(a) : i = j

\* A member has one row in the organization, which the get_roles_for_user of
\* the next request reads.  No index makes sure of it: promised of users whom
\* two requests have not added at once.
OneMembership ==
    \A u \in Ids \ raced, o \in Orgs : Cardinality(MembershipsOf(u, o)) <= 1

\* Every look-up of the next request has one answer: the account by its address,
\* the membership by its user, the invite by its address.
LookUpsAreUnique == TypeOK /\ FoundByEmail /\ OneMembership /\ OneActiveInvite

\* An invite is answered once and tells truly how (accept, decline, expiry).
InvitesTellTheTruth == AnswersAreTrue /\ SpentInviteIsDead
=============================================================================
