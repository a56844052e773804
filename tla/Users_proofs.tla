------------------------------ MODULE Users_proofs ------------------------------
(***************************************************************************)
(* Theorems about the users of the system: about Accounts, for any number  *)
(* of people, organizations, invites and overlapping requests, and about   *)
(* Sessions, for any number of requests and links of one user.             *)
(***************************************************************************)
EXTENDS Accounts, Sessions, FiniteSetTheorems, TLAPS

-----------------------------------------------------------------------------
(* Accounts.                                                               *)

\* No two accounts have one address, and it is in lower case unless it was
\* stored as a guest typed it.
EmailsKept ==
    /\ \A u, v \in People : user[u].email # Null /\ user[u].email = user[v].email => u = v
    /\ \A u \in People :
          user[u].email # Null /\ ~user[u].typed => Lower[user[u].email] = user[u].email

\* Whoever hands out the role of an owner, now or in a request that is under
\* way, is an administrator of the system.
Appointed ==
    /\ \A m \in Rows : member[m] # Null /\ member[m].role = "OrgOwner" => member[m].by \in Admins
    /\ \A i \in Invites :
          invite[i] # Null /\ invite[i].role = "OrgOwner" => invite[i].inviter \in Admins
    /\ \A r \in Requests :
          req[r].kind \in {"invite", "accept", "join"} /\ req[r].role = "OrgOwner"
          => req[r].by \in Admins

\* Two joining requests of one user.
Together(r, s) ==
    /\ req[r].kind = "join" /\ req[s].kind = "join"
    /\ req[r].user = req[s].user /\ req[r].org = req[s].org

\* What a joining request has found is still so, unless another one joins.
Memberships ==
    /\ \A u \in Ids \ raced, o \in Orgs : \A m, n \in MembershipsOf(u, o) : m = n
    /\ \A r, s \in Requests : Together(r, s) /\ req[r].user \notin raced => r = s
    /\ \A r \in Requests :
          req[r].kind = "join" =>
             /\ req[r].row = Null /\ req[r].user \notin raced
                   => MembershipsOf(req[r].user, req[r].org) = {}
             /\ req[r].row # Null /\ member[req[r].row] # Null
                   => req[r].row \in MembershipsOf(req[r].user, req[r].org)

\* A request that makes an invite has found the one that is active.
ActiveFound ==
    /\ OneActiveInvite
    /\ \A r \in Requests :
          req[r].kind = "invite" /\ req[r].email \notin raced
          => ActiveInvites(req[r].email) \subseteq {req[r].active}

\* An invite that one request deals with has not been used.
Answers ==
    /\ SpentInviteIsDead
    /\ \A i \in Invites \ raced : \A r, s \in Requests : DealsWith(r, i) /\ DealsWith(s, i) => r = s
    /\ \A i \in Invites \ raced : \A r \in Requests :
          DealsWith(r, i) /\ req[r].kind # "destroy" => joined[i] = {}
    /\ \A i \in Invites \ raced :
          /\ \A u, v \in joined[i] : u = v
          /\ invite[i] # Null => (invite[i].accepted = "yes" <=> joined[i] # {})

AccountsInv == TypeOK /\ EmailsKept /\ Appointed /\ Memberships /\ ActiveFound /\ Answers

-----------------------------------------------------------------------------
(* The kinds of requests and of rows.                                      *)

ReqRows == {Idle, Done} \cup Inviting \cup Accepting \cup Destroying \cup Joining

LEMMA Kinds ==
    ASSUME NEW q \in ReqRows
    PROVE  /\ q.kind = "invite" => q \in Inviting
           /\ q.kind = "accept" => q \in Accepting
           /\ q.kind = "destroy" => q \in Destroying
           /\ q.kind = "join" => q \in Joining
           /\ q.kind \in {"idle", "done", "invite", "accept", "destroy", "join"}
  BY DEF ReqRows, Idle, Done, Inviting, Accepting, Destroying, Joining

LEMMA InvitingFields ==
    ASSUME NEW q \in Inviting
    PROVE  /\ q.kind = "invite" /\ q.org \in Orgs /\ q.by \in Ids /\ q.email \in Addresses
           /\ q.user \in Ids \cup {Null} /\ q.role \in Granted /\ q.active \in Invites \cup {Null}
  BY DEF Inviting

LEMMA AcceptingFields ==
    ASSUME NEW q \in Accepting
    PROVE  /\ q.kind = "accept" /\ q.invite \in Invites /\ q.org \in Orgs /\ q.user \in Ids
           /\ q.role \in Granted /\ q.by \in Ids
  BY DEF Accepting

LEMMA JoiningFields ==
    ASSUME NEW q \in Joining
    PROVE  /\ q.kind = "join" /\ q.invite \in Invites \cup {Null} /\ q.org \in Orgs
           /\ q.user \in Ids /\ q.role \in Granted /\ q.by \in Ids /\ q.row \in Rows \cup {Null}
  BY DEF Joining

LEMMA InviteFields ==
    ASSUME NEW row \in InviteRow
    PROVE  /\ row.org \in Orgs /\ row.inviter \in Ids /\ row.email \in Addresses
           /\ row.user \in Ids \cup {Null} /\ row.role \in Granted
           /\ row.token \in BOOLEAN /\ row.expired \in BOOLEAN /\ row.accepted \in {Null, "no", "yes"}
  BY DEF InviteRow

LEMMA AnsweredFields ==
    ASSUME NEW row \in InviteRow \cup {Null}, NEW answer \in {"no", "yes"}
    PROVE  LET new == Answered(row, answer)
           IN  /\ row # Null => new \in InviteRow /\ new # Null
               /\ row # Null => ~new.token /\ new.accepted = answer
               /\ row # Null => new.role = row.role /\ new.inviter = row.inviter /\ new.email = row.email
               /\ row = Null => new = Null
<1>1. CASE row # Null
  <2>1. Answered(row, answer) = [row EXCEPT !.token = FALSE, !.accepted = answer]
    BY <1>1 DEF Answered
  <2>2. row \in InviteRow
    BY <1>1
  <2>3. Answered(row, answer) \in InviteRow
    BY <2>1, <2>2 DEF InviteRow
  <2> QED BY <1>1, <2>1, <2>2, <2>3, NullAssumption DEF InviteRow
<1>2. CASE row = Null
  BY <1>2 DEF Answered
<1> QED BY <1>1, <1>2

-----------------------------------------------------------------------------
(* Types.                                                                  *)

LEMMA TypedRows ==
    ASSUME TypeOK
    PROVE  /\ \A r \in Requests : req[r] \in ReqRows
           /\ \A i \in Invites : invite[i] \in InviteRow \cup {Null}
           /\ \A m \in Rows : member[m] \in MemberRow \cup {Null}
           /\ \A u \in Ids : user[u] \in Person \cup {Null}
           /\ \A i \in Invites : joined[i] \in SUBSET Ids
           /\ People \subseteq Ids
  BY DEF TypeOK, ReqRows, People

LEMMA FoundAre ==
    ASSUME TypeOK, NEW a
    PROVE  FindByEmail(a) \subseteq Ids /\ ActiveInvites(a) \subseteq Invites
  BY DEF FindByEmail, ActiveInvites, People

LEMMA PeopleTyped ==
    ASSUME TypeOK, PeopleStep
    PROVE  TypeOK'
<1>1. /\ user \in [Ids -> Person \cup {Null}] /\ login \in [FacebookIds -> Ids \cup {Null}]
      /\ UNCHANGED <<member, invite, req, joined, raced>>
  BY DEF TypeOK, PeopleStep, Register, InviteUser, SellToGuest, LinkLogin, RegisterByLogin,
         ChangeEmail
<1>2. ASSUME NEW u \in Ids, NEW a \in Addresses \cup {Null}, NEW typed \in BOOLEAN,
             NewUser(u, a, typed)
      PROVE  user' \in [Ids -> Person \cup {Null}]
  <2>1. [email |-> a, typed |-> typed] \in Person
    BY DEF Person
  <2> QED BY <1>1, <1>2, <2>1 DEF NewUser
<1>3. \A a \in Addresses : Lower[a] \in Addresses
  BY LowerAssumption
<1>4. \A f \in FacebookIds : FacebookEmail[f] \in Addresses
  BY FacebookAssumption
<1>5. PICK u \in Ids :
        \/ \E a \in Addresses : Register(u, a) \/ InviteUser(u, a)
        \/ \E a \in Addresses \cup {Null} : SellToGuest(u, a) \/ ChangeEmail(u, a)
        \/ \E f \in FacebookIds : LinkLogin(u, f) \/ RegisterByLogin(u, f)
  BY DEF PeopleStep, Others
<1>6. CASE \E a \in Addresses : Register(u, a) \/ InviteUser(u, a)
  BY <1>1, <1>2, <1>3, <1>6 DEF Register, InviteUser, TypeOK
<1>7. CASE \E a \in Addresses \cup {Null} : ChangeEmail(u, a)
  <2>1. PICK a \in Addresses \cup {Null} : ChangeEmail(u, a)
    BY <1>7
  <2>2. PICK e : e = IF a = Null THEN Null ELSE Lower[a]
    OBVIOUS
  <2>3. [email |-> e, typed |-> FALSE] \in Person
    BY <1>3, <2>2 DEF Person
  <2> QED BY <1>1, <2>1, <2>2, <2>3 DEF ChangeEmail, TypeOK
<1>8. CASE \E a \in Addresses \cup {Null} : SellToGuest(u, a)
  BY <1>1, <1>2, <1>8 DEF SellToGuest, TypeOK
<1>9. CASE \E f \in FacebookIds : LinkLogin(u, f)
  BY <1>1, <1>9 DEF LinkLogin, TypeOK
<1>10. CASE \E f \in FacebookIds : RegisterByLogin(u, f)
  BY <1>1, <1>2, <1>3, <1>4, <1>10 DEF RegisterByLogin, TypeOK
<1> QED BY <1>5, <1>6, <1>7, <1>8, <1>9, <1>10

LEMMA InviteTyped ==
    ASSUME TypeOK, InviteStep
    PROVE  TypeOK'
<1>1. /\ invite \in [Invites -> InviteRow \cup {Null}] /\ req \in [Requests -> ReqRows]
      /\ raced \subseteq Invites \cup Ids \cup Addresses
      /\ UNCHANGED <<user, login, member, joined>>
  BY DEF TypeOK, ReqRows, InviteStep, Expire, InviteRead, Invite, DestroyRead, AcceptRead, Destroy
<1>2. SUFFICES /\ invite' \in [Invites -> InviteRow \cup {Null}] /\ req' \in [Requests -> ReqRows]
               /\ raced' \subseteq Invites \cup Ids \cup Addresses
  BY <1>1 DEF TypeOK, ReqRows
<1>3. Done \in ReqRows
  BY DEF ReqRows
<1>4. CASE \E i \in Invites : Expire(i)
  <2>1. PICK i \in Invites : Expire(i)
    BY <1>4
  <2>2. invite[i] \in InviteRow
    BY <1>1, <2>1 DEF Expire
  <2>3. [invite[i] EXCEPT !.expired = TRUE] \in InviteRow
    BY <2>2 DEF InviteRow
  <2> QED BY <1>1, <2>1, <2>3 DEF Expire
<1>5. CASE \E r \in Requests, by \in Ids, o \in Orgs, a \in Addresses, role \in Granted :
              InviteRead(r, by, o, a, role)
  <2>1. PICK r \in Requests, by \in Ids, o \in Orgs, a \in Addresses, role \in Granted :
              InviteRead(r, by, o, a, role)
    BY <1>5
  <2>2. PICK u \in IF FindByEmail(a) = {} THEN {Null} ELSE FindByEmail(a),
             i \in IF ActiveInvites(a) = {} THEN {Null} ELSE ActiveInvites(a) :
          /\ req' = [req EXCEPT ![r] =
                        [kind |-> "invite", org |-> o, by |-> by, email |-> a,
                         user |-> u, role |-> role, active |-> i]]
          /\ Meet(r, i)
    BY <2>1 DEF InviteRead
  <2>3. u \in Ids \cup {Null} /\ i \in Invites \cup {Null}
    BY <2>2, FoundAre
  <2>4. [kind |-> "invite", org |-> o, by |-> by, email |-> a,
         user |-> u, role |-> role, active |-> i] \in ReqRows
    BY <2>3 DEF ReqRows, Inviting
  <2>5. raced' \subseteq Invites \cup Ids \cup Addresses
    BY <1>1, <2>2, <2>3 DEF Meet
  <2> QED BY <1>1, <2>1, <2>2, <2>4, <2>5 DEF InviteRead
<1>6. CASE \E r \in Requests, i \in Invites : Invite(r, i)
  <2>1. PICK r \in Requests, i \in Invites : Invite(r, i)
    BY <1>6
  <2> DEFINE q == req[r]
             new == [org |-> q.org, inviter |-> q.by, email |-> q.email, user |-> q.user,
                role |-> q.role, token |-> TRUE, expired |-> FALSE, accepted |-> Null]
  <2>2. q \in Inviting
    BY <1>1, <2>1, Kinds DEF Invite
  <2>3. new \in InviteRow
    BY <2>2, InvitingFields DEF InviteRow
  <2>4. /\ invite' = [j \in Invites |->
                         IF j = i THEN new
                         ELSE IF j = q.active THEN Answered(invite[j], "no")
                         ELSE invite[j]]
        /\ req' = [req EXCEPT ![r] = Done]
        /\ raced' \subseteq raced \cup {q.email}
    BY <2>1 DEF Invite, NewInvite
  <2>5. \A j \in Invites : Answered(invite[j], "no") \in InviteRow \cup {Null}
    BY <1>1, AnsweredFields
  <2> HIDE DEF new
  <2>6. invite' \in [Invites -> InviteRow \cup {Null}]
    BY <1>1, <2>3, <2>4, <2>5
  <2> QED BY <1>1, <1>3, <2>2, <2>4, <2>6, InvitingFields
<1>7. CASE \E r \in Requests, u \in Ids, i \in Invites : DestroyRead(r, u, i)
  <2>1. PICK r \in Requests, u \in Ids, i \in Invites : DestroyRead(r, u, i)
    BY <1>7
  <2>2. [kind |-> "destroy", invite |-> i] \in ReqRows
    BY DEF ReqRows, Destroying
  <2> QED BY <1>1, <2>1, <2>2 DEF DestroyRead, Meet
<1>8. CASE \E r \in Requests, u \in Ids, i \in Invites : AcceptRead(r, u, i)
  <2>1. PICK r \in Requests, u \in Ids, i \in Invites : AcceptRead(r, u, i)
    BY <1>8
  <2>2. invite[i] \in InviteRow
    BY <1>1, <2>1 DEF AcceptRead
  <2>3. [kind |-> "accept", invite |-> i, org |-> invite[i].org, user |-> u,
                   role |-> invite[i].role, by |-> invite[i].inviter] \in ReqRows
    BY <2>2, InviteFields DEF ReqRows, Accepting
  <2> QED BY <1>1, <2>1, <2>3 DEF AcceptRead, Meet
<1>9. CASE \E r \in Requests : Destroy(r)
  BY <1>1, <1>3, <1>9 DEF Destroy
<1> QED BY <1>4, <1>5, <1>6, <1>7, <1>8, <1>9 DEF InviteStep

LEMMA MembershipsFound ==
    ASSUME TypeOK, NEW u, NEW o, NEW m \in FindMembership(u, o)
    PROVE  m \in Rows \cup {Null}
  BY DEF FindMembership, MembershipsOf

LEMMA MemberTyped ==
    ASSUME TypeOK, MemberStep
    PROVE  TypeOK'
<1>1. /\ member \in [Rows -> MemberRow \cup {Null}] /\ req \in [Requests -> ReqRows]
      /\ invite \in [Invites -> InviteRow \cup {Null}] /\ joined \in [Invites -> SUBSET Ids]
      /\ raced \subseteq Invites \cup Ids \cup Addresses
      /\ UNCHANGED <<user, login>>
  BY DEF TypeOK, ReqRows, MemberStep, AcceptMark, AddRead, Join, JoinFails, Remove
<1>2. SUFFICES /\ member' \in [Rows -> MemberRow \cup {Null}] /\ req' \in [Requests -> ReqRows]
               /\ invite' \in [Invites -> InviteRow \cup {Null}]
               /\ joined' \in [Invites -> SUBSET Ids]
               /\ raced' \subseteq Invites \cup Ids \cup Addresses
  BY <1>1 DEF TypeOK, ReqRows
<1>3. Done \in ReqRows
  BY DEF ReqRows
<1>4. CASE \E r \in Requests : AcceptMark(r)
  <2>1. PICK r \in Requests : AcceptMark(r)
    BY <1>4
  <2>2. PICK q : q = req[r]
    OBVIOUS
  <2>3. /\ q.kind = "accept" /\ UNCHANGED <<member, invite, joined>>
        /\ \E m \in FindMembership(q.user, q.org) :
              req' = [req EXCEPT ![r] =
                         [kind |-> "join", invite |-> q.invite, org |-> q.org,
                          user |-> q.user, role |-> q.role, by |-> q.by, row |-> m]]
        /\ Adding(r, q.user, q.org)
    BY <2>1, <2>2 DEF AcceptMark
  <2>4. q \in Accepting
    BY <1>1, <2>2, <2>3, Kinds
  <2>5. \A m \in FindMembership(q.user, q.org) :
           [kind |-> "join", invite |-> q.invite, org |-> q.org,
            user |-> q.user, role |-> q.role, by |-> q.by, row |-> m] \in ReqRows
    BY <2>4, AcceptingFields, MembershipsFound DEF ReqRows, Joining
  <2>6. req' \in [Requests -> ReqRows]
    BY <1>1, <2>3, <2>5
  <2>7. raced' \subseteq Invites \cup Ids \cup Addresses
    BY <1>1, <2>3, <2>4, AcceptingFields DEF Adding
  <2> QED BY <1>1, <2>3, <2>6, <2>7
<1>5. CASE \E r \in Requests, by, u \in Ids, o \in Orgs, role \in Granted :
              AddRead(r, by, o, u, role)
  <2>1. PICK r \in Requests, by \in Ids, u \in Ids, o \in Orgs, role \in Granted :
              AddRead(r, by, o, u, role)
    BY <1>5
  <2>2. \A m \in FindMembership(u, o) :
           [kind |-> "join", invite |-> Null, org |-> o, user |-> u,
            role |-> role, by |-> by, row |-> m] \in ReqRows
    BY MembershipsFound DEF ReqRows, Joining
  <2>3. req' \in [Requests -> ReqRows] /\ UNCHANGED <<member, invite, joined>>
    BY <1>1, <2>1, <2>2 DEF AddRead
  <2>4. raced' \subseteq Invites \cup Ids \cup Addresses
    BY <1>1, <2>1 DEF AddRead, Adding
  <2> QED BY <1>1, <2>3, <2>4
<1>6. CASE \E r \in Requests, m \in Rows : Join(r, m)
  <2>1. PICK r \in Requests, m \in Rows : Join(r, m)
    BY <1>6
  <2>2. PICK q : q = req[r]
    OBVIOUS
  <2>3. /\ q.kind = "join"
        /\ member' = [member EXCEPT ![m] =
                         [org |-> q.org, user |-> q.user, role |-> q.role, by |-> q.by]]
        /\ invite' = [i \in Invites |->
                         IF i = q.invite THEN Answered(invite[i], "yes") ELSE invite[i]]
        /\ joined' = [i \in Invites |->
                         IF i = q.invite THEN joined[i] \cup {q.user} ELSE joined[i]]
        /\ req' = [req EXCEPT ![r] = Done] /\ raced' = raced
    BY <2>1, <2>2 DEF Join
  <2>4. q \in Joining
    BY <1>1, <2>2, <2>3, Kinds
  <2>5. [org |-> q.org, user |-> q.user, role |-> q.role, by |-> q.by] \in MemberRow
    BY <2>4, JoiningFields DEF MemberRow
  <2>6. \A i \in Invites : Answered(invite[i], "yes") \in InviteRow \cup {Null}
    BY <1>1, AnsweredFields
  <2>7. invite' \in [Invites -> InviteRow \cup {Null}]
    BY <1>1, <2>3, <2>6
  <2>8. joined' \in [Invites -> SUBSET Ids]
    BY <1>1, <2>3, <2>4, JoiningFields
  <2>9. member' \in [Rows -> MemberRow \cup {Null}] /\ req' \in [Requests -> ReqRows]
    BY <1>1, <1>3, <2>3, <2>5
  <2> QED BY <1>1, <2>3, <2>7, <2>8, <2>9
<1>7. CASE \E r \in Requests : JoinFails(r)
  BY <1>1, <1>3, <1>7 DEF JoinFails
<1>8. CASE \E by, u \in Ids, o \in Orgs : Remove(by, o, u)
  BY <1>1, <1>8 DEF Remove
<1> QED BY <1>4, <1>5, <1>6, <1>7, <1>8 DEF MemberStep

-----------------------------------------------------------------------------
(* The addresses of people.                                                *)

\* An address that nobody has is taken by one account.
LEMMA NewUserKept ==
    ASSUME TypeOK, EmailsKept, NEW u \in Ids, NEW a, NEW typed,
           a # Null /\ ~typed => Lower[a] = a, NewUser(u, a, typed)
    PROVE  EmailsKept'
<1>1. /\ user[u] = Null /\ user' = [user EXCEPT ![u] = [email |-> a, typed |-> typed]]
      /\ user \in [Ids -> Person \cup {Null}]
      /\ \A v \in Ids : a # Null /\ user[v] # Null => user[v].email # a
  BY DEF NewUser, Taken, People, TypeOK
<1>2. /\ user'[u].email = a /\ user'[u].typed = typed
      /\ \A v \in Ids \ {u} : user'[v] = user[v]
  BY <1>1
<1>3. \A v \in Ids \ {u} : v \in People' => v \in People
  BY <1>2 DEF People
<1>4. ASSUME NEW v \in People', NEW w \in People', user'[v].email # Null,
             user'[v].email = user'[w].email
      PROVE  v = w
  BY <1>1, <1>2, <1>3, <1>4 DEF EmailsKept, People
<1>5. ASSUME NEW v \in People', user'[v].email # Null, ~user'[v].typed
      PROVE  Lower[user'[v].email] = user'[v].email
  BY <1>2, <1>3, <1>5 DEF EmailsKept, People
<1> QED BY <1>4, <1>5 DEF EmailsKept

LEMMA EmailChanged ==
    ASSUME TypeOK, EmailsKept, NEW u \in Ids, NEW a \in Addresses \cup {Null}, ChangeEmail(u, a)
    PROVE  EmailsKept'
<1> PICK e : e = IF a = Null THEN Null ELSE Lower[a]
  OBVIOUS
<1>1. /\ user \in [Ids -> Person \cup {Null}] /\ u \in People
      /\ user' = [user EXCEPT ![u] = [email |-> e, typed |-> FALSE]]
      /\ e # Null => Lower[e] = e
  BY LowerAssumption, NullAssumption DEF TypeOK, ChangeEmail
<1>2. e # Null => \A v \in People : v # u => user[v].email # e
  <2>1. CASE user[u].email = e
    BY <1>1, <2>1 DEF EmailsKept
  <2>2. CASE ~Taken(e)
    BY <1>1, <2>2 DEF Taken
  <2> QED BY <2>1, <2>2 DEF ChangeEmail
<1>3. /\ user'[u].email = e /\ ~user'[u].typed
      /\ \A v \in Ids \ {u} : user'[v] = user[v]
  BY <1>1
<1>4. \A v \in Ids \ {u} : v \in People' => v \in People
  BY <1>3 DEF People
<1>5. ASSUME NEW v \in People', NEW w \in People', user'[v].email # Null,
             user'[v].email = user'[w].email
      PROVE  v = w
  BY <1>1, <1>2, <1>3, <1>4, <1>5 DEF EmailsKept, People
<1>6. ASSUME NEW v \in People', user'[v].email # Null, ~user'[v].typed
      PROVE  Lower[user'[v].email] = user'[v].email
  BY <1>1, <1>3, <1>4, <1>6 DEF EmailsKept, People
<1> QED BY <1>5, <1>6 DEF EmailsKept

LEMMA PeopleKeepEmails ==
    ASSUME TypeOK, EmailsKept, PeopleStep
    PROVE  EmailsKept'
<1>1. PICK u \in Ids :
        \/ \E a \in Addresses : Register(u, a) \/ InviteUser(u, a)
        \/ \E a \in Addresses \cup {Null} : SellToGuest(u, a) \/ ChangeEmail(u, a)
        \/ \E f \in FacebookIds : LinkLogin(u, f) \/ RegisterByLogin(u, f)
  BY DEF PeopleStep, Others
<1>2. \A a \in Addresses : Lower[a] \in Addresses /\ Lower[Lower[a]] = Lower[a]
  BY LowerAssumption
<1>3. \A f \in FacebookIds : FacebookEmail[f] \in Addresses
  BY FacebookAssumption
<1>4. CASE \E a \in Addresses : Register(u, a) \/ InviteUser(u, a)
  BY <1>2, <1>4, NewUserKept DEF Register, InviteUser
<1>5. CASE \E a \in Addresses \cup {Null} : ChangeEmail(u, a)
  BY <1>5, EmailChanged
<1>6. CASE \E a \in Addresses \cup {Null} : SellToGuest(u, a)
  BY <1>6, NewUserKept DEF SellToGuest
<1>7. CASE \E f \in FacebookIds : LinkLogin(u, f)
  BY <1>7 DEF LinkLogin, EmailsKept, People
<1>8. CASE \E f \in FacebookIds : RegisterByLogin(u, f)
  BY <1>2, <1>3, <1>8, NewUserKept DEF RegisterByLogin
<1> QED BY <1>1, <1>4, <1>5, <1>6, <1>7, <1>8

-----------------------------------------------------------------------------
(* Who hands out the role of an owner.                                     *)

\* Of the scopes, "org:admin" is an administrator's alone.
LEMMA OwnersHaveNoAdmin ==
    ASSUME NEW role \in OrgRoles \cup {"User"}
    PROVE  "org:admin" \notin RoleScopes[role]
<1>1. "org:admin" \notin OwnerScopes
  BY DEF OwnerScopes, OrgAdminScopes, MemberScopes, BoxOfficeScopes, DoorPersonScopes, UserScopes
<1>2. /\ UserScopes \subseteq OwnerScopes /\ DoorPersonScopes \subseteq OwnerScopes
      /\ BoxOfficeScopes \subseteq OwnerScopes /\ MemberScopes \subseteq OwnerScopes
      /\ OrgAdminScopes \subseteq OwnerScopes
  BY DEF OwnerScopes, OrgAdminScopes, MemberScopes, BoxOfficeScopes
<1>3. RoleScopes[role] \subseteq OwnerScopes
  BY <1>2 DEF RoleScopes, OrgRoles
<1> QED BY <1>1, <1>3

LEMMA AdminsAreMeant ==
    ASSUME TypeOK, NEW u \in Ids, NEW o, HasScope(u, "org:admin", o)
    PROVE  u \in Admins
<1> SUFFICES ASSUME u \notin Admins PROVE FALSE
  OBVIOUS
<1>1. /\ GlobalRoles(u) = {"User"}
      /\ RolesIn(u, o) = {member[m].role : m \in MembershipsOf(u, o)} \ {"NoRole"}
  BY DEF GlobalRoles, RolesIn
<1>2. ASSUME NEW m \in MembershipsOf(u, o)
      PROVE  member[m].role \in OrgRoles \cup {"NoRole"}
  <2>1. member[m] \in MemberRow
    BY TypedRows DEF MembershipsOf
  <2> QED BY <2>1, RoleAssumption DEF MemberRow
<1>3. GlobalRoles(u) \cup RolesIn(u, o) \subseteq OrgRoles \cup {"User"}
  BY <1>1, <1>2
<1>4. PICK role \in GlobalRoles(u) \cup RolesIn(u, o) : "org:admin" \in RoleScopes[role]
  BY DEF HasScope, ScopesOf
<1> QED BY <1>3, <1>4, OwnersHaveNoAdmin

LEMMA PeopleAppoint ==
    ASSUME Appointed, PeopleStep
    PROVE  Appointed'
  BY DEF Appointed, PeopleStep, Register, InviteUser, SellToGuest, LinkLogin, RegisterByLogin,
         ChangeEmail

LEMMA InviteAppoints ==
    ASSUME TypeOK, Appointed, NEW r \in Requests, NEW i \in Invites, Invite(r, i)
    PROVE  Appointed'
<1>1. PICK q : q = req[r]
  OBVIOUS
<1>2. PICK new : new = [org |-> q.org, inviter |-> q.by, email |-> q.email, user |-> q.user,
                role |-> q.role, token |-> TRUE, expired |-> FALSE, accepted |-> Null]
  OBVIOUS
<1>3. /\ q.kind = "invite"
      /\ invite' = [j \in Invites |->
                         IF j = i THEN new
                         ELSE IF j = q.active THEN Answered(invite[j], "no")
                         ELSE invite[j]]
      /\ req' = [req EXCEPT ![r] = Done] /\ member' = member
  BY <1>1, <1>2 DEF Invite, NewInvite
<1>4. new.role = q.role /\ new.inviter = q.by /\ (q.role = "OrgOwner" => q.by \in Admins)
  BY <1>1, <1>2, <1>3 DEF Appointed
<1>5. ASSUME NEW j \in Invites, invite'[j] # Null, invite'[j].role = "OrgOwner"
      PROVE  invite'[j].inviter \in Admins
  <2>1. CASE j = i
    BY <1>3, <1>4, <1>5, <2>1
  <2>2. CASE j # i
    <3>1. invite[j] # Null /\ invite'[j].role = invite[j].role /\ invite'[j].inviter = invite[j].inviter
      BY <1>3, <1>5, <2>2, TypedRows, AnsweredFields
    <3> QED BY <1>5, <3>1 DEF Appointed
  <2> QED BY <2>1, <2>2
<1>6. \A s \in Requests : req'[s] = req[s] \/ req'[s].kind = "done"
  BY <1>3, TypedRows DEF Done, TypeOK
<1> QED BY <1>3, <1>5, <1>6 DEF Appointed

LEMMA InvitesAppoint ==
    ASSUME TypeOK, Appointed, InviteStep
    PROVE  Appointed'
<1>1. CASE \E i \in Invites : Expire(i)
  <2>1. PICK i \in Invites : Expire(i)
    BY <1>1
  <2>2. /\ member' = member /\ req' = req
        /\ \A j \in Invites : invite'[j] # Null =>
              invite[j] # Null /\ invite'[j].role = invite[j].role /\ invite'[j].inviter = invite[j].inviter
    <3>1. invite[i] \in InviteRow /\ invite \in [Invites -> InviteRow \cup {Null}]
      BY <2>1, TypedRows DEF Expire, TypeOK
    <3>2. PICK row : row = invite[i]
      OBVIOUS
    <3>3. PICK new : new = [row EXCEPT !.expired = TRUE]
      OBVIOUS
    <3>4. new.role = row.role /\ new.inviter = row.inviter
      BY <3>1, <3>2, <3>3 DEF InviteRow
    <3> QED BY <2>1, <3>1, <3>2, <3>3, <3>4 DEF Expire
  <2> QED BY <2>2 DEF Appointed
<1>2. CASE \E r \in Requests, by \in Ids, o \in Orgs, a \in Addresses, role \in Granted :
              InviteRead(r, by, o, a, role)
  <2>1. PICK r \in Requests, by \in Ids, o \in Orgs, a \in Addresses, role \in Granted :
              InviteRead(r, by, o, a, role)
    BY <1>2
  <2>2. role = "OrgOwner" => by \in Admins
    BY <2>1, AdminsAreMeant DEF InviteRead, MayHandOut, NeededScope
  <2>3. PICK q : req' = [req EXCEPT ![r] = q] /\ q.role = role /\ q.by = by
    <3>1. PICK u, i : req' = [req EXCEPT ![r] =
                        [kind |-> "invite", org |-> o, by |-> by, email |-> a,
                         user |-> u, role |-> role, active |-> i]]
      BY <2>1 DEF InviteRead
    <3>2. PICK q : q = [kind |-> "invite", org |-> o, by |-> by, email |-> a,
                        user |-> u, role |-> role, active |-> i]
      OBVIOUS
    <3>3. q.role = role /\ q.by = by /\ req' = [req EXCEPT ![r] = q]
      BY <3>1, <3>2
    <3> QED BY <3>3
  <2>4. /\ member' = member /\ invite' = invite
        /\ \A s \in Requests : req'[s] = req[s] \/ (req'[s].role = role /\ req'[s].by = by)
    BY <2>1, <2>3 DEF InviteRead, TypeOK
  <2> QED BY <2>2, <2>4 DEF Appointed
<1>3. CASE \E r \in Requests, i \in Invites : Invite(r, i)
  BY <1>3, InviteAppoints
<1>4. CASE \E r \in Requests, u \in Ids, i \in Invites : DestroyRead(r, u, i)
  <2>1. PICK r \in Requests, u \in Ids, i \in Invites : DestroyRead(r, u, i)
    BY <1>4
  <2>2. /\ member' = member /\ invite' = invite
        /\ \A s \in Requests : req'[s] = req[s] \/ req'[s].kind = "destroy"
    BY <2>1 DEF DestroyRead, TypeOK
  <2> QED BY <2>2 DEF Appointed
<1>5. CASE \E r \in Requests, u \in Ids, i \in Invites : AcceptRead(r, u, i)
  <2>1. PICK r \in Requests, u \in Ids, i \in Invites : AcceptRead(r, u, i)
    BY <1>5
  <2>2. /\ member' = member /\ invite' = invite /\ invite[i] # Null
        /\ \A s \in Requests : req'[s] = req[s]
              \/ (req'[s].role = invite[i].role /\ req'[s].by = invite[i].inviter)
    BY <2>1 DEF AcceptRead, TypeOK
  <2> QED BY <2>2 DEF Appointed
<1>6. CASE \E r \in Requests : Destroy(r)
  <2>1. PICK r \in Requests : Destroy(r)
    BY <1>6
  <2>2. PICK i : i = req[r].invite
    OBVIOUS
  <2>3. /\ member' = member /\ invite' = [invite EXCEPT ![i] = Null]
        /\ \A s \in Requests : req'[s] = req[s] \/ req'[s].kind = "done"
    BY <2>1, <2>2 DEF Destroy, Done, TypeOK
  <2>4. \A j \in Invites : invite'[j] = invite[j] \/ invite'[j] = Null
    BY <2>3 DEF TypeOK
  <2> QED BY <2>3, <2>4 DEF Appointed
<1> QED BY <1>1, <1>2, <1>3, <1>4, <1>5, <1>6 DEF InviteStep

LEMMA MembersAppoint ==
    ASSUME TypeOK, Appointed, MemberStep
    PROVE  Appointed'
<1>1. CASE \E r \in Requests : AcceptMark(r)
  <2>1. PICK r \in Requests : AcceptMark(r)
    BY <1>1
  <2>2. PICK q : q = req[r]
    OBVIOUS
  <2>3. PICK p : req' = [req EXCEPT ![r] = p] /\ p.role = q.role /\ p.by = q.by
    BY <2>1, <2>2 DEF AcceptMark
  <2>4. /\ member' = member /\ invite' = invite /\ req[r].kind = "accept"
        /\ \A s \in Requests : req'[s] = req[s]
              \/ (req'[s].role = req[r].role /\ req'[s].by = req[r].by)
    BY <2>1, <2>2, <2>3 DEF AcceptMark, TypeOK
  <2> QED BY <2>4 DEF Appointed
<1>2. CASE \E r \in Requests, by, u \in Ids, o \in Orgs, role \in Granted :
              AddRead(r, by, o, u, role)
  <2>1. PICK r \in Requests, by \in Ids, u \in Ids, o \in Orgs, role \in Granted :
              AddRead(r, by, o, u, role)
    BY <1>2
  <2>2. role = "OrgOwner" => by \in Admins
    BY <2>1, AdminsAreMeant DEF AddRead, MayHandOut, NeededScope
  <2>3. PICK q : req' = [req EXCEPT ![r] = q] /\ q.role = role /\ q.by = by
    <3>1. PICK m : req' = [req EXCEPT ![r] =
                     [kind |-> "join", invite |-> Null, org |-> o, user |-> u,
                      role |-> role, by |-> by, row |-> m]]
      BY <2>1 DEF AddRead
    <3>2. PICK q : q = [kind |-> "join", invite |-> Null, org |-> o, user |-> u,
                        role |-> role, by |-> by, row |-> m]
      OBVIOUS
    <3>3. q.role = role /\ q.by = by /\ req' = [req EXCEPT ![r] = q]
      BY <3>1, <3>2
    <3> QED BY <3>3
  <2>4. /\ member' = member /\ invite' = invite
        /\ \A s \in Requests : req'[s] = req[s] \/ (req'[s].role = role /\ req'[s].by = by)
    BY <2>1, <2>3 DEF AddRead, TypeOK
  <2> QED BY <2>2, <2>4 DEF Appointed
<1>3. CASE \E r \in Requests, m \in Rows : Join(r, m)
  <2>1. PICK r \in Requests, m \in Rows : Join(r, m)
    BY <1>3
  <2>2. PICK q : q = req[r]
    OBVIOUS
  <2>3. PICK new : new = [org |-> q.org, user |-> q.user, role |-> q.role, by |-> q.by]
    OBVIOUS
  <2>4. /\ q.kind = "join" /\ member' = [member EXCEPT ![m] = new]
        /\ invite' = [i \in Invites |->
                         IF i = q.invite THEN Answered(invite[i], "yes") ELSE invite[i]]
        /\ req' = [req EXCEPT ![r] = Done]
    BY <2>1, <2>2, <2>3 DEF Join
  <2>5. \A s \in Requests : req'[s] = req[s] \/ req'[s].kind = "done"
    BY <2>4 DEF Done, TypeOK
  <2>6. \A i \in Invites : invite'[i] # Null =>
           /\ invite[i] # Null
           /\ invite'[i].role = invite[i].role /\ invite'[i].inviter = invite[i].inviter
    BY <2>4, TypedRows, AnsweredFields
  <2>7. q.role = "OrgOwner" => q.by \in Admins
    BY <2>1, <2>2, <2>4 DEF Appointed
  <2>8. \A n \in Rows : member'[n] = member[n] \/ (member'[n].role = q.role /\ member'[n].by = q.by)
    BY <2>3, <2>4 DEF TypeOK
  <2> QED BY <2>5, <2>6, <2>7, <2>8 DEF Appointed
<1>4. CASE \E r \in Requests : JoinFails(r)
  <2>1. PICK r \in Requests : JoinFails(r)
    BY <1>4
  <2>2. /\ member' = member /\ invite' = invite
        /\ \A s \in Requests : req'[s] = req[s] \/ req'[s].kind = "done"
    BY <2>1 DEF JoinFails, Done, TypeOK
  <2> QED BY <2>2 DEF Appointed
<1>5. CASE \E by, u \in Ids, o \in Orgs : Remove(by, o, u)
  <2>1. /\ invite' = invite /\ req' = req
        /\ \A n \in Rows : member'[n] = member[n] \/ member'[n] = Null
    BY <1>5 DEF Remove, TypeOK
  <2> QED BY <2>1 DEF Appointed
<1> QED BY <1>1, <1>2, <1>3, <1>4, <1>5 DEF MemberStep

-----------------------------------------------------------------------------
(* Memberships.                                                            *)

\* A step that touches no membership and starts no joining request.
LEMMA MembershipsLeft ==
    ASSUME Memberships, member' = member, raced \subseteq raced',
           \A s \in Requests : req'[s] = req[s] \/ req'[s].kind # "join"
    PROVE  Memberships'
<1>1. \A u, o : MembershipsOf(u, o)' = MembershipsOf(u, o)
  BY DEF MembershipsOf
<1>2. \A s \in Requests : req'[s].kind = "join" => req'[s] = req[s]
  OBVIOUS
<1>3. ASSUME NEW u \in Ids \ raced', NEW o \in Orgs,
             NEW m \in MembershipsOf(u, o)', NEW n \in MembershipsOf(u, o)'
      PROVE  m = n
  BY <1>1 DEF Memberships
<1>4. ASSUME NEW s \in Requests, NEW t \in Requests, Together(s, t)', req'[s].user \notin raced'
      PROVE  s = t
  BY <1>2, <1>4 DEF Memberships, Together
<1>5. ASSUME NEW s \in Requests, req'[s].kind = "join"
      PROVE  /\ req'[s].row = Null /\ req'[s].user \notin raced'
                   => MembershipsOf(req[s].user, req[s].org)' = {}
             /\ req'[s].row # Null /\ member'[req'[s].row] # Null
                   => req'[s].row \in MembershipsOf(req[s].user, req[s].org)'
  BY <1>1, <1>2, <1>5 DEF Memberships
<1> QED BY <1>3, <1>4, <1>5 DEF Memberships

LEMMA PeopleLeaveMembers ==
    ASSUME Memberships, PeopleStep
    PROVE  Memberships'
<1>1. UNCHANGED <<member, invite, req, joined, raced>>
  BY DEF PeopleStep, Register, InviteUser, SellToGuest, LinkLogin, RegisterByLogin, ChangeEmail
<1> QED BY <1>1, MembershipsLeft

LEMMA InvitesLeaveMembers ==
    ASSUME TypeOK, Memberships, InviteStep
    PROVE  Memberships'
<1>1. /\ member' = member /\ raced \subseteq raced'
      /\ \A s \in Requests : req'[s] = req[s] \/ req'[s].kind # "join"
  <2>0. \A q : \A s \in Requests : req' = [req EXCEPT ![s] = q] => \A t \in Requests : req'[t] = IF t = s THEN q ELSE req[t]
    BY DEF TypeOK
  <2>1. CASE \E i \in Invites : Expire(i)
    BY <2>1 DEF Expire
  <2>2. CASE \E r \in Requests, by \in Ids, o \in Orgs, a \in Addresses, role \in Granted :
                InviteRead(r, by, o, a, role)
    <3>1. PICK r \in Requests, by \in Ids, o \in Orgs, a \in Addresses, role \in Granted :
                InviteRead(r, by, o, a, role)
      BY <2>2
    <3>2. PICK u, i : /\ req' = [req EXCEPT ![r] =
                        [kind |-> "invite", org |-> o, by |-> by, email |-> a,
                         user |-> u, role |-> role, active |-> i]]
                      /\ Meet(r, i)
      BY <3>1 DEF InviteRead
    <3>3. PICK q : q = [kind |-> "invite", org |-> o, by |-> by, email |-> a,
                        user |-> u, role |-> role, active |-> i]
      OBVIOUS
    <3>4. q.kind = "invite" /\ req' = [req EXCEPT ![r] = q] /\ member' = member
      BY <3>1, <3>2, <3>3 DEF InviteRead
    <3> QED BY <2>0, <3>2, <3>4 DEF Meet
  <2>3. CASE \E r \in Requests, i \in Invites : Invite(r, i)
    BY <2>0, <2>3 DEF Invite, Done
  <2>4. CASE \E r \in Requests, u \in Ids, i \in Invites : DestroyRead(r, u, i)
    <3>1. PICK r, q, i :
             r \in Requests /\ req' = [req EXCEPT ![r] = q] /\ q.kind = "destroy" /\ Meet(r, i) /\ member' = member
      BY <2>4 DEF DestroyRead
    <3> QED BY <2>0, <3>1 DEF Meet
  <2>5. CASE \E r \in Requests, u \in Ids, i \in Invites : AcceptRead(r, u, i)
    <3>1. PICK r, q, i :
             r \in Requests /\ req' = [req EXCEPT ![r] = q] /\ q.kind = "accept" /\ Meet(r, i) /\ member' = member
      BY <2>5 DEF AcceptRead
    <3> QED BY <2>0, <3>1 DEF Meet
  <2>6. CASE \E r \in Requests : Destroy(r)
    BY <2>0, <2>6 DEF Destroy, Done
  <2> QED BY <2>1, <2>2, <2>3, <2>4, <2>5, <2>6 DEF InviteStep
<1> QED BY <1>1, MembershipsLeft

\* A request that starts to join is remembered with the other one that does.
LEMMA MembershipsSought ==
    ASSUME TypeOK, Memberships, NEW r \in Requests, NEW u \in Ids, NEW o \in Orgs,
           NEW row \in FindMembership(u, o), NEW q,
           q.kind = "join", q.user = u, q.org = o, q.row = row,
           req' = [req EXCEPT ![r] = q], member' = member, Adding(r, u, o)
    PROVE  Memberships'
<1>1. \A v, p : MembershipsOf(v, p)' = MembershipsOf(v, p)
  BY DEF MembershipsOf
<1>2. /\ raced \subseteq raced' /\ req'[r] = q /\ \A s \in Requests \ {r} : req'[s] = req[s]
      /\ \A s \in Requests \ {r} :
            req[s].kind = "join" /\ req[s].user = u /\ req[s].org = o => u \in raced'
  BY DEF Adding, TypeOK
<1>3. ASSUME NEW v \in Ids \ raced', NEW p \in Orgs,
             NEW m \in MembershipsOf(v, p)', NEW n \in MembershipsOf(v, p)'
      PROVE  m = n
  BY <1>1, <1>2 DEF Memberships
<1>4. ASSUME NEW s \in Requests, NEW t \in Requests, Together(s, t)', req'[s].user \notin raced'
      PROVE  s = t
  <2>1. CASE s # r /\ t # r
    BY <1>2, <1>4, <2>1 DEF Memberships, Together
  <2>2. CASE s = r /\ t # r
    BY <1>2, <1>4, <2>2 DEF Together
  <2>3. CASE s # r /\ t = r
    BY <1>2, <1>4, <2>3 DEF Together
  <2> QED BY <2>1, <2>2, <2>3
<1>5. ASSUME NEW s \in Requests, req'[s].kind = "join"
      PROVE  /\ req'[s].row = Null /\ req'[s].user \notin raced'
                   => MembershipsOf(req[s].user, req[s].org)' = {}
             /\ req'[s].row # Null /\ member'[req'[s].row] # Null
                   => req'[s].row \in MembershipsOf(req[s].user, req[s].org)'
  <2>1. CASE s # r
    BY <1>1, <1>2, <1>5, <2>1 DEF Memberships
  <2>2. CASE s = r
    <3>1. row = Null => MembershipsOf(u, o) = {}
      BY NullAssumption DEF FindMembership, MembershipsOf
    <3>2. row # Null => row \in MembershipsOf(u, o)
      BY DEF FindMembership
    <3> QED BY <1>1, <1>2, <2>2, <3>1, <3>2
  <2> QED BY <2>1, <2>2
<1> QED BY <1>3, <1>4, <1>5 DEF Memberships

\* The row that a request writes is the user's, or the user has none.
LEMMA MembershipWritten ==
    ASSUME TypeOK, Memberships, NEW r \in Requests, NEW m \in Rows, Join(r, m)
    PROVE  Memberships'
<1>1. PICK q : q = req[r]
  OBVIOUS
<1>2. PICK new : new = [org |-> q.org, user |-> q.user, role |-> q.role, by |-> q.by]
  OBVIOUS
<1>3. /\ q.kind = "join" /\ member' = [member EXCEPT ![m] = new] /\ raced' = raced
      /\ req' = [req EXCEPT ![r] = Done]
      /\ IF q.row = Null THEN NewRow(m) ELSE m = q.row /\ member[m] # Null
  BY <1>1, <1>2 DEF Join
<1>4. q \in Joining
  BY <1>1, <1>3, Kinds, TypedRows
<1>5. /\ member'[m] = new /\ new # Null /\ new.user = q.user /\ new.org = q.org
      /\ \A n \in Rows \ {m} : member'[n] = member[n]
  <2>1. new \in MemberRow
    BY <1>2, <1>4, JoiningFields DEF MemberRow
  <2> QED BY <1>2, <1>3, <2>1, NullAssumption DEF TypeOK
<1>6. /\ \A s \in Requests \ {r} : req'[s] = req[s]
      /\ req'[r].kind # "join"
  BY <1>3 DEF Done, TypeOK
<1>7. q.row # Null => m \in MembershipsOf(q.user, q.org)
  BY <1>1, <1>3 DEF Memberships
<1>8. q.row = Null => member[m] = Null /\ \A s \in Requests : req[s].kind = "join" => req[s].row # m
  BY <1>3 DEF NewRow
<1>9. \A v, p, n : n \in MembershipsOf(v, p)' =>
         n \in MembershipsOf(v, p) \/ (n = m /\ v = q.user /\ p = q.org)
  BY <1>5 DEF MembershipsOf
<1>10. q.row = Null /\ q.user \notin raced => MembershipsOf(q.user, q.org) = {}
  BY <1>1, <1>3 DEF Memberships
<1>11. ASSUME NEW v \in Ids \ raced', NEW p \in Orgs,
              NEW n \in MembershipsOf(v, p)', NEW k \in MembershipsOf(v, p)'
       PROVE  n = k
  <2>1. CASE v = q.user /\ p = q.org
    BY <1>3, <1>7, <1>9, <1>10, <2>1 DEF Memberships
  <2>2. CASE ~(v = q.user /\ p = q.org)
    BY <1>3, <1>9, <2>2 DEF Memberships
  <2> QED BY <2>1, <2>2
<1>12. ASSUME NEW s \in Requests, NEW t \in Requests, Together(s, t)', req'[s].user \notin raced'
       PROVE  s = t
  BY <1>3, <1>6, <1>12 DEF Memberships, Together
<1>13. ASSUME NEW s \in Requests, req'[s].kind = "join"
       PROVE  /\ req'[s].row = Null /\ req'[s].user \notin raced'
                    => MembershipsOf(req[s].user, req[s].org)' = {}
              /\ req'[s].row # Null /\ member'[req'[s].row] # Null
                    => req'[s].row \in MembershipsOf(req[s].user, req[s].org)'
  <2>1. s # r /\ req'[s] = req[s] /\ req[s].kind = "join"
    BY <1>6, <1>13
  <2>2. CASE req[s].row = Null /\ req[s].user \notin raced
    <3>1. MembershipsOf(req[s].user, req[s].org) = {}
      BY <2>1, <2>2 DEF Memberships
    <3>2. ~(req[s].user = q.user /\ req[s].org = q.org)
      BY <1>1, <1>3, <2>1, <2>2 DEF Memberships, Together
    <3> QED BY <1>9, <2>1, <2>2, <3>1, <3>2
  <2>3. CASE req[s].row # Null /\ member'[req[s].row] # Null
    <3>1. req[s].row \in Rows
      BY <2>1, <2>3, Kinds, JoiningFields, TypedRows
    <3>2. CASE req[s].row = m
      <4>1. q.row = m /\ member[m] # Null
        BY <1>3, <1>8, <2>1, <3>2
      <4>2. m \in MembershipsOf(req[s].user, req[s].org)
        BY <2>1, <2>3, <3>2, <4>1 DEF Memberships
      <4>3. req[s].user = q.user /\ req[s].org = q.org
        BY <1>7, <2>3, <3>2, <4>1, <4>2 DEF MembershipsOf
      <4> QED BY <1>5, <2>1, <2>3, <3>2, <4>3 DEF MembershipsOf
    <3>3. CASE req[s].row # m
      <4>1. member'[req[s].row] = member[req[s].row]
        BY <1>5, <3>1, <3>3
      <4>2. req[s].row \in MembershipsOf(req[s].user, req[s].org)
        BY <2>1, <2>3, <4>1 DEF Memberships
      <4> QED BY <2>1, <2>3, <4>1, <4>2 DEF MembershipsOf
    <3> QED BY <3>2, <3>3
  <2> QED BY <1>3, <2>1, <2>2, <2>3
<1> QED BY <1>11, <1>12, <1>13 DEF Memberships

LEMMA MembershipsRemoved ==
    ASSUME TypeOK, Memberships, NEW by, NEW o, NEW u, Remove(by, o, u)
    PROVE  Memberships'
<1>1. /\ req' = req /\ raced' = raced
      /\ \A n \in Rows : member'[n] = member[n] \/ member'[n] = Null
  BY DEF Remove
<1>2. \A v, p : MembershipsOf(v, p)' \subseteq MembershipsOf(v, p)
  BY <1>1 DEF MembershipsOf
<1>3. \A r \in Requests : req[r].kind = "join" /\ req[r].row # Null => req[r].row \in Rows
  BY Kinds, JoiningFields, TypedRows
<1>4. ASSUME NEW s \in Requests, req[s].kind = "join", req[s].row # Null, member'[req[s].row] # Null
      PROVE  req[s].row \in MembershipsOf(req[s].user, req[s].org)'
  <2>1. member'[req[s].row] = member[req[s].row]
    BY <1>1, <1>3, <1>4
  <2>2. req[s].row \in MembershipsOf(req[s].user, req[s].org)
    BY <1>4, <2>1 DEF Memberships
  <2> QED BY <1>1, <1>4, <2>1, <2>2 DEF MembershipsOf
<1>5. ASSUME NEW v \in Ids \ raced', NEW p \in Orgs,
              NEW n \in MembershipsOf(v, p)', NEW k \in MembershipsOf(v, p)'
       PROVE  n = k
  BY <1>1, <1>2 DEF Memberships
<1>6. ASSUME NEW s \in Requests, req[s].kind = "join", req[s].row = Null, req[s].user \notin raced
      PROVE  MembershipsOf(req[s].user, req[s].org)' = {}
  <2>1. PICK q : q = req[s]
    OBVIOUS
  <2>2. MembershipsOf(q.user, q.org) = {}
    BY <1>6, <2>1 DEF Memberships
  <2>3. MembershipsOf(q.user, q.org)' = {}
    BY <1>2, <2>2
  <2> QED BY <1>1, <2>1, <2>3
<1>7. ASSUME NEW s \in Requests, NEW t \in Requests, Together(s, t), req[s].user \notin raced
       PROVE  s = t
  BY <1>7 DEF Memberships
<1> QED BY <1>1, <1>4, <1>5, <1>6, <1>7 DEF Memberships, Together

LEMMA MembersKeepMemberships ==
    ASSUME TypeOK, Memberships, MemberStep
    PROVE  Memberships'
<1>1. CASE \E r \in Requests : AcceptMark(r)
  <2>1. PICK r \in Requests : AcceptMark(r)
    BY <1>1
  <2>2. PICK p : p = req[r]
    OBVIOUS
  <2>3. PICK m \in FindMembership(p.user, p.org) :
              req' = [req EXCEPT ![r] =
                         [kind |-> "join", invite |-> p.invite, org |-> p.org,
                          user |-> p.user, role |-> p.role, by |-> p.by, row |-> m]]
    BY <2>1, <2>2 DEF AcceptMark
  <2>4. PICK q : q = [kind |-> "join", invite |-> p.invite, org |-> p.org,
                      user |-> p.user, role |-> p.role, by |-> p.by, row |-> m]
    OBVIOUS
  <2>5. q.kind = "join" /\ q.user = p.user /\ q.org = p.org /\ q.row = m
    BY <2>4
  <2>6. p.kind = "accept" /\ member' = member /\ Adding(r, p.user, p.org)
    BY <2>1, <2>2 DEF AcceptMark
  <2>7. p.user \in Ids /\ p.org \in Orgs
    BY <2>2, <2>6, Kinds, AcceptingFields, TypedRows
  <2>8. req' = [req EXCEPT ![r] = q]
    BY <2>3, <2>4
  <2> QED BY <2>5, <2>6, <2>7, <2>8, MembershipsSought
<1>2. CASE \E r \in Requests, by, u \in Ids, o \in Orgs, role \in Granted :
              AddRead(r, by, o, u, role)
  <2>1. PICK r \in Requests, by \in Ids, u \in Ids, o \in Orgs, role \in Granted :
              AddRead(r, by, o, u, role)
    BY <1>2
  <2>2. PICK m \in FindMembership(u, o) :
          req' = [req EXCEPT ![r] =
                     [kind |-> "join", invite |-> Null, org |-> o, user |-> u,
                      role |-> role, by |-> by, row |-> m]]
    BY <2>1 DEF AddRead
  <2>3. PICK q : q = [kind |-> "join", invite |-> Null, org |-> o, user |-> u,
                      role |-> role, by |-> by, row |-> m]
    OBVIOUS
  <2>4. q.kind = "join" /\ q.user = u /\ q.org = o /\ q.row = m
    BY <2>3
  <2>5. member' = member /\ Adding(r, u, o) /\ req' = [req EXCEPT ![r] = q]
    BY <2>1, <2>2, <2>3 DEF AddRead
  <2> QED BY <2>4, <2>5, MembershipsSought
<1>3. CASE \E r \in Requests, m \in Rows : Join(r, m)
  BY <1>3, MembershipWritten
<1>4. CASE \E r \in Requests : JoinFails(r)
  <2>1. /\ member' = member /\ raced' = raced
        /\ \A s \in Requests : req'[s] = req[s] \/ req'[s].kind # "join"
    BY <1>4 DEF JoinFails, Done, TypeOK
  <2> QED BY <2>1, MembershipsLeft
<1>5. CASE \E by, u \in Ids, o \in Orgs : Remove(by, o, u)
  BY <1>5, MembershipsRemoved
<1> QED BY <1>1, <1>2, <1>3, <1>4, <1>5 DEF MemberStep

-----------------------------------------------------------------------------
(* Active invites.                                                         *)

\* A step that makes no invite and starts no request that makes one.
LEMMA ActiveLeft ==
    ASSUME ActiveFound, raced \subseteq raced',
           \A i \in Invites :
              invite'[i] # Null /\ invite'[i].token =>
                 invite[i] # Null /\ invite[i].token /\ invite'[i].email = invite[i].email,
           \A s \in Requests : req'[s] = req[s] \/ req'[s].kind # "invite"
    PROVE  ActiveFound'
<1>1. \A a : ActiveInvites(a)' \subseteq ActiveInvites(a)
  BY DEF ActiveInvites
<1>2. OneActiveInvite'
  BY <1>1 DEF ActiveFound, OneActiveInvite
<1>3. ASSUME NEW s \in Requests, req'[s].kind = "invite", req'[s].email \notin raced'
      PROVE  ActiveInvites(req[s].email)' \subseteq {req'[s].active}
  <2>1. req'[s] = req[s]
    BY <1>3
  <2>2. PICK a : a = req[s].email
    OBVIOUS
  <2>3. ActiveInvites(a) \subseteq {req[s].active}
    BY <1>3, <2>1, <2>2 DEF ActiveFound
  <2>4. ActiveInvites(a)' \subseteq {req[s].active}
    BY <1>1, <2>3
  <2> QED BY <2>1, <2>2, <2>4
<1> QED BY <1>2, <1>3 DEF ActiveFound

\* A request that is to make an invite remembers the one that is active.
LEMMA ActiveRead ==
    ASSUME TypeOK, ActiveFound, NEW r \in Requests, NEW by \in Ids, NEW o \in Orgs,
           NEW a \in Addresses, NEW role \in Granted, InviteRead(r, by, o, a, role)
    PROVE  ActiveFound'
<1>1. PICK u, i : /\ i \in IF ActiveInvites(a) = {} THEN {Null} ELSE ActiveInvites(a)
                  /\ req' = [req EXCEPT ![r] =
                        [kind |-> "invite", org |-> o, by |-> by, email |-> a,
                         user |-> u, role |-> role, active |-> i]]
                  /\ Meet(r, i)
  BY DEF InviteRead
<1>2. PICK q : q = [kind |-> "invite", org |-> o, by |-> by, email |-> a,
                    user |-> u, role |-> role, active |-> i]
  OBVIOUS
<1>3. q.kind = "invite" /\ q.email = a /\ q.active = i /\ req' = [req EXCEPT ![r] = q]
  BY <1>1, <1>2
<1>4. /\ invite' = invite /\ raced \subseteq raced'
      /\ req'[r] = q /\ \A s \in Requests \ {r} : req'[s] = req[s]
  BY <1>1, <1>3 DEF InviteRead, Meet, TypeOK
<1>5. \A b : ActiveInvites(b)' = ActiveInvites(b)
  BY <1>4 DEF ActiveInvites
<1>6. OneActiveInvite'
  BY <1>4, <1>5 DEF ActiveFound, OneActiveInvite
<1>7. a \notin raced => ActiveInvites(a) \subseteq {i}
  BY <1>1 DEF ActiveFound, OneActiveInvite
<1>8. ASSUME NEW s \in Requests, req'[s].kind = "invite", req'[s].email \notin raced'
      PROVE  ActiveInvites(req[s].email)' \subseteq {req'[s].active}
  <2>1. PICK p : p = req'[s]
    OBVIOUS
  <2>2. ActiveInvites(p.email) \subseteq {p.active}
    BY <1>3, <1>4, <1>7, <1>8, <2>1 DEF ActiveFound
  <2>3. ActiveInvites(p.email)' \subseteq {p.active}
    BY <1>5, <2>2
  <2> QED BY <2>1, <2>3
<1> QED BY <1>6, <1>8 DEF ActiveFound

\* The new invite takes the place of the one that was found.
LEMMA ActiveReplaced ==
    ASSUME TypeOK, ActiveFound, NEW r \in Requests, NEW i \in Invites, Invite(r, i)
    PROVE  ActiveFound'
<1>1. PICK q : q = req[r]
  OBVIOUS
<1>2. PICK new : new = [org |-> q.org, inviter |-> q.by, email |-> q.email, user |-> q.user,
                role |-> q.role, token |-> TRUE, expired |-> FALSE, accepted |-> Null]
  OBVIOUS
<1>3. PICK rival \in BOOLEAN :
         rival <=> \E s \in Requests \ {r} : req[s].kind = "invite" /\ req[s].email = q.email
  OBVIOUS
<1>4. /\ q.kind = "invite"
      /\ invite' = [j \in Invites |->
                         IF j = i THEN new
                         ELSE IF j = q.active THEN Answered(invite[j], "no")
                         ELSE invite[j]]
      /\ req' = [req EXCEPT ![r] = Done]
      /\ raced' = IF rival THEN raced \cup {q.email} ELSE raced
  BY <1>1, <1>2, <1>3 DEF Invite, NewInvite
<1>5. new.email = q.email
  BY <1>2
<1>6. /\ raced \subseteq raced' /\ (q.email \notin raced' => ~rival)
      /\ req'[r].kind # "invite" /\ \A s \in Requests \ {r} : req'[s] = req[s]
  BY <1>4 DEF Done, TypeOK
<1>7. \A j \in Invites \ {i} :
         invite'[j] # Null /\ invite'[j].token =>
            /\ j # q.active
            /\ invite[j] # Null /\ invite[j].token /\ invite'[j].email = invite[j].email
  BY <1>4, TypedRows, AnsweredFields
<1>8. \A b : b # q.email => ActiveInvites(b)' \subseteq ActiveInvites(b)
  BY <1>4, <1>5, <1>7 DEF ActiveInvites
<1>9. ActiveInvites(q.email)' \subseteq {i} \cup (ActiveInvites(q.email) \ {q.active})
  BY <1>7 DEF ActiveInvites
<1>10. q.email \notin raced => ActiveInvites(q.email) \subseteq {q.active}
  BY <1>1, <1>4 DEF ActiveFound
<1>11. OneActiveInvite'
  <2> SUFFICES ASSUME NEW b \in Addresses \ raced',
                      NEW j \in ActiveInvites(b)', NEW k \in ActiveInvites(b)'
               PROVE  j = k
    BY DEF OneActiveInvite
  <2>1. CASE b = q.email
    BY <1>6, <1>9, <1>10, <2>1
  <2>2. CASE b # q.email
    BY <1>6, <1>8, <2>2 DEF ActiveFound, OneActiveInvite
  <2> QED BY <2>1, <2>2
<1>12. ASSUME NEW s \in Requests, req'[s].kind = "invite", req'[s].email \notin raced'
       PROVE  ActiveInvites(req[s].email)' \subseteq {req'[s].active}
  <2>1. PICK p : p = req'[s]
    OBVIOUS
  <2>2. s # r /\ p = req[s] /\ p.kind = "invite" /\ p.email \notin raced /\ p.email \notin raced'
    BY <1>6, <1>12, <2>1
  <2>3. p.email # q.email
    BY <1>3, <1>6, <2>2
  <2>4. ActiveInvites(p.email) \subseteq {p.active}
    BY <2>2 DEF ActiveFound
  <2>5. ActiveInvites(p.email)' \subseteq {p.active}
    BY <1>8, <2>3, <2>4
  <2> QED BY <2>1, <2>5
<1> QED BY <1>11, <1>12 DEF ActiveFound

LEMMA PeopleLeaveInvites ==
    ASSUME ActiveFound, PeopleStep
    PROVE  ActiveFound'
<1>1. UNCHANGED <<member, invite, req, joined, raced>>
  BY DEF PeopleStep, Register, InviteUser, SellToGuest, LinkLogin, RegisterByLogin, ChangeEmail
<1> QED BY <1>1, ActiveLeft

\* Only a new invite sets a token.
LEMMA ExpireFields ==
    ASSUME TypeOK, NEW i \in Invites, Expire(i)
    PROVE  \A j \in Invites : invite'[j] # Null =>
              /\ invite[j] # Null /\ invite'[j].token = invite[j].token
              /\ invite'[j].email = invite[j].email /\ invite'[j].accepted = invite[j].accepted
<1>1. PICK row : row = invite[i]
  OBVIOUS
<1>2. row \in InviteRow /\ invite' = [invite EXCEPT ![i] = [row EXCEPT !.expired = TRUE]]
  BY <1>1, TypedRows DEF Expire
<1>3. PICK new : new = [row EXCEPT !.expired = TRUE]
  OBVIOUS
<1>4. new.token = row.token /\ new.email = row.email /\ new.accepted = row.accepted
  BY <1>2, <1>3 DEF InviteRow
<1>5. \A j \in Invites : invite'[j] = IF j = i THEN new ELSE invite[j]
  BY <1>2, <1>3 DEF TypeOK
<1> QED BY <1>1, <1>4, <1>5 DEF Expire

LEMMA InvitesKeepActive ==
    ASSUME TypeOK, ActiveFound, InviteStep
    PROVE  ActiveFound'
<1>0. \A q : \A s \in Requests : req' = [req EXCEPT ![s] = q] =>
         \A t \in Requests : req'[t] = IF t = s THEN q ELSE req[t]
  BY DEF TypeOK
<1>1. CASE \E i \in Invites : Expire(i)
  <2>1. PICK i \in Invites : Expire(i)
    BY <1>1
  <2> QED BY <2>1, ActiveLeft, ExpireFields DEF Expire
<1>2. CASE \E r \in Requests, by \in Ids, o \in Orgs, a \in Addresses, role \in Granted :
              InviteRead(r, by, o, a, role)
  BY <1>2, ActiveRead
<1>3. CASE \E r \in Requests, i \in Invites : Invite(r, i)
  BY <1>3, ActiveReplaced
<1>4. CASE \E r \in Requests, u \in Ids, i \in Invites : DestroyRead(r, u, i)
  <2>1. PICK r, q, i :
           r \in Requests /\ req' = [req EXCEPT ![r] = q] /\ q.kind = "destroy" /\ Meet(r, i) /\ invite' = invite
    BY <1>4 DEF DestroyRead
  <2>2. raced \subseteq raced' /\ \A s \in Requests : req'[s] = req[s] \/ req'[s].kind # "invite"
    BY <1>0, <2>1 DEF Meet
  <2> QED BY <2>1, <2>2, ActiveLeft
<1>5. CASE \E r \in Requests, u \in Ids, i \in Invites : AcceptRead(r, u, i)
  <2>1. PICK r, q, i :
           r \in Requests /\ req' = [req EXCEPT ![r] = q] /\ q.kind = "accept" /\ Meet(r, i) /\ invite' = invite
    BY <1>5 DEF AcceptRead
  <2>2. raced \subseteq raced' /\ \A s \in Requests : req'[s] = req[s] \/ req'[s].kind # "invite"
    BY <1>0, <2>1 DEF Meet
  <2> QED BY <2>1, <2>2, ActiveLeft
<1>6. CASE \E r \in Requests : Destroy(r)
  <2>1. PICK r \in Requests : Destroy(r)
    BY <1>6
  <2>2. PICK i : i = req[r].invite
    OBVIOUS
  <2>3. /\ raced' = raced /\ invite' = [invite EXCEPT ![i] = Null]
        /\ \A s \in Requests : req'[s] = req[s] \/ req'[s].kind # "invite"
    BY <1>0, <2>1, <2>2 DEF Destroy, Done
  <2>4. \A j \in Invites : invite'[j] = invite[j] \/ invite'[j] = Null
    BY <2>3 DEF TypeOK
  <2> QED BY <2>3, <2>4, ActiveLeft
<1> QED BY <1>1, <1>2, <1>3, <1>4, <1>5, <1>6 DEF InviteStep

LEMMA MembersKeepActive ==
    ASSUME TypeOK, ActiveFound, MemberStep
    PROVE  ActiveFound'
<1>0. \A q : \A s \in Requests : req' = [req EXCEPT ![s] = q] =>
         \A t \in Requests : req'[t] = IF t = s THEN q ELSE req[t]
  BY DEF TypeOK
<1>1. CASE \E r \in Requests : AcceptMark(r)
  <2>1. PICK r \in Requests : AcceptMark(r)
    BY <1>1
  <2>2. PICK p : p = req[r]
    OBVIOUS
  <2>3. PICK q : req' = [req EXCEPT ![r] = q] /\ q.kind = "join"
    <3>1. PICK m : req' = [req EXCEPT ![r] =
                         [kind |-> "join", invite |-> p.invite, org |-> p.org,
                          user |-> p.user, role |-> p.role, by |-> p.by, row |-> m]]
      BY <2>1, <2>2 DEF AcceptMark
    <3>2. PICK q : q = [kind |-> "join", invite |-> p.invite, org |-> p.org,
                        user |-> p.user, role |-> p.role, by |-> p.by, row |-> m]
      OBVIOUS
    <3>3. q.kind = "join" /\ req' = [req EXCEPT ![r] = q]
      BY <3>1, <3>2
    <3> QED BY <3>3
  <2>4. raced \subseteq raced' /\ \A s \in Requests : req'[s] = req[s] \/ req'[s].kind # "invite"
    BY <1>0, <2>1, <2>3 DEF AcceptMark, Adding
  <2> QED BY <2>1, <2>4, ActiveLeft DEF AcceptMark
<1>2. CASE \E r \in Requests, by, u \in Ids, o \in Orgs, role \in Granted :
              AddRead(r, by, o, u, role)
  <2>1. PICK r \in Requests, by \in Ids, u \in Ids, o \in Orgs, role \in Granted :
              AddRead(r, by, o, u, role)
    BY <1>2
  <2>2. PICK m : req' = [req EXCEPT ![r] =
                     [kind |-> "join", invite |-> Null, org |-> o, user |-> u,
                      role |-> role, by |-> by, row |-> m]]
    BY <2>1 DEF AddRead
  <2>3. PICK q : q = [kind |-> "join", invite |-> Null, org |-> o, user |-> u,
                      role |-> role, by |-> by, row |-> m]
    OBVIOUS
  <2>4. q.kind = "join" /\ req' = [req EXCEPT ![r] = q]
    BY <2>2, <2>3
  <2>5. raced \subseteq raced' /\ \A s \in Requests : req'[s] = req[s] \/ req'[s].kind # "invite"
    BY <1>0, <2>1, <2>4 DEF AddRead, Adding
  <2> QED BY <2>1, <2>5, ActiveLeft DEF AddRead
<1>3. CASE \E r \in Requests, m \in Rows : Join(r, m)
  <2>1. PICK r \in Requests, m \in Rows : Join(r, m)
    BY <1>3
  <2>2. PICK q : q = req[r]
    OBVIOUS
  <2>3. /\ invite' = [i \in Invites |->
                         IF i = q.invite THEN Answered(invite[i], "yes") ELSE invite[i]]
        /\ raced' = raced /\ \A s \in Requests : req'[s] = req[s] \/ req'[s].kind # "invite"
    BY <1>0, <2>1, <2>2 DEF Join, Done
  <2>4. \A j \in Invites :
           invite'[j] # Null /\ invite'[j].token =>
              invite[j] # Null /\ invite[j].token /\ invite'[j].email = invite[j].email
    BY <2>3, TypedRows, AnsweredFields
  <2> QED BY <2>3, <2>4, ActiveLeft
<1>4. CASE \E r \in Requests : JoinFails(r)
  <2>1. /\ invite' = invite /\ raced' = raced
        /\ \A s \in Requests : req'[s] = req[s] \/ req'[s].kind # "invite"
    BY <1>0, <1>4 DEF JoinFails, Done
  <2> QED BY <2>1, ActiveLeft
<1>5. CASE \E by, u \in Ids, o \in Orgs : Remove(by, o, u)
  <2>1. UNCHANGED <<invite, req, raced>>
    BY <1>5 DEF Remove
  <2> QED BY <2>1, ActiveLeft
<1> QED BY <1>1, <1>2, <1>3, <1>4, <1>5 DEF MemberStep

-----------------------------------------------------------------------------
(* What the invites tell.                                                  *)

\* A step that answers no invite and has no request deal with another one.
LEMMA AnswersLeft ==
    ASSUME Answers, raced \subseteq raced', joined' = joined,
           \A i \in Invites :
              invite'[i] # Null =>
                 /\ invite[i] # Null
                 /\ invite'[i].token = invite[i].token /\ invite'[i].accepted = invite[i].accepted,
           \A s \in Requests, i \in Invites :
              DealsWith(s, i)' =>
                 DealsWith(s, i) /\ (req'[s].kind # "destroy" => req[s].kind # "destroy")
    PROVE  Answers'
<1>1. SpentInviteIsDead'
  BY DEF Answers, SpentInviteIsDead
<1>2. ASSUME NEW i \in Invites \ raced', NEW s \in Requests, NEW t \in Requests,
             DealsWith(s, i)', DealsWith(t, i)'
      PROVE  s = t
  BY <1>2 DEF Answers
<1>3. ASSUME NEW i \in Invites \ raced', NEW s \in Requests, DealsWith(s, i)', req'[s].kind # "destroy"
      PROVE  joined'[i] = {}
  BY <1>3 DEF Answers
<1>4. ASSUME NEW i \in Invites \ raced'
      PROVE  /\ \A u, v \in joined'[i] : u = v
             /\ invite'[i] # Null => (invite'[i].accepted = "yes" <=> joined'[i] # {})
  BY DEF Answers
<1> QED BY <1>1, <1>2, <1>3, <1>4 DEF Answers

\* A request that comes to deal with an invite is remembered with the others.
LEMMA AnswersRead ==
    ASSUME TypeOK, Answers, NEW r \in Requests, NEW q, NEW i,
           req' = [req EXCEPT ![r] = q], Meet(r, i), invite' = invite, joined' = joined,
           \/ q.kind = "invite" /\ q.active = i
           \/ q.kind \in {"accept", "destroy"} /\ q.invite = i,
           i \in Invites => joined[i] = {}
    PROVE  Answers'
<1>1. /\ req'[r] = q /\ \A s \in Requests \ {r} : req'[s] = req[s]
      /\ raced \subseteq raced'
      /\ i # Null => \A s \in Requests \ {r} : DealsWith(s, i) => i \in raced'
  BY DEF Meet, TypeOK
<1>2. \A j : DealsWith(r, j)' => j = i
  BY <1>1 DEF DealsWith
<1>3. \A j : \A s \in Requests \ {r} : DealsWith(s, j)' <=> DealsWith(s, j)
  BY <1>1 DEF DealsWith
<1>4. SpentInviteIsDead'
  BY DEF Answers, SpentInviteIsDead
<1>5. ASSUME NEW j \in Invites \ raced', NEW s \in Requests, NEW t \in Requests,
             DealsWith(s, j)', DealsWith(t, j)'
      PROVE  s = t
  <2>1. j # Null
    BY NullAssumption
  <2>2. CASE s # r /\ t # r
    BY <1>1, <1>3, <1>5, <2>2 DEF Answers
  <2>3. CASE s = r /\ t # r
    BY <1>1, <1>2, <1>3, <1>5, <2>1, <2>3
  <2>4. CASE s # r /\ t = r
    BY <1>1, <1>2, <1>3, <1>5, <2>1, <2>4
  <2> QED BY <2>2, <2>3, <2>4
<1>6. ASSUME NEW j \in Invites \ raced', NEW s \in Requests, DealsWith(s, j)', req'[s].kind # "destroy"
      PROVE  joined'[j] = {}
  BY <1>1, <1>2, <1>3, <1>6 DEF Answers
<1>7. ASSUME NEW j \in Invites \ raced'
      PROVE  /\ \A u, v \in joined'[j] : u = v
             /\ invite'[j] # Null => (invite'[j].accepted = "yes" <=> joined'[j] # {})
  BY <1>1 DEF Answers
<1> QED BY <1>4, <1>5, <1>6, <1>7 DEF Answers

\* The invite that makes way was not used; the new one has never been.
LEMMA AnswersReplaced ==
    ASSUME TypeOK, Answers, NEW r \in Requests, NEW i \in Invites, Invite(r, i)
    PROVE  Answers'
<1>1. PICK q : q = req[r]
  OBVIOUS
<1>2. PICK new : new = [org |-> q.org, inviter |-> q.by, email |-> q.email, user |-> q.user,
                role |-> q.role, token |-> TRUE, expired |-> FALSE, accepted |-> Null]
  OBVIOUS
<1>3. /\ q.kind = "invite" /\ Unused(i) /\ joined' = joined /\ raced \subseteq raced'
      /\ invite' = [j \in Invites |->
                         IF j = i THEN new
                         ELSE IF j = q.active THEN Answered(invite[j], "no")
                         ELSE invite[j]]
      /\ req' = [req EXCEPT ![r] = Done]
  BY <1>1, <1>2 DEF Invite, NewInvite
<1>4. /\ invite'[i] = new /\ new.accepted = Null /\ new.token
      /\ joined[i] = {} /\ \A s \in Requests : ~DealsWith(s, i)
  BY <1>2, <1>3 DEF Unused
<1>5. \A j : \A s \in Requests : DealsWith(s, j)' => s # r /\ DealsWith(s, j) /\ req'[s] = req[s]
  <2>1. req'[r] = Done /\ \A s \in Requests \ {r} : req'[s] = req[s]
    BY <1>3 DEF TypeOK
  <2> QED BY <2>1 DEF DealsWith, Done
<1>6. \A j \in Invites \ {i} : invite'[j] # Null =>
         /\ invite[j] # Null
         /\ IF j = q.active THEN ~invite'[j].token /\ invite'[j].accepted = "no"
            ELSE invite'[j] = invite[j]
  BY <1>3, TypedRows, AnsweredFields
<1>7. q.active \in Invites \ raced => joined[q.active] = {}
  BY <1>1, <1>3 DEF Answers, DealsWith
<1>8. SpentInviteIsDead'
  <2> SUFFICES ASSUME NEW j \in Invites, joined'[j] # {}, invite'[j] # Null
               PROVE  ~invite'[j].token /\ invite'[j].accepted # Null
    BY DEF SpentInviteIsDead
  <2>1. j # i /\ invite[j] # Null
    BY <1>3, <1>4, <1>6
  <2>2. CASE j = q.active
    BY <1>6, <2>1, <2>2, NullAssumption
  <2>3. CASE j # q.active
    BY <1>3, <1>6, <2>1, <2>3 DEF Answers, SpentInviteIsDead
  <2> QED BY <2>2, <2>3
<1>9. ASSUME NEW j \in Invites \ raced', NEW s \in Requests, NEW t \in Requests,
             DealsWith(s, j)', DealsWith(t, j)'
      PROVE  s = t
  BY <1>3, <1>5, <1>9 DEF Answers
<1>10. ASSUME NEW j \in Invites \ raced', NEW s \in Requests, DealsWith(s, j)', req'[s].kind # "destroy"
      PROVE  joined'[j] = {}
  BY <1>3, <1>5, <1>10 DEF Answers
<1>11. ASSUME NEW j \in Invites \ raced'
      PROVE  /\ \A u, v \in joined'[j] : u = v
             /\ invite'[j] # Null => (invite'[j].accepted = "yes" <=> joined'[j] # {})
  <2>1. \A u, v \in joined'[j] : u = v
    BY <1>3 DEF Answers
  <2>2. CASE j = i
    BY <1>3, <1>4, <2>1, <2>2, NullAssumption
  <2>3. CASE j # i /\ j = q.active
    BY <1>3, <1>6, <1>7, <2>1, <2>3
  <2>4. CASE j # i /\ j # q.active
    BY <1>3, <1>6, <2>1, <2>4 DEF Answers
  <2> QED BY <2>2, <2>3, <2>4
<1> QED BY <1>8, <1>9, <1>10, <1>11 DEF Answers

\* The only request that deals with an invite joins by it.
LEMMA AnswersGiven ==
    ASSUME TypeOK, Answers, NEW r \in Requests, NEW m \in Rows, Join(r, m)
    PROVE  Answers'
<1>1. PICK q : q = req[r]
  OBVIOUS
<1>2. /\ q.kind = "join" /\ raced' = raced
      /\ invite' = [i \in Invites |->
                         IF i = q.invite THEN Answered(invite[i], "yes") ELSE invite[i]]
      /\ joined' = [i \in Invites |->
                         IF i = q.invite THEN joined[i] \cup {q.user} ELSE joined[i]]
      /\ req' = [req EXCEPT ![r] = Done]
  BY <1>1 DEF Join
<1>3. \A j \in Invites : joined'[j] = IF j = q.invite THEN joined[j] \cup {q.user} ELSE joined[j]
  BY <1>2
<1>4. \A j \in Invites : invite'[j] # Null =>
         /\ invite[j] # Null
         /\ IF j = q.invite THEN ~invite'[j].token /\ invite'[j].accepted = "yes"
            ELSE invite'[j] = invite[j]
  BY <1>2, TypedRows, AnsweredFields
<1>5. \A j : \A s \in Requests : DealsWith(s, j)' => s # r /\ DealsWith(s, j) /\ req'[s] = req[s]
  <2>1. req'[r] = Done /\ \A s \in Requests \ {r} : req'[s] = req[s]
    BY <1>2 DEF TypeOK
  <2> QED BY <2>1 DEF DealsWith, Done
<1>6. DealsWith(r, q.invite)
  BY <1>1, <1>2 DEF DealsWith
<1>7. q.invite \in Invites \ raced =>
         joined[q.invite] = {} /\ \A s \in Requests : DealsWith(s, q.invite) => s = r
  BY <1>1, <1>2, <1>6 DEF Answers
<1>8. SpentInviteIsDead'
  <2> SUFFICES ASSUME NEW j \in Invites, joined'[j] # {}, invite'[j] # Null
               PROVE  ~invite'[j].token /\ invite'[j].accepted # Null
    BY DEF SpentInviteIsDead
  <2>1. CASE j = q.invite
    BY <1>4, <2>1, NullAssumption
  <2>2. CASE j # q.invite
    BY <1>3, <1>4, <2>2 DEF Answers, SpentInviteIsDead
  <2> QED BY <2>1, <2>2
<1>9. ASSUME NEW j \in Invites \ raced', NEW s \in Requests, NEW t \in Requests,
             DealsWith(s, j)', DealsWith(t, j)'
      PROVE  s = t
  BY <1>2, <1>5, <1>9 DEF Answers
<1>10. ASSUME NEW j \in Invites \ raced', NEW s \in Requests, DealsWith(s, j)', req'[s].kind # "destroy"
      PROVE  joined'[j] = {}
  <2>1. s # r /\ DealsWith(s, j) /\ req[s].kind # "destroy"
    BY <1>5, <1>10
  <2>2. j # q.invite
    BY <1>2, <1>7, <2>1
  <2> QED BY <1>2, <1>3, <2>1, <2>2 DEF Answers
<1>11. ASSUME NEW j \in Invites \ raced'
      PROVE  /\ \A u, v \in joined'[j] : u = v
             /\ invite'[j] # Null => (invite'[j].accepted = "yes" <=> joined'[j] # {})
  <2>1. CASE j = q.invite
    BY <1>2, <1>3, <1>4, <1>7, <2>1
  <2>2. CASE j # q.invite
    BY <1>2, <1>3, <1>4, <2>2 DEF Answers
  <2> QED BY <2>1, <2>2
<1> QED BY <1>8, <1>9, <1>10, <1>11 DEF Answers

LEMMA PeopleLeaveAnswers ==
    ASSUME Answers, PeopleStep
    PROVE  Answers'
<1>1. UNCHANGED <<member, invite, req, joined, raced>>
  BY DEF PeopleStep, Register, InviteUser, SellToGuest, LinkLogin, RegisterByLogin, ChangeEmail
<1>2. \A s \in Requests, i \in Invites : DealsWith(s, i)' <=> DealsWith(s, i)
  BY <1>1 DEF DealsWith
<1> QED BY <1>1, <1>2, AnswersLeft

LEMMA InvitesKeepAnswers ==
    ASSUME TypeOK, Answers, InviteStep
    PROVE  Answers'
<1>0. \A q : \A s \in Requests : req' = [req EXCEPT ![s] = q] =>
         \A t \in Requests : req'[t] = IF t = s THEN q ELSE req[t]
  BY DEF TypeOK
<1>1. CASE \E i \in Invites : Expire(i)
  <2>1. PICK i \in Invites : Expire(i)
    BY <1>1
  <2>2. UNCHANGED <<req, joined, raced>>
    BY <2>1 DEF Expire
  <2>3. \A s \in Requests, j \in Invites : DealsWith(s, j)' <=> DealsWith(s, j)
    BY <2>2 DEF DealsWith
  <2> QED BY <2>1, <2>2, <2>3, AnswersLeft, ExpireFields
<1>2. CASE \E r \in Requests, by \in Ids, o \in Orgs, a \in Addresses, role \in Granted :
              InviteRead(r, by, o, a, role)
  <2>1. PICK r \in Requests, by \in Ids, o \in Orgs, a \in Addresses, role \in Granted :
              InviteRead(r, by, o, a, role)
    BY <1>2
  <2>2. PICK u, i : /\ i \in IF ActiveInvites(a) = {} THEN {Null} ELSE ActiveInvites(a)
                    /\ req' = [req EXCEPT ![r] =
                        [kind |-> "invite", org |-> o, by |-> by, email |-> a,
                         user |-> u, role |-> role, active |-> i]]
                    /\ Meet(r, i)
    BY <2>1 DEF InviteRead
  <2>3. PICK q : q = [kind |-> "invite", org |-> o, by |-> by, email |-> a,
                      user |-> u, role |-> role, active |-> i]
    OBVIOUS
  <2>4. q.kind = "invite" /\ q.active = i /\ req' = [req EXCEPT ![r] = q]
    BY <2>2, <2>3
  <2>5. i \in Invites => joined[i] = {}
    BY <2>2, NullAssumption DEF ActiveInvites, Answers, SpentInviteIsDead
  <2> QED BY <2>1, <2>2, <2>4, <2>5, AnswersRead DEF InviteRead
<1>3. CASE \E r \in Requests, i \in Invites : Invite(r, i)
  BY <1>3, AnswersReplaced
<1>4. CASE \E r \in Requests, u \in Ids, i \in Invites : DestroyRead(r, u, i)
  <2>1. PICK r \in Requests, u \in Ids, i \in Invites : DestroyRead(r, u, i)
    BY <1>4
  <2>2. PICK q : q = [kind |-> "destroy", invite |-> i]
    OBVIOUS
  <2>3. /\ q.kind = "destroy" /\ q.invite = i /\ req' = [req EXCEPT ![r] = q] /\ Meet(r, i)
        /\ invite' = invite /\ joined' = joined /\ joined[i] = {}
    BY <2>1, <2>2 DEF DestroyRead, Answers, SpentInviteIsDead
  <2> QED BY <2>3, AnswersRead
<1>5. CASE \E r \in Requests, u \in Ids, i \in Invites : AcceptRead(r, u, i)
  <2>1. PICK r \in Requests, u \in Ids, i \in Invites : AcceptRead(r, u, i)
    BY <1>5
  <2>2. PICK q : q = [kind |-> "accept", invite |-> i, org |-> invite[i].org, user |-> u,
                      role |-> invite[i].role, by |-> invite[i].inviter]
    OBVIOUS
  <2>3. /\ q.kind = "accept" /\ q.invite = i /\ req' = [req EXCEPT ![r] = q] /\ Meet(r, i)
        /\ invite' = invite /\ joined' = joined
    BY <2>1, <2>2 DEF AcceptRead
  <2>4. joined[i] = {}
    BY <2>1 DEF AcceptRead, Answers, SpentInviteIsDead
  <2> QED BY <2>3, <2>4, AnswersRead
<1>6. CASE \E r \in Requests : Destroy(r)
  <2>1. PICK r \in Requests : Destroy(r)
    BY <1>6
  <2>2. PICK i : i = req[r].invite
    OBVIOUS
  <2>3. /\ raced' = raced /\ joined' = joined /\ invite' = [invite EXCEPT ![i] = Null]
        /\ \A s \in Requests : req'[s] = req[s] \/ req'[s].kind = "done"
    BY <1>0, <2>1, <2>2 DEF Destroy, Done
  <2>4. \A j \in Invites : invite'[j] = invite[j] \/ invite'[j] = Null
    BY <2>3 DEF TypeOK
  <2>5. \A s \in Requests, j \in Invites : DealsWith(s, j)' => DealsWith(s, j) /\ req'[s] = req[s]
    BY <2>3 DEF DealsWith
  <2> QED BY <2>3, <2>4, <2>5, AnswersLeft
<1> QED BY <1>1, <1>2, <1>3, <1>4, <1>5, <1>6 DEF InviteStep

LEMMA MembersKeepAnswers ==
    ASSUME TypeOK, Answers, MemberStep
    PROVE  Answers'
<1>0. \A q : \A s \in Requests : req' = [req EXCEPT ![s] = q] =>
         \A t \in Requests : req'[t] = IF t = s THEN q ELSE req[t]
  BY DEF TypeOK
<1>1. CASE \E r \in Requests : AcceptMark(r)
  <2>1. PICK r \in Requests : AcceptMark(r)
    BY <1>1
  <2>2. PICK p : p = req[r]
    OBVIOUS
  <2>3. PICK m : req' = [req EXCEPT ![r] =
                         [kind |-> "join", invite |-> p.invite, org |-> p.org,
                          user |-> p.user, role |-> p.role, by |-> p.by, row |-> m]]
    BY <2>1, <2>2 DEF AcceptMark
  <2>4. PICK q : q = [kind |-> "join", invite |-> p.invite, org |-> p.org,
                      user |-> p.user, role |-> p.role, by |-> p.by, row |-> m]
    OBVIOUS
  <2>5. q.kind = "join" /\ q.invite = p.invite /\ req' = [req EXCEPT ![r] = q]
    BY <2>3, <2>4
  <2>6. /\ raced \subseteq raced' /\ invite' = invite /\ joined' = joined /\ p.kind = "accept"
    BY <2>1, <2>2 DEF AcceptMark, Adding
  <2>7. \A s \in Requests : req'[s] = IF s = r THEN q ELSE req[s]
    BY <1>0, <2>5
  <2>8. ASSUME NEW s \in Requests, NEW i \in Invites, DealsWith(s, i)'
        PROVE  DealsWith(s, i) /\ (req'[s].kind # "destroy" => req[s].kind # "destroy")
    <3>1. CASE s = r
      BY <2>2, <2>5, <2>6, <2>7, <2>8, <3>1 DEF DealsWith
    <3>2. CASE s # r
      BY <2>7, <2>8, <3>2 DEF DealsWith
    <3> QED BY <3>1, <3>2
  <2> QED BY <2>6, <2>8, AnswersLeft
<1>2. CASE \E r \in Requests, by, u \in Ids, o \in Orgs, role \in Granted :
              AddRead(r, by, o, u, role)
  <2>1. PICK r \in Requests, by \in Ids, u \in Ids, o \in Orgs, role \in Granted :
              AddRead(r, by, o, u, role)
    BY <1>2
  <2>2. PICK m : req' = [req EXCEPT ![r] =
                     [kind |-> "join", invite |-> Null, org |-> o, user |-> u,
                      role |-> role, by |-> by, row |-> m]]
    BY <2>1 DEF AddRead
  <2>3. PICK q : q = [kind |-> "join", invite |-> Null, org |-> o, user |-> u,
                      role |-> role, by |-> by, row |-> m]
    OBVIOUS
  <2>4. q.kind = "join" /\ q.invite = Null /\ req' = [req EXCEPT ![r] = q]
    BY <2>2, <2>3
  <2>5. raced \subseteq raced' /\ invite' = invite /\ joined' = joined
    BY <2>1 DEF AddRead, Adding
  <2>6. \A s \in Requests : req'[s] = IF s = r THEN q ELSE req[s]
    BY <1>0, <2>4
  <2>7. ASSUME NEW s \in Requests, NEW i \in Invites, DealsWith(s, i)'
        PROVE  DealsWith(s, i) /\ (req'[s].kind # "destroy" => req[s].kind # "destroy")
    <3>1. s # r
      BY <2>4, <2>6, <2>7, NullAssumption DEF DealsWith
    <3> QED BY <2>6, <2>7, <3>1 DEF DealsWith
  <2> QED BY <2>5, <2>7, AnswersLeft
<1>3. CASE \E r \in Requests, m \in Rows : Join(r, m)
  BY <1>3, AnswersGiven
<1>4. CASE \E r \in Requests : JoinFails(r)
  <2>1. /\ UNCHANGED <<invite, joined, raced>>
        /\ \A s \in Requests : req'[s] = req[s] \/ req'[s].kind = "done"
    BY <1>0, <1>4 DEF JoinFails, Done
  <2>2. \A s \in Requests, j \in Invites : DealsWith(s, j)' => DealsWith(s, j) /\ req'[s] = req[s]
    BY <2>1 DEF DealsWith
  <2> QED BY <2>1, <2>2, AnswersLeft
<1>5. CASE \E by, u \in Ids, o \in Orgs : Remove(by, o, u)
  <2>1. UNCHANGED <<invite, joined, req, raced>>
    BY <1>5 DEF Remove
  <2>2. \A s \in Requests, j \in Invites : DealsWith(s, j)' <=> DealsWith(s, j)
    BY <2>1 DEF DealsWith
  <2> QED BY <2>1, <2>2, AnswersLeft
<1> QED BY <1>1, <1>2, <1>3, <1>4, <1>5 DEF MemberStep

-----------------------------------------------------------------------------
(* The theorems.                                                           *)

LEMMA InitAccounts ==
    ASSUME Init
    PROVE  AccountsInv
<1>1. /\ \A r \in Requests : req[r].kind = "idle"
      /\ \A m \in Rows : member[m] = Null
      /\ \A i \in Invites : joined[i] = {}
      /\ raced = {}
  BY DEF Init, Idle
<1>2. /\ \A i \in Invites : invite[i] # Null =>
            invite[i] \in InviteRow /\ invite[i].inviter \in Admins /\ invite[i].accepted = Null
      /\ \A i, j \in Invites : invite[i] # Null /\ invite[j] # Null => i = j
      /\ invite \in [Invites -> InviteRow \cup {Null}]
  <2>1. CASE invite = [i \in Invites |-> Null]
    BY <2>1
  <2>2. CASE invite # [i \in Invites |-> Null]
    <3>1. PICK first \in FirstInvites, by \in Admins, o \in Orgs, i \in Invites :
            invite = [j \in Invites |-> IF j = i THEN NewInvite(o, by, first[1], Null, first[2])
                                        ELSE Null]
      BY <2>2 DEF Init
    <3>2. first[1] \in Addresses /\ first[2] \in Granted /\ by \in Ids
      BY FirstAssumption, AdminAssumption
    <3>3. PICK new : new = NewInvite(o, by, first[1], Null, first[2])
      OBVIOUS
    <3>4. new \in InviteRow /\ new.inviter \in Admins /\ new.accepted = Null
      BY <3>2, <3>3 DEF NewInvite, InviteRow
    <3> QED BY <3>1, <3>3, <3>4
  <2> QED BY <2>1, <2>2
<1>3. [email |-> Null, typed |-> FALSE] \in Person
  BY DEF Person
<1>4. \A u \in People : user[u].email = Null
  BY DEF Init, People
<1>5. TypeOK
  BY <1>2, <1>3 DEF Init, TypeOK
<1>6. EmailsKept
  BY <1>4 DEF EmailsKept
<1>7. Appointed
  BY <1>1, <1>2 DEF Appointed
<1>8. Memberships
  BY <1>1 DEF Memberships, MembershipsOf, Together
<1>9. ActiveFound
  BY <1>1, <1>2 DEF ActiveFound, OneActiveInvite, ActiveInvites
<1>10. Answers
  <2>1. "yes" # Null
    BY NullAssumption
  <2> QED BY <1>1, <1>2, <2>1 DEF Answers, SpentInviteIsDead, DealsWith
<1> QED BY <1>5, <1>6, <1>7, <1>8, <1>9, <1>10 DEF AccountsInv

LEMMA StutteringAccounts ==
    ASSUME AccountsInv, UNCHANGED vars
    PROVE  AccountsInv'
<1>1. UNCHANGED <<user, login, member, invite, req, joined, raced>>
  BY DEF vars
<1> QED BY <1>1 DEF AccountsInv, TypeOK, EmailsKept, People, Appointed, Memberships, MembershipsOf,
       Together, ActiveFound, OneActiveInvite, ActiveInvites, Answers, SpentInviteIsDead, DealsWith

LEMMA AccountsKept ==
    ASSUME AccountsInv, [Next]_vars
    PROVE  AccountsInv'
<1>1. CASE PeopleStep
  <2>1. UNCHANGED <<member, invite, req, joined, raced>>
    BY <1>1 DEF PeopleStep, Register, InviteUser, SellToGuest, LinkLogin, RegisterByLogin,
                ChangeEmail
  <2> QED BY <1>1, PeopleTyped, PeopleKeepEmails, PeopleAppoint, PeopleLeaveMembers,
             PeopleLeaveInvites, PeopleLeaveAnswers DEF AccountsInv
<1>2. CASE InviteStep
  <2>1. user' = user
    BY <1>2 DEF InviteStep, Expire, InviteRead, Invite, DestroyRead, AcceptRead, Destroy
  <2>2. EmailsKept'
    BY <2>1 DEF AccountsInv, EmailsKept, People
  <2> QED BY <1>2, <2>2, InviteTyped, InvitesAppoint, InvitesLeaveMembers, InvitesKeepActive,
             InvitesKeepAnswers DEF AccountsInv
<1>3. CASE MemberStep
  <2>1. user' = user
    BY <1>3 DEF MemberStep, AcceptMark, AddRead, Join, JoinFails, Remove
  <2>2. EmailsKept'
    BY <2>1 DEF AccountsInv, EmailsKept, People
  <2> QED BY <1>3, <2>2, MemberTyped, MembersAppoint, MembersKeepMemberships, MembersKeepActive,
             MembersKeepAnswers DEF AccountsInv
<1>4. CASE UNCHANGED vars
  BY <1>4, StutteringAccounts
<1> QED BY <1>1, <1>2, <1>3, <1>4 DEF Next

LEMMA AccountsHold == Spec => []AccountsInv
  BY InitAccounts, AccountsKept, PTL DEF Spec

\* A set whose members are all the same has at most one.
LEMMA AtMostOne ==
    ASSUME NEW S, \A x, y \in S : x = y
    PROVE  Cardinality(S) <= 1
<1>1. CASE S = {}
  BY <1>1, FS_EmptySet
<1>2. CASE S # {}
  <2>1. PICK x \in S : TRUE
    BY <1>2
  <2>2. S = {x}
    BY <2>1
  <2> QED BY <2>2, FS_Singleton
<1> QED BY <1>1, <1>2

\* Whatever requests overlap, a look-up has one answer: the account by its
\* address, the membership by its user, the active invite by its address.
THEOREM LookUpsHaveOneAnswer == Spec => []LookUpsAreUnique
<1>1. AccountsInv => LookUpsAreUnique
  <2> SUFFICES ASSUME AccountsInv PROVE LookUpsAreUnique
    OBVIOUS
  <2>1. FoundByEmail
    <3> SUFFICES ASSUME NEW u \in People, user[u].email # Null, ~user[u].typed
                 PROVE  FindByEmail(user[u].email) = {u}
      BY DEF FoundByEmail
    <3>1. Lower[user[u].email] = user[u].email
      BY DEF AccountsInv, EmailsKept
    <3>2. \A v \in People : user[v].email = user[u].email => v = u
      BY DEF AccountsInv, EmailsKept
    <3> QED BY <3>1, <3>2 DEF FindByEmail
  <2>2. OneMembership
    BY AtMostOne DEF AccountsInv, Memberships, OneMembership
  <2>3. TypeOK /\ OneActiveInvite
    BY DEF AccountsInv, ActiveFound
  <2> QED BY <2>1, <2>2, <2>3 DEF LookUpsAreUnique
<1> QED BY <1>1, AccountsHold, PTL

\* However members invite and promote each other, by requests that overlap in any
\* way, every owner of an organization was made one by an administrator.
THEOREM OwnersComeFromAdmins == Spec => []OwnersAreAppointed
<1>1. AccountsInv => OwnersAreAppointed
  BY DEF AccountsInv, Appointed, OwnersAreAppointed
<1> QED BY <1>1, AccountsHold, PTL

\* An invite that one request at a time dealt with says whether it made a member,
\* of one person at most; once an invite has made a member, no request reads it again.
THEOREM InvitesAreTruthful == Spec => []InvitesTellTheTruth
<1>1. AccountsInv => InvitesTellTheTruth
  <2> SUFFICES ASSUME AccountsInv PROVE InvitesTellTheTruth
    OBVIOUS
  <2>1. AnswersAreTrue
    BY AtMostOne DEF AccountsInv, Answers, AnswersAreTrue
  <2>2. SpentInviteIsDead
    BY DEF AccountsInv, Answers
  <2> QED BY <2>1, <2>2 DEF InvitesTellTheTruth
<1> QED BY <1>1, AccountsHold, PTL

-----------------------------------------------------------------------------
(* Sessions.                                                               *)

\* A password is named by the request that set it: no token, no login under way
\* and no user row carries the name of a request that has not ended.
Fresh ==
    /\ modified <= now
    /\ password # None => call[password].kind = "done"
    /\ \A s \in Calls :
          /\ session[s] # None =>
                /\ call[s].kind = "done"
                /\ session[s].issued <= now
                /\ session[s].password # None => call[session[s].password].kind = "done"
          /\ call[s].kind = "login" /\ call[s].password # None =>
                call[call[s].password].kind = "done"
          /\ call[s].kind = "refresh" => session[call[s].of] # None

\* While one reset alone is under way nothing issued since it began counts, and
\* the row is as it found it.
OneReset ==
    ~mixed => \A r \in Resetting :
        /\ Resetting = {r}
        /\ modified <= call[r].since /\ call[r].since <= now
        /\ link = call[r].link
        /\ \A s \in Calls :
              /\ session[s] # None /\ ~session[s].spared => session[s].issued <= call[r].since
              /\ access[s] # None /\ ~access[s].spared =>
                    access[s].exp <= call[r].since + AccessLife

\* An access token of a former password was issued before the change.
Outdated ==
    ~mixed => \A s \in Calls :
        /\ access[s] # None /\ ~access[s].spared =>
              /\ access[s].exp <= now + AccessLife
              /\ access[s].password # password => access[s].exp <= modified + AccessLife
        /\ call[s].kind = "refresh" /\ ~session[call[s].of].spared =>
              session[call[s].of].password = call[s].password

Timely == OneReset /\ Outdated /\ OldSessionsEnd /\ CurrentSessionsLive

SessionInv == SessionsTypeOK /\ Fresh /\ Timely

Mailed == {sent[n] : n \in DOMAIN sent}

\* A link is mailed once; the one in the row is the last mailed and unused.
LinkInv ==
    /\ link # None => link \in Mailed
    /\ \A r \in Resetting : call[r].link \in Mailed
    /\ \A k \in Links : uses[k] # {} => k \in Mailed
    /\ ~mixed =>
          /\ \A k \in Links : uses[k] = {} \/ \E r \in Calls : uses[k] = {r}
          /\ link # None => uses[link] = {}
    /\ LastLinkWorks

-----------------------------------------------------------------------------
LEMMA ReqKinds ==
    ASSUME SessionsTypeOK, NEW r \in Calls
    PROVE  /\ call[r].kind \in {"idle", "done", "login", "refresh", "reset"}
           /\ call[r].kind = "login" => call[r].password \in Passwords
           /\ call[r].kind = "refresh" => /\ call[r].of \in Calls
                                         /\ call[r].password \in Passwords
           /\ call[r].kind = "reset" => call[r].link \in Links /\ call[r].since \in Times
<1>1. call[r] \in Reqs
  BY DEF SessionsTypeOK
<1>2. QED
  BY <1>1 DEF Reqs

LEMMA Tokens ==
    ASSUME SessionsTypeOK, NEW pw \in Passwords, NEW spared \in BOOLEAN
    PROVE  Refresh(pw, spared) \in Refreshes /\ Access(pw, spared) \in Accesses
BY LifeAssumption DEF Refresh, Access, Refreshes, Accesses, SessionsTypeOK, Times

LEMMA InitTypes == SessionsInit => SessionsTypeOK
<1>1. 0 \in Times /\ [kind |-> "idle"] \in Reqs
  BY LifeAssumption DEF Times, Reqs
<1>2. <<>> \in Seq(Links)
  OBVIOUS
<1>3. QED
  BY <1>1, <1>2 DEF SessionsInit, SessionsTypeOK, Passwords

LEMMA AnswerType ==
    ASSUME SessionsTypeOK, NEW r \in Calls, Answer(r)
    PROVE  call' \in [Calls -> Reqs]
<1>1. [kind |-> "done"] \in Reqs
  BY DEF Reqs
<1>2. QED
  BY <1>1 DEF Answer, SessionsTypeOK

\* Every step keeps the types.
LEMMA NextTypes == SessionsTypeOK /\ Fresh /\ [SessionsNext]_sessionVars => SessionsTypeOK'
<1> SUFFICES ASSUME SessionsTypeOK, Fresh, [SessionsNext]_sessionVars
             PROVE  SessionsTypeOK'
  OBVIOUS
<1> USE DEF Passwords, Times
<1>1. CASE Tick
  BY <1>1, LifeAssumption DEF Tick, SessionsTypeOK, Row
<1>2. ASSUME NEW k \in Links, MailLink(k)
      PROVE  SessionsTypeOK'
  BY <1>2, NoneAssumption, LifeAssumption DEF MailLink, SessionsTypeOK
<1>3. ASSUME NEW r \in Calls, LoginRead(r)
      PROVE  SessionsTypeOK'
  <2>1. [kind |-> "login", password |-> password] \in Reqs
    BY DEF Reqs, SessionsTypeOK
  <2>2. QED
    BY <1>3, <2>1 DEF LoginRead, SessionsTypeOK, Row
<1>4. ASSUME NEW r \in Calls, LoginIssue(r)
      PROVE  SessionsTypeOK'
  <2> DEFINE pw == call[r].password
             spared == pw # password \/ Resetting # {}
  <2>1. pw \in Passwords
    BY <1>4, ReqKinds DEF LoginIssue
  <2>2. Refresh(pw, spared) \in Refreshes /\ Access(pw, spared) \in Accesses
    BY <2>1, Tokens
  <2> HIDE DEF pw, spared
  <2>3. /\ session' = [session EXCEPT ![r] = Refresh(pw, spared)]
        /\ access' = [access EXCEPT ![r] = Access(pw, spared)]
        /\ UNCHANGED <<now, Row, sent, uses, mixed>>
    BY <1>4 DEF LoginIssue, pw, spared
  <2>4. call' \in [Calls -> Reqs]
    BY <1>4, AnswerType DEF LoginIssue
  <2>5. QED
    BY <2>2, <2>3, <2>4 DEF SessionsTypeOK, Row
<1>5. ASSUME NEW r \in Calls, NEW s \in Calls, RefreshRead(r, s)
      PROVE  SessionsTypeOK'
  <2>1. [kind |-> "refresh", of |-> s, password |-> password] \in Reqs
    BY DEF Reqs, SessionsTypeOK
  <2>2. QED
    BY <1>5, <2>1 DEF RefreshRead, SessionsTypeOK, Row
<1>6. ASSUME NEW r \in Calls, RefreshIssue(r)
      PROVE  SessionsTypeOK'
  <2> DEFINE old == session[call[r].of]
             spared == old.spared \/ call[r].password # password \/ Resetting # {}
  <2>1. old \in Refreshes
    BY <1>6, ReqKinds DEF RefreshIssue, Fresh, SessionsTypeOK
  <2>2. Access(old.password, spared) \in Accesses
    BY <2>1, Tokens DEF Refreshes
  <2> HIDE DEF old, spared
  <2>3. access' = [access EXCEPT ![r] = Access(old.password, spared)]
        /\ UNCHANGED <<now, Row, session, sent, uses, mixed>>
    BY <1>6 DEF RefreshIssue, old, spared
  <2>4. call' \in [Calls -> Reqs]
    BY <1>6, AnswerType DEF RefreshIssue
  <2>5. QED
    BY <2>2, <2>3, <2>4 DEF SessionsTypeOK, Row
<1>7. ASSUME NEW r \in Calls, NEW k \in Links, ResetRead(r, k)
      PROVE  SessionsTypeOK'
  <2>1. [kind |-> "reset", link |-> k, since |-> now] \in Reqs
    BY DEF Reqs, SessionsTypeOK
  <2>2. QED
    BY <1>7, <2>1 DEF ResetRead, SessionsTypeOK, Row
<1>8. ASSUME NEW r \in Calls, NEW at \in Times, ResetWrite(r, at)
      PROVE  SessionsTypeOK'
  <2>1. Refresh(r, FALSE) \in Refreshes /\ Access(r, FALSE) \in Accesses
    BY Tokens
  <2>2. \A s \in Calls : session[s] # None =>
            [session[s] EXCEPT !.spared = TRUE] \in Refreshes
    BY DEF SessionsTypeOK, Refreshes
  <2>3. session' \in [Calls -> Refreshes \cup {None}]
    BY <1>8, <2>1, <2>2 DEF ResetWrite, SessionsTypeOK
  <2>4. access' \in [Calls -> Accesses \cup {None}]
    BY <1>8, <2>1 DEF ResetWrite, SessionsTypeOK
  <2>5. call' \in [Calls -> Reqs]
    BY <1>8, AnswerType DEF ResetWrite
  <2>6. uses' \in [Links -> SUBSET Calls]
    BY <1>8 DEF ResetWrite, SessionsTypeOK
  <2>7. QED
    BY <1>8, <2>3, <2>4, <2>5, <2>6 DEF ResetWrite, NewPassword, SessionsTypeOK
<1>9. CASE UNCHANGED sessionVars
  BY <1>9 DEF sessionVars, Row, SessionsTypeOK
<1>10. QED
  BY <1>1, <1>2, <1>3, <1>4, <1>5, <1>6, <1>7, <1>8, <1>9 DEF SessionsNext, Times

-----------------------------------------------------------------------------
\* Only a step that reads or writes for a request touches what it has read.
LEMMA AnswerOthers ==
    ASSUME SessionsTypeOK, NEW r \in Calls, Answer(r)
    PROVE  /\ call'[r].kind = "done"
           /\ \A s \in Calls \ {r} : call'[s] = call[s]
           /\ Resetting' = Resetting \ {r}
BY DEF Answer, SessionsTypeOK, Resetting

\* Every step keeps Fresh.
LEMMA FreshNext == SessionsTypeOK /\ Fresh /\ [SessionsNext]_sessionVars => Fresh'
<1> SUFFICES ASSUME SessionsTypeOK, Fresh, [SessionsNext]_sessionVars
             PROVE  Fresh'
  OBVIOUS
<1>0. /\ now \in Int /\ now' \in Int /\ modified \in Int
      /\ \A s \in Calls : session[s] # None => session[s] \in Refreshes
      /\ \A s \in Calls : session[s] # None => session[s].issued \in Int
  <2>1. SessionsTypeOK'
    BY NextTypes
  <2>2. QED
    BY <2>1, LifeAssumption DEF SessionsTypeOK, Refreshes, Times
<1> USE TokenAssumption
<1>1. CASE Tick
  BY <1>1, <1>0 DEF Tick, Fresh, Row
<1>2. ASSUME NEW k \in Links, MailLink(k)
      PROVE  Fresh'
  BY <1>2 DEF MailLink, Fresh
<1>3. ASSUME NEW r \in Calls, LoginRead(r)
      PROVE  Fresh'
  BY <1>3 DEF LoginRead, Fresh, SessionsTypeOK, Row
<1>4. ASSUME NEW r \in Calls, LoginIssue(r)
      PROVE  Fresh'
  <2> DEFINE pw == call[r].password
             spared == pw # password \/ Resetting # {}
             token == Refresh(pw, spared)
  <2>1. pw \in Passwords /\ (pw # None => call[pw].kind = "done")
    BY <1>4, ReqKinds DEF LoginIssue, Fresh
  <2>2. token.issued = now /\ token.password = pw /\ token \in Refreshes
    BY <2>1, Tokens DEF Refresh
  <2> HIDE DEF token
  <2>3. \A s \in Calls : session'[s] = IF s = r THEN token ELSE session[s]
    BY <1>4 DEF LoginIssue, token, SessionsTypeOK
  <2>4. UNCHANGED <<now, password, modified>> /\ call[r].kind = "login"
    BY <1>4 DEF LoginIssue, Row
  <2>5. /\ call'[r].kind = "done"
        /\ \A s \in Calls \ {r} : call'[s] = call[s]
    BY <1>4, AnswerOthers DEF LoginIssue
  <2>6. \A q \in Calls : call[q].kind = "done" => call'[q].kind = "done"
    BY <2>5
  <2>7. ASSUME NEW s \in Calls
        PROVE  /\ session'[s] # None =>
                    /\ call'[s].kind = "done"
                    /\ session'[s].issued <= now'
                    /\ session'[s].password # None =>
                         call'[session'[s].password].kind = "done"
               /\ call'[s].kind = "login" /\ call'[s].password # None =>
                    call'[call'[s].password].kind = "done"
               /\ call'[s].kind = "refresh" => session'[call'[s].of] # None
    <3>1. session[s] # None => session[s].password \in Passwords
      BY <1>0 DEF Refreshes
    <3>2. call[s].kind = "login" => call[s].password \in Passwords
      BY ReqKinds
    <3>3. call[s].kind = "refresh" => call[s].of \in Calls
      BY ReqKinds
    <3>4. QED
      BY <1>0, <2>1, <2>2, <2>3, <2>4, <2>5, <2>6, <3>1, <3>2, <3>3 DEF Fresh, Passwords
  <2>8. QED
    BY <2>4, <2>6, <2>7 DEF Fresh, SessionsTypeOK, Passwords
<1>5. ASSUME NEW r \in Calls, NEW s \in Calls, RefreshRead(r, s)
      PROVE  Fresh'
  BY <1>5, <1>0 DEF RefreshRead, Fresh, SessionsTypeOK, Row
<1>6. ASSUME NEW r \in Calls, RefreshIssue(r)
      PROVE  Fresh'
  <2>1. UNCHANGED <<now, password, modified, session>> /\ call[r].kind = "refresh"
    BY <1>6 DEF RefreshIssue, Row
  <2>2. /\ call'[r].kind = "done"
        /\ \A s \in Calls \ {r} : call'[s] = call[s]
    BY <1>6, AnswerOthers DEF RefreshIssue
  <2>3. QED
    BY <2>1, <2>2, <1>0, ReqKinds, SMTT(20) DEF Fresh, Refreshes, SessionsTypeOK, Passwords
<1>7. ASSUME NEW r \in Calls, NEW k \in Links, ResetRead(r, k)
      PROVE  Fresh'
  BY <1>7 DEF ResetRead, Fresh, SessionsTypeOK, Row
<1>8. ASSUME NEW r \in Calls, NEW at \in Times, ResetWrite(r, at)
      PROVE  Fresh'
  <2>1. /\ now' = now /\ password' = r /\ modified' = at /\ call[r].kind = "reset"
        /\ at \in Int /\ at <= now
    BY <1>8, <1>0, LifeAssumption DEF ResetWrite, NewPassword, Times
  <2>2. /\ call'[r].kind = "done"
        /\ \A s \in Calls \ {r} : call'[s] = call[s]
    BY <1>8, AnswerOthers DEF ResetWrite
  <2>3. /\ session'[r].issued = now /\ session'[r].password = r
        /\ session'[r] \in Refreshes
    BY <1>8, Tokens DEF ResetWrite, Refresh, Passwords
  <2>4. ASSUME NEW s \in Calls \ {r}
        PROVE  /\ session'[s] = None \/ session[s] # None
               /\ session[s] # None =>
                    /\ session'[s].issued = session[s].issued
                    /\ session'[s].password = session[s].password
                    /\ session'[s] \in Refreshes
    <3>1. \/ session'[s] = session[s]
          \/ session[s] # None /\ session'[s] = [session[s] EXCEPT !.spared = TRUE]
      BY <1>8 DEF ResetWrite
    <3>2. QED
      BY <1>0, <3>1 DEF Refreshes
  <2>5. \A s \in Calls : call[s].kind = "refresh" => call[s].of # r
    BY <2>1, <1>0 DEF Fresh, SessionsTypeOK
  <2>6. QED
    BY <1>0, <2>1, <2>2, <2>3, <2>4, <2>5, ReqKinds DEF Fresh, Refreshes, Passwords
<1>9. CASE UNCHANGED sessionVars
  BY <1>9 DEF sessionVars, Row, Fresh
<1>10. QED
  BY <1>1, <1>2, <1>3, <1>4, <1>5, <1>6, <1>7, <1>8, <1>9 DEF SessionsNext

-----------------------------------------------------------------------------
LEMMA Numbers ==
    ASSUME SessionsTypeOK
    PROVE  /\ now \in Int /\ modified \in Int /\ AccessLife \in Int /\ AccessLife >= 0
           /\ mixed \in BOOLEAN /\ password \in Passwords
           /\ \A s \in Calls :
                 /\ session[s] # None =>
                       /\ session[s] \in Refreshes /\ session[s].issued \in Int
                       /\ session[s].password \in Passwords /\ session[s].spared \in BOOLEAN
                 /\ access[s] # None =>
                       /\ access[s] \in Accesses /\ access[s].exp \in Int
                       /\ access[s].password \in Passwords /\ access[s].spared \in BOOLEAN
                 /\ call[s].kind = "reset" => call[s].since \in Int
                 /\ call[s].kind = "refresh" => call[s].of \in Calls
BY LifeAssumption, ReqKinds DEF SessionsTypeOK, Refreshes, Accesses, Times

\* A step that issues nothing and changes no row, for a request that does not reset.
LEMMA ReadsAreTimely ==
    ASSUME SessionsTypeOK, Timely, UNCHANGED <<Row, session, access, mixed>>, now' >= now,
           now' \in Int, Resetting' = Resetting,
           \A s \in Calls :
               \/ call'[s] = call[s]
               \/ call'[s].kind \notin {"reset", "refresh"}
               \/ /\ call'[s].kind = "refresh" /\ call'[s].of \in Calls
                  /\ session[call'[s].of] # None /\ ~Refused(session[call'[s].of])
                  /\ call'[s].password = password,
           \A s \in Calls : call[s].kind = "refresh" => session[call[s].of] # None,
           \A s \in Resetting : call'[s] = call[s]
    PROVE  Timely'
<1>1. OneReset'
  BY Numbers DEF Timely, OneReset, Row, Resetting
<1>2. Outdated'
  <2>1. ASSUME ~mixed, NEW s \in Calls, call'[s].kind = "refresh",
               ~session[call'[s].of].spared
        PROVE  session[call'[s].of].password = call'[s].password
    BY <2>1, Numbers DEF Timely, Outdated, OldSessionsEnd
  <2>2. QED
    BY <2>1, Numbers DEF Timely, Outdated, Row
<1>3. OldSessionsEnd' /\ CurrentSessionsLive'
  BY DEF Timely, OldSessionsEnd, CurrentSessionsLive, Refused, Row
<1>4. QED
  BY <1>1, <1>2, <1>3 DEF Timely

\* A login gives out tokens of now: they count if no reset is under way and the
\* password is still the one that was compared.
LEMMA LoginIsTimely ==
    ASSUME SessionsTypeOK, Fresh, Timely, NEW r \in Calls, LoginIssue(r)
    PROVE  Timely'
<1> DEFINE pw == call[r].password
           spared == pw # password \/ Resetting # {}
           token == Refresh(pw, spared)
           pass == Access(pw, spared)
<1>1. pw \in Passwords /\ spared \in BOOLEAN /\ call[r].kind = "login"
  BY ReqKinds DEF LoginIssue
<1>2. /\ token.issued = now /\ token.password = pw /\ token.spared = spared
      /\ pass.exp = now + AccessLife /\ pass.password = pw /\ pass.spared = spared
  BY DEF Refresh, Access
<1>3. /\ \A s \in Calls : session'[s] = IF s = r THEN token ELSE session[s]
      /\ \A s \in Calls : access'[s] = IF s = r THEN pass ELSE access[s]
      /\ UNCHANGED <<now, password, modified, link, mixed>>
      /\ Resetting' = Resetting /\ \A s \in Calls \ {r} : call'[s] = call[s]
      /\ call'[r].kind = "done"
  BY <1>1, AnswerOthers DEF LoginIssue, SessionsTypeOK, Row, Resetting
<1> HIDE DEF token, pass
<1>4. session[r] = None
  BY <1>1 DEF Fresh
<1>5. spared <=> pw # password \/ Resetting # {}
  OBVIOUS
<1> HIDE DEF spared
<1>6. OneReset'
  BY <1>2, <1>3, <1>5, Numbers DEF Timely, OneReset, Resetting
<1>7. Outdated'
  BY <1>2, <1>3, <1>4, <1>5, Numbers DEF Timely, Outdated, Fresh
<1>8. OldSessionsEnd'
  BY <1>2, <1>3, <1>5, Numbers DEF Timely, OldSessionsEnd, Refused
<1>9. CurrentSessionsLive'
  BY <1>2, <1>3, <1>5, Numbers DEF Timely, CurrentSessionsLive, Refused, Fresh
<1>10. QED
  BY <1>6, <1>7, <1>8, <1>9 DEF Timely

\* A refresh gives out an access token of the session's password.
LEMMA RefreshIsTimely ==
    ASSUME SessionsTypeOK, Fresh, Timely, NEW r \in Calls, RefreshIssue(r)
    PROVE  Timely'
<1> DEFINE old == session[call[r].of]
           spared == old.spared \/ call[r].password # password \/ Resetting # {}
           pass == Access(old.password, spared)
<1>1. /\ call[r].kind = "refresh" /\ call[r].of \in Calls
      /\ old # None /\ old \in Refreshes /\ old.spared \in BOOLEAN
  BY Numbers DEF RefreshIssue, Fresh
<1>2. /\ pass.exp = now + AccessLife /\ pass.password = old.password
      /\ pass.spared = spared
  BY DEF Access
<1>3. /\ \A s \in Calls : access'[s] = IF s = r THEN pass ELSE access[s]
      /\ UNCHANGED <<now, password, modified, link, session, mixed>>
      /\ Resetting' = Resetting /\ \A s \in Calls \ {r} : call'[s] = call[s]
      /\ call'[r].kind = "done"
  BY <1>1, AnswerOthers DEF RefreshIssue, SessionsTypeOK, Row, Resetting
<1>4. ~mixed /\ ~spared => old.password = password /\ Resetting = {}
  BY <1>1 DEF Timely, Outdated
<1> HIDE DEF pass, old, spared
<1>5. OneReset'
  BY <1>2, <1>3, <1>4, Numbers DEF Timely, OneReset, Resetting
<1>6. Outdated'
  BY <1>2, <1>3, <1>4, Numbers DEF Timely, Outdated
<1>7. OldSessionsEnd' /\ CurrentSessionsLive'
  BY <1>3 DEF Timely, OldSessionsEnd, CurrentSessionsLive, Refused
<1>8. QED
  BY <1>5, <1>6, <1>7 DEF Timely

\* The change itself: what counts was issued before it began.
LEMMA ResetIsTimely ==
    ASSUME SessionsTypeOK, Fresh, Timely, NEW r \in Calls, NEW at \in Times, ResetWrite(r, at)
    PROVE  Timely'
<1>1. /\ call[r].kind = "reset" /\ r \in Resetting /\ at \in Int
      /\ call[r].since \in Int /\ call[r].since <= at /\ at <= now
      /\ now' = now /\ mixed' = mixed /\ password' = r /\ modified' = at
  BY Numbers, LifeAssumption DEF ResetWrite, NewPassword, Resetting, Times, SessionsTypeOK
<1>2. /\ call'[r].kind = "done" /\ \A s \in Calls \ {r} : call'[s] = call[s]
      /\ Resetting' = Resetting \ {r}
  BY AnswerOthers DEF ResetWrite
<1>3. /\ session'[r].issued = now /\ session'[r].password = r
      /\ access'[r].exp = now + AccessLife /\ access'[r].password = r
  BY DEF ResetWrite, Refresh, Access, SessionsTypeOK
<1>4. ASSUME NEW s \in Calls \ {r}
      PROVE  /\ session'[s] # None <=> session[s] # None
             /\ session[s] # None =>
                   /\ session'[s].issued = session[s].issued
                   /\ session'[s].password = session[s].password
                   /\ ~session'[s].spared => ~session[s].spared /\ session[s].issued # at
             /\ access'[s] = access[s]
  <2>1. session[s] # None =>
            /\ session[s] \in Refreshes /\ [session[s] EXCEPT !.spared = TRUE] \in Refreshes
    BY DEF SessionsTypeOK, Refreshes
  <2>2. QED
    BY <2>1, TokenAssumption, Numbers DEF ResetWrite, SessionsTypeOK, Refreshes
<1>5. ASSUME NEW s \in Calls
      PROVE  /\ session[s] # None => session[s].password # r
             /\ call[s].kind = "refresh" => call[s].of # r
  BY <1>1, Numbers, NoneAssumption DEF Fresh
<1>6. ~mixed => /\ Resetting' = {}
                /\ modified <= call[r].since
                /\ \A s \in Calls :
                      /\ session[s] # None /\ ~session[s].spared =>
                            session[s].issued <= call[r].since
                      /\ access[s] # None /\ ~access[s].spared =>
                            access[s].exp <= call[r].since + AccessLife
  BY <1>1, <1>2 DEF Timely, OneReset
<1>7. OneReset'
  BY <1>1, <1>6 DEF OneReset
<1>8. Outdated'
  <2> SUFFICES ASSUME ~mixed', NEW s \in Calls
               PROVE  /\ access'[s] # None /\ ~access'[s].spared =>
                            /\ access'[s].exp <= now' + AccessLife
                            /\ access'[s].password # password' =>
                                  access'[s].exp <= modified' + AccessLife
                      /\ call'[s].kind = "refresh" /\ ~session'[call'[s].of].spared =>
                            session'[call'[s].of].password = call'[s].password
    BY DEF Outdated
  <2>1. ~mixed
    BY <1>1
  <2>2. CASE s = r
    BY <1>1, <1>2, <1>3, <2>2, Numbers
  <2>3. CASE s # r
    <3>1. call'[s] = call[s] /\ access'[s] = access[s]
      BY <1>2, <1>4, <2>3
    <3>2. call[s].kind = "refresh" =>
              /\ call[s].of \in Calls \ {r} /\ session[call[s].of] # None
      BY <1>5, Numbers DEF Fresh
    <3>3. QED
      BY <1>1, <1>4, <1>6, <2>1, <3>1, <3>2, Numbers DEF Timely, Outdated
  <2>4. QED
    BY <2>2, <2>3
<1>9. OldSessionsEnd'
  <2>1. ASSUME NEW s \in Calls \ {r}, ~mixed, session[s] # None, ~session'[s].spared
        PROVE  session'[s].issued < at
    BY <1>1, <1>4, <1>6, <2>1, Numbers
  <2>2. QED
    BY <1>1, <1>3, <1>4, <2>1 DEF OldSessionsEnd, Refused
<1>10. CurrentSessionsLive'
  BY <1>1, <1>3, <1>4, <1>5, Numbers DEF CurrentSessionsLive, Refused
<1>11. QED
  BY <1>7, <1>8, <1>9, <1>10 DEF Timely

LEMMA TimelyNext == SessionsTypeOK /\ Fresh /\ Timely /\ [SessionsNext]_sessionVars => Timely'
<1> SUFFICES ASSUME SessionsTypeOK, Fresh, Timely, [SessionsNext]_sessionVars
             PROVE  Timely'
  OBVIOUS
<1>0. \A s \in Calls : call[s].kind = "refresh" => session[call[s].of] # None
  BY DEF Fresh
<1>1. CASE Tick
  BY <1>0, <1>1, Numbers, ReadsAreTimely DEF Tick, Row, Resetting
<1>2. ASSUME NEW k \in Links, MailLink(k)
      PROVE  Timely'
  <2>1. /\ UNCHANGED <<now, password, modified, call, session, access>>
        /\ mixed' = (mixed \/ Resetting # {}) /\ Resetting' = Resetting
    BY <1>2 DEF MailLink, Resetting
  <2>2. QED
    BY <2>1, Numbers DEF Timely, OneReset, Outdated, OldSessionsEnd, CurrentSessionsLive, Refused
<1>3. ASSUME NEW r \in Calls, LoginRead(r)
      PROVE  Timely'
  <2>1. /\ call[r].kind = "idle" /\ call'[r].kind = "login"
        /\ \A s \in Calls \ {r} : call'[s] = call[s]
        /\ UNCHANGED <<now, Row, session, access, mixed>>
    BY <1>3 DEF LoginRead, SessionsTypeOK
  <2>2. Resetting' = Resetting
    BY <2>1 DEF Resetting
  <2>3. QED
    BY <1>0, <2>1, <2>2, Numbers, ReadsAreTimely DEF Resetting
<1>4. ASSUME NEW r \in Calls, LoginIssue(r)
      PROVE  Timely'
  BY <1>4, LoginIsTimely
<1>5. ASSUME NEW r \in Calls, NEW s \in Calls, RefreshRead(r, s)
      PROVE  Timely'
  <2>1. /\ call[r].kind = "idle" /\ call'[r].kind = "refresh"
        /\ call'[r].of = s /\ call'[r].password = password
        /\ session[s] # None /\ ~Refused(session[s])
        /\ \A q \in Calls \ {r} : call'[q] = call[q]
        /\ UNCHANGED <<now, Row, session, access, mixed>>
    BY <1>5 DEF RefreshRead, SessionsTypeOK
  <2>2. Resetting' = Resetting
    BY <2>1 DEF Resetting
  <2>3. QED
    BY <1>0, <2>1, <2>2, Numbers, ReadsAreTimely DEF Resetting
<1>6. ASSUME NEW r \in Calls, RefreshIssue(r)
      PROVE  Timely'
  BY <1>6, RefreshIsTimely
<1>7. ASSUME NEW r \in Calls, NEW k \in Links, ResetRead(r, k)
      PROVE  Timely'
  <2>1. /\ call[r].kind = "idle" /\ call'[r] = [kind |-> "reset", link |-> k, since |-> now]
        /\ \A q \in Calls \ {r} : call'[q] = call[q]
        /\ UNCHANGED <<now, Row, session, access>> /\ link = k
        /\ mixed' = (mixed \/ Resetting # {})
    BY <1>7 DEF ResetRead, SessionsTypeOK
  <2>2. Resetting' = Resetting \cup {r}
    BY <2>1 DEF Resetting
  <2>3. OneReset'
    <3>1. ASSUME ~mixed'
          PROVE  ~mixed /\ Resetting = {} /\ Resetting' = {r}
      BY <2>1, <2>2, <3>1
    <3>2. /\ call'[r].since = now /\ call'[r].link = k
      BY <2>1
    <3>3. ASSUME ~mixed, NEW s \in Calls
          PROVE  /\ session[s] # None => session[s].issued <= now
                 /\ access[s] # None /\ ~access[s].spared => access[s].exp <= now + AccessLife
      BY <3>3 DEF Fresh, Timely, Outdated
    <3>4. UNCHANGED <<now, modified, link, session, access>> /\ link = k
      BY <2>1 DEF Row
    <3>5. now <= now /\ modified <= now
      BY Numbers DEF Fresh
    <3>6. QED
      BY ONLY <3>1, <3>2, <3>3, <3>4, <3>5 DEF OneReset
  <2>4. Outdated'
    BY <2>1, Numbers DEF Timely, Outdated, Row
  <2>5. OldSessionsEnd' /\ CurrentSessionsLive'
    BY <2>1 DEF Timely, OldSessionsEnd, CurrentSessionsLive, Refused, Row
  <2>6. QED
    BY <2>3, <2>4, <2>5 DEF Timely
<1>8. ASSUME NEW r \in Calls, NEW at \in Times, ResetWrite(r, at)
      PROVE  Timely'
  BY <1>8, ResetIsTimely
<1>9. CASE UNCHANGED sessionVars
  BY <1>9 DEF sessionVars, Row, Timely, OneReset, Outdated, OldSessionsEnd, CurrentSessionsLive,
              Refused, Resetting
<1>10. QED
  BY <1>1, <1>2, <1>3, <1>4, <1>5, <1>6, <1>7, <1>8, <1>9 DEF SessionsNext

-----------------------------------------------------------------------------
LEMMA LapsesFollow ==
    ASSUME SessionsTypeOK, Timely
    PROVE  OldAccessLapses
BY Numbers DEF Timely, Outdated, OldAccessLapses, Admitted

\* After a change of the password nothing obtained with the one before lasts, and
\* whoever has the new one goes on (token_refresh, consume_password_reset_token).
THEOREM SessionsFollow ==
    SessionsSpec => []SessionsFollowThePassword
<1>1. SessionsInit => SessionInv
  BY InitTypes, LifeAssumption DEF SessionsInit, SessionInv, Fresh, Timely, OneReset, Outdated,
                   OldSessionsEnd, CurrentSessionsLive, Resetting
<1>2. SessionInv /\ [SessionsNext]_sessionVars => SessionInv'
  BY NextTypes, FreshNext, TimelyNext DEF SessionInv
<1>3. SessionInv => SessionsFollowThePassword
  BY LapsesFollow DEF SessionInv, SessionsFollowThePassword, Timely
<1>4. QED
  BY <1>1, <1>2, <1>3, PTL DEF SessionsSpec

-----------------------------------------------------------------------------
\* Mailing appends: what was mailed before stays, the new link is the last.
LEMMA MailedAppends ==
    ASSUME SessionsTypeOK, NEW k \in Links, sent' = Append(sent, k)
    PROVE  /\ sent' # <<>> /\ sent'[Len(sent')] = k
           /\ Mailed' = Mailed \cup {k}
<1>1. sent \in Seq(Links) /\ Len(sent) \in Nat /\ DOMAIN sent = 1..Len(sent)
  BY DEF SessionsTypeOK
<1>2. /\ Len(sent') = Len(sent) + 1 /\ DOMAIN sent' = 1..(Len(sent) + 1)
      /\ sent'[Len(sent) + 1] = k /\ \A n \in 1..Len(sent) : sent'[n] = sent[n]
  BY <1>1
<1>3. sent' # <<>>
  BY <1>1, <1>2
<1>4. Mailed' = Mailed \cup {k}
  BY <1>1, <1>2 DEF Mailed
<1>5. QED
  BY <1>1, <1>2, <1>3, <1>4

LEMMA LinkStays ==
    ASSUME SessionsTypeOK, LinkInv, link' = link, sent' = sent, uses' = uses, mixed => mixed',
           \A r \in Calls : call'[r].kind = "reset" =>
               call'[r] = call[r] \/ (call'[r].link = link /\ link # None)
    PROVE  LinkInv'
<1>1. Mailed' = Mailed
  BY DEF Mailed
<1>2. \A r \in Resetting' : call'[r].link \in Mailed
  BY DEF Resetting, LinkInv
<1>3. QED
  BY <1>1, <1>2, Numbers DEF LinkInv, LastLinkWorks

\* Every step keeps LinkInv; the resets need OneReset.
LEMMA LinkNext == SessionsTypeOK /\ OneReset /\ LinkInv /\ [SessionsNext]_sessionVars => LinkInv'
<1> SUFFICES ASSUME SessionsTypeOK, OneReset, LinkInv, [SessionsNext]_sessionVars
             PROVE  LinkInv'
  OBVIOUS
<1>2. ASSUME NEW k \in Links, MailLink(k)
      PROVE  LinkInv'
  <2>1. /\ k \notin Mailed /\ link' = k /\ uses' = uses /\ sent' = Append(sent, k)
        /\ (mixed => mixed') /\ Resetting' = Resetting /\ call' = call
    BY <1>2 DEF MailLink, Mailed, Resetting
  <2>2. sent' # <<>> /\ sent'[Len(sent')] = k /\ Mailed' = Mailed \cup {k}
    BY <2>1, MailedAppends
  <2>3. uses[k] = {}
    BY <2>1 DEF LinkInv
  <2>4. LastLinkWorks'
    BY <2>1, <2>2, <2>3 DEF LastLinkWorks
  <2>5. QED
    BY <2>1, <2>2, <2>3, <2>4 DEF LinkInv
<1>3. ASSUME NEW r \in Calls, NEW at \in Times, ResetWrite(r, at)
      PROVE  LinkInv'
  <2> DEFINE k == call[r].link
  <2>1. /\ k \in Links /\ call[r].kind = "reset" /\ link' = None
        /\ uses' = [uses EXCEPT ![k] = @ \cup {r}] /\ sent' = sent /\ mixed' = mixed
    BY <1>3, ReqKinds DEF ResetWrite, NewPassword
  <2>2. ~mixed => link = k
    BY <2>1 DEF OneReset, Resetting
  <2>3. \A l \in Links : uses'[l] = IF l = k THEN uses[l] \cup {r} ELSE uses[l]
    BY <2>1 DEF SessionsTypeOK
  <2> HIDE DEF k
  <2>4. /\ Mailed' = Mailed /\ k \in Mailed
        /\ \A q \in Resetting' : call'[q].link \in Mailed
    <3>1. Resetting' = Resetting \ {r} /\ \A q \in Calls \ {r} : call'[q] = call[q]
      BY <1>3, AnswerOthers DEF ResetWrite
    <3>2. r \in Resetting
      BY <2>1 DEF Resetting
    <3>3. QED
      BY <2>1, <3>1, <3>2 DEF Mailed, LinkInv, k, Resetting
  <2>5. ~mixed => uses[k] = {}
    BY <2>1, <2>2, NoneAssumption DEF LinkInv
  <2>6. \A l \in Links : uses'[l] # {} => l \in Mailed'
    BY <2>3, <2>4 DEF LinkInv
  <2>7. ~mixed => \A l \in Links : uses'[l] = {} \/ \E q \in Calls : uses'[l] = {q}
    BY <2>3, <2>5 DEF LinkInv
  <2>8. LastLinkWorks'
    <3>1. ASSUME ~mixed, sent # <<>>
          PROVE  uses'[sent[Len(sent)]] # {}
      <4>1. link # None /\ link = k
        BY <2>1, <2>2, <3>1, NoneAssumption
      <4>2. link = sent[Len(sent)]
        BY <3>1, <4>1 DEF LinkInv, LastLinkWorks
      <4>3. r \in uses'[k]
        BY <2>1, <2>3
      <4>4. QED
        BY <4>1, <4>2, <4>3
    <3>2. QED
      BY <2>1, <3>1 DEF LastLinkWorks
  <2>9. QED
    BY <2>1, <2>4, <2>6, <2>7, <2>8 DEF LinkInv
<1>4. ASSUME NEW r \in Calls,
             \/ LoginRead(r)
             \/ LoginIssue(r)
             \/ \E s \in Calls : RefreshRead(r, s)
             \/ RefreshIssue(r)
      PROVE  LinkInv'
  <2>1. link' = link /\ sent' = sent /\ uses' = uses /\ (mixed => mixed')
    BY <1>4 DEF LoginRead, LoginIssue, RefreshRead, RefreshIssue, Row
  <2>2. \A q \in Calls : call'[q].kind = "reset" =>
            call'[q] = call[q] \/ (call'[q].link = link /\ link # None)
    BY <1>4 DEF LoginRead, LoginIssue, RefreshRead, RefreshIssue, Answer, SessionsTypeOK
  <2>3. QED
    BY <2>1, <2>2, LinkStays
<1>5. ASSUME NEW r \in Calls, NEW k \in Links, ResetRead(r, k)
      PROVE  LinkInv'
  <2>1. /\ call'[r].link = link /\ link # None
        /\ \A q \in Calls \ {r} : call'[q] = call[q]
    BY <1>5, NoneAssumption DEF ResetRead, SessionsTypeOK
  <2>2. link' = link /\ sent' = sent /\ uses' = uses /\ (mixed => mixed')
    BY <1>5, Numbers DEF ResetRead, Row
  <2>3. \A q \in Calls : call'[q].kind = "reset" =>
            call'[q] = call[q] \/ (call'[q].link = link /\ link # None)
    BY <2>1
  <2>4. QED
    BY <2>2, <2>3, LinkStays
<1>6. CASE Tick \/ UNCHANGED sessionVars
  <2>1. link' = link /\ sent' = sent /\ uses' = uses /\ (mixed => mixed') /\ call' = call
    BY <1>6 DEF Tick, sessionVars, Row
  <2>2. \A q \in Calls : call'[q].kind = "reset" =>
            call'[q] = call[q] \/ (call'[q].link = link /\ link # None)
    BY <2>1
  <2>3. QED
    BY <2>1, <2>2, LinkStays
<1>7. QED
  BY <1>2, <1>3, <1>4, <1>5, <1>6 DEF SessionsNext

LEMMA UsedOnce ==
    ASSUME LinkInv
    PROVE  LinkIsUsedOnce
<1>1. Cardinality({}) <= 1 /\ \A r \in Calls : Cardinality({r}) <= 1
  <2>1. Cardinality({}) = 0
    BY FS_EmptySet
  <2>2. \A r \in Calls : Cardinality({r}) = 1
    BY FS_Singleton
  <2>3. QED
    BY <2>1, <2>2
<1>2. QED
  BY <1>1 DEF LinkInv, LinkIsUsedOnce

\* Of all the links mailed the last works, and it works once
\* (create_password_reset_token, consume_password_reset_token).
THEOREM LastLink ==
    SessionsSpec => []LastLinkWorksOnce
<1>1. SessionsInit => SessionInv /\ LinkInv
  <2>1. SessionsInit => SessionInv
    BY InitTypes, LifeAssumption DEF SessionsInit, SessionInv, Fresh, Timely, OneReset, Outdated,
                     OldSessionsEnd, CurrentSessionsLive, Resetting
  <2>2. SessionsInit => LinkInv
    BY DEF SessionsInit, LinkInv, LastLinkWorks, Resetting
  <2>3. QED
    BY <2>1, <2>2
<1>2. SessionInv /\ LinkInv /\ [SessionsNext]_sessionVars => SessionInv' /\ LinkInv'
  BY NextTypes, FreshNext, TimelyNext, LinkNext DEF SessionInv, Timely
<1>3. LinkInv => LastLinkWorksOnce
  BY UsedOnce DEF LastLinkWorksOnce, LinkInv
<1>4. QED
  BY <1>1, <1>2, <1>3, PTL DEF SessionsSpec
=============================================================================
