-------------------------------- MODULE Places --------------------------------
(***************************************************************************)
(* Artists and venues, which are shared or an organization's own           *)
(* (is_private), and the stages of venues: who may change them and to whom *)
(* they are listed (db/src/models/artists.rs, venues.rs, stages.rs and     *)
(* their controllers in api/src/controllers).                              *)
(*                                                                         *)
(* A request reads the row, decides by what it has read, and then writes   *)
(* it by its id.  Memberships do not change here (module Accounts).        *)
(***************************************************************************)
EXTENDS OrganizerRequests, Scopes

CONSTANTS
    Artists, Venues,    \* ids of artists and venues rows
    Stages,             \* ids of stages rows
    FirstEntry,         \* the artists and venues that are there from the start
    FirstStage,         \* and the stages: the venue of each, or Null
    People, Orgs,
    Admins,             \* who has the role Admin
    Members             \* organization_users: pairs of a person and an organization

VARIABLES
    entry,      \* artists and venues
    stage,      \* stages
    public      \* history: whether each is for everybody, by what was decided;
                \* Null after two toggles overlapped

placeVars == <<entry, stage, public>>

Entries == Artists \cup Venues

\* editor: who wrote the columns that are not modelled one by one.
Entry == [org : Orgs \cup {Null}, private : BOOLEAN, editor : People]

ASSUME EntryAssumption ==
    /\ FirstEntry \in [Entries -> Entry \cup {Null}] /\ FirstStage \in [Stages -> Venues \cup {Null}]
    /\ \A s \in Stages : FirstStage[s] # Null => FirstEntry[FirstStage[s]] # Null
    /\ Null \notin Entry
ASSUME MemberAssumption ==
    Admins \subseteq People /\ Members \subseteq People \X Orgs /\ Null \notin Orgs

\* row: as it was read; clean: nobody has changed its organization or privacy since.
Changing ==
    [kind : {"entry"}, does : {"update", "toggle", "assign"}, id : Entries, user : People,
     row : Entry, to : Orgs \cup {Null}, clean : BOOLEAN]
Staging ==
    [kind : {"stage"}, does : {"create", "delete"}, id : Stages, venue : Venues, user : People,
     clean : BOOLEAN]

PlacesTypeOK ==
    /\ entry \in [Entries -> Entry \cup {Null}]
    /\ stage \in [Stages -> Venues \cup {Null}]
    /\ public \in [Entries -> BOOLEAN \cup {Null}]

PlacesInit ==
    /\ entry = FirstEntry
    /\ stage = FirstStage
    /\ public = [x \in Entries |-> FirstEntry[x] # Null /\ ~FirstEntry[x].private]

-----------------------------------------------------------------------------
(* Authority: check_scope_access, without an organization when o is Null.  *)

Roles(u, o) ==
    {"User"} \cup (IF u \in Admins THEN {"Admin"} ELSE {})
        \cup (IF <<u, o>> \in Members THEN {"OrgMember"} ELSE {})
Allowed(u, scope, o) == scope \in ScopesOf(Roles(u, o))

WriteScope(x) == IF x \in Venues THEN "venue:write" ELSE "artist:write"

\* Mutant: the organization may always change what it has given.
MayWriteOwn(u, x, row) == Allowed(u, WriteScope(x), row.org)

\* What is shared, or nobody's, needs the scope itself.
MayWrite(u, x, row) == Allowed(u, WriteScope(x), IF row.private THEN row.org ELSE Null)

-----------------------------------------------------------------------------
(* Lists.  u is Null for a guest.                                          *)

Known(S) == {x \in S : entry[x] # Null}
Belongs(u, x) == <<u, entry[x].org>> \in Members

\* Artist::search and all, Venue::all
Listed(u) == {x \in Known(Entries) : Belongs(u, x) \/ ~entry[x].private \/ u \in Admins}

\* find_for_organization, where an administrator is like anybody else
ListedFor(u, o) ==
    {x \in Known(Entries) : entry[x].org = o /\ (Belongs(u, x) \/ ~entry[x].private)}

-----------------------------------------------------------------------------
(* Requests.                                                               *)

\* Mutant: set_privacy is forgotten.
PublicEntry(u, o) == [org |-> o, private |-> FALSE, editor |-> u]

\* The insert, and set_privacy where it has an organization.
NewEntry(u, o) == [org |-> o, private |-> o # Null, editor |-> u]

\* merge fills what Spotify left out, column by column, and passes over the
\* organization, of which Spotify knows none.
FromSpotify(o, spotify) == IF spotify THEN Null ELSE o

\* create.  A venue of no organization needs the scope of artists.
CreateEntry(r, u, x, o, spotify) ==
    LET kept == FromSpotify(o, spotify) IN
    /\ entry[x] = Null /\ (spotify => x \in Artists)
    /\ Allowed(u, IF o = Null THEN "artist:write" ELSE WriteScope(x), o)
    /\ entry' = [entry EXCEPT ![x] = NewEntry(u, kept)]
    /\ public' = [public EXCEPT ![x] = (kept = Null)]
    /\ req' = [req EXCEPT ![r] = Done]
    /\ UNCHANGED stage

Prepare(r, u, does, x, to) ==
    /\ req' = [req EXCEPT ![r] = [kind |-> "entry", does |-> does, id |-> x, user |-> u,
                                  row |-> entry[x], to |-> to, clean |-> TRUE]]
    /\ UNCHANGED placeVars

StartUpdate(r, u, x) ==
    /\ entry[x] # Null /\ MayWrite(u, x, entry[x])
    /\ Prepare(r, u, "update", x, Null)

\* toggle_privacy
StartToggle(r, u, x) ==
    /\ entry[x] # Null /\ Allowed(u, WriteScope(x), Null)
    /\ Prepare(r, u, "toggle", x, Null)

\* Mutant: a venue may be given again.
AssignableAgain(row) == row # Null

Assignable(row) == row # Null /\ row.org = Null

\* add_to_organization; a Conflict when it has one.
StartAssign(r, u, x, o) ==
    /\ x \in Venues /\ Assignable(entry[x]) /\ Allowed(u, "org:admin", Null)
    /\ Prepare(r, u, "assign", x, o)

After(q, row) ==
    CASE q.does = "update" -> [row EXCEPT !.editor = q.user]
      [] q.does = "toggle" -> [row EXCEPT !.private = ~q.row.private]
      [] q.does = "assign" -> [row EXCEPT !.org = q.to]

\* The others that rely on what they have read of x.
Reliant(x) ==
    {r \in Requests : \/ req[r].kind = "entry" /\ req[r].id = x
                      \/ req[r].kind = "stage" /\ req[r].venue = x}

FinishEntry(r) ==
    LET q == req[r]
        row == entry[q.id]
        changed == After(q, row).private # row.private \/ After(q, row).org # row.org IN
    /\ q.kind = "entry"
    /\ entry' = [entry EXCEPT ![q.id] = After(q, row)]
    /\ public' = [public EXCEPT ![q.id] =
                    IF q.does # "toggle" \/ @ = Null THEN @
                    ELSE IF q.row.private = row.private THEN ~@ ELSE Null]
    /\ req' = [s \in Requests |->
                IF s = r THEN Done
                ELSE IF changed /\ s \in Reliant(q.id) THEN [req[s] EXCEPT !.clean = FALSE]
                ELSE req[s]]
    /\ UNCHANGED stage

StageRequest(r, u, does, s, v) ==
    /\ req' = [req EXCEPT ![r] = [kind |-> "stage", does |-> does, id |-> s, venue |-> v,
                                  user |-> u, clean |-> TRUE]]
    /\ UNCHANGED placeVars

\* stages::create asks the venue's organization, shared or not;
StartStage(r, u, s, v) ==
    /\ entry[v] # Null /\ Allowed(u, "venue:write", entry[v].org)
    /\ stage[s] = Null /\ \A q \in Requests : req[q].kind = "stage" => req[q].id # s
    /\ StageRequest(r, u, "create", s, v)

\* delete, who may change the venue.
StartRemoval(r, u, s) ==
    /\ stage[s] # Null /\ MayWrite(u, stage[s], entry[stage[s]])
    /\ StageRequest(r, u, "delete", s, stage[s])

FinishStage(r) ==
    LET q == req[r] IN
    /\ q.kind = "stage"
    /\ stage' = [stage EXCEPT ![q.id] = IF q.does = "create" THEN q.venue ELSE Null]
    /\ req' = [req EXCEPT ![r] = Done]
    /\ UNCHANGED <<entry, public>>

EntryStep ==
    \E r \in Requests :
        \/ FinishEntry(r)
        \/ /\ req[r] = Idle("place")
           /\ \E u \in People, x \in Entries :
                \/ StartUpdate(r, u, x) \/ StartToggle(r, u, x)
                \/ \E o \in Orgs : StartAssign(r, u, x, o)
                \/ \E o \in Orgs \cup {Null}, spotify \in BOOLEAN :
                    CreateEntry(r, u, x, o, spotify)

StageStart ==
    \E r \in Requests :
        /\ req[r] = Idle("stage")
        /\ \E u \in People, s \in Stages :
            StartRemoval(r, u, s) \/ \E v \in Venues : StartStage(r, u, s, v)

-----------------------------------------------------------------------------
(* Properties.                                                             *)

\* "New artists belonging to an organization start private": everybody finds what
\* has been made public, the organization's people and administrators the rest,
\* and nobody else: whoever created, gave away and toggled it, unless two toggles
\* overlapped.
ListedAsMeant ==
    \A x \in Known(Entries) : public[x] # Null =>
        \A u \in People \cup {Null} :
            /\ x \in Listed(u) <=> public[x] \/ u \in Admins \/ Belongs(u, x)
            /\ entry[x].org # Null =>
                (x \in ListedFor(u, entry[x].org) <=> public[x] \/ Belongs(u, x))

\* Who has finished now what was about id, by right or on an old row.
ByRight(id, x) ==
    \E r \in Requests :
        /\ req[r].kind \in {"entry", "stage"} /\ req[r].id = id /\ req'[r] = Done
        /\ \/ req[r].user \in Admins \/ ~req[r].clean
           \/ entry[x].private /\ Belongs(req[r].user, x)

\* What is shared is changed, and stages of a shared venue are removed, by
\* administrators, and an organization's own by its people: unless the entry was
\* published, withdrawn or given away after the request had read it.
ChangesAreAllowed ==
    [][/\ \A x \in Known(Entries) : entry'[x].editor # entry[x].editor => ByRight(x, x)
       /\ \A s \in Stages : stage[s] # Null /\ stage'[s] = Null => ByRight(s, stage[s])
      ]_<<entry, stage>>

\* A venue stays with the organization it was given to, unless two gave it away
\* at once: neither then finds the conflict.
OrganizationKept ==
    [][\A x \in Known(Entries) :
        entry[x].org # Null /\ entry'[x].org # entry[x].org =>
            \E r \in Requests :
                req[r].kind = "entry" /\ req[r].id = x /\ req'[r] = Done /\ ~req[r].clean]_entry

\* Nobody loses an artist or a venue, or sees one changed, by a request that
\* had no right to it when it looked.
PlacesAreKept == ChangesAreAllowed /\ OrganizationKept
=============================================================================
