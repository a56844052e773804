-------------------------------- MODULE Events --------------------------------
(***************************************************************************)
(* An event: its publication and cancellation (db/src/models/events.rs,    *)
(* api/src/controllers/events.rs), its line-up (event_artists.rs) of       *)
(* artists on the stages of venues (module Places), its prices (module     *)
(* Pricing), and the background actions that publication starts: one       *)
(* creates the event's list at the mail provider, and a series of others,  *)
(* each enqueued by the one before it, copies the fans there               *)
(* (api/src/domain_events/executors/marketing_contacts/*.rs).              *)
(*                                                                         *)
(* An action is executed by one process at a time (module DomainActions    *)
(* says when); several actions run at once.                                *)
(***************************************************************************)
EXTENDS Pricing, Places, Sequences

CONSTANTS
    Starts,         \* what the requests are about, the event's row as it is created,
                    \* and whether the organization has a key for the mail provider
    EventChanges,   \* what an update may ask of the event: Null where nothing
    MaxJobs,        \* bound: marketing actions that are pending at one time
    MaxTries        \* max_attempt_count

Abouts == {"type", "event", "lineup", "place", "stage", "nothing"}
Jobs == 1 .. MaxJobs

ASSUME StartAssumption ==
    Starts \subseteq [about : [Requests -> Abouts], date : BOOLEAN, image : BOOLEAN,
                      venue : BOOLEAN, key : BOOLEAN]
ASSUME ChangeAssumption ==
    EventChanges \subseteq [date : BOOLEAN \cup {Null}, image : BOOLEAN \cup {Null},
                            venue : {TRUE, Null}]
ASSUME JobAssumption == MaxJobs \in Nat /\ MaxTries \in Nat \ {0}
ASSUME ArtistAssumption == Null \notin Artists

VARIABLES
    event,      \* the events row
    key,        \* the organization has a key for the mail provider
    job,        \* domain_actions of the event that are still to be executed
    lineup,     \* event_artists
    sent,       \* history: the line-up as last sent, Null after requests for it
                \* overlapped
    excused     \* history: "undated", "twice" and "missed" as said below

eventVars == <<event, key, job, lineup, sent, excused>>
vars == <<pricingVars, placeVars, req, eventVars>>

\* date, image, venue, list, cancelled: publish_date, promo_image_url, venue_id,
\* sendgrid_list_id, cancelled_at are set.  over: event_end has passed.
EventRow ==
    [status : {"Draft", "Published"}, date : BOOLEAN, image : BOOLEAN, venue : BOOLEAN,
     list : BOOLEAN, cancelled : BOOLEAN, over : BOOLEAN]

\* seen: the event as the executor has read it, Null when it does not run.
\* lapsed: expires_at has passed while it runs.  found: it has looked for a
\* pending import, and whether there was one.
Job ==
    [kind : {"list", "import"}, tries : 0 .. MaxTries - 1, seen : EventRow \cup {Null},
     lapsed : BOOLEAN, found : BOOLEAN \cup {Null}]
ASSUME RecordAssumption == Null \notin EventRow \cup Job
NewJob(kind) == [kind |-> kind, tries |-> 0, seen |-> Null, lapsed |-> FALSE, found |-> Null]

\* by: the request that inserted the row.
Appearance == [artist : Artists, rank : Nat, stage : Stages \cup {Null}, by : Requests]

Editing ==
    [kind : {"publish", "unpublish", "cancel"}, seen : EventRow, clean : BOOLEAN]
        \cup [kind : {"edit"}, seen : EventRow, clean : BOOLEAN, set : EventChanges]
LiningUp ==
    [kind : {"lineup"}, slots : Seq(Artists \X (Stages \cup {Null})), gone : SUBSET Appearance, clean : BOOLEAN]

TypeOK ==
    /\ PricingTypeOK /\ PlacesTypeOK
    /\ DOMAIN req = Requests
    /\ \A r \in Requests :
        \/ req[r] \in {Idle(a) : a \in Abouts} \cup {Done} \cup Editing \cup LiningUp
        \/ req[r] \in Changing \cup Staging
        \/ Updating(req[r]) \/ Priced(req[r])
    /\ event \in EventRow
    /\ key \in BOOLEAN
    /\ job \in [Jobs -> Job \cup {Null}]
    /\ lineup \subseteq Appearance
    /\ \A r \in lineup : \A s \in lineup : r.artist = s.artist => r = s
    /\ sent \in (SUBSET (Artists \X Nat \X (Stages \cup {Null}))) \cup {Null}
    /\ excused \subseteq {"undated", "twice", "missed"}

\* events::create: a draft; the organizer may have given it everything else.
Init ==
    /\ PricingInit /\ PlacesInit
    /\ \E start \in Starts :
        /\ req = [r \in Requests |-> Idle(start.about[r])]
        /\ event = [status |-> "Draft", date |-> start.date, image |-> start.image,
                    venue |-> start.venue, list |-> FALSE, cancelled |-> FALSE, over |-> FALSE]
        /\ key = start.key
    /\ job = [j \in Jobs |-> Null]
    /\ lineup = {}
    /\ sent = {}
    /\ excused = {}

-----------------------------------------------------------------------------
(* The event's row: each request reads it and then updates it by its id,   *)
(* whatever it has become.                                                 *)

\* CreateEventList has updated the row in a transaction that is still open.
Checked == {j \in Jobs : job[j] # Null /\ job[j].found # Null}
RowFree == \A j \in Checked : job[j].seen.list

Read(r, q) ==
    /\ req[r] = Idle("event")
    /\ req' = [req EXCEPT ![r] = q]
    /\ UNCHANGED <<pricingVars, eventVars>>

\* Event::publish; what is published already is not written.
StartPublish(r) ==
    /\ event.status = "Published" \/ (event.venue /\ event.image)
    /\ Read(r, [kind |-> "publish", seen |-> event, clean |-> TRUE])

StartUnpublish(r) ==
    /\ event.status = "Published"
    /\ Read(r, [kind |-> "unpublish", seen |-> event, clean |-> TRUE])

StartCancel(r) == Read(r, [kind |-> "cancel", seen |-> event, clean |-> TRUE])

StartEdit(r, set) == Read(r, [kind |-> "edit", seen |-> event, clean |-> TRUE, set |-> set])

\* Mutant: the date of a published event may be cleared.
DateAsAsked(seen, date) == date

\* Event::update: of an event it has read as published, no date means today.
DateFor(seen, date) == IF date = FALSE /\ seen.status = "Published" THEN TRUE ELSE date

Or(v, old) == IF v = Null THEN old ELSE v

\* The row after the UPDATE.
Updated(q) ==
    CASE q.kind = "publish" ->
            IF q.seen.status = "Published" THEN event
            ELSE [event EXCEPT !.status = "Published", !.date = ~q.seen.date \/ @]
      [] q.kind = "unpublish" -> [event EXCEPT !.status = "Draft", !.date = FALSE]
      [] q.kind = "cancel" -> [event EXCEPT !.cancelled = TRUE]
      [] q.kind = "edit" ->
            [event EXCEPT !.date = Or(DateFor(q.seen, q.set.date), @),
                          !.image = Or(q.set.image, @), !.venue = Or(q.set.venue, @)]

\* A draft's date, given or cleared, is relied upon after another has changed it.
ReliesOnOldDate(q) ==
    /\ ~q.clean /\ q.seen.status = "Draft"
    /\ \/ q.kind = "publish" /\ q.seen.date
       \/ q.kind = "edit" /\ q.set.date = FALSE

FirstFree(jobs) == CHOOSE j \in Jobs : jobs[j] = Null /\ \A i \in 1 .. j - 1 : jobs[i] # Null
Enqueued(jobs, kind) == [jobs EXCEPT ![FirstFree(jobs)] = NewJob(kind)]

\* The UPDATE and the commit; publish enqueues CreateEventList in any case.
FinishEdit(r) ==
    LET q == req[r] IN
    /\ q.kind \in {"publish", "unpublish", "cancel", "edit"}
    /\ RowFree
    /\ event' = Updated(q)
    /\ IF q.kind = "publish"
       THEN (\E j \in Jobs : job[j] = Null) /\ job' = Enqueued(job, "list")
       ELSE UNCHANGED job
    /\ excused' = (IF ReliesOnOldDate(q) THEN excused \cup {"undated"} ELSE excused)
                    \ (IF event'.status = "Draft" THEN {"undated"} ELSE {})
    /\ req' = [s \in Requests |->
                IF s = r THEN Done
                ELSE IF "seen" \in DOMAIN req[s] THEN [req[s] EXCEPT !.clean = FALSE] ELSE req[s]]
    /\ UNCHANGED <<pricingVars, key, lineup, sent>>

\* event_end passes.
EventEnds ==
    /\ ~event.over
    /\ event' = [event EXCEPT !.over = TRUE]
    /\ UNCHANGED <<pricingVars, req, key, job, lineup, sent, excused>>

-----------------------------------------------------------------------------
(* The marketing actions.  What an executor writes is committed with its   *)
(* success; a failure is tried again.                                      *)

Running(j) == job[j] # Null /\ job[j].seen # Null
Set(j, v) == job' = [job EXCEPT ![j] = v]
\* What the property about going on is not promised after.
Missing == excused \cup {"missed"}

\* perform_job: Event::find.
StartJob(j) ==
    /\ job[j] # Null /\ job[j].seen = Null
    /\ Set(j, [job[j] EXCEPT !.seen = event])
    /\ UNCHANGED <<pricingVars, req, event, key, lineup, sent, excused>>

\* Mutant: an action that is being executed is not looked for, as in find_pending.
IdleImports == {i \in Jobs : job[i] # Null /\ job[i].kind = "import" /\ job[i].seen = Null}

\* has_pending_action: pending or busy, and not expired.
PendingImports == {i \in Jobs : job[i] # Null /\ job[i].kind = "import" /\ ~job[i].lapsed}

\* CreateEventListExecutor, once the list is there: the UPDATE of the event, if
\* it does not know its list yet, waits for the row; then the look for an import.
CheckList(j) ==
    /\ Running(j) /\ job[j].kind = "list" /\ job[j].found = Null /\ key
    /\ job[j].seen.list \/ RowFree
    /\ Set(j, [job[j] EXCEPT !.found = PendingImports # {}])
    /\ excused' =
        IF \E i \in Checked : job[i].found = FALSE
        THEN excused \cup {"twice"} ELSE excused
    /\ UNCHANGED <<pricingVars, req, event, key, lineup, sent>>

FinishList(j) ==
    /\ Running(j) /\ job[j].kind = "list"
    /\ \/ /\ ~key
          /\ Set(j, Null)
          /\ UNCHANGED <<event, excused>>
       \/ /\ job[j].found = TRUE
          /\ Set(j, Null)
          /\ event' = [event EXCEPT !.list = TRUE]
          /\ UNCHANGED excused
       \/ /\ job[j].found = FALSE
          /\ Set(j, NewJob("import"))
          /\ event' = [event EXCEPT !.list = TRUE]
          /\ excused' = excused \ {"missed"}
    /\ UNCHANGED <<pricingVars, req, key, lineup, sent>>

\* Mutant: the comparison of event_end with the clock the wrong way round.
OnSaleAfterwards(seen) == seen.status = "Published" /\ event.over

\* is_event_on_sale: the event as it was read, and the time it is now.
IsEventOnSale(seen) == seen.status = "Published" /\ ~event.over

\* BulkEventFanListImportExecutor: the next import, or none.
FinishImport(j) ==
    /\ Running(j) /\ job[j].kind = "import"
    /\ IF IsEventOnSale(job[j].seen)
       THEN Set(j, NewJob("import")) /\ UNCHANGED excused
       ELSE /\ Set(j, Null)
            /\ excused' = IF job[j].seen.status # event.status THEN Missing ELSE excused
    /\ UNCHANGED <<pricingVars, req, event, key, lineup, sent>>

\* Mutant: one attempt more.
TriesLeftAfter(j) == job[j].tries < MaxTries

\* set_failed: the attempt counts.
TriesLeft(j) == job[j].tries + 1 < MaxTries

\* The provider, a lost connection: after MaxTries it is given up.
FailJob(j) ==
    /\ Running(j)
    /\ IF TriesLeft(j) /\ ~job[j].lapsed
       THEN Set(j, [NewJob(job[j].kind) EXCEPT !.tries = job[j].tries + 1]) /\ UNCHANGED excused
       ELSE Set(j, Null) /\ excused' = Missing
    /\ UNCHANGED <<pricingVars, req, event, key, lineup, sent>>

\* expires_at passes, a day after an action was to begin; one that is running
\* goes on, but is not found any more.
Lapse(j) ==
    /\ job[j] # Null /\ ~job[j].lapsed
    /\ IF Running(j)
       THEN /\ Set(j, [job[j] EXCEPT !.lapsed = TRUE])
            /\ excused' = IF job[j].kind = "import" THEN excused \cup {"twice"} ELSE excused
       ELSE Set(j, Null) /\ excused' = Missing
    /\ UNCHANGED <<pricingVars, req, event, key, lineup, sent>>

-----------------------------------------------------------------------------
(* The line-up.                                                            *)

\* Mutant: only who appears again is cleared.
ClearedIfNamed(slots) == {a \in lineup : \E i \in DOMAIN slots : slots[i][1] = a.artist}

\* clear_all_from_event: the rows that are committed when it begins.
Cleared(slots) == lineup

\* update_artists, which clears and
StartLineup(r, slots) ==
    /\ req[r] = Idle("lineup")
    /\ req' = [req EXCEPT ![r] = [kind |-> "lineup", slots |-> slots,
                                  gone |-> Cleared(slots), clean |-> TRUE]]
    /\ UNCHANGED <<pricingVars, eventVars>>

Overtaken(r) ==
    [s \in Requests |->
        IF s = r THEN Done
        ELSE IF req[s].kind = "lineup" THEN [req[s] EXCEPT !.clean = FALSE] ELSE req[s]]

\* The foreign keys, whoever may see the artist.
Playable(a, g) == entry[a] # Null /\ (g # Null => stage[g] # Null)

\* then inserts with ranks from 0.  An artist appears once: the unique index
\* refuses what another request has inserted since.
FinishLineup(r) ==
    LET q == req[r]
        new == {[artist |-> q.slots[i][1], rank |-> i - 1, stage |-> q.slots[i][2], by |-> r] :
                    i \in DOMAIN q.slots} IN
    /\ q.kind = "lineup"
    /\ \A b \in new : Playable(b.artist, b.stage)
    /\ \A a \in lineup \ q.gone : \A b \in new : a.artist # b.artist
    /\ lineup' = (lineup \ q.gone) \cup new
    /\ sent' = IF q.clean THEN {<<a.artist, a.rank, a.stage>> : a \in new} ELSE Null
    /\ req' = Overtaken(r)
    /\ UNCHANGED <<pricingVars, event, key, job, excused>>

\* add_artist: one insert, with the rank it is given.
AddArtist(r, artist, rank, g) ==
    /\ req[r] = Idle("lineup")
    /\ Playable(artist, g) /\ \A a \in lineup : a.artist # artist
    /\ lineup' = lineup \cup {[artist |-> artist, rank |-> rank, stage |-> g, by |-> r]}
    /\ sent' = IF sent = Null THEN Null ELSE sent \cup {<<artist, rank, g>>}
    /\ req' = Overtaken(r)
    /\ UNCHANGED <<pricingVars, event, key, job, excused>>

\* ON DELETE CASCADE: who was to play on a stage leaves the line-up with it.
Cascade ==
    /\ lineup' = {a \in lineup : a.stage = Null \/ stage'[a.stage] # Null}
    /\ sent' = IF sent = Null THEN Null
               ELSE {p \in sent : p[3] = Null \/ stage'[p[3]] # Null}

-----------------------------------------------------------------------------
\* A validation, a constraint, a lost connection: the transaction is rolled back.
Fail(r) ==
    /\ req[r].kind \notin {"idle", "done"}
    /\ req' = [req EXCEPT ![r] = Done]
    /\ UNCHANGED <<pricingVars, eventVars>>

PricingStep ==
    /\ \/ CartStep
       \/ TypeStep
       \/ \E r \in Requests : WriteType(r) \/ (FinishType(r) /\ (req[r].own => RowFree))
    /\ UNCHANGED eventVars

EventStep ==
    \/ EventEnds
    \/ \E r \in Requests :
        \/ StartPublish(r) \/ StartUnpublish(r) \/ StartCancel(r) \/ FinishEdit(r)
        \/ \E set \in EventChanges : StartEdit(r, set)

JobStep ==
    \E j \in Jobs :
        StartJob(j) \/ CheckList(j) \/ FinishList(j) \/ FinishImport(j) \/ FailJob(j) \/ Lapse(j)

\* Bound: an artist is added with the rank of a second.
AddedRanks == {1}

\* No artist, one, or both in either order, each on a stage or on none.
Lineups ==
    LET slots == Artists \X ({g \in Stages : stage[g] # Null} \cup {Null}) IN
    {<< >>} \cup {<<p>> : p \in slots} \cup {s \in slots \X slots : s[1][1] # s[2][1]}

LineupStep ==
    \E r \in Requests :
        \/ FinishLineup(r)
        \/ \E slots \in Lineups : StartLineup(r, slots)
        \/ \E artist \in Artists, rank \in AddedRanks, g \in Stages \cup {Null} :
            AddArtist(r, artist, rank, g)

PlaceStep ==
    \/ /\ EntryStep \/ StageStart
       /\ UNCHANGED <<pricingVars, eventVars>>
    \/ /\ \E r \in Requests : FinishStage(r)
       /\ Cascade
       /\ UNCHANGED <<pricingVars, event, key, job, excused>>

Next ==
    \/ /\ \/ PricingStep \/ EventStep \/ JobStep \/ LineupStep
          \/ \E r \in Requests : Fail(r)
       /\ UNCHANGED placeVars
    \/ PlaceStep

Spec == Init /\ [][Next]_vars

-----------------------------------------------------------------------------
(* Properties.                                                             *)

\* A published event has a publish_date, by which it is announced and sorted,
\* whatever was edited: unless one request relied on the date that it had read
\* of a draft and another changed it meanwhile.
PublishedHasDate ==
    event.status = "Published" /\ "undated" \notin excused => event.date

\* "has_pending_action": an event has one series of imports, though every click
\* on publish starts an action that would begin one: unless two of them looked
\* at once, or an import was still running when its day was over.
OneImportSeries ==
    "twice" \notin excused =>
        Cardinality({j \in Jobs : job[j] # Null /\ job[j].kind = "import"}) <= 1

\* The imports of a published event go on, or are about to begin, until it is
\* over: unless an action was given up, or an import ended on a status that it
\* had read before the event was published again.
ImportsContinue ==
    event.status = "Published" /\ ~event.over /\ key /\ "missed" \notin excused =>
        \E j \in Jobs : job[j] # Null

\* The background work of a published event is neither doubled nor dropped.
ImportsGoOn == OneImportSeries /\ ImportsContinue

\* The line-up is what was sent last, ranks and stages, but for stages removed
\* since; unless two lists were sent at once: neither then clears what the other
\* inserts.
LineupAsSent == sent # Null => {<<a.artist, a.rank, a.stage>> : a \in lineup} = sent

\* The event is as its organizers' requests have left it: dated when published,
\* with the line-up that was sent.
EventIsAsSent == TypeOK /\ PublishedHasDate /\ LineupAsSent
=============================================================================
