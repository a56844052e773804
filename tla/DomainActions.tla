---------------------------- MODULE DomainActions ----------------------------
(***************************************************************************)
(* The queue of domain actions (db/src/models/domain_actions.rs) and the   *)
(* monitors that execute it (api/src/domain_events): one monitor to a      *)
(* server process, all of them on one table.  A monitor goes in rounds: it *)
(* finds what is due, checks each action out by blocking it for a minute,  *)
(* and has an executor run it on a database connection of its own.         *)
(*                                                                         *)
(* The monitor works outside of transactions, so each of its statements is *)
(* a step; set_busy is two, a read and an update.  An executor's writes    *)
(* are one transaction, committed with the action's success.  A future     *)
(* that is dropped, by its timeout or with the runtime, neither commits    *)
(* nor rolls back: its connection goes back to the pool with the           *)
(* transaction open, and who has it next begins a savepoint in it.         *)
(***************************************************************************)
EXTENDS Integers, FiniteSets

CONSTANTS
    Null,           \* no monitor, no action
    Actions,        \* domain actions
    Monitors,       \* server processes
    Draining,       \* those started with run-til-empty
    Conns,          \* the connections that executors can have
    Limit,          \* half the pool: a round handles up to Limit + 1 actions
    MaxAttempts,    \* max_attempt_count
    BusyFor,        \* the 60 seconds of set_busy, in ticks
    Timeout,        \* the 55 seconds an executor is given, in ticks
    Life,           \* the time from an action's schedule to its expiry
    MaxDelay,       \* bound of the time an action is scheduled ahead
    RoundTime,      \* bound of the time a monitor takes for a round
    Faults,         \* what may happen: a subset of {"pool", "crash"}
    MaxTime         \* bound of the clock

ASSUME NullAssumption == Null \notin Monitors \cup Actions
ASSUME DrainAssumption == Draining \subseteq Monitors
ASSUME CountAssumption == Limit \in Nat /\ MaxAttempts \in Nat \ {0}
ASSUME TimeAssumption ==
    /\ {BusyFor, Timeout, Life} \subseteq Nat \ {0}
    /\ {MaxDelay, RoundTime, MaxTime} \subseteq Nat

VARIABLES
    now,        \* the clock
    action,     \* domain_actions
    monitor,    \* where each monitor is
    job,        \* what each connection is used for
    failures,   \* how often each action has failed so far
    effects     \* how often each action's own writes have been committed

vars == <<now, action, monitor, job, failures, effects>>

Statuses == {"none", "Pending", "Success", "RetriesExceeded"}

Rows == [status : Statuses, attempts : Nat, scheduled : Nat, expires : Nat, blocked : Nat]

\* read is the attempt_count of each action of the batch as the round has read it.
MonitorStates ==
    [stage : {"idle", "round", "draining", "finished", "stopped"},
     batch : SUBSET Actions, read : [Actions -> Nat], since : Nat]

\* "checking" is between the two statements of set_busy, "made" is an executor
\* that is not started yet.  A connection is "left" in the pool of its process
\* with an open transaction, which has updated, and locked, the rows of held.
Jobs ==
    [stage : {"none", "checking", "made", "running", "left"}, by : Monitors \cup {Null},
     action : Actions \cup {Null}, attempts : Nat, until : Nat, since : Nat,
     open : BOOLEAN, held : SUBSET Actions]

TypeOK ==
    /\ now \in 0..MaxTime
    /\ action \in [Actions -> Rows]
    /\ monitor \in [Monitors -> MonitorStates]
    /\ job \in [Conns -> Jobs]
    /\ failures \in [Actions -> Nat]
    /\ effects \in [Actions -> Nat]

NoJob == [stage |-> "none", by |-> Null, action |-> Null, attempts |-> 0,
          until |-> 0, since |-> 0, open |-> FALSE, held |-> {}]

Idle == [stage |-> "idle", batch |-> {}, read |-> [a \in Actions |-> 0], since |-> 0]

Init ==
    /\ now = 0
    /\ action = [a \in Actions |-> [status |-> "none", attempts |-> 0, scheduled |-> 0,
                                    expires |-> 0, blocked |-> 0]]
    /\ monitor = [m \in Monitors |-> Idle]
    /\ job = [c \in Conns |-> NoJob]
    /\ failures = [a \in Actions |-> 0]
    /\ effects = [a \in Actions |-> 0]

JobsOf(m) == {c \in Conns : job[c].by = m}
Without(C) == [c \in Conns |-> IF c \in C THEN NoJob ELSE job[c]]

\* The connections that m's process can get from its pool.
Available(m) ==
    {c \in Conns : job[c] = NoJob \/ (job[c].stage = "left" /\ job[c].by = m)}

Locked(a, C) == \E d \in C : a \in job[d].held

\* The connection of a job whose future is dropped, or whose commit has only
\* released a savepoint.
LeftOpen(j, rows) ==
    [NoJob EXCEPT !.stage = "left", !.by = j.by, !.open = TRUE, !.held = j.held \cup rows]

\* The monitor's function returns: its futures are dropped with its runtime, and
\* nothing starts it again.  A server goes on without it, a run_til_empty exits.
Halt(m) ==
    /\ monitor' = [monitor EXCEPT ![m] = [Idle EXCEPT !.stage = "stopped"]]
    /\ job' = [c \in Conns |->
                 IF job[c].by # m THEN job[c]
                 ELSE IF m \in Draining \/ (job[c].stage = "checking" /\ ~job[c].open)
                      THEN NoJob ELSE LeftOpen(job[c], {})]

-----------------------------------------------------------------------------
\* A handler commits a new action, to be run in d ticks.
Enqueue(a, d) ==
    /\ action[a].status = "none"
    /\ action' = [action EXCEPT ![a] = [status |-> "Pending", attempts |-> 0,
                                        scheduled |-> now + d, expires |-> now + d + Life,
                                        blocked |-> now]]
    /\ UNCHANGED <<now, monitor, job, failures, effects>>

\* Mutant: the status is not asked for.
DueWhatever ==
    {a \in Actions : /\ action[a].status # "none"
                     /\ action[a].scheduled <= now /\ action[a].expires > now
                     /\ action[a].blocked <= now
                     /\ action[a].attempts < MaxAttempts}

\* find_pending
Due ==
    {a \in Actions : /\ action[a].status = "Pending"
                     /\ action[a].scheduled <= now /\ action[a].expires > now
                     /\ action[a].blocked <= now
                     /\ action[a].attempts < MaxAttempts}

Find(m) ==
    /\ monitor[m].stage = "idle"
    /\ Due # {}
    /\ \E batch \in SUBSET Due :
          /\ batch = Due \/ Cardinality(batch) = Limit + 1
          /\ Cardinality(batch) <= Limit + 1
          /\ monitor' = [monitor EXCEPT ![m] =
                [stage |-> "round", batch |-> batch,
                 read |-> [a \in Actions |-> IF a \in batch THEN action[a].attempts ELSE 0],
                 since |-> now]]
    /\ UNCHANGED <<now, action, job, failures, effects>>

\* run_til_empty has found nothing.
FindNothing(m) ==
    /\ monitor[m].stage = "idle" /\ m \in Draining /\ Due = {}
    /\ monitor' = [monitor EXCEPT ![m] = [Idle EXCEPT !.stage = "finished"]]
    /\ UNCHANGED <<now, action, job, failures, effects>>

\* The pool has no connection for the round itself.
PoolFails(m) ==
    /\ "pool" \in Faults
    /\ monitor[m].stage = "idle"
    /\ Halt(m)
    /\ UNCHANGED <<now, action, failures, effects>>

Checking(m) == {c \in JobsOf(m) : job[c].stage = "checking"}

\* set_busy reads the action; it is another process's for now.
Skip(m, a) ==
    /\ monitor[m].stage = "round" /\ a \in monitor[m].batch
    /\ Checking(m) = {} /\ Available(m) # {}
    /\ action[a].blocked > now
    /\ monitor' = [monitor EXCEPT ![m].batch = @ \ {a}, ![m].read[a] = 0]
    /\ UNCHANGED <<now, action, job, failures, effects>>

Look(m, a, c) ==
    /\ monitor[m].stage = "round" /\ a \in monitor[m].batch
    /\ Checking(m) = {} /\ c \in Available(m)
    /\ action[a].blocked <= now
    /\ monitor' = [monitor EXCEPT ![m].batch = @ \ {a}, ![m].read[a] = 0]
    /\ job' = [job EXCEPT ![c] = [stage |-> "checking", by |-> m, action |-> a,
                                  attempts |-> monitor[m].read[a],
                                  until |-> now + BusyFor, since |-> now,
                                  open |-> job[c].open, held |-> job[c].held]]
    /\ UNCHANGED <<now, action, failures, effects>>

\* Mutant: the action is not blocked.
TakeUnblocked(c) ==
    /\ job[c].stage = "checking"
    /\ job' = [job EXCEPT ![c].stage = "made"]
    /\ UNCHANGED <<now, action, monitor, failures, effects>>

\* set_busy updates the action.  That it was blocked meanwhile shows only if
\* the other's time is later; it is then no ConcurrencyError, and ends the monitor.
Take(c) ==
    LET a == job[c].action
    IN  /\ job[c].stage = "checking" /\ ~Locked(a, Conns)
        /\ \/ /\ action[a].blocked <= job[c].until
              /\ action' = [action EXCEPT ![a].blocked = job[c].until]
              /\ job' = [job EXCEPT ![c].stage = "made"]
              /\ UNCHANGED monitor
           \/ /\ action[a].blocked > job[c].until
              /\ Halt(job[c].by)
              /\ UNCHANGED action
        /\ UNCHANGED <<now, failures, effects>>

\* The round is over, or out of connections: a running server spawns all its
\* executors, run_til_empty will run them one by one.
EndRound(m) ==
    LET made == JobsOf(m) \cap {c \in Conns : job[c].stage = "made"}
    IN  /\ monitor[m].stage = "round" /\ Checking(m) = {}
        /\ monitor[m].batch = {} \/ Available(m) = {} \/ "pool" \in Faults
        /\ \/ /\ m \notin Draining
              /\ monitor' = [monitor EXCEPT ![m] = Idle]
              /\ job' = [c \in Conns |->
                            IF c \in made
                            THEN [job[c] EXCEPT !.stage = "running", !.since = now]
                            ELSE job[c]]
           \/ /\ m \in Draining
              /\ monitor' = [monitor EXCEPT ![m] =
                    [Idle EXCEPT !.stage = IF made = {} THEN "finished" ELSE "draining"]]
              /\ UNCHANGED job
        /\ UNCHANGED <<now, action, failures, effects>>

RunNext(c) ==
    LET m == job[c].by
    IN  /\ job[c].stage = "made" /\ monitor[m].stage = "draining"
        /\ \A d \in JobsOf(m) : job[d].stage # "running"
        /\ job' = [job EXCEPT ![c].stage = "running", ![c].since = now]
        /\ UNCHANGED <<now, action, monitor, failures, effects>>

-----------------------------------------------------------------------------
(* The executors.                                                          *)

\* A round of run_til_empty ends with its last executor.
NextRound(c) ==
    LET m == job[c].by
    IN  /\ monitor' = IF m \in Draining /\ JobsOf(m) = {c}
                      THEN [monitor EXCEPT ![m] = Idle] ELSE monitor
        /\ job' = Without({c})

\* An executor that fails ends a run_til_empty, which unwraps its result.
Unsuccessful(c) ==
    \/ job[c].by \in Draining /\ Halt(job[c].by)
    \/ job[c].by \notin Draining /\ job' = Without({c}) /\ UNCHANGED monitor

\* What a job on a connection that was left open writes stays in the open
\* transaction: its commit releases, its rollback undoes a savepoint.
StaysOpen(c) ==
    /\ job' = [job EXCEPT ![c] = LeftOpen(@, {@.action})]
    /\ UNCHANGED <<action, monitor, effects>>

\* Mutant: set_done leaves the status as it is.
DoneSilently(r) == r

\* set_done
DoneRow(r) == [r EXCEPT !.status = "Success"]

\* Mutant: the retries are counted from one.
FailedEarly(r, attempts) ==
    IF MaxAttempts <= attempts + 2
    THEN [r EXCEPT !.status = "RetriesExceeded", !.attempts = attempts + 1, !.blocked = now]
    ELSE [r EXCEPT !.attempts = attempts + 1]

\* set_failed, of the action as the round has read it.  An action that is to be
\* tried again stays blocked.
FailedRow(r, attempts) ==
    IF MaxAttempts <= attempts + 1
    THEN [r EXCEPT !.status = "RetriesExceeded", !.attempts = attempts + 1, !.blocked = now]
    ELSE [r EXCEPT !.attempts = attempts + 1]

Done(c) ==
    LET a == job[c].action
    IN  /\ job[c].stage = "running" /\ ~Locked(a, Conns \ {c})
        /\ \/ job[c].open /\ StaysOpen(c)
           \/ /\ ~job[c].open
              /\ action' = [action EXCEPT ![a] = DoneRow(@)]
              /\ effects' = [effects EXCEPT ![a] = @ + 1]
              /\ NextRound(c)
        /\ UNCHANGED <<now, failures>>

Failed(c) ==
    LET a == job[c].action
    IN  /\ job[c].stage = "running" /\ ~Locked(a, Conns \ {c})
        /\ failures' = [failures EXCEPT ![a] = @ + 1]
        /\ \/ job[c].open /\ StaysOpen(c)
           \/ /\ ~job[c].open
              /\ action' = [action EXCEPT ![a] = FailedRow(@, job[c].attempts)]
              /\ Unsuccessful(c)
        /\ UNCHANGED <<now, effects>>

\* The future is dropped; the action stays blocked.  A run_til_empty exits.
TimedOut(c) ==
    /\ job[c].stage = "running" /\ now >= job[c].since + Timeout
    /\ \/ job[c].by \in Draining /\ Halt(job[c].by)
       \/ /\ job[c].by \notin Draining
          /\ job' = [job EXCEPT ![c] = LeftOpen(@, {})]
          /\ UNCHANGED monitor
    /\ UNCHANGED <<now, action, failures, effects>>

\* The pool closes a connection of a certain age, and the database rolls back.
Close(c) ==
    /\ job[c].stage = "left"
    /\ job' = Without({c})
    /\ UNCHANGED <<now, action, monitor, failures, effects>>

\* The process is stopped or dies, and is started again.
Crash(m) ==
    /\ "crash" \in Faults /\ monitor[m].stage # "finished"
    /\ monitor' = [monitor EXCEPT ![m] = Idle]
    /\ job' = Without(JobsOf(m))
    /\ UNCHANGED <<now, action, failures, effects>>

\* Time does not pass a running executor's timeout, nor the bound of a round.
Tick ==
    /\ now < MaxTime
    /\ \A c \in Conns : job[c].stage = "running" => now < job[c].since + Timeout
    /\ \A m \in Monitors : monitor[m].stage = "round" => now < monitor[m].since + RoundTime
    /\ now' = now + 1
    /\ UNCHANGED <<action, monitor, job, failures, effects>>

MonitorStep(m) ==
    \/ Find(m) \/ FindNothing(m) \/ EndRound(m)
    \/ \E a \in Actions : Skip(m, a) \/ \E c \in Conns : Look(m, a, c)

JobStep(c) == Take(c) \/ RunNext(c) \/ Done(c) \/ Failed(c) \/ TimedOut(c) \/ Close(c)

Next ==
    \/ Tick
    \/ \E a \in Actions, d \in 0..MaxDelay : Enqueue(a, d)
    \/ \E m \in Monitors : MonitorStep(m) \/ PoolFails(m) \/ Crash(m)
    \/ \E c \in Conns : JobStep(c)

Spec == Init /\ [][Next]_vars

-----------------------------------------------------------------------------
Executes(c) == job[c].stage \in {"made", "running"}

\* "Another process is busy with this action" (domain_actions.rs, set_busy): an
\* action is checked out once at a time.
OneExecutorPerAction ==
    \A c, d \in Conns :
        Executes(c) /\ Executes(d) /\ job[c].action = job[d].action => c = d

\* However many processes work on an action, and whatever stale counts they
\* write, it is given up only when it has failed max_attempt_count times
\* (set_failed).
GivenUpAfterMaxFailures ==
    \A a \in Actions : action[a].status = "RetriesExceeded" => failures[a] >= MaxAttempts

\* What an executor wrote is committed with the end of its action, so that an
\* action whose writes are in the database is never found due again (poll).
EffectsAreFinal == \A a \in Actions : effects[a] > 0 => action[a].status # "Pending"

\* An action that has ended, in success or in failure, does not change again.
EndedIsFinal ==
    [][\A a \in Actions :
          action[a].status \in {"Success", "RetriesExceeded"} =>
              action'[a].status = action[a].status /\ effects'[a] = effects[a]]_vars
=============================================================================
