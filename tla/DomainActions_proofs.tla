------------------------ MODULE DomainActions_proofs ------------------------
(* Theorems about DomainActions, for every number of actions and processes. *)
EXTENDS DomainActions, TLAPS

\* The drop of futures keeps the types of the jobs.
LEMMA DroppedJobs ==
    ASSUME job \in [Conns -> Jobs], NEW C
    PROVE  Without(C) \in [Conns -> Jobs]
  BY DEF Without, NoJob, Jobs

\* A job that goes on to another stage, and one whose connection is left open.
LEMMA JobSteps ==
    ASSUME NEW j \in Jobs, NEW s \in {"made", "running"}, NEW t \in Nat, NEW A \in SUBSET Actions
    PROVE  /\ [j EXCEPT !.stage = s] \in Jobs
           /\ [j EXCEPT !.stage = s, !.since = t] \in Jobs
           /\ LeftOpen(j, A) \in Jobs
  <1>1. NoJob \in Jobs
    BY DEF NoJob, Jobs
  <1>2. /\ j.by \in Monitors \cup {Null} /\ j.held \in SUBSET Actions
        /\ j.held \cup A \in SUBSET Actions
    BY DEF Jobs
  <1>3. LeftOpen(j, A) \in Jobs
    BY <1>1, <1>2 DEF LeftOpen, Jobs
  <1>4. [j EXCEPT !.stage = s] \in Jobs /\ [j EXCEPT !.stage = s, !.since = t] \in Jobs
    BY DEF Jobs
  <1> QED BY <1>3, <1>4

LEMMA StartedJob ==
    ASSUME NEW j \in Jobs, NEW t
    PROVE  LET k == [j EXCEPT !.stage = "running", !.since = t]
           IN  /\ k.stage = "running" /\ k.since = t /\ k.action = j.action
               /\ k.attempts = j.attempts
  BY DEF Jobs

LEMMA LeftFields ==
    ASSUME NEW j, NEW A
    PROVE  /\ LeftOpen(j, A).by = j.by
           /\ LeftOpen(j, A).stage = "left"
  BY DEF LeftOpen, NoJob

LEMMA IdleState == Idle \in MonitorStates
  BY DEF Idle, MonitorStates

\* The monitor that has dealt with an action.
LEMMA TakenOffTypes ==
    ASSUME TypeOK, NEW m \in Monitors, NEW a \in Actions
    PROVE  [monitor EXCEPT ![m].batch = @ \ {a}, ![m].read[a] = 0] \in [Monitors -> MonitorStates]
  <1> DEFINE state == [monitor[m] EXCEPT !.batch = @ \ {a}, !.read = [@ EXCEPT ![a] = 0]]
  <1>1. monitor[m] \in MonitorStates
    BY DEF TypeOK
  <1>2. monitor[m].batch \ {a} \in SUBSET Actions
    BY <1>1 DEF MonitorStates
  <1>3. [monitor[m].read EXCEPT ![a] = 0] \in [Actions -> Nat]
    BY <1>1 DEF MonitorStates
  <1>4. state \in MonitorStates
    BY <1>1, <1>2, <1>3 DEF MonitorStates
  <1>5. [monitor EXCEPT ![m].batch = @ \ {a}, ![m].read[a] = 0] = [monitor EXCEPT ![m] = state]
    BY <1>4 DEF TypeOK
  <1> HIDE DEF state
  <1> QED BY <1>4, <1>5 DEF TypeOK

LEMMA HaltTypes ==
    ASSUME TypeOK, NEW m \in Monitors, Halt(m)
    PROVE  monitor' \in [Monitors -> MonitorStates] /\ job' \in [Conns -> Jobs]
  <1>1. [Idle EXCEPT !.stage = "stopped"] \in MonitorStates
    BY DEF Idle, MonitorStates
  <1>2. monitor' \in [Monitors -> MonitorStates]
    BY <1>1 DEF Halt, TypeOK
  <1>3. NoJob \in Jobs
    BY DEF NoJob, Jobs
  <1>4. \A c \in Conns : job[c] \in Jobs /\ LeftOpen(job[c], {}) \in Jobs
    BY JobSteps, 0 \in Nat DEF TypeOK
  <1>5. job' \in [Conns -> Jobs]
    BY <1>3, <1>4 DEF Halt
  <1> QED BY <1>2, <1>5

\* A connection in use is used by a monitor for an action.
InUse ==
    \A c \in Conns :
        job[c].stage \in {"checking", "made", "running"} =>
            job[c].by \in Monitors /\ job[c].action \in Actions

LEMMA InitTypes == Init => TypeOK /\ InUse
  <1> SUFFICES ASSUME Init PROVE TypeOK /\ InUse
    OBVIOUS
  <1>1. NoJob \in Jobs
    BY DEF NoJob, Jobs
  <1>2. InUse
    BY DEF Init, InUse, NoJob
  <1>3. now \in 0..MaxTime
    BY TimeAssumption DEF Init
  <1>4. action \in [Actions -> Rows]
    BY DEF Init, Rows, Statuses
  <1>5. monitor \in [Monitors -> MonitorStates] /\ job \in [Conns -> Jobs]
    BY <1>1, IdleState DEF Init
  <1>6. failures \in [Actions -> Nat] /\ effects \in [Actions -> Nat]
    BY DEF Init
  <1> QED BY <1>2, <1>3, <1>4, <1>5, <1>6 DEF TypeOK

LEMMA FailedTypes ==
    ASSUME NEW r \in Rows, NEW n \in Nat, now \in Nat
    PROVE  FailedRow(r, n) \in Rows /\ DoneRow(r) \in Rows
  <1>1. [r EXCEPT !.status = "RetriesExceeded", !.attempts = n + 1, !.blocked = now] \in Rows
    <2>1. \A x \in Rows : [x EXCEPT !.status = "RetriesExceeded"] \in Rows
      BY DEF Rows, Statuses
    <2>2. \A x \in Rows : [x EXCEPT !.attempts = n + 1] \in Rows
      BY DEF Rows
    <2>3. \A x \in Rows : [x EXCEPT !.blocked = now] \in Rows
      BY DEF Rows
    <2> QED BY <2>1, <2>2, <2>3
  <1>2. [r EXCEPT !.attempts = n + 1] \in Rows
    BY DEF Rows
  <1>3. [r EXCEPT !.status = "Success"] \in Rows
    BY DEF Rows, Statuses
  <1>4. FailedRow(r, n) \in Rows
    <2>1. CASE MaxAttempts <= n + 1
      BY <1>1, <2>1 DEF FailedRow
    <2>2. CASE ~(MaxAttempts <= n + 1)
      BY <1>2, <2>2 DEF FailedRow
    <2> QED BY <2>1, <2>2
  <1> QED BY <1>3, <1>4 DEF DoneRow

LEMMA NextRoundTypes ==
    ASSUME TypeOK, NEW c \in Conns, NextRound(c)
    PROVE  monitor' \in [Monitors -> MonitorStates] /\ job' \in [Conns -> Jobs]
  BY IdleState, DroppedJobs DEF NextRound, TypeOK

LEMMA UnsuccessfulTypes ==
    ASSUME TypeOK, NEW c \in Conns, job[c].by \in Monitors, Unsuccessful(c)
    PROVE  monitor' \in [Monitors -> MonitorStates] /\ job' \in [Conns -> Jobs]
  BY HaltTypes, DroppedJobs DEF Unsuccessful, TypeOK

LEMMA HaltInUse ==
    ASSUME InUse, NEW m \in Monitors, Halt(m)
    PROVE  InUse'
  <1> SUFFICES ASSUME NEW c \in Conns, job'[c].stage \in {"checking", "made", "running"}
               PROVE  job'[c].by \in Monitors /\ job'[c].action \in Actions
    BY DEF InUse
  <1>1. job'[c] = job[c]
    BY LeftFields DEF Halt, NoJob
  <1> QED BY <1>1 DEF InUse

\* A connection that stays or is left open.
LEMMA LeftTypes ==
    ASSUME TypeOK, InUse, NEW c \in Conns, NEW A \in SUBSET Actions,
           job' = [job EXCEPT ![c] = LeftOpen(@, A)]
    PROVE  job' \in [Conns -> Jobs] /\ InUse'
  <1>1. LeftOpen(job[c], A) \in Jobs
    BY JobSteps, 0 \in Nat DEF TypeOK
  <1>2. job' \in [Conns -> Jobs]
    BY <1>1 DEF TypeOK
  <1>3. InUse'
    BY LeftFields DEF InUse, TypeOK
  <1> QED BY <1>2, <1>3

LEMMA StillInUse ==
    ASSUME InUse, NEW C, job' = Without(C)
    PROVE  InUse'
  BY DEF InUse, Without, NoJob

LEMMA NextTypes == TypeOK /\ InUse /\ [Next]_vars => TypeOK' /\ InUse'
  <1> SUFFICES ASSUME TypeOK, InUse, [Next]_vars PROVE TypeOK' /\ InUse'
    OBVIOUS
  <1> USE TimeAssumption, CountAssumption
  <1>0. now \in Nat /\ now \in 0..MaxTime
    BY DEF TypeOK
  <1>1. CASE Tick
    <2>1. now' \in 0..MaxTime
      BY <1>0, <1>1 DEF Tick
    <2> QED BY <1>1, <2>1 DEF Tick, TypeOK, InUse
  <1>2. ASSUME NEW a \in Actions, NEW d \in 0..MaxDelay, Enqueue(a, d)
        PROVE  TypeOK' /\ InUse'
    <2>1. [status |-> "Pending", attempts |-> 0, scheduled |-> now + d,
           expires |-> now + d + Life, blocked |-> now] \in Rows
      BY <1>0 DEF Rows, Statuses
    <2>2. action' \in [Actions -> Rows]
      BY <1>2, <2>1 DEF Enqueue, TypeOK
    <2> QED BY <1>0, <1>2, <2>2 DEF Enqueue, TypeOK, InUse
  <1>3. ASSUME NEW m \in Monitors, Find(m)
        PROVE  TypeOK' /\ InUse'
    <2>1. PICK batch \in SUBSET Due :
            monitor' = [monitor EXCEPT ![m] =
                [stage |-> "round", batch |-> batch,
                 read |-> [a \in Actions |-> IF a \in batch THEN action[a].attempts ELSE 0],
                 since |-> now]]
      BY <1>3 DEF Find
    <2>2. [a \in Actions |-> IF a \in batch THEN action[a].attempts ELSE 0] \in [Actions -> Nat]
      BY DEF TypeOK, Rows
    <2>3. batch \subseteq Actions
      BY DEF Due
    <2>4. [stage |-> "round", batch |-> batch,
           read |-> [a \in Actions |-> IF a \in batch THEN action[a].attempts ELSE 0],
           since |-> now] \in MonitorStates
      BY <1>0, <2>2, <2>3 DEF MonitorStates
    <2>5. monitor' \in [Monitors -> MonitorStates]
      BY <2>1, <2>4 DEF TypeOK
    <2> QED BY <1>0, <1>3, <2>5 DEF Find, TypeOK, InUse
  <1>4. ASSUME NEW m \in Monitors, FindNothing(m)
        PROVE  TypeOK' /\ InUse'
    <2>1. [Idle EXCEPT !.stage = "finished"] \in MonitorStates
      BY DEF Idle, MonitorStates
    <2> QED BY <1>0, <1>4, <2>1 DEF FindNothing, TypeOK, InUse
  <1>5. ASSUME NEW m \in Monitors, PoolFails(m)
        PROVE  TypeOK' /\ InUse'
    BY <1>5, HaltTypes, HaltInUse DEF PoolFails, TypeOK
  <1>6. ASSUME NEW m \in Monitors, NEW a \in Actions, Skip(m, a)
        PROVE  TypeOK' /\ InUse'
    <2>1. monitor' \in [Monitors -> MonitorStates]
      BY <1>6, TakenOffTypes DEF Skip
    <2> QED BY <1>0, <1>6, <2>1 DEF Skip, TypeOK, InUse
  <1>7. ASSUME NEW m \in Monitors, NEW a \in Actions, NEW c \in Conns, Look(m, a, c)
        PROVE  TypeOK' /\ InUse'
    <2>1. monitor' \in [Monitors -> MonitorStates]
      BY <1>7, TakenOffTypes DEF Look
    <2>2. monitor[m].read[a] \in Nat
      BY DEF TypeOK, MonitorStates
    <2>3. [stage |-> "checking", by |-> m, action |-> a, attempts |-> monitor[m].read[a],
           until |-> now + BusyFor, since |-> now,
           open |-> job[c].open, held |-> job[c].held] \in Jobs
      <3>1. job[c].open \in BOOLEAN /\ job[c].held \in SUBSET Actions
        BY DEF TypeOK, Jobs
      <3> QED BY <1>0, <2>2, <3>1 DEF Jobs
    <2>4. job' \in [Conns -> Jobs]
      BY <1>7, <2>3 DEF Look, TypeOK
    <2>5. InUse'
      BY <1>7 DEF Look, InUse, TypeOK
    <2> QED BY <1>0, <1>7, <2>1, <2>4, <2>5 DEF Look, TypeOK
  <1>8. ASSUME NEW c \in Conns, Take(c)
        PROVE  TypeOK' /\ InUse'
    <2>1. job[c].by \in Monitors /\ job[c].action \in Actions
      BY <1>8 DEF Take, InUse
    <2>2. CASE action[job[c].action].blocked <= job[c].until
      <3>1. /\ action' = [action EXCEPT ![job[c].action].blocked = job[c].until]
            /\ job' = [job EXCEPT ![c].stage = "made"]
            /\ UNCHANGED <<now, monitor, failures, effects>>
        <4>1. action[job[c].action].blocked \in Nat /\ job[c].until \in Nat
          BY <2>1 DEF TypeOK, Rows, Jobs
        <4> QED BY <1>8, <2>2, <4>1 DEF Take
      <3>2. [action[job[c].action] EXCEPT !.blocked = job[c].until] \in Rows
        BY <2>1 DEF TypeOK, Rows, Jobs
      <3>3. action' \in [Actions -> Rows]
        BY <2>1, <3>1, <3>2 DEF TypeOK
      <3>4. [job[c] EXCEPT !.stage = "made"] \in Jobs
        BY JobSteps, 0 \in Nat DEF TypeOK
      <3>5. job' \in [Conns -> Jobs]
        BY <3>1, <3>4 DEF TypeOK
      <3>6. InUse'
        BY <2>1, <3>1 DEF InUse, TypeOK
      <3> QED BY <3>1, <3>3, <3>5, <3>6 DEF TypeOK
    <2>3. CASE ~(action[job[c].action].blocked <= job[c].until)
      <3>1. Halt(job[c].by) /\ UNCHANGED <<now, action, failures, effects>>
        BY <1>8, <2>3 DEF Take
      <3> QED BY <2>1, <3>1, HaltTypes, HaltInUse DEF TypeOK
    <2> QED BY <2>2, <2>3
  <1>9. ASSUME NEW m \in Monitors, EndRound(m)
        PROVE  TypeOK' /\ InUse'
    <2> DEFINE started(c) == [job[c] EXCEPT !.stage = "running", !.since = now]
    <2>1. \A s \in {"finished", "draining"} : [Idle EXCEPT !.stage = s] \in MonitorStates
      BY DEF Idle, MonitorStates
    <2>2. monitor' \in [Monitors -> MonitorStates]
      BY <1>9, <2>1, IdleState DEF EndRound, TypeOK
    <2>3. \A c \in Conns : started(c) \in Jobs /\ job[c] \in Jobs
      BY <1>0, JobSteps DEF TypeOK
    <2>4. job' = job \/ \E C : job' = [c \in Conns |-> IF c \in JobsOf(m) \cap C
                                                     THEN started(c) ELSE job[c]]
      BY <1>9 DEF EndRound
    <2>5. job' \in [Conns -> Jobs]
      BY <2>3, <2>4 DEF TypeOK
    <2>6. InUse'
      <3>1. CASE job' = job
        BY <3>1 DEF InUse
      <3>2. CASE job' # job
        <4>1. \A c \in Conns :
                 job'[c] = job[c] \/ (job[c].stage = "made" /\ job'[c] = started(c))
          BY <1>9, <3>2 DEF EndRound, JobsOf
        <4>2. \A c \in Conns : started(c).by = job[c].by /\ started(c).action = job[c].action
          BY DEF TypeOK, Jobs
        <4> QED BY <4>1, <4>2 DEF InUse
      <3> QED BY <3>1, <3>2
    <2> QED BY <1>9, <2>2, <2>5, <2>6 DEF EndRound, TypeOK
  <1>10. ASSUME NEW c \in Conns, RunNext(c)
         PROVE  TypeOK' /\ InUse'
    <2>1. [job[c] EXCEPT !.stage = "running", !.since = now] \in Jobs
      BY <1>0, JobSteps DEF TypeOK
    <2>2. job' \in [Conns -> Jobs]
      BY <1>10, <2>1 DEF RunNext, TypeOK
    <2>3. InUse'
      BY <1>10 DEF RunNext, InUse, TypeOK, Jobs
    <2> QED BY <1>10, <2>2, <2>3 DEF RunNext, TypeOK
  <1>11. ASSUME NEW c \in Conns, Done(c)
         PROVE  TypeOK' /\ InUse'
    <2>1. job[c].action \in Actions
      BY <1>11 DEF Done, InUse, TypeOK
    <2>2. CASE StaysOpen(c)
      <3>1. {job[c].action} \in SUBSET Actions
        BY <2>1
      <3>2. job' = [job EXCEPT ![c] = LeftOpen(@, {job[c].action})]
        BY <2>2 DEF StaysOpen
      <3>3. job' \in [Conns -> Jobs] /\ InUse'
        BY <3>1, <3>2, LeftTypes
      <3>4. UNCHANGED <<now, action, monitor, failures, effects>>
        BY <1>11, <2>2 DEF Done, StaysOpen
      <3> QED BY <3>3, <3>4 DEF TypeOK
    <2>3. CASE ~job[c].open
      <3>1. /\ action' = [action EXCEPT ![job[c].action] = DoneRow(@)]
            /\ effects' = [effects EXCEPT ![job[c].action] = @ + 1]
            /\ NextRound(c) /\ UNCHANGED <<now, failures>>
        BY <1>11, <2>3 DEF Done
      <3>2. DoneRow(action[job[c].action]) \in Rows
        BY <1>0, <2>1, FailedTypes DEF TypeOK
      <3>3. action' \in [Actions -> Rows] /\ effects' \in [Actions -> Nat]
        BY <2>1, <3>1, <3>2 DEF TypeOK
      <3> QED BY <2>1, <3>1, <3>3, NextRoundTypes, StillInUse DEF NextRound, TypeOK
    <2> QED BY <1>11, <2>2, <2>3 DEF Done
  <1>12. ASSUME NEW c \in Conns, Failed(c)
         PROVE  TypeOK' /\ InUse'
    <2>1. job[c].action \in Actions /\ job[c].by \in Monitors /\ job[c].attempts \in Nat
      BY <1>12 DEF Failed, InUse, TypeOK, Jobs
    <2>2. failures' \in [Actions -> Nat] /\ UNCHANGED <<now, effects>>
      BY <1>12, <2>1 DEF Failed, TypeOK
    <2>3. CASE StaysOpen(c)
      <3>1. {job[c].action} \in SUBSET Actions
        BY <2>1
      <3>2. job' = [job EXCEPT ![c] = LeftOpen(@, {job[c].action})]
        BY <2>3 DEF StaysOpen
      <3>3. job' \in [Conns -> Jobs] /\ InUse'
        BY <3>1, <3>2, LeftTypes
      <3> QED BY <2>2, <2>3, <3>3 DEF StaysOpen, TypeOK
    <2>4. CASE ~job[c].open
      <3>1. /\ action' = [action EXCEPT ![job[c].action] = FailedRow(@, job[c].attempts)]
            /\ Unsuccessful(c)
        BY <1>12, <2>4 DEF Failed
      <3>2. FailedRow(action[job[c].action], job[c].attempts) \in Rows
        BY <1>0, <2>1, FailedTypes DEF TypeOK
      <3>3. action' \in [Actions -> Rows]
        BY <2>1, <3>1, <3>2 DEF TypeOK
      <3> QED BY <2>1, <2>2, <3>1, <3>3, UnsuccessfulTypes, HaltInUse, StillInUse
              DEF Unsuccessful, TypeOK
    <2> QED BY <1>12, <2>3, <2>4 DEF Failed
  <1>13. ASSUME NEW c \in Conns, TimedOut(c)
         PROVE  TypeOK' /\ InUse'
    <2>1. job[c].by \in Monitors
      BY <1>13 DEF TimedOut, InUse
    <2> QED BY <1>13, <2>1, HaltTypes, HaltInUse, LeftTypes DEF TimedOut, TypeOK
  <1>14. ASSUME NEW m \in Monitors, Crash(m)
         PROVE  TypeOK' /\ InUse'
    BY <1>14, IdleState, DroppedJobs, StillInUse DEF Crash, TypeOK
  <1>15. ASSUME NEW c \in Conns, Close(c)
         PROVE  TypeOK' /\ InUse'
    BY <1>15, DroppedJobs, StillInUse DEF Close, TypeOK
  <1>16. CASE UNCHANGED vars
    BY <1>16 DEF vars, TypeOK, InUse
  <1> QED
    BY <1>1, <1>2, <1>3, <1>4, <1>5, <1>6, <1>7, <1>8, <1>9, <1>10, <1>11, <1>12, <1>13,
       <1>14, <1>15, <1>16 DEF Next, MonitorStep, JobStep

\* The queue, the monitors and their connections keep their types.
THEOREM Typing == Spec => []TypeOK
  BY InitTypes, NextTypes, PTL DEF Spec

-----------------------------------------------------------------------------
(* Giving up.  The counts that executors write are stale, but never more   *)
(* than the failures there were.                                           *)

Used == {"checking", "made", "running"}

Counts ==
    /\ \A a \in Actions : action[a].attempts <= failures[a]
    /\ \A m \in Monitors, a \in Actions : monitor[m].read[a] <= failures[a]
    /\ \A c \in Conns :
          job[c].stage \in Used => job[c].attempts <= failures[job[c].action]

\* What a step that ends jobs leaves of the batches and of the jobs.
ReadsKept == \A m \in Monitors, a \in Actions : monitor'[m].read[a] \in {monitor[m].read[a], 0}
JobsKept == \A c \in Conns : job'[c] = job[c] \/ job'[c].stage \notin Used

LEMMA DropKeeps ==
    ASSUME NEW C, job' = Without(C)
    PROVE  JobsKept
  BY DEF JobsKept, Without, NoJob, Used

LEMMA HaltKeeps ==
    ASSUME TypeOK, NEW m \in Monitors, Halt(m)
    PROVE  ReadsKept /\ JobsKept
  <1>1. ReadsKept
    BY DEF ReadsKept, Halt, Idle, TypeOK
  <1>2. JobsKept
    BY LeftFields DEF JobsKept, Halt, NoJob, Used
  <1> QED BY <1>1, <1>2

LEMMA LeftKeeps ==
    ASSUME TypeOK, NEW c \in Conns, NEW A, job' = [job EXCEPT ![c] = LeftOpen(@, A)]
    PROVE  JobsKept
  BY LeftFields DEF JobsKept, Used, TypeOK

LEMMA NextRoundKeeps ==
    ASSUME TypeOK, NEW c \in Conns, NextRound(c)
    PROVE  ReadsKept /\ JobsKept
  <1>1. ReadsKept
    BY DEF ReadsKept, NextRound, Idle, TypeOK
  <1> QED BY <1>1, DropKeeps DEF NextRound

\* An executor's end, its timeout, the monitor's end and a crash.
LEMMA EndsKeep ==
    ASSUME TypeOK, InUse,
           \/ \E c \in Conns : Done(c) \/ Failed(c) \/ TimedOut(c) \/ Close(c)
           \/ \E m \in Monitors : PoolFails(m) \/ Crash(m)
    PROVE  ReadsKept /\ JobsKept
  <1>1. ASSUME UNCHANGED monitor PROVE ReadsKept
    BY <1>1 DEF ReadsKept
  <1>2. ASSUME NEW c \in Conns, StaysOpen(c) PROVE ReadsKept /\ JobsKept
    BY <1>1, <1>2, LeftKeeps DEF StaysOpen
  <1>3. ASSUME NEW c \in Conns, Done(c) PROVE ReadsKept /\ JobsKept
    BY <1>2, <1>3, NextRoundKeeps DEF Done
  <1>4. ASSUME NEW c \in Conns, Failed(c) PROVE ReadsKept /\ JobsKept
    <2>1. job[c].by \in Monitors
      BY <1>4 DEF Failed, InUse
    <2>2. CASE Unsuccessful(c)
      BY <1>1, <2>1, <2>2, HaltKeeps, DropKeeps DEF Unsuccessful
    <2> QED BY <1>2, <1>4, <2>2 DEF Failed
  <1>5. ASSUME NEW c \in Conns, TimedOut(c) PROVE ReadsKept /\ JobsKept
    <2>1. job[c].by \in Monitors
      BY <1>5 DEF TimedOut, InUse
    <2> QED BY <1>1, <1>5, <2>1, HaltKeeps, LeftKeeps DEF TimedOut
  <1>6. ASSUME NEW c \in Conns, Close(c) PROVE ReadsKept /\ JobsKept
    BY <1>1, <1>6, DropKeeps DEF Close
  <1>7. ASSUME NEW m \in Monitors, PoolFails(m) PROVE ReadsKept /\ JobsKept
    BY <1>7, HaltKeeps DEF PoolFails
  <1>8. ASSUME NEW m \in Monitors, Crash(m) PROVE ReadsKept /\ JobsKept
    <2>1. ReadsKept
      BY <1>8 DEF ReadsKept, Crash, Idle, TypeOK
    <2> QED BY <1>8, <2>1, DropKeeps DEF Crash
  <1> QED BY <1>3, <1>4, <1>5, <1>6, <1>7, <1>8

\* The two rows that the end of an executor writes.
LEMMA WrittenRows ==
    ASSUME NEW r \in Rows, NEW n \in Nat, now \in Nat
    PROVE  /\ DoneRow(r).attempts = r.attempts /\ DoneRow(r).status = "Success"
           /\ DoneRow(r).blocked = r.blocked
           /\ FailedRow(r, n).attempts = n + 1
           /\ FailedRow(r, n).status \in {r.status, "RetriesExceeded"}
           /\ FailedRow(r, n).status = "RetriesExceeded" =>
                 r.status = "RetriesExceeded" \/ MaxAttempts <= n + 1
           /\ FailedRow(r, n).blocked = r.blocked \/ FailedRow(r, n).status = "RetriesExceeded"
  <1>1. CASE MaxAttempts <= n + 1
    BY <1>1 DEF FailedRow, DoneRow, Rows
  <1>2. CASE ~(MaxAttempts <= n + 1)
    BY <1>2 DEF FailedRow, DoneRow, Rows
  <1> QED BY <1>1, <1>2

\* The steps that keep the failures, and the attempts of each action.
LEMMA CountsKept ==
    ASSUME TypeOK, TypeOK', InUse, Counts, GivenUpAfterMaxFailures, ReadsKept, JobsKept,
           \A a \in Actions :
              /\ failures'[a] >= failures[a]
              /\ action'[a].attempts <= failures'[a]
              /\ action'[a].status = "RetriesExceeded" =>
                    action[a].status = "RetriesExceeded" \/ failures'[a] >= MaxAttempts
    PROVE  Counts' /\ GivenUpAfterMaxFailures'
  <1> USE CountAssumption
  <1>1. \A a \in Actions : failures[a] \in Nat /\ failures'[a] \in Nat
    BY DEF TypeOK
  <1>2. \A m \in Monitors, a \in Actions : monitor[m].read[a] \in Nat
    BY DEF TypeOK, MonitorStates
  <1>3. \A m \in Monitors, a \in Actions : monitor'[m].read[a] <= failures'[a]
    BY <1>1, <1>2 DEF Counts, ReadsKept
  <1>4. \A c \in Conns : job[c].stage \in Used => job[c].action \in Actions
    BY DEF InUse, Used
  <1>5. \A c \in Conns : job[c].attempts \in Nat
    BY DEF TypeOK, Jobs
  <1>6. \A c \in Conns :
           job'[c].stage \in Used => job'[c].attempts <= failures'[job'[c].action]
    BY <1>1, <1>4, <1>5 DEF Counts, JobsKept
  <1>7. GivenUpAfterMaxFailures'
    BY <1>1 DEF GivenUpAfterMaxFailures
  <1> QED BY <1>3, <1>6, <1>7 DEF Counts

LEMMA CountsNext ==
    ASSUME TypeOK, TypeOK', InUse, Counts, GivenUpAfterMaxFailures, [Next]_vars
    PROVE  Counts' /\ GivenUpAfterMaxFailures'
  <1> USE CountAssumption, TimeAssumption
  <1>0. /\ now \in Nat
        /\ \A a \in Actions : action[a] \in Rows /\ action[a].attempts \in Nat
        /\ \A a \in Actions : failures[a] \in Nat /\ failures'[a] \in Nat
        /\ \A m \in Monitors, a \in Actions : monitor[m].read[a] \in Nat
        /\ \A c \in Conns : job[c].attempts \in Nat
        /\ \A c \in Conns : job[c].stage \in Used => job[c].action \in Actions
    BY DEF TypeOK, Rows, MonitorStates, Jobs, InUse, Used
  <1>1. ASSUME UNCHANGED <<action, failures>>, ReadsKept, JobsKept
        PROVE  Counts' /\ GivenUpAfterMaxFailures'
    BY <1>0, <1>1, CountsKept DEF Counts
  <1>2. ASSUME UNCHANGED monitor PROVE ReadsKept
    BY <1>2 DEF ReadsKept
  <1>3. ASSUME UNCHANGED job PROVE JobsKept
    BY <1>3 DEF JobsKept
  <1>4. CASE Tick \/ UNCHANGED vars
    BY <1>1, <1>2, <1>3, <1>4 DEF Tick, vars
  <1>5. ASSUME NEW a \in Actions, NEW d \in 0..MaxDelay, Enqueue(a, d)
        PROVE  Counts' /\ GivenUpAfterMaxFailures'
    <2>1. \A b \in Actions :
             /\ action'[b].attempts \in {action[b].attempts, 0}
             /\ action'[b].status \in {action[b].status, "Pending"}
      BY <1>5 DEF Enqueue, TypeOK
    <2>2. ReadsKept /\ JobsKept /\ failures' = failures
      BY <1>2, <1>3, <1>5 DEF Enqueue
    <2> QED BY <1>0, <2>1, <2>2, CountsKept DEF Counts
  <1>6. ASSUME NEW m \in Monitors, Find(m)
        PROVE  Counts' /\ GivenUpAfterMaxFailures'
    <2>1. \A n \in Monitors, a \in Actions :
             monitor'[n].read[a] \in {monitor[n].read[a], action[a].attempts, 0}
      BY <1>6 DEF Find, TypeOK
    <2>2. UNCHANGED <<action, job, failures>>
      BY <1>6 DEF Find
    <2>3. \A n \in Monitors, a \in Actions : monitor'[n].read[a] <= failures'[a]
      BY <1>0, <2>1, <2>2 DEF Counts
    <2> QED BY <2>2, <2>3 DEF Counts, GivenUpAfterMaxFailures
  <1>7. ASSUME NEW m \in Monitors, FindNothing(m)
        PROVE  Counts' /\ GivenUpAfterMaxFailures'
    <2>1. ReadsKept
      BY <1>7 DEF ReadsKept, FindNothing, Idle, TypeOK
    <2> QED BY <1>1, <1>3, <1>7, <2>1 DEF FindNothing
  <1>8. ASSUME NEW m \in Monitors, NEW a \in Actions, Skip(m, a)
        PROVE  Counts' /\ GivenUpAfterMaxFailures'
    <2>1. ReadsKept
      BY <1>8 DEF ReadsKept, Skip, TypeOK, MonitorStates
    <2> QED BY <1>1, <1>3, <1>8, <2>1 DEF Skip
  <1>9. ASSUME NEW m \in Monitors, NEW a \in Actions, NEW c \in Conns, Look(m, a, c)
        PROVE  Counts' /\ GivenUpAfterMaxFailures'
    <2>1. ReadsKept
      BY <1>9 DEF ReadsKept, Look, TypeOK, MonitorStates
    <2>2. UNCHANGED <<action, failures>>
      BY <1>9 DEF Look
    <2>3. \A d \in Conns \ {c} : job'[d] = job[d]
      BY <1>9 DEF Look
    <2>4. job'[c].attempts = monitor[m].read[a] /\ job'[c].action = a
      BY <1>9 DEF Look, TypeOK
    <2>5. \A d \in Conns :
             job'[d].stage \in Used => job'[d].attempts <= failures'[job'[d].action]
      BY <2>2, <2>3, <2>4 DEF Counts
    <2>6. \A n \in Monitors, b \in Actions : monitor'[n].read[b] <= failures'[b]
      BY <1>0, <2>1, <2>2 DEF Counts, ReadsKept
    <2> QED BY <2>2, <2>5, <2>6 DEF Counts, GivenUpAfterMaxFailures
  <1>10. ASSUME ReadsKept, UNCHANGED failures,
                \A c \in Conns :
                   \/ job'[c] = job[c]
                   \/ job'[c].stage \notin Used
                   \/ /\ job[c].stage \in Used
                      /\ job'[c].attempts = job[c].attempts /\ job'[c].action = job[c].action,
                \A a \in Actions : /\ action'[a].attempts = action[a].attempts
                                   /\ action'[a].status = action[a].status
         PROVE  Counts' /\ GivenUpAfterMaxFailures'
    <2>1. \A n \in Monitors, b \in Actions : monitor'[n].read[b] <= failures'[b]
      BY <1>0, <1>10 DEF Counts, ReadsKept
    <2>2. \A c \in Conns :
             job'[c].stage \in Used => job'[c].attempts <= failures'[job'[c].action]
      BY <1>10 DEF Counts
    <2> QED BY <1>10, <2>1, <2>2 DEF Counts, GivenUpAfterMaxFailures
  <1>11. ASSUME NEW c \in Conns, Take(c)
         PROVE  Counts' /\ GivenUpAfterMaxFailures'
    <2>1. job[c].by \in Monitors /\ job[c].stage \in Used /\ UNCHANGED failures
      BY <1>11 DEF Take, InUse, Used
    <2>2. CASE Halt(job[c].by) /\ UNCHANGED action
      BY <1>1, <2>1, <2>2, HaltKeeps
    <2>3. CASE /\ action' = [action EXCEPT ![job[c].action].blocked = job[c].until]
               /\ job' = [job EXCEPT ![c].stage = "made"]
               /\ UNCHANGED monitor
      <3>1. \A a \in Actions : /\ action'[a].attempts = action[a].attempts
                               /\ action'[a].status = action[a].status
        BY <2>3 DEF TypeOK, Rows
      <3>2. \A d \in Conns :
               \/ job'[d] = job[d]
               \/ /\ job[d].stage \in Used
                  /\ job'[d].attempts = job[d].attempts /\ job'[d].action = job[d].action
        BY <2>1, <2>3 DEF TypeOK, Jobs
      <3>3. ReadsKept
        BY <1>2, <2>3
      <3> QED BY <1>10, <2>1, <3>1, <3>2, <3>3
    <2> QED BY <1>11, <2>2, <2>3 DEF Take
  <1>12. ASSUME NEW m \in Monitors, EndRound(m)
         PROVE  Counts' /\ GivenUpAfterMaxFailures'
    <2> DEFINE made == JobsOf(m) \cap {c \in Conns : job[c].stage = "made"}
               s == IF made = {} THEN "finished" ELSE "draining"
    <2>0. \/ monitor' = [monitor EXCEPT ![m] = Idle]
          \/ monitor' = [monitor EXCEPT ![m] = [Idle EXCEPT !.stage = s]]
      BY <1>12 DEF EndRound
    <2> HIDE DEF s
    <2>1. ReadsKept /\ UNCHANGED <<action, failures>>
      <3>1. UNCHANGED <<action, failures>>
        BY <1>12 DEF EndRound
      <3>2. monitor'[m].read = Idle.read
        BY <2>0 DEF Idle, TypeOK
      <3>3. \A n \in Monitors \ {m} : monitor'[n] = monitor[n]
        BY <2>0 DEF TypeOK
      <3> QED BY <3>1, <3>2, <3>3 DEF ReadsKept, Idle
    <2>2. \A c \in Conns :
             \/ job'[c] = job[c]
             \/ /\ job[c].stage = "made"
                /\ job'[c] = [job[c] EXCEPT !.stage = "running", !.since = now]
      BY <1>12 DEF EndRound
    <2>3. \A c \in Conns :
             \/ job'[c] = job[c]
             \/ /\ job[c].stage \in Used
                /\ job'[c].attempts = job[c].attempts /\ job'[c].action = job[c].action
      <3>1. \A c \in Conns : job[c] \in Jobs
        BY DEF TypeOK
      <3>2. ASSUME NEW c \in Conns,
                   job'[c] = [job[c] EXCEPT !.stage = "running", !.since = now]
            PROVE  job'[c].attempts = job[c].attempts /\ job'[c].action = job[c].action
        <4>1. job[c] \in Jobs
          BY <3>1
        <4> QED BY <3>2, <4>1, StartedJob
      <3> QED BY <2>2, <3>2 DEF Used
    <2> QED BY <1>10, <2>1, <2>3
  <1>13. ASSUME NEW c \in Conns, RunNext(c)
         PROVE  Counts' /\ GivenUpAfterMaxFailures'
    <2>1. ReadsKept /\ UNCHANGED <<action, failures>>
      BY <1>2, <1>13 DEF RunNext
    <2>2. \A d \in Conns :
             \/ job'[d] = job[d]
             \/ /\ job[d].stage \in Used
                /\ job'[d].attempts = job[d].attempts /\ job'[d].action = job[d].action
      BY <1>13 DEF RunNext, TypeOK, Jobs, Used
    <2> QED BY <1>10, <2>1, <2>2
  <1>14. ASSUME NEW c \in Conns, Done(c)
         PROVE  Counts' /\ GivenUpAfterMaxFailures'
    <2>1. ReadsKept /\ JobsKept /\ job[c].action \in Actions
      BY <1>14, EndsKeep DEF Done, InUse
    <2>2. UNCHANGED failures /\ (action' = action
                                 \/ action' = [action EXCEPT ![job[c].action] = DoneRow(@)])
      BY <1>14 DEF Done, StaysOpen
    <2>3. \A r \in Rows : DoneRow(r).attempts = r.attempts /\ DoneRow(r).status = "Success"
      BY <1>0, WrittenRows
    <2>4. \A a \in Actions : /\ action'[a].attempts = action[a].attempts
                             /\ action'[a].status \in {action[a].status, "Success"}
      BY <1>0, <2>1, <2>2, <2>3 DEF TypeOK
    <2> QED BY <1>0, <2>1, <2>2, <2>4, CountsKept DEF Counts
  <1>15. ASSUME NEW c \in Conns, Failed(c)
         PROVE  Counts' /\ GivenUpAfterMaxFailures'
    <2> DEFINE b == job[c].action
               n == job[c].attempts
    <2>1. ReadsKept /\ JobsKept /\ b \in Actions /\ n <= failures[b]
      BY <1>15, EndsKeep DEF Failed, InUse, Counts, Used
    <2>2. failures' = [failures EXCEPT ![b] = @ + 1]
      BY <1>15 DEF Failed
    <2>3. action' = action \/ action' = [action EXCEPT ![b] = FailedRow(@, n)]
      BY <1>15 DEF Failed, StaysOpen
    <2>4. \A a \in Actions \ {b} : action'[a] = action[a] /\ failures'[a] = failures[a]
      BY <2>1, <2>2, <2>3 DEF TypeOK
    <2>5. failures'[b] = failures[b] + 1
      BY <2>1, <2>2 DEF TypeOK
    <2>6. action'[b] = action[b] \/ action'[b] = FailedRow(action[b], n)
      BY <2>1, <2>3 DEF TypeOK
    <2>7. /\ action'[b].attempts <= failures'[b]
          /\ action'[b].status = "RetriesExceeded" =>
                action[b].status = "RetriesExceeded" \/ failures'[b] >= MaxAttempts
      <3>1. /\ action[b] \in Rows /\ n \in Nat /\ failures[b] \in Nat
            /\ action[b].attempts <= failures[b]
        BY <1>0, <2>1 DEF TypeOK, Jobs, Counts
      <3>2. CASE action'[b] = action[b]
        BY <2>5, <3>1, <3>2 DEF TypeOK, Rows
      <3>3. CASE action'[b] = FailedRow(action[b], n)
        BY <1>0, <2>1, <2>5, <3>1, <3>3, WrittenRows
      <3> QED BY <2>6, <3>2, <3>3
    <2>8. \A a \in Actions : failures'[a] >= failures[a] /\ action'[a].attempts <= failures'[a]
      BY <1>0, <2>4, <2>5, <2>7 DEF Counts
    <2>9. \A a \in Actions :
             action'[a].status = "RetriesExceeded" =>
                action[a].status = "RetriesExceeded" \/ failures'[a] >= MaxAttempts
      BY <2>4, <2>7
    <2> HIDE DEF b, n
    <2> QED BY <2>1, <2>8, <2>9, CountsKept
  <1>16. ASSUME NEW c \in Conns, TimedOut(c) \/ Close(c)
         PROVE  Counts' /\ GivenUpAfterMaxFailures'
    BY <1>1, <1>16, EndsKeep DEF TimedOut, Close
  <1>17. ASSUME NEW m \in Monitors, PoolFails(m) \/ Crash(m)
         PROVE  Counts' /\ GivenUpAfterMaxFailures'
    BY <1>1, <1>17, EndsKeep DEF PoolFails, Crash
  <1> QED
    BY <1>4, <1>5, <1>6, <1>7, <1>8, <1>9, <1>11, <1>12, <1>13, <1>14, <1>15, <1>16, <1>17
       DEF Next, MonitorStep, JobStep

\* An action is given up only when it has failed max_attempt_count times: the
\* stale count that set_failed adds one to is never more than the failures.
THEOREM GivenUpSafe == Spec => []GivenUpAfterMaxFailures
  <1>1. Init => Counts /\ GivenUpAfterMaxFailures
    BY DEF Init, Counts, GivenUpAfterMaxFailures, Idle, NoJob, Used
  <1>2. /\ TypeOK /\ InUse /\ Counts /\ GivenUpAfterMaxFailures /\ [Next]_vars
        => TypeOK' /\ InUse' /\ Counts' /\ GivenUpAfterMaxFailures'
    BY NextTypes, CountsNext
  <1> QED BY <1>1, <1>2, InitTypes, PTL DEF Spec

\* A committed effect is settled: the transaction that wrote it has set the action
\* done, and no later write makes it pending again.
Settled ==
    \A a \in Actions : effects[a] > 0 => action[a].status \in {"Success", "RetriesExceeded"}

LEMMA SettledNext ==
    ASSUME TypeOK, TypeOK', InUse, Settled, [Next]_vars
    PROVE  Settled'
  <1> USE TimeAssumption
  <1>0. now \in Nat /\ \A a \in Actions : action[a] \in Rows /\ effects[a] \in Nat
    BY DEF TypeOK
  <1>1. ASSUME UNCHANGED effects, \A a \in Actions : action'[a].status = action[a].status
        PROVE  Settled'
    BY <1>1 DEF Settled
  <1>2. ASSUME NEW a \in Actions, NEW d \in 0..MaxDelay, Enqueue(a, d)
        PROVE  Settled'
    BY <1>2 DEF Enqueue, Settled, TypeOK
  <1>3. ASSUME NEW c \in Conns, Take(c)
        PROVE  Settled'
    <2>1. \A a \in Actions : action'[a].status = action[a].status
      BY <1>3 DEF Take, TypeOK, Rows
    <2> QED BY <1>1, <1>3, <2>1 DEF Take
  <1>4. ASSUME NEW c \in Conns, Done(c)
        PROVE  Settled'
    <2>1. job[c].action \in Actions
      BY <1>4 DEF Done, InUse
    <2>2. CASE StaysOpen(c)
      BY <1>1, <2>2 DEF StaysOpen
    <2>3. CASE /\ action' = [action EXCEPT ![job[c].action] = DoneRow(@)]
               /\ effects' = [effects EXCEPT ![job[c].action] = @ + 1]
      <3>1. \A a \in Actions \ {job[c].action} :
               action'[a] = action[a] /\ effects'[a] = effects[a]
        BY <2>1, <2>3 DEF TypeOK
      <3>2. action'[job[c].action].status = "Success"
        BY <1>0, <2>1, <2>3, WrittenRows DEF TypeOK
      <3> QED BY <3>1, <3>2 DEF Settled
    <2> QED BY <1>4, <2>2, <2>3 DEF Done
  <1>5. ASSUME NEW c \in Conns, Failed(c)
        PROVE  Settled'
    <2>1. job[c].action \in Actions /\ job[c].attempts \in Nat /\ UNCHANGED effects
      BY <1>5 DEF Failed, InUse, TypeOK, Jobs
    <2>2. \/ action' = action
          \/ action' = [action EXCEPT ![job[c].action] = FailedRow(@, job[c].attempts)]
      BY <1>5 DEF Failed, StaysOpen
    <2>3. \A r \in Rows : FailedRow(r, job[c].attempts).status \in {r.status, "RetriesExceeded"}
      BY <1>0, <2>1, WrittenRows
    <2>4. \A a \in Actions : action'[a].status \in {action[a].status, "RetriesExceeded"}
      BY <1>0, <2>1, <2>2, <2>3 DEF TypeOK
    <2> QED BY <2>1, <2>4 DEF Settled
  <1>6. ASSUME UNCHANGED <<action, effects>> PROVE Settled'
    BY <1>6 DEF Settled
  <1>7. ASSUME NEW m \in Monitors, MonitorStep(m) \/ PoolFails(m) \/ Crash(m)
        PROVE  Settled'
    BY <1>6, <1>7 DEF MonitorStep, Find, FindNothing, EndRound, Skip, Look, PoolFails, Crash
  <1>8. ASSUME NEW c \in Conns, RunNext(c) \/ TimedOut(c) \/ Close(c)
        PROVE  Settled'
    BY <1>6, <1>8 DEF RunNext, TimedOut, Close
  <1>9. CASE Tick \/ UNCHANGED vars
    BY <1>6, <1>9 DEF Tick, vars
  <1> QED BY <1>2, <1>3, <1>4, <1>5, <1>7, <1>8, <1>9 DEF Next, JobStep

\* An action whose writes are in the database is never found due again.
THEOREM EffectsFinal == Spec => []EffectsAreFinal
  <1>1. Init => Settled
    BY DEF Init, Settled
  <1>2. TypeOK /\ InUse /\ Settled /\ [Next]_vars => TypeOK' /\ InUse' /\ Settled'
    BY NextTypes, SettledNext
  <1>3. Settled => EffectsAreFinal
    BY DEF Settled, EffectsAreFinal
  <1> QED BY <1>1, <1>2, <1>3, InitTypes, PTL DEF Spec

-----------------------------------------------------------------------------
(* One server, whose rounds are short: an action is blocked until its      *)
(* executor has ended or is timed out.                                     *)

Known ==
    /\ \A m \in Monitors : \A a \in monitor[m].batch : action[a].status # "none"
    /\ \A c \in Conns : job[c].stage \in Used => action[job[c].action].status # "none"

InRound ==
    \A c \in Conns :
        job[c].stage \in {"checking", "made"} =>
            /\ monitor[job[c].by].stage = "round"
            /\ job[c].until >= monitor[job[c].by].since + BusyFor

Clocks ==
    /\ \A m \in Monitors :
          monitor[m].stage = "round" =>
              monitor[m].since <= now /\ now <= monitor[m].since + RoundTime
    /\ \A c \in Conns : job[c].stage = "running" => now <= job[c].since + Timeout

Blocked ==
    \A c \in Conns :
        /\ job[c].stage = "made" => action[job[c].action].blocked >= job[c].until
        /\ job[c].stage = "running" => action[job[c].action].blocked > job[c].since + Timeout

OneCheck ==
    \A c, d \in Conns : job[c].stage = "checking" /\ job[d].stage = "checking" => c = d

CheckedFree ==
    \A c, d \in Conns : job[c].stage = "checking" /\ Executes(d) => job[c].action # job[d].action

Exclusive ==
    Known /\ InRound /\ Clocks /\ Blocked /\ OneCheck /\ CheckedFree /\ OneExecutorPerAction

\* Jobs end, and only the rows of ended jobs are unblocked.
LEMMA JobsEnd ==
    ASSUME Exclusive, JobsKept, UNCHANGED <<now, monitor>>, InUse,
           \A a \in Actions : action[a].status # "none" => action'[a].status # "none",
           \A m \in Monitors : monitor[m].batch \subseteq Actions,
           \A c \in Conns :
              job'[c].stage \in {"made", "running"} =>
                  action'[job[c].action].blocked = action[job[c].action].blocked
    PROVE  Exclusive'
  <1>1. \A c \in Conns : job'[c].stage \in Used => job'[c] = job[c] /\ job[c].action \in Actions
    BY DEF JobsKept, InUse, Used
  <1>2. Known'
    BY <1>1 DEF Exclusive, Known
  <1>3. InRound' /\ Clocks'
    BY <1>1 DEF Exclusive, InRound, Clocks, Used
  <1>4. Blocked'
    BY <1>1 DEF Exclusive, Blocked, Used
  <1>5. OneCheck' /\ CheckedFree' /\ OneExecutorPerAction'
    BY <1>1 DEF Exclusive, OneCheck, CheckedFree, OneExecutorPerAction, Executes, Used
  <1> QED BY <1>2, <1>3, <1>4, <1>5 DEF Exclusive

LEMMA ExclusiveNext ==
    ASSUME NEW m, Monitors = {m}, Draining = {}, RoundTime + Timeout < BusyFor,
           TypeOK, TypeOK', InUse, Exclusive, [Next]_vars
    PROVE  Exclusive'
  <1> USE TimeAssumption
  <1>0. /\ BusyFor \in Nat /\ Timeout \in Nat /\ RoundTime \in Nat
        /\ now \in Nat /\ now' \in Nat
        /\ m \in Monitors /\ monitor[m].since \in Nat /\ monitor[m].batch \subseteq Actions
        /\ \A a \in Actions : action[a] \in Rows /\ action[a].blocked \in Nat
        /\ \A c \in Conns : job[c].since \in Nat /\ job[c].until \in Nat /\ job[c].attempts \in Nat
        /\ \A c \in Conns : job[c].stage \in Used => job[c].by = m /\ job[c].action \in Actions
    BY DEF TypeOK, Rows, MonitorStates, Jobs, InUse, Used
  <1>1. CASE Tick
    <2>1. Known' /\ InRound' /\ Blocked' /\ OneCheck' /\ CheckedFree' /\ OneExecutorPerAction'
      BY <1>1 DEF Tick, Exclusive, Known, InRound, Blocked, OneCheck, CheckedFree,
                  OneExecutorPerAction, Executes
    <2>2. Clocks'
      <3>1. monitor[m].stage = "round" =>
               monitor[m].since <= now' /\ now' <= monitor[m].since + RoundTime
        BY <1>0, <1>1 DEF Tick, Exclusive, Clocks
      <3>2. \A c \in Conns : job[c].stage = "running" => now' <= job[c].since + Timeout
        BY <1>0, <1>1 DEF Tick
      <3> QED BY <1>1, <3>1, <3>2 DEF Tick, Clocks
    <2> QED BY <2>1, <2>2 DEF Exclusive
  <1>2. ASSUME NEW a \in Actions, NEW d \in 0..MaxDelay, Enqueue(a, d)
        PROVE  Exclusive'
    <2>1. JobsKept /\ UNCHANGED <<now, monitor, job>>
      BY <1>2 DEF Enqueue, JobsKept
    <2>2. \A b \in Actions : b # a => action'[b] = action[b]
      BY <1>2 DEF Enqueue, TypeOK
    <2>3. action'[a].status # "none"
      BY <1>2 DEF Enqueue, TypeOK
    <2>4. \A c \in Conns : job[c].stage \in Used => job[c].action # a
      BY <1>2 DEF Enqueue, Exclusive, Known
    <2>5. \A c \in Conns :
             job'[c].stage \in {"made", "running"} =>
                 action'[job[c].action].blocked = action[job[c].action].blocked
      BY <1>0, <2>1, <2>2, <2>4 DEF Used
    <2> QED BY <1>0, <2>1, <2>2, <2>3, <2>5, JobsEnd
  <1>3. CASE Find(m)
    <2>1. /\ UNCHANGED <<now, action, job>> /\ monitor'[m].stage = "round"
          /\ monitor'[m].since = now /\ monitor'[m].batch \subseteq Due
      BY <1>0, <1>3 DEF Find, TypeOK
    <2>2. \A c \in Conns : job[c].stage \notin {"checking", "made"}
      BY <1>0, <1>3 DEF Find, Exclusive, InRound, Used
    <2>3. Known'
      BY <2>1 DEF Exclusive, Known, Due
    <2>4. InRound' /\ OneCheck' /\ CheckedFree'
      BY <2>1, <2>2 DEF InRound, OneCheck, CheckedFree
    <2>5. Clocks'
      BY <1>0, <2>1 DEF Exclusive, Clocks
    <2>6. Blocked' /\ OneExecutorPerAction'
      BY <2>1 DEF Exclusive, Blocked, OneExecutorPerAction, Executes
    <2> QED BY <2>3, <2>4, <2>5, <2>6 DEF Exclusive
  <1>4. ASSUME NEW a \in Actions, Skip(m, a)
        PROVE  Exclusive'
    <2>1. /\ UNCHANGED <<now, action, job>> /\ monitor'[m].stage = monitor[m].stage
          /\ monitor'[m].since = monitor[m].since /\ monitor'[m].batch \subseteq monitor[m].batch
      BY <1>0, <1>4 DEF Skip, TypeOK, MonitorStates
    <2>2. Known' /\ Clocks'
      BY <2>1 DEF Exclusive, Known, Clocks
    <2>3. InRound'
      BY <1>0, <2>1 DEF Exclusive, InRound, Used
    <2>4. Blocked' /\ OneCheck' /\ CheckedFree' /\ OneExecutorPerAction'
      BY <2>1 DEF Exclusive, Blocked, OneCheck, CheckedFree, OneExecutorPerAction, Executes
    <2> QED BY <2>2, <2>3, <2>4 DEF Exclusive
  <1>5. ASSUME NEW a \in Actions, NEW c \in Conns, Look(m, a, c)
        PROVE  Exclusive'
    <2>1. /\ UNCHANGED <<now, action>> /\ monitor'[m].stage = monitor[m].stage
          /\ monitor'[m].since = monitor[m].since /\ monitor'[m].batch \subseteq monitor[m].batch
      BY <1>0, <1>5 DEF Look, TypeOK, MonitorStates
    <2>2. /\ job'[c].stage = "checking" /\ job'[c].by = m /\ job'[c].action = a
          /\ job'[c].until = now + BusyFor
      BY <1>5 DEF Look, TypeOK
    <2>3. \A d \in Conns \ {c} : job'[d] = job[d]
      BY <1>5 DEF Look
    <2>4. /\ monitor[m].stage = "round" /\ a \in monitor[m].batch
          /\ action[a].blocked <= now
          /\ \A d \in Conns : job[d].stage # "checking"
      BY <1>0, <1>5 DEF Look, Checking, JobsOf, Used
    <2>5. \A d \in Conns : Executes(d) => job[d].action # a
      <3> SUFFICES ASSUME NEW d \in Conns, Executes(d), job[d].action = a PROVE FALSE
        OBVIOUS
      <3>1. CASE job[d].stage = "running"
        <4>1. action[a].blocked > job[d].since + Timeout /\ now <= job[d].since + Timeout
          BY <3>1 DEF Exclusive, Blocked, Clocks
        <4> QED BY <1>0, <2>4, <4>1
      <3>2. CASE job[d].stage = "made"
        <4>1. action[a].blocked >= job[d].until
          BY <3>2 DEF Exclusive, Blocked
        <4>2. job[d].until >= monitor[m].since + BusyFor
          BY <1>0, <3>2 DEF Exclusive, InRound, Used
        <4>3. now <= monitor[m].since + RoundTime
          BY <1>0, <2>4 DEF Exclusive, Clocks
        <4> QED BY <1>0, <2>4, <4>1, <4>2, <4>3
      <3> QED BY <3>1, <3>2 DEF Executes
    <2>6. Known'
      BY <1>0, <2>1, <2>2, <2>3, <2>4 DEF Exclusive, Known, Used
    <2>7. InRound'
      <3>1. now + BusyFor >= monitor[m].since + BusyFor
        BY <1>0, <2>4 DEF Exclusive, Clocks
      <3> SUFFICES ASSUME NEW d \in Conns, job'[d].stage \in {"checking", "made"}
                   PROVE  /\ monitor'[job'[d].by].stage = "round"
                          /\ job'[d].until >= monitor'[job'[d].by].since + BusyFor
        BY DEF InRound
      <3>2. CASE d = c
        BY <2>1, <2>2, <2>4, <3>1, <3>2
      <3>3. CASE d # c
        BY <1>0, <2>1, <2>3, <3>3 DEF Exclusive, InRound, Used
      <3> QED BY <3>2, <3>3
    <2>8. Clocks'
      BY <2>1, <2>2, <2>3 DEF Exclusive, Clocks
    <2>9. Blocked' /\ OneExecutorPerAction'
      BY <2>1, <2>2, <2>3 DEF Exclusive, Blocked, OneExecutorPerAction, Executes
    <2>10. OneCheck' /\ CheckedFree'
      BY <2>2, <2>3, <2>4, <2>5 DEF OneCheck, CheckedFree, Executes
    <2> QED BY <2>6, <2>7, <2>8, <2>9, <2>10 DEF Exclusive
  <1>6. ASSUME NEW c \in Conns, Take(c)
        PROVE  Exclusive'
    <2> DEFINE a == job[c].action
    <2>1. job[c].stage = "checking" /\ job[c].by = m /\ a \in Actions /\ UNCHANGED now
      BY <1>0, <1>6 DEF Take, Used
    <2>2. CASE Halt(m)
      <3>1. \A d \in Conns : job'[d].stage \notin Used
        BY <1>0, <2>2, LeftFields DEF Halt, NoJob, Used
      <3>2. monitor'[m].stage # "round" /\ monitor'[m].batch = {}
        BY <1>0, <2>2 DEF Halt, Idle, TypeOK
      <3>3. Exclusive'
        BY <3>1, <3>2 DEF Exclusive, Known, InRound, Clocks, Blocked, OneCheck, CheckedFree,
                          OneExecutorPerAction, Executes, Used
      <3> QED BY <3>3
    <2>3. CASE /\ action[a].blocked <= job[c].until
               /\ action' = [action EXCEPT ![a].blocked = job[c].until]
               /\ job' = [job EXCEPT ![c].stage = "made"]
               /\ UNCHANGED monitor
      <3>1. /\ \A b \in Actions : action'[b].status = action[b].status
            /\ \A b \in Actions : action'[b].blocked \in Nat
            /\ \A b \in Actions : action'[b].blocked >= action[b].blocked
            /\ action'[a].blocked = job[c].until
        BY <1>0, <2>1, <2>3 DEF TypeOK, Rows
      <3>2. \A d \in Conns \ {c} : job'[d] = job[d]
        BY <2>3
      <3>3. /\ job'[c].stage = "made" /\ job'[c].by = m /\ job'[c].action = a
            /\ job'[c].until = job[c].until
        BY <2>1, <2>3 DEF TypeOK, Jobs
      <3> HIDE DEF a
      <3>4. Known'
        BY <1>0, <2>1, <2>3, <3>1, <3>2, <3>3 DEF Exclusive, Known, Used, a
      <3>5. InRound' /\ Clocks'
        BY <1>0, <2>1, <2>3, <3>2, <3>3 DEF Exclusive, InRound, Clocks
      <3>6. Blocked'
        <4> SUFFICES ASSUME NEW d \in Conns
                     PROVE  /\ job'[d].stage = "made" =>
                                  action'[job'[d].action].blocked >= job'[d].until
                            /\ job'[d].stage = "running" =>
                                  action'[job'[d].action].blocked > job'[d].since + Timeout
          BY DEF Blocked
        <4>1. CASE d = c
          BY <1>0, <3>1, <3>3, <4>1
        <4>2. CASE d # c
          <5>1. job'[d] = job[d]
            BY <3>2, <4>2
          <5>2. job[d].stage \in {"made", "running"} => job[d].action \in Actions
            BY <1>0 DEF Used
          <5>3. /\ job[d].stage = "made" => action[job[d].action].blocked >= job[d].until
                /\ job[d].stage = "running" =>
                      action[job[d].action].blocked > job[d].since + Timeout
            BY DEF Exclusive, Blocked
          <5> QED BY <1>0, <3>1, <5>1, <5>2, <5>3
        <4> QED BY <4>1, <4>2
      <3>7. \A d \in Conns : job'[d].stage # "checking"
        BY <2>1, <3>2, <3>3 DEF Exclusive, OneCheck
      <3>8. OneCheck' /\ CheckedFree'
        BY <3>7 DEF OneCheck, CheckedFree
      <3>9. OneExecutorPerAction'
        BY <2>1, <3>2, <3>3 DEF Exclusive, CheckedFree, OneExecutorPerAction, Executes, a
      <3> QED BY <3>4, <3>5, <3>6, <3>8, <3>9 DEF Exclusive
    <2> QED BY <1>6, <2>1, <2>2, <2>3 DEF Take
  <1>7. CASE EndRound(m)
    <2>1. /\ monitor' = [monitor EXCEPT ![m] = Idle] /\ UNCHANGED <<now, action>>
          /\ job' = [c \in Conns |->
                        IF c \in JobsOf(m) /\ job[c].stage = "made"
                        THEN [job[c] EXCEPT !.stage = "running", !.since = now] ELSE job[c]]
          /\ monitor[m].stage = "round" /\ Checking(m) = {}
      BY <1>7 DEF EndRound
    <2>2. monitor'[m].stage # "round" /\ monitor'[m].batch = {}
      BY <1>0, <2>1 DEF Idle, TypeOK
    <2>3. \A c \in Conns : job'[c].stage \notin {"checking", "made"}
      BY <1>0, <2>1 DEF Checking, JobsOf, Used, TypeOK, Jobs
    <2>4. \A c \in Conns :
             \/ job'[c] = job[c]
             \/ /\ job[c].stage = "made" /\ job'[c].stage = "running"
                /\ job'[c].since = now /\ job'[c].action = job[c].action
      <3>1. \A c \in Conns : job[c] \in Jobs
        BY <1>0 DEF TypeOK
      <3>2. \A c \in Conns :
               \/ job'[c] = job[c]
               \/ /\ job[c].stage = "made"
                  /\ job'[c] = [job[c] EXCEPT !.stage = "running", !.since = now]
        BY <2>1
      <3>3. ASSUME NEW c \in Conns,
                   job'[c] = [job[c] EXCEPT !.stage = "running", !.since = now]
            PROVE  /\ job'[c].stage = "running" /\ job'[c].since = now
                   /\ job'[c].action = job[c].action
        <4>1. job[c] \in Jobs
          BY <3>1
        <4> QED BY <3>3, <4>1, StartedJob
      <3> QED BY <3>2, <3>3
    <2>5. Known' /\ Clocks'
      <3>1. action' = action /\ now' = now
        BY <2>1
      <3>2. \A c \in Conns :
               job'[c].stage \in Used => job[c].stage \in Used /\ job'[c].action = job[c].action
        BY <2>4 DEF Used
      <3>3. Known'
        BY <2>2, <3>1, <3>2 DEF Exclusive, Known
      <3>4. ASSUME NEW c \in Conns, job'[c].stage = "running"
            PROVE  now' <= job'[c].since + Timeout
        <4>1. CASE job'[c] = job[c]
          BY <3>1, <3>4, <4>1 DEF Exclusive, Clocks
        <4>2. CASE job'[c].since = now
          BY <1>0, <3>1, <4>2
        <4> QED BY <2>4, <4>1, <4>2
      <3> QED BY <2>2, <3>3, <3>4 DEF Clocks
    <2>6. InRound' /\ OneCheck' /\ CheckedFree'
      BY <2>3 DEF InRound, OneCheck, CheckedFree
    <2>7. OneExecutorPerAction'
      BY <2>4 DEF Exclusive, OneExecutorPerAction, Executes
    <2>8. \A c \in Conns :
             job[c].stage = "made" => action[job[c].action].blocked > now + Timeout
      <3> SUFFICES ASSUME NEW c \in Conns, job[c].stage = "made"
                   PROVE  action[job[c].action].blocked > now + Timeout
        OBVIOUS
      <3>1. action[job[c].action].blocked >= job[c].until
        BY DEF Exclusive, Blocked
      <3>2. job[c].until >= monitor[m].since + BusyFor
        BY <1>0 DEF Exclusive, InRound, Used
      <3>3. now <= monitor[m].since + RoundTime
        BY <1>0, <2>1 DEF Exclusive, Clocks
      <3>4. action[job[c].action].blocked \in Nat
        BY <1>0 DEF Used
      <3> QED BY <1>0, <3>1, <3>2, <3>3, <3>4
    <2>9. Blocked'
      BY <2>1, <2>3, <2>4, <2>8 DEF Exclusive, Blocked
    <2> QED BY <2>5, <2>6, <2>7, <2>9 DEF Exclusive
  <1>8. ASSUME NEW c \in Conns, RunNext(c)
        PROVE  FALSE
    BY <1>0, <1>8 DEF RunNext, Exclusive, InRound, Used
  <1>9. ASSUME NEW c \in Conns, Done(c)
        PROVE  Exclusive'
    <2>1. JobsKept /\ job[c].action \in Actions /\ UNCHANGED <<now, monitor>>
      BY <1>9, EndsKeep DEF Done, StaysOpen, NextRound, InUse
    <2>2. action' = action \/ action' = [action EXCEPT ![job[c].action] = DoneRow(@)]
      BY <1>9 DEF Done, StaysOpen
    <2>3. \A r \in Rows : DoneRow(r).blocked = r.blocked /\ DoneRow(r).status = "Success"
      BY <1>0, WrittenRows
    <2>4. \A a \in Actions : /\ action'[a].blocked = action[a].blocked
                             /\ action'[a].status \in {action[a].status, "Success"}
      BY <1>0, <2>1, <2>2, <2>3 DEF TypeOK
    <2>5. \A d \in Conns :
             job'[d].stage \in {"made", "running"} =>
                 action'[job[d].action].blocked = action[job[d].action].blocked
      BY <1>0, <2>1, <2>4 DEF JobsKept, Used
    <2> QED BY <1>0, <2>1, <2>4, <2>5, JobsEnd
  <1>10. ASSUME NEW c \in Conns, Failed(c)
         PROVE  Exclusive'
    <2> DEFINE b == job[c].action
               n == job[c].attempts
    <2>1. JobsKept /\ b \in Actions /\ n \in Nat /\ UNCHANGED <<now, monitor>>
      BY <1>0, <1>10, EndsKeep DEF Failed, StaysOpen, Unsuccessful, InUse
    <2>2. action' = action \/ action' = [action EXCEPT ![b] = FailedRow(@, n)]
      BY <1>10 DEF Failed, StaysOpen
    <2>3. \A r \in Rows : FailedRow(r, n).status \in {r.status, "RetriesExceeded"}
      BY <1>0, <2>1, WrittenRows
    <2>4. \A a \in Actions : action'[a].status \in {action[a].status, "RetriesExceeded"}
      BY <1>0, <2>1, <2>2, <2>3 DEF TypeOK
    <2>5. \A a \in Actions \ {b} : action'[a] = action[a]
      BY <2>1, <2>2 DEF TypeOK
    <2>6. job[c].stage = "running" /\ job'[c].stage \notin Used
      BY <1>10, LeftFields DEF Failed, StaysOpen, Unsuccessful, Without, NoJob, Used, TypeOK
    <2>7. \A d \in Conns : job'[d].stage \in {"made", "running"} =>
                              d # c /\ Executes(d) /\ job[d].action \in Actions
      BY <1>0, <2>1, <2>6 DEF JobsKept, Used, Executes
    <2>8. \A d \in Conns : job'[d].stage \in {"made", "running"} => job[d].action # b
      BY <2>6, <2>7 DEF Exclusive, OneExecutorPerAction, Executes
    <2>9. \A d \in Conns :
             job'[d].stage \in {"made", "running"} =>
                 action'[job[d].action].blocked = action[job[d].action].blocked
      BY <2>5, <2>7, <2>8
    <2> HIDE DEF b, n
    <2> QED BY <1>0, <2>1, <2>4, <2>9, JobsEnd
  <1>11. ASSUME NEW c \in Conns, TimedOut(c) \/ Close(c)
         PROVE  Exclusive'
    <2>1. JobsKept /\ UNCHANGED <<now, monitor, action>>
      BY <1>11, EndsKeep DEF TimedOut, Close
    <2> QED BY <1>0, <2>1, JobsEnd
  <1>12. CASE FindNothing(m) \/ UNCHANGED vars
    <2>1. UNCHANGED vars
      BY <1>12 DEF FindNothing
    <2> QED BY <2>1 DEF vars, Exclusive, Known, InRound, Clocks, Blocked, OneCheck,
                        CheckedFree, OneExecutorPerAction, Executes
  <1>13. CASE PoolFails(m) \/ Crash(m)
    <2>1. \A c \in Conns : job'[c].stage \notin Used
      BY <1>0, <1>13, LeftFields DEF PoolFails, Crash, Halt, Without, JobsOf, NoJob, Used
    <2>2. monitor'[m].stage # "round" /\ monitor'[m].batch = {}
      BY <1>0, <1>13 DEF PoolFails, Crash, Halt, Idle, TypeOK
    <2>3. Exclusive'
      BY <2>1, <2>2 DEF Exclusive, Known, InRound, Clocks, Blocked, OneCheck, CheckedFree,
                        OneExecutorPerAction, Executes, Used
    <2> QED BY <2>3
  <1> QED
    BY <1>1, <1>2, <1>3, <1>4, <1>5, <1>6, <1>7, <1>8, <1>9, <1>10, <1>11, <1>12, <1>13
       DEF Next, MonitorStep, JobStep

\* A single server, whose rounds leave the executors their time before the minute
\* of set_busy is over, has one executor at most for an action.
THEOREM OneExecutor ==
    ASSUME NEW m, Monitors = {m}, Draining = {}, RoundTime + Timeout < BusyFor
    PROVE  Spec => []OneExecutorPerAction
  <1>1. Init => Exclusive
    BY DEF Init, Idle, NoJob, Exclusive, Known, InRound, Clocks, Blocked, OneCheck, CheckedFree,
           OneExecutorPerAction, Executes, Used
  <1>2. TypeOK /\ InUse /\ Exclusive /\ [Next]_vars => TypeOK' /\ InUse' /\ Exclusive'
    BY NextTypes, ExclusiveNext
  <1>3. Exclusive => OneExecutorPerAction
    BY DEF Exclusive
  <1> QED BY <1>1, <1>2, <1>3, InitTypes, PTL DEF Spec

-----------------------------------------------------------------------------
(* What ends stays so: what is taken up, or was found, is pending, and what *)
(* was found is not in use.                                                 *)

Awaited ==
    /\ \A c \in Conns : job[c].stage \in Used => action[job[c].action].status = "Pending"
    /\ \A m \in Monitors : \A a \in monitor[m].batch :
          /\ action[a].status = "Pending"
          /\ \A c \in Conns : job[c].stage \in Used => job[c].action # a

\* Jobs end, and only the row of one that has ended changes its status.
LEMMA AwaitedEnds ==
    ASSUME Awaited, InUse, JobsKept,
           \A m \in Monitors : monitor'[m].batch \subseteq monitor[m].batch \cap Actions,
           NEW C \in SUBSET Conns,
           \A c \in C : job[c].stage \in Used /\ job'[c].stage \notin Used,
           \A a \in Actions : a \notin {job[c].action : c \in C} => action'[a].status = action[a].status,
           \A c \in C, d \in Conns :
              job[d].stage \in Used /\ job[d].action = job[c].action => d = c
    PROVE  Awaited'
  <1>1. \A d \in Conns : job'[d].stage \in Used =>
           job'[d] = job[d] /\ job[d].action \in Actions /\ d \notin C
    BY DEF JobsKept, InUse, Used
  <1>2. ASSUME NEW d \in Conns, job'[d].stage \in Used
        PROVE  action'[job'[d].action].status = "Pending"
    <2>1. job[d].action \notin {job[c].action : c \in C}
      BY <1>1, <1>2
    <2> QED BY <1>1, <1>2, <2>1 DEF Awaited
  <1>3. ASSUME NEW m \in Monitors, NEW a \in monitor'[m].batch
        PROVE  /\ action'[a].status = "Pending"
               /\ \A d \in Conns : job'[d].stage \in Used => job'[d].action # a
    <2>1. /\ a \in Actions /\ action[a].status = "Pending"
          /\ \A d \in Conns : job[d].stage \in Used => job[d].action # a
      BY <1>3 DEF Awaited
    <2>2. a \notin {job[c].action : c \in C}
      BY <2>1
    <2> QED BY <1>1, <2>1, <2>2
  <1> QED BY <1>2, <1>3 DEF Awaited

LEMMA AwaitedNext ==
    ASSUME NEW m, Monitors = {m}, Draining = {}, RoundTime + Timeout < BusyFor,
           TypeOK, InUse, Exclusive, Awaited, [Next]_vars
    PROVE  Awaited'
  <1> USE TimeAssumption
  <1>0. /\ now \in Nat /\ m \in Monitors /\ monitor[m].batch \subseteq Actions
        /\ BusyFor \in Nat /\ Timeout \in Nat /\ RoundTime \in Nat
        /\ \A a \in Actions : action[a] \in Rows /\ action[a].blocked \in Nat
        /\ \A c \in Conns : job[c].since \in Nat /\ job[c].attempts \in Nat
        /\ \A c \in Conns : job[c].stage \in Used => job[c].by = m /\ job[c].action \in Actions
    BY DEF TypeOK, Rows, MonitorStates, Jobs, InUse, Used
  <1>1. \A c, d \in Conns :
           job[c].stage \in Used /\ job[d].stage \in Used /\ job[c].action = job[d].action => c = d
    BY DEF Exclusive, OneCheck, CheckedFree, OneExecutorPerAction, Executes, Used
  <1>2. ASSUME NEW a \in Actions, NEW d \in 0..MaxDelay, Enqueue(a, d)
        PROVE  Awaited'
    <2>1. /\ UNCHANGED <<monitor, job>>
          /\ \A b \in Actions : action[b].status = "Pending" => action'[b].status = "Pending"
      BY <1>2 DEF Enqueue, TypeOK
    <2> QED BY <1>0, <2>1 DEF Awaited
  <1>3. CASE Find(m)
    <2>1. /\ UNCHANGED <<action, job>> /\ monitor'[m].batch \subseteq Due
      BY <1>0, <1>3 DEF Find, TypeOK
    <2>2. \A c \in Conns : job[c].stage \in Used => job[c].stage = "running"
      BY <1>0, <1>3 DEF Find, Exclusive, InRound, Used
    <2>3. \A c \in Conns, a \in Due : job[c].stage \in Used => job[c].action # a
      <3> SUFFICES ASSUME NEW c \in Conns, job[c].stage \in Used, job[c].action \in Due PROVE FALSE
        OBVIOUS
      <3>1. /\ action[job[c].action].blocked > job[c].since + Timeout
            /\ now <= job[c].since + Timeout
        BY <2>2 DEF Exclusive, Blocked, Clocks
      <3>2. action[job[c].action].blocked <= now
        BY DEF Due
      <3> QED BY <1>0, <3>1, <3>2
    <2> QED BY <2>1, <2>3 DEF Awaited, Due
  <1>4. ASSUME NEW a \in Actions, Skip(m, a)
        PROVE  Awaited'
    <2>1. UNCHANGED <<action, job>> /\ monitor'[m].batch \subseteq monitor[m].batch
      BY <1>0, <1>4 DEF Skip, TypeOK, MonitorStates
    <2> QED BY <2>1 DEF Awaited
  <1>5. ASSUME NEW a \in Actions, NEW c \in Conns, Look(m, a, c)
        PROVE  Awaited'
    <2>1. /\ action' = action /\ a \in monitor[m].batch
          /\ monitor'[m].batch = monitor[m].batch \ {a}
      BY <1>0, <1>5 DEF Look, TypeOK, MonitorStates
    <2>2. /\ job'[c].action = a /\ \A d \in Conns \ {c} : job'[d] = job[d]
      BY <1>5 DEF Look, TypeOK
    <2> QED BY <1>0, <2>1, <2>2 DEF Awaited
  <1>6. ASSUME NEW c \in Conns, Take(c)
        PROVE  Awaited'
    <2>1. \A a \in Actions : action'[a].status = action[a].status
      BY <1>6 DEF Take, TypeOK, Rows
    <2>2. job[c].stage = "checking" /\ job[c].by = m
      BY <1>0, <1>6 DEF Take, Used
    <2>3. CASE Halt(m)
      <3>1. \A d \in Conns : job'[d].stage \notin Used
        BY <1>0, <2>3, LeftFields DEF Halt, NoJob, Used
      <3>2. monitor'[m].batch = {}
        BY <1>0, <2>3 DEF Halt, Idle, TypeOK
      <3> QED BY <3>1, <3>2 DEF Awaited
    <2>4. CASE job' = [job EXCEPT ![c].stage = "made"] /\ monitor' = monitor
      <3>1. /\ job'[c].action = job[c].action /\ \A d \in Conns \ {c} : job'[d] = job[d]
        BY <2>4 DEF TypeOK, Jobs
      <3> QED BY <1>0, <2>1, <2>2, <2>4, <3>1 DEF Awaited, Used
    <2> QED BY <1>6, <2>2, <2>3, <2>4 DEF Take
  <1>7. CASE EndRound(m)
    <2>1. /\ action' = action /\ monitor' = [monitor EXCEPT ![m] = Idle]
          /\ job' = [c \in Conns |->
                        IF c \in JobsOf(m) /\ job[c].stage = "made"
                        THEN [job[c] EXCEPT !.stage = "running", !.since = now] ELSE job[c]]
      BY <1>7 DEF EndRound
    <2>2. monitor'[m].batch = {}
      BY <1>0, <2>1 DEF Idle, TypeOK
    <2>3. ASSUME NEW c \in Conns, job'[c].stage \in Used
          PROVE  job[c].stage \in Used /\ job'[c].action = job[c].action
      <3>1. job[c] \in Jobs
        BY DEF TypeOK
      <3>2. CASE job[c].stage = "made" /\ c \in JobsOf(m)
        BY <2>1, <3>1, <3>2, StartedJob DEF Used
      <3>3. CASE ~(job[c].stage = "made" /\ c \in JobsOf(m))
        BY <2>1, <2>3, <3>3
      <3> QED BY <3>2, <3>3
    <2> QED BY <2>1, <2>2, <2>3 DEF Awaited
  <1>8. ASSUME NEW c \in Conns, RunNext(c)
        PROVE  FALSE
    BY <1>0, <1>8 DEF RunNext, Exclusive, InRound, Used
  <1>9. ASSUME NEW c \in Conns, Done(c)
        PROVE  Awaited'
    <2>1. JobsKept /\ job[c].action \in Actions /\ monitor' = monitor
      BY <1>9, EndsKeep DEF Done, StaysOpen, NextRound, InUse
    <2>2. action' = action \/ action' = [action EXCEPT ![job[c].action] = DoneRow(@)]
      BY <1>9 DEF Done, StaysOpen
    <2>3. job[c].stage \in Used /\ job'[c].stage \notin Used
      BY <1>9, LeftFields DEF Done, StaysOpen, NextRound, Without, NoJob, Used, TypeOK
    <2>4. \A a \in Actions : a \notin {job[d].action : d \in {c}} => action'[a].status = action[a].status
      BY <2>1, <2>2 DEF TypeOK
    <2>5. \A n \in Monitors : monitor'[n].batch \subseteq monitor[n].batch \cap Actions
      BY <1>0, <2>1
    <2>6. /\ {c} \in SUBSET Conns
          /\ \A b \in {c} : job[b].stage \in Used /\ job'[b].stage \notin Used
          /\ \A b \in {c}, d \in Conns :
                job[d].stage \in Used /\ job[d].action = job[b].action => d = b
      BY <1>1, <2>3
    <2> QED BY <2>1, <2>4, <2>5, <2>6, AwaitedEnds
  <1>10. ASSUME NEW c \in Conns, Failed(c)
         PROVE  Awaited'
    <2>1. JobsKept /\ job[c].action \in Actions /\ monitor' = monitor
      BY <1>0, <1>10, EndsKeep DEF Failed, StaysOpen, Unsuccessful, InUse
    <2>2. action' = action \/ action' = [action EXCEPT ![job[c].action] = FailedRow(@, job[c].attempts)]
      BY <1>10 DEF Failed, StaysOpen
    <2>3. job[c].stage \in Used /\ job'[c].stage \notin Used
      BY <1>10, LeftFields DEF Failed, StaysOpen, Unsuccessful, Without, NoJob, Used, TypeOK
    <2>4. \A a \in Actions : a \notin {job[d].action : d \in {c}} => action'[a].status = action[a].status
      BY <2>1, <2>2 DEF TypeOK
    <2>5. \A n \in Monitors : monitor'[n].batch \subseteq monitor[n].batch \cap Actions
      BY <1>0, <2>1
    <2>6. /\ {c} \in SUBSET Conns
          /\ \A b \in {c} : job[b].stage \in Used /\ job'[b].stage \notin Used
          /\ \A b \in {c}, d \in Conns :
                job[d].stage \in Used /\ job[d].action = job[b].action => d = b
      BY <1>1, <2>3
    <2> QED BY <2>1, <2>4, <2>5, <2>6, AwaitedEnds
  <1>11. ASSUME NEW c \in Conns, TimedOut(c) \/ Close(c)
         PROVE  Awaited'
    <2>1. JobsKept /\ UNCHANGED <<monitor, action>>
      BY <1>11, EndsKeep DEF TimedOut, Close
    <2> QED BY <1>0, <2>1 DEF JobsKept, Awaited
  <1>12. CASE PoolFails(m) \/ Crash(m)
    <2>1. \A c \in Conns : job'[c].stage \notin Used
      BY <1>0, <1>12, LeftFields DEF PoolFails, Crash, Halt, Without, JobsOf, NoJob, Used
    <2>2. monitor'[m].batch = {}
      BY <1>0, <1>12 DEF PoolFails, Crash, Halt, Idle, TypeOK
    <2> QED BY <2>1, <2>2 DEF Awaited
  <1>13. CASE Tick \/ FindNothing(m) \/ UNCHANGED vars
    <2>1. UNCHANGED <<action, monitor, job>>
      BY <1>13 DEF Tick, FindNothing, vars
    <2> QED BY <2>1 DEF Awaited
  <1> QED
    BY <1>2, <1>3, <1>4, <1>5, <1>6, <1>7, <1>8, <1>9, <1>10, <1>11, <1>12, <1>13
       DEF Next, MonitorStep, JobStep

LEMMA EndedStays ==
    ASSUME TypeOK, InUse, Awaited, [Next]_vars, NEW a \in Actions,
           action[a].status \in {"Success", "RetriesExceeded"}
    PROVE  action'[a].status = action[a].status /\ effects'[a] = effects[a]
  <1>1. ASSUME UNCHANGED <<action, effects>>
        PROVE  action'[a].status = action[a].status /\ effects'[a] = effects[a]
    BY <1>1
  <1>2. ASSUME NEW b \in Actions, NEW d \in 0..MaxDelay, Enqueue(b, d)
        PROVE  action'[a].status = action[a].status /\ effects'[a] = effects[a]
    BY <1>2 DEF Enqueue, TypeOK
  <1>3. ASSUME NEW c \in Conns, Take(c)
        PROVE  action'[a].status = action[a].status /\ effects'[a] = effects[a]
    BY <1>3 DEF Take, TypeOK, Rows
  <1>4. ASSUME NEW c \in Conns, Done(c) \/ Failed(c)
        PROVE  action'[a].status = action[a].status /\ effects'[a] = effects[a]
    <2>1. job[c].action # a
      BY <1>4 DEF Done, Failed, Awaited, Used
    <2>2. \/ UNCHANGED <<action, effects>>
          \/ \E row : action' = [action EXCEPT ![job[c].action] = row] /\ effects' = effects
          \/ \E row, n : /\ action' = [action EXCEPT ![job[c].action] = row]
                         /\ effects' = [effects EXCEPT ![job[c].action] = n]
      BY <1>4 DEF Done, Failed, StaysOpen
    <2> QED BY <2>1, <2>2 DEF TypeOK
  <1>5. ASSUME NEW m \in Monitors, MonitorStep(m) \/ PoolFails(m) \/ Crash(m)
        PROVE  UNCHANGED <<action, effects>>
    BY <1>5 DEF MonitorStep, Find, FindNothing, EndRound, Skip, Look, PoolFails, Crash
  <1>6. ASSUME NEW c \in Conns, RunNext(c) \/ TimedOut(c) \/ Close(c)
        PROVE  UNCHANGED <<action, effects>>
    BY <1>6 DEF RunNext, TimedOut, Close
  <1>7. CASE Tick \/ UNCHANGED vars
    BY <1>1, <1>7 DEF Tick, vars
  <1> QED BY <1>1, <1>2, <1>3, <1>4, <1>5, <1>6, <1>7 DEF Next, JobStep

\* Of a single server with such rounds: an action that has succeeded or was given
\* up keeps its status and has no more effects, whatever times out or crashes.
THEOREM EndedStaysEnded ==
    ASSUME NEW m, Monitors = {m}, Draining = {}, RoundTime + Timeout < BusyFor
    PROVE  Spec => EndedIsFinal
  <1>1. Init => Exclusive /\ Awaited
    BY DEF Init, Idle, NoJob, Exclusive, Known, InRound, Clocks, Blocked, OneCheck, CheckedFree,
           OneExecutorPerAction, Executes, Used, Awaited
  <1>2. TypeOK /\ InUse /\ Exclusive /\ Awaited /\ [Next]_vars
        => TypeOK' /\ InUse' /\ Exclusive' /\ Awaited'
    BY NextTypes, ExclusiveNext, AwaitedNext
  <1>3. TypeOK /\ InUse /\ Awaited /\ [Next]_vars
        => [\A a \in Actions :
               action[a].status \in {"Success", "RetriesExceeded"} =>
                   action'[a].status = action[a].status /\ effects'[a] = effects[a]]_vars
    BY EndedStays
  <1> QED BY <1>1, <1>2, <1>3, InitTypes, PTL DEF Spec, EndedIsFinal
=============================================================================
