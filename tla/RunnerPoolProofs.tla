-------------------------- MODULE RunnerPoolProofs --------------------------
(***************************************************************************)
(* What RunnerPool guarantees for every number of tasks, every pool size   *)
(* and every choice of events, checked by TLAPS.                           *)
(***************************************************************************)
EXTENDS RunnerPool, FiniteSetTheorems, SequenceTheorems, TLAPS

USE PoolAssumption

(* A coroutine runs a task.                                                *)
LEMMA JobType == \A w \in Worker : Job(w) \in Task
  BY DEF Worker, Job

(* The coroutine that spawning a task gives it is one of that task.        *)
LEMMA FreshType ==
  ASSUME NEW t \in Task, CanSpawn(t)
  PROVE  /\ Fresh(t) \in Worker
         /\ Job(Fresh(t)) = t
         /\ pc[Fresh(t)] = "idle"
  BY DEF CanSpawn, Fresh, Worker, Job

(* Every slot is free or held, and finitely many are held: with TypeOK,    *)
(* this is inductive.                                                      *)
SlotInv == IsFiniteSet(Holders) /\ SlotAccounting

(* A coroutine that moves between two awaits outside, or two awaits inside *)
(* of its slot leaves the accounts as they are.                            *)
LEMMA SlotSameHolders ==
  ASSUME SlotInv, free' = free, Holders' = Holders
  PROVE  SlotInv'
  BY DEF SlotInv, SlotAccounting

LEMMA GotoHolders ==
  ASSUME TypeOK, NEW w \in Worker, NEW l \in PC, Goto(w, l)
  PROVE  /\ pc' \in [Worker -> PC]
         /\ l \in Holding => Holders' = Holders \union {w}
         /\ l \notin Holding => Holders' = Holders \ {w}
  BY DEF TypeOK, Goto, Holders

(* The tasks a drain starts are unscheduled tasks it has read, finitely many. *)
LEMMA ToStartType ==
  ASSUME TypeOK, NEW w \in Worker
  PROVE  /\ ToStart(w) \subseteq {t \in Task : t \in seen[w] /\ t \notin scheduled}
         /\ Cardinality(ToStart(w)) \in Nat
<1>1. ToStart(w) \subseteq {t \in Task : t \in seen[w] /\ t \notin scheduled}
  BY DEF ToStart, FirstOf, TypeOK
<1>2. IsFiniteSet(Task)
  BY FS_Interval DEF Task
<1>3. IsFiniteSet(ToStart(w))
  BY <1>1, <1>2, FS_Subset
<1>4. QED
  BY <1>1, <1>3, FS_CardinalityType

(* The slot invariant survives every step.                                 *)
LEMMA SlotStep ==
  ASSUME TypeOK, SlotInv, [Next]_vars
  PROVE  SlotInv'
<1> USE DEF Holding, Boxed, Live, Draining, PC
<1>1. ASSUME NEW w \in Worker, Acquire(w)
      PROVE  SlotInv'
  <2>1. w \notin Holders /\ Holders' = Holders \union {w}
    BY <1>1, GotoHolders DEF Acquire, Holders
  <2>2. free' = free - 1 /\ free \in Nat
    BY <1>1 DEF Acquire, SlotFree, TypeOK
  <2>3. IsFiniteSet(Holders) /\ Cardinality(Holders) \in Nat
    BY FS_CardinalityType DEF SlotInv
  <2>4. /\ IsFiniteSet(Holders \union {w})
        /\ Cardinality(Holders \union {w}) = Cardinality(Holders) + 1
    BY <2>1, <2>3, FS_AddElement
  <2>5. QED
    BY <2>1, <2>2, <2>3, <2>4 DEF SlotInv, SlotAccounting
<1>2. ASSUME NEW w \in Worker, Release(w)
      PROVE  SlotInv'
  <2>1. w \in Holders /\ Holders' = Holders \ {w}
    BY <1>2, GotoHolders DEF Release, Holders
  <2>2. free' = free + 1 /\ free \in Nat
    BY <1>2 DEF Release, TypeOK
  <2>3. IsFiniteSet(Holders) /\ Cardinality(Holders) \in Nat
    BY FS_CardinalityType DEF SlotInv
  <2>4. /\ IsFiniteSet(Holders \ {w})
        /\ Cardinality(Holders \ {w}) = Cardinality(Holders) - 1
    BY <2>1, <2>3, FS_RemoveElement
  <2>5. QED
    BY <2>1, <2>2, <2>3, <2>4 DEF SlotInv, SlotAccounting
<1>3. ASSUME NEW w \in Worker,
             \/ Fetch(w) \/ Prepare(w) \/ CreateContainer(w) \/ RecordContainer(w)
             \/ Boot(w) \/ MarkRunning(w) \/ SwitchNetwork(w) \/ Collect(w)
             \/ WaitTimeout(w) \/ HandleException(w) \/ RemoveContainer(w)
      PROVE  SlotInv'
  <2>1. free' = free /\ w \in Holders /\ \E l \in Holding : Goto(w, l)
    BY <1>3 DEF Fetch, Prepare, CreateContainer, RecordContainer, Boot, MarkRunning,
                SwitchNetwork, Collect, WaitTimeout, HandleException,
                RemoveContainer, Holders
  <2>2. Holders' = Holders
    BY <2>1, GotoHolders
  <2>3. QED
    BY <2>1, <2>2, SlotSameHolders
<1>4. ASSUME NEW w \in Worker, DrainCount(w) \/ DrainList(w)
      PROVE  SlotInv'
  <2>1. free' = free /\ w \notin Holders /\ \E l \in {"idle", "list", "pick"} : Goto(w, l)
    BY <1>4 DEF DrainCount, DrainList, Holders
  <2>2. Holders' = Holders
    BY <2>1, GotoHolders
  <2>3. QED
    BY <2>1, <2>2, SlotSameHolders
<1>5. ASSUME NEW w \in Worker, DrainPick(w)
      PROVE  SlotInv'
  <2>1. \A t \in ToStart(w) : Fresh(t) \in Worker /\ pc[Fresh(t)] = "idle"
    BY <1>5, ToStartType, FreshType DEF DrainPick
  <2>2. \A v \in Worker : pc'[v] \in Holding <=> pc[v] \in Holding
    BY <1>5, <2>1 DEF DrainPick
  <2>3. free' = free /\ Holders' = Holders
    BY <1>5, <2>2 DEF DrainPick, Holders
  <2>4. QED
    BY <2>3, SlotSameHolders
<1>6. ASSUME NEW t \in Task, Submit(t)
      PROVE  SlotInv'
  <2>1. CASE UNCHANGED poolVars
    BY <2>1, SlotSameHolders DEF poolVars, Holders
  <2>2. CASE CanSpawn(t) /\ Goto(Fresh(t), "acquire") /\ free' = free
    <3>1. Fresh(t) \notin Holders
      BY <2>2, FreshType DEF Holders
    <3>2. QED
      BY <2>2, <3>1, FreshType, GotoHolders, SlotSameHolders
  <2>3. QED
    BY <1>6, <2>1, <2>2 DEF Submit
<1>7. ASSUME Crash
      PROVE  SlotInv'
  <2>1. Holders' = {} /\ free' = MaxConcurrent
    BY <1>7 DEF Crash, Holders
  <2>2. QED
    BY <2>1, FS_EmptySet DEF SlotInv, SlotAccounting
<1>8. ASSUME UNCHANGED poolVars
      PROVE  SlotInv'
  BY <1>8, SlotSameHolders DEF poolVars, Holders
<1>9. CASE \E t \in Task : CreateTask(t) \/ AbandonCreate(t)
  BY <1>9, <1>8 DEF CreateTask, AbandonCreate
<1>10. CASE \E t \in Task : \/ ContainerExit(t) \/ CancelRead(t) \/ CancelKill(t)
                            \/ CancelWrite(t) \/ DeleteRead(t) \/ DeleteRow(t)
  BY <1>10, <1>8 DEF ContainerExit, CancelRead, CancelKill, CancelWrite, DeleteRead,
                     DeleteRow
<1>11. CASE StartServing \/ \E t \in Task : RecoverOrphan(t)
  BY <1>11, <1>8 DEF StartServing, RecoverOrphan
<1>12. CASE UNCHANGED vars
  BY <1>12, <1>8 DEF vars
<1>13. QED
  BY <1>1, <1>2, <1>3, <1>4, <1>5, <1>6, <1>7, <1>9, <1>10, <1>11, <1>12
     DEF Next, ServerStep, WorkerStep, Restart

-----------------------------------------------------------------------------
(* A step inside a slot, or from the queue into it, keeps the coroutine    *)
(* alive: such steps leave _scheduled and the set of live coroutines alone. *)
LEMMA GotoLive ==
  ASSUME TypeOK, NEW w \in Worker, NEW l \in PC, Goto(w, l)
  PROVE  /\ l \in Live => LiveWorkers' = LiveWorkers \union {w}
         /\ l \notin Live => LiveWorkers' = LiveWorkers \ {w}
  BY DEF TypeOK, Goto, LiveWorkers

(* Double-schedule prevention survives every step.                         *)
LEMMA ScheduleStep ==
  ASSUME TypeOK, NoDoubleSchedule, [Next]_vars
  PROVE  NoDoubleSchedule'
<1> USE DEF Holding, Boxed, Live, Draining, PC
<1>0. LiveWorkers' = LiveWorkers /\ scheduled' = scheduled => NoDoubleSchedule'
  BY DEF NoDoubleSchedule
<1>1. ASSUME NEW w \in Worker,
             \/ Acquire(w) \/ Fetch(w) \/ Prepare(w) \/ CreateContainer(w)
             \/ RecordContainer(w) \/ Boot(w) \/ MarkRunning(w) \/ SwitchNetwork(w)
             \/ Collect(w) \/ WaitTimeout(w) \/ HandleException(w) \/ RemoveContainer(w)
      PROVE  NoDoubleSchedule'
  <2>1. scheduled' = scheduled /\ w \in LiveWorkers /\ \E l \in Live : Goto(w, l)
    BY <1>1 DEF Acquire, Fetch, Prepare, CreateContainer, RecordContainer, Boot,
                MarkRunning, SwitchNetwork, Collect, WaitTimeout, HandleException,
                RemoveContainer, LiveWorkers
  <2>2. LiveWorkers' = LiveWorkers
    BY <2>1, GotoLive
  <2>3. QED
    BY <2>1, <2>2, <1>0
<1>2. ASSUME NEW w \in Worker, Release(w)
      PROVE  NoDoubleSchedule'
  <2>1. w \in LiveWorkers /\ LiveWorkers' = LiveWorkers \ {w}
    BY <1>2, GotoLive DEF Release, LiveWorkers
  <2>2. scheduled' = scheduled \ {Job(w)}
    BY <1>2 DEF Release
  <2>3. QED
    BY <2>1, <2>2 DEF NoDoubleSchedule
<1>3. ASSUME NEW w \in Worker, DrainCount(w) \/ DrainList(w)
      PROVE  NoDoubleSchedule'
  <2>1. scheduled' = scheduled /\ w \notin LiveWorkers /\ \E l \in {"idle", "list", "pick"} : Goto(w, l)
    BY <1>3 DEF DrainCount, DrainList, LiveWorkers
  <2>2. LiveWorkers' = LiveWorkers
    BY <2>1, GotoLive
  <2>3. QED
    BY <2>1, <2>2, <1>0
<1>4. ASSUME NEW w \in Worker, DrainPick(w)
      PROVE  NoDoubleSchedule'
  <2> DEFINE new == {Fresh(t) : t \in ToStart(w)}
  <2>1. \A t \in ToStart(w) : /\ t \in Task \ scheduled
                              /\ Fresh(t) \in Worker
                              /\ Job(Fresh(t)) = t
                              /\ pc[Fresh(t)] = "idle"
    BY <1>4, FreshType, ToStartType DEF DrainPick
  <2>2. LiveWorkers' = LiveWorkers \union new
    BY <1>4, <2>1 DEF DrainPick, LiveWorkers
  <2>3. scheduled' = scheduled \union ToStart(w)
    BY <1>4 DEF DrainPick, Spawn, InDrainOrder
  <2>4. \A v \in new : Job(v) \in ToStart(w) /\ v = Fresh(Job(v))
    BY <2>1
  <2>5. {Job(v) : v \in LiveWorkers \union new}
          = {Job(v) : v \in LiveWorkers} \union ToStart(w)
    BY <2>1, <2>4
  <2>6. ASSUME NEW u \in LiveWorkers \union new, NEW v \in LiveWorkers \union new,
               Job(u) = Job(v)
        PROVE  u = v
    BY <2>1, <2>4, <2>6 DEF NoDoubleSchedule
  <2>7. QED
    BY <2>2, <2>3, <2>5, <2>6 DEF NoDoubleSchedule
<1>5. ASSUME NEW t \in Task, Submit(t)
      PROVE  NoDoubleSchedule'
  <2>1. CASE UNCHANGED poolVars
    BY <2>1, <1>0 DEF poolVars, LiveWorkers
  <2>2. CASE /\ t \notin scheduled /\ CanSpawn(t) /\ Spawn(<<t>>)
             /\ Goto(Fresh(t), "acquire")
    <3>1. Fresh(t) \in Worker /\ Job(Fresh(t)) = t
      BY <2>2, FreshType
    <3>2. LiveWorkers' = LiveWorkers \union {Fresh(t)}
      BY <2>2, <3>1, GotoLive
    <3>3. scheduled' = scheduled \union {t}
      BY <2>2 DEF Spawn
    <3>4. QED
      BY <2>2, <3>1, <3>2, <3>3 DEF NoDoubleSchedule
  <2>3. QED
    BY <1>5, <2>1, <2>2 DEF Submit
<1>6. ASSUME Crash
      PROVE  NoDoubleSchedule'
  BY <1>6 DEF Crash, NoDoubleSchedule, LiveWorkers
<1>7. ASSUME UNCHANGED poolVars
      PROVE  NoDoubleSchedule'
  BY <1>7, <1>0 DEF poolVars, LiveWorkers
<1>8. CASE \E t \in Task : CreateTask(t) \/ AbandonCreate(t)
  BY <1>8, <1>7 DEF CreateTask, AbandonCreate
<1>9. CASE \E t \in Task : \/ ContainerExit(t) \/ CancelRead(t) \/ CancelKill(t)
                           \/ CancelWrite(t) \/ DeleteRead(t) \/ DeleteRow(t)
  BY <1>9, <1>7 DEF ContainerExit, CancelRead, CancelKill, CancelWrite, DeleteRead,
                    DeleteRow
<1>10. CASE StartServing \/ \E t \in Task : RecoverOrphan(t)
  BY <1>10, <1>7 DEF StartServing, RecoverOrphan
<1>11. CASE UNCHANGED vars
  BY <1>11, <1>7 DEF vars
<1>12. QED
  BY <1>1, <1>2, <1>3, <1>4, <1>5, <1>6, <1>8, <1>9, <1>10, <1>11
     DEF Next, ServerStep, WorkerStep, Restart

-----------------------------------------------------------------------------
(* While the server boots it has no coroutine and no handler.              *)
BootIdle ==
  mode = "boot" => /\ \A w \in Worker : pc[w] = "idle"
                   /\ submitting = {}

(* A coroutine that may still write a status unconditionally works on a    *)
(* row without an outcome.                                                 *)
Writing == {"prepare", "create", "record", "boot", "mark", "switch", "wait"}

WritesBeforeOutcome ==
  \A w \in Worker : pc[w] \in Writing => status[Job(w)] \notin Outcome

(* The tasks that some drain has read as queued and not yet dealt with.    *)
Seen == UNION {seen[w] : w \in Worker}

(* A scheduled task has a row, or had one; so has one a drain has read.    *)
Created == \A t \in scheduled \union submitting \union Seen : status[t] # "none"

(* A task that was started is not queued again, and is in setup only while *)
(* its coroutine has the container, or for ever without one (the row of a  *)
(* failed recovery).  So the status check of Fetch never lets it through.  *)
Starting == Boxed \ {"clean"}

StartedNotQueued ==
  /\ \A t \in Task : status[t] \in {"none", "queued"} => starts[t] = 0
  /\ \A w \in Worker : pc[w] \in {"create"} \union Boxed => status[Job(w)] # "queued"

NotYetStarted ==
  \A w \in Worker : pc[w] \in {"prepare", "create"} => starts[Job(w)] = 0

StartedInSetup ==
  \A t \in Task : starts[t] > 0 /\ status[t] = "setup" =>
    \/ \E w \in Worker : Job(w) = t /\ pc[w] \in Starting
    \/ t \notin scheduled /\ t \notin submitting /\ t \notin Seen

StartInv == RunsAtMostOnce /\ StartedNotQueued /\ NotYetStarted /\ StartedInSetup

(* The inductive invariant of the pool.                                    *)
IInv ==
  /\ TypeOK
  /\ SlotInv
  /\ NoDoubleSchedule
  /\ BootIdle
  /\ WritesBeforeOutcome
  /\ Created
  /\ StartInv

-----------------------------------------------------------------------------
(* Types survive every step; that a release does not overfill the          *)
(* semaphore needs the slot invariant.                                     *)
LEMMA SetStatusType ==
  ASSUME TypeOK, NEW t \in Task, NEW s \in Status, NEW expected,
         SetStatus(t, s) \/ SetStatusIf(t, expected, s)
  PROVE  /\ status' \in [Task -> Status]
         /\ \A u \in Task : status'[u] = status[u] \/ (u = t /\ status'[u] = s)
  BY DEF TypeOK, SetStatus, SetStatusIf

LEMMA ReleaseBound ==
  ASSUME TypeOK, SlotInv, NEW w \in Worker, pc[w] = "release"
  PROVE  free + 1 \in 0..MaxConcurrent
<1>1. w \in Holders /\ free \in Nat
  BY DEF Holders, Holding, TypeOK
<1>2. Cardinality(Holders) \in Nat /\ Cardinality(Holders \ {w}) \in Nat
  BY FS_CardinalityType, FS_RemoveElement DEF SlotInv
<1>3. Cardinality(Holders \ {w}) = Cardinality(Holders) - 1
  BY <1>1, FS_RemoveElement DEF SlotInv
<1>4. QED
  BY <1>1, <1>2, <1>3 DEF SlotInv, SlotAccounting

LEMMA TypeStep ==
  ASSUME TypeOK, SlotInv, [Next]_vars
  PROVE  TypeOK'
<1> USE DEF rowVars, poolVars, handlerVars, historyVars
<1>0. /\ {"idle"} \union Live \union Draining = PC
      /\ Cancellable \union Outcome \union {"cancelled", "deleted"} \subseteq Status
  BY DEF PC, Status
<1>1. ASSUME NEW w \in Worker,
             \/ Fetch(w) \/ Prepare(w) \/ CreateContainer(w) \/ RecordContainer(w)
             \/ Boot(w) \/ MarkRunning(w) \/ SwitchNetwork(w) \/ Collect(w)
             \/ WaitTimeout(w) \/ HandleException(w) \/ RemoveContainer(w)
      PROVE  TypeOK'
  <2>1. Job(w) \in Task
    BY JobType
  <2>2. pc' \in [Worker -> PC]
    BY <1>1 DEF Fetch, Prepare, CreateContainer, RecordContainer, Boot, MarkRunning,
                SwitchNetwork, Collect, WaitTimeout, HandleException,
                RemoveContainer, Goto, TypeOK, PC, Live, Holding, Boxed
  <2>3. status' \in [Task -> Status]
    <3>1. CASE \/ Fetch(w) \/ CreateContainer(w) \/ RecordContainer(w) \/ Boot(w)
               \/ SwitchNetwork(w) \/ WaitTimeout(w) \/ RemoveContainer(w)
      BY <3>1 DEF Fetch, CreateContainer, RecordContainer, Boot, SwitchNetwork,
                  WaitTimeout, RemoveContainer, TypeOK
    <3>2. CASE Prepare(w) \/ MarkRunning(w) \/ Collect(w) \/ HandleException(w)
      <4>1. \/ UNCHANGED status
            \/ \E s \in Status, e \in {Active, Cancellable} :
                  SetStatus(Job(w), s) \/ SetStatusIf(Job(w), e, s)
        BY <3>2 DEF Prepare, MarkRunning, Collect, HandleException, Status,
                    Cancellable, Outcome
      <4>2. QED
        BY <4>1, <2>1, SetStatusType DEF TypeOK
    <3>3. QED
      BY <1>1, <3>1, <3>2
  <2>4. cid' \in [Task -> BOOLEAN]
    <3>1. (cid[Job(w)] \/ Row(Job(w))) \in BOOLEAN
      OBVIOUS
    <3>2. CASE RecordContainer(w)
      BY <3>1, <3>2, <2>1 DEF RecordContainer, TypeOK
    <3>3. CASE ~RecordContainer(w)
      BY <1>1, <3>3
         DEF Fetch, Prepare, CreateContainer, Boot, MarkRunning, SwitchNetwork,
             Collect, WaitTimeout, HandleException, RemoveContainer, TypeOK
    <3>4. QED
      BY <3>2, <3>3
  <2>5. box' \in [Task -> {"none", "up", "dead"}] /\ starts' \in [Task -> Nat]
    <3>1. CASE CreateContainer(w)
      <4>1. starts[Job(w)] + 1 \in Nat
        BY <2>1 DEF TypeOK
      <4>2. CASE UNCHANGED <<box, starts>>
        BY <4>2 DEF TypeOK
      <4>3. CASE /\ box' = [box EXCEPT ![Job(w)] = "up"]
                 /\ starts' = [starts EXCEPT ![Job(w)] = @ + 1]
        BY <4>1, <4>3 DEF TypeOK
      <4>4. QED
        BY <3>1, <4>2, <4>3 DEF CreateContainer
    <3>2. CASE RemoveContainer(w)
      BY <3>2, <2>1 DEF RemoveContainer, TypeOK
    <3>3. CASE ~CreateContainer(w) /\ ~RemoveContainer(w)
      BY <1>1, <3>3
         DEF Fetch, Prepare, RecordContainer, Boot, MarkRunning, SwitchNetwork,
             Collect, WaitTimeout, HandleException, TypeOK
    <3>4. QED
      BY <3>1, <3>2, <3>3
  <2>6. UNCHANGED <<mode, avail, seen, scheduled, free, waiters, handlerVars, crashes>>
    BY <1>1
       DEF Fetch, Prepare, CreateContainer, RecordContainer, Boot, MarkRunning,
           SwitchNetwork, Collect, WaitTimeout, HandleException, RemoveContainer
  <2>7. QED
    BY <2>2, <2>3, <2>4, <2>5, <2>6 DEF TypeOK
<1>2. ASSUME NEW w \in Worker, Acquire(w)
      PROVE  TypeOK'
  BY <1>2 DEF Acquire, SlotFree, Goto, TypeOK, PC, Live, Holding
<1>3. ASSUME NEW w \in Worker, Release(w)
      PROVE  TypeOK'
  BY <1>3, ReleaseBound DEF Release, Goto, TypeOK, PC, Draining
<1>4. ASSUME NEW w \in Worker, DrainCount(w)
      PROVE  TypeOK'
  <2>1. ActiveCount \in Nat
    <3>1. IsFiniteSet(Task)
      BY FS_Interval DEF Task
    <3>2. IsFiniteSet({t \in Task : status[t] \in Active})
      BY <3>1, FS_Subset
    <3>3. QED
      BY <3>2, FS_CardinalityType DEF ActiveCount
  <2>2. ActiveCount < MaxConcurrent => MaxConcurrent - ActiveCount \in 0..MaxConcurrent
    BY <2>1
  <2>3. QED
    BY <1>4, <2>2 DEF DrainCount, Goto, TypeOK, PC, Draining
<1>16. ASSUME NEW w \in Worker, DrainList(w)
       PROVE  TypeOK'
  <2>1. seen' \in [Worker -> SUBSET Task]
    BY <1>16 DEF DrainList, TypeOK
  <2>2. QED
    BY <1>16, <2>1 DEF DrainList, Goto, TypeOK, PC, Draining
<1>5. ASSUME NEW w \in Worker, DrainPick(w)
      PROVE  TypeOK'
  <2>1. ToStart(w) \subseteq Task \ scheduled /\ Cardinality(ToStart(w)) \in Nat
    BY ToStartType
  <2>2. \A t \in ToStart(w) : Fresh(t) \in Worker
    BY <1>5, <2>1, FreshType DEF DrainPick
  <2>3. PICK q \in [1..Cardinality(ToStart(w)) -> ToStart(w)] : Spawn(q)
    BY <1>5 DEF DrainPick
  <2>4. [i \in DOMAIN q |-> Fresh(q[i])] \in Seq(Worker)
    BY <2>1, <2>2
  <2>5. waiters' \in Seq(Worker) /\ scheduled' \subseteq Task
    BY <2>1, <2>3, <2>4 DEF Spawn, TypeOK
  <2>6. /\ pc' \in [Worker -> PC] /\ avail' \in [Worker -> 0..MaxConcurrent]
        /\ seen' \in [Worker -> SUBSET Task]
    BY <1>5 DEF DrainPick, TypeOK, PC, Live
  <2>7. UNCHANGED <<rowVars, box, mode, free, handlerVars, historyVars>>
    BY <1>5 DEF DrainPick
  <2>8. QED
    BY <2>5, <2>6, <2>7 DEF TypeOK
<1>6. ASSUME NEW t \in Task, Submit(t)
      PROVE  TypeOK'
  <2>1. CASE UNCHANGED poolVars
    BY <1>6, <2>1 DEF Submit, TypeOK
  <2>2. CASE /\ CanSpawn(t) /\ Spawn(<<t>>) /\ Goto(Fresh(t), "acquire")
             /\ UNCHANGED <<avail, seen, free>>
    <3>1. Fresh(t) \in Worker
      BY <2>2, FreshType
    <3>2. waiters' \in Seq(Worker) /\ scheduled' \subseteq Task
      BY <2>2, <3>1 DEF Spawn, TypeOK
    <3>3. pc' \in [Worker -> PC]
      BY <2>2, <3>1 DEF Goto, TypeOK, PC, Live
    <3>4. QED
      BY <1>6, <2>2, <3>2, <3>3 DEF Submit, TypeOK
  <2>3. QED
    BY <1>6, <2>1, <2>2 DEF Submit
<1>7. ASSUME NEW t \in Task, CreateTask(t) \/ AbandonCreate(t)
      PROVE  TypeOK'
  BY <1>7 DEF CreateTask, AbandonCreate, TypeOK, Status, Cancellable
<1>8. ASSUME NEW t \in Task, ContainerExit(t) \/ CancelRead(t) \/ CancelKill(t)
      PROVE  TypeOK'
  BY <1>8 DEF ContainerExit, CancelRead, CancelKill, TypeOK
<1>9. ASSUME NEW t \in Task, CancelWrite(t)
      PROVE  TypeOK'
  <2>1. status' \in [Task -> Status]
    BY <1>9, <1>0, SetStatusType DEF CancelWrite
  <2>2. QED
    BY <1>9, <2>1 DEF CancelWrite, TypeOK
<1>10. ASSUME NEW t \in Task, DeleteRead(t) \/ DeleteRow(t)
      PROVE  TypeOK'
  BY <1>10 DEF DeleteRead, DeleteRow, TypeOK, Status
<1>11. ASSUME Crash
      PROVE  TypeOK'
  BY <1>11 DEF Crash, TypeOK, PC
<1>12. ASSUME NEW t \in Task, RecoverOrphan(t)
      PROVE  TypeOK'
  BY <1>12 DEF RecoverOrphan, TypeOK, Status, Outcome
<1>13. ASSUME StartServing
      PROVE  TypeOK'
  BY <1>13 DEF StartServing, TypeOK
<1>14. CASE UNCHANGED vars
  BY <1>14 DEF vars, TypeOK
<1>15. QED
  BY <1>1, <1>2, <1>3, <1>4, <1>5, <1>6, <1>7, <1>8, <1>9, <1>10, <1>11, <1>12,
     <1>13, <1>14, <1>16 DEF Next, ServerStep, WorkerStep, Restart

-----------------------------------------------------------------------------
(* Facts every step of a coroutine, a client or a restart shares.          *)
LEMMA BootStep ==
  ASSUME TypeOK, BootIdle, [Next]_vars
  PROVE  BootIdle'
<1>1. ASSUME NEW w \in Worker, WorkerStep(w)
      PROVE  BootIdle'
  <2>1. pc[w] # "idle" /\ mode' = mode
    BY <1>1 DEF WorkerStep, Acquire, Fetch, Prepare, CreateContainer, RecordContainer,
                Boot, MarkRunning, SwitchNetwork, Collect, WaitTimeout,
                HandleException, RemoveContainer, Release, DrainCount, DrainList, DrainPick
  <2>2. QED
    BY <2>1 DEF BootIdle
<1>2. ASSUME NEW t \in Task, Submit(t)
      PROVE  BootIdle'
  BY <1>2 DEF Submit, BootIdle
<1>3. ASSUME NEW t \in Task, CreateTask(t) \/ AbandonCreate(t)
      PROVE  BootIdle'
  BY <1>3 DEF CreateTask, AbandonCreate, BootIdle, poolVars
<1>4. ASSUME NEW t \in Task,
             \/ ContainerExit(t) \/ CancelRead(t) \/ CancelKill(t) \/ CancelWrite(t)
             \/ DeleteRead(t) \/ DeleteRow(t) \/ RecoverOrphan(t)
      PROVE  BootIdle'
  <2>1. UNCHANGED <<pc, submitting, mode>>
    BY <1>4 DEF ContainerExit, CancelRead, CancelKill, CancelWrite, DeleteRead,
                DeleteRow, RecoverOrphan, poolVars, handlerVars
  <2>2. QED
    BY <2>1 DEF BootIdle
<1>5. CASE StartServing
  BY <1>5 DEF StartServing, BootIdle
<1>6. CASE Crash
  BY <1>6 DEF Crash, BootIdle
<1>7. CASE UNCHANGED vars
  BY <1>7 DEF vars, BootIdle, poolVars, handlerVars
<1>8. QED
  BY <1>1, <1>2, <1>3, <1>4, <1>5, <1>6, <1>7 DEF Next, ServerStep, Restart

(* Two coroutines past the spawn never share a task, so a status write of  *)
(* one is seen by no other coroutine of that task.                         *)
LEMMA SoleWorker ==
  ASSUME NoDoubleSchedule, NEW v \in Worker, NEW w \in Worker,
         pc[v] \in Live, pc[w] \in Live, Job(v) = Job(w)
  PROVE  v = w
  BY DEF NoDoubleSchedule, LiveWorkers

(* The statuses a step may give a task that has no outcome.                *)
LEMMA OutcomeWriter ==
  ASSUME TypeOK, [Next]_vars, NEW t \in Task,
         status[t] \notin Outcome, status'[t] \in Outcome
  PROVE  \/ \E w \in Worker : /\ Job(w) = t
                              /\ pc[w] \in {"wait", "except"}
                              /\ pc' = [pc EXCEPT ![w] = "clean"]
         \/ mode = "boot" /\ pc' = pc
<1> USE DEF Outcome
<1>1. ASSUME NEW w \in Worker, WorkerStep(w), status' # status
      PROVE  \/ /\ pc[w] \in {"prepare", "mark"}
                /\ \A u \in Task : status'[u] = status[u] \/ status'[u] \in Active
             \/ /\ pc[w] \in {"wait", "except"}
                /\ pc' = [pc EXCEPT ![w] = "clean"]
                /\ \A u \in Task : status'[u] = status[u] \/ u = Job(w)
  <2>1. CASE Prepare(w) \/ MarkRunning(w)
    BY <2>1, <1>1, JobType DEF Prepare, MarkRunning, SetStatus, Active, TypeOK
  <2>2. CASE Collect(w)
    BY <2>2, JobType DEF Collect, SetStatus, SetStatusIf, Goto, TypeOK
  <2>3. CASE HandleException(w)
    BY <2>3, JobType DEF HandleException, SetStatusIf, Goto, TypeOK
  <2>4. CASE ~(Prepare(w) \/ MarkRunning(w) \/ Collect(w) \/ HandleException(w))
    BY <2>4, <1>1 DEF WorkerStep, Acquire, Fetch, CreateContainer, RecordContainer,
                      Boot, SwitchNetwork, WaitTimeout, RemoveContainer, Release,
                      DrainCount, DrainList, DrainPick, rowVars
  <2>5. QED
    BY <2>1, <2>2, <2>3, <2>4
<1>2. ASSUME NEW w \in Worker, WorkerStep(w)
      PROVE  \E v \in Worker : /\ Job(v) = t
                               /\ pc[v] \in {"wait", "except"}
                               /\ pc' = [pc EXCEPT ![v] = "clean"]
  BY <1>2, <1>1 DEF Active
<1>3. ASSUME NEW u \in Task, CreateTask(u) \/ CancelWrite(u) \/ DeleteRow(u)
      PROVE  FALSE
  BY <1>3 DEF CreateTask, CancelWrite, DeleteRow, SetStatusIf, TypeOK
<1>4. ASSUME NEW u \in Task, RecoverOrphan(u)
      PROVE  mode = "boot" /\ pc' = pc
  BY <1>4 DEF RecoverOrphan, poolVars
<1>5. ASSUME NEW u \in Task,
             \/ AbandonCreate(u) \/ Submit(u) \/ ContainerExit(u) \/ CancelRead(u)
             \/ CancelKill(u) \/ DeleteRead(u)
      PROVE  FALSE
  BY <1>5 DEF AbandonCreate, Submit, ContainerExit, CancelRead, CancelKill, DeleteRead,
              rowVars
<1>6. CASE Crash \/ StartServing \/ UNCHANGED vars
  BY <1>6 DEF Crash, StartServing, vars, rowVars
<1>7. QED
  BY <1>2, <1>3, <1>4, <1>5, <1>6 DEF Next, ServerStep, Restart

(* A coroutine inside its slot is moved by its own steps and by a crash.   *)
LEMMA OwnSteps ==
  ASSUME TypeOK, [Next]_vars, NEW w \in Worker,
         pc[w] \in Holding \/ pc'[w] \in Holding
  PROVE  pc'[w] = pc[w] \/ WorkerStep(w) \/ Crash
<1> USE DEF Holding, Boxed
<1>1. ASSUME NEW v \in Worker, WorkerStep(v), v # w
      PROVE  pc'[w] = pc[w]
  <2>1. CASE DrainPick(v)
    <3>1. \A t \in ToStart(v) : pc[Fresh(t)] = "idle"
      BY <2>1, FreshType, ToStartType DEF DrainPick
    <3>2. QED
      BY <2>1, <3>1, <1>1 DEF DrainPick
  <2>2. CASE ~DrainPick(v)
    <3>1. \E l \in PC : Goto(v, l)
      BY <2>2, <1>1 DEF WorkerStep, Acquire, Fetch, Prepare, CreateContainer,
                        RecordContainer, Boot, MarkRunning, SwitchNetwork, Collect,
                        WaitTimeout, HandleException, RemoveContainer, Release,
                        DrainCount, DrainList, PC, Live, Draining
    <3>2. QED
      BY <3>1, <1>1 DEF Goto, TypeOK
  <2>3. QED
    BY <2>1, <2>2
<1>2. ASSUME NEW t \in Task, Submit(t)
      PROVE  pc'[w] = pc[w]
  <2>1. CASE UNCHANGED poolVars
    BY <2>1 DEF poolVars
  <2>2. CASE CanSpawn(t) /\ Goto(Fresh(t), "acquire")
    BY <2>2, FreshType DEF Goto, TypeOK
  <2>3. QED
    BY <1>2, <2>1, <2>2 DEF Submit
<1>3. ASSUME NEW t \in Task,
             \/ CreateTask(t) \/ AbandonCreate(t) \/ ContainerExit(t) \/ CancelRead(t)
             \/ CancelKill(t) \/ CancelWrite(t) \/ DeleteRead(t) \/ DeleteRow(t)
             \/ RecoverOrphan(t)
      PROVE  pc'[w] = pc[w]
  BY <1>3 DEF CreateTask, AbandonCreate, ContainerExit, CancelRead, CancelKill,
              CancelWrite, DeleteRead, DeleteRow, RecoverOrphan, poolVars
<1>4. CASE StartServing \/ UNCHANGED vars
  BY <1>4 DEF StartServing, vars, poolVars
<1>5. QED
  BY <1>1, <1>2, <1>3, <1>4 DEF Next, ServerStep, Restart

(* A runner's unconditional writes come before its task's outcome.         *)
LEMMA WritesStep ==
  ASSUME TypeOK, NoDoubleSchedule, BootIdle, WritesBeforeOutcome, [Next]_vars
  PROVE  WritesBeforeOutcome'
<1> SUFFICES ASSUME NEW w \in Worker, pc'[w] \in Writing
             PROVE  status'[Job(w)] \notin Outcome
  BY DEF WritesBeforeOutcome
<1> USE DEF Writing, Holding, Boxed
<1>1. pc[w] \in Writing \/ Fetch(w)
  <2>1. CASE WorkerStep(w)
    BY <2>1 DEF WorkerStep, Acquire, Fetch, Prepare, CreateContainer, RecordContainer,
                Boot, MarkRunning, SwitchNetwork, Collect, WaitTimeout,
                HandleException, RemoveContainer, Release, DrainCount, DrainList, DrainPick,
                Goto, TypeOK
  <2>2. QED
    BY <2>1, OwnSteps DEF Crash
<1>2. pc[w] \in Live /\ pc[w] # "idle" /\ status[Job(w)] \notin Outcome
  BY <1>1, JobType DEF Fetch, Runnable, WritesBeforeOutcome, Live, Outcome, Goto, TypeOK
<1>3. SUFFICES ASSUME status'[Job(w)] \in Outcome
               PROVE  FALSE
  OBVIOUS
<1>4. CASE mode = "boot"
  BY <1>4, <1>2 DEF BootIdle
<1>5. ASSUME NEW v \in Worker, Job(v) = Job(w), pc[v] \in {"wait", "except"},
             pc' = [pc EXCEPT ![v] = "clean"]
      PROVE  FALSE
  BY <1>5, <1>2, SoleWorker DEF Live, TypeOK
<1>6. QED
  BY <1>2, <1>3, <1>4, <1>5, OutcomeWriter, JobType

-----------------------------------------------------------------------------
(* Every write of the status column, by the step that makes it.            *)
LEMMA StatusWrites ==
  ASSUME TypeOK, [Next]_vars, NEW t \in Task, status'[t] # status[t]
  PROVE  \/ \E w \in Worker : Job(w) = t /\ Prepare(w) /\ status'[t] = "setup"
         \/ \E w \in Worker : Job(w) = t /\ MarkRunning(w) /\ status'[t] = "running"
         \/ \E w \in Worker : /\ Job(w) = t
                              /\ Collect(w) \/ HandleException(w)
                              /\ status'[t] \in Outcome
         \/ status[t] = "none" /\ CreateTask(t) /\ status'[t] = "queued"
         \/ CancelWrite(t) /\ status'[t] = "cancelled"
         \/ DeleteRow(t) /\ status'[t] = "deleted"
         \/ RecoverOrphan(t) /\ status'[t] = "failed"
<1>1. ASSUME NEW w \in Worker, Prepare(w) \/ MarkRunning(w)
      PROVE  Job(w) = t /\ \/ Prepare(w) /\ status'[t] = "setup"
                           \/ MarkRunning(w) /\ status'[t] = "running"
  BY <1>1, JobType DEF Prepare, MarkRunning, SetStatus, TypeOK
<1>2. ASSUME NEW w \in Worker, Collect(w)
      PROVE  Job(w) = t /\ status'[t] \in Outcome
  BY <1>2, JobType DEF Collect, SetStatus, SetStatusIf, Outcome, TypeOK
<1>3. ASSUME NEW w \in Worker, HandleException(w)
      PROVE  Job(w) = t /\ status'[t] \in Outcome
  BY <1>3, JobType DEF HandleException, SetStatusIf, Outcome, TypeOK
<1>4. ASSUME NEW w \in Worker, WorkerStep(w)
      PROVE  Prepare(w) \/ MarkRunning(w) \/ Collect(w) \/ HandleException(w)
  BY <1>4 DEF WorkerStep, Acquire, Fetch, CreateContainer, RecordContainer,
              Boot, SwitchNetwork, WaitTimeout, RemoveContainer, Release,
              DrainCount, DrainList, DrainPick, rowVars
<1>5. ASSUME NEW u \in Task, CreateTask(u)
      PROVE  u = t /\ status[t] = "none" /\ status'[t] = "queued"
  BY <1>5 DEF CreateTask, TypeOK
<1>6. ASSUME NEW u \in Task, CancelWrite(u)
      PROVE  u = t /\ status'[t] = "cancelled"
  BY <1>6 DEF CancelWrite, SetStatusIf, TypeOK
<1>7. ASSUME NEW u \in Task, DeleteRow(u)
      PROVE  u = t /\ status'[t] = "deleted"
  BY <1>7 DEF DeleteRow, TypeOK
<1>8. ASSUME NEW u \in Task, RecoverOrphan(u)
      PROVE  u = t /\ status'[t] = "failed"
  BY <1>8 DEF RecoverOrphan, TypeOK
<1>9. ASSUME NEW u \in Task,
             \/ AbandonCreate(u) \/ Submit(u) \/ ContainerExit(u) \/ CancelRead(u)
             \/ CancelKill(u) \/ DeleteRead(u)
      PROVE  FALSE
  BY <1>9 DEF AbandonCreate, Submit, ContainerExit, CancelRead, CancelKill, DeleteRead,
              rowVars
<1>10. CASE Crash \/ StartServing \/ UNCHANGED vars
  BY <1>10 DEF Crash, StartServing, vars, rowVars
<1>11. QED
  BY <1>1, <1>2, <1>3, <1>4, <1>5, <1>6, <1>7, <1>8, <1>9, <1>10
     DEF Next, ServerStep, Restart

(* Only a successful containers.run counts as a start.                     *)
LEMMA Starter ==
  ASSUME TypeOK, [Next]_vars, NEW t \in Task, starts'[t] # starts[t]
  PROVE  \E w \in Worker : /\ Job(w) = t /\ CreateContainer(w)
                           /\ starts'[t] = starts[t] + 1
                           /\ pc' = [pc EXCEPT ![w] = "record"]
<1> USE DEF historyVars
<1>1. ASSUME NEW w \in Worker, WorkerStep(w)
      PROVE  CreateContainer(w)
  BY <1>1 DEF WorkerStep, Acquire, Fetch, Prepare, RecordContainer, Boot, MarkRunning,
              SwitchNetwork, Collect, WaitTimeout, HandleException, RemoveContainer,
              Release, DrainCount, DrainList, DrainPick
<1>2. ASSUME NEW w \in Worker, CreateContainer(w)
      PROVE  /\ Job(w) = t
             /\ starts'[t] = starts[t] + 1
             /\ pc' = [pc EXCEPT ![w] = "record"]
  BY <1>2, JobType DEF CreateContainer, Goto, TypeOK
<1>3. ASSUME NEW u \in Task,
             \/ CreateTask(u) \/ AbandonCreate(u) \/ Submit(u) \/ ContainerExit(u)
             \/ CancelRead(u) \/ CancelKill(u) \/ CancelWrite(u) \/ DeleteRead(u)
             \/ DeleteRow(u) \/ RecoverOrphan(u)
      PROVE  FALSE
  BY <1>3 DEF CreateTask, AbandonCreate, Submit, ContainerExit, CancelRead, CancelKill,
              CancelWrite, DeleteRead, DeleteRow, RecoverOrphan
<1>4. CASE Crash \/ StartServing \/ UNCHANGED vars
  BY <1>4 DEF Crash, StartServing, vars
<1>5. QED
  BY <1>1, <1>2, <1>3, <1>4 DEF Next, ServerStep, Restart

(* A task is scheduled by its create handler or by a drain that has read   *)
(* it in the queue.                                                        *)
LEMMA Scheduler ==
  ASSUME TypeOK, [Next]_vars, NEW t \in Task
  PROVE  /\ t \in scheduled' => t \in scheduled \union submitting \union Seen
         /\ t \in Seen' => t \in Seen \/ (status[t] = "queued" /\ status'[t] = "queued")
         /\ t \in submitting' => \/ t \in submitting
                                 \/ status'[t] = "queued" /\ status[t] = "none"
<1> USE DEF poolVars, handlerVars
<1>0. seen' = seen => Seen' = Seen
  BY DEF Seen
<1>1. ASSUME NEW w \in Worker, WorkerStep(w)
      PROVE  /\ submitting' = submitting
             /\ scheduled' \subseteq scheduled \union Seen
             /\ t \in Seen' => t \in Seen \/ (status[t] = "queued" /\ status'[t] = "queued")
  <2>1. CASE DrainPick(w)
    <3>1. ToStart(w) \subseteq Seen
      BY ToStartType DEF Seen
    <3>2. Seen' \subseteq Seen
      BY <2>1 DEF DrainPick, Seen, TypeOK
    <3>3. QED
      BY <2>1, <3>1, <3>2 DEF DrainPick, Spawn, InDrainOrder
  <2>2. CASE DrainList(w)
    <3>1. \A v \in Worker : \A u \in seen'[v] : u \in seen[v] \/ status[u] = "queued"
      BY <2>2 DEF DrainList, TypeOK
    <3>2. UNCHANGED <<status, scheduled, submitting>>
      BY <2>2 DEF DrainList, rowVars
    <3>3. QED
      BY <3>1, <3>2 DEF Seen
  <2>3. CASE ~DrainPick(w) /\ ~DrainList(w)
    <3>1. seen' = seen /\ submitting' = submitting /\ scheduled' \subseteq scheduled
      BY <1>1, <2>3 DEF WorkerStep, Acquire, Fetch, Prepare, CreateContainer,
              RecordContainer, Boot, MarkRunning,
              SwitchNetwork, Collect, WaitTimeout, HandleException, RemoveContainer,
              Release, DrainCount
    <3>2. QED
      BY <3>1, <1>0
  <2>4. QED
    BY <2>1, <2>2, <2>3
<1>2. ASSUME NEW u \in Task, Submit(u)
      PROVE  /\ submitting' \subseteq submitting
             /\ scheduled' \subseteq scheduled \union submitting
             /\ seen' = seen
  BY <1>2 DEF Submit, Spawn
<1>3. ASSUME NEW u \in Task, CreateTask(u)
      PROVE  /\ scheduled' = scheduled /\ seen' = seen
             /\ t \in submitting' => \/ t \in submitting
                                     \/ status'[t] = "queued" /\ status[t] = "none"
  BY <1>3 DEF CreateTask, TypeOK
<1>4. ASSUME NEW u \in Task,
             \/ AbandonCreate(u) \/ ContainerExit(u)
             \/ CancelRead(u) \/ CancelKill(u) \/ CancelWrite(u) \/ DeleteRead(u)
             \/ DeleteRow(u) \/ RecoverOrphan(u)
      PROVE  scheduled' = scheduled /\ seen' = seen /\ submitting' \subseteq submitting
  BY <1>4 DEF AbandonCreate, ContainerExit, CancelRead, CancelKill,
              CancelWrite, DeleteRead, DeleteRow, RecoverOrphan
<1>5. CASE Crash
  <2>1. scheduled' = {} /\ submitting' = {} /\ Seen' = {}
    BY <1>5 DEF Crash, Seen
  <2>2. QED
    BY <2>1
<1>6. CASE StartServing \/ UNCHANGED vars
  BY <1>6, <1>0 DEF StartServing, vars
<1>7. QED
  BY <1>0, <1>1, <1>2, <1>3, <1>4, <1>5, <1>6 DEF Next, ServerStep, Restart

LEMMA CreatedStep ==
  ASSUME TypeOK, TypeOK', Created, [Next]_vars
  PROVE  Created'
<1>2. ASSUME NEW t \in Task, status[t] # "none"
      PROVE  status'[t] # "none"
  BY <1>2, StatusWrites DEF Outcome
<1>3. ASSUME NEW t \in Task, t \in scheduled' \union submitting' \union Seen'
      PROVE  status'[t] # "none"
  BY <1>2, <1>3, Scheduler DEF Created
<1>4. QED
  BY <1>3 DEF Created, Seen, TypeOK

(* The parts of StartInv, one step each.                                   *)
LEMMA StartedNotQueuedStep ==
  ASSUME TypeOK, NoDoubleSchedule, Created, StartInv, [Next]_vars
  PROVE  StartedNotQueued'
<1> USE DEF StartInv, StartedNotQueued, Boxed
<1>1. \A w \in Worker : pc[w] \in {"prepare", "create"} \union Boxed => status[Job(w)] # "none"
  BY DEF NoDoubleSchedule, LiveWorkers, Live, Holding, Created
<1>2. \A t \in Task : status'[t] \in {"none", "queued"} => status[t] \in {"none", "queued"}
  BY StatusWrites DEF Outcome
<1>3. ASSUME NEW t \in Task, status'[t] \in {"none", "queued"}
      PROVE  starts'[t] = 0
  <2>1. status[t] \in {"none", "queued"} /\ starts[t] = 0
    BY <1>2, <1>3
  <2>2. CASE starts'[t] # starts[t]
    BY <2>1, <2>2, <1>1, Starter DEF CreateContainer
  <2>3. QED
    BY <2>1, <2>2
<1>4. ASSUME NEW w \in Worker, pc'[w] \in {"create"} \union Boxed,
             status'[Job(w)] = "queued"
      PROVE  FALSE
  <2>1. status[Job(w)] \in {"none", "queued"}
    BY <1>2, <1>4, JobType
  <2>2. CASE pc[w] \in {"create"} \union Boxed
    BY <2>1, <2>2, <1>1
  <2>3. CASE pc'[w] # pc[w] /\ pc[w] \notin {"create"} \union Boxed
    <3>1. WorkerStep(w)
      BY <2>3, <1>4, OwnSteps DEF Crash, Holding
    <3>2. Prepare(w)
      BY <3>1, <2>3, <1>4 DEF WorkerStep, Acquire, Fetch, CreateContainer,
           RecordContainer, Boot, MarkRunning, SwitchNetwork, Collect, WaitTimeout,
           HandleException, RemoveContainer, Release, DrainCount, DrainList, DrainPick, Goto, TypeOK
    <3>3. status[Job(w)] # "none"
      BY <3>2, <1>1 DEF Prepare
    <3>4. status[Job(w)] = "queued" /\ SetStatus(Job(w), "setup")
      BY <3>2, <3>3, <2>1, <1>4, JobType DEF Prepare, Goto, TypeOK
    <3>5. QED
      BY <3>4, <1>4, JobType DEF SetStatus, Row, TypeOK
  <2>4. QED
    BY <2>2, <2>3, <1>4
<1>5. QED
  BY <1>3, <1>4

LEMMA NotYetStartedStep ==
  ASSUME TypeOK, NoDoubleSchedule, StartInv, [Next]_vars
  PROVE  NotYetStarted'
<1> SUFFICES ASSUME NEW w \in Worker, pc'[w] \in {"prepare", "create"}
             PROVE  starts'[Job(w)] = 0
  BY DEF NotYetStarted
<1> USE DEF Holding
<1>1. pc[w] \in {"prepare", "create"} \/ Fetch(w)
  <2>1. CASE WorkerStep(w)
    BY <2>1 DEF WorkerStep, Acquire, Fetch, Prepare, CreateContainer, RecordContainer,
                Boot, MarkRunning, SwitchNetwork, Collect, WaitTimeout,
                HandleException, RemoveContainer, Release, DrainCount, DrainList, DrainPick,
                Goto, TypeOK
  <2>2. QED
    BY <2>1, OwnSteps DEF Crash
<1>2. pc[w] \in {"fetch", "prepare", "create"} /\ Job(w) \in scheduled /\ Job(w) \in Task
  BY <1>1, JobType DEF Fetch, NoDoubleSchedule, LiveWorkers, Live
<1>3. starts[Job(w)] = 0
  <2>1. CASE pc[w] \in {"prepare", "create"}
    BY <2>1 DEF StartInv, NotYetStarted
  <2>2. CASE Fetch(w) /\ status[Job(w)] = "queued"
    BY <2>2, <1>2 DEF StartInv, StartedNotQueued
  <2>3. CASE Fetch(w) /\ status[Job(w)] = "setup"
    <3>1. ASSUME NEW v \in Worker, Job(v) = Job(w), pc[v] \in Starting
          PROVE  FALSE
      BY <3>1, <2>3, SoleWorker DEF Fetch, Starting, Boxed, Live
    <3>2. ~(starts[Job(w)] > 0)
      BY <3>1, <2>3, <1>2 DEF StartInv, StartedInSetup
    <3>3. starts[Job(w)] \in Nat
      BY <1>2 DEF TypeOK
    <3>4. QED
      BY <3>2, <3>3
  <2>4. QED
    BY <1>1, <2>1, <2>2, <2>3 DEF Fetch, Runnable, Goto, TypeOK
<1>4. ASSUME NEW v \in Worker, Job(v) = Job(w), CreateContainer(v),
             pc' = [pc EXCEPT ![v] = "record"]
      PROVE  FALSE
  BY <1>2, <1>4, SoleWorker DEF CreateContainer, Live, TypeOK
<1>5. QED
  BY <1>2, <1>3, <1>4, Starter

(* While a row is in setup the coroutine that has its container keeps it.  *)
LEMMA SetupKept ==
  ASSUME TypeOK, [Next]_vars, ~Crash, NEW t \in Task, NEW w \in Worker, Job(w) = t,
         pc[w] \in Starting, status[t] = "setup", status'[t] = "setup"
  PROVE  pc'[w] \in Starting
<1> USE DEF Holding, Boxed, Starting
<1>1. pc'[w] = pc[w] \/ WorkerStep(w)
  BY OwnSteps
<1>2. CASE Collect(w) \/ HandleException(w)
  BY <1>2 DEF Collect, HandleException, SetStatus, SetStatusIf, Row, Active, Cancellable, TypeOK
<1>3. CASE WorkerStep(w) /\ ~Collect(w) /\ ~HandleException(w)
  BY <1>3 DEF WorkerStep, Acquire, Fetch, Prepare, CreateContainer, RecordContainer, Boot,
     MarkRunning, SwitchNetwork, WaitTimeout, RemoveContainer, Release, DrainCount, DrainList, DrainPick,
     Goto, TypeOK
<1>4. QED
  BY <1>1, <1>2, <1>3

LEMMA StartedInSetupStep ==
  ASSUME TypeOK, NoDoubleSchedule, StartInv, [Next]_vars
  PROVE  StartedInSetup'
<1> SUFFICES ASSUME NEW t \in Task, starts'[t] > 0, status'[t] = "setup"
             PROVE  \/ \E w \in Worker : Job(w) = t /\ pc'[w] \in Starting
                    \/ t \notin scheduled' /\ t \notin submitting' /\ t \notin Seen'
  BY DEF StartedInSetup
<1> USE DEF Holding, Boxed, Starting
<1>1. CASE starts'[t] # starts[t]
  <2>1. PICK w \in Worker : Job(w) = t /\ pc' = [pc EXCEPT ![w] = "record"]
    BY <1>1, Starter
  <2>2. QED
    BY <2>1 DEF TypeOK
<1>2. CASE starts'[t] = starts[t] /\ status[t] # "setup"
  <2>1. PICK w \in Worker : Job(w) = t /\ Prepare(w)
    BY <1>2, StatusWrites DEF Outcome
  <2>2. starts[t] = 0
    BY <2>1 DEF Prepare, StartInv, NotYetStarted
  <2>3. QED
    BY <2>2, <1>2
<1>3. CASE starts'[t] = starts[t] /\ status[t] = "setup"
  <2>1. CASE Crash
    BY <2>1 DEF Crash, Seen
  <2>2. ASSUME NEW w \in Worker, Job(w) = t, pc[w] \in Starting, ~Crash
        PROVE  pc'[w] \in Starting
    BY <2>2, <1>3, SetupKept
  <2>3. CASE t \notin scheduled /\ t \notin submitting /\ t \notin Seen
    BY <2>3, <1>3, Scheduler
  <2>4. QED
    BY <1>3, <2>1, <2>2, <2>3 DEF StartInv, StartedInSetup
<1>4. QED
  BY <1>1, <1>2, <1>3

LEMMA StartStep ==
  ASSUME TypeOK, NoDoubleSchedule, Created, StartInv, [Next]_vars
  PROVE  StartInv'
<1>1. ASSUME NEW t \in Task
      PROVE  starts'[t] <= 1
  <2>1. starts[t] <= 1
    BY DEF StartInv, RunsAtMostOnce
  <2>2. CASE starts'[t] # starts[t]
    <3>1. PICK w \in Worker : Job(w) = t /\ pc[w] = "create" /\ starts'[t] = starts[t] + 1
      BY <2>2, Starter DEF CreateContainer
    <3>2. QED
      BY <3>1 DEF StartInv, NotYetStarted
  <2>3. QED
    BY <2>1, <2>2
<1>2. QED
  BY <1>1, StartedNotQueuedStep, NotYetStartedStep, StartedInSetupStep
     DEF StartInv, RunsAtMostOnce

-----------------------------------------------------------------------------
(* IInv holds of every reachable state.                                    *)
LEMMA Initial == Init => IInv
<1> SUFFICES ASSUME Init
             PROVE  IInv
  OBVIOUS
<1> USE DEF Init, Live, Holding, Boxed
<1>1. TypeOK
  BY DEF TypeOK, Status, PC
<1>2. SlotInv
  <2>1. Holders = {}
    BY DEF Holders
  <2>2. QED
    BY <2>1, FS_EmptySet DEF SlotInv, SlotAccounting
<1>3. NoDoubleSchedule /\ BootIdle /\ Created
  BY DEF NoDoubleSchedule, LiveWorkers, BootIdle, Created, Seen
<1>4. WritesBeforeOutcome /\ StartInv
  BY JobType DEF WritesBeforeOutcome, Writing, StartInv, RunsAtMostOnce,
     StartedNotQueued, NotYetStarted, StartedInSetup
<1>5. QED
  BY <1>1, <1>2, <1>3, <1>4 DEF IInv

LEMMA Inductive == IInv /\ [Next]_vars => IInv'
<1> SUFFICES ASSUME IInv, [Next]_vars
             PROVE  IInv'
  OBVIOUS
<1> USE DEF IInv
<1>1. TypeOK'
  BY TypeStep
<1>2. SlotInv' /\ NoDoubleSchedule' /\ BootIdle'
  BY SlotStep, ScheduleStep, BootStep
<1>3. WritesBeforeOutcome' /\ Created' /\ StartInv'
  BY <1>1, WritesStep, CreatedStep, StartStep
<1>4. QED
  BY <1>1, <1>2, <1>3

LEMMA Invariance == Spec => []IInv
  BY Initial, Inductive, PTL DEF Spec

(* The state of the pool is well typed; in particular the semaphore never  *)
(* holds more than max_concurrent slots (pool.py:79).                      *)
THEOREM TypeCorrect == Spec => []TypeOK
<1>1. IInv => TypeOK
  BY DEF IInv
<1>2. QED
  BY <1>1, Invariance, PTL

(* However submit, the drains and the coroutines' finally blocks           *)
(* interleave, a task has at most one coroutine that may run it and        *)
(* _scheduled names exactly the tasks that have one (pool.py:33-40).       *)
THEOREM DoubleSchedulePrevention == Spec => []NoDoubleSchedule
<1>1. IInv => NoDoubleSchedule
  BY DEF IInv
<1>2. QED
  BY <1>1, Invariance, PTL

(* No path out of the runner loses a slot or releases one twice.           *)
THEOREM SlotsAccounted == Spec => []SlotAccounting
<1>1. IInv => SlotAccounting
  BY DEF IInv, SlotInv
<1>2. QED
  BY <1>1, Invariance, PTL

(* A task's agent is started at most once, across drains, races with       *)
(* cancel and delete, Docker failures and any number of crashes.           *)
THEOREM AtMostOneRun == Spec => []RunsAtMostOnce
<1>1. IInv => RunsAtMostOnce
  BY DEF IInv, StartInv
<1>2. QED
  BY <1>1, Invariance, PTL

(* No write of the pool replaces an outcome.                               *)
LEMMA OutcomeKept ==
  ASSUME IInv, [Next]_vars, NEW t \in Task, status[t] \in Outcome
  PROVE  status'[t] \in {status[t], "deleted"}
<1> USE DEF IInv, Outcome, Active, Cancellable
<1>1. SUFFICES ASSUME status'[t] # status[t], status'[t] # "deleted"
               PROVE  FALSE
  OBVIOUS
<1>2. ASSUME NEW w \in Worker, Job(w) = t, Prepare(w) \/ MarkRunning(w) \/ Collect(w)
      PROVE  FALSE
  BY <1>2 DEF WritesBeforeOutcome, Writing, Prepare, MarkRunning, Collect
<1>3. ASSUME NEW w \in Worker, Job(w) = t, HandleException(w)
      PROVE  FALSE
  BY <1>3, <1>1 DEF HandleException, SetStatusIf
<1>4. CASE CancelWrite(t) \/ RecoverOrphan(t)
  BY <1>4, <1>1 DEF CancelWrite, CancelExpects, SetStatusIf, RecoverOrphan, Orphaned
<1>5. QED
  BY <1>1, <1>2, <1>3, <1>4, StatusWrites

(* A recorded outcome is final: no later write of a runner, a cancel or a  *)
(* recovery replaces it.                                                   *)
THEOREM OutcomesFinal == Spec => OutcomeIsFinal
<1>1. IInv /\ [Next]_vars =>
        [\A t \in Task : status[t] \in Outcome => status'[t] \in {status[t], "deleted"}]_vars
  BY OutcomeKept
<1>2. QED
  BY <1>1, Invariance, PTL DEF Spec, OutcomeIsFinal

-----------------------------------------------------------------------------
(* A coroutine about to call containers.run holds a slot of its own, so    *)
(* the sandboxes already running leave room for one more.                  *)
LEMMA RoomToBegin ==
  ASSUME TypeOK, SlotInv, NEW v \in Worker, pc[v] = "create"
  PROVE  Cardinality(InSandbox) < MaxConcurrent
<1> DEFINE others == Holders \ {v}
           jobs == {Job(w) : w \in others}
           f == [w \in others |-> Job(w)]
<1>1. v \in Holders /\ v \notin {w \in Worker : pc[w] \in Boxed}
  BY DEF Holders, Holding, Boxed
<1>2. /\ IsFiniteSet(Holders) /\ Cardinality(Holders) \in Nat
      /\ Cardinality(Holders) <= MaxConcurrent
  BY FS_CardinalityType DEF SlotInv, SlotAccounting, TypeOK
<1>3. IsFiniteSet(others) /\ Cardinality(others) = Cardinality(Holders) - 1
  BY <1>1, <1>2, FS_RemoveElement
<1>4. f \in Surjection(others, jobs)
  BY DEF Surjection
<1>5. IsFiniteSet(jobs) /\ Cardinality(jobs) <= Cardinality(others)
  BY <1>3, <1>4, FS_Surjection
<1>6. InSandbox \subseteq jobs
  BY <1>1 DEF InSandbox, Holders, Holding
<1>7. /\ Cardinality(InSandbox) <= Cardinality(jobs)
      /\ Cardinality(InSandbox) \in Nat /\ Cardinality(jobs) \in Nat
  BY <1>5, <1>6, FS_Subset, FS_CardinalityType
<1>8. QED
  BY <1>2, <1>3, <1>5, <1>7

(* A coroutine comes to have a container that may exist by calling         *)
(* containers.run, and in no other way.                                    *)
LEMMA EntersBoxed ==
  ASSUME TypeOK, [Next]_vars, NEW w \in Worker, pc'[w] \in Boxed
  PROVE  pc[w] \in Boxed \/ pc[w] = "create"
<1> USE DEF Boxed
<1>1. CASE WorkerStep(w)
  BY <1>1 DEF WorkerStep, Acquire, Fetch, Prepare, CreateContainer, RecordContainer,
              Boot, MarkRunning, SwitchNetwork, Collect, WaitTimeout,
              HandleException, RemoveContainer, Release, DrainCount, DrainList, DrainPick,
              Goto, TypeOK
<1>2. CASE Crash
  BY <1>2 DEF Crash
<1>3. QED
  BY <1>1, <1>2, OwnSteps DEF Holding

(* Every step of the pool is a step of SlotPool or invisible to it.        *)
LEMMA SlotPoolStep ==
  ASSUME IInv, [Next]_vars
  PROVE  [SP!Next]_<<Begun, InSandbox>>
<1> USE DEF IInv
<1>1. ASSUME NEW t \in Task, starts'[t] # starts[t]
      PROVE  SP!Begin(t)
  <2>1. PICK w \in Worker : /\ Job(w) = t /\ CreateContainer(w)
                            /\ starts'[t] = starts[t] + 1
                            /\ pc' = [pc EXCEPT ![w] = "record"]
    BY <1>1, Starter
  <2>2. pc[w] = "create" /\ starts' = [starts EXCEPT ![t] = @ + 1]
    BY <2>1, <1>1 DEF CreateContainer
  <2>3. starts[t] = 0
    BY <2>1, <2>2 DEF StartInv, NotYetStarted
  <2>4. t \notin Begun /\ Begun' = Begun \union {t}
    BY <2>2, <2>3 DEF Begun, TypeOK
  <2>5. \A v \in Worker : Job(v) # t => pc'[v] = pc[v]
    BY <2>1 DEF TypeOK
  <2>6. InSandbox' = InSandbox \union {t}
    BY <2>1, <2>4, <2>5 DEF InSandbox, Begun, Boxed, TypeOK
  <2>7. SP!Cardinality(InSandbox) = Cardinality(InSandbox)
    BY Zenon DEF Cardinality, SP!Cardinality
  <2>8. QED
    BY <2>2, <2>4, <2>6, <2>7, RoomToBegin DEF SP!Begin
<1>2. CASE \A t \in Task : starts'[t] = starts[t]
  <2>1. Begun' = Begun
    BY <1>2 DEF Begun
  <2>2. ASSUME NEW t \in Begun, NEW w \in Worker, Job(w) = t, pc'[w] \in Boxed
        PROVE  pc[w] \in Boxed
    BY <2>2, EntersBoxed DEF StartInv, NotYetStarted, Begun
  <2>3. InSandbox' \subseteq InSandbox
    BY <2>1, <2>2 DEF InSandbox
  <2>4. CASE InSandbox' = InSandbox
    BY <2>1, <2>4
  <2>5. CASE InSandbox' # InSandbox
    <3>1. SP!End(InSandbox \ InSandbox')
      BY <2>1, <2>3, <2>5 DEF SP!End
    <3>2. QED
      BY <3>1 DEF SP!Next
  <2>6. QED
    BY <2>4, <2>5
<1>3. QED
  BY <1>1, <1>2 DEF SP!Next

(* The pool, with its queue, rows, coroutines, races and crashes, does     *)
(* nothing that SlotPool does not allow: a sandbox begins once and only    *)
(* when fewer than max_concurrent are in the hands of a slot.              *)
THEOREM PoolRefinesSlotPool == Spec => ImplementsSlotPool
<1>1. Init => SP!Init
  BY DEF Init, SP!Init, Begun, InSandbox
<1>2. IInv /\ [Next]_vars => [SP!Next]_<<Begun, InSandbox>>
  BY SlotPoolStep
<1>3. QED
  BY <1>1, <1>2, Invariance, PTL DEF Spec, ImplementsSlotPool

-----------------------------------------------------------------------------
(* The coroutine of a setup or running row has not recorded an outcome.    *)
Owning == {"create"} \union (Boxed \ {"clean"})

ActiveOwned ==
  mode = "serving" =>
    \A t \in Task : status[t] \in Active =>
      \E w \in Worker : Job(w) = t /\ pc[w] \in Owning

(* Where startup cannot end with rows left over, every step keeps a        *)
(* coroutine with each setup or running row.                               *)
LEMMA OwnedStep ==
  ASSUME "down" \notin Events, TypeOK, ActiveOwned, [Next]_vars
  PROVE  ActiveOwned'
<1> USE DEF Owning, Boxed, Active
<1> SUFFICES ASSUME mode' = "serving", NEW t \in Task, status'[t] \in Active
             PROVE  \E w \in Worker : Job(w) = t /\ pc'[w] \in Owning
  BY DEF ActiveOwned
<1>1. CASE mode # "serving"
  <2>1. ASSUME NEW w \in Worker, WorkerStep(w)
        PROVE  mode' = mode
    BY <2>1 DEF WorkerStep, Acquire, Fetch, Prepare, CreateContainer, RecordContainer,
                Boot, MarkRunning, SwitchNetwork, Collect, WaitTimeout,
                HandleException, RemoveContainer, Release, DrainCount, DrainList, DrainPick
  <2>2. StartServing
    BY <1>1, <2>1 DEF Next, ServerStep, Restart, CreateTask, AbandonCreate, Submit,
       ContainerExit, CancelRead, CancelKill, CancelWrite, DeleteRead, DeleteRow, Crash,
       RecoverOrphan, vars
  <2>3. QED
    BY <2>2 DEF StartServing, Orphaned, rowVars
<1>2. CASE mode = "serving" /\ status'[t] # status[t]
  <2>1. PICK w \in Worker : /\ Job(w) = t
                            /\ \/ Prepare(w) /\ status' # status
                               \/ MarkRunning(w)
    BY <1>2, StatusWrites DEF Outcome
  <2>2. QED
    BY <2>1 DEF Prepare, MarkRunning, Goto, TypeOK
<1>3. CASE mode = "serving" /\ status'[t] = status[t]
  <2>1. PICK w \in Worker : Job(w) = t /\ pc[w] \in Owning
    BY <1>3 DEF ActiveOwned
  <2>2. ~Collect(w)
    BY <1>3, <2>1 DEF Collect, SetStatus, SetStatusIf, Row, TypeOK
  <2>3. ~HandleException(w)
    BY <1>3, <2>1 DEF HandleException, SetStatusIf, Cancellable, TypeOK
  <2>4. CASE WorkerStep(w)
    BY <2>1, <2>2, <2>3, <2>4 DEF WorkerStep, Acquire, Fetch, Prepare, CreateContainer,
       RecordContainer, Boot, MarkRunning, SwitchNetwork, WaitTimeout, RemoveContainer,
       Release, DrainCount, DrainList, DrainPick, Goto, TypeOK
  <2>5. ~Crash
    BY DEF Crash
  <2>6. QED
    BY <2>1, <2>4, <2>5, OwnSteps DEF Holding
<1>4. QED
  BY <1>1, <1>2, <1>3

(* As long as recovery at startup completes ("down" is the Docker daemon   *)
(* unreachable then), count_active counts no row whose coroutine is gone:  *)
(* no cancel, crash or exception in a runner leaves one behind.            *)
THEOREM ActiveRowsHaveRunners ==
  ASSUME "down" \notin Events
  PROVE  Spec => []ActiveHasRunner
<1>1. Init => ActiveOwned
  BY DEF Init, ActiveOwned
<1>2. IInv /\ ActiveOwned /\ [Next]_vars => ActiveOwned'
  BY OwnedStep DEF IInv
<1>3. ActiveOwned => ActiveHasRunner
  BY DEF ActiveOwned, ActiveHasRunner, Owning
<1>4. QED
  BY <1>1, <1>2, <1>3, Invariance, PTL DEF Spec

-----------------------------------------------------------------------------
(* A container belongs to a coroutine that has still to remove it.         *)
BoxHeld == \A t \in Task : box[t] # "none" => \E w \in Worker : Job(w) = t /\ pc[w] \in Boxed

LEMMA BoxHeldStep ==
  ASSUME {"crash", "docker"} \intersect Events = {}, TypeOK, BoxHeld, [Next]_vars
  PROVE  BoxHeld'
<1> USE DEF Boxed
<1> SUFFICES ASSUME NEW t \in Task, box'[t] # "none"
             PROVE  \E w \in Worker : Job(w) = t /\ pc'[w] \in Boxed
  BY DEF BoxHeld
<1>1. ~Crash
  BY DEF Crash
<1>2. CASE box[t] # "none"
  <2>1. PICK w \in Worker : Job(w) = t /\ pc[w] \in Boxed
    BY <1>2 DEF BoxHeld
  <2>2. ~RemoveContainer(w)
    BY <2>1 DEF RemoveContainer, TypeOK
  <2>3. CASE WorkerStep(w)
    BY <2>1, <2>2, <2>3 DEF WorkerStep, Acquire, Fetch, Prepare, CreateContainer,
       RecordContainer, Boot, MarkRunning, SwitchNetwork, Collect, WaitTimeout,
       HandleException, Release, DrainCount, DrainList, DrainPick, Goto, TypeOK
  <2>4. QED
    BY <1>1, <2>1, <2>3, OwnSteps DEF Holding
<1>3. CASE box[t] = "none"
  <2>1. \E w \in Worker : Job(w) = t /\ CreateContainer(w) /\ pc'[w] = "record"
    <3>1. ASSUME NEW w \in Worker, WorkerStep(w)
          PROVE  Job(w) = t /\ CreateContainer(w) /\ pc'[w] = "record"
      <4>1. CreateContainer(w)
        BY <1>3, <3>1, JobType DEF WorkerStep, Acquire, Fetch, Prepare,
           RecordContainer, Boot, MarkRunning, SwitchNetwork, Collect, WaitTimeout,
           HandleException, RemoveContainer, Release, DrainCount, DrainList, DrainPick, TypeOK
      <4>2. QED
        BY <1>3, <4>1, JobType DEF CreateContainer, Goto, TypeOK
    <3>2. ASSUME NEW u \in Task,
                 \/ ContainerExit(u) \/ CancelRead(u) \/ CancelKill(u) \/ CancelWrite(u)
                 \/ DeleteRead(u) \/ DeleteRow(u) \/ RecoverOrphan(u)
          PROVE  FALSE
      BY <1>3, <3>2 DEF ContainerExit, CancelRead, CancelKill, CancelWrite, DeleteRead,
                        DeleteRow, RecoverOrphan, TypeOK
    <3>3. ASSUME NEW u \in Task, CreateTask(u) \/ AbandonCreate(u) \/ Submit(u)
          PROVE  FALSE
      BY <1>3, <3>3 DEF CreateTask, AbandonCreate, Submit
    <3>4. ~StartServing /\ ~UNCHANGED vars
      BY <1>3 DEF StartServing, vars
    <3>5. QED
      BY <1>1, <3>1, <3>2, <3>3, <3>4 DEF Next, ServerStep, Restart
  <2>2. QED
    BY <2>1
<1>4. QED
  BY <1>2, <1>3

LEMMA HeldWithinSlots ==
  ASSUME TypeOK, SlotInv, BoxHeld
  PROVE  ContainersWithinSlots
<1> DEFINE boxes == {t \in Task : box[t] # "none"}
           jobs == {Job(w) : w \in Holders}
           f == [w \in Holders |-> Job(w)]
<1>1. /\ IsFiniteSet(Holders) /\ Cardinality(Holders) \in Nat
      /\ Cardinality(Holders) <= MaxConcurrent
  BY FS_CardinalityType DEF SlotInv, SlotAccounting, TypeOK
<1>2. f \in Surjection(Holders, jobs)
  BY DEF Surjection
<1>3. IsFiniteSet(jobs) /\ Cardinality(jobs) <= Cardinality(Holders)
  BY <1>1, <1>2, FS_Surjection
<1>4. boxes \subseteq jobs
  BY DEF BoxHeld, Holders, Holding
<1>5. /\ Cardinality(boxes) <= Cardinality(jobs)
      /\ Cardinality(boxes) \in Nat /\ Cardinality(jobs) \in Nat
  BY <1>3, <1>4, FS_Subset, FS_CardinalityType
<1> HIDE DEF jobs, f
<1>6. QED
  BY <1>1, <1>3, <1>5 DEF ContainersWithinSlots

(* "Max concurrent runner containers" (README.md:377): as long as Docker   *)
(* removes what it is asked to and the server lives, a slot is given on    *)
(* only when its container is gone, so containers never exceed the pool,   *)
(* failures, timeouts and cancels included.                                *)
THEOREM ContainersFit ==
  ASSUME {"crash", "docker"} \intersect Events = {}
  PROVE  Spec => []ContainersWithinSlots
<1>1. Init => BoxHeld
  BY DEF Init, BoxHeld
<1>2. IInv /\ BoxHeld /\ [Next]_vars => BoxHeld'
  BY BoxHeldStep DEF IInv
<1>3. IInv /\ BoxHeld => ContainersWithinSlots
  BY HeldWithinSlots DEF IInv
<1>4. QED
  BY <1>1, <1>2, <1>3, Invariance, PTL DEF Spec

-----------------------------------------------------------------------------
(* ORDER BY priority, created_at is a total order: of two tasks, the one   *)
(* that does not come first is no more urgent, and whatever comes before   *)
(* the earlier of two comes before the later.                              *)
LEMMA BeforeOrders ==
  ASSUME NEW t \in Task, NEW u \in Task
  PROVE  /\ Before(t, u) => Prio[t] <= Prio[u]
         /\ ~Before(u, t) => Prio[t] <= Prio[u]
         /\ \A x \in Task : Before(x, t) /\ Before(t, u) => Before(x, u)
<1>1. Prio \in [Task -> 0..2] /\ Task \subseteq Nat
  BY DEF Task
<1>2. QED
  BY <1>1 DEF Before

(* LIMIT: a task that did not make the first k comes before none that did. *)
LEMMA LeftIsLater ==
  ASSUME NEW S \in SUBSET Task, NEW k \in Nat,
         NEW t \in FirstOf(S, k), NEW u \in S \ FirstOf(S, k)
  PROVE  Prio[t] <= Prio[u]
<1> DEFINE ahead(x) == {y \in S : Before(y, x)}
<1>1. IsFiniteSet(Task)
  BY FS_Interval DEF Task
<1>2. t \in S /\ Cardinality(ahead(t)) < k /\ ~(Cardinality(ahead(u)) < k)
  BY DEF FirstOf
<1>3. CASE Before(u, t)
  <2>1. ahead(u) \in SUBSET ahead(t)
    BY <1>2, <1>3, BeforeOrders
  <2>2. IsFiniteSet(ahead(t)) /\ IsFiniteSet(ahead(u))
    BY <1>1, FS_Subset
  <2>3. /\ Cardinality(ahead(u)) <= Cardinality(ahead(t))
        /\ Cardinality(ahead(u)) \in Nat /\ Cardinality(ahead(t)) \in Nat
    BY <2>1, <2>2, FS_Subset, FS_CardinalityType
  <2> HIDE DEF ahead
  <2>4. QED
    BY <1>2, <2>3
<1>4. QED
  BY <1>2, <1>3, BeforeOrders

(* A coroutine leaves the last await of its drain only by starting what it *)
(* picked, unless the server dies.                                         *)
LEMMA LeavesPick ==
  ASSUME TypeOK, [Next]_vars, NEW w \in Worker, pc[w] = "pick", pc'[w] # "pick"
  PROVE  Crash \/ DrainPick(w)
<1>1. pc \in [Worker -> PC]
  BY DEF TypeOK
<1>2. ASSUME NEW v \in Worker, NEW l \in PC, Goto(v, l), pc[v] # "pick"
      PROVE  FALSE
  BY <1>1, <1>2 DEF Goto
<1>3. ASSUME UNCHANGED pc
      PROVE  FALSE
  BY <1>3
<1>4. ASSUME NEW v \in Worker,
             \/ Acquire(v) \/ Fetch(v) \/ Prepare(v) \/ CreateContainer(v)
             \/ RecordContainer(v) \/ Boot(v) \/ MarkRunning(v) \/ SwitchNetwork(v)
             \/ Collect(v) \/ WaitTimeout(v) \/ HandleException(v)
             \/ RemoveContainer(v) \/ Release(v) \/ DrainCount(v) \/ DrainList(v)
      PROVE  FALSE
  <2>1. pc[v] # "pick" /\ \E l \in PC : Goto(v, l)
    BY <1>4 DEF Acquire, Fetch, Prepare, CreateContainer, RecordContainer, Boot,
                MarkRunning, SwitchNetwork, Collect, WaitTimeout, HandleException,
                RemoveContainer, Release, DrainCount, DrainList, PC, Live, Holding,
                Boxed, Draining
  <2>2. QED
    BY <1>2, <2>1
<1>5. ASSUME NEW t \in Task, Submit(t)
      PROVE  FALSE
  <2>1. CASE UNCHANGED poolVars
    BY <1>3, <2>1 DEF poolVars
  <2>2. CASE CanSpawn(t) /\ Goto(Fresh(t), "acquire")
    <3>1. Fresh(t) \in Worker /\ pc[Fresh(t)] # "pick"
      BY <2>2, FreshType
    <3>2. "acquire" \in PC
      BY DEF PC, Live
    <3>3. QED
      BY <1>2, <2>2, <3>1, <3>2
  <2>3. QED
    BY <1>5, <2>1, <2>2 DEF Submit
<1>6. ~ \E t \in Task : \/ CreateTask(t) \/ AbandonCreate(t) \/ ContainerExit(t)
                        \/ CancelRead(t) \/ CancelKill(t) \/ CancelWrite(t)
                        \/ DeleteRead(t) \/ DeleteRow(t) \/ RecoverOrphan(t)
  BY <1>3 DEF CreateTask, AbandonCreate, ContainerExit, CancelRead, CancelKill,
              CancelWrite, DeleteRead, DeleteRow, RecoverOrphan, poolVars
<1>7. ~StartServing /\ ~UNCHANGED vars
  BY <1>3 DEF StartServing, vars, poolVars
<1>9. ASSUME NEW v \in Worker, DrainPick(v)
      PROVE  v = w
  <2>1. \A t \in ToStart(v) : pc[Fresh(t)] = "idle"
    BY <1>9, FreshType, ToStartType DEF DrainPick
  <2>2. QED
    BY <1>9, <2>1 DEF DrainPick
<1>8. QED
  BY <1>4, <1>5, <1>6, <1>7, <1>9 DEF Next, ServerStep, WorkerStep, Restart

(* What a drain appends to the waiters are the tasks it picked, in their   *)
(* order; every row it has read and leaves was cut off by the limit.       *)
LEMMA DrainStarts ==
  ASSUME TypeOK, NEW w \in Worker, DrainPick(w)
  PROVE  /\ \A i \in Len(waiters) + 1 .. Len(waiters') :
              /\ Job(waiters'[i]) \in ToStart(w)
              /\ \A j \in Len(waiters) + 1 .. Len(waiters') :
                   i < j => Prio[Job(waiters'[i])] <= Prio[Job(waiters'[j])]
         /\ \A t \in seen[w] \ scheduled' : \A u \in ToStart(w) : Prio[u] <= Prio[t]
<1> DEFINE n == Cardinality(ToStart(w))
           old == Len(waiters)
<1>1. PICK q \in [1..n -> ToStart(w)] : InDrainOrder(q, ToStart(w)) /\ Spawn(q)
  BY DEF DrainPick
<1>2. /\ ToStart(w) \subseteq {t \in Task : t \in seen[w] /\ t \notin scheduled}
      /\ n \in Nat
  BY ToStartType, FS_CardinalityType
<1> DEFINE born == [i \in 1..n |-> Fresh(q[i])]
<1>3. born \in [1..n -> Worker] /\ \A i \in 1..n : Job(born[i]) = q[i]
  BY <1>2, FreshType DEF DrainPick
<1>4. born \in Seq(Worker) /\ Len(born) = n
  BY <1>2, <1>3
<1>5. waiters' = waiters \o born /\ waiters \in Seq(Worker)
  BY <1>1 DEF Spawn, TypeOK
<1>6. /\ old \in Nat /\ Len(waiters') = old + n
      /\ \A i \in 1..(old + n) : waiters'[i] = IF i <= old THEN waiters[i] ELSE born[i - old]
  <2> HIDE DEF born
  <2>1. QED
    BY <1>4, <1>5, ConcatProperties
<1>7. \A i, j \in 1..n : i < j => Before(q[i], q[j])
  BY <1>1 DEF InDrainOrder
<1>8. \A i \in old + 1 .. Len(waiters') :
        i - old \in 1..n /\ Job(waiters'[i]) = q[i - old]
  <2> HIDE DEF old, n, born
  <2>1. QED
    BY <1>2, <1>3, <1>6
<1>9. ASSUME NEW i \in old + 1 .. Len(waiters')
      PROVE  /\ Job(waiters'[i]) \in ToStart(w)
             /\ \A j \in old + 1 .. Len(waiters') :
                  i < j => Prio[Job(waiters'[i])] <= Prio[Job(waiters'[j])]
  <2>1. ASSUME NEW j \in old + 1 .. Len(waiters'), i < j
        PROVE  Prio[Job(waiters'[i])] <= Prio[Job(waiters'[j])]
    <3>1. i - old < j - old
      BY <1>6, <2>1
    <3>2. Before(q[i - old], q[j - old])
      BY <1>7, <1>8, <3>1
    <3>3. QED
      BY <1>2, <1>8, <3>2, BeforeOrders
  <2>2. QED
    BY <1>8, <2>1
<1>10. ASSUME NEW t \in seen[w] \ scheduled', NEW u \in ToStart(w)
       PROVE  Prio[u] <= Prio[t]
  <2> DEFINE waiting == seen[w] \ scheduled
  <2>1. scheduled' = scheduled \union ToStart(w)
    BY <1>1 DEF Spawn, InDrainOrder
  <2>2. ToStart(w) = FirstOf(waiting, avail[w]) /\ t \in waiting \ ToStart(w)
    BY <1>10, <2>1 DEF ToStart
  <2>3. avail[w] \in Nat /\ waiting \in SUBSET Task
    BY DEF TypeOK
  <2>4. QED
    BY <2>2, <2>3, LeftIsLater
<1>11. QED
  BY <1>9, <1>10

(* "Queue drain order: high priority first, then normal, then low"         *)
(* (pool.py:64), for every number of queued tasks: what one drain starts   *)
(* queues for a slot in that order, and of the rows it has read no task it *)
(* leaves is more urgent, whatever has happened to the table since.        *)
THEOREM DrainOrder == Spec => DrainsByPriority
<1> DEFINE InOrder(w) ==
      \A i \in Len(waiters) + 1 .. Len(waiters') :
        /\ \A j \in Len(waiters) + 1 .. Len(waiters') :
             i < j => Prio[Job(waiters'[i])] <= Prio[Job(waiters'[j])]
        /\ \A t \in seen[w] \ scheduled' : Prio[Job(waiters'[i])] <= Prio[t]
<1>1. ASSUME TypeOK, [Next]_vars, NEW w \in Worker, pc[w] = "pick", pc'[w] # "pick"
      PROVE  InOrder(w)
  <2>1. CASE Crash
    <3>1. waiters' = <<>> /\ Len(waiters) \in Nat
      BY <2>1, <1>1 DEF Crash, TypeOK
    <3>2. QED
      BY <3>1
  <2>2. CASE DrainPick(w)
    BY <2>2, <1>1, DrainStarts
  <2>3. QED
    BY <1>1, <2>1, <2>2, LeavesPick
<1>2. TypeOK /\ [Next]_vars =>
        [\A w \in Worker : (pc[w] = "pick" /\ pc'[w] # "pick") =>
           LET new == Len(waiters) + 1 .. Len(waiters')
           IN \A i \in new :
                /\ \A j \in new : i < j => Prio[Job(waiters'[i])] <= Prio[Job(waiters'[j])]
                /\ \A t \in seen[w] \ scheduled' : Prio[Job(waiters'[i])] <= Prio[t]]_vars
  BY <1>1
<1>3. IInv => TypeOK
  BY DEF IInv
<1>4. QED
  BY <1>2, <1>3, Invariance, PTL DEF Spec, DrainsByPriority
=============================================================================
