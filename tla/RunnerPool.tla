----------------------------- MODULE RunnerPool -----------------------------
(***************************************************************************)
(* The runner pool of sandclaude: the task rows of the SQLite store, the   *)
(* LocalScheduler of runner/pool.py (semaphore, _scheduled set, background *)
(* coroutines), the runner coroutine of runner/container.py, the cancel,   *)
(* delete and create handlers that race with it, and the crash and the     *)
(* orphan recovery of the server.                                          *)
(*                                                                         *)
(* The server is one asyncio process: code between two awaits is atomic,   *)
(* every store call is one SQL transaction, and any other coroutine may    *)
(* run at an await.  So each action below ends at an await of the code.    *)
(***************************************************************************)
EXTENDS Naturals, Sequences, FiniteSets

CONSTANTS
  NumTasks,       \* task ids that requests may create (ids are never reused)
  MaxConcurrent,  \* settings.max_concurrent, the slots of the semaphore
  Prio,           \* priority each task asks for: 0 high, 1 normal, 2 low
  Copies,         \* bound: coroutines of one task alive at the same time
  MaxCrashes,     \* bound: server crashes in a behaviour
  Events          \* what the environment may do besides creating tasks

Task == 1..NumTasks
Worker == Task \X (1..Copies)
Job(w) == w[1]

ASSUME PoolAssumption ==
  /\ NumTasks \in Nat \ {0}
  /\ MaxConcurrent \in Nat \ {0}
  /\ Prio \in [Task -> 0..2]
  /\ Copies \in Nat \ {0}
  /\ MaxCrashes \in Nat
  /\ Events \subseteq {"cancel", "delete", "crash", "docker", "raise", "down"}

-----------------------------------------------------------------------------
(* Persistent state: the tasks table and the containers of the Docker      *)
(* daemon survive a crash of the server.                                   *)
VARIABLES
  status,      \* task -> status column; "none" before INSERT, "deleted" after DELETE
  cid,         \* task -> is the container_id column set
  box,         \* task -> its container: "none", "up", or "dead" (exited, not removed)
(* Volatile state of the server process.                                   *)
  mode,        \* "boot" while the lifespan hook recovers, then "serving"
  pc,          \* coroutine -> the await it is suspended at
  avail,       \* coroutine -> the local `available` of its drain()
  seen,        \* coroutine -> the local `queued` of its drain(): the rows it has read
  scheduled,   \* LocalScheduler._scheduled
  free,        \* value of the semaphore
  waiters,     \* coroutines spawned and not yet through `async with sem`, in order
  submitting,  \* create handlers between the INSERT and submit_task
  cancelling,  \* task -> the next step of its cancel request
  deleting,    \* delete handlers past their status check
(* History.                                                                *)
  starts,      \* task -> containers.run calls that succeeded for it
  crashes      \* crashes so far

rowVars == <<status, cid>>
poolVars == <<pc, avail, seen, scheduled, free, waiters>>
handlerVars == <<submitting, cancelling, deleting>>
historyVars == <<starts, crashes>>
vars == <<rowVars, box, mode, poolVars, handlerVars, historyVars>>

Active == {"setup", "running"}
Cancellable == {"queued", "setup", "running"}
Outcome == {"completed", "partial", "failed", "timed_out"}
Status == {"none", "deleted", "pending_approval", "cancelled"}
            \union Cancellable \union Outcome

(* A coroutine that holds a slot, by the await it is at.  Boxed are those  *)
(* whose container may exist.                                              *)
Boxed == {"record", "boot", "mark", "switch", "wait", "except", "clean"}
Holding == {"fetch", "prepare", "create", "release"} \union Boxed
Live == {"acquire"} \union Holding
Draining == {"count", "list", "pick"}
PC == {"idle"} \union Live \union Draining

Row(t) == status[t] \notin {"none", "deleted"}

-----------------------------------------------------------------------------
(* db/store.py: update_task writes whatever the row holds and is a no-op   *)
(* on a missing row; update_task_if_status compares and sets.              *)
SetStatus(t, s) == status' = IF Row(t) THEN [status EXCEPT ![t] = s] ELSE status

SetStatusIf(t, expected, s) ==
  status' = IF status[t] \in expected THEN [status EXCEPT ![t] = s] ELSE status

ActiveCount == Cardinality({t \in Task : status[t] \in Active})

(* ORDER BY priority, created_at: tasks are numbered in creation order.    *)
BeforeByAge(a, b) == a < b   \* fault: ORDER BY created_at
Before(a, b) == Prio[a] < Prio[b] \/ (Prio[a] = Prio[b] /\ a < b)

(* The first k members of S in that order, and S laid out in that order.   *)
FirstOf(S, k) == {t \in S : Cardinality({u \in S : Before(u, t)}) < k}

InDrainOrder(q, S) ==
  /\ {q[i] : i \in DOMAIN q} = S
  /\ \A i, j \in DOMAIN q : i < j => Before(q[i], q[j])

-----------------------------------------------------------------------------
(* Spawning the coroutines of the tasks in q.  A free copy stands for the  *)
(* new asyncio.Task; Copies bounds how many one task has.                  *)
CanSpawn(t) == \E c \in 1..Copies : pc[<<t, c>>] = "idle"

Fresh(t) == <<t, CHOOSE c \in 1..Copies : pc[<<t, c>>] = "idle">>

Spawn(q) ==
  /\ scheduled' = scheduled \union {q[i] : i \in DOMAIN q}
  /\ waiters' = waiters \o [i \in DOMAIN q |-> Fresh(q[i])]

Goto(w, l) == pc' = [pc EXCEPT ![w] = l]

-----------------------------------------------------------------------------
(* POST /tasks: INSERT with status 'queued', then policy, budget and gate  *)
(* awaits, then submit_task.  A task that needs no approval is shown.      *)
CreateTask(t) ==
  /\ mode = "serving"
  /\ status[t] = "none"
  /\ \A u \in 1..(t - 1) : status[u] # "none"
  /\ status' = [status EXCEPT ![t] = "queued"]
  /\ submitting' = submitting \union {t}
  /\ UNCHANGED <<cid, box, mode, poolVars, cancelling, deleting, historyVars>>

(* create_task raises if the row it just wrote is gone when read back.     *)
AbandonCreate(t) ==
  /\ t \in submitting
  /\ ~Row(t)
  /\ submitting' = submitting \ {t}
  /\ UNCHANGED <<rowVars, box, mode, poolVars, cancelling, deleting, historyVars>>

(* LocalScheduler.submit: nothing for an id already scheduled.             *)
Submit(t) ==
  /\ t \in submitting
  /\ submitting' = submitting \ {t}
  /\ \/ /\ t \in scheduled
        /\ UNCHANGED poolVars
     \/ /\ t \notin scheduled
        /\ CanSpawn(t)
        /\ Spawn(<<t>>)
        /\ Goto(Fresh(t), "acquire")
        /\ UNCHANGED <<avail, seen, free>>
  /\ UNCHANGED <<rowVars, box, mode, cancelling, deleting, historyVars>>

-----------------------------------------------------------------------------
(* LocalScheduler._run_with_semaphore, one action per await; the operators *)
(* marked "fault" are deviations the properties are tested against and are *)
(* not part of the specification.  asyncio.Semaphore is first come,   *)
(* first served: a release hands the slot to the oldest waiter.            *)
SlotIgnoringLimit == TRUE   \* fault: no semaphore
SlotFree == free > 0

Acquire(w) ==
  /\ pc[w] = "acquire"
  /\ SlotFree
  /\ waiters # <<>> /\ w = Head(waiters)
  /\ free' = free - 1
  /\ waiters' = Tail(waiters)
  /\ Goto(w, "fetch")
  /\ UNCHANGED <<rowVars, box, mode, avail, seen, scheduled, handlerVars, historyVars>>

(* The row is read again once the slot is held: a task that is no longer   *)
(* queued (or in setup), or was deleted, is skipped.                       *)
RunnableIgnoringStatus(t) == Row(t)   \* fault: any row runs
Runnable(t) == status[t] \in {"queued", "setup"}

FetchLosingSlot(w) ==   \* fault: a skip returns without leaving `async with sem`
  /\ pc[w] = "fetch"
  /\ Goto(w, IF Runnable(Job(w)) THEN "prepare" ELSE "count")
  /\ UNCHANGED <<rowVars, box, mode, avail, seen, scheduled, free, waiters,
                 handlerVars, historyVars>>

Fetch(w) ==
  /\ pc[w] = "fetch"
  /\ Goto(w, IF Runnable(Job(w)) THEN "prepare" ELSE "release")
  /\ UNCHANGED <<rowVars, box, mode, avail, seen, scheduled, free, waiters,
                 handlerVars, historyVars>>

(* run_task_in_container up to the first status write.  What fails before  *)
(* its try (docker client, secrets, path validation) escapes to the pool,  *)
(* which logs it and leaves the row as it is.                              *)
Prepare(w) ==
  /\ pc[w] = "prepare"
  /\ \/ /\ SetStatus(Job(w), "setup")
        /\ Goto(w, "create")
     \/ /\ "raise" \in Events
        /\ Goto(w, "release")
        /\ UNCHANGED status
  /\ UNCHANGED <<cid, box, mode, avail, seen, scheduled, free, waiters,
                 handlerVars, historyVars>>

CreateContainer(w) ==
  /\ pc[w] = "create"
  /\ \/ /\ box' = [box EXCEPT ![Job(w)] = "up"]
        /\ starts' = [starts EXCEPT ![Job(w)] = @ + 1]
        /\ Goto(w, "record")
     \/ /\ Goto(w, "except")
        /\ UNCHANGED <<box, starts>>
  /\ UNCHANGED <<rowVars, mode, avail, seen, scheduled, free, waiters,
                 handlerVars, crashes>>

RecordContainer(w) ==
  /\ pc[w] = "record"
  /\ cid' = [cid EXCEPT ![Job(w)] = @ \/ Row(Job(w))]
  /\ Goto(w, "boot")
  /\ UNCHANGED <<status, box, mode, avail, seen, scheduled, free, waiters,
                 handlerVars, historyVars>>

(* The setup loop looks for the marker first, then for a dead container or *)
(* the five-minute deadline, which raise.                                  *)
Boot(w) ==
  /\ pc[w] = "boot"
  /\ \/ Goto(w, "mark")
     \/ Goto(w, "except")
  /\ UNCHANGED <<rowVars, box, mode, avail, seen, scheduled, free, waiters,
                 handlerVars, historyVars>>

MarkRunning(w) ==
  /\ pc[w] = "mark"
  /\ SetStatus(Job(w), "running")
  /\ Goto(w, "switch")
  /\ UNCHANGED <<cid, box, mode, avail, seen, scheduled, free, waiters,
                 handlerVars, historyVars>>

(* Network switch and `.network-switched`; the execs need a live container. *)
SwitchNetwork(w) ==
  /\ pc[w] = "switch"
  /\ \/ /\ box[Job(w)] = "up"
        /\ Goto(w, "wait")
     \/ Goto(w, "except")
  /\ UNCHANGED <<rowVars, box, mode, avail, seen, scheduled, free, waiters,
                 handlerVars, historyVars>>

(* container.wait returned.  With a result.json the final status is written *)
(* whatever the row holds; without one it is compared and set.             *)
Collect(w) ==
  /\ pc[w] = "wait"
  /\ box[Job(w)] # "up"
  /\ \/ \E s \in {"completed", "partial", "failed"} : SetStatus(Job(w), s)
     \/ \E s \in {"timed_out", "failed"} : SetStatusIf(Job(w), Active, s)
  /\ Goto(w, "clean")
  /\ UNCHANGED <<cid, box, mode, avail, seen, scheduled, free, waiters,
                 handlerVars, historyVars>>

(* container.wait(timeout=task_timeout_s) raised.                          *)
WaitTimeout(w) ==
  /\ pc[w] = "wait"
  /\ Goto(w, "except")
  /\ UNCHANGED <<rowVars, box, mode, avail, seen, scheduled, free, waiters,
                 handlerVars, historyVars>>

HandleExceptionNoFinally(w) ==   \* fault: the error path skips the removal
  /\ pc[w] = "except"
  /\ SetStatusIf(Job(w), Cancellable, "failed")
  /\ Goto(w, "release")
  /\ UNCHANGED <<cid, box, mode, avail, seen, scheduled, free, waiters,
                 handlerVars, historyVars>>

HandleException(w) ==
  /\ pc[w] = "except"
  /\ SetStatusIf(Job(w), Cancellable, "failed")
  /\ Goto(w, "clean")
  /\ UNCHANGED <<cid, box, mode, avail, seen, scheduled, free, waiters,
                 handlerVars, historyVars>>

(* finally: stop and remove; a Docker error is swallowed.                  *)
RemoveContainer(w) ==
  /\ pc[w] = "clean"
  /\ \/ box' = [box EXCEPT ![Job(w)] = "none"]
     \/ "docker" \in Events /\ UNCHANGED box
  /\ Goto(w, "release")
  /\ UNCHANGED <<rowVars, mode, avail, seen, scheduled, free, waiters,
                 handlerVars, historyVars>>

(* Leaving `async with sem`, then the finally of the pool, up to the first *)
(* await of drain.                                                         *)
ReleaseTwice(w) ==   \* fault: the finally block releases the slot again
  /\ pc[w] = "release"
  /\ free' = free + 2
  /\ scheduled' = scheduled \ {Job(w)}
  /\ Goto(w, "count")
  /\ UNCHANGED <<rowVars, box, mode, avail, seen, waiters, handlerVars, historyVars>>

ReleaseNoDrain(w) ==   \* fault: the finally block does not drain
  /\ pc[w] = "release"
  /\ free' = free + 1
  /\ scheduled' = scheduled \ {Job(w)}
  /\ Goto(w, "idle")
  /\ UNCHANGED <<rowVars, box, mode, avail, seen, waiters, handlerVars, historyVars>>

Release(w) ==
  /\ pc[w] = "release"
  /\ free' = free + 1
  /\ scheduled' = scheduled \ {Job(w)}
  /\ Goto(w, "count")
  /\ UNCHANGED <<rowVars, box, mode, avail, seen, waiters, handlerVars, historyVars>>

(* drain: available = max_concurrent - count_active().                     *)
DrainCount(w) ==
  /\ pc[w] = "count"
  /\ \/ /\ ActiveCount >= MaxConcurrent
        /\ Goto(w, "idle")
        /\ UNCHANGED avail
     \/ /\ ActiveCount < MaxConcurrent
        /\ avail' = [avail EXCEPT ![w] = MaxConcurrent - ActiveCount]
        /\ Goto(w, "list")
  /\ UNCHANGED <<rowVars, box, mode, seen, scheduled, free, waiters,
                 handlerVars, historyVars>>

(* get_queued_by_priority: one SELECT; by the time its rows are fetched    *)
(* and the connection is closed the table may have moved on.               *)
DrainList(w) ==
  /\ pc[w] = "list"
  /\ seen' = [seen EXCEPT ![w] = {t \in Task : status[t] = "queued"}]
  /\ Goto(w, "pick")
  /\ UNCHANGED <<rowVars, box, mode, avail, scheduled, free, waiters,
                 handlerVars, historyVars>>

(* drain: of the rows it has read, start the first `available` that are    *)
(* not scheduled by now.                                                   *)
ToStartAnyQueued(w) == FirstOf(seen[w], avail[w])   \* fault
ToStart(w) == FirstOf(seen[w] \ scheduled, avail[w])

DrainPick(w) ==
  /\ pc[w] = "pick"
  /\ \A t \in ToStart(w) : CanSpawn(t)
  /\ \E q \in [1..Cardinality(ToStart(w)) -> ToStart(w)] :
       /\ InDrainOrder(q, ToStart(w))
       /\ Spawn(q)
  /\ pc' = [v \in Worker |-> IF v \in {Fresh(t) : t \in ToStart(w)} THEN "acquire"
                             ELSE IF v = w THEN "idle" ELSE pc[v]]
  /\ avail' = [avail EXCEPT ![w] = 0]
  /\ seen' = [seen EXCEPT ![w] = {}]
  /\ UNCHANGED <<rowVars, box, mode, free, handlerVars, historyVars>>

WorkerStep(w) ==
  \/ Acquire(w) \/ Fetch(w) \/ Prepare(w) \/ CreateContainer(w)
  \/ RecordContainer(w) \/ Boot(w) \/ MarkRunning(w) \/ SwitchNetwork(w)
  \/ Collect(w) \/ WaitTimeout(w) \/ HandleException(w) \/ RemoveContainer(w)
  \/ Release(w) \/ DrainCount(w) \/ DrainList(w) \/ DrainPick(w)

(* The container ends by itself: the agent finished or died.               *)
ContainerExit(t) ==
  /\ box[t] = "up"
  /\ box' = [box EXCEPT ![t] = "dead"]
  /\ UNCHANGED <<rowVars, mode, poolVars, handlerVars, historyVars>>

-----------------------------------------------------------------------------
(* POST /tasks/{id}/cancel: the handler reads the row, and cancel_container *)
(* acts on that snapshot: the status and container_id it had then.         *)
CancelRead(t) ==
  /\ "cancel" \in Events /\ mode = "serving"
  /\ cancelling[t] = "none"
  /\ status[t] \in Cancellable
  /\ cancelling' = [cancelling EXCEPT ![t] =
                      IF status[t] = "queued" THEN "queued"
                      ELSE IF cid[t] THEN "kill" ELSE "active"]
  /\ UNCHANGED <<rowVars, box, mode, poolVars, submitting, deleting, historyVars>>

(* Kill the container the snapshot names; errors are ignored.              *)
CancelKill(t) ==
  /\ cancelling[t] = "kill"
  /\ \/ box' = [box EXCEPT ![t] = IF @ = "up" THEN "dead" ELSE @]
     \/ "docker" \in Events /\ UNCHANGED box
  /\ cancelling' = [cancelling EXCEPT ![t] = "active"]
  /\ UNCHANGED <<rowVars, mode, poolVars, submitting, deleting, historyVars>>

(* The statuses the conditional update expects, from the snapshot.         *)
CancelExpectsAny(t) == Status \ {"none", "deleted"}   \* fault: unconditional
CancelExpects(t) == IF cancelling[t] = "queued" THEN {"queued"} ELSE Cancellable

CancelWrite(t) ==
  /\ cancelling[t] \in {"queued", "active"}
  /\ SetStatusIf(t, CancelExpects(t), "cancelled")
  /\ cancelling' = [cancelling EXCEPT ![t] = "none"]
  /\ UNCHANGED <<cid, box, mode, poolVars, submitting, deleting, historyVars>>

(* DELETE /tasks/{id}: refuses setup, running and pending_approval, then   *)
(* deletes the row in a later transaction.                                 *)
DeleteRead(t) ==
  /\ "delete" \in Events /\ mode = "serving"
  /\ Row(t)
  /\ status[t] \notin Active \union {"pending_approval"}
  /\ deleting' = deleting \union {t}
  /\ UNCHANGED <<rowVars, box, mode, poolVars, submitting, cancelling, historyVars>>

DeleteRow(t) ==
  /\ t \in deleting
  /\ status' = [status EXCEPT ![t] = "deleted"]
  /\ cid' = [cid EXCEPT ![t] = FALSE]
  /\ deleting' = deleting \ {t}
  /\ UNCHANGED <<box, mode, poolVars, submitting, cancelling, historyVars>>

-----------------------------------------------------------------------------
(* The process dies: coroutines, the semaphore and handlers are gone.      *)
Crash ==
  /\ "crash" \in Events
  /\ crashes < MaxCrashes
  /\ crashes' = crashes + 1
  /\ mode' = "boot"
  /\ pc' = [w \in Worker |-> "idle"]
  /\ avail' = [w \in Worker |-> 0]
  /\ seen' = [w \in Worker |-> {}]
  /\ scheduled' = {}
  /\ free' = MaxConcurrent
  /\ waiters' = <<>>
  /\ submitting' = {}
  /\ cancelling' = [t \in Task |-> "none"]
  /\ deleting' = {}
  /\ UNCHANGED <<rowVars, box, starts>>

(* get_orphaned.                                                           *)
OrphanedRunning == {t \in Task : status[t] = "running"}   \* fault: setup forgotten
Orphaned == {t \in Task : status[t] \in Active}

(* recover_orphans at startup, one setup/running row at a time: remove the *)
(* container the row names (errors swallowed), mark the task failed.       *)
RecoverOrphan(t) ==
  /\ mode = "boot"
  /\ t \in Orphaned
  /\ \/ cid[t] /\ box' = [box EXCEPT ![t] = "none"]
     \/ (~cid[t] \/ "docker" \in Events) /\ UNCHANGED box
  /\ status' = [status EXCEPT ![t] = "failed"]
  /\ UNCHANGED <<cid, mode, poolVars, handlerVars, historyVars>>

(* The server starts serving when recovery is over, or when it failed (a   *)
(* Docker daemon that is down there is only logged).  Nothing resubmits    *)
(* queued rows.                                                            *)
StartServing ==
  /\ mode = "boot"
  /\ Orphaned = {} \/ "down" \in Events
  /\ mode' = "serving"
  /\ UNCHANGED <<rowVars, box, poolVars, handlerVars, historyVars>>

-----------------------------------------------------------------------------
Init ==
  /\ status = [t \in Task |-> "none"]
  /\ cid = [t \in Task |-> FALSE]
  /\ box = [t \in Task |-> "none"]
  /\ mode = "boot"
  /\ pc = [w \in Worker |-> "idle"]
  /\ avail = [w \in Worker |-> 0]
  /\ seen = [w \in Worker |-> {}]
  /\ scheduled = {}
  /\ free = MaxConcurrent
  /\ waiters = <<>>
  /\ submitting = {}
  /\ cancelling = [t \in Task |-> "none"]
  /\ deleting = {}
  /\ starts = [t \in Task |-> 0]
  /\ crashes = 0

ServerStep ==
  \/ \E w \in Worker : WorkerStep(w)
  \/ \E t \in Task : ContainerExit(t)
  \/ \E t \in Task : CancelRead(t) \/ CancelKill(t) \/ CancelWrite(t)
  \/ \E t \in Task : DeleteRead(t) \/ DeleteRow(t)

Restart ==
  \/ Crash
  \/ \E t \in Task : RecoverOrphan(t)
  \/ StartServing

Next ==
  \/ \E t \in Task : CreateTask(t) \/ AbandonCreate(t) \/ Submit(t)
  \/ ServerStep
  \/ Restart

Spec == Init /\ [][Next]_vars

(* The event loop runs every ready coroutine and handler, and a container  *)
(* wait is bounded by its timeout; nobody is obliged to send a request.    *)
Fairness ==
  /\ \A w \in Worker : WF_vars(WorkerStep(w))
  /\ \A t \in Task : WF_vars(Submit(t) \/ AbandonCreate(t))
  /\ \A t \in Task : WF_vars(CancelKill(t) \/ CancelWrite(t))
  /\ \A t \in Task : WF_vars(DeleteRow(t))
  /\ WF_vars(StartServing \/ \E t \in Task : RecoverOrphan(t))

FairSpec == Spec /\ Fairness

-----------------------------------------------------------------------------
(* Types of the variables.                                                 *)
TypeOK ==
  /\ status \in [Task -> Status]
  /\ cid \in [Task -> BOOLEAN]
  /\ box \in [Task -> {"none", "up", "dead"}]
  /\ mode \in {"boot", "serving"}
  /\ pc \in [Worker -> PC]
  /\ avail \in [Worker -> 0..MaxConcurrent]
  /\ seen \in [Worker -> SUBSET Task]
  /\ scheduled \subseteq Task
  /\ free \in 0..MaxConcurrent
  /\ waiters \in Seq(Worker)
  /\ submitting \subseteq Task
  /\ cancelling \in [Task -> {"none", "queued", "kill", "active"}]
  /\ deleting \subseteq Task
  /\ starts \in [Task -> Nat]
  /\ crashes \in 0..MaxCrashes

LiveWorkers == {w \in Worker : pc[w] \in Live}
Holders == {w \in Worker : pc[w] \in Holding}

(* Double-schedule prevention (pool.py:33-40, 85-90, 124-129): whatever    *)
(* submit, drain and the coroutines' finally blocks interleave to, a task  *)
(* has at most one coroutine between its spawn and its release, and        *)
(* _scheduled names exactly the tasks that have one.                       *)
NoDoubleSchedule ==
  /\ scheduled = {Job(w) : w \in LiveWorkers}
  /\ \A v, w \in LiveWorkers : Job(v) = Job(w) => v = w

(* Slot tracking: the semaphore's value and the coroutines inside its      *)
(* `async with` always add up to max_concurrent, so no slot is lost or     *)
(* handed out twice on any path out of the runner.                         *)
SlotAccounting == free + Cardinality(Holders) = MaxConcurrent

(* "Max concurrent runner containers" (README.md:377): containers are      *)
(* removed before the slot goes to another task, on the error paths too.   *)
ContainersWithinSlots ==
  Cardinality({t \in Task : box[t] # "none"}) <= MaxConcurrent

(* A task's agent is started at most once, although submit, the drains of  *)
(* other tasks and a restarted server may all schedule it.                 *)
RunsAtMostOnce == \A t \in Task : starts[t] <= 1

(* count_active is exact: while the server serves, a setup or running row  *)
(* has a coroutine that will still write its final status.  A row left     *)
(* behind would take a slot away from drain for ever.                      *)
ActiveHasRunner ==
  mode = "serving" =>
    \A t \in Task : status[t] \in Active =>
      \E w \in Worker : Job(w) = t /\ pc[w] \in {"prepare", "create"} \union Boxed

(* The outcome the runner recorded is final: no cancel, recovery or late   *)
(* write turns it into another status (the row may be deleted).            *)
OutcomeIsFinal ==
  [][\A t \in Task : status[t] \in Outcome => status'[t] \in {status[t], "deleted"}]_vars

(* A submitted task settles: it reaches an outcome, is cancelled or is     *)
(* deleted, whatever the other tasks in the pool do, unless the server     *)
(* dies first.                                                             *)
SubmittedSettles ==
  \A t \in Task :
    (t \in submitting)
      ~> (status[t] \in Outcome \union {"cancelled", "deleted"} \/ mode = "boot")

(* Drain loses no wake-up: if any coroutine is alive, a queued row that    *)
(* has none (left by a restart) is picked up before the pool goes idle.    *)
QueueDrains ==
  \A t \in Task :
    (status[t] = "queued" /\ LiveWorkers # {})
      ~> (t \in scheduled \/ status[t] # "queued" \/ mode = "boot")

(* The pool implements SlotPool: a task has begun when a container was     *)
(* started for it, and runs while its coroutine is between containers.run  *)
(* and the removal of the container.                                       *)
Begun == {t \in Task : starts[t] > 0}
InSandbox == {t \in Begun : \E w \in Worker : Job(w) = t /\ pc[w] \in Boxed}

SP == INSTANCE SlotPool WITH begun <- Begun, running <- InSandbox

ImplementsSlotPool == SP!Init /\ [][SP!Next]_<<Begun, InSandbox>>

(* A cancelled task stays cancelled ("Use conditional update to avoid      *)
(* overwriting cancelled status", container.py:617 and 630).               *)
CancelledIsFinal ==
  [][\A t \in Task : status[t] = "cancelled" => status'[t] \in {"cancelled", "deleted"}]_vars

(* "Queue drain order: high priority first, then normal, then low"         *)
(* (pool.py:64): what one drain starts queues for a slot in that order,    *)
(* and of the rows it has read nothing it leaves behind is more urgent.    *)
(* Rows inserted or changed since its SELECT are not in its list.          *)
DrainsByPriority ==
  [][\A w \in Worker : (pc[w] = "pick" /\ pc'[w] # "pick") =>
       LET new == Len(waiters) + 1 .. Len(waiters')
       IN \A i \in new :
            /\ \A j \in new : i < j => Prio[Job(waiters'[i])] <= Prio[Job(waiters'[j])]
            /\ \A t \in seen[w] \ scheduled' : Prio[Job(waiters'[i])] <= Prio[t]]_vars
=============================================================================
