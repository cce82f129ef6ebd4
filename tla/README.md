# sandclaude in TLA+

sandclaude is a server that runs coding agents in Docker containers. A client
posts a task; the server admits it (policy, budget), waits for a free slot,
starts a container, records what the agent produced and, after the approvals
its policy asks for, opens a pull request. This directory specifies that server:
TLA+ modules translated from the code, TLC runs over small instances, and
proofs checked by TLAPS. Paths below are relative to `src/`; `pool.py` and the
like are in `src/src/sandclaude/`.

The server is one asyncio process over SQLite. Code between two awaits is atomic,
each store call is one transaction, and any other coroutine may run at an await.
**Everywhere an action of a module ends at an await of the code.** What can go
wrong is what happens at the awaits: a value read before one and used after it,
a crash at one, two handlers that alternate at theirs.

## 1. The system

| Component | State | Operations | Talks to | Where it is hard |
|---|---|---|---|---|
| Runner pool, `runner/pool.py` | semaphore, `_scheduled`, background coroutines | submit, `_run_with_semaphore`, drain | store, task runner | drains, submits and releases interleave; slots on error paths; lost wake-ups |
| Task runner, `runner/container.py` | the container, via Docker; the refresh loop | run a task, switch networks, refresh egress, cancel, recover orphans | Docker, store, entrypoint, approval rules | status writes without a check; crash between Docker and store; timeouts |
| Sandbox, `runner/entrypoint.py`, `executor.py` | files in the output directory | setup, wait for the network switch, run, write results | task runner | handshake through files with two timeouts; half-written files |
| Task store, `db/store.py` | tables `tasks`, `approval_gates`, `users`, `tokens`, ... | insert, update, compare-and-set update, delete, queries | everybody | the only state that survives a crash |
| Task endpoints, `api/tasks.py` | locals of a handler | create, retry, cancel, delete, clear-review, stream | store, pool, policy, estimator | check, await, then act |
| Start and recovery, `api/main.py` | serving or not | admin user, adopt orphans, recover, serve | Docker, store | what a crash left behind |
| Approval gates, `api/approvals.py`, `db/store.py` | rows of `approval_gates`, `requires_approval` | insert, approve, reject, expire | store, pool | several deciders of one gate; decision and effect in different transactions |
| Policy, `policy.py`, `api/policies.py` | presets in the store | merge, resolve, evaluate rules, create required gates | store | precedence; a preset that changes between two reads |
| Budget estimator, `estimator.py` | none | estimate, verdict | store, Claude API | rounding, the boundaries of two caps |
| Risk, `risk.py` | none | classify, score | diff, audit log | what is missing from the diff |
| Pull requests, `api/prs.py`, `github.py` | git branches, GitHub | create-pr, approve-and-create-pr | store, gates, GitHub | one of many commands fails; gates read long before |
| Auth, `auth.py`, `api/tokens.py`, `users.py`, `oauth.py` | token and user rows, sessions | create, rotate, revoke, delete | store | read, revoke, insert in three transactions |
| Rate limiting, `api/deps.py` | deque of times per fingerprint | admit or 429 | create | window boundary, eviction |
| Webhooks, review, system, MCP plugin, CLI | none that others depend on | - | - | - |

What makes each correct:

* pool and runner: a task is scheduled by at most one coroutine, its agent is
  started at most once, no slot is lost or given twice, containers stay within
  `max_concurrent`, an outcome is written once and every submitted task settles;
* sandbox: the agent runs only behind its egress rules, the row tells what the
  files tell, every run and every stream ends;
* gates: each gate is decided once, no agent runs before the gates and the
  budget decision it needs, and every decision has its effect;
* pull requests: none against its gate, at most one per task;
* policy, estimator, risk: a task can only narrow its preset, what passes the
  budget check keeps to every cap, and a gate is not approved by a rule that the
  task's risk does not fit;
* tokens, users and limits: a rotated token is dead and its successor its equal, a
  deleted user has no tokens, at most N requests per window.

`PROJECT.json` lists every component with its status and every hazard
with its source line.

## 2. Modules

How they build on each other (left extends right):

    MCRunnerPool -> RunnerPool          (INSTANCE SlotPool: the refinement)
    MCApprovals  -> Approvals -> RunnerPool
    MCSandbox    -> TaskStream -> SandboxRun
    MCPullRequests -> PullRequests
    MCRegistry   -> Registry -> RateLimit
    MCAdmission  -> Admission -> Policy, Estimator, Risk
    RunnerPoolProofs   -> RunnerPool, TLAPS
    ApprovalsProofs    -> Approvals, RunnerPoolProofs
    SandboxProofs      -> SandboxRun, TLAPS
    TaskStreamProofs   -> TaskStream, SandboxProofs
    PullRequestsProofs -> PullRequests, TLAPS
    RegistryProofs     -> Registry, Positions
    AdmissionProofs    -> Admission, Positions
    Positions          -> TLAPS         (least elements, for both)

A task passes through them in this order: Admission says what its handlers compute,
Approvals how they interleave with clients and the pool until it is queued,
RunnerPool how it gets its slot, SandboxRun what happens in it, PullRequests
what follows. Each takes from its neighbours what the code takes: `Verdict` and
`Gated` of Approvals are results of Admission, the await points of a coroutine in
RunnerPool are SandboxRun seen from afar, the initial gates and flag of PullRequests are
anything Approvals may leave behind.

### RunnerPool: rows, pool, runner, cancel, delete, crash, recovery

Variables and the code they stand for:

| Variable | Code |
|---|---|
| `status`, `cid` | `tasks.status`, `tasks.container_id` is not null (store.py) |
| `box` | the container of the task in the Docker daemon: none, up, or dead and not removed |
| `mode` | the lifespan hook of main.py: recovering (`boot`) or serving |
| `pc` | the await each `_run_with_semaphore` coroutine is suspended at |
| `avail`, `seen` | the locals `available` and `queued` of `drain`: the free slots it counted, the rows its SELECT read |
| `scheduled`, `free`, `waiters` | `_scheduled`, the semaphore's value and its FIFO of waiters |
| `submitting`, `cancelling`, `deleting` | handlers between two of their awaits; for cancel, the snapshot it acts on |
| `starts`, `crashes` | history: successful `containers.run` calls, crashes so far |

A coroutine goes `acquire` (pool.py:96), `fetch` (97-98), `prepare` (up to the
first status write, container.py:365), `create` (`containers.run`, 400), `record`
(`container_id`, 402), `boot` (the setup loop), `mark` (status running, 433),
`switch` (networks and marker), `wait` (`container.wait`, then the final write),
`except`, `clean` (the finally), `release` (leaving `async with`, pool.py's
finally), then `count`, `list` and `pick`: `drain` counts the active rows (pool.py:121),
selects the queued ones (125, store.py:433-443), and when its coroutine goes on picks from
that list, of which only `_scheduled` is looked at again (126-129). `SetStatus` is
`update_task`, which writes whatever the row holds and does nothing to a missing
row; `SetStatusIf` is `update_task_if_status`. Which writes are conditional
is the code's: setup, running and the status taken from `result.json` are not.

Docker, the agent and git are external: the container exits whenever it likes,
and a call to Docker may fail when the constant `Events` allows it. `Events`
holds what the environment may do in a run: `cancel`, `delete`, `crash`,
`docker` (a kill, stop or remove fails and is swallowed), `raise` (an exception
before the runner's `try`), `down` (recovery at startup fails as a whole).

### SlotPool: what the pool promises

An abstract specification with a set of tasks that have begun and a set that
run: each begins at most once, and at most `MaxConcurrent` run. RunnerPool
implements it under the mapping *begun = a container was started*, *running = the
coroutine is between `containers.run` and the removal* (`ImplementsSlotPool`).

### Approvals: admission and gates

Extends RunnerPool by the create handler between its INSERT and `submit_task`,
by approve and reject, and by expiry.

| Variable | Code |
|---|---|
| `gate` | `approval_gates.decision` per task and action (`none`: no row) |
| `due` | pending gates whose `expires_at` has passed; the row changes only when somebody reads the gates |
| `flag` | `tasks.requires_approval` |
| `req` | the create, approve and reject handlers in progress: await and surviving locals |

`Admit`, `Discard`, `InsertBudgetGate`, `Park`, `InsertGate`, `AutoApprove`,
`FlagGates` and `SubmitTask` are `create_task_endpoint` and `create_required_gates`,
one store call each; `Request` and `DecideGate` are what approve and reject
share, `ApproveRefetch` to `ApproveClear` the rest of the approve endpoint, whose
resume path creates the policy's gates and writes `queued` several awaits after
it saw `pending_approval`; `RejectRefetch` and `RejectFail` that of reject.
`Verdict` (for each task, the set of verdicts its budget check may give),
`Gated` (the policy's list) and `Breaks` (an administrator may make the preset invalid under
a handler) are constants; whether an approval rule approves a new gate is a free
choice. Where a preset is resolved after a write (tasks.py:107 after the INSERT, approvals.py:94
after the approval) `PolicyRaises` takes the handler to `raised`, from where `AnswerError`
ends it with a 500 and leaves the rows as they are. `Budget` is the action
`budget_exceeded`.

### SandboxRun: host, container, refresh loop

One run of a task as the three processes it consists of.

| Variable | Code |
|---|---|
| `pc`, `known` | the await of `run_task_in_container`; whether the row has a `container_id` |
| `row` | `status`, `error_category` and `review_required` of the task |
| `net` | `skip_network_isolation` with `environment`: isolated, skipped, or refused |
| `box`, `code` | the container as Docker reports it, its exit code |
| `step`, `made` | where `entrypoint.main` is; the `ExecutorResult` it got |
| `files` | the output directory: both markers, `result.json` and the three artifacts, each of which may be torn (opened, not yet written) |
| `nets`, `rules`, `guard` | the container's networks, the addresses its OUTPUT chain accepts, the final DROP |
| `loop`, `ips`, `fresh` | `_refresh_egress_loop`: its state, `known_ips`, the new ones of a round |
| `cancel` | how far a cancel request is: it acts on a snapshot |

`Start` to `Wait` are the host's awaits in order, `Collect` the status it takes
from `result.json`, `Except` and `StopBox`/`RemoveBox` its `except` and `finally`;
`Setup` to `Exit` the entrypoint with its timeouts and errors, one action per
file opened or written; `Resolve`, `OpenChain`, `CloseChain` a round of the
refresh. `Events` says what may come in between: a cancel, a kill (out of
memory), failing Docker calls, a full disk. **TaskStream** adds `stream_task`: `at` is its await, `told` its
last message.

### PullRequests: after the run

`row`, `gate` and `due` are as in Approvals, `auto` is the runner inside
`evaluate_post_execution_rules`, `req` maps a request to its handler (endpoint,
await, and the create_pr gate as it last saw it), `refs` and `origin` are the
branches in the local repository and on the origin, `opened` the requests for
which gh opened a pull request. `CheckReview`, `CheckGates`, `Decide`,
`CheckPending` and `ClearFlag` are the awaits of `create_pr_endpoint` and
`approve_and_create_pr_endpoint` (approve and reject share the last three);
`ReadDiff`, `MakeBranch`, `Push` and `OpenPR` are `github.create_pr`, where every
git command may fail and leave behind what it had done. No gate is inserted in this
module: runs start with any gates and either flag, and what the flag promises is checked in
Approvals, where gates are inserted, decided and flagged.

### Registry and RateLimit: users, tokens, limits

| Variable | Code |
|---|---|
| `user`, `token`, `task` | the rows: name; life, owner, expiry, scopes and (history) predecessor; owner columns of tasks |
| `mode` | the steps of `_ensure_admin_user`, then serving |
| `bucket` | `_create_rate_buckets` |
| `req` | the handler of a request: endpoint, await, surviving locals |
| `now`, `accepted`, `crashes`, `mix` | the clock; history: times let through; bounds |

`Begins` is `verify_token_with_scopes` with `require_scope`. `ListForRotation`,
`Revoke`, `Insert` are the three transactions of a rotation, `ListForDeletion`,
`RevokeNext`, `DeleteUser` those of a deletion, `Limit` and `InsertTask` what
task creation does with owners. `RateLimit` holds the window's operators.

### Policy, Estimator, Risk, Admission: what is computed, and when

`Policy` translates `merge_policy` field by field (`Narrow` for the guarded ones,
`OtherFields` for the rest), the rules and their predicates; a config is a
function from field names to values, `None` for absent, `Odd` for a value pydantic refuses (a
list where a number belongs, null for a switch). A text that pydantic takes for a number ("100")
is kept by `merge_policy` as it is, whatever the task asks for (policy.py:100-105), and
becomes a number afterwards (159): the constant `Number` says which texts those are,
`Parsed` what they become. `Estimator` counts money in tenths of a micro-dollar, in which every
price per token is an integer, and rounds where the code does. `Risk` has
`CaptureDiff`, which follows the order in which git commands fail and skip, and
the score; a file is known by the pattern lists its path matches.

`Admission` puts them in time: `preset` is the stored preset, which `SavePreset`
and `DeletePreset` may change between any two actions; `base` and `policy` are
what the last `resolve_effective_policy` read and returned; `static`, `total`
and `verdict` the budget check, `gates` what became of each gate, `env` and
`recorded` the secrets, `tree`, `git`, `found` the worktree and its capture, `stored`
the files that `diff.patch` shows once `_write_artifact` has cut it at 50 MB, `risk`
the level, computed from `stored`. `EstimateRaises` and `ApproveBudgetRaises` are the
paths on which a preset has become invalid; they end in the rows the code leaves
(`stranded`). `PostRulesRaise` is the same after the run, or a file that was cut where it
cannot be parsed: the rules are then not evaluated and the gates stay.

The MC modules define the instances' constants. Operators
commented *fault* are plausible bugs; they are in no specification and exist to
confirm that each property notices the bug it is there for.

## 3. Runs

| Run | Instance | Shows |
|---|---|---|
| `pool_slots` | 3 tasks, 2 slots; setup failures, dead containers, timeouts | `TypeOK`, `NoDoubleSchedule`, `ContainersWithinSlots`, `DrainsByPriority` |
| `pool_faults` | 2 tasks, 1 slot; cancel, delete, one crash, exceptions | `SlotAccounting`, `RunsAtMostOnce`, `ActiveHasRunner`, `OutcomeIsFinal`, `ImplementsSlotPool` |
| `pool_liveness` | 2 tasks, 1 slot; cancel, one crash, Docker errors, fairness | `SubmittedSettles`, `QueueDrains` |
| `gates_single` | 1 task with any verdict, 2 requests; expiry, delete, one crash, Docker down at startup, a preset that becomes invalid, fairness | `BudgetHoldsRun`, `GatesBeforeRun`, `FlagCoversPending`, `DecisionIsFinal`, `DecisionTakesEffect`, `ApprovalsTypeOK` |
| `sandbox` | 2 addresses; cancel, kill, Docker errors, full disk, a stream, fairness | `AgentBehindRules`, `KnownAreAllowed`, `OutcomeMatchesFiles`, `EndedRunIsSettled`, `RunEnds`, `StreamCloses`, `DoneIsFinal`, `SandboxTypeOK` |
| `delivery` | 3 requests of any of 6 endpoints, 2 gated actions, local or remote repository | `AtMostOnePR`, `PRHonoursGates`, `DeliveryTypeOK` |
| `registry` | 2 handlers; up to 3 users and 3 tokens, 3 instants, 2 crashes | `RotatedIsRevoked`, `SuccessorKeeps`, `AccessFollowsRotation`, `DeletionRevokes`, `ServesWithAdmin`, `RateHolds`, `RegistryTypeOK` |
| `admission` | 6 presets, 5 requests, 3 files, one change of the preset | `TaskNarrows`, `AdmittedWithinCaps`, `UnwarnedDiffIsComplete`, `CIChangeKeepsGate`, `AdmissionTypeOK` |

Four runs are expected to be violated; each refutes one statement of the docs,
a comment or a test, and PROJECT.json quotes it:

| Run | What happens |
|---|---|
| `pool_cancel_lost` | cancel wins between `fetch` and the write of `setup`, and is overwritten; the task runs to an outcome |
| `gates_budget_race` | the row is `queued` before the budget check comes back, so another task's drain starts it |
| `gates_expiry` | an expired budget gate leaves its task in `pending_approval`, which approve, reject, cancel and delete all refuse |
| `admission_context` | the approval of a budget gate evaluates the approval rules without secrets, repository and cost, and approves the create_pr gate of a task they would hold |

The drain race (`gates_budget_race`) has three consequences: with two tasks and the
constant `Verdict` that lets the first pass, `BudgetHoldsRun` fails
(the run), `GatesBeforeRun` fails (a drained task may finish before its `create_pr`
gate exists, after which create-pr finds no gate to wait for) and, once the
parked task is approved, `RunsAtMostOnce` fails. The first two hold in `gates_single`
because with a single task no other drain exists: that run is about the handlers, and
its scope is exactly that.

The theorems say that this race is the cause and not one of several. Under the hypothesis
`DrainsAdmitted` (no drain reads a task whose create handler is still at work) the
composition runs a task at most once for any number of tasks and requests and with all
events (`ComposedOnce`); and it keeps gates and budget if, besides, the server does not
die, no preset becomes invalid under a handler, no action is listed twice and
`budget_exceeded` is not listed at all (`AdmittedGates`, `AdmittedBudget`). The last four
conditions are divergences of their own (section 5).

Two properties except what the code does not guarantee, and say so. `DecisionTakesEffect`
excepts the death of the server and a handler at `raised`. `FlagCoversPending` (a pending gate
that no handler is still to flag has the flag set) excepts a crash between the gate and its
flag, and policies with two gates or more, where an approval between the two insertions
clears the flag for both: without the exception, and with a second gated action, TLC finds
that trace in the instance of `gates_single` (section 5). What a drain reads may be stale when it picks, so
`DrainsByPriority` is about the rows it has read.

**Bounds.** One slot and two tasks suffice for every race between a release, a
drain, a submit and a second waiter; two slots and three tasks are the smallest
pool where two drains run at once and compete for one queued row. `Copies = 2`
bounds the coroutines of one task that are alive at once: an old one past its
release and a new one. It binds only for draining coroutines that are
rescheduled again and again, and is a guard (`CanSpawn`), so nothing wraps.
`MaxCrashes = 1`: recovery reads only rows and containers, and a second
crash during it repeats a prefix of it. `Requests = 2` in Approvals: two handlers are
the smallest number that race for a gate; ids are never reused, so tasks are
numbered in the order of creation.

SandboxRun needs no bound but `Addr`: two addresses are one that is allowed from
the start and one that a refresh adds. In `delivery` three requests let two pull
requests race while a third decides, expires or deletes; what they do to
other rows does not concern this one, so one task suffices. Requests are
interchangeable and there is no liveness property, so symmetry is sound there and
in `registry`. `registry` splits its behaviours by `Mixes`, each a set of
endpoints that share state (rotation with time, rotation with tasks, the limit with
time, users with tokens, users alone, restarts) with as many rows as their races
need; a window of one instant over three instants has requests inside, on and
outside its boundary, and `MaxBuckets = 1` makes the eviction run. In `admission` the
six presets differ in every field the merge treats differently, one is
malformed and one has texts where numbers belong; costs lie below, in and above the gray zone; one edit separates any
two reads of the preset. `Answers`, `Costs` and `Trees` have values on both
sides of every threshold.

Behaviours are finite (or end with a run), hence `CHECK_DEADLOCK FALSE`: once all
ids or requests are used the system really stops.

**Fairness.** `Fairness` and `ApprovalsFairness` ask of every coroutine, handler and
of recovery that it takes a step it can take: the event loop runs every ready
coroutine. A coroutine in `wait` can always step because `container.wait` has
a timeout; the setup loop has a deadline. Nobody has to send a request, the
container need not exit by itself, and a gate need not fall due. Liveness
is stated "unless the server dies" (`mode = "boot"`), as handlers and coroutines do not
survive it; `raise` is excluded because its cause may last, and then a drain
schedules the same row for ever.

In SandboxRun only the host is weakly fair. Its setup loop alternates between
`Look` and `Poll`; its deadline of 300 s is the branch of `Poll` that ends in
`except`, and strong fairness of that branch says that time passes. The same holds for
the deadline that `stream_task` looks at in each round (`CheckStatus`). The
container, the refresh loop, DNS and the clients are under no fairness: `RunEnds` and
`StreamCloses` hold though the agent never ends.

## 4. Proofs

Eight modules hold proofs, each for every value of the constants. Nothing is assumed but
the named `ASSUME`s of the modules, which TLC evaluates in the runs, and the hypotheses
the table states:

* on `Events`: an environment that does less;
* on the constants of Approvals: `NumTasks = 1`, the scope of `gates_single`; `~Breaks`, no preset
  becomes invalid under a handler; `Distinct` and `BudgetNotGated`, a policy that lists no
  action twice, and not `budget_exceeded` (section 5 says what the code does otherwise);
* on behaviours: `DrainsAdmitted`, `DrainsGated`, `DrainsFunded`. Each says of the queued
  tasks a drain reads that they are not being created, have their gates, have no open budget gate.
  **The code guarantees none of them**: their failure is the finding of `gates_budget_race`. They
  hold in every behaviour in which no drain ends inside a create handler's awaits, which is
  the ordinary case, and the theorems say that nothing else is needed.

| Theorem | Property |
|---|---|
| RunnerPoolProofs: `TypeCorrect` | `Spec => []TypeOK`; in particular the semaphore never exceeds its limit |
| `DoubleSchedulePrevention`, `SlotsAccounted`, `AtMostOneRun` | `[]NoDoubleSchedule`, `[]SlotAccounting`, `[]RunsAtMostOnce` |
| `OutcomesFinal` | `Spec => OutcomeIsFinal` |
| `DrainOrder` | `Spec => DrainsByPriority` |
| `PoolRefinesSlotPool` | `Spec => ImplementsSlotPool`: the pool implements `SlotPool` |
| `ActiveRowsHaveRunners` | `[]ActiveHasRunner`, if `"down"` is not in `Events` |
| `ContainersFit` | `[]ContainersWithinSlots`, if `"crash"` and `"docker"` are not in `Events` |
| ApprovalsProofs: `ApprovalsTypeTheorem`, `DecisionTheorem` | `[]ApprovalsTypeOK`, `ApprovalsSpec => DecisionIsFinal` |
| `ComposedSlots` | `[](SlotAccounting /\ NoDoubleSchedule)` of the composition |
| `ComposedRows`, `ComposedContainers` | `[]ActiveHasRunner`, `[]ContainersWithinSlots` of the composition, with the hypotheses on `Events` above |
| `ComposedOnce`, `ComposedOutcomes`, `ComposedRefines` | `[]RunsAtMostOnce`, `OutcomeIsFinal`, `ImplementsSlotPool` of the composition, under `DrainsAdmitted` |
| `SingleTaskRun` | the first two, for `NumTasks = 1` |
| `GatesBeforeRunTheorem`, `SingleTaskGates`, `AdmittedGates` | `[]GatesBeforeRun`: under `DrainsGated`; for `NumTasks = 1`; under `DrainsAdmitted` without crash, with `Distinct` and `~Breaks` |
| `BudgetHoldsRunTheorem`, `SingleTaskBudget`, `AdmittedBudget` | `[]BudgetHoldsRun`, with `BudgetNotGated`: under `DrainsFunded`; for `NumTasks = 1`; under `DrainsAdmitted` without crash, with `Distinct` and `~Breaks` |
| SandboxProofs: `SandboxTypeTheorem`, `OutcomeTheorem` | `[]SandboxTypeOK`, `[]OutcomeMatchesFiles` |
| `SettledTheorem`, `KnownTheorem`, `BehindTheorem` | `[]EndedRunIsSettled`, `[]KnownAreAllowed`, `[]AgentBehindRules` |
| TaskStreamProofs: `DoneTheorem` | `StreamSpec => DoneIsFinal` |
| PullRequestsProofs: `Types`, `OnePRTheorem` | `[]DeliveryTypeOK`, `[]AtMostOnePR` |
| `GateTheorem` | `DeliverySpec => PRHonoursGates` |
| RegistryProofs: `RegistryTypeTheorem`, `RotatedTheorem`, `SuccessorTheorem` | `[]RegistryTypeOK`, `[]RotatedIsRevoked`, `[]SuccessorKeeps` |
| `AccessTheorem`, `RateTheorem` | `[]AccessFollowsRotation`, `RegistrySpec => RateHolds` |
| `DeletionTheorem`, `AdminTheorem` | `RegistrySpec => DeletionRevokes`, `RegistrySpec => ServesWithAdmin` |
| AdmissionProofs: `AdmissionTypeTheorem` | `[]AdmissionTypeOK` |
| `NarrowsTheorem`, `CapsTheorem`, `DiffTheorem`, `CIChangeTheorem` | `[]TaskNarrows`, `[]AdmittedWithinCaps`, `[]UnwarnedDiffIsComplete`, `[]CIChangeKeepsGate` |

**RunnerPool** (any number of tasks, slots, copies and crashes, any priorities and
events). `TypeOK` is not inductive: that `free + 1` stays within the pool
needs that every holder is counted. So `IInv` conjoins

* `TypeOK` and `SlotInv`: finitely many coroutines hold slots and, with the free
  ones, they add up;
* `NoDoubleSchedule`: `_scheduled` is exactly the tasks of live coroutines and no
  task has two. Every spawn tests `_scheduled`, so exactness is what keeps the
  second half inductive, and the second half is what lets a release take the
  id out of `_scheduled` without hiding another coroutine;
* `BootIdle`: while the server recovers, no coroutine lives;
* `WritesBeforeOutcome`: a coroutine that may still write a status
  unconditionally belongs to a row without an outcome, which carries `OutcomesFinal`
  through the unconditional writes;
* `Created`: what is submitted, scheduled or read by a drain has been created;
* `StartInv`: `RunsAtMostOnce` itself, with its three reasons: a started task is
  not queued any more, one whose coroutine has not reached `containers.run` has
  not been started, and a row in setup that has been started belongs to its
  coroutine or to recovery. The status test after the slot is taken is
  what ties them together.

`Initial`, `Inductive` (one lemma per conjunct, one step per action) and `Invariance`
are the usual three facts; the theorems follow.

The refinement needs two facts of `IInv` in the abstract step *begin*: a coroutine at
`create` holds a slot that no boxed coroutine holds, so there is room
(`RoomToBegin`, by counting holders), and its task has not begun
(`NotYetStarted`). Every other step leaves *begun* and *running* alone or takes a
task out of *running*. `ActiveHasRunner` is not inductive: a coroutine that is past
its final write still has a container. `ActiveOwned` narrows the coroutine to one
that is at `create` or boxed and not yet in its `finally`. If recovery fails as a
whole (`down`) a row stays active without a coroutine, hence the assumption.
`ContainersFit` adds `BoxHeld` (a container belongs to a coroutine that has still to
remove it), which a crash or a failed removal breaks: the code then does leave
containers outside the pool. `DrainOrder` is about one step: `Before` orders tasks totally
(`BeforeOrders`), and the slice to `available` is counting, so a task that was read and is
left has at least as many before it as there are slots, and none of those taken comes after
it (`LeftIsLater`).

**Approvals** (any number of tasks, requests and gated actions, any verdicts). The
writes of approve, reject, rules and expiry compare before they set. The one that
does not is the insertion of the budget gate, so the theorem rests on it meeting no
row: `GatesInv` says that a task before its INSERT has neither gates nor
handlers (`NoneUntouched`), and that one on its way to its budget gate has no gates and
only its create handler (`BudgetUntouched`). `InsertedStep` shows that no step of
the whole composition, pool included, takes a row back to before its INSERT.

What the pool guarantees carries over: a step of the composition is a step of RunnerPool or
a write of a handler to one row (`PoolOrRow`), and `Accounts` (types, slots, `_scheduled`)
survives the second kind because it does not mention the row. That is `ComposedSlots`, and
with `ActiveOwned` and `BoxHeld` beside it `ComposedRows` and `ComposedContainers`.

A task is *launched* when it has a coroutine, has been started, or waits in `submit_task`
with no create handler left. `LaunchInv` says that a launched task has a row and that a create
handler ends in its loop over the gates or gives its task up; `GatedInv` and `FundedInv` add
that a launched task has its gates, or no open budget gate. A
handler launches a task only behind its gates, so of all steps only a drain can break the
two, which is what `GatesBeforeRunTheorem` and `BudgetHoldsRunTheorem` state. With one task
a drain belongs to a coroutine of that task, which was launched already.

`RunsAtMostOnce` is harder here, since approve writes `queued` several awaits after it saw
`pending_approval`, and cancel, delete, a second approval or recovery may come in between.
`AdmittedInv` explains why it is still written on a row that was never started: a task has
one create handler, and its budget gate one decider, as a second finds it decided
(`OneCreator`, `OneDecider`); a task that is being created, parked or resumed has not been
launched (`CreatingRows`, `ParkedRows`, `ResumingRows`), and only its own handler, a cancel
or a delete takes it out of there. After the write the handler reads the row again and
submits; if a drain was faster the container belongs to that coroutine (`RereadRows`,
`SetupHeld`), so that the second submit changes nothing. `CreatingRows` is where the drain
race enters: without `DrainsAdmitted` it is false. `AheadMissing`, `QueuedGated` and
`QueuedFunded` then say that without a crash or a preset that raises a queued task whose handler is gone has all
its gates, hence `DrainsGated` and `DrainsFunded` follow and need not be assumed. TLC checked
`AdmittedInv` before it was proved, exhaustively on one task with all events and on two
tasks as far as some 10^7 states.

**SandboxRun.** `SandboxInv` is the typing (`Shape`, `HostValues`, `BoxValues`,
`NetValues`), `Settled` (past the except clause or the collected result the row has an outcome; a cancel cannot
take that back, as it only writes over unsettled rows), `Known` (`ips` are in the
chain as long as the container is up; a round of the refresh adds to both or to
neither) and `Switching`, which says for each await of the host between the
rules and the wait what networks and guard are. The marker
`.network-switched` exists only after them, which is what the agent waits for. `Written`
orders the files: `result.json` comes first and an artifact only behind the one before it, so
that an entrypoint that got to its end has written them all; `cut` marks one that did not.
`Outcome` ties the row to them: a row with a result belongs to a run that is over,
whose files nobody writes any more. **TaskStream** needs only that a completed or failed row
means a coroutine in its `finally` (`Settled`), so that nobody writes the row again.

**PullRequests** (any initial gates and flag). `DeliveryInv` adds to the type invariant `BranchInv` (all requests use one
branch name, so at most one of them has pushed and only it can be at gh) and
`GateInv` (what a handler that has passed each check still knows of gate and
review: an approved gate stays approved, a review only goes from due to clear).

**Registry** (any number of users, tokens, requests and starts). `RegistryInv` is
`Core` (types; ids are given in order, so that an insert meets no row), `Family`
(the two invariants themselves), `Starting` (the start runs alone, and each of its
steps keeps what the one before did) and `Working`, the facts about a handler
between two transactions: what a rotation read of its token is still so, and the token is
dead once it goes on to insert (`RotatingAt`); of the tokens a deletion listed, each is
revoked or still to do (`DeletingAt`). They survive the other handlers because
rows of the token table stay and only die (`Grows`). `Owned` adds that task rows and
creations under way bear the owner of their token; only a start may have adopted the token
and not yet the task. `AccessFollowsRotation` speaks of ancestors through any number of
rotations: they are the least set closed under predecessors, so it is enough that
"has the same owner" is such a set. `Limited` relates each deque to what was accepted:
the deque is the end of that history, and what it lost (popped, or evicted with its key) is
outside the window (`Recalls`). When one more is let through the deque holds fewer than the
limit, so the oldest of the last `MaxRequests` is among the lost.

**Admission.** `AdmissionInv` is `MergedPolicy` (the effective policy is what
`EffectivePolicy` makes of `base` and the request), `Budgeted` (the verdict is
that of the recorded estimate) and `Captured` (what was found is what
`CaptureDiff` yields of tree and git). `Figures`, `Staged`, `Held` type the rest, and
`Rated` says that no gate bears a rule's approval before the rules are evaluated. Of the
conjuncts of `AdmissionAssumption` three exist for the typing: a list of domains is not the
value that stands for "absent" or "malformed", and a list of rules has a length. The content is in the lemmas
about the operators: `MergeNarrows` and `TaskMergeNarrows` (the merge of a field is at least
as strict as the preset and, where the preset's value is not a text that stands for a
number, as the task), `CapBounds`, `ModelMaxType`, `StaticType`, and
`CaptureComplete` (a capture without warning shows all that is not committed), and
`PostRulesKeepGate` (a verdict is that of a rule that applies, and one that names risk levels
without `high` does not apply to a change of the CI configuration).

**Positions.** The induction schemas of the library take an operator as parameter, which the
provers cannot instantiate. Where a proof needs the *first* position with some
property (the rule that decides, the first time still in the window), it takes the least
element of a set of naturals (`LeastElement`), from well-foundedness.

Only model-checked are the five liveness properties `SubmittedSettles`, `QueueDrains`,
`DecisionTakesEffect`, `RunEnds` and `StreamCloses`, as the prover has no rules for
fairness and ENABLED, and `FlagCoversPending`, whose scope is one gate. Every other property of a passing run is a theorem; the
properties of the four runs that expect a violation are refuted there.

## 5. Known divergences

What the code does otherwise than its docs say, or than one would expect, met while
modelling and not the subject of a run. The models contain these behaviours; where
a property excepts one, its comment says so.

Pool and recovery:

* A row inserted while a drain fetches its list (pool.py:125-129) is left behind the lower
  ones the drain has read, whatever its priority.
* Submitted tasks queue on the semaphore in arrival order whatever their
  priority; docs/GETTING_STARTED.md:558 says that `high` jumps the queue.
* A crash between `containers.run` and the write of `container_id`
  (container.py:400-402) leaves a container recovery does not know (README.md:50).
* DELETE checks a status and deletes in a later transaction (tasks.py:413-419): a
  queued task that gets its slot in between is deleted while it runs.
* Queued rows are not resubmitted at startup; if Docker is unreachable then,
  active rows stay active.

Admission and gates:

* A crash between the approval of a budget gate and the write of `queued`
  (approvals.py:67, 100) parks the task for ever; so does an approval after the preset
  has become invalid (approvals.py:94), which answers 500.
* The flag can be cleared too early when a policy has two gates: create inserts the first
  (policy.py:266-292), a client approves it and `has_pending_gates` finds none
  (approvals.py:121), create inserts the second and sets the flag (policy.py:293-297), the
  approval clears it (approvals.py:122). The task then has `requires_approval = 0` with a gate
  pending, against docs/V020_ARCHITECTURE.md:28. A crash between the gate and the flag has
  the same result.
* A crash between the INSERT and the gates (tasks.py:82, 143) leaves a queued row without
  gates, which the drain of another task starts.
* The budget gate is written before the row is parked (tasks.py:156-157): a decision in
  between finds a queued row and does nothing with it, and the task is then parked for ever.
* A preset that lists an action twice, or `budget_exceeded`, violates UNIQUE in
  `create_required_gates` (policy.py:293): the handler answers 500 and the row
  stays as it is.
* A preset made invalid between the checks and `resolve_effective_policy`
  (tasks.py:107), or before a retry, raises after the row is inserted as queued, and a later
  drain of another task starts it without gates; malformed approval rules raise in the middle
  of `create_required_gates`, with the gates before inserted and not flagged; a retry checks neither repository nor branch (tasks.py:526).
* A deleted preset counts as no restriction (policy.py:138-144).
* Rules without a risk predicate approve before the risk is known
  (policy.py:262-290).
* A preset with a number written as text (`{"max_turns": "100"}`, which the policy API takes) drops
  the task's own, lower limit in the merge (policy.py:100-105), as its check is for int and
  float; pydantic then reads the text as a number (159). `max_cost_usd` is still bounded by
  the request (tasks.py:117-121). `TaskNarrows` excepts it for the task's side.
* `max_turns`, `timeout_s` and `allowed_domains` of a preset are merged, but the
  container gets the task's own (container.py:317-341, 653-677).
* A denied secret does not fail its task (docs/V020_ARCHITECTURE.md:242).
* Reject of the last pending gate leaves `requires_approval` at 1
  (docs/V020_ARCHITECTURE.md:28).

The run:

* `container.wait` that times out raises, so the task ends as failed with
  `agent_error` and not as `timed_out` (container.py:464-483, 628-639; README.md:78);
  `setup_failure` and `setup_timeout` are overwritten the same way. A
  cancelled run whose kill is seen first is recorded as `timed_out`.
* A container killed after `result.json` leaves a completed task without artifacts.
* A failed refresh script may leave the chain without its DROP, and ends the loop
  (container.py:810-825).
* The markers of an earlier run in the same output directory are not removed
  (container.py:312).
* A half-written transcript makes `_read_json_async` raise an HTTPException that
  `stream_task` does not catch (tasks.py:799-801); `partial` and `timed_out` tasks are
  never reported as done (tasks.py:804). A client told `cancelled` may find the task with
  another outcome.
* `git ls-files` and the `--no-index` diffs raise no warning when they fail
  (executor.py:395-414). A diff above 50 MB is cut before its risk is computed, which only the
  container's log tells (entrypoint.py:293-303). A CI file whose path matches a test pattern is
  classified as a test (risk.py:15-17).

Tokens: one that expires between `is_active` and the computation of what remains
(tokens.py:117-133) rotates into one that never expires. A token created for a user
while that user is being deleted survives.

## 6. Not modelled

* Webhooks, the review call, metrics, doctor, lists, bundles, timelines, the MCP
  plugin and the command line: no state depends on them.
* OAuth, session cookies and signed approval links: cryptography and HTTP
  redirects; hashes are taken as names.
* The retention cleanup (store.py:477-509), cost and label columns, seeding of
  presets, the worker checks.
* Errors of SQLite itself, and cancellation of a request by a client that hangs
  up between two awaits.
* In `Policy`: fractions in integer fields, elements of the wrong type inside a list, and `when`
  predicates that are not well formed.
* The texts of pull requests, risk summaries and prompts; which paths match which
  pattern; what a DNS server or GitHub answers beyond success and failure.

## 7. Plan

1. SandboxRun as a refinement of the coroutine of RunnerPool: `boot`, `switch` and
   `wait` as its abstraction.
2. The retention cleanup racing with deletion and retry.
