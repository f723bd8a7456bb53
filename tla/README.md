# A verification model of the exarchos engine

Exarchos is a local, event-sourced engine that governs agent workflows. A
process (an MCP server or a CLI call) opens a state directory, appends events to
streams in a SQLite file, keeps one state document per workflow, and derives its
views from the log. Several processes share one state directory, every handler is
asynchronous, and any process may die at any time: the correctness of the engine
is that of its log, of the document next to the log, and of the wakes that carry
the log to its readers.

This directory holds TLA+ models of that core, the TLC runs that check them on
small instances, and proofs that TLAPS checks for every instance. Paths below are
relative to `src/`; `PROJECT.json` names, for every definition, the lines it
stands for.

    tlc -config AppenderRace.cfg MCAtomicAppender.tla
    tlapm AtomicAppender_proof.tla

## 1. Inventory

### Components, their state and their operations

| component | source | state | operations |
|---|---|---|---|
| event appender | `src/events/atomic-appender.ts`, transactions in `src/storage/sqlite-backend.ts` | `events`, `sequences` (the *gate*), `idempotency_claims`; one promise chain per stream and process | `append`, `appendUnkeyed`, `appendComputed`, `withSession`, `decide`, `decideOnce`, `deleteStream`, `pruneEvents`, repair at open |
| event store | `src/events/store.ts` | observers, subscription registry | facade: `append`, `batchAppend`, `appendTrailAtomically`, `query`, `subscribe` |
| subscriptions | `src/events/subscriptions.ts` | a cursor per stream, `floorVersion`, a poll timer | register, commit hook, tick, drain, dispose |
| workflow state document | `src/workflow/handlers/*.ts`, `src/workflow/state-store.ts` | one `workflow_state` row: JSON with `_version`, `_eventSequence`, `_esVersion`; a version column | `handleInit`, `handleSet`, `reconcileFromEvents`, checkpoint, cleanup |
| transition algorithm | `src/workflow/state-machine.ts`, `hsm-*.ts` | none (reads document and events) | edges, guards, compound states, history, fix-cycle breaker |
| cancel saga | `src/workflow/cancel-process-manager.ts`, `compensation.ts` | its events: ownership epochs, attempts, outcomes | acquire ownership, fenced append, compensate, complete |
| outbox | `src/sync/outbox.ts` | `outbox` rows with attempts and backoff | add, drain, replay dead letters, clean up |
| sidecar | `src/storage/sidecar-*.ts` | a JSONL file per hook process, `.drain` files | write a line, periodic drain, merge |
| merge lease | `src/verbs/worktree/merge-serializer.ts` | `inFlightMerges` of the worktrees stream | claim, release, reclaim a dead holder, wait, reconcile |
| worktree manager | `src/verbs/worktree/manager.ts`, `projections/worktrees.ts` | entries and `inFlightPrunes` of the same stream; the trees git lists | reserve, release, adopt, probe, prune, recover a crashed removal |
| merge orchestration | `src/verbs/merge/*.ts` | git, and events | preflight, merge, roll back |
| tasks | `src/verbs/tasks/tools.ts` | task events, the task list of the document | claim, complete, fail |
| gate runs | `src/verbs/gates/gate-runner.ts`, `durable-gate-producer.ts` | evidence records and `gate.executed` signals of a task | run, reuse the record of the same operation, supersede |
| compaction | `src/storage/lifecycle.ts` | archive files | archive, delete stream, delete state |
| projections, wait | `src/projections` | snapshots, view caches with cursors | fold, snapshot, wait for an event |
| dispatch | `src/dispatch` | per-operation queues | validate, authorize, serialize, call the handler |
| launcher | `src/runtime/launcher` | a child process | start, forward signals, tear down once |
| contracts, registry, adapters, CLI, configuration, installation, review, vcs, runbooks, architecture, describe | the rest of `src/` | files, static tables | validation, rendering, I/O |

### How they interact

A handler appends through `EventStore`, which calls the appender; the appender
queues the call behind the earlier calls of its stream in its own process,
runs one `BEGIN IMMEDIATE` transaction against the shared file, and then fires a
commit hook. The hook wakes the subscriptions of that process; those of other
processes see the commit when their poll finds that `PRAGMA data_version` moved.
A workflow handler reads the state document, appends the events of its change,
and only then writes the document by compare-and-swap on the version column. If
it dies in between, `reconcileFromEvents` folds the events after
`_eventSequence` into the document. Tasks, the merge lease, the cancel saga and
the worktree manager keep their whole state in the log and rest on `decide` and
on idempotency keys.

### What is hard

* Two processes run one keyed call, and both miss the claim before either locks.
* `SQLITE_BUSY` runs a transaction again, numbering its batch from a newer gate.
* `decide` folds outside the transaction that appends.
* The process dies after the commit and before the answer.
* A wake, a tick, a foreign commit, a read error and the registration of a
  subscription interleave; the same thread runs the listener.
* Events reach the log before the compare-and-swap of the document, which may be
  lost, retried, given up, or never happen.
* Reconciles race with handlers and with each other.
* A lease holder dies, or merely cannot be shown to be dead, while others wait.
* A tree is looked at by one process, reserved and worked in by a second, and
  removed by the first; git is not part of the transaction.
* A cancellation is taken over by a second call while the first goes on.
* A completion reads five things of a log to which gate runs, revisions and
  failures are appended meanwhile; the tree that was judged is edited, gets a new
  commit or goes back to an old one.

`PROJECT.json` lists the hazards at their lines, with the properties that would
catch each, or the reason why none does yet.

### What makes each component correct

* Appender: a key is stored once; what a caller was told is in the log; sequences
  never repeat; a decision commits on exactly what it folded; no failed attempt
  leaves a trace; no call waits for ever.
* Subscriptions: every event that matches, exactly once, a stream in order,
  eventually.
* State document: no acknowledged update is lost; phases change along edges; the
  document is the fold of its log; its version is the version of its row.
* Transition algorithm: legality agrees with the definition; a replay gives the
  same phase.
* Outbox, sidecar: nothing is lost, what is sent twice is recognized by its key.
* Merge lease: one serialized merge per ref; no lease is taken from a successor; a
  dead holder is not waited for.
* Worktree manager: a removal is requested of a tree that is still as the ladder found
  it, and not during a merge; a live owner keeps its reservation; unsaved work is never
  removed.
* Cancel saga: one outcome per attempt, nothing of an action after its success, no
  cancellation without every success, and every living call ends.
* Tasks: agents that see a task free do not both claim it; a completion rests on the
  whole log before it and on the commit its run saw; the document says what the log
  says.

## 2. Modules

| module | what it is |
|---|---|
| `AtomicAppender` | the appender: several processes, their promise chains, the SQLite tables |
| `IdempotentLog` | what the appender promises, without gates, locks or processes |
| `AtomicAppenderRefinement` | the refinement mapping from the first to the second |
| `Subscriptions` | one subscription, its two wakes, and commits of its own and of other processes |
| `GlobalOrder` | the order of a merged batch (`compareGlobalOrder` under `Array.sort`), as operators that `Subscriptions` uses |
| `WorkflowState` | the document of one workflow, its events, and its three handlers |
| `MergeLease` | `serialize_merge` and everyone who reads or frees its lease |
| `Worktrees` | the worktree manager, composed with `MergeLease` on one stream |
| `CancelSaga` | the cancellation of a workflow by calls that take each other over |
| `GateRuns` | the static-analysis runs of a task |
| `Tasks` | claim, complete and fail, composed with `GateRuns` on one stream, and the document |
| `..._proof` | invariants of these modules, proved |
| `MC...` | the instances that TLC checks |

The modules rest on each other as the components do. `WorkflowState`, `MergeLease`,
`Worktrees`, `CancelSaga` and `Tasks` take an append, a `decide` or a `decideOnce`
as one step; that this is right is what `KeyCommittedOnce`, `DecisionsSerialized`
and `OperationDecidedOnce` say of `AtomicAppender`. `Worktrees` extends
`MergeLease`, because the claim of a merge and the request of a removal exclude
each other on one stream; `Tasks` extends `GateRuns`, whose rows are what a
completion reads.

A definition whose comment begins with `MUTANT of` is not part of the model. It is
the form a mapped definition would have under a plausible mistake, and is there
to show that a property notices.

### AtomicAppender

`gate`, `log`, `claims` and `opClaims` are the tables; a row keeps its sequence,
its key and the call that minted its event id. `queue[p][s]` is the promise chain
of stream `s` in process `p`, its head the call inside the critical section
(`StreamLockManager.runExclusive`). `pc`, `req`, `expected`, `folded`, `attempts`
and `answer` are the locals of a call.

An action ends where other code may run: at an `await`, and between two SQLite
statements when another process may commit there. So the pre-lock claim lookup
(`LookupHit`, `LookupMiss`) is one step and the transaction another, with one
disjunct for each way it ends: `Busy`, `BusyExhausted`, `GateConflict`,
`ClaimClash` followed by `Relookup` outside the transaction, `Commit`, `IoError`.
`NotifyCommit` is the commit hook after it. `Fold` and `ClosureStep` are `decide`
and a session: the closure sees a fold and may throw or return nothing.
`InvokeOnce` and `OnceStep` are `decideOnce`, whose transaction takes no promise
chain. `Open` repairs a gate that trails the stored rows; `Crash` drops the
process with its queues, and the calls in flight end as `lost`, whether or not
they had committed. `DeleteStream` and `PruneEvents` are the backend calls of
compaction and retention.

`Init` allows a database of an earlier release: the tail and the gate of each
stream are chosen from 0 and 1, so the gate may trail or lead the rows.

### IdempotentLog

Four kinds of step are all a caller may rely on: a call writes its events in one
piece and under a key nobody owns; it learns the owner of its key; it fails
without a trace; a stream is deleted or its oldest entries expire. Operation ids
of `decideOnce` are keys of a scope of their own, `Ops`, the reserved claim
stream of the code. `AtomicAppenderRefinement` maps `history` to the rows without
their sequences, `owner` to the claims, and `told` to what each call was
answered.

### Subscriptions

One subscription in one process, two streams. `ForeignCommit` moves the
`data_version` the process reads; `OwnCommit` does not and queues a hook instead.
Registration captures a baseline per stream (`Capture`), then the data version
(`Baseline`), then drains; a drain (`StartDrain`, `Read`, `Deliver`) is
synchronous in its thread, so own commits and timers wait for it, while another
process commits between any two of its reads. `drain.batch` and `drain.tails` are the
batch and the pending cursors of `drainOnce`: a cursor moves only when every stream
was read, to the last event read of its stream. `Deliver` sorts the batch as
`GlobalOrder` says and then leaves out what does not match. A commit carries any
timestamp: `EventStore.append` takes that of its caller, or the clock before the stream
is locked. `ReadFault` is a read that throws,
at each place where one may. `Dispose` ends it; a listener may dispose of its own
subscription in the middle of a batch.

### GlobalOrder

The comparator, and `Sorted`, every order that `Array.sort` may return: the sorted one
when the comparator has no cycle on the batch (`Consistent`), any arrangement when it
has. It has one as soon as a timestamp goes back within a stream and an event of another
stream lies between.

### WorkflowState

`doc` and `column` are the row; `log` is the stream of the workflow; `call[c]`
holds the locals of one invocation. `AppendStarted`, `CreateState` are
`handleInit`; `ReadForSet`, `AppendTrail` (twice: `workflow.transition`, then
`phase.entered`), `AppendPatch`, `WriteSet` are `handleSet`, with `AppendFails`
at each append and a return to `ReadForSet` on a lost compare-and-swap;
`ReadForReconcile`, `CreateFromEvents`, `QueryAndFold`, `WriteMerge`,
`ReadFreshVersion`, `WriteBlind` are `reconcileFromEvents`. `Crash` ends any call
between two of these. The appends are keyed as in the code: type, endpoints,
field and version, without the value of a patch (`SameKey`).

The transition algorithm is a constant, `Edge`; an edge whose guard fails is an
edge that is absent. An update sets one field.

### MergeLease

`slot[r]` is `inFlightMerges[r]`, `pc`, `by`, `on` and `seen` are the locals of a
call, `alive` the processes. `Start`, `FindFree`, `FindDead`, `TimeOut` are the
polling loop of `serializeMerge`, `Reclaim` the release of a dead holder by
operation id (`Cleared` removes the lease only of the operation it names),
`Claim` and `ClaimLost` the decide, `Guard` the check that
`handleMergeOrchestrate` makes before it merges, `Release` and `ReleaseFails` the
ends, `SweepOne` one lease of `reconcileMerges`. A holder is provably dead when its
process is gone and its create-time is known (`Identified`).

### Worktrees

`entry`, `pruning`, `asked` and `removed` are the fold of the stream, `disk` the
trees git lists, `unsaved` those with work that is not saved, `job[j]` a pass with
what it read and has not used yet. `AdoptList` and `AdoptCommit`, `ProbeLoad` and
`ProbeAppend` are the two halves of adopt and probe: a look, and the append that acts on
it. Prune looks twice: `Plan` is the first round of the ladder, `Gather` the closure of
the decide that runs it again over what git says of one tree, and `Ask` the commit of
the request. The agents and the other processes go on between the two; the commit is
refused when the stream has grown since the fold (`fresh`, `AskRefused`), and notices
nothing else. `RemoveTree` and `RemoveExecuted` follow the
request of a removal; `Recover` resumes a removal whose process died. `Reserve`,
`ReleaseTree`, `Reconcile` and the agents (`AddTree`, `Work`, `Save`) run beside.

### CancelSaga

`done` is the set of operations in the log, `epoch` the highest ownership epoch,
`job[c]` a call with its epoch, its action, its attempt and the turns of its loop.
`Acquire` takes a new epoch; `Append` is every fenced append: an operation that is
committed is answered as it is, any other needs the epoch to be current
(`Appends`, `Fenced`), as `decideOnce` has it. `Decide` is the fold and
`decideCompensationAction` (resume, retry, exhaust, escalate), `Run` the effect,
`Closes`, `Trail`, `Write` the end of the cancellation. `AppendThrows` is an append
that fails, `Crash` a call whose process ends.

### GateRuns and Tasks

`log` holds the rows of the stream that concern the task: task events, prepared
and revised capsules, evidence records and gate signals. A run stamps the commit at
HEAD (`Begin`), executes its checks on the files of the tree, committed or not (`Scan`),
reads the records (`Derive`), appends its
record and its signal; a run that died is resubmitted as the same operation and
reuses its record. `Edit`, `Commit` and `Checkout` are the agent in the tree: HEAD may
move to a new commit or to an older one, and the files may hold edits that no commit
has; `onEdits` and `rewound` remember for the properties which runs met either. A claim folds, reads the raw
events when the view has no entry, and appends under the pinned tail. A
completion pins the tail, reads the stored completion, later failures, the capsule,
its revisions, the signals, the records and the tree, appends under the pin, and
then syncs the document by compare-and-swap; a lost pin begins again, up to
`CompleteTries`.

## 3. Runs

Passing runs:

| run | instance | what it shows |
|---|---|---|
| `appender_race` | 2 processes, 2 calls of every kind on one stream and key, batches of 2, 2 busy attempts, a crash, a deletion, a prune | a key is stored once (`KeyCommittedOnce`); what was answered is stored (`AnswersDurable`); a decision commits on what it folded (`DecisionsSerialized`); no failed attempt moves the gate (`GateIsTail`); the gate covers the log (`GateCoversLog`); commit order is sequence order (`SequencesAscend`); the appender implements `IdempotentLog` |
| `appender_once` | 2 processes, 2 streams, 2 digests, `decideOnce` next to `append` and `decide`, a crash | one decision per operation (`OperationDecidedOnce`), each caller the result of its digest (`DigestsAgree`), every waiter is served (`WaitersServed`) |
| `subscription_delivery` | 2 streams, 3 commits or deletions, 2 timestamps, 2 read errors | no cursor passes an unseen event (`NothingSkipped`); nothing twice or unasked, and one stream in sequence (`InOrderOnce`); a later drain delivers later events of each stream (`LaterDrainsFollow`); a batch whose timestamps grow comes in the global order (`GrowingInOrder`); every owed event is delivered (`EventuallyDelivered`) |
| `workflow` | 3 calls of 3 sets and 2 reconciles, 5 requests of which two put two values in one field, 1 retry each, a crash, a failed append | sets that race lose no acknowledged update (`AcknowledgedKept`), move along edges (`PhaseStepsLegal`), keep `_version` (`VersionsAgree`) and the obligations of the phase (`ObligationFrozen`) and, when all succeed, leave the fold of the log (`SucceededIsFold`); a value that no event has lost its key to a call without a success (`UnloggedIsContested`); with reconciles too, one set that died or failed is repaired (`CaughtUpIsFold`) |
| `merge_lease` | 3 serialized merges, a direct merge, a reconcile, 2 processes of which one has no create-time, a failed append | one serialized merge at a time (`OneMerger`); a lease leaves its holder by its own release or its death (`LeaseNotTaken`); a dead holder does not use up the deadline of a waiter (`DeadHolderFreed`) |
| `worktrees` | 2 passes, 2 processes, a serialized merge, a tree, a failed append | when a removal is requested no process has reserved the tree since git was asked for its facts, and no other pass has removed it (`RequestUnowned`); reservations of live owners stand (`ReservationKept`); no removal is requested during a merge (`NoRequestDuringMerge`) |
| `cancel_saga` | 3 calls, an action, 2 attempts, a failed append | one outcome per attempt (`OneOutcome`), attempts in order (`AttemptsCounted`), nothing of an action after its success (`CompletedIsFinal`), escalations stand (`ManualStands`), a cancellation is backed by every success (`CancelledIsBacked`), a living call ends (`CallsEnd`) |
| `tasks` | 2 claims, 2 completions, a failure, 2 gate runs on 2 bases, 4 moves of the surroundings | no claim right after a claim, a completion or a failure (`ClaimsApart`); a completion rests on the whole log before its row (`CompletedStands`) and names the commit that was at HEAD when its run checked the files, resubmitted runs and a moved HEAD apart (`CheckedAtHead`); document and log agree (`DocumentAgrees`); reruns clear the gate (`RerunsClear`) |

Runs that TLC refutes, each against a promise of the repository:

| run | promise | what happens |
|---|---|---|
| `reconcile_race` | a write takes the version "so the version matches" | a reconcile that loses its compare-and-swap writes an old `_version` over a newer column; every later set conflicts |
| `worktree_lost` | the pruner "must never destroy unsaved work" | a tree is verified and its removal requested; `reserve` does not look at the request; the new owner works, and `git worktree remove --force` removes it |
| `cancel_rerun` | "a durably completed action does not run again after a restart or takeover" | the epoch is compared inside the closure of `decideOnce`, which a committed operation does not run: a former owner has its stored request answered and runs the effect again |
| `task_resubmitted` | the call accepts only a run that passed "on that tree, at its current commit" | a run dies between record and signal, the agent commits, the resubmitted run appends the stored verdict with the new commit |

### Other outcomes the models contain

These follow from the same actions and differ from a comment of the code, but no
run is spent on them. The first four are stated as formulas of the modules, marked as
not kept; named in the cfg of the passing run, TLC refutes each.

* `GlobalOrderKept` (`SubscriptionDelivery.cfg`, as a PROPERTY): "a deterministic global
  order for a merged drain batch" (`src/events/subscriptions.ts:139`). A1 at time 1, A2
  at time 0 and B1 at time 0 in between: A1 is before A2 by sequence, A2 before B1 by
  stream, B1 before A1 by time, so whichever order `Array.sort` returns, a pair is the
  wrong way round. `EventStore.append` stamps before the stream is locked
  (`src/events/store.ts:259`), and some callers pass old timestamps
  (`src/verbs/gates/gate-runner.ts:161`, `src/storage/sidecar-scheduler.ts:185`). What
  does hold is `GrowingInOrder`, and `InOrderOnce` and `LaterDrainsFollow` always.
* `AcknowledgedLogged` (`Workflow.cfg`): an update "emits exactly one state.patched event
  on success" (`src/registry/actions/workflow.ts:225`). Two sets put two values in one
  field at one version; the idempotency key has the version and the name of the field
  (`src/workflow/handlers/set.ts:368`), so the store drops the patch of the second, and
  the second wins the write and answers with success. `UnloggedIsContested` bounds it.
* `OneClaim` (`Tasks.cfg`): `task_claim` "returns `ALREADY_CLAIMED` if previously
  claimed" (`src/content/continuity/skills/checkpoint/references/mcp-tool-reference.md:46`).
  A claim, a progress report of its agent, and the claim of a second agent: the view has
  the status of the last row (`src/verbs/tasks/tools.ts:208`). `ClaimsApart` is what the
  pin guarantees.
* `CommitPassed` (`Tasks.cfg`): "a pass counts only on the tree and the commit that the
  completion names" (`src/verbs/tasks/tools.ts:700`). A run passes on files with edits
  that are not committed (`src/verbs/gates/static-analysis.ts:287`) and is stamped with
  HEAD; the completion names that commit, which nobody checked. `CheckedAtHead` is about
  the commit at HEAD only.
* A gate above the last row (a prune, an old database; the repair leaves it)
  makes every `decide` of the stream throw `ConcurrencyError`, with no race and on
  every retry (`src/events/atomic-appender.ts:601`). `GateIsTail` therefore speaks
  of streams this code wrote and never pruned.
* Two processes that `decide` with one operation id: the loser may get
  `ConcurrencyError` although its operation is stored, because the gate is compared
  before the claim (`src/storage/sqlite-backend.ts:1230`).
* `deleteStream` leaves the `decideOnce` claims of its rows; a later call of the
  operation is answered with rows that are gone
  (`src/storage/sqlite-backend.ts:1816`).
* A stream that is deleted and begins again below the cursor of a live
  subscription loses its first events there (`src/events/subscriptions.ts:299`).
  `NothingSkipped` leaves such streams out.
* A read error in the wake of an own commit is swallowed, and `data_version` does
  not count own commits, so no tick drains the event: it waits for the next commit
  (`src/events/subscriptions.ts:405`). `EventuallyDelivered` exempts such a stream.
* A set dies after its `state.patched`; the next set moves `_eventSequence` past it
  and no reconcile folds it any more (`src/workflow/handlers/set.ts:393`).
  `SucceededIsFold` and `CaughtUpIsFold` name the cases in which the fold is owed.
* Two transitions race from one phase; the loser has logged its
  `workflow.transition` before it is refused, and the next reconcile takes its
  phase (`src/workflow/handlers/set.ts:419`).
* A document that reconcile creates after a dead `handleInit` lacks `_esVersion`,
  so its updates are no longer recorded (`src/workflow/state-store.ts:668`).
* A reconcile that reads in the middle of a trail takes a phase without its
  `phase.entered` (`src/workflow/hsm-transition-guard.ts:660`), and its blind write
  may undo an acknowledged update. `VersionsAgree`, `AcknowledgedKept`,
  `ObligationFrozen`, `UnloggedIsContested`, `SucceededIsFold` and `PhaseStepsLegal` therefore speak of the
  time until a reconcile begins (`Undisturbed`).
* A direct `merge_orchestrate` looks at the lease and then merges, so it may overlap
  a serialized merge. A holder whose create-time could not be read keeps its lease
  until its release event, whatever happens to its process.
* A prune that dies leaves its marker in `inFlightPrunes`. A list of trees that was
  read before a removal re-adopts the tree that is gone. A failing `git worktree
  list` reads as a tree that is not registered. The probe appends what it found
  without a pin, so it may take a reservation made after its look; that is the
  exemption of `ReservationKept`.
* The trail of a cancellation and the write of the document are not fenced: after
  the readiness proof a former owner may write them too, and the document is
  written without an expected version (`src/workflow/cancel.ts:476`).
* HEAD moves by a reset or a checkout while a run checks the files, and moves back before
  the completion observes it: the two commits are equal and the comparison at
  `src/verbs/gates/durable-gate-producer.ts:222` and `src/verbs/tasks/tools.ts:1293` sees
  nothing. `CheckedAtHead` leaves such runs out (`rewound`).
* A merge whose release fails keeps its lease while its process lives
  (`src/verbs/worktree/merge-serializer.ts:351`); waiters time out.
* `task.failed` has one key per task: a second failure after a completion is
  answered with the first and reopens nothing (`src/verbs/tasks/tools.ts:1494`).
* Two concurrent runs of one chain supersede the same record; the next run
  supersedes one of them, and the other, if it failed, blocks the completion for
  good. `RerunsClear` speaks of runs that did not overlap.

### Bounds, and why they suffice

Two processes and two or three calls are enough for every pairwise race with a third
party in between, which is what the claim, the gate, the pins and the
compare-and-swap guard against; two attempts give a retry and its exhaustion.
Batches of two tell "one piece" from "one event". In `workflow` a retry limit of one
lets racing calls exhaust it, and `MaxCalls` lets three of the five callers begin,
in every mix of sets and reconciles; in `reconcile_race` the limit is that of the
code. One crash may fall on either side of every commit. Two commits on two streams
put one commit in the registration or a drain of a subscription and one after; three
commits with two timestamps are the least that give the comparator a cycle, and a
deletion takes the place of one of the three. In
`merge_lease` a third waiter claims what two others reclaim. In `cancel_saga` two of
the three calls can be taken over, and an action can fail, be retried and be
exhausted; the actions are run one after the other, so one stands for the list. In
`tasks` the four moves (begin, edit, commit, check out, report, write, die) are what the
longest property needs: two runs, a completion and one disturbance; the three retry limits
are two.

`MaxBatch`, `MaxCrashes`, `MaxDeletes`, `MaxPrunes`, `MaxWrites`, `MaxFaults`,
`MaxEvents`, `MaxTime`, `MaxCalls`, `MaxAdds` and `MaxMoves` are bounds of the
models; `MaxAttempts`, `MaxCasRetries`, `ClaimTries`, `CompleteTries` and
`SyncTries` are constants of the code. `Cap` is the cap of the saga loop, of the
code too.

Symmetry is used in runs of safety properties only.

Deadlock is checked in every run; `Finished`, `LeaseOver` and `AllDead`, in which
every call has ended or every process died, are the ways to stop.

### Fairness

* Appender: a live process runs the microtasks it queued, `WF(LockedStep(c) \/
  OnceStep(c))` for each call. Nothing is assumed of the closure of a `decide`,
  which is caller code, nor of clients. A call enters the chain after its closure,
  so a closure that hangs holds no lock. A crash makes its calls `lost`.
* Subscriptions: the thread does not rest while it has something to do, `WF(ThreadStep)`:
  a drain or a registration under way (they are synchronous), a hook that was queued, a
  tick of the poll timer that finds a new token. Which comes first is free. Commits,
  registrations and disposals are free too.
* `LeaseFairSpec`: a call of a live process goes on (`WF(Works(c))`): its poll timer
  fires and its awaits return. The start of a call and deaths are free.
* `FairSpec` of `CancelSaga`: the same of a call of `handleCancel`; the effect of a
  compensation returns, as the code awaits it without a deadline.

## 4. Proofs

All from the named assumptions on the constants only, for any sets of processes,
streams, calls, keys and any bounds. `OpsAssumption` is one about the callers: no
stream of events has the name of the reserved claim stream, which
`validateStreamId` itself would accept.

`AtomicAppender_proof`:

* `ControlSafety`: `TypeOK`, and `LockInv`: a call between its claim lookup and
  its answer is the head of its promise chain. The induction needs `RequestInv`,
  which says for each place a call can be in which of its arguments are set:
  without it, the action that releases a lock could not know which.
* `GateSafety`, `SequenceSafety`, `KeySafety`, `OperationSafety`: the invariants
  `GateCoversLog`, `SequencesAscend`, `KeyCommittedOnce` and
  `OperationDecidedOnce`. Their induction is `RowInv`. Ascending sequences need
  the gate to cover the log whenever a process may write; that holds only while
  a process is up, so `LiveInv` says that the process of a call in flight is.
  Key uniqueness needs `ClaimBacked`: a keyed row has the claim of its stream and
  key, and that claim names the call that wrote it; so `Commit`, which demands
  that there is no claim, adds rows under a fresh key. `OpBacked` is the same for
  operations. `RowCallers` gives that a call that has not begun owns no row.

`AtomicAppenderRefinement_proof`:

* `Refinement`: the appender implements `IdempotentLog`. `StepCases` sorts the
  steps by what the caller of a call sees of them; each class is then one step of
  the abstract log, or none. The mapping needs `ControlInv` (types, and what a call
  holds where it is) and `Answered`: only a call that ended, or is in its hook, has
  an answer, so `told` is "open" wherever the abstract log demands it.
* `GateTailSafety`, `AnswersSafety`, `DigestSafety`, `DecisionSafety`: the invariants
  `GateIsTail`, `AnswersDurable`, `DigestsAgree` and `DecisionsSerialized`. Their
  induction is `AnswerInv`. While no stream is deleted or pruned rows only grow
  (`RowsGrow`) and claims are final, so `ClaimsStored`, `OpsStored` and
  `AnswersStored`, that what a claim or an answer names is stored in full, stay true
  once they are. For a decision `Folding` says that its stream still begins with
  what it folded and that only rows of this code follow; `NothingFollows` is the
  heart: such a row would put the gate at a tail above the folded one, so a gate
  that equals the expected sequence leaves no room for one.

`Subscriptions_proof`:

* `SubscriptionTyped`, `DeliveredInOrder` (`InOrderOnce`), `CursorSkipsNothing`
  (`NothingSkipped`), `DrainsFollow` (`LaterDrainsFollow`), for any streams, commits,
  timestamps, faults and deletions. `Inv` relates three lists of a stream, the log, the
  batch and what the listener saw: up to the cursor the listener saw all that matches
  (`Seen`); from the cursor to the pending cursor the batch holds all, in order, and
  none of it was seen (`Pending`). A read extends the batch, a fault drops it with its
  pending cursors, a delivery moves both at once; in between the log only grows, or
  begins a new generation, of which the invariant keeps the order and the debt but not
  the position. `Matching` is what the subscription takes of a batch: `MatchingIs`
  says that it takes every match, each once and in order. It is a recursion over a
  sequence of any length; the lemma is by minimal counterexample (`LeastOne`, from the
  well-foundedness of the naturals), which does not need an induction theorem with an
  operator parameter.
* A delivery hands over a rearrangement of the batch (`SortRearranges`, `Delivers`), so
  that each event is delivered once holds whatever the sort does. That a subscription to
  one stream gets it in sequence holds because the comparator has no cycle among the
  events of one stream (`OneStreamConsistent`), whatever their timestamps.
* `GrowingBatchOrdered` (`GrowingInOrder`): on a batch in which the timestamps of every
  stream grow the comparator is transitive (`GrowingConsistent`, over `PairsOrdered`),
  and what `Array.sort` may return is the one order. The only interesting case is two
  events of one stream around one of another. Where a timestamp goes back it is false:
  `GlobalOrderKept` (section 3).

`WorkflowState_proof`. The first four results speak of the time until a reconcile
begins; `reconcile_race` shows why.

* `SetVersions` (`VersionsAgree`): `_version` equals the version column, for any
  calls, retries, crashes and failed appends.
* `SetPhases` (`PhaseStepsLegal`): the phase moves along edges only. The induction is
  `SetInv`: a call between its read and its write holds a copy whose version is the one
  it expects and not above the column, and *if the column still is that version* the
  phase of its copy is that of the document or one legal edge away. The
  compare-and-swap makes the condition true at the write, which is the argument for
  the retry loop of `handleSet`. `FirstInv` carries it through behaviours that do
  contain reconciles, up to the first.
* `ObligationsFrozen` (`ObligationFrozen`), `AcknowledgedStays` (`AcknowledgedKept`):
  `CalmInv` adds that the phase of a copy has its `phase.entered` in the log before
  the copy is written, and that a copy that may still be written has the fields of
  the document; so a write changes its own field only.
* `EveryStepTyped`: every step, reconciles included, keeps the types. `Basis` adds that
  the column is 0 exactly as long as there is no document, and that a call which is
  past its read finds one. `Steps` gives every action of `Next` one normal form, what a
  call does to the log, to the row and to itself, on which all that follows rests.
* `UnloggedContested` (`UnloggedIsContested`), until a reconcile begins, for any values
  asked of any field: `ContestInv` says that every patch in the log has an author whose
  success would have moved the version past it (`Authored`), and that a call at its
  write finds a patch of its field at its version (`Logged`), its own or that of the
  call that took the key before it. When that write goes through the version moves,
  so the author of a patch with another value can no longer have had success with it.
* `SuccessIsFold` (`SucceededIsFold`): `OrderInv` says of the last move, and of the last
  patch of each field, that they give the document, or what a call still at work asks
  for. The orphaned events of a lost attempt are followed by those of the attempt that
  won, because that attempt read, and so appended, later (`Follows`).
* `RepairedIsFold` (`CaughtUpIsFold`): with one set, `RepairInv` says that every
  event-sourced copy `Reflects` the log up to its `_eventSequence`, wherever the set
  stopped and whichever reconcile holds the copy; a document that claims the whole log
  then is its fold.

`MergeLease_proof`: `LeaseSafety`, `MergerSafety` (`OneMerger`), `LeaseKept`
(`LeaseNotTaken`). `LeaseInv` says that a call past its claim holds the slot and
that its process lives, and that whom a waiter is about to release is dead. The dead
stay dead and a release names its operation, so a late release clears nothing of a
successor.

`Worktrees_proof`: `WorktreeSafety`, `WorktreeTypes`, `RequestsUnowned`
(`RequestUnowned`), `RequestsBetweenMerges` (`NoRequestDuringMerge`),
`ReservationsKept` (`ReservationKept`). `TreeInv` adds that a live holder knows of
its reservation and that every pass which looked at the tree before is in `reused`;
`Stands` says of a pass about to commit its request that, as long as the stream has not
grown since its fold, the tree is still released and under no lease.
`WorktreeInv` is its conjunction with `LeaseInv`, which the composition carries over.

`CancelSaga_proof`: `SagaSafety`, `SagaTypes`, `SagaBacked`, `SagaManual`,
`SagaCounts`, `SagaOutcomes`, `SagaFinal`, and `SagaCap`: the cap of the loop,
which the code calls a guard against a decision bug, is never what ends it.
`SagaInv` says that only the holder of the highest epoch adds an operation of an
action (`Owns(c) => Current(c)`): what it found when it decided still holds, while
a former owner can only go over what is in the log. `Counted` makes the counts of
the fold the last attempts: `CountUpto` gives the cardinality.

`Tasks_proof`:

* `TaskSafety`, `TaskTypes`, `ClaimsPinned` (`ClaimsApart`), `CompletionsPinned`
  (`CompletedStands`). Rows are only added, so what is read of the rows up to a
  position stays (`PrefixStays`). `TaskInv` says of every place in a completion what
  the call knows of the log *provided that the pinned tail is still its end*; the
  append demands exactly that.
* `TaskHistory` is the conjunction of `TaskInv` with four more invariants, each of
  which is inductive given those before it. `HistInv` ties a record and a signal to the
  run that wrote them, and the tree of a signal to what that run scanned. `TurnInv`:
  as long as no two runs overlapped, all records of a chain but the last are
  superseded, and the run under way supersedes that one. `CheckInv`: a call about to
  append holds the commit that was at HEAD when the run of its signal checked the files
  and passed, unless that run was resubmitted or HEAD was moved under it, and the
  completion row says the same. While no checkout moves HEAD away it only gains commits,
  so a run whose stamp is the commit at HEAD now saw no other in between; a checkout puts
  every run that has begun in `rewound` (`HeadMoves`). `DocInv`: a call that answers
  ok has found or written the document complete, and a complete document has its row.
* `CheckedCommit` (`CheckedAtHead`), `DocumentFollows` (`DocumentAgrees`),
  `GateReopens` (`RerunsClear`) follow from it.

Only model-checked:

* Liveness and `ENABLED` (`WaitersServed`, `EventuallyDelivered`,
  `DeadHolderFreed`, `CallsEnd`): the provers do not reason about fairness.

Every other invariant and action property of a passing run is stated by a theorem.

## 5. What is not modelled

* Payloads, schemas, timestamps outside `Subscriptions`, telemetry, the handle and
  view caches.
* `AtomicAppender`: the numbering of the rows and the answer are one step (`Commit`), as
  `finalize` builds both from one gate; an answer left over from an earlier attempt
  cannot be expressed.
* `MergeLease`, `Worktrees`: the probe of processes is taken to be right
  (`ProvablyDead`, `Found`), although `src/verbs/worktree/pure/probe.ts:353` drops a
  process whose `/proc` entry cannot be read.
* `WorkflowState`: the JSON file path without a backend, the checkpoint gate, the
  diagnostic events that no fold of phase or fields reads, schema failures after the
  trail was appended.
* `Worktrees`: launch markers, the create intents of the launcher, the dry run,
  retries of the git index lock, reports. Every workflow merges into one ref.
* `CancelSaga`: the dry run, the path without event sourcing, durable outcomes that
  do not parse. A cancelId is that of one phase attempt; a transition that leaves
  the attempt would begin another saga.
* `Tasks`: the scope rules of a capsule, the evidence of a caller (a blocking gate
  ignores it), a document that does not list the task, the other gates of the
  ladder. The phase attempt, the policy and the provider of a run do not change, and
  no two records have one `createdAt`.
* The observers of `EventStore`; disposal of a whole registry during the
  constructor of one subscription.
* The outbox has no sender wired in this repository. The in-memory backend is a
  test double.
* Adapters, CLI, installation, configuration, rendering and provider calls: I/O
  without state of their own.
* Pure tables and policies (retirement, topology, playbooks, admission): nothing
  changes state.

## 6. Plan

Done: the appender with its refinement and proofs, subscriptions and their order,
the workflow document, the merge lease and the worktree manager, the cancel saga,
the task verbs with their gate runs.

Next, in this order:

1. `SidecarDrain`: hook processes that append lines, rename, append, unlink, and
   the merge, with a crash between any two.
2. `Compaction`, composed with `WorkflowState`: archive and deletions against a
   racing set.
3. `Outbox`: two drains, backoff, dead letters.
4. `Transitions`: the algorithm of the state machine as operators, against a
   reference over bounded machines; then `Edge` of `WorkflowState` is its result.
5. `Wait` over `Subscriptions`; `Launcher`; `OperationSerializer`.
6. Proofs of these as they come: `Compaction` on the invariants of `WorkflowState`, and
   `Wait` on those of `Subscriptions`. That `WorkflowState` and `Tasks` may take an
   append as one step rests on `Refinement`; an abstract specification of the document,
   implemented by `WorkflowState` until a reconcile begins, would say the same of a set.
