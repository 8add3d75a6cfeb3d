# reyn: the durable core and the protocols on it, in TLA+

reyn is a multi-agent runtime: one Python process, one asyncio loop, any number
of agents, each with any number of sessions. A session's state (its inbox, its
pending chains, its open interventions) lives in memory; what makes it survive
is a write-ahead log (WAL) shared by all sessions, one snapshot file per
session, and point-in-time copies ("generations") that let the operator rewind
everything, or one session, to an earlier number of the log. This project models
that durable core (the write path, its queue, recovery, truncation, rewind, and which
agents, sessions, topologies and registries there are), the
three protocols a session runs on it (its inbox, its background tasks, the
questions it has open for its user), and the run of a pipeline, which has a durable
core of its own: a work order, generations of step results, and a terminal marker.

Paths are relative to `src/reyn/`. `PROJECT.json` maps every definition to its
lines and lists the runs, the mutants, the hazards and the theorems.

## 1. Inventory

### Modelled, wholly or in part

| Component | State | Operations | Correct when |
|---|---|---|---|
| **Durability worker** `core/events/durability_worker.py` | queue, join count, drainer task, `_inline_draining`, `_durability_failed` | `submit`, `submit_nowait`, `submit_threadsafe`, `_drain`, retry and give up, `flush`, `aclose`, end-of-burst hook | one consumer, FIFO landing, join's count balanced under cancellation, `flush`/`aclose` are barriers and return, every submitter is answered truthfully |
| **State log (WAL)** `core/events/state_log.py` | file, counter, last durable number, truncation statistics | `append[_nowait]`, WAL write job, startup scan, `truncate_below` | numbers unique and in issue order, an acknowledged entry is readable, truncation drops only what is absorbed |
| **Snapshot journal** `runtime/services/snapshot_journal.py` | in-memory snapshot, appends since the last snapshot | the mutations, `save_nowait`, `cut_generation`, `close` | the content of a stored snapshot and the number stamped on it belong together; a clean exit leaves no tail |
| **Agent snapshot** `core/events/agent_snapshot.py` | content, `applied_seq` | load, save, `apply_events` | replay is neither short of an entry nor applies one twice |
| **Branch model, generations** `core/events/snapshot_generations.py` | none but the reset records; generation files | `checkout`, `rewind`, activity, branch tree, `lineage_predecessor`, `reconstruct` | the interval algorithm equals the lineage one reads back from the head, for every scope |
| **Agent registry** `runtime/registry.py` | loaded sessions, `_rewind_in_progress` | `restore_all`, `checkout`, `_materialize_rewind`, `recover_rewind_if_needed`, `truncate_wal_if_eligible`, `shutdown` | after any crash, restart or rewind a session holds its active branch and nothing else |
| **Inbox** `runtime/inbox_arbiter.py`, `session.py`, `message_bus.py` | queue, peek buffer, cancel marks, staged context, journal's inbox | put, cancel, drain, peek and inject, stage and apply, `MessageBus.request`, restart, rewind | the copies agree, turns keep arrival order, a cancel is final, nothing is taken twice, everything is got to |
| **Background tasks** `services/chain_manager.py`, `inter_agent_messaging.py`, `chain_timeout_glue.py`, `session_api.py` | pending handles, watchdogs, journal's `pending_chains` | register, send, settle, exit, result, timeout, extend, quiesce, restore, reset | handle and journal agree, a watchdog ends with its task, no started task is forgotten |
| **Interventions** `services/intervention_*.py`, `session_buses.py`, `interfaces/transport/agui/endpoint.py` | FIFO queue, stalled set, futures, carrying tasks, journal's `outstanding_interventions` | ask, announce, answer, stall, discard, claim, evict, fail-close, restore, clear | the journal has what is queued, a listener sees what is next, whoever waits can be answered, an abandoned queue is refused |
| **Pipeline run** `core/pipeline/executor.py`, `work_order.py`, `core/events/pipeline_recovery.py`, `runtime/services/pipeline_executor_driver.py`, `registry.py` | work order, generations, `attempts.json`, `result.json`; the driver's inbox; executor, record box and lock, one task per item | launch, take a nudge, resume, step, `for_each` with its items' tasks, retry and abort, record, collect, deliver, mark, cancel, interrupt, re-wake | an effect that is recorded never happens again, an end is final, its launcher hears of it, resumes are bounded |
| **What exists** `runtime/registry.py`, `core/events/config_generations.py` | agent directories, `.archived` markers, spawned sessions, topologies, registry yamls and their generations | create, archive, purge, sweep, spawn, remove, topology and config changes, and their rebuilding by checkout and recovery | what is there is what the records of the branch say; nothing that lives is deleted; nothing names what is gone |
| **Retention** `core/events/retention.py` | none | the live floor | the floor is at or below every entry some snapshot still needs |

How they interact: a session calls its journal; the journal enqueues a WAL write
job and perhaps a snapshot write job in one synchronous block; the log owns the
worker that runs both kinds, one at a time, off the loop; the registry reads the
in-memory `applied_seq` of all sessions to compute the truncation floor, enqueues
the rewrite behind everything else and prunes generations at once; a checkout
stops the sessions in its scope, appends one reset record, waits for it to be
durable, and rebuilds each session from its generations and the log. Inside a session
one run loop consumes the inbox; producers, watchdogs, clients and child sessions put
into it from tasks of their own, a running turn takes what may be injected, and each
step leaves its record with the journal before the next await. A pipeline runs in a
driver-session of its own, which is nudged through its inbox and records what it has done
through the same worker; a scan at start-up finds the work orders without a marker. But
for the lock around a fan-out's records there are no locks: atomicity is what happens
between two awaits. Hence the hard parts: content
captured at one time and numbered at another, floors computed at one time and
applied at another, files changed first and recorded later, cancellation between any two
awaits while a thread goes on writing, death between any two writes, and rewinds layered on all of it.

### Not modelled

Hooks' pending store, tracked tasks and process registry, path locks: small components
beside the core. The audit event store (a second client of the
worker that feeds no recovery), the router loop, LLM, compaction, MCP, security,
gateway, configuration, and the interfaces but for the AG-UI grace window: dominated by
model calls, text or I/O. Left out of the modelled components:

- write path: `WalTailReader` (a read-only follower), post-append callbacks,
  `on_drain_start`, the rebinding of a worker to a second loop, the `keep_generations`
  clamp (production builds the live policy only), `earliest_relevant_wal_seq`;
- what exists: the default agent, spawn lineage and identity generations, kinds, leaders and
  profiles of topologies (a cascade may drop any topology a removed agent was in), topologies
  without members, a checkout that aborts, scoped checkouts of main sessions, a directory
  that cannot be removed;
- inbox: the outbox, sender attribution (wording), what a turn says;
- tasks: multi-hop relay chains that are not tasks, `mark_cancel_requested` and
  `update`, deadlines as numbers (an armed watchdog may wake at any time), `on_settle`,
  `notify_chain_discarded` (no caller), how the peer session comes back;
- interventions: answers buffered by `run_id` (no production caller gives a question
  one), `mark_stalled`, `cancel` and `drop_for_run` (no callers), parent hooks, several
  listeners (all surfaces register one channel id), the re-prompt after a wrong choice,
  heartbeats and the sweep of dead clients;
- pipelines: what steps compute (expressions, schemas, stores), nested fan-outs (`fold`
  is a call, one step after the other), the `on_error` of a tool that stands alone, garbage
  collection of old run directories, a rewind of the session that asked.

## 2. Modules

| Module | What it is |
|---|---|
| `DurableState` | The write path end to end: journals, queue, WAL file, snapshot files, truncation, crash, restart, shutdown |
| `RecoverableLog` | What the write path promises, with no queue, file or number in sight |
| `MCDurableState` | `DurableState` for TLC, and the refinement mapping to `RecoverableLog` |
| `DurableStateProofs` | The theorems about `DurableState`: snapshots and log, truncation, the refinement |
| `DurabilityWorker` | The task protocol of the queue that `DurableState` takes for granted |
| `DurabilityWorkerProofs` | The theorems about `DurabilityWorker`: honest futures, order, barriers, the hook |
| `Branches` | The branch model: a pure algorithm over the log, against a reference definition |
| `BranchesProofs` | That the algorithm is the reference, for every log |
| `Rewind` | Checkout, materialisation, recovery and truncation over sessions; uses `Branches` by INSTANCE |
| `MCRewind` | `Rewind` for TLC with its symmetry |
| `RewindProofs` | The theorems about `Rewind`, on top of those of `BranchesProofs` |
| `Lifecycle` | What exists: agents, archival, sessions, topologies, registries, and their rebuilding; uses `Branches` by INSTANCE |
| `MCLifecycle` | `Lifecycle` for TLC: two agents, one spawned session |
| `LifecycleProofs` | The theorems about `Lifecycle`, on top of those of `BranchesProofs` |
| `SessionInbox` | The inbox of a session: queue, peek buffer, staged context, journal, drivers |
| `MCSessionInbox` | `SessionInbox` for TLC |
| `SessionInboxProofs` | The theorems about `SessionInbox` |
| `TaskHandles` | The background tasks of a session, their handles and watchdogs |
| `TaskPromises` | What a session promises of its background tasks: the state this is about and the safety properties |
| `MCTaskHandles` | `TaskHandles` for TLC: which kinds of task may come together |
| `Interventions` | The questions of a session: queue, stalled set, surfaces, grace window |
| `MCInterventions` | `Interventions` for TLC: who asks which question |
| `WaitingProofs` | The theorems about `Interventions` and, as its instance `T`, about `TaskHandles` |
| `PipelineRun` | One run of a pipeline, from the work order to the marker, through crashes |
| `MCPipelineRun` | `PipelineRun` for TLC: the plan and the launches |
| `PipelineRunProofs` | The theorems about `PipelineRun`: its end, its effects, its marker |

Definitions keep the code's names where there is one. Operators whose comment ends
in `mutant` are deliberate bugs: each property of a passing run has one that breaks
it, named in `PROJECT.json`.

### DurableState

A mutation is known by its issue number and a snapshot's content is the set of
mutations it has absorbed: a session's state is a function of the mutations applied
in log order, so two states differ exactly if the sets do, or the order (`WalOrder`).
An entry has a number, a session and a mutation.

`Mutate(s)` is any WAL-recorded operation of the journal: enqueue the WAL job,
change the in-memory snapshot and, when the gate of `snapshot_interval` opens,
enqueue the snapshot job with the content as it is now. It stays enabled after the
`durability_failed` latch, because only `put_inbox` is refused then. The worker's
steps are one per point at which something else can happen: `AssignSeq` (the number
is taken in the job), `LandLine` (the line is in the file), `SyncLine` (fsync;
from here on the mutation is acknowledged), `RenameSnapshot` (content and the last
assigned number become `snapshot.json`), `PublishApplied` (the in-memory
`applied_seq` follows, on the loop), `RewriteWal`. `WriteFault` is an `OSError`
anywhere in a job: the whole job runs again, so an entry may land twice under two
numbers, and after the last attempt it is dropped and the latch set. `Crash` may
lose any unsynced entry and, with `TornWrites`, leave a fragment without a newline.
`ResaveSnapshot` is a restart that dies inside `restore_all`'s save loop; `Restart`
is all of `restore_all`, with any session possibly idle (such a session is handed
nothing and starts at `applied_seq` 0). What that session's memory then holds is its
recovered content all the same, which is right for inbox, chains and interventions, since it
is idle for having none; staged next-turn context does not count for that test
(registry.py:1837-1840), so the code recovers it and drops it. `NoAckedLoss` and
`KeepsPromise`, and the theorems for them, hold but for that field (section 6).
`CloseJournal` and `Stop` are shutdown.

### RecoverableLog

Mutations are accepted in one order and harden in that order; a restart finds a
first part of what was accepted, across all sessions at once, that contains all
that had hardened. `MCDurableState` maps `accepted` to the union of the in-memory
contents (or, with the process down, to what a restart would find) and `hardened` to
what a restart would find of the synced part of the log.

### DurabilityWorker

A step is what one task does between two awaits. `worker` has two entries because
`_drain` runs in the background task or inline in the caller of `flush`/`aclose` that
found it gone. `Take` is one turn of the loop: the next job and, with the job that
empties the queue, the end-of-burst job, before that job is run. `unfinished` is
`asyncio.Queue`'s join count. Cancelling the drainer (hard shutdown, loop teardown,
or `aclose` itself), a caller or a submitter is an action of its own, and a write
whose await was cancelled lives on as an orphan that lands whenever it likes. `Retry` is
for an `OSError` with tries left; `GiveUp` may come at any attempt, as anything else that
a job raises is surfaced without a retry.

### Branches

The log is a sequence of work and of reset records `(target, scope)`.
`AbandonedIntervals` is the code's latest-first fold; `Lineage` is the reference:
start at the head, go back one number at a time, jump at each visible record to its
target. Only `Lineage` is used to state properties.

### Rewind

Appends are one step here (`DurableState` covers the queue); the queue is visible
only as `floorDue`, the rewrite a checkout finds still queued. `BeginCheckout` is the
retention guard; `AbortCheckout` the quiesce timeout; `AppendRecord` the reset record;
`Materialise(s)` one session's reconstruct, save, reset and restore, so that crashes,
and input if `InputDuringRewind`, fall between any two of them. `RecoverSome` is a
recovery that dies half-way, `Restart` recovery of the latest record's scope followed
by the replay of everything past each snapshot, with any session possibly idle, as in
`DurableState`. Assumed here: sessions are always
loaded, one checkout runs at a time, materialisation does not raise, and appends queue
behind a pending rewrite.

### Lifecycle

The complement of `Rewind`: not what a session holds but whether it is there. An operation
changes its files in one step and appends its record in the same one, which becomes
durable later (`durable`), so a death (`Crash`, the new process included) keeps the files and
loses a suffix of the records. The records a removal still has to append, each awaited, are
`owed`; the archive sweep is a list of such work too, with its rmtree (`SweepAgent`) and its
cascade (`SweepTopologies`) as entries of their own, since records are awaited between them.
`CreatedAt` to `VanishedAt` are the maps that one scan of the WAL gives, `Doomed`, `Gone`,
`Revived`, `MarkerNow`, `MembersNow` and `ConfigNow` the rules by which each kind of thing is
rebuilt from them: in `Rematerialise`, agent by agent, and behind the loop
(`MaterialiseRest`), or for one session only (`MaterialiseSession`). `RevivingRaises`, in the loop
that makes agents again, and `MaterialisingRaises`, later, leave it half done. `adrift` has the names whose record was lost, or is out of order: what
the documentation says of the rest is not claimed for them. One removal's records are
under way at a time.

Steps merged here: a spawn's map entry, the refresh it awaits and its record
(registry.py:4520-4615), since a checkout waits for the turn that spawns and a death in
between is the record lost; the guard on the owner's archive marker in `SpawnSession` is its
callers' (registry.py:4110). The rebuild's maps are looked up in the log at each step, where the
code computes them once before its loop: a record that a removal still owed and that lands in
between is seen here by the rest of this rebuild, there by the next one. An agent's
directory and the profile in it are one thing; the code makes one after the other
(profile.py:355-378) and tests for the directory only.

### SessionInbox

Journal calls never suspend and `asyncio.Queue.get` suspends only on an empty queue, so
`Drain`, which reads up to the first waking message nobody cancelled, consumes each and
stages the ride-alongs, is one action. Its records are separate all the same: `log` holds those not yet durable, in order, and
`Restart(landed)` brings back any number of them. `buffer` is `pending_inbox_items`:
`Peek` empties the queue into it, splices what is injectable and keeps the rest ahead
of what comes later. `driver` says who calls `run_one_iteration`: the session's own loop,
or `MessageBus.request`, which looks at the queue only. `StartTurn` is a step of its own
because the `turn_start` hooks are awaited while the session still counts as idle, so a
rewind can fall before it. `Peek` pops and consumes in one step: the write of a rendering to the
outbox is awaited in between (session.py:9785-9788), and that queue is unbounded. `Rewound(target)` is this session's part of a checkout, to the
empty snapshot or the durable one.

### TaskHandles

`Register` is the tool call that starts a task: of a peer session (`prompt`, which alone
is armed with a watchdog), a sandboxed process (`exec`) or a pipeline driver. `worker` is whoever
carries it out. Settling is deliver first, then pop, cancel the watchdog, record; the
delivery of a reply is a router turn (`settling`), so it can be cancelled (`CancelTurn`,
with the quiesce that cancels every watchdog) or raise (`RouterFails`, which ends the
run loop). `PostResult` and `Fire` write two records between which the process may die. An exec is
settled first (`ExecEnds`) and told of behind an await (`Announce`). The error `Fire` posts goes to
this session itself, so the case of a requester that is gone, in which the code drops it
(session.py:5892-5903), does not arise.
`recoverable` is the set of snapshots a crash can bring back; a restart or rewind picks
one, and `Afterwards` says what may become of the peers: go on, answer again, or be gone.

### Interventions

A question is asked on a bus resolved while somebody listened (`Open`), delivered later
(`Deliver`), when nobody may: pinned questions are then parked in `stalled`, others
refused. `asker` is the code that asks; `couriers` are the tasks that carry a question besides
it, after a claim or a restart. Each sits in the registry's `dispatch` until the future is done
and then leaves the queue, announces the next one and strikes the question off the journal
(`Wake`, `CourierWakes`, `RestoredWakes`). `Answer` takes the question out of the queue before
that, `LookAtHead` evicts answered ones whenever a status line is read, `FailClose` is the
grace driver's one shot. `Quiesce` cancels the tasks of claims, `Rewind` the waits of everyone
but the turn, which is idle: those wake on the new snapshot, which is what `crossed` records.

### PipelineRun

One run. `launch` is its `invocation.json`; `gen`, `attempts` and `marker` are the other
files; `queue` is the durability worker's, in which nudges, generations and the posted
result land in order and are lost together in a crash. `box` is the set of keys of
`completed_step_results`: a key is written into it before its generation is queued, and
`submit_durable` is awaited only where the code awaits it (`Landed`), so the executor
runs ahead of the disk after a `transform` and never after a tool. `at` has the task of each item of a `for_each`: `StartItem` is the semaphore,
`ItemActs` the effect, `Record` and `Recorded` the two ends of the recorder's critical
section, `Save` and `Saved` those of the coordinator's, which takes items in the order in
which they returned. Collect is a step without an effect, as a transform is: the code allows
any step there (executor.py:1571-1586). `EndEach` writes twice without waiting between: collect's key, then the
step's. `Deliver` and `WriteMarker` are the two halves of `_finish`; nothing is awaited
between them, and a crash may still fall there. `Scan` counts an attempt, `Wake` starts
a driver that always notifies, and the nudges never taken are still in the mail.
`stalled` is a driver whose run loop has ended by an exception or by the interrupt of the
caller it was attached to: nothing moves until the process starts again.

## 3. Runs

State counts are distinct states; every bound is a constant of the module.

| Run | Bounds | Shows |
|---|---|---|
| `durable_gated` | 2 sessions, 3 mutations, interval 2, 2 attempts, 1 fault, 2 crashes; 235,806 states | `AppliedIsExact`, `WalOrder`, `NoAckedLoss`, the refinement `KeepsPromise`, `CleanExitLeavesNoTail`, and under fairness `EventuallyDurable` |
| `durable_truncate` | as above with 1 crash and 2 truncations; 756,276 states | `AppliedNeverAheadOfWal`, `PinnedTailSurvives` |
| `branches` | every log of up to 6 entries, global scope and one session; 11,465 states | the interval algorithm is the lineage for every scope; predecessor on the active branch |
| `worker` | 2 jobs, 1 flush, 1 aclose, 2 attempts, 2 faults, 1 cancellation, hook on; 460,490 states | honest futures, FIFO, both barriers, everyone answered |
| `rewind` | 2 sessions (symmetric), 4 entries, 1 generation, 1 crash, 1 truncation; 1,543,458 states | sessions hold their active branch, generations are exact, abandoned work stays dead |
| `lifecycle` | 2 agents, 1 spawned session, 1 topology, 1 registry, 4 entries, 1 record queued, 2 config changes, 1 truncation, 1 crash; 5,134,766 states | roster, archival, topologies and registries follow the branch; members exist; nothing living is deleted |
| `inbox` | 3 messages (a text that may be injected, a reply that may not, a ride-along), both drivers, 2 records under way, 1 restart or rewind; 441,478 states | the copies agree, arrival order, final cancels, nothing twice, everything handled |
| `tasks` | 2 tasks of any kinds with a prompt among them, both limit modes, 2 snapshots under way, 1 restart or rewind; 442,935 states | handles and journal agree; no task forgotten; a watched one is told of |
| `questions` | 2 questions of any two origins, both surfaces, 1 snapshot under way, 2 restarts or rewinds; 827,211 states | journal, queue and screen agree; whoever waits can be answered; the queue is refused |
| `pipeline` | a tool, a `for_each` of 2 items with 2 inner tools each, a transform; 4 kinds of launch, 2 items at a time, 1 retry, 1 resume, 3 crashes; 1,113,212 states | nothing recorded happens again, a marker is honest and final, somebody is told, a run that is let go on is decided |
| `torn_tail`, `lifecycle_reuse` | smallest that show it | disagreements between code and documentation, section 6 |

Why the bounds are enough to meet the interesting cases. With interval 2 and three
mutations over two sessions, a gated snapshot can be queued with WAL jobs before and
behind it, of its own session and of the other; one fault with two attempts retries
both before and after the line has landed; two crashes allow dying again in recovery.
Six log entries hold a rewind, a rewind of the rewind and the revival of a dead
branch with work on each, which is as deep as the fold's cases go (kept, moot, and
moot by a moot record). Two jobs are the first number at which a job can be in hand
with another queued, which is where `flush`, cancellation and the hook bite. Four
entries in `rewind` hold two pieces of work, a scoped and a global record, or two
records and a generation between them; a longer instance with two generations
(6,755,596 states) was also explored once without an error. Four entries in `lifecycle` hold
a creation, a removal or a topology, a checkout and what comes after it, or a checkout of a
checkout; one queued record is enough for a file that is ahead of its record, and two agents
for a topology that outlives a member. Longer histories with fewer names (two agents and a
topology: 6 entries and no death, or 5 and one; an agent with a topology, a session or both: 5 to 7
entries and up to two deaths; 1 to 12 million states each) were explored once too: they gave
`RemovedForGood`, `RemadeWithoutOwner` and the purge of a leftover in `PurgedBy`. `OnceTruncated` bounds the truncations. Three messages of three
kinds let a peek inject one, hold another and leave a third to arrive behind it, with a
ride-along before the trigger. Two tasks are enough for one to be delivered while the
other's watchdog runs and is cancelled with it. Two questions make a head and a next, and
two resets a restored question that is restored again. In the pipeline two items of two tools
each put one item's record between another's effect and its record; three crashes with one
allowed resume reach the cap and die again behind it.

Every module defines a `TypeOK`, which holds in all its runs. It is not among the properties
of a run: the proofs establish it for `DurableState`, `TaskHandles`, `Rewind` and
`SessionInbox`, and elsewhere it says nothing that the other properties do not need.

Every bound is a constant named `Max...` of its module. `MaxLag` lets the
outside act only while few records (or snapshots) are not durable, which bounds how far
a crash goes back but not what it interrupts; `MaxResets` bounds restarts and rewinds together.

Deadlock is checked in the `DurableState` runs (a process can always crash-loop,
stop, restart or save again). It is not checked elsewhere: a bounded log, or a
worker with no job left, does stop.

**Fairness.** `DurableState!FairSpec` has weak fairness on the worker's steps only:
the drainer is a ready task on a running loop, kicked by the enqueue that finds
none. Nothing forces a session to mutate, a crash to happen or a fault to stop;
faults are bounded, as `max_write_attempts` bounds them per job.
`DurabilityWorker!FairSpec` has weak fairness on `Progress`: a ready task is run and
a thread ends. Calls, faults and cancellations are never forced.
`SessionInbox!FairSpec`: the driving task runs whenever it can (`DriverStep`); hooks have
a timeout and a turn is bounded by its round cap and the timeouts of its calls. Nothing
obliges a turn to peek. `TaskHandles!FairSpec`: the loop moves on (`LoopStep`), deadlines pass where
no user is asked (`Deadline`), a settled exec is announced (`Announce`), and a task's messages are not passed over for ever (strong
fairness of `Turn(t)`: the inbox is a queue, here a set). No peer has to answer.
`Interventions!FairSpec`: the event loop runs what is ready (`LoopStep(q)`) and the grace
driver's clock runs (`FailClose`). Nobody has to answer, attach, claim or discard.
`PipelineRun!FairSpec`: the worker lands what is queued, the driver's turn and every
item's task go on, and a process that died is started again (`Scan` and `Wake` are in
`Driver`). Tools return, as their timeouts make them; nothing has to fail, be cancelled or
crash, and a driver that is `stalled` is not revived.
`Branches`, `Rewind` and `Lifecycle` claim safety only.

## 4. The properties, and what they are for

- `AppliedIsExact`: capture on the loop and stamp in the worker must not let a
  mutation fall on the wrong side of the number. If it did, replay would lose or
  repeat it, and only for one interleaving of two sessions and a gate.
- `WalOrder`, `NoAckedLoss`: retries, dropped jobs and restarts neither reuse a number nor
  reorder; what was acknowledged is recovered after any crash.
- `EventuallyDurable`: a write that nobody awaits gets to the disk behind whatever is queued. It
  takes the drainer for granted; that there is one is `EveryoneIsAnswered`.
- `KeepsPromise`: recovery is a first part of history *across sessions*, so one
  session never remembers sending what another forgot receiving earlier.
- `PinnedTailSurvives`, `AppliedNeverAheadOfWal`: truncation with in-flight snapshots.
- `LandsInOrder`, `FlushIsBarrier`, `HookIsBehindBarrier`,
  `FuturesAreHonest`, `EveryoneIsAnswered`: what the worker's clients rely on.
- `ActiveIsLineage`: the pure algorithm, for every scope. That checkout is time travel
  for those in its scope and changes nothing for the others follows from it, because the
  lineage read back from the new head jumps to the target, or does not see the record.
- `StateIsActiveBranch`, `GenerationsAreExact`, `AbandonedStaysDead`: rewind against crash,
  recovery and truncation. The first two are conditioned on no truncation having happened
  (`HistoryIsThere`), because with one they fail (section 6); the last is not.
- `RosterFollowsLineage`, `TopologiesFollowLineage`: each kind of thing has a rule of its own,
  stated here against the lineage read back from the head, through deaths at any step. With a
  truncation, hence in every archive sweep, they say nothing. A session stands without its agent in one case only (`RemadeWithoutOwner`, section 6).
- `NobodyDangles`: agents and topologies are rebuilt by different records and removed in
  different steps, and still no topology names an agent that is not there, unless a checkout
  went back behind a removal that no rebuild undoes (`RemovedForGood`), or to a record that
  named, when it was written, someone who was not of its branch (`WrittenAskew`). It alone is
  about the sweep, and there the members swept are excused once there was a checkout.
- `ConfigSurvivesTruncation`: the generations are pruned, and the log under them is gone, but
  the registry is what its last change on the branch made it.
- `NothingLivingIsDeleted`: whatever was truncated, a rebuild takes nothing that lives. A
  checkout does not stop an archive sweep, whose steps in between are left out (`OnLoop`): it
  removes agents archived below the floor, on the branch or not, which is its purpose.
- `QueueIsJournal`: queue, peek buffer, marks, staged context, in-memory snapshot and what
  a replay of the records gives are six copies of one inbox, changed by seven paths.
- `TurnsStartInArrivalOrder`, `RevokedIsFinal`, `NotTwiceOnceDurable`,
  `EveryMessageIsHandled`: what a sender relies on, with injection looking past messages,
  cancels that can only mark, and restarts between two records of one drain.
- `MemoryIsJournal`: handles are ended by five different parties and rebuilt by two.
- `RecordedNeverFires`: the contract of resuming, at its hardest where items run side by side:
  their records are snapshots of one box, so a record built from what one item has seen would
  take another's back, and the next resume would repeat its effect.
- `MarkerIsHonest`, `TerminalIsFinal`, `SomeoneIsTold`, `RunIsDecided`: the
  marker is written last, on four paths, by drivers of several processes that know nothing
  of each other but what is in the files.
- `NeverForgotten`, `WatchedTaskIsTold`: no way a delivery can go wrong loses a task (it may
  stay pending for ever: section 6), and
  with nobody to ask, a watched one ends in something the requester hears of.
- `JournalIsQueue`, `HeadIsShown`, `NoQuestionIsLost`, `QueueIsRefused`: a prompt is never
  left waiting with nobody shown it, nobody able to answer it, or no record of it.

`PROJECT.json` ties each hazard of the code, at its line, to the properties that would
catch it, and says of the rest why none does.

## 5. What is proved

For every value of the constants, in `DurableStateProofs`:

- `TypeCorrect`: `Spec => []TypeOK`, unconditionally. `TypeInv` adds to `TypeOK` what it
  takes to be inductive.
- `AppliedExact`: `Spec => []AppliedIsExact`, assuming `WritesComeThrough` (fewer faults
  than attempts, so that no job is given up, and no torn writes) and `NoTruncation`.
- `AckedSurvives`: `Spec => []NoAckedLoss`, under the same two assumptions. It says what a
  restart recovers; of it an idle session is not handed its staged next-turn context.

Both assumptions are needed by the code, not by the proof: `torn_tail` shows a conclusion
fail without the first; truncation can drop the entries of a session at `applied_seq` 0
(section 6); and a WAL write given up followed by a snapshot that succeeds stamps a
number whose entry never landed.
`DurableGated.cfg` satisfies exactly these assumptions.

**The argument.** `AppliedIsExact` is not inductive: it says nothing of the queue, where
a snapshot waits between its capture and its stamp. `ExactInv` says what is true in
between. `Ahead(q, i, s)` is the set of mutations of `s` whose WAL jobs stand before
position `i`; the in-memory content is the logged part plus all of `Ahead`
(`MemExact`), a queued capture is the logged part plus what is ahead of it
(`CaptureExact`), so when it reaches the head, its content is precisely the logged
part, and it is stamped with the counter, which covers the log (`CounterAhead`,
`Settled`). A stored snapshot then stays exact because later numbers are higher
(`DiskExact`). Crashes need two more: no stored snapshot claims an entry that can
still be lost (`SoftIsUnclaimed`), and the number a restart resumes from is not below
any stored stamp (`Anchored`). `StageFits`, `RetriesAreFaults`, `Intact` and
`LandedIsReadable` are the bookkeeping. There is one lemma per action, and small
lemmas on how a queue's `Ahead` changes when a job is appended or removed.
`AckedSurvives` adds `AckedIsSynced` (an acknowledged mutation is in the synced
log, which never shrinks) and the fact that a replay of an exact snapshot is the log.

In `WaitingProofs`, for `TaskHandles`, unconditionally and for any tasks, kinds and bounds (the
module extends `Interventions` and `TaskPromises` and takes `TaskHandles` as its instance `T`;
`T!TaskAssumption` is the hypothesis that stands for the assumption of `TaskHandles`):

- `TasksTypeCorrect`: `Spec => []TypeOK`.
- `HandlesAgree`: `Spec => []MemoryIsJournal`. Inductive as it stands, given types: every
  action changes both maps or neither, and the two that install a snapshot install it in both.
- `WatchdogsEndWithTheirTask`: `Spec => []WatchIsForPending`, no watchdog outlives its task.
- `NoTaskIsForgotten`: `Spec => []NeverForgotten`. Inductive only together with facts about
  the turn: a message that is being settled is of a task already told, and one in its
  hooks counts as on its way (`SettlingIsTold`); the restart's case is by what `Restored`
  keeps and by the definition of `forgotten`.

In `DurableStateProofs` too, with truncation:

- `LogIsInOrder`: `Spec => []WalOrder`, unconditionally. `OrderInv` follows a number from the
  queue to the file: jobs in the queue are in issue order and newer than anything issued
  before, and the counter leads both.
- `StampsAreDurable`: `Spec => []AppliedNeverAheadOfWal`, assuming `WritesComeThrough` only.
  `StampInv` follows a stamp through the stages of a snapshot write and the top entry
  through truncation, which always leaves it.
- `ShutdownLeavesNoTail`: `Spec => []CleanExitLeavesNoTail`, assuming `NoTruncation` too:
  `ClosedIsCovered` says what has been queued when a journal has been closed.
- `PromiseKept`: under `WritesComeThrough` and `NoTruncation`, `Spec` implies
  `RecoverableLog!Spec` under the mapping of `MCDurableState`. `PromiseInv` adds to the
  invariants above that what is not yet synced is the job in hand (`UnsyncedIsHead`); from it
  `Mapped` gives both mapped variables in terms of the log and the queue, and each action is a
  step of the abstract log (`Mutate`: accept; `SyncLine`: harden; `Restart`: lose a last part)
  or a stutter.
- `PinnedTailIsKept`: `Spec => PinnedTailSurvives`, assuming `WritesComeThrough` only. A floor is
  computed from the numbers in memory and used later, behind other writes. `PinInv` says why it
  is still right: a queued floor is at most one past the number in memory of each session
  that has one, and these only grow (`FloorsArePinned`); what memory, a queued snapshot and a
  stored one hold of their session is all that the log and the queue have of it up to their number, also
  when older entries are dropped (`MemHolds`, `CaptureHolds`, `EntriesAbsorbed`); and nothing is
  queued while the process is down (`DownIsDrained`). Without the assumption a write that is
  given up is followed by a snapshot stamped with a number the log never gets, and the
  invariant goes with it.

In `BranchesProofs`, for every log and every scope, unconditionally: `ActiveIsTheLineage`
(`Spec => []ActiveIsLineage`) and `ActivePredecessor` (`Spec => []ActivePredecessorIsOnLineage`).
Both sides are recursive. Induction over them is done in the form the provers can use: a set of
numbers without a least element is empty (`WFMin` of the library, which takes no operator), so a
set with each number all of whose predecessors it has is all numbers. The heart is what the
latest-first pass keeps: an entry at or past the record it has come to is in one of its intervals
exactly if the way back from the head jumps over it. A log the code can write
is one whose records point back (`WellFormed`, an invariant of `Spec`).

In `RewindProofs`, which cites the above for the log of `Rewind`:

- `TypeCorrect` and `AbandonedWorkStaysDead` (`Spec => []AbandonedStaysDead`), unconditionally;
- `StateIsTheActiveBranch` (`Spec => []StateIsActiveBranch`) and `GenerationsStayExact`
  (`Spec => []GenerationsAreExact`), assuming `~InputDuringRewind`. That constant is whether an
  append may fall between a session's materialisation and its siblings'; with it the code loses
  the input (section 6). Both properties carry `HistoryIsThere` themselves.

The invariant (`IInv`) says what each copy `Holds`: never work off the lineage of the number it
claims and, while nothing is truncated, all of it. Generations and the memory of settled
sessions do so always; a snapshot on disk only if nothing is about to overwrite it (`DiskInv`), and
then no record that its session sees lies past it. Who is about to (`Pending`) is a checkout under
way or the recovery of the latest record, whose `todo` and log must agree (`RewindInv`);
`KeptInv` says that no truncation takes a reset record, so recovery finds the latest.

In `LifecycleProofs`, citing `BranchesProofs` for its log too, first unconditionally:

- `TypeCorrect`: `Spec => []TypeOK`.
- `ConfigIsNotLost`: `Spec => []ConfigSurvivesTruncation`. A checkout's record is durable when it
  is written, so everything after the last one is on the branch, and a death takes back no
  part of the branch before the last durable number (`LogInv`, `LogCut`). A generation
  never has a number past that one, so its place on the branch is settled when it is stored; and what
  a prune removes has a survivor of its registry above it and below the floor (`GensInv`). So
  the last generation on the branch is the same in what is stored as in all that was ever
  recorded (`ConfigFollows`).
- `TopologiesAreAsDrawn`: `Spec => []TopologiesFollowLineage`. A topology stands (`Stands`) if a
  purge changed it and owes its record (`WillBeDrawn`; no checkout is under way then), or if it owes
  none and is what its last record on the branch says (`IsAsDrawn`). The latter is claimed when no global
  checkout is half done, so that checkout's last step must restore it; a topology without any record is
  empty throughout, which is what the rebuild leaves of one that has none on the branch.

and for `NamesOnce`, the constant that says no agent or session is made, or agent archived, twice
under one name (run `lifecycle_reuse` shows why the second theorem needs it):

- `RosterIsKept`: `NamesOnce => (Spec => []RosterFollowsLineage)`. A name that is not in `adrift` has
  one birth and everything else recorded of it lies behind that (`AgentKnown`, `SessionKnown`), so
  whether it meets the branch is one question. Between checkouts the files answer it for
  everyone, and during one for those whose turn in the loop is over (`IsThrough`). A session
  has its owner, or was made again after the owner's purge (`OwnerStands`), so the
  rebuild does not take a leftover session directory for an agent.
- `WhatLivesIsKept`: `NamesOnce => (Spec => NothingLivingIsDeleted)`, truncated or not. `OnceStands` is
  the part of the above that truncation leaves true: what the code's scan finds is the only
  record of its kind there ever was. So who is `Doomed` or `Gone` by it is so by
  the whole log; and what was noted for removal stays not due until the end of the rebuild.
- `NobodyIsLeftDangling`: `NamesOnce => (Spec => []NobodyDangles)`, truncated or not. Three facts
  carry it (`MembershipStands`): whoever a topology names, on file or in a record, was made
  before that (`MembersBorn`); each member on file is named by some record (`MembersDrawn`); and an
  agent that was made and is missing was collected, purged, or left behind by a checkout, in which case
  its birth, once its turn is over, is off the branch or truncated (`AgentAccounted`). When
  a rebuild writes a topology's last record on the branch, everything on the way back from that record
  is on the branch too (`BranchOfBranch`), hence so is the birth of whoever it names,
  or the record was askew from the start. The sweep removes an agent before its topologies, so
  the cascade it still owes stands for the member in between (`MemberStands`).

In `SessionInboxProofs`, unconditionally: `TypeCorrect`, `CopiesAgree` (`Spec =>
[]QueueIsJournal`), `CancelIsFinal` (`Spec => RevokedIsFinal`), `DurablyOnce` (`Spec =>
NotTwiceOnceDurable`) and `TurnsKeepOrder` (`Spec => TurnsStartInArrivalOrder`). `QueueIsJournal` is
about the present; a restart is about the past, since it brings back any state between the disk and
the last record. So `InboxInv` has two halves. `QueueAgrees`: what is pending stands there once, and
without marks it is the journal's inbox. `JournalAgrees`: every snapshot that a crash part-way
through the records in flight may recover (`Landings`) is itself sound - no message twice, in
inbox or in staged context but not in both, nothing revoked staged again. A drain writes
several records, so its intermediate states count, and are followed one message at a
time (`Moves`, `OnTheWay`). Most of the module is the laws of sequences this rests on: what
is left of one when some entries are taken (`Except`, `Only`), what a run of records rebuilds
from a prefix (`ReplayAll`), the records of a drain (`FlattenSeq`), proved by induction on sets as above.

In `DurabilityWorkerProofs`, unconditionally and for any jobs, callers, faults and
cancellations: `NobodyIsLiedTo` (`Spec => []FuturesAreHonest`), `OneInOrder`
(`Spec => []LandsInOrder`), `FlushWaitsForAll` (`Spec => []FlushIsBarrier`). Futures are honest because
a job is in one place at a time whoever is cancelled (`OnePlace`): queued, in a consumer's hand, in a
thread nobody awaits, or on disk. Order and barrier, which promise nothing after a
cancellation, need that those places are ordered (`InOrder`) and that a job in none of them was
dealt with (`Tracked`); that a caller woken by `join()` has nothing left outside is the balance of
`unfinished` with queue and hands (`Shape`), which cancellations must keep too. What one turn of
the loop does to queue and hand is in `TakeFacts`, used by every action that takes a job.
`HookRunsFirst` (`Spec => []HookIsBehindBarrier`) adds `HookInv`: what is on disk without
an end-of-burst job behind it is owed one, by a consumer that will enqueue it before its burst
ends or by one that already stands in the queue; so when the books say that nothing is
outside, nothing is owed, but for what came after the burst's own (`late`).

In `WaitingProofs`, for `Interventions`, unconditionally: `QueueIsJournalled`
(`Spec => []JournalIsQueue`) and `QuestionsStandOnce` (`Spec => []InOnePlace`). The first needs the second:
striking a question off queue and journal removes it from both only if it stood once.
`UnaskedIsUnrecorded` closes the induction. `TheNextIsShown` (`Spec => []HeadIsShown`) needs the
order of the queue (`LineInv`): every entry is held by a task that stands there (`LineIsHeld`),
and its very first was shown if it still waits, or a task is about to leave and will announce
it (`HeadSeen`). `NobodyWaitsInVain`
(`Spec => []NoQuestionIsLost`) needs that a parked question that is still pending is stalled or on
its way back (`ParkedIsKept`).

In `PipelineRunProofs`, unconditionally, from `FateInv` (a marker leaves only nudges to
ignore; the executor is started at most once per counted attempt; an attached caller is waited for by
nobody but the driver it started): `MarkerEndsTheRun`, `ResumesAreBounded`, `TheLauncherIsTold`.

Also there, unconditionally: `RecordedStaysDone`
(`Spec => RecordedNeverFires`). `RecordInv` says that the disk, the generations queued and the
executor's box are ever larger sets, in that order (`DiskIsBehind`, `BoxIsAhead`), that a run starts
from the disk only when no older generation is queued (`NothingQueued`, which rests on the
marker following the end), and that a step or item that may still act has no key in the box
(`BoxIsAtStep`, `ItemsUnkept`). So an effect is had only of a key outside the box, and all that was
ever on disk is inside. And `MarkerTellsTheTruth` (`Spec => []MarkerIsHonest`): a key is in the box, in a
queued generation or on disk only if its effect was had, or its failure was recorded as
dropped. An item has its key only when all its inner tools are through, a `for_each` when
its items are; so `HonestInv` follows what each item's task holds (`ItemsHonest`), and an "ok" has the
key of every step behind it (`OkIsEarned`). For "cancelled", `FirstInv`: a run is cancelled only in
the process that launched it, and there a step that had an effect has its generation on
disk before the next boundary, since a tool's is awaited, and so is that of a `for_each` of
which an item worked.

**Model-checked only.** Liveness (`EventuallyDurable`, `EveryoneIsAnswered`,
`EveryMessageIsHandled`, `WatchedTaskIsTold`, `QueueIsRefused`, `RunIsDecided`), which the proof
system does not do. Every safety property that a passing run checks is a theorem, the three of
`Lifecycle` above under `NamesOnce` and the two of `Rewind` under `~InputDuringRewind`, as in the runs.

## 6. Where code and documentation disagree

Each is a run that ends in a counterexample to a sentence of the repository, quoted in
`PROJECT.json`.

1. `torn_tail`: a cut-off line and the next append become one unreadable line; the
   comment in `_do_wal_write` says they stay two well-formed ones.
2. `lifecycle_reuse`: purged names are collected for ever, so an agent created under the name
   of a purged one is deleted by the next checkout, or by the recovery of an old one at the
   next start. Archiving on two branches, or creating on two branches after a truncation,
   is misjudged in the same way: the maps keep one record per name.

Met while modelling and no longer kept as runs. Each is a statement of the repository
that the modules refute when it is added as a property:

- registry.py:3765-3767, truncation "never drops rewind history within the retention window":
  `Rewind` with `RewindIsWhole`. A checkout that passes the retention guard after (or during) a
  truncation rebuilds a session without what only a removed generation held.
- docs/reference/config/multi-agent.md:71-73, a refused delivery "resolves as a timeout error
  via `chain_seconds`": `TaskHandles` with `PendingTaskEnds`. Every cancelled turn calls
  `await_quiescent`, which cancels the watchdogs of all pending tasks, and no restore follows.
- config_generations.py:163-168, of each registry the base below the floor "must survive":
  `Lifecycle` with `ConfigSurvivesTruncation` without its premise. The base kept is the
  highest number, which may lie on an abandoned branch; the one that was active is gone and
  the next rebuild removes the registry's file.
- registry.py:2928-2929, purged is "never re-materialised at any cut": `Lifecycle` with
  `RosterFollowsLineage` for the names in `adrift` too. The directory is removed before the
  record is written; a death between, and a reset record in the log, bring the agent back.
- registry.py:1507-1508, the cascade is there so that no "dangling topology references" stay:
  `NobodyDangles` without its exceptions. A checkout to before a purge brings the topology
  back with its purged member, as does one to a branch that was left, when the record of
  the member's creation has been truncated since; and a death between the sweep's rmtree
  and its cascade leaves the member there. With seven entries there is a way without any of
  these, beyond the bound of the run: a checkout that raises leaves an agent of the
  abandoned branch there, a topology is drawn with it, the next checkout removes the agent,
  and one back to that record restores the topology that names it (`WrittenAskew`). The attempt to prove
  the property without that exception found it.
- registry.py:3442-3482, a recovery carries out a session's own reset whether its agent is still
  there or not: `RosterFollowsLineage` without `RemadeWithoutOwner`, with six entries and two
  deaths. A reset of the session raised and its agent was purged; the next start makes the session's
  directory again, and since `list_names` wants a profile, no checkout ever removes it.
- registry.py:3689-3692, what truncation drops is "universally absorbed":
  `DurableState` with `PinnedTailSurvives` without its condition on `memApplied`.
- snapshot_generations.py:584-585, the lineage is "the active path one would see if checked
  out to `target`": `Branches` with `ActivePredecessorIsOnLineage` without `IsActive`.
- durability_worker.py:446, flush "never hangs on a drainer that died mid-queue":
  `DurabilityWorker` with `EveryoneIsAnswered` without its exemption for cancellations.
- durability_worker.py:465-486, aclose's on_drain_end covers everything:
  `DurabilityWorker` with `HookIsBehindBarrier` without `late`.
- session.py:3571-3573, no append lands once `await_quiescent` returned: `Rewind` with
  `InputDuringRewind = TRUE`.
- docs/reference/runtime/agui-transport.md:428-432, a pending intervention is "never left
  parked": in `Interventions` a stalled question is refused by nobody, because
  fail-close walks the queue only (`NoQuestionIsLost` asks no more than that it can be
  claimed or discarded).
- snapshot_journal.py:464-466, a staged ride-along "survives a crash while the session waits
  for the trigger message": `SessionInbox` with `StagedSurvivesRestart`; `restore_all`
  (registry.py:1837-1840) does not count staged context as something that waits.
- work_order.py:31-37, terminal means "result delivered" and a crash before delivery leaves
  no marker: `PipelineRun` with `DeliveredIsKept`. The result is posted into an inbox whose
  record is still queued when the marker is on disk, so a crash between keeps the marker
  and loses the result; pipelines.md:137-141 promises at-least-once delivery.
- pipelines.md:111-113, `on_settle` may be a pipeline's name: `settle` raises
  `NotImplementedError` for one (chain_manager.py:469-473), also when the driver gives up
  at the cap, so such a run never gets its marker (`SettleRaises`; `RunIsDecided` excepts it).
- pipelines.md:103-106, Ctrl-C on the attached caller stops the run "at the next step boundary
  rather than killing it mid-step": `PipelineRun` with `InterruptIsClean`. Cancelling the
  caller's turn cancels the driver's, in the middle of a step.
- pipelines.md:133-136, "a step's side effect fires once, no matter how many times the run is
  resumed": in `PipelineRun` an effect that was had before its generation landed is had again after a
  crash; `RecordedNeverFires` is what holds.

## 7. Plan

Done: `DurableState` with its refinement, `DurabilityWorker`, `TaskHandles`, `Interventions`,
`PipelineRun`, `Branches`, `Rewind`, `SessionInbox` and `Lifecycle`, all with proofs.
Next, in order of weight:

1. **Extensions of `Rewind`**: a materialisation that raises for one session, two
   overlapping checkouts (`_rewind_in_progress` is a flag), sessions loaded on demand.
2. **Composition**: two sessions, each with its inbox and its tasks, so that a peer's turn,
   its reply and its restart are modelled instead of chosen in `Afterwards`.
3. **Path locks**, spawn lineage and identity generations beside `Lifecycle`, tracked tasks,
   hooks' pending store, the outbox.

Each of them comes with its own invariants to prove; of what is modelled no safety property is
left without a theorem.
