---------------------------- MODULE DurableState ----------------------------
(***************************************************************************)
(* The durable write path that every session of one reyn process shares:   *)
(*   - SnapshotJournal (runtime/services/snapshot_journal.py): a mutation  *)
(*     enqueues its WAL write, changes the in-memory snapshot and, every   *)
(*     SnapshotInterval mutations, enqueues a snapshot write, all three    *)
(*     with no await in between;                                           *)
(*   - StateLog and DurabilityWorker (core/events): one FIFO queue, one    *)
(*     job at a time off the event loop, WAL sequence numbers assigned     *)
(*     inside the job, OSError retried, exhaustion latched;                *)
(*   - AgentRegistry.truncate_wal_if_eligible, restore_all and shutdown.   *)
(*                                                                         *)
(* A mutation is identified by its issue number (the code's uuid msg_id,   *)
(* chain id, intervention id); the state a snapshot holds is the set of    *)
(* mutations it has absorbed.  Every state is a function of the mutations  *)
(* applied in WAL order, so two states that differ differ in this set, or  *)
(* in the order the WAL gives to it (WalOrder).  Rewind is in Rewind.tla.  *)
(***************************************************************************)
EXTENDS Integers, Sequences, FiniteSets

CONSTANTS
  Sessions,          \* the (agent, session id) pairs: the routing key of an entry
  SnapshotInterval,  \* SnapshotJournal's snapshot_interval (20 by default)
  MaxWriteAttempts,  \* DurabilityWorker's max_write_attempts (5 by default)
  TornWrites,        \* can a cut-off write leave a line without its newline?
  MaxMutations, MaxFaults, MaxCrashes, MaxTruncations   \* bounds of the model

ASSUME ConstantsAssumption ==
  /\ SnapshotInterval \in Nat \ {0}
  /\ MaxWriteAttempts \in Nat \ {0}
  /\ TornWrites \in BOOLEAN
  /\ MaxMutations \in Nat /\ MaxFaults \in Nat
  /\ MaxCrashes \in Nat /\ MaxTruncations \in Nat

VARIABLES
  up,           \* the process runs; while FALSE only the files exist
  queue,        \* the DurabilityWorker's FIFO queue; its head is the job being run
  stage,        \* how far the head job is: idle, assigned, landed, renamed
  attempt,      \* failed attempts of the head job
  failed,       \* the latched durability_failed signal
  counter,      \* StateLog._counter = _last_assigned_seq
  lastDurable,  \* StateLog._last_durable_seq
  wal,          \* the readable entries of wal.jsonl (file order = seq order)
  unsynced,     \* the entries of wal no fsync has covered yet
  torn,         \* wal.jsonl ends in a fragment without a newline
  disk,         \* per session, snapshot.json: [content, applied]
  mem,          \* per session, the content of the in-memory AgentSnapshot
  memApplied,   \* per session, the in-memory AgentSnapshot.applied_seq
  since,        \* per session, SnapshotJournal._wal_appends_since_snapshot
  closed,       \* the sessions whose journal the shutdown has closed
  issued,       \* mutations issued so far: the next one is issued + 1
  acked,        \* history: mutations whose WAL write completed its fsync
  dropped,      \* history: entries a truncation removed from wal
  faults, crashes, truncations   \* how much of each bound is used

journalVars == <<mem, since, closed, issued>>
fileVars    == <<wal, unsynced, torn, disk>>
boundVars   == <<faults, crashes, truncations>>
vars == <<up, queue, stage, attempt, failed, counter, lastDurable, fileVars,
          memApplied, journalVars, acked, dropped, boundVars>>

----------------------------------------------------------------------------
(* Values. *)

Mutation == 1..MaxMutations

Entry    == [seq : Nat \ {0}, who : Sessions, mut : Mutation]
Snapshot == [content : SUBSET Mutation, applied : Nat]

WalJob(s, m)      == [kind |-> "wal", who |-> s, mut |-> m]
SnapshotJob(s, c) == [kind |-> "snapshot", who |-> s, content |-> c]
TruncateJobPast(f) == [kind |-> "truncate", floor |-> f + 1]       \* mutant
TruncateJob(f)    == [kind |-> "truncate", floor |-> f]

Job == [kind : {"wal"}, who : Sessions, mut : Mutation]
         \cup [kind : {"snapshot"}, who : Sessions, content : SUBSET Mutation]
         \cup [kind : {"truncate"}, floor : Nat]

EmptySnapshot == [content |-> {}, applied |-> 0]

Of(s, entries) == {e \in entries : e.who = s}
Muts(entries)  == {e.mut : e \in entries}

HighestSeqByCount(entries) == Cardinality(entries)                 \* mutant

\* _scan_max_seq: the highest sequence number present, 0 in an empty file.
HighestSeq(entries) ==
  CHOOSE n \in {0} \cup {e.seq : e \in entries} : \A e \in entries : e.seq <= n

----------------------------------------------------------------------------
(* What a restart makes of the files: load, then apply_events of the tail.  *)

UnabsorbedPastNext(s, log) ==                                      \* mutant
  {e \in Of(s, log) : e.seq > disk[s].applied + 1}

Unabsorbed(s, log) == {e \in Of(s, log) : e.seq > disk[s].applied}

ReplayedFrom(s, log) ==
  [content |-> disk[s].content \cup Muts(Unabsorbed(s, log)),
   applied |-> IF Unabsorbed(s, log) = {} THEN disk[s].applied
                                     ELSE HighestSeq(Unabsorbed(s, log))]

Replayed(s) == ReplayedFrom(s, wal)

\* Everything that was ever readable in the WAL, truncated or not.
History == wal \cup dropped

----------------------------------------------------------------------------
(* Initial state: a fresh .reyn directory. *)

Init ==
  /\ up = TRUE
  /\ queue = <<>> /\ stage = "idle" /\ attempt = 0 /\ failed = FALSE
  /\ counter = 0 /\ lastDurable = 0
  /\ wal = {} /\ unsynced = {} /\ torn = FALSE
  /\ disk = [s \in Sessions |-> EmptySnapshot]
  /\ mem = [s \in Sessions |-> {}]
  /\ memApplied = [s \in Sessions |-> 0]
  /\ since = [s \in Sessions |-> 0]
  /\ closed = {} /\ issued = 0
  /\ acked = {} /\ dropped = {}
  /\ faults = 0 /\ crashes = 0 /\ truncations = 0

----------------------------------------------------------------------------
(* The event loop: journals and the registry enqueue, they never wait. *)

Running == up /\ closed = {}

SnapshotDue(s) == since[s] + 1 >= SnapshotInterval

JobsOfSnapshotFirst(s, m, content) ==                              \* mutant
  IF SnapshotDue(s) THEN <<SnapshotJob(s, content), WalJob(s, m)>>
                    ELSE <<WalJob(s, m)>>

\* The jobs one mutation m of s enqueues, given the content after it.
JobsOf(s, m, content) ==
  IF SnapshotDue(s) THEN <<WalJob(s, m), SnapshotJob(s, content)>>
                    ELSE <<WalJob(s, m)>>

\* Any WAL-recorded mutation of SnapshotJournal: one synchronous block that
\* enqueues the WAL write, updates the snapshot and counts it for the gate.
\* Not guarded by durability_failed: only put_inbox is refused after the latch.
Mutate(s) ==
  /\ Running /\ issued < MaxMutations
  /\ issued' = issued + 1
  /\ mem' = [mem EXCEPT ![s] = @ \cup {issued'}]
  /\ queue' = queue \o JobsOf(s, issued', mem'[s])
  /\ since' = [since EXCEPT ![s] = IF SnapshotDue(s) THEN 0 ELSE @ + 1]
  /\ UNCHANGED <<up, stage, attempt, failed, counter, lastDurable, fileVars,
                 memApplied, closed, acked, dropped, boundVars>>

\* iter_applied_seqs: a session at applied_seq 0 pins nothing.
Watermarks == {memApplied[s] : s \in {t \in Sessions : memApplied[t] > 0}}

\* truncate_wal_if_eligible: floor = min(watermarks) + 1, enqueued, not awaited.
\* The WAL-size trigger is left to chance.
RequestTruncate ==
  /\ Running /\ truncations < MaxTruncations
  /\ \E low \in Watermarks :
       /\ \A w \in Watermarks : low <= w
       /\ queue' = Append(queue, TruncateJob(low + 1))
  /\ truncations' = truncations + 1
  /\ UNCHANGED <<up, stage, attempt, failed, counter, lastDurable, fileVars,
                 memApplied, journalVars, acked, dropped, faults, crashes>>

\* AgentRegistry.shutdown, once the run loops are gone: one journal after the
\* other enqueues an ungated final snapshot and waits for it.
CloseJournal(s) ==
  /\ up /\ s \notin closed
  /\ closed # {} => queue = <<>>
  /\ closed' = closed \cup {s}
  /\ since' = [since EXCEPT ![s] = 0]
  /\ queue' = Append(queue, SnapshotJob(s, mem[s]))
  /\ UNCHANGED <<up, stage, attempt, failed, counter, lastDurable, fileVars,
                 memApplied, mem, issued, acked, dropped, boundVars>>

----------------------------------------------------------------------------
(* The drainer runs the head job; nothing else writes the files. *)

HeadIs(kind) == up /\ queue # <<>> /\ Head(queue).kind = kind

JobDoneClearsQueue ==                                              \* mutant
  /\ queue' = <<>>
  /\ stage' = "idle"
  /\ attempt' = 0

JobDone ==
  /\ queue' = Tail(queue)
  /\ stage' = "idle"
  /\ attempt' = 0

\* The WAL job takes its number; the line is about to be written off the loop.
AssignSeq ==
  /\ HeadIs("wal") /\ stage = "idle"
  /\ counter' = counter + 1
  /\ stage' = "assigned"
  /\ UNCHANGED <<up, queue, attempt, failed, lastDurable, fileVars, memApplied,
                 journalVars, acked, dropped, boundVars>>

\* close() waits for its job; every other job is fire-and-forget.
HeadIsAwaited == closed # {} /\ Len(queue) = 1

HeadEntry == [seq |-> counter, who |-> Head(queue).who, mut |-> Head(queue).mut]

\* The line reaches the file.  It ends the fragment a cut-off write left, if
\* there is one, and is then as unreadable as the fragment.
LandLine ==
  /\ HeadIs("wal") /\ stage = "assigned"
  /\ IF torn THEN UNCHANGED <<wal, unsynced>>
             ELSE /\ wal' = wal \cup {HeadEntry}
                  /\ unsynced' = unsynced \cup {HeadEntry}
  /\ torn' = FALSE
  /\ stage' = "landed"
  /\ UNCHANGED <<up, queue, attempt, failed, counter, lastDurable, disk,
                 memApplied, journalVars, acked, dropped, boundVars>>

\* fsync returned: the durable watermark advances.
SyncLine ==
  /\ HeadIs("wal") /\ stage = "landed"
  /\ lastDurable' = counter
  /\ acked' = acked \cup {Head(queue).mut}
  /\ unsynced' = {}
  /\ JobDone
  /\ UNCHANGED <<up, failed, counter, wal, torn, disk, memApplied, journalVars,
                 dropped, boundVars>>

\* The snapshot job stamps the last assigned number on the captured content.
RenameSnapshot ==
  /\ HeadIs("snapshot") /\ stage = "idle"
  /\ disk' = [disk EXCEPT ![Head(queue).who] =
                [content |-> Head(queue).content, applied |-> counter]]
  /\ stage' = "renamed"
  /\ UNCHANGED <<up, queue, attempt, failed, counter, lastDurable, wal, unsynced,
                 torn, memApplied, journalVars, acked, dropped, boundVars>>

\* Back on the loop, the in-memory snapshot learns the number it is stored at.
PublishApplied ==
  /\ HeadIs("snapshot") /\ stage = "renamed"
  /\ memApplied' = [memApplied EXCEPT ![Head(queue).who] = counter]
  /\ JobDone
  /\ UNCHANGED <<up, failed, counter, lastDurable, fileVars, journalVars, acked,
                 dropped, boundVars>>

SurvivorsByFloorOnly(floor) == {e \in wal : e.seq >= floor}         \* mutant

\* _do_truncate never drops the highest entry: it holds the counter's watermark.
Survivors(floor) ==
  {e \in wal : e.seq >= floor \/ e.seq = HighestSeq(wal)}

\* Atomic rewrite: fragments go, and the rewritten file is fsynced as a whole.
RewriteWal ==
  /\ HeadIs("truncate") /\ stage = "idle"
  /\ wal' = Survivors(Head(queue).floor)
  /\ dropped' = dropped \cup (wal \ wal')
  /\ unsynced' = {} /\ torn' = FALSE
  /\ JobDone
  /\ UNCHANGED <<up, failed, counter, lastDurable, disk, memApplied, journalVars,
                 acked, boundVars>>

\* An OSError: the whole job is run again, or given up after the last attempt:
\* with no caller to raise to, the latch.  The jobs behind it still run.
WriteFault ==
  /\ up /\ queue # <<>> /\ faults < MaxFaults
  /\ stage \in IF HeadIs("wal") THEN {"assigned", "landed"} ELSE {"idle"}
  /\ faults' = faults + 1
  /\ torn' \in {torn} \cup (IF TornWrites /\ stage = "assigned" THEN {TRUE} ELSE {})
  /\ IF attempt + 1 < MaxWriteAttempts
       THEN /\ attempt' = attempt + 1 /\ stage' = "idle"
            /\ UNCHANGED <<queue, failed>>
       ELSE JobDone /\ failed' = (failed \/ ~HeadIsAwaited)
  /\ UNCHANGED <<up, counter, lastDurable, wal, unsynced, disk, memApplied,
                 journalVars, acked, dropped, crashes, truncations>>

----------------------------------------------------------------------------
(* Process death and restart. *)

\* Everything in memory goes; the files stay.
Halt ==
  /\ up' = FALSE
  /\ queue' = <<>> /\ stage' = "idle" /\ attempt' = 0 /\ failed' = FALSE
  /\ counter' = 0 /\ lastDurable' = 0
  /\ mem' = [s \in Sessions |-> {}]
  /\ memApplied' = [s \in Sessions |-> 0]
  /\ since' = [s \in Sessions |-> 0]
  /\ closed' = {}

\* Entries no fsync covered may be lost; one may be left as a fragment.
Crash ==
  /\ up /\ crashes < MaxCrashes
  /\ crashes' = crashes + 1
  /\ Halt
  /\ \E lost \in SUBSET unsynced :
       /\ wal' = wal \ lost
       /\ torn' \in {torn} \cup
            (IF TornWrites /\ (stage = "assigned" \/ lost # {}) THEN {TRUE} ELSE {})
  /\ unsynced' = {}
  /\ UNCHANGED <<disk, issued, acked, dropped, faults, truncations>>

StopWithoutDrain ==                                                \* mutant
  /\ up /\ closed = Sessions
  /\ Halt
  /\ UNCHANGED <<fileVars, issued, acked, dropped, boundVars>>

\* The end of a graceful shutdown: the worker has drained.
Stop ==
  /\ up /\ closed = Sessions /\ queue = <<>>
  /\ Halt
  /\ UNCHANGED <<fileVars, issued, acked, dropped, boundVars>>

\* A restart that dies inside restore_all's save loop has rewritten some of the
\* snapshots and nothing else.
ResaveSnapshot(s) ==
  /\ ~up
  /\ disk' = [disk EXCEPT ![s] = Replayed(s)]
  /\ UNCHANGED <<up, queue, stage, attempt, failed, counter, lastDurable, wal,
                 unsynced, torn, memApplied, journalVars, acked, dropped, boundVars>>

\* restore_all: replay, save every snapshot, and hand it to its session.  An
\* idle session (nothing queued or pending) is not handed anything: it starts
\* from AgentSnapshot.empty, at applied_seq 0.
Restart ==
  /\ ~up
  /\ up' = TRUE
  /\ counter' = HighestSeq(wal) /\ lastDurable' = counter'
  /\ disk' = [s \in Sessions |-> Replayed(s)]
  /\ mem' = [s \in Sessions |-> Replayed(s).content]
  /\ \E idle \in SUBSET Sessions :
       memApplied' = [s \in Sessions |->
                        IF s \in idle THEN 0 ELSE Replayed(s).applied]
  /\ UNCHANGED <<queue, stage, attempt, failed, wal, unsynced, torn, since, closed,
                 issued, acked, dropped, boundVars>>

----------------------------------------------------------------------------
WorkerStep ==
  AssignSeq \/ LandLine \/ SyncLine \/ RenameSnapshot \/ PublishApplied \/ RewriteWal

Next ==
  \/ \E s \in Sessions : Mutate(s) \/ CloseJournal(s) \/ ResaveSnapshot(s)
  \/ RequestTruncate
  \/ WorkerStep \/ WriteFault
  \/ Crash \/ Stop \/ Restart

Spec == Init /\ [][Next]_vars

\* The drainer is a task of a running loop, started by the enqueue that finds
\* none: as long as a job can take a step, one eventually does.
FairSpec == Spec /\ WF_vars(WorkerStep)

----------------------------------------------------------------------------
(* Correctness. *)

\* The variables hold what the code can hold; the stage fits the head job.
TypeOK ==
  /\ up \in BOOLEAN /\ failed \in BOOLEAN /\ torn \in BOOLEAN
  /\ queue \in Seq(Job)
  /\ stage \in {"idle", "assigned", "landed", "renamed"}
  /\ attempt \in 0..(MaxWriteAttempts - 1)
  /\ counter \in Nat /\ lastDurable \in Nat
  /\ wal \subseteq Entry /\ unsynced \subseteq wal /\ dropped \subseteq Entry
  /\ disk \in [Sessions -> Snapshot]
  /\ mem \in [Sessions -> SUBSET Mutation]
  /\ memApplied \in [Sessions -> Nat]
  /\ since \in [Sessions -> 0..(SnapshotInterval - 1)]
  /\ closed \subseteq Sessions
  /\ issued \in 0..MaxMutations /\ acked \subseteq Mutation
  /\ faults \in 0..MaxFaults /\ crashes \in 0..MaxCrashes
  /\ truncations \in 0..MaxTruncations

\* AgentSnapshot.applied_seq is a lower bound on absorption and, as stamped by
\* the journal, an exact one: a stored snapshot holds the effects of precisely
\* the entries of its session up to the number stamped on it.  The capture is
\* taken on the loop and stamped later, in the worker, behind the FIFO.
AppliedIsExact ==
  \A s \in Sessions :
    disk[s].content = Muts({e \in Of(s, History) : e.seq <= disk[s].applied})

\* The log replays mutations in the order they were issued, and no sequence
\* number is given to two entries, across retries and restarts.
WalOrder ==
  \A e, f \in History :
    /\ e.seq = f.seq => e = f
    /\ e.seq < f.seq => e.mut <= f.mut

\* A mutation whose WAL write was reported durable is recovered by any restart.
NoAckedLoss ==
  acked \subseteq UNION {Replayed(s).content : s \in Sessions}

\* save_nowait's criterion 1: no applied_seq, in memory or stored, is ahead of
\* the durable WAL.
AppliedNeverAheadOfWal ==
  up => \A s \in Sessions :
          memApplied[s] <= disk[s].applied /\ disk[s].applied <= lastDurable

\* SnapshotJournal.close: a clean exit leaves no WAL tail to replay.
CleanExitLeavesNoTail ==
  [][ (up /\ ~up' /\ crashes' = crashes /\ ~failed)
        => \A s \in Sessions : /\ disk'[s].content = mem[s]
                               /\ {e \in Of(s, wal') : e.seq > disk'[s].applied} = {}
    ]_vars

\* truncate_wal_if_eligible drops only what a session's stored snapshot has
\* absorbed, though the floor was computed while snapshot writes were under way
\* and is applied behind them. Of a session whose in-memory applied_seq is still 0
\* this is not claimed: iter_applied_seqs takes it for dormant, and its entries can
\* be dropped unabsorbed.
PinnedTailSurvives ==
  [][ \A e \in dropped' \ dropped :
        memApplied[e.who] > 0 => e.mut \in disk[e.who].content ]_vars

\* The drainer makes every write it was handed durable, however many jobs were
\* ahead of it, unless the process dies or the worker gives up and says so.
EventuallyDurable ==
  \A m \in Mutation :
    (\E i \in DOMAIN queue : queue[i].kind = "wal" /\ queue[i].mut = m)
      ~> (m \in acked \/ ~up \/ failed)
=============================================================================
