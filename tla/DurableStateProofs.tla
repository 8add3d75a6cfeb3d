------------------------- MODULE DurableStateProofs -------------------------
(***************************************************************************)
(* Proofs about DurableState, for every value of its constants: what a     *)
(* snapshot holds and what a restart recovers, and then, truncation        *)
(* included, the order of the log, that no snapshot's number is ahead of   *)
(* what is durable, and that it implements RecoverableLog.                 *)
(***************************************************************************)
EXTENDS MCDurableState, WellFoundedInduction, TLAPS

----------------------------------------------------------------------------
(* Sequence numbers. *)

\* A bounded non-empty set of numbers has a greatest element: the scan of
\* _scan_max_seq has a result.
LEMMA GreatestExists ==
  ASSUME NEW S \in SUBSET Nat, S # {},
         NEW K \in Nat, \A n \in S : n <= K
  PROVE  \E g \in S : \A n \in S : n <= g
<1> DEFINE T == {K - n : n \in S}
<1>1. T \subseteq Nat /\ T # {}
  <2>1. \A n \in S : K - n \in Nat
    OBVIOUS
  <2> QED  BY <2>1, Zenon
<1>2. PICK x \in T : \A y \in T : <<y, x>> \notin OpToRel(<, Nat)
  BY <1>1, WFMin, NatLessThanWellFounded, Zenon
<1>3. \A y \in T : ~(y < x)
  BY <1>1, <1>2 DEF OpToRel
<1>4. PICK g \in S : x = K - g
  OBVIOUS
<1>5. ASSUME NEW n \in S PROVE n <= g
  <2>1. K - n \in T
    OBVIOUS
  <2> HIDE DEF T
  <2> QED  BY <2>1, <1>3, <1>4
<1> QED  BY <1>5

\* The sequence numbers of a log have an upper bound.
Bounded(log) == \E K \in Nat : \A e \in log : e.seq <= K

\* HighestSeq names a number of the log, or 0, and none in the log is above it.
LEMMA HighestSeqIsHighest ==
  ASSUME NEW log, log \subseteq Entry, Bounded(log)
  PROVE  /\ HighestSeq(log) \in Nat
         /\ \A e \in log : e.seq <= HighestSeq(log)
         /\ HighestSeq(log) = 0 \/ \E e \in log : e.seq = HighestSeq(log)
<1> DEFINE S == {0} \cup {e.seq : e \in log}
<1>1. S \in SUBSET Nat /\ S # {}
  BY DEF Entry
<1>2. PICK K \in Nat : \A e \in log : e.seq <= K
  BY DEF Bounded
<1>3. \A n \in S : n <= K
  BY <1>2
<1>4. \E g \in S : \A n \in S : n <= g
  <2> HIDE DEF S
  <2> QED  BY <1>1, <1>3, GreatestExists
<1>5. \E g \in S : \A e \in log : e.seq <= g
  BY <1>4
<1>6. HighestSeq(log) \in S /\ \A e \in log : e.seq <= HighestSeq(log)
  BY <1>5, Zenon DEF HighestSeq
<1> QED  BY <1>1, <1>6

\* A part of a bounded log is bounded.
LEMMA PartIsBounded ==
  ASSUME NEW log, NEW part, Bounded(log), part \subseteq log
  PROVE  Bounded(part)
BY DEF Bounded

----------------------------------------------------------------------------
(* Types. *)

\* The number of the line being written has been assigned.
StageNumbered ==
  /\ stage \in {"assigned", "landed"} => counter # 0
  /\ ~up => stage = "idle"

TypeInv == TypeOK /\ Bounded(wal) /\ StageNumbered

\* What a restart makes of a session's files is a snapshot.
LEMMA ReplayedType ==
  ASSUME TypeInv, NEW s \in Sessions
  PROVE  Replayed(s) \in Snapshot
<1> DEFINE tail == Unabsorbed(s, wal)
<1>1. tail \subseteq wal /\ tail \subseteq Entry /\ Bounded(tail)
  BY PartIsBounded DEF TypeInv, TypeOK, Unabsorbed, Of
<1>2. Muts(tail) \subseteq Mutation
  BY <1>1 DEF Muts, Entry
<1>3. HighestSeq(tail) \in Nat
  <2> HIDE DEF tail
  <2> QED  BY <1>1, HighestSeqIsHighest
<1>4. disk[s] \in Snapshot
  BY DEF TypeInv, TypeOK
<1> HIDE DEF tail
<1>5. disk[s].content \cup Muts(tail) \in SUBSET Mutation
  BY <1>2, <1>4 DEF Snapshot
<1>6. (IF tail = {} THEN disk[s].applied ELSE HighestSeq(tail)) \in Nat
  BY <1>3, <1>4 DEF Snapshot
<1> QED  BY <1>5, <1>6 DEF Replayed, ReplayedFrom, Snapshot, tail

\* The head of the queue, and the rest of it, are jobs.
LEMMA QueueParts ==
  ASSUME TypeOK, queue # <<>>
  PROVE  Head(queue) \in Job /\ Tail(queue) \in Seq(Job)
BY DEF TypeOK

\* A finished job leaves the worker idle at the next one.
LEMMA JobDoneType ==
  ASSUME TypeOK, queue # <<>>, JobDone
  PROVE  queue' \in Seq(Job) /\ attempt' \in 0..(MaxWriteAttempts - 1) /\ stage' = "idle"
<1>1. queue' \in Seq(Job)
  BY QueueParts DEF JobDone
<1>2. attempt' \in 0..(MaxWriteAttempts - 1)
  BY ConstantsAssumption DEF JobDone
<1> QED  BY <1>1, <1>2 DEF JobDone

\* What process death leaves in memory.
LEMMA HaltType ==
  ASSUME TypeOK, Halt
  PROVE  /\ queue' \in Seq(Job) /\ attempt' \in 0..(MaxWriteAttempts - 1)
         /\ mem' \in [Sessions -> SUBSET Mutation]
         /\ memApplied' \in [Sessions -> Nat]
         /\ since' \in [Sessions -> 0..(SnapshotInterval - 1)]
<1>1. queue' \in Seq(Job)
  BY DEF Halt
<1>2. attempt' \in 0..(MaxWriteAttempts - 1)
  BY ConstantsAssumption DEF Halt
<1>3. since' \in [Sessions -> 0..(SnapshotInterval - 1)]
  BY ConstantsAssumption DEF Halt
<1>4. mem' \in [Sessions -> SUBSET Mutation] /\ memApplied' \in [Sessions -> Nat]
  BY DEF Halt
<1> QED  BY <1>1, <1>2, <1>3, <1>4

\* A fresh .reyn directory is well typed.
LEMMA TypeInit == Init => TypeInv
<1> SUFFICES ASSUME Init PROVE TypeInv
  OBVIOUS
<1> USE ConstantsAssumption DEF Init
<1>1. EmptySnapshot \in Snapshot
  BY DEF EmptySnapshot, Snapshot
<1>2. Bounded(wal)
  BY DEF Bounded
<1>3. queue \in Seq(Job)
  OBVIOUS
<1>4. /\ disk \in [Sessions -> Snapshot]
      /\ mem \in [Sessions -> SUBSET Mutation]
      /\ memApplied \in [Sessions -> Nat]
      /\ since \in [Sessions -> 0..(SnapshotInterval - 1)]
  BY <1>1
<1>5. /\ attempt \in 0..(MaxWriteAttempts - 1) /\ issued \in 0..MaxMutations
      /\ faults \in 0..MaxFaults /\ crashes \in 0..MaxCrashes
      /\ truncations \in 0..MaxTruncations
  OBVIOUS
<1>6. TypeOK
  BY <1>3, <1>4, <1>5 DEF TypeOK
<1>7. StageNumbered
  BY DEF StageNumbered
<1> QED  BY <1>2, <1>6, <1>7 DEF TypeInv

USE DEF vars, fileVars, journalVars, boundVars

\* Every action keeps the variables well typed, and a running job never has more
\* than the attempts it is allowed.
LEMMA TypeStep == TypeInv /\ [Next]_vars => TypeInv'
<1> SUFFICES ASSUME TypeInv, [Next]_vars PROVE TypeOK' /\ Bounded(wal)' /\ StageNumbered'
  BY DEF TypeInv
<1> USE ConstantsAssumption
<1>0. TypeOK /\ Bounded(wal) /\ StageNumbered
  BY DEF TypeInv
<1> DEFINE Goal == TypeOK' /\ Bounded(wal)' /\ StageNumbered'
<1>1. ASSUME NEW s \in Sessions, Mutate(s) PROVE Goal
  <2> USE <1>0, <1>1 DEF Mutate
  <2>1. issued' \in Mutation /\ issued' \in 0..MaxMutations
    BY DEF TypeOK, Mutation
  <2>2. mem' \in [Sessions -> SUBSET Mutation]
    BY <2>1 DEF TypeOK
  <2>3. WalJob(s, issued') \in Job /\ SnapshotJob(s, mem'[s]) \in Job
    BY <2>1, <2>2 DEF WalJob, SnapshotJob, Job
  <2>4. JobsOf(s, issued', mem'[s]) \in Seq(Job)
    BY <2>3 DEF JobsOf
  <2>5. queue' \in Seq(Job)
    BY <2>4 DEF TypeOK
  <2>6. since' \in [Sessions -> 0..(SnapshotInterval - 1)]
    BY DEF TypeOK, SnapshotDue
  <2>7. TypeOK'
    BY <2>1, <2>2, <2>5, <2>6 DEF TypeOK
  <2>8. Bounded(wal)' /\ StageNumbered'
    BY DEF Bounded, StageNumbered
  <2> QED  BY <2>7, <2>8
<1>2. ASSUME RequestTruncate PROVE Goal
  <2> USE <1>0, <1>2 DEF RequestTruncate
  <2>1. PICK low \in Watermarks : queue' = Append(queue, TruncateJob(low + 1))
    OBVIOUS
  <2>2. TruncateJob(low + 1) \in Job
    BY DEF Watermarks, TypeOK, TruncateJob, Job
  <2>3. queue' \in Seq(Job)
    BY <2>1, <2>2 DEF TypeOK
  <2>4. TypeOK'
    BY <2>3 DEF TypeOK
  <2>5. Bounded(wal)' /\ StageNumbered'
    BY DEF Bounded, StageNumbered
  <2> QED  BY <2>4, <2>5
<1>3. ASSUME NEW s \in Sessions, CloseJournal(s) PROVE Goal
  <2> USE <1>0, <1>3 DEF CloseJournal
  <2>1. SnapshotJob(s, mem[s]) \in Job
    BY DEF TypeOK, SnapshotJob, Job
  <2>2. queue' \in Seq(Job)
    BY <2>1 DEF TypeOK
  <2>3. TypeOK'
    BY <2>2 DEF TypeOK
  <2>4. Bounded(wal)' /\ StageNumbered'
    BY DEF Bounded, StageNumbered
  <2> QED  BY <2>3, <2>4
<1>4. CASE AssignSeq
  <2> USE <1>0, <1>4 DEF AssignSeq
  <2>1. TypeOK'
    BY DEF TypeOK
  <2>2. Bounded(wal)'
    BY DEF Bounded
  <2>3. StageNumbered'
    BY DEF StageNumbered, HeadIs, TypeOK
  <2> QED  BY <2>1, <2>2, <2>3
<1>5. CASE LandLine
  <2> USE <1>0, <1>5 DEF LandLine
  <2>1. StageNumbered'
    BY DEF StageNumbered, HeadIs
  <2>2. CASE torn
    <3>1. TypeOK'
      BY <2>2 DEF TypeOK
    <3>2. Bounded(wal)'
      BY <2>2 DEF Bounded
    <3> QED  BY <2>1, <3>1, <3>2
  <2>3. CASE ~torn
    <3>1. HeadEntry \in Entry /\ HeadEntry.seq = counter
      <4>1. Head(queue) \in Job /\ Head(queue).kind = "wal"
        BY QueueParts DEF HeadIs
      <4>2. counter \in Nat \ {0}
        BY DEF StageNumbered, TypeOK
      <4> QED  BY <4>1, <4>2 DEF HeadEntry, Entry, Job
    <3>2. Bounded(wal \cup {HeadEntry})
      <4>1. PICK K \in Nat : \A e \in wal : e.seq <= K
        BY DEF Bounded
      <4>2. \A e \in wal : e.seq \in Nat
        BY DEF TypeOK, Entry
      <4>3. K + counter \in Nat /\ \A e \in wal \cup {HeadEntry} : e.seq <= K + counter
        BY <3>1, <4>1, <4>2 DEF TypeOK
      <4> QED  BY <4>3 DEF Bounded
    <3>3. wal' = wal \cup {HeadEntry} /\ unsynced' = unsynced \cup {HeadEntry}
      BY <2>3
    <3>4. TypeOK'
      BY <3>1, <3>3 DEF TypeOK
    <3>5. Bounded(wal)'
      BY <3>2, <3>3, Zenon DEF Bounded
    <3> QED  BY <2>1, <3>4, <3>5
  <2> QED  BY <2>2, <2>3
<1>6. CASE SyncLine
  <2> USE <1>0, <1>6, QueueParts DEF SyncLine, JobDone, HeadIs
  <2>1. Head(queue).mut \in Mutation
    BY DEF Job
  <2>2. TypeOK'
    BY <2>1 DEF TypeOK
  <2>3. Bounded(wal)' /\ StageNumbered'
    BY DEF Bounded, StageNumbered
  <2> QED  BY <2>2, <2>3
<1>7. CASE RenameSnapshot
  <2> USE <1>0, <1>7, QueueParts DEF RenameSnapshot, HeadIs
  <2>1. Head(queue).content \in SUBSET Mutation /\ Head(queue).who \in Sessions
    BY DEF Job
  <2>2. disk' \in [Sessions -> Snapshot]
    BY <2>1 DEF TypeOK, Snapshot
  <2>3. TypeOK'
    BY <2>2 DEF TypeOK
  <2>4. Bounded(wal)' /\ StageNumbered'
    BY DEF Bounded, StageNumbered
  <2> QED  BY <2>3, <2>4
<1>8. CASE PublishApplied
  <2> USE <1>0, <1>8, QueueParts, JobDoneType DEF PublishApplied, HeadIs
  <2>1. TypeOK'
    <3>1. Head(queue).who \in Sessions /\ memApplied' \in [Sessions -> Nat]
      BY DEF TypeOK, Job
    <3>2. queue # <<>> /\ JobDone
      OBVIOUS
    <3> QED  BY <3>1, <3>2 DEF TypeOK
  <2>2. Bounded(wal)' /\ StageNumbered'
    BY DEF Bounded, StageNumbered, JobDone
  <2> QED  BY <2>1, <2>2
<1>9. CASE RewriteWal
  <2> USE <1>0, <1>9 DEF RewriteWal, HeadIs
  <2>1. wal' \subseteq wal /\ unsynced' = {} /\ dropped' \subseteq Entry
    BY DEF Survivors, TypeOK
  <2>2. queue' \in Seq(Job) /\ attempt' \in 0..(MaxWriteAttempts - 1) /\ stage' = "idle"
    BY JobDoneType
  <2>3. TypeOK'
    BY <2>1, <2>2 DEF TypeOK
  <2>4. Bounded(wal)' /\ StageNumbered'
    BY <2>1, <2>2 DEF Bounded, StageNumbered
  <2> QED  BY <2>3, <2>4
<1>10. CASE WriteFault
  <2> USE <1>0
  <2>1. torn' \in BOOLEAN /\ failed' \in BOOLEAN
    BY <1>10 DEF WriteFault, TypeOK, JobDone
  <2>2. queue' \in Seq(Job) /\ attempt' \in 0..(MaxWriteAttempts - 1) /\ stage' = "idle"
    <3>1. CASE attempt + 1 < MaxWriteAttempts
      BY <1>10, <3>1 DEF WriteFault, TypeOK
    <3>2. CASE ~(attempt + 1 < MaxWriteAttempts)
      BY <1>10, <3>2, JobDoneType DEF WriteFault
    <3> QED  BY <3>1, <3>2
  <2>3. faults' \in 0..MaxFaults
    BY <1>10 DEF WriteFault, TypeOK
  <2>4. UNCHANGED <<up, counter, lastDurable, wal, unsynced, disk, memApplied,
                    journalVars, acked, dropped, crashes, truncations>>
    BY <1>10 DEF WriteFault
  <2>5. TypeOK'
    BY <2>1, <2>2, <2>3, <2>4 DEF TypeOK
  <2>6. Bounded(wal)' /\ StageNumbered'
    BY <2>2, <2>4 DEF Bounded, StageNumbered
  <2> QED  BY <2>5, <2>6
<1>11. CASE Crash
  <2>1. PICK lost \in SUBSET unsynced :
          /\ wal' = wal \ lost
          /\ torn' \in {torn} \cup
               (IF TornWrites /\ (stage = "assigned" \/ lost # {}) THEN {TRUE} ELSE {})
    BY <1>11, Zenon DEF Crash
  <2>2. wal' \subseteq wal /\ torn' \in BOOLEAN
    BY <1>0, <2>1 DEF TypeOK
  <2>3. Halt /\ unsynced' = {} /\ crashes' \in 0..MaxCrashes
    BY <1>0, <1>11 DEF Crash, TypeOK
  <2>4. up' = FALSE /\ stage' = "idle" /\ failed' = FALSE /\ counter' = 0
        /\ lastDurable' = 0 /\ closed' = {}
    BY <2>3 DEF Halt
  <2>5. UNCHANGED <<disk, issued, acked, dropped, faults, truncations>>
    BY <1>11 DEF Crash
  <2>6. TypeOK'
    BY <1>0, <2>2, <2>3, <2>4, <2>5, HaltType DEF TypeOK
  <2>7. Bounded(wal)' /\ StageNumbered'
    BY <1>0, <2>2, <2>4 DEF Bounded, StageNumbered
  <2> QED  BY <2>6, <2>7
<1>12. CASE Stop
  <2> USE <1>0, <1>12 DEF Stop
  <2>1. up' = FALSE /\ stage' = "idle" /\ failed' = FALSE /\ counter' = 0 
        /\ lastDurable' = 0 /\ closed' = {}
    BY DEF Halt
  <2>2. TypeOK'
    BY <2>1, HaltType DEF TypeOK
  <2>3. Bounded(wal)' /\ StageNumbered'
    BY <2>1 DEF Bounded, StageNumbered
  <2> QED  BY <2>2, <2>3
<1>13. ASSUME NEW s \in Sessions, ResaveSnapshot(s) PROVE Goal
  <2> USE <1>0, <1>13 DEF ResaveSnapshot
  <2>1. disk' \in [Sessions -> Snapshot]
    BY ReplayedType DEF TypeOK, TypeInv
  <2>2. TypeOK'
    BY <2>1 DEF TypeOK
  <2>3. Bounded(wal)' /\ StageNumbered'
    BY DEF Bounded, StageNumbered
  <2> QED  BY <2>2, <2>3
<1>14. CASE Restart
  <2> USE <1>0, <1>14 DEF Restart
  <2>1. \A s \in Sessions : Replayed(s) \in Snapshot
    BY ReplayedType DEF TypeInv
  <2>2. HighestSeq(wal) \in Nat
    BY HighestSeqIsHighest DEF TypeOK
  <2>3. /\ disk' \in [Sessions -> Snapshot]
        /\ mem' \in [Sessions -> SUBSET Mutation]
        /\ memApplied' \in [Sessions -> Nat]
    BY <2>1 DEF Snapshot
  <2>4. TypeOK'
    BY <2>2, <2>3 DEF TypeOK
  <2>5. Bounded(wal)' /\ StageNumbered'
    BY DEF Bounded, StageNumbered
  <2> QED  BY <2>4, <2>5
<1>15. CASE UNCHANGED vars
  <2>1. TypeOK'
    BY <1>0, <1>15 DEF TypeOK
  <2>2. Bounded(wal)' /\ StageNumbered'
    BY <1>0, <1>15 DEF Bounded, StageNumbered
  <2> QED  BY <2>1, <2>2
<1> QED
  BY <1>1, <1>2, <1>3, <1>4, <1>5, <1>6, <1>7, <1>8, <1>9, <1>10, <1>11, <1>12,
     <1>13, <1>14, <1>15, Zenon DEF Next, WorkerStep

\* The variables of the write path hold what the code can hold, whatever the
\* number of sessions, writes, faults, crashes and truncations.
THEOREM TypeCorrect == Spec => []TypeOK
<1>1. TypeInv => TypeOK
  BY DEF TypeInv
<1> QED  BY TypeInit, TypeStep, <1>1, PTL DEF Spec

----------------------------------------------------------------------------
(* AppliedIsExact.  The capture of a snapshot is taken when its job is     *)
(* enqueued and the number is stamped when the job runs, so the argument   *)
(* is about the queue in between: whatever WAL write of the session stands *)
(* before a snapshot job in the queue is in its capture and will be in the *)
(* log, under a number no higher than the stamp, when the job runs.  It    *)
(* needs every WAL write to come through: no exhausted retries, no torn    *)
(* line; and no truncation, which may drop what no snapshot has absorbed.  *)

\* The conditions under which every write that is handed over is made.
WritesComeThrough == MaxFaults < MaxWriteAttempts /\ TornWrites = FALSE
NoTruncation      == MaxTruncations = 0

\* The mutations of s whose WAL writes stand before position i of a queue q.
Ahead(q, i, s) ==
  {q[j].mut : j \in {k \in 1..Len(q) : k < i /\ q[k].kind = "wal" /\ q[k].who = s}}

\* Nothing was truncated or torn, nor will be.
Intact ==
  /\ dropped = {} /\ torn = FALSE /\ truncations = 0
  /\ \A i \in 1..Len(queue) : queue[i].kind # "truncate"

\* The stage belongs to the head job, and a stopped process has no memory.
StageFits ==
  /\ ~up => queue = <<>> /\ unsynced = {}
  /\ queue = <<>> => stage = "idle" /\ attempt = 0
  /\ stage \in {"assigned", "landed"} => queue # <<>> /\ Head(queue).kind = "wal"
  /\ stage = "renamed" => queue # <<>> /\ Head(queue).kind = "snapshot"

\* A retry costs a fault, so no job is ever given up.
RetriesAreFaults == attempt <= faults

\* The in-memory snapshot: what is logged and what is queued.
MemExact ==
  up => \A s \in Sessions :
          mem[s] = Muts(Of(s, wal)) \cup Ahead(queue, Len(queue) + 1, s)

\* A queued capture: what is logged and what is queued before it.
CaptureExact ==
  \A i \in 1..Len(queue) : queue[i].kind = "snapshot" =>
    queue[i].content = Muts(Of(queue[i].who, wal)) \cup Ahead(queue, i, queue[i].who)

\* A stored snapshot: what is logged up to the number it is stamped with.
LoggedUpTo(s, n) == {e \in Of(s, wal) : e.seq <= n}
DiskExact == \A s \in Sessions : disk[s].content = Muts(LoggedUpTo(s, disk[s].applied))

\* A running worker's counter is ahead of every number in the files, strictly
\* while an assigned line has not landed.
CounterAhead ==
  /\ up => /\ \A e \in wal : e.seq <= counter
           /\ \A s \in Sessions : disk[s].applied <= counter
  /\ stage = "assigned" => /\ \A e \in wal : e.seq < counter
                           /\ \A s \in Sessions : disk[s].applied < counter

\* No stored snapshot claims an entry a crash may still take back.
SoftIsUnclaimed ==
  \A e \in unsynced : \A s \in Sessions : disk[s].applied < e.seq

\* The number a restart resumes from is no lower than any stored stamp.
Anchored ==
  \A s \in Sessions :
    disk[s].applied = 0 \/ \E e \in wal \ unsynced : disk[s].applied <= e.seq

\* Between WAL jobs everything is synced and the counter is in the log.
Settled ==
  up /\ ~(HeadIs("wal") /\ (stage # "idle" \/ attempt # 0))
    => unsynced = {} /\ (counter = 0 \/ \E e \in wal : e.seq = counter)

\* A landed line is readable.
LandedIsReadable == stage = "landed" => HeadEntry \in wal

ExactInv ==
  /\ Intact /\ StageFits /\ RetriesAreFaults
  /\ MemExact /\ CaptureExact /\ DiskExact
  /\ CounterAhead /\ SoftIsUnclaimed /\ Anchored /\ Settled /\ LandedIsReadable

\* How the set Ahead grows along a queue, and what it depends on.
LEMMA AheadFirst ==
  ASSUME NEW q, Len(q) \in Nat, NEW s
  PROVE  Ahead(q, 1, s) = {}
BY DEF Ahead

\* Past its head, Ahead is Ahead of the tail plus what the head adds.
LEMMA AheadNext ==
  ASSUME NEW q, Len(q) \in Nat, NEW i \in 1..Len(q), NEW s
  PROVE  Ahead(q, i + 1, s) = Ahead(q, i, s) \cup
           (IF q[i].kind = "wal" /\ q[i].who = s THEN {q[i].mut} ELSE {})
<1> DEFINE Before(k) == k \in 1..Len(q) /\ q[k].kind = "wal" /\ q[k].who = s
<1>1. \A k \in 1..Len(q) : k < i + 1 <=> k < i \/ k = i
  OBVIOUS
<1> QED  BY <1>1 DEF Ahead

\* Ahead looks at nothing behind its position.
LEMMA AheadSamePrefix ==
  ASSUME NEW q, NEW r, Len(q) \in Nat, Len(r) \in Nat, NEW n \in Nat,
         n <= Len(q), n <= Len(r), \A k \in 1..n : q[k] = r[k],
         NEW i \in 1..(n + 1), NEW s
  PROVE  Ahead(q, i, s) = Ahead(r, i, s)
<1>1. \A k : k \in 1..Len(q) /\ k < i <=> k \in 1..Len(r) /\ k < i
  OBVIOUS
<1>2. \A k \in 1..Len(q) : k < i => q[k] = r[k]
  OBVIOUS
<1> QED  BY <1>1, <1>2 DEF Ahead

\* Ahead of a queue is Ahead of its tail, one position earlier, and the head's share.
LEMMA AheadTail ==
  ASSUME NEW q, NEW t, Len(q) \in Nat, Len(q) >= 1, Len(t) = Len(q) - 1,
         \A k \in 1..Len(t) : t[k] = q[k + 1],
         NEW i \in 1..(Len(t) + 1), NEW s
  PROVE  Ahead(q, i + 1, s) = Ahead(t, i, s) \cup
           (IF q[1].kind = "wal" /\ q[1].who = s THEN {q[1].mut} ELSE {})
<1> DEFINE A(k) == k \in 1..Len(q) /\ k < i + 1 /\ q[k].kind = "wal" /\ q[k].who = s
           B(k) == k \in 1..Len(t) /\ k < i /\ t[k].kind = "wal" /\ t[k].who = s
<1>1. \A k : B(k) => A(k + 1) /\ t[k] = q[k + 1]
  <2> SUFFICES ASSUME NEW k, B(k) PROVE A(k + 1) /\ t[k] = q[k + 1]
    OBVIOUS
  <2>1. k \in 1..Len(t) /\ k < i /\ t[k] = q[k + 1]
    OBVIOUS
  <2>2. k + 1 \in 1..Len(q) /\ k + 1 < i + 1
    BY <2>1
  <2> QED  BY <2>1, <2>2
<1>2. \A k : A(k) => k = 1 \/ (B(k - 1) /\ t[k - 1] = q[k])
  <2> SUFFICES ASSUME NEW k, A(k), k # 1 PROVE B(k - 1) /\ t[k - 1] = q[k]
    OBVIOUS
  <2>1. k - 1 \in 1..Len(t) /\ (k - 1) + 1 = k /\ k - 1 < i
    OBVIOUS
  <2> QED  BY <2>1
<1>3. A(1) <=> q[1].kind = "wal" /\ q[1].who = s
  OBVIOUS
<1>4. Ahead(q, i + 1, s) = {q[j].mut : j \in {k \in 1..Len(q) : A(k)}}
  BY DEF Ahead
<1>5. Ahead(t, i, s) = {t[j].mut : j \in {k \in 1..Len(t) : B(k)}}
  BY DEF Ahead
<1>6. 1 \in 1..Len(q)
  OBVIOUS
<1>7. \A k : B(k) => k \in 1..Len(t)
  OBVIOUS
<1>8. \A k : A(k) => k \in 1..Len(q)
  OBVIOUS
<1> DEFINE X == {q[j].mut : j \in {k \in 1..Len(q) : A(k)}}
           Y == {t[j].mut : j \in {k \in 1..Len(t) : B(k)}}
           H == IF q[1].kind = "wal" /\ q[1].who = s THEN {q[1].mut} ELSE {}
<1> HIDE DEF A, B, H
<1>9. \A j : A(j) => q[j].mut \in X
  BY <1>8
<1>10. \A j : B(j) => t[j].mut \in Y
  BY <1>7
<1>11. A(1) => H = {q[1].mut}
  BY <1>3 DEF H
<1>12. ~A(1) => H = {}
  BY <1>3 DEF H
<1>13. ASSUME NEW j \in 1..Len(q), A(j)
       PROVE  q[j].mut \in Y \cup H
  <2>1. CASE j = 1
    BY <1>11, <1>13, <2>1
  <2>2. CASE j # 1
    <3>1. B(j - 1) /\ t[j - 1] = q[j]
      BY <1>2, <1>13, <2>2
    <3>2. t[j - 1].mut \in Y
      BY <1>10, <3>1
    <3> QED  BY <3>1, <3>2
  <2> QED  BY <2>1, <2>2
<1>14. ASSUME NEW j \in 1..Len(t), B(j)
       PROVE  t[j].mut \in X
  BY <1>1, <1>9, <1>14
<1>15. H \subseteq X
  BY <1>9, <1>11, <1>12
<1>16. X \subseteq Y \cup H
  BY <1>13
<1>17. Y \subseteq X
  BY <1>14
<1> HIDE DEF X, Y
<1>18. X = Y \cup H
  BY <1>15, <1>16, <1>17
<1> QED  BY <1>4, <1>5, <1>18 DEF X, Y, H

\* Nothing is captured, stored or logged yet.
LEMMA ExactInit == Init => ExactInv
<1> SUFFICES ASSUME Init PROVE ExactInv
  OBVIOUS
<1> USE DEF Init
<1>1. Intact /\ StageFits /\ RetriesAreFaults
  BY DEF Intact, StageFits, RetriesAreFaults
<1>2. MemExact /\ CaptureExact
  BY DEF MemExact, CaptureExact, Muts, Of, Ahead
<1>3. DiskExact /\ Anchored /\ SoftIsUnclaimed
  BY DEF DiskExact, LoggedUpTo, Muts, Of, Anchored, SoftIsUnclaimed, EmptySnapshot
<1>4. CounterAhead
  BY DEF CounterAhead, EmptySnapshot
<1>5. Settled /\ LandedIsReadable
  BY DEF Settled, LandedIsReadable
<1> QED  BY <1>1, <1>2, <1>3, <1>4, <1>5 DEF ExactInv

\* What a finished job leaves of the queue.
LEMMA QueueShifted ==
  ASSUME TypeOK, queue # <<>>, JobDone
  PROVE  /\ Len(queue) \in Nat /\ Len(queue) >= 1 /\ Len(queue') = Len(queue) - 1
         /\ \A i \in 1..Len(queue') : i + 1 \in 1..Len(queue) /\ queue'[i] = queue[i + 1]
         /\ queue[1] = Head(queue)
         /\ stage' = "idle" /\ attempt' = 0
BY DEF TypeOK, JobDone

\* What a mutation adds to the queue.
LEMMA QueueExtended ==
  ASSUME TypeInv, NEW s \in Sessions, Mutate(s)
  PROVE  /\ Len(queue) \in Nat
         /\ Len(queue') = Len(queue) + (IF SnapshotDue(s) THEN 2 ELSE 1)
         /\ \A i \in 1..Len(queue) : queue'[i] = queue[i]
         /\ queue'[Len(queue) + 1] = WalJob(s, issued')
         /\ SnapshotDue(s) => queue'[Len(queue) + 2] = SnapshotJob(s, mem'[s])
         /\ issued' \in Mutation
<1>1. queue \in Seq(Job) /\ Len(queue) \in Nat
  BY DEF TypeInv, TypeOK
<1>2. issued' \in Mutation
  BY ConstantsAssumption DEF Mutate, TypeInv, TypeOK, Mutation
<1>3. mem'[s] \in SUBSET Mutation
  BY <1>2 DEF Mutate, TypeInv, TypeOK
<1>4. WalJob(s, issued') \in Job /\ SnapshotJob(s, mem'[s]) \in Job
  BY <1>2, <1>3 DEF WalJob, SnapshotJob, Job
<1>5. queue' = queue \o JobsOf(s, issued', mem'[s])
  BY DEF Mutate
<1>6. CASE SnapshotDue(s)
  <2>1. queue' = queue \o <<WalJob(s, issued'), SnapshotJob(s, mem'[s])>>
    BY <1>5, <1>6 DEF JobsOf
  <2> QED  BY <1>1, <1>2, <1>4, <1>6, <2>1
<1>7. CASE ~SnapshotDue(s)
  <2>1. queue' = queue \o <<WalJob(s, issued')>>
    BY <1>5, <1>7 DEF JobsOf
  <2> QED  BY <1>1, <1>2, <1>4, <1>7, <2>1
<1> QED  BY <1>6, <1>7

\* Appending one job to the queue.
LEMMA QueueAppended ==
  ASSUME TypeOK, NEW job \in Job, queue' = Append(queue, job)
  PROVE  /\ Len(queue) \in Nat
         /\ Len(queue') = Len(queue) + 1
         /\ \A i \in 1..Len(queue) : queue'[i] = queue[i]
         /\ queue'[Len(queue) + 1] = job
BY DEF TypeOK

\* Nothing the invariant speaks of is touched.
LEMMA ExactUnchanged ==
  ASSUME ExactInv, UNCHANGED <<up, queue, stage, attempt, counter, wal, unsynced, torn,
                               disk, mem, dropped, faults, truncations>>
  PROVE  ExactInv'
<1> USE DEF ExactInv
<1>1. Intact' /\ StageFits' /\ RetriesAreFaults'
  BY DEF Intact, StageFits, RetriesAreFaults
<1>2. MemExact' /\ CaptureExact'
  BY DEF MemExact, CaptureExact
<1>3. DiskExact' /\ SoftIsUnclaimed' /\ Anchored'
  BY DEF DiskExact, LoggedUpTo, SoftIsUnclaimed, Anchored
<1>4. CounterAhead'
  BY DEF CounterAhead
<1>5. Settled'
  BY DEF Settled, HeadIs
<1>6. LandedIsReadable'
  BY DEF LandedIsReadable, HeadEntry
<1> QED  BY <1>1, <1>2, <1>3, <1>4, <1>5, <1>6

\* A mutation: its WAL job, and the capture behind it when one is due.
LEMMA ExactMutate ==
  ASSUME TypeInv, ExactInv, NEW s \in Sessions, Mutate(s)
  PROVE  ExactInv'
<1> DEFINE n == Len(queue)
           m == issued'
<1> USE DEF ExactInv
<1>0. /\ n \in Nat /\ m \in Mutation
      /\ Len(queue') = n + (IF SnapshotDue(s) THEN 2 ELSE 1)
      /\ \A i \in 1..n : queue'[i] = queue[i]
      /\ queue'[n + 1] = WalJob(s, m)
      /\ SnapshotDue(s) => queue'[n + 2] = SnapshotJob(s, mem'[s])
  BY QueueExtended
<1>1. /\ up /\ up' /\ mem' = [mem EXCEPT ![s] = @ \cup {m}]
      /\ UNCHANGED <<up, stage, attempt, counter, wal, unsynced, torn, disk,
                     dropped, faults, truncations>>
  BY DEF Mutate, Running
<1>2. queue # <<>> => queue' # <<>> /\ Head(queue') = Head(queue)
  BY <1>0 DEF TypeInv, TypeOK, Mutate
<1>3. queue = <<>> => queue' # <<>> /\ Head(queue').kind = "wal"
  BY <1>0 DEF WalJob, Mutate, JobsOf
<1>4. ASSUME NEW r \in Sessions, NEW i \in 1..(n + 1)
      PROVE  Ahead(queue', i, r) = Ahead(queue, i, r)
  <2> HIDE DEF m
  <2>1. Len(queue') \in Nat /\ n <= Len(queue') /\ n <= Len(queue)
    BY <1>0
  <2> QED  BY <1>0, <2>1, AheadSamePrefix
<1>5. ASSUME NEW r \in Sessions
      PROVE  Ahead(queue', n + 2, r) = Ahead(queue, n + 1, r) \cup (IF r = s THEN {m} ELSE {})
  <2>1. n + 1 \in 1..Len(queue') /\ Len(queue') \in Nat /\ (n + 1) + 1 = n + 2
    BY <1>0
  <2>2. Ahead(queue', n + 2, r) = Ahead(queue', n + 1, r) \cup
          (IF queue'[n + 1].kind = "wal" /\ queue'[n + 1].who = r THEN {queue'[n + 1].mut} ELSE {})
    BY <2>1, AheadNext
  <2>3. Ahead(queue', n + 1, r) = Ahead(queue, n + 1, r)
    BY <1>0, <1>4
  <2> QED  BY <1>0, <2>2, <2>3 DEF WalJob
<1>6. ASSUME NEW r \in Sessions
      PROVE  Ahead(queue', Len(queue') + 1, r)
               = Ahead(queue, n + 1, r) \cup (IF r = s THEN {m} ELSE {})
  <2>1. CASE ~SnapshotDue(s)
    BY <1>0, <1>5, <2>1
  <2>2. CASE SnapshotDue(s)
    <3>1. n + 2 \in 1..Len(queue') /\ Len(queue') \in Nat /\ (n + 2) + 1 = Len(queue') + 1
      BY <1>0, <2>2
    <3>2. Ahead(queue', Len(queue') + 1, r) = Ahead(queue', n + 2, r) \cup
            (IF queue'[n + 2].kind = "wal" /\ queue'[n + 2].who = r THEN {queue'[n + 2].mut} ELSE {})
      BY <3>1, AheadNext
    <3>3. queue'[n + 2].kind # "wal"
      BY <1>0, <2>2 DEF SnapshotJob
    <3> QED  BY <1>5, <3>2, <3>3
  <2> QED  BY <2>1, <2>2
<1>7. \A r \in Sessions : mem'[r] = mem[r] \cup (IF r = s THEN {m} ELSE {})
  BY <1>1 DEF TypeInv, TypeOK
<1>8. \A r \in Sessions : mem[r] = Muts(Of(r, wal)) \cup Ahead(queue, n + 1, r)
  BY <1>1 DEF MemExact
<1>9. MemExact'
  BY <1>1, <1>6, <1>7, <1>8 DEF MemExact
<1>10. CaptureExact'
  <2>1. ASSUME NEW i \in 1..n, queue'[i].kind = "snapshot"
        PROVE  queue'[i].content =
                 Muts(Of(queue'[i].who, wal')) \cup Ahead(queue', i, queue'[i].who)
    <3>1. queue[i].who \in Sessions
      <4>1. queue \in Seq(Job) /\ i \in 1..Len(queue) /\ queue[i].kind = "snapshot"
        BY <1>0, <2>1 DEF TypeInv, TypeOK
      <4>2. queue[i] \in Job
        BY <4>1
      <4> QED  BY <4>1, <4>2 DEF Job
    <3> QED  BY <1>0, <1>1, <1>4, <2>1, <3>1 DEF CaptureExact
  <2>2. ASSUME SnapshotDue(s)
        PROVE  queue'[n + 2].content =
                 Muts(Of(queue'[n + 2].who, wal')) \cup Ahead(queue', n + 2, queue'[n + 2].who)
    <3>1. queue'[n + 2].who = s /\ queue'[n + 2].content = mem'[s]
      BY <1>0, <2>2 DEF SnapshotJob
    <3> QED  BY <1>1, <1>5, <1>7, <1>8, <3>1
  <2>3. queue'[n + 1].kind # "snapshot"
    BY <1>0 DEF WalJob
  <2>4. \A i \in 1..Len(queue') : i \in 1..n \/ i = n + 1 \/ (SnapshotDue(s) /\ i = n + 2)
    BY <1>0
  <2> QED  BY <2>1, <2>2, <2>3, <2>4 DEF CaptureExact
<1>11. Intact' /\ StageFits' /\ RetriesAreFaults'
  <2>1. \A i \in 1..Len(queue') : queue'[i].kind # "truncate"
    <3>1. \A i \in 1..Len(queue') : i \in 1..n \/ i = n + 1 \/ (SnapshotDue(s) /\ i = n + 2)
      BY <1>0
    <3> QED  BY <1>0, <3>1 DEF Intact, WalJob, SnapshotJob
  <2>2. Intact' /\ RetriesAreFaults'
    BY <1>1, <2>1 DEF Intact, RetriesAreFaults
  <2>3. StageFits'
    BY <1>1, <1>2, <1>3 DEF StageFits
  <2> QED  BY <2>2, <2>3
<1>12. DiskExact' /\ SoftIsUnclaimed' /\ Anchored' /\ CounterAhead'
  BY <1>1 DEF DiskExact, LoggedUpTo, SoftIsUnclaimed, Anchored, CounterAhead
<1>13. Settled'
  BY <1>1, <1>2, <1>3 DEF Settled, HeadIs, StageFits
<1>14. LandedIsReadable'
  BY <1>1, <1>2 DEF LandedIsReadable, HeadEntry, StageFits
<1> QED  BY <1>9, <1>10, <1>11, <1>12, <1>13, <1>14

\* The final snapshot of a shutdown captures what is logged and queued by then.
LEMMA ExactCloseJournal ==
  ASSUME TypeInv, ExactInv, NEW s \in Sessions, CloseJournal(s)
  PROVE  ExactInv'
<1> DEFINE n == Len(queue)
           job == SnapshotJob(s, mem[s])
<1> USE DEF ExactInv
<1>0. /\ n \in Nat /\ Len(queue') = n + 1
      /\ \A i \in 1..n : queue'[i] = queue[i]
      /\ queue'[n + 1] = job
  <2>1. job \in Job
    BY DEF TypeInv, TypeOK, SnapshotJob, Job
  <2>2. queue' = Append(queue, job)
    BY DEF CloseJournal
  <2> HIDE DEF job
  <2> QED  BY <2>1, <2>2, QueueAppended DEF TypeInv
<1>1. /\ up
      /\ UNCHANGED <<up, stage, attempt, counter, wal, unsynced, torn, disk, mem,
                     dropped, faults, truncations>>
  BY DEF CloseJournal
<1>2. job.kind = "snapshot" /\ job.who = s /\ job.content = mem[s]
  BY DEF SnapshotJob
<1>3. queue' # <<>> /\ (queue # <<>> => Head(queue') = Head(queue))
                    /\ (queue = <<>> => Head(queue') = job)
  <2>1. queue' = Append(queue, job) /\ queue \in Seq(Job)
    BY DEF CloseJournal, TypeInv, TypeOK
  <2>2. queue' # <<>> /\ (queue # <<>> => Head(queue') = Head(queue))
    BY <2>1
  <2>3. queue = <<>> => Head(queue') = job
    BY <2>1
  <2> QED  BY <2>2, <2>3
<1> HIDE DEF job
<1>4. ASSUME NEW r \in Sessions, NEW i \in 1..(n + 1)
      PROVE  Ahead(queue', i, r) = Ahead(queue, i, r)
  <2>1. Len(queue') \in Nat /\ n <= Len(queue') /\ n <= Len(queue)
    BY <1>0
  <2> QED  BY <1>0, <2>1, AheadSamePrefix
<1>5. ASSUME NEW r \in Sessions
      PROVE  Ahead(queue', Len(queue') + 1, r) = Ahead(queue, n + 1, r)
  <2>1. n + 1 \in 1..Len(queue') /\ Len(queue') \in Nat
    BY <1>0
  <2>2. Ahead(queue', (n + 1) + 1, r) = Ahead(queue', n + 1, r) \cup
          (IF queue'[n + 1].kind = "wal" /\ queue'[n + 1].who = r THEN {queue'[n + 1].mut} ELSE {})
    BY <2>1, AheadNext
  <2> QED  BY <1>0, <1>2, <1>4, <2>1, <2>2
<1>6. \A r \in Sessions : mem[r] = Muts(Of(r, wal)) \cup Ahead(queue, n + 1, r)
  BY <1>1 DEF MemExact
<1>7. MemExact'
  BY <1>1, <1>5, <1>6 DEF MemExact
<1>8. CaptureExact'
  <2>1. ASSUME NEW i \in 1..n, queue'[i].kind = "snapshot"
        PROVE  queue'[i].content =
                 Muts(Of(queue'[i].who, wal')) \cup Ahead(queue', i, queue'[i].who)
    <3>1. queue[i].who \in Sessions
      <4>1. queue \in Seq(Job) /\ i \in 1..Len(queue) /\ queue[i].kind = "snapshot"
        BY <1>0, <2>1 DEF TypeInv, TypeOK
      <4>2. queue[i] \in Job
        BY <4>1
      <4> QED  BY <4>1, <4>2 DEF Job
    <3> QED  BY <1>0, <1>1, <1>4, <2>1, <3>1 DEF CaptureExact
  <2>2. queue'[n + 1].content =
          Muts(Of(queue'[n + 1].who, wal')) \cup Ahead(queue', n + 1, queue'[n + 1].who)
    BY <1>0, <1>1, <1>2, <1>4, <1>6
  <2> QED  BY <1>0, <2>1, <2>2 DEF CaptureExact
<1>9. Intact' /\ StageFits' /\ RetriesAreFaults'
  <2>1. \A i \in 1..Len(queue') : queue'[i].kind # "truncate"
    BY <1>0, <1>2 DEF Intact
  <2>2. Intact' /\ RetriesAreFaults'
    BY <1>1, <2>1 DEF Intact, RetriesAreFaults
  <2>3. StageFits'
    BY <1>1, <1>3 DEF StageFits
  <2> QED  BY <2>2, <2>3
<1>10. DiskExact' /\ SoftIsUnclaimed' /\ Anchored' /\ CounterAhead'
  BY <1>1 DEF DiskExact, LoggedUpTo, SoftIsUnclaimed, Anchored, CounterAhead
<1>11. Settled'
  BY <1>1, <1>2, <1>3 DEF Settled, HeadIs, StageFits
<1>12. LandedIsReadable'
  BY <1>1, <1>3 DEF LandedIsReadable, HeadEntry, StageFits
<1> QED  BY <1>7, <1>8, <1>9, <1>10, <1>11, <1>12

\* The head WAL job takes a number above all others.
LEMMA ExactAssignSeq ==
  ASSUME TypeInv, ExactInv, AssignSeq
  PROVE  ExactInv'
<1> USE DEF ExactInv, AssignSeq
<1>1. Intact' /\ RetriesAreFaults' /\ MemExact' /\ CaptureExact'
  BY DEF Intact, RetriesAreFaults, MemExact, CaptureExact
<1>2. StageFits'
  BY DEF StageFits, HeadIs
<1>3. DiskExact' /\ SoftIsUnclaimed' /\ Anchored'
  BY DEF DiskExact, LoggedUpTo, SoftIsUnclaimed, Anchored
<1>4. CounterAhead'
  <2>1. counter \in Nat /\ (\A e \in wal : e.seq \in Nat)
        /\ \A s \in Sessions : disk[s].applied \in Nat
    BY DEF TypeInv, TypeOK, Entry, Snapshot
  <2> QED  BY <2>1 DEF CounterAhead, HeadIs
<1>5. Settled' /\ LandedIsReadable'
  BY DEF Settled, LandedIsReadable, HeadIs
<1> QED  BY <1>1, <1>2, <1>3, <1>4, <1>5

\* The line lands under a number no stored snapshot claims; its job, still at
\* the head of the queue, already counted for every capture behind it.
LEMMA ExactLandLine ==
  ASSUME TypeInv, ExactInv, LandLine
  PROVE  ExactInv'
<1> USE DEF ExactInv
<1> DEFINE h == HeadEntry
<1>1. /\ HeadIs("wal") /\ up /\ queue # <<>> /\ stage = "assigned" /\ stage' = "landed"
      /\ wal' = wal \cup {h} /\ unsynced' = unsynced \cup {h} /\ torn' = FALSE
      /\ UNCHANGED <<up, queue, attempt, counter, disk, mem, dropped, faults, truncations>>
  BY DEF LandLine, HeadIs, Intact
<1>2. /\ h.seq = counter /\ h.who = queue[1].who /\ h.mut = queue[1].mut
      /\ queue[1].kind = "wal" /\ queue[1] = Head(queue)
      /\ Len(queue) \in Nat /\ Len(queue) >= 1
  BY <1>1 DEF HeadEntry, HeadIs, TypeInv, TypeOK
<1>3. counter \in Nat /\ (\A e \in wal : e.seq \in Nat)
      /\ \A s \in Sessions : disk[s].applied \in Nat
  BY DEF TypeInv, TypeOK, Entry, Snapshot
<1>4. (\A e \in wal : e.seq < counter) /\ \A s \in Sessions : disk[s].applied < counter
  BY <1>1 DEF CounterAhead
<1>5. h' = h
  BY <1>1 DEF HeadEntry
<1> HIDE DEF h
<1>6. \A s : Muts(Of(s, wal')) = Muts(Of(s, wal)) \cup (IF h.who = s THEN {h.mut} ELSE {})
  BY <1>1 DEF Muts, Of
<1>7. ASSUME NEW s, NEW i \in 1..(Len(queue) + 1), i # 1
      PROVE  h.who = s => h.mut \in Ahead(queue, i, s)
  BY <1>2, <1>7 DEF Ahead
<1>8. MemExact'
  <2>1. Len(queue) + 1 \in 1..(Len(queue) + 1) /\ Len(queue) + 1 # 1
    BY <1>2
  <2>2. ASSUME NEW s \in Sessions
        PROVE  mem[s] = Muts(Of(s, wal')) \cup Ahead(queue, Len(queue) + 1, s)
    <3>1. h.who = s => h.mut \in Ahead(queue, Len(queue) + 1, s)
      BY <1>7, <2>1
    <3>2. mem[s] = Muts(Of(s, wal)) \cup Ahead(queue, Len(queue) + 1, s)
      BY <1>1 DEF MemExact
    <3> QED  BY <1>6, <3>1, <3>2
  <2> QED  BY <1>1, <2>2 DEF MemExact
<1>9. CaptureExact'
  <2>1. ASSUME NEW i \in 1..Len(queue), queue[i].kind = "snapshot"
        PROVE  queue[i].content =
                 Muts(Of(queue[i].who, wal')) \cup Ahead(queue, i, queue[i].who)
    <3>1. i # 1 /\ i \in 1..(Len(queue) + 1)
      BY <1>2, <2>1
    <3> QED  BY <1>6, <1>7, <2>1, <3>1 DEF CaptureExact
  <2> QED  BY <1>1, <2>1 DEF CaptureExact
<1>10. DiskExact'
  <2>1. ASSUME NEW s \in Sessions
        PROVE  LoggedUpTo(s, disk[s].applied)' = LoggedUpTo(s, disk[s].applied)
    BY <1>1, <1>2, <1>3, <1>4 DEF LoggedUpTo, Of
  <2> QED  BY <1>1, <2>1 DEF DiskExact
<1>11. Intact' /\ StageFits' /\ RetriesAreFaults'
  BY <1>1 DEF Intact, StageFits, RetriesAreFaults, HeadIs
<1>12. CounterAhead' /\ SoftIsUnclaimed'
  BY <1>1, <1>2, <1>3, <1>4 DEF CounterAhead, SoftIsUnclaimed
<1>13. Anchored'
  <2>1. h \notin wal
    BY <1>2, <1>3, <1>4
  <2>2. wal \ unsynced \subseteq wal' \ unsynced'
    BY <1>1, <2>1
  <2> QED  BY <1>1, <2>2 DEF Anchored
<1>14. Settled' /\ LandedIsReadable'
  BY <1>1, <1>5 DEF Settled, LandedIsReadable, HeadIs, h
<1> QED  BY <1>8, <1>9, <1>10, <1>11, <1>12, <1>13, <1>14

\* When the head job is done, what was ahead of a later job is the same, but
\* for the head itself.
LEMMA AheadJobDone ==
  ASSUME TypeOK, queue # <<>>, JobDone, NEW s, NEW i \in 1..(Len(queue') + 1)
  PROVE  Ahead(queue, i + 1, s) = Ahead(queue', i, s) \cup
           (IF Head(queue).kind = "wal" /\ Head(queue).who = s THEN {Head(queue).mut} ELSE {})
<1>1. /\ Len(queue) \in Nat /\ Len(queue) >= 1 /\ Len(queue') = Len(queue) - 1
      /\ \A k \in 1..Len(queue') : queue'[k] = queue[k + 1]
      /\ queue[1] = Head(queue)
  BY QueueShifted
<1> QED  BY <1>1, AheadTail

\* The captures and the in-memory snapshots survive the removal of a job whose
\* effect, if it is a WAL job, is in the log.
LEMMA ExactJobDone ==
  ASSUME TypeInv, ExactInv, up, queue # <<>>, JobDone, UNCHANGED <<up, wal, mem>>,
         Head(queue).kind = "wal" =>
           Head(queue).mut \in Muts(Of(Head(queue).who, wal))
  PROVE  MemExact' /\ CaptureExact'
<1> DEFINE h == Head(queue)
<1>1. /\ Len(queue) \in Nat /\ Len(queue) >= 1 /\ Len(queue') = Len(queue) - 1
      /\ \A i \in 1..Len(queue') : i + 1 \in 1..Len(queue) /\ queue'[i] = queue[i + 1]
  BY QueueShifted DEF TypeInv
<1>2. ASSUME NEW s \in Sessions, NEW i \in 1..(Len(queue') + 1)
      PROVE  Muts(Of(s, wal)) \cup Ahead(queue', i, s) = Muts(Of(s, wal)) \cup Ahead(queue, i + 1, s)
  <2>1. Ahead(queue, i + 1, s) = Ahead(queue', i, s) \cup
           (IF h.kind = "wal" /\ h.who = s THEN {h.mut} ELSE {})
    BY AheadJobDone DEF TypeInv
  <2>2. h.kind = "wal" /\ h.who = s => h.mut \in Muts(Of(s, wal))
    OBVIOUS
  <2> HIDE DEF h
  <2> QED  BY <2>1, <2>2
<1>3. MemExact'
  <2>1. Len(queue') + 1 \in 1..(Len(queue') + 1) /\ (Len(queue') + 1) + 1 = Len(queue) + 1
    BY <1>1
  <2>2. \A s \in Sessions : Muts(Of(s, wal)) \cup Ahead(queue', Len(queue') + 1, s)
                              = Muts(Of(s, wal)) \cup Ahead(queue, Len(queue) + 1, s)
    BY <1>2, <2>1
  <2> QED  BY <2>2 DEF MemExact, ExactInv
<1>4. CaptureExact'
  <2>1. ASSUME NEW i \in 1..Len(queue'), queue'[i].kind = "snapshot"
        PROVE  queue'[i].content =
                 Muts(Of(queue'[i].who, wal)) \cup Ahead(queue', i, queue'[i].who)
    <3>1. i + 1 \in 1..Len(queue) /\ queue'[i] = queue[i + 1] /\ i \in 1..(Len(queue') + 1)
      BY <1>1
    <3>2. queue[i + 1].who \in Sessions
      BY <2>1, <3>1 DEF TypeInv, TypeOK, Job
    <3>3. queue[i + 1].content =
            Muts(Of(queue[i + 1].who, wal)) \cup Ahead(queue, i + 1, queue[i + 1].who)
      BY <2>1, <3>1 DEF CaptureExact, ExactInv
    <3> QED  BY <1>2, <3>1, <3>2, <3>3
  <2> QED  BY <2>1 DEF CaptureExact
<1> QED  BY <1>3, <1>4

\* The other parts of the invariant that a removed job can disturb.
LEMMA JobDoneFits ==
  ASSUME TypeInv, ExactInv, up, queue # <<>>, JobDone,
         UNCHANGED <<up, dropped, truncations>>, faults' = faults, torn' = FALSE,
         unsynced' = {}
  PROVE  Intact' /\ StageFits' /\ RetriesAreFaults' /\ LandedIsReadable'
<1> USE DEF ExactInv
<1>1. /\ \A i \in 1..Len(queue') : i + 1 \in 1..Len(queue) /\ queue'[i] = queue[i + 1]
      /\ stage' = "idle" /\ attempt' = 0
  BY QueueShifted DEF TypeInv
<1>2. Intact'
  BY <1>1 DEF Intact
<1>3. StageFits' /\ LandedIsReadable'
  BY <1>1 DEF StageFits, LandedIsReadable
<1>4. RetriesAreFaults'
  BY <1>1 DEF RetriesAreFaults, TypeInv, TypeOK
<1> QED  BY <1>2, <1>3, <1>4

\* A synced line is in the log for good, with the worker's current number.
LEMMA ExactSyncLine ==
  ASSUME TypeInv, ExactInv, SyncLine
  PROVE  ExactInv'
<1>1. /\ up /\ queue # <<>> /\ JobDone /\ HeadIs("wal") /\ stage = "landed"
      /\ unsynced' = {}
      /\ UNCHANGED <<up, counter, wal, torn, disk, mem, dropped, faults, truncations>>
  BY DEF SyncLine, HeadIs
<1>2. HeadEntry \in wal
  BY <1>1 DEF ExactInv, LandedIsReadable
<1>3. Head(queue).mut \in Muts(Of(Head(queue).who, wal))
  BY <1>2 DEF HeadEntry, Muts, Of
<1>4. MemExact' /\ CaptureExact'
  BY <1>1, <1>3, ExactJobDone
<1>5. torn' = FALSE
  BY <1>1 DEF ExactInv, Intact
<1>6. Intact' /\ StageFits' /\ RetriesAreFaults' /\ LandedIsReadable'
  BY <1>1, <1>5, JobDoneFits
<1>7. stage' = "idle"
  BY <1>1 DEF JobDone
<1>8. DiskExact' /\ SoftIsUnclaimed' /\ CounterAhead'
  BY <1>1, <1>7 DEF ExactInv, DiskExact, LoggedUpTo, SoftIsUnclaimed, CounterAhead
<1>9. Anchored'
  BY <1>1 DEF ExactInv, Anchored
<1>10. Settled'
  <2>1. HeadEntry.seq = counter
    BY DEF HeadEntry
  <2> QED  BY <1>1, <1>2, <2>1 DEF Settled
<1> QED  BY <1>4, <1>6, <1>8, <1>9, <1>10 DEF ExactInv

\* The snapshot job's turn: nothing of its session is ahead of it any more, so
\* its capture is the log, and the number it is stamped with covers the log.
LEMMA ExactRenameSnapshot ==
  ASSUME TypeInv, ExactInv, RenameSnapshot
  PROVE  ExactInv'
<1> DEFINE h == Head(queue)
<1>1. /\ up /\ queue # <<>> /\ HeadIs("snapshot") /\ h.kind = "snapshot" /\ stage = "idle"
      /\ stage' = "renamed"
      /\ disk' = [disk EXCEPT ![h.who] = [content |-> h.content, applied |-> counter]]
      /\ UNCHANGED <<up, queue, attempt, counter, wal, unsynced, torn, mem, dropped,
                     faults, truncations>>
  BY DEF RenameSnapshot, HeadIs
<1>2. /\ h \in Job /\ h.who \in Sessions /\ queue[1] = h
      /\ Len(queue) \in Nat /\ Len(queue) >= 1
  <2>1. h \in Job
    BY <1>1, QueueParts DEF TypeInv
  <2>2. h.who \in Sessions
    BY <1>1, <2>1 DEF Job
  <2> QED  BY <1>1, <2>1, <2>2 DEF TypeInv, TypeOK
<1> HIDE DEF h
<1>3. h.content = Muts(Of(h.who, wal))
  <2>1. queue[1].content = Muts(Of(h.who, wal)) \cup Ahead(queue, 1, h.who)
    BY <1>1, <1>2 DEF ExactInv, CaptureExact
  <2> QED  BY <1>2, <2>1, AheadFirst
<1>4. \A e \in wal : e.seq <= counter
  BY <1>1 DEF ExactInv, CounterAhead
<1>5. \A s \in Sessions :
        disk'[s] = IF s = h.who THEN [content |-> h.content, applied |-> counter] ELSE disk[s]
  BY <1>1, <1>2 DEF TypeInv, TypeOK
<1>6. unsynced = {} /\ (counter = 0 \/ \E e \in wal : e.seq = counter)
  BY <1>1 DEF ExactInv, Settled, HeadIs, h
<1>7. DiskExact'
  <2>1. LoggedUpTo(h.who, counter) = Of(h.who, wal)
    BY <1>4 DEF LoggedUpTo, Of
  <2>2. ASSUME NEW s \in Sessions
        PROVE  disk'[s].content = Muts(LoggedUpTo(s, disk'[s].applied))
    BY <1>3, <1>5, <2>1 DEF ExactInv, DiskExact
  <2> QED  BY <1>1, <2>2 DEF DiskExact, LoggedUpTo
<1>8. SoftIsUnclaimed'
  BY <1>1, <1>6 DEF SoftIsUnclaimed
<1>9. Anchored'
  <2>1. counter = 0 \/ \E e \in wal \ unsynced : counter <= e.seq
    BY <1>6 DEF TypeInv, TypeOK
  <2> QED  BY <1>1, <1>5, <2>1 DEF ExactInv, Anchored
<1>10. CounterAhead'
  BY <1>1, <1>5 DEF ExactInv, CounterAhead, TypeInv, TypeOK
<1>11. Intact' /\ RetriesAreFaults' /\ MemExact' /\ CaptureExact'
  BY <1>1 DEF ExactInv, Intact, RetriesAreFaults, MemExact, CaptureExact
<1>12. StageFits' /\ Settled' /\ LandedIsReadable'
  BY <1>1, <1>6 DEF ExactInv, StageFits, Settled, HeadIs, LandedIsReadable, h
<1> QED  BY <1>7, <1>8, <1>9, <1>10, <1>11, <1>12 DEF ExactInv

\* The number of a stored snapshot reaches memory: the invariant does not mention it.
LEMMA ExactPublishApplied ==
  ASSUME TypeInv, ExactInv, PublishApplied
  PROVE  ExactInv'
<1>1. /\ up /\ queue # <<>> /\ JobDone /\ HeadIs("snapshot") /\ stage = "renamed"
      /\ UNCHANGED <<up, counter, wal, unsynced, torn, disk, mem, dropped, faults,
                     truncations>>
  BY DEF PublishApplied, HeadIs
<1>2. Head(queue).kind # "wal"
  BY <1>1 DEF HeadIs
<1>3. unsynced = {} /\ (counter = 0 \/ \E e \in wal : e.seq = counter) /\ torn = FALSE
  BY <1>1, <1>2 DEF ExactInv, Settled, HeadIs, Intact
<1>4. MemExact' /\ CaptureExact'
  BY <1>1, <1>2, ExactJobDone
<1>5. Intact' /\ StageFits' /\ RetriesAreFaults' /\ LandedIsReadable'
  BY <1>1, <1>3, JobDoneFits
<1>6. stage' = "idle"
  BY <1>1 DEF JobDone
<1>7. DiskExact' /\ SoftIsUnclaimed' /\ Anchored' /\ CounterAhead'
  BY <1>1, <1>6 DEF ExactInv, DiskExact, LoggedUpTo, SoftIsUnclaimed, Anchored, CounterAhead
<1>8. Settled'
  BY <1>1, <1>3 DEF Settled
<1> QED  BY <1>4, <1>5, <1>7, <1>8 DEF ExactInv

\* A failed write is tried again: under the hypotheses, never given up.
LEMMA ExactWriteFault ==
  ASSUME WritesComeThrough, TypeInv, ExactInv, WriteFault
  PROVE  ExactInv'
<1> USE ConstantsAssumption
<1>1. attempt + 1 < MaxWriteAttempts
  <2>1. attempt <= faults /\ faults < MaxFaults
    BY DEF ExactInv, RetriesAreFaults, WriteFault
  <2> QED  BY <2>1 DEF WritesComeThrough, TypeInv, TypeOK
<1>2. /\ up /\ queue # <<>> /\ faults' = faults + 1
      /\ attempt' = attempt + 1 /\ stage' = "idle"
      /\ UNCHANGED <<up, queue, counter, wal, unsynced, disk, mem, dropped, truncations>>
  BY <1>1 DEF WriteFault
<1>3. torn' = FALSE
  BY DEF WriteFault, WritesComeThrough, ExactInv, Intact
<1>4. stage \in IF HeadIs("wal") THEN {"assigned", "landed"} ELSE {"idle"}
  BY DEF WriteFault
<1>5. Intact' /\ MemExact' /\ CaptureExact'
  BY <1>2, <1>3 DEF ExactInv, Intact, MemExact, CaptureExact
<1>6. StageFits' /\ LandedIsReadable'
  BY <1>2 DEF ExactInv, StageFits, LandedIsReadable
<1>7. RetriesAreFaults'
  BY <1>2 DEF ExactInv, RetriesAreFaults, TypeInv, TypeOK
<1>8. DiskExact' /\ SoftIsUnclaimed' /\ Anchored' /\ CounterAhead'
  BY <1>2 DEF ExactInv, DiskExact, LoggedUpTo, SoftIsUnclaimed, Anchored, CounterAhead
<1>9. Settled'
  <2>1. CASE Head(queue).kind = "wal"
    <3>1. attempt' # 0
      BY <1>2 DEF TypeInv, TypeOK
    <3> QED  BY <1>2, <2>1, <3>1 DEF Settled, HeadIs
  <2>2. CASE Head(queue).kind # "wal"
    BY <1>2, <2>2 DEF ExactInv, Settled, HeadIs
  <2> QED  BY <2>1, <2>2
<1> QED  BY <1>5, <1>6, <1>7, <1>8, <1>9 DEF ExactInv

\* Memory and queue are gone.
LEMMA HaltFits ==
  ASSUME TypeInv, ExactInv, Halt, unsynced' = {}, torn' = FALSE,
         UNCHANGED <<dropped, truncations>>, faults' = faults
  PROVE  /\ Intact' /\ StageFits' /\ RetriesAreFaults' /\ MemExact' /\ CaptureExact'
         /\ SoftIsUnclaimed' /\ CounterAhead' /\ Settled' /\ LandedIsReadable'
<1>1. up' = FALSE /\ queue' = <<>> /\ stage' = "idle" /\ attempt' = 0 /\ Len(queue') = 0
  BY DEF Halt
<1>2. Intact' /\ StageFits'
  BY <1>1 DEF ExactInv, Intact, StageFits
<1>3. RetriesAreFaults'
  BY <1>1 DEF RetriesAreFaults, TypeInv, TypeOK
<1>4. MemExact' /\ CaptureExact' /\ CounterAhead' /\ Settled' /\ LandedIsReadable'
  BY <1>1 DEF MemExact, CaptureExact, CounterAhead, Settled, LandedIsReadable
<1>5. SoftIsUnclaimed'
  BY DEF SoftIsUnclaimed
<1> QED  BY <1>2, <1>3, <1>4, <1>5

\* What a crash takes back no stored snapshot claims.
LEMMA ExactCrash ==
  ASSUME WritesComeThrough, TypeInv, ExactInv, Crash
  PROVE  ExactInv'
<1>1. PICK lost \in SUBSET unsynced :
        /\ wal' = wal \ lost
        /\ torn' \in {torn} \cup
             (IF TornWrites /\ (stage = "assigned" \/ lost # {}) THEN {TRUE} ELSE {})
  BY Zenon DEF Crash
<1>2. Halt /\ unsynced' = {} /\ UNCHANGED <<disk, dropped, faults, truncations>>
  BY DEF Crash
<1>3. torn' = FALSE
  BY <1>1 DEF WritesComeThrough, ExactInv, Intact
<1>4. /\ Intact' /\ StageFits' /\ RetriesAreFaults' /\ MemExact' /\ CaptureExact'
      /\ SoftIsUnclaimed' /\ CounterAhead' /\ Settled' /\ LandedIsReadable'
  BY <1>2, <1>3, HaltFits
<1>5. DiskExact'
  <2>1. ASSUME NEW s \in Sessions, NEW e \in unsynced PROVE ~(e.seq <= disk[s].applied)
    <3>1. e.seq \in Nat /\ disk[s].applied \in Nat /\ disk[s].applied < e.seq
      BY DEF ExactInv, SoftIsUnclaimed, TypeInv, TypeOK, Entry, Snapshot
    <3> QED  BY <3>1
  <2>2. ASSUME NEW s \in Sessions
        PROVE  {e \in Of(s, wal') : e.seq <= disk[s].applied}
                 = {e \in Of(s, wal) : e.seq <= disk[s].applied}
    BY <1>1, <2>1 DEF Of
  <2> QED  BY <1>2, <2>2 DEF ExactInv, DiskExact, LoggedUpTo
<1>6. Anchored'
  <2>1. wal \ unsynced \subseteq wal' \ unsynced'
    BY <1>1, <1>2
  <2> QED  BY <1>2, <2>1 DEF ExactInv, Anchored
<1> QED  BY <1>4, <1>5, <1>6 DEF ExactInv

\* A drained process that stops leaves its files as they are.
LEMMA ExactStop ==
  ASSUME TypeInv, ExactInv, Stop
  PROVE  ExactInv'
<1>1. /\ Halt /\ up /\ queue = <<>>
      /\ UNCHANGED <<wal, unsynced, torn, disk, dropped, faults, truncations>>
  BY DEF Stop
<1>2. unsynced = {} /\ torn = FALSE
  BY <1>1 DEF ExactInv, Settled, HeadIs, Intact
<1>3. /\ Intact' /\ StageFits' /\ RetriesAreFaults' /\ MemExact' /\ CaptureExact'
      /\ SoftIsUnclaimed' /\ CounterAhead' /\ Settled' /\ LandedIsReadable'
  BY <1>1, <1>2, HaltFits
<1>4. DiskExact' /\ Anchored'
  BY <1>1 DEF ExactInv, DiskExact, LoggedUpTo, Anchored
<1> QED  BY <1>3, <1>4 DEF ExactInv

\* Load and replay give back all of the session's log, with a number that is
\* in the log and covers it.
LEMMA ReplayedIsExact ==
  ASSUME TypeInv, ExactInv, NEW s \in Sessions
  PROVE  /\ Replayed(s).content = Muts(Of(s, wal))
         /\ \A e \in Of(s, wal) : e.seq <= Replayed(s).applied
         /\ Replayed(s).applied = 0 \/ \E e \in wal : Replayed(s).applied <= e.seq
<1> DEFINE tail == Unabsorbed(s, wal)
           old  == LoggedUpTo(s, disk[s].applied)
<1>1. /\ disk[s].applied \in Nat /\ \A e \in wal : e.seq \in Nat
  BY DEF TypeInv, TypeOK, Entry, Snapshot
<1>2. Of(s, wal) = old \cup tail /\ tail \subseteq wal
  BY <1>1 DEF LoggedUpTo, Unabsorbed, Of
<1>3. disk[s].content = Muts(old)
  BY DEF ExactInv, DiskExact
<1>4. Muts(old) \cup Muts(tail) = Muts(old \cup tail)
  <2> HIDE DEF old, tail
  <2> QED  BY DEF Muts
<1>5. /\ Replayed(s).content = disk[s].content \cup Muts(tail)
      /\ Replayed(s).applied = IF tail = {} THEN disk[s].applied ELSE HighestSeq(tail)
  BY DEF Replayed, ReplayedFrom
<1>6. tail \subseteq Entry /\ Bounded(tail)
  <2> HIDE DEF tail
  <2> QED  BY <1>2, PartIsBounded DEF TypeInv, TypeOK
<1>7. /\ HighestSeq(tail) \in Nat
      /\ \A e \in tail : e.seq <= HighestSeq(tail)
      /\ HighestSeq(tail) = 0 \/ \E e \in tail : e.seq = HighestSeq(tail)
  <2> HIDE DEF tail
  <2> QED  BY <1>6, HighestSeqIsHighest
<1>8. \A e \in old : e.seq <= disk[s].applied
  BY DEF LoggedUpTo
<1>9. \A e \in tail : disk[s].applied < e.seq
  BY DEF Unabsorbed
<1>10. disk[s].applied = 0 \/ \E e \in wal : disk[s].applied <= e.seq
  BY DEF ExactInv, Anchored
<1> HIDE DEF tail, old
<1>11. CASE tail = {}
  BY <1>2, <1>3, <1>4, <1>5, <1>8, <1>10, <1>11
<1>12. CASE tail # {}
  <2>1. \A e \in Of(s, wal) : e.seq <= HighestSeq(tail)
    <3>1. PICK t \in tail : TRUE
      BY <1>12
    <3>2. disk[s].applied <= HighestSeq(tail)
      <4>1. t.seq \in Nat /\ disk[s].applied < t.seq /\ t.seq <= HighestSeq(tail)
        BY <1>1, <1>2, <1>7, <1>9, <3>1
      <4> QED  BY <1>1, <1>7, <4>1
    <3>3. \A e \in old : e.seq \in Nat
      BY <1>1 DEF old, LoggedUpTo, Of
    <3> QED  BY <1>1, <1>2, <1>7, <1>8, <3>2, <3>3
  <2>2. Replayed(s).applied = HighestSeq(tail)
    BY <1>5, <1>12
  <2>3. HighestSeq(tail) = 0 \/ \E e \in wal : HighestSeq(tail) <= e.seq
    BY <1>2, <1>7
  <2> QED  BY <1>2, <1>3, <1>4, <1>5, <2>1, <2>2, <2>3
<1> QED  BY <1>11, <1>12

\* A snapshot that was replayed and saved is exact.
LEMMA ReplayedIsUpTo ==
  ASSUME TypeInv, ExactInv, NEW s \in Sessions
  PROVE  Replayed(s).content = Muts(LoggedUpTo(s, Replayed(s).applied))
<1>1. LoggedUpTo(s, Replayed(s).applied) = Of(s, wal)
  BY ReplayedIsExact DEF LoggedUpTo
<1> QED  BY <1>1, ReplayedIsExact

\* A restart cut short has replaced one snapshot by its own replay.
LEMMA ExactResaveSnapshot ==
  ASSUME TypeInv, ExactInv, NEW s \in Sessions, ResaveSnapshot(s)
  PROVE  ExactInv'
<1>1. /\ ~up /\ disk' = [disk EXCEPT ![s] = Replayed(s)]
      /\ UNCHANGED <<up, queue, stage, attempt, counter, wal, unsynced, torn, mem,
                     dropped, faults, truncations>>
  BY DEF ResaveSnapshot
<1>2. \A r \in Sessions : disk'[r] = IF r = s THEN Replayed(s) ELSE disk[r]
  BY <1>1 DEF TypeInv, TypeOK
<1>3. queue = <<>> /\ stage = "idle" /\ unsynced = {}
  BY <1>1 DEF ExactInv, StageFits, TypeInv, StageNumbered
<1>4. DiskExact'
  <2>1. \A r \in Sessions : disk'[r].content = Muts(LoggedUpTo(r, disk'[r].applied))
    BY <1>2, ReplayedIsUpTo DEF ExactInv, DiskExact
  <2> QED  BY <1>1, <2>1 DEF DiskExact, LoggedUpTo
<1>5. Anchored'
  BY <1>1, <1>2, <1>3, ReplayedIsExact DEF ExactInv, Anchored
<1>6. SoftIsUnclaimed' /\ CounterAhead' /\ Settled' /\ LandedIsReadable'
  BY <1>1, <1>3 DEF SoftIsUnclaimed, CounterAhead, Settled, LandedIsReadable
<1>7. Intact' /\ StageFits' /\ RetriesAreFaults' /\ MemExact' /\ CaptureExact'
  BY <1>1 DEF ExactInv, Intact, StageFits, RetriesAreFaults, MemExact, CaptureExact
<1> QED  BY <1>4, <1>5, <1>6, <1>7 DEF ExactInv

\* A restart hands every session exactly its log, and counts on from its end.
LEMMA ExactRestart ==
  ASSUME TypeInv, ExactInv, Restart
  PROVE  ExactInv'
<1>1. /\ ~up /\ up' = TRUE /\ counter' = HighestSeq(wal)
      /\ disk' = [r \in Sessions |-> Replayed(r)]
      /\ mem' = [r \in Sessions |-> Replayed(r).content]
      /\ UNCHANGED <<queue, stage, attempt, wal, unsynced, torn, dropped, faults,
                     truncations>>
  BY DEF Restart
<1>2. queue = <<>> /\ Len(queue) = 0 /\ stage = "idle" /\ unsynced = {}
  BY <1>1 DEF ExactInv, StageFits, TypeInv, StageNumbered
<1>3. /\ counter' \in Nat /\ \A e \in wal : e.seq <= counter'
      /\ counter' = 0 \/ \E e \in wal : e.seq = counter'
  BY <1>1, HighestSeqIsHighest DEF TypeInv, TypeOK
<1>4. MemExact'
  <2>1. \A r \in Sessions : Ahead(queue, 1, r) = {}
    BY <1>2, AheadFirst
  <2> QED  BY <1>1, <1>2, <2>1, ReplayedIsExact DEF MemExact
<1>5. DiskExact'
  <2>1. \A r \in Sessions : disk'[r].content = Muts(LoggedUpTo(r, disk'[r].applied))
    BY <1>1, ReplayedIsUpTo
  <2> QED  BY <1>1, <2>1 DEF DiskExact, LoggedUpTo
<1>6. Anchored'
  BY <1>1, <1>2, ReplayedIsExact DEF Anchored
<1>7. CounterAhead'
  <2>1. ASSUME NEW r \in Sessions PROVE disk'[r].applied <= counter'
    <3>1. Replayed(r).applied \in Nat
      BY ReplayedType DEF Snapshot
    <3>2. \A e \in wal : e.seq \in Nat
      BY DEF TypeInv, TypeOK, Entry
    <3> QED  BY <1>1, <1>3, <3>1, <3>2, ReplayedIsExact
  <2> QED  BY <1>1, <1>2, <1>3, <2>1 DEF CounterAhead
<1>8. Settled' /\ LandedIsReadable' /\ SoftIsUnclaimed'
  BY <1>1, <1>2, <1>3 DEF Settled, LandedIsReadable, SoftIsUnclaimed
<1>9. Intact' /\ StageFits' /\ RetriesAreFaults' /\ CaptureExact'
  BY <1>1, <1>2 DEF ExactInv, Intact, StageFits, RetriesAreFaults, CaptureExact
<1> QED  BY <1>4, <1>5, <1>6, <1>7, <1>8, <1>9 DEF ExactInv

\* Without truncation requests no truncation runs.
LEMMA NoTruncateSteps ==
  ASSUME NoTruncation, TypeInv, ExactInv
  PROVE  ~RequestTruncate /\ ~RewriteWal
<1>1. ~RequestTruncate
  BY DEF NoTruncation, ExactInv, Intact, RequestTruncate
<1>2. ~RewriteWal
  <2> SUFFICES ASSUME RewriteWal PROVE FALSE
    OBVIOUS
  <2>1. queue # <<>> /\ Head(queue).kind = "truncate" /\ queue \in Seq(Job)
    BY DEF RewriteWal, HeadIs, TypeInv, TypeOK
  <2>2. 1 \in 1..Len(queue) /\ queue[1] = Head(queue)
    BY <2>1
  <2> QED  BY <2>1, <2>2 DEF ExactInv, Intact
<1> QED  BY <1>1, <1>2

\* Every action keeps the strengthened invariant.
LEMMA ExactStep ==
  WritesComeThrough /\ NoTruncation /\ TypeInv /\ ExactInv /\ [Next]_vars => ExactInv'
<1> SUFFICES ASSUME WritesComeThrough, NoTruncation, TypeInv, ExactInv, [Next]_vars
             PROVE  ExactInv'
  OBVIOUS
<1>1. ASSUME NEW s \in Sessions, Mutate(s) \/ CloseJournal(s) \/ ResaveSnapshot(s)
      PROVE  ExactInv'
  BY <1>1, ExactMutate, ExactCloseJournal, ExactResaveSnapshot
<1>2. CASE WorkerStep
  BY <1>2, ExactAssignSeq, ExactLandLine, ExactSyncLine, ExactRenameSnapshot,
     ExactPublishApplied, NoTruncateSteps DEF WorkerStep
<1>3. CASE RequestTruncate
  BY <1>3, NoTruncateSteps
<1>4. CASE WriteFault \/ Crash \/ Stop \/ Restart
  BY <1>4, ExactWriteFault, ExactCrash, ExactStop, ExactRestart
<1>5. CASE UNCHANGED vars
  BY <1>5, ExactUnchanged
<1> QED  BY <1>1, <1>2, <1>3, <1>4, <1>5, Zenon DEF Next

\* The strengthened invariant contains the property for stored snapshots.
LEMMA ExactMeansApplied == ExactInv => AppliedIsExact
<1> SUFFICES ASSUME ExactInv PROVE AppliedIsExact
  OBVIOUS
<1>1. History = wal
  BY DEF ExactInv, Intact, History
<1> QED  BY <1>1 DEF ExactInv, DiskExact, LoggedUpTo, AppliedIsExact

\* As long as every write comes through and nothing is truncated, a stored
\* snapshot holds the effects of exactly the logged mutations up to the number
\* the worker stamped on it: for any number of sessions and writes, any snapshot
\* interval, any interleaving of captures, retries, crashes and restarts.
THEOREM AppliedExact ==
  ASSUME WritesComeThrough, NoTruncation
  PROVE  Spec => []AppliedIsExact
<1>1. Init => TypeInv /\ ExactInv
  BY TypeInit, ExactInit
<1>2. TypeInv /\ ExactInv /\ [Next]_vars => (TypeInv /\ ExactInv)'
  BY TypeStep, ExactStep
<1>3. TypeInv /\ ExactInv => AppliedIsExact
  BY ExactMeansApplied
<1> QED  BY <1>1, <1>2, <1>3, PTL DEF Spec

----------------------------------------------------------------------------
(* NoAckedLoss, from the same invariant: an acknowledged mutation is in the *)
(* synced part of the log, that part never shrinks, and a restart replays   *)
(* the whole log.                                                           *)

AckedIsSynced == \A m \in acked : \E e \in wal \ unsynced : e.mut = m

\* Synced entries are never taken back.
LEMMA SyncedGrows ==
  ASSUME NoTruncation, TypeInv, ExactInv, [Next]_vars
  PROVE  wal \ unsynced \subseteq wal' \ unsynced'
<1>1. CASE LandLine
  <2>1. HeadEntry \notin wal
    <3>1. \A e \in wal : e.seq \in Nat /\ e.seq < counter
      BY <1>1 DEF LandLine, ExactInv, CounterAhead, TypeInv, TypeOK, Entry
    <3>2. counter \in Nat /\ HeadEntry.seq = counter
      BY DEF TypeInv, TypeOK, HeadEntry
    <3> QED  BY <3>1, <3>2
  <2> QED  BY <1>1, <2>1 DEF LandLine
<1>2. CASE Crash
  BY <1>2 DEF Crash
<1>3. CASE SyncLine \/ UNCHANGED <<wal, unsynced>>
  BY <1>3 DEF SyncLine
<1>4. CASE AssignSeq \/ RenameSnapshot \/ PublishApplied \/ WriteFault \/ Stop \/ Restart
  BY <1>4 DEF AssignSeq, RenameSnapshot, PublishApplied, WriteFault, Stop, Restart
<1>5. ASSUME NEW s \in Sessions, Mutate(s) \/ CloseJournal(s) \/ ResaveSnapshot(s)
      PROVE  wal \ unsynced \subseteq wal' \ unsynced'
  BY <1>5 DEF Mutate, CloseJournal, ResaveSnapshot
<1>6. UNCHANGED vars => UNCHANGED <<wal, unsynced>>
  OBVIOUS
<1> QED
  BY <1>1, <1>2, <1>3, <1>4, <1>5, <1>6, NoTruncateSteps, Zenon DEF Next, WorkerStep

\* A mutation is acknowledged by the fsync that covers its entry.
LEMMA AckedStep ==
  NoTruncation /\ TypeInv /\ ExactInv /\ AckedIsSynced /\ [Next]_vars => AckedIsSynced'
<1> SUFFICES ASSUME NoTruncation, TypeInv, ExactInv, AckedIsSynced, [Next]_vars
             PROVE  AckedIsSynced'
  OBVIOUS
<1>1. wal \ unsynced \subseteq wal' \ unsynced'
  BY SyncedGrows
<1>2. CASE SyncLine
  <2>1. /\ stage = "landed" /\ acked' = acked \cup {Head(queue).mut}
        /\ wal' = wal /\ unsynced' = {}
    BY <1>2 DEF SyncLine
  <2>2. HeadEntry \in wal /\ HeadEntry.mut = Head(queue).mut
    BY <2>1 DEF ExactInv, LandedIsReadable, HeadEntry
  <2> QED  BY <1>1, <2>1, <2>2 DEF AckedIsSynced
<1>3. CASE acked' = acked
  BY <1>1, <1>3 DEF AckedIsSynced
<1>4. CASE AssignSeq \/ LandLine \/ RenameSnapshot \/ PublishApplied \/ WriteFault
             \/ Crash \/ Stop \/ Restart
  BY <1>3, <1>4 DEF AssignSeq, LandLine, RenameSnapshot, PublishApplied, WriteFault,
     Crash, Stop, Restart
<1>5. ASSUME NEW s \in Sessions, Mutate(s) \/ CloseJournal(s) \/ ResaveSnapshot(s)
      PROVE  AckedIsSynced'
  BY <1>3, <1>5 DEF Mutate, CloseJournal, ResaveSnapshot
<1>6. UNCHANGED vars => acked' = acked
  OBVIOUS
<1> QED
  BY <1>2, <1>3, <1>4, <1>5, <1>6, NoTruncateSteps, Zenon DEF Next, WorkerStep

\* What is in the synced log is in a snapshot already, or in its tail.
LEMMA SyncedMeansRecovered ==
  ASSUME TypeInv, ExactInv, AckedIsSynced
  PROVE  NoAckedLoss
<1>1. ASSUME NEW m \in acked
      PROVE  \E s \in Sessions : m \in Replayed(s).content
  <2>1. PICK e \in wal : e.mut = m
    BY DEF AckedIsSynced
  <2>2. e.who \in Sessions /\ m \in Muts(Of(e.who, wal))
    BY <2>1 DEF TypeInv, TypeOK, Entry, Muts, Of
  <2> QED  BY <2>2, ReplayedIsExact
<1> QED  BY <1>1 DEF NoAckedLoss

\* As long as every write comes through and nothing is truncated, a mutation
\* whose WAL write was reported durable is given back by every restart,
\* whichever snapshots were stored meanwhile and however often the process died.
THEOREM AckedSurvives ==
  ASSUME WritesComeThrough, NoTruncation
  PROVE  Spec => []NoAckedLoss
<1>1. Init => TypeInv /\ ExactInv /\ AckedIsSynced
  <2>1. Init => AckedIsSynced
    BY DEF Init, AckedIsSynced
  <2> QED  BY <2>1, TypeInit, ExactInit
<1>2. TypeInv /\ ExactInv /\ AckedIsSynced /\ [Next]_vars
        => (TypeInv /\ ExactInv /\ AckedIsSynced)'
  BY TypeStep, ExactStep, AckedStep
<1>3. TypeInv /\ ExactInv /\ AckedIsSynced => NoAckedLoss
  BY SyncedMeansRecovered
<1> QED  BY <1>1, <1>2, <1>3, PTL DEF Spec

----------------------------------------------------------------------------
(* WalOrder.  The queue is in the order of issue and behind the log; the    *)
(* worker's counter is ahead of every number ever given to a line that      *)
(* could still be read, because truncation leaves the highest one and       *)
(* syncs it.  No assumption is needed: a retried line gets a new number, an *)
(* unreadable or lost one leaves a gap.                                     *)

QueueInOrder ==
  \A i, j \in 1..Len(queue) :
    i < j /\ queue[i].kind = "wal" /\ queue[j].kind = "wal" => queue[i].mut <= queue[j].mut

QueueIsNew ==
  \A i \in 1..Len(queue) : queue[i].kind = "wal" =>
    queue[i].mut <= issued /\ \A e \in History : e.mut <= queue[i].mut

HistoryIsIssued == \A e \in History : e.mut <= issued

CounterLeads ==
  /\ up => \A e \in History : e.seq <= counter
  /\ stage = "assigned" => \A e \in History : e.seq < counter

TopStays == \A e \in dropped : \E f \in wal \ unsynced : e.seq <= f.seq

OrderInv ==
  /\ QueueInOrder /\ QueueIsNew /\ HistoryIsIssued
  /\ CounterLeads /\ TopStays /\ WalOrder

USE DEF vars, fileVars, journalVars, boundVars

\* What the order says of the queue and the history alone.
LogParts == QueueInOrder /\ QueueIsNew /\ HistoryIsIssued /\ WalOrder

LEMMA OrderInit == Init => OrderInv
<1> SUFFICES ASSUME Init PROVE OrderInv
  OBVIOUS
<1>1. History = {} /\ queue = <<>> /\ stage = "idle" /\ dropped = {}
  BY DEF Init, History
<1> QED
  BY <1>1 DEF OrderInv, QueueInOrder, QueueIsNew, HistoryIsIssued, CounterLeads, TopStays, WalOrder

\* A removed head leaves the rest in order.
LEMMA OrderJobDone ==
  ASSUME TypeInv, OrderInv, queue # <<>>, JobDone, History' = History, issued' = issued
  PROVE  LogParts'
<1>1. /\ Len(queue) \in Nat /\ Len(queue') = Len(queue) - 1
      /\ \A i \in 1..Len(queue') : i + 1 \in 1..Len(queue) /\ queue'[i] = queue[i + 1]
  BY QueueShifted DEF TypeInv
<1>2. QueueInOrder'
  BY <1>1 DEF OrderInv, QueueInOrder
<1>3. QueueIsNew'
  BY <1>1 DEF OrderInv, QueueIsNew
<1>4. HistoryIsIssued' /\ WalOrder'
  BY DEF OrderInv, HistoryIsIssued, WalOrder
<1> QED  BY <1>2, <1>3, <1>4 DEF LogParts

LEMMA OrderSame ==
  ASSUME OrderInv, UNCHANGED <<queue, issued>>, History' = History
  PROVE  LogParts'
BY DEF LogParts, OrderInv, QueueInOrder, QueueIsNew, HistoryIsIssued, WalOrder

\* Another job behind the queue that is not a WAL write.
LEMMA OrderAppended ==
  ASSUME TypeInv, OrderInv, NEW job \in Job, job.kind # "wal", queue' = Append(queue, job),
         UNCHANGED <<issued, wal, unsynced, dropped, up, stage, counter>>
  PROVE  OrderInv'
<1>1. /\ Len(queue) \in Nat /\ Len(queue') = Len(queue) + 1
      /\ \A i \in 1..Len(queue) : queue'[i] = queue[i]
      /\ queue'[Len(queue) + 1] = job
  BY QueueAppended DEF TypeInv
<1>2. \A i \in 1..Len(queue') :
        queue'[i].kind = "wal" => i \in 1..Len(queue) /\ queue'[i] = queue[i]
  BY <1>1
<1>3. QueueInOrder'
  BY <1>2 DEF OrderInv, QueueInOrder
<1>4. QueueIsNew'
  BY <1>2 DEF OrderInv, QueueIsNew, History
<1>5. HistoryIsIssued' /\ WalOrder' /\ CounterLeads' /\ TopStays'
  BY DEF OrderInv, HistoryIsIssued, WalOrder, CounterLeads, TopStays, History
<1> QED  BY <1>3, <1>4, <1>5 DEF OrderInv

\* A mutation's number is higher than any before it.
LEMMA OrderMutate ==
  ASSUME TypeInv, OrderInv, NEW s \in Sessions, Mutate(s)
  PROVE  OrderInv'
<1> DEFINE n == Len(queue)
<1>1. /\ n \in Nat
      /\ Len(queue') = n + (IF SnapshotDue(s) THEN 2 ELSE 1)
      /\ \A i \in 1..n : queue'[i] = queue[i]
      /\ queue'[n + 1] = WalJob(s, issued')
      /\ SnapshotDue(s) => queue'[n + 2] = SnapshotJob(s, mem'[s])
  BY QueueExtended
<1>2. /\ issued \in Nat /\ issued' = issued + 1
      /\ UNCHANGED <<up, stage, counter, wal, unsynced, dropped>>
  BY ConstantsAssumption DEF Mutate, TypeInv, TypeOK
<1>3. /\ WalJob(s, issued').mut = issued'
      /\ SnapshotJob(s, mem'[s]).kind # "wal"
  BY DEF WalJob, SnapshotJob
<1>4. \A i \in 1..Len(queue') : queue'[i].kind = "wal" =>
        \/ i \in 1..n /\ queue'[i] = queue[i]
        \/ i = n + 1 /\ queue'[i].mut = issued + 1
  BY <1>1, <1>2, <1>3
<1>5. \A i \in 1..n : queue[i].kind = "wal" => queue[i].mut \in Nat /\ queue[i].mut <= issued
  BY DEF OrderInv, QueueIsNew, TypeInv, TypeOK, Job, Mutation
<1>6. \A e \in History : e.mut \in Nat /\ e.mut <= issued
  BY DEF OrderInv, HistoryIsIssued, TypeInv, TypeOK, Entry, Mutation, History
<1>7. History' = History
  BY <1>2 DEF History
<1>8. QueueInOrder'
  <2> SUFFICES ASSUME NEW i \in 1..Len(queue'), NEW j \in 1..Len(queue'), i < j,
                      queue'[i].kind = "wal", queue'[j].kind = "wal"
               PROVE  queue'[i].mut <= queue'[j].mut
    BY DEF QueueInOrder
  <2>1. CASE j \in 1..n /\ queue'[j] = queue[j]
    <3>1. i \in 1..n /\ queue'[i] = queue[i]
      BY <1>1, <2>1
    <3> QED  BY <2>1, <3>1 DEF OrderInv, QueueInOrder
  <2>2. CASE j = n + 1 /\ queue'[j].mut = issued + 1
    <3>1. i \in 1..n /\ queue'[i] = queue[i]
      BY <1>1, <2>2
    <3> QED  BY <1>2, <1>5, <2>2, <3>1
  <2> QED  BY <1>4, <2>1, <2>2
<1>9. QueueIsNew'
  <2> SUFFICES ASSUME NEW i \in 1..Len(queue'), queue'[i].kind = "wal"
               PROVE  queue'[i].mut <= issued' /\ \A e \in History' : e.mut <= queue'[i].mut
    BY DEF QueueIsNew
  <2>1. CASE i \in 1..n /\ queue'[i] = queue[i]
    BY <1>2, <1>5, <1>7, <2>1 DEF OrderInv, QueueIsNew
  <2>2. CASE i = n + 1 /\ queue'[i].mut = issued + 1
    BY <1>2, <1>6, <1>7, <2>2
  <2> QED  BY <1>4, <2>1, <2>2
<1>10. HistoryIsIssued' /\ WalOrder'
  BY <1>2, <1>6, <1>7 DEF OrderInv, HistoryIsIssued, WalOrder
<1>11. CounterLeads' /\ TopStays'
  BY <1>2, <1>7 DEF OrderInv, CounterLeads, TopStays
<1> QED  BY <1>8, <1>9, <1>10, <1>11 DEF OrderInv

\* A new number is higher than any in the log.
LEMMA OrderAssignSeq ==
  ASSUME TypeInv, OrderInv, AssignSeq
  PROVE  OrderInv'
<1>1. /\ up /\ counter' = counter + 1 /\ counter \in Nat
      /\ UNCHANGED <<up, queue, issued, wal, unsynced, dropped>>
  BY DEF AssignSeq, HeadIs, TypeInv, TypeOK
<1>2. History' = History /\ \A e \in History : e.seq \in Nat
  BY <1>1 DEF History, TypeInv, TypeOK, Entry
<1>3. LogParts'
  BY <1>1, <1>2, OrderSame
<1>4. CounterLeads'
  BY <1>1, <1>2 DEF OrderInv, CounterLeads
<1>5. TopStays'
  BY <1>1 DEF OrderInv, TopStays
<1> QED  BY <1>3, <1>4, <1>5 DEF LogParts, OrderInv

\* The line that lands is the last in both orders.
LEMMA OrderLandLine ==
  ASSUME TypeInv, OrderInv, LandLine
  PROVE  OrderInv'
<1>1. /\ up /\ queue # <<>> /\ Head(queue).kind = "wal" /\ stage = "assigned"
      /\ stage' = "landed" /\ UNCHANGED <<up, queue, issued, counter, dropped>>
      /\ \/ UNCHANGED <<wal, unsynced>>
         \/ wal' = wal \cup {HeadEntry} /\ unsynced' = unsynced \cup {HeadEntry}
  BY DEF LandLine, HeadIs
<1>2. CASE UNCHANGED <<wal, unsynced>>
  <2>1. History' = History
    BY <1>1, <1>2 DEF History
  <2>2. LogParts'
    BY <1>1, <2>1, OrderSame
  <2>3. CounterLeads' /\ TopStays'
    BY <1>1, <1>2, <2>1 DEF OrderInv, CounterLeads, TopStays
  <2> QED  BY <2>2, <2>3 DEF LogParts, OrderInv
<1>3. CASE wal' = wal \cup {HeadEntry} /\ unsynced' = unsynced \cup {HeadEntry}
  <2>1. /\ Len(queue) \in Nat /\ 1 \in 1..Len(queue) /\ queue[1] = Head(queue)
        /\ Head(queue) \in Job
    BY <1>1, QueueParts DEF TypeInv, TypeOK
  <2>2. /\ HeadEntry.seq = counter /\ HeadEntry.mut = queue[1].mut
        /\ counter \in Nat /\ queue[1].mut \in Nat /\ issued \in Nat
    BY <1>1, <2>1, ConstantsAssumption DEF HeadEntry, Job, Mutation, TypeInv, TypeOK
  <2>3. /\ \A e \in History : e.seq \in Nat /\ e.seq < counter
        /\ \A e \in History : e.mut \in Nat /\ e.mut <= queue[1].mut
        /\ queue[1].mut <= issued
    BY <1>1, <2>1
    DEF OrderInv, CounterLeads, QueueIsNew, TypeInv, TypeOK, Entry, Mutation, History
  <2>4. History' = History \cup {HeadEntry}
    BY <1>1, <1>3 DEF History
  <2>5. QueueInOrder'
    BY <1>1 DEF OrderInv, QueueInOrder
  <2>6. QueueIsNew'
    <3>1. \A i \in 1..Len(queue) : queue[i].kind = "wal" => queue[1].mut <= queue[i].mut
      BY <1>1, <2>1, <2>2 DEF OrderInv, QueueInOrder
    <3> QED  BY <1>1, <2>2, <2>4, <3>1 DEF OrderInv, QueueIsNew
  <2>7. HistoryIsIssued'
    BY <1>1, <2>2, <2>3, <2>4 DEF OrderInv, HistoryIsIssued
  <2>8. WalOrder'
    BY <2>2, <2>3, <2>4 DEF OrderInv, WalOrder
  <2>9. CounterLeads'
    BY <1>1, <2>2, <2>3, <2>4 DEF CounterLeads
  <2>10. TopStays'
    <3>1. \A f \in wal : f # HeadEntry
      BY <2>2, <2>3 DEF History
    <3> QED  BY <1>1, <1>3, <3>1 DEF OrderInv, TopStays
  <2> QED  BY <2>5, <2>6, <2>7, <2>8, <2>9, <2>10 DEF OrderInv
<1> QED  BY <1>1, <1>2, <1>3

\* A job that changes no entry ends.
LEMMA OrderJobEnds ==
  ASSUME TypeInv, OrderInv, queue # <<>>, JobDone, unsynced' \subseteq unsynced,
         UNCHANGED <<up, counter, issued, wal, dropped>>
  PROVE  OrderInv'
<1>1. History' = History /\ stage' = "idle"
  BY DEF History, JobDone
<1>2. LogParts'
  BY <1>1, OrderJobDone
<1>3. CounterLeads' /\ TopStays'
  BY <1>1 DEF OrderInv, CounterLeads, TopStays
<1> QED  BY <1>2, <1>3 DEF LogParts, OrderInv

\* A step of the head job that changes no entry.
LEMMA OrderJobGoesOn ==
  ASSUME OrderInv, stage' # "assigned",
         UNCHANGED <<up, queue, counter, issued, wal, unsynced, dropped>>
  PROVE  OrderInv'
<1>1. History' = History
  BY DEF History
<1>2. LogParts'
  BY <1>1, OrderSame
<1>3. CounterLeads' /\ TopStays'
  BY <1>1 DEF OrderInv, CounterLeads, TopStays
<1> QED  BY <1>2, <1>3 DEF LogParts, OrderInv

\* A truncation drops nothing that an entry it keeps does not outrank.
LEMMA HighestSurvives ==
  ASSUME TypeInv, RewriteWal
  PROVE  \A e \in wal : \E f \in wal' : e.seq <= f.seq
<1>1. wal' = Survivors(Head(queue).floor)
  BY DEF RewriteWal
<1>2. wal \subseteq Entry /\ Bounded(wal)
  BY DEF TypeInv, TypeOK
<1>3. /\ HighestSeq(wal) \in Nat
      /\ \A e \in wal : e.seq <= HighestSeq(wal)
      /\ HighestSeq(wal) = 0 \/ \E e \in wal : e.seq = HighestSeq(wal)
  BY <1>2, HighestSeqIsHighest
<1>4. \A e \in wal : e.seq \in Nat \ {0}
  BY <1>2 DEF Entry
<1>5. wal # {} => \E f \in wal' : f.seq = HighestSeq(wal)
  BY <1>1, <1>3, <1>4 DEF Survivors
<1> QED  BY <1>3, <1>5

\* A truncation keeps the entry with the highest number, and syncs it.
LEMMA OrderRewriteWal ==
  ASSUME TypeInv, OrderInv, RewriteWal
  PROVE  OrderInv'
<1>1. /\ queue # <<>> /\ JobDone /\ UNCHANGED <<up, counter, issued>>
      /\ wal' = Survivors(Head(queue).floor) /\ dropped' = dropped \cup (wal \ wal')
      /\ unsynced' = {}
  BY DEF RewriteWal, HeadIs
<1>2. wal' \subseteq wal /\ History' = History
  BY <1>1 DEF Survivors, History
<1>3. LogParts'
  BY <1>1, <1>2, OrderJobDone
<1>4. CounterLeads'
  BY <1>1, <1>2 DEF OrderInv, CounterLeads, JobDone
<1>5. TopStays'
  <2>1. \A e \in wal : \E f \in wal' : e.seq <= f.seq
    BY HighestSurvives
  <2>2. \A e \in wal : e.seq \in Nat
    BY DEF TypeInv, TypeOK, Entry
  <2>3. \A e \in dropped : e.seq \in Nat /\ \E f \in wal : e.seq <= f.seq
    BY DEF OrderInv, TopStays, TypeInv, TypeOK, Entry
  <2>4. \A e \in dropped : \E f \in wal' : e.seq <= f.seq
    <3> SUFFICES ASSUME NEW e \in dropped PROVE \E f \in wal' : e.seq <= f.seq
      OBVIOUS
    <3>1. PICK f \in wal : e.seq <= f.seq
      BY <2>3
    <3>2. PICK g \in wal' : f.seq <= g.seq
      BY <2>1
    <3>3. e.seq \in Nat /\ f.seq \in Nat /\ g.seq \in Nat
      BY <1>2, <2>2, <2>3
    <3> QED  BY <3>1, <3>2, <3>3
  <2> QED  BY <1>1, <2>1, <2>4 DEF TopStays
<1> QED  BY <1>3, <1>4, <1>5 DEF LogParts, OrderInv

LEMMA OrderWriteFault ==
  ASSUME TypeInv, OrderInv, WriteFault
  PROVE  OrderInv'
<1>1. queue # <<>> /\ UNCHANGED <<up, counter, issued, wal, unsynced, dropped>>
  BY DEF WriteFault
<1>2. CASE stage' = "idle" /\ UNCHANGED queue
  BY <1>1, <1>2, OrderJobGoesOn
<1>3. CASE JobDone
  BY <1>1, <1>3, OrderJobEnds
<1> QED  BY <1>2, <1>3 DEF WriteFault

\* Process death empties the queue and may take unsynced entries back.
LEMMA OrderHalt ==
  ASSUME OrderInv, Halt, wal' \subseteq wal, wal \ unsynced \subseteq wal' \ unsynced',
         UNCHANGED <<issued, dropped>>
  PROVE  OrderInv'
<1>1. queue' = <<>> /\ stage' = "idle" /\ ~up' /\ History' \subseteq History
  BY DEF Halt, History
<1>2. QueueInOrder' /\ QueueIsNew' /\ CounterLeads'
  BY <1>1 DEF QueueInOrder, QueueIsNew, CounterLeads
<1>3. HistoryIsIssued' /\ WalOrder'
  BY <1>1 DEF OrderInv, HistoryIsIssued, WalOrder
<1>4. TopStays'
  BY DEF OrderInv, TopStays
<1> QED  BY <1>2, <1>3, <1>4 DEF OrderInv

LEMMA OrderCrash ==
  ASSUME TypeInv, OrderInv, Crash
  PROVE  OrderInv'
<1>1. PICK lost \in SUBSET unsynced : wal' = wal \ lost
  BY Zenon DEF Crash
<1>2. Halt /\ unsynced' = {} /\ UNCHANGED <<issued, dropped>>
  BY DEF Crash
<1> QED  BY <1>1, <1>2, OrderHalt

\* The scan of a restart finds the highest number that was ever readable.
LEMMA OrderRestart ==
  ASSUME TypeInv, OrderInv, Restart
  PROVE  OrderInv'
<1>1. /\ ~up /\ counter' = HighestSeq(wal)
      /\ UNCHANGED <<queue, stage, issued, wal, unsynced, dropped>>
  BY DEF Restart
<1>2. History' = History /\ stage' # "assigned"
  BY <1>1 DEF History, TypeInv, StageNumbered
<1>3. LogParts'
  BY <1>1, <1>2, OrderSame
<1>4. \A e \in History : e.seq <= HighestSeq(wal)
  <2>1. wal \subseteq Entry /\ dropped \subseteq Entry /\ Bounded(wal)
    BY DEF TypeInv, TypeOK
  <2>2. HighestSeq(wal) \in Nat /\ \A e \in wal : e.seq \in Nat /\ e.seq <= HighestSeq(wal)
    BY <2>1, HighestSeqIsHighest DEF Entry
  <2>3. \A e \in dropped : e.seq \in Nat /\ \E f \in wal : e.seq <= f.seq
    BY <2>1 DEF OrderInv, TopStays, Entry
  <2> QED  BY <2>2, <2>3 DEF History
<1>5. CounterLeads'
  BY <1>1, <1>2, <1>4 DEF CounterLeads
<1>6. TopStays'
  BY <1>1 DEF OrderInv, TopStays
<1> QED  BY <1>3, <1>5, <1>6 DEF LogParts, OrderInv

\* Nothing the order speaks of changes.
LEMMA OrderUnchanged ==
  ASSUME OrderInv, UNCHANGED <<up, queue, stage, counter, issued, wal, unsynced, dropped>>
  PROVE  OrderInv'
<1>1. History' = History
  BY DEF History
<1>2. LogParts'
  BY <1>1, OrderSame
<1>3. CounterLeads' /\ TopStays'
  BY <1>1 DEF OrderInv, CounterLeads, TopStays
<1> QED  BY <1>2, <1>3 DEF LogParts, OrderInv

LEMMA OrderStep ==
  ASSUME TypeInv, OrderInv, [Next]_vars
  PROVE  OrderInv'
<1>1. ASSUME NEW s \in Sessions, CloseJournal(s) PROVE OrderInv'
  <2>1. SnapshotJob(s, mem[s]) \in Job /\ SnapshotJob(s, mem[s]).kind # "wal"
    BY DEF TypeInv, TypeOK, SnapshotJob, Job
  <2> QED  BY <1>1, <2>1, OrderAppended DEF CloseJournal
<1>2. CASE RequestTruncate
  <2>1. PICK low \in Watermarks : queue' = Append(queue, TruncateJob(low + 1))
    BY <1>2 DEF RequestTruncate
  <2>2. TruncateJob(low + 1) \in Job /\ TruncateJob(low + 1).kind # "wal"
    BY DEF Watermarks, TypeInv, TypeOK, TruncateJob, Job
  <2> QED  BY <1>2, <2>1, <2>2, OrderAppended DEF RequestTruncate
<1>3. CASE SyncLine
  BY <1>3, OrderJobEnds DEF SyncLine, HeadIs
<1>4. CASE RenameSnapshot
  BY <1>4, OrderJobGoesOn DEF RenameSnapshot
<1>5. CASE PublishApplied
  BY <1>5, OrderJobEnds DEF PublishApplied, HeadIs
<1>6. CASE Stop
  BY <1>6, OrderHalt DEF Stop
<1>7. ASSUME NEW s \in Sessions, ResaveSnapshot(s) PROVE OrderInv'
  BY <1>7, OrderUnchanged DEF ResaveSnapshot
<1>8. CASE UNCHANGED vars
  BY <1>8, OrderUnchanged
<1>9. ASSUME NEW s \in Sessions, Mutate(s) PROVE OrderInv'
  BY <1>9, OrderMutate
<1>10. CASE AssignSeq \/ LandLine \/ RewriteWal \/ WriteFault \/ Crash \/ Restart
  BY <1>10, OrderAssignSeq, OrderLandLine, OrderRewriteWal, OrderWriteFault, OrderCrash,
     OrderRestart
<1> QED
  BY <1>1, <1>2, <1>3, <1>4, <1>5, <1>6, <1>7, <1>8, <1>9, <1>10, Zenon
  DEF Next, WorkerStep

\* Replay order is issue order and no number is used twice (_scan_max_seq and
\* the counter of StateLog), whatever is retried, torn, lost, truncated or
\* restarted.
THEOREM LogIsInOrder == Spec => []WalOrder
<1>1. OrderInv => WalOrder
  BY DEF OrderInv
<1>2. TypeInv /\ OrderInv /\ [Next]_vars => OrderInv'
  BY OrderStep
<1> QED  BY TypeInit, TypeStep, OrderInit, <1>1, <1>2, PTL DEF Spec

----------------------------------------------------------------------------
(* AppliedNeverAheadOfWal, when every write comes through.                  *)

\* What is assigned and not durable, or not synced, is the head job's doing.
InStep ==
  /\ up => lastDurable <= counter
  /\ up /\ (lastDurable # counter \/ unsynced # {})
       => queue # <<>> /\ Head(queue).kind = "wal"
  /\ ~up => unsynced = {}

RenamedIsStamped ==
  stage = "renamed" => HeadIs("snapshot") /\ disk[Head(queue).who].applied = counter

\* A restart resumes from a number that is not below what was durable.
WatermarkIsKept ==
  up => lastDurable = 0 \/ \E e \in wal \ unsynced : lastDurable <= e.seq

LandedIsNumbered == stage = "landed" => \E e \in wal : e.seq = counter

StampInv ==
  /\ torn = FALSE /\ RetriesAreFaults
  /\ InStep /\ RenamedIsStamped /\ WatermarkIsKept /\ LandedIsNumbered /\ Anchored
  /\ AppliedNeverAheadOfWal

LEMMA StampInit == Init => StampInv
<1> SUFFICES ASSUME Init PROVE StampInv
  OBVIOUS
<1> USE DEF Init
<1>1. torn = FALSE /\ RetriesAreFaults /\ InStep /\ WatermarkIsKept
  BY DEF RetriesAreFaults, InStep, WatermarkIsKept
<1>2. RenamedIsStamped /\ LandedIsNumbered /\ Anchored /\ AppliedNeverAheadOfWal
  BY DEF RenamedIsStamped, LandedIsNumbered, Anchored, AppliedNeverAheadOfWal, EmptySnapshot
<1> QED  BY <1>1, <1>2 DEF StampInv

\* Steps that leave the files, the counters and the head job alone.
LEMMA StampSame ==
  ASSUME StampInv,
         UNCHANGED <<up, stage, counter, lastDurable, wal, unsynced, torn, disk, memApplied,
                     attempt, faults>>,
         queue # <<>> => queue' # <<>> /\ Head(queue') = Head(queue)
  PROVE  StampInv'
<1> USE DEF StampInv
<1>1. torn' = FALSE /\ RetriesAreFaults' /\ InStep'
  BY DEF RetriesAreFaults, InStep
<1>2. RenamedIsStamped' /\ WatermarkIsKept' /\ LandedIsNumbered'
  BY DEF RenamedIsStamped, HeadIs, WatermarkIsKept, LandedIsNumbered
<1>3. Anchored' /\ AppliedNeverAheadOfWal'
  BY DEF Anchored, AppliedNeverAheadOfWal
<1> QED  BY <1>1, <1>2, <1>3

\* What is appended to a queue leaves its head.
LEMMA HeadStays ==
  ASSUME NEW q \in Seq(Job), q # <<>>, NEW r \in Seq(Job)
  PROVE  q \o r # <<>> /\ Head(q \o r) = Head(q)
OBVIOUS

LEMMA StampAppended ==
  ASSUME TypeInv, StampInv, NEW job \in Job, queue' = Append(queue, job),
         UNCHANGED <<up, stage, counter, lastDurable, wal, unsynced, torn, disk, memApplied,
                     attempt, faults>>
  PROVE  StampInv'
<1>1. queue # <<>> => queue' # <<>> /\ Head(queue') = Head(queue)
  BY DEF TypeInv, TypeOK
<1> QED  BY <1>1, StampSame

LEMMA StampMutate ==
  ASSUME TypeInv, StampInv, NEW s \in Sessions, Mutate(s)
  PROVE  StampInv'
<1>1. issued' \in Mutation
  BY ConstantsAssumption DEF Mutate, TypeInv, TypeOK, Mutation
<1>2. mem'[s] \in SUBSET Mutation
  BY <1>1 DEF Mutate, TypeInv, TypeOK
<1>3. WalJob(s, issued') \in Job /\ SnapshotJob(s, mem'[s]) \in Job
  BY <1>1, <1>2 DEF WalJob, SnapshotJob, Job
<1>4. JobsOf(s, issued', mem'[s]) \in Seq(Job)
  BY <1>3 DEF JobsOf
<1>5. queue \in Seq(Job) /\ queue' = queue \o JobsOf(s, issued', mem'[s])
  BY DEF Mutate, TypeInv, TypeOK
<1>6. queue # <<>> => queue' # <<>> /\ Head(queue') = Head(queue)
  BY <1>4, <1>5, HeadStays
<1> QED  BY <1>6, StampSame DEF Mutate

LEMMA StampAssignSeq ==
  ASSUME TypeInv, StampInv, AssignSeq
  PROVE  StampInv'
<1> USE DEF StampInv
<1>1. /\ up /\ queue # <<>> /\ Head(queue).kind = "wal" /\ stage' = "assigned"
      /\ counter' = counter + 1 /\ counter \in Nat /\ lastDurable \in Nat
      /\ UNCHANGED <<up, queue, attempt, lastDurable, wal, unsynced, torn, disk, memApplied,
                     faults>>
  BY DEF AssignSeq, HeadIs, TypeInv, TypeOK
<1>2. torn' = FALSE /\ RetriesAreFaults' /\ InStep'
  BY <1>1 DEF RetriesAreFaults, InStep
<1>3. RenamedIsStamped' /\ WatermarkIsKept' /\ LandedIsNumbered'
  BY <1>1 DEF RenamedIsStamped, WatermarkIsKept, LandedIsNumbered
<1>4. Anchored' /\ AppliedNeverAheadOfWal'
  BY <1>1 DEF Anchored, AppliedNeverAheadOfWal
<1> QED  BY <1>2, <1>3, <1>4

\* A line that lands is not one that was synced before.
LEMMA StampLandLine ==
  ASSUME TypeInv, OrderInv, StampInv, LandLine
  PROVE  StampInv'
<1> USE DEF StampInv
<1>1. /\ up /\ queue # <<>> /\ Head(queue).kind = "wal" /\ stage = "assigned"
      /\ stage' = "landed" /\ torn' = FALSE
      /\ wal' = wal \cup {HeadEntry} /\ unsynced' = unsynced \cup {HeadEntry}
      /\ UNCHANGED <<up, queue, attempt, counter, lastDurable, disk, memApplied, faults>>
  BY DEF LandLine, HeadIs
<1>2. HeadEntry.seq = counter
  BY DEF HeadEntry
<1>3. \A e \in wal : e.seq \in Nat /\ e.seq < counter
  BY <1>1 DEF OrderInv, CounterLeads, History, TypeInv, TypeOK, Entry
<1>4. HeadEntry \notin wal
  BY <1>2, <1>3 DEF TypeInv, TypeOK
<1>5. wal \ unsynced \subseteq wal' \ unsynced'
  BY <1>1, <1>4
<1>6. RetriesAreFaults' /\ InStep'
  BY <1>1 DEF RetriesAreFaults, InStep
<1>7. RenamedIsStamped' /\ LandedIsNumbered'
  BY <1>1, <1>2 DEF RenamedIsStamped, LandedIsNumbered
<1>8. WatermarkIsKept' /\ Anchored'
  BY <1>1, <1>5 DEF WatermarkIsKept, Anchored
<1>9. AppliedNeverAheadOfWal'
  BY <1>1 DEF AppliedNeverAheadOfWal
<1> QED  BY <1>1, <1>6, <1>7, <1>8, <1>9

LEMMA StampSyncLine ==
  ASSUME TypeInv, StampInv, SyncLine
  PROVE  StampInv'
<1> USE DEF StampInv
<1>1. /\ up /\ stage = "landed" /\ stage' = "idle" /\ attempt' = 0
      /\ lastDurable' = counter /\ unsynced' = {}
      /\ UNCHANGED <<up, counter, wal, torn, disk, memApplied, faults>>
  BY DEF SyncLine, HeadIs, JobDone
<1>2. torn' = FALSE /\ RetriesAreFaults' /\ InStep'
  BY <1>1 DEF RetriesAreFaults, InStep, TypeInv, TypeOK
<1>3. RenamedIsStamped' /\ LandedIsNumbered'
  BY <1>1 DEF RenamedIsStamped, LandedIsNumbered
<1>4. WatermarkIsKept'
  <2>1. \E e \in wal : e.seq = counter
    BY <1>1 DEF LandedIsNumbered
  <2> QED  BY <1>1, <2>1 DEF WatermarkIsKept, TypeInv, TypeOK
<1>5. Anchored'
  BY <1>1 DEF Anchored
<1>6. AppliedNeverAheadOfWal'
  <2>1. \A s \in Sessions : disk[s].applied \in Nat
    BY DEF TypeInv, TypeOK, Snapshot
  <2>2. lastDurable \in Nat /\ counter \in Nat /\ lastDurable <= counter
    BY <1>1 DEF InStep, TypeInv, TypeOK
  <2> QED  BY <1>1, <2>1, <2>2 DEF AppliedNeverAheadOfWal
<1> QED  BY <1>2, <1>3, <1>4, <1>5, <1>6

\* Between WAL jobs the counter is durable, so a stamp is too.
LEMMA StampRenameSnapshot ==
  ASSUME TypeInv, StampInv, RenameSnapshot
  PROVE  StampInv'
<1> USE DEF StampInv
<1> DEFINE who == Head(queue).who
<1>1. /\ up /\ queue # <<>> /\ Head(queue).kind = "snapshot" /\ stage' = "renamed"
      /\ disk' = [disk EXCEPT ![who] = [content |-> Head(queue).content, applied |-> counter]]
      /\ UNCHANGED <<up, queue, attempt, counter, lastDurable, wal, unsynced, torn, memApplied,
                     faults>>
  BY DEF RenameSnapshot, HeadIs
<1>2. /\ who \in Sessions /\ counter \in Nat
      /\ \A s \in Sessions : disk[s].applied \in Nat /\ memApplied[s] \in Nat
  BY <1>1, QueueParts DEF Job, TypeInv, TypeOK, Snapshot
<1>3. lastDurable = counter /\ unsynced = {}
  BY <1>1 DEF InStep
<1>4. /\ disk'[who].applied = counter
      /\ \A s \in Sessions \ {who} : disk'[s] = disk[s]
  BY <1>1, <1>2 DEF TypeInv, TypeOK
<1> HIDE DEF who
<1>5. torn' = FALSE /\ RetriesAreFaults' /\ InStep'
  BY <1>1 DEF RetriesAreFaults, InStep
<1>6. RenamedIsStamped'
  BY <1>1, <1>4 DEF RenamedIsStamped, HeadIs, who
<1>7. WatermarkIsKept' /\ LandedIsNumbered'
  BY <1>1 DEF WatermarkIsKept, LandedIsNumbered
<1>8. Anchored'
  <2>1. counter = 0 \/ \E e \in wal \ unsynced : counter <= e.seq
    BY <1>1, <1>3 DEF WatermarkIsKept
  <2> QED  BY <1>1, <1>4, <2>1 DEF Anchored
<1>9. AppliedNeverAheadOfWal'
  BY <1>1, <1>2, <1>3, <1>4 DEF AppliedNeverAheadOfWal
<1> QED  BY <1>5, <1>6, <1>7, <1>8, <1>9

LEMMA StampPublishApplied ==
  ASSUME TypeInv, StampInv, PublishApplied
  PROVE  StampInv'
<1> USE DEF StampInv
<1> DEFINE who == Head(queue).who
<1>1. /\ up /\ queue # <<>> /\ Head(queue).kind = "snapshot" /\ stage = "renamed"
      /\ stage' = "idle" /\ attempt' = 0
      /\ memApplied' = [memApplied EXCEPT ![who] = counter]
      /\ UNCHANGED <<up, counter, lastDurable, wal, unsynced, torn, disk, faults>>
  BY DEF PublishApplied, HeadIs, JobDone
<1>2. lastDurable = counter /\ unsynced = {} /\ counter \in Nat
  BY <1>1 DEF InStep, TypeInv, TypeOK
<1>3. \A s \in Sessions : memApplied'[s] = IF s = who THEN counter ELSE memApplied[s]
  BY <1>1 DEF TypeInv, TypeOK
<1>4. disk[who].applied = counter
  BY <1>1 DEF RenamedIsStamped
<1> HIDE DEF who
<1>5. torn' = FALSE /\ RetriesAreFaults' /\ InStep'
  BY <1>1, <1>2 DEF RetriesAreFaults, InStep, TypeInv, TypeOK
<1>6. RenamedIsStamped' /\ WatermarkIsKept' /\ LandedIsNumbered' /\ Anchored'
  BY <1>1 DEF RenamedIsStamped, WatermarkIsKept, LandedIsNumbered, Anchored
<1>7. AppliedNeverAheadOfWal'
  BY <1>1, <1>2, <1>3, <1>4 DEF AppliedNeverAheadOfWal
<1> QED  BY <1>5, <1>6, <1>7

LEMMA StampRewriteWal ==
  ASSUME TypeInv, StampInv, RewriteWal
  PROVE  StampInv'
<1> USE DEF StampInv
<1>1. /\ up /\ queue # <<>> /\ Head(queue).kind = "truncate" /\ stage' = "idle" /\ attempt' = 0
      /\ wal' = Survivors(Head(queue).floor) /\ unsynced' = {} /\ torn' = FALSE
      /\ UNCHANGED <<up, counter, lastDurable, disk, memApplied, faults>>
  BY DEF RewriteWal, HeadIs, JobDone
<1>2. lastDurable = counter /\ unsynced = {} /\ counter \in Nat
  BY <1>1 DEF InStep, TypeInv, TypeOK
<1>3. wal' \subseteq wal /\ \A e \in wal : e.seq \in Nat
  BY <1>1 DEF Survivors, TypeInv, TypeOK, Entry
<1>4. \A n \in Nat : (\E e \in wal : n <= e.seq) => \E f \in wal' : n <= f.seq
  <2> SUFFICES ASSUME NEW n \in Nat, NEW e \in wal, n <= e.seq PROVE \E f \in wal' : n <= f.seq
    OBVIOUS
  <2>1. PICK f \in wal' : e.seq <= f.seq
    BY HighestSurvives
  <2>2. e.seq \in Nat /\ f.seq \in Nat
    BY <1>3
  <2> QED  BY <2>1, <2>2
<1>5. RetriesAreFaults' /\ InStep'
  BY <1>1, <1>2 DEF RetriesAreFaults, InStep, TypeInv, TypeOK
<1>6. RenamedIsStamped' /\ LandedIsNumbered'
  BY <1>1 DEF RenamedIsStamped, LandedIsNumbered
<1>7. WatermarkIsKept'
  BY <1>1, <1>2, <1>4 DEF WatermarkIsKept
<1>8. Anchored'
  <2>1. \A s \in Sessions : disk[s].applied \in Nat
    BY DEF TypeInv, TypeOK, Snapshot
  <2> QED  BY <1>1, <1>4, <2>1 DEF Anchored
<1>9. AppliedNeverAheadOfWal'
  BY <1>1 DEF AppliedNeverAheadOfWal
<1> QED  BY <1>1, <1>5, <1>6, <1>7, <1>8, <1>9

\* With fewer faults than attempts a failed job is run again.
LEMMA StampWriteFault ==
  ASSUME WritesComeThrough, TypeInv, StampInv, WriteFault
  PROVE  StampInv'
<1> USE DEF StampInv
<1>1. /\ up /\ queue # <<>> /\ faults < MaxFaults /\ faults' = faults + 1
      /\ stage \in IF HeadIs("wal") THEN {"assigned", "landed"} ELSE {"idle"}
      /\ UNCHANGED <<up, counter, lastDurable, wal, unsynced, disk, memApplied>>
  BY DEF WriteFault
<1>2. torn' = FALSE
  BY DEF WriteFault, WritesComeThrough
<1>3. attempt + 1 < MaxWriteAttempts
  BY <1>1, ConstantsAssumption DEF RetriesAreFaults, WritesComeThrough, TypeInv, TypeOK
<1>4. attempt' = attempt + 1 /\ stage' = "idle" /\ queue' = queue
  BY <1>3 DEF WriteFault
<1>5. RetriesAreFaults' /\ InStep'
  BY <1>1, <1>4 DEF RetriesAreFaults, InStep, TypeInv, TypeOK
<1>6. RenamedIsStamped' /\ LandedIsNumbered'
  BY <1>4 DEF RenamedIsStamped, LandedIsNumbered
<1>7. WatermarkIsKept' /\ Anchored' /\ AppliedNeverAheadOfWal'
  BY <1>1 DEF WatermarkIsKept, Anchored, AppliedNeverAheadOfWal
<1> QED  BY <1>2, <1>5, <1>6, <1>7

\* What is synced outlives the process.
LEMMA StampHalt ==
  ASSUME StampInv, Halt, torn' = FALSE, unsynced' = {}, wal \ unsynced \subseteq wal',
         UNCHANGED <<disk, faults>>, faults \in Nat
  PROVE  StampInv'
<1> USE DEF StampInv
<1>1. ~up' /\ stage' = "idle" /\ attempt' = 0
  BY DEF Halt
<1>2. RetriesAreFaults' /\ InStep' /\ RenamedIsStamped' /\ LandedIsNumbered'
  BY <1>1 DEF RetriesAreFaults, InStep, RenamedIsStamped, LandedIsNumbered
<1>3. WatermarkIsKept' /\ Anchored' /\ AppliedNeverAheadOfWal'
  BY <1>1 DEF WatermarkIsKept, Anchored, AppliedNeverAheadOfWal
<1> QED  BY <1>2, <1>3

LEMMA StampCrash ==
  ASSUME WritesComeThrough, TypeInv, StampInv, Crash
  PROVE  StampInv'
<1>1. PICK lost \in SUBSET unsynced :
        /\ wal' = wal \ lost
        /\ torn' \in {torn} \cup
             (IF TornWrites /\ (stage = "assigned" \/ lost # {}) THEN {TRUE} ELSE {})
  BY Zenon DEF Crash
<1>2. wal \ unsynced \subseteq wal' /\ torn' = FALSE
  BY <1>1 DEF WritesComeThrough, StampInv
<1>3. Halt /\ unsynced' = {} /\ UNCHANGED <<disk, faults>> /\ faults \in Nat
  BY ConstantsAssumption DEF Crash, TypeInv, TypeOK
<1> QED  BY <1>2, <1>3, StampHalt

LEMMA StampStop ==
  ASSUME TypeInv, StampInv, Stop
  PROVE  StampInv'
<1>1. up /\ queue = <<>> /\ Halt /\ UNCHANGED <<wal, unsynced, torn, disk, faults>>
  BY DEF Stop
<1>2. unsynced = {} /\ torn = FALSE
  BY <1>1 DEF StampInv, InStep
<1>3. faults \in Nat
  BY ConstantsAssumption DEF TypeInv, TypeOK
<1> QED  BY <1>1, <1>2, <1>3, StampHalt

\* The number a replay is stamped with is one the log reaches.
LEMMA ReplayedIsAnchored ==
  ASSUME TypeInv, StampInv, NEW s \in Sessions
  PROVE  Replayed(s).applied = 0 \/ \E e \in wal : Replayed(s).applied <= e.seq
<1> DEFINE tail == Unabsorbed(s, wal)
<1>1. CASE tail = {}
  BY <1>1 DEF Replayed, ReplayedFrom, StampInv, Anchored
<1>2. CASE tail # {}
  <2>1. tail \subseteq wal /\ tail \subseteq Entry /\ Bounded(tail)
    BY PartIsBounded DEF TypeInv, TypeOK, Unabsorbed, Of
  <2>2. Replayed(s).applied = HighestSeq(tail)
    BY <1>2 DEF Replayed, ReplayedFrom
  <2> HIDE DEF tail
  <2>3. HighestSeq(tail) \in Nat /\ (HighestSeq(tail) = 0 \/ \E e \in tail : e.seq = HighestSeq(tail))
    BY <2>1, HighestSeqIsHighest
  <2> QED  BY <2>1, <2>2, <2>3
<1> QED  BY <1>1, <1>2

LEMMA StampResaveSnapshot ==
  ASSUME TypeInv, StampInv, NEW s \in Sessions, ResaveSnapshot(s)
  PROVE  StampInv'
<1> USE DEF StampInv
<1>1. /\ ~up /\ disk' = [disk EXCEPT ![s] = Replayed(s)]
      /\ UNCHANGED <<up, stage, queue, counter, lastDurable, wal, unsynced, torn, memApplied,
                     attempt, faults>>
  BY DEF ResaveSnapshot
<1>2. unsynced = {} /\ stage = "idle"
  BY <1>1 DEF InStep, TypeInv, StageNumbered
<1>3. torn' = FALSE /\ RetriesAreFaults' /\ InStep' /\ RenamedIsStamped'
  BY <1>1, <1>2 DEF RetriesAreFaults, InStep, RenamedIsStamped
<1>4. WatermarkIsKept' /\ LandedIsNumbered' /\ AppliedNeverAheadOfWal'
  BY <1>1, <1>2 DEF WatermarkIsKept, LandedIsNumbered, AppliedNeverAheadOfWal
<1>5. Anchored'
  <2>1. \A t \in Sessions : disk'[t] = IF t = s THEN Replayed(s) ELSE disk[t]
    BY <1>1 DEF TypeInv, TypeOK
  <2>2. Replayed(s).applied = 0 \/ \E e \in wal : Replayed(s).applied <= e.seq
    BY ReplayedIsAnchored
  <2>3. ASSUME NEW t \in Sessions
        PROVE  disk'[t].applied = 0 \/ \E e \in wal : disk'[t].applied <= e.seq
    <3>1. CASE t = s
      BY <2>1, <2>2, <3>1
    <3>2. CASE t # s
      BY <2>1, <3>2 DEF Anchored
    <3> QED  BY <3>1, <3>2
  <2> QED  BY <1>1, <1>2, <2>3 DEF Anchored
<1> QED  BY <1>3, <1>4, <1>5

\* A restart resumes from the highest number in the log, which no replayed
\* snapshot is ahead of.
LEMMA StampRestart ==
  ASSUME TypeInv, StampInv, Restart
  PROVE  StampInv'
<1> USE DEF StampInv
<1>1. /\ ~up /\ counter' = HighestSeq(wal) /\ lastDurable' = counter'
      /\ disk' = [s \in Sessions |-> Replayed(s)]
      /\ UNCHANGED <<queue, stage, attempt, wal, unsynced, torn, faults>>
  BY DEF Restart
<1>2. \A s \in Sessions : memApplied'[s] \in {0, Replayed(s).applied}
  BY DEF Restart
<1>3. unsynced = {} /\ stage = "idle"
  BY <1>1 DEF InStep, TypeInv, StageNumbered
<1>4. wal \subseteq Entry /\ Bounded(wal)
  BY DEF TypeInv, TypeOK
<1>5. /\ HighestSeq(wal) \in Nat
      /\ \A e \in wal : e.seq \in Nat /\ e.seq <= HighestSeq(wal)
      /\ HighestSeq(wal) = 0 \/ \E e \in wal : e.seq = HighestSeq(wal)
  BY <1>4, HighestSeqIsHighest DEF Entry
<1>6. \A s \in Sessions : /\ Replayed(s).applied \in Nat
                          /\ Replayed(s).applied <= HighestSeq(wal)
  <2> SUFFICES ASSUME NEW s \in Sessions
               PROVE  Replayed(s).applied \in Nat /\ Replayed(s).applied <= HighestSeq(wal)
    OBVIOUS
  <2>1. Replayed(s).applied \in Nat
    BY ReplayedType DEF Snapshot
  <2>2. Replayed(s).applied = 0 \/ \E e \in wal : Replayed(s).applied <= e.seq
    BY ReplayedIsAnchored
  <2> QED  BY <1>5, <2>1, <2>2
<1>7. torn' = FALSE /\ RetriesAreFaults' /\ InStep' /\ RenamedIsStamped' /\ LandedIsNumbered'
  BY <1>1, <1>3, <1>5 DEF RetriesAreFaults, InStep, RenamedIsStamped, LandedIsNumbered
<1>8. WatermarkIsKept'
  BY <1>1, <1>3, <1>5 DEF WatermarkIsKept
<1>9. Anchored'
  BY <1>1, <1>3, ReplayedIsAnchored DEF Anchored
<1>10. AppliedNeverAheadOfWal'
  BY <1>1, <1>2, <1>6 DEF AppliedNeverAheadOfWal
<1> QED  BY <1>7, <1>8, <1>9, <1>10

LEMMA StampStep ==
  ASSUME WritesComeThrough, TypeInv, OrderInv, StampInv, [Next]_vars
  PROVE  StampInv'
<1>1. ASSUME NEW s \in Sessions, CloseJournal(s) PROVE StampInv'
  <2>1. SnapshotJob(s, mem[s]) \in Job
    BY DEF TypeInv, TypeOK, SnapshotJob, Job
  <2> QED  BY <1>1, <2>1, StampAppended DEF CloseJournal
<1>2. CASE RequestTruncate
  <2>1. PICK low \in Watermarks : queue' = Append(queue, TruncateJob(low + 1))
    BY <1>2 DEF RequestTruncate
  <2>2. TruncateJob(low + 1) \in Job
    BY DEF Watermarks, TypeInv, TypeOK, TruncateJob, Job
  <2> QED  BY <1>2, <2>1, <2>2, StampAppended DEF RequestTruncate
<1>3. CASE UNCHANGED vars
  BY <1>3, StampSame
<1>4. ASSUME NEW s \in Sessions, Mutate(s) \/ ResaveSnapshot(s) PROVE StampInv'
  BY <1>4, StampMutate, StampResaveSnapshot
<1>5. CASE WorkerStep
  BY <1>5, StampAssignSeq, StampLandLine, StampSyncLine, StampRenameSnapshot,
     StampPublishApplied, StampRewriteWal DEF WorkerStep
<1>6. CASE WriteFault \/ Crash \/ Stop \/ Restart
  BY <1>6, StampWriteFault, StampCrash, StampStop, StampRestart
<1> QED  BY <1>1, <1>2, <1>3, <1>4, <1>5, <1>6, Zenon DEF Next

\* No applied_seq, in memory or stored, is ahead of the durable WAL
\* (save_nowait's first criterion), with truncations as well, as long as no
\* write is given up and no line is torn.
THEOREM StampsAreDurable ==
  ASSUME WritesComeThrough
  PROVE  Spec => []AppliedNeverAheadOfWal
<1>1. StampInv => AppliedNeverAheadOfWal
  BY DEF StampInv
<1>2. TypeInv /\ OrderInv /\ StampInv /\ [Next]_vars => StampInv'
  BY StampStep
<1>3. TypeInv /\ OrderInv /\ [Next]_vars => OrderInv'
  BY OrderStep
<1> QED
  BY TypeInit, TypeStep, OrderInit, StampInit, <1>1, <1>2, <1>3, PTL DEF Spec

----------------------------------------------------------------------------
(* PinnedTailSurvives, when every write comes through.  A floor is computed *)
(* from the numbers in memory while snapshot writes are queued and applied  *)
(* behind them; those numbers only grow until then, and a stored number     *)
(* covers the entries of the log, whether or not older ones were dropped.   *)

DownIsDrained == ~up => queue = <<>>

\* A stored snapshot has absorbed every entry of the log that its number claims.
EntriesAbsorbed ==
  \A e \in wal : e.seq <= disk[e.who].applied => e.mut \in disk[e.who].content

\* The session's memory has what is in the log and what is queued for it.
MemHolds ==
  /\ up => \A e \in wal : e.mut \in mem[e.who]
  /\ \A j \in 1..Len(queue) : queue[j].kind = "wal" => queue[j].mut \in mem[queue[j].who]

\* A queued capture has what is in the log and what is queued before it.
CaptureHolds ==
  \A i \in 1..Len(queue) : queue[i].kind = "snapshot" =>
    /\ \A e \in wal : e.who = queue[i].who => e.mut \in queue[i].content
    /\ \A j \in 1..Len(queue) :
         j < i /\ queue[j].kind = "wal" /\ queue[j].who = queue[i].who
           => queue[j].mut \in queue[i].content

\* A floor is at most one past every number in memory that pins it, and past
\* every number a capture can be given from now on.
IsPinned(f, assigned, numbers) ==
  /\ f <= assigned + 1
  /\ \A s \in Sessions : numbers[s] > 0 => f <= numbers[s] + 1

FloorsArePinned ==
  \A i \in 1..Len(queue) :
    queue[i].kind = "truncate" => IsPinned(queue[i].floor, counter, memApplied)

PinInv ==
  DownIsDrained /\ EntriesAbsorbed /\ MemHolds /\ CaptureHolds /\ FloorsArePinned

LEMMA PinInit == Init => PinInv
BY DEF Init, PinInv, DownIsDrained, EntriesAbsorbed, MemHolds, CaptureHolds, FloorsArePinned

\* The parts of a job a reader of the queue can rely on.
LEMMA JobFields ==
  ASSUME TypeOK, NEW i \in 1..Len(queue)
  PROVE  /\ queue[i].kind = "wal" => queue[i].who \in Sessions /\ queue[i].mut \in Mutation
         /\ queue[i].kind = "snapshot"
              => queue[i].who \in Sessions /\ queue[i].content \in SUBSET Mutation
         /\ queue[i].kind = "truncate" => queue[i].floor \in Nat
<1>1. queue[i] \in Job
  BY DEF TypeOK
<1> QED  BY <1>1 DEF Job

LEMMA LogFields ==
  ASSUME TypeOK, NEW e \in wal
  PROVE  e.seq \in Nat /\ e.who \in Sessions /\ e.mut \in Mutation
BY DEF TypeOK, Entry

\* A finished job: the others move up, and the log may have become shorter.
LEMMA PinJobDone ==
  ASSUME TypeInv, PinInv, queue # <<>>, JobDone, wal' \subseteq wal,
         UNCHANGED <<up, disk, mem>>,
         \A f \in Nat : IsPinned(f, counter, memApplied) => IsPinned(f, counter', memApplied')
  PROVE  PinInv'
<1> USE DEF PinInv
<1>1. /\ Len(queue) \in Nat /\ Len(queue') = Len(queue) - 1
      /\ \A i \in 1..Len(queue') : i + 1 \in 1..Len(queue) /\ queue'[i] = queue[i + 1]
  BY QueueShifted DEF TypeInv
<1>2. DownIsDrained' /\ EntriesAbsorbed'
  BY DEF DownIsDrained, EntriesAbsorbed
<1>3. MemHolds'
  <2>1. \A j \in 1..Len(queue') : queue'[j].kind = "wal" => queue'[j].mut \in mem[queue'[j].who]
    BY <1>1 DEF MemHolds
  <2> QED  BY <2>1 DEF MemHolds
<1>4. CaptureHolds'
  <2> SUFFICES ASSUME NEW i \in 1..Len(queue'), queue'[i].kind = "snapshot"
               PROVE  /\ \A e \in wal' : e.who = queue'[i].who => e.mut \in queue'[i].content
                      /\ \A j \in 1..Len(queue') :
                           j < i /\ queue'[j].kind = "wal" /\ queue'[j].who = queue'[i].who
                             => queue'[j].mut \in queue'[i].content
    BY DEF CaptureHolds
  <2>1. i + 1 \in 1..Len(queue) /\ queue'[i] = queue[i + 1]
    BY <1>1
  <2>2. \A e \in wal' : e.who = queue'[i].who => e.mut \in queue'[i].content
    BY <2>1 DEF CaptureHolds
  <2>3. ASSUME NEW j \in 1..Len(queue'), j < i, queue'[j].kind = "wal",
               queue'[j].who = queue'[i].who
        PROVE  queue'[j].mut \in queue'[i].content
    <3>1. j + 1 \in 1..Len(queue) /\ queue'[j] = queue[j + 1] /\ j + 1 < i + 1
      BY <1>1, <2>3
    <3> QED  BY <2>1, <2>3, <3>1 DEF CaptureHolds
  <2> QED  BY <2>2, <2>3
<1>5. FloorsArePinned'
  <2> SUFFICES ASSUME NEW i \in 1..Len(queue'), queue'[i].kind = "truncate"
               PROVE  IsPinned(queue'[i].floor, counter', memApplied')
    BY DEF FloorsArePinned
  <2>1. i + 1 \in 1..Len(queue) /\ queue'[i] = queue[i + 1]
    BY <1>1
  <2>2. queue[i + 1].floor \in Nat /\ IsPinned(queue[i + 1].floor, counter, memApplied)
    BY <2>1, JobFields DEF TypeInv, FloorsArePinned
  <2> QED  BY <2>1, <2>2
<1> QED  BY <1>2, <1>3, <1>4, <1>5

\* A job whose write goes on, or whose retry begins: the queue is as it was.
LEMMA PinSame ==
  ASSUME TypeInv, PinInv, wal' \subseteq wal, UNCHANGED <<up, queue, disk, mem, memApplied>>,
         counter' \in {counter, counter + 1}, counter \in Nat
  PROVE  PinInv'
<1> USE DEF PinInv
<1>1. DownIsDrained' /\ EntriesAbsorbed'
  BY DEF DownIsDrained, EntriesAbsorbed
<1>2. MemHolds' /\ CaptureHolds'
  BY DEF MemHolds, CaptureHolds
<1>3. FloorsArePinned'
  <2> SUFFICES ASSUME NEW i \in 1..Len(queue), queue[i].kind = "truncate"
               PROVE  IsPinned(queue[i].floor, counter', memApplied)
    BY DEF FloorsArePinned
  <2>1. IsPinned(queue[i].floor, counter, memApplied) /\ queue[i].floor \in Nat
    BY JobFields DEF FloorsArePinned, TypeInv
  <2> QED  BY <2>1 DEF IsPinned
<1> QED  BY <1>1, <1>2, <1>3

\* A job is added that is no WAL write: a capture that has everything queued, or
\* a floor that is pinned.
LEMMA PinAppended ==
  ASSUME TypeInv, PinInv, up, NEW job \in Job, queue' = Append(queue, job),
         UNCHANGED <<up, wal, disk, mem, memApplied, counter>>,
         job.kind # "wal",
         job.kind = "snapshot" => job.content = mem[job.who],
         job.kind = "truncate" => IsPinned(job.floor, counter, memApplied)
  PROVE  PinInv'
<1> USE DEF PinInv
<1>1. /\ Len(queue) \in Nat /\ Len(queue') = Len(queue) + 1
      /\ \A i \in 1..Len(queue) : queue'[i] = queue[i]
      /\ queue'[Len(queue) + 1] = job
  BY QueueAppended DEF TypeInv
<1>2. \A i \in 1..Len(queue') : i \in 1..Len(queue) \/ i = Len(queue) + 1
  BY <1>1
<1>3. DownIsDrained' /\ EntriesAbsorbed'
  BY DEF DownIsDrained, EntriesAbsorbed
<1>4. \A j \in 1..Len(queue') :
        queue'[j].kind = "wal" => j \in 1..Len(queue) /\ queue'[j] = queue[j]
  BY <1>1, <1>2
<1>5. MemHolds'
  BY <1>4 DEF MemHolds
<1>6. CaptureHolds'
  <2> SUFFICES ASSUME NEW i \in 1..Len(queue'), queue'[i].kind = "snapshot"
               PROVE  /\ \A e \in wal : e.who = queue'[i].who => e.mut \in queue'[i].content
                      /\ \A j \in 1..Len(queue') :
                           j < i /\ queue'[j].kind = "wal" /\ queue'[j].who = queue'[i].who
                             => queue'[j].mut \in queue'[i].content
    BY DEF CaptureHolds
  <2>1. CASE i \in 1..Len(queue)
    BY <1>1, <1>4, <2>1 DEF CaptureHolds
  <2>2. CASE i = Len(queue) + 1
    <3>1. queue'[i] = job /\ job.content = mem[job.who]
      BY <1>1, <2>2
    <3> QED  BY <1>4, <3>1 DEF MemHolds
  <2> QED  BY <1>2, <2>1, <2>2
<1>7. FloorsArePinned'
  BY <1>1, <1>2 DEF FloorsArePinned
<1> QED  BY <1>3, <1>5, <1>6, <1>7

\* A mutation: its WAL job, and the capture behind it when one is due.
LEMMA PinMutate ==
  ASSUME TypeInv, PinInv, NEW s \in Sessions, Mutate(s)
  PROVE  PinInv'
<1> USE DEF PinInv
<1> DEFINE n == Len(queue)
<1>1. /\ n \in Nat /\ Len(queue') = n + (IF SnapshotDue(s) THEN 2 ELSE 1)
      /\ \A i \in 1..n : queue'[i] = queue[i]
      /\ queue'[n + 1] = WalJob(s, issued')
      /\ SnapshotDue(s) => queue'[n + 2] = SnapshotJob(s, mem'[s])
  BY QueueExtended
<1>2. /\ up /\ UNCHANGED <<up, wal, disk, memApplied, counter>>
      /\ mem' = [mem EXCEPT ![s] = @ \cup {issued'}]
  BY DEF Mutate, Running
<1>3. /\ issued' \in mem'[s]
      /\ \A t \in Sessions : mem[t] \subseteq mem'[t]
  BY <1>2 DEF TypeInv, TypeOK
<1> HIDE DEF n
<1>4. \A i \in 1..Len(queue') : i \in 1..n \/ i = n + 1 \/ (i = n + 2 /\ SnapshotDue(s))
  BY <1>1
<1>5. queue'[n + 1].kind = "wal" /\ queue'[n + 1].who = s /\ queue'[n + 1].mut = issued'
  BY <1>1 DEF WalJob
<1>6. SnapshotDue(s) => /\ queue'[n + 2].kind = "snapshot" /\ queue'[n + 2].who = s
                        /\ queue'[n + 2].content = mem'[s]
  BY <1>1 DEF SnapshotJob
<1>7. DownIsDrained' /\ EntriesAbsorbed'
  BY <1>2 DEF DownIsDrained, EntriesAbsorbed
<1>8. MemHolds'
  <2>1. \A e \in wal' : e.mut \in mem'[e.who]
    BY <1>2, <1>3, LogFields DEF MemHolds, TypeInv
  <2>2. ASSUME NEW j \in 1..Len(queue'), queue'[j].kind = "wal"
        PROVE  queue'[j].mut \in mem'[queue'[j].who]
    <3>1. CASE j \in 1..n
      <4>1. queue'[j] = queue[j] /\ queue[j].who \in Sessions
        BY <1>1, <2>2, <3>1, JobFields DEF TypeInv, n
      <4> QED  BY <1>3, <2>2, <3>1, <4>1 DEF MemHolds, n
    <3>2. CASE j = n + 1
      BY <1>3, <1>5, <3>2
    <3>3. CASE j = n + 2 /\ SnapshotDue(s)
      BY <1>6, <2>2, <3>3
    <3> QED  BY <1>4, <3>1, <3>2, <3>3
  <2> QED  BY <2>1, <2>2 DEF MemHolds
<1>9. CaptureHolds'
  <2> SUFFICES ASSUME NEW i \in 1..Len(queue'), queue'[i].kind = "snapshot"
               PROVE  /\ \A e \in wal' : e.who = queue'[i].who => e.mut \in queue'[i].content
                      /\ \A j \in 1..Len(queue') :
                           j < i /\ queue'[j].kind = "wal" /\ queue'[j].who = queue'[i].who
                             => queue'[j].mut \in queue'[i].content
    BY DEF CaptureHolds
  <2>1. CASE i \in 1..n
    <3>1. queue'[i] = queue[i] /\ \A j \in 1..Len(queue') : j < i => j \in 1..n
      BY <1>1, <2>1
    <3> QED  BY <1>1, <1>2, <2>1, <3>1 DEF CaptureHolds, n
  <2>2. CASE i = n + 2 /\ SnapshotDue(s)
    BY <1>2, <1>6, <1>8, <2>2 DEF MemHolds
  <2> QED  BY <1>4, <1>5, <2>1, <2>2
<1>10. FloorsArePinned'
  <2> SUFFICES ASSUME NEW i \in 1..Len(queue'), queue'[i].kind = "truncate"
               PROVE  i \in 1..n
    BY <1>1, <1>2 DEF FloorsArePinned, n
  <2> QED  BY <1>4, <1>5, <1>6
<1> QED  BY <1>7, <1>8, <1>9, <1>10

\* A line lands above every stored number, and every capture behind it has it.
LEMMA PinLandLine ==
  ASSUME TypeInv, OrderInv, StampInv, PinInv, LandLine
  PROVE  PinInv'
<1> USE DEF PinInv
<1>1. /\ up /\ queue # <<>> /\ Head(queue).kind = "wal" /\ stage = "assigned"
      /\ wal' = wal \cup {HeadEntry}
      /\ UNCHANGED <<up, queue, disk, mem, memApplied, counter>>
  BY DEF LandLine, HeadIs, StampInv
<1>2. /\ Len(queue) \in Nat /\ 1 \in 1..Len(queue) /\ queue[1] = Head(queue)
      /\ Head(queue).who \in Sessions
      /\ \A i \in 1..Len(queue) : i = 1 \/ 1 < i
  BY <1>1, QueueParts DEF TypeInv, TypeOK, Job
<1>3. /\ HeadEntry.seq = counter /\ HeadEntry.who = Head(queue).who
      /\ HeadEntry.mut = Head(queue).mut
  BY DEF HeadEntry
<1>4. disk[Head(queue).who].applied < counter
  <2>1. disk[Head(queue).who].applied <= lastDurable
    BY <1>1, <1>2 DEF StampInv, AppliedNeverAheadOfWal
  <2>2. counter \in Nat \ {0} /\ lastDurable \in Nat /\ disk[Head(queue).who].applied \in Nat
    BY <1>1, <1>2 DEF TypeInv, TypeOK, StageNumbered, Snapshot
  <2>3. lastDurable = 0 \/ \E e \in wal : lastDurable <= e.seq
    BY <1>1 DEF StampInv, WatermarkIsKept
  <2>4. \A e \in wal : e.seq \in Nat /\ e.seq < counter
    BY <1>1, LogFields DEF OrderInv, CounterLeads, History, TypeInv
  <2> QED  BY <2>1, <2>2, <2>3, <2>4
<1>5. EntriesAbsorbed'
  <2>1. disk[Head(queue).who].applied \in Nat /\ counter \in Nat
    BY <1>2 DEF TypeInv, TypeOK, Snapshot
  <2>2. ~(HeadEntry.seq <= disk[HeadEntry.who].applied)
    BY <1>3, <1>4, <2>1
  <2> QED  BY <1>1, <2>2 DEF EntriesAbsorbed
<1>6. MemHolds'
  BY <1>1, <1>2, <1>3 DEF MemHolds
<1>7. CaptureHolds'
  <2> SUFFICES ASSUME NEW i \in 1..Len(queue), queue[i].kind = "snapshot"
               PROVE  \A e \in wal' : e.who = queue[i].who => e.mut \in queue[i].content
    BY <1>1 DEF CaptureHolds
  <2>1. 1 < i
    BY <1>1, <1>2
  <2>2. HeadEntry.who = queue[i].who => HeadEntry.mut \in queue[i].content
    BY <1>1, <1>2, <1>3, <2>1 DEF CaptureHolds
  <2> QED  BY <1>1, <2>2 DEF CaptureHolds
<1>8. DownIsDrained' /\ FloorsArePinned'
  BY <1>1 DEF DownIsDrained, FloorsArePinned
<1> QED  BY <1>5, <1>6, <1>7, <1>8

\* A snapshot is stored: the log holds nothing of the session that it has not.
LEMMA PinRenameSnapshot ==
  ASSUME TypeInv, PinInv, RenameSnapshot
  PROVE  PinInv'
<1> USE DEF PinInv
<1> DEFINE who == Head(queue).who
<1>1. /\ up /\ queue # <<>> /\ Head(queue).kind = "snapshot"
      /\ disk' = [disk EXCEPT ![who] = [content |-> Head(queue).content, applied |-> counter]]
      /\ UNCHANGED <<up, queue, wal, mem, memApplied, counter>>
  BY DEF RenameSnapshot, HeadIs
<1>2. 1 \in 1..Len(queue) /\ queue[1] = Head(queue) /\ who \in Sessions
  BY <1>1, QueueParts DEF TypeInv, TypeOK, Job
<1>3. /\ disk'[who].content = Head(queue).content
      /\ \A s \in Sessions : s # who => disk'[s] = disk[s]
  BY <1>1, <1>2 DEF TypeInv, TypeOK
<1> HIDE DEF who
<1>4. EntriesAbsorbed'
  <2> SUFFICES ASSUME NEW e \in wal, e.seq <= disk'[e.who].applied
               PROVE  e.mut \in disk'[e.who].content
    BY <1>1 DEF EntriesAbsorbed
  <2>1. CASE e.who = who
    BY <1>1, <1>2, <1>3, <2>1 DEF CaptureHolds, who
  <2>2. CASE e.who # who
    <3>1. disk'[e.who] = disk[e.who]
      BY <1>3, <2>2, LogFields DEF TypeInv
    <3> QED  BY <3>1 DEF EntriesAbsorbed
  <2> QED  BY <2>1, <2>2
<1>5. MemHolds' /\ CaptureHolds'
  BY <1>1 DEF MemHolds, CaptureHolds
<1>6. DownIsDrained' /\ FloorsArePinned'
  BY <1>1 DEF DownIsDrained, FloorsArePinned
<1> QED  BY <1>4, <1>5, <1>6

\* Process death leaves no queue, and of the log a part.
LEMMA PinHalt ==
  ASSUME PinInv, Halt, wal' \subseteq wal, UNCHANGED disk
  PROVE  PinInv'
<1>1. ~up' /\ queue' = <<>>
  BY DEF Halt
<1> QED
  BY <1>1
  DEF PinInv, DownIsDrained, EntriesAbsorbed, MemHolds, CaptureHolds, FloorsArePinned

\* What a restart reads has every entry the log still holds.
LEMMA ReplayHasTheLog ==
  ASSUME TypeInv, PinInv, NEW e \in wal
  PROVE  e.mut \in Replayed(e.who).content
<1>1. disk[e.who].applied \in Nat /\ e.seq \in Nat
  BY LogFields DEF TypeInv, TypeOK, Snapshot
<1>2. CASE e.seq <= disk[e.who].applied
  BY <1>2 DEF PinInv, EntriesAbsorbed, Replayed, ReplayedFrom
<1>3. CASE e.seq > disk[e.who].applied
  <2>1. e.mut \in Muts(Unabsorbed(e.who, wal))
    BY <1>3 DEF Unabsorbed, Of, Muts
  <2> QED  BY <2>1 DEF Replayed, ReplayedFrom
<1> QED  BY <1>1, <1>2, <1>3

LEMMA PinResaveSnapshot ==
  ASSUME TypeInv, PinInv, NEW s \in Sessions, ResaveSnapshot(s)
  PROVE  PinInv'
<1> USE DEF PinInv
<1>1. /\ disk' = [disk EXCEPT ![s] = Replayed(s)]
      /\ UNCHANGED <<up, queue, wal, mem, memApplied, counter>>
  BY DEF ResaveSnapshot
<1>2. \A t \in Sessions : disk'[t] = IF t = s THEN Replayed(s) ELSE disk[t]
  BY <1>1 DEF TypeInv, TypeOK
<1>3. EntriesAbsorbed'
  <2> SUFFICES ASSUME NEW e \in wal, e.seq <= disk'[e.who].applied
               PROVE  e.mut \in disk'[e.who].content
    BY <1>1 DEF EntriesAbsorbed
  <2>1. CASE e.who = s
    BY <1>2, <2>1, ReplayHasTheLog
  <2>2. CASE e.who # s
    <3>1. disk'[e.who] = disk[e.who]
      BY <1>2, <2>2, LogFields DEF TypeInv
    <3> QED  BY <3>1 DEF EntriesAbsorbed
  <2> QED  BY <2>1, <2>2
<1>4. DownIsDrained' /\ MemHolds' /\ CaptureHolds' /\ FloorsArePinned'
  BY <1>1 DEF DownIsDrained, MemHolds, CaptureHolds, FloorsArePinned
<1> QED  BY <1>3, <1>4

LEMMA PinRestart ==
  ASSUME TypeInv, PinInv, Restart
  PROVE  PinInv'
<1>1. /\ disk' = [s \in Sessions |-> Replayed(s)]
      /\ mem' = [s \in Sessions |-> Replayed(s).content]
      /\ UNCHANGED <<queue, wal>> /\ up' /\ queue = <<>>
  BY DEF Restart, PinInv, DownIsDrained
<1>2. \A e \in wal : e.who \in Sessions /\ e.mut \in Replayed(e.who).content
  BY ReplayHasTheLog, LogFields DEF TypeInv
<1>3. EntriesAbsorbed' /\ MemHolds'
  BY <1>1, <1>2 DEF EntriesAbsorbed, MemHolds
<1>4. DownIsDrained' /\ CaptureHolds' /\ FloorsArePinned'
  BY <1>1 DEF DownIsDrained, CaptureHolds, FloorsArePinned
<1> QED  BY <1>3, <1>4 DEF PinInv

\* The floor is asked for one past the lowest number that pins it.
LEMMA PinRequestTruncate ==
  ASSUME TypeInv, StampInv, PinInv, RequestTruncate
  PROVE  PinInv'
<1>1. PICK low \in Watermarks :
        /\ \A w \in Watermarks : low <= w
        /\ queue' = Append(queue, TruncateJob(low + 1))
  BY DEF RequestTruncate
<1>2. up /\ UNCHANGED <<up, wal, disk, mem, memApplied, counter>>
  BY DEF RequestTruncate, Running
<1>3. /\ \A s \in Sessions : memApplied[s] \in Nat
      /\ counter \in Nat /\ lastDurable \in Nat
      /\ \A s \in Sessions : disk[s].applied \in Nat
  BY DEF TypeInv, TypeOK, Snapshot
<1>4. PICK t \in Sessions : low = memApplied[t]
  BY <1>1 DEF Watermarks
<1>5. memApplied[t] <= disk[t].applied /\ disk[t].applied <= lastDurable /\ lastDurable <= counter
  BY <1>2 DEF StampInv, AppliedNeverAheadOfWal, InStep
<1>6. IsPinned(low + 1, counter, memApplied)
  <2>1. \A s \in Sessions : memApplied[s] > 0 => low <= memApplied[s]
    BY <1>1 DEF Watermarks
  <2>2. low \in Nat /\ low <= counter
    BY <1>3, <1>4, <1>5
  <2> QED  BY <1>3, <2>1, <2>2 DEF IsPinned
<1>7. /\ TruncateJob(low + 1) \in Job /\ TruncateJob(low + 1).kind = "truncate"
      /\ TruncateJob(low + 1).floor = low + 1
  BY <1>3, <1>4 DEF TruncateJob, Job
<1> QED  BY <1>1, <1>2, <1>6, <1>7, PinAppended

\* The number that is published is not below any floor that is queued.
LEMMA PinPublishApplied ==
  ASSUME TypeInv, PinInv, PublishApplied
  PROVE  PinInv'
<1>1. /\ queue # <<>> /\ JobDone
      /\ memApplied' = [memApplied EXCEPT ![Head(queue).who] = counter]
      /\ UNCHANGED <<up, counter, wal, disk, mem>>
  BY DEF PublishApplied, HeadIs
<1>2. \A s \in Sessions : memApplied'[s] \in {memApplied[s], counter}
  BY <1>1 DEF TypeInv, TypeOK
<1>3. \A f \in Nat : IsPinned(f, counter, memApplied) => IsPinned(f, counter', memApplied')
  BY <1>1, <1>2 DEF IsPinned
<1> QED  BY <1>1, <1>3, PinJobDone

LEMMA PinStep ==
  ASSUME TypeInv, OrderInv, StampInv, PinInv, [Next]_vars
  PROVE  PinInv'
<1>1. ASSUME NEW s \in Sessions, CloseJournal(s) PROVE PinInv'
  <2>1. /\ SnapshotJob(s, mem[s]) \in Job /\ SnapshotJob(s, mem[s]).kind = "snapshot"
        /\ SnapshotJob(s, mem[s]).content = mem[s] /\ SnapshotJob(s, mem[s]).who = s
    BY DEF TypeInv, TypeOK, SnapshotJob, Job
  <2> QED  BY <1>1, <2>1, PinAppended DEF CloseJournal
<1>2. ASSUME NEW s \in Sessions, Mutate(s) \/ ResaveSnapshot(s) PROVE PinInv'
  BY <1>2, PinMutate, PinResaveSnapshot
<1>3. CASE AssignSeq \/ UNCHANGED vars
  <2>1. counter \in Nat
    BY DEF TypeInv, TypeOK
  <2> QED  BY <1>3, <2>1, PinSame DEF AssignSeq
<1>4. CASE SyncLine \/ RewriteWal
  <2>1. wal' \subseteq wal
    BY <1>4 DEF SyncLine, RewriteWal, Survivors
  <2>2. queue # <<>> /\ JobDone /\ UNCHANGED <<up, disk, mem, counter, memApplied>>
    BY <1>4 DEF SyncLine, RewriteWal, HeadIs
  <2> QED  BY <2>1, <2>2, PinJobDone
<1>5. CASE LandLine \/ RenameSnapshot \/ PublishApplied
  BY <1>5, PinLandLine, PinRenameSnapshot, PinPublishApplied
<1>6. CASE RequestTruncate
  BY <1>6, PinRequestTruncate
<1>7. CASE WriteFault
  <2>1. queue # <<>> /\ UNCHANGED <<up, counter, wal, disk, mem, memApplied>> /\ counter \in Nat
    BY <1>7 DEF WriteFault, TypeInv, TypeOK
  <2>2. UNCHANGED queue \/ JobDone
    BY <1>7 DEF WriteFault
  <2> QED  BY <2>1, <2>2, PinSame, PinJobDone
<1>8. CASE Crash
  <2>1. PICK lost \in SUBSET unsynced : wal' = wal \ lost
    BY <1>8, Zenon DEF Crash
  <2> QED  BY <1>8, <2>1, PinHalt DEF Crash
<1>9. CASE Stop \/ Restart
  BY <1>9, PinHalt, PinRestart DEF Stop
<1> QED
  BY <1>1, <1>2, <1>3, <1>4, <1>5, <1>6, <1>7, <1>8, <1>9, Zenon DEF Next, WorkerStep

\* What a rewrite drops is below the floor, so below the number in memory, so
\* below the stored number: absorbed.
LEMMA DroppedIsAbsorbed ==
  ASSUME TypeInv, StampInv, PinInv, [Next]_vars, NEW e \in dropped' \ dropped,
         memApplied[e.who] > 0
  PROVE  e.mut \in disk[e.who].content
<1>1. CASE RewriteWal
  <2>1. /\ up /\ queue # <<>> /\ Head(queue).kind = "truncate"
        /\ e \in wal /\ e \notin Survivors(Head(queue).floor)
    BY <1>1 DEF RewriteWal, HeadIs
  <2>2. 1 \in 1..Len(queue) /\ queue[1] = Head(queue)
    BY <2>1 DEF TypeInv, TypeOK
  <2>3. Head(queue).floor \in Nat /\ IsPinned(Head(queue).floor, counter, memApplied)
    BY <2>1, <2>2, JobFields DEF TypeInv, PinInv, FloorsArePinned
  <2>4. /\ e.seq \in Nat /\ e.who \in Sessions
        /\ memApplied[e.who] \in Nat /\ disk[e.who].applied \in Nat
    BY <2>1, LogFields DEF TypeInv, TypeOK, Snapshot
  <2>5. e.seq < Head(queue).floor
    BY <2>1, <2>3, <2>4 DEF Survivors
  <2>6. Head(queue).floor <= memApplied[e.who] + 1
    BY <2>3, <2>4 DEF IsPinned
  <2>7. memApplied[e.who] <= disk[e.who].applied
    BY <2>1, <2>4 DEF StampInv, AppliedNeverAheadOfWal
  <2>8. e.seq <= disk[e.who].applied
    BY <2>3, <2>4, <2>5, <2>6, <2>7
  <2> QED  BY <2>1, <2>8 DEF PinInv, EntriesAbsorbed
<1>2. CASE ~RewriteWal
  <2>1. ASSUME NEW s \in Sessions, Mutate(s) \/ CloseJournal(s) \/ ResaveSnapshot(s)
        PROVE  FALSE
    BY <2>1 DEF Mutate, CloseJournal, ResaveSnapshot
  <2>2. CASE WorkerStep
    BY <1>2, <2>2
    DEF WorkerStep, AssignSeq, LandLine, SyncLine, RenameSnapshot, PublishApplied
  <2>3. CASE RequestTruncate \/ WriteFault \/ Stop \/ Restart \/ UNCHANGED vars
    BY <2>3 DEF RequestTruncate, WriteFault, Stop, Restart
  <2>4. CASE Crash
    BY <2>4, Zenon DEF Crash
  <2> QED  BY <2>1, <2>2, <2>3, <2>4, Zenon DEF Next
<1> QED  BY <1>1, <1>2

\* truncate_wal_if_eligible: of a session whose number in memory is not 0 a
\* truncation drops only what its stored snapshot has absorbed, whatever was
\* written, published or restarted between the request and the rewrite, as long
\* as every write comes through.
THEOREM PinnedTailIsKept ==
  ASSUME WritesComeThrough
  PROVE  Spec => PinnedTailSurvives
<1>1. TypeInv /\ OrderInv /\ StampInv /\ PinInv /\ [Next]_vars
        => [ \A e \in dropped' \ dropped :
               memApplied[e.who] > 0 => e.mut \in disk[e.who].content ]_vars
  BY DroppedIsAbsorbed
<1>2. TypeInv /\ OrderInv /\ [Next]_vars => OrderInv'
  BY OrderStep
<1>3. TypeInv /\ OrderInv /\ StampInv /\ [Next]_vars => StampInv'
  BY StampStep
<1>4. TypeInv /\ OrderInv /\ StampInv /\ PinInv /\ [Next]_vars => PinInv'
  BY PinStep
<1> QED
  BY TypeInit, TypeStep, OrderInit, StampInit, PinInit, <1>1, <1>2, <1>3, <1>4, PTL
  DEF Spec, PinnedTailSurvives

----------------------------------------------------------------------------
(* CleanExitLeavesNoTail.  The final snapshot of a closed session is behind *)
(* its last WAL write in the queue, until it is stored; then its number     *)
(* covers the session's log, to which nothing is added any more.            *)

LastSnapshotIsQueued(s) ==
  \E i \in 1..Len(queue) :
    /\ queue[i].kind = "snapshot" /\ queue[i].who = s
    /\ \A j \in 1..Len(queue) : i < j => queue[j].kind # "wal"

LogIsCovered(s) ==
  /\ \A i \in 1..Len(queue) : queue[i].kind # "wal" \/ queue[i].who # s
  /\ \A e \in Of(s, wal) : e.seq <= disk[s].applied

ClosedIsCovered == \A s \in closed : LastSnapshotIsQueued(s) \/ LogIsCovered(s)

DownIsOpen == ~up => closed = {}

ExitInv == TypeInv /\ OrderInv /\ StampInv /\ ExactInv /\ DownIsOpen /\ ClosedIsCovered

LEMMA CoveredCloseJournal ==
  ASSUME ExitInv, NEW r \in Sessions, CloseJournal(r)
  PROVE  ClosedIsCovered'
<1>1. SnapshotJob(r, mem[r]) \in Job /\ SnapshotJob(r, mem[r]).kind = "snapshot"
      /\ SnapshotJob(r, mem[r]).who = r
  BY DEF ExitInv, TypeInv, TypeOK, SnapshotJob, Job
<1>2. /\ Len(queue) \in Nat /\ Len(queue') = Len(queue) + 1
      /\ \A i \in 1..Len(queue) : queue'[i] = queue[i]
      /\ queue'[Len(queue) + 1] = SnapshotJob(r, mem[r])
  BY <1>1, QueueAppended DEF CloseJournal, ExitInv, TypeInv
<1>3. closed' = closed \cup {r} /\ UNCHANGED <<wal, disk>>
  BY DEF CloseJournal
<1>4. LastSnapshotIsQueued(r)'
  BY <1>1, <1>2 DEF LastSnapshotIsQueued
<1>5. ASSUME NEW s \in closed
      PROVE  LastSnapshotIsQueued(s)' \/ LogIsCovered(s)'
  <2>1. CASE LastSnapshotIsQueued(s)
    <3>1. PICK i \in 1..Len(queue) :
            /\ queue[i].kind = "snapshot" /\ queue[i].who = s
            /\ \A j \in 1..Len(queue) : i < j => queue[j].kind # "wal"
      BY <2>1 DEF LastSnapshotIsQueued
    <3>2. i \in 1..Len(queue') /\ \A j \in 1..Len(queue') : i < j => queue'[j].kind # "wal"
      BY <1>1, <1>2, <3>1
    <3> QED  BY <1>2, <3>1, <3>2 DEF LastSnapshotIsQueued
  <2>2. CASE LogIsCovered(s)
    <3>1. \A i \in 1..Len(queue') : queue'[i].kind # "wal" \/ queue'[i].who # s
      BY <1>1, <1>2, <2>2 DEF LogIsCovered
    <3> QED  BY <1>3, <2>2, <3>1 DEF LogIsCovered, Of
  <2> QED  BY <1>5, <2>1, <2>2 DEF ExitInv, ClosedIsCovered
<1> QED  BY <1>3, <1>4, <1>5 DEF ClosedIsCovered

\* The head of the queue is done; if it was a final snapshot, it is stored.
LEMMA CoveredJobDone ==
  ASSUME ExitInv, queue # <<>>, JobDone, UNCHANGED <<closed, wal, disk>>,
         Head(queue).kind = "snapshot" =>
           up /\ disk[Head(queue).who].applied = counter
  PROVE  ClosedIsCovered'
<1>1. /\ Len(queue) \in Nat /\ Len(queue) >= 1 /\ Len(queue') = Len(queue) - 1
      /\ \A i \in 1..Len(queue') : i + 1 \in 1..Len(queue) /\ queue'[i] = queue[i + 1]
      /\ queue[1] = Head(queue)
  BY QueueShifted DEF ExitInv, TypeInv
<1> SUFFICES ASSUME NEW s \in closed PROVE LastSnapshotIsQueued(s)' \/ LogIsCovered(s)'
  BY DEF ClosedIsCovered
<1>2. CASE LogIsCovered(s)
  BY <1>1, <1>2 DEF LogIsCovered, Of
<1>3. CASE LastSnapshotIsQueued(s)
  <2>1. PICK i \in 1..Len(queue) :
          /\ queue[i].kind = "snapshot" /\ queue[i].who = s
          /\ \A j \in 1..Len(queue) : i < j => queue[j].kind # "wal"
    BY <1>3 DEF LastSnapshotIsQueued
  <2>2. CASE i = 1
    <3>1. up /\ disk[s].applied = counter
      BY <1>1, <2>1, <2>2
    <3>2. \A e \in Of(s, wal) : e.seq <= disk[s].applied
      BY <3>1 DEF ExitInv, ExactInv, CounterAhead, Of
    <3>3. \A j \in 1..Len(queue') : queue'[j].kind # "wal"
      BY <1>1, <2>1, <2>2
    <3> QED  BY <3>2, <3>3 DEF LogIsCovered, Of
  <2>3. CASE i # 1
    <3>1. i - 1 \in 1..Len(queue') /\ queue'[i - 1] = queue[i]
      BY <1>1, <2>3
    <3>2. \A j \in 1..Len(queue') : i - 1 < j => queue'[j].kind # "wal"
      BY <1>1, <2>1
    <3> QED  BY <2>1, <3>1, <3>2 DEF LastSnapshotIsQueued
  <2> QED  BY <2>2, <2>3
<1> QED  BY <1>2, <1>3 DEF ExitInv, ClosedIsCovered

\* Neither the queue nor the log changes, and no stored number goes down.
LEMMA CoveredSame ==
  ASSUME ExitInv, UNCHANGED <<closed, queue, wal>>,
         \A s \in Sessions : disk'[s].applied \in Nat /\ disk[s].applied <= disk'[s].applied
  PROVE  ClosedIsCovered'
<1>1. /\ \A s \in Sessions : disk[s].applied \in Nat
      /\ \A e \in wal : e.seq \in Nat
  BY DEF ExitInv, TypeInv, TypeOK, Snapshot, Entry
<1> SUFFICES ASSUME NEW s \in closed PROVE LastSnapshotIsQueued(s)' \/ LogIsCovered(s)'
  BY DEF ClosedIsCovered
<1>2. s \in Sessions
  BY DEF ExitInv, TypeInv, TypeOK
<1>3. CASE LastSnapshotIsQueued(s)
  BY <1>3 DEF LastSnapshotIsQueued
<1>4. CASE LogIsCovered(s)
  <2>1. \A e \in Of(s, wal) : e.seq <= disk'[s].applied
    BY <1>1, <1>2, <1>4 DEF LogIsCovered, Of
  <2> QED  BY <1>4, <2>1 DEF LogIsCovered, Of
<1> QED  BY <1>3, <1>4 DEF ExitInv, ClosedIsCovered

\* A line of a closed session that lands has its final snapshot behind it.
LEMMA CoveredLandLine ==
  ASSUME ExitInv, LandLine
  PROVE  ClosedIsCovered'
<1>1. /\ queue # <<>> /\ Head(queue).kind = "wal" /\ wal' = wal \cup {HeadEntry}
      /\ HeadEntry.who = Head(queue).who /\ UNCHANGED <<closed, queue, disk>>
  BY DEF LandLine, HeadIs, HeadEntry, ExitInv, StampInv
<1>2. 1 \in 1..Len(queue) /\ queue[1] = Head(queue)
  BY <1>1 DEF ExitInv, TypeInv, TypeOK
<1> SUFFICES ASSUME NEW s \in closed PROVE LastSnapshotIsQueued(s)' \/ LogIsCovered(s)'
  BY <1>1 DEF ClosedIsCovered
<1>3. CASE LastSnapshotIsQueued(s)
  BY <1>1, <1>3 DEF LastSnapshotIsQueued
<1>4. CASE LogIsCovered(s)
  <2>1. Of(s, wal') = Of(s, wal)
    BY <1>1, <1>2, <1>4 DEF LogIsCovered, Of
  <2> QED  BY <1>1, <1>4, <2>1 DEF LogIsCovered
<1> QED  BY <1>3, <1>4 DEF ExitInv, ClosedIsCovered

LEMMA CoveredStep ==
  ASSUME NoTruncation, WritesComeThrough, ExitInv, [Next]_vars
  PROVE  ClosedIsCovered'
<1>1. \A s \in Sessions : disk[s].applied \in Nat
  BY DEF ExitInv, TypeInv, TypeOK, Snapshot
<1>2. ASSUME closed' = {} PROVE ClosedIsCovered'
  BY <1>2 DEF ClosedIsCovered
<1>3. ASSUME UNCHANGED <<closed, queue, wal, disk>> PROVE ClosedIsCovered'
  <2>1. \A s \in Sessions :
          disk'[s].applied \in Nat /\ disk[s].applied <= disk'[s].applied
    BY <1>1, <1>3
  <2>2. UNCHANGED <<closed, queue, wal>>
    BY <1>3
  <2> QED  BY <2>1, <2>2, CoveredSame
<1>4. ASSUME NEW s \in Sessions, Mutate(s) \/ CloseJournal(s) \/ ResaveSnapshot(s)
      PROVE  ClosedIsCovered'
  <2>1. CASE CloseJournal(s)
    BY <2>1, CoveredCloseJournal
  <2>2. CASE Mutate(s)
    BY <1>2, <2>2 DEF Mutate, Running
  <2>3. CASE ResaveSnapshot(s)
    BY <1>2, <2>3 DEF ResaveSnapshot, ExitInv, DownIsOpen
  <2> QED  BY <1>4, <2>1, <2>2, <2>3
<1>5. CASE Crash \/ Stop \/ Restart
  BY <1>2, <1>5 DEF Crash, Stop, Halt, Restart, ExitInv, DownIsOpen
<1>6. CASE AssignSeq
  BY <1>3, <1>6 DEF AssignSeq
<1>7. CASE LandLine
  BY <1>7, CoveredLandLine
<1>8. CASE SyncLine
  BY <1>8, CoveredJobDone DEF SyncLine, HeadIs
<1>9. CASE RenameSnapshot
  <2> DEFINE who == Head(queue).who
  <2>1. /\ queue # <<>> /\ UNCHANGED <<closed, queue, wal>> /\ up
        /\ disk' = [disk EXCEPT ![who] = [content |-> Head(queue).content, applied |-> counter]]
    BY <1>9 DEF RenameSnapshot, HeadIs
  <2>2. counter \in Nat /\ \A s \in Sessions : disk[s].applied <= counter
    BY <2>1 DEF ExitInv, ExactInv, CounterAhead, TypeInv, TypeOK
  <2>3. \A s \in Sessions :
          disk'[s].applied = IF s = who THEN counter ELSE disk[s].applied
    BY <2>1 DEF ExitInv, TypeInv, TypeOK
  <2> HIDE DEF who
  <2> QED  BY <1>1, <2>1, <2>2, <2>3, CoveredSame
<1>10. CASE PublishApplied
  BY <1>10, CoveredJobDone
  DEF PublishApplied, HeadIs, ExitInv, StampInv, RenamedIsStamped
<1>11. CASE WriteFault
  <2>1. attempt + 1 < MaxWriteAttempts
    BY <1>11, ConstantsAssumption
    DEF WriteFault, ExitInv, StampInv, RetriesAreFaults, WritesComeThrough, TypeInv, TypeOK
  <2> QED  BY <1>3, <1>11, <2>1 DEF WriteFault
<1>12. CASE UNCHANGED vars
  BY <1>3, <1>12
<1> QED
  BY <1>4, <1>5, <1>6, <1>7, <1>8, <1>9, <1>10, <1>11, <1>12, NoTruncateSteps, Zenon
  DEF Next, WorkerStep, ExitInv

LEMMA DownIsOpenStep == DownIsOpen /\ [Next]_vars => DownIsOpen'
<1> SUFFICES ASSUME DownIsOpen, [Next]_vars PROVE DownIsOpen'
  OBVIOUS
<1>1. ASSUME NEW s \in Sessions, Mutate(s) \/ CloseJournal(s) \/ ResaveSnapshot(s)
      PROVE  DownIsOpen'
  BY <1>1 DEF DownIsOpen, Mutate, CloseJournal, ResaveSnapshot
<1>2. CASE WorkerStep
  BY <1>2
  DEF DownIsOpen, WorkerStep, AssignSeq, LandLine, SyncLine, RenameSnapshot, PublishApplied,
      RewriteWal
<1>3. CASE RequestTruncate \/ WriteFault \/ Crash \/ Stop \/ Restart \/ UNCHANGED vars
  BY <1>3 DEF DownIsOpen, RequestTruncate, WriteFault, Crash, Stop, Halt, Restart
<1> QED  BY <1>1, <1>2, <1>3, Zenon DEF Next

\* A process that stops does so with an empty queue and every journal closed.
LEMMA StopLeavesNoTail ==
  ASSUME ExitInv, [Next]_vars, up, ~up', crashes' = crashes
  PROVE  \A s \in Sessions : /\ disk'[s].content = mem[s]
                             /\ {e \in Of(s, wal') : e.seq > disk'[s].applied} = {}
<1>1. Stop
  <2>1. ASSUME NEW s \in Sessions, Mutate(s) \/ CloseJournal(s) \/ ResaveSnapshot(s) PROVE FALSE
    BY <2>1 DEF Mutate, CloseJournal, ResaveSnapshot
  <2>2. CASE WorkerStep
    BY <2>2
    DEF WorkerStep, AssignSeq, LandLine, SyncLine, RenameSnapshot, PublishApplied, RewriteWal
  <2>3. CASE RequestTruncate \/ WriteFault \/ Restart \/ UNCHANGED vars
    BY <2>3 DEF RequestTruncate, WriteFault, Restart
  <2>4. ~Crash
    <3>1. Crash => crashes' = crashes + 1
      BY Zenon DEF Crash
    <3>2. crashes \in Nat
      BY ConstantsAssumption DEF ExitInv, TypeInv, TypeOK
    <3> QED  BY <3>1, <3>2
  <2> QED  BY <2>1, <2>2, <2>3, <2>4, Zenon DEF Next
<1>2. queue = <<>> /\ closed = Sessions /\ UNCHANGED <<wal, disk>>
  BY <1>1 DEF Stop
<1> SUFFICES ASSUME NEW s \in Sessions
             PROVE  /\ disk[s].content = mem[s]
                    /\ {e \in Of(s, wal) : e.seq > disk[s].applied} = {}
  BY <1>2
<1>3. \A e \in Of(s, wal) : e.seq <= disk[s].applied
  BY <1>2 DEF ExitInv, ClosedIsCovered, LastSnapshotIsQueued, LogIsCovered
<1>4. disk[s].applied \in Nat /\ \A e \in Of(s, wal) : e.seq \in Nat
  BY DEF ExitInv, TypeInv, TypeOK, Snapshot, Entry, Of
<1>5. LoggedUpTo(s, disk[s].applied) = Of(s, wal)
  BY <1>3 DEF LoggedUpTo
<1>6. mem[s] = Muts(Of(s, wal))
  <2>1. Ahead(queue, Len(queue) + 1, s) = {}
    BY <1>2 DEF Ahead
  <2> QED  BY <2>1 DEF ExitInv, ExactInv, MemExact
<1>7. disk[s].content = Muts(Of(s, wal))
  BY <1>5 DEF ExitInv, ExactInv, DiskExact
<1> QED  BY <1>3, <1>4, <1>6, <1>7

\* SnapshotJournal.close: after a shutdown that was not a crash there is no log
\* left to replay, and every stored snapshot is what the session had in memory,
\* as long as every write comes through and nothing is truncated.
THEOREM ShutdownLeavesNoTail ==
  ASSUME WritesComeThrough, NoTruncation
  PROVE  Spec => CleanExitLeavesNoTail
<1>1. Init => ExitInv
  <2>1. Init => DownIsOpen /\ ClosedIsCovered
    BY DEF Init, DownIsOpen, ClosedIsCovered
  <2> QED  BY <2>1, TypeInit, OrderInit, StampInit, ExactInit DEF ExitInv
<1>2. ExitInv /\ [Next]_vars => ExitInv'
  BY TypeStep, OrderStep, StampStep, ExactStep, DownIsOpenStep, CoveredStep DEF ExitInv
<1>3. ExitInv /\ [Next]_vars
        => [ (up /\ ~up' /\ crashes' = crashes /\ ~failed)
               => \A s \in Sessions : /\ disk'[s].content = mem[s]
                                      /\ {e \in Of(s, wal') : e.seq > disk'[s].applied} = {}
           ]_vars
  BY StopLeavesNoTail
<1> QED  BY <1>1, <1>2, <1>3, PTL DEF Spec, CleanExitLeavesNoTail

----------------------------------------------------------------------------
(* DurableState implements RecoverableLog, for every value of its          *)
(* constants with which every write comes through and nothing is           *)
(* truncated.  What the sessions hold is logged or queued, what is queued  *)
(* comes after what is logged (OrderInv), and what a crash may take back   *)
(* is still at the head of the queue; so whatever is left is a first part. *)

USE DEF vars, fileVars, journalVars, boundVars

\* What is written and not synced belongs to the job that is being run; a
\* retry may have left several such entries, all of one mutation.
UnsyncedIsHead ==
  \A e \in unsynced :
    queue # <<>> /\ Head(queue).kind = "wal" /\ e.mut = Head(queue).mut

PromiseInv == TypeInv /\ ExactInv /\ OrderInv /\ UnsyncedIsHead

Accepted == IF up THEN Live ELSE Found(wal)
Hardened == Found(wal \ unsynced)

Queued == {queue[i].mut : i \in {j \in 1..Len(queue) : queue[j].kind = "wal"}}

----------------------------------------------------------------------------
(* UnsyncedIsHead is an invariant.                                          *)

LEMMA HeadSame ==
  ASSUME UnsyncedIsHead, unsynced' \subseteq unsynced,
         queue # <<>> => queue' # <<>> /\ Head(queue') = Head(queue)
  PROVE  UnsyncedIsHead'
BY DEF UnsyncedIsHead

LEMMA HeadStep ==
  ASSUME WritesComeThrough, NoTruncation, PromiseInv, [Next]_vars
  PROVE  UnsyncedIsHead'
<1> USE DEF PromiseInv
<1>1. ASSUME NEW s \in Sessions, Mutate(s) PROVE UnsyncedIsHead'
  <2>1. issued' \in Mutation
    BY <1>1, ConstantsAssumption DEF Mutate, TypeInv, TypeOK, Mutation
  <2>2. mem'[s] \in SUBSET Mutation
    BY <1>1, <2>1 DEF Mutate, TypeInv, TypeOK
  <2>3. WalJob(s, issued') \in Job /\ SnapshotJob(s, mem'[s]) \in Job
    BY <2>1, <2>2 DEF WalJob, SnapshotJob, Job
  <2>4. JobsOf(s, issued', mem'[s]) \in Seq(Job)
    BY <2>3 DEF JobsOf
  <2>5. queue \in Seq(Job) /\ queue' = queue \o JobsOf(s, issued', mem'[s])
    BY <1>1 DEF Mutate, TypeInv, TypeOK
  <2>6. queue # <<>> => queue' # <<>> /\ Head(queue') = Head(queue)
    BY <2>4, <2>5, HeadStays
  <2> QED  BY <1>1, <2>6, HeadSame DEF Mutate
<1>2. ASSUME NEW s \in Sessions, CloseJournal(s) PROVE UnsyncedIsHead'
  <2>1. queue \in Seq(Job) /\ queue' = Append(queue, SnapshotJob(s, mem[s]))
    BY <1>2 DEF CloseJournal, TypeInv, TypeOK
  <2>2. SnapshotJob(s, mem[s]) \in Job
    BY DEF TypeInv, TypeOK, SnapshotJob, Job
  <2>3. queue # <<>> => queue' # <<>> /\ Head(queue') = Head(queue)
    BY <2>1, <2>2
  <2> QED  BY <1>2, <2>3, HeadSame DEF CloseJournal
<1>3. CASE AssignSeq \/ RenameSnapshot
  BY <1>3, HeadSame DEF AssignSeq, RenameSnapshot
<1>4. CASE LandLine
  BY <1>4 DEF UnsyncedIsHead, LandLine, HeadIs, HeadEntry
<1>5. CASE SyncLine
  BY <1>5 DEF UnsyncedIsHead, SyncLine
<1>6. CASE PublishApplied
  BY <1>6 DEF UnsyncedIsHead, PublishApplied, HeadIs
<1>7. CASE WriteFault
  <2>1. attempt + 1 < MaxWriteAttempts
    BY <1>7, ConstantsAssumption
    DEF WriteFault, ExactInv, RetriesAreFaults, WritesComeThrough, TypeInv, TypeOK
  <2> QED  BY <1>7, <2>1, HeadSame DEF WriteFault
<1>8. CASE Crash
  BY <1>8 DEF UnsyncedIsHead, Crash
<1>9. CASE Stop
  BY <1>9 DEF UnsyncedIsHead, Stop
<1>10. CASE Restart
  BY <1>10, HeadSame DEF Restart
<1>11. ASSUME NEW s \in Sessions, ResaveSnapshot(s) PROVE UnsyncedIsHead'
  BY <1>11, HeadSame DEF ResaveSnapshot
<1>12. CASE UNCHANGED vars
  BY <1>12, HeadSame
<1> QED
  BY <1>1, <1>2, <1>3, <1>4, <1>5, <1>6, <1>7, <1>8, <1>9, <1>10, <1>11, <1>12,
     NoTruncateSteps, Zenon DEF Next, WorkerStep

----------------------------------------------------------------------------
(* What the mapping makes of a state.                                       *)

LEMMA FoundIsLogged ==
  PromiseInv => Found(wal) = Muts(wal) /\ Hardened = Muts(wal \ unsynced)
<1> SUFFICES ASSUME PromiseInv
             PROVE  Found(wal) = Muts(wal) /\ Found(wal \ unsynced) = Muts(wal \ unsynced)
  BY DEF Hardened
<1> USE DEF PromiseInv
<1>1. /\ \A e \in wal : e.who \in Sessions /\ e.seq \in Nat
      /\ \A s \in Sessions : disk[s].applied \in Nat
  BY DEF TypeInv, TypeOK, Entry, Snapshot
<1>2. \A s \in Sessions : disk[s].content = Muts(LoggedUpTo(s, disk[s].applied))
  BY DEF ExactInv, DiskExact
<1>3. ASSUME NEW s \in Sessions, NEW log \in {wal, wal \ unsynced}
      PROVE  ReplayedFrom(s, log).content = Muts(Of(s, log))
  <2>1. ReplayedFrom(s, log).content
          = Muts(LoggedUpTo(s, disk[s].applied)) \cup Muts(Unabsorbed(s, log))
    BY <1>2 DEF ReplayedFrom
  <2>2. \A e \in unsynced : ~(e.seq <= disk[s].applied)
    BY <1>1 DEF ExactInv, SoftIsUnclaimed, TypeInv, TypeOK
  <2>3. LoggedUpTo(s, disk[s].applied) \cup Unabsorbed(s, log) = Of(s, log)
    BY <1>1, <2>2 DEF LoggedUpTo, Unabsorbed, Of
  <2> QED  BY <2>1, <2>3 DEF Muts
<1>4. ASSUME NEW log \in {wal, wal \ unsynced}
      PROVE  Found(log) = Muts(log)
  <2>1. log \subseteq wal
    OBVIOUS
  <2>2. \A m : m \in Muts(log) <=> \E s \in Sessions : m \in Muts(Of(s, log))
    BY <1>1, <2>1 DEF Muts, Of
  <2> QED  BY <1>3, <2>2 DEF Found
<1> QED  BY <1>4

LEMMA LiveIsLoggedOrQueued ==
  PromiseInv => (up => Live = Muts(wal) \cup Queued)
<1> SUFFICES ASSUME PromiseInv, up PROVE Live = Muts(wal) \cup Queued
  OBVIOUS
<1> USE DEF PromiseInv
<1>1. \A e \in wal : e.who \in Sessions
  BY DEF TypeInv, TypeOK, Entry
<1>2. /\ Len(queue) \in Nat
      /\ \A i \in 1..Len(queue) : queue[i].kind = "wal" => queue[i].who \in Sessions
  BY DEF TypeInv, TypeOK, Job
<1>3. \A s \in Sessions : mem[s] = Muts(Of(s, wal)) \cup Ahead(queue, Len(queue) + 1, s)
  BY DEF ExactInv, MemExact
<1>4. \A m : m \in Muts(wal) <=> \E s \in Sessions : m \in Muts(Of(s, wal))
  BY <1>1 DEF Muts, Of
<1>5. \A m : m \in Queued <=> \E s \in Sessions : m \in Ahead(queue, Len(queue) + 1, s)
  BY <1>2 DEF Queued, Ahead
<1> QED  BY <1>3, <1>4, <1>5 DEF Live

\* What is queued comes after what is logged.
LEMMA QueuedIsLast ==
  ASSUME PromiseInv
  PROVE  /\ \A e \in wal : \A n \in Queued : e.mut \in Nat /\ n \in Nat /\ e.mut <= n
         /\ Muts(unsynced) \subseteq Queued
<1> USE DEF PromiseInv
<1>1. queue \in Seq(Job) /\ \A e \in wal : e.mut \in Nat
  BY DEF TypeInv, TypeOK, Entry, Mutation
<1>2. \A i \in 1..Len(queue) : queue[i].kind = "wal" =>
        queue[i].mut \in Nat /\ \A e \in wal : e.mut <= queue[i].mut
  BY <1>1 DEF OrderInv, QueueIsNew, History, Job, Mutation
<1>3. ASSUME NEW e \in unsynced PROVE e.mut \in Queued
  <2>1. queue # <<>> /\ Head(queue).kind = "wal" /\ e.mut = Head(queue).mut
    BY DEF UnsyncedIsHead
  <2>2. 1 \in 1..Len(queue) /\ queue[1] = Head(queue)
    BY <1>1, <2>1
  <2> QED  BY <2>1, <2>2 DEF Queued
<1>4. Muts(unsynced) \subseteq Queued
  BY <1>3 DEF Muts
<1> QED  BY <1>1, <1>2, <1>4 DEF Queued

\* Any log that keeps what is synced is a first part of what was accepted.
LEMMA KeptIsFirstPart ==
  ASSUME PromiseInv, NEW log, wal \ unsynced \subseteq log, log \subseteq wal
  PROVE  Promise!IsFirstPartOf(Muts(log), Muts(wal) \cup Queued)
<1>1. Muts(log) \subseteq Muts(wal) \cup Queued
  BY DEF Muts
<1>2. ASSUME NEW m \in Muts(log), NEW n \in (Muts(wal) \cup Queued) \ Muts(log)
      PROVE  m < n
  <2>1. n \in Queued
    <3>1. CASE n \in Muts(wal)
      <4>1. PICK e \in wal : e.mut = n
        BY <3>1 DEF Muts
      <4>2. e \in unsynced
        BY <1>2, <4>1 DEF Muts
      <4> QED  BY <4>1, <4>2, QueuedIsLast DEF Muts
    <3> QED  BY <3>1
  <2>2. PICK e \in wal : e.mut = m
    BY DEF Muts
  <2>3. m \in Nat /\ n \in Nat /\ m <= n
    BY <2>1, <2>2, QueuedIsLast
  <2> QED  BY <2>3
<1> QED  BY <1>1, <1>2 DEF Promise!IsFirstPartOf, Promise!Before

----------------------------------------------------------------------------
(* Every step is a step of the promise, or none.                            *)

\* The invariant, and what the mapping makes of the states of a step.
Mapped ==
  /\ PromiseInv
  /\ Found(wal) = Muts(wal) /\ Hardened = Muts(wal \ unsynced)
  /\ up => Live = Muts(wal) \cup Queued

LEMMA InvIsMapped == PromiseInv => Mapped
BY FoundIsLogged, LiveIsLoggedOrQueued DEF Mapped

LEMMA InitIsPromised == Init => Promise!Init
<1> SUFFICES ASSUME Init PROVE Accepted = {} /\ Hardened = {}
  BY DEF Promise!Init, Accepted, Hardened
<1>1. Live = {}
  BY DEF Init, Live
<1>2. Found({}) = {}
  <2>1. \A s \in Sessions : ReplayedFrom(s, {}).content = {}
    BY DEF Init, EmptySnapshot, ReplayedFrom, Unabsorbed, Of, Muts
  <2> QED  BY <2>1 DEF Found
<1> QED  BY <1>1, <1>2 DEF Init, Accepted, Hardened

\* A mutation is accepted, after all others.
LEMMA MutateIsPromised ==
  ASSUME Mapped, Mapped', NEW s \in Sessions, Mutate(s)
  PROVE  Promise!Next
<1>1. /\ up /\ up' /\ issued' = issued + 1 /\ issued \in Nat
      /\ mem' = [mem EXCEPT ![s] = mem[s] \cup {issued'}]
      /\ UNCHANGED <<wal, unsynced>>
  BY ConstantsAssumption DEF Mutate, Running, Mapped, PromiseInv, TypeInv, TypeOK
<1>2. Accepted = Live /\ Accepted' = Live'
  BY <1>1 DEF Accepted
<1>3. Live' = Live \cup {issued'}
  <2>1. \A r \in Sessions : mem'[r] = IF r = s THEN mem[s] \cup {issued'} ELSE mem[r]
    BY <1>1 DEF Mapped, PromiseInv, TypeInv, TypeOK
  <2> QED  BY <2>1 DEF Live
<1>4. \A n \in Live : n \in Nat /\ n < issued'
  <2>1. queue \in Seq(Job) /\ wal \subseteq Entry
    BY DEF Mapped, PromiseInv, TypeInv, TypeOK
  <2>2. \A i \in 1..Len(queue) :
          queue[i].kind = "wal" => queue[i].mut \in Nat /\ queue[i].mut <= issued
    BY <2>1 DEF Mapped, PromiseInv, OrderInv, QueueIsNew, Job, Mutation
  <2>3. \A e \in wal : e.mut \in Nat /\ e.mut <= issued
    BY <2>1 DEF Mapped, PromiseInv, OrderInv, HistoryIsIssued, History, Entry, Mutation
  <2>4. \A n \in Queued : n \in Nat /\ n <= issued
    BY <2>2 DEF Queued
  <2>5. \A n \in Muts(wal) : n \in Nat /\ n <= issued
    BY <2>3 DEF Muts
  <2>6. Live = Muts(wal) \cup Queued
    BY <1>1 DEF Mapped
  <2> QED  BY <1>1, <2>4, <2>5, <2>6
<1>5. issued' \in Accepted' \ Accepted
  BY <1>1, <1>2, <1>3, <1>4
<1>6. Hardened' = Hardened
  BY <1>1 DEF Mapped
<1>7. Accepted \subseteq Accepted' /\ Accepted' = Accepted \cup {issued'}
      /\ \A n \in Accepted : n < issued'
  BY <1>2, <1>3, <1>4
<1> QED
  BY <1>5, <1>6, <1>7 DEF Promise!Next, Promise!Accept, Accepted, Hardened

\* An fsync hardens what has landed.
LEMMA SyncIsPromised ==
  ASSUME Mapped, Mapped', SyncLine
  PROVE  Promise!Next
<1>1. up /\ up' /\ UNCHANGED <<wal, mem>> /\ unsynced' = {}
  BY DEF SyncLine, HeadIs
<1>2. Accepted' = Accepted /\ Accepted = Muts(wal) \cup Queued
  BY <1>1 DEF Accepted, Live, Mapped
<1>3. Hardened' = Muts(wal) /\ Hardened \subseteq Hardened'
  BY <1>1 DEF Mapped, Muts
<1>4. Promise!IsFirstPartOf(Hardened', Accepted)
  BY <1>2, <1>3, KeptIsFirstPart DEF Mapped
<1> QED
  BY <1>2, <1>3, <1>4 DEF Promise!Next, Promise!Harden, Accepted, Hardened

\* A crash keeps a first part, with all that was synced.
LEMMA CrashIsPromised ==
  ASSUME Mapped, Mapped', Crash
  PROVE  Promise!Next
<1>1. PICK lost \in SUBSET unsynced : wal' = wal \ lost
  BY Zenon DEF Crash
<1>2. up /\ ~up' /\ unsynced' = {}
  BY DEF Crash, Halt
<1>3. wal \ unsynced \subseteq wal' /\ wal' \subseteq wal
  BY <1>1
<1>4. Accepted' = Muts(wal') /\ Hardened' = Muts(wal')
  BY <1>2 DEF Accepted, Mapped
<1>5. Accepted = Muts(wal) \cup Queued /\ Hardened = Muts(wal \ unsynced)
  BY <1>2 DEF Accepted, Mapped
<1>6. Hardened \subseteq Accepted'
  BY <1>3, <1>4, <1>5 DEF Muts
<1>7. Promise!IsFirstPartOf(Accepted', Accepted)
  BY <1>3, <1>4, <1>5, KeptIsFirstPart DEF Mapped
<1> QED
  BY <1>4, <1>6, <1>7 DEF Promise!Next, Promise!Recover, Accepted, Hardened

\* Everything else is not seen.
LEMMA StutterIsPromised ==
  ASSUME Mapped, Mapped', Muts(wal' \ unsynced') = Muts(wal \ unsynced),
         up' = up, up => mem' = mem, ~up => wal' = wal
  PROVE  Accepted' = Accepted /\ Hardened' = Hardened
<1>1. CASE up
  BY <1>1 DEF Mapped, Accepted, Live
<1>2. CASE ~up
  BY <1>2 DEF Mapped, Accepted
<1> QED  BY <1>1, <1>2

LEMMA StepIsPromised ==
  ASSUME NoTruncation, Mapped, Mapped', [Next]_vars
  PROVE  Promise!Next \/ (Accepted' = Accepted /\ Hardened' = Hardened)
<1>1. CASE LandLine
  <2>1. HeadEntry \notin wal
    <3>1. \A e \in wal : e.seq \in Nat /\ e.seq < counter
      BY <1>1
      DEF LandLine, Mapped, PromiseInv, ExactInv, CounterAhead, TypeInv, TypeOK, Entry
    <3>2. counter \in Nat /\ HeadEntry.seq = counter
      BY DEF Mapped, PromiseInv, TypeInv, TypeOK, HeadEntry
    <3> QED  BY <3>1, <3>2
  <2>2. wal' \ unsynced' = wal \ unsynced
    BY <1>1, <2>1 DEF LandLine
  <2> QED  BY <1>1, <2>2, StutterIsPromised DEF LandLine, HeadIs
<1>2. CASE AssignSeq \/ RenameSnapshot \/ PublishApplied \/ WriteFault
  BY <1>2, StutterIsPromised DEF AssignSeq, RenameSnapshot, PublishApplied, WriteFault
<1>3. ASSUME NEW s \in Sessions, CloseJournal(s) \/ ResaveSnapshot(s)
      PROVE  Accepted' = Accepted /\ Hardened' = Hardened
  BY <1>3, StutterIsPromised DEF CloseJournal, ResaveSnapshot
<1>4. CASE Stop
  <2>1. up /\ ~up' /\ queue = <<>> /\ UNCHANGED <<wal, unsynced>>
    BY <1>4 DEF Stop, Halt
  <2>2. Queued = {}
    BY <2>1 DEF Queued
  <2> QED  BY <2>1, <2>2 DEF Mapped, Accepted
<1>5. CASE Restart
  <2>1. ~up /\ up' /\ UNCHANGED <<wal, unsynced, queue>>
    BY <1>5 DEF Restart
  <2>2. queue = <<>>
    BY <2>1 DEF Mapped, PromiseInv, ExactInv, StageFits
  <2>3. Queued' = {}
    BY <2>1, <2>2 DEF Queued
  <2> QED  BY <2>1, <2>3 DEF Mapped, Accepted
<1>6. CASE UNCHANGED vars
  BY <1>6, StutterIsPromised
<1>7. ASSUME NEW s \in Sessions, Mutate(s) PROVE Promise!Next
  BY <1>7, MutateIsPromised
<1>8. CASE SyncLine \/ Crash
  BY <1>8, SyncIsPromised, CrashIsPromised
<1>9. ~RequestTruncate /\ ~RewriteWal
  BY NoTruncateSteps DEF Mapped, PromiseInv
<1> QED
  BY <1>1, <1>2, <1>3, <1>4, <1>5, <1>6, <1>7, <1>8, <1>9, Zenon DEF Next, WorkerStep

\* The durable write path keeps what RecoverableLog promises its users: through
\* the queue, retries, gated snapshots, crashes and repeated restarts, what comes
\* back is a first part, across all sessions at once, of what was accepted, with
\* at least all that had hardened.
THEOREM PromiseKept ==
  ASSUME WritesComeThrough, NoTruncation
  PROVE  Spec => KeepsPromise
<1>1. Init => PromiseInv
  <2>1. Init => UnsyncedIsHead
    BY DEF Init, UnsyncedIsHead
  <2> QED  BY <2>1, TypeInit, ExactInit, OrderInit DEF PromiseInv
<1>2. PromiseInv /\ [Next]_vars => PromiseInv'
  BY TypeStep, ExactStep, OrderStep, HeadStep DEF PromiseInv
<1>3. Spec => []PromiseInv
  BY <1>1, <1>2, PTL DEF Spec
<1>4. Spec => []Mapped
  BY <1>3, InvIsMapped, PTL
<1>5. Mapped /\ Mapped' /\ [Next]_vars
        => [Promise!Next]_<<IF up THEN Live ELSE Found(wal), Found(wal \ unsynced)>>
  BY StepIsPromised DEF Accepted, Hardened
<1>6. Init => Promise!Init
  BY InitIsPromised
<1> QED  BY <1>4, <1>5, <1>6, PTL DEF Spec, KeepsPromise, Promise!Spec
=============================================================================
