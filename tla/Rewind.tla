------------------------------- MODULE Rewind -------------------------------
(***************************************************************************)
(* Time travel over the durable state of every session: AgentRegistry's    *)
(* checkout, _materialize_rewind, recover_rewind_if_needed, restore_all    *)
(* and truncate_wal_if_eligible (runtime/registry.py), with reconstruct    *)
(* and the snapshot generations (core/events/snapshot_generations.py).     *)
(*                                                                         *)
(* What the write path does to one entry is DurableState's subject: here   *)
(* an append is one step, and the queue is seen only where it matters, a   *)
(* WAL rewrite that a checkout finds still queued (floorDue).  What a      *)
(* reset record abandons is Branches' subject, and is taken from there.    *)
(* A session is loaded whenever the process runs.                          *)
(***************************************************************************)
EXTENDS Integers, Sequences, FiniteSets

CONSTANTS
  Sessions,           \* the (agent, session id) pairs
  GLOBAL_SCOPE,       \* the scope of a checkout of everything
  InputDuringRewind,  \* can input from outside reach a session being rewound?
  MaxHead, MaxCuts, MaxCrashes, MaxTruncations   \* bounds of the model

ASSUME RewindAssumption ==
  /\ GLOBAL_SCOPE \notin Sessions
  /\ InputDuringRewind \in BOOLEAN
  /\ MaxHead \in Nat /\ MaxCuts \in Nat
  /\ MaxCrashes \in Nat /\ MaxTruncations \in Nat

VARIABLES
  up,          \* the process runs
  log,         \* every entry ever appended, by number
  kept,        \* the numbers still in wal.jsonl
  floorDue,    \* the floor of a WAL rewrite the worker has not done yet, or 0
  disk,        \* per session, snapshot.json: [content, applied]
  gens,        \* per session, the snapshot generations on disk: [seq, content]
  mem,         \* per session, the content of the in-memory snapshot
  memApplied,  \* per session, its applied_seq
  rewinding,   \* the checkout in progress
  cuts, crashes, truncations   \* how much of each bound is used

vars == <<up, log, kept, floorDue, disk, gens, mem, memApplied, rewinding,
          cuts, crashes, truncations>>

B == INSTANCE Branches WITH wal <- log

HeadSeq    == Len(log)
Work(s) == [kind |-> "work", who |-> s]

IsRecord(n)  == log[n].kind = "rewind"
IsWork(n, s) == log[n].kind = "work" /\ log[n].who = s

Highest(numbers) == CHOOSE n \in numbers : \A k \in numbers : k <= n
Lowest(numbers)  == CHOOSE n \in numbers : \A k \in numbers : n <= k

NoRewind == [phase |-> "none", target |-> 0, scope |-> GLOBAL_SCOPE, todo |-> {}]

InScope(scope) == IF scope = GLOBAL_SCOPE THEN Sessions ELSE {scope}

Init ==
  /\ up = TRUE
  /\ log = <<>> /\ kept = {} /\ floorDue = 0
  /\ disk = [s \in Sessions |-> [content |-> {}, applied |-> 0]]
  /\ gens = [s \in Sessions |-> {}]
  /\ mem = [s \in Sessions |-> {}]
  /\ memApplied = [s \in Sessions |-> 0]
  /\ rewinding = NoRewind
  /\ cuts = 0 /\ crashes = 0 /\ truncations = 0

----------------------------------------------------------------------------
(* reconstruct: the nearest active generation and the active entries after. *)

\* The branch model sees the records that are still in the file.
InFile == [n \in DOMAIN log |-> IF n \in kept THEN log[n] ELSE B!Work]

BasesOnAnyBranch(s, at) == {g \in gens[s] : g.seq <= at}              \* mutant

Bases(s, at) == {g \in gens[s] : g.seq <= at /\ B!IsActive(InFile, s, g.seq)}

Base(s, at) ==
  IF Bases(s, at) = {}
  THEN [seq |-> 0, content |-> {}]
  ELSE CHOOSE g \in Bases(s, at) : \A f \in Bases(s, at) : f.seq <= g.seq

Reconstructed(s, at) ==
  Base(s, at).content
    \cup {n \in kept : /\ Base(s, at).seq < n /\ n <= at
                       /\ IsWork(n, s) /\ B!IsActive(InFile, s, n)}

MaterialisedUnpinned(s, at) ==                                        \* mutant
  [content |-> Reconstructed(s, at),
   applied |-> Highest({0} \cup Reconstructed(s, at))]

\* _materialize_rewind: pinned to the head, whatever the last entry replayed.
Materialised(s, at) == [content |-> Reconstructed(s, at), applied |-> at]

----------------------------------------------------------------------------
(* Sessions at work. *)

CanAppend == up /\ floorDue = 0 /\ HeadSeq < MaxHead

\* A WAL-recorded mutation; whether the snapshot gate opens is left to chance.
\* A session to be rewound has been stopped: only outside input still reaches it.
Mutate(s) ==
  /\ CanAppend
  /\ s \in rewinding.todo => InputDuringRewind
  /\ log' = Append(log, Work(s))
  /\ kept' = kept \cup {Len(log')}
  /\ mem' = [mem EXCEPT ![s] = @ \cup {Len(log')}]
  /\ \/ /\ disk' = [disk EXCEPT ![s] = [content |-> mem'[s], applied |-> Len(log')]]
        /\ memApplied' = [memApplied EXCEPT ![s] = Len(log')]
     \/ UNCHANGED <<disk, memApplied>>
  /\ UNCHANGED <<up, floorDue, gens, rewinding, cuts, crashes, truncations>>

GenerationAtWatermark(s) == [seq |-> memApplied[s], content |-> mem[s]]  \* mutant

\* cut_generation: the content now, under the last number assigned.
Generation(s) == [seq |-> HeadSeq, content |-> mem[s]]

\* At the end of a turn.  A generation of the same number is overwritten.
CutGeneration(s) ==
  /\ up /\ s \notin rewinding.todo /\ cuts < MaxCuts
  /\ cuts' = cuts + 1
  /\ gens' = [gens EXCEPT ![s] =
                {g \in @ : g.seq # Generation(s).seq} \cup {Generation(s)}]
  /\ UNCHANGED <<up, log, kept, floorDue, disk, mem, memApplied, rewinding,
                 crashes, truncations>>

----------------------------------------------------------------------------
(* Truncation, gated by _rewind_in_progress. *)

Watermarks == {memApplied[s] : s \in {t \in Sessions : memApplied[t] > 0}}

Floor(low) == low + 1

\* The rewrite is only queued; the generations below the floor go at once.
RequestTruncate ==
  /\ up /\ rewinding = NoRewind /\ Watermarks # {}
  /\ truncations < MaxTruncations
  /\ floorDue' = Floor(Lowest(Watermarks))
  /\ gens' = [s \in Sessions |-> {g \in gens[s] : g.seq >= floorDue'}]
  /\ truncations' = truncations + 1
  /\ UNCHANGED <<up, log, kept, disk, mem, memApplied, rewinding, cuts, crashes>>

\* The floor, the counter's watermark, and every reset record.
Survivors(floor) == {n \in kept : n >= floor \/ n = Highest(kept) \/ IsRecord(n)}

RewriteWal ==
  /\ up /\ floorDue > 0
  /\ kept' = Survivors(floorDue)
  /\ floorDue' = 0
  /\ UNCHANGED <<up, log, disk, gens, mem, memApplied, rewinding, cuts,
                 crashes, truncations>>

----------------------------------------------------------------------------
(* checkout: retention guard, stop the scope, one record, materialise. *)

BeginCheckout(n, scope) ==
  /\ up /\ rewinding = NoRewind
  /\ n >= Lowest(kept)
  /\ rewinding' = [phase |-> "quiescing", target |-> n, scope |-> scope, todo |-> {}]
  /\ UNCHANGED <<up, log, kept, floorDue, disk, gens, mem, memApplied, cuts,
                 crashes, truncations>>

\* RewindQuiesceTimeoutError: nothing was written.
AbortCheckout ==
  /\ up /\ rewinding.phase = "quiescing"
  /\ rewinding' = NoRewind
  /\ UNCHANGED <<up, log, kept, floorDue, disk, gens, mem, memApplied, cuts,
                 crashes, truncations>>

\* Durable before anything is reconstructed.
AppendRecord ==
  /\ CanAppend /\ rewinding.phase = "quiescing"
  /\ log' = Append(log, B!Rewound(rewinding.target, rewinding.scope))
  /\ kept' = kept \cup {Len(log')}
  /\ rewinding' = [rewinding EXCEPT !.phase = "materialising",
                                    !.todo = InScope(rewinding.scope)]
  /\ UNCHANGED <<up, floorDue, disk, gens, mem, memApplied, cuts, crashes,
                 truncations>>

LatestRecord == Highest({n \in DOMAIN log : IsRecord(n)})

\* One session: reconstruct, save, reset_for_rewind, restore_state.
Materialise(s) ==
  /\ up /\ s \in rewinding.todo
  /\ disk' = [disk EXCEPT ![s] = Materialised(s, LatestRecord)]
  /\ mem' = [mem EXCEPT ![s] = disk'[s].content]
  /\ memApplied' = [memApplied EXCEPT ![s] = disk'[s].applied]
  /\ rewinding' = IF rewinding.todo = {s} THEN NoRewind
                  ELSE [rewinding EXCEPT !.todo = @ \ {s}]
  /\ UNCHANGED <<up, log, kept, floorDue, gens, cuts, crashes, truncations>>

----------------------------------------------------------------------------
(* Process death and restart. *)

Crash ==
  /\ up /\ crashes < MaxCrashes
  /\ up' = FALSE /\ crashes' = crashes + 1
  /\ floorDue' = 0 /\ rewinding' = NoRewind
  /\ mem' = [s \in Sessions |-> {}]
  /\ memApplied' = [s \in Sessions |-> 0]
  /\ UNCHANGED <<log, kept, disk, gens, cuts, truncations>>

\* recover_rewind_if_needed: the scope of the latest record, if there is one.
ToRecover ==
  IF \E n \in kept : IsRecord(n) THEN InScope(log[LatestRecord].scope) ELSE {}

\* Recovery cut short by another death, after some of the scope.
RecoverSome(s) ==
  /\ ~up /\ s \in ToRecover
  /\ disk' = [disk EXCEPT ![s] = Materialised(s, HeadSeq)]
  /\ UNCHANGED <<up, log, kept, floorDue, gens, mem, memApplied, rewinding,
                 cuts, crashes, truncations>>

\* restore_all's replay: every entry past the snapshot, on whatever branch.
Replayed(s, snapshot) ==
  LET tail == {n \in kept : n > snapshot.applied /\ IsWork(n, s)}
  IN [content |-> snapshot.content \cup tail,
      applied |-> Highest({snapshot.applied} \cup tail)]

\* Recovery, replay, the new snapshots, and the sessions with something to do; an
\* idle session (nothing queued or pending) starts from an empty snapshot, at 0.
Restart ==
  /\ ~up
  /\ up' = TRUE
  /\ disk' = [s \in Sessions |->
                Replayed(s, IF s \in ToRecover THEN Materialised(s, HeadSeq) ELSE disk[s])]
  /\ mem' = [s \in Sessions |-> disk'[s].content]
  /\ \E idle \in SUBSET Sessions :
       /\ \A s \in Sessions : mem'[s] = {} => s \in idle
       /\ memApplied' = [s \in Sessions |-> IF s \in idle THEN 0 ELSE disk'[s].applied]
  /\ UNCHANGED <<log, kept, floorDue, gens, rewinding, cuts, crashes, truncations>>

----------------------------------------------------------------------------
Next ==
  \/ \E s \in Sessions : Mutate(s) \/ CutGeneration(s) \/ Materialise(s) \/ RecoverSome(s)
  \/ \E n \in DOMAIN log, scope \in B!Scopes : BeginCheckout(n, scope)
  \/ AppendRecord \/ AbortCheckout
  \/ RequestTruncate \/ RewriteWal
  \/ Crash \/ Restart

Spec == Init /\ [][Next]_vars

----------------------------------------------------------------------------
(* Correctness. *)

Contents == SUBSET (DOMAIN log)

TypeOK ==
  /\ up \in BOOLEAN
  /\ HeadSeq <= MaxHead /\ kept \subseteq DOMAIN log /\ floorDue \in 0..(HeadSeq + 1)
  /\ \A s \in Sessions :
       /\ disk[s] \in [content : Contents, applied : 0..HeadSeq]
       /\ gens[s] \subseteq [seq : 0..HeadSeq, content : Contents]
       /\ mem[s] \in Contents /\ memApplied[s] \in 0..HeadSeq
  /\ rewinding.phase \in {"none", "quiescing", "materialising"}
  /\ rewinding.scope \in B!Scopes /\ rewinding.todo \subseteq Sessions

Settled == up /\ rewinding = NoRewind

\* What a session is to hold when number n is the head of its branch: the entries
\* of its own that are read going back from n, a rewind leading to its target.
\* This does not use the intervals the code computes.
LineageWork(s, n) == {k \in B!Lineage(log, s)[n] : IsWork(k, s)}

\* checkout, reconstruct and restore_all: between rewinds every session holds the
\* work of its active branch, no more and no less.
RewindIsWhole == Settled => \A s \in Sessions : mem[s] = LineageWork(s, HeadSeq)

\* Nothing has been truncated: checkout has all it needs.
HistoryIsThere == truncations = 0

\* It is, through crashes at any point of a checkout and of its recovery, with
\* scoped and global rewinds mixed, as long as nothing was truncated.
StateIsActiveBranch == HistoryIsThere => RewindIsWhole

\* cut_generation: a generation holds exactly the work on the way to its number,
\* also when that lies on a branch abandoned since: what reconstruct starts from.
GenerationsAreExact ==
  HistoryIsThere =>
    \A s \in Sessions : \A g \in gens[s] : g.content = LineageWork(s, g.seq)

\* _materialize_rewind and restore_all: whatever a truncation removed, and
\* however often the process died, abandoned work never comes back.
AbandonedStaysDead == Settled => \A s \in Sessions : mem[s] \subseteq LineageWork(s, HeadSeq)
=============================================================================
