---------------------------- MODULE RewindProofs ----------------------------
(***************************************************************************)
(* Time travel, for every set of sessions and every history: what a        *)
(* session holds between two rewinds is the work of its active branch, all *)
(* of it as long as nothing was truncated and no input reached a session   *)
(* being rewound, and never anything else.                                 *)
(*                                                                         *)
(* The argument: a generation on disk holds the work on the way to its     *)
(* number, a snapshot that nothing is about to overwrite holds that up to  *)
(* its applied_seq and has no rewind of its session past it, and a session *)
(* whose snapshot does have one is still to be materialised, by the        *)
(* checkout in progress or by the recovery of the latest record.           *)
(***************************************************************************)
EXTENDS Rewind, WellFoundedInduction, TLAPS

BP == INSTANCE BranchesProofs WITH wal <- log

USE DEF vars

----------------------------------------------------------------------------
(* What BranchesProofs shows of any log, in the terms of this module.       *)

WellFormed(l) == BP!WellFormed(l)

Lin(l, s)  == B!Lineage(l, s)
Pred(l, s, n) == B!Predecessor(l, s, n)

LEMMA SameModel ==
  ASSUME NEW l, NEW s
  PROVE  /\ BP!RewindsFor(l, s) = B!RewindsFor(l, s)
         /\ BP!Lineage(l, s) = Lin(l, s)
         /\ \A n : BP!Predecessor(l, s, n) = Pred(l, s, n)
         /\ \A n : BP!IsActive(l, s, n) <=> B!IsActive(l, s, n)
<1>1. BP!RewindsFor(l, s) = B!RewindsFor(l, s)
  BY DEF BP!RewindsFor, B!RewindsFor
<1>2. \A n : BP!Predecessor(l, s, n) = B!Predecessor(l, s, n)
  BY DEF BP!Predecessor, B!Predecessor, BP!RewindsFor, B!RewindsFor
<1>3. BP!Lineage(l, s) = B!Lineage(l, s)
  BY DEF BP!Lineage, B!Lineage, BP!Predecessor, B!Predecessor, BP!RewindsFor, B!RewindsFor
<1>4. BP!GapsFrom(l, s) = B!GapsFrom(l, s)
  BY DEF BP!GapsFrom, B!GapsFrom, BP!KeepUnlessMoot, B!KeepUnlessMoot, BP!Inside, B!Inside,
         BP!RewindsFor, B!RewindsFor
<1>5. \A n : BP!IsActive(l, s, n) <=> B!IsActive(l, s, n)
  BY <1>4 DEF BP!IsActive, B!IsActive, BP!AbandonedIntervals, B!AbandonedIntervals,
              BP!Inside, B!Inside
<1> QED
  BY <1>1, <1>2, <1>3, <1>5 DEF Lin, Pred

LEMMA BranchesAssumed == BP!ScopesAssumption
BY RewindAssumption DEF BP!ScopesAssumption

LEMMA LineageFacts ==
  ASSUME NEW l, NEW s, WellFormed(l)
  PROVE  /\ Lin(l, s)[0] = {}
         /\ \A n \in 1..Len(l) : Pred(l, s, n) \in 0..(n - 1)
         /\ \A n \in 1..Len(l) : Lin(l, s)[n] = {n} \cup Lin(l, s)[Pred(l, s, n)]
         /\ \A h \in 0..Len(l) : Lin(l, s)[h] \subseteq 1..h
         /\ \A h \in 0..Len(l) : \A n \in Lin(l, s)[h] :
              Lin(l, s)[n] = {k \in Lin(l, s)[h] : k <= n}
         /\ B!IsActive(l, s, 0)
         /\ \A n \in 1..Len(l) : B!IsActive(l, s, n) <=> n \in Lin(l, s)[Len(l)]
<1>1. /\ Lin(l, s)[0] = {}
      /\ \A n \in 1..Len(l) : Lin(l, s)[n] = {n} \cup Lin(l, s)[Pred(l, s, n)]
  BY SameModel, BranchesAssumed, BP!LineageIs DEF WellFormed
<1>2. \A n \in 1..Len(l) : Pred(l, s, n) \in 0..(n - 1)
  BY SameModel, BranchesAssumed, BP!PredecessorIsBefore DEF WellFormed
<1>3. \A h \in 0..Len(l) : Lin(l, s)[h] \subseteq 1..h
  BY SameModel, BranchesAssumed, BP!LineageType DEF WellFormed
<1>4. \A h \in 0..Len(l) : \A n \in Lin(l, s)[h] :
        Lin(l, s)[n] = {k \in Lin(l, s)[h] : k <= n}
  BY SameModel, BranchesAssumed, BP!LineageOfLineage DEF WellFormed
<1>5. B!IsActive(l, s, 0)
  BY SameModel, BranchesAssumed, BP!NothingPassesZero DEF WellFormed
<1>6. \A n \in 1..Len(l) : B!IsActive(l, s, n) <=> n \in Lin(l, s)[Len(l)]
  BY SameModel, BranchesAssumed, BP!ActiveIsOnLineage DEF WellFormed
<1> QED
  BY <1>1, <1>2, <1>3, <1>4, <1>5, <1>6

LEMMA LineageAgrees ==
  ASSUME NEW l, NEW l2, NEW s, WellFormed(l), WellFormed(l2),
         NEW H \in Nat, H <= Len(l), H <= Len(l2),
         \A n \in 1..H : Pred(l, s, n) = Pred(l2, s, n)
  PROVE  \A h \in 0..H : Lin(l, s)[h] = Lin(l2, s)[h]
BY SameModel, BranchesAssumed, BP!LineageDependsOnPredecessors DEF WellFormed

LEMMA PredecessorIs ==
  ASSUME NEW l, NEW s, NEW n
  PROVE  Pred(l, s, n) = IF n \in B!RewindsFor(l, s) THEN l[n].target ELSE n - 1
BY DEF Pred, B!Predecessor

\* Where no record of s lies between, the way back from m is the way back from a
\* and all numbers since.
LEMMA NoRecordBetween ==
  ASSUME NEW l, NEW s, WellFormed(l), Len(l) \in Nat, NEW a \in 0..Len(l),
         \A r \in B!RewindsFor(l, s) : r <= a
  PROVE  \A m \in a..Len(l) : Lin(l, s)[m] = Lin(l, s)[a] \cup ((a + 1)..m)
<1> DEFINE L == Len(l)
           S == {k \in Nat : a + k <= L => Lin(l, s)[a + k] = Lin(l, s)[a] \cup ((a + 1)..(a + k))}
<1>1. ASSUME NEW k \in Nat, \A j \in Nat : j < k => j \in S
      PROVE  k \in S
  <2> SUFFICES ASSUME a + k <= L
               PROVE  Lin(l, s)[a + k] = Lin(l, s)[a] \cup ((a + 1)..(a + k))
    OBVIOUS
  <2>1. CASE k = 0
    <3>1. a + k = a /\ (a + 1)..(a + k) = {}
      BY <2>1
    <3> QED
      BY <3>1
  <2>2. CASE k > 0
    <3>1. a + k \in 1..L /\ a + k \notin B!RewindsFor(l, s)
      BY <2>2
    <3>2. Pred(l, s, a + k) = a + (k - 1)
      BY <3>1, PredecessorIs
    <3>3. Lin(l, s)[a + k] = {a + k} \cup Lin(l, s)[a + (k - 1)]
      BY <3>1, <3>2, LineageFacts
    <3>4. k - 1 \in Nat /\ k - 1 < k /\ a + (k - 1) <= L
      BY <2>2
    <3>5. Lin(l, s)[a + (k - 1)] = Lin(l, s)[a] \cup ((a + 1)..(a + (k - 1)))
      BY <1>1, <3>4
    <3>6. (a + 1)..(a + k) = {a + k} \cup ((a + 1)..(a + (k - 1)))
      BY <2>2
    <3> QED
      BY <3>3, <3>5, <3>6, Zenon
  <2> QED
    BY <2>1, <2>2
<1> HIDE DEF S, L
<1>2. \A k \in Nat : k \in S
  BY <1>1, BP!NumbersByInduction, BranchesAssumed, Zenon
<1>3. ASSUME NEW m \in a..Len(l)
      PROVE  Lin(l, s)[m] = Lin(l, s)[a] \cup ((a + 1)..m)
  <2>1. m - a \in Nat /\ a + (m - a) = m /\ m <= Len(l)
    OBVIOUS
  <2> QED
    BY <1>2, <2>1 DEF S, L
<1> QED
  BY <1>3

----------------------------------------------------------------------------
(* The greatest and the least of a set of numbers.                          *)

LEMMA HighestIs ==
  ASSUME NEW S \in SUBSET Nat, S # {}, NEW K \in Nat, \A n \in S : n <= K
  PROVE  Highest(S) \in S /\ \A n \in S : n <= Highest(S)
<1> DEFINE T == {K - n : n \in S}
<1>1. T \subseteq Nat /\ T # {}
  <2>1. \A n \in S : K - n \in Nat
    OBVIOUS
  <2> QED
    BY <2>1, Zenon
<1>2. PICK x \in T : \A y \in T : x <= y
  BY <1>1, BP!LeastExists, BranchesAssumed, Zenon
<1>3. PICK g \in S : x = K - g
  OBVIOUS
<1>4. ASSUME NEW n \in S PROVE n <= g
  <2>1. K - n \in T
    OBVIOUS
  <2> HIDE DEF T
  <2>2. x <= K - n
    BY <1>2, <2>1
  <2> QED
    BY <1>3, <2>2
<1> QED
  BY <1>4, Zenon DEF Highest

LEMMA LowestIs ==
  ASSUME NEW S \in SUBSET Nat, S # {}
  PROVE  Lowest(S) \in S /\ \A n \in S : Lowest(S) <= n
<1>1. \E x \in S : \A y \in S : x <= y
  BY BP!LeastExists, BranchesAssumed, Zenon
<1> QED
  BY <1>1, Zenon DEF Lowest

----------------------------------------------------------------------------
(* Types.                                                                   *)

Entry == [kind : {"work"}, who : Sessions] \cup [kind : {"rewind"}, target : Nat, scope : B!Scopes]

Snapshot   == [content : SUBSET Nat, applied : Nat]
Generations == [seq : Nat, content : SUBSET Nat]
Checkout   == [phase : {"none", "quiescing", "materialising"}, target : Nat,
               scope : B!Scopes, todo : SUBSET Sessions]

\* What is known of the log is in it, and nothing else is known.
TypeInv ==
  /\ up \in BOOLEAN
  /\ log \in Seq(Entry) /\ WellFormed(log) /\ HeadSeq <= MaxHead
  /\ kept \subseteq DOMAIN log
  /\ floorDue \in 0..(HeadSeq + 1)
  /\ disk \in [Sessions -> Snapshot] /\ gens \in [Sessions -> SUBSET Generations]
  /\ mem \in [Sessions -> SUBSET Nat] /\ memApplied \in [Sessions -> Nat]
  /\ \A s \in Sessions :
       /\ disk[s].content \subseteq DOMAIN log /\ disk[s].applied <= HeadSeq
       /\ \A g \in gens[s] : g.content \subseteq DOMAIN log /\ g.seq <= HeadSeq
       /\ mem[s] \subseteq DOMAIN log /\ memApplied[s] <= HeadSeq
  /\ rewinding \in Checkout /\ rewinding.target <= HeadSeq

\* Truncation keeps every reset record; without it nothing is gone.
KeptInv ==
  /\ \A n \in DOMAIN log : IsRecord(n) => n \in kept
  /\ truncations \in Nat
  /\ HistoryIsThere => kept = DOMAIN log /\ floorDue = 0

\* The sessions still to be materialised are in the scope of the latest record.
RewindInv ==
  /\ rewinding.phase # "materialising" => rewinding.todo = {}
  /\ ~up => rewinding = NoRewind
  /\ rewinding.phase = "materialising" =>
       /\ \E n \in DOMAIN log : IsRecord(n)
       /\ rewinding.scope = log[LatestRecord].scope
       /\ rewinding.todo \subseteq InScope(rewinding.scope)
       /\ ~InputDuringRewind =>
            \A s \in rewinding.todo : \A n \in DOMAIN log : IsWork(n, s) => n <= LatestRecord

----------------------------------------------------------------------------
(* What a session holds, compared with the lineage.                         *)

\* The work of s on the way back from n, in any log.
WorkOn(l, s, n) == {k \in Lin(l, s)[n] : l[k].kind = "work" /\ l[k].who = s}

LEMMA LineageWorkIs == \A s, n : LineageWork(s, n) = WorkOn(log, s, n)
BY DEF LineageWork, WorkOn, Lin, IsWork

\* All of it is there: nothing was truncated and nothing came in between.
Whole == HistoryIsThere /\ ~InputDuringRewind

Holds(content, s, n) ==
  /\ content \subseteq WorkOn(log, s, n)
  /\ Whole => WorkOn(log, s, n) \subseteq content

\* The same in the next state, of a content and a number of this one.
HoldsNext(content, s, n) ==
  /\ content \subseteq WorkOn(log', s, n)
  /\ Whole' => WorkOn(log', s, n) \subseteq content

NoRecordPast(s, n) == \A r \in B!RewindsFor(log, s) : r <= n

\* The snapshot file is about to be written by a checkout or by a recovery.
Pending(s) == IF up THEN s \in rewinding.todo ELSE s \in ToRecover

GensInv == \A s \in Sessions : \A g \in gens[s] : Holds(g.content, s, g.seq)
MemInv  == up => \A s \in Sessions \ rewinding.todo : Holds(mem[s], s, HeadSeq)
DiskInv ==
  \A s \in Sessions : ~Pending(s) =>
    Holds(disk[s].content, s, disk[s].applied) /\ NoRecordPast(s, disk[s].applied)

IInv == TypeInv /\ KeptInv /\ RewindInv /\ GensInv /\ MemInv /\ DiskInv

----------------------------------------------------------------------------
(* The log grows.                                                           *)

LEMMA LogFacts ==
  ASSUME TypeInv
  PROVE  /\ HeadSeq \in Nat /\ Len(log) = HeadSeq /\ DOMAIN log = 1..HeadSeq
         /\ \A n \in 1..HeadSeq : log[n] \in Entry
BY DEF TypeInv, HeadSeq

LEMMA RecordsFor ==
  ASSUME NEW l, NEW s
  PROVE  B!RewindsFor(l, s)
           = {r \in DOMAIN l : l[r].kind = "rewind" /\ l[r].scope \in {GLOBAL_SCOPE, s}}
BY DEF B!RewindsFor

\* l2 is l and one entry more.
OneLonger(l, l2) ==
  /\ WellFormed(l) /\ WellFormed(l2)
  /\ Len(l2) = Len(l) + 1 /\ \A n \in 1..Len(l) : l2[n] = l[n]

\* It leaves the way back from the entries before it.
LEMMA OneMore ==
  ASSUME NEW l, NEW l2, NEW s, OneLonger(l, l2), NEW h \in 0..Len(l)
  PROVE  WorkOn(l2, s, h) = WorkOn(l, s, h)
<1> USE DEF OneLonger
<1>1. /\ Len(l) \in Nat /\ Len(l) <= Len(l2)
      /\ DOMAIN l = 1..Len(l) /\ DOMAIN l2 = 1..Len(l2)
  BY DEF WellFormed, BP!WellFormed
<1>2. ASSUME NEW n \in 1..Len(l)
      PROVE  Pred(l, s, n) = Pred(l2, s, n)
  <2>1. n \in DOMAIN l /\ n \in DOMAIN l2 /\ l2[n] = l[n]
    BY <1>1
  <2>2. n \in B!RewindsFor(l2, s) <=> n \in B!RewindsFor(l, s)
    BY <2>1, RecordsFor, Zenon
  <2> QED
    BY <2>1, <2>2, PredecessorIs, Zenon
<1>3. Lin(l, s)[h] = Lin(l2, s)[h]
  BY <1>1, <1>2, LineageAgrees
<1>4. Lin(l, s)[h] \subseteq 1..h
  BY LineageFacts
<1>5. \A k \in Lin(l, s)[h] : l2[k] = l[k]
  BY <1>1, <1>4
<1> QED
  BY <1>3, <1>5, Zenon DEF WorkOn

\* If it is not a record of s, the way back from it goes on with what was there.
LEMMA OneMoreHead ==
  ASSUME NEW l, NEW l2, WellFormed(l), WellFormed(l2), Len(l2) = Len(l) + 1,
         \A n \in 1..Len(l) : l2[n] = l[n], NEW s,
         Len(l2) \notin B!RewindsFor(l2, s)
  PROVE  /\ B!RewindsFor(l2, s) = B!RewindsFor(l, s)
         /\ WorkOn(l2, s, Len(l2))
              = WorkOn(l, s, Len(l))
                  \cup {k \in {Len(l2)} : l2[k].kind = "work" /\ l2[k].who = s}
<1>1. /\ Len(l) \in Nat /\ Len(l) \in 0..Len(l) /\ Len(l2) \in 1..Len(l2)
      /\ DOMAIN l = 1..Len(l) /\ DOMAIN l2 = 1..Len(l2)
      /\ Len(l2) - 1 = Len(l)
      /\ DOMAIN l2 = DOMAIN l \cup {Len(l2)}
  BY DEF WellFormed, BP!WellFormed
<1>2. B!RewindsFor(l2, s) = B!RewindsFor(l, s)
  <2>1. \A r \in DOMAIN l : l2[r] = l[r]
    BY <1>1
  <2> QED
    BY <1>1, <2>1, RecordsFor, Zenon
<1>3. Pred(l2, s, Len(l2)) = Len(l)
  BY <1>1, PredecessorIs
<1>4. \A n \in 1..Len(l2) : Lin(l2, s)[n] = {n} \cup Lin(l2, s)[Pred(l2, s, n)]
  BY LineageFacts
<1>5. Lin(l2, s)[Len(l2)] = {Len(l2)} \cup Lin(l2, s)[Len(l)]
  BY <1>1, <1>3, <1>4, Zenon
<1>6. WorkOn(l2, s, Len(l2))
        = WorkOn(l2, s, Len(l)) \cup {k \in {Len(l2)} : l2[k].kind = "work" /\ l2[k].who = s}
  BY <1>5, Zenon DEF WorkOn
<1>7. WorkOn(l2, s, Len(l)) = WorkOn(l, s, Len(l))
  <2>1. OneLonger(l, l2)
    BY Zenon DEF OneLonger
  <2>2. Len(l) \in 0..Len(l)
    BY <1>1
  <2> QED
    BY <2>1, <2>2, OneMore
<1> QED
  BY <1>2, <1>6, <1>7

LEMMA LogGrows ==
  ASSUME TypeInv, NEW e \in Entry, e.kind = "rewind" => e.target \in 0..HeadSeq,
         log' = Append(log, e)
  PROVE  /\ log' \in Seq(Entry) /\ WellFormed(log') /\ HeadSeq' = HeadSeq + 1
         /\ DOMAIN log' = 1..(HeadSeq + 1)
         /\ \A n \in 1..HeadSeq : log'[n] = log[n]
         /\ log'[HeadSeq + 1] = e
<1>1. /\ log' \in Seq(Entry) /\ Len(log') = HeadSeq + 1 /\ HeadSeq \in Nat
      /\ DOMAIN log' = 1..(HeadSeq + 1) /\ DOMAIN log = 1..HeadSeq
      /\ \A n \in 1..HeadSeq : log'[n] = log[n]
      /\ log'[HeadSeq + 1] = e
      /\ HeadSeq' = HeadSeq + 1 /\ Len(log) = HeadSeq
  BY DEF TypeInv, HeadSeq
<1>2. ASSUME NEW r \in DOMAIN log', log'[r].kind = "rewind"
      PROVE  log'[r].target \in 0..(r - 1)
  <2>1. CASE r = HeadSeq + 1
    BY <1>1, <1>2, <2>1
  <2>2. CASE r # HeadSeq + 1
    <3>1. r \in DOMAIN log /\ log'[r] = log[r]
      BY <1>1, <2>2
    <3> QED
      BY <1>2, <3>1 DEF TypeInv, WellFormed, BP!WellFormed
  <2> QED
    BY <2>1, <2>2
<1> QED
  BY <1>1, <1>2 DEF WellFormed, BP!WellFormed

\* What a session holds at an earlier number it still holds there.
LEMMA HoldsStays ==
  ASSUME TypeInv, WellFormed(log'), HeadSeq' = HeadSeq + 1,
         \A n \in 1..HeadSeq : log'[n] = log[n], truncations' = truncations,
         NEW c, NEW s, NEW n \in 0..HeadSeq, Holds(c, s, n)
  PROVE  HoldsNext(c, s, n)
<1>1. WorkOn(log', s, n) = WorkOn(log, s, n)
  <2>1. OneLonger(log, log') /\ n \in 0..Len(log)
    BY DEF OneLonger, TypeInv, HeadSeq
  <2> QED
    BY <2>1, OneMore
<1> QED
  BY <1>1 DEF Holds, HoldsNext, Whole, HistoryIsThere

----------------------------------------------------------------------------
(* reconstruct.                                                             *)

\* What truncation left of the file has the same active entries as the log.
LEMMA InFileFacts ==
  ASSUME TypeInv, KeptInv, NEW s
  PROVE  /\ \A n \in 1..HeadSeq : B!IsActive(InFile, s, n) <=> n \in Lin(log, s)[HeadSeq]
         /\ B!IsActive(InFile, s, 0)
<1>0. HeadSeq \in Nat /\ Len(log) = HeadSeq /\ DOMAIN log = 1..HeadSeq
  BY LogFacts
<1>1. /\ Len(InFile) = HeadSeq /\ DOMAIN InFile = 1..HeadSeq
      /\ \A n \in 1..HeadSeq : InFile[n] = IF n \in kept THEN log[n] ELSE B!Work
  <2>1. InFile = [n \in 1..HeadSeq |-> IF n \in kept THEN log[n] ELSE B!Work]
    BY <1>0 DEF InFile
  <2>2. \A n \in 1..HeadSeq : (IF n \in kept THEN log[n] ELSE B!Work) \in Entry \cup {B!Work}
    BY LogFacts
  <2>3. InFile \in Seq(Entry \cup {B!Work})
    BY <1>0, <2>1, <2>2
  <2> QED
    BY <1>0, <2>1, <2>3
<1> HIDE DEF InFile
<1>2. \A n \in 1..HeadSeq : InFile[n].kind = "rewind" <=> log[n].kind = "rewind"
  BY <1>0, <1>1 DEF KeptInv, IsRecord, B!Work
<1>3. \A n \in 1..HeadSeq : log[n].kind = "rewind" => InFile[n] = log[n]
  BY <1>0, <1>1 DEF KeptInv, IsRecord
<1>4. WellFormed(InFile)
  <2>1. WellFormed(log)
    BY DEF TypeInv
  <2> QED
    BY <1>0, <1>1, <1>2, <1>3, <2>1 DEF WellFormed, BP!WellFormed
<1>5. B!RewindsFor(InFile, s) = B!RewindsFor(log, s)
  BY <1>0, <1>1, <1>2, <1>3, RecordsFor, Zenon
<1>6. \A n \in 1..HeadSeq : Pred(InFile, s, n) = Pred(log, s, n)
  <2>1. \A n \in B!RewindsFor(log, s) : n \in 1..HeadSeq /\ log[n].kind = "rewind"
    BY <1>0, RecordsFor
  <2> QED
    BY <1>3, <1>5, <2>1, PredecessorIs, Zenon
<1>7. Lin(InFile, s)[HeadSeq] = Lin(log, s)[HeadSeq]
  <2>1. HeadSeq <= Len(log) /\ HeadSeq <= Len(InFile) /\ HeadSeq \in 0..HeadSeq
    BY <1>0, <1>1
  <2>2. WellFormed(log)
    BY DEF TypeInv
  <2>3. \A h \in 0..HeadSeq : Lin(InFile, s)[h] = Lin(log, s)[h]
    BY <1>0, <1>4, <1>6, <2>1, <2>2, LineageAgrees
  <2> QED
    BY <2>1, <2>3
<1>8. /\ \A n \in 1..Len(InFile) : B!IsActive(InFile, s, n) <=> n \in Lin(InFile, s)[Len(InFile)]
      /\ B!IsActive(InFile, s, 0)
  BY <1>4, LineageFacts
<1> QED
  BY <1>1, <1>7, <1>8

\* Past the last record of s, the way back from the head is straight.
LEMMA StraightFrom ==
  ASSUME TypeInv, NEW s, NEW at \in 0..HeadSeq, NoRecordPast(s, at)
  PROVE  \A m \in at..HeadSeq : Lin(log, s)[m] = Lin(log, s)[at] \cup ((at + 1)..m)
<1>1. WellFormed(log) /\ Len(log) = HeadSeq /\ HeadSeq \in Nat
  BY LogFacts DEF TypeInv
<1>2. \A r \in B!RewindsFor(log, s) : r <= at
  BY DEF NoRecordPast
<1> HIDE DEF HeadSeq
<1>3. Len(log) \in Nat /\ at \in 0..Len(log)
  BY <1>1
<1>4. \A m \in at..Len(log) : Lin(log, s)[m] = Lin(log, s)[at] \cup ((at + 1)..m)
  BY <1>1, <1>2, <1>3, NoRecordBetween
<1> QED
  BY <1>1, <1>4

LEMMA WorkSince ==
  ASSUME TypeInv, NEW s, NEW at \in 0..HeadSeq, NoRecordPast(s, at), NEW m \in at..HeadSeq
  PROVE  WorkOn(log, s, m)
           = WorkOn(log, s, at) \cup {n \in (at + 1)..m : IsWork(n, s)}
<1>1. Lin(log, s)[m] = Lin(log, s)[at] \cup ((at + 1)..m)
  BY StraightFrom
<1> QED
  BY <1>1, Zenon DEF WorkOn, IsWork

\* reconstruct: the nearest active generation and the active entries after it are
\* the work on the way back, whatever truncation has removed of both.
LEMMA Reconstructs ==
  ASSUME TypeInv, KeptInv, GensInv, NEW s \in Sessions, NEW at \in 0..HeadSeq,
         NoRecordPast(s, at)
  PROVE  Holds(Reconstructed(s, at), s, at)
<1> DEFINE b == Base(s, at)
           U == Lin(log, s)
<1>0. HeadSeq \in Nat /\ Len(log) = HeadSeq /\ DOMAIN log = 1..HeadSeq /\ WellFormed(log)
  BY LogFacts DEF TypeInv
<1>1. \A n \in 1..at : B!IsActive(InFile, s, n) <=> n \in U[at]
  <2>1. U[HeadSeq] = U[at] \cup ((at + 1)..HeadSeq)
    BY <1>0, StraightFrom
  <2>2. \A n \in 1..at : n \in 1..HeadSeq /\ n \notin (at + 1)..HeadSeq
    BY <1>0
  <2>3. \A n \in 1..HeadSeq : B!IsActive(InFile, s, n) <=> n \in U[HeadSeq]
    BY InFileFacts
  <2> QED
    BY <2>1, <2>2, <2>3, Zenon
<1>2. U[at] \subseteq 1..at
  BY <1>0, LineageFacts
<1>3. /\ b.seq \in 0..at
      /\ b.content \subseteq WorkOn(log, s, b.seq)
      /\ Whole => WorkOn(log, s, b.seq) \subseteq b.content
      /\ b.seq = 0 \/ b.seq \in U[at]
  <2>1. CASE Bases(s, at) = {}
    <3>1. b.seq = 0 /\ b.content = {}
      BY <2>1 DEF Base
    <3>2. WorkOn(log, s, 0) = {}
      BY <1>0, LineageFacts DEF WorkOn
    <3> QED
      BY <3>1, <3>2
  <2>2. CASE Bases(s, at) # {}
    <3>1. \A g \in Bases(s, at) : g \in gens[s] /\ g.seq \in 0..at /\ B!IsActive(InFile, s, g.seq)
      BY DEF Bases, TypeInv, Generations
    <3>2. \E g \in Bases(s, at) : \A f \in Bases(s, at) : f.seq <= g.seq
      <4> DEFINE T == {g.seq : g \in Bases(s, at)}
      <4>1. T \in SUBSET Nat /\ T # {} /\ \A n \in T : n <= at
        BY <2>2, <3>1
      <4>2. at \in Nat
        BY <1>0
      <4>3. PICK h \in T : \A n \in T : n <= h
        <5> HIDE DEF T
        <5> QED
          BY <4>1, <4>2, HighestIs
      <4> QED
        BY <4>3
    <3>3. b \in Bases(s, at)
      BY <2>2, <3>2, Zenon DEF Base
    <3>4. Holds(b.content, s, b.seq)
      BY <3>1, <3>3 DEF GensInv
    <3>5. b.seq # 0 => b.seq \in U[at]
      BY <1>1, <3>1, <3>3
    <3> QED
      BY <3>1, <3>3, <3>4, <3>5 DEF Holds
  <2> QED
    BY <2>1, <2>2
<1>4. U[b.seq] = {k \in U[at] : k <= b.seq}
  <2>1. CASE b.seq = 0
    <3>1. {k \in U[at] : k <= 0} = {}
      BY <1>2
    <3> QED
      BY <1>0, <2>1, <3>1, LineageFacts
  <2>2. CASE b.seq \in U[at]
    BY <1>0, <2>2, LineageFacts
  <2> QED
    BY <1>3, <2>1, <2>2
<1> HIDE DEF b, U
<1>5. Reconstructed(s, at)
        = b.content \cup {n \in kept : b.seq < n /\ n <= at /\ IsWork(n, s) /\ B!IsActive(InFile, s, n)}
  BY DEF Reconstructed, b
<1>6. Reconstructed(s, at) \subseteq WorkOn(log, s, at)
  <2>1. b.content \subseteq WorkOn(log, s, at)
    BY <1>3, <1>4 DEF WorkOn, U
  <2>2. ASSUME NEW n \in kept, b.seq < n, n <= at, IsWork(n, s), B!IsActive(InFile, s, n)
        PROVE  n \in WorkOn(log, s, at)
    <3>1. n \in 1..at
      BY <1>0, <2>2 DEF TypeInv
    <3> QED
      BY <1>1, <2>2, <3>1 DEF WorkOn, IsWork, U
  <2> QED
    BY <1>5, <2>1, <2>2
<1>7. ASSUME Whole PROVE WorkOn(log, s, at) \subseteq Reconstructed(s, at)
  <2> SUFFICES ASSUME NEW n \in WorkOn(log, s, at) PROVE n \in Reconstructed(s, at)
    OBVIOUS
  <2>1. n \in U[at] /\ IsWork(n, s) /\ n \in 1..at
    BY <1>2 DEF WorkOn, IsWork, U
  <2>2. n \in kept
    BY <1>0, <1>7, <2>1 DEF KeptInv, Whole
  <2>3. CASE n <= b.seq
    <3>1. n \in WorkOn(log, s, b.seq)
      BY <1>4, <2>1, <2>3 DEF WorkOn, IsWork, U
    <3> QED
      BY <1>3, <1>5, <1>7, <3>1
  <2>4. CASE b.seq < n
    BY <1>1, <1>5, <2>1, <2>2, <2>4
  <2> QED
    BY <1>3, <2>1, <2>3, <2>4
<1> QED
  BY <1>6, <1>7 DEF Holds

----------------------------------------------------------------------------
(* Where nothing is written.                                                *)

LEMMA HighestUnique ==
  ASSUME NEW S \in SUBSET Nat, NEW x \in S, \A n \in S : n <= x
  PROVE  Highest(S) = x
<1>1. \E y \in S : \A k \in S : k <= y
  OBVIOUS
<1>2. Highest(S) \in S /\ \A k \in S : k <= Highest(S)
  BY <1>1, Zenon DEF Highest
<1>3. Highest(S) <= x /\ x <= Highest(S) /\ Highest(S) \in Nat /\ x \in Nat
  BY <1>2
<1> HIDE DEF Highest
<1> QED
  BY <1>3

LEMMA LatestIs ==
  ASSUME TypeInv, \E n \in DOMAIN log : IsRecord(n)
  PROVE  /\ LatestRecord \in 1..HeadSeq /\ IsRecord(LatestRecord)
         /\ \A s : NoRecordPast(s, LatestRecord)
<1> DEFINE S == {n \in DOMAIN log : IsRecord(n)}
<1>1. HeadSeq \in Nat /\ DOMAIN log = 1..HeadSeq
  BY LogFacts
<1>2. S \in SUBSET Nat /\ S # {} /\ \A n \in S : n <= HeadSeq
  BY <1>1
<1>3. Highest(S) \in S /\ \A n \in S : n <= Highest(S)
  <2> HIDE DEF S
  <2> QED
    BY <1>1, <1>2, HighestIs
<1>4. LatestRecord = Highest(S)
  BY DEF LatestRecord
<1>5. ASSUME NEW s PROVE NoRecordPast(s, LatestRecord)
  <2>1. B!RewindsFor(log, s) \subseteq S
    BY RecordsFor DEF IsRecord
  <2> QED
    BY <1>3, <1>4, <2>1 DEF NoRecordPast
<1> QED
  BY <1>1, <1>3, <1>4, <1>5

LEMMA NonePastHead ==
  ASSUME TypeInv, NEW s
  PROVE  NoRecordPast(s, HeadSeq)
BY LogFacts, RecordsFor DEF NoRecordPast

LEMMA UnchangedLog ==
  ASSUME UNCHANGED <<log, truncations>>
  PROVE  /\ HeadSeq' = HeadSeq /\ Whole' = Whole
         /\ \A c, s, n : HoldsNext(c, s, n) <=> Holds(c, s, n)
BY DEF HeadSeq, Whole, HistoryIsThere, Holds, HoldsNext

----------------------------------------------------------------------------
(* Each step keeps the invariant.                                           *)

LEMMA InitHolds == Init => IInv
<1> SUFFICES ASSUME Init PROVE IInv
  OBVIOUS
<1> USE RewindAssumption DEF Init
<1>1. log = <<>> /\ Len(log) = 0 /\ DOMAIN log = {} /\ HeadSeq = 0
  BY DEF HeadSeq
<1>2. TypeInv
  <2>1. WellFormed(log)
    BY <1>1 DEF WellFormed, BP!WellFormed
  <2> QED
    BY <1>1, <2>1 DEF TypeInv, Snapshot, Generations, Checkout, NoRewind, B!Scopes
<1>3. KeptInv
  BY <1>1 DEF KeptInv
<1>4. RewindInv
  BY DEF RewindInv, NoRewind
<1>5. \A s : WorkOn(log, s, 0) = {}
  BY <1>1, <1>2, LineageFacts DEF TypeInv, WorkOn
<1>6. GensInv /\ MemInv /\ DiskInv
  <2>1. \A s : NoRecordPast(s, 0)
    BY <1>1, RecordsFor DEF NoRecordPast
  <2> QED
    BY <1>1, <1>5, <2>1 DEF GensInv, MemInv, DiskInv, Holds
<1> QED
  BY <1>2, <1>3, <1>4, <1>6 DEF IInv

LEMMA MutateKeeps == ASSUME IInv, NEW s \in Sessions, Mutate(s) PROVE IInv'
<1> DEFINE h == HeadSeq + 1
<1>0. /\ TypeInv /\ HeadSeq \in Nat /\ DOMAIN log = 1..HeadSeq /\ up /\ HeadSeq < MaxHead
      /\ floorDue = 0 /\ MaxHead \in Nat
  BY LogFacts, RewindAssumption DEF IInv, Mutate, CanAppend
<1>1. /\ log' \in Seq(Entry) /\ WellFormed(log') /\ HeadSeq' = h
      /\ DOMAIN log' = 1..h /\ \A n \in 1..HeadSeq : log'[n] = log[n]
      /\ log'[h] = Work(s) /\ Len(log') = h
  <2>1. Work(s) \in Entry /\ Work(s).kind # "rewind"
    BY DEF Work, Entry
  <2>2. log' = Append(log, Work(s))
    BY DEF Mutate
  <2> QED
    BY <1>0, <2>1, <2>2, LogGrows DEF HeadSeq
<1>2. /\ kept' = kept \cup {h} /\ up' = up /\ truncations' = truncations
      /\ mem' = [mem EXCEPT ![s] = @ \cup {h}]
      /\ UNCHANGED <<floorDue, gens, rewinding>>
      /\ s \in rewinding.todo => InputDuringRewind
  BY <1>1 DEF Mutate
<1>3. \/ /\ disk' = [disk EXCEPT ![s] = [content |-> mem'[s], applied |-> h]]
         /\ memApplied' = [memApplied EXCEPT ![s] = h]
      \/ UNCHANGED <<disk, memApplied>>
  BY <1>1 DEF Mutate
<1> HIDE DEF HeadSeq, h
<1>h. h = HeadSeq + 1 /\ h \in Nat
  BY <1>0 DEF h
<1>4. TypeInv'
  <2>1. mem'[s] = mem[s] \cup {h} /\ \A t \in Sessions \ {s} : mem'[t] = mem[t]
    BY <1>0, <1>2 DEF TypeInv
  <2>2. mem' \in [Sessions -> SUBSET Nat] /\ \A t \in Sessions : mem'[t] \subseteq 1..h
    BY <1>0, <1>2, <1>h, <2>1 DEF TypeInv
  <2>3. /\ disk' \in [Sessions -> Snapshot] /\ memApplied' \in [Sessions -> Nat]
        /\ \A t \in Sessions : disk'[t].content \subseteq 1..h /\ disk'[t].applied <= h
                               /\ memApplied'[t] <= h
    <3>1. CASE UNCHANGED <<disk, memApplied>>
      BY <1>0, <1>h, <3>1 DEF TypeInv, Snapshot
    <3>2. CASE /\ disk' = [disk EXCEPT ![s] = [content |-> mem'[s], applied |-> h]]
               /\ memApplied' = [memApplied EXCEPT ![s] = h]
      <4>1. [content |-> mem'[s], applied |-> h] \in Snapshot
        BY <1>h, <2>2 DEF Snapshot
      <4>2. /\ disk'[s] = [content |-> mem'[s], applied |-> h] /\ memApplied'[s] = h
            /\ \A t \in Sessions \ {s} : disk'[t] = disk[t] /\ memApplied'[t] = memApplied[t]
        BY <1>0, <3>2 DEF TypeInv
      <4>3. disk' \in [Sessions -> Snapshot] /\ memApplied' \in [Sessions -> Nat]
        BY <1>0, <1>h, <3>2, <4>1 DEF TypeInv
      <4>4. \A t \in Sessions \ {s} : disk'[t].content \subseteq 1..h /\ disk'[t].applied <= h
                                      /\ memApplied'[t] <= h
        BY <1>0, <1>h, <4>2 DEF TypeInv, Snapshot
      <4> QED
        BY <1>h, <2>2, <4>2, <4>3, <4>4
    <3> QED
      BY <1>3, <3>1, <3>2
  <2>4. /\ gens' \in [Sessions -> SUBSET Generations]
        /\ \A t \in Sessions : \A g \in gens'[t] : g.content \subseteq 1..h /\ g.seq <= h
    BY <1>0, <1>2, <1>h DEF TypeInv, Generations
  <2>5. kept' \subseteq 1..h /\ floorDue' \in 0..(h + 1) /\ h <= MaxHead
    BY <1>0, <1>2, <1>h DEF TypeInv
  <2>6. rewinding' \in Checkout /\ rewinding'.target <= h /\ up' \in BOOLEAN
    BY <1>0, <1>2, <1>h DEF TypeInv, Checkout
  <2> QED
    BY <1>1, <2>2, <2>3, <2>4, <2>5, <2>6 DEF TypeInv
<1>5. KeptInv'
  BY <1>0, <1>1, <1>2, <1>h DEF IInv, KeptInv, HistoryIsThere, IsRecord, Work
<1>6. RewindInv'
  <2>1. {n \in 1..h : IsRecord(n)'} = {n \in 1..HeadSeq : IsRecord(n)}
    BY <1>0, <1>1, <1>h DEF IsRecord, Work
  <2>2. LatestRecord' = LatestRecord
    BY <1>0, <1>1, <2>1 DEF LatestRecord, Highest
  <2>3. (\E n \in DOMAIN log : IsRecord(n))
          => /\ \E n \in DOMAIN log' : IsRecord(n)'
             /\ log'[LatestRecord'] = log[LatestRecord]
    <3>1. (\E n \in DOMAIN log : IsRecord(n)) => LatestRecord \in 1..HeadSeq
      BY <1>0, LatestIs
    <3> QED
      BY <1>0, <1>1, <1>h, <2>2, <3>1 DEF IsRecord
  <2>4. \A t \in rewinding.todo : ~InputDuringRewind =>
          \A n \in DOMAIN log' : IsWork(n, t)' => n \in DOMAIN log /\ IsWork(n, t)
    BY <1>0, <1>1, <1>2, <1>h DEF IsWork, Work
  <2> HIDE DEF LatestRecord
  <2> QED
    BY <1>0, <1>2, <2>2, <2>3, <2>4 DEF IInv, RewindInv, InScope
<1>7. \A t \in Sessions : \A n \in 0..HeadSeq : \A c : Holds(c, t, n) => HoldsNext(c, t, n)
  BY <1>0, <1>1, <1>2, <1>h, HoldsStays
<1>8. \A t \in Sessions : B!RewindsFor(log', t) = B!RewindsFor(log, t)
  <2> SUFFICES ASSUME NEW t \in Sessions
               PROVE  B!RewindsFor(log', t) = B!RewindsFor(log, t)
    OBVIOUS
  <2>1. 1..h = (1..HeadSeq) \cup {h}
    BY <1>0, <1>h
  <2>2. log'[h].kind # "rewind"
    BY <1>1 DEF Work
  <2> QED
    BY <1>0, <1>1, <2>1, <2>2, RecordsFor, Zenon
<1>9. \A t \in Sessions : WorkOn(log', t, h) = WorkOn(log, t, HeadSeq) \cup (IF t = s THEN {h} ELSE {})
  <2> SUFFICES ASSUME NEW t \in Sessions
               PROVE  WorkOn(log', t, h)
                        = WorkOn(log, t, HeadSeq) \cup (IF t = s THEN {h} ELSE {})
    OBVIOUS
  <2>1. h \notin B!RewindsFor(log', t)
    BY <1>1, RecordsFor DEF Work
  <2>2. Len(log) = HeadSeq /\ WellFormed(log)
    BY <1>0 DEF TypeInv, HeadSeq
  <2>3. Len(log') = Len(log) + 1 /\ \A n \in 1..Len(log) : log'[n] = log[n]
    BY <1>1, <1>h, <2>2
  <2>4. WorkOn(log', t, h)
          = WorkOn(log, t, HeadSeq) \cup {k \in {h} : log'[k].kind = "work" /\ log'[k].who = t}
    BY <1>1, <2>1, <2>2, <2>3, OneMoreHead
  <2>5. {k \in {h} : log'[k].kind = "work" /\ log'[k].who = t} = IF t = s THEN {h} ELSE {}
    BY <1>1 DEF Work
  <2> QED
    BY <2>4, <2>5, Zenon
<1>w. Whole' = Whole
  BY <1>2 DEF Whole, HistoryIsThere
<1>10. GensInv'
  BY <1>0, <1>2, <1>7 DEF IInv, GensInv, TypeInv, Generations, HoldsNext, Holds
<1>11. MemInv'
  <2> SUFFICES ASSUME NEW t \in Sessions, t \notin rewinding.todo
               PROVE  Holds(mem[t], t, HeadSeq)'
    BY <1>1, <1>2, Zenon DEF MemInv
  <2>1. Holds(mem[t], t, HeadSeq)
    BY <1>0 DEF IInv, MemInv
  <2>2. mem'[t] = mem[t] \cup (IF t = s THEN {h} ELSE {})
    BY <1>0, <1>2 DEF TypeInv
  <2> QED
    BY <1>1, <1>9, <1>w, <2>1, <2>2 DEF Holds
<1>12. DiskInv'
  <2> SUFFICES ASSUME NEW t \in Sessions, ~Pending(t)'
               PROVE  (Holds(disk[t].content, t, disk[t].applied) /\ NoRecordPast(t, disk[t].applied))'
    BY Zenon DEF DiskInv
  <2>1. t \notin rewinding.todo /\ ~Pending(t)
    BY <1>0, <1>2 DEF Pending
  <2>2. CASE disk'[t] = disk[t]
    <3>1. Holds(disk[t].content, t, disk[t].applied) /\ NoRecordPast(t, disk[t].applied)
      BY <2>1 DEF IInv, DiskInv
    <3>2. disk[t].applied \in 0..HeadSeq
      BY <1>0 DEF TypeInv, Snapshot
    <3>3. NoRecordPast(t, disk[t].applied)'
      BY <1>8, <2>2, <3>1 DEF NoRecordPast
    <3>4. Holds(disk[t].content, t, disk[t].applied)'
      <4>1. Holds(disk[t].content, t, disk[t].applied) => HoldsNext(disk[t].content, t, disk[t].applied)
        BY <1>7, <3>2, Zenon
      <4> QED
        BY <2>2, <3>1, <4>1 DEF Holds, HoldsNext
    <3> QED
      BY <3>3, <3>4
  <2>3. CASE disk'[t] = [content |-> mem'[t], applied |-> h]
    <3>1. Holds(mem[t], t, HeadSeq)'
      BY <1>0, <1>2, <1>11, <2>1 DEF MemInv
    <3>2. NoRecordPast(t, HeadSeq)'
      BY <1>1, RecordsFor DEF NoRecordPast
    <3>3. disk'[t].content = mem'[t] /\ disk'[t].applied = HeadSeq'
      BY <1>1, <2>3
    <3> QED
      BY <3>1, <3>2, <3>3 DEF Holds, NoRecordPast
  <2>4. disk'[t] = disk[t] \/ disk'[t] = [content |-> mem'[t], applied |-> h]
    BY <1>0, <1>3 DEF TypeInv
  <2> QED
    BY <2>2, <2>3, <2>4
<1> QED
  BY <1>4, <1>5, <1>6, <1>10, <1>11, <1>12 DEF IInv

LEMMA CutGenerationKeeps ==
  ASSUME IInv, NEW s \in Sessions, CutGeneration(s) PROVE IInv'
<1>0. /\ TypeInv /\ HeadSeq \in Nat /\ DOMAIN log = 1..HeadSeq /\ up
  BY LogFacts DEF IInv, CutGeneration
<1>1. /\ UNCHANGED <<up, log, kept, floorDue, disk, mem, memApplied, rewinding, truncations>>
      /\ s \notin rewinding.todo
  BY DEF CutGeneration
<1>2. \A t \in Sessions : \A g \in gens'[t] :
        g \in gens[t] \/ (t = s /\ g = [seq |-> HeadSeq, content |-> mem[s]])
  BY <1>0 DEF CutGeneration, Generation, TypeInv
<1>3. HeadSeq' = HeadSeq /\ Whole' = Whole
  BY <1>1, UnchangedLog
<1>4. TypeInv'
  <2>1. [seq |-> HeadSeq, content |-> mem[s]] \in Generations
    BY <1>0 DEF TypeInv, Generations
  <2>2. \A t \in Sessions : gens'[t] \subseteq Generations
    BY <1>0, <1>2, <2>1 DEF TypeInv
  <2>3. gens' \in [Sessions -> SUBSET Generations]
    BY <1>0, <2>2 DEF CutGeneration, TypeInv
  <2>4. \A t \in Sessions : \A g \in gens'[t] : g.content \subseteq DOMAIN log /\ g.seq <= HeadSeq
    BY <1>0, <1>2 DEF TypeInv
  <2> QED
    BY <1>0, <1>1, <1>3, <2>3, <2>4 DEF TypeInv
<1>5. KeptInv' /\ RewindInv' /\ MemInv' /\ DiskInv'
  <2>1. KeptInv'
    BY <1>1 DEF IInv, KeptInv, HistoryIsThere, IsRecord
  <2>2. RewindInv'
    BY <1>1 DEF IInv, RewindInv, LatestRecord, IsRecord, IsWork
  <2>3. MemInv'
    BY <1>1, <1>3 DEF IInv, MemInv, Holds
  <2>4. DiskInv'
    BY <1>1, <1>3 DEF IInv, DiskInv, Holds, NoRecordPast, Pending, ToRecover, LatestRecord, IsRecord
  <2> QED
    BY <2>1, <2>2, <2>3, <2>4
<1>6. GensInv'
  <2>1. Holds(mem[s], s, HeadSeq)
    BY <1>0, <1>1 DEF IInv, MemInv
  <2>2. \A t \in Sessions : \A g \in gens[t] : Holds(g.content, t, g.seq)
    BY DEF IInv, GensInv
  <2>3. \A t \in Sessions : \A g \in gens'[t] : Holds(g.content, t, g.seq)
    BY <1>2, <2>1, <2>2
  <2> QED
    BY <1>1, <1>3, <2>3 DEF GensInv, Holds
<1> QED
  BY <1>4, <1>5, <1>6 DEF IInv

\* A step that writes neither the log nor what the sessions hold.
LEMMA SameContent ==
  ASSUME IInv, UNCHANGED <<log, kept, disk, mem, memApplied, gens, truncations>>
  PROVE  /\ KeptInv' <=> (HistoryIsThere => kept = DOMAIN log /\ floorDue' = 0)
         /\ GensInv'
         /\ up' = up /\ rewinding'.todo = rewinding.todo => MemInv' /\ DiskInv'
<1>1. HeadSeq' = HeadSeq /\ Whole' = Whole
  BY UnchangedLog
<1>2. KeptInv' <=> (HistoryIsThere => kept = DOMAIN log /\ floorDue' = 0)
  BY DEF IInv, KeptInv, HistoryIsThere, IsRecord
<1>3. GensInv'
  BY <1>1 DEF IInv, GensInv, Holds
<1>4. ASSUME up' = up, rewinding'.todo = rewinding.todo PROVE MemInv' /\ DiskInv'
  <2>1. MemInv'
    BY <1>1, <1>4 DEF IInv, MemInv, Holds
  <2>2. DiskInv'
    BY <1>1, <1>4 DEF IInv, DiskInv, Holds, NoRecordPast, Pending, ToRecover, LatestRecord, IsRecord
  <2> QED
    BY <2>1, <2>2
<1> QED
  BY <1>2, <1>3, <1>4

LEMMA RequestTruncateKeeps == ASSUME IInv, RequestTruncate PROVE IInv'
<1>0. TypeInv /\ HeadSeq \in Nat /\ DOMAIN log = 1..HeadSeq /\ up /\ rewinding = NoRewind
  BY LogFacts DEF IInv, RequestTruncate
<1>1. /\ UNCHANGED <<up, log, kept, disk, mem, memApplied, rewinding>>
      /\ truncations' = truncations + 1
      /\ floorDue' = Lowest(Watermarks) + 1
      /\ gens' = [s \in Sessions |-> {g \in gens[s] : g.seq >= floorDue'}]
      /\ Watermarks # {}
  BY DEF RequestTruncate, Floor
<1>2. HeadSeq' = HeadSeq /\ ~Whole' /\ ~HistoryIsThere'
  BY <1>1 DEF HeadSeq, Whole, HistoryIsThere, IInv, KeptInv
<1>3. \A s \in Sessions : gens'[s] \subseteq gens[s]
  BY <1>1
<1>4. TypeInv'
  <2>1. Watermarks \in SUBSET Nat /\ \A w \in Watermarks : w <= HeadSeq
    BY <1>0 DEF TypeInv, Watermarks
  <2>2. Lowest(Watermarks) \in Watermarks
    BY <1>1, <2>1, LowestIs
  <2>3. floorDue' \in 0..(HeadSeq + 1)
    <3>0. \A w \in Watermarks : w \in 0..HeadSeq
      BY <1>0, <2>1
    <3>1. Lowest(Watermarks) \in 0..HeadSeq
      BY <2>2, <3>0, Zenon
    <3>2. \A w \in 0..HeadSeq : w + 1 \in 0..(HeadSeq + 1)
      BY <1>0
    <3> QED
      BY <1>1, <3>1, <3>2, Zenon
  <2>4. gens' \in [Sessions -> SUBSET Generations]
    BY <1>0, <1>1, <1>3 DEF TypeInv
  <2>5. \A s \in Sessions : \A g \in gens'[s] : g.content \subseteq DOMAIN log /\ g.seq <= HeadSeq
    BY <1>0, <1>3 DEF TypeInv
  <2> QED
    BY <1>0, <1>1, <1>2, <2>3, <2>4, <2>5 DEF TypeInv
<1>5. KeptInv'
  BY <1>1, <1>2 DEF IInv, KeptInv, IsRecord
<1>6. RewindInv'
  BY <1>0, <1>1 DEF RewindInv, NoRewind
<1>7. GensInv'
  BY <1>1, <1>2, <1>3 DEF IInv, GensInv, Holds
<1>8. MemInv'
  BY <1>0, <1>1, <1>2 DEF IInv, MemInv, Holds
<1>9. DiskInv'
  BY <1>0, <1>1, <1>2 DEF IInv, DiskInv, Holds, NoRecordPast, Pending, NoRewind
<1> QED
  BY <1>4, <1>5, <1>6, <1>7, <1>8, <1>9 DEF IInv

LEMMA RewriteWalKeeps == ASSUME IInv, RewriteWal PROVE IInv'
<1>0. TypeInv /\ HeadSeq \in Nat /\ DOMAIN log = 1..HeadSeq
  BY LogFacts DEF IInv
<1>1. /\ UNCHANGED <<up, log, disk, gens, mem, memApplied, rewinding, truncations>>
      /\ up /\ kept' = Survivors(floorDue) /\ floorDue' = 0 /\ floorDue # 0
  BY <1>0 DEF RewriteWal, TypeInv
<1>2. ~HistoryIsThere /\ ~HistoryIsThere' /\ HeadSeq' = HeadSeq /\ Whole' = Whole
  BY <1>1 DEF IInv, KeptInv, HistoryIsThere, HeadSeq, Whole
<1>3. kept' \subseteq kept /\ \A n \in kept : IsRecord(n) => n \in kept'
  BY <1>1 DEF Survivors
<1>4. TypeInv'
  BY <1>0, <1>1, <1>2, <1>3 DEF TypeInv
<1>5. KeptInv'
  BY <1>1, <1>2, <1>3 DEF IInv, KeptInv, IsRecord
<1>6. RewindInv'
  BY <1>1 DEF IInv, RewindInv, LatestRecord, IsRecord, IsWork
<1>7. GensInv' /\ MemInv'
  BY <1>1, <1>2 DEF IInv, GensInv, MemInv, Holds
<1>8. DiskInv'
  BY <1>1, <1>2 DEF IInv, DiskInv, Holds, NoRecordPast, Pending
<1> QED
  BY <1>4, <1>5, <1>6, <1>7, <1>8 DEF IInv

LEMMA BeginCheckoutKeeps ==
  ASSUME IInv, NEW n \in DOMAIN log, NEW scope \in B!Scopes, BeginCheckout(n, scope)
  PROVE  IInv'
<1>0. TypeInv /\ HeadSeq \in Nat /\ DOMAIN log = 1..HeadSeq
  BY LogFacts DEF IInv
<1>1. /\ UNCHANGED <<up, log, kept, floorDue, disk, gens, mem, memApplied, truncations>>
      /\ up /\ rewinding = NoRewind
      /\ rewinding' = [phase |-> "quiescing", target |-> n, scope |-> scope, todo |-> {}]
  BY DEF BeginCheckout
<1>2. TypeInv'
  <2>1. rewinding' \in Checkout /\ rewinding'.target <= HeadSeq /\ HeadSeq' = HeadSeq
    BY <1>0, <1>1 DEF Checkout, HeadSeq
  <2> QED
    BY <1>0, <1>1, <2>1 DEF TypeInv
<1>3. KeptInv' /\ GensInv' /\ MemInv' /\ DiskInv'
  BY <1>1, SameContent DEF IInv, KeptInv, NoRewind
<1>4. RewindInv'
  BY <1>1 DEF RewindInv
<1> QED
  BY <1>2, <1>3, <1>4 DEF IInv

LEMMA AbortCheckoutKeeps == ASSUME IInv, AbortCheckout PROVE IInv'
<1>1. /\ UNCHANGED <<up, log, kept, floorDue, disk, gens, mem, memApplied, truncations>>
      /\ up /\ rewinding.phase = "quiescing" /\ rewinding' = NoRewind
  BY DEF AbortCheckout
<1>2. TypeInv'
  <2>1. NoRewind \in Checkout
    BY DEF Checkout, NoRewind, B!Scopes
  <2>2. rewinding' \in Checkout /\ rewinding'.target <= HeadSeq /\ HeadSeq' = HeadSeq
    BY <1>1, <2>1, LogFacts DEF NoRewind, HeadSeq, IInv
  <2> QED
    BY <1>1, <2>2 DEF TypeInv, IInv
<1>3. KeptInv' /\ GensInv' /\ MemInv' /\ DiskInv'
  BY <1>1, SameContent DEF IInv, KeptInv, RewindInv, NoRewind
<1>4. RewindInv'
  BY <1>1 DEF RewindInv, NoRewind
<1> QED
  BY <1>2, <1>3, <1>4 DEF IInv

LEMMA AppendRecordKeeps == ASSUME IInv, AppendRecord PROVE IInv'
<1> DEFINE h == HeadSeq + 1
           scope == rewinding.scope
           e == B!Rewound(rewinding.target, scope)
<1>0. /\ TypeInv /\ HeadSeq \in Nat /\ DOMAIN log = 1..HeadSeq /\ up /\ HeadSeq < MaxHead
      /\ floorDue = 0 /\ MaxHead \in Nat /\ rewinding.phase = "quiescing"
  BY LogFacts, RewindAssumption DEF IInv, AppendRecord, CanAppend
<1>e. /\ e \in Entry /\ e.kind = "rewind" /\ e.scope = scope /\ e.target \in 0..HeadSeq
      /\ scope \in B!Scopes /\ InScope(scope) \subseteq Sessions
  <2>1. rewinding \in Checkout /\ rewinding.target <= HeadSeq
    BY <1>0 DEF TypeInv
  <2> QED
    BY <1>0, <2>1 DEF Checkout, Entry, B!Rewound, B!Scopes, InScope
<1>1. /\ log' \in Seq(Entry) /\ WellFormed(log') /\ HeadSeq' = h
      /\ DOMAIN log' = 1..h /\ \A n \in 1..HeadSeq : log'[n] = log[n]
      /\ log'[h] = e /\ Len(log') = h
  <2>1. log' = Append(log, e)
    BY DEF AppendRecord
  <2> HIDE DEF e
  <2> QED
    BY <1>0, <1>e, <2>1, LogGrows DEF HeadSeq
<1>2. /\ kept' = kept \cup {h} /\ up' = up /\ truncations' = truncations
      /\ UNCHANGED <<floorDue, gens, disk, mem, memApplied>>
      /\ rewinding' = [rewinding EXCEPT !.phase = "materialising", !.todo = InScope(scope)]
  BY <1>1 DEF AppendRecord
<1>r. /\ rewinding'.todo = InScope(scope) /\ rewinding'.scope = scope
      /\ rewinding'.phase = "materialising" /\ rewinding'.target = rewinding.target
      /\ rewinding' \in Checkout
  BY <1>0, <1>2, <1>e DEF TypeInv, Checkout
<1> HIDE DEF HeadSeq, h, e, scope
<1>h. h = HeadSeq + 1 /\ h \in Nat
  BY <1>0 DEF h
<1>4. TypeInv'
  <2>1. rewinding'.target <= h
    BY <1>0, <1>r, <1>h DEF TypeInv, Checkout
  <2>2. kept' \subseteq 1..h /\ floorDue' \in 0..(h + 1) /\ h <= MaxHead
    BY <1>0, <1>2, <1>h DEF TypeInv
  <2>3. \A s \in Sessions :
          /\ disk[s].content \subseteq 1..h /\ disk[s].applied <= h
          /\ \A g \in gens[s] : g.content \subseteq 1..h /\ g.seq <= h
          /\ mem[s] \subseteq 1..h /\ memApplied[s] <= h
    BY <1>0, <1>h DEF TypeInv, Snapshot, Generations
  <2>4. up' \in BOOLEAN
    BY <1>0, <1>2
  <2> QED
    BY <1>0, <1>1, <1>2, <1>r, <2>1, <2>2, <2>3, <2>4 DEF TypeInv
<1>5. KeptInv'
  <2>1. 1..h = (1..HeadSeq) \cup {h}
    BY <1>0, <1>h
  <2> QED
    BY <1>0, <1>1, <1>2, <2>1 DEF IInv, KeptInv, HistoryIsThere, IsRecord
<1>l. LatestRecord' = h
  <2> DEFINE S == {n \in 1..h : log'[n].kind = "rewind"}
  <2>1. S \in SUBSET Nat /\ h \in S /\ \A n \in S : n <= h
    BY <1>0, <1>1, <1>e, <1>h
  <2>2. Highest(S) = h
    <3> HIDE DEF S
    <3> QED
      BY <2>1, HighestUnique
  <2> QED
    BY <1>1, <2>2 DEF LatestRecord, IsRecord, Highest
<1>6. RewindInv'
  <2>1. log'[h].kind = "rewind" /\ h \in DOMAIN log' /\ log'[h].scope = scope
    BY <1>0, <1>1, <1>e, <1>h
  <2>2. \A n \in DOMAIN log' : n <= h
    BY <1>0, <1>1, <1>h
  <2>3. (\E n \in DOMAIN log : IsRecord(n))'
    BY <2>1, Zenon DEF IsRecord
  <2>4. (\A n \in DOMAIN log : n <= LatestRecord)'
    BY <1>l, <2>2, Zenon
  <2>5. rewinding'.scope = log'[LatestRecord'].scope
    BY <1>l, <1>r, <2>1, Zenon
  <2>6. rewinding'.todo = InScope(rewinding'.scope)
    BY <1>r
  <2> HIDE DEF LatestRecord
  <2>7. /\ rewinding'.phase = "materialising" /\ up'
    BY <1>0, <1>2, <1>r
  <2> QED
    BY <2>3, <2>4, <2>5, <2>6, <2>7 DEF RewindInv, InScope
<1>7. \A t \in Sessions : \A n \in 0..HeadSeq : \A c : Holds(c, t, n) => HoldsNext(c, t, n)
  BY <1>0, <1>1, <1>2, <1>h, HoldsStays
<1>o. \A t \in Sessions \ rewinding'.todo :
        /\ B!RewindsFor(log', t) = B!RewindsFor(log, t)
        /\ WorkOn(log', t, h) = WorkOn(log, t, HeadSeq)
  <2> SUFFICES ASSUME NEW t \in Sessions, t \notin InScope(scope)
               PROVE  /\ B!RewindsFor(log', t) = B!RewindsFor(log, t)
                      /\ WorkOn(log', t, h) = WorkOn(log, t, HeadSeq)
    BY <1>r
  <2>1. h \notin B!RewindsFor(log', t)
    <3>1. scope \notin {GLOBAL_SCOPE, t}
      BY DEF InScope
    <3> QED
      BY <1>1, <1>e, <3>1, RecordsFor
  <2>2. Len(log) = HeadSeq /\ WellFormed(log)
    BY <1>0 DEF TypeInv, HeadSeq
  <2>3. Len(log') = Len(log) + 1 /\ \A n \in 1..Len(log) : log'[n] = log[n]
    BY <1>1, <1>h, <2>2
  <2>4. /\ B!RewindsFor(log', t) = B!RewindsFor(log, t)
        /\ WorkOn(log', t, h)
             = WorkOn(log, t, HeadSeq) \cup {k \in {h} : log'[k].kind = "work" /\ log'[k].who = t}
    BY <1>1, <2>1, <2>2, <2>3, OneMoreHead
  <2>5. {k \in {h} : log'[k].kind = "work" /\ log'[k].who = t} = {}
    BY <1>1, <1>e
  <2> QED
    BY <2>4, <2>5
<1>w. Whole' = Whole
  BY <1>2 DEF Whole, HistoryIsThere
<1>10. GensInv'
  BY <1>0, <1>2, <1>7 DEF IInv, GensInv, TypeInv, Generations, HoldsNext, Holds
<1>t. rewinding.todo = {}
  BY <1>0 DEF IInv, RewindInv
<1>11. MemInv'
  <2> SUFFICES ASSUME NEW t \in Sessions, t \notin rewinding'.todo
               PROVE  Holds(mem[t], t, HeadSeq)'
    BY <1>1, <1>2, Zenon DEF MemInv
  <2>1. Holds(mem[t], t, HeadSeq)
    BY <1>0, <1>t DEF IInv, MemInv
  <2> QED
    BY <1>1, <1>2, <1>o, <1>w, <2>1 DEF Holds
<1>12. DiskInv'
  <2> SUFFICES ASSUME NEW t \in Sessions, ~Pending(t)'
               PROVE  (Holds(disk[t].content, t, disk[t].applied) /\ NoRecordPast(t, disk[t].applied))'
    BY Zenon DEF DiskInv
  <2>1. t \notin rewinding'.todo /\ ~Pending(t)
    BY <1>0, <1>2, <1>t DEF Pending
  <2>2. Holds(disk[t].content, t, disk[t].applied) /\ NoRecordPast(t, disk[t].applied)
    BY <2>1 DEF IInv, DiskInv
  <2>3. disk[t].applied \in 0..HeadSeq
    BY <1>0 DEF TypeInv, Snapshot
  <2>4. HoldsNext(disk[t].content, t, disk[t].applied)
    BY <1>7, <2>2, <2>3, Zenon
  <2>5. B!RewindsFor(log', t) = B!RewindsFor(log, t)
    BY <1>o, <2>1
  <2> QED
    BY <1>2, <2>2, <2>4, <2>5 DEF Holds, HoldsNext, NoRecordPast
<1> QED
  BY <1>4, <1>5, <1>6, <1>10, <1>11, <1>12 DEF IInv

\* What a checkout or a recovery writes is the work on the way back from at.
LEMMA MaterialisedIs ==
  ASSUME IInv, NEW s \in Sessions, NEW at \in 0..HeadSeq, NoRecordPast(s, at)
  PROVE  /\ Materialised(s, at) \in Snapshot
         /\ Materialised(s, at).applied = at
         /\ Materialised(s, at).content \subseteq DOMAIN log
         /\ Holds(Materialised(s, at).content, s, at)
<1>1. Holds(Reconstructed(s, at), s, at)
  BY Reconstructs DEF IInv
<1>2. WorkOn(log, s, at) \subseteq DOMAIN log /\ DOMAIN log \subseteq Nat /\ at \in Nat
  <2>1. HeadSeq \in Nat /\ DOMAIN log = 1..HeadSeq /\ Len(log) = HeadSeq /\ WellFormed(log)
    BY LogFacts DEF IInv, TypeInv
  <2>2. Lin(log, s)[at] \subseteq 1..at
    BY <2>1, LineageFacts
  <2>3. 1..at \subseteq 1..HeadSeq
    BY <2>1
  <2> QED
    BY <2>1, <2>2, <2>3 DEF WorkOn
<1> QED
  BY <1>1, <1>2 DEF Materialised, Holds, Snapshot

\* Up to the head of the branch there is nothing but what came after.
LEMMA HoldsToHead ==
  ASSUME IInv, NEW s, NEW at \in 0..HeadSeq, NoRecordPast(s, at), NEW m \in at..HeadSeq,
         NEW c, Holds(c, s, at), NEW tail, tail \subseteq {n \in (at + 1)..m : IsWork(n, s)},
         Whole => {n \in (at + 1)..m : IsWork(n, s)} \subseteq tail
  PROVE  Holds(c \cup tail, s, m)
<1>1. WorkOn(log, s, m) = WorkOn(log, s, at) \cup {n \in (at + 1)..m : IsWork(n, s)}
  BY WorkSince DEF IInv
<1> QED
  BY <1>1 DEF Holds

LEMMA MaterialiseKeeps == ASSUME IInv, NEW s \in Sessions, Materialise(s) PROVE IInv'
<1> DEFINE at == LatestRecord
           m == Materialised(s, at)
<1>0. /\ TypeInv /\ HeadSeq \in Nat /\ DOMAIN log = 1..HeadSeq /\ up /\ s \in rewinding.todo
      /\ \E n \in DOMAIN log : IsRecord(n)
      /\ rewinding \in Checkout
      /\ ~InputDuringRewind => \A n \in DOMAIN log : IsWork(n, s) => n <= at
  BY LogFacts DEF IInv, TypeInv, RewindInv, Materialise, Checkout
<1>1. /\ UNCHANGED <<up, log, kept, floorDue, gens, truncations>>
      /\ disk' = [disk EXCEPT ![s] = m]
      /\ mem' = [mem EXCEPT ![s] = disk'[s].content]
      /\ memApplied' = [memApplied EXCEPT ![s] = disk'[s].applied]
      /\ rewinding' = IF rewinding.todo = {s} THEN NoRewind
                      ELSE [rewinding EXCEPT !.todo = @ \ {s}]
  BY DEF Materialise
<1>2. at \in 1..HeadSeq /\ at \in 0..HeadSeq /\ NoRecordPast(s, at)
  BY <1>0, LatestIs
<1>3. m \in Snapshot /\ m.applied = at /\ m.content \subseteq DOMAIN log /\ Holds(m.content, s, at)
  BY <1>2, MaterialisedIs
<1>4. Holds(m.content, s, HeadSeq)
  <2> DEFINE late == {n \in (at + 1)..HeadSeq : IsWork(n, s)}
  <2>1. Whole => late = {}
    BY <1>0, <1>2 DEF Whole
  <2>2. HeadSeq \in at..HeadSeq
    BY <1>0, <1>2
  <2>3. WorkOn(log, s, HeadSeq) = WorkOn(log, s, at) \cup late
    BY <1>0, <1>2, <2>2, WorkSince
  <2> QED
    BY <1>3, <2>1, <2>3 DEF Holds
<1> HIDE DEF at, m
<1>5. /\ disk'[s] = m /\ mem'[s] = m.content /\ memApplied'[s] = at
      /\ \A t \in Sessions \ {s} : disk'[t] = disk[t] /\ mem'[t] = mem[t] /\ memApplied'[t] = memApplied[t]
      /\ disk' \in [Sessions -> Snapshot] /\ mem' \in [Sessions -> SUBSET Nat]
      /\ memApplied' \in [Sessions -> Nat]
  BY <1>0, <1>1, <1>2, <1>3 DEF TypeInv, Snapshot
<1>6. HeadSeq' = HeadSeq /\ Whole' = Whole
  BY <1>1, UnchangedLog
<1>r. /\ rewinding'.todo = rewinding.todo \ {s} /\ rewinding' \in Checkout
      /\ rewinding'.target <= HeadSeq
  <2>1. CASE rewinding.todo = {s}
    BY <1>0, <1>1, <2>1 DEF NoRewind, Checkout, B!Scopes
  <2>2. CASE rewinding.todo # {s}
    BY <1>0, <1>1, <2>2 DEF Checkout, TypeInv
  <2> QED
    BY <2>1, <2>2
<1>7. TypeInv'
  <2>1. \A t \in Sessions :
          /\ disk'[t].content \subseteq DOMAIN log /\ disk'[t].applied <= HeadSeq
          /\ mem'[t] \subseteq DOMAIN log /\ memApplied'[t] <= HeadSeq
    <3> TAKE t \in Sessions
    <3>1. CASE t = s
      <4>1. at <= HeadSeq
        BY <1>0, <1>2
      <4> QED
        BY <1>3, <1>5, <3>1, <4>1
    <3>2. CASE t # s
      BY <1>0, <1>5, <3>2 DEF TypeInv
    <3> QED
      BY <3>1, <3>2
  <2> QED
    BY <1>0, <1>1, <1>5, <1>6, <1>r, <2>1 DEF TypeInv
<1>8. KeptInv'
  BY <1>1 DEF IInv, KeptInv, HistoryIsThere, IsRecord
<1>9. RewindInv'
  <2>1. CASE rewinding.todo = {s}
    BY <1>0, <1>1, <2>1 DEF NoRewind, RewindInv
  <2>2. CASE rewinding.todo # {s}
    <3>1. rewinding' = [rewinding EXCEPT !.todo = @ \ {s}]
      BY <1>1, <2>2
    <3>2. rewinding'.phase = rewinding.phase /\ rewinding'.scope = rewinding.scope
      BY <1>0, <3>1 DEF Checkout
    <3> QED
      BY <1>0, <1>1, <1>r, <3>2 DEF IInv, RewindInv, LatestRecord, IsRecord, IsWork
  <2> QED
    BY <2>1, <2>2
<1>10. GensInv'
  BY <1>1, <1>6 DEF IInv, GensInv, Holds
<1>11. MemInv'
  <2> SUFFICES ASSUME NEW t \in Sessions, t \notin rewinding'.todo
               PROVE  Holds(mem[t], t, HeadSeq)'
    BY Zenon DEF MemInv
  <2>1. CASE t = s
    BY <1>1, <1>4, <1>5, <1>6, <2>1 DEF Holds
  <2>2. CASE t # s
    <3>1. Holds(mem[t], t, HeadSeq)
      BY <1>0, <1>r, <2>2 DEF IInv, MemInv
    <3> QED
      BY <1>1, <1>5, <1>6, <2>2, <3>1 DEF Holds
  <2> QED
    BY <2>1, <2>2
<1>12. DiskInv'
  <2> SUFFICES ASSUME NEW t \in Sessions, ~Pending(t)'
               PROVE  (Holds(disk[t].content, t, disk[t].applied) /\ NoRecordPast(t, disk[t].applied))'
    BY Zenon DEF DiskInv
  <2>0. t \notin rewinding'.todo
    BY <1>0, <1>1 DEF Pending
  <2>1. CASE t = s
    BY <1>1, <1>2, <1>3, <1>5, <1>6, <2>1 DEF Holds, NoRecordPast
  <2>2. CASE t # s
    <3>1. Holds(disk[t].content, t, disk[t].applied) /\ NoRecordPast(t, disk[t].applied)
      BY <1>0, <1>r, <2>0, <2>2 DEF IInv, DiskInv, Pending
    <3> QED
      BY <1>1, <1>5, <1>6, <2>2, <3>1 DEF Holds, NoRecordPast
  <2> QED
    BY <2>1, <2>2
<1> QED
  BY <1>7, <1>8, <1>9, <1>10, <1>11, <1>12 DEF IInv

LEMMA CrashKeeps == ASSUME IInv, Crash PROVE IInv'
<1>0. TypeInv /\ HeadSeq \in Nat /\ DOMAIN log = 1..HeadSeq
  BY LogFacts DEF IInv
<1>1. /\ UNCHANGED <<log, kept, disk, gens, truncations>>
      /\ up /\ up' = FALSE /\ floorDue' = 0 /\ rewinding' = NoRewind
      /\ mem' = [s \in Sessions |-> {}] /\ memApplied' = [s \in Sessions |-> 0]
  BY DEF Crash
<1>2. HeadSeq' = HeadSeq /\ Whole' = Whole
  BY <1>1, UnchangedLog
<1>3. TypeInv'
  <2>1. NoRewind \in Checkout /\ NoRewind.target <= HeadSeq
    BY <1>0 DEF NoRewind, Checkout, B!Scopes
  <2>2. \A s \in Sessions : mem'[s] = {} /\ memApplied'[s] = 0
    BY <1>1
  <2>3. mem' \in [Sessions -> SUBSET Nat] /\ memApplied' \in [Sessions -> Nat]
    BY <1>1
  <2>4. 0 \in 0..(HeadSeq + 1)
    BY <1>0
  <2>5. up' \in BOOLEAN
    BY <1>1, Zenon
  <2> QED
    BY <1>0, <1>1, <1>2, <2>1, <2>2, <2>3, <2>4, <2>5 DEF TypeInv
<1>4. KeptInv'
  BY <1>1 DEF IInv, KeptInv, HistoryIsThere, IsRecord
<1>5. RewindInv'
  BY <1>1 DEF RewindInv, NoRewind
<1>6. GensInv' /\ MemInv'
  BY <1>1, <1>2 DEF IInv, GensInv, MemInv, Holds
<1>7. rewinding.todo \subseteq ToRecover
  <2>1. CASE rewinding.phase = "materialising"
    BY <2>1 DEF IInv, RewindInv, KeptInv, ToRecover
  <2>2. CASE rewinding.phase # "materialising"
    BY <2>2 DEF IInv, RewindInv
  <2> QED
    BY <2>1, <2>2
<1>8. DiskInv'
  <2>1. \A s : ~Pending(s)' => ~Pending(s)
    BY <1>1, <1>7 DEF Pending, ToRecover, LatestRecord, IsRecord
  <2> QED
    BY <1>1, <1>2, <2>1 DEF IInv, DiskInv, Holds, NoRecordPast
<1> QED
  BY <1>3, <1>4, <1>5, <1>6, <1>8 DEF IInv

LEMMA RecoverSomeKeeps == ASSUME IInv, NEW s \in Sessions, RecoverSome(s) PROVE IInv'
<1> DEFINE m == Materialised(s, HeadSeq)
<1>0. TypeInv /\ HeadSeq \in Nat /\ DOMAIN log = 1..HeadSeq /\ HeadSeq \in 0..HeadSeq
  BY LogFacts DEF IInv
<1>1. /\ UNCHANGED <<up, log, kept, floorDue, gens, mem, memApplied, rewinding, truncations>>
      /\ ~up /\ s \in ToRecover /\ disk' = [disk EXCEPT ![s] = m]
  BY DEF RecoverSome
<1>2. HeadSeq' = HeadSeq /\ Whole' = Whole
  BY <1>1, UnchangedLog
<1>3. m \in Snapshot /\ m.applied = HeadSeq /\ m.content \subseteq DOMAIN log
  BY <1>0, NonePastHead, MaterialisedIs
<1> HIDE DEF m
<1>4. /\ disk' \in [Sessions -> Snapshot] /\ disk'[s] = m
      /\ \A t \in Sessions \ {s} : disk'[t] = disk[t]
  BY <1>0, <1>1, <1>3 DEF TypeInv
<1>5. TypeInv'
  <2>1. \A t \in Sessions : disk'[t].content \subseteq DOMAIN log /\ disk'[t].applied <= HeadSeq
    BY <1>0, <1>3, <1>4 DEF TypeInv
  <2> QED
    BY <1>0, <1>1, <1>2, <1>4, <2>1 DEF TypeInv
<1>6. KeptInv' /\ RewindInv'
  BY <1>1 DEF IInv, KeptInv, HistoryIsThere, RewindInv, LatestRecord, IsRecord, IsWork
<1>7. GensInv' /\ MemInv'
  BY <1>1, <1>2 DEF IInv, GensInv, MemInv, Holds
<1>8. DiskInv'
  <2>1. \A t \in Sessions : ~Pending(t)' => ~Pending(t) /\ t # s
    BY <1>1 DEF Pending, ToRecover, LatestRecord, IsRecord
  <2> QED
    BY <1>1, <1>2, <1>4, <2>1 DEF IInv, DiskInv, Holds, NoRecordPast
<1> QED
  BY <1>5, <1>6, <1>7, <1>8 DEF IInv

LEMMA ToRecoverIsSessions == ASSUME TypeInv PROVE ToRecover \subseteq Sessions
<1>1. CASE \E n \in kept : IsRecord(n)
  <2>1. log[LatestRecord] \in Entry /\ log[LatestRecord].kind = "rewind"
    BY <1>1, LatestIs, LogFacts DEF TypeInv, IsRecord
  <2> QED
    BY <1>1, <2>1 DEF ToRecover, InScope, Entry, B!Scopes
<1>2. CASE ~\E n \in kept : IsRecord(n)
  BY <1>2 DEF ToRecover
<1> QED
  BY <1>1, <1>2

\* The replay of restore_all takes a snapshot with no rewind past it to the head.
LEMMA ReplayedIs ==
  ASSUME IInv, NEW s \in Sessions, NEW snapshot \in Snapshot, snapshot.applied <= HeadSeq,
         snapshot.content \subseteq DOMAIN log, NoRecordPast(s, snapshot.applied),
         Holds(snapshot.content, s, snapshot.applied)
  PROVE  LET r == Replayed(s, snapshot) IN
         /\ r \in Snapshot /\ r.content \subseteq DOMAIN log /\ r.applied <= HeadSeq
         /\ Holds(r.content, s, r.applied) /\ Holds(r.content, s, HeadSeq)
         /\ NoRecordPast(s, r.applied)
<1> DEFINE a == snapshot.applied
           tail == {n \in kept : n > a /\ IsWork(n, s)}
           T == {a} \cup tail
           top == Highest(T)
           r == Replayed(s, snapshot)
<1>0. /\ HeadSeq \in Nat /\ DOMAIN log = 1..HeadSeq /\ kept \subseteq 1..HeadSeq
      /\ a \in 0..HeadSeq /\ a \in Nat
  BY LogFacts DEF IInv, TypeInv, Snapshot
<1>1. r.content = snapshot.content \cup tail /\ r.applied = top
      /\ r = [content |-> snapshot.content \cup tail, applied |-> top]
  BY DEF Replayed
<1>2. top \in T /\ \A n \in T : n <= top
  <2>1. T \in SUBSET Nat /\ T # {} /\ \A n \in T : n <= HeadSeq
    BY <1>0
  <2> HIDE DEF T
  <2> QED
    BY <1>0, <2>1, HighestIs
<1> HIDE DEF top
<1>3. top \in a..HeadSeq /\ HeadSeq \in a..HeadSeq /\ top \in Nat
  <2>1. \A n \in T : n \in a..HeadSeq /\ n \in Nat
    <3>1. \A n \in tail : n \in 1..HeadSeq /\ n > a
      BY <1>0, Zenon
    <3>2. \A n \in 1..HeadSeq : n > a => n \in a..HeadSeq /\ n \in Nat
      BY <1>0
    <3>3. a \in a..HeadSeq /\ a \in Nat
      BY <1>0
    <3> QED
      BY <3>1, <3>2, <3>3, Zenon
  <2>2. top \in a..HeadSeq /\ top \in Nat
    BY <1>2, <2>1, Zenon
  <2> QED
    BY <1>0, <2>2
<1>4. Whole => kept = 1..HeadSeq
  BY <1>0 DEF IInv, KeptInv, Whole
<1>5. ASSUME NEW m \in a..HeadSeq, m >= top
      PROVE  Holds(r.content, s, m)
  <2>1. tail \subseteq {n \in (a + 1)..m : IsWork(n, s)}
    <3> SUFFICES ASSUME NEW n \in tail
                 PROVE  n \in (a + 1)..m /\ IsWork(n, s)
      BY Zenon
    <3>1. n <= top
      BY <1>2
    <3>2. n \in Nat /\ n > a /\ IsWork(n, s) /\ m \in Nat
      BY <1>0, <1>5
    <3> QED
      BY <1>0, <1>3, <1>5, <3>1, <3>2
  <2>2. Whole => {n \in (a + 1)..m : IsWork(n, s)} \subseteq tail
    BY <1>0, <1>4
  <2> HIDE DEF tail, a
  <2>3. a \in 0..HeadSeq /\ NoRecordPast(s, a) /\ Holds(snapshot.content, s, a)
    BY <1>0 DEF a
  <2>4. Holds(snapshot.content \cup tail, s, m)
    BY <2>1, <2>2, <2>3, HoldsToHead
  <2> QED
    BY <1>1, <2>4
<1>6. r.content \subseteq DOMAIN log
  BY <1>0, <1>1
<1>7. r \in Snapshot
  BY <1>0, <1>1, <1>3, <1>6 DEF Snapshot
<1>8. NoRecordPast(s, top)
  <2>1. B!RewindsFor(log, s) \subseteq Nat
    BY <1>0, RecordsFor
  <2> QED
    BY <1>0, <1>3, <2>1 DEF NoRecordPast
<1>9. top <= HeadSeq /\ top >= top /\ HeadSeq >= top
  BY <1>0, <1>3
<1> QED
  BY <1>1, <1>3, <1>5, <1>6, <1>7, <1>8, <1>9

LEMMA RestartKeeps == ASSUME IInv, Restart PROVE IInv'
<1> DEFINE from(s) == IF s \in ToRecover THEN Materialised(s, HeadSeq) ELSE disk[s]
<1>0. TypeInv /\ HeadSeq \in Nat /\ DOMAIN log = 1..HeadSeq /\ HeadSeq \in 0..HeadSeq
  BY LogFacts DEF IInv
<1>1. /\ UNCHANGED <<log, kept, floorDue, gens, rewinding, truncations>>
      /\ ~up /\ up' = TRUE
      /\ disk' = [s \in Sessions |-> Replayed(s, from(s))]
      /\ mem' = [s \in Sessions |-> disk'[s].content]
  BY DEF Restart
<1>2. \E idle : memApplied' = [s \in Sessions |-> IF s \in idle THEN 0 ELSE disk'[s].applied]
  BY DEF Restart
<1>3. HeadSeq' = HeadSeq /\ Whole' = Whole /\ rewinding = NoRewind
  BY <1>1, UnchangedLog DEF IInv, RewindInv
<1>4. ASSUME NEW s \in Sessions
      PROVE  /\ from(s) \in Snapshot /\ from(s).applied <= HeadSeq
             /\ from(s).content \subseteq DOMAIN log /\ NoRecordPast(s, from(s).applied)
             /\ Holds(from(s).content, s, from(s).applied)
  <2>1. CASE s \in ToRecover
    BY <1>0, <2>1, NonePastHead, MaterialisedIs
  <2>2. CASE s \notin ToRecover
    BY <1>0, <1>1, <2>2 DEF IInv, DiskInv, Pending, TypeInv
  <2> QED
    BY <2>1, <2>2
<1> HIDE DEF from
<1>5. \A s \in Sessions :
        /\ disk'[s] \in Snapshot /\ disk'[s].content \subseteq DOMAIN log
        /\ disk'[s].applied <= HeadSeq
        /\ Holds(disk'[s].content, s, disk'[s].applied) /\ Holds(disk'[s].content, s, HeadSeq)
        /\ NoRecordPast(s, disk'[s].applied)
  <2> TAKE s \in Sessions
  <2>1. disk'[s] = Replayed(s, from(s))
    BY <1>1
  <2> QED
    BY <1>4, <2>1, ReplayedIs
<1>6. TypeInv'
  <2>1. disk' \in [Sessions -> Snapshot]
    BY <1>1, <1>5
  <2>2. mem' \in [Sessions -> SUBSET Nat] /\ \A s \in Sessions : mem'[s] \subseteq DOMAIN log
    BY <1>0, <1>1, <1>5
  <2>3. memApplied' \in [Sessions -> Nat] /\ \A s \in Sessions : memApplied'[s] <= HeadSeq
    BY <1>0, <1>2, <1>5 DEF Snapshot
  <2>4. up' \in BOOLEAN
    BY <1>1, Zenon
  <2> QED
    BY <1>0, <1>1, <1>3, <1>5, <2>1, <2>2, <2>3, <2>4 DEF TypeInv
<1>7. KeptInv'
  BY <1>1 DEF IInv, KeptInv, HistoryIsThere, IsRecord
<1>8. RewindInv'
  BY <1>1, <1>3 DEF RewindInv, NoRewind
<1>9. GensInv'
  BY <1>1, <1>3 DEF IInv, GensInv, Holds
<1>10. MemInv'
  BY <1>1, <1>3, <1>5 DEF MemInv, Holds
<1>11. DiskInv'
  BY <1>1, <1>3, <1>5 DEF DiskInv, Holds, NoRecordPast
<1> QED
  BY <1>6, <1>7, <1>8, <1>9, <1>10, <1>11 DEF IInv

LEMMA NextKeeps == ASSUME IInv, [Next]_vars PROVE IInv'
<1>1. CASE UNCHANGED vars
  BY <1>1 DEF IInv, TypeInv, KeptInv, RewindInv, GensInv, MemInv, DiskInv, Holds, Whole,
              HistoryIsThere, NoRecordPast, Pending, ToRecover, LatestRecord, IsRecord, IsWork,
              HeadSeq
<1>2. CASE Next
  BY <1>2, MutateKeeps, CutGenerationKeeps, MaterialiseKeeps, RecoverSomeKeeps,
     BeginCheckoutKeeps, AppendRecordKeeps, AbortCheckoutKeeps, RequestTruncateKeeps,
     RewriteWalKeeps, CrashKeeps, RestartKeeps DEF Next
<1> QED
  BY <1>1, <1>2

LEMMA IInvAlways == Spec => []IInv
<1>1. Init => IInv
  BY InitHolds
<1>2. IInv /\ [Next]_vars => IInv'
  BY NextKeeps
<1> QED
  BY <1>1, <1>2, PTL DEF Spec

----------------------------------------------------------------------------
(* Results.                                                                 *)

\* Every variable stays within its type.
THEOREM TypeCorrect == Spec => []TypeOK
<1>1. IInv => TypeOK
  <2> SUFFICES ASSUME IInv PROVE TypeOK
    OBVIOUS
  <2>0. TypeInv /\ HeadSeq \in Nat /\ DOMAIN log = 1..HeadSeq
    BY LogFacts DEF IInv
  <2>1. \A n \in Nat : n <= HeadSeq => n \in 0..HeadSeq
    BY <2>0
  <2>2. \A s \in Sessions :
          /\ disk[s] \in [content : Contents, applied : 0..HeadSeq]
          /\ gens[s] \subseteq [seq : 0..HeadSeq, content : Contents]
          /\ mem[s] \in Contents /\ memApplied[s] \in 0..HeadSeq
    <3> TAKE s \in Sessions
    <3>1. disk[s] \in [content : Contents, applied : 0..HeadSeq]
      BY <2>0, <2>1 DEF TypeInv, Snapshot, Contents
    <3>2. gens[s] \subseteq [seq : 0..HeadSeq, content : Contents]
      BY <2>0, <2>1 DEF TypeInv, Generations, Contents
    <3>3. mem[s] \in Contents /\ memApplied[s] \in 0..HeadSeq
      BY <2>0, <2>1 DEF TypeInv, Contents
    <3> QED
      BY <3>1, <3>2, <3>3
  <2> QED
    BY <2>0, <2>2 DEF TypeInv, TypeOK, Checkout
<1> QED
  BY <1>1, IInvAlways, PTL

\* checkout, reconstruct and restore_all: between rewinds a session holds all the
\* work of its active branch and no other, through every crash, as long as
\* nothing was truncated.  It is said of a process where nothing reaches a session
\* that is being rewound: input that does is lost.
THEOREM StateIsTheActiveBranch ==
  ASSUME ~InputDuringRewind PROVE Spec => []StateIsActiveBranch
<1>1. IInv => StateIsActiveBranch
  <2> SUFFICES ASSUME IInv, HistoryIsThere, up, rewinding = NoRewind, NEW s \in Sessions
               PROVE  mem[s] = LineageWork(s, HeadSeq)
    BY DEF StateIsActiveBranch, RewindIsWhole, Settled
  <2>1. Holds(mem[s], s, HeadSeq)
    BY DEF IInv, MemInv, NoRewind
  <2>2. Whole
    BY DEF Whole
  <2> QED
    BY <2>1, <2>2, LineageWorkIs DEF Holds
<1> QED
  BY <1>1, IInvAlways, PTL

\* cut_generation: a generation is the work on the way to its number, on whatever
\* branch that lies by now.
THEOREM GenerationsStayExact ==
  ASSUME ~InputDuringRewind PROVE Spec => []GenerationsAreExact
<1>1. IInv => GenerationsAreExact
  BY LineageWorkIs DEF IInv, GensInv, Holds, Whole, GenerationsAreExact
<1> QED
  BY <1>1, IInvAlways, PTL

\* _materialize_rewind and restore_all: abandoned work never comes back, whatever
\* a truncation removed, whatever arrives meanwhile, however often the process dies.
THEOREM AbandonedWorkStaysDead == Spec => []AbandonedStaysDead
<1>1. IInv => AbandonedStaysDead
  BY LineageWorkIs DEF IInv, MemInv, Holds, Settled, NoRewind, AbandonedStaysDead
<1> QED
  BY <1>1, IInvAlways, PTL
=============================================================================
