-------------------------- MODULE LifecycleProofs --------------------------
(***************************************************************************)
(* What exists, for every set of agents, sessions, topologies and          *)
(* registries and every history of rewinds, truncations and deaths: the    *)
(* types, that a topology is what its last record on the branch says, that *)
(* a registry holds its last generation on the branch, pruned or not, and, *)
(* with names used once, that who is there is the branch's, that no        *)
(* rebuild removes what lives and that the members of a topology exist.    *)
(*                                                                         *)
(* The argument: a reset record is durable when it is written, so death    *)
(* takes back no part of the branch before the last durable number, and    *)
(* all the records after the last reset are on the branch.  A              *)
(* configuration generation never has a number past the durable one, and   *)
(* what a prune removes has a survivor of its registry above it.  A name   *)
(* used once has one birth, before everything else recorded of it, so the  *)
(* last record the code finds is the only one there is.  And whoever is    *)
(* drawn was made before: if a rebuild finds him missing and the record    *)
(* that names him on the branch, so is his birth, or it never was.         *)
(***************************************************************************)
EXTENDS Lifecycle, FiniteSetTheorems, SequenceTheorems, TLAPS

BP == INSTANCE BranchesProofs WITH wal <- log, Sessions <- Spawned

USE DEF vars, wal, files, ghost

----------------------------------------------------------------------------
(* What BranchesProofs shows of any log, in the terms of this module.       *)

WellFormed(l) == BP!WellFormed(l)

\* The ways back as a scope sees them, and the resets it sees.
Way(l, scope)  == B!Lineage(l, scope)
Seen(l, scope) == B!RewindsFor(l, scope)

LEMMA SameModel ==
  ASSUME NEW l, NEW s
  PROVE  /\ BP!RewindsFor(l, s) = B!RewindsFor(l, s)
         /\ BP!Lineage(l, s) = B!Lineage(l, s)
         /\ \A n : BP!Predecessor(l, s, n) = B!Predecessor(l, s, n)
         /\ \A n : BP!IsActive(l, s, n) <=> B!IsActive(l, s, n)
<1>1. BP!RewindsFor(l, s) = B!RewindsFor(l, s)
  BY DEF BP!RewindsFor, B!RewindsFor
<1>2. \A n : BP!Predecessor(l, s, n) = B!Predecessor(l, s, n)
  BY DEF BP!Predecessor, B!Predecessor, BP!RewindsFor, B!RewindsFor
<1>3. BP!Lineage(l, s) = B!Lineage(l, s)
  BY DEF BP!Lineage, B!Lineage, BP!Predecessor, B!Predecessor, BP!RewindsFor, B!RewindsFor
<1>4. BP!GapsFrom(l, s) = B!GapsFrom(l, s)
  BY DEF BP!GapsFrom, B!GapsFrom, BP!KeepUnlessMoot, B!KeepUnlessMoot, BP!Inside, B!Inside,
         BP!RewindsFor, B!RewindsFor
<1>5. \A n : BP!IsActive(l, s, n) <=> B!IsActive(l, s, n)
  BY <1>4 DEF BP!IsActive, B!IsActive, BP!AbandonedIntervals, B!AbandonedIntervals,
              BP!Inside, B!Inside
<1> QED
  BY <1>1, <1>2, <1>3, <1>5

LEMMA BranchesAssumed == BP!ScopesAssumption
BY LifecycleAssumption DEF BP!ScopesAssumption

LEMMA LineageFacts ==
  ASSUME NEW l, NEW scope, WellFormed(l)
  PROVE  /\ Way(l, scope)[0] = {}
         /\ \A n \in 1..Len(l) :
              Way(l, scope)[n] = {n} \cup Way(l, scope)[B!Predecessor(l, scope, n)]
         /\ \A h \in 0..Len(l) : Way(l, scope)[h] \subseteq 1..h
         /\ B!IsActive(l, scope, 0)
         /\ \A n \in 1..Len(l) : B!IsActive(l, scope, n) <=> n \in Way(l, scope)[Len(l)]
<1>1. /\ Way(l, scope)[0] = {}
      /\ \A n \in 1..Len(l) :
           Way(l, scope)[n] = {n} \cup Way(l, scope)[B!Predecessor(l, scope, n)]
  BY SameModel, BranchesAssumed, BP!LineageIs DEF WellFormed, Way
<1>2. \A h \in 0..Len(l) : Way(l, scope)[h] \subseteq 1..h
  BY SameModel, BranchesAssumed, BP!LineageType DEF WellFormed, Way
<1>3. B!IsActive(l, scope, 0)
  BY SameModel, BranchesAssumed, BP!NothingPassesZero DEF WellFormed
<1>4. \A n \in 1..Len(l) : B!IsActive(l, scope, n) <=> n \in Way(l, scope)[Len(l)]
  BY SameModel, BranchesAssumed, BP!ActiveIsOnLineage DEF WellFormed, Way
<1> QED
  BY <1>1, <1>2, <1>3, <1>4

LEMMA LineageAgrees ==
  ASSUME NEW l, NEW l2, NEW scope, WellFormed(l), WellFormed(l2),
         NEW H \in Nat, H <= Len(l), H <= Len(l2),
         \A n \in 1..H : l[n] = l2[n]
  PROVE  \A h \in 0..H : Way(l, scope)[h] = Way(l2, scope)[h]
<1>1. \A n \in 1..H : n \in DOMAIN l /\ n \in DOMAIN l2
  BY DEF WellFormed, BP!WellFormed
<1>2. \A n \in 1..H :
        BP!Predecessor(l, scope, n) = BP!Predecessor(l2, scope, n)
  BY <1>1 DEF BP!Predecessor, BP!RewindsFor
<1> QED
  BY <1>2, SameModel, BranchesAssumed, BP!LineageDependsOnPredecessors DEF WellFormed, Way

\* Where no reset lies between, the way back from m is the way back from a and all
\* numbers since.
LEMMA NoResetBetween ==
  ASSUME NEW l, NEW scope, WellFormed(l), Len(l) \in Nat, NEW a \in 0..Len(l),
         \A r \in Seen(l, scope) : r <= a
  PROVE  \A m \in a..Len(l) : Way(l, scope)[m] = Way(l, scope)[a] \cup ((a + 1)..m)
<1> DEFINE L == Len(l)
           S == {k \in Nat : a + k <= L =>
                   Way(l, scope)[a + k] = Way(l, scope)[a] \cup ((a + 1)..(a + k))}
<1>1. ASSUME NEW k \in Nat, \A j \in Nat : j < k => j \in S
      PROVE  k \in S
  <2> SUFFICES ASSUME a + k <= L
               PROVE  Way(l, scope)[a + k] = Way(l, scope)[a] \cup ((a + 1)..(a + k))
    OBVIOUS
  <2>1. CASE k = 0
    <3>1. a + k = a /\ (a + 1)..(a + k) = {}
      BY <2>1
    <3> QED
      BY <3>1
  <2>2. CASE k > 0
    <3>1. a + k \in 1..L /\ a + k \notin Seen(l, scope)
      BY <2>2
    <3>2. B!Predecessor(l, scope, a + k) = a + (k - 1)
      BY <3>1 DEF B!Predecessor, Seen
    <3>3. Way(l, scope)[a + k] = {a + k} \cup Way(l, scope)[a + (k - 1)]
      BY <3>1, <3>2, LineageFacts
    <3>4. k - 1 \in Nat /\ k - 1 < k /\ a + (k - 1) <= L
      BY <2>2
    <3>5. Way(l, scope)[a + (k - 1)] = Way(l, scope)[a] \cup ((a + 1)..(a + (k - 1)))
      BY <1>1, <3>4
    <3>6. (a + 1)..(a + k) = {a + k} \cup ((a + 1)..(a + (k - 1)))
      BY <2>2
    <3> QED
      BY <3>3, <3>5, <3>6, Zenon
  <2> QED
    BY <2>1, <2>2
<1> HIDE DEF S, L
<1>2. \A k \in Nat : k \in S
  BY <1>1, BP!NumbersByInduction, BranchesAssumed, Zenon
<1>3. ASSUME NEW m \in a..Len(l)
      PROVE  Way(l, scope)[m] = Way(l, scope)[a] \cup ((a + 1)..m)
  <2>1. m - a \in Nat /\ a + (m - a) = m /\ m <= Len(l)
    OBVIOUS
  <2> QED
    BY <1>2, <2>1 DEF S, L
<1> QED
  BY <1>3

----------------------------------------------------------------------------
(* Sets of numbers, and sets laid out in order.                             *)

\* A bounded non-empty set of numbers has a greatest element.
LEMMA GreatestExists ==
  ASSUME NEW S \in SUBSET Nat, S # {}, NEW K \in Nat, \A n \in S : n <= K
  PROVE  \E g \in S : \A n \in S : n <= g
<1> DEFINE T == {K - n : n \in S}
<1>1. T \in SUBSET Nat /\ T # {}
  <2>1. \A n \in S : K - n \in Nat
    OBVIOUS
  <2> QED
    BY <2>1, Zenon
<1>2. PICK x \in T : \A y \in T : x <= y
  BY <1>1, BP!LeastExists, BranchesAssumed, Zenon
<1>3. PICK g \in S : x = K - g
  OBVIOUS
<1>4. ASSUME NEW n \in S PROVE n <= g
  <2>1. K - n \in T
    OBVIOUS
  <2> HIDE DEF T
  <2> QED
    BY <2>1, <1>2, <1>3
<1> QED
  BY <1>4

\* Latest is the greatest number of a set of entries.
LEMMA LatestIs ==
  ASSUME NEW S \in SUBSET (Nat \ {0}), NEW K \in Nat, \A n \in S : n <= K
  PROVE  /\ Latest(S) \in Nat /\ Latest(S) <= K
         /\ Latest(S) = 0 <=> S = {}
         /\ S # {} => Latest(S) \in S /\ \A n \in S : n <= Latest(S)
<1>1. CASE S = {}
  BY <1>1 DEF Latest
<1>2. CASE S # {}
  <2>1. \E g \in S : \A n \in S : n <= g
    BY <1>2, GreatestExists
  <2>2. Latest(S) \in S /\ \A n \in S : n <= Latest(S)
    BY <1>2, <2>1, Zenon DEF Latest
  <2> QED
    BY <1>2, <2>2
<1> QED
  BY <1>1, <1>2

\* What is known to be the greatest number of a set is its Latest.
LEMMA LatestUnique ==
  ASSUME NEW S \in SUBSET (Nat \ {0}), NEW g \in S, \A n \in S : n <= g
  PROVE  Latest(S) = g
<1>1. g \in Nat
  OBVIOUS
<1>2. Latest(S) \in S /\ \A n \in S : n <= Latest(S)
  BY <1>1, LatestIs
<1>3. Latest(S) \in Nat /\ g <= Latest(S) /\ Latest(S) <= g
  BY <1>1, <1>2
<1> QED
  BY <1>1, <1>3

\* The elements of a finite set, one after the other.
LEMMA InOrderIs ==
  ASSUME NEW S, IsFiniteSet(S)
  PROVE  InOrder(S) \in Seq(S) /\ \A e \in S : \E i \in DOMAIN InOrder(S) : InOrder(S)[i] = e
<1> DEFINE n == Cardinality(S)
           f == SetToSeq(S)
<1>1. n \in Nat /\ ExistsBijection(1..n, S)
  BY FS_CardinalityType
<1>2. \E g \in [1..n -> S] : IsInjective(g)
  BY <1>1 DEF ExistsBijection, Bijection, Injection, IsInjective
<1>3. f \in [1..n -> S] /\ IsInjective(f)
  BY <1>2, Zenon DEF SetToSeq
<1>4. IsFiniteSet(1..n) /\ Cardinality(1..n) = n
  BY <1>1, FS_Interval
<1>5. f \in Injection(1..n, S)
  BY <1>3 DEF Injection, IsInjective
<1>6. f \in Surjection(1..n, S)
  BY <1>4, <1>5, FS_Injection
<1> HIDE DEF f
<1>7. \A e \in S : \E i \in 1..n : f[i] = e
  BY <1>6 DEF Surjection
<1>8. f \in Seq(S) /\ DOMAIN f = 1..n
  BY <1>1, <1>3
<1> QED
  BY <1>7, <1>8 DEF InOrder, f

\* What is left of a sequence cut behind its first entries.
LEMMA PrefixIs ==
  ASSUME NEW S, NEW l \in Seq(S), NEW d \in 0..Len(l)
  PROVE  /\ SubSeq(l, 1, d) \in Seq(S) /\ Len(SubSeq(l, 1, d)) = d
         /\ DOMAIN SubSeq(l, 1, d) = 1..d
         /\ \A n \in 1..d : n \in DOMAIN l /\ SubSeq(l, 1, d)[n] = l[n]
<1>1. d \in Nat /\ Len(l) \in Nat /\ \A i \in 1..d : i \in DOMAIN l /\ l[i] \in S
  OBVIOUS
<1>2. /\ SubSeq(l, 1, d) \in Seq(S)
      /\ Len(SubSeq(l, 1, d)) = IF 1 <= d THEN d - 1 + 1 ELSE 0
      /\ \A i \in 1..(d - 1 + 1) : SubSeq(l, 1, d)[i] = l[1 + i - 1]
  <2>1. 1 \in Int /\ d \in Int /\ \A i \in 1..d : l[i] \in S
    BY <1>1
  <2> QED
    BY <2>1, SubSeqProperties, SMT
<1>3. Len(SubSeq(l, 1, d)) = d
  BY <1>1, <1>2
<1>4. \A i \in 1..d : i \in 1..(d - 1 + 1) /\ 1 + i - 1 = i
  BY <1>1
<1>5. \A i \in 1..d : SubSeq(l, 1, d)[i] = l[1 + i - 1]
  BY <1>2, <1>4, Zenon
<1>6. \A i \in 1..d : SubSeq(l, 1, d)[i] = l[i]
  BY <1>4, <1>5
<1> QED
  BY <1>1, <1>2, <1>3, <1>6

\* What a function makes of a finite set is finite.
LEMMA ImageIsFinite ==
  ASSUME NEW D, IsFiniteSet(D), NEW f, DOMAIN f = D
  PROVE  IsFiniteSet({f[x] : x \in D})
<1> DEFINE T == {f[x] : x \in D}
           g == [x \in D |-> f[x]]
<1>1. g \in Surjection(D, T)
  BY DEF Surjection
<1> QED
  BY <1>1, FS_Surjection

----------------------------------------------------------------------------
(* The log, the records that are owed and the materialisation.              *)

Owing ==
  [kind : {"vanished"}, who : Spawned]
    \cup [kind : {"sweep", "cascade"}, who : Agents]
    \cup [kind : {"topology"}, who : Topologies, members : SUBSET Agents]

Entries ==
  Owing
    \cup [kind : {"created", "archived", "purged"}, who : Agents]
    \cup [kind : {"spawned"}, who : Spawned]
    \cup [kind : {"rewind"}, target : Nat, scope : B!Scopes]

Resets == {n \in DOMAIN log : IsRewind(n)}

\* A reset record leads back, and is durable: checkout waits for it.
LogInv ==
  /\ log \in Seq(Entries) /\ durable \in 0..Len(log)
  /\ \A n \in Resets : log[n].target \in 0..(n - 1) /\ n <= durable

\* What is materialised is what the latest reset record says.
MatInv ==
  /\ mat \in [step : {"none", "decided", "agents"}, scope : B!Scopes,
              todo : SUBSET Agents, purges : SUBSET Spawned]
  /\ mat.step # "none" =>
       \E n \in Resets : log[n].scope = mat.scope /\ \A k \in Resets : k <= n

RecordInv == LogInv /\ owed \in Seq(Owing) /\ MatInv

LEMMA EntryFields ==
  ASSUME NEW e \in Entries
  PROVE  /\ e.kind = "rewind" => e.scope \in B!Scopes /\ e.target \in Nat
         /\ e.kind = "topology" => e.who \in Topologies /\ e.members \in SUBSET Agents
BY DEF Entries, Owing

LEMMA OwingFields ==
  ASSUME NEW r \in Owing
  PROVE  /\ r \in Entries /\ r.kind # "rewind"
         /\ r.kind \in {"sweep", "cascade"} => r.who \in Agents
         /\ r.kind = "topology" => r.who \in Topologies /\ r.members \in SUBSET Agents
BY DEF Entries, Owing

\* The records the operations append.
LEMMA RecordFields ==
  /\ \A x \in Agents, kind \in {"created", "archived", "purged"} :
       Record(kind, x) \in Entries /\ Record(kind, x).kind = kind
  /\ \A x \in Agents, kind \in {"sweep", "cascade"} : Record(kind, x) \in Owing
  /\ \A s \in Spawned : Record("spawned", s) \in Entries /\ Record("vanished", s) \in Owing
  /\ \A t \in Topologies, members \in SUBSET Agents : Drawn(t, members) \in Owing
  /\ Owing \subseteq Entries
BY DEF Entries, Owing, Record, Drawn

LEMMA LogIsWellFormed ==
  ASSUME LogInv
  PROVE  /\ WellFormed(log) /\ Len(log) \in Nat /\ DOMAIN log = 1..Len(log) /\ durable \in Nat
         /\ Resets \subseteq 1..durable /\ \A scope : Seen(log, scope) \subseteq Resets
         /\ \A n \in DOMAIN log : log[n] \in Entries
<1>1. Len(log) \in Nat /\ DOMAIN log = 1..Len(log) /\ \A n \in DOMAIN log : log[n] \in Entries
  BY DEF LogInv
<1>2. WellFormed(log)
  BY <1>1 DEF LogInv, Resets, IsRewind, WellFormed, BP!WellFormed
<1>3. Resets \subseteq 1..durable /\ durable \in Nat
  BY <1>1 DEF LogInv, Resets
<1>4. \A scope : Seen(log, scope) \subseteq Resets
  BY DEF Seen, B!RewindsFor, Resets, IsRewind
<1> QED
  BY <1>1, <1>2, <1>3, <1>4

\* The numbers on a scope's branch, and what is_active says of each.
LEMMA NowIs ==
  ASSUME NEW scope, LogInv
  PROVE  /\ Now(scope) = Way(log, scope)[Len(log)]
         /\ Now(scope) \subseteq 1..Len(log)
         /\ Active(0, scope)
         /\ \A n \in 1..Len(log) : Active(n, scope) <=> n \in Now(scope)
         /\ \A n \in 1..Len(log) : (\A r \in Resets : r <= n) => n \in Now(scope)
         /\ \A n \in 1..Len(log) : n >= durable => n \in Now(scope)
<1> DEFINE L == Len(log)
           N == Now(scope)
<1>1. N = Way(log, scope)[L]
  BY DEF Now, Way
<1>2. WellFormed(log) /\ L \in Nat /\ durable \in Nat /\ durable <= L
  BY LogIsWellFormed DEF LogInv
<1>3. N \subseteq 1..L
  BY <1>1, <1>2, LineageFacts
<1>4. Active(0, scope) /\ \A n \in 1..L : Active(n, scope) <=> n \in N
  BY <1>1, <1>2, LineageFacts DEF Active
<1>5. ASSUME NEW n \in 1..L, \A r \in Resets : r <= n PROVE n \in N
  <2>1. \A r \in Seen(log, scope) : r <= n
    BY <1>5, LogIsWellFormed
  <2>2. N = Way(log, scope)[n] \cup ((n + 1)..L)
    BY <1>1, <1>2, <2>1, NoResetBetween
  <2>3. n \in Way(log, scope)[n]
    BY <1>2, LineageFacts
  <2> QED
    BY <2>2, <2>3
<1>6. \A n \in 1..L : n >= durable => n \in N
  <2>1. \A r \in Resets : r \in Nat /\ r <= durable
    BY LogIsWellFormed, <1>2
  <2> QED
    BY <1>2, <1>5, <2>1
<1> QED
  BY <1>1, <1>3, <1>4, <1>5, <1>6

----------------------------------------------------------------------------
(* How the log changes, and the branch with it.                             *)

\* One entry more.
Grew(e) ==
  /\ Len(log') = Len(log) + 1
  /\ \A n \in 1..Len(log) : log'[n] = log[n]
  /\ log'[Len(log) + 1] = e

LEMMA AppendGrows ==
  ASSUME LogInv, NEW e \in Entries, log' = Append(log, e)
  PROVE  Grew(e) /\ log' \in Seq(Entries) /\ DOMAIN log' = 1..(Len(log) + 1) /\ Len(log) \in Nat
BY DEF LogInv, Grew

\* Whoever does not see the entry as a reset is a number further on the same branch.
LEMMA BranchGrows ==
  ASSUME NEW scope, LogInv, LogInv', NEW e, Grew(e),
         e.kind = "rewind" => e.scope \notin {GLOBAL_SCOPE, scope}
  PROVE  Now(scope)' = Now(scope) \cup {Len(log) + 1}
<1> DEFINE L == Len(log)
<1>1. /\ WellFormed(log) /\ WellFormed(log') /\ L \in Nat /\ Len(log') = L + 1
      /\ DOMAIN log' = 1..(L + 1)
  <2>1. WellFormed(log) /\ L \in Nat
    BY LogIsWellFormed
  <2>2. WellFormed(log') /\ DOMAIN log' = 1..Len(log') /\ Len(log') = L + 1
    BY DEF LogInv, WellFormed, BP!WellFormed, Resets, IsRewind, Grew
  <2> QED
    BY <2>1, <2>2
<1>2. \A h \in 0..L : Way(log', scope)[h] = Way(log, scope)[h]
  <2>1. \A n \in 1..L : log'[n] = log[n]
    BY DEF Grew
  <2> QED
    BY <1>1, <2>1, LineageAgrees
<1>3. L + 1 \notin Seen(log', scope)
  BY <1>1 DEF Grew, Seen, B!RewindsFor
<1>4. B!Predecessor(log', scope, L + 1) = L
  BY <1>1, <1>3 DEF B!Predecessor, Seen
<1>5. Way(log', scope)[L + 1] = {L + 1} \cup Way(log', scope)[L]
  BY <1>1, <1>4, LineageFacts
<1>6. Way(log', scope)[L + 1] = Way(log, scope)[L] \cup {L + 1}
  BY <1>1, <1>2, <1>5
<1> QED
  BY <1>1, <1>6 DEF Now, Way

\* A record: on whatever branch there is, the branch goes on.
LEMMA RecordAppended ==
  ASSUME LogInv, NEW e \in Entries, e.kind # "rewind",
         NEW w \in durable..Len(log), Append1(e, w)
  PROVE  /\ LogInv' /\ Grew(e) /\ durable <= durable'
         /\ Resets' = Resets /\ \A n \in Resets : log'[n] = log[n]
         /\ Now(GLOBAL_SCOPE)' = Now(GLOBAL_SCOPE) \cup {Len(log) + 1}
<1> DEFINE L == Len(log)
<1>1. /\ Grew(e) /\ log' \in Seq(Entries) /\ DOMAIN log' = 1..(L + 1) /\ L \in Nat
      /\ DOMAIN log = 1..L /\ durable \in 0..L
  BY AppendGrows, LogIsWellFormed DEF Append1, LogInv
<1>2. durable' \in durable..(L + 1)
  <2>1. durable' = Larger(w, (L + 1) - MaxQueued) /\ MaxQueued \in Nat \ {0}
    BY <1>1, LifecycleAssumption DEF Append1, Grew
  <2> QED
    BY <1>1, <2>1 DEF Larger
<1>3. Resets' = Resets /\ \A n \in Resets : n \in 1..L /\ log'[n] = log[n]
  BY <1>1 DEF Resets, IsRewind, Grew
<1>4. LogInv'
  <2>1. durable' \in 0..Len(log')
    BY <1>1, <1>2 DEF Grew
  <2>2. \A n \in Resets' : log'[n].target \in 0..(n - 1) /\ n <= durable'
    BY <1>1, <1>2, <1>3 DEF LogInv
  <2> QED
    BY <1>1, <2>1, <2>2 DEF LogInv
<1>5. Now(GLOBAL_SCOPE)' = Now(GLOBAL_SCOPE) \cup {L + 1}
  BY <1>1, <1>4, BranchGrows
<1> QED
  BY <1>1, <1>2, <1>3, <1>4, <1>5

\* A reset record: only a rewind of everything leaves the branch.
LEMMA ResetAppended ==
  ASSUME LogInv, NEW target \in DOMAIN log, NEW scope \in B!Scopes,
         Append1(B!Rewound(target, scope), Len(log) + 1)
  PROVE  /\ LogInv' /\ Grew(B!Rewound(target, scope)) /\ durable <= durable'
         /\ Resets' = Resets \cup {Len(log) + 1}
         /\ \A n \in Resets : n < Len(log) + 1
         /\ scope # GLOBAL_SCOPE =>
              Now(GLOBAL_SCOPE)' = Now(GLOBAL_SCOPE) \cup {Len(log) + 1}
<1> DEFINE L == Len(log)
           e == B!Rewound(target, scope)
<1>1. DOMAIN log = 1..L /\ durable \in 0..L /\ L \in Nat
  BY LogIsWellFormed DEF LogInv
<1>2. /\ e \in Entries /\ e.kind = "rewind" /\ e.target = target /\ e.scope = scope
      /\ target \in 1..L
  <2>1. target \in 1..L /\ target \in Nat
    BY <1>1
  <2>2. e \in Entries
    BY <2>1 DEF Entries, B!Rewound
  <2> QED
    BY <2>1, <2>2 DEF B!Rewound
<1> HIDE DEF e
<1>3. Grew(e) /\ log' \in Seq(Entries) /\ DOMAIN log' = 1..(L + 1)
  BY <1>2, AppendGrows DEF Append1, e
<1>4. durable' = L + 1
  <2>1. durable' = Larger(L + 1, (L + 1) - MaxQueued) /\ MaxQueued \in Nat \ {0}
    BY <1>3, LifecycleAssumption DEF Append1, Grew
  <2> QED
    BY <1>1, <2>1 DEF Larger
<1>5. Resets' = Resets \cup {L + 1} /\ \A n \in Resets : n \in 1..L /\ log'[n] = log[n]
  BY <1>1, <1>2, <1>3 DEF Resets, IsRewind, Grew
<1>6. LogInv'
  <2>1. durable' \in 0..Len(log')
    BY <1>1, <1>3, <1>4 DEF Grew
  <2>2. \A n \in Resets' : log'[n].target \in 0..(n - 1) /\ n <= durable'
    BY <1>1, <1>2, <1>3, <1>4, <1>5 DEF LogInv, Grew
  <2> QED
    BY <1>3, <2>1, <2>2 DEF LogInv
<1>7. ASSUME scope # GLOBAL_SCOPE
      PROVE  Now(GLOBAL_SCOPE)' = Now(GLOBAL_SCOPE) \cup {L + 1}
  BY <1>2, <1>3, <1>6, <1>7, BranchGrows
<1> QED
  BY <1>1, <1>3, <1>4, <1>5, <1>6, <1>7 DEF e

\* The first entries, and no more.
CutBack ==
  /\ log' \in Seq(Entries) /\ Len(log') = durable' /\ DOMAIN log' = 1..durable'
  /\ \A n \in 1..durable' : n \in DOMAIN log /\ log'[n] = log[n]

LEMMA SubSeqCutsBack ==
  ASSUME LogInv, durable' \in 0..Len(log), log' = SubSeq(log, 1, durable')
  PROVE  CutBack
<1>1. log \in Seq(Entries)
  BY DEF LogInv
<1>2. /\ SubSeq(log, 1, durable') \in Seq(Entries)
      /\ Len(SubSeq(log, 1, durable')) = durable'
      /\ DOMAIN SubSeq(log, 1, durable') = 1..durable'
      /\ \A n \in 1..durable' : n \in DOMAIN log /\ SubSeq(log, 1, durable')[n] = log[n]
  BY <1>1, PrefixIs, Zenon
<1> QED
  BY <1>2, Zenon DEF CutBack

LEMMA BranchCut ==
  ASSUME NEW scope, LogInv, LogInv', durable' \in durable..Len(log), CutBack
  PROVE  Now(scope)' = {n \in Now(scope) : n <= durable'}
<1> DEFINE L == Len(log)
           d == durable'
<1>1. DOMAIN log = 1..L /\ durable \in 0..L /\ L \in Nat /\ d \in 0..L
  BY LogIsWellFormed DEF LogInv
<1>2. Len(log') = d /\ \A n \in 1..d : log[n] = log'[n]
  BY DEF CutBack
<1>3. WellFormed(log) /\ WellFormed(log')
  BY LogIsWellFormed DEF LogInv, WellFormed, BP!WellFormed, Resets, IsRewind
<1> HIDE DEF d
<1>4. \A h \in 0..d : Way(log, scope)[h] = Way(log', scope)[h]
  BY <1>1, <1>2, <1>3, LineageAgrees
<1>5. Way(log, scope)[L] = Way(log, scope)[d] \cup ((d + 1)..L)
  <2>1. \A r \in Seen(log, scope) : r <= d
    BY <1>1, LogIsWellFormed DEF d
  <2> QED
    BY <1>1, <1>3, <2>1, NoResetBetween
<1>6. Way(log, scope)[d] \subseteq 1..d
  BY <1>1, <1>3, LineageFacts
<1>7. Way(log', scope)[d] = {n \in Way(log, scope)[L] : n <= d}
  BY <1>1, <1>4, <1>5, <1>6
<1> QED
  BY <1>2, <1>7 DEF Now, Way, d

\* Death: what is lost is past the durable number, and takes no reset with it.
LEMMA LogCut ==
  ASSUME LogInv, durable' \in durable..Len(log), CutBack
  PROVE  /\ LogInv' /\ Resets' = Resets /\ \A n \in Resets : log'[n] = log[n]
         /\ Now(GLOBAL_SCOPE)' = {n \in Now(GLOBAL_SCOPE) : n <= durable'}
<1> DEFINE L == Len(log)
           d == durable'
<1>1. DOMAIN log = 1..L /\ durable \in 0..L /\ L \in Nat /\ d \in 0..L
  BY LogIsWellFormed DEF LogInv
<1>2. /\ log' \in Seq(Entries) /\ Len(log') = d /\ DOMAIN log' = 1..d
      /\ \A n \in 1..d : n \in DOMAIN log /\ log'[n] = log[n]
  BY DEF CutBack
<1>3. \A n \in Resets : n \in 1..d
  BY <1>1, LogIsWellFormed
<1>4. Resets' = Resets /\ \A n \in Resets : log'[n] = log[n]
  BY <1>2, <1>3 DEF Resets, IsRewind
<1>5. LogInv'
  <2>1. \A n \in Resets' : log'[n].target \in 0..(n - 1) /\ n <= durable'
    BY <1>3, <1>4 DEF LogInv
  <2> QED
    BY <1>1, <1>2, <2>1 DEF LogInv
<1>6. Now(GLOBAL_SCOPE)' = {n \in Now(GLOBAL_SCOPE) : n <= d}
  BY <1>5, BranchCut
<1> QED
  BY <1>4, <1>5, <1>6

\* Only the durable number advances.
LEMMA LogSynced ==
  ASSUME LogInv, log' = log, durable' \in durable..Len(log)
  PROVE  LogInv' /\ Resets' = Resets /\ Now(GLOBAL_SCOPE)' = Now(GLOBAL_SCOPE)
<1>1. Resets' = Resets
  BY DEF Resets, IsRewind
<1>2. durable \in 0..Len(log) /\ Len(log) \in Nat /\ Resets \subseteq Nat
  BY LogIsWellFormed DEF LogInv
<1>3. LogInv'
  BY <1>1, <1>2 DEF LogInv
<1> QED
  BY <1>1, <1>3 DEF Now

----------------------------------------------------------------------------
(* The types, and what every step does to the branch.                       *)

FilesTyped ==
  /\ torn \in BOOLEAN
  /\ floor \in 1..MaxHead /\ floorDue \in 0..MaxHead /\ swept \in 0..MaxHead
  /\ agents \subseteq Agents /\ collected \subseteq Agents /\ sessions \subseteq Spawned
  /\ archived \in [Agents -> {NoMarker} \cup 0..MaxHead]
  /\ topologies \in [Topologies -> SUBSET Agents]
  /\ config \in [Registries -> 0..MaxChanges] /\ changes \in 1..MaxChanges

GensTyped ==
  /\ recorded \subseteq [reg : Registries, seq : 0..durable, content : 1..MaxChanges]
  /\ gens \subseteq recorded

Typed == Len(log) <= MaxHead /\ FilesTyped /\ GensTyped

TypeInv == Typed /\ RecordInv

\* No rewind of everything is under way, and none failed half way.
Steady == ~torn /\ (mat.step = "none" \/ mat.scope # GLOBAL_SCOPE)

\* Of what was durable the same is on the branch.
BranchKept ==
  \A n \in 1..durable : n \in Now(GLOBAL_SCOPE)' <=> n \in Now(GLOBAL_SCOPE)

\* What a step does to the log.
Carried == LogInv' /\ durable <= durable' /\ Len(log') <= MaxHead /\ BranchKept

LEMMA NothingAppended ==
  ASSUME LogInv, Typed, log' = log, durable' \in durable..Len(log)
  PROVE  Carried /\ Resets' = Resets
<1>1. LogInv' /\ Resets' = Resets /\ Now(GLOBAL_SCOPE)' = Now(GLOBAL_SCOPE)
  BY LogSynced
<1> QED
  BY <1>1 DEF Carried, Typed, BranchKept, LogInv

LEMMA WalUnchanged ==
  ASSUME LogInv, Typed, UNCHANGED <<log, durable>>
  PROVE  Carried /\ Resets' = Resets
<1>1. durable' \in durable..Len(log)
  BY LogIsWellFormed DEF LogInv
<1> QED
  BY <1>1, NothingAppended

LEMMA PlainAppend ==
  ASSUME LogInv, NEW e \in Entries, e.kind # "rewind",
         NEW w \in durable..Len(log), Append1(e, w)
  PROVE  Carried /\ Resets' = Resets /\ \A n \in Resets : log'[n] = log[n]
<1>1. /\ LogInv' /\ Grew(e) /\ durable <= durable'
      /\ Resets' = Resets /\ \A n \in Resets : log'[n] = log[n]
      /\ Now(GLOBAL_SCOPE)' = Now(GLOBAL_SCOPE) \cup {Len(log) + 1}
  BY RecordAppended
<1>2. Len(log) \in Nat /\ durable \in 0..Len(log)
  BY LogIsWellFormed DEF LogInv
<1>3. Len(log') <= MaxHead
  <2>1. Len(log) < MaxHead /\ Len(log') = Len(log) + 1 /\ MaxHead \in Nat
    BY <1>1, LifecycleAssumption DEF Append1, CanAppend, Grew
  <2> QED
    BY <1>2, <2>1
<1>4. BranchKept
  BY <1>1, <1>2 DEF BranchKept
<1> QED
  BY <1>1, <1>3, <1>4 DEF Carried

\* The materialisation goes on, or there is none any more.
LEMMA MatKept ==
  ASSUME MatInv, Resets' = Resets, \A n \in Resets : log'[n] = log[n],
         \/ mat' = mat
         \/ mat' = NotRewinding
         \/ /\ mat.step # "none" /\ mat'.step \in {"decided", "agents"}
            /\ mat'.scope = mat.scope
            /\ mat' \in [step : {"none", "decided", "agents"}, scope : B!Scopes,
                         todo : SUBSET Agents, purges : SUBSET Spawned]
  PROVE  MatInv'
<1>1. NotRewinding \in [step : {"none", "decided", "agents"}, scope : B!Scopes,
                        todo : SUBSET Agents, purges : SUBSET Spawned]
  BY DEF NotRewinding, B!Scopes
<1>2. NotRewinding.step = "none"
  BY DEF NotRewinding
<1>3. CASE mat' = mat
  BY <1>3 DEF MatInv
<1>4. CASE mat' = NotRewinding
  BY <1>1, <1>2, <1>4 DEF MatInv
<1>5. CASE /\ mat.step # "none" /\ mat'.scope = mat.scope
           /\ mat' \in [step : {"none", "decided", "agents"}, scope : B!Scopes,
                        todo : SUBSET Agents, purges : SUBSET Spawned]
  BY <1>5 DEF MatInv
<1> QED
  BY <1>3, <1>4, <1>5

LEMMA DecidedIs ==
  ASSUME NEW scope \in B!Scopes
  PROVE  /\ Decided(scope) \in [step : {"none", "decided", "agents"}, scope : B!Scopes,
                                todo : SUBSET Agents, purges : SUBSET Spawned]
         /\ Decided(scope).step = "decided" /\ Decided(scope).scope = scope
BY DEF Decided, NotRewinding, B!Scopes

\* A list of records owed.
LEMMA RecordsLaidOut ==
  ASSUME NEW S \in SUBSET Owing, IsFiniteSet(S)
  PROVE  InOrder(S) \in Seq(Owing)
<1>1. InOrder(S) \in Seq(S)
  BY InOrderIs
<1> QED
  BY <1>1

LEMMA VanishingIs ==
  ASSUME TypeInv, NEW x
  PROVE  Vanishing(x) \in Seq(Owing)
<1> DEFINE S == {Record("vanished", s) : s \in Of(x) \cap sessions}
<1>1. IsFiniteSet(Of(x) \cap sessions)
  <2>1. Of(x) \cap sessions \subseteq Spawned /\ IsFiniteSet(Spawned)
    BY LifecycleAssumption DEF Of
  <2> QED
    BY <2>1, FS_Subset
<1>2. IsFiniteSet(S)
  <2> DEFINE D == Of(x) \cap sessions
             f == [s \in D |-> Record("vanished", s)]
  <2>1. DOMAIN f = D /\ S = {f[s] : s \in D}
    OBVIOUS
  <2> HIDE DEF f, D, S
  <2>2. IsFiniteSet(D)
    BY <1>1 DEF D
  <2> QED
    BY <2>1, <2>2, ImageIsFinite
<1>3. S \in SUBSET Owing
  BY RecordFields DEF Of
<1> QED
  BY <1>2, <1>3, RecordsLaidOut DEF Vanishing

LEMMA OwedIs ==
  ASSUME TypeInv, owed # <<>>
  PROVE  Head(owed) \in Owing /\ Tail(owed) \in Seq(Owing)
BY DEF TypeInv, RecordInv

LEMMA CascadeIs ==
  ASSUME TypeInv, NEW x, NEW before \in Seq(Owing), NEW after \in Seq(Owing),
         Cascade(x, before, after)
  PROVE  topologies' \in [Topologies -> SUBSET Agents] /\ owed' \in Seq(Owing)
<1> DEFINE hit == {t \in Topologies : x \in topologies[t]}
           S == {Drawn(t, topologies'[t]) : t \in hit}
<1>1. PICK led \in SUBSET hit :
        /\ topologies' = [t \in Topologies |->
                            IF t \in led THEN {} ELSE topologies[t] \ {x}]
        /\ owed' = before \o InOrder(S) \o after
  BY Zenon DEF Cascade
<1>2. topologies' \in [Topologies -> SUBSET Agents]
  BY <1>1 DEF TypeInv, Typed, FilesTyped
<1>3. IsFiniteSet(hit)
  <2>1. hit \subseteq Topologies /\ IsFiniteSet(Topologies)
    BY LifecycleAssumption
  <2> QED
    BY <2>1, FS_Subset
<1>4. S \in SUBSET Owing
  BY <1>2, RecordFields
<1>5. IsFiniteSet(S)
  <2> DEFINE f == [t \in hit |-> Drawn(t, topologies'[t])]
  <2>1. DOMAIN f = hit /\ S = {f[t] : t \in hit}
    OBVIOUS
  <2> HIDE DEF f, hit, S
  <2> QED
    BY <1>3, <2>1, ImageIsFinite
<1>6. InOrder(S) \in Seq(Owing)
  <2> HIDE DEF S
  <2> QED
    BY <1>4, <1>5, RecordsLaidOut
<1>7. owed' \in Seq(Owing)
  <2> HIDE DEF S
  <2> DEFINE middle == InOrder(S)
  <2>1. middle \in Seq(Owing)
    BY <1>6
  <2> HIDE DEF middle
  <2>2. before \o middle \o after \in Seq(Owing)
    BY <2>1
  <2> QED
    BY <1>1, <2>2 DEF middle
<1> QED
  BY <1>2, <1>7

\* Generations keep their numbers, and the durable one only grows.
LEMMA GensKept ==
  ASSUME LogInv, GensTyped, durable' \in Nat, durable <= durable', UNCHANGED <<recorded, gens>>
  PROVE  GensTyped'
<1>1. \A n \in 0..durable : n \in 0..durable'
  BY DEF LogInv
<1> QED
  BY <1>1 DEF GensTyped

\* A scan of the WAL finds numbers of it.
LEMMA ScanFinds ==
  ASSUME LogInv, NEW S \in SUBSET DOMAIN log
  PROVE  /\ Latest(S) \in 0..Len(log)
         /\ Latest(S) = 0 <=> S = {}
         /\ S # {} => Latest(S) \in S /\ \A n \in S : n <= Latest(S)
<1>1. DOMAIN log = 1..Len(log) /\ Len(log) \in Nat
  BY LogIsWellFormed
<1>2. S \in SUBSET (Nat \ {0}) /\ \A n \in S : n <= Len(log)
  BY <1>1
<1> QED
  BY <1>1, <1>2, LatestIs

LEMMA MarkerType ==
  ASSUME TypeInv, NEW x \in Agents
  PROVE  MarkerNow(x) \in {NoMarker} \cup 0..MaxHead
<1>1. InWal("archived", x) \in SUBSET DOMAIN log
  BY DEF InWal
<1>2. ArchivedAt(x) \in 0..Len(log)
  BY <1>1, ScanFinds DEF ArchivedAt, TypeInv, RecordInv
<1>3. Len(log) \in Nat /\ Len(log) <= MaxHead /\ MaxHead \in Nat
  BY LogIsWellFormed, LifecycleAssumption DEF TypeInv, RecordInv, Typed
<1>4. ArchivedAt(x) \in 0..MaxHead
  BY <1>2, <1>3
<1> QED
  BY <1>4 DEF MarkerNow, TypeInv, Typed, FilesTyped

LEMMA MembersType ==
  ASSUME TypeInv, NEW t \in Topologies
  PROVE  MembersNow(t) \in SUBSET Agents
<1> DEFINE events == InWal("topology", t)
           active == {n \in events : Active(n, GLOBAL_SCOPE)}
<1>1. active \in SUBSET DOMAIN log /\ \A n \in active : log[n].kind = "topology"
  BY DEF InWal
<1>2. ASSUME active # {}
      PROVE  log[Latest(active)].members \in SUBSET Agents
  <2>1. Latest(active) \in active
    BY <1>1, <1>2, ScanFinds DEF TypeInv, RecordInv
  <2>2. log[Latest(active)] \in Entries /\ log[Latest(active)].kind = "topology"
    BY <1>1, <2>1, LogIsWellFormed DEF TypeInv, RecordInv
  <2> QED
    BY <2>2, EntryFields
<1>3. MembersNow(t) = IF events = {} THEN topologies[t]
                      ELSE IF active = {} THEN {} ELSE log[Latest(active)].members
  BY DEF MembersNow
<1> HIDE DEF active, events
<1> QED
  BY <1>2, <1>3 DEF TypeInv, Typed, FilesTyped

\* Of some generations one has the highest number.
LEMMA HighestGeneration ==
  ASSUME LogInv, GensTyped, NEW G \in SUBSET recorded, G # {}
  PROVE  \E g \in G : \A f \in G : f.seq <= g.seq
<1> DEFINE S == {g.seq : g \in G}
<1>1. S \in SUBSET Nat /\ S # {} /\ durable \in Nat /\ \A n \in S : n <= durable
  <2>1. \A g \in G : g.seq \in 0..durable
    BY DEF GensTyped
  <2>2. durable \in Nat
    BY LogIsWellFormed
  <2> QED
    BY <2>1, <2>2
<1>2. PICK m \in S : \A n \in S : n <= m
  <2> HIDE DEF S
  <2> QED
    BY <1>1, GreatestExists
<1>3. PICK g \in G : g.seq = m
  BY <1>2
<1> QED
  BY <1>2, <1>3

LEMMA ConfigType ==
  ASSUME TypeInv, NEW r \in Registries
  PROVE  ConfigNow(r) \in 0..MaxChanges
<1> DEFINE there == {g \in gens : g.reg = r}
           active == {g \in there : Active(g.seq, GLOBAL_SCOPE)}
           top == CHOOSE g \in active : \A f \in active : f.seq <= g.seq
<1>1. active \in SUBSET recorded
  BY DEF TypeInv, Typed, GensTyped
<1>2. ASSUME active # {}
      PROVE  top.content \in 0..MaxChanges
  <2>1. \E g \in active : \A f \in active : f.seq <= g.seq
    <3> HIDE DEF active
    <3> QED
      BY <1>1, <1>2, HighestGeneration DEF TypeInv, Typed, RecordInv
  <2>2. top \in active
    <3> HIDE DEF active
    <3> QED
      BY <2>1, Zenon
  <2>3. top \in recorded
    <3> HIDE DEF active, top
    <3> QED
      BY <1>1, <2>2
  <2> HIDE DEF top
  <2>4. top.content \in 1..MaxChanges
    BY <2>3 DEF TypeInv, Typed, GensTyped
  <2> QED
    BY <2>4, LifecycleAssumption
<1>3. ConfigNow(r) = IF there = {} THEN config[r]
                     ELSE IF active = {} THEN Absent ELSE top.content
  BY DEF ConfigNow
<1>4. config[r] \in 0..MaxChanges /\ Absent \in 0..MaxChanges
  BY LifecycleAssumption DEF TypeInv, Typed, FilesTyped, Absent
<1> HIDE DEF active, there, top
<1> QED
  BY <1>2, <1>3, <1>4

\* One record appended behind a change of files.
RecordStep == TypeInv' /\ durable <= durable' /\ (Steady' => BranchKept)

LEMMA AppendingStep ==
  ASSUME TypeInv, NEW e \in Entries, e.kind # "rewind",
         NEW w \in durable..Len(log), Append1(e, w),
         UNCHANGED <<config, gens, mat, recorded, torn, swept, crashes, changes>>,
         owed' \in Seq(Owing), agents' \subseteq Agents, collected' \subseteq Agents,
         sessions' \subseteq Spawned, archived' \in [Agents -> {NoMarker} \cup 0..MaxHead],
         topologies' \in [Topologies -> SUBSET Agents]
  PROVE  RecordStep
<1>1. Carried /\ Resets' = Resets /\ \A n \in Resets : log'[n] = log[n]
  BY PlainAppend DEF TypeInv, RecordInv
<1>2. MatInv'
  BY <1>1, MatKept DEF TypeInv, RecordInv
<1>3. GensTyped'
  BY <1>1, GensKept DEF TypeInv, RecordInv, Typed, Carried, LogInv
<1>4. FilesTyped'
  BY DEF TypeInv, Typed, FilesTyped, Append1
<1> QED
  BY <1>1, <1>2, <1>3, <1>4 DEF RecordStep, TypeInv, Typed, RecordInv, Carried

\* Nothing appended.
LEMMA QuietStep ==
  ASSUME TypeInv, log' = log, durable' \in durable..Len(log),
         FilesTyped', GensTyped', owed' \in Seq(Owing),
         \/ mat' = mat
         \/ mat' = NotRewinding
         \/ /\ mat.step # "none" /\ mat'.step \in {"decided", "agents"}
            /\ mat'.scope = mat.scope
            /\ mat' \in [step : {"none", "decided", "agents"}, scope : B!Scopes,
                         todo : SUBSET Agents, purges : SUBSET Spawned]
  PROVE  RecordStep
<1>1. Carried /\ Resets' = Resets
  BY NothingAppended DEF TypeInv, RecordInv
<1>2. MatInv'
  BY <1>1, MatKept DEF TypeInv, RecordInv
<1> QED
  BY <1>1, <1>2 DEF RecordStep, TypeInv, Typed, RecordInv, Carried

LEMMA RecordedByOperations ==
  ASSUME TypeInv, NEW x \in Agents,
         CreateAgent(x) \/ ArchiveAgent(x) \/ PurgeAgent(x)
  PROVE  RecordStep
<1>1. durable \in durable..Len(log)
  BY LogIsWellFormed DEF TypeInv, RecordInv, LogInv
<1>2. CASE CreateAgent(x)
  <2>1. Record("created", x) \in Entries /\ Record("created", x).kind # "rewind"
    BY RecordFields
  <2>2. Append1(Record("created", x), durable)
    BY <1>2 DEF CreateAgent
  <2>3. /\ owed' \in Seq(Owing) /\ agents' \subseteq Agents /\ collected' \subseteq Agents
        /\ sessions' \subseteq Spawned /\ archived' \in [Agents -> {NoMarker} \cup 0..MaxHead]
        /\ topologies' \in [Topologies -> SUBSET Agents]
        /\ UNCHANGED <<config, gens, mat, recorded, torn, swept, crashes, changes>>
    BY <1>2 DEF CreateAgent, TypeInv, Typed, FilesTyped, RecordInv
  <2> QED
    BY <1>1, <2>1, <2>2, <2>3, AppendingStep
<1>3. CASE ArchiveAgent(x)
  <2>1. Record("archived", x) \in Entries /\ Record("archived", x).kind # "rewind"
    BY RecordFields
  <2>2. PICK known \in durable..Len(log) :
          /\ archived' = [archived EXCEPT ![x] = known]
          /\ Append1(Record("archived", x), known)
    BY <1>3 DEF ArchiveAgent
  <2>3. known \in 0..MaxHead
    BY LogIsWellFormed, LifecycleAssumption DEF TypeInv, RecordInv, LogInv, Typed
  <2>4. /\ owed' \in Seq(Owing) /\ agents' \subseteq Agents /\ collected' \subseteq Agents
        /\ sessions' \subseteq Spawned /\ archived' \in [Agents -> {NoMarker} \cup 0..MaxHead]
        /\ topologies' \in [Topologies -> SUBSET Agents]
        /\ UNCHANGED <<config, gens, mat, recorded, torn, swept, crashes, changes>>
    BY <1>3, <2>2, <2>3 DEF ArchiveAgent, TypeInv, Typed, FilesTyped, RecordInv
  <2> QED
    BY <2>1, <2>2, <2>4, AppendingStep
<1>4. CASE PurgeAgent(x)
  <2>1. Record("purged", x) \in Entries /\ Record("purged", x).kind # "rewind"
    BY RecordFields
  <2>2. Append1(Record("purged", x), durable) /\ Cascade(x, Vanishing(x), <<>>)
    BY <1>4 DEF PurgeAgent
  <2>3. topologies' \in [Topologies -> SUBSET Agents] /\ owed' \in Seq(Owing)
    <3>1. Vanishing(x) \in Seq(Owing) /\ <<>> \in Seq(Owing)
      BY VanishingIs
    <3> QED
      BY <2>2, <3>1, CascadeIs, Zenon
  <2>4. /\ agents' \subseteq Agents /\ collected' \subseteq Agents
        /\ sessions' \subseteq Spawned /\ archived' \in [Agents -> {NoMarker} \cup 0..MaxHead]
        /\ UNCHANGED <<config, gens, mat, recorded, torn, swept, crashes, changes>>
    BY <1>4 DEF PurgeAgent, RemoveDirectory, TypeInv, Typed, FilesTyped
  <2> QED
    BY <1>1, <2>1, <2>2, <2>3, <2>4, AppendingStep
<1> QED
  BY <1>2, <1>3, <1>4

LEMMA RecordedBySessions ==
  ASSUME TypeInv, NEW s \in Spawned, SpawnSession(s) \/ RemoveSession(s)
  PROVE  RecordStep
<1>1. durable \in durable..Len(log)
  BY LogIsWellFormed DEF TypeInv, RecordInv, LogInv
<1>2. PICK kind \in {"spawned", "vanished"} : Append1(Record(kind, s), durable)
  BY DEF SpawnSession, RemoveSession
<1>3. Record(kind, s) \in Entries /\ Record(kind, s).kind # "rewind"
  <2>1. Record(kind, s).kind = kind
    BY DEF Record
  <2> QED
    BY <2>1, RecordFields
<1>4. /\ owed' \in Seq(Owing) /\ agents' \subseteq Agents /\ collected' \subseteq Agents
      /\ sessions' \subseteq Spawned /\ archived' \in [Agents -> {NoMarker} \cup 0..MaxHead]
      /\ topologies' \in [Topologies -> SUBSET Agents]
      /\ UNCHANGED <<config, gens, mat, recorded, torn, swept, crashes, changes>>
  BY DEF SpawnSession, RemoveSession, TypeInv, Typed, FilesTyped, RecordInv
<1> QED
  BY <1>1, <1>2, <1>3, <1>4, AppendingStep

\* A change of a topology writes down some of the agents there are.
LEMMA TopologyIsDrawn ==
  ASSUME TypeInv, NEW t \in Topologies, ChangeTopology(t)
  PROVE  \E members \in SUBSET Agents :
           DrawTopology(t, members) /\ members \subseteq agents \cup topologies[t]
<1>1. agents \subseteq Agents /\ topologies[t] \subseteq Agents
  BY DEF TypeInv, Typed, FilesTyped
<1>2. CASE \E members \in SUBSET agents \ {{}} : DrawTopology(t, members)
  BY <1>1, <1>2
<1>3. ASSUME NEW x \in agents \ topologies[t], DrawTopology(t, topologies[t] \cup {x})
      PROVE  \E members \in SUBSET Agents :
               DrawTopology(t, members) /\ members \subseteq agents \cup topologies[t]
  <2>1. topologies[t] \cup {x} \in SUBSET Agents
    BY <1>1
  <2> QED
    BY <1>3, <2>1
<1>4. ASSUME NEW x \in topologies[t], DrawTopology(t, topologies[t] \ {x})
      PROVE  \E members \in SUBSET Agents :
               DrawTopology(t, members) /\ members \subseteq agents \cup topologies[t]
  <2>1. topologies[t] \ {x} \in SUBSET Agents
    BY <1>1
  <2> QED
    BY <1>4, <2>1
<1>5. CASE DrawTopology(t, {})
  BY <1>5
<1> QED
  BY <1>2, <1>3, <1>4, <1>5 DEF ChangeTopology

LEMMA RecordedByTopologies ==
  ASSUME TypeInv, NEW t \in Topologies, NEW members \in SUBSET Agents,
         DrawTopology(t, members)
  PROVE  RecordStep
<1>1. durable \in durable..Len(log)
  BY LogIsWellFormed DEF TypeInv, RecordInv, LogInv
<1>2. Append1(Drawn(t, members), durable)
  BY DEF DrawTopology
<1>3. Drawn(t, members) \in Entries /\ Drawn(t, members).kind # "rewind"
  BY RecordFields DEF Drawn
<1>4. /\ owed' \in Seq(Owing) /\ agents' \subseteq Agents /\ collected' \subseteq Agents
      /\ sessions' \subseteq Spawned /\ archived' \in [Agents -> {NoMarker} \cup 0..MaxHead]
      /\ topologies' \in [Topologies -> SUBSET Agents]
      /\ UNCHANGED <<config, gens, mat, recorded, torn, swept, crashes, changes>>
  BY DEF DrawTopology, TypeInv, Typed, FilesTyped, RecordInv
<1> QED
  BY <1>1, <1>2, <1>3, <1>4, AppendingStep

LEMMA RecordedByPaying ==
  ASSUME TypeInv, PayOwed
  PROVE  RecordStep
<1>1. Len(log) \in durable..Len(log)
  BY LogIsWellFormed DEF TypeInv, RecordInv, LogInv
<1>2. owed # <<>> /\ owed' = Tail(owed) /\ Append1(Head(owed), Len(log))
  BY DEF PayOwed
<1>3. /\ Head(owed) \in Entries /\ Head(owed).kind # "rewind"
      /\ owed' \in Seq(Owing)
  BY <1>2, OwedIs, OwingFields
<1>4. /\ agents' \subseteq Agents /\ collected' \subseteq Agents
      /\ sessions' \subseteq Spawned /\ archived' \in [Agents -> {NoMarker} \cup 0..MaxHead]
      /\ topologies' \in [Topologies -> SUBSET Agents]
      /\ UNCHANGED <<config, gens, mat, recorded, torn, swept, crashes, changes>>
  BY DEF PayOwed, TypeInv, Typed, FilesTyped
<1> QED
  BY <1>1, <1>2, <1>3, <1>4, AppendingStep

LEMMA QuietSweeps ==
  ASSUME TypeInv, SweepAgent \/ SweepTopologies
  PROVE  RecordStep
<1>1. durable' \in durable..Len(log) /\ log' = log /\ durable' = durable
  <2>1. log' = log /\ durable' = durable
    BY DEF SweepAgent, SweepTopologies
  <2> QED
    BY <2>1, LogIsWellFormed DEF TypeInv, RecordInv, LogInv
<1>2. GensTyped'
  BY <1>1 DEF TypeInv, Typed, GensTyped, SweepAgent, SweepTopologies
<1>3. owed # <<>> /\ Head(owed).kind \in {"sweep", "cascade"} /\ mat' = mat
  BY DEF SweepAgent, SweepTopologies
<1>4. Head(owed) \in Owing /\ Tail(owed) \in Seq(Owing) /\ Head(owed).who \in Agents
  BY <1>3, OwedIs, OwingFields
<1>5. FilesTyped' /\ owed' \in Seq(Owing)
  <2>1. CASE SweepAgent
    <3> DEFINE x == Head(owed).who
    <3>1. owed' \in Seq(Owing)
      <4> DEFINE v == Vanishing(x)
                 c == Record("cascade", x)
      <4>1. v \in Seq(Owing) /\ c \in Owing
        BY <1>4, VanishingIs, RecordFields
      <4>2. owed' = v \o <<c>> \o Tail(owed) \/ owed' = Tail(owed)
        BY <2>1 DEF SweepAgent
      <4> DEFINE o == Tail(owed)
      <4>3. o \in Seq(Owing) /\ (owed' = v \o <<c>> \o o \/ owed' = o)
        BY <1>4, <4>2
      <4> HIDE DEF v, c, o
      <4>4. v \o <<c>> \o o \in Seq(Owing)
        BY <4>1, <4>3
      <4> QED
        BY <4>3, <4>4
    <3>2. FilesTyped'
      BY <1>4, <2>1 DEF SweepAgent, RemoveDirectory, TypeInv, Typed, FilesTyped
    <3> QED
      BY <3>1, <3>2
  <2>2. CASE SweepTopologies
    <3>1. <<>> \in Seq(Owing) /\ Cascade(Head(owed).who, <<>>, Tail(owed))
      BY <2>2 DEF SweepTopologies
    <3>2. topologies' \in [Topologies -> SUBSET Agents] /\ owed' \in Seq(Owing)
      BY <1>4, <3>1, CascadeIs, Zenon
    <3> QED
      BY <2>2, <3>2 DEF SweepTopologies, TypeInv, Typed, FilesTyped
  <2> QED
    BY <2>1, <2>2
<1> QED
  BY <1>1, <1>2, <1>3, <1>5, QuietStep

LEMMA LargerIs ==
  ASSUME NEW m \in Nat, NEW n \in Nat
  PROVE  Larger(m, n) \in {m, n} /\ m <= Larger(m, n) /\ n <= Larger(m, n)
BY DEF Larger

LEMMA QuietRewrite ==
  ASSUME TypeInv, RewriteWal
  PROVE  RecordStep
<1>1. durable \in 0..Len(log) /\ Len(log) \in Nat
  BY LogIsWellFormed DEF TypeInv, RecordInv, LogInv
<1>2. durable' \in durable..Len(log) /\ log' = log
  BY <1>1 DEF RewriteWal
<1>3. durable' \in Nat /\ durable <= durable'
  BY <1>1, <1>2
<1>4. GensTyped'
  BY <1>3, GensKept DEF TypeInv, Typed, RecordInv, RewriteWal
<1>5. FilesTyped'
  <2>1. floor \in Nat /\ floorDue \in Nat
    BY LifecycleAssumption DEF TypeInv, Typed, FilesTyped
  <2>2. Larger(floor, floorDue) \in {floor, floorDue} /\ floor <= Larger(floor, floorDue)
    BY <2>1, LargerIs
  <2> QED
    BY <2>1, <2>2, LifecycleAssumption DEF RewriteWal, TypeInv, Typed, FilesTyped
<1>6. owed' \in Seq(Owing) /\ mat' = mat
  BY DEF RewriteWal, TypeInv, RecordInv
<1> QED
  BY <1>2, <1>4, <1>5, <1>6, QuietStep

LEMMA QuietChange ==
  ASSUME TypeInv, NEW r \in Registries, ChangeConfig(r)
  PROVE  RecordStep
<1>1. durable \in 0..Len(log) /\ Len(log) \in Nat
  BY LogIsWellFormed DEF TypeInv, RecordInv, LogInv
<1>2. durable' \in durable..Len(log) /\ log' = log
  BY DEF ChangeConfig
<1>3. changes' \in 1..MaxChanges
  BY LifecycleAssumption DEF ChangeConfig, TypeInv, Typed, FilesTyped
<1> DEFINE g == Gen(r, durable', changes')
<1>4. g \in [reg : Registries, seq : 0..durable', content : 1..MaxChanges]
  BY <1>1, <1>2, <1>3 DEF Gen
<1>5. GensTyped'
  <2>1. \A n \in 0..durable : n \in 0..durable'
    BY <1>1, <1>2
  <2>2. recorded \subseteq [reg : Registries, seq : 0..durable', content : 1..MaxChanges]
    BY <2>1 DEF TypeInv, Typed, GensTyped
  <2>3. recorded' = Overwritten(recorded, g) /\ gens' = Overwritten(gens, g)
    BY DEF ChangeConfig
  <2> HIDE DEF g
  <2> QED
    BY <1>4, <2>2, <2>3 DEF TypeInv, Typed, GensTyped, Overwritten
<1>6. FilesTyped'
  BY <1>3, LifecycleAssumption DEF ChangeConfig, TypeInv, Typed, FilesTyped
<1>7. owed' \in Seq(Owing) /\ mat' = mat
  BY DEF ChangeConfig, TypeInv, RecordInv
<1> QED
  BY <1>2, <1>5, <1>6, <1>7, QuietStep

LEMMA QuietTruncation ==
  ASSUME TypeInv, NEW f \in 2..Len(log), Truncate(f)
  PROVE  RecordStep
<1>1. durable \in 0..Len(log) /\ Len(log) \in Nat /\ Len(log) <= MaxHead /\ f \in Nat
  BY LogIsWellFormed DEF TypeInv, RecordInv, LogInv, Typed
<1>2. durable' \in durable..Len(log) /\ log' = log
  BY <1>1, LargerIs DEF Truncate
<1>3. GensTyped'
  <2>1. \A n \in 0..durable : n \in 0..durable'
    BY <1>1, <1>2
  <2> QED
    BY <2>1 DEF Truncate, Pruned, TypeInv, Typed, GensTyped
<1>4. FilesTyped'
  <2>1. f \in 0..MaxHead
    BY <1>1, LifecycleAssumption
  <2> QED
    BY <2>1 DEF Truncate, TypeInv, Typed, FilesTyped
<1>5. owed' \in Seq(Owing)
  <2> DEFINE D == {a \in agents : archived[a] # NoMarker}
             S == {Record("sweep", x) : x \in D}
             g == [x \in D |-> Record("sweep", x)]
  <2>1. S \in SUBSET Owing
    BY RecordFields DEF TypeInv, Typed, FilesTyped
  <2>2. IsFiniteSet(D)
    <3>1. D \subseteq Agents /\ IsFiniteSet(Agents)
      BY LifecycleAssumption DEF TypeInv, Typed, FilesTyped
    <3> QED
      BY <3>1, FS_Subset
  <2>3. DOMAIN g = D /\ S = {g[x] : x \in D}
    OBVIOUS
  <2>4. owed' = InOrder(S)
    BY DEF Truncate
  <2> HIDE DEF S, D, g
  <2>5. IsFiniteSet(S)
    BY <2>2, <2>3, ImageIsFinite
  <2> QED
    BY <2>1, <2>4, <2>5, RecordsLaidOut
<1>6. mat' = mat
  BY DEF Truncate
<1> QED
  BY <1>2, <1>3, <1>4, <1>5, <1>6, QuietStep

LEMMA CheckoutDecides ==
  ASSUME TypeInv, NEW n \in DOMAIN log, NEW scope \in B!Scopes, Checkout(n, scope)
  PROVE  RecordStep
<1> DEFINE L == Len(log)
<1>1. /\ LogInv' /\ Grew(B!Rewound(n, scope)) /\ durable <= durable'
      /\ Resets' = Resets \cup {L + 1} /\ \A k \in Resets : k < L + 1
      /\ scope # GLOBAL_SCOPE => Now(GLOBAL_SCOPE)' = Now(GLOBAL_SCOPE) \cup {L + 1}
  BY ResetAppended DEF Checkout, TypeInv, RecordInv
<1>2. L \in Nat /\ durable \in 0..L
  BY LogIsWellFormed DEF TypeInv, RecordInv, LogInv
<1>3. mat' = Decided(scope)
  BY DEF Checkout
<1>4. MatInv'
  <2>1. log'[L + 1].scope = scope /\ L + 1 \in Resets'
    BY <1>1 DEF Grew, B!Rewound
  <2>2. \A k \in Resets' : k <= L + 1
    <3>1. \A k \in Resets : k \in Nat
      BY LogIsWellFormed DEF TypeInv, RecordInv
    <3> QED
      BY <1>1, <1>2, <3>1
  <2> QED
    BY <1>3, <2>1, <2>2, DecidedIs DEF MatInv
<1>5. Len(log') <= MaxHead
  <2>1. Append1(B!Rewound(n, scope), L + 1)
    BY DEF Checkout
  <2>2. L < MaxHead /\ Len(log') = L + 1 /\ MaxHead \in Nat
    BY <1>1, <2>1, LifecycleAssumption DEF Append1, CanAppend, Grew
  <2> QED
    BY <1>2, <2>2
<1>6. GensTyped'
  <2>1. durable' \in Nat /\ UNCHANGED <<recorded, gens>>
    BY <1>1 DEF LogInv, Checkout
  <2> QED
    BY <1>1, <2>1, GensKept DEF TypeInv, RecordInv, Typed
<1>7. FilesTyped' /\ owed' \in Seq(Owing)
  BY DEF Checkout, Append1, TypeInv, RecordInv, Typed, FilesTyped
<1>8. Steady' => BranchKept
  <2>1. Steady' => scope # GLOBAL_SCOPE
    BY <1>3, DecidedIs DEF Steady
  <2> QED
    BY <1>1, <1>2, <2>1 DEF BranchKept
<1> QED
  BY <1>1, <1>4, <1>5, <1>6, <1>7, <1>8 DEF RecordStep, TypeInv, Typed, RecordInv

\* The steps of a materialisation leave log and generations alone.
LEMMA MaterialisingStep ==
  ASSUME TypeInv, UNCHANGED <<wal, gens, owed, recorded>>, FilesTyped',
         \/ mat' = NotRewinding
         \/ /\ mat.step # "none" /\ mat'.step \in {"decided", "agents"}
            /\ mat'.scope = mat.scope
            /\ mat' \in [step : {"none", "decided", "agents"}, scope : B!Scopes,
                         todo : SUBSET Agents, purges : SUBSET Spawned]
  PROVE  RecordStep
<1>1. log' = log /\ durable' \in durable..Len(log) /\ owed' \in Seq(Owing)
  <2>1. durable \in 0..Len(log) /\ Len(log) \in Nat
    BY LogIsWellFormed DEF TypeInv, RecordInv, LogInv
  <2> QED
    BY <2>1 DEF TypeInv, RecordInv
<1>2. GensTyped'
  BY DEF TypeInv, Typed, GensTyped
<1> QED
  BY <1>1, <1>2, QuietStep

LEMMA MaterialisationGoesOn ==
  ASSUME TypeInv, Rematerialise \/ \E x \in Agents : MaterialiseAgent(x)
  PROVE  RecordStep
<1>1. mat \in [step : {"none", "decided", "agents"}, scope : B!Scopes,
               todo : SUBSET Agents, purges : SUBSET Spawned]
  BY DEF TypeInv, RecordInv, MatInv
<1>2. CASE Rematerialise
  <2>1. FilesTyped' /\ UNCHANGED <<wal, gens, owed, recorded>>
    BY <1>2 DEF Rematerialise, Revived, TypeInv, Typed, FilesTyped
  <2>2. mat' = [mat EXCEPT !.step = "agents", !.todo = agents'] /\ mat.step = "decided"
    BY <1>2 DEF Rematerialise
  <2>3. /\ mat.step # "none" /\ mat'.step \in {"decided", "agents"} /\ mat'.scope = mat.scope
        /\ mat' \in [step : {"none", "decided", "agents"}, scope : B!Scopes,
                     todo : SUBSET Agents, purges : SUBSET Spawned]
    BY <1>1, <2>1, <2>2 DEF FilesTyped
  <2> QED
    BY <2>1, <2>3, MaterialisingStep
<1>3. CASE \E x \in Agents : MaterialiseAgent(x)
  <2>1. PICK x \in Agents : MaterialiseAgent(x)
    BY <1>3
  <2>2. FilesTyped' /\ UNCHANGED <<wal, gens, owed, recorded>>
    BY <2>1 DEF MaterialiseAgent, TypeInv, Typed, FilesTyped
  <2>3. /\ mat'.step = mat.step /\ mat'.scope = mat.scope
        /\ mat' \in [step : {"none", "decided", "agents"}, scope : B!Scopes,
                     todo : SUBSET Agents, purges : SUBSET Spawned]
    <3>1. CASE mat' = [mat EXCEPT !.todo = @ \ {x}]
      BY <1>1, <3>1
    <3>2. CASE mat' = [mat EXCEPT !.todo = @ \ {x},
                                  !.purges = @ \cup {s \in Of(x) \cap sessions : Gone(s)}]
      <4>1. {s \in Of(x) \cap sessions : Gone(s)} \subseteq Spawned
        BY DEF Of
      <4> QED
        BY <1>1, <3>2, <4>1
    <3> QED
      BY <2>1, <3>1, <3>2 DEF MaterialiseAgent
  <2>4. CASE mat.step = "none"
    <3>1. mat' = mat \/ mat'.step = "none"
      BY <2>3, <2>4
    <3>2. log' = log /\ durable' \in durable..Len(log) /\ owed' \in Seq(Owing)
      <4>1. durable \in 0..Len(log) /\ Len(log) \in Nat
        BY LogIsWellFormed DEF TypeInv, RecordInv, LogInv
      <4> QED
        BY <2>2, <4>1 DEF TypeInv, RecordInv
    <3>3. Carried /\ Resets' = Resets
      BY <3>2, NothingAppended DEF TypeInv, RecordInv
    <3>4. MatInv'
      BY <2>3, <2>4 DEF MatInv
    <3>5. GensTyped'
      BY <2>2 DEF TypeInv, Typed, GensTyped
    <3> QED
      BY <2>2, <3>2, <3>3, <3>4, <3>5 DEF RecordStep, TypeInv, Typed, RecordInv, Carried
  <2>5. CASE mat.step # "none"
    <3>1. mat'.step \in {"decided", "agents"}
      BY <1>1, <2>3, <2>5
    <3> QED
      BY <2>2, <2>3, <2>5, <3>1, MaterialisingStep
  <2> QED
    BY <2>4, <2>5
<1> QED
  BY <1>2, <1>3

LEMMA MaterialisationEnds ==
  ASSUME TypeInv,
         MaterialiseRest \/ MaterialiseSession \/ MaterialisingRaises \/ RevivingRaises
  PROVE  RecordStep
<1>1. mat \in [step : {"none", "decided", "agents"}, scope : B!Scopes,
               todo : SUBSET Agents, purges : SUBSET Spawned]
  BY DEF TypeInv, RecordInv, MatInv
<1>2. UNCHANGED <<wal, gens, owed, recorded>> /\ mat' = NotRewinding
  BY DEF MaterialiseRest, MaterialiseSession, MaterialisingRaises, RevivingRaises
<1>3. CASE MaterialiseRest
  <2>1. archived' \in [Agents -> {NoMarker} \cup 0..MaxHead]
    BY <1>3, MarkerType DEF MaterialiseRest, TypeInv, Typed, FilesTyped
  <2>2. topologies' \in [Topologies -> SUBSET Agents]
    BY <1>3, MembersType DEF MaterialiseRest
  <2>3. config' \in [Registries -> 0..MaxChanges]
    BY <1>3, ConfigType DEF MaterialiseRest
  <2>4. torn' \in BOOLEAN
    BY <1>3 DEF MaterialiseRest
  <2>5. FilesTyped'
    BY <1>3, <2>1, <2>2, <2>3, <2>4 DEF MaterialiseRest, TypeInv, Typed, FilesTyped
  <2> QED
    BY <1>2, <2>5, MaterialisingStep
<1>4. CASE MaterialiseSession
  <2>1. mat.scope # GLOBAL_SCOPE /\ mat.scope \in Spawned
    BY <1>1, <1>4 DEF MaterialiseSession, B!Scopes
  <2>2. FilesTyped'
    BY <1>4, <2>1 DEF MaterialiseSession, TypeInv, Typed, FilesTyped
  <2> QED
    BY <1>2, <2>2, MaterialisingStep
<1>5. CASE MaterialisingRaises
  <2>1. FilesTyped'
    BY <1>5 DEF MaterialisingRaises, TypeInv, Typed, FilesTyped
  <2> QED
    BY <1>2, <2>1, MaterialisingStep
<1>6. CASE RevivingRaises
  <2>1. FilesTyped'
    BY <1>6 DEF RevivingRaises, Revived, TypeInv, Typed, FilesTyped
  <2> QED
    BY <1>2, <2>1, MaterialisingStep
<1> QED
  BY <1>3, <1>4, <1>5, <1>6

\* What a new process recovers is what the latest reset record says.
LEMMA RecoveringIs ==
  ASSUME TypeInv, Crash
  PROVE  /\ LogInv' /\ Resets' = Resets /\ durable' \in durable..Len(log) /\ CutBack
         /\ Now(GLOBAL_SCOPE)' = {n \in Now(GLOBAL_SCOPE) : n <= durable'}
         /\ \A n \in Resets : log'[n] = log[n]
         /\ MatInv'
         /\ \A n \in Resets : (\A k \in Resets : k <= n) =>
              mat'.step # "none" /\ mat'.scope = log[n].scope
<1>1. durable' \in durable..Len(log) /\ log' = SubSeq(log, 1, durable')
  BY DEF Crash
<1>2. LogInv /\ durable' \in 0..Len(log)
  BY <1>1, LogIsWellFormed DEF TypeInv, RecordInv, LogInv
<1>3. CutBack
  BY <1>1, <1>2, SubSeqCutsBack
<1>4. /\ LogInv' /\ Resets' = Resets /\ \A n \in Resets : log'[n] = log[n]
      /\ Now(GLOBAL_SCOPE)' = {n \in Now(GLOBAL_SCOPE) : n <= durable'}
  BY <1>1, <1>2, <1>3, LogCut
<1>5. mat' = IF Resets = {} THEN NotRewinding
             ELSE Decided(log'[Latest(Resets)].scope)
  <2>1. Resets' = {n \in DOMAIN log' : log'[n].kind = "rewind"}
    BY DEF Resets, IsRewind
  <2>2. mat' = Recovering(log')
    BY DEF Crash
  <2> QED
    BY <1>4, <2>1, <2>2 DEF Recovering
<1>6. CASE Resets = {}
  <2>1. MatInv'
    BY <1>5, <1>6 DEF MatInv, NotRewinding, B!Scopes
  <2> QED
    BY <1>1, <1>3, <1>4, <1>6, <2>1
<1>7. CASE Resets # {}
  <2> DEFINE top == Latest(Resets)
  <2>1. top \in Resets /\ \A k \in Resets : k <= top
    BY <1>2, <1>7, ScanFinds DEF Resets
  <2>2. log[top].scope \in B!Scopes
    <3>1. top \in DOMAIN log /\ log[top].kind = "rewind" /\ log[top] \in Entries
      BY <1>2, <2>1, LogIsWellFormed DEF Resets, IsRewind
    <3> QED
      BY <3>1, EntryFields
  <2>3. mat' = Decided(log[top].scope)
    BY <1>4, <1>5, <1>7, <2>1
  <2> HIDE DEF top
  <2>4. mat'.step = "decided" /\ mat'.scope = log[top].scope
    BY <2>2, <2>3, DecidedIs
  <2>5. MatInv'
    BY <1>4, <2>1, <2>2, <2>3, <2>4, DecidedIs DEF MatInv
  <2>6. \A n \in Resets : (\A k \in Resets : k <= n) => n = top
    <3>1. \A n \in Resets : n \in Nat
      BY <1>2, LogIsWellFormed
    <3> QED
      BY <2>1, <3>1
  <2> QED
    BY <1>1, <1>3, <1>4, <2>4, <2>5, <2>6
<1> QED
  BY <1>6, <1>7

LEMMA DeathStep ==
  ASSUME TypeInv, Crash
  PROVE  RecordStep
<1>1. /\ LogInv' /\ Resets' = Resets /\ durable' \in durable..Len(log) /\ CutBack
      /\ Now(GLOBAL_SCOPE)' = {n \in Now(GLOBAL_SCOPE) : n <= durable'} /\ MatInv'
  BY RecoveringIs
<1>2. durable \in 0..Len(log) /\ Len(log) \in Nat /\ Len(log) <= MaxHead /\ MaxHead \in Nat
  BY LogIsWellFormed, LifecycleAssumption DEF TypeInv, RecordInv, LogInv, Typed
<1>3. durable <= durable' /\ durable' \in Nat /\ Len(log') <= MaxHead
  BY <1>1, <1>2 DEF CutBack
<1>4. BranchKept
  BY <1>1, <1>2 DEF BranchKept
<1>5. GensTyped'
  <2>1. UNCHANGED <<recorded, gens>>
    BY DEF Crash
  <2> QED
    BY <1>3, <2>1, GensKept DEF TypeInv, RecordInv, Typed
<1>6. FilesTyped'
  <2>1. PICK saved \in {{}} \cup {{r} : r \in Registries} :
          /\ saved # {} => Working /\ changes < MaxChanges
          /\ config' = [r \in Registries |-> IF r \in saved THEN changes + 1 ELSE config[r]]
    BY DEF Crash
  <2>2. config' \in [Registries -> 0..MaxChanges]
    <3>1. \A r \in Registries : (IF r \in saved THEN changes + 1 ELSE config[r]) \in 0..MaxChanges
      BY <2>1, LifecycleAssumption DEF TypeInv, Typed, FilesTyped
    <3> QED
      BY <2>1, <3>1
  <2>3. /\ UNCHANGED <<torn, floor, swept, agents, collected, archived, topologies, changes>>
        /\ floorDue' = 0 /\ sessions' \in SUBSET sessions
    BY DEF Crash
  <2> QED
    BY <1>2, <2>2, <2>3 DEF TypeInv, Typed, FilesTyped
<1>7. owed' \in Seq(Owing)
  <2>1. owed' = <<>>
    BY DEF Crash
  <2> QED
    BY <2>1
<1> QED
  BY <1>1, <1>3, <1>4, <1>5, <1>6, <1>7 DEF RecordStep, TypeInv, Typed, RecordInv

LEMMA EveryStep ==
  ASSUME TypeInv, [Next]_vars
  PROVE  RecordStep
<1>1. ASSUME NEW x \in Agents, CreateAgent(x) \/ ArchiveAgent(x) \/ PurgeAgent(x)
      PROVE  RecordStep
  BY <1>1, RecordedByOperations
<1>2. ASSUME NEW x \in Agents, MaterialiseAgent(x)
      PROVE  RecordStep
  BY <1>2, MaterialisationGoesOn
<1>3. ASSUME NEW s \in Spawned, SpawnSession(s) \/ RemoveSession(s)
      PROVE  RecordStep
  BY <1>3, RecordedBySessions
<1>4. ASSUME NEW t \in Topologies, ChangeTopology(t)
      PROVE  RecordStep
  BY <1>4, TopologyIsDrawn, RecordedByTopologies
<1>5. ASSUME NEW r \in Registries, ChangeConfig(r)
      PROVE  RecordStep
  BY <1>5, QuietChange
<1>6. ASSUME NEW n \in DOMAIN log, NEW scope \in B!Scopes, Checkout(n, scope)
      PROVE  RecordStep
  BY <1>6, CheckoutDecides
<1>7. ASSUME NEW f \in 2..Len(log), Truncate(f)
      PROVE  RecordStep
  BY <1>7, QuietTruncation
<1>8. SweepAgent \/ SweepTopologies => RecordStep
  BY QuietSweeps
<1>9. PayOwed => RecordStep
  BY RecordedByPaying
<1>10. RewriteWal => RecordStep
  BY QuietRewrite
<1>11. Rematerialise => RecordStep
  BY MaterialisationGoesOn
<1>12. MaterialiseRest \/ MaterialiseSession \/ MaterialisingRaises \/ RevivingRaises
         => RecordStep
  BY MaterialisationEnds
<1>13. Crash => RecordStep
  BY DeathStep
<1>14. UNCHANGED vars => RecordStep
  <2> SUFFICES ASSUME UNCHANGED vars PROVE RecordStep
    OBVIOUS
  <2>1. FilesTyped' /\ GensTyped' /\ owed' \in Seq(Owing) /\ mat' = mat
    BY DEF TypeInv, Typed, FilesTyped, GensTyped, RecordInv
  <2>2. log' = log /\ durable' \in durable..Len(log)
    <3>1. durable \in 0..Len(log) /\ Len(log) \in Nat
      BY LogIsWellFormed DEF TypeInv, RecordInv, LogInv
    <3> QED
      BY <3>1
  <2> QED
    BY <2>1, <2>2, QuietStep
<1> QED
  BY <1>1, <1>2, <1>3, <1>4, <1>5, <1>6, <1>7, <1>8, <1>9, <1>10, <1>11, <1>12, <1>13, <1>14,
     Zenon DEF Next

LEMMA TypesHoldAtFirst ==
  ASSUME Init
  PROVE  TypeInv
<1>1. LogInv
  BY DEF Init, LogInv, Resets, IsRewind
<1>2. MatInv /\ owed \in Seq(Owing)
  BY DEF Init, MatInv, NotRewinding, B!Scopes
<1>3. FilesTyped /\ Len(log) <= MaxHead
  <2>1. Len(log) <= MaxHead /\ 1 \in 1..MaxHead /\ 0 \in 0..MaxHead /\ 1 \in 1..MaxChanges
    BY LifecycleAssumption DEF Init
  <2>2. config \in [Registries -> 0..MaxChanges]
    <3>1. Absent \in 0..MaxChanges /\ 1 \in 0..MaxChanges
      BY LifecycleAssumption DEF Absent
    <3> HIDE DEF Absent
    <3> QED
      BY <3>1 DEF Init
  <2>3. archived \in [Agents -> {NoMarker} \cup 0..MaxHead]
    BY DEF Init
  <2>4. topologies \in [Topologies -> SUBSET Agents]
    BY DEF Init
  <2> QED
    BY <2>1, <2>2, <2>3, <2>4 DEF Init, FilesTyped
<1>4. GensTyped
  <2>1. PICK set \in SUBSET Registries : gens = {Gen(r, 0, 1) : r \in set}
    BY DEF Init
  <2>2. \A r \in Registries :
          Gen(r, 0, 1) \in [reg : Registries, seq : 0..durable, content : 1..MaxChanges]
    BY LifecycleAssumption DEF Gen, Init
  <2> QED
    BY <2>1, <2>2 DEF GensTyped, Init
<1> QED
  BY <1>1, <1>2, <1>3, <1>4 DEF TypeInv, Typed, RecordInv

LEMMA TypesHold == Spec => []TypeInv
<1>1. TypeInv /\ [Next]_vars => TypeInv'
  BY EveryStep DEF RecordStep
<1> QED
  BY <1>1, TypesHoldAtFirst, PTL DEF Spec

\* Every reachable state is well typed.
THEOREM TypeCorrect == Spec => []TypeOK
<1>1. TypeInv => TypeOK
  BY DEF TypeInv, Typed, FilesTyped, GensTyped, RecordInv, LogInv, MatInv, TypeOK
<1> QED
  BY <1>1, TypesHold, PTL

----------------------------------------------------------------------------
(* Config generations.                                                      *)

\* The generations of a registry that are on the branch.
Due(r) == {g \in recorded : g.reg = r /\ g.seq \in Now(GLOBAL_SCOPE) \cup {0}}

\* The one with the highest number.
Newest(G) == CHOOSE g \in G : \A f \in G : f.seq <= g.seq

\* ConfigSurvivesTruncation, of one registry.
ConfigFollows(r) ==
  (\A g \in recorded : g.reg = r /\ g \notin Due(r) => g.seq >= swept)
    => config[r] = IF Due(r) = {} THEN Absent ELSE Newest(Due(r)).content

\* A registry has one generation per number.  What was pruned is below the floor, and so
\* is what was kept in its place.
GensInv ==
  /\ \A g, h \in recorded : g.reg = h.reg /\ g.seq = h.seq => g = h
  /\ swept <= durable
  /\ \A g \in recorded \ gens :
       g.seq < swept /\ \E h \in gens : h.reg = g.reg /\ h.seq < swept /\ g.seq <= h.seq
  /\ \A r \in Registries \ adrift : (\A g \in recorded : g.reg # r) => config[r] = Absent

ConfigInv ==
  TypeInv /\ GensInv /\ (Steady => \A r \in Registries \ adrift : ConfigFollows(r))

\* The last of some generations of a registry is the one nothing is above.
LEMMA LastIs ==
  ASSUME TypeInv, GensInv, NEW r, NEW G \in SUBSET {g \in recorded : g.reg = r},
         NEW top \in G, \A f \in G : f.seq <= top.seq
  PROVE  Newest(G) = top
<1>1. Newest(G) \in G /\ \A f \in G : f.seq <= Newest(G).seq
  BY Zenon DEF Newest
<1>2. \A g \in G : g \in recorded /\ g.reg = r /\ g.seq \in Nat
  BY DEF TypeInv, Typed, GensTyped
<1>3. Newest(G).seq = top.seq
  BY <1>1, <1>2
<1> QED
  BY <1>1, <1>2, <1>3 DEF GensInv

\* What is on the branch stays there as long as no rewind of everything is under way.
LEMMA DueKept ==
  ASSUME TypeInv, BranchKept, recorded' = recorded, NEW r
  PROVE  Due(r)' = Due(r)
<1>1. \A g \in recorded : g.seq \in 0..durable
  BY DEF TypeInv, Typed, GensTyped
<1>2. \A g \in recorded : g.seq = 0 \/ g.seq \in 1..durable
  BY <1>1, LogIsWellFormed DEF TypeInv, RecordInv
<1>3. \A g \in recorded : g.seq \in Now(GLOBAL_SCOPE)' \cup {0} <=> g.seq \in Now(GLOBAL_SCOPE) \cup {0}
  BY <1>2 DEF BranchKept
<1> QED
  BY <1>3 DEF Due

ConfigKept ==
  /\ UNCHANGED <<gens, recorded, swept>>
  /\ \A r \in Registries \ adrift' : r \notin adrift /\ config'[r] = config[r]
  /\ Steady' => Steady

LEMMA ConfigSame ==
  ASSUME ConfigInv, RecordStep, ConfigKept
  PROVE  ConfigInv'
<1>1. TypeInv' /\ durable <= durable' /\ (Steady' => BranchKept)
  BY DEF RecordStep
<1>2. GensInv'
  <2>1. swept' <= durable'
    <3>1. swept \in Nat /\ durable \in Nat /\ durable' \in Nat
      BY <1>1, LogIsWellFormed, LifecycleAssumption
      DEF ConfigInv, TypeInv, RecordInv, LogInv, Typed, FilesTyped
    <3> QED
      BY <1>1, <3>1 DEF ConfigKept, ConfigInv, GensInv
  <2> QED
    BY <2>1 DEF ConfigKept, ConfigInv, GensInv
<1>3. ASSUME Steady', NEW r \in Registries \ adrift' PROVE ConfigFollows(r)'
  <2>1. Due(r)' = Due(r)
    BY <1>1, <1>3, DueKept DEF ConfigInv, ConfigKept
  <2>2. ConfigFollows(r) /\ config'[r] = config[r]
    BY <1>3 DEF ConfigInv, ConfigKept
  <2> QED
    BY <2>1, <2>2 DEF ConfigFollows, ConfigKept
<1> QED
  BY <1>1, <1>2, <1>3 DEF ConfigInv

LEMMA OverwrittenIs ==
  ASSUME NEW store, NEW new
  PROVE  \A g : g \in Overwritten(store, new)
                 <=> g = new \/ (g \in store /\ (g.reg # new.reg \/ g.seq # new.seq))
BY DEF Overwritten

LEMMA ChangeIsRecorded ==
  ASSUME ConfigInv, RecordStep, NEW r \in Registries, ChangeConfig(r)
  PROVE  ConfigInv'
<1> DEFINE new == Gen(r, durable', changes')
<1>1. /\ config' = [config EXCEPT ![r] = changes'] /\ log' = log
      /\ gens' = Overwritten(gens, new) /\ recorded' = Overwritten(recorded, new)
      /\ UNCHANGED <<mat, torn, adrift, swept>> /\ durable' \in durable..Len(log)
  BY DEF ChangeConfig
<1>2. /\ TypeInv' /\ durable <= durable' /\ durable \in Nat /\ durable' \in Nat
      /\ Now(GLOBAL_SCOPE)' = Now(GLOBAL_SCOPE) /\ swept \in Nat
  <2>1. LogInv
    BY DEF ConfigInv, TypeInv, RecordInv
  <2>2. Now(GLOBAL_SCOPE)' = Now(GLOBAL_SCOPE)
    BY <1>1, <2>1, LogSynced
  <2>3. durable \in Nat /\ swept \in Nat
    BY <2>1, LogIsWellFormed DEF ConfigInv, TypeInv, Typed, FilesTyped
  <2>4. durable' \in Nat
    BY <2>1, <1>1, LogIsWellFormed
  <2> QED
    BY <2>2, <2>3, <2>4 DEF RecordStep
<1>3. new.reg = r /\ new.seq = durable' /\ new.content = changes'
  BY DEF Gen
<1> HIDE DEF new
<1>4. \A g : g \in recorded' <=> g = new \/ (g \in recorded /\ (g.reg # r \/ g.seq # durable'))
  <2>1. recorded' = Overwritten(recorded, new)
    BY <1>1
  <2> QED
    BY <1>3, <2>1, OverwrittenIs, Zenon
<1>5. \A g : g \in gens' <=> g = new \/ (g \in gens /\ (g.reg # r \/ g.seq # durable'))
  <2>1. gens' = Overwritten(gens, new)
    BY <1>1
  <2> QED
    BY <1>3, <2>1, OverwrittenIs, Zenon
<1>6. \A g \in recorded : g.seq \in Nat /\ g.seq <= durable'
  BY <1>2 DEF ConfigInv, TypeInv, Typed, GensTyped
<1>7. GensInv'
  <2>1. \A g, h \in recorded' : g.reg = h.reg /\ g.seq = h.seq => g = h
    BY <1>3, <1>4 DEF ConfigInv, GensInv
  <2>2. swept' <= durable'
    BY <1>1, <1>2 DEF ConfigInv, GensInv
  <2>3. ASSUME NEW g \in recorded' \ gens'
        PROVE  g.seq < swept' /\ \E h \in gens' : h.reg = g.reg /\ h.seq < swept' /\ g.seq <= h.seq
    <3>1. g \in recorded \ gens
      BY <2>3, <1>4, <1>5
    <3>2. g.seq < swept /\ \E h \in gens : h.reg = g.reg /\ h.seq < swept /\ g.seq <= h.seq
      BY <3>1 DEF ConfigInv, GensInv
    <3>3. PICK h \in gens : h.reg = g.reg /\ h.seq < swept /\ g.seq <= h.seq
      BY <3>2
    <3>4. h.seq # durable'
      <4>1. h.seq \in Nat
        BY <1>6 DEF ConfigInv, TypeInv, Typed, GensTyped
      <4> QED
        BY <1>2, <3>3, <4>1 DEF ConfigInv, GensInv
    <3>5. h \in gens'
      BY <1>5, <3>4
    <3> QED
      BY <1>1, <3>2, <3>3, <3>5
  <2>4. ASSUME NEW q \in Registries \ adrift', \A g \in recorded' : g.reg # q
        PROVE  config'[q] = Absent
    <3>1. q # r
      <4>1. new \in recorded'
        BY <1>4
      <4> QED
        BY <1>3, <2>4, <4>1
    <3>2. \A g \in recorded : g.reg # q
      BY <1>4, <2>4, <3>1
    <3>3. q \in Registries \ adrift /\ config[q] = Absent
      BY <1>1, <3>2 DEF ConfigInv, GensInv
    <3> QED
      BY <1>1, <3>1, <3>3 DEF ConfigInv, TypeInv, Typed, FilesTyped
  <2> QED
    BY <2>1, <2>2, <2>3, <2>4 DEF GensInv
<1>8. ASSUME Steady', NEW q \in Registries \ adrift' PROVE ConfigFollows(q)'
  <2>1. CASE q = r
    <3>1. new \in Due(r)'
      <4>1. durable' \in Now(GLOBAL_SCOPE)' \cup {0}
        <5>1. LogInv /\ Len(log) \in Nat
          BY LogIsWellFormed DEF ConfigInv, TypeInv, RecordInv
        <5>2. durable' = 0 \/ (durable' \in 1..Len(log) /\ durable' >= durable)
          BY <1>1, <1>2, <5>1
        <5>3. \A n \in 1..Len(log) : n >= durable => n \in Now(GLOBAL_SCOPE)
          BY <5>1, NowIs
        <5> QED
          BY <1>2, <5>2, <5>3
      <4>2. new \in recorded'
        BY <1>4
      <4> QED
        BY <1>3, <4>1, <4>2 DEF Due
    <3>2. \A f \in Due(r)' : f.seq <= new.seq
      BY <1>2, <1>3, <1>4, <1>6 DEF Due
    <3>3. Due(r)' \subseteq {g \in recorded' : g.reg = r}
      BY DEF Due
    <3>4. Newest(Due(r)') = new
      <4>1. \A g, h \in recorded' : g.reg = h.reg /\ g.seq = h.seq => g = h
        BY <1>7 DEF GensInv
      <4> DEFINE D == Due(r)'
      <4>2. Newest(D) \in D /\ \A f \in D : f.seq <= Newest(D).seq
        <5>1. \E g \in D : \A f \in D : f.seq <= g.seq
          BY <3>1, <3>2
        <5> HIDE DEF D
        <5> QED
          BY <5>1, Zenon DEF Newest
      <4>3. Newest(D).seq \in Nat /\ new.seq \in Nat
        BY <1>2, <1>3, <1>4, <1>6, <3>3, <4>2
      <4>4. Newest(D).seq = new.seq
        BY <3>1, <3>2, <4>2, <4>3
      <4> QED
        BY <3>1, <3>3, <4>1, <4>2, <4>4
    <3>5. config'[r] = changes'
      BY <1>1 DEF ConfigInv, TypeInv, Typed, FilesTyped
    <3> QED
      BY <1>3, <2>1, <3>1, <3>4, <3>5 DEF ConfigFollows
  <2>2. CASE q # r
    <3>1. Due(q)' = Due(q)
      BY <1>2, <1>3, <1>4, <2>2 DEF Due
    <3>2. \A g : g.reg = q => (g \in recorded' <=> g \in recorded)
      BY <1>3, <1>4, <2>2
    <3>3. config'[q] = config[q]
      BY <1>1, <2>2 DEF ConfigInv, TypeInv, Typed, FilesTyped
    <3>4. ConfigFollows(q)
      BY <1>1, <1>8 DEF ConfigInv, Steady
    <3> QED
      BY <1>1, <3>1, <3>2, <3>3, <3>4 DEF ConfigFollows
  <2> QED
    BY <2>1, <2>2
<1> QED
  BY <1>2, <1>7, <1>8 DEF ConfigInv

LEMMA TruncationKeepsTheBase ==
  ASSUME ConfigInv, RecordStep, NEW f \in 2..Len(log), Truncate(f)
  PROVE  ConfigInv'
<1>1. /\ swept = 0 /\ swept' = f /\ gens' = Pruned(f) /\ log' = log
      /\ durable' = Larger(durable, f) /\ UNCHANGED <<recorded, config, mat, torn, adrift>>
  BY DEF Truncate, OnceTruncated
<1>2. TypeInv /\ LogInv /\ GensTyped /\ TypeInv'
  BY DEF ConfigInv, TypeInv, RecordInv, Typed, RecordStep
<1>3. durable \in Nat /\ Len(log) \in Nat /\ f \in Nat /\ durable <= Len(log)
  BY <1>2, LogIsWellFormed DEF LogInv
<1>4. f <= durable' /\ durable' \in durable..Len(log)
  BY <1>1, <1>3 DEF Larger
<1>5. Now(GLOBAL_SCOPE)' = Now(GLOBAL_SCOPE)
  BY <1>1, <1>2, <1>4, LogSynced
<1>6. \A g \in recorded : g.seq \in Nat
  BY <1>2 DEF GensTyped
<1>7. gens = recorded
  <2>1. \A g \in recorded \ gens : g.seq < 0
    BY <1>1 DEF ConfigInv, GensInv
  <2> QED
    BY <1>2, <1>6, <2>1 DEF GensTyped
<1>8. GensInv'
  <2>1. ASSUME NEW g \in recorded \ gens'
        PROVE  g.seq < f /\ \E h \in gens' : h.reg = g.reg /\ h.seq < f /\ g.seq <= h.seq
    <3> DEFINE low == {h \in recorded : h.reg = g.reg /\ h.seq < f}
    <3>1. g \in low
      <4>1. ~(g.seq >= f)
        BY <1>1, <1>7, <2>1 DEF Pruned
      <4> QED
        BY <1>3, <1>6, <2>1, <4>1
    <3>2. PICK top \in low : \A h \in low : h.seq <= top.seq
      <4>1. low \in SUBSET recorded /\ low # {}
        BY <3>1
      <4> HIDE DEF low
      <4> QED
        BY <1>2, <4>1, HighestGeneration
    <3>3. top \in gens'
      BY <1>1, <1>7, <3>2 DEF Pruned
    <3> QED
      BY <3>1, <3>2, <3>3
  <2>2. swept' <= durable'
    BY <1>1, <1>4
  <2> QED
    BY <1>1, <2>1, <2>2 DEF ConfigInv, GensInv
<1>9. ASSUME Steady', NEW r \in Registries \ adrift' PROVE ConfigFollows(r)'
  <2>1. Due(r)' = Due(r)
    BY <1>1, <1>5 DEF Due
  <2>2. ConfigFollows(r)
    BY <1>1, <1>9 DEF ConfigInv, Steady
  <2>3. config[r] = IF Due(r) = {} THEN Absent ELSE Newest(Due(r)).content
    BY <1>1, <1>6, <2>2 DEF ConfigFollows
  <2> QED
    BY <1>1, <2>1, <2>3 DEF ConfigFollows
<1> QED
  BY <1>2, <1>8, <1>9 DEF ConfigInv

\* What latest_active finds among the generations that are left is the last on the
\* branch: if that one was pruned, a higher one below the floor was kept, and it would
\* have to be off the branch.
LEMMA TheLastIsFound ==
  ASSUME ConfigInv, NEW r \in Registries \ adrift,
         \A g \in recorded : g.reg = r /\ g \notin Due(r) => g.seq >= swept
  PROVE  ConfigNow(r) = IF Due(r) = {} THEN Absent ELSE Newest(Due(r)).content
<1> DEFINE there == {g \in gens : g.reg = r}
           active == {g \in there : Active(g.seq, GLOBAL_SCOPE)}
           D == Due(r)
<1>1. TypeInv /\ LogInv /\ GensTyped /\ GensInv
  BY DEF ConfigInv, TypeInv, RecordInv, Typed
<1>2. \A g \in recorded : g.seq \in Nat /\ g.seq \in 0..Len(log)
  <2>1. \A n \in 0..durable : n \in Nat /\ n \in 0..Len(log)
    BY <1>1, LogIsWellFormed DEF LogInv
  <2> QED
    BY <1>1, <2>1 DEF GensTyped
<1>3. \A g \in recorded : Active(g.seq, GLOBAL_SCOPE) <=> g.seq \in Now(GLOBAL_SCOPE) \cup {0}
  <2>1. Len(log) \in Nat /\ Now(GLOBAL_SCOPE) \subseteq 1..Len(log)
    BY <1>1, LogIsWellFormed, NowIs
  <2>2. \A n \in 0..Len(log) : n = 0 \/ n \in 1..Len(log)
    BY <2>1
  <2> QED
    BY <1>1, <1>2, <2>2, NowIs
<1>4. active = {g \in D : g \in gens}
  BY <1>1, <1>3 DEF Due, GensTyped
<1>5. ConfigNow(r) = IF there = {} THEN config[r]
                     ELSE IF active = {} THEN Absent ELSE Newest(active).content
  BY DEF ConfigNow, Newest
<1>6. D \in SUBSET recorded /\ \A g \in D : g.reg = r
  BY DEF Due
<1>7. swept \in Nat
  BY <1>1, LifecycleAssumption DEF TypeInv, Typed, FilesTyped
<1>8. there = {} => config[r] = Absent /\ D = {}
  <2> SUFFICES ASSUME there = {} PROVE config[r] = Absent /\ D = {}
    OBVIOUS
  <2>1. \A g \in recorded : g.reg # r
    <3>1. ASSUME NEW g \in recorded, g.reg = r PROVE FALSE
      <4>1. g \notin gens
        BY <3>1
      <4>2. \E h \in gens : h.reg = g.reg
        BY <1>1, <3>1, <4>1 DEF GensInv
      <4> QED
        BY <3>1, <4>2
    <3> QED
      BY <3>1
  <2> QED
    BY <1>1, <1>6, <2>1 DEF GensInv
<1>9. D # {} => active # {} /\ Newest(active) = Newest(D)
  <2> SUFFICES ASSUME D # {} PROVE active # {} /\ Newest(active) = Newest(D)
    OBVIOUS
  <2> HIDE DEF D
  <2>1. PICK top \in D : \A g \in D : g.seq <= top.seq
    BY <1>1, <1>6, HighestGeneration
  <2>2. top \in gens
    <3> SUFFICES ASSUME top \notin gens PROVE FALSE
      OBVIOUS
    <3>1. top \in recorded /\ top.reg = r
      BY <1>6
    <3>2. PICK h \in gens : h.reg = r /\ h.seq < swept /\ top.seq <= h.seq
      BY <1>1, <3>1 DEF GensInv
    <3>3. h \in recorded /\ h.seq \in Nat
      BY <1>1, <1>2 DEF GensTyped
    <3>4. h \in D
      BY <1>7, <3>2, <3>3 DEF D
    <3>5. h.seq = top.seq
      BY <1>2, <2>1, <3>1, <3>2, <3>3, <3>4
    <3> QED
      BY <1>1, <3>1, <3>2, <3>3, <3>5 DEF GensInv
  <2>3. top \in active
    BY <1>4, <2>2
  <2>4. Newest(D) = top
    <3>1. D \in SUBSET {g \in recorded : g.reg = r}
      BY <1>6
    <3> QED
      BY <1>1, <2>1, <3>1, LastIs
  <2>5. Newest(active) = top
    <3>1. active \in SUBSET {g \in recorded : g.reg = r}
      BY <1>4, <1>6
    <3>2. \A g \in active : g.seq <= top.seq
      BY <1>4, <2>1
    <3> HIDE DEF active
    <3> QED
      BY <1>1, <2>3, <3>1, <3>2, LastIs
  <2> QED
    BY <2>3, <2>4, <2>5
<1>10. D = {} => active = {}
  BY <1>4
<1> HIDE DEF there, active
<1> QED
  BY <1>5, <1>8, <1>9, <1>10

LEMMA RegistriesRebuilt ==
  ASSUME ConfigInv, RecordStep, MaterialiseRest
  PROVE  ConfigInv'
<1>1. /\ config' = [r \in Registries |-> ConfigNow(r)] /\ log' = log
      /\ UNCHANGED <<durable, gens, recorded, swept, adrift>>
  BY DEF MaterialiseRest
<1>2. Now(GLOBAL_SCOPE)' = Now(GLOBAL_SCOPE)
  BY <1>1 DEF Now
<1>3. GensInv'
  <2>1. ASSUME NEW r \in Registries \ adrift, \A g \in recorded : g.reg # r
        PROVE  config'[r] = Absent
    <3>1. Due(r) = {}
      BY <2>1 DEF Due
    <3>2. ConfigNow(r) = Absent
      BY <2>1, <3>1, TheLastIsFound
    <3> QED
      BY <1>1, <3>2
  <2> QED
    BY <1>1, <2>1 DEF ConfigInv, GensInv
<1>4. ASSUME NEW r \in Registries \ adrift' PROVE ConfigFollows(r)'
  <2>1. Due(r)' = Due(r)
    BY <1>1, <1>2 DEF Due
  <2>2. config'[r] = ConfigNow(r) /\ r \in Registries \ adrift
    BY <1>1
  <2>3. (\A g \in recorded : g.reg = r /\ g \notin Due(r) => g.seq >= swept)
          => config'[r] = IF Due(r) = {} THEN Absent ELSE Newest(Due(r)).content
    BY <2>2, TheLastIsFound
  <2> QED
    BY <1>1, <2>1, <2>3 DEF ConfigFollows
<1> QED
  BY <1>3, <1>4 DEF ConfigInv, RecordStep

\* Death: a registry's yaml may be ahead of its generation, and is then adrift; and a
\* rewind of everything that was under way is recovered.
LEMMA DeathKeepsConfig ==
  ASSUME ConfigInv, Crash
  PROVE  ConfigKept
<1>1. PICK saved \in {{}} \cup {{r} : r \in Registries} :
        /\ config' = [r \in Registries |-> IF r \in saved THEN changes + 1 ELSE config[r]]
        /\ adrift' = adrift \cup saved \cup {log[n].who : n \in durable' + 1..Len(log)}
                            \cup {r.who : r \in Unpaid} \cup {t \in Topologies : CutOff(t)}
  BY DEF Crash
<1>2. \A r \in Registries \ adrift' : r \notin adrift /\ config'[r] = config[r]
  BY <1>1
<1>3. torn' = torn /\ UNCHANGED <<gens, recorded, swept>>
  BY DEF Crash
<1>4. ASSUME Steady' PROVE Steady
  <2>1. CASE mat.step = "none"
    BY <1>3, <1>4, <2>1 DEF Steady
  <2>2. CASE mat.step # "none"
    <3>1. PICK n \in Resets : log[n].scope = mat.scope /\ \A k \in Resets : k <= n
      BY <2>2 DEF ConfigInv, TypeInv, RecordInv, MatInv
    <3>2. mat'.step # "none" /\ mat'.scope = mat.scope
      BY <3>1, RecoveringIs DEF ConfigInv
    <3> QED
      BY <1>3, <1>4, <3>2 DEF Steady
  <2> QED
    BY <2>1, <2>2
<1> QED
  BY <1>2, <1>3, <1>4 DEF ConfigKept

LEMMA ConfigStep ==
  ASSUME ConfigInv, [Next]_vars
  PROVE  ConfigInv'
<1> USE EveryStep DEF ConfigInv
<1>1. RecordStep
  OBVIOUS
<1>2. ConfigKept => ConfigInv'
  BY <1>1, ConfigSame
<1> DEFINE Untouched == UNCHANGED <<config, gens, recorded, swept, torn>>
<1>3. Untouched /\ mat' = mat /\ adrift' = adrift => ConfigKept
  BY DEF ConfigKept, Steady
<1>4. ASSUME NEW x \in Agents, CreateAgent(x) \/ ArchiveAgent(x) \/ PurgeAgent(x)
      PROVE  ConfigKept
  BY <1>3, <1>4 DEF CreateAgent, ArchiveAgent, PurgeAgent
<1>5. ASSUME NEW x \in Agents, MaterialiseAgent(x)
      PROVE  ConfigKept
  <2>1. mat \in [step : {"none", "decided", "agents"}, scope : B!Scopes,
                 todo : SUBSET Agents, purges : SUBSET Spawned]
    BY DEF TypeInv, RecordInv, MatInv
  <2>2. mat'.step = mat.step /\ mat'.scope = mat.scope
    BY <1>5, <2>1 DEF MaterialiseAgent
  <2> QED
    BY <1>5, <2>2 DEF MaterialiseAgent, ConfigKept, Steady
<1>6. ASSUME NEW s \in Spawned, SpawnSession(s) \/ RemoveSession(s)
      PROVE  ConfigKept
  BY <1>3, <1>6 DEF SpawnSession, RemoveSession
<1>7. ASSUME NEW t \in Topologies, NEW members \in SUBSET Agents, DrawTopology(t, members)
      PROVE  ConfigKept
  <2>1. \A r \in Registries \ adrift' : r \notin adrift
    BY <1>7, LifecycleAssumption DEF DrawTopology
  <2> QED
    BY <1>7, <2>1 DEF DrawTopology, ConfigKept, Steady
<1>8. ASSUME NEW r \in Registries, ChangeConfig(r)
      PROVE  ConfigInv'
  BY <1>1, <1>8, ChangeIsRecorded
<1>9. ASSUME NEW n \in DOMAIN log, NEW scope \in B!Scopes, Checkout(n, scope)
      PROVE  ConfigKept
  <2>1. mat.step = "none" /\ UNCHANGED <<config, gens, recorded, swept, torn>>
    BY <1>9 DEF Checkout, Working
  <2>2. \A r \in Registries \ adrift' : r \notin adrift
    BY <1>9 DEF Checkout
  <2> QED
    BY <2>1, <2>2 DEF ConfigKept, Steady
<1>10. ASSUME NEW f \in 2..Len(log), Truncate(f)
       PROVE  ConfigInv'
  BY <1>1, <1>10, TruncationKeepsTheBase
<1>11. SweepAgent \/ SweepTopologies \/ PayOwed \/ RewriteWal => ConfigKept
  BY <1>3 DEF SweepAgent, SweepTopologies, PayOwed, RewriteWal
<1>12. Rematerialise => ConfigKept
  <2> SUFFICES ASSUME Rematerialise PROVE ConfigKept
    OBVIOUS
  <2>1. mat.scope = GLOBAL_SCOPE /\ mat' = [mat EXCEPT !.step = "agents", !.todo = agents']
    BY DEF Rematerialise
  <2>2. mat'.step # "none" /\ mat'.scope = GLOBAL_SCOPE
    <3>1. mat \in [step : {"none", "decided", "agents"}, scope : B!Scopes,
                   todo : SUBSET Agents, purges : SUBSET Spawned]
      BY DEF TypeInv, RecordInv, MatInv
    <3> QED
      BY <2>1, <3>1
  <2> QED
    BY <2>2 DEF Rematerialise, ConfigKept, Steady
<1>13. MaterialiseRest => ConfigInv'
  BY <1>1, RegistriesRebuilt
<1>14. MaterialiseSession => ConfigKept
  BY DEF MaterialiseSession, ConfigKept, Steady
<1>15. MaterialisingRaises \/ RevivingRaises => ConfigKept
  BY DEF MaterialisingRaises, RevivingRaises, ConfigKept, Steady
<1>16. Crash => ConfigKept
  BY DeathKeepsConfig
<1>17. UNCHANGED vars => ConfigKept
  BY <1>3
<1>18. ASSUME NEW t \in Topologies, ChangeTopology(t)
       PROVE  ConfigKept
  BY <1>7, <1>18, TopologyIsDrawn
<1> HIDE DEF Untouched
<1> QED
  BY <1>2, <1>4, <1>5, <1>6, <1>8, <1>9, <1>10, <1>11, <1>12, <1>13, <1>14, <1>15, <1>16, <1>17,
     <1>18, Zenon DEF Next

LEMMA ConfigAtFirst ==
  ASSUME Init
  PROVE  ConfigInv
<1>1. TypeInv
  BY TypesHoldAtFirst
<1>2. PICK set \in SUBSET Registries :
        /\ config = [r \in Registries |-> IF r \in set THEN 1 ELSE Absent]
        /\ gens = {Gen(r, 0, 1) : r \in set}
  BY DEF Init
<1>3. recorded = gens /\ durable = 0 /\ swept = 0
  BY DEF Init
<1>4. \A g \in recorded : g.reg \in set /\ g = Gen(g.reg, 0, 1) /\ g.seq = 0 /\ g.content = 1
  BY <1>2, <1>3 DEF Gen
<1>5. \A r \in set : Gen(r, 0, 1) \in recorded /\ Gen(r, 0, 1).reg = r
  BY <1>2, <1>3 DEF Gen
<1>6. GensInv
  <2>1. \A g, h \in recorded : g.reg = h.reg => g = h
    BY <1>4
  <2>2. \A r \in Registries : (\A g \in recorded : g.reg # r) => config[r] = Absent
    BY <1>2, <1>5
  <2> QED
    BY <1>3, <2>1, <2>2 DEF GensInv
<1>7. ASSUME NEW r \in Registries PROVE ConfigFollows(r)
  <2>1. \A g : g \in Due(r) <=> g \in recorded /\ g.reg = r
    BY <1>4 DEF Due
  <2>2. CASE r \in set
    <3> DEFINE new == Gen(r, 0, 1)
    <3>1. new \in Due(r)
      BY <1>5, <2>1, <2>2
    <3>2. \A f \in Due(r) : f.seq <= new.seq
      BY <1>4, <1>5, <2>1, <2>2
    <3>3. Due(r) \in SUBSET {g \in recorded : g.reg = r}
      BY <2>1
    <3>4. new.content = 1
      BY <1>4, <1>5, <2>2
    <3> HIDE DEF new
    <3>5. Newest(Due(r)) = new
      BY <1>1, <1>6, <3>1, <3>2, <3>3, LastIs
    <3> QED
      BY <1>2, <2>2, <3>1, <3>4, <3>5 DEF ConfigFollows
  <2>3. CASE r \notin set
    <3>1. Due(r) = {}
      BY <1>4, <2>1, <2>3
    <3> QED
      BY <1>2, <2>3, <3>1 DEF ConfigFollows
  <2> QED
    BY <2>2, <2>3
<1> QED
  BY <1>1, <1>6, <1>7 DEF ConfigInv

\* prune_below, latest_active: a registry holds what its last generation on the branch
\* says, after checkouts, deaths at any step and a truncation - pruned or not - provided
\* no generation below the floor was abandoned.
THEOREM ConfigIsNotLost == Spec => []ConfigSurvivesTruncation
<1>1. ConfigInv /\ [Next]_vars => ConfigInv'
  BY ConfigStep
<1>2. ConfigInv => ConfigSurvivesTruncation
  <2> DEFINE there(r) == {g \in recorded : g.reg = r}
             due(r)   == {g \in there(r) : g.seq \in Now(GLOBAL_SCOPE) \cup {0}}
  <2> SUFFICES ASSUME ConfigInv, Settled, NEW r \in Registries \ adrift,
                      \A g \in there(r) \ due(r) : g.seq >= swept
               PROVE  config[r] = IF due(r) = {} THEN Absent
                        ELSE (CHOOSE g \in due(r) : \A f \in due(r) : f.seq <= g.seq).content
    BY Zenon DEF ConfigSurvivesTruncation
  <2>1. due(r) = Due(r)
    BY DEF Due
  <2>2. ConfigFollows(r)
    BY DEF ConfigInv, Settled, Steady
  <2>3. \A g \in recorded : g.reg = r /\ g \notin Due(r) => g.seq >= swept
    BY <2>1
  <2> HIDE DEF there, due
  <2>4. config[r] = IF Due(r) = {} THEN Absent ELSE Newest(Due(r)).content
    BY <2>2, <2>3 DEF ConfigFollows
  <2> QED
    BY <2>1, <2>4 DEF Newest
<1> QED
  BY <1>1, <1>2, ConfigAtFirst, PTL DEF Spec

----------------------------------------------------------------------------
(* Topologies, as long as nothing was truncated.                            *)

IsDrawn(r, t) == r.kind = "topology" /\ r.who = t

\* The records of a topology that are still owed, those on the branch, and what the
\* last of these says.
OwedFor(t)    == {r \in Range(owed) : IsDrawn(r, t)}
DrawnOn(t)    == Those("topology", t, Now(GLOBAL_SCOPE))
DrawnLast(t)  == LET n == Latest(DrawnOn(t)) IN IF n = 0 THEN {} ELSE log[n].members
NeverDrawn(t) == \A n \in DOMAIN log : ~IsDrawn(log[n], t)

\* A purge has changed the topology and owes its record.
WillBeDrawn(t) ==
  /\ OwedFor(t) # {} /\ mat.step = "none"
  /\ \A r \in OwedFor(t) : r.members = topologies[t]

IsAsDrawn(t) ==
  /\ OwedFor(t) = {}
  /\ NeverDrawn(t) => topologies[t] = {}
  /\ Steady => topologies[t] = DrawnLast(t)

Stands(t) == WillBeDrawn(t) \/ IsAsDrawn(t)

NoSweeps == \A r \in Range(owed) : r.kind \notin {"sweep", "cascade"}

TopologiesStand ==
  /\ floor = 1 /\ floorDue = 0
  /\ NoSweeps
  /\ \A t \in Topologies \ adrift : Stands(t)

TopologyInv == TypeInv /\ (swept = 0 => TopologiesStand)

\* No record of the topology comes, goes, or changes its place.
DrawnUntouched(t) ==
  /\ \A n \in DOMAIN log' :
       IsDrawn(log'[n], t) => n \in DOMAIN log /\ log[n] = log'[n]
  /\ \A n \in DOMAIN log :
       IsDrawn(log[n], t) => n \in DOMAIN log' /\ log'[n] = log[n]
  /\ Steady' => \A n \in DOMAIN log :
       IsDrawn(log[n], t) => (n \in Now(GLOBAL_SCOPE)' <=> n \in Now(GLOBAL_SCOPE))

TopologyKept(t) ==
  /\ topologies'[t] = topologies[t] /\ (Steady' => Steady)
  /\ OwedFor(t)' = OwedFor(t)
  /\ OwedFor(t) # {} /\ mat.step = "none" => mat'.step = "none"
  /\ DrawnUntouched(t)

LEMMA DrawnOnIs ==
  ASSUME LogInv, NEW t
  PROVE  /\ DrawnOn(t) \in SUBSET DOMAIN log
         /\ \A n : n \in DrawnOn(t) <=>
                     n \in DOMAIN log /\ n \in Now(GLOBAL_SCOPE) /\ IsDrawn(log[n], t)
<1>1. Now(GLOBAL_SCOPE) \subseteq DOMAIN log
  BY NowIs, LogIsWellFormed
<1> QED
  BY <1>1 DEF DrawnOn, Those, IsDrawn

LEMMA TopologySame ==
  ASSUME LogInv, LogInv', NEW t, Stands(t), TopologyKept(t)
  PROVE  Stands(t)'
<1>1. CASE WillBeDrawn(t)
  BY <1>1 DEF TopologyKept, Stands, WillBeDrawn
<1>2. CASE IsAsDrawn(t)
  <2>1. OwedFor(t)' = {}
    BY <1>2 DEF IsAsDrawn, TopologyKept
  <2>2. NeverDrawn(t)' => topologies'[t] = {}
    <3>1. NeverDrawn(t)' => NeverDrawn(t)
      BY DEF NeverDrawn, TopologyKept, DrawnUntouched
    <3> QED
      BY <1>2, <3>1 DEF IsAsDrawn, TopologyKept
  <2>3. ASSUME Steady' PROVE topologies'[t] = DrawnLast(t)'
    <3>1. topologies[t] = DrawnLast(t)
      BY <1>2, <2>3 DEF IsAsDrawn, TopologyKept
    <3>2. \A n : n \in DrawnOn(t)' <=>
                   n \in DOMAIN log' /\ n \in Now(GLOBAL_SCOPE)' /\ IsDrawn(log'[n], t)
      <4>1. Now(GLOBAL_SCOPE)' \subseteq DOMAIN log'
        <5>1. Len(log') \in Nat /\ DOMAIN log' = 1..Len(log') /\ WellFormed(log')
          BY DEF LogInv, Resets, IsRewind, WellFormed, BP!WellFormed
        <5>2. Way(log', GLOBAL_SCOPE)[Len(log')] \subseteq 1..Len(log')
          BY <5>1, LineageFacts
        <5> QED
          BY <5>1, <5>2 DEF Now, Way
      <4> QED
        BY <4>1 DEF DrawnOn, Those, IsDrawn
    <3>3. DrawnOn(t)' = DrawnOn(t)
      BY <2>3, <3>2, DrawnOnIs DEF TopologyKept, DrawnUntouched
    <3>4. \A n \in DrawnOn(t) : log'[n] = log[n]
      BY DrawnOnIs DEF TopologyKept, DrawnUntouched
    <3>5. Latest(DrawnOn(t)) # 0 => Latest(DrawnOn(t)) \in DrawnOn(t)
      BY DrawnOnIs, ScanFinds
    <3>6. DrawnLast(t)' = DrawnLast(t)
      BY <3>3, <3>4, <3>5 DEF DrawnLast
    <3> QED
      BY <3>1, <3>6 DEF TopologyKept
  <2> QED
    BY <2>1, <2>2, <2>3 DEF Stands, IsAsDrawn
<1> QED
  BY <1>1, <1>2 DEF Stands

LEMMA LogUntouched ==
  ASSUME NEW t, log' = log
  PROVE  DrawnUntouched(t)
BY DEF DrawnUntouched, Now

LEMMA UndrawnAppended ==
  ASSUME LogInv, LogInv', NEW t, NEW e, ~IsDrawn(e, t), Grew(e),
         Steady' => Now(GLOBAL_SCOPE)' = Now(GLOBAL_SCOPE) \cup {Len(log) + 1}
  PROVE  DrawnUntouched(t)
<1>1. DOMAIN log = 1..Len(log) /\ Len(log) \in Nat
  BY LogIsWellFormed
<1>2. DOMAIN log' = 1..(Len(log) + 1)
  BY DEF LogInv, Grew
<1>3. \A n \in DOMAIN log' : n \in DOMAIN log \/ n = Len(log) + 1
  BY <1>1, <1>2
<1>4. \A n \in DOMAIN log : n \in DOMAIN log' /\ log'[n] = log[n] /\ n # Len(log) + 1
  BY <1>1, <1>2 DEF Grew
<1>5. log'[Len(log) + 1] = e
  BY DEF Grew
<1> QED
  BY <1>3, <1>4, <1>5 DEF DrawnUntouched

LEMMA TopologyFrame ==
  ASSUME TopologyInv, RecordStep, swept' = swept,
         swept = 0 /\ TopologiesStand => TopologiesStand'
  PROVE  TopologyInv'
BY DEF TopologyInv, RecordStep

\* A step that concerns no topology.
LEMMA TopologiesUntouched ==
  ASSUME TypeInv, RecordStep, TopologiesStand,
         UNCHANGED <<floor, floorDue, topologies, owed, adrift>>,
         mat.step = "none" => mat'.step = "none", Steady' => Steady,
         \A t \in Topologies : DrawnUntouched(t)
  PROVE  TopologiesStand'
<1>1. LogInv /\ LogInv'
  BY DEF TypeInv, RecordInv, RecordStep
<1>2. ASSUME NEW t \in Topologies \ adrift' PROVE Stands(t)'
  <2>1. Stands(t)
    BY <1>2 DEF TopologiesStand
  <2>2. TopologyKept(t)
    BY <1>2 DEF TopologyKept, OwedFor
  <2> QED
    BY <1>1, <2>1, <2>2, TopologySame
<1> QED
  BY <1>2 DEF TopologiesStand, NoSweeps

LEMMA OtherRecord ==
  ASSUME TypeInv, RecordStep, TopologiesStand,
         NEW e \in Entries, e.kind \notin {"rewind", "topology"},
         NEW w \in durable..Len(log), Append1(e, w),
         UNCHANGED <<topologies, owed, mat, adrift, torn>>
  PROVE  TopologiesStand'
<1>1. LogInv /\ LogInv'
  BY DEF TypeInv, RecordInv, RecordStep
<1>2. Grew(e) /\ Now(GLOBAL_SCOPE)' = Now(GLOBAL_SCOPE) \cup {Len(log) + 1}
  BY <1>1, RecordAppended
<1>3. \A t \in Topologies : DrawnUntouched(t)
  BY <1>1, <1>2, UndrawnAppended DEF IsDrawn
<1>4. UNCHANGED <<floor, floorDue>>
  BY DEF Append1
<1> QED
  BY <1>3, <1>4, TopologiesUntouched DEF Steady

LEMMA OthersRecorded ==
  ASSUME TypeInv, RecordStep, TopologiesStand,
         \/ \E x \in Agents : CreateAgent(x) \/ ArchiveAgent(x)
         \/ \E s \in Spawned : SpawnSession(s) \/ RemoveSession(s)
  PROVE  TopologiesStand'
<1>1. durable \in durable..Len(log)
  BY LogIsWellFormed DEF TypeInv, RecordInv, LogInv
<1>2. CASE \E x \in Agents : CreateAgent(x) \/ ArchiveAgent(x)
  <2>1. PICK x \in Agents : CreateAgent(x) \/ ArchiveAgent(x)
    BY <1>2
  <2>2. PICK kind \in {"created", "archived"}, w \in durable..Len(log) :
          Append1(Record(kind, x), w)
    BY <1>1, <2>1 DEF CreateAgent, ArchiveAgent
  <2>3. Record(kind, x) \in Entries /\ Record(kind, x).kind = kind
    BY RecordFields
  <2>4. UNCHANGED <<topologies, owed, mat, adrift, torn>>
    BY <2>1 DEF CreateAgent, ArchiveAgent
  <2> QED
    BY <2>2, <2>3, <2>4, OtherRecord
<1>3. CASE \E s \in Spawned : SpawnSession(s) \/ RemoveSession(s)
  <2>1. PICK s \in Spawned : SpawnSession(s) \/ RemoveSession(s)
    BY <1>3
  <2>2. PICK kind \in {"spawned", "vanished"} : Append1(Record(kind, s), durable)
    BY <2>1 DEF SpawnSession, RemoveSession
  <2>3. Record(kind, s) \in Entries /\ Record(kind, s).kind = kind
    BY RecordFields DEF Record
  <2>4. UNCHANGED <<topologies, owed, mat, adrift, torn>>
    BY <2>1 DEF SpawnSession, RemoveSession
  <2> QED
    BY <1>1, <2>2, <2>3, <2>4, OtherRecord
<1> QED
  BY <1>2, <1>3

\* What is found in two lists one behind the other, and in a list laid out of a set.
LEMMA RangeOfBoth ==
  ASSUME NEW S, NEW a \in Seq(S), NEW b \in Seq(S)
  PROVE  Range(a \o b) = Range(a) \cup Range(b)
<1>1. \A i \in DOMAIN a : i \in DOMAIN (a \o b) /\ (a \o b)[i] = a[i]
  OBVIOUS
<1>2. \A i \in DOMAIN b : Len(a) + i \in DOMAIN (a \o b) /\ (a \o b)[Len(a) + i] = b[i]
  OBVIOUS
<1>3. ASSUME NEW i \in DOMAIN (a \o b)
      PROVE  \/ i \in DOMAIN a /\ (a \o b)[i] = a[i]
             \/ i - Len(a) \in DOMAIN b /\ (a \o b)[i] = b[i - Len(a)]
  <2>1. /\ Len(a) \in Nat /\ Len(b) \in Nat /\ DOMAIN a = 1..Len(a) /\ DOMAIN b = 1..Len(b)
        /\ DOMAIN (a \o b) = 1..(Len(a) + Len(b))
    OBVIOUS
  <2>2. CASE i <= Len(a)
    BY <2>1, <2>2
  <2>3. CASE ~(i <= Len(a))
    BY <2>1, <2>3
  <2> QED
    BY <2>2, <2>3
<1> DEFINE c == a \o b
<1>4. /\ \A i \in DOMAIN a : \E j \in DOMAIN c : c[j] = a[i]
      /\ \A i \in DOMAIN b : \E j \in DOMAIN c : c[j] = b[i]
      /\ \A j \in DOMAIN c : (\E i \in DOMAIN a : c[j] = a[i]) \/ \E i \in DOMAIN b : c[j] = b[i]
  BY <1>1, <1>2, <1>3, Zenon
<1> HIDE DEF c
<1>5. Range(c) = Range(a) \cup Range(b)
  BY <1>4 DEF Range
<1> QED
  BY <1>5 DEF c

LEMMA RangeInOrder ==
  ASSUME NEW S, IsFiniteSet(S)
  PROVE  Range(InOrder(S)) = S
<1>1. InOrder(S) \in Seq(S) /\ \A e \in S : \E i \in DOMAIN InOrder(S) : InOrder(S)[i] = e
  BY InOrderIs
<1>2. \A i \in DOMAIN InOrder(S) : InOrder(S)[i] \in S
  BY <1>1
<1> QED
  BY <1>1, <1>2, Zenon DEF Range

LEMMA RangeHeadTail ==
  ASSUME NEW S, NEW q \in Seq(S), q # <<>>
  PROVE  Range(q) = {Head(q)} \cup Range(Tail(q))
<1>1. /\ Head(q) = q[1] /\ 1 \in DOMAIN q /\ Len(q) \in Nat /\ DOMAIN q = 1..Len(q)
      /\ DOMAIN Tail(q) = 1..(Len(q) - 1)
      /\ \A i \in 1..(Len(q) - 1) : Tail(q)[i] = q[i + 1] /\ i + 1 \in DOMAIN q
  OBVIOUS
<1>2. \A i \in DOMAIN q : i = 1 \/ (i - 1 \in DOMAIN Tail(q) /\ Tail(q)[i - 1] = q[i])
  BY <1>1
<1>3. \A i \in DOMAIN Tail(q) : i + 1 \in DOMAIN q /\ Tail(q)[i] = q[i + 1]
  BY <1>1
<1> DEFINE h == Head(q)
           r == Tail(q)
<1>4. /\ \E i \in DOMAIN q : q[i] = h
      /\ \A i \in DOMAIN r : \E j \in DOMAIN q : q[j] = r[i]
      /\ \A i \in DOMAIN q : q[i] = h \/ \E j \in DOMAIN r : q[i] = r[j]
  BY <1>1, <1>2, <1>3, Zenon
<1> HIDE DEF h, r
<1>5. Range(q) = {h} \cup Range(r)
  BY <1>4 DEF Range
<1> QED
  BY <1>5 DEF h, r

\* The record of a topology, once appended, is its last on the branch.
LEMMA DrawnIsLast ==
  ASSUME TypeInv, RecordStep, NEW t, NEW e \in Entries, IsDrawn(e, t),
         NEW w \in durable..Len(log), Append1(e, w),
         e.members = topologies'[t], OwedFor(t)' = {}
  PROVE  IsAsDrawn(t)'
<1> DEFINE n == Len(log) + 1
<1>1. LogInv /\ LogInv' /\ e.kind # "rewind"
  BY DEF TypeInv, RecordInv, RecordStep, IsDrawn
<1>2. Grew(e) /\ Now(GLOBAL_SCOPE)' = Now(GLOBAL_SCOPE) \cup {n}
  BY <1>1, RecordAppended
<1>3. Len(log) \in Nat /\ DOMAIN log' = 1..n /\ log'[n] = e
  <2>1. Len(log) \in Nat
    BY <1>1, LogIsWellFormed
  <2> QED
    BY <1>1, <1>2, <2>1 DEF LogInv, Grew
<1>4. n \in DOMAIN log' /\ IsDrawn(log'[n], t)
  BY <1>3
<1>5. Now(GLOBAL_SCOPE) \subseteq 1..Len(log)
  BY <1>1, NowIs
<1>6. DrawnOn(t)' \in SUBSET (Nat \ {0}) /\ \A k \in DrawnOn(t)' : k <= n
  BY <1>2, <1>3, <1>5 DEF DrawnOn, Those
<1>7. n \in DrawnOn(t)'
  BY <1>2, <1>4 DEF DrawnOn, Those, IsDrawn
<1>8. Latest(DrawnOn(t)') = n
  <2> DEFINE D == DrawnOn(t)'
  <2>1. D \in SUBSET (Nat \ {0}) /\ n \in D /\ \A k \in D : k <= n
    BY <1>6, <1>7
  <2> HIDE DEF D
  <2>2. Latest(D) = n
    BY <2>1, LatestUnique
  <2> QED
    BY <2>2 DEF D
<1>9. DrawnLast(t)' = e.members
  <2>1. n # 0
    BY <1>3
  <2> HIDE DEF n
  <2> QED
    BY <1>3, <1>8, <2>1 DEF DrawnLast
<1>10. ~NeverDrawn(t)'
  BY <1>4 DEF NeverDrawn
<1> QED
  BY <1>9, <1>10 DEF IsAsDrawn

LEMMA TopologyDrawn ==
  ASSUME TypeInv, RecordStep, TopologiesStand,
         NEW t \in Topologies, NEW members \in SUBSET Agents, DrawTopology(t, members)
  PROVE  TopologiesStand'
<1>1. LogInv /\ LogInv'
  BY DEF TypeInv, RecordInv, RecordStep
<1>2. /\ topologies' = [topologies EXCEPT ![t] = members]
      /\ Append1(Drawn(t, members), durable)
      /\ UNCHANGED <<owed, mat, torn>> /\ mat.step = "none"
      /\ adrift' = IF IsOwed(t) \/ torn THEN adrift \cup {t}
                   ELSE IF members \subseteq agents THEN adrift \ {t} ELSE adrift
  BY DEF DrawTopology, Working
<1>3. durable \in durable..Len(log)
  BY LogIsWellFormed DEF TypeInv, RecordInv, LogInv
<1> DEFINE e == Drawn(t, members)
<1>4. /\ e \in Entries /\ e.kind = "topology" /\ e.who = t /\ e.members = members
  BY RecordFields DEF Drawn
<1> HIDE DEF e
<1>5. Grew(e) /\ Now(GLOBAL_SCOPE)' = Now(GLOBAL_SCOPE) \cup {Len(log) + 1}
  BY <1>1, <1>2, <1>3, <1>4, RecordAppended DEF e
<1>6. ASSUME NEW q \in Topologies \ adrift' PROVE Stands(q)'
  <2>1. CASE q = t
    <3>1. ~IsOwed(t)
      BY <1>2, <1>6, <2>1
    <3>2. OwedFor(t)' = {}
      BY <1>2, <3>1 DEF OwedFor, IsOwed, IsDrawn
    <3>3. topologies'[t] = members
      BY <1>2 DEF TypeInv, Typed, FilesTyped
    <3>4. IsAsDrawn(t)'
      BY <1>2, <1>3, <1>4, <3>2, <3>3, DrawnIsLast DEF IsDrawn, e
    <3> QED
      BY <2>1, <3>4 DEF Stands
  <2>2. CASE q # t
    <3>1. Stands(q)
      BY <1>2, <1>6, <2>2 DEF TopologiesStand
    <3>2. DrawnUntouched(q)
      BY <1>1, <1>4, <1>5, <2>2, UndrawnAppended DEF IsDrawn
    <3>3. topologies'[q] = topologies[q]
      BY <1>2, <2>2 DEF TypeInv, Typed, FilesTyped
    <3>4. TopologyKept(q)
      BY <1>2, <3>2, <3>3 DEF TopologyKept, OwedFor, Steady
    <3> QED
      BY <1>1, <3>1, <3>4, TopologySame
  <2> QED
    BY <2>1, <2>2
<1> QED
  BY <1>2, <1>6 DEF TopologiesStand, NoSweeps, Append1

LEMMA TopologyPaid ==
  ASSUME TypeInv, RecordStep, TopologiesStand, PayOwed
  PROVE  TopologiesStand'
<1>1. LogInv /\ LogInv'
  BY DEF TypeInv, RecordInv, RecordStep
<1>2. /\ owed # <<>> /\ owed' = Tail(owed) /\ Append1(Head(owed), Len(log))
      /\ UNCHANGED <<topologies, mat, torn, adrift>>
  BY DEF PayOwed
<1>3. Len(log) \in durable..Len(log)
  BY LogIsWellFormed DEF TypeInv, RecordInv, LogInv
<1> DEFINE e == Head(owed)
<1>4. e \in Entries /\ e.kind # "rewind"
  BY <1>2, OwedIs, OwingFields
<1>5. Range(owed) = {e} \cup Range(owed')
  BY <1>2, RangeHeadTail DEF TypeInv, RecordInv
<1>6. Append1(e, Len(log))
  BY <1>2
<1> HIDE DEF e
<1>7. Grew(e) /\ Now(GLOBAL_SCOPE)' = Now(GLOBAL_SCOPE) \cup {Len(log) + 1}
  BY <1>1, <1>3, <1>4, <1>6, RecordAppended
<1>8. ASSUME NEW q \in Topologies \ adrift' PROVE Stands(q)'
  <2>1. Stands(q)
    BY <1>2, <1>8 DEF TopologiesStand
  <2>2. CASE ~IsDrawn(e, q)
    <3>1. DrawnUntouched(q)
      BY <1>1, <1>7, <2>2, UndrawnAppended
    <3>2. OwedFor(q)' = OwedFor(q)
      BY <1>5, <2>2 DEF OwedFor
    <3>3. TopologyKept(q)
      BY <1>2, <3>1, <3>2 DEF TopologyKept, Steady
    <3> QED
      BY <1>1, <2>1, <3>3, TopologySame
  <2>3. CASE IsDrawn(e, q)
    <3>1. e \in OwedFor(q) /\ OwedFor(q)' \subseteq OwedFor(q)
      BY <1>5, <2>3 DEF OwedFor
    <3>2. WillBeDrawn(q)
      BY <2>1, <3>1 DEF Stands, IsAsDrawn
    <3>3. CASE OwedFor(q)' = {}
      <4>1. e.members = topologies'[q]
        BY <1>2, <3>1, <3>2 DEF WillBeDrawn
      <4>2. IsAsDrawn(q)'
        BY <1>3, <1>4, <1>6, <2>3, <3>3, <4>1, DrawnIsLast
      <4> QED
        BY <4>2 DEF Stands
    <3>4. CASE OwedFor(q)' # {}
      BY <1>2, <3>1, <3>2, <3>4 DEF Stands, WillBeDrawn
    <3> QED
      BY <3>3, <3>4
  <2> QED
    BY <2>2, <2>3
<1>9. NoSweeps'
  BY <1>5 DEF TopologiesStand, NoSweeps
<1> QED
  BY <1>2, <1>8, <1>9 DEF TopologiesStand, Append1

\* What a cascade owes.
LEMMA CascadeOwes ==
  ASSUME TypeInv, NEW x, NEW before \in Seq(Owing), NEW after \in Seq(Owing),
         Cascade(x, before, after)
  PROVE  /\ \A t \in Topologies : x \notin topologies[t] => topologies'[t] = topologies[t]
         /\ Range(owed') = Range(before)
              \cup {Drawn(t, topologies'[t]) : t \in {u \in Topologies : x \in topologies[u]}}
              \cup Range(after)
<1> DEFINE hit == {t \in Topologies : x \in topologies[t]}
           S == {Drawn(t, topologies'[t]) : t \in hit}
<1>1. PICK led \in SUBSET hit :
        /\ topologies' = [t \in Topologies |->
                            IF t \in led THEN {} ELSE topologies[t] \ {x}]
        /\ owed' = before \o InOrder(S) \o after
  BY Zenon DEF Cascade
<1>2. \A t \in Topologies : x \notin topologies[t] => topologies'[t] = topologies[t]
  <2>1. ASSUME NEW t \in Topologies, x \notin topologies[t]
        PROVE  topologies'[t] = topologies[t]
    <3>1. t \notin led /\ topologies[t] \ {x} = topologies[t]
      BY <2>1
    <3>2. topologies'[t] = IF t \in led THEN {} ELSE topologies[t] \ {x}
      BY <1>1
    <3> QED
      BY <3>1, <3>2
  <2> QED
    BY <2>1
<1>3. IsFiniteSet(hit)
  <2>1. hit \subseteq Topologies /\ IsFiniteSet(Topologies)
    BY LifecycleAssumption
  <2> QED
    BY <2>1, FS_Subset
<1>4. S \in SUBSET Owing
  <2>1. topologies' \in [Topologies -> SUBSET Agents]
    BY CascadeIs
  <2> QED
    BY <2>1, RecordFields
<1>5. IsFiniteSet(S)
  <2> DEFINE f == [t \in hit |-> Drawn(t, topologies'[t])]
  <2>1. DOMAIN f = hit /\ S = {f[t] : t \in hit}
    OBVIOUS
  <2> HIDE DEF f, hit, S
  <2> QED
    BY <1>3, <2>1, ImageIsFinite
<1>6. Range(InOrder(S)) = S /\ InOrder(S) \in Seq(Owing)
  <2> HIDE DEF S
  <2> QED
    BY <1>4, <1>5, RecordsLaidOut, RangeInOrder
<1>7. Range(owed') = Range(before) \cup S \cup Range(after)
  <2> HIDE DEF S
  <2> DEFINE m == InOrder(S)
             h == before \o m
  <2>1. m \in Seq(Owing)
    BY <1>6
  <2> HIDE DEF m
  <2>2. h \in Seq(Owing) /\ Range(h) = Range(before) \cup Range(m)
    BY <2>1, RangeOfBoth
  <2> HIDE DEF h
  <2>3. Range(h \o after) = Range(h) \cup Range(after)
    BY <2>2, RangeOfBoth
  <2>4. owed' = h \o after
    BY <1>1 DEF h, m
  <2> QED
    BY <1>6, <2>2, <2>3, <2>4 DEF m
<1> QED
  BY <1>2, <1>7

\* The ends a removal of the agent owes.
LEMMA VanishingRange ==
  ASSUME TypeInv, NEW x
  PROVE  Range(Vanishing(x)) = {Record("vanished", s) : s \in Of(x) \cap sessions}
<1> DEFINE S == {Record("vanished", s) : s \in Of(x) \cap sessions}
<1>1. IsFiniteSet(S)
  <2> DEFINE D == Of(x) \cap sessions
             f == [s \in D |-> Record("vanished", s)]
  <2>1. D \subseteq Spawned /\ IsFiniteSet(Spawned)
    BY LifecycleAssumption DEF Of
  <2>2. IsFiniteSet(D)
    BY <2>1, FS_Subset
  <2>3. DOMAIN f = D /\ S = {f[s] : s \in D}
    OBVIOUS
  <2> HIDE DEF f, D, S
  <2> QED
    BY <2>2, <2>3, ImageIsFinite
<1>2. Vanishing(x) = InOrder(S)
  BY DEF Vanishing
<1> HIDE DEF S
<1>3. Range(Vanishing(x)) = S
  BY <1>1, <1>2, RangeInOrder
<1> QED
  BY <1>3 DEF S

\* A purge owes the ends of the sessions it removed and the topologies it drew.
LEMMA PurgeOwes ==
  ASSUME TypeInv, NEW x \in Agents, PurgeAgent(x)
  PROVE  /\ \A t \in Topologies : x \notin topologies[t] => topologies'[t] = topologies[t]
         /\ \A r : r \in Range(owed') <=>
              \/ \E s \in Of(x) \cap sessions : r = Record("vanished", s)
              \/ \E t \in Topologies : x \in topologies[t] /\ r = Drawn(t, topologies'[t])
<1>1. Cascade(x, Vanishing(x), <<>>)
  BY DEF PurgeAgent
<1>2. /\ \A t \in Topologies : x \notin topologies[t] => topologies'[t] = topologies[t]
      /\ Range(owed') = Range(Vanishing(x))
           \cup {Drawn(t, topologies'[t]) : t \in {u \in Topologies : x \in topologies[u]}}
           \cup Range(<<>>)
  <2>1. Vanishing(x) \in Seq(Owing) /\ <<>> \in Seq(Owing)
    BY VanishingIs
  <2> QED
    BY <1>1, <2>1, CascadeOwes
<1>3. Range(Vanishing(x)) = {Record("vanished", s) : s \in Of(x) \cap sessions}
  BY VanishingRange
<1>4. Range(<<>>) = {}
  BY DEF Range
<1> QED
  BY <1>2, <1>3, <1>4

LEMMA TopologiesPurged ==
  ASSUME TypeInv, RecordStep, TopologiesStand, NEW x \in Agents, PurgeAgent(x)
  PROVE  TopologiesStand'
<1>1. LogInv /\ LogInv'
  BY DEF TypeInv, RecordInv, RecordStep
<1>2. /\ owed = <<>> /\ mat.step = "none" /\ UNCHANGED <<mat, torn, adrift>>
      /\ Append1(Record("purged", x), durable)
  BY DEF PurgeAgent, Working
<1>3. durable \in durable..Len(log)
  BY LogIsWellFormed DEF TypeInv, RecordInv, LogInv
<1>4. Record("purged", x) \in Entries /\ Record("purged", x).kind = "purged"
  BY RecordFields
<1>5. /\ Grew(Record("purged", x))
      /\ Now(GLOBAL_SCOPE)' = Now(GLOBAL_SCOPE) \cup {Len(log) + 1}
  BY <1>1, <1>2, <1>3, <1>4, RecordAppended
<1>6. /\ \A t \in Topologies : x \notin topologies[t] => topologies'[t] = topologies[t]
      /\ \A r : r \in Range(owed') <=>
           \/ \E s \in Of(x) \cap sessions : r = Record("vanished", s)
           \/ \E t \in Topologies : x \in topologies[t] /\ r = Drawn(t, topologies'[t])
  BY PurgeOwes
<1>7. NoSweeps'
  BY <1>6 DEF NoSweeps, Drawn, Record
<1>8. ASSUME NEW q \in Topologies \ adrift' PROVE Stands(q)'
  <2>1. Stands(q) /\ OwedFor(q) = {}
    <3>1. Range(owed) = {}
      BY <1>2 DEF Range
    <3> QED
      BY <1>2, <1>8, <3>1 DEF TopologiesStand, OwedFor
  <2>2. CASE x \in topologies[q]
    <3>1. Drawn(q, topologies'[q]) \in OwedFor(q)'
      BY <1>6, <2>2 DEF OwedFor, IsDrawn, Drawn
    <3>2. \A r \in OwedFor(q)' : r.members = topologies'[q]
      BY <1>6 DEF OwedFor, IsDrawn, Drawn, Record
    <3> QED
      BY <1>2, <3>1, <3>2 DEF Stands, WillBeDrawn
  <2>3. CASE x \notin topologies[q]
    <3>1. OwedFor(q)' = {}
      BY <1>6, <2>3 DEF OwedFor, IsDrawn, Drawn, Record
    <3>2. DrawnUntouched(q)
      BY <1>1, <1>4, <1>5, UndrawnAppended DEF IsDrawn
    <3>3. TopologyKept(q)
      BY <1>2, <1>6, <2>1, <2>3, <3>1, <3>2 DEF TopologyKept, Steady
    <3> QED
      BY <1>1, <2>1, <3>3, TopologySame
  <2> QED
    BY <2>2, <2>3
<1> QED
  BY <1>2, <1>7, <1>8 DEF TopologiesStand, Append1

LEMMA TopologiesAtCheckout ==
  ASSUME TypeInv, RecordStep, TopologiesStand,
         NEW n \in DOMAIN log, NEW scope \in B!Scopes, Checkout(n, scope)
  PROVE  TopologiesStand'
<1>1. LogInv /\ LogInv'
  BY DEF TypeInv, RecordInv, RecordStep
<1>2. /\ Append1(B!Rewound(n, scope), Len(log) + 1) /\ mat' = Decided(scope)
      /\ mat.step = "none" /\ adrift' = adrift \cup {t \in Topologies : IsOwed(t)}
      /\ UNCHANGED <<topologies, owed, torn>>
  BY DEF Checkout, Working
<1>3. /\ Grew(B!Rewound(n, scope))
      /\ scope # GLOBAL_SCOPE => Now(GLOBAL_SCOPE)' = Now(GLOBAL_SCOPE) \cup {Len(log) + 1}
  BY <1>1, <1>2, ResetAppended
<1>4. Steady' => scope # GLOBAL_SCOPE
  BY <1>2, DecidedIs DEF Steady
<1>5. ASSUME NEW q \in Topologies \ adrift' PROVE Stands(q)'
  <2>1. Stands(q) /\ ~IsOwed(q)
    BY <1>2, <1>5 DEF TopologiesStand
  <2>2. OwedFor(q) = {} /\ OwedFor(q)' = {}
    BY <1>2, <2>1 DEF OwedFor, IsOwed, IsDrawn
  <2>3. DrawnUntouched(q)
    <3>1. ~IsDrawn(B!Rewound(n, scope), q)
      BY DEF B!Rewound, IsDrawn
    <3> QED
      BY <1>1, <1>3, <1>4, <3>1, UndrawnAppended
  <2>4. TopologyKept(q)
    BY <1>2, <2>2, <2>3 DEF TopologyKept, Steady
  <2> QED
    BY <1>1, <2>1, <2>4, TopologySame
<1> QED
  BY <1>2, <1>5 DEF TopologiesStand, NoSweeps, Append1

LEMMA TopologiesRebuilt ==
  ASSUME TypeInv, TopologiesStand, MaterialiseRest
  PROVE  TopologiesStand'
<1>1. LogInv
  BY DEF TypeInv, RecordInv
<1>2. /\ mat.step = "agents" /\ topologies' = [t \in Topologies |-> MembersNow(t)]
      /\ UNCHANGED <<log, durable, floor, floorDue, owed, adrift>>
  BY DEF MaterialiseRest
<1>3. ASSUME NEW q \in Topologies \ adrift' PROVE Stands(q)'
  <2> DEFINE events == InWal("topology", q)
             active == {n \in events : Active(n, GLOBAL_SCOPE)}
  <2>1. IsAsDrawn(q)
    BY <1>2, <1>3 DEF TopologiesStand, Stands, WillBeDrawn
  <2>2. OwedFor(q)' = {}
    BY <1>2, <2>1 DEF IsAsDrawn, OwedFor
  <2>3. events = {n \in DOMAIN log : IsDrawn(log[n], q)}
    <3>1. \A n \in DOMAIN log : Kept(n)
      <4>1. \A n \in DOMAIN log : n >= 1
        BY <1>1, LogIsWellFormed
      <4> QED
        BY <4>1 DEF Kept, TopologiesStand
    <3> QED
      BY <3>1 DEF InWal, IsDrawn
  <2>4. active = DrawnOn(q)
    <3>1. \A n \in DOMAIN log : Active(n, GLOBAL_SCOPE) <=> n \in Now(GLOBAL_SCOPE)
      BY <1>1, LogIsWellFormed, NowIs
    <3> QED
      BY <1>1, <2>3, <3>1, DrawnOnIs
  <2>5. MembersNow(q) = IF events = {} THEN topologies[q]
                        ELSE IF active = {} THEN {} ELSE log[Latest(active)].members
    BY DEF MembersNow
  <2>6. MembersNow(q) = DrawnLast(q)
    <3> HIDE DEF events, active
    <3>1. active \subseteq events
      BY DEF active
    <3>2. Latest(active) = 0 <=> active = {}
      BY <1>1, <2>4, DrawnOnIs, ScanFinds
    <3>3. CASE events = {}
      <4>1. NeverDrawn(q) /\ active = {}
        BY <2>3, <3>1, <3>3 DEF NeverDrawn
      <4>2. MembersNow(q) = {}
        BY <2>1, <2>5, <3>3, <4>1 DEF IsAsDrawn
      <4> QED
        BY <2>4, <3>2, <4>1, <4>2 DEF DrawnLast
    <3>4. CASE events # {}
      BY <2>4, <2>5, <3>2, <3>4 DEF DrawnLast
    <3> QED
      BY <3>3, <3>4
  <2>7. topologies'[q] = DrawnLast(q)
    BY <1>2, <2>6
  <2>8. DrawnLast(q)' = DrawnLast(q)
    BY <1>2 DEF DrawnLast, DrawnOn, Those, Now
  <2>9. NeverDrawn(q)' => topologies'[q] = {}
    <3> SUFFICES ASSUME NeverDrawn(q) PROVE topologies'[q] = {}
      BY <1>2 DEF NeverDrawn
    <3>1. DrawnOn(q) = {}
      BY <1>1, DrawnOnIs DEF NeverDrawn
    <3>2. Latest(DrawnOn(q)) = 0
      BY <3>1 DEF Latest
    <3> QED
      BY <2>7, <3>2 DEF DrawnLast
  <2> QED
    BY <2>2, <2>7, <2>8, <2>9 DEF Stands, IsAsDrawn
<1> QED
  BY <1>2, <1>3 DEF TopologiesStand, NoSweeps

LEMMA TopologiesAfterDeath ==
  ASSUME TypeInv, RecordStep, TopologiesStand, Crash
  PROVE  TopologiesStand'
<1>1. LogInv /\ LogInv'
  BY DEF TypeInv, RecordInv, RecordStep
<1>2. /\ durable' \in durable..Len(log) /\ CutBack
      /\ Now(GLOBAL_SCOPE)' = {n \in Now(GLOBAL_SCOPE) : n <= durable'}
  BY RecoveringIs
<1>3. /\ UNCHANGED <<floor, topologies, torn>> /\ floorDue' = 0 /\ owed' = <<>>
      /\ adrift \subseteq adrift'
      /\ \A n \in durable' + 1..Len(log) : log[n].who \in adrift'
      /\ \A r \in Unpaid : r.who \in adrift'
  BY DEF Crash
<1>4. Steady' => Steady
  <2> SUFFICES ASSUME Steady', mat.step # "none" PROVE Steady
    BY <1>3 DEF Steady
  <2>1. PICK n \in Resets : log[n].scope = mat.scope /\ \A k \in Resets : k <= n
    BY DEF TypeInv, RecordInv, MatInv
  <2>2. mat'.step # "none" /\ mat'.scope = mat.scope
    BY <2>1, RecoveringIs
  <2> QED
    BY <1>3, <2>2 DEF Steady
<1>5. Range(owed') = {}
  BY <1>3 DEF Range
<1>6. ASSUME NEW q \in Topologies \ adrift' PROVE Stands(q)'
  <2>1. Stands(q)
    BY <1>3, <1>6 DEF TopologiesStand
  <2>2. OwedFor(q) = {} /\ OwedFor(q)' = {}
    BY <1>3, <1>5, <1>6 DEF OwedFor, Unpaid, IsDrawn
  <2>3. DrawnUntouched(q)
    <3>1. \A n \in DOMAIN log : IsDrawn(log[n], q) => n \in 1..durable'
      <4>1. DOMAIN log = 1..Len(log) /\ Len(log) \in Nat /\ durable \in Nat
        BY <1>1, LogIsWellFormed
      <4>2. \A n \in DOMAIN log : n \in 1..durable' \/ n \in durable' + 1..Len(log)
        BY <1>2, <4>1
      <4> QED
        BY <1>3, <1>6, <4>2 DEF IsDrawn
    <3>2. \A n \in 1..durable' : n <= durable'
      OBVIOUS
    <3> QED
      BY <1>2, <3>1, <3>2 DEF DrawnUntouched, CutBack
  <2>4. TopologyKept(q)
    BY <1>3, <1>4, <2>2, <2>3 DEF TopologyKept
  <2> QED
    BY <1>1, <2>1, <2>4, TopologySame
<1> QED
  BY <1>3, <1>5, <1>6 DEF TopologiesStand, NoSweeps

LEMMA TopologyStep ==
  ASSUME TopologyInv, [Next]_vars
  PROVE  TopologyInv'
<1>1. TypeInv /\ RecordStep
  BY EveryStep DEF TopologyInv
<1>2. TypeInv'
  BY <1>1 DEF RecordStep
<1>3. mat \in [step : {"none", "decided", "agents"}, scope : B!Scopes,
               todo : SUBSET Agents, purges : SUBSET Spawned]
  BY <1>1 DEF TypeInv, RecordInv, MatInv
<1>4. ASSUME NEW f \in 2..Len(log), Truncate(f)
      PROVE  TopologyInv'
  <2>1. swept' # 0
    BY <1>4 DEF Truncate
  <2> QED
    BY <1>2, <2>1 DEF TopologyInv
<1>5. ASSUME swept' = swept, TopologiesStand => TopologiesStand'
      PROVE  TopologyInv'
  BY <1>1, <1>5, TopologyFrame DEF TopologyInv
<1> USE <1>1
<1> DEFINE Good == swept' = swept /\ (TopologiesStand => TopologiesStand')
<1>6. ASSUME NEW x \in Agents, CreateAgent(x) \/ ArchiveAgent(x) \/ PurgeAgent(x)
      PROVE  Good
  <2>1. swept' = swept
    BY <1>6 DEF CreateAgent, ArchiveAgent, PurgeAgent
  <2> QED
    BY <1>6, <2>1, OthersRecorded, TopologiesPurged
<1>7. ASSUME NEW s \in Spawned, SpawnSession(s) \/ RemoveSession(s)
      PROVE  Good
  <2>1. swept' = swept
    BY <1>7 DEF SpawnSession, RemoveSession
  <2> QED
    BY <1>7, <2>1, OthersRecorded
<1>8. ASSUME NEW t \in Topologies, ChangeTopology(t)
      PROVE  Good
  <2>1. PICK members \in SUBSET Agents : DrawTopology(t, members)
    BY <1>8, TopologyIsDrawn
  <2>2. swept' = swept
    BY <2>1 DEF DrawTopology
  <2> QED
    BY <2>1, <2>2, TopologyDrawn
<1>9. ASSUME NEW n \in DOMAIN log, NEW scope \in B!Scopes, Checkout(n, scope)
      PROVE  Good
  <2>1. swept' = swept
    BY <1>9 DEF Checkout
  <2> QED
    BY <1>9, <2>1, TopologiesAtCheckout
<1>10. PayOwed => Good
  <2> SUFFICES ASSUME PayOwed PROVE Good
    OBVIOUS
  <2>1. swept' = swept
    BY DEF PayOwed
  <2> QED
    BY <2>1, TopologyPaid
<1>11. SweepAgent \/ SweepTopologies => Good
  <2> SUFFICES ASSUME SweepAgent \/ SweepTopologies PROVE Good
    OBVIOUS
  <2>1. owed # <<>> /\ Head(owed).kind \in {"sweep", "cascade"} /\ swept' = swept
    BY DEF SweepAgent, SweepTopologies
  <2>2. Head(owed) \in Range(owed)
    BY <2>1, RangeHeadTail DEF TypeInv, RecordInv
  <2> QED
    BY <2>1, <2>2 DEF TopologiesStand, NoSweeps
<1>12. RewriteWal => Good
  <2> SUFFICES ASSUME RewriteWal PROVE Good
    OBVIOUS
  <2>1. floorDue > 0 /\ swept' = swept
    BY DEF RewriteWal
  <2> QED
    BY <2>1 DEF TopologiesStand
<1> DEFINE Elsewhere == UNCHANGED <<log, floor, floorDue, topologies, owed, adrift, swept>>
<1>13. ASSUME Elsewhere, mat.step = "none" => mat'.step = "none", Steady' => Steady
       PROVE  Good
  <2>1. \A t \in Topologies : DrawnUntouched(t)
    BY <1>13, LogUntouched
  <2> QED
    BY <1>13, <2>1, TopologiesUntouched
<1>14. ASSUME NEW r \in Registries, ChangeConfig(r)
       PROVE  Good
  BY <1>13, <1>14 DEF ChangeConfig, Steady
<1>15. Rematerialise => Good
  <2> SUFFICES ASSUME Rematerialise PROVE Good
    OBVIOUS
  <2>1. mat.step = "decided" /\ mat'.step = "agents" /\ mat.scope = GLOBAL_SCOPE
        /\ mat'.scope = mat.scope
    BY <1>3 DEF Rematerialise
  <2>2. Elsewhere /\ ~Steady'
    BY <2>1 DEF Rematerialise, Steady
  <2> QED
    BY <1>13, <2>1, <2>2
<1>16. ASSUME NEW x \in Agents, MaterialiseAgent(x)
       PROVE  Good
  <2>1. mat'.step = mat.step /\ mat'.scope = mat.scope
    BY <1>3, <1>16 DEF MaterialiseAgent
  <2>2. Elsewhere /\ (Steady' => Steady)
    BY <1>16, <2>1 DEF MaterialiseAgent, Steady
  <2> QED
    BY <1>13, <2>1, <2>2
<1>17. MaterialiseRest => Good
  <2> SUFFICES ASSUME MaterialiseRest PROVE Good
    OBVIOUS
  <2>1. swept' = swept
    BY DEF MaterialiseRest
  <2> QED
    BY <2>1, TopologiesRebuilt
<1>18. MaterialiseSession \/ MaterialisingRaises \/ RevivingRaises => Good
  <2> SUFFICES ASSUME MaterialiseSession \/ MaterialisingRaises \/ RevivingRaises
               PROVE  Good
    OBVIOUS
  <2>1. Elsewhere /\ mat' = NotRewinding
    BY DEF MaterialiseSession, MaterialisingRaises, RevivingRaises
  <2>2. mat'.step = "none"
    BY <2>1 DEF NotRewinding
  <2>3. Steady' => Steady
    BY DEF MaterialiseSession, MaterialisingRaises, RevivingRaises, Steady
  <2> QED
    BY <1>13, <2>1, <2>2, <2>3
<1>19. Crash => Good
  <2> SUFFICES ASSUME Crash PROVE Good
    OBVIOUS
  <2>1. swept' = swept
    BY DEF Crash
  <2> QED
    BY <2>1, TopologiesAfterDeath
<1>20. UNCHANGED vars => Good
  BY <1>13 DEF Steady
<1> HIDE DEF Good, Elsewhere
<1>21. Good \/ \E f \in 2..Len(log) : Truncate(f)
  BY <1>6, <1>7, <1>8, <1>9, <1>10, <1>11, <1>12, <1>14, <1>15, <1>16, <1>17, <1>18, <1>19, <1>20,
     Zenon DEF Next
<1> QED
  BY <1>4, <1>5, <1>21 DEF Good

LEMMA TopologiesAtFirst ==
  ASSUME Init
  PROVE  TopologyInv
<1>1. TypeInv
  BY TypesHoldAtFirst
<1>2. floor = 1 /\ floorDue = 0 /\ Range(owed) = {} /\ log = <<>>
  BY DEF Init, Range
<1>3. ASSUME NEW t \in Topologies PROVE Stands(t)
  <2>1. topologies[t] = {} /\ OwedFor(t) = {}
    BY <1>2 DEF Init, OwedFor
  <2>2. DrawnOn(t) = {}
    BY <1>1, <1>2, DrawnOnIs DEF TypeInv, RecordInv
  <2>3. DrawnLast(t) = {}
    BY <2>2 DEF DrawnLast, Latest
  <2> QED
    BY <2>1, <2>3 DEF Stands, IsAsDrawn
<1> QED
  BY <1>1, <1>2, <1>3 DEF TopologyInv, TopologiesStand, NoSweeps

\* _reconcile_topologies_as_of_cut: until the log is truncated a topology has the members
\* its last record on the branch names, after checkouts, purges and deaths at any step.
THEOREM TopologiesAreAsDrawn == Spec => []TopologiesFollowLineage
<1>1. TopologyInv /\ [Next]_vars => TopologyInv'
  BY TopologyStep
<1>2. TopologyInv => TopologiesFollowLineage
  <2> SUFFICES ASSUME TopologyInv, Settled, swept = 0,
                      NEW t \in Topologies, t \notin adrift, ~IsOwed(t)
               PROVE  topologies[t] =
                        LET n == Latest(Those("topology", t, Now(GLOBAL_SCOPE)))
                        IN IF n = 0 THEN {} ELSE log[n].members
    BY DEF TopologiesFollowLineage
  <2>1. Stands(t) /\ Steady
    BY DEF TopologyInv, TopologiesStand, Settled, Steady
  <2>2. OwedFor(t) = {}
    BY DEF OwedFor, IsOwed, IsDrawn
  <2>3. topologies[t] = DrawnLast(t)
    BY <2>1, <2>2 DEF Stands, WillBeDrawn, IsAsDrawn
  <2> QED
    BY <2>3 DEF DrawnLast, DrawnOn
<1> QED
  BY <1>1, <1>2, TopologiesAtFirst, PTL DEF Spec


----------------------------------------------------------------------------
(* Who is there, as long as nothing was truncated and names are used once.  *)

Births(x)    == Those("created", x, DOMAIN log)
Purgings(x)  == Those("purged", x, DOMAIN log)
Archivals(x) == Those("archived", x, DOMAIN log)
Spawns(s)    == Those("spawned", s, DOMAIN log)
Ends(s)      == Those("vanished", s, DOMAIN log)

Meets(numbers, scope) == numbers \cap Now(scope) # {}

\* The records of an agent: one creation, what follows on it, no purge of one that is there.
AgentKnown(x) ==
  /\ \A m, n \in Births(x) : m = n
  /\ \A m, n \in Archivals(x) : m = n
  /\ \A n \in Purgings(x) \cup Archivals(x) : \E m \in Births(x) : m < n
  /\ x \in agents => Births(x) # {} /\ Purgings(x) = {}
  /\ Archivals(x) = {} => archived[x] = NoMarker

AgentFollows(x) == x \in agents <=> Meets(Births(x), GLOBAL_SCOPE) /\ Purgings(x) = {}
AgentShown(x) ==
  x \in agents => (archived[x] # NoMarker <=> Meets(Archivals(x), GLOBAL_SCOPE))

\* Between materialisations, and in one of everything once it is the agent's turn no more.
IsThrough(x) == Steady \/ (mat.step = "agents" /\ x \notin mat.todo)

AgentStands(x) ==
  /\ AgentKnown(x)
  /\ IsThrough(x) => AgentFollows(x)
  /\ Steady => AgentShown(x)

\* The latest reset is of this session alone; and it is being carried out.
Held(s)      == \E r \in Resets : log[r].scope = s /\ \A k \in Resets : k <= r
Rewinding(s) == mat.step = "decided" /\ mat.scope = s
OwedEnd(s)   == Record("vanished", s) \in Range(owed)

\* The records of a session: one spawn, and no end of one that is there or being reset.
SessionKnown(s) ==
  /\ \A m, n \in Spawns(s) : m = n
  /\ s \in sessions \/ Held(s) \/ Ends(s) # {} \/ OwedEnd(s) => Spawns(s) # {}
  /\ s \in sessions => Ends(s) = {} /\ ~OwedEnd(s)
  /\ Rewinding(s) => ~OwedEnd(s)
  /\ Held(s) => \A n \in Ends(s), r \in Resets : r < n

IsPlaced(s) == Meets(Spawns(s), s) \/ RemadeWithoutOwner(s)

SessionPlaced(s) ==
  s \in sessions /\ Owner(s) \notin adrift =>
    /\ Steady => IsPlaced(s) \/ Rewinding(s)
    /\ mat.step = "agents" => IsPlaced(s) \/ s \in mat.purges \/ Owner(s) \in mat.todo

SessionStands(s) == SessionKnown(s) /\ SessionPlaced(s)

\* An agent goes with its sessions; only a reset that is still to be carried out brings
\* one of them back.
OwnerStands(s) ==
  Owner(s) \notin adrift /\ (s \in sessions \/ Held(s)) =>
    Owner(s) \in agents \/ RemadeWithoutOwner(s)

Phase ==
  /\ mat.step = "agents" => mat.scope = GLOBAL_SCOPE
  /\ mat.step # "agents" => mat.todo = {}
  /\ mat.todo \subseteq agents

RosterStands ==
  /\ Phase
  /\ \A x \in Agents \ adrift : AgentStands(x)
  /\ \A s \in Spawned \ adrift : SessionStands(s)
  /\ \A s \in Spawned : OwnerStands(s)

RosterInv == TopologyInv /\ (swept = 0 => RosterStands)

\* Of the entries that stay in the log the same are on a scope's branch.
BranchSame(scope) ==
  \A n \in DOMAIN log : n \in DOMAIN log' => (n \in Now(scope)' <=> n \in Now(scope))

ResetsKept == \A n \in Resets : n \in Resets' /\ log'[n] = log[n]
ResetsSame == Resets' = Resets /\ \A n \in Resets : log'[n] = log[n]

----------------------------------------------------------------------------
(* What the steps make of the records. *)

\* The record that e is of that kind about that name, if it is one.
Added(e, kind, who) == IF e.kind = kind /\ e.who = who THEN {Len(log) + 1} ELSE {}

RecordsAdded(e) ==
  \A who :
    /\ Births(who)'    = Births(who) \cup Added(e, "created", who)
    /\ Purgings(who)'  = Purgings(who) \cup Added(e, "purged", who)
    /\ Archivals(who)' = Archivals(who) \cup Added(e, "archived", who)
    /\ Spawns(who)'    = Spawns(who) \cup Added(e, "spawned", who)
    /\ Ends(who)'      = Ends(who) \cup Added(e, "vanished", who)

LEMMA RecordsOnAppend ==
  ASSUME LogInv, LogInv', NEW e, Grew(e)
  PROVE  RecordsAdded(e)
<1>1. DOMAIN log = 1..Len(log) /\ Len(log) \in Nat /\ DOMAIN log' = 1..(Len(log) + 1)
  BY LogIsWellFormed DEF LogInv, Grew
<1>2. \A n \in DOMAIN log' : n \in DOMAIN log \/ n = Len(log) + 1
  BY <1>1
<1>3. /\ \A n \in DOMAIN log : n \in DOMAIN log' /\ log'[n] = log[n]
      /\ Len(log) + 1 \in DOMAIN log' /\ log'[Len(log) + 1] = e
  BY <1>1 DEF Grew
<1>4. ASSUME NEW kind, NEW who
      PROVE  Those(kind, who, DOMAIN log)'
               = Those(kind, who, DOMAIN log) \cup Added(e, kind, who)
  BY <1>2, <1>3 DEF Those, Added
<1> SUFFICES ASSUME NEW who
             PROVE  /\ Births(who)'    = Births(who) \cup Added(e, "created", who)
                    /\ Purgings(who)'  = Purgings(who) \cup Added(e, "purged", who)
                    /\ Archivals(who)' = Archivals(who) \cup Added(e, "archived", who)
                    /\ Spawns(who)'    = Spawns(who) \cup Added(e, "spawned", who)
                    /\ Ends(who)'      = Ends(who) \cup Added(e, "vanished", who)
  BY DEF RecordsAdded
<1>5. Births(who)' = Births(who) \cup Added(e, "created", who)
  BY <1>4 DEF Births
<1>6. Purgings(who)' = Purgings(who) \cup Added(e, "purged", who)
  BY <1>4 DEF Purgings
<1>7. Archivals(who)' = Archivals(who) \cup Added(e, "archived", who)
  BY <1>4 DEF Archivals
<1>8. Spawns(who)' = Spawns(who) \cup Added(e, "spawned", who)
  BY <1>4 DEF Spawns
<1>9. Ends(who)' = Ends(who) \cup Added(e, "vanished", who)
  BY <1>4 DEF Ends
<1> QED
  BY <1>5, <1>6, <1>7, <1>8, <1>9

\* A record is appended.
LEMMA AfterRecord ==
  ASSUME LogInv, NEW e \in Entries, e.kind # "rewind",
         NEW w \in durable..Len(log), Append1(e, w)
  PROVE  /\ LogInv' /\ ResetsSame /\ RecordsAdded(e)
         /\ \A scope : BranchSame(scope) /\ Len(log) + 1 \in Now(scope)'
         /\ \A n \in DOMAIN log : n < Len(log) + 1
<1>1. LogInv' /\ Grew(e) /\ Resets' = Resets /\ \A n \in Resets : log'[n] = log[n]
  BY RecordAppended
<1>2. \A n \in DOMAIN log : n < Len(log) + 1
  BY LogIsWellFormed
<1>3. ASSUME NEW scope PROVE BranchSame(scope) /\ Len(log) + 1 \in Now(scope)'
  <2>1. Now(scope)' = Now(scope) \cup {Len(log) + 1}
    BY <1>1, BranchGrows
  <2> QED
    BY <1>2, <2>1 DEF BranchSame
<1>4. RecordsAdded(e)
  BY <1>1, RecordsOnAppend
<1> QED
  BY <1>1, <1>2, <1>3, <1>4 DEF ResetsSame

LEMMA BranchUnmoved ==
  ASSUME log' = log
  PROVE  /\ ResetsSame /\ \A scope : BranchSame(scope)
         /\ \A who : /\ Births(who)' = Births(who) /\ Purgings(who)' = Purgings(who)
                     /\ Archivals(who)' = Archivals(who)
                     /\ Spawns(who)' = Spawns(who) /\ Ends(who)' = Ends(who)
BY DEF ResetsSame, Resets, IsRewind, BranchSame, Now, Births, Purgings, Archivals, Spawns,
       Ends, Those

LEMMA AgentKept ==
  ASSUME NEW x, AgentStands(x),
         x \in agents' <=> x \in agents, archived'[x] = archived[x],
         Births(x)' = Births(x), Purgings(x)' = Purgings(x), Archivals(x)' = Archivals(x),
         IsThrough(x)' => IsThrough(x) /\ BranchSame(GLOBAL_SCOPE),
         Steady' => Steady
  PROVE  AgentStands(x)'
<1>1. AgentKnown(x)'
  BY DEF AgentStands, AgentKnown
<1>2. ASSUME IsThrough(x)'
      PROVE  /\ Meets(Births(x), GLOBAL_SCOPE)' <=> Meets(Births(x), GLOBAL_SCOPE)
             /\ Meets(Archivals(x), GLOBAL_SCOPE)' <=> Meets(Archivals(x), GLOBAL_SCOPE)
  <2>1. \A n \in Births(x) \cup Archivals(x) : n \in DOMAIN log /\ n \in DOMAIN log'
    BY DEF Births, Archivals, Those
  <2>2. \A n \in Births(x) \cup Archivals(x) :
          n \in Now(GLOBAL_SCOPE)' <=> n \in Now(GLOBAL_SCOPE)
    BY <1>2, <2>1 DEF BranchSame
  <2> QED
    BY <2>2 DEF Meets
<1>3. IsThrough(x)' => AgentFollows(x)'
  BY <1>2 DEF AgentStands, AgentFollows
<1>4. Steady' => AgentShown(x)'
  BY <1>2 DEF AgentStands, AgentShown, IsThrough
<1> QED
  BY <1>1, <1>3, <1>4 DEF AgentStands

LEMMA RemadeKept ==
  ASSUME LogInv, NEW s, RemadeWithoutOwner(s), ResetsKept,
         Purgings(Owner(s)) \subseteq Purgings(Owner(s))'
  PROVE  RemadeWithoutOwner(s)'
<1>0. PICK p \in Purgings(Owner(s)) : \E r \in 1..p : IsRewind(r) /\ log[r].scope = s
  BY DEF RemadeWithoutOwner, Purgings
<1>1. PICK r \in 1..p : IsRewind(r) /\ log[r].scope = s
  BY <1>0
<1>2. r \in Resets
  <2>1. p \in 1..Len(log) /\ DOMAIN log = 1..Len(log) /\ Len(log) \in Nat
    BY LogIsWellFormed DEF Purgings, Those
  <2> QED
    BY <1>1, <2>1 DEF Resets
<1>3. IsRewind(r)' /\ log'[r].scope = s
  BY <1>1, <1>2 DEF ResetsKept, Resets
<1>4. p \in Purgings(Owner(s))'
  BY <1>1
<1> QED
  BY <1>3, <1>4 DEF RemadeWithoutOwner, Purgings, Owner

LEMMA PlaceKept ==
  ASSUME LogInv, NEW s, IsPlaced(s), ResetsSame, BranchSame(s), Spawns(s)' = Spawns(s),
         Purgings(Owner(s)) \subseteq Purgings(Owner(s))'
  PROVE  IsPlaced(s)'
<1>1. CASE Meets(Spawns(s), s)
  <2>1. \A n \in Spawns(s) : n \in DOMAIN log /\ n \in DOMAIN log'
    BY DEF Spawns, Those
  <2> QED
    BY <1>1, <2>1 DEF Meets, BranchSame, IsPlaced
<1>2. CASE RemadeWithoutOwner(s)
  BY <1>2, RemadeKept DEF IsPlaced, ResetsSame, ResetsKept
<1> QED
  BY <1>1, <1>2 DEF IsPlaced

LEMMA HeldKept ==
  ASSUME ResetsSame, NEW s
  PROVE  Held(s)' <=> Held(s)
BY DEF ResetsSame, Held

LEMMA SessionKnownKept ==
  ASSUME NEW s, SessionKnown(s), ResetsSame,
         Spawns(s)' = Spawns(s), Ends(s)' = Ends(s), s \in sessions' => s \in sessions,
         OwedEnd(s)' => OwedEnd(s) \/ (s \in sessions /\ s \notin sessions' /\ ~Rewinding(s)'),
         Rewinding(s)' => Rewinding(s) \/ ~OwedEnd(s)'
  PROVE  SessionKnown(s)'
<1>1. Held(s)' <=> Held(s)
  BY HeldKept
<1>2. (\A m, n \in Spawns(s) : m = n)'
  BY DEF SessionKnown
<1>3. (s \in sessions \/ Held(s) \/ Ends(s) # {} \/ OwedEnd(s) => Spawns(s) # {})'
  BY <1>1 DEF SessionKnown
<1>4. (s \in sessions => Ends(s) = {} /\ ~OwedEnd(s))'
  BY DEF SessionKnown
<1>5. (Rewinding(s) => ~OwedEnd(s))'
  BY DEF SessionKnown
<1>6. (Held(s) => \A n \in Ends(s), r \in Resets : r < n)'
  BY <1>1 DEF SessionKnown, ResetsSame
<1> QED
  BY <1>2, <1>3, <1>4, <1>5, <1>6 DEF SessionKnown

LEMMA SessionPlacedKept ==
  ASSUME LogInv, NEW s, SessionPlaced(s), ResetsSame, BranchSame(s), Spawns(s)' = Spawns(s),
         s \in sessions' => s \in sessions,
         Owner(s) \notin adrift' =>
           Owner(s) \notin adrift /\ Purgings(Owner(s)) \subseteq Purgings(Owner(s))',
         Steady' => Steady, Steady' /\ Rewinding(s) => Rewinding(s)',
         mat'.step = "agents" => mat' = mat
  PROVE  SessionPlaced(s)'
<1> SUFFICES ASSUME s \in sessions', Owner(s) \notin adrift'
             PROVE  /\ Steady' => IsPlaced(s)' \/ Rewinding(s)'
                    /\ mat'.step = "agents" =>
                         IsPlaced(s)' \/ s \in mat'.purges \/ Owner(s) \in mat'.todo
  BY DEF SessionPlaced, Owner
<1>1. IsPlaced(s) => IsPlaced(s)'
  BY PlaceKept
<1>2. /\ Steady => IsPlaced(s) \/ Rewinding(s)
      /\ mat.step = "agents" => IsPlaced(s) \/ s \in mat.purges \/ Owner(s) \in mat.todo
  BY DEF SessionPlaced
<1> QED
  BY <1>1, <1>2

LEMMA OwnerKept ==
  ASSUME LogInv, NEW s, OwnerStands(s), ResetsSame,
         s \in sessions' => s \in sessions \/ Held(s),
         Owner(s) \notin adrift' =>
           Owner(s) \notin adrift /\ Purgings(Owner(s)) \subseteq Purgings(Owner(s))',
         Owner(s) \in agents => Owner(s) \in agents'
  PROVE  OwnerStands(s)'
<1> SUFFICES ASSUME Owner(s) \notin adrift', s \in sessions' \/ Held(s)'
             PROVE  Owner(s) \in agents' \/ RemadeWithoutOwner(s)'
  BY DEF OwnerStands, Owner
<1>1. Owner(s) \in agents \/ RemadeWithoutOwner(s)
  BY HeldKept DEF OwnerStands
<1> QED
  BY <1>1, RemadeKept DEF ResetsSame, ResetsKept

\* What a record says nothing of is as it was.
LEMMA AgentAside ==
  ASSUME LogInv, NEW e \in Entries, e.kind # "rewind",
         NEW w \in durable..Len(log), Append1(e, w), UNCHANGED <<mat, torn>>,
         NEW x, AgentStands(x), x \in agents' <=> x \in agents, archived'[x] = archived[x],
         e.kind \in {"created", "archived", "purged"} => e.who # x
  PROVE  AgentStands(x)'
<1>1. /\ BranchSame(GLOBAL_SCOPE)
      /\ RecordsAdded(e)
  BY AfterRecord
<1>2. /\ Births(x)' = Births(x) /\ Purgings(x)' = Purgings(x)
      /\ Archivals(x)' = Archivals(x)
  BY <1>1 DEF RecordsAdded, Added
<1>3. (IsThrough(x)' => IsThrough(x)) /\ (Steady' => Steady)
  BY DEF IsThrough, Steady
<1> QED
  BY <1>1, <1>2, <1>3, AgentKept

LEMMA PurgingsGrow ==
  ASSUME LogInv, NEW e \in Entries, e.kind # "rewind",
         NEW w \in durable..Len(log), Append1(e, w), NEW x
  PROVE  Purgings(x) \subseteq Purgings(x)'
BY AfterRecord DEF RecordsAdded

LEMMA SessionAside ==
  ASSUME LogInv, NEW e \in Entries, e.kind # "rewind",
         NEW w \in durable..Len(log), Append1(e, w), UNCHANGED <<mat, torn>>,
         NEW s, SessionStands(s), s \in sessions' => s \in sessions,
         e.kind \in {"spawned", "vanished"} => e.who # s,
         OwedEnd(s)' =>
           OwedEnd(s) \/ (s \in sessions /\ s \notin sessions' /\ mat.step = "none"),
         Owner(s) \notin adrift' => Owner(s) \notin adrift
  PROVE  SessionStands(s)'
<1>1. /\ BranchSame(s) /\ ResetsSame
      /\ RecordsAdded(e)
  BY AfterRecord
<1>2. Spawns(s)' = Spawns(s) /\ Ends(s)' = Ends(s)
  BY <1>1 DEF RecordsAdded, Added
<1>3. (Rewinding(s)' <=> Rewinding(s)) /\ (Steady' => Steady)
      /\ (mat.step = "none" => ~Rewinding(s))
  BY DEF Rewinding, Steady
<1>4. SessionKnown(s)'
  BY <1>1, <1>2, <1>3, SessionKnownKept DEF SessionStands
<1>5. SessionPlaced(s)'
  BY <1>1, <1>2, <1>3, PurgingsGrow, SessionPlacedKept DEF SessionStands
<1> QED
  BY <1>4, <1>5 DEF SessionStands

LEMMA OwnerAside ==
  ASSUME LogInv, NEW e \in Entries, e.kind # "rewind",
         NEW w \in durable..Len(log), Append1(e, w),
         NEW s, OwnerStands(s), s \in sessions' => s \in sessions \/ Held(s),
         Owner(s) \notin adrift' => Owner(s) \notin adrift,
         Owner(s) \in agents => Owner(s) \in agents'
  PROVE  OwnerStands(s)'
<1>1. ResetsSame
  BY AfterRecord
<1> QED
  BY <1>1, PurgingsGrow, OwnerKept

\* A record of one of these kinds has a kind and a name, and no more.
LEMMA EntryIsRecord ==
  ASSUME NEW e \in Entries, e.kind \in {"created", "archived", "purged", "spawned"}
  PROVE  e = Record(e.kind, e.who)
<1>1. \/ e \in [kind : {"created", "archived", "purged"}, who : Agents]
      \/ e \in [kind : {"spawned"}, who : Spawned]
  BY DEF Entries, Owing
<1> QED
  BY <1>1 DEF Record

LEMMA NotYetIs ==
  ASSUME LogInv, NamesOnce, NEW kind \in {"created", "archived", "spawned"}, NEW who,
         NeverYet(kind, who)
  PROVE  who \notin adrift /\ Those(kind, who, DOMAIN log) = {}
<1>1. \A n \in DOMAIN log : log[n] # Record(kind, who)
  BY DEF NeverYet
<1>2. \A n \in DOMAIN log : log[n].kind = kind /\ log[n].who = who => log[n] = Record(kind, who)
  BY EntryIsRecord, LogIsWellFormed
<1> QED
  BY <1>1, <1>2 DEF NeverYet, Those

\* create_agent.
LEMMA RosterCreates ==
  ASSUME TypeInv, RosterStands, NamesOnce, NEW x \in Agents, CreateAgent(x)
  PROVE  RosterStands'
<1> DEFINE e == Record("created", x)
           next == Len(log) + 1
<1>1. /\ agents' = agents \cup {x} /\ Append1(e, durable) /\ x \notin agents
      /\ NeverYet("created", x) /\ mat.step = "none"
      /\ UNCHANGED <<archived, sessions, owed, mat, torn, adrift>>
  BY DEF CreateAgent, Working, ghost
<1>2. LogInv /\ durable \in durable..Len(log)
  BY LogIsWellFormed DEF TypeInv, RecordInv, LogInv
<1>3. e \in Entries /\ e.kind = "created" /\ e.who = x
  BY RecordFields DEF Record
<1> HIDE DEF e
<1>4. /\ next \in Now(GLOBAL_SCOPE)'
      /\ RecordsAdded(e)
  BY <1>1, <1>2, <1>3, AfterRecord
<1>5. x \notin adrift /\ Births(x) = {}
  BY <1>1, <1>2, NotYetIs DEF Births
<1>6. AgentStands(x)'
  <2>1. Births(x)' = {next} /\ Purgings(x)' = Purgings(x) /\ Archivals(x)' = Archivals(x)
    BY <1>3, <1>4, <1>5 DEF RecordsAdded, Added
  <2>2. AgentKnown(x)
    BY <1>5 DEF RosterStands, AgentStands
  <2>3. Purgings(x) = {} /\ Archivals(x) = {} /\ archived[x] = NoMarker
    BY <1>5, <2>2 DEF AgentKnown
  <2>4. AgentKnown(x)'
    BY <1>1, <2>1, <2>3 DEF AgentKnown
  <2>5. AgentFollows(x)'
    BY <1>1, <1>4, <2>1, <2>3 DEF AgentFollows, Meets
  <2>6. AgentShown(x)'
    BY <1>1, <2>1, <2>3 DEF AgentShown, Meets
  <2> QED
    BY <2>4, <2>5, <2>6 DEF AgentStands
<1>7. ASSUME NEW y \in Agents \ adrift' PROVE AgentStands(y)'
  <2>1. CASE y = x
    BY <1>6, <2>1
  <2>2. CASE y # x
    <3>1. AgentStands(y) /\ (y \in agents' <=> y \in agents) /\ archived'[y] = archived[y]
      BY <1>1, <1>7, <2>2 DEF RosterStands
    <3> QED
      BY <1>1, <1>2, <1>3, <2>2, <3>1, AgentAside
  <2> QED
    BY <2>1, <2>2
<1>8. ASSUME NEW s \in Spawned \ adrift' PROVE SessionStands(s)'
  <2>1. SessionStands(s) /\ (OwedEnd(s)' => OwedEnd(s))
    BY <1>1, <1>8 DEF RosterStands, OwedEnd
  <2> QED
    BY <1>1, <1>2, <1>3, <2>1, SessionAside
<1>9. ASSUME NEW s \in Spawned PROVE OwnerStands(s)'
  <2>1. OwnerStands(s)
    BY DEF RosterStands
  <2> QED
    BY <1>1, <1>2, <1>3, <2>1, OwnerAside
<1>10. Phase'
  BY <1>1 DEF RosterStands, Phase
<1> QED
  BY <1>7, <1>8, <1>9, <1>10 DEF RosterStands

\* archive_agent.
LEMMA RosterArchives ==
  ASSUME TypeInv, RosterStands, NamesOnce, NEW x \in Agents, ArchiveAgent(x)
  PROVE  RosterStands'
<1> DEFINE e == Record("archived", x)
           next == Len(log) + 1
<1>1. PICK w \in durable..Len(log) :
        archived' = [archived EXCEPT ![x] = w] /\ Append1(e, w)
  BY DEF ArchiveAgent
<1>2. /\ x \in agents /\ NeverYet("archived", x) /\ mat.step = "none"
      /\ UNCHANGED <<agents, sessions, owed, mat, torn, adrift>>
  BY DEF ArchiveAgent, Working, ghost
<1>3. LogInv /\ archived \in [Agents -> {NoMarker} \cup 0..MaxHead] /\ w \in Nat
  BY LogIsWellFormed DEF TypeInv, RecordInv, LogInv, Typed, FilesTyped
<1>4. e \in Entries /\ e.kind = "archived" /\ e.who = x
  BY RecordFields DEF Record
<1> HIDE DEF e
<1>5. /\ next \in Now(GLOBAL_SCOPE)' /\ BranchSame(GLOBAL_SCOPE)
      /\ RecordsAdded(e)
      /\ \A n \in DOMAIN log : n < next
  BY <1>1, <1>3, <1>4, AfterRecord
<1>6. x \notin adrift /\ Archivals(x) = {}
  BY <1>2, <1>3, NotYetIs DEF Archivals
<1>7. AgentStands(x)'
  <2>1. Births(x)' = Births(x) /\ Purgings(x)' = Purgings(x) /\ Archivals(x)' = {next}
    BY <1>4, <1>5, <1>6 DEF RecordsAdded, Added
  <2>2. AgentStands(x)
    BY <1>6 DEF RosterStands
  <2>3. Purgings(x) = {} /\ Births(x) # {} /\ \A n \in Births(x) : n < next
    BY <1>2, <1>5, <2>2 DEF AgentStands, AgentKnown, Births, Those
  <2>4. AgentKnown(x)'
    BY <1>2, <2>1, <2>2, <2>3 DEF AgentStands, AgentKnown
  <2>5. \A n \in Births(x) : n \in DOMAIN log /\ n \in DOMAIN log'
    BY <2>1 DEF Births, Those
  <2>6. Meets(Births(x), GLOBAL_SCOPE)' <=> Meets(Births(x), GLOBAL_SCOPE)
    BY <1>5, <2>1, <2>5 DEF Meets, BranchSame
  <2>7. IsThrough(x)' => AgentFollows(x)'
    BY <1>2, <2>1, <2>2, <2>6 DEF AgentStands, AgentFollows, IsThrough, Steady
  <2>8. AgentShown(x)'
    <3>1. archived'[x] # NoMarker
      BY <1>1, <1>3 DEF NoMarker
    <3> QED
      BY <1>5, <2>1, <3>1 DEF AgentShown, Meets
  <2> QED
    BY <2>4, <2>7, <2>8 DEF AgentStands
<1>8. ASSUME NEW y \in Agents \ adrift' PROVE AgentStands(y)'
  <2>1. CASE y = x
    BY <1>7, <2>1
  <2>2. CASE y # x
    <3>1. AgentStands(y) /\ (y \in agents' <=> y \in agents) /\ archived'[y] = archived[y]
      BY <1>1, <1>2, <1>3, <1>8, <2>2 DEF RosterStands
    <3> QED
      BY <1>1, <1>2, <1>3, <1>4, <2>2, <3>1, AgentAside
  <2> QED
    BY <2>1, <2>2
<1>9. ASSUME NEW s \in Spawned \ adrift' PROVE SessionStands(s)'
  <2>1. SessionStands(s) /\ (OwedEnd(s)' => OwedEnd(s))
    BY <1>2, <1>9 DEF RosterStands, OwedEnd
  <2> QED
    BY <1>1, <1>2, <1>3, <1>4, <2>1, SessionAside
<1>10. ASSUME NEW s \in Spawned PROVE OwnerStands(s)'
  <2>1. OwnerStands(s)
    BY DEF RosterStands
  <2> QED
    BY <1>1, <1>2, <1>3, <1>4, <2>1, OwnerAside
<1>11. Phase'
  BY <1>2 DEF RosterStands, Phase
<1> QED
  BY <1>8, <1>9, <1>10, <1>11 DEF RosterStands

LEMMA AgentsAside ==
  ASSUME TypeInv, RosterStands, NEW e \in Entries, e.kind # "rewind",
         NEW w \in durable..Len(log), Append1(e, w),
         UNCHANGED <<agents, archived, mat, torn>>,
         e.kind \notin {"created", "archived", "purged"},
         NEW x \in Agents, x \notin adrift
  PROVE  AgentStands(x)'
<1>1. LogInv /\ AgentStands(x)
  BY DEF TypeInv, RecordInv, RosterStands
<1> QED
  BY <1>1, AgentAside

\* archive_agent(purge=True).
LEMMA RosterPurges ==
  ASSUME TypeInv, RosterStands, NEW x \in Agents, PurgeAgent(x)
  PROVE  RosterStands'
<1> DEFINE e == Record("purged", x)
           next == Len(log) + 1
<1>1. /\ x \in agents /\ owed = <<>> /\ mat.step = "none"
      /\ agents' = agents \ {x} /\ sessions' = sessions \ Of(x)
      /\ archived' = [archived EXCEPT ![x] = NoMarker] /\ Append1(e, durable)
      /\ UNCHANGED <<mat, torn, adrift>>
  BY DEF PurgeAgent, Working, RemoveDirectory, ghost
<1>2. LogInv /\ durable \in durable..Len(log) /\ archived \in [Agents -> {NoMarker} \cup 0..MaxHead]
  BY LogIsWellFormed DEF TypeInv, RecordInv, LogInv, Typed, FilesTyped
<1>3. e \in Entries /\ e.kind = "purged" /\ e.who = x
  BY RecordFields DEF Record
<1>4. \A s : OwedEnd(s)' => s \in Of(x) \cap sessions
  BY PurgeOwes DEF OwedEnd, Record, Drawn
<1> HIDE DEF e
<1>5. /\ next \in Now(GLOBAL_SCOPE)' /\ BranchSame(GLOBAL_SCOPE) /\ ResetsSame
      /\ RecordsAdded(e)
      /\ \A n \in DOMAIN log : n < next
  BY <1>1, <1>2, <1>3, AfterRecord
<1>6. Purgings(x)' = Purgings(x) \cup {next}
  BY <1>3, <1>5 DEF RecordsAdded, Added
<1>7. x \notin adrift => AgentStands(x)'
  <2> SUFFICES ASSUME x \notin adrift PROVE AgentStands(x)'
    OBVIOUS
  <2>1. Births(x)' = Births(x) /\ Archivals(x)' = Archivals(x)
    BY <1>3, <1>5 DEF RecordsAdded, Added
  <2>2. AgentKnown(x)
    BY DEF RosterStands, AgentStands
  <2>3. Births(x) # {} /\ \A n \in Births(x) : n < next
    BY <1>1, <1>5, <2>2 DEF AgentKnown, Births, Those
  <2>4. x \notin agents' /\ archived'[x] = NoMarker
    BY <1>1, <1>2
  <2>5. AgentKnown(x)'
    BY <1>6, <2>1, <2>2, <2>3, <2>4 DEF AgentKnown
  <2>6. AgentFollows(x)' /\ AgentShown(x)'
    BY <1>6, <2>4 DEF AgentFollows, AgentShown
  <2> QED
    BY <2>5, <2>6 DEF AgentStands
<1>8. ASSUME NEW y \in Agents \ adrift' PROVE AgentStands(y)'
  <2>1. CASE y = x
    BY <1>1, <1>7, <1>8, <2>1
  <2>2. CASE y # x
    <3>1. AgentStands(y) /\ (y \in agents' <=> y \in agents) /\ archived'[y] = archived[y]
      BY <1>1, <1>2, <1>8, <2>2 DEF RosterStands
    <3> QED
      BY <1>1, <1>2, <1>3, <2>2, <3>1, AgentAside
  <2> QED
    BY <2>1, <2>2
<1>9. ASSUME NEW s \in Spawned \ adrift' PROVE SessionStands(s)'
  <2>1. SessionStands(s) /\ (s \in sessions' => s \in sessions)
    BY <1>1, <1>9 DEF RosterStands
  <2>2. OwedEnd(s)' => s \in sessions /\ s \notin sessions' /\ mat.step = "none"
    BY <1>1, <1>4
  <2> QED
    BY <1>1, <1>2, <1>3, <2>1, <2>2, SessionAside
<1>10. ASSUME NEW s \in Spawned PROVE OwnerStands(s)'
  <2>1. OwnerStands(s)
    BY DEF RosterStands
  <2>2. CASE Owner(s) # x
    BY <1>1, <1>2, <1>3, <2>1, <2>2, OwnerAside
  <2>3. CASE Owner(s) = x
    <3>1. s \notin sessions'
      BY <1>1, <2>3 DEF Of, Owner
    <3>2. Held(s)' => RemadeWithoutOwner(s)'
      <4> SUFFICES ASSUME Held(s) PROVE RemadeWithoutOwner(s)'
        BY <1>5, HeldKept
      <4>1. PICK r \in Resets : log[r].scope = s
        BY DEF Held
      <4>2. r \in 1..next /\ IsRewind(r)' /\ log'[r].scope = s
        <5>1. DOMAIN log = 1..Len(log) /\ Len(log) \in Nat /\ r \in DOMAIN log
          BY <1>2, LogIsWellFormed DEF Resets
        <5>2. r \in Resets' /\ log'[r] = log[r]
          BY <1>5 DEF ResetsSame
        <5> QED
          BY <4>1, <5>1, <5>2 DEF Resets
      <4>3. next \in Purgings(x)'
        BY <1>6
      <4> QED
        BY <2>3, <4>2, <4>3 DEF RemadeWithoutOwner, Purgings, Owner
    <3> QED
      BY <3>1, <3>2 DEF OwnerStands
  <2> QED
    BY <2>2, <2>3
<1>11. Phase'
  BY <1>1 DEF RosterStands, Phase
<1> QED
  BY <1>8, <1>9, <1>10, <1>11 DEF RosterStands

\* spawn_session_recorded.
LEMMA RosterSpawns ==
  ASSUME TypeInv, RosterStands, NamesOnce, NEW s \in Spawned, SpawnSession(s)
  PROVE  RosterStands'
<1> DEFINE e == Record("spawned", s)
           next == Len(log) + 1
<1>1. /\ s \notin sessions /\ Owner(s) \in agents /\ NeverYet("spawned", s)
      /\ mat.step = "none" /\ sessions' = sessions \cup {s} /\ Append1(e, durable)
      /\ UNCHANGED <<agents, archived, owed, mat, torn, adrift>>
  BY DEF SpawnSession, Working, ghost
<1>2. LogInv /\ durable \in durable..Len(log)
  BY LogIsWellFormed DEF TypeInv, RecordInv, LogInv
<1>3. e \in Entries /\ e.kind = "spawned" /\ e.who = s
  BY RecordFields DEF Record
<1> HIDE DEF e
<1>4. /\ next \in Now(s)' /\ ResetsSame /\ RecordsAdded(e)
  BY <1>1, <1>2, <1>3, AfterRecord
<1>5. s \notin adrift /\ Spawns(s) = {}
  BY <1>1, <1>2, NotYetIs DEF Spawns
<1>6. ASSUME NEW x \in Agents \ adrift' PROVE AgentStands(x)'
  BY <1>1, <1>2, <1>3, <1>6, AgentsAside
<1>7. SessionStands(s)'
  <2>1. Spawns(s)' = {next} /\ Ends(s)' = Ends(s)
    BY <1>3, <1>4, <1>5 DEF RecordsAdded, Added
  <2>2. Ends(s) = {} /\ ~OwedEnd(s) /\ ~Held(s)
    BY <1>5 DEF RosterStands, SessionStands, SessionKnown
  <2>3. ~OwedEnd(s)' /\ ~Held(s)'
    BY <1>1, <1>4, <2>2, HeldKept DEF OwedEnd
  <2>4. SessionKnown(s)'
    BY <2>1, <2>2, <2>3 DEF SessionKnown
  <2>5. SessionPlaced(s)'
    BY <1>1, <1>4, <2>1 DEF SessionPlaced, IsPlaced, Meets
  <2> QED
    BY <2>4, <2>5 DEF SessionStands
<1>8. ASSUME NEW q \in Spawned \ adrift' PROVE SessionStands(q)'
  <2>1. CASE q = s
    BY <1>7, <2>1
  <2>2. CASE q # s
    <3>1. SessionStands(q) /\ (q \in sessions' => q \in sessions)
          /\ (OwedEnd(q)' => OwedEnd(q))
      BY <1>1, <1>8, <2>2 DEF RosterStands, OwedEnd
    <3> QED
      BY <1>1, <1>2, <1>3, <2>2, <3>1, SessionAside
  <2> QED
    BY <2>1, <2>2
<1>9. ASSUME NEW q \in Spawned PROVE OwnerStands(q)'
  <2>1. CASE q = s
    BY <1>1, <2>1 DEF OwnerStands, Owner
  <2>2. CASE q # s
    <3>1. OwnerStands(q) /\ (q \in sessions' => q \in sessions)
      BY <1>1, <2>2 DEF RosterStands
    <3> QED
      BY <1>1, <1>2, <1>3, <3>1, OwnerAside
  <2> QED
    BY <2>1, <2>2
<1>10. Phase'
  BY <1>1 DEF RosterStands, Phase
<1> QED
  BY <1>6, <1>8, <1>9, <1>10 DEF RosterStands

\* The end of a session is recorded that is not there any more.
LEMMA EndRecorded ==
  ASSUME LogInv, NEW e \in Entries, e.kind = "vanished",
         NEW w \in durable..Len(log), Append1(e, w), UNCHANGED mat,
         SessionKnown(e.who), e.who \notin sessions', Spawns(e.who) # {},
         Rewinding(e.who) => ~OwedEnd(e.who)'
  PROVE  SessionStands(e.who)'
<1> DEFINE s == e.who
           next == Len(log) + 1
<1>1. ResetsSame /\ RecordsAdded(e) /\ \A n \in DOMAIN log : n < next
  BY AfterRecord
<1>2. Spawns(s)' = Spawns(s) /\ Ends(s)' = Ends(s) \cup {next}
  BY <1>1 DEF RecordsAdded, Added
<1>3. (Held(s)' <=> Held(s)) /\ (Rewinding(s)' <=> Rewinding(s))
  BY <1>1, HeldKept DEF Rewinding
<1>4. \A r \in Resets' : r \in Resets /\ r < next
  BY <1>1 DEF ResetsSame, Resets
<1> HIDE DEF s, next
<1>5. s \notin sessions' /\ Spawns(s) # {} /\ SessionKnown(s) /\ (Rewinding(s) => ~OwedEnd(s)')
  BY DEF s
<1>6. (\A m, n \in Spawns(s) : m = n)' /\ Spawns(s)' # {}
  BY <1>2, <1>5 DEF SessionKnown
<1>7. (Held(s) => \A n \in Ends(s), r \in Resets : r < n)'
  BY <1>2, <1>3, <1>4, <1>5 DEF SessionKnown
<1>8. SessionKnown(s)'
  BY <1>3, <1>5, <1>6, <1>7 DEF SessionKnown
<1>9. SessionPlaced(s)'
  BY <1>5 DEF SessionPlaced
<1> QED
  BY <1>8, <1>9 DEF SessionStands, s

\* remove_session.
LEMMA RosterRemoves ==
  ASSUME TypeInv, RosterStands, NEW s \in Spawned, RemoveSession(s)
  PROVE  RosterStands'
<1> DEFINE e == Record("vanished", s)
<1>1. /\ s \in sessions /\ mat.step = "none" /\ sessions' = sessions \ {s}
      /\ Append1(e, durable) /\ UNCHANGED <<agents, archived, owed, mat, torn, adrift>>
  BY DEF RemoveSession, Working, ghost
<1>2. LogInv /\ durable \in durable..Len(log)
  BY LogIsWellFormed DEF TypeInv, RecordInv, LogInv
<1>3. e \in Entries /\ e.kind = "vanished" /\ e.who = s
  BY RecordFields DEF Record
<1> HIDE DEF e
<1>4. ASSUME NEW x \in Agents \ adrift' PROVE AgentStands(x)'
  BY <1>1, <1>2, <1>3, <1>4, AgentsAside
<1>5. ASSUME NEW q \in Spawned \ adrift' PROVE SessionStands(q)'
  <2>1. SessionStands(q) /\ (q \in sessions' => q \in sessions)
        /\ (OwedEnd(q)' => OwedEnd(q))
    BY <1>1, <1>5 DEF RosterStands, OwedEnd
  <2>2. CASE q = s
    <3>1. SessionKnown(s) /\ Spawns(s) # {} /\ ~Rewinding(s)
      BY <1>1, <2>1, <2>2 DEF SessionStands, SessionKnown, Rewinding
    <3> QED
      BY <1>1, <1>2, <1>3, <2>2, <3>1, EndRecorded
  <2>3. CASE q # s
    BY <1>1, <1>2, <1>3, <2>1, <2>3, SessionAside
  <2> QED
    BY <2>2, <2>3
<1>6. ASSUME NEW q \in Spawned PROVE OwnerStands(q)'
  <2>1. OwnerStands(q) /\ (q \in sessions' => q \in sessions)
    BY <1>1 DEF RosterStands
  <2> QED
    BY <1>1, <1>2, <1>3, <2>1, OwnerAside
<1>7. Phase'
  BY <1>1 DEF RosterStands, Phase
<1> QED
  BY <1>4, <1>5, <1>6, <1>7 DEF RosterStands

\* A topology's record is about no agent and no session.
LEMMA RosterDraws ==
  ASSUME TypeInv, RosterStands, NEW t \in Topologies, NEW members \in SUBSET Agents,
         DrawTopology(t, members)
  PROVE  RosterStands'
<1> DEFINE e == Drawn(t, members)
<1>1. /\ mat.step = "none" /\ Append1(e, durable)
      /\ adrift' \in {adrift, adrift \cup {t}, adrift \ {t}}
      /\ UNCHANGED <<agents, archived, sessions, owed, mat, torn>>
  BY DEF DrawTopology, Working
<1>2. LogInv /\ durable \in durable..Len(log)
  BY LogIsWellFormed DEF TypeInv, RecordInv, LogInv
<1>3. e \in Entries /\ e.kind = "topology"
  BY RecordFields DEF Drawn
<1>4. \A q \in Agents \cup Spawned : q \in adrift' <=> q \in adrift
  BY <1>1, LifecycleAssumption
<1> HIDE DEF e
<1>5. ASSUME NEW x \in Agents \ adrift' PROVE AgentStands(x)'
  BY <1>1, <1>2, <1>3, <1>4, <1>5, AgentsAside
<1>6. \A s \in Spawned : Owner(s) \in adrift' <=> Owner(s) \in adrift
  BY <1>4, LifecycleAssumption DEF Owner
<1>7. ASSUME NEW s \in Spawned \ adrift' PROVE SessionStands(s)'
  <2>1. SessionStands(s) /\ (OwedEnd(s)' => OwedEnd(s))
    BY <1>1, <1>4, <1>7 DEF RosterStands, OwedEnd
  <2> QED
    BY <1>1, <1>2, <1>3, <1>6, <2>1, SessionAside
<1>8. ASSUME NEW s \in Spawned PROVE OwnerStands(s)'
  <2>1. OwnerStands(s)
    BY DEF RosterStands
  <2> QED
    BY <1>1, <1>2, <1>3, <1>6, <2>1, OwnerAside
<1>9. Phase'
  BY <1>1 DEF RosterStands, Phase
<1> QED
  BY <1>5, <1>7, <1>8, <1>9 DEF RosterStands

\* The next record of a removal.
LEMMA RosterPays ==
  ASSUME TypeInv, RosterStands, PayOwed
  PROVE  RosterStands'
<1> DEFINE e == Head(owed)
<1>1. /\ owed # <<>> /\ e.kind \notin {"sweep", "cascade"} /\ Append1(e, Len(log))
      /\ owed' = Tail(owed)
      /\ UNCHANGED <<agents, archived, sessions, mat, torn, adrift>>
  BY DEF PayOwed, OnLoop, Sweeping, files, ghost
<1>2. LogInv /\ Len(log) \in durable..Len(log) /\ owed \in Seq(Owing)
  BY LogIsWellFormed DEF TypeInv, RecordInv, LogInv
<1>3. e \in Owing /\ Range(owed) = {e} \cup Range(Tail(owed))
  BY <1>1, <1>2, OwedIs, RangeHeadTail
<1>4. /\ e \in Entries /\ e.kind \in {"vanished", "topology"}
      /\ e.kind = "vanished" => e = Record("vanished", e.who)
  BY <1>1, <1>3, OwingFields DEF Owing, Record
<1>5. \A s : (OwedEnd(s)' => OwedEnd(s)) /\ (e.kind = "vanished" /\ e.who = s => OwedEnd(s))
  BY <1>1, <1>3, <1>4 DEF OwedEnd
<1> HIDE DEF e
<1>6. ASSUME NEW x \in Agents \ adrift' PROVE AgentStands(x)'
  BY <1>1, <1>2, <1>4, <1>6, AgentsAside
<1>7. ASSUME NEW s \in Spawned \ adrift' PROVE SessionStands(s)'
  <2>1. SessionStands(s) /\ SessionKnown(s)
    BY <1>1, <1>7 DEF RosterStands, SessionStands
  <2>2. CASE e.kind = "vanished" /\ e.who = s
    <3>1. OwedEnd(s) /\ s \notin sessions' /\ Spawns(s) # {} /\ ~Rewinding(s)
      BY <1>1, <1>5, <2>1, <2>2 DEF SessionKnown
    <3> QED
      BY <1>1, <1>2, <1>4, <2>1, <2>2, <3>1, EndRecorded
  <2>3. CASE ~(e.kind = "vanished" /\ e.who = s)
    BY <1>1, <1>2, <1>4, <1>5, <2>1, <2>3, SessionAside
  <2> QED
    BY <2>2, <2>3
<1>8. ASSUME NEW s \in Spawned PROVE OwnerStands(s)'
  <2>1. OwnerStands(s)
    BY DEF RosterStands
  <2> QED
    BY <1>1, <1>2, <1>4, <2>1, OwnerAside
<1>9. Phase'
  BY <1>1 DEF RosterStands, Phase
<1> QED
  BY <1>6, <1>7, <1>8, <1>9 DEF RosterStands

\* checkout, up to the reset record.
LEMMA RosterAtCheckout ==
  ASSUME TypeInv, RosterStands, NEW n \in DOMAIN log, NEW scope \in B!Scopes,
         Checkout(n, scope)
  PROVE  RosterStands'
<1> DEFINE e == B!Rewound(n, scope)
           next == Len(log) + 1
<1>1. /\ Append1(e, next) /\ mat' = Decided(scope) /\ mat.step = "none"
      /\ scope # GLOBAL_SCOPE => scope \in sessions
      /\ adrift' = adrift \cup {t \in Topologies : IsOwed(t)}
      /\ UNCHANGED <<agents, archived, sessions, owed, torn>>
  BY DEF Checkout, Working, files
<1>2. LogInv /\ LogInv' /\ Grew(e) /\ Resets' = Resets \cup {next} /\ \A r \in Resets : r < next
  BY <1>1, ResetAppended DEF TypeInv, RecordInv
<1>3. e.kind = "rewind" /\ e.scope = scope
  BY DEF B!Rewound
<1>4. mat'.step = "decided" /\ mat'.scope = scope /\ mat'.todo = {}
  BY <1>1 DEF Decided, NotRewinding
<1> HIDE DEF e
<1>5. \A who : /\ Births(who)' = Births(who) /\ Purgings(who)' = Purgings(who)
               /\ Archivals(who)' = Archivals(who)
               /\ Spawns(who)' = Spawns(who) /\ Ends(who)' = Ends(who)
  <2>1. RecordsAdded(e)
    BY <1>2, RecordsOnAppend
  <2> QED
    BY <1>3, <2>1 DEF RecordsAdded, Added
<1>6. ResetsKept /\ log'[next] = e
  BY <1>2, LogIsWellFormed DEF ResetsKept, Grew, Resets
<1>7. ASSUME NEW q, scope \notin {GLOBAL_SCOPE, q} PROVE BranchSame(q)
  <2>1. Now(q)' = Now(q) \cup {next}
    BY <1>2, <1>3, <1>7, BranchGrows
  <2>2. \A k \in DOMAIN log : k # next
    BY <1>2, LogIsWellFormed
  <2> QED
    BY <2>1, <2>2 DEF BranchSame
<1>8. \A q \in Agents \cup Spawned : q \in adrift' <=> q \in adrift
  BY <1>1, LifecycleAssumption
<1>9. Steady' => Steady /\ scope # GLOBAL_SCOPE
  BY <1>1, <1>4 DEF Steady
<1>10. ASSUME NEW x \in Agents \ adrift' PROVE AgentStands(x)'
  <2>1. AgentStands(x)
    BY <1>8, <1>10 DEF RosterStands
  <2>2. IsThrough(x)' => IsThrough(x) /\ BranchSame(GLOBAL_SCOPE)
    BY <1>4, <1>7, <1>9 DEF IsThrough
  <2> QED
    BY <1>1, <1>5, <1>9, <2>1, <2>2, AgentKept
<1>11. ASSUME NEW s \in Spawned
       PROVE  (Held(s)' => s = scope) /\ (Rewinding(s)' => s = scope) /\ (s = scope => s \in sessions)
  <2>1. (Held(s)' => s = scope)
    <3> SUFFICES ASSUME Held(s)' PROVE s = scope
      OBVIOUS
    <3>1. PICK r \in Resets' : log'[r].scope = s /\ \A k \in Resets' : k <= r
      BY DEF Held
    <3>2. next \in Resets' /\ next <= r
      BY <1>2, <3>1
    <3>3. r = next
      BY <1>2, <3>1, <3>2, LogIsWellFormed
    <3> QED
      BY <1>3, <1>6, <3>1, <3>3
  <2> QED
    BY <1>1, <1>4, <2>1, LifecycleAssumption DEF Rewinding
<1>12. ASSUME NEW s \in Spawned \ adrift' PROVE SessionStands(s)'
  <2>1. SessionKnown(s) /\ SessionPlaced(s) /\ (OwedEnd(s)' <=> OwedEnd(s))
    BY <1>1, <1>8, <1>12 DEF RosterStands, SessionStands, OwedEnd
  <2>2. SessionKnown(s)'
    <3>1. (s \in sessions \/ Held(s) \/ Ends(s) # {} \/ OwedEnd(s) => Spawns(s) # {})'
      BY <1>1, <1>5, <1>11, <2>1 DEF SessionKnown
    <3>2. (Held(s) \/ Rewinding(s) => Ends(s) = {} /\ ~OwedEnd(s))'
      BY <1>1, <1>5, <1>11, <2>1 DEF SessionKnown
    <3> QED
      BY <1>1, <1>5, <2>1, <3>1, <3>2 DEF SessionKnown
  <2>3. SessionPlaced(s)'
    <3> SUFFICES ASSUME s \in sessions, Owner(s) \notin adrift', Steady', ~Rewinding(s)'
                 PROVE  IsPlaced(s)'
      BY <1>1, <1>4 DEF SessionPlaced, Owner
    <3>1. scope \notin {GLOBAL_SCOPE, s}
      BY <1>4, <1>9 DEF Rewinding
    <3>2. BranchSame(s)
      BY <1>7, <3>1
    <3>3. Owner(s) \notin adrift
      BY <1>1
    <3>4. IsPlaced(s)
      BY <1>1, <1>9, <2>1, <3>3 DEF SessionPlaced, Rewinding
    <3>5. CASE Meets(Spawns(s), s)
      <4>1. \A k \in Spawns(s) : k \in DOMAIN log /\ k \in DOMAIN log'
        BY <1>5 DEF Spawns, Those
      <4> QED
        BY <1>5, <3>2, <3>5, <4>1 DEF Meets, BranchSame, IsPlaced
    <3>6. CASE RemadeWithoutOwner(s)
      BY <1>2, <1>5, <1>6, <3>6, RemadeKept DEF IsPlaced
    <3> QED
      BY <3>4, <3>5, <3>6 DEF IsPlaced
  <2> QED
    BY <2>2, <2>3 DEF SessionStands
<1>13. ASSUME NEW s \in Spawned PROVE OwnerStands(s)'
  <2> SUFFICES ASSUME Owner(s) \notin adrift', s \in sessions' \/ Held(s)'
               PROVE  Owner(s) \in agents' \/ RemadeWithoutOwner(s)'
    BY DEF OwnerStands, Owner
  <2>1. s \in sessions /\ Owner(s) \notin adrift
    BY <1>1, <1>11
  <2>2. Owner(s) \in agents \/ RemadeWithoutOwner(s)
    BY <2>1 DEF RosterStands, OwnerStands
  <2> QED
    BY <1>1, <1>2, <1>5, <1>6, <2>2, RemadeKept
<1>14. Phase'
  BY <1>4 DEF Phase
<1> QED
  BY <1>10, <1>12, <1>13, <1>14 DEF RosterStands

----------------------------------------------------------------------------
(* The materialisation. *)

LEMMA ScanIsWhole ==
  ASSUME LogInv, floor = 1
  PROVE  \A kind, who : InWal(kind, who) = Those(kind, who, DOMAIN log)
<1>1. \A n \in DOMAIN log : Kept(n)
  <2>1. \A n \in DOMAIN log : n >= 1
    BY LogIsWellFormed
  <2> QED
    BY <2>1 DEF Kept
<1> QED
  BY <1>1 DEF InWal, Those

LEMMA ScansAre ==
  ASSUME LogInv, floor = 1
  PROVE  \A who : /\ CreatedAt(who) = Latest(Births(who))
                  /\ ArchivedAt(who) = Latest(Archivals(who))
                  /\ SpawnedAt(who) = Latest(Spawns(who))
                  /\ VanishedAt(who) = Latest(Ends(who))
                  /\ Purged(who) <=> Purgings(who) # {}
BY ScanIsWhole
   DEF CreatedAt, ArchivedAt, SpawnedAt, VanishedAt, Purged, Births, Archivals, Spawns, Ends,
       Purgings

\* The only record there is, asked for as the code does.
LEMMA TheOnlyOne ==
  ASSUME LogInv, NEW S \in SUBSET DOMAIN log, \A m, n \in S : m = n, NEW scope
  PROVE  /\ Latest(S) = 0 <=> S = {}
         /\ Latest(S) # 0 => (Active(Latest(S), scope) <=> Meets(S, scope))
         /\ Latest(S) >= 0
<1>1. /\ Latest(S) \in 0..Len(log) /\ (Latest(S) = 0 <=> S = {})
      /\ S # {} => Latest(S) \in S
  BY ScanFinds
<1>2. \A n \in DOMAIN log : Active(n, scope) <=> n \in Now(scope)
  BY LogIsWellFormed, NowIs
<1> QED
  BY <1>1, <1>2 DEF Meets

\* The agents made again are those created on the branch and not purged.
LEMMA RevivedAre ==
  ASSUME LogInv, floor = 1, RosterStands,
         NEW x \in Agents, x \notin adrift, x \notin agents
  PROVE  x \in Revived <=> Meets(Births(x), GLOBAL_SCOPE) /\ Purgings(x) = {}
<1>1. AgentKnown(x)
  BY DEF RosterStands, AgentStands
<1>2. Purgings(x) = {} => ~HasDir(x)
  <2>1. ASSUME NEW s \in Of(x) \cap sessions PROVE Purgings(x) # {}
    <3>1. s \in Spawned /\ Owner(s) = x
      BY <2>1 DEF Of, Owner
    <3>2. RemadeWithoutOwner(s)
      BY <2>1, <3>1 DEF RosterStands, OwnerStands
    <3> QED
      BY <3>1, <3>2 DEF RemadeWithoutOwner, Purgings
  <2> QED
    BY <2>1 DEF HasDir
<1>3. /\ CreatedAt(x) # 0 <=> Births(x) # {}
      /\ CreatedAt(x) # 0 => (Active(CreatedAt(x), GLOBAL_SCOPE) <=> Meets(Births(x), GLOBAL_SCOPE))
  <2>1. Births(x) \in SUBSET DOMAIN log /\ \A m, n \in Births(x) : m = n
    BY <1>1 DEF AgentKnown, Births, Those
  <2> QED
    BY <2>1, ScansAre, TheOnlyOne
<1>4. Purged(x) <=> Purgings(x) # {}
  BY ScansAre
<1>5. Meets(Births(x), GLOBAL_SCOPE) => Births(x) # {}
  BY DEF Meets
<1> QED
  BY <1>2, <1>3, <1>4, <1>5 DEF Revived

\* _materialize_rewind: agents created on the branch are made again.
LEMMA RosterRevives ==
  ASSUME TypeInv, floor = 1, RosterStands, Rematerialise
  PROVE  RosterStands'
<1>1. /\ mat.step = "decided" /\ mat.scope = GLOBAL_SCOPE /\ agents' = agents \cup Revived
      /\ UNCHANGED <<log, archived, sessions, owed, adrift, torn>>
  BY DEF Rematerialise, wal, ghost
<1>2. mat'.step = "agents" /\ mat'.scope = GLOBAL_SCOPE /\ mat'.todo = agents'
      /\ mat'.purges = mat.purges
  BY <1>1 DEF Rematerialise, TypeInv, RecordInv, MatInv
<1>3. LogInv
  BY DEF TypeInv, RecordInv
<1>4. /\ ResetsSame /\ \A scope : BranchSame(scope)
      /\ \A who : /\ Births(who)' = Births(who) /\ Purgings(who)' = Purgings(who)
                  /\ Archivals(who)' = Archivals(who)
                  /\ Spawns(who)' = Spawns(who) /\ Ends(who)' = Ends(who)
  BY <1>1, BranchUnmoved
<1>5. ~Steady'
  BY <1>2 DEF Steady
<1>6. \A x \in Agents : x \notin adrift /\ x \notin agents =>
        (x \in Revived <=> Meets(Births(x), GLOBAL_SCOPE) /\ Purgings(x) = {})
  BY <1>3, RevivedAre
<1>7. ASSUME NEW x \in Agents \ adrift' PROVE AgentStands(x)'
  <2>1. AgentKnown(x) /\ x \notin adrift
    BY <1>1, <1>7 DEF RosterStands, AgentStands
  <2>2. x \in agents' => Births(x) # {} /\ Purgings(x) = {}
    BY <1>1, <1>6, <2>1 DEF AgentKnown, Meets
  <2>3. AgentKnown(x)'
    BY <1>1, <1>4, <2>1, <2>2 DEF AgentKnown
  <2>4. IsThrough(x)' => AgentFollows(x)'
    <3> SUFFICES ASSUME x \notin agents' PROVE AgentFollows(x)'
      BY <1>2, <1>5 DEF IsThrough
    <3>1. ~(Meets(Births(x), GLOBAL_SCOPE) /\ Purgings(x) = {})
      BY <1>1, <1>6, <2>1
    <3>2. Meets(Births(x), GLOBAL_SCOPE)' <=> Meets(Births(x), GLOBAL_SCOPE)
      BY <1>1, <1>4 DEF Meets, Now
    <3> QED
      BY <1>4, <3>1, <3>2 DEF AgentFollows
  <2> QED
    BY <1>5, <2>3, <2>4 DEF AgentStands
<1>8. ASSUME NEW s \in Spawned \ adrift' PROVE SessionStands(s)'
  <2>1. SessionKnown(s) /\ OwnerStands(s)
    BY <1>1, <1>8 DEF RosterStands, SessionStands
  <2>2. SessionKnown(s)'
    BY <1>1, <1>2, <1>4, <2>1, SessionKnownKept DEF OwedEnd, Rewinding
  <2>3. SessionPlaced(s)'
    <3> SUFFICES ASSUME s \in sessions, Owner(s) \notin adrift
                 PROVE  IsPlaced(s)' \/ Owner(s) \in mat'.todo
      BY <1>1, <1>5 DEF SessionPlaced, Owner
    <3>1. Owner(s) \in agents \/ RemadeWithoutOwner(s)
      BY <2>1 DEF OwnerStands
    <3>2. RemadeWithoutOwner(s) => RemadeWithoutOwner(s)'
      BY <1>3, <1>4, RemadeKept DEF ResetsSame, ResetsKept
    <3> QED
      BY <1>1, <1>2, <3>1, <3>2 DEF IsPlaced
  <2> QED
    BY <2>2, <2>3 DEF SessionStands
<1>9. ASSUME NEW s \in Spawned PROVE OwnerStands(s)'
  <2>1. OwnerStands(s)
    BY DEF RosterStands
  <2> QED
    BY <1>1, <1>3, <1>4, <2>1, OwnerKept
<1>10. Phase'
  BY <1>2 DEF Phase
<1> QED
  BY <1>7, <1>8, <1>9, <1>10 DEF RosterStands

\* _rematerialise_agent raises: some of them are.
LEMMA RosterHalfRevived ==
  ASSUME TypeInv, floor = 1, RosterStands, RevivingRaises
  PROVE  RosterStands'
<1>1. /\ agents \subseteq agents' /\ agents' \subseteq agents \cup Revived
      /\ UNCHANGED <<log, archived, sessions, owed, adrift>>
      /\ mat' = NotRewinding /\ torn'
  BY DEF RevivingRaises, wal
<1>2. LogInv
  BY DEF TypeInv, RecordInv
<1>3. /\ ResetsSame /\ \A scope : BranchSame(scope)
      /\ \A who : /\ Births(who)' = Births(who) /\ Purgings(who)' = Purgings(who)
                  /\ Archivals(who)' = Archivals(who)
                  /\ Spawns(who)' = Spawns(who) /\ Ends(who)' = Ends(who)
  BY <1>1, BranchUnmoved
<1>4. ~Steady' /\ mat'.step = "none" /\ mat'.todo = {}
  BY <1>1 DEF Steady, NotRewinding
<1>5. ASSUME NEW x \in Agents \ adrift' PROVE AgentStands(x)'
  <2>1. AgentKnown(x) /\ x \notin adrift
    BY <1>1, <1>5 DEF RosterStands, AgentStands
  <2>2. x \in agents' => Births(x) # {} /\ Purgings(x) = {}
    BY <1>1, <1>2, <2>1, RevivedAre DEF AgentKnown, Meets
  <2>3. AgentKnown(x)'
    BY <1>1, <1>3, <2>1, <2>2 DEF AgentKnown
  <2> QED
    BY <1>4, <2>3 DEF AgentStands, IsThrough
<1>6. ASSUME NEW s \in Spawned \ adrift' PROVE SessionStands(s)'
  <2>1. SessionKnown(s)
    BY <1>1, <1>6 DEF RosterStands, SessionStands
  <2>2. SessionKnown(s)'
    BY <1>1, <1>3, <1>4, <2>1, SessionKnownKept DEF OwedEnd, Rewinding
  <2>3. SessionPlaced(s)'
    BY <1>4 DEF SessionPlaced
  <2> QED
    BY <2>2, <2>3 DEF SessionStands
<1>7. ASSUME NEW s \in Spawned PROVE OwnerStands(s)'
  <2>1. OwnerStands(s)
    BY DEF RosterStands
  <2> QED
    BY <1>1, <1>2, <1>3, <2>1, OwnerKept
<1>8. Phase'
  BY <1>4 DEF Phase
<1> QED
  BY <1>5, <1>6, <1>7, <1>8 DEF RosterStands

\* What the code asks of an agent and of a session, in terms of their records.
LEMMA DoomedIs ==
  ASSUME LogInv, floor = 1, NEW x, AgentKnown(x)
  PROVE  /\ Doomed(x) => ~(Meets(Births(x), GLOBAL_SCOPE) /\ Purgings(x) = {})
         /\ ~Doomed(x) /\ Births(x) # {} => Meets(Births(x), GLOBAL_SCOPE) /\ Purgings(x) = {}
<1>1. Births(x) \in SUBSET DOMAIN log /\ \A m, n \in Births(x) : m = n
  BY DEF AgentKnown, Births, Those
<1>2. /\ CreatedAt(x) = 0 <=> Births(x) = {}
      /\ CreatedAt(x) # 0 => (Active(CreatedAt(x), GLOBAL_SCOPE) <=> Meets(Births(x), GLOBAL_SCOPE))
  BY <1>1, ScansAre, TheOnlyOne
<1>3. Purged(x) <=> Purgings(x) # {}
  BY ScansAre
<1> QED
  BY <1>2, <1>3 DEF Doomed

LEMMA NotGoneIs ==
  ASSUME LogInv, floor = 1, NEW s, SessionKnown(s), Spawns(s) # {}, ~Gone(s)
  PROVE  /\ Meets(Spawns(s), s)
         /\ Held(s) => Ends(s) = {}
<1>1. Meets(Spawns(s), s)
  <2>1. Spawns(s) \in SUBSET DOMAIN log /\ \A m, n \in Spawns(s) : m = n
    BY DEF SessionKnown, Spawns, Those
  <2>2. /\ SpawnedAt(s) # 0
        /\ Active(SpawnedAt(s), s) <=> Meets(Spawns(s), s)
    BY <2>1, ScansAre, TheOnlyOne
  <2> QED
    BY <2>2 DEF Gone
<1>2. ASSUME Held(s), Ends(s) # {} PROVE FALSE
  <2>1. Ends(s) \in SUBSET DOMAIN log /\ VanishedAt(s) = Latest(Ends(s))
    BY ScansAre DEF Ends, Those
  <2>2. VanishedAt(s) \in Ends(s) /\ VanishedAt(s) \in 1..Len(log) /\ VanishedAt(s) # 0
    BY <1>2, <2>1, ScanFinds, LogIsWellFormed
  <2>3. \A r \in Resets : r <= VanishedAt(s)
    <3>1. \A r \in Resets : r < VanishedAt(s) /\ r \in Nat
      BY <1>2, <2>2, LogIsWellFormed DEF SessionKnown
    <3> QED
      BY <2>2, <3>1
  <2>4. Active(VanishedAt(s), s)
    BY <2>2, <2>3, NowIs
  <2> QED
    BY <2>2, <2>4 DEF Gone
<1> QED
  BY <1>1, <1>2

\* While everything is materialised no session's own reset is the latest.
LEMMA NobodyIsHeld ==
  ASSUME TypeInv, mat.step # "none", mat.scope = GLOBAL_SCOPE, NEW s \in Spawned
  PROVE  ~Held(s)
<1>1. PICK n \in Resets : log[n].scope = GLOBAL_SCOPE /\ \A k \in Resets : k <= n
  BY DEF TypeInv, RecordInv, MatInv
<1>2. ASSUME NEW r \in Resets, \A k \in Resets : k <= r PROVE r = n
  <2>1. r \in Nat /\ n \in Nat /\ r <= n /\ n <= r
    BY <1>1, <1>2, LogIsWellFormed DEF TypeInv, RecordInv
  <2> QED
    BY <2>1
<1> QED
  BY <1>1, <1>2, LifecycleAssumption DEF Held

\* The loop over the agents.
LEMMA RosterMaterialises ==
  ASSUME TypeInv, floor = 1, RosterStands, NEW x \in Agents, MaterialiseAgent(x)
  PROVE  RosterStands'
<1>1. /\ x \in mat.todo /\ x \in agents /\ mat.step = "agents" /\ mat.scope = GLOBAL_SCOPE
      /\ mat.todo \subseteq agents
  BY DEF MaterialiseAgent, RosterStands, Phase
<1>2. /\ mat'.step = "agents" /\ mat'.scope = GLOBAL_SCOPE /\ mat'.todo = mat.todo \ {x}
      /\ mat.purges \subseteq mat'.purges
      /\ UNCHANGED <<log, owed, adrift, torn>>
  <2>1. mat \in [step : {"none", "decided", "agents"}, scope : B!Scopes,
                 todo : SUBSET Agents, purges : SUBSET Spawned]
    BY DEF TypeInv, RecordInv, MatInv
  <2> QED
    BY <1>1, <2>1 DEF MaterialiseAgent, wal, ghost
<1>3. LogInv /\ archived \in [Agents -> {NoMarker} \cup 0..MaxHead]
  BY DEF TypeInv, RecordInv, Typed, FilesTyped
<1>4. /\ ResetsSame /\ \A scope : BranchSame(scope)
      /\ \A who : /\ Births(who)' = Births(who) /\ Purgings(who)' = Purgings(who)
                  /\ Archivals(who)' = Archivals(who)
                  /\ Spawns(who)' = Spawns(who) /\ Ends(who)' = Ends(who)
  BY <1>2, BranchUnmoved
<1>5. ~Steady'
  BY <1>2 DEF Steady
<1>6. /\ \A y \in Agents : y # x => (y \in agents' <=> y \in agents) /\ archived'[y] = archived[y]
      /\ Doomed(x) => x \notin agents' /\ archived'[x] = NoMarker /\ sessions' = sessions \ Of(x)
      /\ ~Doomed(x) =>
           /\ UNCHANGED <<agents, archived, sessions>>
           /\ {s \in Of(x) \cap sessions : Gone(s)} \subseteq mat'.purges
      /\ sessions' \subseteq sessions
  <2>1. mat \in [step : {"none", "decided", "agents"}, scope : B!Scopes,
                 todo : SUBSET Agents, purges : SUBSET Spawned]
    BY DEF TypeInv, RecordInv, MatInv
  <2>2. CASE Doomed(x)
    BY <1>3, <2>2 DEF MaterialiseAgent
  <2>3. CASE ~Doomed(x)
    BY <2>1, <2>3 DEF MaterialiseAgent
  <2> QED
    BY <2>2, <2>3
<1>7. x \notin adrift => AgentStands(x)'
  <2> SUFFICES ASSUME x \notin adrift PROVE AgentStands(x)'
    OBVIOUS
  <2>1. AgentKnown(x) /\ Births(x) # {}
    BY <1>1 DEF RosterStands, AgentStands, AgentKnown
  <2>2. Meets(Births(x), GLOBAL_SCOPE)' <=> Meets(Births(x), GLOBAL_SCOPE)
    BY <1>2, <1>4 DEF Meets, Now
  <2>3. AgentFollows(x)'
    BY <1>1, <1>3, <1>4, <1>6, <2>1, <2>2, DoomedIs DEF AgentFollows
  <2>4. AgentKnown(x)'
    BY <1>4, <1>6, <2>1 DEF AgentKnown
  <2> QED
    BY <1>5, <2>3, <2>4 DEF AgentStands
<1>8. ASSUME NEW y \in Agents \ adrift' PROVE AgentStands(y)'
  <2>1. CASE y = x
    BY <1>2, <1>7, <1>8, <2>1
  <2>2. CASE y # x
    <3>1. AgentStands(y) /\ (y \in agents' <=> y \in agents) /\ archived'[y] = archived[y]
      BY <1>2, <1>6, <1>8, <2>2 DEF RosterStands
    <3>2. IsThrough(y)' => IsThrough(y)
      BY <1>1, <1>2, <1>5, <2>2 DEF IsThrough
    <3> QED
      BY <1>4, <1>5, <3>1, <3>2, AgentKept
  <2> QED
    BY <2>1, <2>2
<1>9. ASSUME NEW s \in Spawned \ adrift' PROVE SessionStands(s)'
  <2>1. SessionKnown(s) /\ SessionPlaced(s)
    BY <1>2, <1>9 DEF RosterStands, SessionStands
  <2>2. SessionKnown(s)'
    BY <1>2, <1>4, <1>6, <2>1, SessionKnownKept DEF OwedEnd, Rewinding
  <2>3. SessionPlaced(s)'
    <3> SUFFICES ASSUME s \in sessions', Owner(s) \notin adrift
                 PROVE  IsPlaced(s)' \/ s \in mat'.purges \/ Owner(s) \in mat'.todo
      BY <1>2, <1>5 DEF SessionPlaced, Owner
    <3>1. IsPlaced(s) => IsPlaced(s)'
      BY <1>3, <1>4, PlaceKept
    <3>2. IsPlaced(s) \/ s \in mat.purges \/ Owner(s) \in mat.todo
      BY <1>1, <1>6, <2>1 DEF SessionPlaced
    <3>3. CASE Owner(s) = x
      <4>1. s \in Of(x) \cap sessions
        BY <1>6, <3>3 DEF Of, Owner
      <4>2. ~Doomed(x)
        BY <1>6, <4>1
      <4>3. Gone(s) => s \in mat'.purges
        BY <1>6, <4>1, <4>2
      <4>4. ~Gone(s) => IsPlaced(s)
        BY <1>3, <2>1, <4>1, NotGoneIs DEF SessionKnown, IsPlaced
      <4> QED
        BY <3>1, <4>3, <4>4
    <3>4. CASE Owner(s) # x
      BY <1>2, <3>1, <3>2, <3>4
    <3> QED
      BY <3>3, <3>4
  <2> QED
    BY <2>2, <2>3 DEF SessionStands
<1>10. ASSUME NEW s \in Spawned PROVE OwnerStands(s)'
  <2>1. OwnerStands(s) /\ ~Held(s) /\ ~Held(s)'
    BY <1>1, <1>4, NobodyIsHeld, HeldKept DEF RosterStands
  <2>2. CASE Owner(s) # x
    <3>1. Owner(s) \in Agents
      BY LifecycleAssumption DEF Owner
    <3> QED
      BY <1>2, <1>3, <1>4, <1>6, <2>1, <2>2, <3>1, OwnerKept
  <2>3. CASE Owner(s) = x /\ Doomed(x)
    BY <1>6, <2>1, <2>3 DEF OwnerStands, Of, Owner
  <2>4. CASE ~Doomed(x)
    BY <1>2, <1>3, <1>4, <1>6, <2>1, <2>4, OwnerKept
  <2> QED
    BY <2>2, <2>3, <2>4
<1>11. Phase'
  <2>1. mat'.todo \subseteq agents'
    <3>1. mat.todo \subseteq Agents
      BY DEF TypeInv, RecordInv, MatInv
    <3> QED
      BY <1>1, <1>2, <1>6, <3>1
  <2> QED
    BY <1>2, <2>1 DEF Phase
<1> QED
  BY <1>8, <1>9, <1>10, <1>11 DEF RosterStands

\* Behind the loop.
LEMMA RosterRebuilt ==
  ASSUME TypeInv, floor = 1, swept = 0, RosterStands, MaterialiseRest
  PROVE  RosterStands'
<1>1. /\ mat.step = "agents" /\ mat.todo = {} /\ mat' = NotRewinding /\ ~torn'
      /\ archived' = [x \in Agents |-> IF x \in agents THEN MarkerNow(x) ELSE archived[x]]
      /\ sessions' = sessions \ mat.purges
      /\ UNCHANGED <<log, agents, owed, adrift>>
  <2>1. ~(swept > 0)
    OBVIOUS
  <2>2. ~torn'
    BY <2>1, Zenon DEF MaterialiseRest
  <2> QED
    BY <2>2 DEF MaterialiseRest, wal
<1>2. mat'.step = "none" /\ mat'.todo = {}
  BY <1>1 DEF NotRewinding
<1>3. LogInv
  BY DEF TypeInv, RecordInv
<1>4. /\ ResetsSame /\ \A scope : BranchSame(scope)
      /\ \A who : /\ Births(who)' = Births(who) /\ Purgings(who)' = Purgings(who)
                  /\ Archivals(who)' = Archivals(who)
                  /\ Spawns(who)' = Spawns(who) /\ Ends(who)' = Ends(who)
  BY <1>1, BranchUnmoved
<1>5. ASSUME NEW x \in Agents \ adrift' PROVE AgentStands(x)'
  <2>1. AgentKnown(x) /\ AgentFollows(x)
    BY <1>1, <1>5 DEF RosterStands, AgentStands, IsThrough
  <2>2. /\ ArchivedAt(x) = 0 <=> Archivals(x) = {}
        /\ ArchivedAt(x) # 0 =>
             (Active(ArchivedAt(x), GLOBAL_SCOPE) <=> Meets(Archivals(x), GLOBAL_SCOPE))
        /\ ArchivedAt(x) >= 0
    <3>1. Archivals(x) \in SUBSET DOMAIN log /\ \A m, n \in Archivals(x) : m = n
      BY <2>1 DEF AgentKnown, Archivals, Those
    <3> QED
      BY <1>3, <3>1, ScansAre, TheOnlyOne
  <2>3. Meets(Archivals(x), GLOBAL_SCOPE) => Archivals(x) # {}
    BY DEF Meets
  <2>4. Archivals(x) = {} => archived'[x] = NoMarker
    BY <1>1, <2>1, <2>2 DEF AgentKnown, MarkerNow
  <2>5. AgentKnown(x)'
    BY <1>1, <1>4, <2>1, <2>4 DEF AgentKnown
  <2>6. /\ Meets(Births(x), GLOBAL_SCOPE)' <=> Meets(Births(x), GLOBAL_SCOPE)
        /\ Meets(Archivals(x), GLOBAL_SCOPE)' <=> Meets(Archivals(x), GLOBAL_SCOPE)
    BY <1>1, <1>4 DEF Meets, Now
  <2>7. AgentFollows(x)'
    BY <1>1, <1>4, <2>1, <2>6 DEF AgentFollows
  <2>8. x \in agents => (archived'[x] # NoMarker <=> Meets(Archivals(x), GLOBAL_SCOPE))
    BY <1>1, <2>2, <2>3, <2>4 DEF MarkerNow, NoMarker
  <2>9. AgentShown(x)'
    BY <1>1, <2>6, <2>8 DEF AgentShown
  <2> QED
    BY <2>5, <2>7, <2>9 DEF AgentStands
<1>6. ASSUME NEW s \in Spawned \ adrift' PROVE SessionStands(s)'
  <2>1. SessionKnown(s) /\ SessionPlaced(s)
    BY <1>1, <1>6 DEF RosterStands, SessionStands
  <2>2. SessionKnown(s)'
    BY <1>1, <1>2, <1>4, <2>1, SessionKnownKept DEF OwedEnd, Rewinding
  <2>3. SessionPlaced(s)'
    <3> SUFFICES ASSUME s \in sessions \ mat.purges, Owner(s) \notin adrift
                 PROVE  IsPlaced(s)'
      BY <1>1, <1>2 DEF SessionPlaced, Owner
    <3>1. IsPlaced(s)
      BY <1>1, <2>1 DEF SessionPlaced
    <3> QED
      BY <1>3, <1>4, <3>1, PlaceKept
  <2> QED
    BY <2>2, <2>3 DEF SessionStands
<1>7. ASSUME NEW s \in Spawned PROVE OwnerStands(s)'
  <2>1. OwnerStands(s)
    BY DEF RosterStands
  <2> QED
    BY <1>1, <1>3, <1>4, <2>1, OwnerKept
<1>8. Phase'
  BY <1>2 DEF Phase
<1> QED
  BY <1>5, <1>6, <1>7, <1>8 DEF RosterStands

\* The log and the agents stay as they are.
LEMMA AgentsUnmoved ==
  ASSUME RosterStands, UNCHANGED <<log, agents, archived, adrift>>,
         Steady' => Steady, mat'.step = "agents" => mat' = mat
  PROVE  \A x \in Agents \ adrift' : AgentStands(x)'
<1> SUFFICES ASSUME NEW x \in Agents \ adrift' PROVE AgentStands(x)'
  OBVIOUS
<1>1. AgentStands(x) /\ BranchSame(GLOBAL_SCOPE) /\ (IsThrough(x)' => IsThrough(x))
  BY BranchUnmoved DEF RosterStands, IsThrough
<1>2. Births(x)' = Births(x) /\ Purgings(x)' = Purgings(x) /\ Archivals(x)' = Archivals(x)
  BY BranchUnmoved
<1> QED
  BY <1>1, <1>2, AgentKept

\* _materialize_rewind of one session.
LEMMA RosterResets ==
  ASSUME TypeInv, floor = 1, RosterStands, MaterialiseSession
  PROVE  RosterStands'
<1>0. PICK one : one = mat.scope
  OBVIOUS
<1>1. /\ mat.step = "decided" /\ one # GLOBAL_SCOPE /\ mat' = NotRewinding
      /\ sessions' = IF Gone(one) THEN sessions \ {one} ELSE sessions \cup {one}
      /\ UNCHANGED <<log, agents, archived, owed, adrift, torn>>
  BY <1>0 DEF MaterialiseSession, wal, ghost
<1>2. mat'.step = "none" /\ mat'.todo = {}
  BY <1>1 DEF NotRewinding
<1>3. LogInv
  BY DEF TypeInv, RecordInv
<1>4. /\ ResetsSame /\ \A scope : BranchSame(scope)
      /\ \A who : /\ Births(who)' = Births(who) /\ Purgings(who)' = Purgings(who)
                  /\ Archivals(who)' = Archivals(who)
                  /\ Spawns(who)' = Spawns(who) /\ Ends(who)' = Ends(who)
  BY <1>1, BranchUnmoved
<1>5. Steady' => Steady
  BY <1>0, <1>1 DEF Steady
<1>6. Held(one) /\ Held(one)'
  <2>1. Held(one)
    BY <1>0, <1>1 DEF TypeInv, RecordInv, MatInv, Held
  <2> QED
    BY <1>4, <2>1, HeldKept
<1>7. \A x \in Agents \ adrift' : AgentStands(x)'
  BY <1>1, <1>2, <1>5, AgentsUnmoved
<1>8. ASSUME NEW s \in Spawned \ adrift' PROVE SessionStands(s)'
  <2>1. SessionKnown(s) /\ SessionPlaced(s) /\ (Rewinding(s) => s = one) /\ ~Rewinding(s)'
    BY <1>0, <1>1, <1>2, <1>8 DEF RosterStands, SessionStands, Rewinding
  <2>2. CASE s = one /\ ~Gone(one)
    <3>1. Spawns(s) # {} /\ ~OwedEnd(s) /\ ~OwedEnd(s)'
      <4>1. Rewinding(s)
        BY <1>0, <1>1, <2>2 DEF Rewinding
      <4> QED
        BY <1>1, <1>6, <2>1, <2>2, <4>1 DEF SessionKnown, OwedEnd
    <3>2. Meets(Spawns(s), s) /\ Ends(s) = {}
      BY <1>3, <1>6, <2>1, <2>2, <3>1, NotGoneIs
    <3>3. SessionKnown(s)'
      BY <1>4, <2>1, <3>1, <3>2 DEF SessionKnown
    <3>4. IsPlaced(s)'
      BY <1>3, <1>4, <3>2, PlaceKept DEF IsPlaced
    <3> QED
      BY <1>2, <3>3, <3>4 DEF SessionStands, SessionPlaced
  <2>3. CASE ~(s = one /\ ~Gone(one))
    <3>1. s \in sessions' => s \in sessions /\ s # one
      BY <1>1, <2>3
    <3>2. SessionKnown(s)'
      BY <1>1, <1>4, <2>1, <3>1, SessionKnownKept DEF OwedEnd
    <3>3. SessionPlaced(s)'
      <4> SUFFICES ASSUME s \in sessions', Owner(s) \notin adrift, Steady'
                   PROVE  IsPlaced(s)'
        BY <1>1, <1>2 DEF SessionPlaced, Owner
      <4>1. IsPlaced(s)
        BY <1>5, <2>1, <3>1 DEF SessionPlaced
      <4> QED
        BY <1>3, <1>4, <4>1, PlaceKept
    <3> QED
      BY <3>2, <3>3 DEF SessionStands
  <2> QED
    BY <2>2, <2>3
<1>9. ASSUME NEW s \in Spawned PROVE OwnerStands(s)'
  <2>1. OwnerStands(s) /\ (s \in sessions' => s \in sessions \/ Held(s))
    BY <1>1, <1>6 DEF RosterStands
  <2> QED
    BY <1>1, <1>3, <1>4, <2>1, OwnerKept
<1>10. Phase'
  BY <1>2 DEF Phase
<1> QED
  BY <1>7, <1>8, <1>9, <1>10 DEF RosterStands

\* Nothing moves that the roster is about; a materialisation may fail.
LEMMA RosterUnmoved ==
  ASSUME TypeInv, RosterStands, UNCHANGED <<log, agents, archived, sessions, owed, adrift>>,
         \/ UNCHANGED <<mat, torn>>
         \/ mat' = NotRewinding /\ torn'
  PROVE  RosterStands'
<1>1. LogInv
  BY DEF TypeInv, RecordInv
<1>2. /\ Steady' => Steady /\ mat' = mat
      /\ mat'.step = "agents" => mat' = mat
      /\ mat'.step = "decided" => mat' = mat
  BY DEF Steady, NotRewinding
<1>3. /\ ResetsSame /\ \A scope : BranchSame(scope)
      /\ \A who : /\ Births(who)' = Births(who) /\ Purgings(who)' = Purgings(who)
                  /\ Archivals(who)' = Archivals(who)
                  /\ Spawns(who)' = Spawns(who) /\ Ends(who)' = Ends(who)
  BY BranchUnmoved
<1>4. \A x \in Agents \ adrift' : AgentStands(x)'
  BY <1>2, AgentsUnmoved
<1>5. ASSUME NEW s \in Spawned \ adrift' PROVE SessionStands(s)'
  <2>1. SessionKnown(s) /\ SessionPlaced(s)
    BY <1>5 DEF RosterStands, SessionStands
  <2>2. /\ OwedEnd(s)' => OwedEnd(s)
        /\ Rewinding(s)' => Rewinding(s)
        /\ Steady' /\ Rewinding(s) => Rewinding(s)'
    BY <1>2 DEF OwedEnd, Rewinding
  <2>3. SessionKnown(s)'
    BY <1>3, <2>1, <2>2, SessionKnownKept
  <2>4. SessionPlaced(s)'
    BY <1>1, <1>2, <1>3, <2>1, <2>2, SessionPlacedKept
  <2> QED
    BY <2>3, <2>4 DEF SessionStands
<1>6. ASSUME NEW s \in Spawned PROVE OwnerStands(s)'
  <2>1. OwnerStands(s)
    BY DEF RosterStands
  <2> QED
    BY <1>1, <1>3, <2>1, OwnerKept
<1>7. Phase'
  BY DEF RosterStands, Phase, NotRewinding
<1> QED
  BY <1>4, <1>5, <1>6, <1>7 DEF RosterStands

\* Death: what had a record that is lost is adrift, and the reset is carried out again.
LEMMA RosterAfterDeath ==
  ASSUME TypeInv, RosterStands, Crash
  PROVE  RosterStands'
<1>1. LogInv /\ LogInv' /\ durable' \in durable..Len(log) /\ CutBack /\ ResetsSame
  BY RecoveringIs DEF TypeInv, RecordInv, ResetsSame
<1>2. /\ UNCHANGED <<agents, archived, torn>> /\ owed' = <<>> /\ mat' = Recovering(log')
      /\ sessions' \subseteq sessions /\ adrift \subseteq adrift'
      /\ \A n \in durable' + 1..Len(log) : log[n].who \in adrift'
  BY DEF Crash
<1>3. mat'.step \in {"none", "decided"} /\ mat'.todo = {}
  BY <1>2 DEF Recovering, Decided, NotRewinding
<1>4. ASSUME mat.step # "none" PROVE mat'.step = "decided" /\ mat'.scope = mat.scope
  <2>1. PICK n \in Resets : log[n].scope = mat.scope /\ \A k \in Resets : k <= n
    BY <1>4 DEF TypeInv, RecordInv, MatInv
  <2> QED
    BY <1>3, <2>1, RecoveringIs
<1>5. Steady' => Steady
  BY <1>2, <1>4 DEF Steady
<1>6. \A scope : BranchSame(scope)
  <2> SUFFICES ASSUME NEW scope PROVE BranchSame(scope)
    OBVIOUS
  <2>1. Now(scope)' = {n \in Now(scope) : n <= durable'}
    BY <1>1, BranchCut
  <2>2. \A n \in DOMAIN log' : n <= durable'
    BY <1>1 DEF CutBack
  <2> QED
    BY <2>1, <2>2 DEF BranchSame
<1>7. ASSUME NEW who, who \notin adrift'
      PROVE  /\ Births(who)' = Births(who) /\ Purgings(who)' = Purgings(who)
             /\ Archivals(who)' = Archivals(who)
             /\ Spawns(who)' = Spawns(who) /\ Ends(who)' = Ends(who)
  <2>1. \A n \in DOMAIN log : log[n].who = who => n \in 1..durable'
    <3>1. DOMAIN log = 1..Len(log) /\ Len(log) \in Nat /\ durable \in Nat
      BY <1>1, LogIsWellFormed
    <3>2. \A n \in DOMAIN log : n \in 1..durable' \/ n \in durable' + 1..Len(log)
      BY <1>1, <3>1
    <3> QED
      BY <1>2, <1>7, <3>2
  <2>2. ASSUME NEW kind PROVE Those(kind, who, DOMAIN log)' = Those(kind, who, DOMAIN log)
    BY <1>1, <2>1 DEF CutBack, Those
  <2> QED
    BY <2>2 DEF Births, Purgings, Archivals, Spawns, Ends
<1>8. ASSUME NEW x \in Agents \ adrift' PROVE AgentStands(x)'
  <2>1. AgentStands(x) /\ (IsThrough(x)' => IsThrough(x))
    BY <1>2, <1>3, <1>5, <1>8 DEF RosterStands, IsThrough
  <2> QED
    BY <1>2, <1>5, <1>6, <1>7, <1>8, <2>1, AgentKept
<1>9. ASSUME NEW s \in Spawned \ adrift' PROVE SessionStands(s)'
  <2>1. SessionKnown(s) /\ SessionPlaced(s)
    BY <1>2, <1>9 DEF RosterStands, SessionStands
  <2>2. Spawns(s)' = Spawns(s) /\ Ends(s)' = Ends(s)
    BY <1>7, <1>9
  <2>3. ~OwedEnd(s)' /\ (Rewinding(s) => Rewinding(s)')
    BY <1>2, <1>4 DEF OwedEnd, Rewinding, Range
  <2>4. SessionKnown(s)'
    BY <1>1, <1>2, <2>1, <2>2, <2>3, SessionKnownKept
  <2>5. SessionPlaced(s)'
    BY <1>1, <1>2, <1>3, <1>5, <1>6, <1>7, <2>1, <2>2, <2>3, SessionPlacedKept
  <2> QED
    BY <2>4, <2>5 DEF SessionStands
<1>10. ASSUME NEW s \in Spawned PROVE OwnerStands(s)'
  <2>1. OwnerStands(s)
    BY DEF RosterStands
  <2>2. Owner(s) \notin adrift' =>
          Owner(s) \notin adrift /\ Purgings(Owner(s)) \subseteq Purgings(Owner(s))'
    BY <1>2, <1>7
  <2> QED
    BY <1>1, <1>2, <2>1, <2>2, OwnerKept
<1>11. Phase'
  BY <1>3 DEF Phase
<1> QED
  BY <1>8, <1>9, <1>10, <1>11 DEF RosterStands

LEMMA RosterStep ==
  ASSUME RosterInv, NamesOnce, [Next]_vars
  PROVE  RosterInv'
<1>1. /\ TypeInv /\ TopologyInv'
      /\ swept = 0 => RosterStands /\ TopologiesStand /\ floor = 1
  BY TopologyStep DEF RosterInv, TopologyInv, TopologiesStand
<1>2. ASSUME NEW f \in 2..Len(log), Truncate(f) PROVE RosterInv'
  <2>1. swept' # 0
    BY <1>2 DEF Truncate
  <2> QED
    BY <1>1, <2>1 DEF RosterInv
<1> DEFINE Good == swept' = swept /\ (swept = 0 => RosterStands')
<1>3. ASSUME NEW x \in Agents,
             CreateAgent(x) \/ ArchiveAgent(x) \/ PurgeAgent(x) \/ MaterialiseAgent(x)
      PROVE  Good
  <2>1. swept' = swept
    BY <1>3 DEF CreateAgent, ArchiveAgent, PurgeAgent, MaterialiseAgent, ghost
  <2> QED
    BY <1>1, <1>3, <2>1, RosterCreates, RosterArchives, RosterPurges, RosterMaterialises
<1>4. ASSUME NEW s \in Spawned, SpawnSession(s) \/ RemoveSession(s)
      PROVE  Good
  <2>1. swept' = swept
    BY <1>4 DEF SpawnSession, RemoveSession, ghost
  <2> QED
    BY <1>1, <1>4, <2>1, RosterSpawns, RosterRemoves
<1>5. ASSUME NEW t \in Topologies, ChangeTopology(t)
      PROVE  Good
  <2>1. PICK members \in SUBSET Agents : DrawTopology(t, members)
    BY <1>1, <1>5, TopologyIsDrawn
  <2>2. swept' = swept
    BY <2>1 DEF DrawTopology
  <2> QED
    BY <1>1, <2>1, <2>2, RosterDraws
<1>6. ASSUME NEW n \in DOMAIN log, NEW scope \in B!Scopes, Checkout(n, scope)
      PROVE  Good
  <2>1. swept' = swept
    BY <1>6 DEF Checkout
  <2> QED
    BY <1>1, <1>6, <2>1, RosterAtCheckout
<1>7. PayOwed => Good
  <2> SUFFICES ASSUME PayOwed PROVE Good
    OBVIOUS
  <2>1. swept' = swept
    BY DEF PayOwed, ghost
  <2> QED
    BY <1>1, <2>1, RosterPays
<1>8. SweepAgent \/ SweepTopologies => Good
  <2> SUFFICES ASSUME SweepAgent \/ SweepTopologies PROVE Good
    OBVIOUS
  <2>1. owed # <<>> /\ Head(owed).kind \in {"sweep", "cascade"} /\ swept' = swept
    BY DEF SweepAgent, SweepTopologies, ghost
  <2>2. Head(owed) \in Range(owed)
    BY <1>1, <2>1, RangeHeadTail DEF TypeInv, RecordInv
  <2> QED
    BY <1>1, <2>1, <2>2 DEF TopologiesStand, NoSweeps
<1>9. RewriteWal => Good
  <2> SUFFICES ASSUME RewriteWal PROVE Good
    OBVIOUS
  <2>1. floorDue > 0 /\ swept' = swept
    BY DEF RewriteWal, ghost
  <2> QED
    BY <1>1, <2>1 DEF TopologiesStand
<1>10. ASSUME UNCHANGED <<log, agents, archived, sessions, owed, adrift, swept>>,
              \/ UNCHANGED <<mat, torn>>
              \/ mat' = NotRewinding /\ torn'
       PROVE  Good
  BY <1>1, <1>10, RosterUnmoved
<1>11. ASSUME NEW r \in Registries, ChangeConfig(r)
       PROVE  Good
  BY <1>10, <1>11 DEF ChangeConfig
<1>12. MaterialisingRaises => Good
  BY <1>10 DEF MaterialisingRaises, wal, files
<1>13. Rematerialise \/ RevivingRaises \/ MaterialiseRest \/ MaterialiseSession => Good
  <2> SUFFICES ASSUME Rematerialise \/ RevivingRaises \/ MaterialiseRest \/ MaterialiseSession
               PROVE  Good
    OBVIOUS
  <2>1. swept' = swept
    BY DEF Rematerialise, RevivingRaises, MaterialiseRest, MaterialiseSession, ghost
  <2> QED
    BY <1>1, <2>1, RosterRevives, RosterHalfRevived, RosterRebuilt, RosterResets
<1>14. Crash => Good
  <2> SUFFICES ASSUME Crash PROVE Good
    OBVIOUS
  <2>1. swept' = swept
    BY DEF Crash
  <2> QED
    BY <1>1, <2>1, RosterAfterDeath
<1>15. UNCHANGED vars => Good
  BY <1>10 DEF vars, wal, files, ghost
<1> HIDE DEF Good
<1>16. Good \/ \E f \in 2..Len(log) : Truncate(f)
  BY <1>3, <1>4, <1>5, <1>6, <1>7, <1>8, <1>9, <1>11, <1>12, <1>13, <1>14, <1>15, Zenon DEF Next
<1>17. Good => RosterInv'
  BY <1>1 DEF Good, RosterInv
<1> QED
  BY <1>2, <1>16, <1>17

LEMMA RosterAtFirst ==
  ASSUME Init
  PROVE  RosterInv
<1>1. TopologyInv
  BY TopologiesAtFirst
<1>2. /\ log = <<>> /\ agents = {} /\ sessions = {} /\ owed = <<>> /\ mat = NotRewinding
      /\ archived = [x \in Agents |-> NoMarker]
  BY DEF Init
<1>3. \A who : /\ Births(who) = {} /\ Purgings(who) = {} /\ Archivals(who) = {}
               /\ Spawns(who) = {} /\ Ends(who) = {}
  BY <1>2 DEF Births, Purgings, Archivals, Spawns, Ends, Those
<1>4. Resets = {}
  BY <1>2 DEF Resets
<1>5. ASSUME NEW x \in Agents PROVE AgentStands(x)
  BY <1>2, <1>3 DEF AgentStands, AgentKnown, AgentFollows, AgentShown, Meets
<1>6. ASSUME NEW s \in Spawned PROVE SessionStands(s) /\ OwnerStands(s)
  <2>1. ~Held(s) /\ ~OwedEnd(s)
    BY <1>2, <1>4 DEF Held, OwedEnd, Range
  <2> QED
    BY <1>2, <1>3, <2>1 DEF SessionStands, SessionKnown, SessionPlaced, OwnerStands
<1>7. Phase
  BY <1>2 DEF Phase, NotRewinding
<1> QED
  BY <1>1, <1>5, <1>6, <1>7 DEF RosterInv, RosterStands

\* Which birth a purge ended, when there is only one.
LEMMA TheOneIsPurged ==
  ASSUME LogInv, NEW x, NEW n \in Births(x), \A m \in Births(x) : m = n,
         NEW p \in Purgings(x), n < p
  PROVE  n = PurgedBy(x, p)
<1> DEFINE made == Those("created", x, Way(log, GLOBAL_SCOPE)[p])
           ever == Those("created", x, 1..p)
<1>1. p \in 1..Len(log) /\ Len(log) \in Nat /\ DOMAIN log = 1..Len(log) /\ WellFormed(log)
  BY LogIsWellFormed DEF Purgings, Those
<1>2. Way(log, GLOBAL_SCOPE)[p] \subseteq 1..p
  BY <1>1, LineageFacts
<1>3. made \subseteq {n} /\ ever = {n}
  BY <1>1, <1>2 DEF Births, Those
<1>4. PurgedBy(x, p) = Latest(IF made # {} THEN made ELSE ever)
  BY DEF PurgedBy, Way
<1>5. Latest({n}) = n
  <2>1. n \in Nat \ {0}
    BY <1>1 DEF Births, Those
  <2> QED
    BY <2>1, LatestUnique
<1> QED
  BY <1>3, <1>4, <1>5

LEMMA AgentsAreDue ==
  ASSUME LogInv, NEW x, AgentKnown(x), AgentFollows(x)
  PROVE  x \in agents <=> AgentIsDue(x)
<1>1. \A n : n \in Those("created", x, Now(GLOBAL_SCOPE)) <=> n \in Births(x) \cap Now(GLOBAL_SCOPE)
  BY NowIs, LogIsWellFormed DEF Births, Those
<1>2. AgentIsDue(x) <=> \E n \in Births(x) \cap Now(GLOBAL_SCOPE) :
                          \A p \in Purgings(x) : n # PurgedBy(x, p)
  BY <1>1 DEF AgentIsDue, Purgings
<1>3. \A n \in Births(x), p \in Purgings(x) : n = PurgedBy(x, p)
  BY TheOneIsPurged DEF AgentKnown
<1> QED
  BY <1>2, <1>3 DEF AgentFollows, Meets

LEMMA ArchivalsAreShown ==
  ASSUME LogInv, NEW x \in agents, AgentKnown(x), AgentFollows(x), AgentShown(x)
  PROVE  archived[x] # NoMarker <=> ArchivalIsDue(x)
<1> DEFINE now   == Now(GLOBAL_SCOPE)
           born  == Births(x) \cap now
           filed == Archivals(x) \cap now
<1>1. Those("created", x, now) = born /\ Those("archived", x, now) = filed
  BY NowIs, LogIsWellFormed DEF Births, Archivals, Those
<1>2. born \in SUBSET DOMAIN log /\ filed \in SUBSET DOMAIN log
  BY DEF Births, Archivals, Those
<1>3. Latest(born) \in born /\ (filed # {} => Latest(filed) \in filed) /\ (Latest(filed) = 0 <=> filed = {})
  BY <1>2, ScanFinds DEF AgentFollows, Meets
<1>4. Latest(born) \in Nat \ {0}
  BY <1>2, <1>3, LogIsWellFormed
<1>5. \A a \in filed : Latest(born) < a
  BY <1>3 DEF AgentKnown
<1>6. ArchivalIsDue(x) <=> Latest(filed) > Latest(born)
  BY <1>1 DEF ArchivalIsDue
<1>7. archived[x] # NoMarker <=> filed # {}
  BY DEF AgentShown, Meets
<1> HIDE DEF now, born, filed
<1>8. Latest(filed) \in Nat
  BY <1>2, ScanFinds, LogIsWellFormed
<1> QED
  BY <1>3, <1>4, <1>5, <1>6, <1>7, <1>8

LEMMA SessionsAreDue ==
  ASSUME LogInv, NEW s \in sessions, SessionKnown(s), Meets(Spawns(s), s)
  PROVE  SessionIsDue(s)
<1> DEFINE begun == Spawns(s) \cap Now(s)
           ended == Ends(s) \cap Now(s)
<1>1. Those("spawned", s, Now(s)) = begun /\ Those("vanished", s, Now(s)) = ended
  BY NowIs, LogIsWellFormed DEF Spawns, Ends, Those
<1>2. begun \in SUBSET DOMAIN log /\ begun # {} /\ ended = {}
  BY DEF Spawns, Those, SessionKnown, Meets
<1>3. Latest(begun) \in 1..Len(log)
  BY <1>2, ScanFinds, LogIsWellFormed
<1>4. Latest(ended) = 0
  BY <1>2 DEF Latest
<1> HIDE DEF begun, ended
<1>5. SessionIsDue(s) <=> Latest(begun) > Latest(ended)
  BY <1>1 DEF SessionIsDue
<1> QED
  BY <1>3, <1>4, <1>5, LogIsWellFormed

\* checkout, recover_rewind_if_needed: until the log is truncated, and with names used
\* once, there are the agents and archivals of the branch, and the sessions that are there
\* belong to it, after checkouts, resets, purges and deaths at any step.
THEOREM RosterIsKept == NamesOnce => (Spec => []RosterFollowsLineage)
<1> SUFFICES ASSUME NamesOnce PROVE Spec => []RosterFollowsLineage
  OBVIOUS
<1>1. RosterInv /\ [Next]_vars => RosterInv'
  BY RosterStep
<1>2. RosterInv => RosterFollowsLineage
  <2> SUFFICES ASSUME RosterInv, Settled, swept = 0 PROVE RosterFollowsLineage
    BY DEF RosterFollowsLineage
  <2>1. LogInv /\ RosterStands /\ Steady /\ mat.step = "none"
    BY DEF RosterInv, TopologyInv, TypeInv, RecordInv, Settled, Steady
  <2>2. ASSUME NEW x \in Agents \ adrift
        PROVE  /\ x \in agents <=> AgentIsDue(x)
               /\ x \in agents => (archived[x] # NoMarker <=> ArchivalIsDue(x))
    <3>1. AgentKnown(x) /\ AgentFollows(x) /\ AgentShown(x)
      BY <2>1 DEF RosterStands, AgentStands, IsThrough
    <3> QED
      BY <2>1, <3>1, AgentsAreDue, ArchivalsAreShown
  <2>3. ASSUME NEW s \in sessions \ adrift, Owner(s) \notin adrift
        PROVE  (SessionIsDue(s) /\ Owner(s) \in agents) \/ RemadeWithoutOwner(s)
    <3>1. s \in Spawned
      BY DEF RosterInv, TopologyInv, TypeInv, Typed, FilesTyped
    <3>2. /\ SessionKnown(s) /\ IsPlaced(s)
          /\ Owner(s) \in agents \/ RemadeWithoutOwner(s)
      BY <2>1, <2>3, <3>1
         DEF RosterStands, SessionStands, SessionPlaced, OwnerStands, Rewinding
    <3> QED
      BY <2>1, <3>2, SessionsAreDue DEF IsPlaced
  <2> QED
    BY <2>2, <2>3 DEF RosterFollowsLineage
<1> QED
  BY <1>1, <1>2, RosterAtFirst, PTL DEF Spec

----------------------------------------------------------------------------
(* What a rebuild removes, whatever was truncated, when names are used once. *)

\* An agent is made before it is purged, and is recorded unless that was lost.
AgentOnce(x) ==
  /\ \A m, n \in Births(x) : m = n
  /\ \A n \in Births(x), p \in Purgings(x) : n < p
  /\ x \notin adrift /\ (x \in agents \/ Purgings(x) # {}) => Births(x) # {}

\* The session was there once: it is, its end is still to be recorded, or its reset.
Begun(s) == s \in sessions \/ OwedEnd(s) \/ Held(s)

SessionOnce(s) ==
  /\ \A m, n \in Spawns(s) : m = n
  /\ \A n \in Spawns(s), v \in Ends(s) : n < v
  /\ s \notin adrift /\ (Begun(s) \/ Ends(s) # {}) => Spawns(s) # {}

OnceStands ==
  /\ crashes \in Nat
  /\ mat.step # "agents" => mat.todo = {} /\ mat.purges = {}
  /\ \A x \in Agents : AgentOnce(x)
  /\ \A s \in Spawned : SessionOnce(s)
  /\ \A s \in mat.purges : ~SessionIsDue(s)

OnceInv == TypeInv /\ OnceStands

LEMMA ScanIsPart ==
  \A kind, who : InWal(kind, who) \in SUBSET Those(kind, who, DOMAIN log)
BY DEF InWal, Those

\* The last record found, if one is, is one there is.
LEMMA ScanFindsOne ==
  ASSUME LogInv, NEW kind, NEW who
  PROVE  LET n == Latest(InWal(kind, who))
         IN n # 0 => n \in Those(kind, who, DOMAIN log) /\ n \in 1..Len(log)
<1>1. InWal(kind, who) \in SUBSET Those(kind, who, DOMAIN log)
  BY ScanIsPart
<1>2. InWal(kind, who) \in SUBSET DOMAIN log
  BY <1>1 DEF Those
<1> QED
  BY <1>1, <1>2, ScanFinds, LogIsWellFormed

LEMMA DoomedIsNotDue ==
  ASSUME LogInv, NEW x, AgentOnce(x), Doomed(x)
  PROVE  ~AgentIsDue(x)
<1>1. ASSUME NEW n \in Births(x) \cap Now(GLOBAL_SCOPE), NEW p \in Purgings(x)
      PROVE  n = PurgedBy(x, p)
  BY TheOneIsPurged DEF AgentOnce
<1>2. CASE Purged(x)
  <2>1. Purgings(x) # {}
    BY <1>2, ScanIsPart DEF Purged, Purgings
  <2>2. \A n \in Those("created", x, Now(GLOBAL_SCOPE)) : n \in Births(x) \cap Now(GLOBAL_SCOPE)
    BY NowIs, LogIsWellFormed DEF Births, Those
  <2> QED
    BY <1>1, <2>1, <2>2 DEF AgentIsDue, Purgings
<1>3. CASE CreatedAt(x) # 0 /\ ~Active(CreatedAt(x), GLOBAL_SCOPE)
  <2>1. CreatedAt(x) \in Births(x) /\ CreatedAt(x) \in 1..Len(log)
    BY <1>3, ScanFindsOne DEF CreatedAt, Births
  <2>2. CreatedAt(x) \notin Now(GLOBAL_SCOPE)
    BY <1>3, <2>1, NowIs
  <2>3. \A n \in Those("created", x, Now(GLOBAL_SCOPE)) : n \in Births(x) \cap Now(GLOBAL_SCOPE)
    BY NowIs, LogIsWellFormed DEF Births, Those
  <2> QED
    BY <2>1, <2>2, <2>3 DEF AgentOnce, AgentIsDue
<1> QED
  BY <1>2, <1>3 DEF Doomed

LEMMA GoneIsNotDue ==
  ASSUME LogInv, NEW s, SessionOnce(s), Gone(s)
  PROVE  ~SessionIsDue(s)
<1> DEFINE begun == Those("spawned", s, Now(s))
           ended == Those("vanished", s, Now(s))
<1>1. begun = Spawns(s) \cap Now(s) /\ ended = Ends(s) \cap Now(s)
  BY NowIs, LogIsWellFormed DEF Spawns, Ends, Those
<1>2. begun \in SUBSET DOMAIN log /\ ended \in SUBSET DOMAIN log
  BY <1>1 DEF Spawns, Ends, Those
<1>3. /\ Latest(begun) \in Nat /\ Latest(ended) \in Nat
      /\ begun # {} => Latest(begun) \in begun
      /\ Latest(begun) = 0 <=> begun = {}
      /\ \A n \in ended : n <= Latest(ended)
  BY <1>2, ScanFinds, LogIsWellFormed
<1>4. SessionIsDue(s) <=> Latest(begun) > Latest(ended)
  BY DEF SessionIsDue
<1> HIDE DEF begun, ended
<1>5. CASE SpawnedAt(s) # 0 /\ ~Active(SpawnedAt(s), s)
  <2>1. SpawnedAt(s) \in Spawns(s) /\ SpawnedAt(s) \in 1..Len(log)
    BY <1>5, ScanFindsOne DEF SpawnedAt, Spawns
  <2>2. SpawnedAt(s) \notin Now(s)
    BY <1>5, <2>1, NowIs
  <2>3. begun = {}
    BY <1>1, <2>1, <2>2 DEF SessionOnce
  <2> QED
    BY <1>3, <1>4, <2>3
<1>6. CASE VanishedAt(s) # 0 /\ Active(VanishedAt(s), s)
  <2>1. VanishedAt(s) \in Ends(s) /\ VanishedAt(s) \in 1..Len(log)
    BY <1>6, ScanFindsOne DEF VanishedAt, Ends
  <2>2. VanishedAt(s) \in ended
    BY <1>1, <1>6, <2>1, NowIs
  <2>3. \A n \in begun : n < VanishedAt(s) /\ n \in Nat
    BY <1>1, <1>2, <2>1, LogIsWellFormed DEF SessionOnce
  <2> QED
    BY <1>3, <1>4, <2>1, <2>2, <2>3
<1> QED
  BY <1>5, <1>6 DEF Gone

\* What is not due does not become so but by a spawn.
LEMMA DueOnlyFades ==
  ASSUME LogInv, NEW e \in Entries, e.kind \notin {"rewind", "spawned"},
         NEW w \in durable..Len(log), Append1(e, w), NEW s, SessionIsDue(s)'
  PROVE  SessionIsDue(s)
<1> DEFINE next == Len(log) + 1
<1>1. LogInv' /\ Grew(e)
  BY RecordAppended
<1>2. Now(s)' = Now(s) \cup {next} /\ Now(s) \subseteq 1..Len(log) /\ Len(log) \in Nat
  BY <1>1, BranchGrows, NowIs, LogIsWellFormed
<1>3. log'[next] = e /\ \A n \in Now(s) : log'[n] = log[n]
  BY <1>1, <1>2 DEF Grew
<1>4. PICK begun : begun = Those("spawned", s, Now(s))
  OBVIOUS
<1>5. PICK ended : ended = Those("vanished", s, Now(s))
  OBVIOUS
<1>6. /\ begun \in SUBSET (Nat \ {0}) /\ ended \in SUBSET (Nat \ {0})
      /\ \A n \in begun \cup ended : n <= Len(log)
  BY <1>2, <1>4, <1>5 DEF Those
<1>7. begun = Those("spawned", s, Now(s))'
  BY <1>2, <1>3, <1>4 DEF Those
<1>8. PICK after : after = Those("vanished", s, Now(s))'
  OBVIOUS
<1>9. after \in {ended, ended \cup {next}}
  BY <1>2, <1>3, <1>5, <1>8 DEF Those
<1>10. Latest(begun) \in Nat /\ Latest(begun) <= Len(log)
  BY <1>2, <1>6, LatestIs
<1>11. next \in Nat /\ Latest(ended \cup {next}) = next
  BY <1>2, <1>6, LatestUnique
<1>12. Latest(Those("spawned", s, Now(s)))' = Latest(begun)
  BY <1>7 DEF Latest
<1>13. Latest(Those("vanished", s, Now(s)))' = Latest(after)
  BY <1>8 DEF Latest
<1>14. Latest(begun) > Latest(after)
  BY <1>12, <1>13 DEF SessionIsDue
<1>15. after # ended \cup {next}
  <2> SUFFICES ASSUME after = ended \cup {next} PROVE FALSE
    OBVIOUS
  <2>1. Latest(after) = next
    BY <1>11
  <2> HIDE DEF next
  <2>2. ~(Latest(begun) > next)
    BY <1>2, <1>10 DEF next
  <2> QED
    BY <1>14, <2>1, <2>2
<1>16. Latest(begun) > Latest(ended)
  BY <1>9, <1>14, <1>15
<1> QED
  BY <1>4, <1>5, <1>16 DEF SessionIsDue

\* Nothing is recorded, and nothing is there that was not.
LEMMA OnceQuiet ==
  ASSUME OnceStands, log' = log, UNCHANGED <<adrift, crashes>>,
         \A x \in agents' : x \in agents \/ Births(x) # {},
         \A s \in Spawned : Begun(s)' => Begun(s),
         mat'.step # "agents" => mat'.todo = {} /\ mat'.purges = {},
         \A s \in mat'.purges : s \in mat.purges \/ ~SessionIsDue(s)
  PROVE  OnceStands'
<1>1. \A who : /\ Births(who)' = Births(who) /\ Purgings(who)' = Purgings(who)
               /\ Spawns(who)' = Spawns(who) /\ Ends(who)' = Ends(who)
  BY BranchUnmoved
<1>2. ASSUME NEW x \in Agents PROVE AgentOnce(x)'
  <2>1. AgentOnce(x)
    BY DEF OnceStands
  <2> QED
    BY <1>1, <2>1 DEF AgentOnce
<1>3. ASSUME NEW s \in Spawned PROVE SessionOnce(s)'
  <2>1. SessionOnce(s)
    BY DEF OnceStands
  <2> QED
    BY <1>1, <2>1 DEF SessionOnce
<1>4. ASSUME NEW s PROVE SessionIsDue(s)' <=> SessionIsDue(s)
  BY DEF SessionIsDue, Those, Now
<1>5. \A s \in mat'.purges : ~SessionIsDue(s)'
  BY <1>4 DEF OnceStands
<1> QED
  BY <1>2, <1>3, <1>5 DEF OnceStands

\* A record is appended: of a creation or a spawn the first, of an end behind it.
LEMMA OnceRecorded ==
  ASSUME TypeInv, OnceStands, NEW e \in Entries, e.kind # "rewind",
         NEW w \in durable..Len(log), Append1(e, w), UNCHANGED <<mat, crashes>>,
         \A q \in Agents \cup Spawned : q \in adrift' <=> q \in adrift,
         \A x \in Agents :
           /\ e = Record("created", x) => x \notin adrift /\ Births(x) = {}
           /\ e = Record("purged", x) => x \in agents
           /\ x \in agents' => x \in agents \/ e = Record("created", x),
         \A s \in Spawned :
           /\ e = Record("spawned", s) => s \notin adrift /\ Spawns(s) = {}
           /\ e = Record("vanished", s) => Begun(s)
           /\ Begun(s)' => Begun(s) \/ e = Record("spawned", s),
         mat.step # "none" => e.kind # "spawned"
  PROVE  OnceStands'
<1> DEFINE next == Len(log) + 1
<1>1. LogInv
  BY DEF TypeInv, RecordInv
<1>2. RecordsAdded(e) /\ \A n \in DOMAIN log : n < next
  BY <1>1, AfterRecord
<1>3. /\ e.kind \in {"created", "purged"} => e.who \in Agents
      /\ e.kind \in {"spawned", "vanished"} => e.who \in Spawned
      /\ e.kind \in {"created", "purged", "spawned", "vanished"} => e = Record(e.kind, e.who)
  BY DEF Entries, Owing, Record
<1>4. ASSUME NEW x \in Agents PROVE AgentOnce(x)'
  <2>1. /\ Births(x)' = Births(x) \cup Added(e, "created", x)
        /\ Purgings(x)' = Purgings(x) \cup Added(e, "purged", x)
    BY <1>2 DEF RecordsAdded
  <2>2. AgentOnce(x) /\ (x \in adrift' <=> x \in adrift)
    BY DEF OnceStands
  <2>3. Births(x) \in SUBSET DOMAIN log /\ Purgings(x) \in SUBSET DOMAIN log
    BY DEF Births, Purgings, Those
  <2>4. CASE e = Record("created", x)
    <3>1. Births(x) = {} /\ Purgings(x) = {} /\ x \notin adrift
      BY <2>2, <2>4 DEF AgentOnce
    <3>2. Births(x)' = {next} /\ Purgings(x)' = {}
      BY <2>1, <2>4, <3>1 DEF Added, Record
    <3> QED
      BY <3>2 DEF AgentOnce
  <2>5. CASE e = Record("purged", x)
    <3>1. Births(x)' = Births(x) /\ Purgings(x)' = Purgings(x) \cup {next}
      BY <2>1, <2>5 DEF Added, Record
    <3>2. x \notin adrift => Births(x) # {}
      BY <2>2, <2>5 DEF AgentOnce
    <3>3. \A n \in Births(x) : n < next
      BY <1>2, <2>3
    <3> HIDE DEF next
    <3> QED
      BY <2>2, <3>1, <3>2, <3>3 DEF AgentOnce
  <2>6. CASE e # Record("created", x) /\ e # Record("purged", x)
    <3>1. Births(x)' = Births(x) /\ Purgings(x)' = Purgings(x)
      BY <1>3, <2>1, <2>6 DEF Added
    <3> QED
      BY <2>2, <2>6, <3>1 DEF AgentOnce
  <2> QED
    BY <2>4, <2>5, <2>6
<1>5. ASSUME NEW s \in Spawned PROVE SessionOnce(s)'
  <2>1. /\ Spawns(s)' = Spawns(s) \cup Added(e, "spawned", s)
        /\ Ends(s)' = Ends(s) \cup Added(e, "vanished", s)
    BY <1>2 DEF RecordsAdded
  <2>2. SessionOnce(s) /\ (s \in adrift' <=> s \in adrift)
    BY DEF OnceStands
  <2>3. Spawns(s) \in SUBSET DOMAIN log /\ Ends(s) \in SUBSET DOMAIN log
    BY DEF Spawns, Ends, Those
  <2>4. CASE e = Record("spawned", s)
    <3>1. Spawns(s) = {} /\ Ends(s) = {} /\ s \notin adrift
      BY <2>2, <2>4 DEF SessionOnce
    <3>2. Spawns(s)' = {next} /\ Ends(s)' = {}
      BY <2>1, <2>4, <3>1 DEF Added, Record
    <3> QED
      BY <3>2 DEF SessionOnce
  <2>5. CASE e = Record("vanished", s)
    <3>1. Spawns(s)' = Spawns(s) /\ Ends(s)' = Ends(s) \cup {next}
      BY <2>1, <2>5 DEF Added, Record
    <3>2. s \notin adrift => Spawns(s) # {}
      BY <2>2, <2>5 DEF SessionOnce
    <3>3. \A n \in Spawns(s) : n < next
      BY <1>2, <2>3
    <3> HIDE DEF next
    <3> QED
      BY <2>2, <3>1, <3>2, <3>3 DEF SessionOnce
  <2>6. CASE e # Record("spawned", s) /\ e # Record("vanished", s)
    <3>1. Spawns(s)' = Spawns(s) /\ Ends(s)' = Ends(s)
      BY <1>3, <2>1, <2>6 DEF Added
    <3> QED
      BY <2>2, <2>6, <3>1 DEF SessionOnce
  <2> QED
    BY <2>4, <2>5, <2>6
<1>6. \A s \in mat'.purges : ~SessionIsDue(s)'
  <2> SUFFICES ASSUME NEW s \in mat.purges PROVE ~SessionIsDue(s)'
    OBVIOUS
  <2>1. ~SessionIsDue(s) /\ e.kind # "spawned"
    BY DEF OnceStands
  <2> QED
    BY <1>1, <2>1, DueOnlyFades
<1>7. crashes' \in Nat /\ (mat'.step # "agents" => mat'.todo = {} /\ mat'.purges = {})
  BY DEF OnceStands
<1> QED
  BY <1>4, <1>5, <1>6, <1>7 DEF OnceStands

LEMMA NoNumberBehind ==
  ASSUME TypeInv
  PROVE  LogInv /\ durable \in durable..Len(log) /\ Len(log) \in durable..Len(log)
BY LogIsWellFormed DEF TypeInv, RecordInv, LogInv

\* The kinds of records an operation appends are not mistaken for one another.
LEMMA RecordsDiffer ==
  /\ \A k1, k2, q1, q2 : Record(k1, q1) = Record(k2, q2) => k1 = k2 /\ q1 = q2
  /\ \A k, q : Record(k, q).kind = k /\ Record(k, q).who = q
BY DEF Record

\* create_agent.
LEMMA OnceCreates ==
  ASSUME TypeInv, OnceStands, NamesOnce, NEW x \in Agents, CreateAgent(x)
  PROVE  OnceStands'
<1> DEFINE e == Record("created", x)
<1>1. /\ agents' = agents \cup {x} /\ Append1(e, durable) /\ NeverYet("created", x)
      /\ mat.step = "none" /\ UNCHANGED <<sessions, owed, mat, adrift, crashes>>
  BY DEF CreateAgent, Working, ghost
<1>2. e \in Entries /\ e.kind = "created"
  BY RecordFields
<1>3. x \notin adrift /\ Births(x) = {}
  BY <1>1, NoNumberBehind, NotYetIs DEF Births
<1>4. ResetsSame
  BY <1>1, <1>2, NoNumberBehind, AfterRecord
<1>5. \A s \in Spawned : Begun(s)' => Begun(s)
  BY <1>1, <1>4, HeldKept DEF Begun, OwedEnd
<1>6. \A y \in Agents : /\ e = Record("created", y) => y = x
                        /\ e # Record("purged", y)
                        /\ y \in agents' => y \in agents \/ e = Record("created", y)
  BY <1>1, RecordsDiffer
<1>7. \A s \in Spawned : e # Record("spawned", s) /\ e # Record("vanished", s)
  BY RecordsDiffer
<1> HIDE DEF e
<1> QED
  BY <1>1, <1>2, <1>3, <1>5, <1>6, <1>7, NoNumberBehind, OnceRecorded

\* archive_agent.
LEMMA OnceArchives ==
  ASSUME TypeInv, OnceStands, NEW x \in Agents, ArchiveAgent(x)
  PROVE  OnceStands'
<1> DEFINE e == Record("archived", x)
<1>1. PICK known \in durable..Len(log) : Append1(e, known)
  BY DEF ArchiveAgent
<1>2. mat.step = "none" /\ UNCHANGED <<agents, sessions, owed, mat, adrift, crashes>>
  BY DEF ArchiveAgent, Working, ghost
<1>3. e \in Entries /\ e.kind = "archived"
  BY RecordFields
<1>4. ResetsSame
  BY <1>1, <1>3, NoNumberBehind, AfterRecord
<1>5. \A s \in Spawned : Begun(s)' => Begun(s)
  BY <1>2, <1>4, HeldKept DEF Begun, OwedEnd
<1>6. \A q : e \notin {Record("created", q), Record("purged", q), Record("spawned", q),
                       Record("vanished", q)}
  BY RecordsDiffer
<1> HIDE DEF e
<1> QED
  BY <1>1, <1>2, <1>3, <1>5, <1>6, NoNumberBehind, OnceRecorded

\* archive_agent(purge=True).
LEMMA OncePurges ==
  ASSUME TypeInv, OnceStands, NEW x \in Agents, PurgeAgent(x)
  PROVE  OnceStands'
<1> DEFINE e == Record("purged", x)
<1>1. /\ x \in agents /\ mat.step = "none" /\ agents' = agents \ {x}
      /\ sessions' = sessions \ Of(x) /\ Append1(e, durable)
      /\ UNCHANGED <<mat, adrift, crashes>>
  BY DEF PurgeAgent, Working, RemoveDirectory, ghost
<1>2. e \in Entries /\ e.kind = "purged"
  BY RecordFields
<1>3. \A s : OwedEnd(s)' => s \in Of(x) \cap sessions
  BY PurgeOwes DEF OwedEnd, Record, Drawn
<1>4. ResetsSame
  BY <1>1, <1>2, NoNumberBehind, AfterRecord
<1>5. \A s \in Spawned : Begun(s)' => Begun(s)
  BY <1>1, <1>3, <1>4, HeldKept DEF Begun
<1>6. \A q : e \notin {Record("created", q), Record("spawned", q), Record("vanished", q)}
  BY RecordsDiffer
<1>7. \A y \in Agents : (e = Record("purged", y) => y \in agents) /\ (y \in agents' => y \in agents)
  BY <1>1, RecordsDiffer
<1> HIDE DEF e
<1> QED
  BY <1>1, <1>2, <1>5, <1>6, <1>7, NoNumberBehind, OnceRecorded

\* spawn_session_recorded.
LEMMA OnceSpawns ==
  ASSUME TypeInv, OnceStands, NamesOnce, NEW s \in Spawned, SpawnSession(s)
  PROVE  OnceStands'
<1> DEFINE e == Record("spawned", s)
<1>1. /\ sessions' = sessions \cup {s} /\ Append1(e, durable) /\ NeverYet("spawned", s)
      /\ mat.step = "none" /\ UNCHANGED <<agents, owed, mat, adrift, crashes>>
  BY DEF SpawnSession, Working, ghost
<1>2. e \in Entries /\ e.kind = "spawned"
  BY RecordFields, RecordsDiffer
<1>3. s \notin adrift /\ Spawns(s) = {}
  BY <1>1, NoNumberBehind, NotYetIs DEF Spawns
<1>4. ResetsSame
  BY <1>1, <1>2, NoNumberBehind, AfterRecord
<1>5. \A q \in Spawned : Begun(q)' => Begun(q) \/ e = Record("spawned", q)
  BY <1>1, <1>4, HeldKept DEF Begun, OwedEnd
<1>6. \A q : e \notin {Record("created", q), Record("purged", q), Record("vanished", q)}
  BY RecordsDiffer
<1>7. \A q \in Spawned : e = Record("spawned", q) => q = s
  BY RecordsDiffer
<1> HIDE DEF e
<1> QED
  BY <1>1, <1>2, <1>3, <1>5, <1>6, <1>7, NoNumberBehind, OnceRecorded

\* remove_session.
LEMMA OnceRemoves ==
  ASSUME TypeInv, OnceStands, NEW s \in Spawned, RemoveSession(s)
  PROVE  OnceStands'
<1> DEFINE e == Record("vanished", s)
<1>1. /\ s \in sessions /\ sessions' = sessions \ {s} /\ Append1(e, durable)
      /\ mat.step = "none" /\ UNCHANGED <<agents, owed, mat, adrift, crashes>>
  BY DEF RemoveSession, Working, ghost
<1>2. e \in Entries /\ e.kind = "vanished"
  BY RecordFields DEF Record
<1>3. ResetsSame
  BY <1>1, <1>2, NoNumberBehind, AfterRecord
<1>4. \A q \in Spawned : Begun(q)' => Begun(q)
  BY <1>1, <1>3, HeldKept DEF Begun, OwedEnd
<1>5. \A q : e \notin {Record("created", q), Record("purged", q), Record("spawned", q)}
  BY RecordsDiffer
<1>6. \A q \in Spawned : e = Record("vanished", q) => Begun(q)
  BY <1>1, RecordsDiffer DEF Begun
<1> HIDE DEF e
<1> QED
  BY <1>1, <1>2, <1>4, <1>5, <1>6, NoNumberBehind, OnceRecorded

\* A topology's record.
LEMMA OnceDraws ==
  ASSUME TypeInv, OnceStands, NEW t \in Topologies, NEW members \in SUBSET Agents,
         DrawTopology(t, members)
  PROVE  OnceStands'
<1> DEFINE e == Drawn(t, members)
<1>1. /\ mat.step = "none" /\ Append1(e, durable)
      /\ adrift' \in {adrift, adrift \cup {t}, adrift \ {t}}
      /\ UNCHANGED <<agents, sessions, owed, mat, crashes>>
  BY DEF DrawTopology, Working
<1>2. e \in Entries /\ e.kind = "topology"
  BY RecordFields DEF Drawn
<1>3. \A q \in Agents \cup Spawned : q \in adrift' <=> q \in adrift
  BY <1>1, LifecycleAssumption
<1>4. ResetsSame
  BY <1>1, <1>2, NoNumberBehind, AfterRecord
<1>5. \A s \in Spawned : Begun(s)' => Begun(s)
  BY <1>1, <1>4, HeldKept DEF Begun, OwedEnd
<1>6. \A q : e \notin {Record("created", q), Record("purged", q), Record("spawned", q),
                       Record("vanished", q)}
  BY <1>2, RecordsDiffer
<1> HIDE DEF e
<1> QED
  BY <1>1, <1>2, <1>3, <1>5, <1>6, NoNumberBehind, OnceRecorded

\* The next record of a removal.
LEMMA OncePays ==
  ASSUME TypeInv, OnceStands, PayOwed
  PROVE  OnceStands'
<1> DEFINE e == Head(owed)
<1>1. /\ owed # <<>> /\ e.kind \notin {"sweep", "cascade"} /\ Append1(e, Len(log))
      /\ owed' = Tail(owed) /\ UNCHANGED <<agents, sessions, mat, adrift, crashes>>
  BY DEF PayOwed, OnLoop, Sweeping, files, ghost
<1>2. e \in Owing /\ Range(owed) = {e} \cup Range(Tail(owed))
  BY <1>1, OwedIs, RangeHeadTail DEF TypeInv, RecordInv
<1>3. e \in Entries /\ e.kind \in {"vanished", "topology"}
  BY <1>1, <1>2, OwingFields DEF Owing
<1>4. \A s : (OwedEnd(s)' => OwedEnd(s)) /\ (e = Record("vanished", s) => OwedEnd(s))
  BY <1>1, <1>2 DEF OwedEnd
<1> HIDE DEF e
<1>5. ResetsSame
  BY <1>1, <1>3, NoNumberBehind, AfterRecord
<1>6. \A s \in Spawned : /\ Begun(s)' => Begun(s)
                         /\ e = Record("vanished", s) => Begun(s)
  BY <1>1, <1>4, <1>5, HeldKept DEF Begun
<1>7. \A q : e \notin {Record("created", q), Record("purged", q), Record("spawned", q)}
  BY <1>3, RecordsDiffer
<1> QED
  BY <1>1, <1>3, <1>6, <1>7, NoNumberBehind, OnceRecorded

\* truncate_wal_if_eligible owes no more than sweeps.
LEMMA OnceTruncates ==
  ASSUME TypeInv, OnceStands, NEW f \in 2..Len(log), Truncate(f)
  PROVE  OnceStands'
<1> DEFINE D == {a \in agents : archived[a] # NoMarker}
           S == {Record("sweep", x) : x \in D}
<1>1. /\ UNCHANGED <<log, agents, sessions, mat, adrift, crashes>> /\ owed' = InOrder(S)
  BY DEF Truncate
<1>2. IsFiniteSet(S)
  <2> DEFINE g == [x \in D |-> Record("sweep", x)]
  <2>1. D \subseteq Agents /\ IsFiniteSet(Agents)
    BY LifecycleAssumption DEF TypeInv, Typed, FilesTyped
  <2>2. IsFiniteSet(D)
    BY <2>1, FS_Subset
  <2>3. DOMAIN g = D /\ S = {g[x] : x \in D}
    OBVIOUS
  <2> HIDE DEF g, D, S
  <2> QED
    BY <2>2, <2>3, ImageIsFinite
<1>3. \A s : Record("vanished", s) \notin S
  BY RecordsDiffer
<1> HIDE DEF S
<1>4. \A s : ~OwedEnd(s)'
  BY <1>1, <1>2, <1>3, RangeInOrder DEF OwedEnd
<1>5. \A s \in Spawned : Begun(s)' => Begun(s)
  BY <1>1, <1>4, BranchUnmoved, HeldKept DEF Begun
<1> QED
  BY <1>1, <1>5, OnceQuiet DEF OnceStands

\* _purge_archived_below, one agent.
LEMMA OnceSweeps ==
  ASSUME TypeInv, OnceStands, SweepAgent
  PROVE  OnceStands'
<1> DEFINE x == Head(owed).who
           rest == Tail(owed)
<1>1. /\ owed # <<>> /\ UNCHANGED <<log, mat, adrift, crashes>>
      /\ \/ /\ agents' = agents \ {x} /\ sessions' = sessions \ Of(x)
            /\ owed' = Vanishing(x) \o <<Record("cascade", x)>> \o rest
         \/ UNCHANGED <<agents, sessions>> /\ owed' = rest
  BY DEF SweepAgent, RemoveDirectory, wal
<1>2. /\ Head(owed) \in Owing /\ rest \in Seq(Owing) /\ Range(owed) = {Head(owed)} \cup Range(rest)
      /\ Head(owed).kind = "sweep"
  BY <1>1, OwedIs, RangeHeadTail DEF TypeInv, RecordInv, SweepAgent
<1>3. x \in Agents
  BY <1>2, OwingFields
<1> HIDE DEF x, rest
<1>4. Range(Vanishing(x) \o <<Record("cascade", x)>> \o rest)
        = {Record("vanished", s) : s \in Of(x) \cap sessions} \cup {Record("cascade", x)} \cup Range(rest)
  <2> DEFINE a == Vanishing(x)
             b == <<Record("cascade", x)>>
             c == a \o b
  <2>1. a \in Seq(Owing) /\ Range(a) = {Record("vanished", s) : s \in Of(x) \cap sessions}
    BY VanishingIs, VanishingRange
  <2>2. b \in Seq(Owing) /\ Range(b) = {Record("cascade", x)}
    BY <1>3, RecordFields DEF Range
  <2> HIDE DEF a, b
  <2>3. c \in Seq(Owing) /\ Range(c) = Range(a) \cup Range(b)
    BY <2>1, <2>2, RangeOfBoth
  <2> HIDE DEF c
  <2>4. Range(c \o rest) = Range(c) \cup Range(rest)
    BY <1>2, <2>3, RangeOfBoth
  <2> QED
    BY <2>1, <2>2, <2>3, <2>4 DEF a, b, c
<1>5. \A s : OwedEnd(s)' => OwedEnd(s) \/ s \in sessions
  <2>1. \A s : Record("vanished", s) # Record("cascade", x)
    BY RecordsDiffer
  <2>2. \A s : Record("vanished", s) \in {Record("vanished", q) : q \in Of(x) \cap sessions} => s \in sessions
    BY RecordsDiffer
  <2> QED
    BY <1>1, <1>2, <1>4, <2>1, <2>2 DEF OwedEnd
<1>6. \A s \in Spawned : Begun(s)' => Begun(s)
  BY <1>1, <1>5, BranchUnmoved, HeldKept DEF Begun
<1> QED
  BY <1>1, <1>6, OnceQuiet DEF OnceStands

\* The topologies of an agent swept.
LEMMA OnceCascades ==
  ASSUME TypeInv, OnceStands, SweepTopologies
  PROVE  OnceStands'
<1>1. /\ owed # <<>> /\ UNCHANGED <<log, agents, sessions, mat, adrift, crashes>>
      /\ Cascade(Head(owed).who, <<>>, Tail(owed))
  BY DEF SweepTopologies, wal, ghost
<1>2. /\ Tail(owed) \in Seq(Owing) /\ <<>> \in Seq(Owing) /\ Range(<<>>) = {}
      /\ Range(owed) = {Head(owed)} \cup Range(Tail(owed))
  BY <1>1, OwedIs, RangeHeadTail DEF TypeInv, RecordInv, Range
<1>3. Range(owed') = Range(<<>>)
        \cup {Drawn(t, topologies'[t]) : t \in {u \in Topologies : Head(owed).who \in topologies[u]}}
        \cup Range(Tail(owed))
  BY <1>1, <1>2, CascadeOwes
<1>4. \A s : OwedEnd(s)' => OwedEnd(s)
  BY <1>2, <1>3 DEF OwedEnd, Record, Drawn
<1>5. \A s \in Spawned : Begun(s)' => Begun(s)
  BY <1>1, <1>4, BranchUnmoved, HeldKept DEF Begun
<1> QED
  BY <1>1, <1>5, OnceQuiet DEF OnceStands

\* checkout, up to the reset record.
LEMMA OnceAtCheckout ==
  ASSUME TypeInv, OnceStands, NEW n \in DOMAIN log, NEW scope \in B!Scopes,
         Checkout(n, scope)
  PROVE  OnceStands'
<1> DEFINE e == B!Rewound(n, scope)
           next == Len(log) + 1
<1>1. /\ Append1(e, next) /\ mat' = Decided(scope)
      /\ scope # GLOBAL_SCOPE => scope \in sessions
      /\ adrift' = adrift \cup {t \in Topologies : IsOwed(t)}
      /\ UNCHANGED <<agents, sessions, owed, crashes>>
  BY DEF Checkout, files
<1>2. /\ LogInv /\ LogInv' /\ Grew(e) /\ Resets' = Resets \cup {next}
      /\ \A r \in Resets : r < next
  BY <1>1, ResetAppended DEF TypeInv, RecordInv
<1>3. e.kind = "rewind" /\ e.scope = scope
  BY DEF B!Rewound
<1>4. mat'.todo = {} /\ mat'.purges = {}
  BY <1>1 DEF Decided, NotRewinding
<1> HIDE DEF e
<1>5. \A who : /\ Births(who)' = Births(who) /\ Purgings(who)' = Purgings(who)
               /\ Spawns(who)' = Spawns(who) /\ Ends(who)' = Ends(who)
  <2>1. RecordsAdded(e)
    BY <1>2, RecordsOnAppend
  <2> QED
    BY <1>3, <2>1 DEF RecordsAdded, Added
<1>6. log'[next] = e
  BY <1>2 DEF Grew
<1>7. \A q \in Agents \cup Spawned : q \in adrift' <=> q \in adrift
  BY <1>1, LifecycleAssumption
<1>8. ASSUME NEW s \in Spawned, Held(s)' PROVE s \in sessions
  <2>1. PICK r \in Resets' : log'[r].scope = s /\ \A k \in Resets' : k <= r
    BY <1>8 DEF Held
  <2>2. next \in Resets' /\ next <= r
    BY <1>2, <2>1
  <2>3. r = next
    BY <1>2, <2>1, <2>2, LogIsWellFormed
  <2>4. s = scope
    BY <1>3, <1>6, <2>1, <2>3
  <2> QED
    BY <1>1, <2>4, LifecycleAssumption
<1>9. \A s \in Spawned : Begun(s)' => Begun(s)
  BY <1>1, <1>8 DEF Begun, OwedEnd
<1>10. ASSUME NEW x \in Agents PROVE AgentOnce(x)'
  <2>1. AgentOnce(x)
    BY DEF OnceStands
  <2> QED
    BY <1>1, <1>5, <1>7, <2>1 DEF AgentOnce
<1>11. ASSUME NEW s \in Spawned PROVE SessionOnce(s)'
  <2>1. SessionOnce(s)
    BY DEF OnceStands
  <2> QED
    BY <1>5, <1>7, <1>9, <2>1 DEF SessionOnce
<1> QED
  BY <1>1, <1>4, <1>10, <1>11 DEF OnceStands

\* Death takes records back, and of no name that is still sound.
LEMMA OnceAfterDeath ==
  ASSUME TypeInv, OnceStands, Crash
  PROVE  OnceStands'
<1>1. /\ LogInv /\ LogInv' /\ durable' \in durable..Len(log) /\ CutBack /\ ResetsSame
  BY RecoveringIs DEF TypeInv, RecordInv, ResetsSame
<1>2. /\ agents' = agents /\ owed' = <<>> /\ mat' = Recovering(log')
      /\ sessions' \subseteq sessions /\ adrift \subseteq adrift' /\ crashes' = crashes + 1
      /\ \A n \in durable' + 1..Len(log) : log[n].who \in adrift'
  BY DEF Crash
<1>3. mat'.todo = {} /\ mat'.purges = {}
  BY <1>2 DEF Recovering, Decided, NotRewinding
<1>4. \A s \in Spawned : Begun(s)' => Begun(s)
  <2>1. \A s : ~OwedEnd(s)'
    BY <1>2 DEF OwedEnd, Range
  <2> QED
    BY <1>1, <1>2, <2>1, HeldKept DEF Begun
<1>5. \A who : /\ Births(who)' \subseteq Births(who) /\ Purgings(who)' \subseteq Purgings(who)
               /\ Spawns(who)' \subseteq Spawns(who) /\ Ends(who)' \subseteq Ends(who)
  <2>1. \A n \in DOMAIN log' : n \in DOMAIN log /\ log'[n] = log[n]
    BY <1>1 DEF CutBack
  <2> QED
    BY <2>1 DEF Births, Purgings, Spawns, Ends, Those
<1>6. ASSUME NEW who, who \notin adrift'
      PROVE  Births(who)' = Births(who) /\ Spawns(who)' = Spawns(who)
  <2>1. \A n \in DOMAIN log : log[n].who = who => n \in 1..durable'
    <3>1. DOMAIN log = 1..Len(log) /\ Len(log) \in Nat /\ durable \in Nat
      BY <1>1, LogIsWellFormed
    <3>2. \A n \in DOMAIN log : n \in 1..durable' \/ n \in durable' + 1..Len(log)
      BY <1>1, <3>1
    <3> QED
      BY <1>2, <1>6, <3>2
  <2>2. \A n \in 1..durable' : n \in DOMAIN log' /\ log'[n] = log[n]
    BY <1>1 DEF CutBack
  <2>3. /\ \A n \in Births(who) : n \in Births(who)'
        /\ \A n \in Spawns(who) : n \in Spawns(who)'
    BY <2>1, <2>2 DEF Births, Spawns, Those
  <2> QED
    BY <1>5, <2>3
<1>7. ASSUME NEW x \in Agents PROVE AgentOnce(x)'
  <2>1. AgentOnce(x)
    BY DEF OnceStands
  <2> QED
    BY <1>2, <1>5, <1>6, <2>1 DEF AgentOnce
<1>8. ASSUME NEW s \in Spawned PROVE SessionOnce(s)'
  <2>1. SessionOnce(s)
    BY DEF OnceStands
  <2> QED
    BY <1>2, <1>4, <1>5, <1>6, <2>1 DEF SessionOnce
<1>9. crashes' \in Nat
  BY <1>2 DEF OnceStands
<1> QED
  BY <1>3, <1>7, <1>8, <1>9 DEF OnceStands

LEMMA OnceAtFirst ==
  ASSUME Init
  PROVE  OnceStands
<1>1. /\ log = <<>> /\ agents = {} /\ sessions = {} /\ owed = <<>> /\ mat = NotRewinding
      /\ crashes = 0
  BY DEF Init
<1>2. \A who : Births(who) = {} /\ Purgings(who) = {} /\ Spawns(who) = {} /\ Ends(who) = {}
  BY <1>1 DEF Births, Purgings, Spawns, Ends, Those
<1>3. \A s : ~Begun(s)
  BY <1>1 DEF Begun, Held, Resets, OwedEnd, Range
<1>4. mat.todo = {} /\ mat.purges = {}
  BY <1>1 DEF NotRewinding
<1> QED
  BY <1>1, <1>2, <1>3, <1>4 DEF OnceStands, AgentOnce, SessionOnce

\* What the materialisation, and what writes no record of its own, leaves behind.
Rebuilt ==
  /\ UNCHANGED <<log, owed, adrift, crashes>>
  /\ agents' \subseteq agents \cup Revived
  /\ \/ sessions' \subseteq sessions
     \/ mat.step = "decided" /\ sessions' \subseteq sessions \cup {mat.scope}
  /\ \/ mat' = mat
     \/ mat'.todo = {} /\ mat'.purges = {}
     \/ mat'.step = "agents" /\ mat'.purges = mat.purges

LEMMA StepsRebuild ==
  ASSUME TypeInv
  PROVE  /\ Rematerialise \/ RevivingRaises => Rebuilt
         /\ MaterialiseRest \/ MaterialiseSession \/ MaterialisingRaises => Rebuilt
         /\ RewriteWal \/ UNCHANGED vars \/ (\E r \in Registries : ChangeConfig(r)) => Rebuilt
<1>1. ASSUME Rematerialise PROVE Rebuilt
  <2>1. mat'.step = "agents" /\ mat'.purges = mat.purges
    BY <1>1 DEF Rematerialise, TypeInv, RecordInv, MatInv
  <2> QED
    BY <1>1, <2>1 DEF Rematerialise, Rebuilt
<1>2. NotRewinding.todo = {} /\ NotRewinding.purges = {}
  BY DEF NotRewinding
<1>3. ASSUME MaterialiseRest PROVE Rebuilt
  BY <1>2, <1>3 DEF MaterialiseRest, Rebuilt
<1>4. ASSUME MaterialiseSession PROVE Rebuilt
  BY <1>2, <1>4 DEF MaterialiseSession, Rebuilt
<1>5. ASSUME MaterialisingRaises PROVE Rebuilt
  BY <1>2, <1>5 DEF MaterialisingRaises, Rebuilt
<1>6. ASSUME RewriteWal PROVE Rebuilt
  BY <1>6 DEF RewriteWal, Rebuilt
<1>7. ASSUME UNCHANGED vars PROVE Rebuilt
  BY <1>7 DEF Rebuilt
<1>8. ASSUME NEW r \in Registries, ChangeConfig(r) PROVE Rebuilt
  BY <1>8 DEF ChangeConfig, Rebuilt
<1>9. ASSUME RevivingRaises PROVE Rebuilt
  BY <1>2, <1>9 DEF RevivingRaises, Rebuilt
<1> QED
  BY <1>1, <1>3, <1>4, <1>5, <1>6, <1>7, <1>8, <1>9

LEMMA OnceRebuilds ==
  ASSUME TypeInv, OnceStands, Rebuilt
  PROVE  OnceStands'
<1>1. UNCHANGED <<log, adrift, crashes>>
  BY DEF Rebuilt
<1>2. \A x \in agents' : x \in agents \/ Births(x) # {}
  <2>1. LogInv /\ \A x \in Revived : CreatedAt(x) # 0
    BY DEF Revived, TypeInv, RecordInv
  <2>2. \A x \in Revived : Births(x) # {}
    BY <2>1, ScanFindsOne DEF CreatedAt, Births
  <2> QED
    BY <2>2 DEF Rebuilt
<1>3. \A s \in sessions' : s \in sessions \/ Held(s)
  <2>1. mat.step = "decided" => Held(mat.scope)
    BY DEF TypeInv, RecordInv, MatInv, Held
  <2> QED
    BY <2>1 DEF Rebuilt
<1>4. \A s \in Spawned : Begun(s)' => Begun(s)
  <2>1. \A s : OwedEnd(s)' <=> OwedEnd(s)
    BY DEF Rebuilt, OwedEnd
  <2> QED
    BY <1>1, <1>3, <2>1, BranchUnmoved, HeldKept DEF Begun
<1>5. /\ mat'.step # "agents" => mat'.todo = {} /\ mat'.purges = {}
      /\ \A s \in mat'.purges : s \in mat.purges
  BY DEF Rebuilt, OnceStands
<1> QED
  BY <1>1, <1>2, <1>4, <1>5, OnceQuiet

\* One agent: what is noted to go is not due.
LEMMA OnceMaterialises ==
  ASSUME TypeInv, OnceStands, NEW x \in Agents, MaterialiseAgent(x)
  PROVE  OnceStands'
<1>1. /\ UNCHANGED <<log, owed, adrift, crashes>> /\ agents' \subseteq agents
      /\ sessions' \subseteq sessions
  BY DEF MaterialiseAgent, wal, ghost
<1>2. \A s \in Spawned : Begun(s)' => Begun(s)
  BY <1>1, BranchUnmoved, HeldKept DEF Begun, OwedEnd
<1>3. /\ mat'.step = mat.step
      /\ \/ mat'.purges = mat.purges
         \/ mat'.purges = mat.purges \cup {s \in Of(x) \cap sessions : Gone(s)}
  BY DEF MaterialiseAgent, TypeInv, RecordInv, MatInv
<1>4. \A s \in Of(x) \cap sessions : Gone(s) => ~SessionIsDue(s)
  <2>1. \A s \in Spawned : SessionOnce(s) /\ LogInv
    BY DEF OnceStands, TypeInv, RecordInv
  <2> QED
    BY <2>1, GoneIsNotDue DEF Of
<1>5. mat'.step = "agents"
  BY <1>3 DEF MaterialiseAgent, OnceStands
<1> QED
  BY <1>1, <1>2, <1>3, <1>4, <1>5, OnceQuiet

LEMMA OnceStep ==
  ASSUME TypeInv, OnceStands, NamesOnce, [Next]_vars
  PROVE  OnceStands'
<1>1. ASSUME NEW x \in Agents,
             CreateAgent(x) \/ ArchiveAgent(x) \/ PurgeAgent(x) \/ MaterialiseAgent(x)
      PROVE  OnceStands'
  BY <1>1, OnceCreates, OnceArchives, OncePurges, OnceMaterialises
<1>2. ASSUME NEW s \in Spawned, SpawnSession(s) \/ RemoveSession(s) PROVE OnceStands'
  BY <1>2, OnceSpawns, OnceRemoves
<1>3. ASSUME NEW t \in Topologies, ChangeTopology(t) PROVE OnceStands'
  BY <1>3, TopologyIsDrawn, OnceDraws
<1>4. ASSUME NEW n \in DOMAIN log, NEW scope \in B!Scopes, Checkout(n, scope) PROVE OnceStands'
  BY <1>4, OnceAtCheckout
<1>5. ASSUME NEW f \in 2..Len(log), Truncate(f) PROVE OnceStands'
  BY <1>5, OnceTruncates
<1>6. SweepAgent \/ SweepTopologies \/ PayOwed => OnceStands'
  BY OnceSweeps, OnceCascades, OncePays
<1>7. Rebuilt => OnceStands'
  BY OnceRebuilds
<1>8. Crash => OnceStands'
  BY OnceAfterDeath
<1> QED
  BY <1>1, <1>2, <1>3, <1>4, <1>5, <1>6, <1>7, <1>8, StepsRebuild, Zenon DEF Next

\* What a step of a rebuild, or a death, takes away.
LEMMA NothingDueGoes ==
  ASSUME TypeInv, OnceStands, Next, mat.step # "none", OnLoop
  PROVE  /\ \A x \in agents \ agents' : ~AgentIsDue(x)
         /\ \A s \in sessions \ sessions' :
              crashes' = crashes => ~SessionIsDue(s) \/ Owner(s) \notin agents'
<1> DEFINE Safe == /\ \A x \in agents \ agents' : ~AgentIsDue(x)
                   /\ \A s \in sessions \ sessions' :
                        crashes' = crashes => ~SessionIsDue(s) \/ Owner(s) \notin agents'
<1>1. ~Working
  BY DEF Working
<1>2. LogInv /\ (\A x \in Agents : AgentOnce(x)) /\ (\A s \in Spawned : SessionOnce(s))
  BY DEF TypeInv, RecordInv, OnceStands
<1>3. ASSUME NEW x \in Agents, MaterialiseAgent(x) PROVE Safe
  <2>1. CASE Doomed(x)
    <3>1. agents' = agents \ {x} /\ sessions' = sessions \ Of(x)
      BY <1>3, <2>1 DEF MaterialiseAgent
    <3>2. ~AgentIsDue(x)
      BY <1>2, <2>1, DoomedIsNotDue
    <3>3. \A s \in Of(x) : Owner(s) = x
      BY DEF Of, Owner
    <3> QED
      BY <3>1, <3>2, <3>3
  <2>2. CASE ~Doomed(x)
    BY <1>3, <2>2 DEF MaterialiseAgent
  <2> QED
    BY <2>1, <2>2
<1>4. MaterialiseRest => Safe
  BY DEF MaterialiseRest, OnceStands
<1>5. MaterialiseSession => Safe
  <2> SUFFICES ASSUME MaterialiseSession PROVE Safe
    OBVIOUS
  <2>1. /\ agents' = agents /\ mat.scope # GLOBAL_SCOPE
        /\ sessions' = IF Gone(mat.scope) THEN sessions \ {mat.scope}
                                          ELSE sessions \cup {mat.scope}
    BY DEF MaterialiseSession
  <2>2. mat.scope \in Spawned
    BY <2>1 DEF TypeInv, RecordInv, MatInv, B!Scopes
  <2>3. Gone(mat.scope) => ~SessionIsDue(mat.scope)
    BY <1>2, <2>2, GoneIsNotDue
  <2> QED
    BY <2>1, <2>3
<1>6. Rematerialise \/ RevivingRaises \/ MaterialisingRaises \/ PayOwed \/ RewriteWal => Safe
  BY DEF Rematerialise, RevivingRaises, MaterialisingRaises, PayOwed, RewriteWal
<1>7. Crash => Safe
  <2> SUFFICES ASSUME Crash PROVE Safe
    OBVIOUS
  <2>1. agents' = agents /\ crashes' = crashes + 1 /\ crashes \in Nat
    BY DEF Crash, OnceStands
  <2> QED
    BY <2>1
<1>8. ~SweepAgent /\ ~SweepTopologies
  BY DEF SweepAgent, SweepTopologies, OnLoop, Sweeping
<1>9. \A x \in Agents : ~CreateAgent(x) /\ ~ArchiveAgent(x) /\ ~PurgeAgent(x)
  BY <1>1 DEF CreateAgent, ArchiveAgent, PurgeAgent
<1>10. \A s \in Spawned : ~SpawnSession(s) /\ ~RemoveSession(s)
  BY <1>1 DEF SpawnSession, RemoveSession
<1>11. /\ \A t \in Topologies : ~ChangeTopology(t)
       /\ \A r \in Registries : ~ChangeConfig(r)
  BY <1>1 DEF ChangeTopology, DrawTopology, ChangeConfig
<1>12. /\ \A n \in DOMAIN log, scope \in B!Scopes : ~Checkout(n, scope)
       /\ \A f \in 2..Len(log) : ~Truncate(f)
  BY <1>1 DEF Checkout, Truncate
<1> HIDE DEF Safe
<1>13. Safe
  BY <1>3, <1>4, <1>5, <1>6, <1>7, <1>8, <1>9, <1>10, <1>11, <1>12, Zenon DEF Next
<1> QED
  BY <1>13 DEF Safe

\* checkout, recover_rewind_if_needed: whatever was truncated, with names used once a
\* rebuild removes no agent that was made on the branch and not purged and no session
\* that was spawned on it and is not done.
THEOREM WhatLivesIsKept == NamesOnce => (Spec => NothingLivingIsDeleted)
<1> SUFFICES ASSUME NamesOnce PROVE Spec => NothingLivingIsDeleted
  OBVIOUS
<1>1. Init => OnceInv
  BY TypesHoldAtFirst, OnceAtFirst DEF OnceInv
<1>2. OnceInv /\ [Next]_vars => OnceInv'
  <2> SUFFICES ASSUME OnceInv, [Next]_vars PROVE OnceInv'
    OBVIOUS
  <2> QED
    BY EveryStep, OnceStep DEF OnceInv, RecordStep
<1>3. ASSUME OnceInv, [Next]_vars
      PROVE  [mat.step # "none" /\ OnLoop =>
                /\ \A x \in agents \ agents' : ~AgentIsDue(x)
                /\ \A s \in sessions \ sessions' :
                     crashes' = crashes => ~SessionIsDue(s) \/ Owner(s) \notin agents']_vars
  BY <1>3, NothingDueGoes DEF OnceInv
<1> QED
  BY <1>1, <1>2, <1>3, PTL DEF Spec, NothingLivingIsDeleted

----------------------------------------------------------------------------
(* That the members of a topology exist, when names are used once.          *)

\* A checkout left the branch the agent was made on.
LeftBehind(x) == \E b \in Births(x), r \in Resets : b \notin Way(log, GLOBAL_SCOPE)[r]

\* Why an agent that was made is not there.
IsMissed(x) ==
  \/ x \in collected
  \/ Purgings(x) # {}
  \/ /\ LeftBehind(x)
     /\ IsThrough(x) => \A b \in Births(x) : b \notin Now(GLOBAL_SCOPE) \/ ~Kept(b)

AgentAccounted(x) == x \notin adrift /\ x \notin agents /\ Births(x) # {} => IsMissed(x)

OwnerAccounted(s) ==
  Owner(s) \notin adrift /\ (s \in sessions \/ Held(s)) =>
    Owner(s) \in agents \/ Owner(s) \in collected \/ RemadeWithoutOwner(s)

\* Whoever is drawn, or will be, was made before.
AreBorn(members) == \A x \in members \ adrift : Births(x) # {}

MembersBorn ==
  /\ \A n \in DOMAIN log : log[n].kind = "topology" =>
       \A x \in log[n].members \ adrift : \E b \in Births(x) : b < n
  /\ \A t \in Topologies : AreBorn(topologies[t])
  /\ \A r \in Range(owed) : r.kind = "topology" => AreBorn(r.members)

\* Some record of the topology names each member.
MembersDrawn(t) ==
  t \notin adrift => \A x \in topologies[t] \ adrift :
    \E n \in DOMAIN log : IsDrawn(log[n], t) /\ x \in log[n].members

MemberStands(t, x) ==
  \/ x \in agents
  \/ RemovedForGood(x) /\ Resets # {}
  \/ WrittenAskew(t, x)
  \/ Record("cascade", x) \in Range(owed)

MembersStand(t) ==
  t \notin adrift /\ Steady => \A x \in topologies[t] \ adrift : MemberStands(t, x)

\* Whom the loop over the agents has still to see: the sweep has its turns in between.
LoopStands ==
  mat.step = "agents" => mat.scope = GLOBAL_SCOPE /\ mat.todo \subseteq agents \cup collected

MembershipStands ==
  /\ LoopStands
  /\ \A x \in Agents : AgentAccounted(x)
  /\ \A s \in Spawned : OwnerAccounted(s)
  /\ MembersBorn
  /\ \A t \in Topologies : MembersDrawn(t) /\ MembersStand(t)

MembershipInv == OnceInv /\ MembershipStands

\* What is in the log stays there with its way back, unless its name is set aside.
LogCarried ==
  /\ \A n \in DOMAIN log : n \in DOMAIN log' \/ (~IsRewind(n) /\ log[n].who \in adrift')
  /\ \A n \in DOMAIN log : n \in DOMAIN log' =>
       /\ log'[n] = log[n]
       /\ Way(log', GLOBAL_SCOPE)[n] = Way(log, GLOBAL_SCOPE)[n]
  /\ \A n \in DOMAIN log' : n \in DOMAIN log \/ \A m \in DOMAIN log : m < n
  /\ \A x \in Agents : x \in adrift => x \in adrift'
  /\ floor <= floor'

LEMMA CarriedSame ==
  ASSUME log' = log, floor <= floor', \A x \in Agents : x \in adrift => x \in adrift'
  PROVE  LogCarried
BY DEF LogCarried

LEMMA CarriedOn ==
  ASSUME LogInv, LogInv', NEW e, Grew(e), floor \in Nat, floor' = floor,
         \A x \in Agents : x \in adrift => x \in adrift'
  PROVE  LogCarried
<1> DEFINE L == Len(log)
<1>1. /\ WellFormed(log) /\ L \in Nat /\ DOMAIN log = 1..L
      /\ WellFormed(log') /\ Len(log') = L + 1 /\ DOMAIN log' = 1..(L + 1)
  <2>1. WellFormed(log) /\ L \in Nat /\ DOMAIN log = 1..L
    BY LogIsWellFormed
  <2>2. WellFormed(log') /\ DOMAIN log' = 1..Len(log') /\ Len(log') = L + 1
    BY DEF LogInv, WellFormed, BP!WellFormed, Resets, IsRewind, Grew
  <2> QED
    BY <2>1, <2>2
<1>2. \A n \in 1..L : log'[n] = log[n]
  BY DEF Grew
<1>3. \A h \in 0..L : Way(log', GLOBAL_SCOPE)[h] = Way(log, GLOBAL_SCOPE)[h]
  BY <1>1, <1>2, LineageAgrees
<1> QED
  BY <1>1, <1>2, <1>3 DEF LogCarried

LEMMA CarriedBack ==
  ASSUME TypeInv, Crash
  PROVE  LogCarried /\ BranchSame(GLOBAL_SCOPE) /\ ResetsSame
<1> DEFINE L == Len(log)
           d == durable'
<1>1. /\ LogInv /\ LogInv' /\ d \in durable..L /\ CutBack
      /\ Resets' = Resets /\ \A n \in Resets : log'[n] = log[n]
      /\ Now(GLOBAL_SCOPE)' = {n \in Now(GLOBAL_SCOPE) : n <= d}
  BY RecoveringIs DEF TypeInv, RecordInv
<1>2. /\ WellFormed(log) /\ L \in Nat /\ DOMAIN log = 1..L /\ durable \in Nat
      /\ Resets \subseteq 1..durable
  BY <1>1, LogIsWellFormed
<1>3. WellFormed(log') /\ DOMAIN log' = 1..d /\ Len(log') = d /\ d \in Nat /\ d <= L
      /\ \A n \in 1..d : log'[n] = log[n]
  <2>1. WellFormed(log')
    BY <1>1 DEF LogInv, WellFormed, BP!WellFormed, Resets, IsRewind
  <2> QED
    BY <1>1, <1>2, <2>1 DEF CutBack
<1>4. \A h \in 0..d : Way(log', GLOBAL_SCOPE)[h] = Way(log, GLOBAL_SCOPE)[h]
  BY <1>2, <1>3, LineageAgrees
<1>5. adrift \subseteq adrift' /\ floor' = floor /\ \A n \in d + 1..L : log[n].who \in adrift'
  BY DEF Crash
<1>6. floor \in Nat
  BY DEF TypeInv, Typed, FilesTyped
<1>7. \A n \in DOMAIN log : n \in DOMAIN log' \/ (~IsRewind(n) /\ log[n].who \in adrift')
  <2> SUFFICES ASSUME NEW n \in DOMAIN log, n \notin DOMAIN log'
               PROVE  ~IsRewind(n) /\ log[n].who \in adrift'
    OBVIOUS
  <2>1. n \in d + 1..L /\ n \notin 1..durable
    BY <1>1, <1>2, <1>3
  <2> QED
    BY <1>2, <1>5, <2>1 DEF Resets
<1>8. LogCarried
  BY <1>2, <1>3, <1>4, <1>5, <1>6, <1>7 DEF LogCarried
<1>9. BranchSame(GLOBAL_SCOPE)
  BY <1>1, <1>3 DEF BranchSame
<1> QED
  BY <1>1, <1>8, <1>9 DEF ResetsSame

\* What is kept of the records of a name that is not set aside.
LEMMA RecordsCarried ==
  ASSUME LogCarried
  PROVE  /\ ResetsKept
         /\ \A x : x \notin adrift' =>
              /\ Births(x) \subseteq Births(x)' /\ Purgings(x) \subseteq Purgings(x)'
              /\ \A n \in DOMAIN log : IsDrawn(log[n], x) => n \in DOMAIN log' /\ log'[n] = log[n]
<1>1. ResetsKept
  BY DEF LogCarried, ResetsKept, Resets, IsRewind
<1>2. ASSUME NEW x, x \notin adrift', NEW n \in DOMAIN log, log[n].who = x
      PROVE  n \in DOMAIN log' /\ log'[n] = log[n]
  BY <1>2 DEF LogCarried
<1>3. ASSUME NEW x, x \notin adrift'
      PROVE  /\ Births(x) \subseteq Births(x)' /\ Purgings(x) \subseteq Purgings(x)'
             /\ \A n \in DOMAIN log : IsDrawn(log[n], x) => n \in DOMAIN log' /\ log'[n] = log[n]
  <2>1. Births(x) \subseteq Births(x)'
    BY <1>2, <1>3 DEF Births, Those
  <2>2. Purgings(x) \subseteq Purgings(x)'
    BY <1>2, <1>3 DEF Purgings, Those
  <2>3. \A n \in DOMAIN log : IsDrawn(log[n], x) => n \in DOMAIN log' /\ log'[n] = log[n]
    BY <1>2, <1>3 DEF IsDrawn
  <2> QED
    BY <2>1, <2>2, <2>3
<1> QED
  BY <1>1, <1>3

LEMMA LeftBehindCarried ==
  ASSUME LogCarried, NEW x, x \notin adrift', LeftBehind(x)
  PROVE  LeftBehind(x)'
<1>1. PICK b \in Births(x), r \in Resets : b \notin Way(log, GLOBAL_SCOPE)[r]
  BY DEF LeftBehind
<1>2. b \in Births(x)' /\ r \in Resets' /\ r \in DOMAIN log /\ r \in DOMAIN log'
  BY RecordsCarried DEF ResetsKept, Resets
<1>3. Way(log', GLOBAL_SCOPE)[r] = Way(log, GLOBAL_SCOPE)[r]
  BY <1>2 DEF LogCarried
<1> QED
  BY <1>1, <1>2, <1>3 DEF LeftBehind

LEMMA KeptFades ==
  ASSUME LogInv, LogCarried, floor \in Nat, floor' \in Nat, NEW b \in DOMAIN log, b \in DOMAIN log', Kept(b)'
  PROVE  Kept(b)
<1>1. b \in Nat /\ log'[b] = log[b] /\ floor <= floor'
  BY LogIsWellFormed DEF LogCarried
<1> QED
  BY <1>1 DEF Kept, IsRewind

LEMMA AccountKept ==
  ASSUME LogInv, LogCarried, floor \in Nat, floor' \in Nat, collected \subseteq collected',
         NEW x \in Agents, AgentAccounted(x),
         x \notin agents' => /\ x \notin agents /\ Births(x)' \subseteq Births(x)
                             /\ IsThrough(x)' => IsThrough(x) /\ BranchSame(GLOBAL_SCOPE)
  PROVE  AgentAccounted(x)'
<1> SUFFICES ASSUME x \notin adrift', x \notin agents', Births(x)' # {}
             PROVE  IsMissed(x)'
  BY DEF AgentAccounted
<1>1. IsMissed(x)
  BY DEF AgentAccounted, LogCarried
<1>2. CASE x \in collected
  BY <1>2 DEF IsMissed
<1>3. CASE Purgings(x) # {}
  BY <1>3, RecordsCarried DEF IsMissed
<1>4. CASE LeftBehind(x) /\ (IsThrough(x) => \A b \in Births(x) : b \notin Now(GLOBAL_SCOPE) \/ ~Kept(b))
  <2>1. LeftBehind(x)'
    BY <1>4, LeftBehindCarried
  <2>2. ASSUME IsThrough(x)', NEW b \in Births(x)'
        PROVE  b \notin Now(GLOBAL_SCOPE)' \/ ~Kept(b)'
    <3>1. b \in DOMAIN log /\ b \in DOMAIN log'
      BY <2>2 DEF Births, Those
    <3>2. b \notin Now(GLOBAL_SCOPE) \/ ~Kept(b)
      BY <1>4, <2>2
    <3> QED
      BY <2>2, <3>1, <3>2, KeptFades DEF BranchSame
  <2> QED
    BY <2>1, <2>2 DEF IsMissed
<1> QED
  BY <1>1, <1>2, <1>3, <1>4 DEF IsMissed

LEMMA OwnerKeptOn ==
  ASSUME LogInv, LogCarried, collected \subseteq collected', NEW s \in Spawned, OwnerAccounted(s),
         Owner(s) \in Agents,
         s \in sessions' \/ Held(s)' => s \in sessions \/ Held(s) \/ Owner(s) \in agents',
         Owner(s) \in agents =>
           \/ Owner(s) \in agents' \/ Owner(s) \in collected' \/ RemadeWithoutOwner(s)'
           \/ ~(s \in sessions' \/ Held(s)')
  PROVE  OwnerAccounted(s)'
<1> SUFFICES ASSUME Owner(s) \notin adrift', s \in sessions' \/ Held(s)', Owner(s) \notin agents'
             PROVE  Owner(s) \in collected' \/ RemadeWithoutOwner(s)'
  BY DEF OwnerAccounted, Owner
<1>1. Owner(s) \notin adrift
  BY DEF LogCarried
<1>2. ResetsKept /\ Purgings(Owner(s)) \subseteq Purgings(Owner(s))'
  BY RecordsCarried
<1>3. RemadeWithoutOwner(s) => RemadeWithoutOwner(s)'
  BY <1>2, RemadeKept
<1> QED
  BY <1>1, <1>3 DEF OwnerAccounted

\* A number that is not on the branch was left by some checkout.
LEMMA OffTheBranch ==
  ASSUME LogInv, NEW b \in DOMAIN log, b \notin Now(GLOBAL_SCOPE)
  PROVE  \E r \in Resets : b \notin Way(log, GLOBAL_SCOPE)[r]
<1> DEFINE L == Len(log)
           S == Seen(log, GLOBAL_SCOPE)
<1>1. /\ WellFormed(log) /\ L \in Nat /\ DOMAIN log = 1..L /\ S \subseteq Resets
      /\ Resets \subseteq 1..L
  BY LogIsWellFormed DEF Resets
<1>2. Now(GLOBAL_SCOPE) = Way(log, GLOBAL_SCOPE)[L]
  BY NowIs
<1>3. S # {}
  <2> SUFFICES ASSUME S = {} PROVE FALSE
    OBVIOUS
  <2>1. Way(log, GLOBAL_SCOPE)[L] = Way(log, GLOBAL_SCOPE)[0] \cup ((0 + 1)..L)
    BY <1>1, NoResetBetween
  <2> QED
    BY <1>1, <1>2, <2>1
<1>4. PICK a \in S : \A r \in S : r <= a
  <2> HIDE DEF S
  <2>1. \A r \in S : r \in Nat /\ r <= L
    BY <1>1
  <2> HIDE DEF L
  <2>2. S \in SUBSET Nat
    BY <2>1
  <2> QED
    BY <1>1, <1>3, <2>1, <2>2, GreatestExists
<1>5. a \in 0..L /\ a \in Resets
  <2> HIDE DEF S
  <2>1. a \in Resets
    BY <1>1
  <2> QED
    BY <1>1, <2>1
<1>6. Way(log, GLOBAL_SCOPE)[L] = Way(log, GLOBAL_SCOPE)[a] \cup ((a + 1)..L)
  BY <1>1, <1>4, <1>5, NoResetBetween
<1> QED
  BY <1>2, <1>5, <1>6

\* The way back from a number on the branch is on the branch.
LEMMA BranchOfBranch ==
  ASSUME LogInv, NEW n \in Now(GLOBAL_SCOPE)
  PROVE  Way(log, GLOBAL_SCOPE)[n] \subseteq Now(GLOBAL_SCOPE)
<1>1. WellFormed(log) /\ Len(log) \in 0..Len(log)
  BY LogIsWellFormed
<1>2. \A h \in 0..Len(log) : \A k \in Way(log, GLOBAL_SCOPE)[h] :
        Way(log, GLOBAL_SCOPE)[k] = {j \in Way(log, GLOBAL_SCOPE)[h] : j <= k}
  BY <1>1, SameModel, BranchesAssumed, BP!LineageOfLineage DEF WellFormed, Way
<1> QED
  BY <1>1, <1>2, NowIs

\* What was removed for good stays so.
LEMMA SoundAgain ==
  ASSUME LogInv, LogInv', LogCarried, floor \in Nat, floor' \in Nat, collected \subseteq collected',
         NEW x \in Agents, x \notin adrift', RemovedForGood(x) /\ Resets # {}
  PROVE  RemovedForGood(x)' /\ Resets' # {}
<1>1. ResetsKept /\ Births(x) \subseteq Births(x)' /\ Purgings(x) \subseteq Purgings(x)'
  BY RecordsCarried
<1>2. Resets' # {}
  BY <1>1 DEF ResetsKept
<1>3. CASE x \in collected
  BY <1>2, <1>3 DEF RemovedForGood
<1>4. CASE Purgings(x) # {}
  BY <1>1, <1>2, <1>4 DEF RemovedForGood, Purgings
<1>5. CASE \E b \in Births(x), r \in Resets : ~Kept(b) /\ b \notin Way(log, GLOBAL_SCOPE)[r]
  <2>1. PICK b \in Births(x), r \in Resets : ~Kept(b) /\ b \notin Way(log, GLOBAL_SCOPE)[r]
    BY <1>5
  <2>2. b \in Births(x)' /\ r \in Resets' /\ r \in DOMAIN log /\ r \in DOMAIN log'
        /\ b \in DOMAIN log /\ b \in DOMAIN log'
    BY <1>1 DEF ResetsKept, Resets, Births, Those
  <2>3. ~Kept(b)' /\ Way(log', GLOBAL_SCOPE)[r] = Way(log, GLOBAL_SCOPE)[r]
    BY <2>1, <2>2, KeptFades DEF LogCarried
  <2>4. b \notin B!Lineage(log, GLOBAL_SCOPE)[r]'
    BY <2>1, <2>3 DEF Way
  <2> QED
    BY <1>2, <2>2, <2>3, <2>4 DEF RemovedForGood, Births, Resets
<1> QED
  BY <1>3, <1>4, <1>5 DEF RemovedForGood, Births, Purgings, Resets, Way

LEMMA AskewStill ==
  ASSUME LogInv, LogCarried, BranchSame(GLOBAL_SCOPE), NEW t, t \notin adrift',
         NEW x, x \notin adrift', WrittenAskew(t, x)
  PROVE  WrittenAskew(t, x)'
<1>1. PICK n \in Those("topology", t, Now(GLOBAL_SCOPE)), b \in Births(x) :
        x \in log[n].members /\ b < n /\ b \notin Way(log, GLOBAL_SCOPE)[n]
  BY DEF WrittenAskew, Births, Way
<1>2. n \in DOMAIN log /\ IsDrawn(log[n], t) /\ n \in Now(GLOBAL_SCOPE)
  BY NowIs, LogIsWellFormed DEF Those, IsDrawn
<1>3. n \in DOMAIN log' /\ log'[n] = log[n] /\ b \in Births(x)'
  BY <1>2, RecordsCarried
<1>4. n \in Now(GLOBAL_SCOPE)' /\ Way(log', GLOBAL_SCOPE)[n] = Way(log, GLOBAL_SCOPE)[n]
  BY <1>2, <1>3 DEF BranchSame, LogCarried
<1>5. n \in Those("topology", t, Now(GLOBAL_SCOPE))'
  BY <1>2, <1>3, <1>4 DEF Those, IsDrawn
<1>6. b \notin B!Lineage(log, GLOBAL_SCOPE)[n]' /\ x \in log'[n].members
  BY <1>1, <1>3, <1>4 DEF Way
<1> QED
  BY <1>1, <1>3, <1>5, <1>6 DEF WrittenAskew, Births

\* Everyone drawn was made before, still.
LEMMA BornStill ==
  ASSUME LogInv, LogInv', LogCarried, MembersBorn,
         \A n \in DOMAIN log' : n \notin DOMAIN log /\ log'[n].kind = "topology" =>
           AreBorn(log'[n].members),
         \A t \in Topologies : AreBorn(topologies'[t]),
         \A r \in Range(owed') : r.kind = "topology" => AreBorn(r.members),
         \A n \in DOMAIN log' : log'[n].kind = "topology" => log'[n].members \subseteq Agents,
         \A t \in Topologies : topologies'[t] \subseteq Agents,
         \A r \in Range(owed') : r.kind = "topology" => r.members \subseteq Agents
  PROVE  MembersBorn'
<1>1. \A x \in Agents \ adrift' : x \notin adrift /\ Births(x) \subseteq Births(x)'
  BY RecordsCarried DEF LogCarried
<1>2. \A M \in SUBSET Agents : AreBorn(M) => AreBorn(M)'
  BY <1>1 DEF AreBorn
<1>3. \A t \in Topologies : AreBorn(topologies'[t]) => \A x \in topologies'[t] \ adrift' : Births(x)' # {}
  BY <1>1 DEF AreBorn
<1>4. \A r \in Range(owed') : r.kind = "topology" => \A x \in r.members \ adrift' : Births(x)' # {}
  BY <1>1 DEF AreBorn
<1>5. ASSUME NEW n \in DOMAIN log', log'[n].kind = "topology", NEW x \in log'[n].members \ adrift'
      PROVE  \E b \in Births(x)' : b < n
  <2>1. x \in Agents /\ x \notin adrift /\ Births(x) \subseteq Births(x)'
    BY <1>1, <1>5
  <2>2. CASE n \in DOMAIN log
    <3>1. log'[n] = log[n]
      BY <1>5, <2>2 DEF LogCarried
    <3> QED
      BY <1>5, <2>1, <2>2, <3>1 DEF MembersBorn
  <2>3. CASE n \notin DOMAIN log
    <3>1. Births(x) # {}
      BY <1>5, <2>1, <2>3 DEF AreBorn
    <3>2. \A b \in Births(x) : b < n
      BY <1>5, <2>3 DEF Births, Those, LogCarried
    <3> QED
      BY <2>1, <3>1, <3>2
  <2> QED
    BY <2>2, <2>3
<1> QED
  BY <1>3, <1>4, <1>5 DEF MembersBorn, AreBorn

\* A topology that is left alone or shrinks.
LEMMA MembersStill ==
  ASSUME TypeInv, LogInv', LogCarried, floor' \in Nat, collected \subseteq collected',
         NEW t \in Topologies, topologies'[t] \subseteq topologies[t],
         t \notin adrift' => t \notin adrift,
         MembersDrawn(t), MembersStand(t), Steady' => Steady /\ BranchSame(GLOBAL_SCOPE),
         \A x \in topologies'[t] \ adrift' : t \notin adrift' /\ Steady' =>
           (x \in agents \/ Record("cascade", x) \in Range(owed) => MemberStands(t, x)')
  PROVE  MembersDrawn(t)' /\ MembersStand(t)'
<1>1. LogInv /\ floor \in Nat /\ topologies[t] \subseteq Agents
  BY DEF TypeInv, RecordInv, Typed, FilesTyped
<1>2. \A x \in topologies'[t] \ adrift' : x \in topologies[t] \ adrift
  BY <1>1 DEF LogCarried
<1>3. MembersDrawn(t)'
  <2> SUFFICES ASSUME t \notin adrift', NEW x \in topologies'[t] \ adrift'
               PROVE  \E n \in DOMAIN log' : IsDrawn(log'[n], t) /\ x \in log'[n].members
    BY DEF MembersDrawn, IsDrawn
  <2>1. PICK n \in DOMAIN log : IsDrawn(log[n], t) /\ x \in log[n].members
    BY <1>2 DEF MembersDrawn
  <2>2. n \in DOMAIN log' /\ log'[n] = log[n]
    BY <2>1, RecordsCarried
  <2> QED
    BY <2>1, <2>2
<1>4. MembersStand(t)'
  <2> SUFFICES ASSUME t \notin adrift', Steady', NEW x \in topologies'[t] \ adrift'
               PROVE  MemberStands(t, x)'
    BY DEF MembersStand
  <2>1. MemberStands(t, x) /\ x \in Agents /\ x \notin adrift'
    BY <1>1, <1>2 DEF MembersStand
  <2>2. CASE x \in agents \/ Record("cascade", x) \in Range(owed)
    BY <2>2
  <2>3. CASE RemovedForGood(x) /\ Resets # {}
    BY <1>1, <2>1, <2>3, SoundAgain DEF MemberStands
  <2>4. CASE WrittenAskew(t, x)
    BY <1>1, <2>1, <2>4, AskewStill DEF MemberStands
  <2> QED
    BY <2>1, <2>2, <2>3, <2>4 DEF MemberStands
<1> QED
  BY <1>3, <1>4

\* Where no topology grows, what a step must see to.
LEMMA MembersFrame ==
  ASSUME TypeInv, RecordStep, MembershipStands, LogCarried, collected \subseteq collected',
         LoopStands',
         \A x \in Agents : AgentAccounted(x)', \A s \in Spawned : OwnerAccounted(s)',
         \A n \in DOMAIN log' : n \notin DOMAIN log /\ log'[n].kind = "topology" =>
           log'[n] \in Range(owed),
         \A r \in Range(owed') : r.kind = "topology" =>
           r \in Range(owed) \/ \E t \in Topologies : r.members \subseteq topologies[t],
         \A t \in Topologies : /\ topologies'[t] \subseteq topologies[t]
                               /\ t \notin adrift' => t \notin adrift,
         Steady' => Steady /\ BranchSame(GLOBAL_SCOPE),
         \A t \in Topologies \ adrift' : \A x \in topologies'[t] : Steady' =>
           (x \in agents \/ Record("cascade", x) \in Range(owed) =>
              x \in agents' \/ Record("cascade", x) \in Range(owed'))
  PROVE  MembershipStands'
<1>1. LogInv /\ LogInv' /\ floor' \in Nat /\ MembersBorn
  BY DEF TypeInv, RecordInv, RecordStep, Typed, FilesTyped, MembershipStands
<1>2. /\ \A n \in DOMAIN log' : log'[n].kind = "topology" => log'[n].members \subseteq Agents
      /\ \A t \in Topologies : topologies'[t] \subseteq Agents
      /\ \A r \in Range(owed') : r.kind = "topology" => r.members \subseteq Agents
  <2>1. \A n \in DOMAIN log' : log'[n] \in Entries
    BY <1>1 DEF LogInv
  <2>2. \A r \in Range(owed') : r \in Owing
    <3>1. owed' \in Seq(Owing)
      BY DEF RecordStep, TypeInv, RecordInv
    <3> QED
      BY <3>1 DEF Range
  <2>3. \A t \in Topologies : topologies'[t] \subseteq Agents
    BY DEF RecordStep, TypeInv, Typed, FilesTyped
  <2> QED
    BY <2>1, <2>2, <2>3, EntryFields, OwingFields
<1>3. MembersBorn'
  <2>1. \A n \in DOMAIN log' : n \notin DOMAIN log /\ log'[n].kind = "topology" =>
          AreBorn(log'[n].members)
    BY <1>1 DEF MembersBorn
  <2>2. \A t \in Topologies : AreBorn(topologies'[t])
    BY <1>1 DEF MembersBorn, AreBorn
  <2>3. \A r \in Range(owed') : r.kind = "topology" => AreBorn(r.members)
    BY <1>1 DEF MembersBorn, AreBorn
  <2> QED
    BY <1>1, <1>2, <2>1, <2>2, <2>3, BornStill
<1>4. ASSUME NEW t \in Topologies PROVE MembersDrawn(t)' /\ MembersStand(t)'
  <2>1. MembersDrawn(t) /\ MembersStand(t)
    BY DEF MembershipStands
  <2>2. \A x \in topologies'[t] \ adrift' : t \notin adrift' /\ Steady' =>
          (x \in agents \/ Record("cascade", x) \in Range(owed) => MemberStands(t, x)')
    BY DEF MemberStands
  <2> QED
    BY <1>1, <2>1, <2>2, MembersStill
<1> QED
  BY <1>3, <1>4 DEF MembershipStands

\* And where nobody is removed either.
LEMMA MembersQuiet ==
  ASSUME TypeInv, RecordStep, MembershipStands, LogCarried,
         LoopStands',
         UNCHANGED collected, agents \subseteq agents',
         \A x \in Agents \ agents' : /\ Births(x)' \subseteq Births(x)
                                     /\ IsThrough(x)' => IsThrough(x) /\ BranchSame(GLOBAL_SCOPE),
         \A s \in Spawned : s \in sessions' \/ Held(s)' =>
           s \in sessions \/ Held(s) \/ Owner(s) \in agents',
         \A n \in DOMAIN log' : n \notin DOMAIN log /\ log'[n].kind = "topology" =>
           log'[n] \in Range(owed),
         \A r \in Range(owed') : r.kind = "topology" =>
           r \in Range(owed) \/ \E t \in Topologies : r.members \subseteq topologies[t],
         \A t \in Topologies : /\ topologies'[t] \subseteq topologies[t]
                               /\ t \notin adrift' => t \notin adrift,
         Steady' => Steady /\ BranchSame(GLOBAL_SCOPE),
         \A t \in Topologies \ adrift' : \A x \in topologies'[t] :
           Record("cascade", x) \in Range(owed) => Record("cascade", x) \in Range(owed')
  PROVE  MembershipStands'
<1>1. LogInv /\ floor \in Nat /\ floor' \in Nat
  BY DEF TypeInv, RecordInv, RecordStep, Typed, FilesTyped
<1>2. ASSUME NEW x \in Agents PROVE AgentAccounted(x)'
  <2>1. AgentAccounted(x)
    BY DEF MembershipStands
  <2>2. x \notin agents' => /\ x \notin agents /\ Births(x)' \subseteq Births(x)
                            /\ IsThrough(x)' => IsThrough(x) /\ BranchSame(GLOBAL_SCOPE)
    OBVIOUS
  <2>3. collected \subseteq collected'
    OBVIOUS
  <2> QED
    BY <1>1, <2>1, <2>2, <2>3, AccountKept
<1>3. ASSUME NEW s \in Spawned PROVE OwnerAccounted(s)'
  <2>1. OwnerAccounted(s) /\ Owner(s) \in Agents
    BY LifecycleAssumption DEF MembershipStands, Owner
  <2>2. collected \subseteq collected'
    OBVIOUS
  <2> QED
    BY <1>1, <2>1, <2>2, OwnerKeptOn
<1>4. collected \subseteq collected'
  OBVIOUS
<1> QED
  BY <1>2, <1>3, <1>4, MembersFrame

LEMMA AppendCarries ==
  ASSUME TypeInv, NEW e \in Entries, e.kind # "rewind", NEW w \in durable..Len(log),
         Append1(e, w), \A x \in Agents : x \in adrift => x \in adrift'
  PROVE  /\ LogCarried /\ ResetsSame /\ RecordsAdded(e) /\ BranchSame(GLOBAL_SCOPE)
         /\ \A n \in DOMAIN log' : n \notin DOMAIN log => log'[n] = e
         /\ Len(log) + 1 \in DOMAIN log' /\ log'[Len(log) + 1] = e
<1>1. LogInv /\ floor \in Nat /\ floor' = floor
  BY DEF TypeInv, RecordInv, Typed, FilesTyped, Append1
<1>2. LogInv' /\ Grew(e) /\ ResetsSame /\ RecordsAdded(e) /\ BranchSame(GLOBAL_SCOPE)
  BY <1>1, AfterRecord, RecordAppended
<1>3. LogCarried
  BY <1>1, <1>2, CarriedOn
<1>4. DOMAIN log = 1..Len(log) /\ Len(log) \in Nat /\ DOMAIN log' = 1..(Len(log) + 1)
  BY <1>1, <1>2, LogIsWellFormed DEF LogInv, Grew
<1> QED
  BY <1>2, <1>3, <1>4 DEF Grew

\* A record that removes nobody and changes no topology.
LEMMA MembersOnRecord ==
  ASSUME TypeInv, RecordStep, MembershipStands, NEW e \in Entries, e.kind # "rewind",
         NEW w \in durable..Len(log), Append1(e, w),
         UNCHANGED <<mat, torn, collected, adrift, topologies>>,
         agents \subseteq agents', e.kind = "created" => e.who \in agents',
         e.kind = "topology" => e \in Range(owed),
         \A s \in sessions' : s \in sessions \/ Owner(s) \in agents',
         \A r \in Range(owed') : r \in Range(owed),
         \A x : Record("cascade", x) \in Range(owed) => Record("cascade", x) \in Range(owed')
  PROVE  MembershipStands'
<1>1. /\ LogCarried /\ ResetsSame /\ RecordsAdded(e) /\ BranchSame(GLOBAL_SCOPE)
      /\ \A n \in DOMAIN log' : n \notin DOMAIN log => log'[n] = e
  BY AppendCarries
<1>2. \A x : x \notin agents' => Births(x)' \subseteq Births(x)
  BY <1>1 DEF RecordsAdded, Added
<1>3. /\ \A x : IsThrough(x)' => IsThrough(x)
      /\ Steady' => Steady
  BY DEF IsThrough, Steady
<1>4. \A s \in Spawned : s \in sessions' \/ Held(s)' => s \in sessions \/ Held(s) \/ Owner(s) \in agents'
  BY <1>1, HeldKept
<1>5. LoopStands'
  BY DEF MembershipStands, LoopStands
<1> QED
  BY <1>1, <1>2, <1>3, <1>4, <1>5, MembersQuiet

\* create_agent, archive_agent, spawn_session_recorded and remove_session.
LEMMA MembersOfOthers ==
  ASSUME TypeInv, RecordStep, MembershipStands,
         \/ \E x \in Agents : CreateAgent(x) \/ ArchiveAgent(x)
         \/ \E s \in Spawned : SpawnSession(s) \/ RemoveSession(s)
  PROVE  MembershipStands'
<1>1. durable \in durable..Len(log)
  BY NoNumberBehind
<1>2. ASSUME NEW x \in Agents, CreateAgent(x) PROVE MembershipStands'
  <2> DEFINE e == Record("created", x)
  <2>1. e \in Entries /\ e.kind = "created" /\ e.who = x
    BY RecordFields, RecordsDiffer
  <2>2. /\ Append1(e, durable) /\ agents' = agents \cup {x}
        /\ UNCHANGED <<mat, torn, collected, adrift, topologies, sessions, owed>>
    BY <1>2 DEF CreateAgent
  <2> HIDE DEF e
  <2> QED
    BY <1>1, <2>1, <2>2, MembersOnRecord
<1>3. ASSUME NEW x \in Agents, ArchiveAgent(x) PROVE MembershipStands'
  <2> DEFINE e == Record("archived", x)
  <2>1. e \in Entries /\ e.kind = "archived"
    BY RecordFields
  <2>2. PICK known \in durable..Len(log) : Append1(e, known)
    BY <1>3 DEF ArchiveAgent
  <2>3. UNCHANGED <<agents, mat, torn, collected, adrift, topologies, sessions, owed>>
    BY <1>3 DEF ArchiveAgent
  <2> HIDE DEF e
  <2> QED
    BY <2>1, <2>2, <2>3, MembersOnRecord
<1>4. ASSUME NEW s \in Spawned, SpawnSession(s) PROVE MembershipStands'
  <2> DEFINE e == Record("spawned", s)
  <2>1. e \in Entries /\ e.kind = "spawned"
    BY RecordFields, RecordsDiffer
  <2>2. /\ Append1(e, durable) /\ Owner(s) \in agents /\ sessions' = sessions \cup {s}
        /\ UNCHANGED <<agents, mat, torn, collected, adrift, topologies, owed>>
    BY <1>4 DEF SpawnSession
  <2> HIDE DEF e
  <2> QED
    BY <1>1, <2>1, <2>2, MembersOnRecord
<1>5. ASSUME NEW s \in Spawned, RemoveSession(s) PROVE MembershipStands'
  <2> DEFINE e == Record("vanished", s)
  <2>1. e \in Entries /\ e.kind = "vanished"
    BY RecordFields, RecordsDiffer
  <2>2. /\ Append1(e, durable) /\ sessions' = sessions \ {s}
        /\ UNCHANGED <<agents, mat, torn, collected, adrift, topologies, owed>>
    BY <1>5 DEF RemoveSession
  <2> HIDE DEF e
  <2> QED
    BY <1>1, <2>1, <2>2, MembersOnRecord
<1> QED
  BY <1>2, <1>3, <1>4, <1>5

\* The next record of a removal.
LEMMA MembersPaid ==
  ASSUME TypeInv, RecordStep, MembershipStands, PayOwed
  PROVE  MembershipStands'
<1> DEFINE e == Head(owed)
<1>1. /\ owed # <<>> /\ e.kind \notin {"sweep", "cascade"} /\ Append1(e, Len(log))
      /\ owed' = Tail(owed)
      /\ UNCHANGED <<agents, sessions, mat, torn, collected, adrift, topologies>>
  BY DEF PayOwed, OnLoop, Sweeping
<1>2. e \in Owing /\ Range(owed) = {e} \cup Range(owed')
  BY <1>1, OwedIs, RangeHeadTail DEF TypeInv, RecordInv
<1>3. e \in Entries /\ e.kind \notin {"rewind", "created"} /\ Len(log) \in durable..Len(log)
  BY <1>1, <1>2, OwingFields, NoNumberBehind DEF Owing
<1>4. \A x : Record("cascade", x) # e
  BY <1>1, RecordsDiffer
<1> HIDE DEF e
<1> QED
  BY <1>1, <1>2, <1>3, <1>4, MembersOnRecord

\* archive_agent(purge=True).
LEMMA MembersPurged ==
  ASSUME TypeInv, RecordStep, MembershipStands, NEW x \in Agents, PurgeAgent(x)
  PROVE  MembershipStands'
<1> DEFINE e == Record("purged", x)
           next == Len(log) + 1
<1>1. /\ Working /\ owed = <<>> /\ agents' = agents \ {x} /\ sessions' = sessions \ Of(x)
      /\ Append1(e, durable) /\ Cascade(x, Vanishing(x), <<>>)
      /\ UNCHANGED <<mat, torn, collected, adrift>>
  BY DEF PurgeAgent, RemoveDirectory
<1>2. e \in Entries /\ e.kind = "purged" /\ e.who = x /\ durable \in durable..Len(log)
  BY RecordFields, RecordsDiffer, NoNumberBehind
<1> HIDE DEF e
<1>3. /\ LogCarried /\ ResetsSame /\ RecordsAdded(e) /\ BranchSame(GLOBAL_SCOPE)
      /\ \A n \in DOMAIN log' : n \notin DOMAIN log => log'[n] = e
  BY <1>1, <1>2, AppendCarries
<1>4. LogInv /\ floor \in Nat /\ floor' \in Nat /\ LogInv'
  BY DEF TypeInv, RecordInv, RecordStep, Typed, FilesTyped
<1>5. /\ \A y : IsThrough(y)' => IsThrough(y)
      /\ Steady' => Steady
  BY <1>1 DEF IsThrough, Steady
<1>6. (\A y : Births(y)' = Births(y)) /\ Purgings(x)' = Purgings(x) \cup {next}
  BY <1>2, <1>3 DEF RecordsAdded, Added
<1>7. ASSUME NEW y \in Agents PROVE AgentAccounted(y)'
  <2>1. AgentAccounted(y)
    BY DEF MembershipStands
  <2>2. CASE y = x
    BY <1>6, <2>2 DEF AgentAccounted, IsMissed
  <2>3. CASE y # x
    <3>1. y \notin agents' => /\ y \notin agents /\ Births(y)' \subseteq Births(y)
                              /\ IsThrough(y)' => IsThrough(y) /\ BranchSame(GLOBAL_SCOPE)
      BY <1>1, <1>3, <1>5, <1>6, <2>3
    <3>2. collected \subseteq collected'
      BY <1>1
    <3> QED
      BY <1>3, <1>4, <2>1, <3>1, <3>2, AccountKept
  <2> QED
    BY <2>2, <2>3
<1>8. ASSUME NEW s \in Spawned PROVE OwnerAccounted(s)'
  <2>1. OwnerAccounted(s) /\ Owner(s) \in Agents
    BY LifecycleAssumption DEF MembershipStands, Owner
  <2>2. Held(s)' <=> Held(s)
    BY <1>3, HeldKept
  <2>3. s \in Of(x) <=> Owner(s) = x
    BY DEF Of, Owner
  <2>4. Owner(s) = x /\ Held(s) => RemadeWithoutOwner(s)'
    <3> SUFFICES ASSUME Owner(s) = x, Held(s) PROVE RemadeWithoutOwner(s)'
      OBVIOUS
    <3>1. PICK r \in Resets : log[r].scope = s
      BY DEF Held
    <3>2. r \in 1..Len(log) /\ Len(log) \in Nat /\ r \in Resets' /\ log'[r].scope = s
      BY <1>3, <1>4, <3>1, LogIsWellFormed DEF ResetsSame, Resets
    <3>3. r \in 1..next /\ IsRewind(r)' /\ next \in Purgings(x)'
      BY <1>6, <3>2 DEF Resets
    <3>4. next \in Those("purged", Owner(s), DOMAIN log)'
      BY <3>3 DEF Purgings, Owner
    <3> HIDE DEF next
    <3> QED
      BY <3>2, <3>3, <3>4 DEF RemadeWithoutOwner
  <2>5. collected \subseteq collected'
    BY <1>1
  <2> QED
    BY <1>1, <1>3, <1>4, <2>1, <2>2, <2>3, <2>4, <2>5, OwnerKeptOn
<1>9. /\ \A t \in Topologies : topologies'[t] \subseteq topologies[t] \ {x}
      /\ \A r \in Range(owed') : r.kind = "topology" =>
           \E t \in Topologies : r.members \subseteq topologies[t]
  <2>1. \A t \in Topologies : topologies'[t] \subseteq topologies[t] \ {x}
    BY <1>1, Zenon DEF Cascade
  <2>2. ASSUME NEW r \in Range(owed'), r.kind = "topology"
        PROVE  \E t \in Topologies : r.members \subseteq topologies[t]
    <3>1. PICK t \in Topologies : r = Drawn(t, topologies'[t])
      BY <2>2, PurgeOwes, RecordsDiffer
    <3>2. r.members = topologies'[t]
      BY <3>1 DEF Drawn
    <3> QED
      BY <2>1, <3>2
  <2> QED
    BY <2>1, <2>2
<1>10. \A y : Record("cascade", y) \notin Range(owed)
  BY <1>1 DEF Range
<1>11. LoopStands'
  BY <1>1 DEF LoopStands, Working
<1>12. /\ collected \subseteq collected'
       /\ \A n \in DOMAIN log' : n \notin DOMAIN log => log'[n].kind # "topology"
       /\ \A t \in Topologies : /\ topologies'[t] \subseteq topologies[t]
                                 /\ t \notin adrift' => t \notin adrift
       /\ Steady' => Steady /\ BranchSame(GLOBAL_SCOPE)
       /\ \A t \in Topologies : \A y \in topologies'[t] : y \in agents => y \in agents'
  BY <1>1, <1>2, <1>3, <1>5, <1>9
<1> QED
  BY <1>3, <1>7, <1>8, <1>9, <1>10, <1>11, <1>12, MembersFrame

\* _purge_archived_below, one agent.
LEMMA MembersSwept ==
  ASSUME TypeInv, RecordStep, MembershipStands, SweepAgent
  PROVE  MembershipStands'
<1> DEFINE x == Head(owed).who
           rest == Tail(owed)
           gone == agents \ agents'
<1>1. /\ owed # <<>> /\ UNCHANGED <<log, floor, mat, torn, adrift, topologies>>
      /\ Head(owed).kind = "sweep"
      /\ \/ /\ agents' = agents \ {x} /\ sessions' = sessions \ Of(x)
            /\ collected' = collected \cup {x}
            /\ owed' = Vanishing(x) \o <<Record("cascade", x)>> \o rest
         \/ UNCHANGED <<agents, sessions, collected>> /\ owed' = rest
  BY DEF SweepAgent, RemoveDirectory
<1>2. /\ Head(owed) \in Owing /\ rest \in Seq(Owing) /\ Range(owed) = {Head(owed)} \cup Range(rest)
  BY <1>1, OwedIs, RangeHeadTail DEF TypeInv, RecordInv
<1>3. x \in Agents /\ \A y : Record("cascade", y) # Head(owed)
  BY <1>1, <1>2, OwingFields, RecordsDiffer
<1> HIDE DEF x, rest
<1>4. Range(Vanishing(x) \o <<Record("cascade", x)>> \o rest)
        = {Record("vanished", s) : s \in Of(x) \cap sessions} \cup {Record("cascade", x)} \cup Range(rest)
  <2> DEFINE a == Vanishing(x)
             b == <<Record("cascade", x)>>
             c == a \o b
  <2>1. a \in Seq(Owing) /\ Range(a) = {Record("vanished", s) : s \in Of(x) \cap sessions}
    BY VanishingIs, VanishingRange
  <2>2. b \in Seq(Owing) /\ Range(b) = {Record("cascade", x)}
    BY <1>3, RecordFields DEF Range
  <2> HIDE DEF a, b
  <2>3. c \in Seq(Owing) /\ Range(c) = Range(a) \cup Range(b)
    BY <2>1, <2>2, RangeOfBoth
  <2> HIDE DEF c
  <2>4. Range(c \o rest) = Range(c) \cup Range(rest)
    BY <1>2, <2>3, RangeOfBoth
  <2> QED
    BY <2>1, <2>2, <2>3, <2>4 DEF a, b, c
<1>5. /\ \A r \in Range(owed') : r.kind = "topology" => r \in Range(owed)
      /\ \A y : Record("cascade", y) \in Range(owed) => Record("cascade", y) \in Range(owed')
      /\ \A y \in gone : y \in collected' /\ Record("cascade", y) \in Range(owed')
  <2>1. Range(rest) \subseteq Range(owed')
    BY <1>1, <1>4
  <2>2. \A s : Record("vanished", s).kind # "topology" /\ Record("cascade", s).kind # "topology"
    BY RecordsDiffer
  <2>3. \A r \in Range(owed') : r.kind = "topology" => r \in Range(rest)
    BY <1>1, <1>4, <2>2
  <2>4. \A y \in gone : y = x /\ x \in collected' /\ Record("cascade", x) \in Range(owed')
    BY <1>1, <1>4
  <2> QED
    BY <1>2, <1>3, <2>1, <2>3, <2>4
<1>6. /\ agents' \subseteq agents /\ collected \subseteq collected'
      /\ \A s \in sessions' : s \in sessions
  BY <1>1
<1> HIDE DEF gone
<1>7. LogInv /\ floor \in Nat /\ floor' \in Nat /\ floor <= floor'
  BY <1>1 DEF TypeInv, RecordInv, Typed, FilesTyped
<1>8. LogCarried /\ ResetsSame /\ BranchSame(GLOBAL_SCOPE) /\ \A y : Births(y)' = Births(y)
  BY <1>1, <1>7, CarriedSame, BranchUnmoved
<1>9. (\A y : IsThrough(y)' => IsThrough(y)) /\ (Steady' => Steady)
  BY <1>1 DEF IsThrough, Steady
<1>10. ASSUME NEW y \in Agents PROVE AgentAccounted(y)'
  <2>1. AgentAccounted(y)
    BY DEF MembershipStands
  <2>2. CASE y \in gone
    BY <1>5, <2>2 DEF AgentAccounted, IsMissed
  <2>3. CASE y \notin gone
    <3>1. y \notin agents' => /\ y \notin agents /\ Births(y)' \subseteq Births(y)
                              /\ IsThrough(y)' => IsThrough(y) /\ BranchSame(GLOBAL_SCOPE)
      BY <1>8, <1>9, <2>3 DEF gone
    <3> QED
      BY <1>6, <1>7, <1>8, <2>1, <3>1, AccountKept
  <2> QED
    BY <2>2, <2>3
<1>11. ASSUME NEW s \in Spawned PROVE OwnerAccounted(s)'
  <2>1. OwnerAccounted(s) /\ Owner(s) \in Agents
    BY LifecycleAssumption DEF MembershipStands, Owner
  <2>2. Held(s)' <=> Held(s)
    BY <1>8, HeldKept
  <2>3. Owner(s) \in agents => Owner(s) \in agents' \/ Owner(s) \in collected'
    BY <1>5 DEF gone
  <2> QED
    BY <1>6, <1>7, <1>8, <2>1, <2>2, <2>3, OwnerKeptOn
<1>12. LoopStands'
  BY <1>1, <1>5, <1>6 DEF MembershipStands, LoopStands, gone
<1>13. \A y : y \in agents \/ Record("cascade", y) \in Range(owed) =>
                y \in agents' \/ Record("cascade", y) \in Range(owed')
  BY <1>5 DEF gone
<1> QED
  BY <1>1, <1>5, <1>6, <1>8, <1>9, <1>10, <1>11, <1>12, <1>13, MembersFrame

\* Nothing is recorded and nobody removed.
LEMMA MembersUnrecorded ==
  ASSUME TypeInv, RecordStep, MembershipStands, log' = log, floor <= floor',
         UNCHANGED collected, agents \subseteq agents',
         adrift' \cap (Agents \cup Topologies) = adrift \cap (Agents \cup Topologies),
         mat' = mat \/ mat'.step = "none", Steady' => Steady,
         \A s \in Spawned : s \in sessions' => s \in sessions \/ Held(s),
         \A r \in Range(owed') : r.kind = "topology" =>
           r \in Range(owed) \/ \E t \in Topologies : r.members \subseteq topologies[t],
         \A t \in Topologies : topologies'[t] \subseteq topologies[t],
         \A t \in Topologies : \A x \in topologies'[t] :
           Record("cascade", x) \in Range(owed) => Record("cascade", x) \in Range(owed')
  PROVE  MembershipStands'
<1>1. LogCarried
  BY CarriedSame
<1>2. ResetsSame /\ BranchSame(GLOBAL_SCOPE) /\ \A y : Births(y)' = Births(y)
  BY BranchUnmoved
<1>3. \A x : IsThrough(x)' => IsThrough(x)
  BY DEF IsThrough, Steady
<1>4. \A s \in Spawned : s \in sessions' \/ Held(s)' => s \in sessions \/ Held(s) \/ Owner(s) \in agents'
  BY <1>2, HeldKept
<1>5. LoopStands'
  BY DEF MembershipStands, LoopStands
<1>6. \A t \in Topologies : t \notin adrift' => t \notin adrift
  OBVIOUS
<1> QED
  BY <1>1, <1>2, <1>3, <1>4, <1>5, <1>6, MembersQuiet

\* The topologies of an agent swept.
LEMMA MembersCascaded ==
  ASSUME TypeInv, RecordStep, MembershipStands, SweepTopologies
  PROVE  MembershipStands'
<1>1. /\ owed # <<>> /\ Head(owed).kind = "cascade"
      /\ UNCHANGED <<log, floor, agents, sessions, mat, adrift, collected, torn>>
      /\ Cascade(Head(owed).who, <<>>, Tail(owed))
  BY DEF SweepTopologies
<1>2. /\ Tail(owed) \in Seq(Owing) /\ <<>> \in Seq(Owing) /\ Range(<<>>) = {}
      /\ Range(owed) = {Head(owed)} \cup Range(Tail(owed))
  BY <1>1, OwedIs, RangeHeadTail DEF TypeInv, RecordInv, Range
<1>3. Range(owed') = Range(<<>>)
        \cup {Drawn(t, topologies'[t]) : t \in {u \in Topologies : Head(owed).who \in topologies[u]}}
        \cup Range(Tail(owed))
  BY <1>1, <1>2, CascadeOwes
<1>4. \A t \in Topologies : topologies'[t] \subseteq topologies[t] \ {Head(owed).who}
  BY <1>1, Zenon DEF Cascade
<1>5. \A x : x # Head(owed).who /\ Record("cascade", x) \in Range(owed) =>
               Record("cascade", x) \in Range(owed')
  BY <1>2, <1>3, RecordsDiffer
<1>6. ASSUME NEW r \in Range(owed'), r.kind = "topology"
      PROVE  r \in Range(owed) \/ \E t \in Topologies : r.members \subseteq topologies[t]
  <2>1. CASE r \in Range(Tail(owed))
    BY <1>2, <2>1
  <2>2. CASE r \notin Range(Tail(owed))
    <3>1. PICK t \in Topologies : r = Drawn(t, topologies'[t])
      BY <1>2, <1>3, <1>6, <2>2
    <3>2. r.members = topologies'[t]
      BY <3>1 DEF Drawn
    <3> QED
      BY <1>4, <3>2
  <2> QED
    BY <2>1, <2>2
<1>7. \A t \in Topologies : \A x \in topologies'[t] :
        Record("cascade", x) \in Range(owed) => Record("cascade", x) \in Range(owed')
  BY <1>4, <1>5
<1>8. /\ floor <= floor' /\ (Steady' => Steady)
      /\ \A t \in Topologies : topologies'[t] \subseteq topologies[t]
  BY <1>1, <1>4 DEF Steady, TypeInv, Typed, FilesTyped
<1> QED
  BY <1>1, <1>6, <1>7, <1>8, MembersUnrecorded

\* truncate_wal_if_eligible.
LEMMA MembersTruncated ==
  ASSUME TypeInv, RecordStep, MembershipStands, NEW f \in 2..Len(log), Truncate(f)
  PROVE  MembershipStands'
<1> DEFINE D == {a \in agents : archived[a] # NoMarker}
           S == {Record("sweep", x) : x \in D}
<1>1. /\ UNCHANGED <<log, floor, agents, sessions, mat, adrift, collected, torn, topologies>>
      /\ owed = <<>> /\ owed' = InOrder(S)
  BY DEF Truncate
<1>2. IsFiniteSet(S)
  <2> DEFINE g == [x \in D |-> Record("sweep", x)]
  <2>1. D \subseteq Agents /\ IsFiniteSet(Agents)
    BY LifecycleAssumption DEF TypeInv, Typed, FilesTyped
  <2>2. IsFiniteSet(D)
    BY <2>1, FS_Subset
  <2>3. DOMAIN g = D /\ S = {g[x] : x \in D}
    OBVIOUS
  <2> HIDE DEF g, D, S
  <2> QED
    BY <2>2, <2>3, ImageIsFinite
<1>3. \A r \in S : r.kind # "topology"
  BY RecordsDiffer
<1> HIDE DEF S
<1>4. \A r \in Range(owed') : r.kind # "topology"
  BY <1>1, <1>2, <1>3, RangeInOrder
<1>5. \A r : r \notin Range(owed)
  BY <1>1 DEF Range
<1>6. floor <= floor' /\ (Steady' => Steady)
  BY <1>1 DEF Steady, TypeInv, Typed, FilesTyped
<1> QED
  BY <1>1, <1>4, <1>5, <1>6, MembersUnrecorded

\* The steps that remove no agent and draw no topology.
LEMMA MembersUnmoved ==
  ASSUME TypeInv, RecordStep, MembershipStands,
         \/ RewriteWal \/ MaterialiseSession \/ MaterialisingRaises \/ RevivingRaises
         \/ UNCHANGED vars \/ \E r \in Registries : ChangeConfig(r)
  PROVE  MembershipStands'
<1>1. floor \in Nat /\ floorDue \in Nat
  BY DEF TypeInv, Typed, FilesTyped
<1>2. ASSUME RewriteWal PROVE MembershipStands'
  <2>1. floor <= floor'
    BY <1>1, <1>2, LargerIs DEF RewriteWal
  <2>2. UNCHANGED <<log, agents, sessions, topologies, owed, mat, adrift, collected, torn>>
    BY <1>2 DEF RewriteWal
  <2>3. Steady' => Steady
    BY <2>2 DEF Steady
  <2> QED
    BY <2>1, <2>2, <2>3, MembersUnrecorded
<1>3. ASSUME MaterialiseSession PROVE MembershipStands'
  <2>1. /\ UNCHANGED <<log, floor, agents, topologies, owed, adrift, collected, torn>>
        /\ mat.step = "decided" /\ mat.scope # GLOBAL_SCOPE /\ mat' = NotRewinding
        /\ sessions' \subseteq sessions \cup {mat.scope}
    BY <1>3 DEF MaterialiseSession
  <2>2. Held(mat.scope)
    BY <2>1 DEF TypeInv, RecordInv, MatInv, Held
  <2>3. mat'.step = "none" /\ (Steady' => Steady) /\ floor <= floor'
    BY <1>1, <2>1 DEF Steady, NotRewinding
  <2> QED
    BY <2>1, <2>2, <2>3, MembersUnrecorded
<1>4. ASSUME MaterialisingRaises \/ RevivingRaises PROVE MembershipStands'
  <2>1. /\ UNCHANGED <<log, floor, sessions, topologies, owed, adrift, collected>>
        /\ agents \subseteq agents' /\ mat' = NotRewinding
    BY <1>4 DEF MaterialisingRaises, RevivingRaises
  <2>2. mat'.step = "none" /\ floor <= floor'
    BY <1>1, <2>1 DEF NotRewinding
  <2>3. ~Steady'
    BY <1>4 DEF MaterialisingRaises, RevivingRaises, Steady
  <2> QED
    BY <2>1, <2>2, <2>3, MembersUnrecorded
<1>5. ASSUME UNCHANGED vars PROVE MembershipStands'
  <2>1. UNCHANGED <<log, floor, agents, sessions, topologies, owed, mat, adrift, collected, torn>>
    BY <1>5
  <2>2. (Steady' => Steady) /\ floor <= floor'
    BY <1>1, <2>1 DEF Steady
  <2> QED
    BY <2>1, <2>2, MembersUnrecorded
<1>6. ASSUME NEW r \in Registries, ChangeConfig(r) PROVE MembershipStands'
  <2>1. UNCHANGED <<log, floor, agents, sessions, topologies, owed, mat, adrift, collected, torn>>
    BY <1>6 DEF ChangeConfig
  <2>2. (Steady' => Steady) /\ floor <= floor'
    BY <1>1, <2>1 DEF Steady
  <2> QED
    BY <2>1, <2>2, MembersUnrecorded
<1> QED
  BY <1>2, <1>3, <1>4, <1>5, <1>6

\* checkout, up to the reset record.
LEMMA MembersAtCheckout ==
  ASSUME TypeInv, RecordStep, MembershipStands, NEW n \in DOMAIN log, NEW scope \in B!Scopes,
         Checkout(n, scope)
  PROVE  MembershipStands'
<1> DEFINE e == B!Rewound(n, scope)
           next == Len(log) + 1
<1>1. /\ Append1(e, next) /\ mat' = Decided(scope) /\ mat.step = "none"
      /\ scope # GLOBAL_SCOPE => scope \in sessions
      /\ adrift \subseteq adrift'
      /\ UNCHANGED <<agents, sessions, topologies, owed, collected, torn>>
  BY DEF Checkout, Working
<1>2. /\ LogInv /\ LogInv' /\ Grew(e) /\ Resets' = Resets \cup {next}
      /\ \A r \in Resets : r < next
      /\ scope # GLOBAL_SCOPE => Now(GLOBAL_SCOPE)' = Now(GLOBAL_SCOPE) \cup {next}
  BY <1>1, ResetAppended DEF TypeInv, RecordInv
<1>3. e.kind = "rewind" /\ e.scope = scope
  BY DEF B!Rewound
<1>4. mat'.step = "decided" /\ mat'.scope = scope
  BY <1>1, DecidedIs
<1>5. floor \in Nat /\ floor' = floor
  BY <1>1 DEF Append1, TypeInv, Typed, FilesTyped
<1>6. DOMAIN log = 1..Len(log) /\ Len(log) \in Nat /\ DOMAIN log' = 1..next
  BY <1>2, LogIsWellFormed DEF LogInv, Grew
<1> HIDE DEF e
<1>7. LogCarried
  BY <1>1, <1>2, <1>5, CarriedOn
<1>8. \A x : Births(x)' = Births(x)
  <2>1. RecordsAdded(e)
    BY <1>2, RecordsOnAppend
  <2> QED
    BY <1>3, <2>1 DEF RecordsAdded, Added
<1>9. ASSUME Steady' PROVE Steady /\ BranchSame(GLOBAL_SCOPE)
  <2>1. scope # GLOBAL_SCOPE /\ ~torn
    BY <1>1, <1>4, <1>9 DEF Steady
  <2>2. Now(GLOBAL_SCOPE)' = Now(GLOBAL_SCOPE) \cup {next} /\ next \notin DOMAIN log
    BY <1>2, <1>6, <2>1
  <2> QED
    BY <1>1, <2>1, <2>2 DEF Steady, BranchSame
<1>10. \A x : IsThrough(x)' => IsThrough(x) /\ BranchSame(GLOBAL_SCOPE)
  BY <1>4, <1>9 DEF IsThrough
<1>11. log'[next] = e
  BY <1>2 DEF Grew
<1>12. ASSUME NEW s \in Spawned, Held(s)' PROVE s \in sessions
  <2>1. PICK r \in Resets' : log'[r].scope = s /\ \A k \in Resets' : k <= r
    BY <1>12 DEF Held
  <2>2. next \in Resets' /\ next <= r
    BY <1>2, <2>1
  <2>3. r = next
    BY <1>2, <2>1, <2>2, LogIsWellFormed
  <2>4. s = scope
    BY <1>3, <1>11, <2>1, <2>3
  <2> QED
    BY <1>1, <2>4, LifecycleAssumption
<1>13. \A m \in DOMAIN log' : m \notin DOMAIN log => log'[m].kind # "topology"
  <2>1. \A m \in DOMAIN log' : m \notin DOMAIN log => m = next
    BY <1>6
  <2> QED
    BY <1>3, <1>11, <2>1
<1>14. /\ LoopStands' /\ agents \subseteq agents'
       /\ \A s \in Spawned : s \in sessions' \/ Held(s)' =>
            s \in sessions \/ Held(s) \/ Owner(s) \in agents'
       /\ \A t \in Topologies : /\ topologies'[t] \subseteq topologies[t]
                                 /\ t \notin adrift' => t \notin adrift
  BY <1>1, <1>4, <1>12 DEF LoopStands
<1> QED
  BY <1>1, <1>7, <1>8, <1>9, <1>10, <1>13, <1>14, MembersQuiet

\* The agents a checkout finds and makes again.
LEMMA MembersRevived ==
  ASSUME TypeInv, RecordStep, OnceStands, MembershipStands, Rematerialise
  PROVE  MembershipStands'
<1>1. /\ mat.step = "decided" /\ mat.scope = GLOBAL_SCOPE /\ agents' = agents \cup Revived
      /\ UNCHANGED <<log, floor, archived, sessions, topologies, owed, adrift, collected, torn>>
  BY DEF Rematerialise
<1>2. mat'.step = "agents" /\ mat'.scope = GLOBAL_SCOPE /\ mat'.todo = agents'
  BY <1>1 DEF Rematerialise, TypeInv, RecordInv, MatInv
<1>3. LogInv /\ floor \in Nat
  BY DEF TypeInv, RecordInv, Typed, FilesTyped
<1>4. /\ LogCarried /\ ResetsSame /\ BranchSame(GLOBAL_SCOPE)
      /\ \A y : Births(y)' = Births(y) /\ Purgings(y)' = Purgings(y)
  BY <1>1, <1>3, CarriedSame, BranchUnmoved
<1>5. ~Steady'
  BY <1>2 DEF Steady
<1>6. ASSUME NEW x \in Agents PROVE AgentAccounted(x)'
  <2> SUFFICES ASSUME x \notin adrift, x \notin agents, x \notin Revived, Births(x) # {},
                      x \notin collected, Purgings(x) = {}
               PROVE  IsMissed(x)'
    BY <1>1, <1>4 DEF AgentAccounted, IsMissed
  <2>1. LeftBehind(x) /\ AgentOnce(x)
    BY DEF MembershipStands, AgentAccounted, IsMissed, OnceStands
  <2>2. LeftBehind(x)'
    BY <1>1, <1>4, <2>1, LeftBehindCarried
  <2>3. ASSUME NEW b \in Births(x), b \in Now(GLOBAL_SCOPE), Kept(b) PROVE FALSE
    <3>1. b \in InWal("created", x) /\ b \in DOMAIN log
      BY <2>3 DEF Births, Those, InWal
    <3>2. CreatedAt(x) # 0
      <4>1. InWal("created", x) \in SUBSET DOMAIN log
        BY DEF InWal
      <4> QED
        BY <1>3, <3>1, <4>1, ScanFinds DEF CreatedAt
    <3>3. CreatedAt(x) = b
      BY <1>3, <2>1, <2>3, <3>2, ScanFindsOne DEF CreatedAt, Births, AgentOnce
    <3>4. Active(b, GLOBAL_SCOPE)
      BY <1>3, <2>3, <3>1, NowIs, LogIsWellFormed
    <3>5. ~Purged(x)
      BY DEF Purged, InWal, Purgings, Those
    <3>6. PICK s \in Of(x) : s \in sessions
      BY <3>2, <3>3, <3>4, <3>5 DEF Revived, HasDir
    <3>7. s \in Spawned /\ Owner(s) = x
      BY DEF Of, Owner
    <3>8. RemadeWithoutOwner(s)
      BY <3>6, <3>7 DEF MembershipStands, OwnerAccounted
    <3> QED
      BY <3>7, <3>8 DEF RemadeWithoutOwner, Purgings
  <2>4. \A b \in Births(x)' : b \notin Now(GLOBAL_SCOPE)' \/ ~Kept(b)'
    BY <1>1, <1>4, <2>3 DEF Now, Kept, IsRewind
  <2> QED
    BY <2>2, <2>4 DEF IsMissed
<1>7. ASSUME NEW s \in Spawned PROVE OwnerAccounted(s)'
  <2>1. OwnerAccounted(s) /\ Owner(s) \in Agents
    BY LifecycleAssumption DEF MembershipStands, Owner
  <2>2. Held(s)' <=> Held(s)
    BY <1>4, HeldKept
  <2> QED
    BY <1>1, <1>3, <1>4, <2>1, <2>2, OwnerKeptOn
<1>8. LoopStands'
  BY <1>2 DEF LoopStands
<1> QED
  BY <1>1, <1>4, <1>5, <1>6, <1>7, <1>8, MembersFrame

\* The loop over the agents.
LEMMA MembersMaterialised ==
  ASSUME TypeInv, RecordStep, OnceStands, MembershipStands, NEW x \in Agents, MaterialiseAgent(x)
  PROVE  MembershipStands'
<1>1. /\ x \in mat.todo /\ mat.step = "agents" /\ mat.scope = GLOBAL_SCOPE
      /\ mat.todo \subseteq agents \cup collected
  BY DEF MaterialiseAgent, OnceStands, MembershipStands, LoopStands
<1>2. /\ mat'.step = "agents" /\ mat'.scope = GLOBAL_SCOPE /\ mat'.todo = mat.todo \ {x}
      /\ UNCHANGED <<log, floor, topologies, owed, adrift, collected, torn>>
  <2>1. mat \in [step : {"none", "decided", "agents"}, scope : B!Scopes,
                 todo : SUBSET Agents, purges : SUBSET Spawned]
    BY DEF TypeInv, RecordInv, MatInv
  <2> QED
    BY <1>1, <2>1 DEF MaterialiseAgent
<1>3. LogInv /\ floor \in Nat
  BY DEF TypeInv, RecordInv, Typed, FilesTyped
<1>4. /\ LogCarried /\ ResetsSame /\ BranchSame(GLOBAL_SCOPE)
      /\ \A y : Births(y)' = Births(y) /\ Purgings(y)' = Purgings(y)
  BY <1>2, <1>3, CarriedSame, BranchUnmoved
<1>5. ~Steady'
  BY <1>2 DEF Steady
<1>6. /\ Doomed(x) => agents' = agents \ {x} /\ sessions' = sessions \ Of(x)
      /\ ~Doomed(x) => UNCHANGED <<agents, sessions>>
  BY DEF MaterialiseAgent
<1>7. ASSUME Doomed(x) PROVE AgentAccounted(x)'
  <2>1. CASE Purged(x)
    <3>1. Purgings(x) # {}
      BY <2>1 DEF Purged, InWal, Purgings, Those
    <3> QED
      BY <1>4, <3>1 DEF AgentAccounted, IsMissed
  <2>2. CASE CreatedAt(x) # 0 /\ ~Active(CreatedAt(x), GLOBAL_SCOPE)
    <3> DEFINE b == CreatedAt(x)
    <3>1. b \in Births(x) /\ b \in 1..Len(log) /\ b \in DOMAIN log
      BY <1>3, <2>2, ScanFindsOne DEF CreatedAt, Births, Those
    <3>2. b \notin Now(GLOBAL_SCOPE)
      BY <1>3, <2>2, <3>1, NowIs
    <3>3. \A m \in Births(x) : m = b
      BY <3>1 DEF OnceStands, AgentOnce
    <3> HIDE DEF b
    <3>4. LeftBehind(x)
      BY <1>3, <3>1, <3>2, OffTheBranch DEF LeftBehind
    <3>5. x \notin adrift' => LeftBehind(x)'
      BY <1>4, <3>4, LeftBehindCarried
    <3>6. \A m \in Births(x)' : m \notin Now(GLOBAL_SCOPE)'
      BY <1>2, <1>4, <3>2, <3>3 DEF Now
    <3> QED
      BY <3>5, <3>6 DEF AgentAccounted, IsMissed
  <2> QED
    BY <1>7, <2>1, <2>2 DEF Doomed
<1>8. ASSUME NEW y \in Agents PROVE AgentAccounted(y)'
  <2>1. AgentAccounted(y)
    BY DEF MembershipStands
  <2>2. CASE y = x /\ Doomed(x)
    BY <1>7, <2>2
  <2>3. CASE y = x /\ ~Doomed(x)
    <3>1. x \in agents' \/ x \in collected'
      BY <1>1, <1>2, <1>6, <2>3
    <3> QED
      BY <2>3, <3>1 DEF AgentAccounted, IsMissed
  <2>4. CASE y # x
    <3>1. y \notin agents' => /\ y \notin agents /\ Births(y)' \subseteq Births(y)
                              /\ IsThrough(y)' => IsThrough(y) /\ BranchSame(GLOBAL_SCOPE)
      BY <1>1, <1>2, <1>4, <1>5, <1>6, <2>4 DEF IsThrough
    <3>2. collected \subseteq collected'
      BY <1>2
    <3> QED
      BY <1>2, <1>3, <1>4, <2>1, <3>1, <3>2, AccountKept
  <2> QED
    BY <2>2, <2>3, <2>4
<1>9. ASSUME NEW s \in Spawned PROVE OwnerAccounted(s)'
  <2>1. OwnerAccounted(s) /\ Owner(s) \in Agents
    BY LifecycleAssumption DEF MembershipStands, Owner
  <2>2. ~Held(s) /\ ~Held(s)'
    BY <1>1, <1>4, NobodyIsHeld, HeldKept
  <2>3. sessions' \subseteq sessions /\ (Owner(s) \in agents \ agents' => s \notin sessions')
    <3>1. Owner(s) = x <=> s \in Of(x)
      BY DEF Of, Owner
    <3> QED
      BY <1>6, <3>1
  <2> QED
    BY <1>2, <1>3, <1>4, <2>1, <2>2, <2>3, OwnerKeptOn
<1>10. LoopStands'
  BY <1>1, <1>2, <1>6 DEF LoopStands
<1>11. \A t \in Topologies : topologies'[t] \subseteq topologies[t] /\ (t \notin adrift' => t \notin adrift)
  BY <1>2
<1> QED
  BY <1>2, <1>4, <1>5, <1>8, <1>9, <1>10, <1>11, MembersFrame

\* Behind the loop: a topology is what its last record on the branch says, and who it
\* names is there, removed for good, or was not of the branch when it was named.
LEMMA MembersRebuilt ==
  ASSUME TypeInv, RecordStep, OnceStands, MembershipStands, MaterialiseRest
  PROVE  MembershipStands'
<1>1. /\ mat.step = "agents" /\ mat.todo = {} /\ mat' = NotRewinding
      /\ topologies' = [t \in Topologies |-> MembersNow(t)]
      /\ sessions' = sessions \ mat.purges
      /\ UNCHANGED <<log, floor, agents, owed, adrift, collected>>
  BY DEF MaterialiseRest
<1>2. /\ LogInv /\ LogInv' /\ floor \in Nat /\ floor' \in Nat /\ MembersBorn
      /\ DOMAIN log = 1..Len(log)
  BY LogIsWellFormed DEF TypeInv, RecordInv, RecordStep, Typed, FilesTyped, MembershipStands
<1>3. /\ LogCarried /\ ResetsSame /\ BranchSame(GLOBAL_SCOPE)
      /\ \A y : Births(y)' = Births(y)
  BY <1>1, <1>2, CarriedSame, BranchUnmoved
<1>4. mat'.step = "none" /\ LoopStands'
  BY <1>1 DEF NotRewinding, LoopStands
<1>5. \A x : IsThrough(x)
  BY <1>1 DEF IsThrough
<1>6. ASSUME NEW x \in Agents PROVE AgentAccounted(x)'
  <2>1. AgentAccounted(x)
    BY DEF MembershipStands
  <2> QED
    BY <1>1, <1>2, <1>3, <1>5, <2>1, AccountKept
<1>7. ASSUME NEW s \in Spawned PROVE OwnerAccounted(s)'
  <2>1. OwnerAccounted(s) /\ Owner(s) \in Agents
    BY LifecycleAssumption DEF MembershipStands, Owner
  <2>2. Held(s)' <=> Held(s)
    BY <1>3, HeldKept
  <2> QED
    BY <1>1, <1>2, <1>3, <2>1, <2>2, OwnerKeptOn
<1>8. ASSUME NEW t \in Topologies, NEW x \in topologies'[t]
      PROVE  \/ InWal("topology", t) = {} /\ x \in topologies[t]
             \/ \E n \in InWal("topology", t) : n \in Now(GLOBAL_SCOPE) /\ x \in log[n].members
  <2> DEFINE events == InWal("topology", t)
             active == {n \in events : Active(n, GLOBAL_SCOPE)}
  <2>1. x \in MembersNow(t)
    BY <1>1, <1>8
  <2>2. CASE events = {}
    BY <2>1, <2>2 DEF MembersNow
  <2>3. CASE events # {}
    <3>1. active # {} /\ x \in log[Latest(active)].members
      BY <2>1, <2>3 DEF MembersNow
    <3>2. active \in SUBSET DOMAIN log
      BY DEF InWal
    <3>3. Latest(active) \in active
      <4> HIDE DEF active
      <4> QED
        BY <1>2, <3>1, <3>2, ScanFinds
    <3>4. Latest(active) \in 1..Len(log) /\ Latest(active) \in events /\ Active(Latest(active), GLOBAL_SCOPE)
      BY <1>2, <3>2, <3>3
    <3> HIDE DEF active, events
    <3>5. Latest(active) \in Now(GLOBAL_SCOPE)
      BY <1>2, <3>4, NowIs
    <3> QED
      BY <3>1, <3>4, <3>5 DEF events
  <2> QED
    BY <2>2, <2>3
<1>9. \A t : \A n \in InWal("topology", t) : n \in DOMAIN log /\ IsDrawn(log[n], t) /\ Kept(n)
  BY DEF InWal, IsDrawn
<1>10. /\ \A n \in DOMAIN log' : log'[n].kind = "topology" => log'[n].members \subseteq Agents
       /\ \A t \in Topologies : topologies'[t] \subseteq Agents
       /\ \A r \in Range(owed') : r.kind = "topology" => r.members \subseteq Agents
  <2>1. \A n \in DOMAIN log' : log'[n] \in Entries
    BY <1>2 DEF LogInv
  <2>2. \A r \in Range(owed') : r \in Owing
    <3>1. owed' \in Seq(Owing)
      BY DEF RecordStep, TypeInv, RecordInv
    <3> QED
      BY <3>1 DEF Range
  <2>3. \A t \in Topologies : topologies'[t] \subseteq Agents
    BY DEF RecordStep, TypeInv, Typed, FilesTyped
  <2> QED
    BY <2>1, <2>2, <2>3, EntryFields, OwingFields
<1>11. \A t \in Topologies : AreBorn(topologies'[t])
  <2> SUFFICES ASSUME NEW t \in Topologies, NEW x \in topologies'[t], x \notin adrift
               PROVE  Births(x) # {}
    BY DEF AreBorn
  <2>1. CASE x \in topologies[t]
    BY <1>2, <2>1 DEF MembersBorn, AreBorn
  <2>2. CASE x \notin topologies[t]
    <3>1. PICK n \in DOMAIN log : IsDrawn(log[n], t) /\ x \in log[n].members
      BY <1>8, <1>9, <2>2
    <3> QED
      BY <1>2, <3>1 DEF MembersBorn, IsDrawn
  <2> QED
    BY <2>1, <2>2
<1>12. MembersBorn'
  BY <1>1, <1>2, <1>3, <1>10, <1>11, BornStill DEF MembersBorn
<1>13. ASSUME NEW t \in Topologies, NEW x \in topologies'[t] \ adrift', t \notin adrift'
       PROVE  \E n \in DOMAIN log : /\ IsDrawn(log[n], t) /\ x \in log[n].members
                                    /\ n \in Now(GLOBAL_SCOPE) \/ ~Kept(n)
  <2>1. CASE InWal("topology", t) = {} /\ x \in topologies[t]
    <3>1. PICK n \in DOMAIN log : IsDrawn(log[n], t) /\ x \in log[n].members
      BY <1>1, <1>13, <2>1 DEF MembershipStands, MembersDrawn
    <3>2. ~Kept(n)
      BY <2>1, <3>1 DEF InWal, IsDrawn
    <3> QED
      BY <3>1, <3>2
  <2>2. CASE \E n \in InWal("topology", t) : n \in Now(GLOBAL_SCOPE) /\ x \in log[n].members
    BY <1>9, <2>2
  <2> QED
    BY <1>8, <1>13, <2>1, <2>2
<1>14. ASSUME NEW t \in Topologies PROVE MembersDrawn(t)' /\ MembersStand(t)'
  <2>1. MembersDrawn(t)'
    BY <1>1, <1>13 DEF MembersDrawn, IsDrawn
  <2>2. ASSUME t \notin adrift', NEW x \in topologies'[t] \ adrift', x \notin agents'
        PROVE  MemberStands(t, x)'
    <3>1. x \in Agents /\ x \notin adrift /\ x \notin agents /\ Births(x) # {}
      BY <1>1, <1>10, <1>11, <2>2 DEF AreBorn
    <3>2. IsMissed(x) /\ AgentOnce(x)
      BY <3>1 DEF MembershipStands, AgentAccounted, OnceStands
    <3>3. Resets # {}
      BY <1>1 DEF TypeInv, RecordInv, MatInv
    <3>4. RemovedForGood(x) \/ WrittenAskew(t, x)
      <4>1. CASE x \in collected \/ Purgings(x) # {}
        BY <4>1 DEF RemovedForGood, Purgings
      <4>2. CASE LeftBehind(x) /\ \A b \in Births(x) : b \notin Now(GLOBAL_SCOPE) \/ ~Kept(b)
        <5>1. PICK b \in Births(x), r \in Resets : b \notin Way(log, GLOBAL_SCOPE)[r]
          BY <4>2 DEF LeftBehind
        <5>2. \A m \in Births(x) : m = b
          BY <3>2 DEF AgentOnce
        <5>3. CASE ~Kept(b)
          BY <5>1, <5>3 DEF RemovedForGood, Births, Resets, Way
        <5>4. CASE Kept(b) /\ b \notin Now(GLOBAL_SCOPE)
          <6>1. PICK n \in DOMAIN log : /\ IsDrawn(log[n], t) /\ x \in log[n].members
                                        /\ n \in Now(GLOBAL_SCOPE) \/ ~Kept(n)
            BY <1>13, <2>2
          <6>2. b < n
            BY <1>2, <3>1, <5>2, <6>1 DEF MembersBorn, IsDrawn
          <6>3. b \in DOMAIN log /\ ~IsRewind(b)
            BY <5>1 DEF Births, Those, IsRewind
          <6>4. Kept(n)
            BY <1>2, <5>4, <6>1, <6>2, <6>3 DEF Kept
          <6>5. b \notin Way(log, GLOBAL_SCOPE)[n]
            BY <1>2, <5>4, <6>1, <6>4, BranchOfBranch
          <6>6. n \in Those("topology", t, Now(GLOBAL_SCOPE))
            BY <6>1, <6>4 DEF Those, IsDrawn
          <6> QED
            BY <5>1, <6>1, <6>2, <6>5, <6>6 DEF WrittenAskew, Births, Way
        <5> QED
          BY <4>2, <5>1, <5>3, <5>4
      <4> QED
        BY <1>5, <3>2, <4>1, <4>2 DEF IsMissed
    <3>5. CASE RemovedForGood(x)
      BY <1>1, <1>2, <1>3, <3>1, <3>3, <3>5, SoundAgain DEF MemberStands
    <3>6. CASE WrittenAskew(t, x)
      BY <1>1, <1>2, <1>3, <2>2, <3>1, <3>6, AskewStill DEF MemberStands
    <3> QED
      BY <3>4, <3>5, <3>6
  <2>3. \A x \in topologies'[t] \ adrift' : t \notin adrift' => MemberStands(t, x)'
    BY <2>2 DEF MemberStands
  <2> QED
    BY <2>1, <2>3 DEF MembersStand
<1> QED
  BY <1>4, <1>6, <1>7, <1>12, <1>14 DEF MembershipStands

\* create_topology, add_topology_member, remove_topology_member and delete_topology.
LEMMA MembersAreDrawn ==
  ASSUME TypeInv, RecordStep, OnceStands, MembershipStands, NEW t \in Topologies,
         NEW members \in SUBSET Agents, DrawTopology(t, members),
         members \subseteq agents \cup topologies[t]
  PROVE  MembershipStands'
<1> DEFINE e == Drawn(t, members)
           next == Len(log) + 1
<1>1. /\ mat.step = "none" /\ topologies' = [topologies EXCEPT ![t] = members]
      /\ adrift' = IF IsOwed(t) \/ torn THEN adrift \cup {t}
                   ELSE IF members \subseteq agents THEN adrift \ {t} ELSE adrift
      /\ Append1(e, durable)
      /\ UNCHANGED <<agents, sessions, owed, mat, collected, torn>>
  BY DEF DrawTopology, Working
<1>2. /\ LogInv /\ LogInv' /\ floor \in Nat /\ floor' \in Nat /\ MembersBorn
      /\ topologies \in [Topologies -> SUBSET Agents] /\ torn \in BOOLEAN
  BY DEF TypeInv, RecordInv, RecordStep, Typed, FilesTyped, MembershipStands
<1>3. e \in Entries /\ IsDrawn(e, t) /\ e.members = members /\ e.kind # "rewind"
  BY RecordFields DEF Drawn, IsDrawn
<1>4. (\A x \in Agents : x \in adrift' <=> x \in adrift)
      /\ (\A q \in Topologies : q # t => (q \in adrift' <=> q \in adrift))
  BY <1>1, LifecycleAssumption
<1>5. t \notin adrift' => ~torn /\ (members \subseteq agents \/ t \notin adrift)
  BY <1>1
<1> HIDE DEF e
<1>6. /\ LogCarried /\ ResetsSame /\ RecordsAdded(e) /\ BranchSame(GLOBAL_SCOPE)
      /\ \A n \in DOMAIN log' : n \notin DOMAIN log => log'[n] = e
      /\ next \in DOMAIN log' /\ log'[next] = e
  BY <1>1, <1>3, <1>4, NoNumberBehind, AppendCarries
<1>7. /\ \A x : Births(x)' = Births(x)
      /\ \A x : IsThrough(x)' => IsThrough(x)
      /\ Steady' => Steady
  <2>1. \A x : Births(x)' = Births(x)
    BY <1>3, <1>6 DEF RecordsAdded, Added, IsDrawn
  <2> QED
    BY <1>1, <2>1 DEF IsThrough, Steady
<1>8. ASSUME NEW x \in Agents PROVE AgentAccounted(x)'
  <2>1. AgentAccounted(x)
    BY DEF MembershipStands
  <2> QED
    BY <1>1, <1>2, <1>6, <1>7, <2>1, AccountKept
<1>9. ASSUME NEW s \in Spawned PROVE OwnerAccounted(s)'
  <2>1. OwnerAccounted(s) /\ Owner(s) \in Agents
    BY LifecycleAssumption DEF MembershipStands, Owner
  <2>2. Held(s)' <=> Held(s)
    BY <1>6, HeldKept
  <2> QED
    BY <1>1, <1>2, <1>6, <2>1, <2>2, OwnerKeptOn
<1>10. AreBorn(members)
  <2> SUFFICES ASSUME NEW x \in members, x \notin adrift PROVE Births(x) # {}
    BY DEF AreBorn
  <2>1. x \in Agents /\ (x \in agents \/ x \in topologies[t])
    OBVIOUS
  <2> QED
    BY <1>2, <2>1 DEF OnceStands, AgentOnce, MembersBorn, AreBorn
<1>11. /\ \A n \in DOMAIN log' : log'[n].kind = "topology" => log'[n].members \subseteq Agents
       /\ \A q \in Topologies : topologies'[q] \subseteq Agents
       /\ \A r \in Range(owed') : r.kind = "topology" => r.members \subseteq Agents
  <2>1. \A n \in DOMAIN log' : log'[n] \in Entries
    BY <1>2 DEF LogInv
  <2>2. \A r \in Range(owed') : r \in Owing
    <3>1. owed' \in Seq(Owing)
      BY DEF RecordStep, TypeInv, RecordInv
    <3> QED
      BY <3>1 DEF Range
  <2> QED
    BY <1>1, <1>2, <2>1, <2>2, EntryFields, OwingFields
<1>12. MembersBorn'
  <2>1. \A q \in Topologies : AreBorn(topologies'[q])
    BY <1>1, <1>2, <1>10 DEF MembersBorn
  <2>2. \A n \in DOMAIN log' : n \notin DOMAIN log /\ log'[n].kind = "topology" =>
          AreBorn(log'[n].members)
    BY <1>3, <1>6, <1>10
  <2>3. \A r \in Range(owed') : r.kind = "topology" => AreBorn(r.members)
    BY <1>1, <1>2 DEF MembersBorn
  <2> QED
    BY <1>2, <1>6, <1>11, <2>1, <2>2, <2>3, BornStill
<1>13. ASSUME NEW q \in Topologies, q # t PROVE MembersDrawn(q)' /\ MembersStand(q)'
  <2>1. MembersDrawn(q) /\ MembersStand(q)
    BY DEF MembershipStands
  <2>2. topologies'[q] = topologies[q] /\ (q \notin adrift' => q \notin adrift)
    BY <1>1, <1>2, <1>4, <1>13
  <2>3. \A x : x \in agents \/ Record("cascade", x) \in Range(owed) => MemberStands(q, x)'
    BY <1>1 DEF MemberStands
  <2> QED
    BY <1>1, <1>2, <1>6, <1>7, <2>1, <2>2, <2>3, MembersStill
<1>14. topologies'[t] = members
  BY <1>1, <1>2
<1>15. MembersDrawn(t)'
  BY <1>3, <1>6, <1>14 DEF MembersDrawn, IsDrawn
<1>16. MembersStand(t)'
  <2> SUFFICES ASSUME t \notin adrift', Steady', NEW x \in members, x \notin adrift'
               PROVE  MemberStands(t, x)'
    BY <1>14 DEF MembersStand
  <2>1. CASE x \in agents
    BY <1>1, <2>1 DEF MemberStands
  <2>2. CASE x \notin agents
    <3>1. x \in topologies[t] /\ t \notin adrift /\ x \notin adrift /\ Steady
      BY <1>4, <1>5, <1>7, <2>2
    <3>2. MemberStands(t, x)
      BY <3>1 DEF MembershipStands, MembersStand
    <3>3. CASE RemovedForGood(x) /\ Resets # {}
      BY <1>1, <1>2, <1>6, <3>3, SoundAgain DEF MemberStands
    <3>4. CASE WrittenAskew(t, x)
      BY <1>1, <1>2, <1>6, <3>1, <3>4, AskewStill DEF MemberStands
    <3>5. CASE Record("cascade", x) \in Range(owed)
      BY <1>1, <3>5 DEF MemberStands
    <3> QED
      BY <2>2, <3>2, <3>3, <3>4, <3>5 DEF MemberStands
  <2> QED
    BY <2>1, <2>2
<1>17. LoopStands'
  BY <1>1 DEF LoopStands
<1>18. \A q \in Topologies : MembersDrawn(q)' /\ MembersStand(q)'
  BY <1>13, <1>15, <1>16
<1> QED
  BY <1>8, <1>9, <1>12, <1>17, <1>18 DEF MembershipStands

\* Death, and what the new process sets out to do.
LEMMA MembersAfterDeath ==
  ASSUME TypeInv, RecordStep, MembershipStands, Crash
  PROVE  MembershipStands'
<1>1. LogCarried /\ BranchSame(GLOBAL_SCOPE) /\ ResetsSame /\ CutBack
  BY CarriedBack, RecoveringIs
<1>2. /\ UNCHANGED <<agents, topologies, collected, torn>> /\ owed' = <<>>
      /\ mat' = Recovering(log') /\ sessions' \subseteq sessions
      /\ adrift \subseteq adrift' /\ {t \in Topologies : CutOff(t)} \subseteq adrift'
  BY DEF Crash
<1>3. mat'.step # "agents"
  BY <1>2 DEF Recovering, Decided, NotRewinding
<1>4. Steady' => Steady
  <2> SUFFICES ASSUME Steady', mat.step # "none" PROVE Steady
    BY <1>2 DEF Steady
  <2>1. PICK n \in Resets : log[n].scope = mat.scope /\ \A k \in Resets : k <= n
    BY DEF TypeInv, RecordInv, MatInv
  <2>2. mat'.step # "none" /\ mat'.scope = mat.scope
    BY <2>1, RecoveringIs
  <2> QED
    BY <1>2, <2>2 DEF Steady
<1>5. \A x : IsThrough(x)' => IsThrough(x)
  BY <1>3, <1>4 DEF IsThrough
<1>6. \A n \in DOMAIN log' : n \in DOMAIN log /\ log'[n] = log[n]
  BY <1>1 DEF CutBack
<1>7. \A x : Births(x)' \subseteq Births(x)
  BY <1>6 DEF Births, Those
<1>8. \A s : Held(s)' <=> Held(s)
  BY <1>1, HeldKept
<1>9. Range(owed') = {}
  BY <1>2 DEF Range
<1>10. ASSUME NEW t \in Topologies \ adrift', NEW x \in topologies'[t]
       PROVE  Record("cascade", x) \notin Range(owed)
  <2>1. ~CutOff(t) /\ x \in topologies[t]
    BY <1>2, <1>10
  <2> QED
    BY <2>1, RecordsDiffer DEF CutOff
<1>11. LoopStands'
  BY <1>3 DEF LoopStands
<1> QED
  BY <1>1, <1>2, <1>4, <1>5, <1>6, <1>7, <1>8, <1>9, <1>10, <1>11, MembersQuiet

LEMMA MembershipStep ==
  ASSUME TypeInv, OnceStands, MembershipStands, [Next]_vars
  PROVE  MembershipStands'
<1>1. RecordStep
  BY EveryStep
<1>2. ASSUME NEW x \in Agents,
             CreateAgent(x) \/ ArchiveAgent(x) \/ PurgeAgent(x) \/ MaterialiseAgent(x)
      PROVE  MembershipStands'
  BY <1>1, <1>2, MembersOfOthers, MembersPurged, MembersMaterialised
<1>3. ASSUME NEW s \in Spawned, SpawnSession(s) \/ RemoveSession(s) PROVE MembershipStands'
  BY <1>1, <1>3, MembersOfOthers
<1>4. ASSUME NEW t \in Topologies, ChangeTopology(t) PROVE MembershipStands'
  BY <1>1, <1>4, TopologyIsDrawn, MembersAreDrawn
<1>5. ASSUME NEW n \in DOMAIN log, NEW scope \in B!Scopes, Checkout(n, scope)
      PROVE  MembershipStands'
  BY <1>1, <1>5, MembersAtCheckout
<1>6. ASSUME NEW f \in 2..Len(log), Truncate(f) PROVE MembershipStands'
  BY <1>1, <1>6, MembersTruncated
<1>7. SweepAgent \/ SweepTopologies \/ PayOwed => MembershipStands'
  BY <1>1, MembersSwept, MembersCascaded, MembersPaid
<1>8. Rematerialise \/ MaterialiseRest \/ Crash => MembershipStands'
  BY <1>1, MembersRevived, MembersRebuilt, MembersAfterDeath
<1>9. RewriteWal \/ MaterialiseSession \/ MaterialisingRaises \/ RevivingRaises
        \/ UNCHANGED vars \/ (\E r \in Registries : ChangeConfig(r)) => MembershipStands'
  BY <1>1, MembersUnmoved
<1> QED
  BY <1>2, <1>3, <1>4, <1>5, <1>6, <1>7, <1>8, <1>9, Zenon DEF Next

LEMMA MembersAtFirst ==
  ASSUME Init
  PROVE  MembershipStands
<1>1. /\ log = <<>> /\ owed = <<>> /\ mat.step = "none" /\ sessions = {}
      /\ \A t \in Topologies : topologies[t] = {}
  BY DEF Init, NotRewinding
<1>2. Range(owed) = {} /\ DOMAIN log = {}
  BY <1>1 DEF Range
<1>3. Resets = {} /\ \A x : Births(x) = {}
  BY <1>2 DEF Resets, Births, Those
<1>4. \A s : ~Held(s)
  BY <1>3 DEF Held
<1>5. \A x \in Agents : AgentAccounted(x)
  BY <1>3 DEF AgentAccounted
<1>6. \A s \in Spawned : OwnerAccounted(s)
  BY <1>1, <1>4 DEF OwnerAccounted
<1>7. MembersBorn
  BY <1>1, <1>2 DEF MembersBorn, AreBorn
<1>8. \A t \in Topologies : MembersDrawn(t) /\ MembersStand(t)
  BY <1>1 DEF MembersDrawn, MembersStand
<1>9. LoopStands
  BY <1>1 DEF LoopStands
<1> QED
  BY <1>5, <1>6, <1>7, <1>8, <1>9 DEF MembershipStands

\* create_topology, add_topology_member, _reconcile_topologies_as_of_cut: with names used
\* once and whatever was truncated, who is a member of a topology is there, unless a
\* checkout went back behind its removal for good, or to a record that was never right.
THEOREM NobodyIsLeftDangling == NamesOnce => (Spec => []NobodyDangles)
<1> SUFFICES ASSUME NamesOnce PROVE Spec => []NobodyDangles
  OBVIOUS
<1>1. Init => MembershipInv
  BY TypesHoldAtFirst, OnceAtFirst, MembersAtFirst DEF MembershipInv, OnceInv
<1>2. MembershipInv /\ [Next]_vars => MembershipInv'
  <2> SUFFICES ASSUME MembershipInv, [Next]_vars PROVE MembershipInv'
    OBVIOUS
  <2>1. TypeInv /\ OnceStands /\ MembershipStands
    BY DEF MembershipInv, OnceInv
  <2>2. RecordStep /\ OnceStands' /\ MembershipStands'
    BY <2>1, EveryStep, OnceStep, MembershipStep
  <2> QED
    BY <2>2 DEF MembershipInv, OnceInv, RecordStep
<1>3. MembershipInv => NobodyDangles
  <2> SUFFICES ASSUME MembershipInv, Settled, NEW t \in Topologies, t \notin adrift,
                      NEW x \in topologies[t], x \notin adrift, ~CutOff(t)
               PROVE  \/ x \in agents
                      \/ RemovedForGood(x) /\ \E n \in DOMAIN log : IsRewind(n)
                      \/ WrittenAskew(t, x)
    BY DEF NobodyDangles
  <2>1. Steady
    BY DEF Settled, Steady
  <2>2. MemberStands(t, x)
    BY <2>1 DEF MembershipInv, MembershipStands, MembersStand
  <2>3. Record("cascade", x) \notin Range(owed)
    BY RecordsDiffer DEF CutOff
  <2> QED
    BY <2>2, <2>3 DEF MemberStands, Resets
<1> QED
  BY <1>1, <1>2, <1>3, PTL DEF Spec

=============================================================================
