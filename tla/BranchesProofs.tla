--------------------------- MODULE BranchesProofs ---------------------------
(***************************************************************************)
(* What the pass over the reset records computes, for every log and every  *)
(* scope: the entries in no abandoned interval are those of the lineage    *)
(* read back from the head.                                                *)
(*                                                                         *)
(* Both sides are recursive definitions.  Induction is used in the form    *)
(* the provers can instantiate, about sets of numbers (NatInduction), and  *)
(* a recursive definition is first shown to define something, one number   *)
(* at a time.                                                              *)
(***************************************************************************)
EXTENDS Branches, FiniteSetTheorems, WellFoundedInduction, TLAPS

----------------------------------------------------------------------------
(* Induction over numbers, without operators.                               *)

\* Every non-empty set of numbers has a least element.
LEMMA LeastExists ==
  ASSUME NEW T \in SUBSET Nat, T # {}
  PROVE  \E x \in T : \A y \in T : x <= y
<1>1. PICK x \in T : \A y \in T : <<y, x>> \notin OpToRel(<, Nat)
  BY WFMin, NatLessThanWellFounded, Zenon
<1>2. \A y \in T : ~(y < x)
  BY <1>1 DEF OpToRel
<1> QED
  BY <1>2

\* A set that has every number all of whose predecessors it has, has all.
LEMMA NumbersByInduction ==
  ASSUME NEW S,
         \A n \in Nat : (\A m \in Nat : m < n => m \in S) => n \in S
  PROVE  Nat \subseteq S
<1> SUFFICES ASSUME Nat \ S # {} PROVE FALSE
  OBVIOUS
<1>1. PICK x \in Nat \ S : \A y \in Nat \ S : x <= y
  BY LeastExists
<1> QED
  BY <1>1

----------------------------------------------------------------------------
(* The logs the branch model is asked about.                                *)

\* A reset record leads back to an earlier number.
WellFormed(log) ==
  /\ Len(log) \in Nat /\ DOMAIN log = 1..Len(log)
  /\ \A r \in DOMAIN log : log[r].kind = "rewind" => log[r].target \in 0..(r - 1)

LEMMA RecordsAreNumbers ==
  ASSUME NEW log, NEW scope, WellFormed(log), NEW r \in RewindsFor(log, scope)
  PROVE  r \in 1..Len(log) /\ log[r].target \in 0..(r - 1)
BY DEF WellFormed, RewindsFor

----------------------------------------------------------------------------
(* GapsFrom is the function its definition describes.                       *)

\* The gaps kept from r on, when those kept after r are given.
Adding(log, scope, r, gaps) ==
  IF r \in RewindsFor(log, scope) THEN KeepUnlessMoot(gaps, r, log) ELSE gaps

IsGapsDownTo(log, scope, low, f) ==
  f = [r \in low..(Len(log) + 1) |->
         IF r = Len(log) + 1 THEN {} ELSE Adding(log, scope, r, f[r + 1])]

LEMMA GapsExist ==
  ASSUME NEW log, NEW scope, Len(log) \in Nat
  PROVE  \E f : IsGapsDownTo(log, scope, 1, f)
<1> DEFINE L == Len(log)
           S == {k \in Nat : k <= L => \E f : IsGapsDownTo(log, scope, L + 1 - k, f)}
<1>1. ASSUME NEW k \in Nat, \A m \in Nat : m < k => m \in S
      PROVE  k \in S
  <2> SUFFICES ASSUME k <= L PROVE \E f : IsGapsDownTo(log, scope, L + 1 - k, f)
    OBVIOUS
  <2>1. CASE k = 0
    <3> DEFINE f == [r \in (L + 1)..(L + 1) |-> {}]
    <3>1. f = [r \in (L + 1)..(L + 1) |->
                 IF r = L + 1 THEN {} ELSE Adding(log, scope, r, f[r + 1])]
      OBVIOUS
    <3> HIDE DEF f
    <3> QED
      BY <2>1, <3>1 DEF IsGapsDownTo
  <2>2. CASE k > 0
    <3> DEFINE low == L + 1 - k
    <3>1. k - 1 \in S /\ L + 1 - (k - 1) = low + 1 /\ low \in 1..L
      BY <1>1, <2>2
    <3>2. PICK f : IsGapsDownTo(log, scope, low + 1, f)
      BY <3>1
    <3> DEFINE g == [r \in low..(L + 1) |->
                       IF r = low THEN Adding(log, scope, low, f[low + 1]) ELSE f[r]]
    <3>3. ASSUME NEW r \in low..(L + 1)
          PROVE  g[r] = IF r = L + 1 THEN {} ELSE Adding(log, scope, r, g[r + 1])
      <4>1. CASE r = low
        <5>1. g[r] = Adding(log, scope, r, f[r + 1]) /\ g[r + 1] = f[r + 1] /\ r # L + 1
          BY <4>1, <3>1
        <5> QED
          BY <5>1
      <4>2. CASE r # low
        <5>1. r \in (low + 1)..(L + 1) /\ g[r] = f[r] /\ (r # L + 1 => g[r + 1] = f[r + 1])
          BY <4>2, <3>1
        <5>2. f[r] = IF r = L + 1 THEN {} ELSE Adding(log, scope, r, f[r + 1])
          BY <3>2, <5>1 DEF IsGapsDownTo
        <5> QED
          BY <5>1, <5>2
      <4> QED
        BY <4>1, <4>2
    <3>4. g = [r \in low..(L + 1) |->
                 IF r = L + 1 THEN {} ELSE Adding(log, scope, r, g[r + 1])]
      <4> DEFINE h == [r \in low..(L + 1) |->
                         IF r = L + 1 THEN {} ELSE Adding(log, scope, r, g[r + 1])]
      <4>1. \A r \in low..(L + 1) : g[r] = h[r]
        BY <3>3
      <4> QED
        BY <4>1
    <3> HIDE DEF g
    <3> QED
      BY <3>4 DEF IsGapsDownTo
  <2> QED
    BY <2>1, <2>2
<1> HIDE DEF S
<1>2. L \in S
  BY <1>1, NumbersByInduction
<1>3. L + 1 - L = 1
  OBVIOUS
<1> QED
  BY <1>2, <1>3 DEF S

LEMMA GapsFromIs ==
  ASSUME NEW log, NEW scope, Len(log) \in Nat
  PROVE  /\ GapsFrom(log, scope)[Len(log) + 1] = {}
         /\ \A r \in 1..Len(log) :
              GapsFrom(log, scope)[r] = Adding(log, scope, r, GapsFrom(log, scope)[r + 1])
<1> DEFINE G == GapsFrom(log, scope)
           L == Len(log)
<1>1. \E f : f = [r \in 1..(L + 1) |->
                    IF r = L + 1 THEN {}
                    ELSE IF r \in RewindsFor(log, scope) THEN KeepUnlessMoot(f[r + 1], r, log)
                    ELSE f[r + 1]]
  BY GapsExist, Zenon DEF IsGapsDownTo, Adding
<1>2. G = [r \in 1..(L + 1) |->
             IF r = L + 1 THEN {}
             ELSE IF r \in RewindsFor(log, scope) THEN KeepUnlessMoot(G[r + 1], r, log)
             ELSE G[r + 1]]
  BY <1>1, Zenon DEF GapsFrom
<1> HIDE DEF G
<1>3. \A r \in 1..(L + 1) :
         G[r] = IF r = L + 1 THEN {}
                ELSE IF r \in RewindsFor(log, scope) THEN KeepUnlessMoot(G[r + 1], r, log)
                ELSE G[r + 1]
  BY <1>2
<1>4. G[L + 1] = {}
  BY <1>3
<1>5. ASSUME NEW r \in 1..L PROVE G[r] = Adding(log, scope, r, G[r + 1])
  BY <1>3 DEF Adding
<1> QED
  BY <1>4, <1>5 DEF G

----------------------------------------------------------------------------
(* The intervals that are kept are those of the records that are active.    *)

Gap(log, r) == [lo |-> log[r].target, hi |-> r]

Outside(gaps, n) == \A g \in gaps : ~Inside(n, g)

LEMMA GapsAreActiveRecords ==
  ASSUME NEW log, NEW scope, WellFormed(log)
  PROVE  AbandonedIntervals(log, scope)
           = {Gap(log, r) : r \in {q \in RewindsFor(log, scope) : IsActive(log, scope, q)}}
<1> DEFINE L == Len(log)
           R == RewindsFor(log, scope)
           G == GapsFrom(log, scope)
           Kept(low) == {Gap(log, r) : r \in {q \in R : low <= q /\ Outside(G[low], q)}}
           S == {k \in Nat : k <= L => G[L + 1 - k] = Kept(L + 1 - k)}
<1>0. L \in Nat /\ R \subseteq 1..L
  BY DEF WellFormed, RewindsFor
<1>1. G[L + 1] = {} /\ \A r \in 1..L : G[r] = Adding(log, scope, r, G[r + 1])
  BY <1>0, GapsFromIs
<1>9. \A q \in R : q \in Nat /\ 1 <= q /\ q <= L
  BY <1>0
<1> HIDE DEF G, R, L
<1>2. ASSUME NEW k \in Nat, \A m \in Nat : m < k => m \in S
      PROVE  k \in S
  <2> SUFFICES ASSUME k <= L PROVE G[L + 1 - k] = Kept(L + 1 - k)
    OBVIOUS
  <2>1. CASE k = 0
    <3>1. \A q \in R : ~(L + 1 <= q)
      BY <1>0, <1>9
    <3>2. Kept(L + 1) = {}
      BY <3>1, Zenon
    <3>3. L + 1 - k = L + 1
      BY <2>1, <1>0
    <3> QED
      BY <3>2, <3>3, <1>1
  <2>2. CASE k > 0
    <3> DEFINE low == L + 1 - k
    <3>1. k - 1 \in S /\ L + 1 - (k - 1) = low + 1 /\ low \in 1..L
      BY <1>2, <2>2, <1>0
    <3>2. G[low + 1] = Kept(low + 1)
      BY <3>1, <1>0
    <3>3. G[low] = Adding(log, scope, low, G[low + 1])
      BY <3>1, <1>1
    <3>9. low = L + 1 - k
      OBVIOUS
    <3> HIDE DEF low
    <3>4. \A q \in R : low < q => ~Inside(q, Gap(log, low))
      BY <1>0, <3>1 DEF Inside, Gap
    <3>5. ~Inside(low, Gap(log, low))
      BY <1>0, <3>1 DEF Inside, Gap
    <3>6. CASE low \in R /\ Outside(G[low + 1], low)
      <4>1. G[low] = G[low + 1] \cup {Gap(log, low)}
        BY <3>3, <3>6 DEF Adding, KeepUnlessMoot, Outside, Gap, R
      <4>2. \A q \in R : low < q => (Outside(G[low], q) <=> Outside(G[low + 1], q))
        BY <4>1, <3>4 DEF Outside
      <4>3. Outside(G[low], low)
        BY <4>1, <3>5, <3>6 DEF Outside
      <4>4. \A q \in R : low <= q <=> q = low \/ low + 1 <= q
        BY <1>9, <3>1
      <4>5. \A q \in R : low < q <=> low + 1 <= q
        BY <1>9, <3>1
      <4>6. {q \in R : low <= q /\ Outside(G[low], q)}
              = {low} \cup {q \in R : low + 1 <= q /\ Outside(G[low + 1], q)}
        BY <4>2, <4>3, <4>4, <4>5, <3>6, Zenon
      <4> QED
        BY <4>1, <4>6, <3>2, <3>9
    <3>7. CASE ~(low \in R /\ Outside(G[low + 1], low))
      <4>1. G[low] = G[low + 1]
        BY <3>3, <3>7 DEF Adding, KeepUnlessMoot, Outside, R
      <4>2. \A q \in R : low <= q <=> q = low \/ low + 1 <= q
        BY <1>9, <3>1
      <4>3. ~(low + 1 <= low)
        BY <3>1
      <4>4. {q \in R : low <= q /\ Outside(G[low], q)}
              = {q \in R : low + 1 <= q /\ Outside(G[low + 1], q)}
        BY <4>1, <4>2, <4>3, <3>7, Zenon
      <4> QED
        BY <4>1, <4>4, <3>2, <3>9
    <3> QED
      BY <3>6, <3>7
  <2> QED
    BY <2>1, <2>2
<1> HIDE DEF S
<1>3. L \in S
  BY <1>0, <1>2, NumbersByInduction
<1>4. G[1] = Kept(1)
  <2> HIDE DEF Kept
  <2>1. L <= L /\ L + 1 - L = 1
    BY <1>0
  <2>2. G[L + 1 - L] = Kept(L + 1 - L)
    BY <1>3, <2>1 DEF S
  <2> QED
    BY <2>1, <2>2, Zenon
<1>5. \A q \in R : 1 <= q
  BY <1>0
<1>6. \A q : Outside(G[1], q) <=> IsActive(log, scope, q)
  BY DEF G, IsActive, AbandonedIntervals, Outside
<1> QED
  BY <1>4, <1>5, <1>6 DEF G, R, AbandonedIntervals

\* An entry is active exactly if no active record leads past it.
LEMMA ActiveUnlessPassed ==
  ASSUME NEW log, NEW scope, WellFormed(log), NEW n
  PROVE  IsActive(log, scope, n)
           <=> ~ \E r \in RewindsFor(log, scope) :
                   IsActive(log, scope, r) /\ log[r].target < n /\ n < r
<1> DEFINE A == AbandonedIntervals(log, scope)
           R == {q \in RewindsFor(log, scope) : IsActive(log, scope, q)}
<1>1. A = {Gap(log, r) : r \in R}
  BY GapsAreActiveRecords
<1>2. IsActive(log, scope, n) <=> ~ \E g \in A : Inside(n, g)
  BY DEF IsActive
<1> HIDE DEF A, R
<1>3. \A r : Inside(n, Gap(log, r)) <=> log[r].target < n /\ n < r
  BY DEF Inside, Gap
<1>4. (\E g \in A : Inside(n, g)) <=> \E r \in R : log[r].target < n /\ n < r
  BY <1>1, <1>3, Zenon
<1> QED
  BY <1>2, <1>4 DEF R

----------------------------------------------------------------------------
(* The lineage.                                                             *)

LEMMA PredecessorIsBefore ==
  ASSUME NEW log, NEW scope, WellFormed(log), NEW n \in 1..Len(log)
  PROVE  Predecessor(log, scope, n) \in 0..(n - 1)
BY RecordsAreNumbers DEF Predecessor, WellFormed

IsLineageUpTo(log, scope, high, f) ==
  f = [n \in 0..high |-> IF n = 0 THEN {} ELSE {n} \cup f[Predecessor(log, scope, n)]]

LEMMA LineageExists ==
  ASSUME NEW log, NEW scope, WellFormed(log)
  PROVE  \E f : IsLineageUpTo(log, scope, Len(log), f)
<1> DEFINE L == Len(log)
           S == {k \in Nat : k <= L => \E f : IsLineageUpTo(log, scope, k, f)}
<1>0. L \in Nat
  BY DEF WellFormed
<1>1. ASSUME NEW k \in Nat, \A m \in Nat : m < k => m \in S
      PROVE  k \in S
  <2> SUFFICES ASSUME k <= L PROVE \E f : IsLineageUpTo(log, scope, k, f)
    OBVIOUS
  <2>1. CASE k = 0
    <3> DEFINE f == [n \in 0..0 |-> {}]
    <3>1. f = [n \in 0..0 |-> IF n = 0 THEN {} ELSE {n} \cup f[Predecessor(log, scope, n)]]
      OBVIOUS
    <3> HIDE DEF f
    <3> QED
      BY <2>1, <3>1 DEF IsLineageUpTo
  <2>2. CASE k > 0
    <3>1. k - 1 \in S /\ k \in 1..L
      BY <1>0, <1>1, <2>2
    <3>2. PICK f : IsLineageUpTo(log, scope, k - 1, f)
      BY <3>1, <1>0
    <3>3. \A n \in 1..k : Predecessor(log, scope, n) \in 0..(n - 1)
      BY <1>0, <3>1, PredecessorIsBefore
    <3> DEFINE g == [n \in 0..k |->
                       IF n = k THEN {k} \cup f[Predecessor(log, scope, k)] ELSE f[n]]
    <3>4. ASSUME NEW n \in 0..k
          PROVE  g[n] = IF n = 0 THEN {} ELSE {n} \cup g[Predecessor(log, scope, n)]
      <4>1. CASE n = k
        <5>1. Predecessor(log, scope, k) \in 0..(k - 1)
          BY <3>3, <2>2
        <5>2. g[Predecessor(log, scope, k)] = f[Predecessor(log, scope, k)]
          BY <5>1
        <5>3. g[k] = {k} \cup f[Predecessor(log, scope, k)] /\ k # 0
          BY <2>2
        <5> QED
          BY <4>1, <5>2, <5>3
      <4>2. CASE n # k
        <5>1. n \in 0..(k - 1) /\ g[n] = f[n]
          BY <4>2
        <5>2. n # 0 => g[Predecessor(log, scope, n)] = f[Predecessor(log, scope, n)]
          <6> SUFFICES ASSUME n # 0
                       PROVE  g[Predecessor(log, scope, n)] = f[Predecessor(log, scope, n)]
            OBVIOUS
          <6>1. Predecessor(log, scope, n) \in 0..(n - 1)
            BY <3>3
          <6> QED
            BY <6>1, <5>1
        <5>3. f[n] = IF n = 0 THEN {} ELSE {n} \cup f[Predecessor(log, scope, n)]
          BY <3>2, <5>1 DEF IsLineageUpTo
        <5> QED
          BY <5>1, <5>2, <5>3
      <4> QED
        BY <4>1, <4>2
    <3>5. g = [n \in 0..k |->
                 IF n = 0 THEN {} ELSE {n} \cup g[Predecessor(log, scope, n)]]
      <4> DEFINE h == [n \in 0..k |->
                         IF n = 0 THEN {} ELSE {n} \cup g[Predecessor(log, scope, n)]]
      <4>1. \A n \in 0..k : g[n] = h[n]
        BY <3>4
      <4> QED
        BY <4>1
    <3> HIDE DEF g
    <3> QED
      BY <3>5 DEF IsLineageUpTo
  <2> QED
    BY <2>1, <2>2
<1> HIDE DEF S
<1>2. L \in S
  BY <1>0, <1>1, NumbersByInduction
<1> QED
  BY <1>0, <1>2 DEF S

LEMMA LineageIs ==
  ASSUME NEW log, NEW scope, WellFormed(log)
  PROVE  /\ Lineage(log, scope)[0] = {}
         /\ \A n \in 1..Len(log) :
              Lineage(log, scope)[n]
                = {n} \cup Lineage(log, scope)[Predecessor(log, scope, n)]
<1> DEFINE U == Lineage(log, scope)
<1>0. Len(log) \in Nat
  BY DEF WellFormed
<1>1. \E f : f = [n \in 0..Len(log) |->
                    IF n = 0 THEN {} ELSE {n} \cup f[Predecessor(log, scope, n)]]
  <2>1. \E f : IsLineageUpTo(log, scope, Len(log), f)
    BY LineageExists
  <2> QED
    BY <2>1 DEF IsLineageUpTo
<1>2. U = [n \in 0..Len(log) |->
             IF n = 0 THEN {} ELSE {n} \cup U[Predecessor(log, scope, n)]]
  BY <1>1, Zenon DEF Lineage
<1> HIDE DEF U
<1>3. \A n \in 0..Len(log) :
        U[n] = IF n = 0 THEN {} ELSE {n} \cup U[Predecessor(log, scope, n)]
  BY <1>2
<1>4. U[0] = {} /\ \A n \in 1..Len(log) : U[n] = {n} \cup U[Predecessor(log, scope, n)]
  <2>1. 0 \in 0..Len(log) /\ \A n \in 1..Len(log) : n \in 0..Len(log) /\ n # 0
    BY <1>0
  <2> QED
    BY <1>3, <2>1, Zenon
<1> QED
  BY <1>4 DEF U

LEMMA LineageType ==
  ASSUME NEW log, NEW scope, WellFormed(log)
  PROVE  \A h \in 0..Len(log) : Lineage(log, scope)[h] \subseteq 1..h
<1> DEFINE L == Len(log)
           U == Lineage(log, scope)
           S == {h \in Nat : h <= L => U[h] \subseteq 1..h}
<1>0. L \in Nat
  BY DEF WellFormed
<1>1. ASSUME NEW h \in Nat, \A m \in Nat : m < h => m \in S
      PROVE  h \in S
  <2> SUFFICES ASSUME h <= L PROVE U[h] \subseteq 1..h
    OBVIOUS
  <2>1. CASE h = 0
    BY <2>1, LineageIs
  <2>2. CASE h > 0
    <3> DEFINE p == Predecessor(log, scope, h)
    <3>1. h \in 1..L
      BY <1>0, <2>2
    <3>2. p \in 0..(h - 1)
      BY <3>1, PredecessorIsBefore
    <3>3. U[h] = {h} \cup U[p]
      BY <3>1, LineageIs
    <3>4. U[p] \subseteq 1..p
      BY <1>0, <1>1, <3>2
    <3> HIDE DEF p, U
    <3> QED
      BY <2>2, <3>2, <3>3, <3>4
  <2> QED
    BY <2>1, <2>2
<1> HIDE DEF S, L, U
<1>2. \A h \in Nat : h \in S
  BY <1>1, NumbersByInduction, Zenon
<1>3. \A h \in 0..L : h \in Nat /\ h <= L
  BY <1>0
<1> QED
  BY <1>2, <1>3 DEF S, L, U

\* Going back from h, an entry is left out exactly if a record met on the way
\* leads past it.
LEMMA LeftOutIfPassed ==
  ASSUME NEW log, NEW scope, WellFormed(log)
  PROVE  \A h \in 0..Len(log) : \A n \in 1..h :
           n \in Lineage(log, scope)[h]
             <=> ~ \E r \in RewindsFor(log, scope) :
                     r \in Lineage(log, scope)[h] /\ log[r].target < n /\ n < r
<1> DEFINE L == Len(log)
           U == Lineage(log, scope)
           R == RewindsFor(log, scope)
           Passed(h, n) == \E r \in R : r \in U[h] /\ log[r].target < n /\ n < r
           S == {h \in Nat : h <= L => \A n \in 1..h : n \in U[h] <=> ~Passed(h, n)}
<1>0. L \in Nat
  BY DEF WellFormed
<1>1. ASSUME NEW h \in Nat, \A m \in Nat : m < h => m \in S
      PROVE  h \in S
  <2> SUFFICES ASSUME h <= L, NEW n \in 1..h
               PROVE  n \in U[h] <=> ~Passed(h, n)
    OBVIOUS
  <2> DEFINE p == Predecessor(log, scope, h)
  <2>1. h \in 1..L
    BY <1>0
  <2>2. p \in 0..(h - 1)
    BY <2>1, PredecessorIsBefore
  <2>3. U[h] = {h} \cup U[p]
    BY <2>1, LineageIs
  <2>4. U[p] \subseteq 1..p
    BY <1>0, <2>1, <2>2, LineageType
  <2>5. \A k \in 1..p : k \in U[p] <=> ~Passed(p, k)
    <3>1. p \in Nat /\ p < h /\ p <= L
      BY <1>0, <2>1, <2>2
    <3> QED
      BY <1>1, <3>1
  <2>6. IF h \in R THEN p = log[h].target ELSE p = h - 1
    BY DEF Predecessor
  <2>7. \A r \in R : r \in Nat
    BY RecordsAreNumbers
  <2> HIDE DEF p, U, R, L
  <2>8. CASE n = h
    <3>1. \A r \in U[h] : ~(n < r)
      BY <2>2, <2>3, <2>4, <2>8
    <3> QED
      BY <2>3, <2>8, <3>1
  <2>9. CASE p < n /\ n < h
    <3>1. n \notin U[h]
      BY <2>2, <2>3, <2>4, <2>9
    <3>2. h \in R
      BY <2>2, <2>6, <2>9
    <3>3. log[h].target < n
      BY <2>6, <2>9, <3>2
    <3> QED
      BY <2>3, <2>9, <3>1, <3>2, <3>3
  <2>10. CASE n <= p
    <3>1. n \in 1..p /\ n # h
      BY <2>2, <2>10
    <3>2. n \in U[h] <=> n \in U[p]
      BY <2>3, <3>1
    <3>3. ~(h \in R /\ log[h].target < n)
      BY <2>2, <2>6, <2>10
    <3>4. Passed(h, n) <=> Passed(p, n)
      BY <2>3, <3>3, Zenon
    <3> QED
      BY <2>5, <3>1, <3>2, <3>4
  <2> QED
    BY <2>2, <2>8, <2>9, <2>10
<1> HIDE DEF S, L
<1>2. \A h \in Nat : h \in S
  BY <1>1, NumbersByInduction, Zenon
<1>3. \A h \in 0..L : h \in Nat /\ h <= L
  BY <1>0
<1> QED
  BY <1>2, <1>3, Zenon DEF S, L

\* An entry on the way back from h is reached from h, and from there on the way
\* is its own.
LEMMA LineageOfLineage ==
  ASSUME NEW log, NEW scope, WellFormed(log)
  PROVE  \A h \in 0..Len(log) : \A n \in Lineage(log, scope)[h] :
           Lineage(log, scope)[n] = {k \in Lineage(log, scope)[h] : k <= n}
<1> DEFINE L == Len(log)
           U == Lineage(log, scope)
           S == {h \in Nat : h <= L => \A n \in U[h] : U[n] = {k \in U[h] : k <= n}}
<1>0. L \in Nat
  BY DEF WellFormed
<1>1. ASSUME NEW h \in Nat, \A m \in Nat : m < h => m \in S
      PROVE  h \in S
  <2> SUFFICES ASSUME h <= L, NEW n \in U[h]
               PROVE  U[n] = {k \in U[h] : k <= n}
    OBVIOUS
  <2>0. h \in 0..L
    BY <1>0
  <2>1. U[h] \subseteq 1..h
    BY <2>0, LineageType
  <2>2. h \in 1..L /\ n \in 1..h
    BY <2>0, <2>1
  <2> DEFINE p == Predecessor(log, scope, h)
  <2>3. p \in 0..(h - 1)
    BY <2>2, PredecessorIsBefore
  <2>4. U[h] = {h} \cup U[p]
    BY <2>2, LineageIs
  <2>5. p \in Nat /\ p < h /\ p <= L /\ p \in 0..L
    BY <1>0, <2>2, <2>3
  <2>6. U[p] \subseteq 1..p
    BY <2>5, LineageType
  <2>7. \A k \in U[p] : U[k] = {j \in U[p] : j <= k}
    BY <1>1, <2>5
  <2> HIDE DEF p, U, L, S
  <2>8. CASE n = h
    BY <2>1, <2>8
  <2>9. CASE n # h
    <3>1. n \in U[p] /\ n \in 1..p
      BY <2>4, <2>6, <2>9
    <3>2. ~(h <= n)
      BY <2>5, <3>1
    <3> QED
      BY <2>4, <2>7, <3>1, <3>2
  <2> QED
    BY <2>8, <2>9
<1> HIDE DEF S, L, U
<1>2. \A h \in Nat : h \in S
  BY <1>1, NumbersByInduction, Zenon
<1>3. \A h \in 0..L : h \in Nat /\ h <= L
  BY <1>0
<1> QED
  BY <1>2, <1>3, Zenon DEF S, L, U

\* The way back from n is the same in two logs with the same predecessors up to n.
LEMMA LineageDependsOnPredecessors ==
  ASSUME NEW log, NEW log2, NEW scope, WellFormed(log), WellFormed(log2),
         NEW H \in Nat, H <= Len(log), H <= Len(log2),
         \A n \in 1..H : Predecessor(log, scope, n) = Predecessor(log2, scope, n)
  PROVE  \A h \in 0..H : Lineage(log, scope)[h] = Lineage(log2, scope)[h]
<1> DEFINE S == {h \in Nat : h <= H => Lineage(log, scope)[h] = Lineage(log2, scope)[h]}
<1>0. Len(log) \in Nat /\ Len(log2) \in Nat
  BY DEF WellFormed
<1>1. ASSUME NEW h \in Nat, \A m \in Nat : m < h => m \in S
      PROVE  h \in S
  <2> SUFFICES ASSUME h <= H PROVE Lineage(log, scope)[h] = Lineage(log2, scope)[h]
    OBVIOUS
  <2>1. CASE h = 0
    BY <2>1, LineageIs
  <2>2. CASE h > 0
    <3>1. h \in 1..H /\ h \in 1..Len(log) /\ h \in 1..Len(log2)
      BY <1>0, <2>2
    <3> DEFINE p == Predecessor(log, scope, h)
    <3>2. p \in 0..(h - 1)
      BY <3>1, PredecessorIsBefore
    <3>3. p = Predecessor(log2, scope, h)
      BY <3>1
    <3>4. Lineage(log, scope)[h] = {h} \cup Lineage(log, scope)[p]
      BY <3>1, LineageIs
    <3>5. Lineage(log2, scope)[h] = {h} \cup Lineage(log2, scope)[p]
      BY <3>1, <3>3, LineageIs
    <3>6. Lineage(log, scope)[p] = Lineage(log2, scope)[p]
      <4>1. p \in Nat /\ p < h /\ p <= H
        BY <3>1, <3>2
      <4> QED
        BY <1>1, <4>1
    <3> QED
      BY <3>4, <3>5, <3>6
  <2> QED
    BY <2>1, <2>2
<1> HIDE DEF S
<1>2. \A h \in Nat : h \in S
  BY <1>1, NumbersByInduction, Zenon
<1>3. \A h \in 0..H : h \in Nat /\ h <= H
  OBVIOUS
<1> QED
  BY <1>2, <1>3, Zenon DEF S

----------------------------------------------------------------------------
(* The intervals and the lineage agree.                                     *)

\* An active record passes nothing but what an active record passes, and the
\* same is true of the records of the lineage: the two are one set, read down
\* from the head.
LEMMA ActiveIsOnLineage ==
  ASSUME NEW log, NEW scope, WellFormed(log)
  PROVE  \A n \in 1..Len(log) :
           IsActive(log, scope, n) <=> n \in Lineage(log, scope)[Len(log)]
<1> DEFINE L == Len(log)
           U == Lineage(log, scope)[L]
           R == RewindsFor(log, scope)
           A(n) == IsActive(log, scope, n)
           S == {k \in Nat : k < L => (A(L - k) <=> L - k \in U)}
<1>0. L \in Nat
  BY DEF WellFormed
<1>1. \A n : A(n) <=> ~ \E r \in R : A(r) /\ log[r].target < n /\ n < r
  BY ActiveUnlessPassed
<1>2. \A n \in 1..L : n \in U <=> ~ \E r \in R : r \in U /\ log[r].target < n /\ n < r
  <2>1. L \in 0..L
    BY <1>0
  <2> QED
    BY <2>1, LeftOutIfPassed
<1>3. \A r \in R : r \in 1..L
  BY RecordsAreNumbers
<1> HIDE DEF L, U, R, A
<1>4. ASSUME NEW k \in Nat, \A m \in Nat : m < k => m \in S
      PROVE  k \in S
  <2> SUFFICES ASSUME k < L PROVE A(L - k) <=> L - k \in U
    OBVIOUS
  <2>1. PICK n \in 1..L : n = L - k
    BY <1>0
  <2>2. \A r \in R : n < r => (A(r) <=> r \in U)
    <3> SUFFICES ASSUME NEW r \in R, n < r PROVE A(r) <=> r \in U
      OBVIOUS
    <3>1. L - r \in Nat /\ L - r < k /\ L - r < L /\ L - (L - r) = r
      BY <1>0, <1>3, <2>1
    <3> QED
      BY <1>4, <3>1
  <2>3. A(n) <=> n \in U
    BY <1>1, <1>2, <2>2
  <2> QED
    BY <2>1, <2>3
<1> HIDE DEF S
<1>5. \A k \in Nat : k \in S
  BY <1>4, NumbersByInduction, Zenon
<1>6. ASSUME NEW n \in 1..L PROVE A(n) <=> n \in U
  <2>1. L - n \in Nat /\ L - n < L /\ L - (L - n) = n
    BY <1>0
  <2> QED
    BY <1>5, <2>1 DEF S
<1> QED
  BY <1>6 DEF A, L, U

LEMMA NothingPassesZero ==
  ASSUME NEW log, NEW scope, WellFormed(log)
  PROVE  IsActive(log, scope, 0)
<1>1. \A r \in RewindsFor(log, scope) : ~(log[r].target < 0)
  BY RecordsAreNumbers
<1> QED
  BY <1>1, ActiveUnlessPassed

----------------------------------------------------------------------------
(* The log of the state machine is well formed.                             *)

Entries == {Work} \cup {Rewound(n, scope) : n \in Nat, scope \in Scopes}

LogInv == wal \in Seq(Entries) /\ WellFormed(wal)

LEMMA WorkKeepsWellFormed ==
  ASSUME LogInv, NEW e \in Entries,
         e.kind = "rewind" => e.target \in 0..Len(wal),
         wal' = Append(wal, e)
  PROVE  LogInv'
<1>1. /\ wal' \in Seq(Entries) /\ Len(wal') = Len(wal) + 1 /\ Len(wal) \in Nat
      /\ DOMAIN wal' = 1..Len(wal') /\ DOMAIN wal = 1..Len(wal)
      /\ \A r \in 1..Len(wal) : wal'[r] = wal[r]
      /\ wal'[Len(wal')] = e
  BY DEF LogInv
<1>2. \A r \in DOMAIN wal' : wal'[r].kind = "rewind" => wal'[r].target \in 0..(r - 1)
  <2> SUFFICES ASSUME NEW r \in DOMAIN wal', wal'[r].kind = "rewind"
               PROVE  wal'[r].target \in 0..(r - 1)
    OBVIOUS
  <2>1. CASE r = Len(wal')
    BY <1>1, <2>1
  <2>2. CASE r # Len(wal')
    <3>1. r \in 1..Len(wal) /\ wal'[r] = wal[r]
      BY <1>1, <2>2
    <3> QED
      BY <3>1, <1>1 DEF LogInv, WellFormed
  <2> QED
    BY <2>1, <2>2
<1> QED
  BY <1>1, <1>2 DEF LogInv, WellFormed

LEMMA LogAlways == Spec => []LogInv
<1>1. Init => LogInv
  BY DEF Init, LogInv, WellFormed
<1>2. LogInv /\ [Next]_wal => LogInv'
  <2> SUFFICES ASSUME LogInv, [Next]_wal PROVE LogInv'
    OBVIOUS
  <2>1. CASE AppendWork
    <3>1. Work \in Entries /\ Work.kind # "rewind"
      BY DEF Entries, Work
    <3> QED
      BY <2>1, <3>1, WorkKeepsWellFormed DEF AppendWork
  <2>2. ASSUME NEW n \in DOMAIN wal, NEW scope \in Scopes, Checkout(n, scope)
        PROVE  LogInv'
    <3>1. n \in Nat /\ n \in 0..Len(wal)
      BY DEF LogInv, WellFormed
    <3>2. Rewound(n, scope) \in Entries /\ Rewound(n, scope).target = n
      BY <3>1 DEF Entries, Rewound
    <3> QED
      BY <2>2, <3>1, <3>2, WorkKeepsWellFormed DEF Checkout
  <2>3. CASE UNCHANGED wal
    BY <2>3 DEF LogInv, WellFormed
  <2>4. GLOBAL_SCOPE \in Scopes
    BY DEF Scopes
  <2> QED
    BY <2>1, <2>2, <2>3, <2>4 DEF Next, Rewind
<1> QED
  BY <1>1, <1>2, PTL DEF Spec

\* ActiveIsLineage: is_active's pass over the abandoned intervals gives, for
\* every log the code can write and every scope, exactly the entries one reads
\* going back from the head.
THEOREM ActiveIsTheLineage == Spec => []ActiveIsLineage
<1>1. LogInv => ActiveIsLineage
  <2> SUFFICES ASSUME LogInv, NEW scope \in Scopes
               PROVE  ActiveSet(wal, scope) = Lineage(wal, scope)[Len(wal)]
    BY DEF ActiveIsLineage
  <2>1. WellFormed(wal) /\ DOMAIN wal = 1..Len(wal) /\ Len(wal) \in 0..Len(wal)
    BY DEF LogInv, WellFormed
  <2>2. \A n \in 1..Len(wal) : IsActive(wal, scope, n) <=> n \in Lineage(wal, scope)[Len(wal)]
    BY <2>1, ActiveIsOnLineage
  <2>3. Lineage(wal, scope)[Len(wal)] \subseteq 1..Len(wal)
    BY <2>1, LineageType
  <2> QED
    BY <2>1, <2>2, <2>3, Zenon DEF ActiveSet
<1> QED
  BY <1>1, LogAlways, PTL

----------------------------------------------------------------------------
(* lineage_predecessor, for a target on the active branch.                  *)

LEMMA GapsAreFinite ==
  ASSUME NEW log, NEW scope, WellFormed(log)
  PROVE  Cardinality(AbandonedIntervals(log, scope)) \in Nat
<1> DEFINE R == {q \in RewindsFor(log, scope) : IsActive(log, scope, q)}
<1>1. IsFiniteSet(1..Len(log)) /\ R \subseteq 1..Len(log)
  <2>1. 1 \in Int /\ Len(log) \in Int
    BY DEF WellFormed
  <2> QED
    BY <2>1, FS_Interval, RecordsAreNumbers
<1>2. IsFiniteSet(R)
  BY <1>1, FS_Subset
<1> HIDE DEF R
<1>3. IsFiniteSet({Gap(log, r) : r \in R})
  <2> DEFINE T == {Gap(log, r) : r \in R}
             f == [r \in R |-> Gap(log, r)]
  <2>1. f \in Surjection(R, T)
    BY DEF Surjection
  <2> QED
    BY <1>2, <2>1, FS_Surjection
<1> QED
  BY <1>3, GapsAreActiveRecords, FS_CardinalityType DEF R

\* A number that is in some gap is in an innermost one, which names a branch
\* other than the active one.
LEMMA OnlyActiveIsOnActiveBranch ==
  ASSUME NEW log, NEW scope, WellFormed(log), NEW n
  PROVE  BranchOf(AbandonedIntervals(log, scope), n) = ACTIVE_BRANCH_ID
           <=> IsActive(log, scope, n)
<1> DEFINE A == AbandonedIntervals(log, scope)
           around == {g \in A : Inside(n, g)}
<1>1. \A g \in A : g.lo \in 0..Len(log) /\ g.hi \in 1..Len(log)
  BY GapsAreActiveRecords, RecordsAreNumbers DEF Gap, WellFormed
<1>2. ASSUME around # {}
      PROVE  \E g \in around : \A f \in around : f.lo <= g.lo
  <2> DEFINE T == {Len(log) - g.lo : g \in around}
  <2>1. T \subseteq Nat /\ T # {}
    <3>1. \A g \in around : Len(log) - g.lo \in Nat
      BY <1>1
    <3> QED
      BY <1>2, <3>1, Zenon
  <2>2. PICK x \in T : \A y \in T : x <= y
    BY <2>1, LeastExists, Zenon
  <2>3. PICK g \in around : x = Len(log) - g.lo
    OBVIOUS
  <2>4. ASSUME NEW f \in around PROVE f.lo <= g.lo
    <3>1. Len(log) - f.lo \in T
      OBVIOUS
    <3>2. x <= Len(log) - f.lo
      BY <2>2, <3>1
    <3> QED
      BY <1>1, <2>3, <3>2
  <2> QED
    BY <2>4
<1>3. CASE around = {}
  BY <1>3 DEF BranchOf, IsActive
<1>4. CASE around # {}
  <2> DEFINE innermost == CHOOSE g \in around : \A f \in around : f.lo <= g.lo
  <2>1. innermost \in around
    BY <1>2, <1>4, Zenon
  <2>2. BranchOf(A, n) = innermost.hi
    BY <1>4 DEF BranchOf
  <2>3. ~IsActive(log, scope, n)
    BY <1>4 DEF IsActive
  <2> HIDE DEF innermost
  <2> QED
    BY <1>1, <2>1, <2>2, <2>3 DEF ACTIVE_BRANCH_ID
<1> QED
  BY <1>3, <1>4

\* From the active branch the walk goes nowhere.
LEMMA WalkFromActive ==
  ASSUME NEW gaps, Cardinality(gaps) \in Nat, NEW n,
         BranchOf(gaps, n) = ACTIVE_BRANCH_ID
  PROVE  Walk(gaps, n) = <<[branch |-> ACTIVE_BRANCH_ID, cutoff |-> n]>>
<1> DEFINE C == Cardinality(gaps)
           start == <<[branch |-> BranchOf(gaps, n), cutoff |-> n]>>
           Up(path) ==
             LET here == path[Len(path)]
                 up   == Parent(gaps, here.branch)
             IN IF here.branch = ACTIVE_BRANCH_ID \/ \E k \in DOMAIN path : path[k].branch = up
                THEN path
                ELSE Append(path, [branch |-> up, cutoff |-> ForkPoint(gaps, here.branch) + 1])
           After == CHOOSE f : f = [i \in 0..C |-> IF i = 0 THEN start ELSE Up(f[i - 1])]
<1>1. Walk(gaps, n) = After[C]
  BY Zenon DEF Walk
<1>2. Up(start) = start
  BY DEF ACTIVE_BRANCH_ID
<1> HIDE DEF Up
<1>3. \E f : f = [i \in 0..C |-> IF i = 0 THEN start ELSE Up(f[i - 1])]
  <2> DEFINE f == [i \in 0..C |-> start]
  <2>1. \A i \in 0..C : i # 0 => f[i - 1] = start
    OBVIOUS
  <2>2. \A i \in 0..C : f[i] = IF i = 0 THEN start ELSE Up(f[i - 1])
    BY <1>2, <2>1
  <2>3. f = [i \in 0..C |-> IF i = 0 THEN start ELSE Up(f[i - 1])]
    <3> DEFINE h == [i \in 0..C |-> IF i = 0 THEN start ELSE Up(f[i - 1])]
    <3>1. \A i \in 0..C : f[i] = h[i]
      BY <2>2
    <3> HIDE DEF start
    <3> QED
      BY <3>1
  <2> HIDE DEF f
  <2> QED
    BY <2>3
<1>4. After = [i \in 0..C |-> IF i = 0 THEN start ELSE Up(After[i - 1])]
  BY <1>3, Zenon
<1> HIDE DEF After, start, C
<1>5. \A i \in 0..C : After[i] = IF i = 0 THEN start ELSE Up(After[i - 1])
  BY <1>4
<1> DEFINE S == {i \in Nat : i <= C => After[i] = start}
<1>6. ASSUME NEW i \in Nat, \A m \in Nat : m < i => m \in S
      PROVE  i \in S
  <2> SUFFICES ASSUME i <= C PROVE After[i] = start
    OBVIOUS
  <2>1. C \in Nat /\ i \in 0..C
    BY DEF C
  <2>2. CASE i = 0
    BY <1>5, <2>1, <2>2
  <2>3. CASE i # 0
    <3>1. i - 1 \in S /\ i - 1 <= C
      BY <1>6, <2>1, <2>3
    <3> QED
      BY <1>2, <1>5, <2>1, <2>3, <3>1
  <2> QED
    BY <2>2, <2>3
<1> HIDE DEF S
<1>7. C \in S
  BY <1>6, NumbersByInduction, Zenon DEF C
<1> QED
  BY <1>1, <1>7 DEF S, C, start

\* ActivePredecessorIsOnLineage: for a checkpoint that is active,
\* lineage_predecessor's walk over the tree of branches names the checkpoint that
\* comes before it on the way back, for every log and every scope.
THEOREM ActivePredecessor == Spec => []ActivePredecessorIsOnLineage
<1>1. LogInv => ActivePredecessorIsOnLineage
  <2> SUFFICES ASSUME LogInv, NEW scope \in Scopes, NEW n \in Checkpoints,
                      IsActive(wal, scope, n)
               PROVE  LineagePredecessor(wal, scope, Checkpoints, n)
                        = Nearest(Checkpoints \cap (Lineage(wal, scope)[n] \ {n}))
    BY DEF ActivePredecessorIsOnLineage
  <2> DEFINE L == Len(wal)
             U == Lineage(wal, scope)
             gaps == AbandonedIntervals(wal, scope)
             path == Walk(gaps, n)
  <2>1. WellFormed(wal) /\ DOMAIN wal = 1..L /\ L \in Nat /\ L \in 0..L
    BY DEF LogInv, WellFormed
  <2>2. n \in 1..L /\ Checkpoints \subseteq 1..L
    BY <2>1 DEF Checkpoints
  <2>3. \A c \in Checkpoints : IsActive(wal, scope, c) <=> c \in U[L]
    BY <2>1, <2>2, ActiveIsOnLineage
  <2>4. U[n] = {k \in U[L] : k <= n}
    BY <2>1, <2>2, <2>3, LineageOfLineage
  <2>5. path = <<[branch |-> ACTIVE_BRANCH_ID, cutoff |-> n]>>
    BY <2>1, GapsAreFinite, OnlyActiveIsOnActiveBranch, WalkFromActive
  <2>6. \A c \in Checkpoints :
          (\E k \in DOMAIN path : BranchOf(gaps, c) = path[k].branch /\ c < path[k].cutoff)
            <=> IsActive(wal, scope, c) /\ c < n
    <3>1. \A c : BranchOf(gaps, c) = ACTIVE_BRANCH_ID <=> IsActive(wal, scope, c)
      BY <2>1, OnlyActiveIsOnActiveBranch
    <3> HIDE DEF gaps, path
    <3>2. DOMAIN path = {1} /\ path[1].branch = ACTIVE_BRANCH_ID /\ path[1].cutoff = n
      BY <2>5
    <3> QED
      BY <3>1, <3>2, Zenon
  <2>7. \A c \in Checkpoints : c <= n /\ c # n <=> c < n
    BY <2>2
  <2>8. {c \in Checkpoints :
           \E k \in DOMAIN path : BranchOf(gaps, c) = path[k].branch /\ c < path[k].cutoff}
          = Checkpoints \cap (U[n] \ {n})
    BY <2>3, <2>4, <2>6, <2>7, Zenon
  <2> QED
    BY <2>8 DEF LineagePredecessor
<1> QED
  BY <1>1, LogAlways, PTL
=============================================================================
