------------------------- MODULE SessionInboxProofs -------------------------
(***************************************************************************)
(* What SessionInbox keeps for any messages, any mix of ride-alongs and    *)
(* injectable kinds, any drivers and any number of restarts and rewinds.   *)
(*                                                                         *)
(* The copies of the inbox are sequences that recursive definitions build: *)
(* what is left of one (Except), what a run of records rebuilds            *)
(* (ReplayAll), the records of a drain (FlattenSeq).  Their laws come      *)
(* first, by induction about sets, the form the provers can instantiate.   *)
(***************************************************************************)
EXTENDS SessionInbox, WellFoundedInduction, TLAPS

----------------------------------------------------------------------------
(* Induction over numbers and over sequences, without operators.            *)

\* A set that has every number all of whose predecessors it has, has all.
LEMMA NumbersByInduction ==
  ASSUME NEW T, \A n \in Nat : (\A m \in Nat : m < n => m \in T) => n \in T
  PROVE  Nat \subseteq T
  <1> SUFFICES ASSUME Nat \ T # {} PROVE FALSE
    OBVIOUS
  <1>1. PICK x \in Nat \ T : \A y \in Nat \ T : <<y, x>> \notin OpToRel(<, Nat)
    BY WFMin, NatLessThanWellFounded, Zenon
  <1>2. \A y \in Nat \ T : ~(y < x)
    BY <1>1 DEF OpToRel
  <1> QED
    BY <1>2

\* A set that has the empty sequence, and with a sequence every longer one by an
\* element, has all.
LEMMA SequencesByInduction ==
  ASSUME NEW S, NEW T, <<>> \in T,
         \A s \in Seq(S), e \in S : s \in T => Append(s, e) \in T
  PROVE  Seq(S) \subseteq T
  <1> DEFINE N == {n \in Nat : \A s \in Seq(S) : Len(s) = n => s \in T}
  <1>1. ASSUME NEW n \in Nat, \A m \in Nat : m < n => m \in N
        PROVE  n \in N
    <2> SUFFICES ASSUME NEW s \in Seq(S), Len(s) = n PROVE s \in T
      OBVIOUS
    <2>1. CASE n = 0
      <3>1. s = <<>>
        BY <2>1
      <3> QED
        BY <3>1
    <2>2. CASE n # 0
      <3> DEFINE r == SubSeq(s, 1, n - 1)
      <3>1. n - 1 \in Nat /\ n - 1 < n /\ r \in Seq(S) /\ Len(r) = n - 1
        BY <2>2
      <3>2. s[n] \in S
        BY <2>2
      <3>3. s = Append(r, s[n])
        <4>1. \A i \in 1..(n - 1) : r[i] = s[i]
          BY <2>2
        <4> HIDE DEF r
        <4> DEFINE a == Append(r, s[n])
        <4>2. a \in Seq(S) /\ Len(a) = n
          BY <3>1, <3>2
        <4>3. \A i \in 1..n : a[i] = s[i]
          BY <3>1, <3>2, <4>1
        <4> HIDE DEF a
        <4>4. s = a
          BY <4>2, <4>3
        <4> QED
          BY <4>4 DEF a
      <3> HIDE DEF r
      <3>4. r \in T
        BY <1>1, <3>1
      <3>5. Append(r, s[n]) \in T
        BY <3>1, <3>2, <3>4
      <3> QED
        BY <3>3, <3>5, Zenon
    <2> QED
      BY <2>1, <2>2
  <1> HIDE DEF N
  <1>2. Nat \subseteq N
    BY <1>1, NumbersByInduction
  <1> QED
    BY <1>2 DEF N

\* Two runs that start together and make the same steps ...
GoAlike(f, g, N) ==
  f[0] = g[0] /\ \A n \in 1..N : f[n - 1] = g[n - 1] => f[n] = g[n]

\* ... go the same way.
LEMMA SameSteps ==
  ASSUME NEW M \in Nat, NEW f, NEW g, GoAlike(f, g, M)
  PROVE  \A n \in 0..M : f[n] = g[n]
  <1> DEFINE T == {n \in Nat : n <= M => f[n] = g[n]}
  <1>1. ASSUME NEW n \in Nat, \A m \in Nat : m < n => m \in T
        PROVE  n \in T
    <2> SUFFICES ASSUME n <= M PROVE f[n] = g[n]
      OBVIOUS
    <2>1. CASE n = 0
      BY <2>1 DEF GoAlike
    <2>2. CASE n # 0
      <3>1. n - 1 \in T /\ n - 1 \in Nat /\ n \in 1..M
        BY <1>1, <2>2
      <3>2. f[n - 1] = g[n - 1]
        BY <3>1
      <3> QED
        BY <3>1, <3>2 DEF GoAlike
    <2> QED
      BY <2>1, <2>2
  <1> HIDE DEF T
  <1>2. Nat \subseteq T
    BY <1>1, NumbersByInduction
  <1> QED
    BY <1>2 DEF T

\* A run of any length exists.
IsRun(f, X, N, base, step) ==
  /\ f \in [0..N -> X] /\ f[0] = base
  /\ \A n \in 1..N : f[n] = step[<<f[n - 1], n>>]

LEMMA RunExists ==
  ASSUME NEW X, NEW base \in X, NEW N \in Nat, NEW step \in [X \X (1..N) -> X]
  PROVE  \E f : IsRun(f, X, N, base, step)
  <1> DEFINE T == {k \in Nat : k <= N =>
                     \E f \in [0..k -> X] :
                       f[0] = base /\ \A n \in 1..k : f[n] = step[<<f[n - 1], n>>]}
  <1>1. ASSUME NEW k \in Nat, \A m \in Nat : m < k => m \in T
        PROVE  k \in T
    <2> SUFFICES ASSUME k <= N
                 PROVE  \E f \in [0..k -> X] :
                          f[0] = base /\ \A n \in 1..k : f[n] = step[<<f[n - 1], n>>]
      OBVIOUS
    <2>1. CASE k = 0
      <3> DEFINE f == [n \in 0..0 |-> base]
      <3>1. f \in [0..k -> X] /\ f[0] = base /\ \A n \in 1..k : f[n] = step[<<f[n - 1], n>>]
        BY <2>1
      <3> QED
        BY <3>1
    <2>2. CASE k # 0
      <3>0. k - 1 \in Nat /\ k - 1 < k /\ k - 1 <= N /\ k \in 1..N
        BY <2>2
      <3> HIDE DEF T
      <3>1. k - 1 \in T /\ k - 1 \in Nat /\ k \in 1..N
        BY <1>1, <3>0
      <3> USE DEF T
      <3>2. PICK f \in [0..(k - 1) -> X] :
              f[0] = base /\ \A n \in 1..(k - 1) : f[n] = step[<<f[n - 1], n>>]
        BY <3>0, <3>1
      <3> DEFINE x == step[<<f[k - 1], k>>]
                 g == [n \in 0..k |-> IF n = k THEN x ELSE f[n]]
      <3>3. x \in X
        <4>1. f[k - 1] \in X
          BY <3>1, <3>2
        <4> QED
          BY <3>1, <4>1
      <3>4. g[k] = x /\ \A n \in 0..(k - 1) : g[n] = f[n]
        BY <3>1
      <3>5. g \in [0..k -> X]
        BY <3>1, <3>3
      <3> HIDE DEF g
      <3>6. ASSUME NEW n \in 1..k PROVE g[n] = step[<<g[n - 1], n>>]
        <4>1. n - 1 \in 0..(k - 1) /\ g[n - 1] = f[n - 1]
          BY <3>1, <3>4
        <4>2. CASE n = k
          BY <3>4, <4>1, <4>2
        <4>3. CASE n # k
          <5>1. n \in 1..(k - 1)
            BY <4>3
          <5> QED
            BY <3>2, <3>4, <4>1, <5>1
        <4> QED
          BY <4>2, <4>3
      <3>7. g[0] = base
        BY <3>1, <3>2, <3>4
      <3> QED
        BY <3>5, <3>6, <3>7
    <2> QED
      BY <2>1, <2>2
  <1> HIDE DEF T
  <1>2. Nat \subseteq T
    BY <1>1, NumbersByInduction
  <1>3. N \in T
    BY <1>2
  <1> QED
    BY <1>3 DEF T, IsRun

----------------------------------------------------------------------------
(* What is left of a sequence.                                              *)

\* Except computes what its definition describes.
KeepsOnly(f, S, s, gone) ==
  /\ f \in [0..Len(s) -> Seq(S)]
  /\ f[0] = <<>> /\ Except(s, gone) = f[Len(s)]
  /\ \A n \in 1..Len(s) :
       f[n] = IF s[n] \in gone THEN f[n - 1] ELSE Append(f[n - 1], s[n])

LEMMA ExceptIsRun ==
  ASSUME NEW S, NEW s \in Seq(S), NEW gone
  PROVE  \E f : KeepsOnly(f, S, s, gone)
  <1> DEFINE N == Len(s)
             X == Seq(S)
             step == [p \in X \X (1..N) |->
                        IF s[p[2]] \in gone THEN p[1] ELSE Append(p[1], s[p[2]])]
             Is(k) == k = [n \in 0..N |->
                             IF n = 0 THEN <<>>
                             ELSE IF s[n] \in gone THEN k[n - 1] ELSE Append(k[n - 1], s[n])]
             kept == CHOOSE k : Is(k)
  <1>0. N \in Nat /\ <<>> \in X /\ \A n \in 1..N : s[n] \in S
    OBVIOUS
  <1>1. Except(s, gone) = kept[N]
    BY Zenon DEF Except
  <1>2. step \in [X \X (1..N) -> X]
    BY <1>0
  <1>3. \A x \in X, n \in 1..N :
          step[<<x, n>>] = IF s[n] \in gone THEN x ELSE Append(x, s[n])
    OBVIOUS
  <1> HIDE DEF step, X, N
  <1>4. PICK f \in [0..N -> X] : f[0] = <<>> /\ \A n \in 1..N : f[n] = step[<<f[n - 1], n>>]
    <2>1. N \in Nat /\ <<>> \in X
      BY <1>0
    <2>2. \E f : IsRun(f, X, N, <<>>, step)
      BY <1>2, <2>1, RunExists
    <2> QED
      BY <2>2 DEF IsRun
  <1>5. \A n \in 1..N : f[n] = IF s[n] \in gone THEN f[n - 1] ELSE Append(f[n - 1], s[n])
    <2> SUFFICES ASSUME NEW n \in 1..N
                 PROVE  f[n] = IF s[n] \in gone THEN f[n - 1] ELSE Append(f[n - 1], s[n])
      OBVIOUS
    <2>1. f[n - 1] \in X
      BY <1>0, <1>4
    <2> QED
      BY <1>3, <1>4, <2>1
  <1>6. Is(f)
    <2> DEFINE g == [n \in 0..N |->
                       IF n = 0 THEN <<>>
                       ELSE IF s[n] \in gone THEN f[n - 1] ELSE Append(f[n - 1], s[n])]
    <2>0. g[0] = <<>> /\ \A n \in 1..N :
            g[n] = IF s[n] \in gone THEN f[n - 1] ELSE Append(f[n - 1], s[n])
      BY <1>0
    <2>3. \A n \in 0..N : n = 0 \/ n \in 1..N
      BY <1>0
    <2> HIDE DEF g
    <2>1. \A n \in 0..N : f[n] = g[n]
      BY <1>4, <1>5, <2>0, <2>3
    <2> USE DEF g
    <2>2. f = [n \in 0..N |-> f[n]] /\ g = [n \in 0..N |-> g[n]]
      BY <1>4
    <2>4. f = g
      BY <2>1, <2>2
    <2> QED
      BY <2>4, Zenon
  <1> HIDE DEF Is
  <1>7. Is(kept)
    BY <1>6, Zenon
  <1>8. /\ kept[0] = <<>>
        /\ \A n \in 1..N : kept[n] = IF s[n] \in gone THEN kept[n - 1]
                                     ELSE Append(kept[n - 1], s[n])
    <2> HIDE DEF kept
    <2>1. kept = [n \in 0..N |->
                    IF n = 0 THEN <<>>
                    ELSE IF s[n] \in gone THEN kept[n - 1] ELSE Append(kept[n - 1], s[n])]
      BY <1>7 DEF Is
    <2>2. 0 \in 0..N /\ \A n \in 1..N : n \in 0..N /\ n # 0
      BY <1>0
    <2> QED
      BY <2>1, <2>2
  <1> HIDE DEF kept
  <1>9. \A n \in 0..N : f[n] = kept[n]
    <2>1. f[0] = kept[0] /\ N \in Nat
      BY <1>0, <1>4, <1>8
    <2>2. \A n \in 1..N : f[n - 1] = kept[n - 1] => f[n] = kept[n]
      BY <1>5, <1>8
    <2>3. GoAlike(f, kept, N)
      BY <2>1, <2>2, Zenon DEF GoAlike
    <2> QED
      BY <2>1, <2>3, SameSteps, Zenon
  <1>10. f[N] = kept[N]
    BY <1>0, <1>9
  <1>11. KeepsOnly(f, S, s, gone)
    BY <1>1, <1>4, <1>5, <1>10, Zenon DEF N, X, KeepsOnly
  <1> QED
    BY <1>11

LEMMA ExceptNothing == \A gone : Except(<<>>, gone) = <<>>
  <1> TAKE gone
  <1>1. <<>> \in Seq({}) /\ Len(<<>>) = 0
    OBVIOUS
  <1>2. PICK f : KeepsOnly(f, {}, <<>>, gone)
    BY <1>1, ExceptIsRun
  <1> QED
    BY <1>1, <1>2 DEF KeepsOnly

\* One element more.
LEMMA ExceptAppend ==
  ASSUME NEW S, NEW s \in Seq(S), NEW e \in S, NEW gone
  PROVE  /\ Except(s, gone) \in Seq(S)
         /\ Except(Append(s, e), gone) = IF e \in gone THEN Except(s, gone)
                                         ELSE Append(Except(s, gone), e)
  <1> DEFINE r == Append(s, e)
             N == Len(s)
  <1>1. N \in Nat /\ r \in Seq(S) /\ Len(r) = N + 1 /\ r[N + 1] = e /\ \A n \in 1..N : r[n] = s[n]
    OBVIOUS
  <1>20. PICK f : KeepsOnly(f, S, s, gone)
    BY ExceptIsRun
  <1>2. /\ f \in [0..N -> Seq(S)] /\ f[0] = <<>> /\ Except(s, gone) = f[N]
        /\ \A n \in 1..N : f[n] = IF s[n] \in gone THEN f[n - 1] ELSE Append(f[n - 1], s[n])
    BY <1>20, Zenon DEF KeepsOnly
  <1> HIDE DEF r
  <1>30. PICK g : KeepsOnly(g, S, r, gone)
    BY <1>1, ExceptIsRun
  <1>3. /\ g \in [0..Len(r) -> Seq(S)] /\ g[0] = <<>> /\ Except(r, gone) = g[Len(r)]
        /\ \A n \in 1..Len(r) : g[n] = IF r[n] \in gone THEN g[n - 1]
                                       ELSE Append(g[n - 1], r[n])
    BY <1>30, Zenon DEF KeepsOnly
  <1> HIDE DEF N
  <1>4. \A n \in 1..N : g[n] = IF s[n] \in gone THEN g[n - 1] ELSE Append(g[n - 1], s[n])
    <2>1. \A n \in 1..N : n \in 1..Len(r) /\ r[n] = s[n]
      BY <1>1
    <2> QED
      BY <1>3, <2>1
  <1>5. \A n \in 0..N : f[n] = g[n]
    <2>1. f[0] = g[0] /\ N \in Nat
      BY <1>1, <1>2, <1>3
    <2>2. \A n \in 1..N : f[n - 1] = g[n - 1] => f[n] = g[n]
      BY <1>2, <1>4
    <2>3. GoAlike(f, g, N)
      BY <2>1, <2>2, Zenon DEF GoAlike
    <2> QED
      BY <2>1, <2>3, SameSteps, Zenon
  <1>6. /\ Except(r, gone) = g[N + 1]
        /\ g[N + 1] = IF e \in gone THEN g[N] ELSE Append(g[N], e)
    <2>1. N + 1 \in 1..Len(r) /\ N + 1 - 1 = N
      BY <1>1
    <2> QED
      BY <1>1, <1>3, <2>1
  <1>7. g[N] = Except(s, gone) /\ Except(s, gone) \in Seq(S)
    BY <1>1, <1>2, <1>5
  <1> QED
    BY <1>6, <1>7, Zenon DEF r

LEMMA ExceptKeeps ==
  ASSUME NEW S, NEW s \in Seq(S), NEW e \in S, NEW gone, e \notin gone
  PROVE  Except(Append(s, e), gone) = Append(Except(s, gone), e)
BY ExceptAppend

----------------------------------------------------------------------------
(* The laws of Except.                                                      *)

Distinct(s) == \A i, j \in DOMAIN s : s[i] = s[j] => i = j

LEMMA AppendFacts ==
  ASSUME NEW S, NEW s \in Seq(S), NEW e \in S
  PROVE  /\ Append(s, e) \in Seq(S)
         /\ Range(Append(s, e)) = Range(s) \cup {e}
         /\ Distinct(s) /\ e \notin Range(s) => Distinct(Append(s, e))
         /\ Distinct(Append(s, e)) => Distinct(s) /\ e \notin Range(s)
  <1> DEFINE r == Append(s, e)
  <1>1. /\ r \in Seq(S) /\ DOMAIN s = 1..Len(s) /\ DOMAIN r = 1..(Len(s) + 1) /\ Len(s) \in Nat
        /\ r[Len(s) + 1] = e /\ \A i \in DOMAIN s : r[i] = s[i]
    OBVIOUS
  <1> HIDE DEF r
  <1>2. \A i \in DOMAIN r : i \in DOMAIN s \/ i = Len(s) + 1
    BY <1>1
  <1>3. DOMAIN s \subseteq DOMAIN r /\ Len(s) + 1 \in DOMAIN r /\ Len(s) + 1 \notin DOMAIN s
    BY <1>1
  <1>4. Range(r) = Range(s) \cup {e}
    BY <1>1, <1>2, <1>3 DEF Range
  <1>5. Distinct(s) /\ e \notin Range(s) => Distinct(r)
    BY <1>1, <1>2 DEF Distinct, Range
  <1>6. Distinct(r) => Distinct(s) /\ e \notin Range(s)
    BY <1>1, <1>3 DEF Distinct, Range
  <1> QED
    BY <1>1, <1>4, <1>5, <1>6 DEF r

LEMMA ConcatFacts ==
  ASSUME NEW S, NEW q \in Seq(S), NEW r \in Seq(S)
  PROVE  /\ q \o r \in Seq(S)
         /\ Range(q \o r) = Range(q) \cup Range(r)
         /\ Distinct(q \o r) => Distinct(q) /\ Distinct(r) /\ Range(q) \cap Range(r) = {}
  <1> DEFINE s == q \o r
  <1>1. /\ s \in Seq(S) /\ DOMAIN q = 1..Len(q) /\ DOMAIN r = 1..Len(r)
        /\ DOMAIN s = 1..(Len(q) + Len(r)) /\ Len(q) \in Nat /\ Len(r) \in Nat
        /\ \A i \in DOMAIN q : s[i] = q[i]
        /\ \A i \in DOMAIN r : s[Len(q) + i] = r[i]
    OBVIOUS
  <1> HIDE DEF s
  <1>2. /\ \A i \in DOMAIN s : i \in DOMAIN q \/ (i - Len(q) \in DOMAIN r /\ Len(q) + (i - Len(q)) = i)
        /\ DOMAIN q \subseteq DOMAIN s
        /\ \A i \in DOMAIN r : Len(q) + i \in DOMAIN s
    BY <1>1
  <1>3. Range(s) = Range(q) \cup Range(r)
    <2>1. Range(s) \subseteq Range(q) \cup Range(r)
      <3> SUFFICES ASSUME NEW i \in DOMAIN s PROVE s[i] \in Range(q) \cup Range(r)
        BY DEF Range
      <3>1. CASE i \in DOMAIN q
        BY <1>1, <3>1 DEF Range
      <3>2. CASE i \notin DOMAIN q
        <4>1. PICK k \in DOMAIN r : Len(q) + k = i
          BY <1>2, <3>2
        <4> QED
          BY <1>1, <4>1 DEF Range
      <3> QED
        BY <3>1, <3>2
    <2>2. Range(q) \cup Range(r) \subseteq Range(s)
      BY <1>1, <1>2 DEF Range
    <2> QED
      BY <2>1, <2>2
  <1>4. ASSUME Distinct(s)
        PROVE  Distinct(q) /\ Distinct(r) /\ Range(q) \cap Range(r) = {}
    <2>1. Distinct(q)
      BY <1>1, <1>2, <1>4 DEF Distinct
    <2>2. Distinct(r)
      <3> SUFFICES ASSUME NEW i \in DOMAIN r, NEW j \in DOMAIN r, r[i] = r[j] PROVE i = j
        BY DEF Distinct
      <3>1. Len(q) + i = Len(q) + j
        BY <1>1, <1>2, <1>4 DEF Distinct
      <3> QED
        BY <1>1, <3>1
    <2>3. ASSUME NEW i \in DOMAIN q, NEW j \in DOMAIN r, q[i] = r[j] PROVE FALSE
      <3>1. i = Len(q) + j
        BY <1>1, <1>2, <1>4, <2>3 DEF Distinct
      <3> QED
        BY <1>1, <3>1
    <2> QED
      BY <2>1, <2>2, <2>3 DEF Range
  <1> QED
    BY <1>1, <1>3, <1>4 DEF s

LEMMA PutLast ==
  ASSUME NEW S, NEW q \in Seq(S), NEW r \in Seq(S), NEW e \in S
  PROVE  /\ q \o Append(r, e) = Append(q \o r, e)
         /\ q \o r \in Seq(S) /\ Append(r, e) \in Seq(S)
  <1> DEFINE a == q \o Append(r, e)
             b == Append(q \o r, e)
             m == Len(q)
             n == Len(r)
  <1>1. /\ q \o r \in Seq(S) /\ Append(r, e) \in Seq(S)
        /\ m \in Nat /\ n \in Nat
    OBVIOUS
  <1>2. Len(q \o r) = m + n /\ Len(Append(r, e)) = n + 1
    OBVIOUS
  <1>3. a \in Seq(S) /\ b \in Seq(S) /\ Len(a) = m + (n + 1) /\ Len(b) = m + n + 1
    BY <1>1, <1>2
  <1>4. ASSUME NEW i \in 1..(m + n + 1) PROVE a[i] = b[i]
    <2>1. CASE i <= m
      BY <1>1, <1>2, <2>1
    <2>2. CASE i > m /\ i <= m + n
      BY <1>1, <1>2, <2>2
    <2>3. CASE i = m + n + 1
      BY <1>1, <1>2, <2>3
    <2> QED
      BY <1>1, <2>1, <2>2, <2>3
  <1> HIDE DEF a, b
  <1>5. a = b
    BY <1>1, <1>3, <1>4
  <1> QED
    BY <1>1, <1>5 DEF a, b

LEMMA ExceptType ==
  ASSUME NEW S, NEW s \in Seq(S), NEW gone
  PROVE  Except(s, gone) \in Seq(S)
  <1>1. PICK f : KeepsOnly(f, S, s, gone)
    BY ExceptIsRun
  <1>2. Len(s) \in 0..Len(s)
    OBVIOUS
  <1> QED
    BY <1>1, <1>2 DEF KeepsOnly

LEMMA ExceptRange ==
  ASSUME NEW S, NEW s \in Seq(S), NEW gone
  PROVE  /\ Range(Except(s, gone)) = Range(s) \ gone
         /\ Distinct(s) => Distinct(Except(s, gone))
  <1> DEFINE T == {q \in Seq(S) : /\ Range(Except(q, gone)) = Range(q) \ gone
                                  /\ Distinct(q) => Distinct(Except(q, gone))}
  <1>1. <<>> \in T
    BY ExceptNothing DEF Range, Distinct
  <1>2. ASSUME NEW q \in Seq(S), NEW e \in S, q \in T PROVE Append(q, e) \in T
    <2>0. Except(Append(q, e), gone) = IF e \in gone THEN Except(q, gone)
                                       ELSE Append(Except(q, gone), e)
      BY ExceptAppend
    <2>1. Except(q, gone) \in Seq(S)
      BY ExceptType
    <2>2. Append(q, e) \in Seq(S) /\ Range(Append(q, e)) = Range(q) \cup {e}
          /\ (Distinct(Append(q, e)) => Distinct(q) /\ e \notin Range(q))
      BY AppendFacts
    <2>3. Range(Except(q, gone)) = Range(q) \ gone /\ (Distinct(q) => Distinct(Except(q, gone)))
      BY <1>2
    <2> DEFINE x == Except(q, gone)
    <2>4. /\ Range(Append(x, e)) = Range(x) \cup {e}
          /\ Distinct(x) /\ e \notin Range(x) => Distinct(Append(x, e))
      BY <2>1, AppendFacts
    <2>5. CASE e \in gone
      BY <2>0, <2>2, <2>3, <2>5
    <2>6. CASE e \notin gone
      BY <2>0, <2>2, <2>3, <2>4, <2>6
    <2> QED
      BY <2>5, <2>6
  <1> HIDE DEF T
  <1>3. Seq(S) \subseteq T
    BY <1>1, <1>2, SequencesByInduction
  <1> QED
    BY <1>3 DEF T

LEMMA ExceptConcat ==
  ASSUME NEW S, NEW q \in Seq(S), NEW r \in Seq(S), NEW gone
  PROVE  Except(q \o r, gone) = Except(q, gone) \o Except(r, gone)
  <1> DEFINE T == {s \in Seq(S) : Except(q \o s, gone) = Except(q, gone) \o Except(s, gone)}
  <1>0. Except(q, gone) \in Seq(S)
    BY ExceptType
  <1>1. <<>> \in T
    <2>1. q \o <<>> = q /\ Except(q, gone) \o <<>> = Except(q, gone) /\ <<>> \in Seq(S)
      BY <1>0
    <2>2. Except(q \o <<>>, gone) = Except(q, gone) \o Except(<<>>, gone)
      BY <2>1, ExceptNothing, Zenon
    <2> QED
      BY <2>1, <2>2
  <1>2. ASSUME NEW s \in Seq(S), NEW e \in S, s \in T PROVE Append(s, e) \in T
    <2>1. q \o Append(s, e) = Append(q \o s, e) /\ q \o s \in Seq(S) /\ Append(s, e) \in Seq(S)
      BY PutLast
    <2> HIDE DEF T
    <2>8. Except(s, gone) \in Seq(S)
      BY ExceptType
    <2>9. Except(Append(s, e), gone) = IF e \in gone THEN Except(s, gone)
                                       ELSE Append(Except(s, gone), e)
      BY ExceptAppend
    <2>2. /\ Except(s, gone) \in Seq(S)
          /\ Except(Append(s, e), gone) = IF e \in gone THEN Except(s, gone)
                                          ELSE Append(Except(s, gone), e)
      BY <2>8, <2>9
    <2> USE DEF T
    <2> DEFINE z == q \o s
    <2>5. z \in Seq(S)
      BY <2>1
    <2> HIDE DEF z
    <2>6. Except(Append(z, e), gone) = IF e \in gone THEN Except(z, gone)
                                       ELSE Append(Except(z, gone), e)
      BY <2>5, ExceptAppend
    <2> USE DEF z
    <2>3. Except(q \o s, gone) = Except(q, gone) \o Except(s, gone)
      BY <1>2
    <2> DEFINE x == Except(q, gone)
               y == Except(s, gone)
    <2>4. x \o Append(y, e) = Append(x \o y, e)
      <3> HIDE DEF x, y
      <3>1. x \in Seq(S) /\ y \in Seq(S)
        BY <1>0, <2>2 DEF x, y
      <3> QED
        BY <3>1, PutLast
    <2> HIDE DEF x, y, z
    <2>7. Except(Append(z, e), gone) = x \o Except(Append(s, e), gone)
      <3>1. Except(z, gone) = x \o y
        BY <2>3 DEF x, y, z
      <3> QED
        BY <2>2, <2>4, <2>6, <3>1 DEF y
    <2> QED
      BY <2>1, <2>7 DEF x, z
  <1> HIDE DEF T
  <1>3. Seq(S) \subseteq T
    BY <1>1, <1>2, SequencesByInduction
  <1> QED
    BY <1>3 DEF T

\* Only what is there counts.
LEMMA ExceptSame ==
  ASSUME NEW S, NEW q \in Seq(S), NEW g, NEW h, \A x \in Range(q) : x \in g <=> x \in h
  PROVE  Except(q, g) = Except(q, h)
  <1> DEFINE T == {s \in Seq(S) : (\A x \in Range(s) : x \in g <=> x \in h)
                                    => Except(s, g) = Except(s, h)}
  <1>1. <<>> \in T
    BY ExceptNothing
  <1>2. ASSUME NEW s \in Seq(S), NEW e \in S, s \in T PROVE Append(s, e) \in T
    <2>1. Append(s, e) \in Seq(S) /\ Range(Append(s, e)) = Range(s) \cup {e}
      BY AppendFacts
    <2>2. Except(Append(s, e), g) = IF e \in g THEN Except(s, g) ELSE Append(Except(s, g), e)
      BY ExceptAppend
    <2>3. Except(Append(s, e), h) = IF e \in h THEN Except(s, h) ELSE Append(Except(s, h), e)
      BY ExceptAppend
    <2> QED
      BY <1>2, <2>1, <2>2, <2>3
  <1> HIDE DEF T
  <1>3. Seq(S) \subseteq T
    BY <1>1, <1>2, SequencesByInduction
  <1> QED
    BY <1>3 DEF T

LEMMA ExceptTwice ==
  ASSUME NEW S, NEW q \in Seq(S), NEW g, NEW h
  PROVE  Except(Except(q, g), h) = Except(q, g \cup h)
  <1> DEFINE T == {s \in Seq(S) : Except(Except(s, g), h) = Except(s, g \cup h)}
  <1>1. <<>> \in T
    BY ExceptNothing
  <1>2. ASSUME NEW s \in Seq(S), NEW e \in S, s \in T PROVE Append(s, e) \in T
    <2> DEFINE x == Except(s, g)
    <2>1. /\ x \in Seq(S) /\ Append(s, e) \in Seq(S)
          /\ Except(Append(s, e), g) = IF e \in g THEN x ELSE Append(x, e)
          /\ Except(Append(s, e), g \cup h) = IF e \in g \cup h THEN Except(s, g \cup h)
                                              ELSE Append(Except(s, g \cup h), e)
      BY ExceptAppend
    <2>2. Except(Append(x, e), h) = IF e \in h THEN Except(x, h) ELSE Append(Except(x, h), e)
      BY <2>1, ExceptAppend
    <2>3. Except(x, h) = Except(s, g \cup h)
      BY <1>2
    <2> HIDE DEF x
    <2>4. Except(Except(Append(s, e), g), h) = Except(Append(s, e), g \cup h)
      BY <2>1, <2>2, <2>3
    <2> QED
      BY <2>1, <2>4
  <1> HIDE DEF T
  <1>3. Seq(S) \subseteq T
    BY <1>1, <1>2, SequencesByInduction
  <1> QED
    BY <1>3 DEF T

\* Nothing to take out.
LEMMA ExceptAll ==
  ASSUME NEW S, NEW q \in Seq(S), NEW g, Range(q) \cap g = {}
  PROVE  Except(q, g) = q
  <1> DEFINE T == {s \in Seq(S) : Range(s) \cap g = {} => Except(s, g) = s}
  <1>1. <<>> \in T
    BY ExceptNothing
  <1>2. ASSUME NEW s \in Seq(S), NEW e \in S, s \in T PROVE Append(s, e) \in T
    <2>1. Append(s, e) \in Seq(S) /\ Range(Append(s, e)) = Range(s) \cup {e}
      BY AppendFacts
    <2>2. Except(Append(s, e), g) = IF e \in g THEN Except(s, g) ELSE Append(Except(s, g), e)
      BY ExceptAppend
    <2> QED
      BY <1>2, <2>1, <2>2
  <1> HIDE DEF T
  <1>3. Seq(S) \subseteq T
    BY <1>1, <1>2, SequencesByInduction
  <1> QED
    BY <1>3 DEF T

----------------------------------------------------------------------------
(* What a run of records rebuilds.                                          *)

Records == {r \in [op : {"put", "prune", "stage", "clear"}, msg : Msgs \cup {NONE}] :
              r.op # "clear" => r.msg \in Msgs}

LEMMA ReplayType ==
  ASSUME NEW s \in Snapshots, NEW r \in Records
  PROVE  /\ Replay(s, r) \in Snapshots
         /\ r.op = "put" => Replay(s, r) = [inbox |-> Append(s.inbox, r.msg), context |-> s.context]
         /\ r.op = "prune" =>
              Replay(s, r) = [inbox |-> Except(s.inbox, {r.msg}), context |-> s.context]
         /\ r.op = "stage" => Replay(s, r) = [inbox |-> s.inbox, context |-> Append(s.context, r.msg)]
         /\ r.op = "clear" => Replay(s, r) = [inbox |-> s.inbox, context |-> <<>>]
  <1>0. s.inbox \in Seq(Msgs) /\ s.context \in Seq(Msgs)
        /\ s = [inbox |-> s.inbox, context |-> s.context]
    BY DEF Snapshots
  <1>1. Except(s.inbox, {r.msg}) \in Seq(Msgs)
    BY <1>0, ExceptType
  <1>2. CASE r.op = "put"
    <2>1. Replay(s, r) = [inbox |-> Append(s.inbox, r.msg), context |-> s.context]
      BY <1>0, <1>2 DEF Replay
    <2>2. r.msg \in Msgs
      BY <1>2 DEF Records
    <2> QED
      BY <1>0, <1>2, <2>1, <2>2 DEF Snapshots
  <1>3. CASE r.op = "prune"
    <2>1. Replay(s, r) = [inbox |-> Except(s.inbox, {r.msg}), context |-> s.context]
      BY <1>0, <1>3 DEF Replay
    <2> QED
      BY <1>0, <1>1, <1>3, <2>1 DEF Snapshots
  <1>4. CASE r.op = "stage"
    <2>1. Replay(s, r) = [inbox |-> s.inbox, context |-> Append(s.context, r.msg)]
      BY <1>0, <1>4 DEF Replay
    <2>2. r.msg \in Msgs
      BY <1>4 DEF Records
    <2> QED
      BY <1>0, <1>4, <2>1, <2>2 DEF Snapshots
  <1>5. CASE r.op = "clear"
    <2>1. Replay(s, r) = [inbox |-> s.inbox, context |-> <<>>]
      BY <1>0, <1>5 DEF Replay
    <2> QED
      BY <1>0, <1>5, <2>1 DEF Snapshots
  <1> QED
    BY <1>2, <1>3, <1>4, <1>5 DEF Records

\* ReplayAll computes what its definition describes.
Rebuilds(f, s, recs) ==
  /\ f \in [0..Len(recs) -> Snapshots]
  /\ f[0] = s /\ ReplayAll(s, recs) = f[Len(recs)]
  /\ \A n \in 1..Len(recs) : f[n] = Replay(f[n - 1], recs[n])

LEMMA ReplayIsRun ==
  ASSUME NEW s \in Snapshots, NEW recs \in Seq(Records)
  PROVE  \E f : Rebuilds(f, s, recs)
  <1> DEFINE N == Len(recs)
             X == Snapshots
             step == [p \in X \X (1..N) |-> Replay(p[1], recs[p[2]])]
             Is(k) == k = [n \in 0..N |-> IF n = 0 THEN s ELSE Replay(k[n - 1], recs[n])]
             after == CHOOSE k : Is(k)
  <1>0. N \in Nat /\ s \in X /\ \A n \in 1..N : recs[n] \in Records
    OBVIOUS
  <1>1. ReplayAll(s, recs) = after[N]
    BY Zenon DEF ReplayAll
  <1>2. step \in [X \X (1..N) -> X]
    <2>1. \A p \in X \X (1..N) : p[1] \in X /\ recs[p[2]] \in Records
      BY <1>0
    <2>2. \A p \in X \X (1..N) : Replay(p[1], recs[p[2]]) \in X
      BY <2>1, ReplayType
    <2> QED
      BY <2>2
  <1>3. \A x \in X, n \in 1..N : step[<<x, n>>] = Replay(x, recs[n])
    OBVIOUS
  <1> HIDE DEF step, X, N
  <1>4. PICK f \in [0..N -> X] : f[0] = s /\ \A n \in 1..N : f[n] = step[<<f[n - 1], n>>]
    <2>1. N \in Nat /\ s \in X
      BY <1>0
    <2>2. \E f : IsRun(f, X, N, s, step)
      BY <1>2, <2>1, RunExists
    <2> QED
      BY <2>2 DEF IsRun
  <1>5. \A n \in 1..N : f[n] = Replay(f[n - 1], recs[n])
    <2> SUFFICES ASSUME NEW n \in 1..N
                 PROVE  f[n] = Replay(f[n - 1], recs[n])
      OBVIOUS
    <2>1. f[n - 1] \in X
      BY <1>0, <1>4
    <2> QED
      BY <1>3, <1>4, <2>1
  <1>6. Is(f)
    <2> DEFINE g == [n \in 0..N |-> IF n = 0 THEN s ELSE Replay(f[n - 1], recs[n])]
    <2>0. g[0] = s /\ \A n \in 1..N : g[n] = Replay(f[n - 1], recs[n])
      BY <1>0
    <2>3. \A n \in 0..N : n = 0 \/ n \in 1..N
      BY <1>0
    <2> HIDE DEF g
    <2>1. \A n \in 0..N : f[n] = g[n]
      BY <1>4, <1>5, <2>0, <2>3
    <2> USE DEF g
    <2>2. f = [n \in 0..N |-> f[n]] /\ g = [n \in 0..N |-> g[n]]
      BY <1>4
    <2>4. f = g
      BY <2>1, <2>2
    <2> QED
      BY <2>4, Zenon
  <1> HIDE DEF Is
  <1>7. Is(after)
    BY <1>6, Zenon
  <1>8. after[0] = s /\ \A n \in 1..N : after[n] = Replay(after[n - 1], recs[n])
    <2> HIDE DEF after
    <2>1. after = [n \in 0..N |-> IF n = 0 THEN s ELSE Replay(after[n - 1], recs[n])]
      BY <1>7 DEF Is
    <2>2. 0 \in 0..N /\ \A n \in 1..N : n \in 0..N /\ n # 0
      BY <1>0
    <2> QED
      BY <2>1, <2>2
  <1> HIDE DEF after
  <1>9. \A n \in 0..N : f[n] = after[n]
    <2>1. f[0] = after[0] /\ N \in Nat
      BY <1>0, <1>4, <1>8
    <2>2. \A n \in 1..N : f[n - 1] = after[n - 1] => f[n] = after[n]
      BY <1>5, <1>8
    <2>3. GoAlike(f, after, N)
      BY <2>1, <2>2, Zenon DEF GoAlike
    <2> QED
      BY <2>1, <2>3, SameSteps, Zenon
  <1>10. f[N] = after[N]
    BY <1>0, <1>9
  <1>11. Rebuilds(f, s, recs)
    BY <1>1, <1>4, <1>5, <1>10, Zenon DEF N, X, Rebuilds
  <1> QED
    BY <1>11

LEMMA ReplayNothing ==
  ASSUME NEW s \in Snapshots
  PROVE  ReplayAll(s, <<>>) = s
  <1>1. <<>> \in Seq(Records) /\ Len(<<>>) = 0
    OBVIOUS
  <1>2. PICK f : Rebuilds(f, s, <<>>)
    BY <1>1, ReplayIsRun
  <1> QED
    BY <1>1, <1>2 DEF Rebuilds

LEMMA ReplayAppend ==
  ASSUME NEW s \in Snapshots, NEW recs \in Seq(Records), NEW r \in Records
  PROVE  /\ ReplayAll(s, recs) \in Snapshots
         /\ ReplayAll(s, Append(recs, r)) = Replay(ReplayAll(s, recs), r)
  <1> DEFINE longer == Append(recs, r)
             N == Len(recs)
  <1>1. /\ N \in Nat /\ longer \in Seq(Records) /\ Len(longer) = N + 1
        /\ longer[N + 1] = r /\ \A n \in 1..N : longer[n] = recs[n]
    OBVIOUS
  <1>2. PICK f : Rebuilds(f, s, recs)
    BY ReplayIsRun
  <1>3. /\ f \in [0..N -> Snapshots] /\ f[0] = s /\ ReplayAll(s, recs) = f[N]
        /\ \A n \in 1..N : f[n] = Replay(f[n - 1], recs[n])
    BY <1>2, Zenon DEF Rebuilds
  <1> HIDE DEF longer
  <1>4. PICK g : Rebuilds(g, s, longer)
    BY <1>1, ReplayIsRun
  <1>5. /\ g[0] = s /\ ReplayAll(s, longer) = g[Len(longer)]
        /\ \A n \in 1..Len(longer) : g[n] = Replay(g[n - 1], longer[n])
    BY <1>4, Zenon DEF Rebuilds
  <1> HIDE DEF N
  <1>6. \A n \in 1..N : g[n] = Replay(g[n - 1], recs[n])
    <2>1. \A n \in 1..N : n \in 1..Len(longer) /\ longer[n] = recs[n]
      BY <1>1
    <2> QED
      BY <1>5, <2>1
  <1>7. \A n \in 0..N : f[n] = g[n]
    <2>1. f[0] = g[0] /\ N \in Nat
      BY <1>1, <1>3, <1>5
    <2>2. \A n \in 1..N : f[n - 1] = g[n - 1] => f[n] = g[n]
      BY <1>3, <1>6
    <2>3. GoAlike(f, g, N)
      BY <2>1, <2>2, Zenon DEF GoAlike
    <2> QED
      BY <2>1, <2>3, SameSteps, Zenon
  <1>8. ReplayAll(s, longer) = Replay(g[N], r)
    <2>1. N + 1 \in 1..Len(longer) /\ N + 1 - 1 = N
      BY <1>1
    <2> QED
      BY <1>1, <1>5, <2>1
  <1>9. g[N] = ReplayAll(s, recs) /\ ReplayAll(s, recs) \in Snapshots
    BY <1>1, <1>3, <1>7
  <1> QED
    BY <1>8, <1>9, Zenon DEF longer

LEMMA ReplayAllType ==
  ASSUME NEW s \in Snapshots, NEW recs \in Seq(Records)
  PROVE  ReplayAll(s, recs) \in Snapshots
  <1>1. PICK f : Rebuilds(f, s, recs)
    BY ReplayIsRun
  <1>2. Len(recs) \in 0..Len(recs)
    OBVIOUS
  <1> QED
    BY <1>1, <1>2 DEF Rebuilds

LEMMA ReplayConcat ==
  ASSUME NEW s \in Snapshots, NEW a \in Seq(Records), NEW b \in Seq(Records)
  PROVE  ReplayAll(s, a \o b) = ReplayAll(ReplayAll(s, a), b)
  <1> DEFINE y == ReplayAll(s, a)
             T == {c \in Seq(Records) : ReplayAll(s, a \o c) = ReplayAll(y, c)}
  <1>0. y \in Snapshots
    BY ReplayAllType
  <1> HIDE DEF y
  <1>1. <<>> \in T
    <2>1. a \o <<>> = a /\ <<>> \in Seq(Records)
      OBVIOUS
    <2>2. ReplayAll(s, a \o <<>>) = y /\ ReplayAll(y, <<>>) = y
      BY <1>0, <2>1, ReplayNothing DEF y
    <2> QED
      BY <2>1, <2>2
  <1>2. ASSUME NEW c \in Seq(Records), NEW r \in Records, c \in T PROVE Append(c, r) \in T
    <2> DEFINE z == a \o c
    <2>1. a \o Append(c, r) = Append(z, r) /\ z \in Seq(Records) /\ Append(c, r) \in Seq(Records)
      BY PutLast
    <2>2. ReplayAll(s, z) = ReplayAll(y, c)
      BY <1>2
    <2> HIDE DEF z, T
    <2>3. ReplayAll(s, Append(z, r)) = Replay(ReplayAll(s, z), r)
      BY <2>1, ReplayAppend
    <2>4. ReplayAll(y, Append(c, r)) = Replay(ReplayAll(y, c), r)
      BY <1>0, ReplayAppend
    <2>5. ReplayAll(s, a \o Append(c, r)) = ReplayAll(y, Append(c, r))
      BY <2>1, <2>2, <2>3, <2>4
    <2> QED
      BY <2>1, <2>5 DEF T
  <1> HIDE DEF T
  <1>3. Seq(Records) \subseteq T
    BY <1>1, <1>2, SequencesByInduction
  <1> QED
    BY <1>3 DEF T, y

\* What a crash part-way through a run of records leaves.
Landings(s, recs) == {ReplayAll(s, SubSeq(recs, 1, k)) : k \in 0..Len(recs)}

LEMMA LandingsNothing ==
  ASSUME NEW s \in Snapshots
  PROVE  Landings(s, <<>>) = {s}
  <1>1. Len(<<>>) = 0 /\ SubSeq(<<>>, 1, 0) = <<>>
    OBVIOUS
  <1>2. 0..0 = {0}
    OBVIOUS
  <1>3. Landings(s, <<>>) = {ReplayAll(s, <<>>)}
    BY <1>1, <1>2 DEF Landings
  <1> QED
    BY <1>3, ReplayNothing

LEMMA LandingsAppend ==
  ASSUME NEW s \in Snapshots, NEW recs \in Seq(Records), NEW r \in Records
  PROVE  Landings(s, Append(recs, r)) = Landings(s, recs) \cup {ReplayAll(s, Append(recs, r))}
  <1> DEFINE longer == Append(recs, r)
             N == Len(recs)
  <1>1. N \in Nat /\ Len(longer) = N + 1 /\ longer \in Seq(Records)
    OBVIOUS
  <1>2. SubSeq(longer, 1, N + 1) = longer
    <2> HIDE DEF longer
    <2> QED
      BY <1>1
  <1>3. ASSUME NEW k \in 0..N PROVE SubSeq(longer, 1, k) = SubSeq(recs, 1, k)
    <2> DEFINE x == SubSeq(longer, 1, k)
               y == SubSeq(recs, 1, k)
    <2>1. x \in Seq(Records) /\ y \in Seq(Records) /\ Len(x) = k /\ Len(y) = k
      BY <1>1
    <2>2. \A i \in 1..k : x[i] = y[i]
      BY <1>1
    <2> HIDE DEF x, y
    <2>3. x = y
      BY <2>1, <2>2
    <2> QED
      BY <2>3 DEF x, y
  <1> HIDE DEF longer, N
  <1>4. 0..(N + 1) = 0..N \cup {N + 1}
    BY <1>1
  <1>5. Landings(s, longer) = {ReplayAll(s, SubSeq(longer, 1, k)) : k \in 0..(N + 1)}
    BY <1>1 DEF Landings
  <1>6. Landings(s, recs) = {ReplayAll(s, SubSeq(recs, 1, k)) : k \in 0..N}
    BY DEF Landings, N
  <1>7. Landings(s, longer) = Landings(s, recs) \cup {ReplayAll(s, longer)}
    BY <1>2, <1>3, <1>4, <1>5, <1>6
  <1> QED
    BY <1>7 DEF longer

LEMMA LastLanding ==
  ASSUME NEW s \in Snapshots, NEW recs \in Seq(Records)
  PROVE  ReplayAll(s, recs) \in Landings(s, recs) /\ s \in Landings(s, recs)
  <1>1. SubSeq(recs, 1, Len(recs)) = recs /\ SubSeq(recs, 1, 0) = <<>>
        /\ Len(recs) \in 0..Len(recs) /\ 0 \in 0..Len(recs)
    OBVIOUS
  <1> QED
    BY <1>1, ReplayNothing DEF Landings

LEMMA LandingsConcat ==
  ASSUME NEW s \in Snapshots, NEW a \in Seq(Records), NEW b \in Seq(Records)
  PROVE  Landings(s, a \o b) = Landings(s, a) \cup Landings(ReplayAll(s, a), b)
  <1> DEFINE y == ReplayAll(s, a)
             T == {c \in Seq(Records) : Landings(s, a \o c) = Landings(s, a) \cup Landings(y, c)}
  <1>0. y \in Snapshots /\ y \in Landings(s, a)
    BY ReplayAllType, LastLanding
  <1> HIDE DEF y
  <1>1. <<>> \in T
    <2>1. a \o <<>> = a /\ <<>> \in Seq(Records)
      OBVIOUS
    <2>2. Landings(y, <<>>) = {y}
      BY <1>0, LandingsNothing
    <2>3. Landings(s, a \o <<>>) = Landings(s, a) \cup Landings(y, <<>>)
      BY <1>0, <2>1, <2>2
    <2> QED
      BY <2>1, <2>3
  <1>2. ASSUME NEW c \in Seq(Records), NEW r \in Records, c \in T PROVE Append(c, r) \in T
    <2> DEFINE z == a \o c
    <2>1. a \o Append(c, r) = Append(z, r) /\ z \in Seq(Records) /\ Append(c, r) \in Seq(Records)
      BY PutLast
    <2>2. Landings(s, z) = Landings(s, a) \cup Landings(y, c)
      BY <1>2
    <2>3. ReplayAll(s, a \o Append(c, r)) = ReplayAll(y, Append(c, r))
      BY <2>1, ReplayConcat DEF y
    <2> HIDE DEF z, T
    <2>4. Landings(s, Append(z, r)) = Landings(s, z) \cup {ReplayAll(s, Append(z, r))}
      BY <2>1, LandingsAppend
    <2>5. Landings(y, Append(c, r)) = Landings(y, c) \cup {ReplayAll(y, Append(c, r))}
      BY <1>0, LandingsAppend
    <2>6. Landings(s, a \o Append(c, r)) = Landings(s, a) \cup Landings(y, Append(c, r))
      BY <2>1, <2>2, <2>3, <2>4, <2>5
    <2> QED
      BY <2>1, <2>6 DEF T
  <1> HIDE DEF T
  <1>3. Seq(Records) \subseteq T
    BY <1>1, <1>2, SequencesByInduction
  <1> QED
    BY <1>3 DEF T, y

----------------------------------------------------------------------------
(* The records of a drain and of an injection.                              *)

\* FlattenSeq computes what its definition describes.
Flattens(f, R, ss) ==
  /\ f \in [0..Len(ss) -> Seq(R)]
  /\ f[0] = <<>> /\ FlattenSeq(ss) = f[Len(ss)]
  /\ \A n \in 1..Len(ss) : f[n] = f[n - 1] \o ss[n]

LEMMA FlattenIsRun ==
  ASSUME NEW R, NEW ss \in Seq(Seq(R))
  PROVE  \E f : Flattens(f, R, ss)
  <1> DEFINE N == Len(ss)
             X == Seq(R)
             step == [p \in X \X (1..N) |-> p[1] \o ss[p[2]]]
             Is(k) == k = [i \in 1..N |-> IF i = 1 THEN ss[i] ELSE k[i - 1] \o ss[i]]
             flat == CHOOSE k : Is(k)
  <1>0. N \in Nat /\ <<>> \in X /\ \A n \in 1..N : ss[n] \in X
    OBVIOUS
  <1>1. N # 0 => FlattenSeq(ss) = flat[N]
    BY Zenon DEF FlattenSeq
  <1>2. N = 0 => FlattenSeq(ss) = <<>>
    BY DEF FlattenSeq
  <1>3. step \in [X \X (1..N) -> X]
    <2>1. \A p \in X \X (1..N) : p[1] \in X /\ ss[p[2]] \in X
      BY <1>0
    <2>2. \A x \in X, y \in X : x \o y \in X
      OBVIOUS
    <2> HIDE DEF X
    <2> QED
      BY <2>1, <2>2
  <1>4. \A x \in X, n \in 1..N : step[<<x, n>>] = x \o ss[n]
    OBVIOUS
  <1>5. \A x \in X : <<>> \o x = x
    OBVIOUS
  <1> HIDE DEF step, X, N
  <1>6. PICK f \in [0..N -> X] : f[0] = <<>> /\ \A n \in 1..N : f[n] = step[<<f[n - 1], n>>]
    <2>1. N \in Nat /\ <<>> \in X
      BY <1>0
    <2>2. \E f : IsRun(f, X, N, <<>>, step)
      BY <1>3, <2>1, RunExists
    <2> QED
      BY <2>2 DEF IsRun
  <1>7. \A n \in 1..N : f[n] = f[n - 1] \o ss[n]
    <2> SUFFICES ASSUME NEW n \in 1..N
                 PROVE  f[n] = f[n - 1] \o ss[n]
      OBVIOUS
    <2>1. f[n - 1] \in X
      BY <1>0, <1>6
    <2> QED
      BY <1>4, <1>6, <2>1
  <1>8. FlattenSeq(ss) = f[N]
    <2>1. CASE N = 0
      BY <1>2, <1>6, <2>1
    <2>2. CASE N # 0
      <3> DEFINE h == [i \in 1..N |-> f[i]]
                 g == [i \in 1..N |-> IF i = 1 THEN ss[i] ELSE h[i - 1] \o ss[i]]
      <3>1. \A i \in 1..N : h[i] = f[i] /\ (i # 1 => h[i - 1] = f[i - 1])
        BY <1>0
      <3>2. \A i \in 1..N : g[i] = IF i = 1 THEN ss[i] ELSE h[i - 1] \o ss[i]
        OBVIOUS
      <3>9. DOMAIN h = 1..N /\ DOMAIN g = 1..N /\ h = [i \in 1..N |-> h[i]] /\ g = [i \in 1..N |-> g[i]]
        OBVIOUS
      <3> HIDE DEF h, g
      <3>3. ASSUME NEW i \in 1..N PROVE h[i] = g[i]
        <4>1. CASE i = 1
          <5>1. i - 1 = 0 /\ f[i - 1] = <<>> /\ ss[i] \in X
            BY <1>0, <1>6, <4>1
          <5>2. f[i] = <<>> \o ss[i]
            BY <1>7, <5>1
          <5> QED
            BY <1>5, <3>1, <3>2, <4>1, <5>1, <5>2
        <4>2. CASE i # 1
          <5>1. f[i] = f[i - 1] \o ss[i]
            BY <1>7
          <5>2. h[i] = f[i] /\ h[i - 1] = f[i - 1]
            BY <3>1, <4>2, Zenon
          <5>3. g[i] = h[i - 1] \o ss[i]
            BY <3>2, <4>2, Zenon
          <5> QED
            BY <5>1, <5>2, <5>3, Zenon
        <4> QED
          BY <4>1, <4>2
      <3>4. h = g
        BY <3>3, <3>9
      <3>5. Is(h)
        BY <3>4, Zenon DEF g
      <3> HIDE DEF Is
      <3>6. Is(flat)
        BY <3>5, Zenon
      <3> DEFINE k == [n \in 0..N |-> IF n = 0 THEN <<>> ELSE flat[n]]
      <3>7. k[0] = <<>> /\ (\A n \in 1..N : k[n] = flat[n]) /\ k[N] = flat[N]
        BY <1>0, <2>2
      <3>8. \A n \in 1..N : flat[n] = IF n = 1 THEN ss[n] ELSE flat[n - 1] \o ss[n]
        <4> HIDE DEF flat
        <4>1. flat = [i \in 1..N |-> IF i = 1 THEN ss[i] ELSE flat[i - 1] \o ss[i]]
          BY <3>6 DEF Is
        <4> QED
          BY <4>1
      <3> HIDE DEF k, flat
      <3>10. ASSUME NEW n \in 1..N, f[n - 1] = k[n - 1] PROVE f[n] = k[n]
        <4>1. CASE n = 1
          <5>1. n - 1 = 0 /\ f[n - 1] = <<>> /\ ss[n] \in X
            BY <1>0, <1>6, <4>1
          <5>2. f[n] = <<>> \o ss[n]
            BY <1>7, <5>1
          <5> QED
            BY <1>5, <3>7, <3>8, <4>1, <5>1, <5>2
        <4>2. CASE n # 1
          <5>1. n - 1 \in 1..N
            BY <1>0, <4>2
          <5>2. f[n] = f[n - 1] \o ss[n]
            BY <1>7
          <5>3. k[n - 1] = flat[n - 1] /\ k[n] = flat[n]
            BY <3>7, <5>1
          <5>4. flat[n] = flat[n - 1] \o ss[n]
            BY <3>8, <4>2
          <5> QED
            BY <3>10, <5>2, <5>3, <5>4, Zenon
        <4> QED
          BY <4>1, <4>2
      <3>11. \A n \in 0..N : f[n] = k[n]
        <4>1. f[0] = k[0] /\ N \in Nat
          BY <1>0, <1>6, <3>7
        <4>2. \A n \in 1..N : f[n - 1] = k[n - 1] => f[n] = k[n]
          BY <3>10
        <4>3. GoAlike(f, k, N)
          BY <4>1, <4>2, Zenon DEF GoAlike
        <4> QED
          BY <4>1, <4>3, SameSteps, Zenon
      <3>12. f[N] = flat[N]
        BY <1>0, <3>7, <3>11
      <3> QED
        BY <1>1, <2>2, <3>12
    <2> QED
      BY <2>1, <2>2
  <1>9. Flattens(f, R, ss)
    BY <1>6, <1>7, <1>8, Zenon DEF N, X, Flattens
  <1> QED
    BY <1>9

LEMMA FlattenAppend ==
  ASSUME NEW R, NEW ss \in Seq(Seq(R)), NEW x \in Seq(R)
  PROVE  /\ FlattenSeq(ss) \in Seq(R)
         /\ FlattenSeq(Append(ss, x)) = FlattenSeq(ss) \o x
  <1> DEFINE longer == Append(ss, x)
             N == Len(ss)
  <1>1. /\ N \in Nat /\ longer \in Seq(Seq(R)) /\ Len(longer) = N + 1
        /\ longer[N + 1] = x /\ \A n \in 1..N : longer[n] = ss[n]
    OBVIOUS
  <1>2. PICK f : Flattens(f, R, ss)
    BY FlattenIsRun
  <1>3. /\ f \in [0..N -> Seq(R)] /\ f[0] = <<>> /\ FlattenSeq(ss) = f[N]
        /\ \A n \in 1..N : f[n] = f[n - 1] \o ss[n]
    BY <1>2, Zenon DEF Flattens
  <1> HIDE DEF longer
  <1>4. PICK g : Flattens(g, R, longer)
    BY <1>1, FlattenIsRun
  <1>5. /\ g[0] = <<>> /\ FlattenSeq(longer) = g[Len(longer)]
        /\ \A n \in 1..Len(longer) : g[n] = g[n - 1] \o longer[n]
    BY <1>4, Zenon DEF Flattens
  <1> HIDE DEF N
  <1>6. \A n \in 1..N : g[n] = g[n - 1] \o ss[n]
    <2>1. \A n \in 1..N : n \in 1..Len(longer) /\ longer[n] = ss[n]
      BY <1>1
    <2> QED
      BY <1>5, <2>1
  <1>7. \A n \in 0..N : f[n] = g[n]
    <2>1. f[0] = g[0] /\ N \in Nat
      BY <1>1, <1>3, <1>5
    <2>2. \A n \in 1..N : f[n - 1] = g[n - 1] => f[n] = g[n]
      BY <1>3, <1>6
    <2>3. GoAlike(f, g, N)
      BY <2>1, <2>2, Zenon DEF GoAlike
    <2> QED
      BY <2>1, <2>3, SameSteps, Zenon
  <1>8. FlattenSeq(longer) = g[N] \o x
    <2> DEFINE M == N + 1
    <2>1. M \in 1..Len(longer) /\ M - 1 = N
      BY <1>1
    <2>2. longer[M] = x /\ Len(longer) = M
      BY <1>1
    <2> HIDE DEF M
    <2>3. g[M] = g[M - 1] \o longer[M]
      BY <1>5, <2>1
    <2> QED
      BY <1>5, <2>1, <2>2, <2>3, Zenon
  <1>9. g[N] = FlattenSeq(ss) /\ FlattenSeq(ss) \in Seq(R)
    BY <1>1, <1>3, <1>7
  <1> QED
    BY <1>8, <1>9, Zenon DEF longer

\* The records of the messages ms, drained or injected in that order.
DrainedRecords(ms)  == FlattenSeq([i \in DOMAIN ms |-> DrainRecords(ms[i])])
InjectedRecords(ms) == [i \in DOMAIN ms |-> Consumed(ms[i])]

LEMMA OneRecord ==
  ASSUME NEW m \in Msgs
  PROVE  /\ Consumed(m) \in Records /\ Consumed(m).op = "prune" /\ Consumed(m).msg = m
         /\ Staged(m) \in Records /\ Staged(m).op = "stage" /\ Staged(m).msg = m
         /\ PutRecord(m) \in Records /\ PutRecord(m).op = "put" /\ PutRecord(m).msg = m
         /\ Tombstone(m) = Consumed(m)
         /\ Cleared \in Records /\ Cleared.op = "clear"
  BY DEF Consumed, Staged, PutRecord, Tombstone, Cleared, Records

LEMMA DrainedAppend ==
  ASSUME NEW ms \in Seq(Msgs), NEW m \in Msgs
  PROVE  /\ DrainedRecords(ms) \in Seq(Records)
         /\ DrainedRecords(Append(ms, m)) =
              IF m \in RideAlongs THEN Append(Append(DrainedRecords(ms), Consumed(m)), Staged(m))
              ELSE Append(DrainedRecords(ms), Consumed(m))
  <1> DEFINE rs == [i \in DOMAIN ms |-> DrainRecords(ms[i])]
             longer == Append(ms, m)
             N == Len(ms)
             R == DrainRecords(m)
  <1>1. \A x \in Msgs : DrainRecords(x) \in Seq(Records)
    BY OneRecord DEF DrainRecords
  <1>2. /\ DOMAIN ms = 1..N /\ N \in Nat /\ longer \in Seq(Msgs) /\ DOMAIN longer = 1..(N + 1)
        /\ longer[N + 1] = m /\ \A i \in 1..N : ms[i] \in Msgs /\ longer[i] = ms[i]
    OBVIOUS
  <1>3. rs \in Seq(Seq(Records)) /\ Len(rs) = N /\ \A i \in 1..N : rs[i] = DrainRecords(ms[i])
    <2> DEFINE Q == Seq(Records)
    <2>1. rs \in [1..N -> Q]
      BY <1>1, <1>2
    <2> HIDE DEF Q
    <2>2. rs \in Seq(Q) /\ Len(rs) = N
      BY <1>2, <2>1
    <2> QED
      BY <1>2, <2>2 DEF Q
  <1>4. [i \in DOMAIN longer |-> DrainRecords(longer[i])] = Append(rs, R)
    <2> DEFINE a == [i \in DOMAIN longer |-> DrainRecords(longer[i])]
               b == Append(rs, R)
               Q == Seq(Records)
    <2>1. R \in Q
      BY <1>1
    <2>2. rs \in Seq(Q) /\ Len(rs) = N /\ N \in Nat
      BY <1>2, <1>3
    <2> HIDE DEF Q, R, rs, longer, N
    <2>3. b \in Seq(Q) /\ DOMAIN b = 1..(N + 1) /\ b[N + 1] = R /\ \A i \in 1..N : b[i] = rs[i]
      BY <2>1, <2>2
    <2>4. DOMAIN a = 1..(N + 1) /\ a = [i \in 1..(N + 1) |-> a[i]]
          /\ a[N + 1] = R /\ \A i \in 1..N : a[i] = rs[i]
      BY <1>2, <1>3 DEF R
    <2>5. b = [i \in 1..(N + 1) |-> b[i]]
      <3> HIDE DEF b
      <3>1. b \in Seq(Q) /\ DOMAIN b = 1..(N + 1)
        BY <2>3
      <3>2. b \in [1..Len(b) -> Q]
        BY <3>1
      <3> QED
        BY <3>1, <3>2
    <2>6. \A i \in 1..(N + 1) : a[i] = b[i]
      <3>1. \A i \in 1..(N + 1) : i = N + 1 \/ i \in 1..N
        BY <1>2
      <3> HIDE DEF a, b
      <3> QED
        BY <2>3, <2>4, <3>1
    <2> HIDE DEF a, b
    <2>7. a = b
      BY <2>4, <2>5, <2>6
    <2> QED
      BY <2>7 DEF a, b
  <1> HIDE DEF rs, longer
  <1>5. R \in Seq(Records)
    BY <1>1
  <1>6. FlattenSeq(rs) \in Seq(Records) /\ FlattenSeq(Append(rs, R)) = FlattenSeq(rs) \o R
    BY <1>3, <1>5, FlattenAppend
  <1>7. DrainedRecords(ms) = FlattenSeq(rs) /\ DrainedRecords(longer) = FlattenSeq(rs) \o R
    BY <1>4, <1>6 DEF DrainedRecords, rs
  <1>8. \A x \in Seq(Records), e \in Records, f \in Records :
          x \o <<e>> = Append(x, e) /\ x \o <<e, f>> = Append(Append(x, e), f)
    <2> TAKE x \in Seq(Records), e \in Records, f \in Records
    <2>1. x \o <<>> = x /\ <<e>> = Append(<<>>, e) /\ <<>> \in Seq(Records) /\ <<e>> \in Seq(Records)
      OBVIOUS
    <2>2. <<e, f>> = Append(<<e>>, f)
      OBVIOUS
    <2>3. x \o <<e>> = Append(x, e)
      BY <2>1, PutLast
    <2>4. x \o <<e, f>> = Append(x \o <<e>>, f)
      BY <2>1, <2>2, PutLast
    <2> QED
      BY <2>3, <2>4
  <1>9. R = IF m \in RideAlongs THEN <<Consumed(m), Staged(m)>> ELSE <<Consumed(m)>>
    BY DEF DrainRecords
  <1> HIDE DEF R
  <1>10. CASE m \in RideAlongs
    BY <1>6, <1>7, <1>8, <1>9, <1>10, OneRecord DEF longer
  <1>11. CASE m \notin RideAlongs
    BY <1>6, <1>7, <1>8, <1>9, <1>11, OneRecord DEF longer
  <1> QED
    BY <1>10, <1>11

LEMMA DrainedNothing == DrainedRecords(<<>>) = <<>>
  <1> DEFINE rs == [i \in DOMAIN <<>> |-> DrainRecords(<<>>[i])]
  <1>1. DOMAIN <<>> = {} /\ {} = 1..0
    OBVIOUS
  <1>2. rs \in [1..0 -> {}]
    BY <1>1
  <1>3. rs \in Seq({}) /\ Len(rs) = 0
    BY <1>2
  <1> HIDE DEF rs
  <1>4. FlattenSeq(rs) = <<>>
    BY <1>3 DEF FlattenSeq
  <1> QED
    BY <1>4 DEF DrainedRecords, rs

LEMMA InjectedAppend ==
  ASSUME NEW ms \in Seq(Msgs), NEW m \in Msgs
  PROVE  /\ InjectedRecords(ms) \in Seq(Records)
         /\ InjectedRecords(Append(ms, m)) = Append(InjectedRecords(ms), Consumed(m))
  <1> DEFINE rs == InjectedRecords(ms)
             longer == Append(ms, m)
             N == Len(ms)
             R == Consumed(m)
             a == InjectedRecords(longer)
             b == Append(rs, R)
  <1>2. /\ DOMAIN ms = 1..N /\ N \in Nat /\ longer \in Seq(Msgs) /\ DOMAIN longer = 1..(N + 1)
        /\ longer[N + 1] = m /\ \A i \in 1..N : ms[i] \in Msgs /\ longer[i] = ms[i]
    OBVIOUS
  <1>1. R \in Records /\ \A i \in 1..N : Consumed(ms[i]) \in Records
    BY <1>2, OneRecord
  <1>3. rs \in Seq(Records) /\ Len(rs) = N /\ \A i \in 1..N : rs[i] = Consumed(ms[i])
    <2>1. rs \in [1..N -> Records]
      BY <1>1, <1>2 DEF InjectedRecords
    <2>2. rs \in Seq(Records) /\ Len(rs) = N
      BY <1>2, <2>1
    <2> QED
      BY <1>2, <2>2 DEF InjectedRecords
  <1> HIDE DEF R, rs, longer
  <1>4. b \in Seq(Records) /\ DOMAIN b = 1..(N + 1) /\ b[N + 1] = R /\ \A i \in 1..N : b[i] = rs[i]
    BY <1>1, <1>2, <1>3
  <1>5. DOMAIN a = 1..(N + 1) /\ a = [i \in 1..(N + 1) |-> a[i]]
        /\ a[N + 1] = R /\ \A i \in 1..N : a[i] = rs[i]
    BY <1>2, <1>3 DEF R, InjectedRecords
  <1>6. b = [i \in 1..(N + 1) |-> b[i]]
    <2> HIDE DEF b
    <2>1. b \in [DOMAIN b -> Records]
      BY <1>4
    <2> QED
      BY <1>4, <2>1
  <1>7. \A i \in 1..(N + 1) : a[i] = b[i]
    <2>1. \A i \in 1..(N + 1) : i = N + 1 \/ i \in 1..N
      BY <1>2
    <2> HIDE DEF a, b
    <2> QED
      BY <1>4, <1>5, <2>1
  <1> HIDE DEF a, b
  <1>8. a = b
    BY <1>5, <1>6, <1>7
  <1> QED
    BY <1>3, <1>8 DEF a, b, rs, R, longer

LEMMA InjectedNothing == InjectedRecords(<<>>) = <<>>
  BY DEF InjectedRecords

----------------------------------------------------------------------------
(* What the calls of the journal leave of a snapshot, whole or part-way.    *)

LEMMA OnlyIs ==
  ASSUME NEW S, NEW q \in Seq(S), NEW R
  PROVE  /\ Only(q, R) \in Seq(S) /\ Only(q, R) = Except(q, S \ R)
         /\ Range(Only(q, R)) = Range(q) \cap R
  <1>1. Range(q) \subseteq S
    BY DEF Range
  <1>2. \A x \in Range(q) : x \in Range(q) \ R <=> x \in S \ R
    BY <1>1
  <1> DEFINE g == Range(q) \ R
             h == S \ R
  <1>3. \A x \in Range(q) : x \in g <=> x \in h
    BY <1>2
  <1>4. Range(q) \ g = Range(q) \cap R
    OBVIOUS
  <1> HIDE DEF g, h
  <1>5. Except(q, g) = Except(q, h)
    BY <1>3, ExceptSame
  <1>6. Except(q, g) \in Seq(S) /\ Range(Except(q, g)) = Range(q) \ g
    BY ExceptType, ExceptRange
  <1>7. Only(q, R) = Except(q, g)
    BY Zenon DEF Only, g
  <1> QED
    BY <1>4, <1>5, <1>6, <1>7, Zenon DEF h

LEMMA OnlyAppend ==
  ASSUME NEW S, NEW q \in Seq(S), NEW m \in S, NEW R
  PROVE  Only(Append(q, m), R) = IF m \in R THEN Append(Only(q, R), m) ELSE Only(q, R)
  <1> DEFINE h == S \ R
  <1>1. Append(q, m) \in Seq(S) /\ (m \in h <=> m \notin R)
    OBVIOUS
  <1> HIDE DEF h
  <1>2. Only(q, R) = Except(q, h)
    BY OnlyIs, Zenon DEF h
  <1>3. Only(Append(q, m), R) = Except(Append(q, m), h)
    BY <1>1, OnlyIs, Zenon DEF h
  <1>4. Except(Append(q, m), h) = IF m \in h THEN Except(q, h) ELSE Append(Except(q, h), m)
    BY ExceptAppend
  <1> QED
    BY <1>1, <1>2, <1>3, <1>4

\* One record more.
LEMMA OneMore ==
  ASSUME NEW s \in Snapshots, NEW l \in Seq(Records), NEW r \in Records
  PROVE  /\ l \o <<r>> \in Seq(Records)
         /\ ReplayAll(s, l \o <<r>>) = Replay(ReplayAll(s, l), r)
         /\ Landings(s, l \o <<r>>) = Landings(s, l) \cup {Replay(ReplayAll(s, l), r)}
  <1>1. <<r>> = Append(<<>>, r) /\ <<>> \in Seq(Records) /\ l \o <<>> = l
    OBVIOUS
  <1>2. l \o <<r>> = Append(l, r) /\ Append(l, r) \in Seq(Records)
    BY <1>1, PutLast
  <1>3. ReplayAll(s, Append(l, r)) = Replay(ReplayAll(s, l), r)
    BY ReplayAppend
  <1>4. Landings(s, Append(l, r)) = Landings(s, l) \cup {ReplayAll(s, Append(l, r))}
    BY LandingsAppend
  <1> QED
    BY <1>2, <1>3, <1>4

\* t is on the way from s to a snapshot without the messages in gone, some of
\* which are staged there.
OnTheWay(t, s, gone) ==
  /\ t \in Snapshots
  /\ Distinct(s.inbox) => Distinct(t.inbox)
  /\ Range(t.inbox) \subseteq Range(s.inbox)
  /\ Range(t.context) \subseteq Range(s.context) \cup gone
  /\ Range(t.inbox) \cap Range(t.context) \subseteq Range(s.inbox) \cap Range(s.context)

LEMMA MovingIsOnTheWay ==
  ASSUME NEW s \in Snapshots, NEW gone, NEW c \in Seq(Msgs), Range(c) \subseteq gone
  PROVE  OnTheWay([inbox |-> Except(s.inbox, gone), context |-> s.context \o c], s, gone)
  <1> DEFINE i == s.inbox
             k == s.context
             e == Except(i, gone)
             d == k \o c
             t == [inbox |-> e, context |-> d]
  <1>1. i \in Seq(Msgs) /\ k \in Seq(Msgs)
    BY DEF Snapshots
  <1>2. t.inbox = e /\ t.context = d
    OBVIOUS
  <1>3. e \in Seq(Msgs) /\ Range(e) = Range(i) \ gone /\ (Distinct(i) => Distinct(e))
    <2> HIDE DEF i
    <2> QED
      BY <1>1, ExceptType, ExceptRange
  <1>4. d \in Seq(Msgs) /\ Range(d) = Range(k) \cup Range(c)
    <2> HIDE DEF k
    <2> QED
      BY <1>1, ConcatFacts
  <1> HIDE DEF i, k, e, d
  <1>5. t \in Snapshots
    BY <1>3, <1>4 DEF Snapshots
  <1> HIDE DEF t
  <1>6. OnTheWay(t, s, gone)
    BY <1>2, <1>3, <1>4, <1>5 DEF OnTheWay, i, k
  <1> QED
    BY <1>6, Zenon DEF t, i, k, e, d

LEMMA StillOnTheWay ==
  ASSUME NEW t, NEW s, NEW g, NEW h, OnTheWay(t, s, g), g \subseteq h
  PROVE  OnTheWay(t, s, h)
  BY DEF OnTheWay

\* What consuming the messages ms does to s, in the end and part-way.
Moves(s, records, ms, staged) ==
  /\ records \in Seq(Records)
  /\ ReplayAll(s, records) = [inbox |-> Except(s.inbox, Range(ms)), context |-> s.context \o staged]
  /\ \A t \in Landings(s, records) : OnTheWay(t, s, Range(ms))

LEMMA NothingMoves ==
  ASSUME NEW s \in Snapshots
  PROVE  Moves(s, <<>>, <<>>, <<>>)
  <1>1. s.inbox \in Seq(Msgs) /\ s.context \in Seq(Msgs) /\ s = [inbox |-> s.inbox, context |-> s.context]
    BY DEF Snapshots
  <1>2. Range(<<>>) = {} /\ <<>> \in Seq(Records) /\ <<>> \in Seq(Msgs)
    BY DEF Range
  <1>3. Except(s.inbox, {}) = s.inbox
    BY <1>1, ExceptAll
  <1>4. s.context \o <<>> = s.context
    BY <1>1
  <1>5. ReplayAll(s, <<>>) = s /\ Landings(s, <<>>) = {s}
    BY ReplayNothing, LandingsNothing
  <1>6. OnTheWay(s, s, {})
    BY DEF OnTheWay
  <1> QED
    BY <1>1, <1>2, <1>3, <1>4, <1>5, <1>6 DEF Moves

\* One message more: its consume, and then perhaps its stage.
LEMMA OneMoves ==
  ASSUME NEW s \in Snapshots, NEW ms \in Seq(Msgs), NEW m \in Msgs, NEW records, NEW c \in Seq(Msgs),
         Moves(s, records, ms, c), Range(c) \subseteq Range(ms)
  PROVE  /\ Moves(s, Append(records, Consumed(m)), Append(ms, m), c)
         /\ Moves(s, Append(Append(records, Consumed(m)), Staged(m)), Append(ms, m), Append(c, m))
  <1> DEFINE g == Range(ms)
             h == Range(Append(ms, m))
             r1 == Append(records, Consumed(m))
             r2 == Append(r1, Staged(m))
             y == ReplayAll(s, records)
             y1 == ReplayAll(s, r1)
             y2 == ReplayAll(s, r2)
             d == Append(c, m)
             i == s.inbox
             k == s.context
  <1>1. i \in Seq(Msgs) /\ k \in Seq(Msgs)
    BY DEF Snapshots
  <1>2. h = g \cup {m} /\ Range(d) = Range(c) \cup {m} /\ d \in Seq(Msgs)
    BY AppendFacts
  <1>3. /\ records \in Seq(Records) /\ y = [inbox |-> Except(i, g), context |-> k \o c]
        /\ \A t \in Landings(s, records) : OnTheWay(t, s, g)
    BY DEF Moves
  <1>4. /\ Consumed(m) \in Records /\ Consumed(m).op = "prune" /\ Consumed(m).msg = m
        /\ Staged(m) \in Records /\ Staged(m).op = "stage" /\ Staged(m).msg = m
    BY OneRecord
  <1>5. r1 \in Seq(Records) /\ r2 \in Seq(Records)
    BY <1>3, <1>4
  <1>6. y \in Snapshots /\ y1 = Replay(y, Consumed(m))
    BY <1>3, <1>4, ReplayAppend
  <1>7. Landings(s, r1) = Landings(s, records) \cup {y1}
    BY <1>3, <1>4, LandingsAppend
  <1> HIDE DEF r1
  <1>8. y1 \in Snapshots /\ y2 = Replay(y1, Staged(m))
    BY <1>4, <1>5, ReplayAppend
  <1>9. Landings(s, r2) = Landings(s, r1) \cup {y2}
    BY <1>4, <1>5, LandingsAppend
  <1> HIDE DEF r2, y, y1, y2, i, k, g, h, d
  <1>10. y1 = [inbox |-> Except(i, h), context |-> k \o c]
    <2>1. y1 = [inbox |-> Except(y.inbox, {m}), context |-> y.context]
      BY <1>4, <1>6, ReplayType
    <2>2. y.inbox = Except(i, g) /\ y.context = k \o c
      BY <1>3
    <2>3. Except(Except(i, g), {m}) = Except(i, g \cup {m})
      BY <1>1, ExceptTwice
    <2> QED
      BY <1>2, <2>1, <2>2, <2>3, Zenon
  <1>11. y2 = [inbox |-> Except(i, h), context |-> k \o d]
    <2>1. y2 = [inbox |-> y1.inbox, context |-> Append(y1.context, m)]
      BY <1>4, <1>8, ReplayType
    <2>2. y1.inbox = Except(i, h) /\ y1.context = k \o c
      BY <1>10
    <2>3. k \o d = Append(k \o c, m)
      BY <1>1, PutLast DEF d
    <2> QED
      BY <2>1, <2>2, <2>3, Zenon
  <1>12. Range(c) \subseteq h /\ Range(d) \subseteq h /\ g \subseteq h
    BY <1>2 DEF g
  <1>13. OnTheWay(y1, s, h)
    <2>1. OnTheWay([inbox |-> Except(s.inbox, h), context |-> s.context \o c], s, h)
      BY <1>12, MovingIsOnTheWay
    <2> QED
      BY <1>10, <2>1, Zenon DEF i, k
  <1>14. OnTheWay(y2, s, h)
    <2>1. OnTheWay([inbox |-> Except(s.inbox, h), context |-> s.context \o d], s, h)
      BY <1>2, <1>12, MovingIsOnTheWay
    <2> QED
      BY <1>11, <2>1, Zenon DEF i, k
  <1>15. \A t \in Landings(s, records) : OnTheWay(t, s, h)
    BY <1>3, <1>12, StillOnTheWay
  <1>16. Moves(s, r1, Append(ms, m), c)
    <2>1. \A t \in Landings(s, r1) : OnTheWay(t, s, h)
      BY <1>7, <1>13, <1>15
    <2> QED
      BY <1>5, <1>10, <2>1, Zenon DEF Moves, h, i, k, y1
  <1>17. Moves(s, r2, Append(ms, m), d)
    <2>1. \A t \in Landings(s, r2) : OnTheWay(t, s, h)
      BY <1>7, <1>9, <1>13, <1>14, <1>15
    <2> QED
      BY <1>5, <1>11, <2>1, Zenon DEF Moves, h, i, k, y2
  <1> QED
    BY <1>16, <1>17, Zenon DEF r1, r2, d

LEMMA DrainMoves ==
  ASSUME NEW s \in Snapshots, NEW ms \in Seq(Msgs)
  PROVE  Moves(s, DrainedRecords(ms), ms, Only(ms, RideAlongs))
  <1> DEFINE T == {q \in Seq(Msgs) : Moves(s, DrainedRecords(q), q, Only(q, RideAlongs))}
  <1>1. <<>> \in T
    <2>1. Only(<<>>, RideAlongs) = <<>>
      BY ExceptNothing DEF Only
    <2>2. <<>> \in Seq(Msgs)
      OBVIOUS
    <2> QED
      BY <2>1, <2>2, DrainedNothing, NothingMoves
  <1>2. ASSUME NEW q \in Seq(Msgs), NEW m \in Msgs, q \in T PROVE Append(q, m) \in T
    <2> DEFINE r == DrainedRecords(q)
               c == Only(q, RideAlongs)
    <2>1. Append(q, m) \in Seq(Msgs) /\ Moves(s, r, q, c)
      BY <1>2
    <2>2. c \in Seq(Msgs) /\ Range(c) \subseteq Range(q)
      <3>1. c \in Seq(Msgs) /\ Range(c) = Range(q) \cap RideAlongs
        BY OnlyIs, Zenon
      <3> HIDE DEF c
      <3> QED
        BY <3>1
    <2>3. Only(Append(q, m), RideAlongs) = IF m \in RideAlongs THEN Append(c, m) ELSE c
      BY OnlyAppend
    <2>4. DrainedRecords(Append(q, m)) = IF m \in RideAlongs
                                         THEN Append(Append(r, Consumed(m)), Staged(m))
                                         ELSE Append(r, Consumed(m))
      BY DrainedAppend
    <2> HIDE DEF r, c, T
    <2>5. /\ Moves(s, Append(r, Consumed(m)), Append(q, m), c)
          /\ Moves(s, Append(Append(r, Consumed(m)), Staged(m)), Append(q, m), Append(c, m))
      BY <2>1, <2>2, OneMoves
    <2>6. Moves(s, DrainedRecords(Append(q, m)), Append(q, m), Only(Append(q, m), RideAlongs))
      <3>1. CASE m \in RideAlongs
        BY <2>3, <2>4, <2>5, <3>1
      <3>2. CASE m \notin RideAlongs
        BY <2>3, <2>4, <2>5, <3>2
      <3> QED
        BY <3>1, <3>2
    <2> QED
      BY <2>1, <2>6 DEF T
  <1> HIDE DEF T
  <1>3. Seq(Msgs) \subseteq T
    BY <1>1, <1>2, SequencesByInduction
  <1> QED
    BY <1>3 DEF T

LEMMA InjectMoves ==
  ASSUME NEW s \in Snapshots, NEW ms \in Seq(Msgs)
  PROVE  Moves(s, InjectedRecords(ms), ms, <<>>)
  <1> DEFINE T == {q \in Seq(Msgs) : Moves(s, InjectedRecords(q), q, <<>>)}
  <1>0. <<>> \in Seq(Msgs) /\ Range(<<>>) = {}
    BY DEF Range
  <1>1. <<>> \in T
    BY <1>0, InjectedNothing, NothingMoves
  <1>2. ASSUME NEW q \in Seq(Msgs), NEW m \in Msgs, q \in T PROVE Append(q, m) \in T
    <2> DEFINE r == InjectedRecords(q)
    <2>1. Append(q, m) \in Seq(Msgs) /\ Moves(s, r, q, <<>>)
      BY <1>2
    <2>2. InjectedRecords(Append(q, m)) = Append(r, Consumed(m))
      BY InjectedAppend
    <2> HIDE DEF r, T
    <2>3. Range(<<>>) \subseteq Range(q)
      BY <1>0
    <2>4. Moves(s, Append(r, Consumed(m)), Append(q, m), <<>>)
      BY <1>0, <2>1, <2>3, OneMoves
    <2> QED
      BY <2>1, <2>2, <2>4 DEF T
  <1> HIDE DEF T
  <1>3. Seq(Msgs) \subseteq T
    BY <1>1, <1>2, SequencesByInduction
  <1> QED
    BY <1>3 DEF T

----------------------------------------------------------------------------
(* What one drain reads.                                                    *)

LEMMA ConcatElements ==
  ASSUME NEW S, NEW a \in Seq(S), NEW b \in Seq(S), NEW m, NEW n, Len(a) = m, Len(b) = n
  PROVE  /\ a \o b \in Seq(S) /\ Len(a \o b) = m + n
         /\ \A i \in 1..m : (a \o b)[i] = a[i]
         /\ \A i \in 1..n : (a \o b)[m + i] = b[i]
  <1>1. a \o b \in Seq(S) /\ m \in Nat /\ n \in Nat /\ Len(a \o b) = m + n
    OBVIOUS
  <1>2. \A i \in 1..m : (a \o b)[i] = a[i]
    BY <1>1
  <1>3. ASSUME NEW i \in 1..n PROVE (a \o b)[m + i] = b[i]
    <2> DEFINE j == m + i
    <2>1. j \in 1..(Len(a) + Len(b)) /\ ~(j <= Len(a)) /\ j - Len(a) = i
      BY <1>1
    <2> HIDE DEF j
    <2>2. (a \o b)[j] = b[j - Len(a)]
      BY <2>1
    <2> QED
      BY <2>1, <2>2 DEF j
  <1> QED
    BY <1>1, <1>2, <1>3

\* A drain reads at least one entry, and none past the first that stops it.
LEMMA ReadStops ==
  ASSUME Pending \in Seq(Msgs \cup {SHUTDOWN}), Pending # <<>>
  PROVE  /\ ReadSize \in 1..Len(Pending)
         /\ \A i \in 1..(ReadSize - 1) : ~StopsDrain(Pending[i])
  <1> DEFINE I == {i \in 1..Len(Pending) : StopsDrain(Pending[i])}
  <1>1. DOMAIN Pending = 1..Len(Pending) /\ Len(Pending) \in Nat /\ Len(Pending) # 0
    OBVIOUS
  <1>2. CASE I = {}
    <2>1. ReadSize = Len(Pending)
      BY <1>1, <1>2 DEF ReadSize
    <2>2. \A i \in 1..Len(Pending) : ~StopsDrain(Pending[i])
      BY <1>2
    <2> QED
      BY <1>1, <2>1, <2>2
  <1>3. CASE I # {}
    <2>1. ReadSize = Min(I)
      <3>1. \E i \in DOMAIN Pending : StopsDrain(Pending[i])
        BY <1>1, <1>3
      <3>2. SelectInSeq(Pending, StopsDrain) = Min(I)
        BY <1>3 DEF SelectInSeq
      <3> QED
        BY <3>1, <3>2 DEF ReadSize
    <2>2. PICK n \in I : \A i \in I : ~(i < n)
      <3> DEFINE N == {n \in Nat : n \notin I}
      <3>1. \A n \in I : n \in Nat
        OBVIOUS
      <3> SUFFICES ASSUME \A n \in I : \E i \in I : i < n PROVE FALSE
        OBVIOUS
      <3>2. \A n \in Nat : (\A m \in Nat : m < n => m \in N) => n \in N
        BY <3>1
      <3> HIDE DEF I, N
      <3>3. Nat \subseteq N
        BY <3>2, NumbersByInduction
      <3> QED
        BY <1>3, <3>1, <3>3 DEF N
    <2>3. Min(I) \in I /\ \A i \in I : Min(I) <= i
      <3>1. \A i \in I : n <= i
        BY <2>2
      <3> HIDE DEF I
      <3> QED
        BY <2>2, <3>1 DEF Min
    <2>4. Min(I) \in 1..Len(Pending) /\ \A i \in 1..(Min(I) - 1) : ~StopsDrain(Pending[i])
      <3> DEFINE m == Min(I)
      <3>1. m \in I /\ \A i \in I : m <= i
        BY <2>3
      <3> HIDE DEF m
      <3>2. m \in 1..Len(Pending)
        BY <3>1
      <3>3. \A i \in 1..(m - 1) : i \in 1..Len(Pending) /\ ~(m <= i)
        BY <1>1, <3>2
      <3>4. \A i \in 1..(m - 1) : ~StopsDrain(Pending[i])
        BY <3>1, <3>3
      <3> QED
        BY <3>2, <3>4 DEF m
    <2> QED
      BY <2>1, <2>4
  <1> QED
    BY <1>2, <1>3

\* What is left: the queue behind the buffer, without what was read.
Rest == SubSeq(Pending, ReadSize + 1, Len(Pending))

LEMMA ReadAndRest ==
  ASSUME buffer \in Seq(Msgs \cup {SHUTDOWN}), queue \in Seq(Msgs \cup {SHUTDOWN}), Pending # <<>>
  PROVE  /\ Read \in Seq(Msgs \cup {SHUTDOWN}) /\ Rest \in Seq(Msgs \cup {SHUTDOWN})
         /\ Pending = Read \o Rest
         /\ LET b == SubSeq(buffer, ReadSize + 1, Len(buffer))
                q == IF ReadSize <= Len(buffer) THEN queue
                     ELSE SubSeq(queue, ReadSize - Len(buffer) + 1, Len(queue))
            IN  /\ b \in Seq(Msgs \cup {SHUTDOWN}) /\ q \in Seq(Msgs \cup {SHUTDOWN})
                /\ b \o q = Rest
  <1> DEFINE S == Msgs \cup {SHUTDOWN}
             B == Len(buffer)
             Q == Len(queue)
             r == ReadSize
             b == SubSeq(buffer, r + 1, B)
             q == IF r <= B THEN queue ELSE SubSeq(queue, r - B + 1, Q)
  <1>1. buffer \in Seq(S) /\ queue \in Seq(S) /\ B \in Nat /\ Q \in Nat
    OBVIOUS
  <1> HIDE DEF S, B, Q
  <1>2. /\ Pending \in Seq(S) /\ Len(Pending) = B + Q
        /\ \A i \in 1..B : Pending[i] = buffer[i]
        /\ \A i \in 1..Q : Pending[B + i] = queue[i]
    BY <1>1 DEF Pending, B, Q
  <1>3. r \in 1..(B + Q)
    BY <1>2, ReadStops DEF S
  <1> HIDE DEF r
  <1>4. /\ SubSeq(Pending, 1, r) \in Seq(S) /\ Len(SubSeq(Pending, 1, r)) = r
        /\ \A i \in 1..r : SubSeq(Pending, 1, r)[i] = Pending[i]
    BY <1>1, <1>2, <1>3
  <1>5. /\ SubSeq(Pending, r + 1, B + Q) \in Seq(S) /\ Len(SubSeq(Pending, r + 1, B + Q)) = B + Q - r
        /\ \A i \in 1..(B + Q - r) : SubSeq(Pending, r + 1, B + Q)[i] = Pending[r + i]
    BY <1>1, <1>2, <1>3
  <1>6. Read = SubSeq(Pending, 1, r) /\ Rest = SubSeq(Pending, r + 1, B + Q)
    BY <1>2, Zenon DEF Read, Rest, r
  <1>7. /\ Read \in Seq(S) /\ Len(Read) = r /\ \A i \in 1..r : Read[i] = Pending[i]
        /\ Rest \in Seq(S) /\ Len(Rest) = B + Q - r
        /\ \A i \in 1..(B + Q - r) : Rest[i] = Pending[r + i]
    BY <1>4, <1>5, <1>6
  <1>8. Pending = Read \o Rest
    <2> DEFINE c == Read \o Rest
    <2>1. /\ c \in Seq(S) /\ Len(c) = B + Q
          /\ \A i \in 1..r : c[i] = Read[i]
          /\ \A i \in 1..(B + Q - r) : c[r + i] = Rest[i]
      <3> DEFINE n == B + Q - r
      <3>1. r + n = B + Q /\ Len(Rest) = n
        BY <1>1, <1>3, <1>7
      <3> HIDE DEF n
      <3>2. /\ c \in Seq(S) /\ Len(c) = r + n
            /\ \A i \in 1..r : c[i] = Read[i]
            /\ \A i \in 1..n : c[r + i] = Rest[i]
        BY <1>7, <3>1, ConcatElements
      <3> QED
        BY <3>1, <3>2, Zenon DEF n
    <2> HIDE DEF c
    <2>2. \A i \in 1..(B + Q) : c[i] = Pending[i]
      <3> TAKE i \in 1..(B + Q)
      <3>1. CASE i <= r
        BY <1>1, <1>3, <1>7, <2>1, <3>1
      <3>2. CASE r < i
        <4>1. i - r \in 1..(B + Q - r) /\ r + (i - r) = i
          BY <1>1, <1>3, <3>2
        <4>2. c[r + (i - r)] = Rest[i - r] /\ Rest[i - r] = Pending[r + (i - r)]
          BY <1>7, <2>1, <4>1
        <4> QED
          BY <4>1, <4>2
      <3> QED
        BY <1>1, <1>3, <3>1, <3>2
    <2>3. c = Pending
      BY <1>1, <1>2, <2>1, <2>2
    <2> QED
      BY <2>3 DEF c
  <1>9. b \in Seq(S) /\ q \in Seq(S) /\ b \o q = Rest
    <2>1. CASE r <= B
      <3>1. q = queue
        BY <2>1
      <3>2. /\ b \in Seq(S) /\ Len(b) = B - r
            /\ \A i \in 1..(B - r) : b[i] = buffer[r + i]
        BY <1>1, <1>3, <2>1 DEF B
      <3> HIDE DEF b, q
      <3> DEFINE c == b \o queue
      <3>3. /\ c \in Seq(S) /\ Len(c) = B + Q - r
            /\ \A i \in 1..(B - r) : c[i] = b[i]
            /\ \A i \in 1..Q : c[B - r + i] = queue[i]
        <4> DEFINE n == B - r
        <4>1. n + Q = B + Q - r
          BY <1>1, <1>3
        <4> HIDE DEF n
        <4>2. /\ c \in Seq(S) /\ Len(c) = n + Q
              /\ \A i \in 1..n : c[i] = b[i]
              /\ \A i \in 1..Q : c[n + i] = queue[i]
          <5>1. Len(b) = n /\ Len(queue) = Q
            BY <3>2 DEF n, Q
          <5>2. b \in Seq(S) /\ queue \in Seq(S)
            BY <1>1, <3>2
          <5> HIDE DEF n
          <5> QED
            BY <5>1, <5>2, ConcatElements
        <4> QED
          BY <4>1, <4>2, Zenon DEF n
      <3> HIDE DEF c
      <3>4. \A i \in 1..(B + Q - r) : c[i] = Rest[i]
        <4> TAKE i \in 1..(B + Q - r)
        <4>0. Rest[i] = Pending[r + i]
          BY <1>7
        <4>1. CASE i <= B - r
          <5>1. i \in 1..(B - r) /\ r + i \in 1..B
            BY <1>1, <1>3, <2>1, <4>1
          <5> QED
            BY <1>2, <3>2, <3>3, <4>0, <5>1
        <4>2. CASE B - r < i
          <5> DEFINE j == i - (B - r)
          <5>1. j \in 1..Q /\ B - r + j = i /\ B + j = r + i
            BY <1>1, <1>3, <2>1, <4>2
          <5> HIDE DEF j
          <5>2. c[B - r + j] = queue[j] /\ Pending[B + j] = queue[j]
            BY <1>2, <3>3, <5>1
          <5> QED
            BY <4>0, <5>1, <5>2
        <4> QED
          BY <1>1, <1>3, <2>1, <4>1, <4>2
      <3>5. c = Rest
        BY <1>1, <1>3, <1>7, <3>3, <3>4
      <3> QED
        BY <1>1, <3>1, <3>2, <3>5 DEF c
    <2>2. CASE B < r
      <3>1. q = SubSeq(queue, r - B + 1, Q)
        BY <1>1, <1>3, <2>2
      <3>2. b \in Seq(S) /\ b = <<>>
        BY <1>1, <1>3, <2>2 DEF B
      <3>3. /\ q \in Seq(S) /\ Len(q) = Q - (r - B)
            /\ \A i \in 1..(Q - (r - B)) : q[i] = queue[(r - B) + i]
        BY <1>1, <1>3, <2>2, <3>1 DEF Q
      <3> HIDE DEF b, q
      <3>4. b \o q = q
        BY <3>2, <3>3
      <3>5. \A i \in 1..(B + Q - r) : q[i] = Rest[i]
        <4> TAKE i \in 1..(B + Q - r)
        <4> DEFINE j == (r - B) + i
        <4>1. j \in 1..Q /\ B + j = r + i /\ i \in 1..(Q - (r - B))
          BY <1>1, <1>3, <2>2
        <4>2. q[i] = queue[j]
          BY <3>3, <4>1
        <4> HIDE DEF j
        <4> QED
          BY <1>2, <1>7, <4>1, <4>2
      <3>6. q = Rest
        BY <1>1, <1>3, <1>7, <2>2, <3>3, <3>5
      <3> QED
        BY <3>2, <3>3, <3>4, <3>6
    <2> HIDE DEF b, q
    <2> QED
      BY <1>1, <1>3, <2>1, <2>2
  <1> QED
    BY <1>7, <1>8, <1>9, Zenon DEF S, b, q, r, B, Q

----------------------------------------------------------------------------
(* The queue and the journal's inbox, step by step.                         *)

\* The entries p are pending, c of them cancelled: the journal's inbox i holds
\* the others in the same order.  Nothing is pending twice, and everything that
\* is has arrived (a).
QueueAgrees(p, c, i, a) ==
  /\ p \in Seq(Msgs \cup {SHUTDOWN}) /\ Distinct(p) /\ Range(p) \subseteq a \cup {SHUTDOWN}
  /\ c \subseteq Range(p) /\ c \subseteq Msgs
  /\ i = Except(p, c \cup {SHUTDOWN}) /\ i \in Seq(Msgs)

LEMMA TakeAllOut ==
  ASSUME NEW S, NEW q \in Seq(S), NEW r \in Seq(S)
  PROVE  Except(q \o r, Range(q)) = Except(r, Range(q))
  <1> DEFINE g == Range(q)
             z == Except(q, g)
             y == Except(r, g)
  <1>1. Range(q) \ g = {}
    OBVIOUS
  <1> HIDE DEF g
  <1>2. Except(q \o r, g) = z \o y /\ z \in Seq(S) /\ y \in Seq(S) /\ Range(z) = {}
    <2>1. Except(q \o r, g) = z \o y
      BY ExceptConcat
    <2>2. z \in Seq(S) /\ y \in Seq(S)
      BY ExceptType
    <2>3. Range(z) = Range(q) \ g
      BY ExceptRange
    <2> QED
      BY <1>1, <2>1, <2>2, <2>3
  <1> HIDE DEF z, y
  <1>3. Len(z) = 0
    <2>1. Len(z) # 0 => z[1] \in Range(z)
      BY <1>2 DEF Range
    <2> QED
      BY <1>2, <2>1
  <1>4. z = <<>> /\ z \o y = y
    BY <1>2, <1>3
  <1> QED
    BY <1>2, <1>4, Zenon DEF y, g

LEMMA SmallerType ==
  ASSUME NEW S, NEW T, NEW s \in Seq(S), Range(s) \subseteq T
  PROVE  s \in Seq(T)
  <1>1. DOMAIN s = 1..Len(s) /\ Len(s) \in Nat /\ s \in [1..Len(s) -> S]
    OBVIOUS
  <1>2. \A n \in 1..Len(s) : s[n] \in T
    BY <1>1 DEF Range
  <1> QED
    BY <1>1, <1>2

LEMMA AgreedRange ==
  ASSUME NEW p, NEW c, NEW i, NEW a, QueueAgrees(p, c, i, a)
  PROVE  Range(i) = Range(p) \ (c \cup {SHUTDOWN})
  <1> DEFINE g == c \cup {SHUTDOWN}
  <1>1. p \in Seq(Msgs \cup {SHUTDOWN}) /\ i = Except(p, g)
    BY DEF QueueAgrees
  <1> HIDE DEF g
  <1>2. Range(Except(p, g)) = Range(p) \ g
    BY <1>1, ExceptRange
  <1> QED
    BY <1>1, <1>2, Zenon DEF g

LEMMA MessageIsPut ==
  ASSUME NEW p, NEW c, NEW i, NEW a, NEW m \in Msgs, QueueAgrees(p, c, i, a), m \notin a
  PROVE  QueueAgrees(Append(p, m), c, Append(i, m), a \cup {m})
  <1> DEFINE S == Msgs \cup {SHUTDOWN}
             g == c \cup {SHUTDOWN}
             q == Append(p, m)
  <1>1. /\ p \in Seq(S) /\ Distinct(p) /\ Range(p) \subseteq a \cup {SHUTDOWN}
        /\ c \subseteq Range(p) /\ c \subseteq Msgs /\ i = Except(p, g) /\ i \in Seq(Msgs)
    BY DEF QueueAgrees
  <1>2. m \notin Range(p) /\ m \notin g /\ m \in S
    BY <1>1, InboxAssumption
  <1> HIDE DEF S, g, q
  <1>3. q \in Seq(S) /\ Range(q) = Range(p) \cup {m} /\ Distinct(q)
    <2>1. /\ Append(p, m) \in Seq(S) /\ Range(Append(p, m)) = Range(p) \cup {m}
          /\ Distinct(p) /\ m \notin Range(p) => Distinct(Append(p, m))
      BY <1>1, <1>2, AppendFacts
    <2> QED
      BY <1>1, <1>2, <2>1 DEF q
  <1>4. Append(i, m) = Except(q, g)
    <2>1. Except(Append(p, m), g) = Append(Except(p, g), m)
      BY <1>1, <1>2, ExceptKeeps, Zenon
    <2> QED
      BY <1>1, <2>1 DEF q
  <1>5. Append(i, m) \in Seq(Msgs)
    BY <1>1, AppendFacts
  <1> DEFINE j == Append(i, m)
  <1>6. j = Except(q, g) /\ j \in Seq(Msgs)
    BY <1>4, <1>5
  <1> HIDE DEF j
  <1> USE DEF S, g
  <1>7. Range(q) \subseteq (a \cup {m}) \cup {SHUTDOWN} /\ c \subseteq Range(q)
    BY <1>1, <1>3
  <1>8. QueueAgrees(q, c, j, a \cup {m})
    BY <1>1, <1>3, <1>6, <1>7, Zenon DEF QueueAgrees
  <1> QED
    BY <1>8 DEF q, j

LEMMA SentinelIsPut ==
  ASSUME NEW p, NEW c, NEW i, NEW a, QueueAgrees(p, c, i, a), SHUTDOWN \notin Range(p)
  PROVE  QueueAgrees(Append(p, SHUTDOWN), c, i, a)
  <1> DEFINE S == Msgs \cup {SHUTDOWN}
             g == c \cup {SHUTDOWN}
             q == Append(p, SHUTDOWN)
  <1>1. /\ p \in Seq(S) /\ Distinct(p) /\ Range(p) \subseteq a \cup {SHUTDOWN}
        /\ c \subseteq Range(p) /\ c \subseteq Msgs /\ i = Except(p, g) /\ i \in Seq(Msgs)
    BY DEF QueueAgrees
  <1>2. SHUTDOWN \in S /\ SHUTDOWN \in g
    OBVIOUS
  <1> HIDE DEF S, g, q
  <1>3. q \in Seq(S) /\ Range(q) = Range(p) \cup {SHUTDOWN} /\ Distinct(q)
    BY <1>1, <1>2, AppendFacts DEF q
  <1>4. i = Except(q, g)
    BY <1>1, <1>2, ExceptAppend DEF q
  <1> USE DEF S, g
  <1>5. QueueAgrees(q, c, i, a)
    BY <1>1, <1>3, <1>4 DEF QueueAgrees
  <1> QED
    BY <1>5 DEF q

LEMMA MessageIsCancelled ==
  ASSUME NEW p, NEW c, NEW i, NEW a, QueueAgrees(p, c, i, a), NEW m \in Range(i)
  PROVE  QueueAgrees(p, c \cup {m}, Except(i, {m}), a)
  <1> DEFINE S == Msgs \cup {SHUTDOWN}
             g == c \cup {SHUTDOWN}
             d == c \cup {m}
             j == Except(i, {m})
  <1>1. /\ p \in Seq(S) /\ Distinct(p) /\ Range(p) \subseteq a \cup {SHUTDOWN}
        /\ c \subseteq Range(p) /\ c \subseteq Msgs /\ i = Except(p, g) /\ i \in Seq(Msgs)
    BY DEF QueueAgrees
  <1>2. m \in Range(p) /\ m \in Msgs
    <2>1. m \in Range(p)
      BY AgreedRange
    <2>2. Range(i) \subseteq Msgs
      BY <1>1 DEF Range
    <2> QED
      BY <2>1, <2>2
  <1>3. g \cup {m} = d \cup {SHUTDOWN}
    OBVIOUS
  <1> HIDE DEF S, g, d
  <1>4. Except(Except(p, g), {m}) = Except(p, g \cup {m})
    BY <1>1, ExceptTwice
  <1>5. j \in Seq(Msgs)
    BY <1>1, ExceptType
  <1>6. j = Except(p, d \cup {SHUTDOWN})
    BY <1>1, <1>3, <1>4, Zenon
  <1> HIDE DEF j
  <1> USE DEF S, d
  <1>7. QueueAgrees(p, d, j, a)
    BY <1>1, <1>2, <1>5, <1>6 DEF QueueAgrees
  <1> QED
    BY <1>7 DEF j

\* The entries read leave together, the cancelled ones with their marks: the
\* messages ms go, the entries r stay.
ReadLeaves(ms, q, r, c, i, a) ==
  /\ ms = Except(q, c \cup {SHUTDOWN})
  /\ ms \in Seq(Msgs) /\ Range(ms) \subseteq Range(i)
  /\ i = ms \o Except(r, c \cup {SHUTDOWN})
  /\ QueueAgrees(r, c \ Range(q), Except(i, Range(ms)), a)

LEMMA EntriesAreRead ==
  ASSUME NEW p, NEW c, NEW i, NEW a, QueueAgrees(p, c, i, a),
         NEW q \in Seq(Msgs \cup {SHUTDOWN}), NEW r \in Seq(Msgs \cup {SHUTDOWN}), p = q \o r
  PROVE  ReadLeaves(Except(q, c \cup {SHUTDOWN}), q, r, c, i, a)
  <1> DEFINE ms == Except(q, c \cup {SHUTDOWN})
             S == Msgs \cup {SHUTDOWN}
             g == c \cup {SHUTDOWN}
             d == c \ Range(q)
             h == d \cup {SHUTDOWN}
             mr == Range(ms)
             k == g \cup mr
             e == Except(r, g)
             j == Except(i, mr)
  <1>1. /\ p \in Seq(S) /\ Distinct(p) /\ Range(p) \subseteq a \cup {SHUTDOWN}
        /\ c \subseteq Range(p) /\ c \subseteq Msgs /\ i = Except(p, g) /\ i \in Seq(Msgs)
        /\ q \in Seq(S) /\ r \in Seq(S)
    BY DEF QueueAgrees
  <1>2. Range(p) = Range(q) \cup Range(r) /\ Distinct(r) /\ Range(q) \cap Range(r) = {}
    <2> HIDE DEF S
    <2>1. Range(q \o r) = Range(q) \cup Range(r)
          /\ (Distinct(q \o r) => Distinct(q) /\ Distinct(r) /\ Range(q) \cap Range(r) = {})
      BY <1>1, ConcatFacts
    <2> QED
      BY <1>1, <2>1
  <1>3. ms \in Seq(S) /\ Range(ms) = Range(q) \ g /\ e \in Seq(S)
    <2> HIDE DEF S, g
    <2> QED
      BY <1>1, ExceptType, ExceptRange DEF g
  <1>4. i = ms \o e
    <2> HIDE DEF S, g
    <2>1. Except(q \o r, g) = Except(q, g) \o Except(r, g)
      BY <1>1, ExceptConcat
    <2> QED
      BY <1>1, <2>1, Zenon DEF g
  <1>5. Range(q) \subseteq S /\ Range(r) \subseteq S
    BY <1>1 DEF Range
  <1>6. Range(ms) \subseteq Msgs /\ Range(ms) \cap Range(i) = Range(ms)
    <2>1. Range(i) = Range(p) \ g
      BY AgreedRange
    <2> HIDE DEF g
    <2>2. Range(ms) \subseteq Range(i)
      BY <1>2, <1>3, <2>1
    <2>3. Range(i) \subseteq Msgs
      BY <1>1 DEF Range
    <2> QED
      BY <2>2, <2>3
  <1>7. ms \in Seq(Msgs)
    <2> HIDE DEF S, e
    <2> QED
      BY <1>3, <1>6, SmallerType
  <1>8. j = Except(r, h)
    <2>1. \A x \in Range(r) : x \in k <=> x \in h
      BY <1>2, <1>3
    <2> HIDE DEF S, g, h, e, mr
    <2>3. Except(ms \o e, mr) = Except(e, mr)
      BY <1>3, TakeAllOut DEF mr
    <2>5. Except(e, mr) = Except(r, k)
      BY <1>1, ExceptTwice DEF e
    <2> HIDE DEF k
    <2>6. Except(r, k) = Except(r, h)
      BY <1>1, <2>1, ExceptSame
    <2> QED
      BY <1>4, <2>3, <2>5, <2>6, Zenon
  <1>9. j \in Seq(Msgs)
    <2> HIDE DEF S, g, e
    <2> QED
      BY <1>1, ExceptType
  <1>10. QueueAgrees(r, d, j, a)
    <2> HIDE DEF j, e, k, g
    <2> QED
      BY <1>1, <1>2, <1>8, <1>9 DEF QueueAgrees
  <1> QED
    BY <1>4, <1>6, <1>7, <1>10, Zenon DEF d, j, e, g, mr, ReadLeaves

\* Injected messages leave from anywhere, and the marked ones with them.
LEMMA EntriesAreInjected ==
  ASSUME NEW p, NEW c, NEW i, NEW a, QueueAgrees(p, c, i, a),
         NEW ms, ms = Only(p, Injectable \ c)
  PROVE  /\ ms \in Seq(Msgs) /\ Range(ms) \subseteq Range(i)
         /\ QueueAgrees(Except(p, c \cup Injectable), {}, Except(i, Range(ms)), a)
  <1> DEFINE S == Msgs \cup {SHUTDOWN}
             g == c \cup {SHUTDOWN}
             n == c \cup Injectable
             mr == Range(ms)
             k == g \cup mr
             h == n \cup {SHUTDOWN}
             q == Except(p, n)
             j == Except(i, mr)
             R == Injectable \ c
  <1>1. /\ p \in Seq(S) /\ Distinct(p) /\ Range(p) \subseteq a \cup {SHUTDOWN}
        /\ c \subseteq Range(p) /\ c \subseteq Msgs /\ i = Except(p, g) /\ i \in Seq(Msgs)
    BY DEF QueueAgrees
  <1>2. ms \in Seq(S) /\ Range(ms) = Range(p) \cap R
    <2> HIDE DEF S, R
    <2> QED
      BY <1>1, OnlyIs DEF R
  <1>3. Range(ms) \subseteq Msgs /\ Range(ms) \subseteq Range(i)
    <2>1. Range(i) = Range(p) \ g
      BY AgreedRange
    <2> QED
      BY <1>2, <2>1, InboxAssumption
  <1>4. ms \in Seq(Msgs)
    <2> HIDE DEF S
    <2> QED
      BY <1>2, <1>3, SmallerType
  <1>5. \A x \in Range(p) : x \in k <=> x \in h
    BY <1>2
  <1> HIDE DEF S, g, n, h, R
  <1>6. /\ q \in Seq(S) /\ Range(q) = Range(p) \ n /\ Distinct(q)
    BY <1>1, ExceptType, ExceptRange
  <1> HIDE DEF mr
  <1>7. j = Except(p, k) /\ j \in Seq(Msgs)
    <2>1. Except(Except(p, g), mr) = Except(p, k)
      BY <1>1, ExceptTwice
    <2>2. j \in Seq(Msgs)
      BY <1>1, ExceptType
    <2> QED
      BY <1>1, <2>1, <2>2, Zenon
  <1> HIDE DEF k, j
  <1>8. Except(p, k) = Except(p, h)
    BY <1>1, <1>5, ExceptSame
  <1>9. Except(q, {SHUTDOWN}) = Except(p, h)
    <2>1. Except(Except(p, n), {SHUTDOWN}) = Except(p, n \cup {SHUTDOWN})
      BY <1>1, ExceptTwice
    <2> QED
      BY <2>1, Zenon DEF h
  <1>10. j = Except(q, {} \cup {SHUTDOWN})
    <2>1. {} \cup {SHUTDOWN} = {SHUTDOWN}
      OBVIOUS
    <2> QED
      BY <1>7, <1>8, <1>9, <2>1, Zenon
  <1> HIDE DEF q
  <1>11. QueueAgrees(q, {}, j, a)
    BY <1>1, <1>6, <1>7, <1>10 DEF QueueAgrees, S
  <1> QED
    BY <1>3, <1>4, <1>11, Zenon DEF q, j, n, mr

LEMMA InboxIsInstalled ==
  ASSUME NEW i \in Seq(Msgs), NEW a, Distinct(i), Range(i) \subseteq a
  PROVE  QueueAgrees(i, {}, i, a)
  <1>1. Range(i) \subseteq Msgs
    BY DEF Range
  <1>2. Range(i) \cap {SHUTDOWN} = {} /\ {} \cup {SHUTDOWN} = {SHUTDOWN}
    BY <1>1, InboxAssumption
  <1>3. Except(i, {SHUTDOWN}) = i
    BY <1>2, ExceptAll
  <1>4. i \in Seq(Msgs \cup {SHUTDOWN})
    OBVIOUS
  <1> QED
    BY <1>2, <1>3, <1>4 DEF QueueAgrees

----------------------------------------------------------------------------
(* The journal and what a restart may find, step by step.                   *)

\* A snapshot holds no message twice, none that has not arrived (a) and none
\* both in the inbox and in the context; the context has none of those in v.
Sound(t, a, v) ==
  /\ t \in Snapshots /\ Distinct(t.inbox)
  /\ Range(t.inbox) \subseteq a /\ Range(t.context) \subseteq a
  /\ Range(t.inbox) \cap Range(t.context) = {}
  /\ Range(t.context) \cap v = {}

\* The records l take the disk d to the journal's snapshot s, in which nothing
\* revoked (v) is, and every snapshot on the way is sound: it has staged nothing
\* that is revoked or that the journal's inbox still holds.
JournalAgrees(d, l, s, a, v) ==
  /\ d \in Snapshots /\ l \in Seq(Records) /\ s \in Snapshots /\ s = ReplayAll(d, l)
  /\ v \subseteq a /\ v \cap Range(s.inbox) = {}
  /\ \A t \in Landings(d, l) : Sound(t, a, v \cup Range(s.inbox))

LEMMA JournalIsSound ==
  ASSUME NEW d, NEW l, NEW s, NEW a, NEW v, JournalAgrees(d, l, s, a, v)
  PROVE  Sound(s, a, v \cup Range(s.inbox)) /\ Sound(d, a, v \cup Range(s.inbox))
  <1>1. d \in Snapshots /\ l \in Seq(Records) /\ s = ReplayAll(d, l)
    BY DEF JournalAgrees
  <1>2. s \in Landings(d, l) /\ d \in Landings(d, l)
    BY <1>1, LastLanding
  <1> QED
    BY <1>2, Zenon DEF JournalAgrees

LEMMA RecordIsWritten ==
  ASSUME NEW d, NEW l, NEW s, NEW a, NEW v, JournalAgrees(d, l, s, a, v),
         NEW r \in Records, NEW b, NEW w, NEW z, z = Replay(s, r),
         a \subseteq b, w \subseteq b, w \cap Range(z.inbox) = {},
         Sound(z, b, w \cup Range(z.inbox)),
         \A t \in Landings(d, l) : Range(t.context) \cap (w \cup Range(z.inbox)) = {}
  PROVE  JournalAgrees(d, l \o <<r>>, z, b, w)
  <1> DEFINE m == l \o <<r>>
             u == w \cup Range(z.inbox)
  <1>1. d \in Snapshots /\ l \in Seq(Records) /\ s = ReplayAll(d, l)
    BY DEF JournalAgrees
  <1>2. m \in Seq(Records) /\ ReplayAll(d, m) = z /\ Landings(d, m) = Landings(d, l) \cup {z}
    <2>1. /\ l \o <<r>> \in Seq(Records)
          /\ ReplayAll(d, l \o <<r>>) = Replay(ReplayAll(d, l), r)
          /\ Landings(d, l \o <<r>>) = Landings(d, l) \cup {Replay(ReplayAll(d, l), r)}
      BY <1>1, OneMore
    <2> QED
      BY <1>1, <2>1, Zenon
  <1> HIDE DEF m
  <1>3. z \in Snapshots
    BY DEF Sound
  <1>4. ASSUME NEW t \in Landings(d, m) PROVE Sound(t, b, u)
    <2>1. CASE t = z
      BY <2>1
    <2>2. CASE t \in Landings(d, l)
      <3>1. Sound(t, a, v \cup Range(s.inbox))
        BY <2>2 DEF JournalAgrees
      <3>2. Range(t.context) \cap u = {}
        BY <2>2
      <3> HIDE DEF u
      <3> QED
        BY <3>1, <3>2 DEF Sound
    <2> QED
      BY <1>2, <2>1, <2>2
  <1>5. JournalAgrees(d, m, z, b, w)
    BY <1>1, <1>2, <1>3, <1>4, Zenon DEF JournalAgrees, u
  <1> QED
    BY <1>5 DEF m

LEMMA PutIsWritten ==
  ASSUME NEW d, NEW l, NEW s, NEW a, NEW v, JournalAgrees(d, l, s, a, v),
         NEW m \in Msgs, m \notin a
  PROVE  JournalAgrees(d, l \o <<PutRecord(m)>>, [s EXCEPT !.inbox = Append(@, m)], a \cup {m}, v)
  <1> DEFINE r == PutRecord(m)
             z == Replay(s, r)
             i == s.inbox
             j == Append(i, m)
             b == a \cup {m}
             k == s.context
  <1>1. s \in Snapshots /\ i \in Seq(Msgs) /\ k \in Seq(Msgs)
    BY DEF JournalAgrees, Snapshots
  <1>2. r \in Records /\ r.op = "put" /\ r.msg = m
    BY OneRecord
  <1>3. Sound(s, a, v \cup Range(i)) /\ v \subseteq a
    BY JournalIsSound DEF JournalAgrees
  <1> HIDE DEF r
  <1>4. z = [inbox |-> j, context |-> k] /\ z \in Snapshots
    BY <1>1, <1>2, ReplayType
  <1>5. [s EXCEPT !.inbox = Append(@, m)] = [inbox |-> j, context |-> k]
    <2>1. \A x : [s EXCEPT !.inbox = x] = [inbox |-> x, context |-> s.context]
      BY <1>1 DEF Snapshots
    <2> QED
      BY <2>1, Zenon
  <1> HIDE DEF z, i, k
  <1>6. /\ z.inbox = j /\ z.context = k
        /\ Range(i) \subseteq a /\ Range(k) \subseteq a /\ Range(i) \cap Range(k) = {}
        /\ Range(k) \cap (v \cup Range(i)) = {} /\ Distinct(i)
    BY <1>3, <1>4 DEF Sound, i, k
  <1>7. Range(j) = Range(i) \cup {m} /\ Distinct(j)
    <2>1. m \notin Range(i)
      BY <1>6
    <2>2. /\ Range(j) = Range(i) \cup {m}
          /\ Distinct(i) /\ m \notin Range(i) => Distinct(j)
      <3>1. i \in Seq(Msgs)
        BY <1>1
      <3> QED
        BY <3>1, AppendFacts
    <2> HIDE DEF j
    <2> QED
      BY <1>6, <2>1, <2>2
  <1> HIDE DEF j
  <1>8. Sound(z, b, v \cup Range(z.inbox))
    BY <1>3, <1>4, <1>6, <1>7 DEF Sound
  <1>9. v \cap Range(z.inbox) = {} /\ v \subseteq b /\ a \subseteq b
    <2>1. v \cap Range(i) = {}
      BY DEF JournalAgrees, i
    <2> QED
      BY <1>3, <1>6, <1>7, <2>1
  <1>10. \A t \in Landings(d, l) : Range(t.context) \cap (v \cup Range(z.inbox)) = {}
    <2> TAKE t \in Landings(d, l)
    <2>1. Sound(t, a, v \cup Range(i))
      BY DEF JournalAgrees, i
    <2> QED
      BY <1>6, <1>7, <2>1 DEF Sound
  <1> HIDE DEF b
  <1>11. JournalAgrees(d, l \o <<r>>, z, b, v)
    BY <1>2, <1>8, <1>9, <1>10, RecordIsWritten DEF z
  <1> QED
    BY <1>4, <1>5, <1>11, Zenon DEF b, r

LEMMA StageIsWritten ==
  ASSUME NEW d, NEW l, NEW s, NEW a, NEW v, JournalAgrees(d, l, s, a, v),
         NEW m \in Msgs, m \notin a
  PROVE  JournalAgrees(d, l \o <<Staged(m)>>, [s EXCEPT !.context = Append(@, m)], a \cup {m}, v)
  <1> DEFINE r == Staged(m)
             z == Replay(s, r)
             i == s.inbox
             b == a \cup {m}
             k == s.context
             j == Append(k, m)
  <1>1. s \in Snapshots /\ i \in Seq(Msgs) /\ k \in Seq(Msgs)
    BY DEF JournalAgrees, Snapshots
  <1>2. r \in Records /\ r.op = "stage" /\ r.msg = m
    BY OneRecord
  <1>3. Sound(s, a, v \cup Range(i)) /\ v \subseteq a
    BY JournalIsSound DEF JournalAgrees
  <1> HIDE DEF r
  <1>4. z = [inbox |-> i, context |-> j] /\ z \in Snapshots
    BY <1>1, <1>2, ReplayType
  <1>5. [s EXCEPT !.context = Append(@, m)] = [inbox |-> i, context |-> j]
    <2>1. \A x : [s EXCEPT !.context = x] = [inbox |-> s.inbox, context |-> x]
      BY <1>1 DEF Snapshots
    <2> QED
      BY <2>1, Zenon
  <1> HIDE DEF z, i, k
  <1>6. /\ z.inbox = i /\ z.context = j
        /\ Range(i) \subseteq a /\ Range(k) \subseteq a /\ Range(i) \cap Range(k) = {}
        /\ Range(k) \cap (v \cup Range(i)) = {} /\ Distinct(i)
    BY <1>3, <1>4 DEF Sound, i, k
  <1>7. Range(j) = Range(k) \cup {m}
    <2>1. k \in Seq(Msgs)
      BY <1>1
    <2> QED
      BY <2>1, AppendFacts
  <1> HIDE DEF j
  <1>8. Sound(z, b, v \cup Range(z.inbox))
    BY <1>3, <1>4, <1>6, <1>7 DEF Sound
  <1>9. v \cap Range(z.inbox) = {} /\ v \subseteq b /\ a \subseteq b
    <2>1. v \cap Range(i) = {}
      BY DEF JournalAgrees, i
    <2> QED
      BY <1>3, <1>6, <2>1
  <1>10. \A t \in Landings(d, l) : Range(t.context) \cap (v \cup Range(z.inbox)) = {}
    <2> TAKE t \in Landings(d, l)
    <2>1. Sound(t, a, v \cup Range(i))
      BY DEF JournalAgrees, i
    <2> QED
      BY <1>6, <2>1 DEF Sound
  <1> HIDE DEF b
  <1>11. JournalAgrees(d, l \o <<r>>, z, b, v)
    BY <1>2, <1>8, <1>9, <1>10, RecordIsWritten DEF z
  <1> QED
    BY <1>4, <1>5, <1>11, Zenon DEF b, r

LEMMA CancelIsWritten ==
  ASSUME NEW d, NEW l, NEW s, NEW a, NEW v, JournalAgrees(d, l, s, a, v), NEW m \in Range(s.inbox)
  PROVE  JournalAgrees(d, l \o <<Tombstone(m)>>, [s EXCEPT !.inbox = Except(@, {m})], a, v \cup {m})
  <1> DEFINE r == Tombstone(m)
             z == Replay(s, r)
             i == s.inbox
             j == Except(i, {m})
             w == v \cup {m}
             k == s.context
  <1>1. s \in Snapshots /\ i \in Seq(Msgs) /\ k \in Seq(Msgs)
    BY DEF JournalAgrees, Snapshots
  <1>0. m \in Msgs
    BY <1>1 DEF Range
  <1>2. r \in Records /\ r.op = "prune" /\ r.msg = m
    BY <1>0, OneRecord
  <1>3. Sound(s, a, v \cup Range(i)) /\ v \subseteq a
    BY JournalIsSound DEF JournalAgrees
  <1> HIDE DEF r
  <1>4. z = [inbox |-> j, context |-> k] /\ z \in Snapshots
    BY <1>1, <1>2, ReplayType
  <1>5. [s EXCEPT !.inbox = Except(@, {m})] = [inbox |-> j, context |-> k]
    BY <1>1 DEF Snapshots
  <1> HIDE DEF z, k
  <1>6. /\ z.inbox = j /\ z.context = k
        /\ Range(i) \subseteq a /\ Range(k) \subseteq a /\ Range(i) \cap Range(k) = {}
        /\ Range(k) \cap (v \cup Range(i)) = {} /\ Distinct(i) /\ m \in Range(i)
    BY <1>3, <1>4 DEF Sound, k
  <1> HIDE DEF i
  <1>7. Range(j) = Range(i) \ {m} /\ Distinct(j)
    <2>1. Range(j) = Range(i) \ {m} /\ (Distinct(i) => Distinct(j))
      BY <1>1, ExceptRange
    <2> QED
      BY <1>6, <2>1
  <1> HIDE DEF j
  <1>8. Sound(z, a, w \cup Range(z.inbox))
    BY <1>3, <1>4, <1>6, <1>7 DEF Sound
  <1>9. w \cap Range(z.inbox) = {} /\ w \subseteq a /\ a \subseteq a
    <2>1. v \cap Range(i) = {}
      BY DEF JournalAgrees, i
    <2> QED
      BY <1>3, <1>6, <1>7, <2>1
  <1>10. \A t \in Landings(d, l) : Range(t.context) \cap (w \cup Range(z.inbox)) = {}
    <2> TAKE t \in Landings(d, l)
    <2>1. Sound(t, a, v \cup Range(i))
      BY DEF JournalAgrees, i
    <2> QED
      BY <1>6, <1>7, <2>1 DEF Sound
  <1> HIDE DEF w
  <1>11. JournalAgrees(d, l \o <<r>>, z, a, w)
    BY <1>2, <1>8, <1>9, <1>10, RecordIsWritten DEF z
  <1> QED
    BY <1>4, <1>5, <1>11, Zenon DEF w, r

LEMMA ClearIsWritten ==
  ASSUME NEW d, NEW l, NEW s, NEW a, NEW v, JournalAgrees(d, l, s, a, v)
  PROVE  JournalAgrees(d, l \o <<Cleared>>, [s EXCEPT !.context = <<>>], a, v)
  <1> DEFINE r == Cleared
             z == Replay(s, r)
             i == s.inbox
  <1>1. s \in Snapshots /\ i \in Seq(Msgs)
    BY DEF JournalAgrees, Snapshots
  <1>2. r \in Records /\ r.op = "clear"
    BY DEF Cleared, Records
  <1>3. Sound(s, a, v \cup Range(i)) /\ v \subseteq a
    BY JournalIsSound DEF JournalAgrees
  <1> HIDE DEF r
  <1>4. z = [inbox |-> i, context |-> <<>>] /\ z \in Snapshots
    BY <1>1, <1>2, ReplayType
  <1>5. [s EXCEPT !.context = <<>>] = [inbox |-> i, context |-> <<>>]
    BY <1>1 DEF Snapshots
  <1> HIDE DEF z, i
  <1>6. z.inbox = i /\ Range(z.context) = {}
    BY <1>4 DEF Range
  <1>8. Sound(z, a, v \cup Range(z.inbox))
    BY <1>3, <1>4, <1>6 DEF Sound, i
  <1>9. v \cap Range(z.inbox) = {} /\ v \subseteq a /\ a \subseteq a
    <2>1. v \cap Range(i) = {}
      BY DEF JournalAgrees, i
    <2> QED
      BY <1>3, <1>6, <2>1
  <1>10. \A t \in Landings(d, l) : Range(t.context) \cap (v \cup Range(z.inbox)) = {}
    <2> TAKE t \in Landings(d, l)
    <2>1. Sound(t, a, v \cup Range(i))
      BY DEF JournalAgrees, i
    <2> QED
      BY <1>6, <2>1 DEF Sound
  <1>11. JournalAgrees(d, l \o <<r>>, z, a, v)
    BY <1>2, <1>8, <1>9, <1>10, RecordIsWritten DEF z
  <1> QED
    BY <1>4, <1>5, <1>11, Zenon DEF r

LEMMA MovesAreWritten ==
  ASSUME NEW d, NEW l, NEW s, NEW a, NEW v, JournalAgrees(d, l, s, a, v),
         NEW records, NEW ms, NEW c, Moves(s, records, ms, c), Range(ms) \subseteq Range(s.inbox)
  PROVE  JournalAgrees(d, l \o records,
                       [inbox |-> Except(s.inbox, Range(ms)), context |-> s.context \o c], a, v)
  <1> DEFINE i == s.inbox
             k == s.context
             R == Range(ms)
             j == Except(i, R)
             z == [inbox |-> j, context |-> k \o c]
             m == l \o records
             u == v \cup Range(j)
  <1>1. /\ d \in Snapshots /\ l \in Seq(Records) /\ s \in Snapshots /\ s = ReplayAll(d, l)
        /\ v \subseteq a /\ v \cap Range(i) = {}
    BY DEF JournalAgrees
  <1>2. i \in Seq(Msgs)
    BY <1>1 DEF Snapshots
  <1>3. /\ records \in Seq(Records) /\ ReplayAll(s, records) = z
        /\ \A t \in Landings(s, records) : OnTheWay(t, s, R)
    BY DEF Moves
  <1>4. R \subseteq Range(i)
    OBVIOUS
  <1>5. Sound(s, a, v \cup Range(i))
    BY JournalIsSound
  <1> HIDE DEF R, i
  <1>6. Range(j) = Range(i) \ R
    BY <1>2, ExceptRange
  <1>7. z \in Snapshots
    BY <1>1, <1>3, ReplayAllType
  <1>8. z.inbox = j
    OBVIOUS
  <1> HIDE DEF j, z, k
  <1>9. /\ m \in Seq(Records) /\ ReplayAll(d, m) = z
        /\ Landings(d, m) = Landings(d, l) \cup Landings(s, records)
    <2>1. l \o records \in Seq(Records)
      BY <1>1, <1>3, ConcatFacts
    <2>2. ReplayAll(d, l \o records) = ReplayAll(ReplayAll(d, l), records)
      BY <1>1, <1>3, ReplayConcat
    <2>3. Landings(d, l \o records) = Landings(d, l) \cup Landings(ReplayAll(d, l), records)
      BY <1>1, <1>3, LandingsConcat
    <2> QED
      BY <1>1, <1>3, <2>1, <2>2, <2>3, Zenon
  <1> HIDE DEF m
  <1>10. ASSUME NEW t \in Landings(d, m) PROVE Sound(t, a, u)
    <2>1. CASE t \in Landings(d, l)
      <3>1. Sound(t, a, v \cup Range(i))
        BY <2>1 DEF JournalAgrees, i
      <3> QED
        BY <1>6, <3>1 DEF Sound
    <2>2. CASE t \in Landings(s, records)
      <3>1. OnTheWay(t, s, R)
        BY <1>3, <2>2
      <3> QED
        BY <1>1, <1>4, <1>5, <1>6, <3>1 DEF Sound, OnTheWay, i
    <2> QED
      BY <1>9, <2>1, <2>2
  <1>11. v \cap Range(j) = {}
    BY <1>1, <1>6
  <1>12. JournalAgrees(d, m, z, a, v)
    BY <1>1, <1>7, <1>8, <1>9, <1>10, <1>11, Zenon DEF JournalAgrees, u
  <1> QED
    BY <1>12, Zenon DEF m, z, j, k, i, R

LEMMA SnapshotIsInstalled ==
  ASSUME NEW d, NEW l, NEW s, NEW a, NEW v, JournalAgrees(d, l, s, a, v),
         NEW t \in Landings(d, l) \cup {Empty}, NEW w, w \subseteq v, w \cap Range(t.inbox) = {}
  PROVE  /\ JournalAgrees(t, <<>>, t, a, w)
         /\ t \in Snapshots /\ Distinct(t.inbox) /\ Range(t.inbox) \subseteq a
         /\ Range(t.context) \subseteq a
  <1> DEFINE u == w \cup Range(t.inbox)
  <1>1. Sound(t, a, u)
    <2>1. CASE t \in Landings(d, l)
      <3>1. Sound(t, a, v \cup Range(s.inbox))
        BY <2>1 DEF JournalAgrees
      <3> QED
        BY <3>1 DEF Sound
    <2>2. CASE t = Empty
      <3>1. Empty \in Snapshots /\ Range(Empty.inbox) = {} /\ Range(Empty.context) = {} /\ Distinct(Empty.inbox)
        BY DEF Empty, Snapshots, Range, Distinct
      <3> QED
        BY <2>2, <3>1 DEF Sound
    <2> QED
      BY <2>1, <2>2
  <1>2. t \in Snapshots /\ Distinct(t.inbox) /\ Range(t.inbox) \subseteq a /\ Range(t.context) \subseteq a
    BY <1>1 DEF Sound
  <1>3. <<>> \in Seq(Records) /\ ReplayAll(t, <<>>) = t /\ Landings(t, <<>>) = {t}
    BY <1>2, ReplayNothing, LandingsNothing
  <1>4. w \subseteq a
    BY DEF JournalAgrees
  <1>5. JournalAgrees(t, <<>>, t, a, w)
    <2>1. \A x \in Landings(t, <<>>) : Sound(x, a, u)
      BY <1>1, <1>3
    <2> QED
      BY <1>2, <1>3, <1>4, <2>1, Zenon DEF JournalAgrees, u
  <1> QED
    BY <1>2, <1>5

----------------------------------------------------------------------------
(* The invariant.                                                           *)

InboxInv ==
  /\ queue \in Seq(Msgs \cup {SHUTDOWN}) /\ buffer \in Seq(Msgs \cup {SHUTDOWN})
  /\ arrived \subseteq Msgs /\ context = snap.context
  /\ QueueAgrees(Pending, cancelled, snap.inbox, arrived)
  /\ JournalAgrees(disk, log, snap, arrived, revoked)

LEMMA InboxInit == Init => InboxInv
  <1> SUFFICES ASSUME Init PROVE InboxInv
    OBVIOUS
  <1>1. <<>> \in Seq(Msgs) /\ Range(<<>>) = {} /\ Distinct(<<>>) /\ <<>> \o <<>> = <<>>
    BY DEF Range, Distinct
  <1>2. Empty \in Snapshots /\ Empty.inbox = <<>> /\ Empty.context = <<>>
    BY <1>1 DEF Empty, Snapshots
  <1>3. QueueAgrees(<<>>, {}, <<>>, {})
    BY <1>1, InboxIsInstalled
  <1>4. JournalAgrees(Empty, <<>>, Empty, {}, {})
    <2>1. <<>> \in Seq(Records) /\ ReplayAll(Empty, <<>>) = Empty /\ Landings(Empty, <<>>) = {Empty}
      BY <1>2, ReplayNothing, LandingsNothing
    <2>2. Sound(Empty, {}, {} \cup Range(Empty.inbox))
      BY <1>1, <1>2 DEF Sound
    <2> QED
      BY <1>1, <1>2, <2>1, <2>2 DEF JournalAgrees
  <1>5. /\ queue = <<>> /\ buffer = <<>> /\ cancelled = {} /\ context = <<>>
        /\ snap = Empty /\ log = <<>> /\ disk = Empty /\ arrived = {} /\ revoked = {}
    BY DEF Init
  <1>6. Pending = <<>>
    BY <1>1, <1>5 DEF Pending
  <1> QED
    BY <1>2, <1>3, <1>4, <1>5, <1>6 DEF InboxInv

LEMMA PendingAppend ==
  ASSUME InboxInv, NEW e \in Msgs \cup {SHUTDOWN}
  PROVE  /\ buffer \o Append(queue, e) = Append(Pending, e)
         /\ Append(queue, e) \in Seq(Msgs \cup {SHUTDOWN})
  <1> DEFINE S == Msgs \cup {SHUTDOWN}
  <1>1. queue \in Seq(S) /\ buffer \in Seq(S) /\ e \in S
    BY DEF InboxInv
  <1> HIDE DEF S
  <1>2. buffer \o Append(queue, e) = Append(buffer \o queue, e) /\ Append(queue, e) \in Seq(S)
    BY <1>1, PutLast
  <1> QED
    BY <1>2 DEF Pending, S

LEMMA EnqueueStep ==
  ASSUME InboxInv, NEW m \in Msgs, Enqueue(m), UNCHANGED <<buffer, cancelled, context, revoked>>
  PROVE  InboxInv'
  <1>1. /\ m \notin arrived /\ arrived' = arrived \cup {m} /\ queue' = Append(queue, m)
        /\ log' = log \o <<PutRecord(m)>> /\ disk' = disk
        /\ snap' = [snap EXCEPT !.inbox = Append(@, m)]
        /\ buffer' = buffer /\ cancelled' = cancelled /\ context' = context /\ revoked' = revoked
    BY DEF Enqueue, Journal
  <1>2. /\ arrived \subseteq Msgs /\ context = snap.context /\ snap \in Snapshots
        /\ QueueAgrees(Pending, cancelled, snap.inbox, arrived)
        /\ JournalAgrees(disk, log, snap, arrived, revoked)
    BY DEF InboxInv, JournalAgrees
  <1>3. snap'.inbox = Append(snap.inbox, m) /\ snap'.context = snap.context
    <2>1. \A x : [snap EXCEPT !.inbox = x].inbox = x /\ [snap EXCEPT !.inbox = x].context = snap.context
      BY <1>2 DEF Snapshots
    <2> QED
      BY <1>1, <2>1, Zenon
  <1>4. Pending' = Append(Pending, m) /\ queue' \in Seq(Msgs \cup {SHUTDOWN})
    BY <1>1, PendingAppend DEF Pending
  <1>5. QueueAgrees(Append(Pending, m), cancelled, Append(snap.inbox, m), arrived \cup {m})
    BY <1>1, <1>2, MessageIsPut
  <1>6. JournalAgrees(disk, log \o <<PutRecord(m)>>, [snap EXCEPT !.inbox = Append(@, m)], arrived \cup {m}, revoked)
    BY <1>1, <1>2, PutIsWritten
  <1>7. QueueAgrees(Pending', cancelled', snap'.inbox, arrived')
    BY <1>1, <1>3, <1>4, <1>5, Zenon
  <1>8. JournalAgrees(disk', log', snap', arrived', revoked')
    BY <1>1, <1>6, Zenon
  <1>9. buffer' \in Seq(Msgs \cup {SHUTDOWN}) /\ arrived' \subseteq Msgs /\ context' = snap'.context
    BY <1>1, <1>2, <1>3 DEF InboxInv
  <1> QED
    BY <1>4, <1>7, <1>8, <1>9 DEF InboxInv

LEMMA HookStageStep ==
  ASSUME InboxInv, NEW m \in Msgs, HookStage(m)
  PROVE  InboxInv'
  <1>1. /\ m \notin arrived /\ arrived' = arrived \cup {m} /\ queue' = queue
        /\ log' = log \o <<Staged(m)>> /\ disk' = disk
        /\ snap' = [snap EXCEPT !.context = Append(@, m)]
        /\ buffer' = buffer /\ cancelled' = cancelled /\ context' = Append(context, m)
        /\ revoked' = revoked
    BY DEF HookStage, Journal
  <1>2. /\ arrived \subseteq Msgs /\ context = snap.context /\ snap \in Snapshots
        /\ QueueAgrees(Pending, cancelled, snap.inbox, arrived)
        /\ JournalAgrees(disk, log, snap, arrived, revoked)
    BY DEF InboxInv, JournalAgrees
  <1>3. snap'.inbox = snap.inbox /\ snap'.context = Append(snap.context, m)
    <2>1. \A x : [snap EXCEPT !.context = x].context = x /\ [snap EXCEPT !.context = x].inbox = snap.inbox
      BY <1>2 DEF Snapshots
    <2> QED
      BY <1>1, <2>1, Zenon
  <1>4. Pending' = Pending
    BY <1>1 DEF Pending
  <1>5. QueueAgrees(Pending, cancelled, snap.inbox, arrived \cup {m})
    BY <1>2 DEF QueueAgrees
  <1>6. JournalAgrees(disk, log \o <<Staged(m)>>, [snap EXCEPT !.context = Append(@, m)], arrived \cup {m}, revoked)
    BY <1>1, <1>2, StageIsWritten
  <1>7. QueueAgrees(Pending', cancelled', snap'.inbox, arrived')
    BY <1>1, <1>3, <1>4, <1>5, Zenon
  <1>8. JournalAgrees(disk', log', snap', arrived', revoked')
    BY <1>1, <1>6, Zenon
  <1>9. /\ buffer' \in Seq(Msgs \cup {SHUTDOWN}) /\ queue' \in Seq(Msgs \cup {SHUTDOWN})
        /\ arrived' \subseteq Msgs
    BY <1>1, <1>2 DEF InboxInv
  <1>10. context' = snap'.context
    BY <1>1, <1>2, <1>3, Zenon
  <1> QED
    BY <1>7, <1>8, <1>9, <1>10 DEF InboxInv

LEMMA CancelStep ==
  ASSUME InboxInv, NEW m \in Msgs, Cancel(m)
  PROVE  InboxInv'
  <1>1. /\ m \in Range(snap.inbox) /\ arrived' = arrived /\ queue' = queue
        /\ log' = log \o <<Tombstone(m)>> /\ disk' = disk
        /\ snap' = [snap EXCEPT !.inbox = Except(@, {m})]
        /\ buffer' = buffer /\ cancelled' = cancelled \cup {m} /\ context' = context
        /\ revoked' = revoked \cup {m}
    BY DEF Cancel, Journal
  <1>2. /\ arrived \subseteq Msgs /\ context = snap.context /\ snap \in Snapshots
        /\ QueueAgrees(Pending, cancelled, snap.inbox, arrived)
        /\ JournalAgrees(disk, log, snap, arrived, revoked)
    BY DEF InboxInv, JournalAgrees
  <1>3. snap'.inbox = Except(snap.inbox, {m}) /\ snap'.context = snap.context
    <2>1. \A x : [snap EXCEPT !.inbox = x].inbox = x /\ [snap EXCEPT !.inbox = x].context = snap.context
      BY <1>2 DEF Snapshots
    <2> QED
      BY <1>1, <2>1, Zenon
  <1>4. Pending' = Pending
    BY <1>1 DEF Pending
  <1>5. QueueAgrees(Pending, cancelled \cup {m}, Except(snap.inbox, {m}), arrived)
    BY <1>1, <1>2, MessageIsCancelled
  <1>6. JournalAgrees(disk, log \o <<Tombstone(m)>>, [snap EXCEPT !.inbox = Except(@, {m})], arrived, revoked \cup {m})
    BY <1>1, <1>2, CancelIsWritten
  <1>7. QueueAgrees(Pending', cancelled', snap'.inbox, arrived')
    BY <1>1, <1>3, <1>4, <1>5, Zenon
  <1>8. JournalAgrees(disk', log', snap', arrived', revoked')
    BY <1>1, <1>6, Zenon
  <1>9. /\ buffer' \in Seq(Msgs \cup {SHUTDOWN}) /\ queue' \in Seq(Msgs \cup {SHUTDOWN})
        /\ arrived' \subseteq Msgs /\ context' = snap'.context
    BY <1>1, <1>2, <1>3 DEF InboxInv
  <1> QED
    BY <1>7, <1>8, <1>9 DEF InboxInv

LEMMA ShutdownStep ==
  ASSUME InboxInv, Shutdown
  PROVE  InboxInv'
  <1>1. /\ SHUTDOWN \notin Range(Pending) /\ queue' = Append(queue, SHUTDOWN)
        /\ UNCHANGED <<buffer, cancelled, context, snap, log, disk, arrived, revoked>>
    BY DEF Shutdown, journalVars, historyVars, Pending
  <1>2. QueueAgrees(Pending, cancelled, snap.inbox, arrived)
    BY DEF InboxInv
  <1>3. Pending' = Append(Pending, SHUTDOWN) /\ queue' \in Seq(Msgs \cup {SHUTDOWN})
    BY <1>1, PendingAppend DEF Pending
  <1>4. QueueAgrees(Append(Pending, SHUTDOWN), cancelled, snap.inbox, arrived)
    BY <1>1, <1>2, SentinelIsPut
  <1>5. QueueAgrees(Pending', cancelled', snap'.inbox, arrived')
    BY <1>1, <1>3, <1>4
  <1> QED
    BY <1>1, <1>3, <1>5 DEF InboxInv

\* What one drain takes out, and what it leaves.
LEMMA DrainReads ==
  ASSUME InboxInv, Pending # <<>>
  PROVE  ReadLeaves(Except(Read, cancelled \cup {SHUTDOWN}), Read, Rest, cancelled, snap.inbox, arrived)
  <1>1. /\ Read \in Seq(Msgs \cup {SHUTDOWN}) /\ Rest \in Seq(Msgs \cup {SHUTDOWN})
        /\ Pending = Read \o Rest
    BY ReadAndRest, Zenon DEF InboxInv
  <1>2. QueueAgrees(Pending, cancelled, snap.inbox, arrived)
    BY DEF InboxInv
  <1> QED
    BY <1>1, <1>2, EntriesAreRead

LEMMA DrainStep ==
  ASSUME InboxInv, Drain
  PROVE  InboxInv'
  <1> DEFINE ms == Except(Read, cancelled \cup {SHUTDOWN})
             rides == Only(ms, RideAlongs)
             R == DrainedRecords(ms)
             z == [inbox |-> Except(snap.inbox, Range(ms)), context |-> snap.context \o rides]
  <1>1. /\ Pending # <<>> /\ log' = log \o R /\ snap' = z /\ disk' = disk
        /\ context' = context \o rides
        /\ buffer' = SubSeq(buffer, ReadSize + 1, Len(buffer))
        /\ queue' = IF ReadSize <= Len(buffer) THEN queue
                    ELSE SubSeq(queue, ReadSize - Len(buffer) + 1, Len(queue))
        /\ cancelled' = cancelled \ Range(Read)
        /\ arrived' = arrived /\ revoked' = revoked
    BY Zenon DEF Drain, Journal, Skipped, DrainedRecords
  <1>2. /\ arrived \subseteq Msgs /\ context = snap.context /\ snap \in Snapshots
        /\ JournalAgrees(disk, log, snap, arrived, revoked)
        /\ buffer \in Seq(Msgs \cup {SHUTDOWN}) /\ queue \in Seq(Msgs \cup {SHUTDOWN})
    BY DEF InboxInv, JournalAgrees
  <1>3. /\ ms \in Seq(Msgs) /\ Range(ms) \subseteq Range(snap.inbox)
        /\ QueueAgrees(Rest, cancelled \ Range(Read), Except(snap.inbox, Range(ms)), arrived)
    BY <1>1, DrainReads, Zenon DEF ReadLeaves
  <1>4. /\ buffer' \in Seq(Msgs \cup {SHUTDOWN}) /\ queue' \in Seq(Msgs \cup {SHUTDOWN})
        /\ Pending' = Rest
    <2>1. buffer' \o queue' = Rest /\ buffer' \in Seq(Msgs \cup {SHUTDOWN})
          /\ queue' \in Seq(Msgs \cup {SHUTDOWN})
      BY <1>1, <1>2, ReadAndRest, Zenon
    <2> QED
      BY <2>1 DEF Pending
  <1> HIDE DEF ms
  <1>5. Moves(snap, R, ms, rides)
    BY <1>2, <1>3, DrainMoves
  <1> HIDE DEF R, rides
  <1>6. JournalAgrees(disk, log \o R, z, arrived, revoked)
    BY <1>2, <1>3, <1>5, MovesAreWritten
  <1>7. snap'.inbox = Except(snap.inbox, Range(ms)) /\ snap'.context = snap.context \o rides
    BY <1>1
  <1>8. QueueAgrees(Pending', cancelled', snap'.inbox, arrived')
    BY <1>1, <1>3, <1>4, <1>7, Zenon
  <1>9. JournalAgrees(disk', log', snap', arrived', revoked')
    BY <1>1, <1>6, Zenon
  <1>10. arrived' \subseteq Msgs /\ context' = snap'.context
    BY <1>1, <1>2, <1>7, Zenon
  <1> QED
    BY <1>4, <1>8, <1>9, <1>10 DEF InboxInv

LEMMA PeekStep ==
  ASSUME InboxInv, Peek
  PROVE  InboxInv'
  <1> DEFINE ms == Only(Pending, Injectable \ cancelled)
             R == InjectedRecords(ms)
             z == [inbox |-> Except(snap.inbox, Range(ms)), context |-> snap.context \o <<>>]
  <1>1. /\ log' = log \o R /\ snap' = [snap EXCEPT !.inbox = Except(@, Range(ms))]
        /\ disk' = disk /\ context' = context
        /\ buffer' = Except(Pending, cancelled \cup Injectable) /\ queue' = <<>> /\ cancelled' = {}
        /\ arrived' = arrived /\ revoked' = revoked
    BY Zenon DEF Peek, Journal, Skipped, Held, InjectedRecords
  <1>2. /\ arrived \subseteq Msgs /\ context = snap.context /\ snap \in Snapshots
        /\ JournalAgrees(disk, log, snap, arrived, revoked)
        /\ QueueAgrees(Pending, cancelled, snap.inbox, arrived)
    BY DEF InboxInv, JournalAgrees
  <1>3. /\ ms \in Seq(Msgs) /\ Range(ms) \subseteq Range(snap.inbox)
        /\ QueueAgrees(Except(Pending, cancelled \cup Injectable), {}, Except(snap.inbox, Range(ms)), arrived)
    BY <1>2, EntriesAreInjected
  <1> HIDE DEF ms
  <1>4. Moves(snap, R, ms, <<>>)
    BY <1>2, <1>3, InjectMoves
  <1> HIDE DEF R
  <1>5. JournalAgrees(disk, log \o R, z, arrived, revoked)
    BY <1>2, <1>3, <1>4, MovesAreWritten
  <1>6. snap' = z /\ snap'.inbox = Except(snap.inbox, Range(ms)) /\ snap'.context = snap.context
    <2>1. \A x : [snap EXCEPT !.inbox = x] = [inbox |-> x, context |-> snap.context]
      BY <1>2 DEF Snapshots
    <2>2. snap' = [inbox |-> Except(snap.inbox, Range(ms)), context |-> snap.context]
      BY <1>1, <2>1, Zenon
    <2>3. snap.context \o <<>> = snap.context
      BY <1>2 DEF Snapshots
    <2> QED
      BY <2>2, <2>3
  <1>7. Pending' = Except(Pending, cancelled \cup Injectable) /\ buffer' \in Seq(Msgs \cup {SHUTDOWN})
    <2>1. buffer' \in Seq(Msgs \cup {SHUTDOWN})
      BY <1>1, <1>3, Zenon DEF QueueAgrees
    <2>2. buffer' \o <<>> = buffer'
      BY <2>1
    <2> QED
      BY <1>1, <2>1, <2>2, Zenon DEF Pending
  <1>8. QueueAgrees(Pending', cancelled', snap'.inbox, arrived')
    BY <1>1, <1>3, <1>6, <1>7, Zenon
  <1>9. JournalAgrees(disk', log', snap', arrived', revoked')
    BY <1>1, <1>5, <1>6, Zenon
  <1>10. arrived' \subseteq Msgs /\ context' = snap'.context
    BY <1>1, <1>2, <1>6, Zenon
  <1>11. queue' \in Seq(Msgs \cup {SHUTDOWN})
    BY <1>1
  <1> QED
    BY <1>7, <1>8, <1>9, <1>10, <1>11 DEF InboxInv

LEMMA RunBodyStep ==
  ASSUME InboxInv, RunBody
  PROVE  InboxInv'
  <1>1. UNCHANGED <<queue, buffer, cancelled, arrived, revoked>> /\ Pending' = Pending
    BY DEF RunBody, Pending
  <1>2. CASE FlushContext
    <2>1. /\ log' = log \o <<Cleared>> /\ snap' = [snap EXCEPT !.context = <<>>] /\ disk' = disk
          /\ context' = <<>>
      BY <1>2 DEF FlushContext, Journal
    <2>2. JournalAgrees(disk, log \o <<Cleared>>, [snap EXCEPT !.context = <<>>], arrived, revoked)
      BY ClearIsWritten DEF InboxInv
    <2>3. snap'.inbox = snap.inbox /\ snap'.context = <<>>
      <3>1. snap \in Snapshots
        BY DEF InboxInv, JournalAgrees
      <3> QED
        BY <2>1, <3>1 DEF Snapshots
    <2>4. JournalAgrees(disk', log', snap', arrived', revoked')
      BY <1>1, <2>1, <2>2, Zenon
    <2> QED
      BY <1>1, <2>1, <2>3, <2>4 DEF InboxInv
  <1>3. CASE UNCHANGED <<context, taken, journalVars>>
    BY <1>1, <1>3 DEF InboxInv, journalVars
  <1> QED
    BY <1>2, <1>3 DEF RunBody

LEMMA InstallStep ==
  ASSUME InboxInv, NEW t \in Landings(disk, log) \cup {Empty}, Install(t), disk' = t,
         buffer' = <<>>, cancelled' = {}, arrived' = arrived,
         revoked' \subseteq revoked, revoked' \cap Range(t.inbox) = {}
  PROVE  InboxInv'
  <1>1. snap' = t /\ queue' = t.inbox /\ context' = t.context /\ log' = <<>>
    BY DEF Install
  <1>2. /\ JournalAgrees(t, <<>>, t, arrived, revoked')
        /\ t \in Snapshots /\ Distinct(t.inbox) /\ Range(t.inbox) \subseteq arrived
    BY SnapshotIsInstalled DEF InboxInv
  <1>3. t.inbox \in Seq(Msgs)
    BY <1>2 DEF Snapshots
  <1>4. QueueAgrees(t.inbox, {}, t.inbox, arrived)
    BY <1>2, <1>3, InboxIsInstalled
  <1>5. Pending' = t.inbox /\ queue' \in Seq(Msgs \cup {SHUTDOWN}) /\ buffer' \in Seq(Msgs \cup {SHUTDOWN})
    <2>1. t.inbox \in Seq(Msgs \cup {SHUTDOWN}) /\ <<>> \o t.inbox = t.inbox
      BY <1>3
    <2> QED
      BY <1>1, <2>1 DEF Pending
  <1>6. JournalAgrees(disk', log', snap', arrived', revoked')
    BY <1>1, <1>2, Zenon
  <1>7. QueueAgrees(Pending', cancelled', snap'.inbox, arrived')
    BY <1>1, <1>4, <1>5, Zenon
  <1> QED
    BY <1>1, <1>5, <1>6, <1>7 DEF InboxInv

LEMMA RestartStep ==
  ASSUME InboxInv, NEW landed \in 0..Len(log), Restart(landed)
  PROVE  InboxInv'
  <1> DEFINE r == ReplayAll(disk, SubSeq(log, 1, landed))
             t == Restored(r)
  <1>1. r \in Landings(disk, log)
    BY DEF Landings
  <1>2. /\ Install(t) /\ disk' = t /\ buffer' = <<>> /\ cancelled' = {} /\ arrived' = arrived
        /\ revoked' = revoked \ Range(r.inbox)
    BY Zenon DEF Restart
  <1> HIDE DEF r
  <1>3. t = Empty \/ t = r
    BY DEF Restored
  <1>4. Range(Empty.inbox) = {}
    BY DEF Empty, Range
  <1> HIDE DEF t
  <1>5. t \in Landings(disk, log) \cup {Empty} /\ revoked' \cap Range(t.inbox) = {}
    BY <1>1, <1>2, <1>3, <1>4
  <1> QED
    BY <1>2, <1>5, InstallStep

LEMMA RewoundStep ==
  ASSUME InboxInv, NEW target \in {Empty, disk}, Rewound(target)
  PROVE  InboxInv'
  <1>1. /\ Install(target) /\ disk' = target /\ buffer' = <<>> /\ cancelled' = {} /\ arrived' = arrived
        /\ revoked' = revoked \ (Range(target.inbox) \cup Range(target.context))
    BY DEF Rewound
  <1>2. disk \in Landings(disk, log)
    BY LastLanding DEF InboxInv, JournalAgrees
  <1>3. target \in Landings(disk, log) \cup {Empty}
    BY <1>2
  <1>4. revoked' \subseteq revoked /\ revoked' \cap Range(target.inbox) = {}
    BY <1>1
  <1> QED
    BY <1>1, <1>3, <1>4, InstallStep

LEMMA PersistStep ==
  ASSUME InboxInv, Persist
  PROVE  InboxInv'
  <1>1. /\ disk' = ReplayAll(disk, log) /\ log' = <<>>
        /\ UNCHANGED <<queue, buffer, cancelled, context, snap, arrived, revoked>>
    BY DEF Persist
  <1>2. /\ disk \in Snapshots /\ log \in Seq(Records) /\ snap = ReplayAll(disk, log)
        /\ revoked \cap Range(snap.inbox) = {}
    BY DEF InboxInv, JournalAgrees
  <1>3. snap \in Landings(disk, log) \cup {Empty}
    BY <1>2, LastLanding
  <1>4. JournalAgrees(snap, <<>>, snap, arrived, revoked)
    BY <1>2, <1>3, SnapshotIsInstalled DEF InboxInv
  <1>5. JournalAgrees(disk', log', snap', arrived', revoked')
    BY <1>1, <1>2, <1>4, Zenon
  <1>6. Pending' = Pending
    BY <1>1 DEF Pending
  <1> QED
    BY <1>1, <1>5, <1>6 DEF InboxInv

LEMMA InboxStep ==
  InboxInv /\ [Next]_vars => InboxInv'
  <1> SUFFICES ASSUME InboxInv, [Next]_vars PROVE InboxInv'
    OBVIOUS
  <1>1. ASSUME UNCHANGED <<queue, buffer, cancelled, context, snap, log, disk, arrived, revoked>>
        PROVE  InboxInv'
    BY <1>1 DEF InboxInv, Pending
  <1>2. CASE UNCHANGED vars
    BY <1>1, <1>2 DEF vars
  <1>3. ASSUME NEW m \in Msgs, Put(m) \/ Request(m) PROVE InboxInv'
    BY <1>3, EnqueueStep DEF Put, Request
  <1>4. ASSUME NEW m \in Msgs, HookStage(m) \/ Cancel(m) PROVE InboxInv'
    BY <1>4, HookStageStep, CancelStep
  <1>5. CASE Shutdown \/ Drain \/ Peek \/ RunBody \/ Persist
    BY <1>5, ShutdownStep, DrainStep, PeekStep, RunBodyStep, PersistStep
  <1>6. CASE Pump \/ StartTurn \/ EndTurn \/ BusReturn
    BY <1>1, <1>6 DEF Pump, StartTurn, EndTurn, BusReturn, journalVars, historyVars
  <1>7. ASSUME NEW landed \in 0..Len(log), Restart(landed) PROVE InboxInv'
    BY <1>7, RestartStep
  <1>8. ASSUME NEW target \in {Empty, disk}, Rewound(target) PROVE InboxInv'
    BY <1>8, RewoundStep
  <1> QED
    BY <1>2, <1>3, <1>4, <1>5, <1>6, <1>7, <1>8, Zenon DEF Next

LEMMA InboxHolds == Spec => []InboxInv
  BY InboxInit, InboxStep, PTL DEF Spec

\* QueueIsJournal: the copies of a session's inbox agree at every moment: what the journal's
\* records rebuild, the journal's own snapshot, and what the buffer and the
\* queue hold and nobody cancelled, in the same order.
THEOREM CopiesAgree == Spec => []QueueIsJournal
  <1>1. InboxInv => QueueIsJournal
    BY DEF InboxInv, QueueIsJournal, QueueAgrees, JournalAgrees, Pending
  <1> QED
    BY <1>1, InboxHolds, PTL

----------------------------------------------------------------------------
(* Types.                                                                   *)

ControlInv ==
  /\ driver \in Drivers /\ bus \in {"idle", "pumping"}
  /\ pc \in {"parked", "draining", "dispatched", "turn", "router", "stopped"}
  /\ turn \in Msgs \cup {NONE}
  /\ (turn = NONE) = (pc \in {"parked", "draining", "stopped"})
  /\ taken \in [Msgs -> Nat]

\* What stops a drain and is not the sentinel is a message nobody cancelled,
\* which the journal holds.
LEMMA DrainStopsAtMessage ==
  ASSUME InboxInv, Pending # <<>>, NEW last, last = Pending[ReadSize], StopsDrain(last), last # SHUTDOWN
  PROVE  last \in Msgs \ (RideAlongs \cup cancelled) /\ last \in Range(snap.inbox)
  <1> DEFINE S == Msgs \cup {SHUTDOWN}
  <1>1. Pending \in Seq(S) /\ QueueAgrees(Pending, cancelled, snap.inbox, arrived)
    BY DEF InboxInv, QueueAgrees
  <1>2. ReadSize \in 1..Len(Pending)
    BY <1>1, ReadStops
  <1>3. last \in Range(Pending) /\ last \in S
    <2>1. ReadSize \in DOMAIN Pending /\ Pending[ReadSize] \in S
      BY <1>1, <1>2
    <2> HIDE DEF S
    <2> QED
      BY <2>1 DEF Range
  <1>4. last \notin RideAlongs \cup cancelled
    BY DEF StopsDrain, Skipped
  <1>5. Range(snap.inbox) = Range(Pending) \ (cancelled \cup {SHUTDOWN})
    BY <1>1, AgreedRange
  <1> QED
    BY <1>3, <1>4, <1>5

LEMMA ControlStep ==
  InboxInv /\ ControlInv /\ [Next]_vars => ControlInv'
  <1> SUFFICES ASSUME InboxInv, ControlInv, [Next]_vars PROVE ControlInv'
    OBVIOUS
  <1> USE DEF ControlInv
  <1>0. NONE \notin Msgs
    BY InboxAssumption
  <1>1. CASE UNCHANGED <<driver, bus, pc, turn, taken>>
    BY <1>1
  <1>2. CASE UNCHANGED vars
    BY <1>1, <1>2 DEF vars
  <1>3. ASSUME NEW m \in Msgs, Put(m) \/ Request(m) \/ HookStage(m) \/ Cancel(m) PROVE ControlInv'
    BY <1>3 DEF Put, Request, HookStage, Cancel, boundVars
  <1>4. CASE Shutdown \/ Persist
    BY <1>1, <1>4 DEF Shutdown, Persist, boundVars, historyVars
  <1>5. CASE Drain
    <2> DEFINE last == Pending[ReadSize]
    <2>1. UNCHANGED <<driver, bus>> /\ pc = "draining" /\ turn = NONE /\ Pending # <<>>
      BY <1>5, Zenon DEF Drain, boundVars
    <2>2. CASE last = SHUTDOWN
      <3>1. pc' = "stopped" /\ UNCHANGED <<turn, taken>>
        BY <1>5, <2>2, Zenon DEF Drain
      <3> QED
        BY <2>1, <3>1
    <2>3. CASE last # SHUTDOWN /\ StopsDrain(last)
      <3>1. pc' = "dispatched" /\ turn' = last /\ taken' = [taken EXCEPT ![last] = @ + 1]
        BY <1>5, <2>3, Zenon DEF Drain
      <3>2. last \in Msgs
        BY <2>1, <2>3, DrainStopsAtMessage
      <3> HIDE DEF last
      <3> QED
        BY <1>0, <2>1, <3>1, <3>2
    <2>4. CASE last # SHUTDOWN /\ ~StopsDrain(last)
      <3>1. UNCHANGED <<pc, turn, taken>>
        BY <1>5, <2>4, Zenon DEF Drain
      <3> QED
        BY <2>1, <3>1
    <2> QED
      BY <2>2, <2>3, <2>4
  <1>6. CASE Pump \/ StartTurn \/ EndTurn \/ BusReturn
    BY <1>6 DEF Pump, StartTurn, EndTurn, BusReturn, Idle, boundVars, historyVars
  <1>7. ASSUME NEW R, taken' = [m \in Msgs |-> taken[m] + IF m \in R THEN 1 ELSE 0]
        PROVE  taken' \in [Msgs -> Nat]
    BY <1>7
  <1>8. CASE RunBody
    BY <1>7, <1>8 DEF RunBody, FlushContext, boundVars
  <1>9. CASE Peek
    BY <1>7, <1>9 DEF Peek, boundVars
  <1>10. ASSUME NEW landed \in 0..Len(log), Restart(landed) PROVE ControlInv'
    BY <1>10 DEF Restart, Idle
  <1>11. ASSUME NEW target \in {Empty, disk}, Rewound(target) PROVE ControlInv'
    BY <1>11 DEF Rewound
  <1> QED
    BY <1>2, <1>3, <1>4, <1>5, <1>6, <1>8, <1>9, <1>10, <1>11, Zenon DEF Next

LEMMA BothHold == Spec => [](InboxInv /\ ControlInv)
  <1>1. Init => ControlInv
    BY DEF Init, Idle, ControlInv
  <1> QED
    BY <1>1, ControlStep, InboxHolds, PTL DEF Spec

\* Every variable keeps its type.
THEOREM TypeCorrect == Spec => []TypeOK
  <1>1. InboxInv /\ ControlInv => TypeOK
    <2> SUFFICES ASSUME InboxInv, ControlInv PROVE TypeOK
      OBVIOUS
    <2>1. snap \in Snapshots /\ disk \in Snapshots /\ revoked \subseteq arrived
      BY DEF InboxInv, JournalAgrees
    <2>2. context \in Seq(Msgs)
      BY <2>1 DEF InboxInv, Snapshots
    <2>3. cancelled \subseteq Msgs
      BY DEF InboxInv, QueueAgrees
    <2> QED
      BY <2>1, <2>2, <2>3 DEF InboxInv, ControlInv, TypeOK
  <1> QED
    BY <1>1, BothHold, PTL

----------------------------------------------------------------------------
(* What a step takes to the model.                                          *)

\* Only what the journal still holds is taken.
LEMMA TakenFromJournal ==
  ASSUME InboxInv, ControlInv, [Next]_vars, NEW m \in Msgs, taken'[m] # taken[m]
  PROVE  m \in Range(snap.inbox) \cup Range(snap.context)
  <1>1. ASSUME NEW R, taken' = [x \in Msgs |-> taken[x] + IF x \in R THEN 1 ELSE 0]
        PROVE  m \in R
    BY <1>1 DEF ControlInv
  <1>2. CASE UNCHANGED taken
    BY <1>2
  <1>3. CASE Drain
    <2> DEFINE last == Pending[ReadSize]
    <2>1. Pending # <<>> /\ last # SHUTDOWN /\ StopsDrain(last) /\ taken' = [taken EXCEPT ![last] = @ + 1]
      BY <1>2, <1>3, Zenon DEF Drain
    <2>2. last \in Range(snap.inbox)
      BY <2>1, DrainStopsAtMessage
    <2> HIDE DEF last
    <2>3. m = last
      BY <2>1 DEF ControlInv
    <2> QED
      BY <2>2, <2>3
  <1>4. CASE RunBody
    <2>1. FlushContext
      BY <1>2, <1>4 DEF RunBody
    <2>2. m \in Range(context)
      BY <1>1, <2>1 DEF FlushContext
    <2> QED
      BY <2>2 DEF InboxInv
  <1>5. CASE Peek
    <2> DEFINE ms == Only(Pending, Injectable \ cancelled)
    <2>1. m \in Range(ms)
      BY <1>1, <1>5 DEF Peek, Skipped
    <2>2. Range(ms) \subseteq Range(snap.inbox)
      BY EntriesAreInjected DEF InboxInv
    <2> HIDE DEF ms
    <2> QED
      BY <2>1, <2>2
  <1>6. CASE UNCHANGED vars
    BY <1>2, <1>6 DEF vars
  <1>7. ASSUME NEW x \in Msgs, Put(x) \/ Request(x) \/ HookStage(x) \/ Cancel(x) PROVE UNCHANGED taken
    BY <1>7 DEF Put, Request, HookStage, Cancel
  <1>8. CASE Shutdown \/ Persist \/ Pump \/ StartTurn \/ EndTurn \/ BusReturn
    BY <1>2, <1>8 DEF Shutdown, Persist, Pump, StartTurn, EndTurn, BusReturn, historyVars
  <1>9. ASSUME NEW landed \in 0..Len(log), Restart(landed) PROVE UNCHANGED taken
    BY <1>9 DEF Restart
  <1>10. ASSUME NEW target \in {Empty, disk}, Rewound(target) PROVE UNCHANGED taken
    BY <1>10 DEF Rewound
  <1> QED
    BY <1>2, <1>3, <1>4, <1>5, <1>6, <1>7, <1>8, <1>9, <1>10, Zenon DEF Next

\* RevokedIsFinal: a message whose cancel was acknowledged never reaches the model, unless a
\* restart or a rewind goes back to before the cancel (cancel_queued).
THEOREM CancelIsFinal == Spec => RevokedIsFinal
  <1>1. InboxInv /\ ControlInv /\ [Next]_vars => [\A m \in revoked : taken'[m] = taken[m]]_vars
    <2> SUFFICES ASSUME InboxInv, ControlInv, [Next]_vars, NEW m \in revoked
                 PROVE  taken'[m] = taken[m]
      OBVIOUS
    <2>1. m \notin Range(snap.inbox) /\ m \in Msgs
      BY DEF InboxInv, JournalAgrees
    <2>2. m \notin Range(snap.context)
      <3>1. Sound(snap, arrived, revoked \cup Range(snap.inbox))
        BY JournalIsSound DEF InboxInv
      <3> QED
        BY <3>1 DEF Sound
    <2> QED
      BY <2>1, <2>2, TakenFromJournal
  <1> QED
    BY <1>1, BothHold, PTL DEF Spec, RevokedIsFinal

\* A replay brings in nothing but what its records put or stage.
LEMMA ReplayAddsRecords ==
  ASSUME NEW s \in Snapshots, NEW m \in Msgs, m \notin Range(s.inbox) \cup Range(s.context),
         NEW recs \in Seq(Records),
         \A i \in DOMAIN recs : recs[i] \notin {PutRecord(m), Staged(m)}
  PROVE  LET t == ReplayAll(s, recs) IN m \notin Range(t.inbox) \cup Range(t.context)
  <1> DEFINE Brings(l) == \E i \in DOMAIN l : l[i] \in {PutRecord(m), Staged(m)}
             Holds(t) == m \in Range(t.inbox) \cup Range(t.context)
             T == {l \in Seq(Records) : Holds(ReplayAll(s, l)) => Brings(l)}
  <1>1. <<>> \in T
    BY ReplayNothing
  <1>2. ASSUME NEW l \in Seq(Records), NEW r \in Records, l \in T PROVE Append(l, r) \in T
    <2> DEFINE y == ReplayAll(s, l)
               z == Replay(y, r)
               n == Append(l, r)
    <2>1. n \in Seq(Records) /\ y \in Snapshots /\ ReplayAll(s, n) = z
      BY ReplayAppend
    <2>2. (Brings(l) => Brings(n)) /\ (r \in {PutRecord(m), Staged(m)} => Brings(n))
      <3>1. /\ DOMAIN n = 1..(Len(l) + 1) /\ n[Len(l) + 1] = r /\ Len(l) \in Nat
            /\ \A i \in 1..Len(l) : n[i] = l[i]
            /\ DOMAIN l = 1..Len(l)
        OBVIOUS
      <3> HIDE DEF n
      <3>2. \A i \in 1..Len(l) : i \in DOMAIN n /\ n[i] = l[i]
        BY <3>1
      <3>3. Len(l) + 1 \in DOMAIN n
        BY <3>1
      <3> QED
        BY <3>1, <3>2, <3>3
    <2> HIDE DEF n, y
    <2>3. Holds(y) => Brings(l)
      BY <1>2 DEF y
    <2>4. ASSUME Holds(z), ~Holds(y) PROVE r \in {PutRecord(m), Staged(m)}
      <3> DEFINE i == y.inbox
                 k == y.context
                 x == r.msg
      <3>1. i \in Seq(Msgs) /\ k \in Seq(Msgs) /\ r.op \in {"put", "prune", "stage", "clear"}
            /\ (r.op # "clear" => x \in Msgs)
        BY <2>1 DEF Snapshots, Records
      <3>2. /\ r.op = "put" => z = [inbox |-> Append(i, x), context |-> k]
            /\ r.op = "prune" => z = [inbox |-> Except(i, {x}), context |-> k]
            /\ r.op = "stage" => z = [inbox |-> i, context |-> Append(k, x)]
            /\ r.op = "clear" => z = [inbox |-> i, context |-> <<>>]
        BY <2>1, ReplayType
      <3>3. m \notin Range(i) /\ m \notin Range(k)
        BY <2>4
      <3>4. m \in Range(z.inbox) \cup Range(z.context)
        BY <2>4
      <3>5. r = [op |-> r.op, msg |-> x]
        BY DEF Records
      <3> HIDE DEF i, k, x, z
      <3>6. CASE r.op = "put"
        <4>1. Range(Append(i, x)) = Range(i) \cup {x}
          BY <3>1, <3>6, AppendFacts
        <4>2. x = m
          <5>1. z.inbox = Append(i, x) /\ z.context = k
            BY <3>2, <3>6
          <5> QED
            BY <3>3, <3>4, <4>1, <5>1, Zenon
        <4> QED
          BY <3>5, <3>6, <4>2 DEF PutRecord
      <3>7. CASE r.op = "stage"
        <4>1. Range(Append(k, x)) = Range(k) \cup {x}
          BY <3>1, <3>7, AppendFacts
        <4>2. x = m
          <5>1. z.inbox = i /\ z.context = Append(k, x)
            BY <3>2, <3>7
          <5> QED
            BY <3>3, <3>4, <4>1, <5>1, Zenon
        <4> QED
          BY <3>5, <3>7, <4>2 DEF Staged
      <3>8. CASE r.op = "prune"
        <4>1. Range(Except(i, {x})) = Range(i) \ {x}
          BY <3>1, ExceptRange
        <4>2. z.inbox = Except(i, {x}) /\ z.context = k
          BY <3>2, <3>8
        <4> QED
          BY <3>3, <3>4, <4>1, <4>2, Zenon
      <3>9. CASE r.op = "clear"
        <4>1. z.inbox = i /\ Range(z.context) = {}
          BY <3>2, <3>9 DEF Range
        <4> QED
          BY <3>3, <3>4, <4>1
      <3> QED
        BY <3>1, <3>6, <3>7, <3>8, <3>9
    <2> HIDE DEF Brings, Holds, z
    <2>5. Holds(z) => Brings(n)
      BY <2>2, <2>3, <2>4
    <2> QED
      BY <2>1, <2>5 DEF n
  <1> HIDE DEF T
  <1>3. Seq(Records) \subseteq T
    BY <1>1, <1>2, SequencesByInduction
  <1>4. recs \in T
    BY <1>3
  <1> QED
    BY <1>4 DEF T

\* At least once, and not again once that is durable: what is neither on the
\* disk nor in a record under way is not taken (restore_state, inbox_consume).
THEOREM DurablyOnce == Spec => NotTwiceOnceDurable
  <1>1. InboxInv /\ ControlInv /\ [Next]_vars => [\A m \in Msgs : Gone(m) => taken'[m] = taken[m]]_vars
    <2> SUFFICES ASSUME InboxInv, ControlInv, [Next]_vars, NEW m \in Msgs, Gone(m)
                 PROVE  taken'[m] = taken[m]
      OBVIOUS
    <2>1. disk \in Snapshots /\ log \in Seq(Records) /\ snap = ReplayAll(disk, log)
      BY DEF InboxInv, JournalAgrees
    <2>2. /\ m \notin Range(disk.inbox) \cup Range(disk.context)
          /\ \A i \in DOMAIN log : log[i] \notin {PutRecord(m), Staged(m)}
      BY DEF Gone
    <2>3. m \notin Range(snap.inbox) \cup Range(snap.context)
      BY <2>1, <2>2, ReplayAddsRecords
    <2> QED
      BY <2>3, TakenFromJournal
  <1> QED
    BY <1>1, BothHold, PTL DEF Spec, NotTwiceOnceDurable

----------------------------------------------------------------------------
(* The order of turns.                                                      *)

\* The read ends with the message the turn is about; what comes before it and
\* was not cancelled are ride-alongs.
LEMMA ReadEndsWithTurn ==
  ASSUME InboxInv, Pending # <<>>, NEW last, last = Pending[ReadSize], StopsDrain(last), last # SHUTDOWN
  PROVE  \E e \in Seq(Msgs) :
           /\ Except(Read, cancelled \cup {SHUTDOWN}) = Append(e, last)
           /\ Range(e) \subseteq RideAlongs
  <1> DEFINE S == Msgs \cup {SHUTDOWN}
             g == cancelled \cup {SHUTDOWN}
             r == ReadSize
             q == SubSeq(Pending, 1, r - 1)
             e == Except(q, g)
  <1>1. Pending \in Seq(S)
    BY DEF InboxInv, QueueAgrees
  <1>2. r \in 1..Len(Pending) /\ \A i \in 1..(r - 1) : ~StopsDrain(Pending[i])
    BY <1>1, ReadStops
  <1>3. last \in Msgs /\ last \notin g
    BY DrainStopsAtMessage
  <1> HIDE DEF S, r
  <1>4. /\ q \in Seq(S) /\ Len(q) = r - 1 /\ r - 1 \in Nat
        /\ \A i \in 1..(r - 1) : q[i] = Pending[i]
    BY <1>1, <1>2
  <1>5. Read = Append(q, last)
    <2>1. Read \in Seq(S) /\ Len(Read) = r /\ \A i \in 1..r : Read[i] = Pending[i]
      <3>1. Read = SubSeq(Pending, 1, r)
        BY Zenon DEF Read, r
      <3> QED
        BY <1>1, <1>2, <3>1
    <2>2. last \in S /\ last = Pending[r]
      BY <1>3 DEF S, r
    <2> DEFINE a == Append(q, last)
    <2> HIDE DEF q
    <2>3. a \in Seq(S) /\ Len(a) = r /\ a[r] = last /\ \A i \in 1..(r - 1) : a[i] = q[i]
      BY <1>2, <1>4, <2>2
    <2> HIDE DEF a
    <2>4. \A i \in 1..r : a[i] = Read[i]
      <3>1. \A i \in 1..r : i = r \/ i \in 1..(r - 1)
        BY <1>2
      <3>2. \A i \in 1..(r - 1) : i \in 1..r
        BY <1>2
      <3>3. r \in 1..r
        BY <1>2
      <3> QED
        BY <1>4, <2>1, <2>2, <2>3, <3>1, <3>2, <3>3
    <2>5. a = Read
      BY <2>1, <2>3, <2>4
    <2> QED
      BY <2>5 DEF a
  <1>6. Range(e) \subseteq RideAlongs
    <2> HIDE DEF g
    <2>1. Range(e) = Range(q) \ g
      BY <1>4, ExceptRange
    <2> HIDE DEF q, e
    <2>2. ASSUME NEW x \in Range(q) PROVE x \in RideAlongs \cup g
      <3>1. PICK i \in 1..(r - 1) : x = q[i]
        BY <1>4 DEF Range
      <3>2. ~StopsDrain(x)
        BY <1>2, <1>4, <3>1
      <3> QED
        BY <3>2 DEF StopsDrain, Skipped, g
    <2> QED
      BY <2>1, <2>2
  <1>7. e \in Seq(Msgs)
    <2>1. e \in Seq(S)
      <3> HIDE DEF q, g
      <3> QED
        BY <1>4, ExceptType
    <2>2. Range(e) \subseteq Msgs
      BY <1>6, InboxAssumption
    <2> HIDE DEF e
    <2> QED
      BY <2>1, <2>2, SmallerType
  <1>8. Except(Read, g) = Append(e, last)
    <2> HIDE DEF q, g
    <2>1. last \in S
      BY <1>3 DEF S
    <2>2. Except(Append(q, last), g) = IF last \in g THEN Except(q, g) ELSE Append(Except(q, g), last)
      <3>1. q \in Seq(S)
        BY <1>4
      <3>2. \A x \in S : Except(Append(q, x), g) = IF x \in g THEN Except(q, g)
                                                   ELSE Append(Except(q, g), x)
        BY <3>1, ExceptAppend
      <3> QED
        BY <2>1, <3>2
    <2>3. Except(Append(q, last), g) = Append(e, last)
      <3>1. last \notin g
        BY <1>3
      <3> QED
        BY <2>2, <3>1
    <2> HIDE DEF e
    <2> QED
      BY <1>5, <2>3
  <1> HIDE DEF e
  <1> QED
    BY <1>6, <1>7, <1>8, Zenon DEF g

\* Injection may look past a message, but turns start in arrival order: the
\* message a turn starts with is the first waking one the journal holds, and the
\* ride-alongs before it are staged by then (drain_to_wake).
THEOREM TurnsKeepOrder == Spec => TurnsStartInArrivalOrder
  <1> DEFINE InOrder == pc = "draining" /\ pc' = "dispatched" =>
                          \E i \in DOMAIN snap.inbox :
                            /\ snap.inbox[i] = turn'
                            /\ Range(SubSeq(snap.inbox, 1, i - 1)) \subseteq RideAlongs \cap Range(context')
  <1>1. InboxInv /\ ControlInv /\ [Next]_vars => [InOrder]_vars
    <2> SUFFICES ASSUME InboxInv, ControlInv, [Next]_vars, pc = "draining", pc' = "dispatched"
                 PROVE  \E i \in DOMAIN snap.inbox :
                            /\ snap.inbox[i] = turn'
                            /\ Range(SubSeq(snap.inbox, 1, i - 1)) \subseteq RideAlongs \cap Range(context')
      OBVIOUS
    <2> DEFINE last == Pending[ReadSize]
               ms == Except(Read, cancelled \cup {SHUTDOWN})
               rest == Except(Rest, cancelled \cup {SHUTDOWN})
               rides == Only(ms, RideAlongs)
    <2>1. Drain
      <3>1. ~(UNCHANGED vars)
        BY DEF vars
      <3>2. \A m \in Msgs : ~(Put(m) \/ Request(m) \/ HookStage(m) \/ Cancel(m))
        BY DEF Put, Request, HookStage, Cancel
      <3>3. ~(Shutdown \/ Pump \/ StartTurn \/ RunBody \/ Peek \/ EndTurn \/ BusReturn \/ Persist)
        BY DEF Shutdown, Pump, StartTurn, RunBody, Peek, EndTurn, BusReturn, Persist, Idle
      <3>4. \A landed \in 0..Len(log) : ~Restart(landed)
        BY DEF Restart, Idle
      <3>5. \A target \in {Empty, disk} : ~Rewound(target)
        BY DEF Rewound
      <3> QED
        BY <3>1, <3>2, <3>3, <3>4, <3>5, Zenon DEF Next
    <2>2. /\ Pending # <<>> /\ last # SHUTDOWN /\ StopsDrain(last) /\ turn' = last
          /\ context' = context \o rides
      <3>1. /\ Pending # <<>> /\ context' = context \o rides
            /\ IF last = SHUTDOWN THEN pc' = "stopped"
               ELSE IF StopsDrain(last) THEN turn' = last ELSE UNCHANGED pc
        BY <2>1, Zenon DEF Drain, Skipped
      <3> HIDE DEF last, rides
      <3> QED
        BY <3>1
    <2>3. snap.inbox = ms \o rest
      BY <2>2, DrainReads, Zenon DEF ReadLeaves
    <2>4. PICK e \in Seq(Msgs) : ms = Append(e, last) /\ Range(e) \subseteq RideAlongs
      BY <2>2, ReadEndsWithTurn
    <2>5. last \in Msgs
      BY <2>2, DrainStopsAtMessage
    <2>6. rest \in Seq(Msgs \cup {SHUTDOWN}) /\ snap.inbox \in Seq(Msgs)
      <3>1. Rest \in Seq(Msgs \cup {SHUTDOWN})
        BY <2>2, ReadAndRest, Zenon DEF InboxInv
      <3>2. snap.inbox \in Seq(Msgs)
        BY DEF InboxInv, QueueAgrees
      <3> QED
        BY <3>1, <3>2, ExceptType
    <2> DEFINE n == Len(e)
               k == n + 1
               S == Msgs \cup {SHUTDOWN}
    <2> HIDE DEF last, rest, ms
    <2>7. /\ ms \in Seq(S) /\ Len(ms) = k /\ k \in Nat /\ n \in Nat /\ ms[k] = last
          /\ \A i \in 1..n : ms[i] = e[i]
      BY <2>4, <2>5
    <2> HIDE DEF n
    <2>8. /\ Len(snap.inbox) = k + Len(rest) /\ \A i \in 1..k : snap.inbox[i] = ms[i]
      <3> HIDE DEF S, k
      <3>1. rest \in Seq(S)
        BY <2>6 DEF S
      <3> DEFINE c == ms \o rest
      <3>2. Len(c) = k + Len(rest) /\ \A i \in 1..k : c[i] = ms[i]
        <4>1. ms \in Seq(S) /\ Len(ms) = k /\ k \in Nat
          BY <2>7, Zenon
        <4> QED
          BY <3>1, <4>1
      <3> HIDE DEF c
      <3> QED
        BY <2>3, <3>2 DEF c
    <2>9. k \in DOMAIN snap.inbox /\ snap.inbox[k] = turn' /\ k - 1 = n
      <3>1. Len(rest) \in Nat
        BY <2>6
      <3> QED
        BY <2>2, <2>6, <2>7, <2>8, <3>1
    <2>10. Range(SubSeq(snap.inbox, 1, n)) = Range(e)
      <3> DEFINE x == SubSeq(snap.inbox, 1, n)
      <3>1. Len(rest) \in Nat
        BY <2>6
      <3>2. x \in Seq(Msgs) /\ Len(x) = n /\ \A i \in 1..n : x[i] = snap.inbox[i]
        BY <2>6, <2>7, <2>8, <3>1
      <3>3. \A i \in 1..n : x[i] = e[i]
        <4>1. \A i \in 1..n : i \in 1..k
          BY <2>7
        <4> HIDE DEF x, k
        <4> QED
          BY <2>7, <2>8, <3>2, <4>1
      <3> HIDE DEF x
      <3>4. x = e
        BY <3>2, <3>3 DEF n
      <3> QED
        BY <3>4 DEF x
    <2>11. Range(e) \subseteq Range(context')
      <3>1. context \in Seq(Msgs)
        BY DEF InboxInv, JournalAgrees, Snapshots
      <3>2. ms \in Seq(Msgs) /\ Range(ms) = Range(e) \cup {last}
        BY <2>4, <2>5, AppendFacts
      <3>3. rides \in Seq(Msgs) /\ Range(rides) = Range(ms) \cap RideAlongs
        BY <3>2, OnlyIs
      <3> HIDE DEF rides
      <3>4. Range(context \o rides) = Range(context) \cup Range(rides)
        BY <3>1, <3>3, ConcatFacts
      <3> QED
        BY <2>2, <2>4, <3>2, <3>3, <3>4
    <2> HIDE DEF k
    <2> QED
      BY <2>4, <2>9, <2>10, <2>11
  <1> QED
    BY <1>1, BothHold, PTL DEF Spec, TurnsStartInArrivalOrder
=============================================================================
