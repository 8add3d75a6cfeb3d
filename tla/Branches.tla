------------------------------ MODULE Branches ------------------------------
(***************************************************************************)
(* The branch model of core/events/snapshot_generations.py: which entries  *)
(* of an append-only WAL are on the active branch once rewinds (reset      *)
(* records) have been appended to it, and the tree of dead branches the    *)
(* /rewind pickers show.                                                   *)
(*                                                                         *)
(* Nothing is stored but the records themselves: a record (R, N) at number *)
(* R says "continue from N", for everyone or for one session (its scope),  *)
(* and every question is answered by one latest-first pass over the        *)
(* records the asker's scope can see.                                      *)
(***************************************************************************)
EXTENDS Integers, Sequences, FiniteSets

CONSTANTS
  Sessions,      \* the (agent, session id) pairs that may be a scope
  GLOBAL_SCOPE,  \* the scope of a rewind of everything, and of an owner-less query
  MaxHead        \* bound: the length of the WAL

ASSUME ScopesAssumption == GLOBAL_SCOPE \notin Sessions /\ MaxHead \in Nat

VARIABLE wal     \* wal[n] is the entry at number n

Scopes == Sessions \cup {GLOBAL_SCOPE}

Work           == [kind |-> "work"]
Rewound(n, sc) == [kind |-> "rewind", target |-> n, scope |-> sc]

----------------------------------------------------------------------------
(* The branch model, of a log and the scope that asks. *)

\* The records the asker sees, by number.
RewindsFor(log, scope) ==
  {r \in DOMAIN log : log[r].kind = "rewind" /\ log[r].scope \in {GLOBAL_SCOPE, scope}}

Inside(n, gap) == gap.lo < n /\ n < gap.hi

KeepAlways(gaps, r, log) == gaps \cup {[lo |-> log[r].target, hi |-> r]}   \* mutant

\* Latest first: a record that a later one has abandoned is moot; any other
\* abandons what lies between its target and itself.
KeepUnlessMoot(gaps, r, log) ==
  IF \E g \in gaps : Inside(r, g) THEN gaps
                                  ELSE gaps \cup {[lo |-> log[r].target, hi |-> r]}

\* What the records from r on abandon, for every r.
GapsFrom(log, scope) ==
  LET seen == RewindsFor(log, scope)
      From[r \in 1..(Len(log) + 1)] ==
        IF r = Len(log) + 1 THEN {}
        ELSE IF r \in seen THEN KeepUnlessMoot(From[r + 1], r, log)
        ELSE From[r + 1]
  IN From

AbandonedIntervals(log, scope) == GapsFrom(log, scope)[1]

IsActive(log, scope, n) == ~ \E g \in AbandonedIntervals(log, scope) : Inside(n, g)

ActiveSet(log, scope) == {n \in DOMAIN log : IsActive(log, scope, n)}

----------------------------------------------------------------------------
(* The tree of branches: 0 is the active one, a dead one is named by the   *)
(* record that abandoned it.                                               *)

ACTIVE_BRANCH_ID == 0

\* The innermost abandoned interval a number is in.
BranchOf(gaps, n) ==
  LET around == {g \in gaps : Inside(n, g)}
  IN IF around = {} THEN ACTIVE_BRANCH_ID
     ELSE (CHOOSE g \in around : \A f \in around : f.lo <= g.lo).hi

\* list_branches: where a branch leaves its parent, and the parent.
ForkPoint(gaps, b) == (CHOOSE g \in gaps : g.hi = b).lo
Parent(gaps, b)    == BranchOf(gaps, ForkPoint(gaps, b))

\* lineage_predecessor's walk: the branches from one to the active branch, each
\* with the number below which its checkpoints count.
Walk(gaps, target) ==
  LET OneUp(path) ==
        LET here == path[Len(path)]
            up   == Parent(gaps, here.branch)
        IN IF here.branch = ACTIVE_BRANCH_ID \/ \E k \in DOMAIN path : path[k].branch = up
           THEN path
           ELSE Append(path, [branch |-> up, cutoff |-> ForkPoint(gaps, here.branch) + 1])
      After[i \in 0..Cardinality(gaps)] ==
        IF i = 0 THEN <<[branch |-> BranchOf(gaps, target), cutoff |-> target]>>
        ELSE OneUp(After[i - 1])
  IN After[Cardinality(gaps)]

Nearest(numbers) == IF numbers = {} THEN 0 ELSE CHOOSE n \in numbers : \A k \in numbers : k <= n

LineagePredecessorByRange(log, scope, candidates, target) ==              \* mutant
  Nearest({c \in candidates : c < target})

LineagePredecessor(log, scope, candidates, target) ==
  LET gaps == AbandonedIntervals(log, scope)
      path == Walk(gaps, target)
  IN Nearest({c \in candidates : \E k \in DOMAIN path :
                 BranchOf(gaps, c) = path[k].branch /\ c < path[k].cutoff})

----------------------------------------------------------------------------
(* The WAL grows by entries and by reset records. *)

Init == wal = <<>>

AppendWork ==
  /\ Len(wal) < MaxHead
  /\ wal' = Append(wal, Work)

\* checkout: to any number of the log, on whatever branch.
Checkout(n, scope) ==
  /\ Len(wal) < MaxHead
  /\ wal' = Append(wal, Rewound(n, scope))

\* rewind: the Phase-1 undo, along the active branch only.
Rewind(n) == IsActive(wal, GLOBAL_SCOPE, n) /\ Checkout(n, GLOBAL_SCOPE)

Next ==
  \/ AppendWork
  \/ \E n \in DOMAIN wal : Rewind(n) \/ \E scope \in Scopes : Checkout(n, scope)

Spec == Init /\ [][Next]_wal

----------------------------------------------------------------------------
(* Reference: the same history as a tree, by the entry each one continues. *)

Predecessor(log, scope, n) ==
  IF n \in RewindsFor(log, scope) THEN log[n].target ELSE n - 1

\* The numbers on the way from n back to the beginning, n included.
Lineage(log, scope) ==
  LET Up[n \in 0..Len(log)] ==
        IF n = 0 THEN {} ELSE {n} \cup Up[Predecessor(log, scope, n)]
  IN Up

----------------------------------------------------------------------------
(* Correctness. *)

\* is_active: the numbers in no abandoned interval are exactly those one reads
\* going back from the head, jumping at every rewind to its target - through
\* undone, nested and revived rewinds, for every scope.
ActiveIsLineage ==
  \A scope \in Scopes : ActiveSet(wal, scope) = Lineage(wal, scope)[Len(wal)]

Checkpoints == {n \in DOMAIN wal : wal[n] = Work}

\* lineage_predecessor: for a target on the active branch, the nearest checkpoint
\* "the active path one would see if checked out to target" has below the target.
\* On a dead branch nested in another it need not be: the records of that branch
\* that a later rewind made moot no longer count.
ActivePredecessorIsOnLineage ==
  \A scope \in Scopes, n \in Checkpoints : IsActive(wal, scope, n) =>
    LineagePredecessor(wal, scope, Checkpoints, n)
      = Nearest(Checkpoints \cap (Lineage(wal, scope)[n] \ {n}))
=============================================================================
