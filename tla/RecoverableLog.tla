--------------------------- MODULE RecoverableLog ---------------------------
(***************************************************************************)
(* What the durable write path promises the sessions that use it, with no  *)
(* queue, file or sequence number in sight: mutations are accepted in one  *)
(* order, they harden in that order, and a restart finds some first part   *)
(* of what was accepted that has at least all that had hardened.           *)
(***************************************************************************)
EXTENDS Integers

VARIABLES
  accepted,  \* the mutations the sessions' states reflect
  hardened   \* those that survive whatever happens next

Before(m, M) == \A n \in M : m < n

\* P is what M was at some earlier point of its history.
IsFirstPartOf(P, M) == P \subseteq M /\ \A m \in P : Before(m, M \ P)

Init == accepted = {} /\ hardened = {}

\* One new mutation, after all the others.
Accept ==
  /\ accepted \subseteq accepted'
  /\ \E m \in accepted' \ accepted :
       accepted' = accepted \cup {m} /\ \A n \in accepted : n < m
  /\ UNCHANGED hardened

Harden ==
  /\ hardened \subseteq hardened' /\ IsFirstPartOf(hardened', accepted)
  /\ UNCHANGED accepted

\* A restart loses the soft end of what was accepted, or only some of it; what
\* it found is hard by then or will be again.
Recover ==
  /\ IsFirstPartOf(accepted', accepted) /\ hardened \subseteq accepted'
  /\ hardened' \in {hardened, accepted'}

Next == Accept \/ Harden \/ Recover

Spec == Init /\ [][Next]_<<accepted, hardened>>
=============================================================================
