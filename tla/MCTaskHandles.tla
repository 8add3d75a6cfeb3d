--------------------------- MODULE MCTaskHandles ---------------------------
(* Instances of TaskHandles for TLC.                                       *)
EXTENDS TaskHandles

CONSTANTS first, second   \* model values: two tasks

\* A prompt with a task of each kind.
WithAPrompt == {[t \in {first, second} |-> IF t = first THEN "prompt" ELSE other] :
                  other \in Kinds}
=============================================================================
