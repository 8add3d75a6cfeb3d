--------------------------- MODULE MCInterventions ---------------------------
(* Instances of Interventions for TLC.                                     *)
EXTENDS Interventions

CONSTANTS first, second   \* model values: two questions

\* Two questions of every two origins, in one of the two orders.
AnyTwo == {m \in [{first, second} -> Origins] :
             <<m[first], m[second]>> \notin
               {<<"child", "turn">>, <<"server", "turn">>, <<"server", "child">>}}
=============================================================================
