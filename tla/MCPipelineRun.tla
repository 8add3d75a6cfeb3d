--------------------------- MODULE MCPipelineRun ---------------------------
(* Instances of PipelineRun for TLC.                                       *)
EXTENDS PipelineRun

CONSTANTS left, right   \* model values: two items

\* A tool, a fan-out over both items, and a transform behind it.
ToolEachTransform == <<"tool", "each", "transform">>

\* One launch of each kind, with each way to treat a failed item.
FourLaunches ==
  {[attached |-> TRUE,  onError |-> "abort",    onSettle |-> "deliver"],
   [attached |-> FALSE, onError |-> "continue", onSettle |-> "deliver"],
   [attached |-> FALSE, onError |-> "abort",    onSettle |-> "pipeline"],
   [attached |-> FALSE, onError |-> "retry",    onSettle |-> "drop"]}
=============================================================================
