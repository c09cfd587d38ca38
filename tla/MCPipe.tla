------------------------------- MODULE MCPipe -------------------------------
(* Instances of Pipe for TLC. *)
EXTENDS PipeRefinement

CONSTANTS c1, old \* model values
=============================================================================
