-------------------------- MODULE MCServiceControl --------------------------
(* Instances of ServiceControl for TLC. *)
EXTENDS ServiceControl

CONSTANTS c1, c2, t1 \* model values
=============================================================================
