---------------------------- MODULE MCStatusView ----------------------------
(* Instances of StatusView for TLC. *)
EXTENDS StatusView

CONSTANTS d1, timer, button \* model values
=============================================================================
