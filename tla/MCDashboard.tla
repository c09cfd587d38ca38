----------------------------- MODULE MCDashboard -----------------------------
(* Instances of Dashboard for TLC. *)
EXTENDS Dashboard

CONSTANTS p0, p1, s1, s2, c1, t1, t2 \* model values
=============================================================================
