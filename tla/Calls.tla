------------------------------- MODULE Calls -------------------------------
(***************************************************************************)
(* What a client may rely on when it calls send, without saying how the    *)
(* request gets to the service.                                            *)
(*                                                                         *)
(* A call is made at most once and only before it returns.  It may also be *)
(* made after the client has gone, but not by a service that has started   *)
(* anew since.  A call that returns ok was made, to last.  One that is     *)
(* rejected was not made, or not to last: the service could not store it.  *)
(* One that is lost was not made unless the service ended meanwhile.       *)
(***************************************************************************)
EXTENDS Naturals

CONSTANT Clients

VARIABLES
  call,   \* whether each client is in a call, or has abandoned one
  made,   \* how often the change that the last call asks for was made
  brief,  \* whether it was made, but not to last
  result, \* what the last call returned
  broken  \* whether the service has ended during the call

vars == <<call, made, brief, result, broken>>

Init ==
  /\ call = [c \in Clients |-> "none"]
  /\ made = [c \in Clients |-> 0]
  /\ brief = [c \in Clients |-> FALSE]
  /\ result = [c \in Clients |-> "nothing"]
  /\ broken = [c \in Clients |-> FALSE]

Begin(c) ==
  /\ call[c] = "none"
  /\ \/ call' = [call EXCEPT ![c] = "open"] /\ result' = [result EXCEPT ![c] = "nothing"]
     \/ result' = [result EXCEPT ![c] = "unreachable"] /\ UNCHANGED call
  /\ made' = [made EXCEPT ![c] = 0]
  /\ brief' = [brief EXCEPT ![c] = FALSE]
  /\ broken' = [broken EXCEPT ![c] = FALSE]

Make(c) ==
  /\ call[c] \in {"open", "abandoned"}
  /\ made[c] = 0
  /\ ~broken[c]
  /\ made' = [made EXCEPT ![c] = 1]
  /\ \E b \in BOOLEAN : brief' = [brief EXCEPT ![c] = b]
  /\ UNCHANGED <<call, result, broken>>

\* What a call may return.
Truth(c) ==
  IF made[c] = 1
  THEN {IF brief[c] THEN "rejected" ELSE "ok"} \cup (IF broken[c] THEN {"lost"} ELSE {})
  ELSE {"rejected", "version", "lost"}

Return(c) ==
  /\ call[c] = "open"
  /\ call' = [call EXCEPT ![c] = "none"]
  /\ \E r \in Truth(c) : result' = [result EXCEPT ![c] = r]
  /\ UNCHANGED <<made, brief, broken>>

Abandon(c) ==
  /\ call[c] = "open"
  /\ \E next \in {"abandoned", "none"} : call' = [call EXCEPT ![c] = next]
  /\ UNCHANGED <<made, brief, result, broken>>

Forget(c) ==
  /\ call[c] = "abandoned"
  /\ call' = [call EXCEPT ![c] = "none"]
  /\ UNCHANGED <<made, brief, result, broken>>

\* The service ends.
Break ==
  /\ call' = [c \in Clients |-> IF call[c] = "open" THEN "open" ELSE "none"]
  /\ broken' = [c \in Clients |-> broken[c] \/ call[c] = "open"]
  /\ UNCHANGED <<made, brief, result>>

Next ==
  \/ \E c \in Clients : Begin(c) \/ Make(c) \/ Return(c) \/ Abandon(c) \/ Forget(c)
  \/ Break

Spec == Init /\ [][Next]_vars
=============================================================================
