--------------------------- MODULE PipeRefinement ---------------------------
(***************************************************************************)
(* What becomes of a request in the pipe is what Calls promises.           *)
(***************************************************************************)
EXTENDS Pipe

\* A client that has left is still in a call as long as the service has the
\* instance it opened.
CallOf(c) ==
  IF InCall(c) THEN "open"
  ELSE IF client[c] = "left" /\ inst = c THEN "abandoned"
  ELSE "none"

Abs == INSTANCE Calls WITH
  call <- [c \in Clients |-> CallOf(c)],
  made <- runs,
  brief <- unsaved,
  result <- told,
  broken <- cut

(***************************************************************************)
(* Whatever the timeouts, the clients and the service do, a change is made *)
(* for a call at most once, before the call returns and never by a service *)
(* that started after it, and the client is told so; only a change that    *)
(* could not be stored is in force although its call was rejected.         *)
(***************************************************************************)
ImplementsCalls == Abs!Spec
=============================================================================
