-------------------------------- MODULE Pipe --------------------------------
(***************************************************************************)
(* Requests on their way to the service: the calls of Request::send        *)
(* (src/common/message.rs) by CLI, tray and dashboard, and the listening   *)
(* loop (src/service/mod.rs), which has one instance of the named pipe at  *)
(* a time, drops it after each client and creates it anew.                 *)
(*                                                                         *)
(* What a request does is left to Service: here it is rejected, or carried *)
(* out, after which it may still fail to be stored.  The timeouts of the   *)
(* service may fire at any time; the client has none.                      *)
(***************************************************************************)
EXTENDS Naturals

CONSTANTS
  Clients,     \* the callers of send
  Outdated,    \* those of another version than the service
  None, Free,  \* no instance of the pipe; one that no client has opened
  MayStop      \* the service may end, at any moment, and start again

ASSUME PipeAssumption ==
  /\ Outdated \subseteq Clients
  /\ {None, Free} \cap Clients = {}
  /\ None \notin {"Ok", "Err", "Version"}
  /\ None # Free
  /\ MayStop \in BOOLEAN

VARIABLES
  srv,     \* where the listening loop is, or "stopped"
  inst,    \* the instance of the pipe: None, Free, or the client that has it
  inbox,   \* whether a request waits in the instance
  res,     \* the response the service is about to send
  client,  \* where each call of send is
  kind,    \* what each call asks for
  reply,   \* the response each call finds in the pipe, if any
  told,    \* what the last call of each client returned
  runs,    \* how often the service has carried out the request of a call
  unsaved, \* whether what was carried out could not be stored
  cut      \* whether the service has ended during a call

server == <<srv, inst, inbox, res>>
calls == <<client, kind, told, cut>>
effect == <<runs, unsaved>>
vars == <<server, calls, reply, effect>>

\* A change, a request that decode does not understand as it is longer than
\* PIPE_BUFFER_SIZE, and the one that is_compatible lets pass.
Kind == {"Change", "Long", "Version"}
Response == {"Ok", "Err", "Version"}

TypeOK ==
  /\ srv \in {"stopped", "boot", "create", "listen", "read", "handle", "answer",
              "close"}
  /\ inst \in Clients \cup {None, Free}
  /\ inbox \in BOOLEAN
  /\ res \in Response
  /\ client \in [Clients -> {"idle", "opened", "wrote", "left"}]
  /\ kind \in [Clients -> Kind]
  /\ reply \in [Clients -> Response \cup {None}]
  /\ told \in [Clients -> {"nothing", "unreachable", "lost", "ok", "rejected", "version"}]
  /\ runs \in [Clients -> Nat]
  /\ unsaved \in [Clients -> BOOLEAN]
  /\ cut \in [Clients -> BOOLEAN]

Init ==
  /\ srv = "stopped" /\ inst = None /\ inbox = FALSE /\ res = "Ok"
  /\ client = [c \in Clients |-> "idle"]
  /\ kind = [c \in Clients |-> "Change"]
  /\ reply = [c \in Clients |-> None]
  /\ told = [c \in Clients |-> "nothing"]
  /\ runs = [c \in Clients |-> 0]
  /\ unsaved = [c \in Clients |-> FALSE]
  /\ cut = [c \in Clients |-> FALSE]

InCall(c) == client[c] \in {"opened", "wrote"}

-----------------------------------------------------------------------------
(* A call of send. *)

\* Neither a missing instance nor one another client has is waited for.  A
\* client that left starts anew when the service is done with its instance.
Call(c, k) ==
  /\ ~InCall(c) /\ inst # c
  /\ kind' = [kind EXCEPT ![c] = k]
  /\ reply' = [reply EXCEPT ![c] = None]
  /\ runs' = [runs EXCEPT ![c] = 0]
  /\ unsaved' = [unsaved EXCEPT ![c] = FALSE]
  /\ cut' = [cut EXCEPT ![c] = FALSE]
  /\ IF inst = Free
     THEN /\ inst' = c
          /\ client' = [client EXCEPT ![c] = "opened"]
          /\ told' = [told EXCEPT ![c] = "nothing"]
     ELSE /\ client' = [client EXCEPT ![c] = "idle"]
          /\ told' = [told EXCEPT ![c] = "unreachable"]
          /\ UNCHANGED inst
  /\ UNCHANGED <<srv, inbox, res>>

Return(c, what) ==
  /\ client' = [client EXCEPT ![c] = "idle"]
  /\ told' = [told EXCEPT ![c] = what]

\* Fails if the service has dropped the instance in the meantime.
Write(c) ==
  /\ client[c] = "opened"
  /\ IF inst = c
     THEN /\ inbox' = TRUE
          /\ client' = [client EXCEPT ![c] = "wrote"]
          /\ UNCHANGED told
     ELSE Return(c, "lost") /\ UNCHANGED inbox
  /\ UNCHANGED <<srv, inst, res, kind, reply, effect, cut>>

\* Bug: the response is passed on as it is.
OutcomeRaw(r) == r

\* Bug: a closed pipe counts as success.
OutcomeOptimistic(r) == IF r = "Err" THEN "rejected" ELSE "ok"

\* What the command makes of the response; no response does not decode.
Outcome(r) ==
  CASE r = "Ok" -> "ok"
    [] r = "Err" -> "rejected"
    [] r = "Version" -> "version"
    [] OTHER -> "lost"

\* Bug: the client does not wait for the service to drop the instance.
ReadForAWhile(c) ==
  /\ client[c] = "wrote"
  /\ Return(c, Outcome(reply[c]))
  /\ UNCHANGED <<server, kind, reply, effect, cut>>

\* read_to_end ends when the service has dropped the instance, and only then.
ReadToEnd(c) ==
  /\ client[c] = "wrote" /\ inst # c
  /\ Return(c, Outcome(reply[c]))
  /\ UNCHANGED <<server, kind, reply, effect, cut>>

\* The client's process ends.
Leave(c) ==
  /\ InCall(c)
  /\ client' = [client EXCEPT ![c] = "left"]
  /\ UNCHANGED <<server, kind, told, cut, reply, effect>>

-----------------------------------------------------------------------------
(* The listening loop. *)

At(from, to) == srv = from /\ srv' = to

Boot == At("boot", "create") /\ UNCHANGED <<inst, inbox, res, calls, reply, effect>>

CreatePipe ==
  /\ At("create", "listen")
  /\ inst' = Free
  /\ UNCHANGED <<inbox, res, calls, reply, effect>>

Connect ==
  /\ At("listen", "read")
  /\ inst # Free
  /\ UNCHANGED <<inst, inbox, res, calls, reply, effect>>

\* Also a client that connects at the last moment is dropped.
ConnectTimeout == At("listen", "close") /\ UNCHANGED <<inst, inbox, res, calls, reply, effect>>

IsCompatible(c) == kind[c] = "Version" \/ c \notin Outdated

ReadRequest ==
  /\ srv = "read" /\ inbox
  /\ inbox' = FALSE
  /\ CASE kind[inst] = "Long" -> srv' = "close" /\ UNCHANGED res
       [] kind[inst] # "Long" /\ ~IsCompatible(inst) -> srv' = "answer" /\ res' = "Err"
       [] OTHER -> srv' = "handle" /\ UNCHANGED res
  /\ UNCHANGED <<inst, calls, reply, effect>>

\* Bug: the read has no timeout.
ReadUntilGone ==
  /\ At("read", "close")
  /\ ~inbox /\ client[inst] = "left"
  /\ UNCHANGED <<inst, inbox, res, calls, reply, effect>>

\* The client has left, or has not written for PIPE_TIMEOUT.
ReadNothing ==
  /\ At("read", "close")
  /\ ~inbox
  /\ UNCHANGED <<inst, inbox, res, calls, reply, effect>>

\* A change that passes validation is in force before it is stored.  If store
\* fails the client is told of an error and the change stays in force.
HandleMessage ==
  /\ At("handle", "answer")
  /\ \/ kind[inst] = "Version" /\ res' = "Version" /\ UNCHANGED effect
     \/ kind[inst] # "Version" /\ res' = "Err" /\ UNCHANGED effect
     \/ /\ kind[inst] # "Version"
        /\ runs' = [runs EXCEPT ![inst] = @ + 1]
        /\ \E stored \in BOOLEAN :
             /\ res' = IF stored THEN "Ok" ELSE "Err"
             /\ unsaved' = [unsaved EXCEPT ![inst] = ~stored]
  /\ UNCHANGED <<inst, inbox, calls, reply>>

\* Bug: a request whose client has gone is carried out again.
SendResponseAgain ==
  /\ srv = "answer"
  /\ IF client[inst] = "left"
     THEN srv' = "handle" /\ UNCHANGED reply
     ELSE srv' = "close" /\ reply' = [reply EXCEPT ![inst] = res]
  /\ UNCHANGED <<inst, inbox, res, calls, effect>>

\* A client that has left does not matter: the failure is only logged.
SendResponse ==
  /\ At("answer", "close")
  /\ reply' = [reply EXCEPT ![inst] = IF client[inst] = "left" THEN @ ELSE res]
  /\ UNCHANGED <<inst, inbox, res, calls, effect>>

\* Bug: the instance is kept for the next client.
KeepPipe == At("close", "listen") /\ inbox' = FALSE /\ UNCHANGED <<inst, res, calls, reply, effect>>

\* The instance is dropped; what the client has not read stays readable.
DropPipe ==
  /\ At("close", "create")
  /\ inst' = None
  /\ inbox' = FALSE
  /\ UNCHANGED <<res, calls, reply, effect>>

-----------------------------------------------------------------------------
(* The service. *)

\* Running is reported at once, the pipe comes after the delay of Boot.
Start ==
  /\ srv = "stopped"
  /\ srv' \in {"boot", "create"}
  /\ UNCHANGED <<inst, inbox, res, calls, reply, effect>>

Stop ==
  /\ MayStop
  /\ srv # "stopped"
  /\ srv' = "stopped"
  /\ inst' = None
  /\ inbox' = FALSE
  /\ cut' = [c \in Clients |-> cut[c] \/ InCall(c)]
  /\ UNCHANGED <<res, client, kind, told, reply, effect>>

PromptStep ==
  \/ Boot \/ CreatePipe \/ Connect \/ ConnectTimeout \/ ReadRequest \/ ReadNothing
  \/ SendResponse \/ DropPipe

ServerStep == PromptStep \/ HandleMessage

Next ==
  \/ \E c \in Clients :
       \/ \E k \in Kind : Call(c, k)
       \/ Write(c) \/ ReadToEnd(c) \/ Leave(c)
  \/ ServerStep
  \/ Start
  \/ Stop

Spec == Init /\ [][Next]_vars

\* The listening loop goes on; no client need do anything.  handle_message is
\* left out: it waits without a timeout for DuckDNS in a forced update, and for
\* the update loop, which may itself wait for DuckDNS, when the channel is full.
FairServer == WF_vars(PromptStep)

ServerSpec == Spec /\ FairServer

-----------------------------------------------------------------------------
(* Properties. *)

(***************************************************************************)
(* A request is carried out at most once per call of send, whatever        *)
(* becomes of client, pipe and service in between.                         *)
(***************************************************************************)
AtMostOnce == \A c \in Clients : runs[c] <= 1

(***************************************************************************)
(* What a command reports (client/mod.rs: Ok if the service accepted, Err  *)
(* if it rejected or communication failed) against what was done: Ok means *)
(* that the change was made and stored, and a service that was not reached *)
(* has not made it.  A rejected change may be in force, but only if it     *)
(* could not be stored, and one for which no response came only if the     *)
(* service has ended during the call.  Nothing that a client of another    *)
(* version asks for is made.                                               *)
(***************************************************************************)
ToldTheTruth ==
  \A c \in Clients :
    /\ told[c] = "ok" => runs[c] = 1 /\ ~unsaved[c]
    /\ told[c] \in {"unreachable", "version"} => runs[c] = 0
    /\ told[c] = "rejected" /\ runs[c] # 0 => unsaved[c]
    /\ told[c] = "lost" /\ runs[c] # 0 => cut[c]
    /\ c \in Outdated => runs[c] = 0

\* No request keeps the service for ever: neither DuckDNS, in a forced update,
\* nor an update loop that waits for DuckDNS while the channel is full.
RequestsEnd == []<>(srv # "handle")

(***************************************************************************)
(* If no request keeps it for ever, the listening loop always comes back   *)
(* to create a new instance: a client that has opened the pipe and stays   *)
(* silent, or leaves, does not keep it from the others.                    *)
(***************************************************************************)
ServesAgain == RequestsEnd => []<>(srv \in {"stopped", "create"})

(***************************************************************************)
(* A call of send returns, although it waits without a timeout for the     *)
(* service to drop the instance: unless a request keeps the service for    *)
(* ever, whoever goes on writing and reading is answered or cut off in the *)
(* end, whatever the other clients do or leave undone.                     *)
(***************************************************************************)
CallReturns ==
  \A c \in Clients :
    WF_vars(Write(c)) /\ WF_vars(ReadToEnd(c)) /\ RequestsEnd =>
      (InCall(c) ~> ~InCall(c))
=============================================================================
