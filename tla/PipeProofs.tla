----------------------------- MODULE PipeProofs -----------------------------
(* Theorems about Pipe, for every set of clients. *)
EXTENDS PipeRefinement, TLAPS

(***************************************************************************)
(* What makes AtMostOnce and ToldTheTruth inductive: a request waits in an *)
(* instance only until it is read, a client that has the instance has      *)
(* written before the service has read, what the pipe holds for a client   *)
(* agrees with what was done for it, and what was done and is not yet      *)
(* answered is still in the hands of the service -- or the service has     *)
(* ended, which no call whose instance it still has has seen.              *)
(***************************************************************************)
Agrees(r, c) ==
  /\ r = "Ok" <=> runs[c] = 1 /\ ~unsaved[c]
  /\ r = "Version" => runs[c] = 0

HeldInv ==
  /\ inbox => inst \in Clients /\ client[inst] \in {"wrote", "left"}
  /\ srv \in {"read", "handle", "answer"} => inst \in Clients
  /\ srv \in {"handle", "answer"} => ~inbox /\ client[inst] \in {"wrote", "left"}
  /\ inst = None <=> srv \in {"stopped", "boot", "create"}
  /\ srv = "handle" => inst \notin Outdated \/ kind[inst] = "Version"
  /\ srv = "answer" => Agrees(res, inst)

\* The call of one client.
CallInv(c) ==
  /\ runs[c] \in {0, 1}
  /\ unsaved[c] => runs[c] = 1
  /\ inst = c => client[c] # "idle" /\ ~cut[c]
  /\ client[c] # "idle" => told[c] = "nothing"
  /\ client[c] = "opened" => runs[c] = 0
  /\ inst = c /\ (inbox \/ srv \in {"listen", "read", "handle"}) => runs[c] = 0
  /\ inst = c /\ (inbox \/ srv \in {"listen", "read", "handle", "answer"}) => reply[c] = None
  /\ client[c] = "opened" => reply[c] = None
  /\ reply[c] # None => Agrees(reply[c], c)
  /\ client[c] = "wrote" /\ runs[c] = 1 /\ reply[c] = None
       => cut[c] \/ (inst = c /\ srv = "answer")

PipeInv == HeldInv /\ (\A c \in Clients : CallInv(c)) /\ ToldTheTruth

-----------------------------------------------------------------------------
(***************************************************************************)
(* Every variable of Pipe keeps its type.                                  *)
(***************************************************************************)
THEOREM PipeTypeCorrect == Spec => []TypeOK
<1>1. Init => TypeOK
  <2> SUFFICES ASSUME Init PROVE TypeOK
    OBVIOUS
  <2>1. inbox \in BOOLEAN /\ cut \in [Clients -> BOOLEAN]
    BY DEF Init
  <2>2. runs \in [Clients -> Nat]
    BY DEF Init
  <2> QED BY <2>1, <2>2 DEF Init, TypeOK, Kind, Response
<1>2. TypeOK /\ [Next]_vars => TypeOK'
  <2> SUFFICES ASSUME TypeOK, [Next]_vars PROVE TypeOK'
    OBVIOUS
  <2> USE DEF TypeOK, calls, effect, server, At, Return
  <2>1. ASSUME NEW c \in Clients, NEW k \in Kind, Call(c, k) PROVE TypeOK'
    BY <2>1 DEF Call
  <2>2. ASSUME NEW c \in Clients, Write(c) PROVE TypeOK'
    BY <2>2 DEF Write
  <2>3. ASSUME NEW c \in Clients, ReadToEnd(c) PROVE TypeOK'
    <3>1. Outcome(reply[c]) \in {"lost", "ok", "rejected", "version"}
      BY DEF Outcome
    <3> QED BY <2>3, <3>1 DEF ReadToEnd
  <2>4. ASSUME NEW c \in Clients, Leave(c) PROVE TypeOK'
    BY <2>4 DEF Leave
  <2>5. CASE ServerStep
    <3>1. CASE Boot BY <3>1 DEF Boot
    <3>2. CASE CreatePipe BY <3>2 DEF CreatePipe
    <3>3. CASE Connect BY <3>3 DEF Connect
    <3>4. CASE ConnectTimeout BY <3>4 DEF ConnectTimeout
    <3>5. CASE ReadRequest BY <3>5 DEF ReadRequest, Response
    <3>6. CASE ReadNothing BY <3>6 DEF ReadNothing
    <3>7. CASE HandleMessage
      <4>1. runs' \in [Clients -> Nat]
        BY <3>7 DEF HandleMessage
      <4>2. unsaved' \in [Clients -> BOOLEAN]
        BY <3>7 DEF HandleMessage
      <4> QED BY <3>7, <4>1, <4>2 DEF HandleMessage, Response
    <3>8. CASE SendResponse BY <3>8 DEF SendResponse
    <3>9. CASE DropPipe BY <3>9 DEF DropPipe
    <3> QED BY <2>5, <3>1, <3>2, <3>3, <3>4, <3>5, <3>6, <3>7, <3>8, <3>9
          DEF ServerStep, PromptStep
  <2>6. CASE Start BY <2>6 DEF Start
  <2>7. CASE Stop BY <2>7 DEF Stop
  <2>8. CASE UNCHANGED vars BY <2>8 DEF vars
  <2> QED BY <2>1, <2>2, <2>3, <2>4, <2>5, <2>6, <2>7, <2>8 DEF Next
<1> QED BY <1>1, <1>2, PTL DEF Spec

(***************************************************************************)
(* The invariant holds at first and is kept by every step.                 *)
(***************************************************************************)
LEMMA PipeInvInit == Init => PipeInv
BY PipeAssumption
  DEF Init, PipeInv, HeldInv, CallInv, ToldTheTruth, Agrees

(***************************************************************************)
(* A call that begins keeps the invariant.                                 *)
(***************************************************************************)
LEMMA CallKeepsInv ==
  ASSUME TypeOK, PipeInv, NEW c \in Clients, NEW k \in Kind, Call(c, k)
  PROVE  PipeInv'
<1> USE PipeAssumption DEF TypeOK, PipeInv, InCall, Agrees, effect
<1>1. HeldInv'
  BY DEF Call, HeldInv, CallInv
<1>2. ASSUME NEW d \in Clients PROVE CallInv(d)'
  BY DEF Call, HeldInv, CallInv
<1>3. ToldTheTruth'
  BY DEF Call, ToldTheTruth
<1> QED BY <1>1, <1>2, <1>3

(***************************************************************************)
(* So do the other steps of a client.                                      *)
(***************************************************************************)
LEMMA ClientKeepsInv ==
  ASSUME TypeOK, PipeInv, NEW c \in Clients, Write(c) \/ ReadToEnd(c) \/ Leave(c)
  PROVE  PipeInv'
<1> USE PipeAssumption DEF TypeOK, PipeInv, InCall, Return, server, Agrees, effect
<1>1. CASE Write(c)
  <2>1. HeldInv'
    BY <1>1 DEF Write, HeldInv, CallInv
  <2>2. ASSUME NEW d \in Clients PROVE CallInv(d)'
    BY <1>1 DEF Write, HeldInv, CallInv
  <2>3. ToldTheTruth'
    BY <1>1 DEF Write, ToldTheTruth, CallInv
  <2> QED BY <2>1, <2>2, <2>3
<1>2. CASE ReadToEnd(c)
  <2>1. HeldInv'
    BY <1>2 DEF ReadToEnd, HeldInv, CallInv
  <2>2. ASSUME NEW d \in Clients PROVE CallInv(d)'
    BY <1>2 DEF ReadToEnd, HeldInv, CallInv
  <2>3. ToldTheTruth'
    <3>1. /\ Outcome(reply[c]) = "ok" <=> reply[c] = "Ok"
          /\ Outcome(reply[c]) = "lost" <=> reply[c] \notin {"Ok", "Err", "Version"}
          /\ Outcome(reply[c]) # "unreachable"
      BY DEF Outcome
    <3>2. CallInv(c) /\ inst # c /\ client[c] = "wrote"
      BY <1>2 DEF ReadToEnd
    <3>3. Outcome(reply[c]) = "ok" => runs[c] = 1 /\ ~unsaved[c]
      BY <3>1, <3>2 DEF CallInv
    <3>4. Outcome(reply[c]) \in {"unreachable", "version"} => runs[c] = 0
      BY <3>1, <3>2 DEF CallInv, Outcome
    <3>6. Outcome(reply[c]) = "rejected" /\ runs[c] # 0 => unsaved[c]
      BY <3>1, <3>2 DEF CallInv, Outcome
    <3>5. Outcome(reply[c]) = "lost" /\ runs[c] # 0 => cut[c]
      BY <3>1, <3>2 DEF CallInv, Response
    <3> QED BY <1>2, <3>3, <3>4, <3>5, <3>6 DEF ReadToEnd, ToldTheTruth
  <2> QED BY <2>1, <2>2, <2>3
<1>3. CASE Leave(c)
  <2>1. HeldInv'
    BY <1>3 DEF Leave, HeldInv, CallInv
  <2>2. ASSUME NEW d \in Clients PROVE CallInv(d)'
    BY <1>3 DEF Leave, HeldInv, CallInv
  <2>3. ToldTheTruth'
    BY <1>3 DEF Leave, ToldTheTruth
  <2> QED BY <2>1, <2>2, <2>3
<1> QED BY <1>1, <1>2, <1>3

(***************************************************************************)
(* Every step of the listening loop keeps the invariant.                   *)
(***************************************************************************)
LEMMA ServerKeepsInv ==
  ASSUME TypeOK, PipeInv, ServerStep
  PROVE  PipeInv'
<1> USE PipeAssumption
    DEF TypeOK, PipeInv, HeldInv, CallInv, ToldTheTruth, calls, At, Agrees, effect
<1>1. CASE Boot BY <1>1 DEF Boot
<1>2. CASE CreatePipe BY <1>2 DEF CreatePipe
<1>3. CASE Connect BY <1>3 DEF Connect
<1>4. CASE ConnectTimeout BY <1>4 DEF ConnectTimeout
<1>5. CASE ReadRequest
  <2>1. /\ srv = "read" /\ inbox /\ inst \in Clients
        /\ runs[inst] = 0 /\ ~unsaved[inst] /\ client[inst] \in {"wrote", "left"}
        /\ ~inbox' /\ UNCHANGED <<inst, calls, reply, effect>>
    BY <1>5 DEF ReadRequest
  <2>2. \/ srv' = "close" /\ UNCHANGED res
        \/ srv' = "answer" /\ res' = "Err"
        \/ /\ srv' = "handle" /\ UNCHANGED res
           /\ inst \notin Outdated \/ kind[inst] = "Version"
    BY <1>5, <2>1 DEF ReadRequest, IsCompatible, Kind
  <2>3. HeldInv'
    BY <2>1, <2>2
  <2>4. ASSUME NEW c \in Clients PROVE CallInv(c)'
    BY <2>1, <2>2
  <2>5. ToldTheTruth'
    BY <2>1
  <2> QED BY <2>3, <2>4, <2>5
<1>6. CASE ReadNothing BY <1>6 DEF ReadNothing
<1>7. CASE HandleMessage
  <2>1. /\ srv = "handle" /\ srv' = "answer" /\ inst \in Clients /\ ~inbox
        /\ runs[inst] = 0 /\ ~unsaved[inst] /\ ~cut[inst] /\ reply[inst] = None
        /\ client[inst] \in {"wrote", "left"} /\ told[inst] = "nothing"
        /\ UNCHANGED <<inst, inbox, calls, reply>>
    BY <1>7 DEF HandleMessage
  <2>2. ASSUME NEW c \in Clients, c # inst PROVE UNCHANGED <<runs[c], unsaved[c]>>
    BY <1>7, <2>1, <2>2 DEF HandleMessage
  <2>3. \/ res' \in {"Version", "Err"} /\ UNCHANGED effect
        \/ /\ runs'[inst] = 1 /\ inst \notin Outdated
           /\ res' = IF unsaved'[inst] THEN "Err" ELSE "Ok"
    <3>1. CASE res' \in {"Version", "Err"} /\ UNCHANGED effect
      BY <3>1
    <3>2. CASE ~(res' \in {"Version", "Err"} /\ UNCHANGED effect)
      <4>1. /\ kind[inst] # "Version"
            /\ runs' = [runs EXCEPT ![inst] = @ + 1]
        BY <1>7, <3>2 DEF HandleMessage
      <4>2. PICK stored \in BOOLEAN :
              /\ res' = IF stored THEN "Ok" ELSE "Err"
              /\ unsaved' = [unsaved EXCEPT ![inst] = ~stored]
        BY <1>7, <3>2 DEF HandleMessage
      <4>3. runs'[inst] = 1 /\ inst \notin Outdated
        BY <2>1, <4>1
      <4>4. unsaved'[inst] = ~stored
        BY <2>1, <4>2
      <4> QED BY <4>2, <4>3, <4>4
    <3> QED BY <3>1, <3>2
  <2>4. HeldInv'
    <3>1. CASE res' \in {"Version", "Err"} /\ UNCHANGED effect
      BY <2>1, <3>1
    <3>2. CASE runs'[inst] = 1 /\ res' = IF unsaved'[inst] THEN "Err" ELSE "Ok"
      <4>1. Agrees(res, inst)'
        BY <2>1, <3>2
      <4> QED BY <2>1, <4>1
    <3> QED BY <2>3, <3>1, <3>2
  <2>5. ASSUME NEW c \in Clients, c # inst PROVE CallInv(c)'
    BY <2>1, <2>2, <2>5
  <2>6. CallInv(inst)'
    <3>1. runs'[inst] \in {0, 1} /\ (unsaved'[inst] => runs'[inst] = 1)
      BY <2>1, <2>3
    <3> QED BY <2>1, <3>1
  <2>7. ToldTheTruth'
    <3> SUFFICES ASSUME NEW c \in Clients PROVE
          /\ told[c] = "ok" => runs'[c] = 1 /\ ~unsaved'[c]
          /\ told[c] \in {"unreachable", "version"} => runs'[c] = 0
          /\ told[c] = "rejected" /\ runs'[c] # 0 => unsaved'[c]
          /\ told[c] = "lost" /\ runs'[c] # 0 => cut[c]
          /\ c \in Outdated => runs'[c] = 0
      BY <2>1
    <3>1. CASE c = inst BY <2>1, <2>3, <3>1
    <3>2. CASE c # inst BY <2>2, <3>2
    <3> QED BY <3>1, <3>2
  <2> QED BY <2>1, <2>4, <2>5, <2>6, <2>7
<1>8. CASE SendResponse
  <2>1. inst \in Clients /\ ~inbox /\ client[inst] \in {"wrote", "left"}
    BY <1>8 DEF SendResponse
  <2>2. ASSUME NEW c \in Clients, c # inst PROVE CallInv(c)'
    BY <1>8, <2>1, <2>2 DEF SendResponse
  <2>3. CallInv(inst)'
    BY <1>8, <2>1 DEF SendResponse, Response
  <2> QED BY <1>8, <2>1, <2>2, <2>3 DEF SendResponse
<1>9. CASE DropPipe BY <1>9 DEF DropPipe
<1> QED
  BY <1>1, <1>2, <1>3, <1>4, <1>5, <1>6, <1>7, <1>8, <1>9 DEF ServerStep, PromptStep

(***************************************************************************)
(* PipeInv holds in every state.                                           *)
(***************************************************************************)
LEMMA PipeInvariant == Spec => []PipeInv
<1>1. TypeOK /\ PipeInv /\ [Next]_vars => PipeInv'
  <2> SUFFICES ASSUME TypeOK, PipeInv, [Next]_vars PROVE PipeInv'
    OBVIOUS
  <2>1. CASE Start
    BY <2>1 DEF Start, TypeOK, PipeInv, HeldInv, CallInv, ToldTheTruth, calls, effect, Agrees
  <2>2. CASE Stop
    BY <2>2, PipeAssumption
      DEF Stop, TypeOK, PipeInv, HeldInv, CallInv, ToldTheTruth, InCall, effect, Agrees
  <2>3. CASE UNCHANGED vars
    BY <2>3 DEF vars, server, calls, effect, PipeInv, HeldInv, CallInv, ToldTheTruth, Agrees
  <2> QED
    BY <2>1, <2>2, <2>3, CallKeepsInv, ClientKeepsInv, ServerKeepsInv DEF Next
<1> QED BY PipeInvInit, PipeTypeCorrect, <1>1, PTL DEF Spec

(***************************************************************************)
(* A request is carried out at most once per call.                         *)
(***************************************************************************)
THEOREM CarriedOutAtMostOnce == Spec => []AtMostOnce
<1>1. PipeInv => AtMostOnce
  <2> SUFFICES ASSUME PipeInv, NEW c \in Clients PROVE runs[c] <= 1
    BY DEF AtMostOnce
  <2>1. runs[c] = 0 \/ runs[c] = 1
    BY Zenon DEF PipeInv, CallInv
  <2> QED BY <2>1
<1> QED BY PipeInvariant, <1>1, PTL

(***************************************************************************)
(* What a call returns agrees with what the service has done.              *)
(***************************************************************************)
THEOREM CallsAreToldTheTruth == Spec => []ToldTheTruth
<1>1. PipeInv => ToldTheTruth
  BY DEF PipeInv
<1> QED BY PipeInvariant, <1>1, PTL

-----------------------------------------------------------------------------
(* Pipe implements Calls. *)

(***************************************************************************)
(* A step that leaves the callers, the instance they have and the changes  *)
(* alone is none of Calls.                                                 *)
(***************************************************************************)
LEMMA OtherStep ==
  ASSUME UNCHANGED <<inst, client, told, effect, cut>>
  PROVE  UNCHANGED Abs!vars
BY DEF Abs!vars, CallOf, InCall, effect

(***************************************************************************)
(* A call that finds the instance free begins, any other is refused.       *)
(***************************************************************************)
LEMMA CallBegins ==
  ASSUME TypeOK, NEW c \in Clients, NEW k \in Kind, Call(c, k)
  PROVE  Abs!Begin(c)
<1> DEFINE call == [d \in Clients |-> CallOf(d)]
<1>1. call[c] = "none" /\ None # c /\ Free # c
  BY PipeAssumption DEF Call, CallOf
<1>2. CASE inst = Free
  <2>1. CallOf(c)' = "open"
    BY <1>2 DEF Call, CallOf, InCall, TypeOK
  <2>2. ASSUME NEW d \in Clients, d # c PROVE CallOf(d)' = CallOf(d)
    BY <1>2, <2>2, PipeAssumption DEF Call, CallOf, InCall, TypeOK
  <2>3. call' = [call EXCEPT ![c] = "open"]
    BY <2>1, <2>2
  <2> QED BY <1>1, <1>2, <2>3 DEF Call, Abs!Begin
<1>3. CASE inst # Free
  <2>1. ASSUME NEW d \in Clients PROVE CallOf(d)' = CallOf(d)
    BY <1>3 DEF Call, CallOf, InCall, TypeOK
  <2>2. call' = call
    BY <2>1
  <2> QED BY <1>1, <1>3, <2>2 DEF Call, Abs!Begin
<1> QED BY <1>2, <1>3

(***************************************************************************)
(* A call returns when its client has read to the end, and when there is   *)
(* no instance left to write to.                                           *)
(***************************************************************************)
LEMMA CallReturnsTruth ==
  ASSUME TypeOK, PipeInv, NEW c \in Clients, NEW what, Return(c, what),
         InCall(c), UNCHANGED <<inst, effect, cut>>, ToldTheTruth',
         what \in {"ok", "rejected", "version", "lost"}
  PROVE  Abs!Return(c)
<1> DEFINE call == [d \in Clients |-> CallOf(d)]
<1>1. call[c] = "open" /\ CallOf(c)' = "none"
  BY DEF Return, CallOf, InCall, TypeOK
<1>2. ASSUME NEW d \in Clients, d # c PROVE CallOf(d)' = CallOf(d)
  BY <1>2 DEF Return, CallOf, InCall, TypeOK
<1>3. call' = [call EXCEPT ![c] = "none"]
  BY <1>1, <1>2
<1>4. told' = [told EXCEPT ![c] = what] /\ told'[c] = what
  BY DEF Return, TypeOK
<1>5. runs[c] \in {0, 1}
  BY DEF PipeInv, CallInv
<1>6. /\ what = "ok" => runs[c] = 1 /\ ~unsaved[c]
      /\ what = "version" => runs[c] = 0
      /\ what = "rejected" /\ runs[c] # 0 => unsaved[c]
      /\ what = "lost" /\ runs[c] # 0 => cut[c]
  BY <1>4 DEF ToldTheTruth, effect
<1>7. what \in Abs!Truth(c)
  BY <1>5, <1>6 DEF Abs!Truth
<1> QED BY <1>1, <1>3, <1>4, <1>7 DEF Abs!Return, effect

(***************************************************************************)
(* Carrying out a change is Make: the call has not returned, nothing was   *)
(* done for it yet, and the service has been there all the time.           *)
(***************************************************************************)
LEMMA HandleMakes ==
  ASSUME TypeOK, PipeInv, HandleMessage, ~UNCHANGED effect
  PROVE  Abs!Make(inst) /\ inst \in Clients
<1>1. srv = "handle" /\ inst \in Clients /\ client[inst] \in {"wrote", "left"}
  BY DEF HandleMessage, At, PipeInv, HeldInv
<1>2. runs[inst] = 0 /\ ~cut[inst]
  BY <1>1 DEF PipeInv, CallInv
<1>3. CallOf(inst) \in {"open", "abandoned"}
  BY <1>1 DEF CallOf, InCall
<1>4. runs' = [runs EXCEPT ![inst] = 1]
  BY <1>2 DEF HandleMessage, effect
<1>7. \E b \in BOOLEAN : unsaved' = [unsaved EXCEPT ![inst] = b]
  BY DEF HandleMessage, effect
<1>5. UNCHANGED <<inst, client, told, cut>>
  BY DEF HandleMessage, calls
<1>6. [d \in Clients |-> CallOf(d)]' = [d \in Clients |-> CallOf(d)]
  BY <1>5 DEF CallOf, InCall
<1> QED BY <1>1, <1>2, <1>3, <1>4, <1>5, <1>6, <1>7 DEF Abs!Make

(***************************************************************************)
(* When the instance is dropped, the call of a client that has left is     *)
(* over; nobody else notices.                                              *)
(***************************************************************************)
LEMMA DropForgets ==
  ASSUME TypeOK, DropPipe
  PROVE  UNCHANGED Abs!vars \/ \E c \in Clients : Abs!Forget(c)
<1> DEFINE call == [d \in Clients |-> CallOf(d)]
<1>1. inst' = None /\ None \notin Clients /\ UNCHANGED <<client, told, effect, cut>>
  BY PipeAssumption DEF DropPipe, calls
<1>2. ASSUME NEW d \in Clients, ~(inst = d /\ client[d] = "left")
      PROVE  CallOf(d)' = CallOf(d)
  BY <1>1, <1>2 DEF CallOf, InCall
<1>3. CASE inst \in Clients /\ client[inst] = "left"
  <2>1. CallOf(inst) = "abandoned"
    BY <1>3 DEF CallOf, InCall
  <2>2. ASSUME NEW d \in Clients, d = inst PROVE CallOf(d)' = "none"
    BY <1>1, <1>3, <2>2 DEF CallOf, InCall
  <2>3. call' = [call EXCEPT ![inst] = "none"]
    BY <1>2, <1>3, <2>2
  <2> QED BY <1>1, <1>3, <2>1, <2>3 DEF Abs!Forget, effect
<1>4. CASE ~(inst \in Clients /\ client[inst] = "left")
  <2>1. call' = call
    BY <1>2, <1>4
  <2> QED BY <1>1, <2>1 DEF Abs!vars, effect
<1> QED BY <1>3, <1>4

(***************************************************************************)
(* The end of the service is Break.                                        *)
(***************************************************************************)
LEMMA StopBreaks ==
  ASSUME TypeOK, Stop
  PROVE  Abs!Break
<1> DEFINE call == [d \in Clients |-> CallOf(d)]
<1>1. inst' = None /\ None \notin Clients /\ UNCHANGED <<client, told, effect>>
  BY PipeAssumption DEF Stop
<1>2. ASSUME NEW d \in Clients
      PROVE  CallOf(d)' = IF CallOf(d) = "open" THEN "open" ELSE "none"
  BY <1>1 DEF CallOf, InCall
<1>3. \A d \in Clients : InCall(d) <=> CallOf(d) = "open"
  BY DEF CallOf
<1>4. cut' = [d \in Clients |-> cut[d] \/ call[d] = "open"]
  BY <1>3 DEF Stop
<1> QED BY <1>1, <1>2, <1>4 DEF Abs!Break, effect

(***************************************************************************)
(* Every step of Pipe is one of Calls, or none.                            *)
(***************************************************************************)
LEMMA StepCalls ==
  TypeOK /\ PipeInv /\ PipeInv' /\ [Next]_vars => [Abs!Next]_(Abs!vars)
<1> SUFFICES ASSUME TypeOK, PipeInv, PipeInv', [Next]_vars
             PROVE  [Abs!Next]_(Abs!vars)
  OBVIOUS
<1>0. ToldTheTruth'
  BY DEF PipeInv
<1>1. ASSUME NEW c \in Clients, NEW k \in Kind, Call(c, k)
      PROVE  Abs!Next
  BY <1>1, CallBegins DEF Abs!Next
<1>2. ASSUME NEW c \in Clients, Write(c)
      PROVE  [Abs!Next]_(Abs!vars)
  <2>1. CASE inst = c
    <3>1. ASSUME NEW d \in Clients PROVE CallOf(d)' = CallOf(d)
      BY <1>2, <2>1 DEF Write, CallOf, InCall, TypeOK
    <3>2. [d \in Clients |-> CallOf(d)]' = [d \in Clients |-> CallOf(d)]
      BY <3>1
    <3> QED BY <1>2, <2>1, <3>2 DEF Write, Abs!vars, effect
  <2>2. CASE inst # c
    <3>1. Return(c, "lost") /\ InCall(c) /\ UNCHANGED <<inst, effect, cut>>
      BY <1>2, <2>2 DEF Write, InCall
    <3>2. Abs!Return(c)
      BY <1>0, <3>1, CallReturnsTruth
    <3> QED BY <3>2 DEF Abs!Next
  <2> QED BY <2>1, <2>2
<1>3. ASSUME NEW c \in Clients, ReadToEnd(c)
      PROVE  Abs!Next
  <2>1. Outcome(reply[c]) \in {"ok", "rejected", "version", "lost"}
    BY DEF Outcome
  <2>2. Return(c, Outcome(reply[c])) /\ InCall(c) /\ UNCHANGED <<inst, effect, cut>>
    BY <1>3 DEF ReadToEnd, InCall, server
  <2>3. Abs!Return(c)
    BY <1>0, <2>1, <2>2, CallReturnsTruth
  <2> QED BY <2>3 DEF Abs!Next
<1>4. ASSUME NEW c \in Clients, Leave(c)
      PROVE  Abs!Next
  <2> DEFINE call == [d \in Clients |-> CallOf(d)]
  <2>1. call[c] = "open" /\ UNCHANGED <<inst, told, effect, cut>>
    BY <1>4 DEF Leave, server, CallOf
  <2>2. CallOf(c)' \in {"abandoned", "none"}
    BY <1>4, <2>1 DEF Leave, CallOf, InCall, TypeOK
  <2>3. ASSUME NEW d \in Clients, d # c PROVE CallOf(d)' = CallOf(d)
    BY <1>4, <2>1, <2>3 DEF Leave, CallOf, InCall, TypeOK
  <2>4. call' = [call EXCEPT ![c] = CallOf(c)']
    BY <2>3
  <2>5. Abs!Abandon(c)
    BY <2>1, <2>2, <2>4 DEF Abs!Abandon, effect
  <2> QED BY <2>5 DEF Abs!Next
<1>5. CASE ServerStep
  <2>1. CASE Boot BY <2>1, OtherStep DEF Boot, calls
  <2>2. CASE CreatePipe
    <3>1. inst = None /\ inst' = Free /\ {None, Free} \cap Clients = {}
      BY <2>2, PipeAssumption DEF CreatePipe, At, PipeInv, HeldInv
    <3>2. ASSUME NEW d \in Clients PROVE CallOf(d)' = CallOf(d)
      BY <2>2, <3>1 DEF CreatePipe, calls, CallOf, InCall
    <3>3. [d \in Clients |-> CallOf(d)]' = [d \in Clients |-> CallOf(d)]
      BY <3>2
    <3> QED BY <2>2, <3>3 DEF CreatePipe, calls, Abs!vars, effect
  <2>3. CASE Connect BY <2>3, OtherStep DEF Connect, calls
  <2>4. CASE ConnectTimeout BY <2>4, OtherStep DEF ConnectTimeout, calls
  <2>5. CASE ReadRequest BY <2>5, OtherStep DEF ReadRequest, calls
  <2>6. CASE ReadNothing BY <2>6, OtherStep DEF ReadNothing, calls
  <2>7. CASE HandleMessage
    <3>1. CASE UNCHANGED effect
      BY <2>7, <3>1, OtherStep DEF HandleMessage, calls
    <3>2. CASE ~UNCHANGED effect
      BY <2>7, <3>2, HandleMakes DEF Abs!Next
    <3> QED BY <3>1, <3>2
  <2>8. CASE SendResponse BY <2>8, OtherStep DEF SendResponse, calls
  <2>9. CASE DropPipe BY <2>9, DropForgets DEF Abs!Next
  <2> QED BY <1>5, <2>1, <2>2, <2>3, <2>4, <2>5, <2>6, <2>7, <2>8, <2>9
        DEF ServerStep, PromptStep
<1>6. CASE Start BY <1>6, OtherStep DEF Start, calls
<1>7. CASE Stop BY <1>7, StopBreaks DEF Abs!Next
<1>8. CASE UNCHANGED vars BY <1>8, OtherStep DEF vars, server, calls
<1> QED BY <1>1, <1>2, <1>3, <1>4, <1>5, <1>6, <1>7, <1>8 DEF Next

(***************************************************************************)
(* A change is made at most once per call, before the call returns and by  *)
(* the service that was asked, and the client is told so: Pipe implements  *)
(* Calls.                                                                  *)
(***************************************************************************)
THEOREM PipeImplementsCalls == Spec => ImplementsCalls
<1>1. Init => Abs!Init
  BY DEF Init, Abs!Init, CallOf, InCall
<1> QED
  BY <1>1, StepCalls, PipeTypeCorrect, PipeInvariant, PTL
     DEF Spec, ImplementsCalls, Abs!Spec
=============================================================================
