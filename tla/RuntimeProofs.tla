--------------------------- MODULE RuntimeProofs ---------------------------
(* Theorems about Runtime, for any number of worker threads. *)
EXTENDS Runtime, FiniteSetTheorems, TLAPS

(***************************************************************************)
(* At any time there are finitely many polled tasks, and a task that stops *)
(* being polled, or one more for which there is a worker, leaves no more   *)
(* of them than workers.                                                   *)
(***************************************************************************)
LEMMA PolledFinite == IsFiniteSet(Polled)
<1>1. IsFiniteSet({}) /\ Tasks = (({} \cup {"update"}) \cup {"listen"}) \cup {"shutdown"}
  BY FS_EmptySet DEF Tasks
<1>2. IsFiniteSet(Tasks)
  BY <1>1, FS_AddElement
<1> QED BY <1>2, FS_Subset DEF Polled

LEMMA FewerPolled ==
  ASSUME TypeOK, Polled' \subseteq Polled
  PROVE  Cardinality(Polled)' <= Workers
<1>1. /\ IsFiniteSet(Polled') /\ Cardinality(Polled) \in Nat
      /\ Cardinality(Polled') \in Nat /\ Cardinality(Polled') <= Cardinality(Polled)
  BY PolledFinite, FS_Subset, FS_CardinalityType
<1> QED BY <1>1, RuntimeAssumption DEF TypeOK

LEMMA OneMorePolled ==
  ASSUME NEW t \in Tasks, IdleWorker, Polled' = Polled \cup {t}
  PROVE  Cardinality(Polled)' <= Workers
<1>1. /\ Cardinality(Polled) \in Nat
      /\ \/ Cardinality(Polled') = Cardinality(Polled)
         \/ Cardinality(Polled') = Cardinality(Polled) + 1
  BY PolledFinite, FS_AddElement, FS_CardinalityType
<1> QED BY <1>1, RuntimeAssumption DEF IdleWorker

(***************************************************************************)
(* Every variable of Runtime keeps its type, and no more tasks are polled  *)
(* at a time than there are worker threads.                                *)
(***************************************************************************)
THEOREM RuntimeTypeCorrect == Spec => []TypeOK
<1>1. Init => TypeOK
  <2> SUFFICES ASSUME Init PROVE TypeOK
    OBVIOUS
  <2>1. Polled = {}
    BY DEF Init, Polled
  <2>2. Cardinality(Polled) <= Workers
    BY <2>1, FS_EmptySet, RuntimeAssumption
  <2>3. taken \in BOOLEAN
    BY RuntimeAssumption DEF Init
  <2>4. asked \in BOOLEAN /\ tick \in BOOLEAN
    BY DEF Init
  <2>5. /\ phase \in {"run", "stopped", "ended"} /\ client \in {"none", "quick", "force"}
        /\ task \in [Tasks -> {"queued", "polled", "http", "parked", "done"}]
        /\ dead \subseteq Tasks
    BY DEF Init
  <2> QED BY <2>2, <2>3, <2>4, <2>5 DEF TypeOK
<1>2. TypeOK /\ [Next]_vars => TypeOK'
  <2> SUFFICES ASSUME TypeOK, [Next]_vars PROVE TypeOK'
    OBVIOUS
  <2> DEFINE Types == /\ phase \in {"run", "stopped", "ended"}
                      /\ asked \in BOOLEAN /\ tick \in BOOLEAN /\ taken \in BOOLEAN
                      /\ task \in [Tasks -> {"queued", "polled", "http", "parked", "done"}]
                      /\ client \in {"none", "quick", "force"}
                      /\ dead \subseteq Tasks
  <2> SUFFICES Types' /\ Cardinality(Polled)' <= Workers
    BY DEF TypeOK
  <2>0. Types
    BY DEF TypeOK
  <2>1. ASSUME NEW t \in Tasks, Poll(t)
        PROVE  Types' /\ Cardinality(Polled)' <= Workers
    <3>1. Polled' = Polled \cup {t}
      BY <2>0, <2>1 DEF Poll, Becomes, Polled
    <3> QED BY <2>0, <2>1, <3>1, OneMorePolled DEF Poll, Becomes
  <2>2. CASE UpdateStep
    <3>1. "update" \in Tasks
      BY DEF Tasks
    <3>2. Polled' \subseteq Polled
      BY <2>0, <2>2, <3>1
        DEF UpdateStep, BeginUpdate, WaitForTick, FinishUpdate, Request, Becomes, Polled
    <3> QED BY <2>0, <2>2, <3>1, <3>2, FewerPolled
          DEF UpdateStep, BeginUpdate, WaitForTick, FinishUpdate, Request, Becomes
  <2>3. CASE ListenStep
    <3>1. "listen" \in Tasks /\ "update" \in Tasks
      BY DEF Tasks
    <3>2. Polled' \subseteq Polled
      BY <2>0, <2>3, <3>1
        DEF ListenStep, Serve, BeginForce, FinishForce, WaitForClient, Request,
            Becomes, Polled
    <3> QED BY <2>0, <2>3, <3>1, <3>2, FewerPolled
          DEF ListenStep, Serve, BeginForce, FinishForce, WaitForClient, Request, Becomes
  <2>4. CASE ReceiveStop
    <3>1. "shutdown" \in Tasks
      BY DEF Tasks
    <3>2. Polled' \subseteq Polled
      BY <2>0, <2>4, <3>1 DEF ReceiveStop, Becomes, Polled
    <3> QED BY <2>0, <2>4, <3>1, <3>2, FewerPolled DEF ReceiveStop, Becomes
  <2>5. CASE MainStep \/ Stop \/ Call \/ UNCHANGED vars
    <3>1. Polled' \subseteq Polled
      BY <2>5 DEF MainStep, Leave, End, Stop, Call, vars, Polled
    <3> QED BY <2>0, <2>5, <3>1, FewerPolled DEF MainStep, Leave, End, Stop, Call, vars
  <2>6. CASE Tick \/ ClientSeen
    <3>1. "update" \in Tasks /\ "listen" \in Tasks
      BY DEF Tasks
    <3>2. Polled' \subseteq Polled
      BY <2>0, <2>6, <3>1 DEF Tick, ClientSeen, Becomes, Polled
    <3> QED BY <2>0, <2>6, <3>1, <3>2, FewerPolled DEF Tick, ClientSeen, Becomes
  <2> QED BY <2>1, <2>2, <2>3, <2>4, <2>5, <2>6 DEF Next
<1> QED BY <1>1, <1>2, PTL DEF Spec

(***************************************************************************)
(* OnlyStopEnds needs to know which tasks have ended: only the one that    *)
(* waits for the STOP, and only when it has come.                          *)
(***************************************************************************)
EndInv ==
  /\ \A t \in Tasks : task[t] = "done" => t = "shutdown" /\ asked
  /\ OnlyStopEnds

LEMMA NextKeepsEndInv == TypeOK /\ EndInv /\ [Next]_vars => EndInv'
<1> SUFFICES ASSUME TypeOK, EndInv, [Next]_vars PROVE EndInv'
  OBVIOUS
<1> USE DEF TypeOK, EndInv, OnlyStopEnds, Becomes
<1>1. ASSUME NEW t \in Tasks, Poll(t) PROVE EndInv'
  BY <1>1 DEF Poll
<1>2. CASE UpdateStep
  BY <1>2 DEF UpdateStep, BeginUpdate, WaitForTick, FinishUpdate, Request
<1>3. CASE ListenStep
  <2>1. CASE Serve
    <3>1. /\ UNCHANGED <<phase, asked>>
          /\ task' = [task EXCEPT !["listen"] = "parked",
                                  !["update"] = IF @ = "parked" /\ tick' THEN "queued" ELSE @]
      BY <2>1 DEF Serve
    <3>2. \A t \in Tasks : task'[t] = "done" => task[t] = "done"
      BY <3>1
    <3> QED BY <3>1, <3>2
  <2>2. CASE BeginForce \/ FinishForce \/ WaitForClient
    BY <2>2 DEF BeginForce, FinishForce, WaitForClient, Request
  <2> QED BY <1>3, <2>1, <2>2 DEF ListenStep
<1>4. CASE ReceiveStop
  BY <1>4 DEF ReceiveStop
<1>5. CASE MainStep
  BY <1>5 DEF MainStep, Leave, End
<1>6. CASE Stop \/ Tick \/ Call \/ ClientSeen
  BY <1>6 DEF Stop, Tick, Call, ClientSeen
<1>7. CASE UNCHANGED vars
  BY <1>7 DEF vars
<1> QED BY <1>1, <1>2, <1>3, <1>4, <1>5, <1>6, <1>7 DEF Next

(***************************************************************************)
(* Whatever happens in its loops, run_service only reports Stopped when it *)
(* was told to stop, for any number of workers.                            *)
(***************************************************************************)
THEOREM StoppedOnlyWhenAsked == Spec => []OnlyStopEnds
<1>1. Init => EndInv
  BY DEF Init, EndInv, OnlyStopEnds
<1>2. EndInv => OnlyStopEnds
  BY DEF EndInv
<1> QED BY <1>1, <1>2, NextKeepsEndInv, RuntimeTypeCorrect, PTL DEF Spec
=============================================================================
