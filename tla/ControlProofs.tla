--------------------------- MODULE ControlProofs ---------------------------
(* Theorems about ServiceControl, for any number of consoles and trays. *)
EXTENDS ServiceControl, TLAPS

(***************************************************************************)
(* What makes Doomed and OneRemoval inductive: from its delete to its      *)
(* unregister a removal has the handle that keeps the SCM from purging the *)
(* service, and a service that is marked is neither created, launched nor  *)
(* deleted again.                                                          *)
(***************************************************************************)
ControlInv ==
  /\ \A p \in Procs : Removing(p) => db = "marked" /\ p \in open
  /\ Doomed
  /\ OneRemoval

-----------------------------------------------------------------------------
(***************************************************************************)
(* Every variable of ServiceControl keeps its type.                        *)
(***************************************************************************)
THEOREM ControlTypeCorrect == Spec => []TypeOK
<1>1. Init => TypeOK
  BY DEF Init, TypeOK, Commands, Labels
<1>2. TypeOK /\ [Next]_vars => TypeOK'
  <2> SUFFICES ASSUME TypeOK, [Next]_vars PROVE TypeOK'
    OBVIOUS
  <2> USE DEF TypeOK, Labels, Commands, scm, world, At, Goto, Return
  <2>1. ASSUME NEW p \in Procs, NEW c \in Commands, Begin(p, c) PROVE TypeOK'
    BY <2>1 DEF Begin
  <2>2. ASSUME NEW p \in Procs, CommandStep(p) PROVE TypeOK'
    <3>1. CASE Install(p) \/ Query(p) \/ StopDeleted(p) \/ Unregister(p) \/ Start(p)
      BY <3>1 DEF Install, Query, StopDeleted, Unregister, Start
    <3>2. CASE Delete(p) \/ Create(p) \/ Describe(p)
      BY <3>2 DEF Delete, Create, Describe
    <3>3. CASE Poll(p) \/ AskDelete(p) \/ Wipe(p) \/ AskInstall(p)
      BY <3>3 DEF Poll, AskDelete, Wipe, AskInstall
    <3>4. CASE Launch(p) \/ Verify(p)
      BY <3>4 DEF Launch, Verify, NewTray
    <3>5. CASE Stop(p) \/ Await(p) \/ Confirm(p)
      BY <3>5 DEF Stop, Await, Confirm, Stopped
    <3> QED BY <2>2, <3>1, <3>2, <3>3, <3>4, <3>5 DEF CommandStep
  <2>3. CASE ServiceStep \/ Purge \/ Logon
    BY <2>3 DEF ServiceStep, ServiceUp, ServiceFails, ServiceStops, Purge, Logon, NewTray
  <2>4. CASE UNCHANGED vars
    BY <2>4 DEF vars
  <2> QED BY <2>1, <2>2, <2>3, <2>4 DEF Next
<1> QED BY <1>1, <1>2, PTL DEF Spec

(***************************************************************************)
(* A step of a command keeps the invariant: it disturbs its own handle     *)
(* only, and of those that change what the SCM knows of the service none   *)
(* applies to one that is marked, but for a STOP.                          *)
(***************************************************************************)
LEMMA CommandKeepsInv ==
  ASSUME TypeOK, ControlInv, NEW p \in Procs, CommandStep(p)
  PROVE  ControlInv'
<1> USE DEF TypeOK, ControlInv, Removing, Doomed, OneRemoval, scm, world, At, Goto, Return
<1>1. CASE Install(p) \/ Start(p) \/ Poll(p) \/ AskDelete(p) \/ Wipe(p) \/ AskInstall(p)
  BY <1>1 DEF Install, Start, Poll, AskDelete, Wipe, AskInstall
<1>2. CASE Delete(p)
  BY <1>2 DEF Delete
<1>3. CASE Query(p)
  BY <1>3 DEF Query
<1>4. CASE StopDeleted(p)
  BY <1>4 DEF StopDeleted
<1>5. CASE Unregister(p) \/ Describe(p) \/ Verify(p)
  BY <1>5 DEF Unregister, Describe, Verify
<1>6. CASE Create(p)
  BY <1>6 DEF Create, Exists
<1>7. CASE Launch(p)
  BY <1>7 DEF Launch
<1>8. CASE Stop(p) \/ Await(p) \/ Confirm(p)
  BY <1>8 DEF Stop, Await, Confirm, Stopped
<1> QED BY <1>1, <1>2, <1>3, <1>4, <1>5, <1>6, <1>7, <1>8 DEF CommandStep

(***************************************************************************)
(* So do the beginning of a command, the service, the SCM and the users.   *)
(***************************************************************************)
LEMMA NextKeepsControlInv == TypeOK /\ ControlInv /\ [Next]_vars => ControlInv'
<1> SUFFICES ASSUME TypeOK, ControlInv, [Next]_vars PROVE ControlInv'
  OBVIOUS
<1> USE DEF TypeOK, ControlInv, Removing, Doomed, OneRemoval, scm, world, At
<1>1. ASSUME NEW p \in Procs, NEW c \in Commands, Begin(p, c) PROVE ControlInv'
  BY <1>1 DEF Begin, Commands
<1>2. CASE ServiceStep
  BY <1>2 DEF ServiceStep, ServiceUp, ServiceFails, ServiceStops
<1>3. CASE Purge
  BY <1>3 DEF Purge
<1>4. CASE Logon \/ UNCHANGED vars
  BY <1>4 DEF Logon, vars
<1> QED BY <1>1, <1>2, <1>3, <1>4, CommandKeepsInv DEF Next

(***************************************************************************)
(* From its STOP until it closes its handle a removal has to do with one   *)
(* and the same service, which is stopping, whatever other commands do     *)
(* (service_manager/mod.rs).                                               *)
(***************************************************************************)
THEOREM RemovalKeepsItsService == Spec => []Doomed
<1>1. Init => ControlInv
  BY DEF Init, ControlInv, Removing, Doomed, OneRemoval, At
<1>2. ControlInv => Doomed
  BY DEF ControlInv
<1> QED BY <1>1, <1>2, NextKeepsControlInv, ControlTypeCorrect, PTL DEF Spec

(***************************************************************************)
(* Removals do not overlap: while one has marked the service and not yet   *)
(* closed its handle, any other ends at its delete, so that the service is *)
(* told to stop, and its task unregistered, by one command.                *)
(***************************************************************************)
THEOREM RemovalsDoNotOverlap == Spec => []OneRemoval
<1>1. Init => ControlInv
  BY DEF Init, ControlInv, Removing, Doomed, OneRemoval, At
<1>2. ControlInv => OneRemoval
  BY DEF ControlInv
<1> QED BY <1>1, <1>2, NextKeepsControlInv, ControlTypeCorrect, PTL DEF Spec
=============================================================================
