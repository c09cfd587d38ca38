-------------------------- MODULE DashboardProofs --------------------------
(* Theorems about Dashboard, for any commands, trays, ports and settings.  *)
EXTENDS Dashboard, TLAPS

(***************************************************************************)
(* What makes AsksTheRightPort and BothSurvive inductive, in four parts.   *)
(*                                                                         *)
(* While nothing has disturbed the users of the file there is at most one: *)
(* the service, a command, or servers that are coming up.                  *)
(***************************************************************************)
NoCommand == \A c \in Commands : cmd[c] = "idle"

OneUser ==
  /\ svc # "idle" => NoCommand /\ ~Busy
  /\ \A c \in Commands : cmd[c] # "idle" =>
       ~Busy /\ \A d \in Commands \ {c} : cmd[d] = "idle"

(***************************************************************************)
(* What it has opened is empty until it has written it.  What it is about  *)
(* to write has the other's part; what it has written can be read.         *)
(***************************************************************************)
FileInv ==
  /\ IF Writing THEN file = Empty ELSE Whole
  /\ Whole /\ svc = "idle" => file.service = memory.service
  /\ svc = "open" => file.port = memory.port
  /\ \A c \in Commands :
       cmd[c] \in {"open", "write"} =>
         copy[c].service = memory.service /\ copy[c].port = asked[c]
  /\ \A c \in Commands : cmd[c] = "reload" => file.port = asked[c]

(***************************************************************************)
(* The port that is in force is the one announced last, and a command has  *)
(* looked it up before it changes the file.                                *)
(***************************************************************************)
InForce == IF svc = "write" THEN EffectivePort(memory) ELSE EffectivePort(file)

PortInv ==
  /\ NoCommand => announced = InForce
  /\ \A c \in Commands :
       cmd[c] \in {"prompt", "open"} =>
         old[c] = EffectivePort(file) /\ announced = EffectivePort(file)

(***************************************************************************)
(* Every server that is up is at that port; those that come up find it.    *)
(***************************************************************************)
ServerInv ==
  \A t \in Trays :
    /\ server[t] = "serve" =>
         /\ NoCommand => port[t] = InForce
         /\ \A c \in Commands : cmd[c] # "idle" => port[t] = old[c]
    /\ server[t] = "bind" => port[t] = EffectivePort(file)

DashboardInv == ~disturbed => OneUser /\ FileInv /\ PortInv /\ ServerInv

-----------------------------------------------------------------------------
(***************************************************************************)
(* A file that can be read gives a port, and so does any other.            *)
(***************************************************************************)
LEMMA EffectivePortType ==
  ASSUME NEW f \in Config \cup {Empty, Garbled}
  PROVE  EffectivePort(f) \in Ports
BY DashboardAssumption DEF EffectivePort, Config

(***************************************************************************)
(* What a write leaves in the file.                                        *)
(***************************************************************************)
LEMMA WrittenContent ==
  ASSUME NEW c \in Config
  PROVE  /\ Written(c) \subseteq Config \cup {Empty, Garbled}
         /\ file = Empty => Written(c) = {c}
         /\ c \notin {Empty, Garbled}
BY DashboardAssumption DEF Written

(***************************************************************************)
(* Every variable of Dashboard keeps its type.                             *)
(***************************************************************************)
THEOREM DashboardTypeCorrect == Spec => []TypeOK
<1>1. Init => TypeOK
  <2> SUFFICES ASSUME Init PROVE TypeOK
    OBVIOUS
  <2>1. disturbed \in BOOLEAN /\ file \in Config
    BY DEF Init
  <2>2. Default \in Ports
    BY DashboardAssumption
  <2>3. memory \in Config /\ stored \in Config
    BY <2>1 DEF Init
  <2> QED BY <2>1, <2>2, <2>3 DEF Init, TypeOK
<1>2. TypeOK /\ [Next]_vars => TypeOK'
  <2> SUFFICES ASSUME TypeOK, [Next]_vars PROVE TypeOK'
    OBVIOUS
  <2>0. EffectivePort(file) \in Ports
    BY EffectivePortType DEF TypeOK
  <2> USE DEF TypeOK, client, service, web, history, Goto, Leave
  <2>1. ASSUME NEW c \in Commands, NEW p \in Ports, ChangeDashboardPort(c, p)
        PROVE  TypeOK'
    BY <2>0, <2>1 DEF ChangeDashboardPort, BeginsWhile
  <2>2. ASSUME NEW c \in Commands, CommandStep(c) PROVE TypeOK'
    <3>1. CASE Decline(c)
      BY <3>1, DashboardAssumption DEF Decline
    <3>2. CASE ReadConfig(c)
      <4>1. Whole => [file EXCEPT !.port = asked[c]] \in Config \ {Empty}
        BY DashboardAssumption DEF Whole, Config
      <4> QED BY <3>2, <4>1, DashboardAssumption DEF ReadConfig
    <3>3. CASE OpenConfig(c)
      <4>1. copy[c] \in Config
        BY <3>3 DEF OpenConfig
      <4> QED BY <3>3, <4>1 DEF OpenConfig, Open, Overlap
    <3>4. CASE WriteConfig(c)
      <4>1. copy[c] \in Config
        BY <3>4 DEF WriteConfig
      <4> QED BY <3>4, <4>1, WrittenContent DEF WriteConfig
    <3>5. CASE ReloadDashboard(c)
      BY <3>5, DashboardAssumption DEF ReloadDashboard, Reloaded
    <3> QED BY <2>2, <3>1, <3>2, <3>3, <3>4, <3>5 DEF CommandStep
  <2>3. CASE ServiceStart
    BY <2>3 DEF ServiceStart, Whole
  <2>4. CASE HandleChange
    <3>1. memory' \in Config
      BY <2>4 DEF HandleChange, Config
    <3> QED BY <2>4, <3>1 DEF HandleChange, BeginsWhile
  <2>5. CASE StoreOpen
    BY <2>5 DEF StoreOpen, Open, Overlap
  <2>6. CASE StoreWrite
    BY <2>6, WrittenContent DEF StoreWrite
  <2>7. ASSUME NEW t \in Trays, ServerStep(t) PROVE TypeOK'
    BY <2>0, <2>7
      DEF ServerStep, TrayRun, ReadPort, Bind, BindFails, Again, Step, BeginsWhile
  <2>8. CASE UNCHANGED vars
    BY <2>8 DEF vars
  <2> QED BY <2>1, <2>2, <2>3, <2>4, <2>5, <2>6, <2>7, <2>8 DEF Next
<1> QED BY <1>1, <1>2, PTL DEF Spec

-----------------------------------------------------------------------------
(***************************************************************************)
(* At first nobody uses the file, and no port is set in it.                *)
(***************************************************************************)
LEMMA DashboardInvInit == Init => DashboardInv
BY DashboardAssumption
  DEF Init, DashboardInv, OneUser, Busy, NoCommand, FileInv, Writing, Whole,
      PortInv, InForce, EffectivePort, ServerInv, Config

(***************************************************************************)
(* The steps of a command: it begins alone, reads and writes the file      *)
(* undisturbed, and when it asks for the reload all servers are where it   *)
(* looks for them.                                                         *)
(***************************************************************************)
LEMMA CommandKeepsDashboardInv ==
  ASSUME TypeOK, DashboardInv, NEW c \in Commands,
         CommandStep(c) \/ \E p \in Ports : ChangeDashboardPort(c, p)
  PROVE  DashboardInv'
<1> SUFFICES ASSUME ~disturbed' PROVE (OneUser /\ FileInv /\ PortInv /\ ServerInv)'
  BY DEF DashboardInv
<1> USE DEF TypeOK, client, service, web, history, Goto, Leave
<1>1. ~disturbed
  BY DEF CommandStep, ChangeDashboardPort, Decline, ReadConfig, OpenConfig,
         WriteConfig, ReloadDashboard, BeginsWhile
<1>2. OneUser /\ FileInv /\ PortInv /\ ServerInv
  BY <1>1 DEF DashboardInv
<1>3. ASSUME NEW p \in Ports, ChangeDashboardPort(c, p)
      PROVE  (OneUser /\ FileInv /\ PortInv /\ ServerInv)'
  <2>1. svc = "idle" /\ NoCommand /\ ~Busy
    BY <1>3 DEF ChangeDashboardPort, BeginsWhile, Quiet, NoCommand, Busy
  <2>2. OneUser'
    BY <1>2, <1>3, <2>1 DEF ChangeDashboardPort, OneUser, NoCommand, Busy
  <2>3. FileInv'
    BY <1>2, <1>3, <2>1 DEF ChangeDashboardPort, FileInv, Writing, NoCommand, Whole
  <2>4. PortInv'
    BY <1>2, <1>3, <2>1 DEF ChangeDashboardPort, PortInv, NoCommand, InForce, EffectivePort
  <2>5. ServerInv'
    BY <1>2, <1>3, <2>1
      DEF ChangeDashboardPort, ServerInv, NoCommand, InForce, EffectivePort, Busy
  <2> QED BY <2>2, <2>3, <2>4, <2>5
<1>4. ASSUME CommandStep(c)
      PROVE  (OneUser /\ FileInv /\ PortInv /\ ServerInv)'
  <2>1. /\ cmd[c] # "idle" /\ svc = "idle" /\ ~Busy
        /\ \A d \in Commands \ {c} : cmd[d] = "idle"
    BY <1>2, <1>4
      DEF CommandStep, Decline, ReadConfig, OpenConfig, WriteConfig, ReloadDashboard,
          OneUser, NoCommand
  <2>2. /\ UNCHANGED <<svc, memory>>
        /\ \A d \in Commands \ {c} : cmd'[d] = "idle"
    BY <1>4, <2>1
      DEF CommandStep, Decline, ReadConfig, OpenConfig, WriteConfig, ReloadDashboard
  <2>3. CASE Decline(c)
    BY <1>2, <2>1, <2>2, <2>3
      DEF Decline, OneUser, NoCommand, Busy, FileInv, Writing, Whole, PortInv,
          InForce, EffectivePort, ServerInv
  <2>4. CASE ReadConfig(c)
    <3>1. Whole => [file EXCEPT !.port = asked[c]].service = file.service
                   /\ [file EXCEPT !.port = asked[c]].port = asked[c]
      BY DEF Whole, Config
    <3>0. ~Writing /\ Whole
      BY <1>2, <2>1, <2>4 DEF ReadConfig, FileInv, Writing
    <3>2. UNCHANGED <<file, server, port, old, announced, asked>>
      BY <2>4, <3>0 DEF ReadConfig
    <3>3. cmd'[c] = "open" /\ cmd[c] = "prompt"
      BY <2>4, <3>0 DEF ReadConfig
    <3>4. OneUser'
      BY <2>1, <2>2, <3>2 DEF OneUser, NoCommand, Busy
    <3>5. FileInv'
      <4>1. ~Writing /\ ~Writing'
        BY <2>1, <2>2, <3>0, <3>3 DEF Writing
      <4>2. Whole /\ Whole' /\ file.service = memory.service
        BY <1>2, <2>1, <3>2, <4>1 DEF FileInv, Whole
      <4>3. copy'[c] = [file EXCEPT !.port = asked[c]]
        BY <2>4, <4>2 DEF ReadConfig
      <4> QED BY <2>1, <2>2, <3>1, <3>2, <3>3, <4>1, <4>2, <4>3 DEF FileInv
    <3>6. PortInv'
      BY <1>2, <2>1, <2>2, <3>2, <3>3 DEF PortInv, NoCommand, InForce, EffectivePort
    <3>7. ServerInv'
      BY <1>2, <2>1, <2>2, <3>2, <3>3
        DEF ServerInv, PortInv, NoCommand, InForce, EffectivePort
    <3> QED BY <3>4, <3>5, <3>6, <3>7
  <2>5. CASE OpenConfig(c)
    BY <1>2, <2>1, <2>2, <2>5
      DEF OpenConfig, Open, OneUser, NoCommand, Busy, FileInv, Writing, Whole, PortInv,
          InForce, EffectivePort, ServerInv
  <2>6. CASE WriteConfig(c)
    <3>1. file' = copy[c] /\ copy[c] \notin {Empty, Garbled}
      BY <1>2, <2>6, WrittenContent DEF WriteConfig, FileInv, Writing
    <3> QED
      BY <1>2, <2>1, <2>2, <2>6, <3>1
        DEF WriteConfig, OneUser, NoCommand, Busy, FileInv, Writing, Whole, PortInv,
            InForce, EffectivePort, ServerInv
  <2>7. CASE ReloadDashboard(c)
    <3>1. Whole /\ file.port = asked[c] /\ EffectivePort(file) = asked[c]
      BY <1>2, <2>1, <2>7, DashboardAssumption
        DEF ReloadDashboard, FileInv, Writing, Whole, EffectivePort
    <3>2. ~ \E t \in Trays : server'[t] = "serve"
      BY <1>2, <2>1, <2>7 DEF ReloadDashboard, Reloaded, Serving, ServerInv
    <3>3. ~ \E t \in Trays : server'[t] = "bind"
      BY <1>2, <2>1, <2>7 DEF ReloadDashboard, Reloaded, Serving, Busy
    <3> QED
      BY <1>2, <2>1, <2>2, <2>7, <3>1, <3>2, <3>3
        DEF ReloadDashboard, OneUser, NoCommand, FileInv, Writing, Whole,
            PortInv, InForce, EffectivePort, ServerInv
  <2> QED BY <1>4, <2>3, <2>4, <2>5, <2>6, <2>7 DEF CommandStep
<1> QED BY <1>3, <1>4

(***************************************************************************)
(* The steps of the service: what it stores has the port that is in force, *)
(* as otherwise disturbed says so.                                         *)
(***************************************************************************)
LEMMA ServiceKeepsDashboardInv ==
  ASSUME TypeOK, DashboardInv, ServiceStart \/ HandleChange \/ StoreOpen \/ StoreWrite
  PROVE  DashboardInv'
<1> SUFFICES ASSUME ~disturbed' PROVE (OneUser /\ FileInv /\ PortInv /\ ServerInv)'
  BY DEF DashboardInv
<1> USE DEF TypeOK, client, web, history
<1>1. OneUser /\ FileInv /\ PortInv /\ ServerInv
  BY DEF DashboardInv, ServiceStart, HandleChange, StoreOpen, StoreWrite, BeginsWhile
<1>2. CASE ServiceStart
  BY <1>1, <1>2
    DEF ServiceStart, OneUser, NoCommand, Busy, FileInv, Writing, Whole, PortInv,
        InForce, EffectivePort, ServerInv
<1>3. CASE HandleChange
  <2>1. svc = "idle" /\ NoCommand /\ ~Busy /\ (Whole => memory.port = file.port)
    BY <1>3 DEF HandleChange, BeginsWhile, Quiet, NoCommand, Busy
  <2>2. Whole
    BY <1>1, <2>1 DEF FileInv, Writing, NoCommand
  <2>3. memory'.port = memory.port
    BY <1>3 DEF HandleChange, Config
  <2> QED
    BY <1>1, <1>3, <2>1, <2>2, <2>3
      DEF HandleChange, OneUser, NoCommand, Busy, FileInv, Writing, Whole, PortInv,
          InForce, EffectivePort, ServerInv
<1>4. CASE StoreOpen
  <2>1. Whole /\ file.port = memory.port
    BY <1>1, <1>4 DEF StoreOpen, FileInv, Writing, OneUser, NoCommand
  <2>2. EffectivePort(memory) = EffectivePort(file)
    BY <2>1, DashboardAssumption DEF Whole, EffectivePort
  <2> QED
    BY <1>1, <1>4, <2>2
      DEF StoreOpen, Open, OneUser, NoCommand, Busy, FileInv, Writing, Whole, PortInv,
          InForce, ServerInv
<1>5. CASE StoreWrite
  <2>1. file' = memory /\ memory \notin {Empty, Garbled}
    BY <1>1, <1>5, WrittenContent DEF StoreWrite, FileInv, Writing
  <2> QED
    BY <1>1, <1>5, <2>1
      DEF StoreWrite, OneUser, NoCommand, Busy, FileInv, Writing, Whole, PortInv,
          InForce, EffectivePort, ServerInv
<1> QED BY <1>2, <1>3, <1>4, <1>5

(***************************************************************************)
(* The steps of a server: while it comes up nobody writes the file.        *)
(***************************************************************************)
LEMMA ServerKeepsDashboardInv ==
  ASSUME TypeOK, DashboardInv, NEW t \in Trays, ServerStep(t)
  PROVE  DashboardInv'
<1> SUFFICES ASSUME ~disturbed' PROVE (OneUser /\ FileInv /\ PortInv /\ ServerInv)'
  BY DEF DashboardInv
<1> USE DEF TypeOK, client, service, history, Step
<1>1. OneUser /\ FileInv /\ PortInv /\ ServerInv
  BY DEF DashboardInv, ServerStep, TrayRun, ReadPort, Bind, BindFails, Again, BeginsWhile
<1>2. svc = "idle" /\ NoCommand
  <2>1. CASE TrayRun(t)
    BY <2>1 DEF TrayRun, BeginsWhile, Quiet, NoCommand
  <2>2. CASE ~TrayRun(t)
    <3>1. Busy
      BY <2>2 DEF ServerStep, ReadPort, Bind, BindFails, Again, Busy
    <3> QED BY <1>1, <3>1 DEF OneUser, NoCommand
  <2> QED BY <2>1, <2>2
<1>3. UNCHANGED <<file, memory, svc, cmd, copy, asked, old, announced>>
  BY DEF ServerStep, TrayRun, ReadPort, Bind, BindFails, Again
<1>4. OneUser'
  BY <1>2, <1>3 DEF OneUser, NoCommand
<1>5. FileInv'
  BY <1>1, <1>3 DEF FileInv, Writing, Whole
<1>6. PortInv'
  BY <1>1, <1>3 DEF PortInv, NoCommand, InForce, EffectivePort
<1>7. ServerInv'
  <2>1. CASE TrayRun(t)
    BY <1>1, <1>2, <1>3, <2>1
      DEF TrayRun, ServerInv, NoCommand, InForce, EffectivePort
  <2>2. CASE ReadPort(t)
    BY <1>1, <1>2, <1>3, <2>2
      DEF ReadPort, ServerInv, NoCommand, InForce, EffectivePort
  <2>3. CASE Bind(t)
    BY <1>1, <1>2, <1>3, <2>3
      DEF Bind, ServerInv, NoCommand, InForce, EffectivePort
  <2>4. CASE BindFails(t) \/ Again(t)
    BY <1>1, <1>2, <1>3, <2>4
      DEF BindFails, Again, ServerInv, NoCommand, InForce, EffectivePort
  <2> QED BY <2>1, <2>2, <2>3, <2>4 DEF ServerStep
<1> QED BY <1>4, <1>5, <1>6, <1>7

(***************************************************************************)
(* DashboardInv holds in every state.                                      *)
(***************************************************************************)
LEMMA DashboardInvariant == Spec => []DashboardInv
<1>1. TypeOK /\ DashboardInv /\ [Next]_vars => DashboardInv'
  <2> SUFFICES ASSUME TypeOK, DashboardInv, [Next]_vars PROVE DashboardInv'
    OBVIOUS
  <2>1. CASE UNCHANGED vars
    BY <2>1
      DEF vars, client, service, web, history, DashboardInv, OneUser, NoCommand, Busy, FileInv,
          Writing, Whole, PortInv, InForce, EffectivePort, ServerInv
  <2> QED
    BY <2>1, CommandKeepsDashboardInv, ServiceKeepsDashboardInv,
       ServerKeepsDashboardInv
      DEF Next
<1> QED BY DashboardInvInit, DashboardTypeCorrect, <1>1, PTL DEF Spec

-----------------------------------------------------------------------------
(***************************************************************************)
(* Until something disturbs the users of the file -- two of them meet, or  *)
(* the service stores the old port it still has in memory -- the command   *)
(* dashboard-port asks the port at which every dashboard is (client/mod.rs *)
(* looks it up before the prompt), whichever trays and commands there are. *)
(***************************************************************************)
THEOREM ReloadFindsTheDashboards == Spec => []AsksTheRightPort
<1>1. DashboardInv => AsksTheRightPort
  BY DEF DashboardInv, ServerInv, AsksTheRightPort
<1> QED BY DashboardInvariant, <1>1, PTL

(***************************************************************************)
(* Until something disturbs the users of the file, what they leave behind  *)
(* parses, and has the settings of the service and the port set last.      *)
(***************************************************************************)
THEOREM WritersKeepEachOthersPart == Spec => []BothSurvive
<1>1. DashboardInv => BothSurvive
  BY DEF DashboardInv, FileInv, Writing, PortInv, InForce, NoCommand, BothSurvive,
         PortStays, Quiet
<1> QED BY DashboardInvariant, <1>1, PTL

-----------------------------------------------------------------------------
(***************************************************************************)
(* What makes LastWriterWins inductive, whether or not the users of the    *)
(* file meet: a store that no other has overlapped has emptied the file    *)
(* and is the only one about to write it.                                  *)
(***************************************************************************)
OnlyWriter ==
  /\ file = Empty
  /\ svc = "write" => stored = memory /\ \A c \in Commands : cmd[c] # "write"
  /\ \A c \in Commands : cmd[c] = "write" =>
       stored = copy[c] /\ svc # "write" /\ \A d \in Commands \ {c} : cmd[d] # "write"

StoreInv == stored # Garbled => IF Writing THEN OnlyWriter ELSE file = stored

(***************************************************************************)
(* The steps of a command: only a store that opens or writes the file      *)
(* changes what StoreInv is about.                                         *)
(***************************************************************************)
LEMMA CommandKeepsStoreInv ==
  ASSUME TypeOK, StoreInv, NEW c \in Commands,
         CommandStep(c) \/ \E p \in Ports : ChangeDashboardPort(c, p)
  PROVE  StoreInv'
<1> USE DEF TypeOK, client, service, web, history, Goto
<1>1. CASE OpenConfig(c)
  BY <1>1 DEF OpenConfig, Open, Overlap, StoreInv, OnlyWriter, Writing
<1>2. CASE WriteConfig(c)
  <2>1. copy[c] \in Config /\ Writing /\ stored' = stored
    BY <1>2 DEF WriteConfig, Writing
  <2>2. CASE stored # Garbled
    <3>1. file' = stored
      BY <1>2, <2>1, <2>2, WrittenContent DEF WriteConfig, StoreInv, OnlyWriter
    <3>2. ~Writing'
      BY <1>2, <2>1, <2>2 DEF WriteConfig, StoreInv, OnlyWriter, Writing
    <3> QED BY <3>1, <3>2, <2>1 DEF StoreInv
  <2> QED BY <2>1, <2>2 DEF StoreInv
<1>3. CASE ~OpenConfig(c) /\ ~WriteConfig(c)
  <2>1. /\ UNCHANGED <<file, stored, svc, memory>>
        /\ \A d \in Commands : cmd'[d] = "write" <=> cmd[d] = "write"
        /\ \A d \in Commands : cmd[d] = "write" => copy'[d] = copy[d]
    BY <1>3
      DEF CommandStep, ChangeDashboardPort, Decline, ReadConfig, ReloadDashboard, Leave
  <2> QED BY <2>1 DEF StoreInv, OnlyWriter, Writing
<1> QED BY <1>1, <1>2, <1>3

(***************************************************************************)
(* The steps of the service: while it has the file open its copy stays.    *)
(***************************************************************************)
LEMMA ServiceKeepsStoreInv ==
  ASSUME TypeOK, StoreInv, ServiceStart \/ HandleChange \/ StoreOpen \/ StoreWrite
  PROVE  StoreInv'
<1> USE DEF TypeOK, client, web, history
<1>1. CASE ServiceStart \/ HandleChange
  BY <1>1 DEF ServiceStart, HandleChange, StoreInv, OnlyWriter, Writing
<1>2. CASE StoreOpen
  BY <1>2 DEF StoreOpen, Open, Overlap, StoreInv, OnlyWriter, Writing
<1>3. CASE StoreWrite
  <2>1. Writing /\ stored' = stored
    BY <1>3 DEF StoreWrite, Writing
  <2>2. CASE stored # Garbled
    <3>1. file' = stored
      BY <1>3, <2>1, <2>2, WrittenContent DEF StoreWrite, StoreInv, OnlyWriter
    <3>2. ~Writing'
      BY <1>3, <2>1, <2>2 DEF StoreWrite, StoreInv, OnlyWriter, Writing
    <3> QED BY <3>1, <3>2, <2>1 DEF StoreInv
  <2> QED BY <2>1, <2>2 DEF StoreInv
<1> QED BY <1>1, <1>2, <1>3

(***************************************************************************)
(* However they meet: after a store that no other has overlapped the file  *)
(* is what its writer meant to store.  There is no assumption on who else  *)
(* uses the file, or on what is in it.                                     *)
(***************************************************************************)
THEOREM TheLastStoreIsKept == Spec => []LastWriterWins
<1>1. Init => StoreInv
  BY DEF Init, StoreInv, Writing
<1>2. TypeOK /\ StoreInv /\ [Next]_vars => StoreInv'
  <2> SUFFICES ASSUME TypeOK, StoreInv, [Next]_vars PROVE StoreInv'
    OBVIOUS
  <2>1. ASSUME NEW t \in Trays, ServerStep(t) PROVE StoreInv'
    BY <2>1
      DEF ServerStep, TrayRun, ReadPort, Bind, BindFails, Again, client, service, history,
          StoreInv, OnlyWriter, Writing
  <2>2. CASE UNCHANGED vars
    BY <2>2 DEF vars, client, service, web, history, StoreInv, OnlyWriter, Writing
  <2> QED BY <2>1, <2>2, CommandKeepsStoreInv, ServiceKeepsStoreInv DEF Next
<1>3. StoreInv => LastWriterWins
  BY DEF StoreInv, LastWriterWins
<1> QED BY <1>1, <1>2, <1>3, DashboardTypeCorrect, PTL DEF Spec
=============================================================================
