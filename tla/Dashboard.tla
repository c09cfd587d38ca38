------------------------------ MODULE Dashboard ------------------------------
(***************************************************************************)
(* The port of the web dashboard: the [dashboard] section of config.toml,  *)
(* which the service and the command dashboard-port (src/client/mod.rs)    *)
(* both write, and the servers of the trays (src/dashboard/mod.rs), which  *)
(* read it when they start and when they are told to reload.               *)
(*                                                                         *)
(* Both writers read and write the whole file, without a lock; opening it  *)
(* empties it.  Of the service only its copy of the file and store are     *)
(* modelled here, of its settings only whether two are the same.  The file *)
(* is always there: that the service or a tray installs the default one    *)
(* first, and may do so at the same time as the other, is left out.        *)
(***************************************************************************)
CONSTANTS
  Ports, Default,  \* ports; WEB_DASHBOARD_PORT
  Taken,           \* ports that other programs listen on
  Settings,        \* contents of the [service] section
  Commands,        \* processes that run dashboard-port
  Trays,           \* trays that run with the web dashboard
  Empty, Garbled,  \* a file without content; one that does not parse
  NoPort

\* What config.toml holds when it parses.
Config == [port : Ports \cup {NoPort}, disabled : BOOLEAN, service : Settings]

ASSUME DashboardAssumption ==
  /\ Default \in Ports /\ Taken \subseteq Ports /\ NoPort \notin Ports
  /\ Empty # Garbled /\ {Empty, Garbled} \cap Config = {}

VARIABLES
  file,       \* config.toml
  memory,     \* the copy of the service
  svc,        \* what the service does with the file
  cmd,        \* what each command does
  copy,       \* the configuration a command has read and is to store
  asked,      \* the port a command is to set
  old,        \* the port where it expects the dashboard
  announced,  \* the port in "Dashboard port set to {port}."
  server,     \* what the server of each tray does
  port,       \* the port it has read, or listens on
  disturbed,  \* whether two users of the file have ever met, or the service,
              \* which hears of no new port, has ever stored an old one
  stored      \* what the last store is to leave, Garbled if another overlapped it

client == <<cmd, copy, asked, old, announced>>
service == <<memory, svc>>
web == <<server, port>>
history == <<disturbed, stored>>
vars == <<file, client, service, web, history>>

Whole == file \notin {Empty, Garbled}

TypeOK ==
  /\ file \in Config \cup {Empty, Garbled}
  /\ memory \in Config
  /\ svc \in {"idle", "open", "write"}
  /\ cmd \in [Commands -> {"idle", "prompt", "open", "write", "reload"}]
  /\ copy \in [Commands -> Config \cup {Empty}]
  /\ \A c \in Commands : cmd[c] \in {"open", "write"} => copy[c] # Empty
  /\ asked \in [Commands -> Ports]
  /\ old \in [Commands -> Ports]
  /\ announced \in Ports
  /\ server \in [Trays -> {"off", "read", "bind", "serve", "leave", "gone"}]
  /\ port \in [Trays -> Ports]
  /\ disturbed \in BOOLEAN
  /\ stored \in Config \cup {Garbled}

\* Bug: no port is taken for a port.
RawPort(c) == IF c \in {Empty, Garbled} THEN Default ELSE c.port

\* effective_dashboard_port, and the default where the file does not parse.
EffectivePort(c) ==
  IF c \in {Empty, Garbled} \/ c.port = NoPort THEN Default ELSE c.port

Init ==
  /\ file \in Config /\ file.port = NoPort
  /\ memory = file /\ svc = "idle"
  /\ cmd = [c \in Commands |-> "idle"]
  /\ copy = [c \in Commands |-> Empty]
  /\ asked = [c \in Commands |-> Default]
  /\ old = [c \in Commands |-> Default]
  /\ announced = Default
  /\ server = [t \in Trays |-> "off"]
  /\ port = [t \in Trays |-> Default]
  /\ disturbed = FALSE /\ stored = file

Serving(t, p) == server[t] = "serve" /\ port[t] = p
Quiet == svc = "idle" /\ \A c \in Commands : cmd[c] = "idle"

\* A server comes up: it reads the file, or has read it and is not yet there.
Busy == \E t \in Trays : server[t] \notin {"off", "serve", "gone"}

\* Somebody begins to use the file.  (No part of the program: a history.)
BeginsWhile(others) == disturbed' = (disturbed \/ others)

\* Somebody has emptied the file and not yet written it.
Writing == svc = "write" \/ \E c \in Commands : cmd[c] = "write"

Overlap(config) == stored' = IF Writing THEN Garbled ELSE config

\* Bug: what the file holds is left in it.
OpenAsIs(config) == Overlap(config) /\ UNCHANGED file

\* store: the file is opened and emptied, then written from its start.
Open(config) == Overlap(config) /\ file' = Empty
Written(config) == IF file = Empty THEN {config} ELSE {config, Garbled}

-----------------------------------------------------------------------------
(* dashboard-port. *)

Goto(c, l) == cmd' = [cmd EXCEPT ![c] = l]

\* The command returns, and nothing is left of what it knew.
Leave(c) ==
  /\ Goto(c, "idle")
  /\ copy' = [copy EXCEPT ![c] = Empty]
  /\ asked' = [asked EXCEPT ![c] = Default]
  /\ old' = [old EXCEPT ![c] = Default]

ChangeDashboardPort(c, p) ==
  /\ cmd[c] = "idle"
  /\ BeginsWhile(~Quiet \/ Busy)
  /\ asked' = [asked EXCEPT ![c] = p]
  /\ old' = [old EXCEPT ![c] = EffectivePort(file)]
  /\ Goto(c, "prompt")
  /\ UNCHANGED <<file, copy, announced, service, web, stored>>

Decline(c) ==
  /\ cmd[c] = "prompt"
  /\ Leave(c)
  /\ UNCHANGED <<file, announced, service, web, history>>

\* The user agrees, at any time later than the look at the old port.
ReadConfig(c) ==
  /\ cmd[c] = "prompt"
  /\ IF Whole
     THEN /\ copy' = [copy EXCEPT ![c] = [file EXCEPT !.port = asked[c]]]
          /\ Goto(c, "open") /\ UNCHANGED <<asked, old>>
     ELSE Leave(c)
  /\ UNCHANGED <<file, announced, service, web, history>>

OpenConfig(c) ==
  /\ cmd[c] = "open"
  /\ Open(copy[c])
  /\ Goto(c, "write")
  /\ UNCHANGED <<copy, asked, old, announced, service, web, disturbed>>

\* Bug: the old port is looked up when it is too late.
WriteAndLook(c) ==
  /\ cmd[c] = "write"
  /\ file' \in Written(copy[c])
  /\ old' = [old EXCEPT ![c] = EffectivePort(copy[c])]
  /\ Goto(c, "reload")
  /\ UNCHANGED <<copy, asked, announced, service, web, history>>

WriteConfig(c) ==
  /\ cmd[c] = "write"
  /\ file' \in Written(copy[c])
  /\ Goto(c, "reload")
  /\ UNCHANGED <<copy, asked, old, announced, service, web, history>>

\* api_reload takes the sender, so that only the first request counts.
Reloaded(p) ==
  /\ server' = [t \in Trays |-> IF Serving(t, p) THEN "leave" ELSE server[t]]
  /\ port' = [t \in Trays |-> IF Serving(t, p) THEN Default ELSE port[t]]


\* Whether anybody listens there, and what he answers, is ignored.
ReloadDashboard(c) ==
  /\ cmd[c] = "reload"
  /\ Reloaded(old[c])
  /\ announced' = asked[c]
  /\ Leave(c)
  /\ UNCHANGED <<file, service, history>>

CommandStep(c) ==
  Decline(c) \/ ReadConfig(c) \/ OpenConfig(c) \/ WriteConfig(c) \/ ReloadDashboard(c)

-----------------------------------------------------------------------------
(* The service. *)

\* A start reads the file, and so does a forced update.
ServiceStart ==
  /\ svc = "idle" /\ Whole
  /\ memory' = file
  /\ UNCHANGED <<file, svc, client, web, history>>

HandleChange ==
  /\ svc = "idle"
  /\ BeginsWhile(~Quiet \/ Busy \/ (Whole /\ memory.port # file.port))
  /\ \E s \in Settings \ {memory.service} : memory' = [memory EXCEPT !.service = s]
  /\ svc' = "open"
  /\ UNCHANGED <<file, client, web, stored>>

StoreOpen ==
  /\ svc = "open" /\ svc' = "write"
  /\ Open(memory)
  /\ UNCHANGED <<memory, client, web, disturbed>>

StoreWrite ==
  /\ svc = "write" /\ svc' = "idle"
  /\ file' \in Written(memory)
  /\ UNCHANGED <<memory, client, web, history>>

-----------------------------------------------------------------------------
(* The server of a tray. *)

Step(t, from, to) == server[t] = from /\ server' = [server EXCEPT ![t] = to]

\* A configuration that cannot be read does not disable it.
TrayRun(t) ==
  /\ Step(t, "off", IF Whole /\ file.disabled THEN "gone" ELSE "read")
  /\ BeginsWhile(~Quiet)
  /\ UNCHANGED <<file, client, service, port, stored>>

ReadPort(t) ==
  /\ Step(t, "read", "bind")
  /\ port' = [port EXCEPT ![t] = EffectivePort(file)]
  /\ UNCHANGED <<file, client, service, history>>

InUse(t) == port[t] \in Taken \/ \E u \in Trays \ {t} : Serving(u, port[t])

Bind(t) ==
  /\ Step(t, "bind", "serve")
  /\ ~InUse(t)
  /\ UNCHANGED <<file, client, service, port, history>>

\* The task returns: nothing starts it again.
BindFails(t) ==
  /\ Step(t, "bind", "gone")
  /\ InUse(t)
  /\ UNCHANGED <<file, client, service, port, history>>


\* The graceful shutdown is over.
Again(t) ==
  /\ Step(t, "leave", "read")
  /\ UNCHANGED <<file, client, service, port, history>>

ServerStep(t) == TrayRun(t) \/ ReadPort(t) \/ Bind(t) \/ BindFails(t) \/ Again(t)

Next ==
  \/ \E c \in Commands : CommandStep(c) \/ \E p \in Ports : ChangeDashboardPort(c, p)
  \/ ServiceStart \/ HandleChange \/ StoreOpen \/ StoreWrite
  \/ \E t \in Trays : ServerStep(t)

Spec == Init /\ [][Next]_vars

\* The runtime of a tray runs the task of its server.
FairSpec == Spec /\ \A t \in Trays : WF_vars(ServerStep(t))

-----------------------------------------------------------------------------
(* Properties. *)

(***************************************************************************)
(* However the users of the file have met before, and whatever they have   *)
(* left in it: after a store that no other store has overlapped, the file  *)
(* can be read and holds just what its writer meant to store, nothing of   *)
(* what was there.  So of two updates that meet one may be lost, but never *)
(* both.  (store opens the file, which empties it, and writes it in a      *)
(* second step, without a lock.)                                           *)
(***************************************************************************)
LastWriterWins == ~Writing /\ stored # Garbled => file = stored


(***************************************************************************)
(* The port a command asks to reload, which it has looked up before its    *)
(* prompt, is the one every dashboard is at.  It need not be once two      *)
(* users of the file have met; nor, even with nobody else about, once the  *)
(* service has stored the old port it still has in memory.                 *)
(***************************************************************************)
AsksTheRightPort ==
  ~disturbed =>
    \A c \in Commands, t \in Trays :
      cmd[c] = "reload" /\ server[t] = "serve" => port[t] = old[c]


(***************************************************************************)
(* The port that was set is the one in the file when nobody writes it: the *)
(* next change of a setting does not take it back.                         *)
(***************************************************************************)
PortStays == Quiet /\ Whole => EffectivePort(file) = announced

(***************************************************************************)
(* store: "write the current configuration to disk" (config.rs), and       *)
(* dashboard-port "updates the port in the configuration file"             *)
(* (client/mod.rs): what they leave behind can be read, has the settings   *)
(* of the service and the port that was set last.  One may undo what the   *)
(* other did once two users of the file have met; and the service undoes   *)
(* it, even with nobody else about, when it stores the old port it still   *)
(* has in memory (PortStays).                                              *)
(***************************************************************************)
BothSurvive ==
  ~disturbed /\ Quiet => Whole /\ file.service = memory.service /\ PortStays
=============================================================================
