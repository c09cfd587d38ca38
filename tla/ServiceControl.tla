--------------------------- MODULE ServiceControl ---------------------------
(***************************************************************************)
(* The commands that install, uninstall, start and stop the service        *)
(* (src/service_manager/mod.rs), given on a console or from the menu of a  *)
(* tray, against the service control manager (SCM) and the service.        *)
(*                                                                         *)
(* Each call to the SCM is a step, and commands of several processes       *)
(* interleave.  Of two calls in a row that ask for the same and fail the   *)
(* same way only the later one is kept.  The SCM is external: a service    *)
(* that is marked for deletion cannot be started or marked again, and goes *)
(* when it is stopped and no handle to it is open; a service that is       *)
(* starting accepts no STOP.                                               *)
(***************************************************************************)
CONSTANTS
  Consoles,  \* the processes of the CLI
  Menus      \* those of the tray: nobody can answer what they ask

Procs == Consoles \cup Menus

ASSUME ControlAssumption == Consoles \cap Menus = {}

VARIABLES
  db,     \* whether the service is in the database of the SCM
  state,  \* what the service has reported last
  asked,  \* whether it has received a STOP since it started
  open,   \* the processes that have a handle to it
  conf,   \* the directory of config.toml
  task,   \* whether the scheduled task starts a tray at logon
  trays,  \* the trays that run
  cmd,    \* the command of each process
  pc      \* the call it is about to make

scm == <<db, state, asked>>
world == <<conf, task, trays>>
vars == <<scm, world, open, cmd, pc>>

Commands == {"install", "uninstall", "start", "stop", "exit"}

Labels ==
  {"idle", "install", "delete", "query", "stopDeleted", "unregister", "poll",
   "wipe", "create", "describe", "askDelete", "start", "askInstall", "launch",
   "verify", "stop", "await", "confirm"}

TypeOK ==
  /\ db \in {"absent", "installed", "marked"}
  /\ state \in {"stopped", "starting", "running"}
  /\ asked \in BOOLEAN
  /\ open \subseteq Procs
  /\ conf \in {"none", "valid", "broken"}
  /\ task \in BOOLEAN
  /\ trays \subseteq Menus
  /\ cmd \in [Procs -> Commands \cup {"none"}]
  /\ pc \in [Procs -> Labels]

Init ==
  /\ db \in {"absent", "installed"} /\ state = "stopped" /\ asked = FALSE
  /\ open = {}
  /\ conf \in {"none", "valid", "broken"}
  /\ task \in {FALSE, db = "installed"}
  /\ trays = {}
  /\ cmd = [p \in Procs |-> "none"]
  /\ pc = [p \in Procs |-> "idle"]

Exists == db # "absent"
\* service_is_running
IsRunning == Exists /\ state # "stopped"

At(p, l) == pc[p] = l
Goto(p, l) == pc' = [pc EXCEPT ![p] = l] /\ UNCHANGED cmd

\* The command of p ends, and with it its handle is closed.  Whether it reports
\* success or an error makes no difference to the others.
Return(p) ==
  /\ pc' = [pc EXCEPT ![p] = "idle"]
  /\ cmd' = [cmd EXCEPT ![p] = "none"]
  /\ open' = open \ {p}

-----------------------------------------------------------------------------
(* Installing and uninstalling. *)

\* What a menu offers may be out of date when it is chosen.
Begin(p, c) ==
  /\ At(p, "idle")
  /\ p \in Menus => p \in trays /\ c \in {"start", "stop", "exit"}
  /\ p \in Consoles => c # "exit"
  /\ cmd' = [cmd EXCEPT ![p] = c]
  /\ pc' = [pc EXCEPT ![p] =
       CASE c = "uninstall" -> "delete" [] c = "exit" -> "confirm" [] OTHER -> c]
  /\ UNCHANGED <<scm, world, open>>

\* An existing installation is removed first.  Whether its configuration is
\* kept is asked here and made use of in Poll.
Install(p) ==
  /\ At(p, "install")
  /\ Goto(p, IF Exists THEN "delete" ELSE "create")
  /\ UNCHANGED <<scm, world, open>>

\* Bug: the handle is closed at once.
DeleteAndClose(p) ==
  /\ At(p, "delete")
  /\ IF db = "installed"
     THEN db' = "marked" /\ Goto(p, "query") /\ UNCHANGED open
     ELSE Return(p) /\ UNCHANGED db
  /\ UNCHANGED <<state, asked, world>>

\* Bug: a service that is marked already counts as deleted.
DeleteAgain(p) ==
  /\ At(p, "delete")
  /\ IF Exists
     THEN db' = "marked" /\ open' = open \cup {p} /\ Goto(p, "query")
     ELSE Return(p) /\ UNCHANGED db
  /\ UNCHANGED <<state, asked, world>>

Delete(p) ==
  /\ At(p, "delete")
  /\ IF db = "installed"
     THEN db' = "marked" /\ open' = open \cup {p} /\ Goto(p, "query")
     ELSE Return(p) /\ UNCHANGED db
  /\ UNCHANGED <<state, asked, world>>

\* Bug: the service is left to run.
QueryOnly(p) ==
  /\ At(p, "query")
  /\ Goto(p, "unregister")
  /\ UNCHANGED <<scm, world, open>>

Query(p) ==
  /\ At(p, "query")
  /\ Goto(p, IF state = "stopped" THEN "unregister" ELSE "stopDeleted")
  /\ UNCHANGED <<scm, world, open>>

\* If it is refused the command ends at once.
StopDeleted(p) ==
  /\ At(p, "stopDeleted")
  /\ IF state = "running"
     THEN asked' = TRUE /\ Goto(p, "unregister") /\ UNCHANGED open
     ELSE Return(p) /\ UNCHANGED asked
  /\ UNCHANGED <<db, state, world>>

Unregister(p) ==
  /\ At(p, "unregister")
  /\ task' = FALSE
  /\ open' = open \ {p}
  /\ Goto(p, "poll")
  /\ UNCHANGED <<scm, conf, trays>>

\* Bug: the service is waited for without a timeout.
PollForever(p) ==
  /\ At(p, "poll") /\ ~Exists
  /\ \E next \in IF cmd[p] = "uninstall" THEN {"askDelete"} ELSE {"create", "wipe"} :
       Goto(p, next)
  /\ UNCHANGED <<scm, world, open>>

\* Until the service is gone, or SERVICE_POLL_TIMEOUT is over.
Poll(p) ==
  /\ At(p, "poll")
  /\ \E next \in IF cmd[p] = "uninstall" THEN {"askDelete"} ELSE {"create", "wipe"} :
       Goto(p, next)
  /\ UNCHANGED <<scm, world, open>>

AskDelete(p) ==
  /\ At(p, "askDelete")
  /\ conf # "none" => p \in Consoles
  /\ conf' \in {conf, "none"}
  /\ Return(p)
  /\ UNCHANGED <<scm, task, trays>>

\* Fails if a file is in use.
Wipe(p) ==
  /\ At(p, "wipe")
  /\ \/ conf' = "none" /\ Goto(p, "create") /\ UNCHANGED open
     \/ conf # "none" /\ Return(p) /\ UNCHANGED conf
  /\ UNCHANGED <<scm, task, trays>>

Create(p) ==
  /\ At(p, "create")
  /\ IF Exists
     THEN Return(p) /\ UNCHANGED db
     ELSE db' = "installed" /\ open' = open \cup {p} /\ Goto(p, "describe")
  /\ UNCHANGED <<state, asked, world>>

\* The description of a service somebody has marked cannot be set.  The task
\* is not registered with --no-startup, or if that fails.
Describe(p) ==
  /\ At(p, "describe")
  /\ IF db = "marked"
     THEN Return(p) /\ UNCHANGED task
     ELSE /\ task' \in {task, TRUE}
          /\ IF cmd[p] = "start"
             THEN Goto(p, "launch") /\ open' = open \ {p}
             ELSE Return(p)
  /\ UNCHANGED <<scm, conf, trays>>

-----------------------------------------------------------------------------
(* Starting and stopping. *)

Start(p) ==
  /\ At(p, "start")
  /\ Goto(p, IF Exists THEN "launch" ELSE "askInstall")
  /\ UNCHANGED <<scm, world, open>>

\* Asked again until it is answered: without a terminal, for ever.
AskInstall(p) ==
  /\ At(p, "askInstall") /\ p \in Consoles
  /\ \/ Goto(p, "install") /\ UNCHANGED open
     \/ Return(p)
  /\ UNCHANGED <<scm, world>>

\* A service that runs, or is about to, is not started again.
Launch(p) ==
  /\ At(p, "launch")
  /\ IF db = "installed" /\ state = "stopped"
     THEN /\ state' = "starting" /\ asked' = FALSE
          /\ open' = open \cup {p}
          /\ Goto(p, "verify")
     ELSE Return(p) /\ UNCHANGED <<state, asked>>
  /\ UNCHANGED <<db, world>>

\* No tray asks whether there is one.
NewTray == \E t \in Menus \ trays : trays' = trays \cup {t}

\* Spawns a tray unless told not to; if that fails the service is stopped.
Verify(p) ==
  /\ At(p, "verify")
  /\ \/ Return(p) /\ UNCHANGED trays
     \/ IsRunning /\ p \in Consoles /\ NewTray /\ Return(p)
     \/ IsRunning /\ p \in Consoles /\ Goto(p, "stop") /\ UNCHANGED <<open, trays>>
  /\ UNCHANGED <<scm, conf, task>>

\* stop_service comes back.  The menu's Exit goes on whatever its result.
Stopped(p) ==
  /\ Return(p)
  /\ trays' = IF cmd[p] = "exit" THEN trays \ {p} ELSE trays

Stop(p) ==
  /\ At(p, "stop")
  /\ IF Exists /\ state = "running"
     THEN asked' = TRUE /\ open' = open \cup {p} /\ Goto(p, "await") /\ UNCHANGED trays
     ELSE Stopped(p) /\ UNCHANGED asked
  /\ UNCHANGED <<db, state, conf, task>>

\* Until it has stopped, or SERVICE_POLL_TIMEOUT is over: Ok either way.
Await(p) ==
  /\ At(p, "await")
  /\ Stopped(p)
  /\ UNCHANGED <<scm, conf, task>>

\* "This will stop the BarvazDNS service. Are you sure?", if it is running.
Confirm(p) ==
  /\ At(p, "confirm")
  /\ \/ IsRunning /\ Goto(p, "stop") /\ UNCHANGED <<open, trays>>
     \/ IsRunning /\ Return(p) /\ UNCHANGED trays
     \/ ~IsRunning /\ Stopped(p)
  /\ UNCHANGED <<scm, conf, task>>

-----------------------------------------------------------------------------
(* The service and the SCM. *)

\* A service without a configuration installs one.
ServiceUp ==
  /\ state = "starting" /\ conf # "broken"
  /\ state' = "running"
  /\ conf' = "valid"
  /\ UNCHANGED <<db, asked, task, trays, open, cmd, pc>>

ServiceFails ==
  /\ state = "starting" /\ conf = "broken"
  /\ state' = "stopped"
  /\ UNCHANGED <<db, asked, world, open, cmd, pc>>

ServiceStops ==
  /\ state = "running" /\ asked
  /\ state' = "stopped"
  /\ UNCHANGED <<db, asked, world, open, cmd, pc>>

Purge ==
  /\ db = "marked" /\ state = "stopped" /\ open = {}
  /\ db' = "absent"
  /\ UNCHANGED <<state, asked, world, open, cmd, pc>>

CommandStep(p) ==
  \/ Install(p) \/ Delete(p) \/ Query(p) \/ StopDeleted(p) \/ Unregister(p) \/ Poll(p)
  \/ AskDelete(p) \/ Wipe(p) \/ Create(p) \/ Describe(p)
  \/ Start(p) \/ AskInstall(p) \/ Launch(p) \/ Verify(p)
  \/ Stop(p) \/ Await(p) \/ Confirm(p)

\* The scheduled task "BarvazDNS Tray".
Logon ==
  /\ task /\ NewTray
  /\ UNCHANGED <<scm, conf, task, open, cmd, pc>>

ServiceStep == ServiceUp \/ ServiceFails \/ ServiceStops

Next ==
  \/ \E p \in Procs :
       \/ \E c \in Commands : Begin(p, c)
       \/ CommandStep(p)
  \/ ServiceStep \/ Purge \/ Logon

Spec == Init /\ [][Next]_vars

\* Processes and the SCM go on, and who is asked on a console answers.  A
\* service that is told to stop does.
FairSpec ==
  /\ Spec
  /\ \A p \in Procs : WF_vars(CommandStep(p))
  /\ WF_vars(ServiceStep) /\ WF_vars(Purge)

-----------------------------------------------------------------------------
(* Properties. *)

\* p has deleted the service and still has its handle.
Removing(p) == pc[p] \in {"query", "stopDeleted", "unregister"}

(***************************************************************************)
(* Of several removals at the same time only the first gets past its       *)
(* delete: the service is told to stop, and its task is unregistered, by   *)
(* one command, and the others end although service_is_installed has told  *)
(* them that it is there.                                                  *)
(***************************************************************************)
OneRemoval == \A p, q \in Procs : Removing(p) /\ Removing(q) => p = q

(***************************************************************************)
(* From its STOP until it closes its handle a removal has to do with one   *)
(* and the same service, which is stopping: whatever the other commands    *)
(* do, none starts it again or puts another in its place.                  *)
(***************************************************************************)
Doomed ==
  \A p \in Procs : At(p, "unregister") => db = "marked" /\ (state = "stopped" \/ asked)

(***************************************************************************)
(* Once an uninstallation or upgrade has got past its STOP the service     *)
(* goes, whatever other commands do in the meantime: none starts it again, *)
(* keeps a handle, or leaves it running and marked for ever.               *)
(***************************************************************************)
Removes == \A p \in Consoles : At(p, "unregister") ~> db # "marked"

(***************************************************************************)
(* Every command comes to an end, whatever the others do meanwhile to the  *)
(* service it waits for -- but for a start from the menu of a tray that    *)
(* finds no service: it asks whether to install it where nobody can        *)
(* answer.                                                                 *)
(***************************************************************************)
CommandReturns ==
  \A p \in Procs : []<>(At(p, "idle") \/ (p \in Menus /\ At(p, "askInstall")))

=============================================================================
