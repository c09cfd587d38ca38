------------------------------- MODULE Runtime -------------------------------
(***************************************************************************)
(* The tasks of run_service (src/service/mod.rs) on the worker threads of  *)
(* its tokio runtime.  A worker that polls a task has nothing else to do   *)
(* until the poll returns, and three tasks do not return at once: the one  *)
(* that waits for the STOP in a recv of the standard library, both loops   *)
(* in a request to DuckDNS, which minreq sends synchronously, and the      *)
(* listening loop while the pipe cannot be created: it tries again without *)
(* an await in between.                                                    *)
(*                                                                         *)
(* Timers and the pipe wake a task only as long as some worker is idle to  *)
(* look at them.                                                           *)
(*                                                                         *)
(* Once Stopped is reported the dispatcher returns to main, which ends the *)
(* process whatever its tasks are doing.  A channel that is full is left   *)
(* out: the listening loop awaits room in it and keeps no worker.          *)
(***************************************************************************)
EXTENDS Naturals, FiniteSets

CONSTANTS
  Workers,   \* worker threads: one per processor
  Silent,    \* DuckDNS may take a request and never answer
  PipeTaken  \* another process may have the name of the pipe

ASSUME RuntimeAssumption ==
  Workers \in Nat \ {0} /\ Silent \in BOOLEAN /\ PipeTaken \in BOOLEAN

Tasks == {"update", "listen", "shutdown"}

VARIABLES
  phase,   \* the service runs, has reported Stopped, or the process has ended
  asked,   \* whether the STOP has been sent
  task,    \* what each task does
  tick,    \* whether an update is due
  client,  \* whether a client waits, and for what
  dead,    \* the server that has the request of a loop will not answer
  taken    \* whether the pipe can be created

vars == <<phase, asked, task, tick, client, dead, taken>>

Polled == {t \in Tasks : task[t] \in {"polled", "http"}}

TypeOK ==
  /\ phase \in {"run", "stopped", "ended"}
  /\ asked \in BOOLEAN /\ tick \in BOOLEAN /\ taken \in BOOLEAN
  /\ task \in [Tasks -> {"queued", "polled", "http", "parked", "done"}]
  /\ client \in {"none", "quick", "force"}
  /\ dead \subseteq Tasks
  /\ Cardinality(Polled) <= Workers

Init ==
  /\ phase = "run" /\ asked = FALSE
  /\ task = [t \in Tasks |-> "queued"]
  /\ tick = TRUE /\ client = "none" /\ dead = {}
  /\ taken \in {FALSE, PipeTaken}

Becomes(t, from, to) == task[t] = from /\ task' = [task EXCEPT ![t] = to]
IdleWorker == Cardinality(Polled) < Workers
Alive == phase # "ended"

-----------------------------------------------------------------------------
\* Also while the runtime is being dropped, as long as there is a process.
Poll(t) ==
  /\ Alive /\ IdleWorker
  /\ Becomes(t, "queued", "polled")
  /\ UNCHANGED <<phase, asked, tick, client, dead, taken>>

\* The server that is asked may be one that never answers.
Request(t) ==
  /\ Becomes(t, "polled", "http")
  /\ dead' \in {dead, IF Silent THEN dead \cup {t} ELSE dead}
  /\ UNCHANGED <<phase, asked, taken>>

\* The tick is over, or the settings have come over the channel.
BeginUpdate ==
  /\ tick /\ tick' = FALSE
  /\ Request("update")
  /\ UNCHANGED client

WaitForTick ==
  /\ ~tick
  /\ Becomes("update", "polled", "parked")
  /\ UNCHANGED <<phase, asked, tick, client, dead, taken>>

\* Bug: the loop does not come back from its first update.
FinishLast ==
  /\ "update" \notin dead
  /\ Becomes("update", "http", "done")
  /\ UNCHANGED <<phase, asked, tick, client, dead, taken>>

\* The next one begins with a lookup that is awaited.
FinishUpdate ==
  /\ "update" \notin dead
  /\ Becomes("update", "http", "queued")
  /\ UNCHANGED <<phase, asked, tick, client, dead, taken>>

\* A request that changes settings makes an update due.  The next client is
\* awaited.
Serve ==
  /\ ~taken /\ client = "quick"
  /\ task["listen"] = "polled"
  /\ client' = "none" /\ tick' \in {tick, TRUE}
  /\ task' = [task EXCEPT !["listen"] = "parked",
                          !["update"] = IF @ = "parked" /\ tick' THEN "queued" ELSE @]
  /\ UNCHANGED <<phase, asked, dead, taken>>

BeginForce ==
  /\ ~taken /\ client = "force"
  /\ Request("listen")
  /\ UNCHANGED <<tick, client>>

\* Bug: the loop ends after a forced update.
FinishForceLast ==
  /\ "listen" \notin dead
  /\ Becomes("listen", "http", "done")
  /\ client' = "none"
  /\ UNCHANGED <<phase, asked, tick, dead, taken>>

FinishForce ==
  /\ "listen" \notin dead
  /\ Becomes("listen", "http", "parked")
  /\ client' = "none"
  /\ UNCHANGED <<phase, asked, tick, dead, taken>>

WaitForClient ==
  /\ ~taken /\ client = "none"
  /\ Becomes("listen", "polled", "parked")
  /\ UNCHANGED <<phase, asked, tick, client, dead, taken>>

\* Bug: the STOP is looked for only once.
LookForStop ==
  /\ Alive
  /\ Becomes("shutdown", "polled", IF asked THEN "done" ELSE "parked")
  /\ UNCHANGED <<phase, asked, tick, client, dead, taken>>

\* recv returns.
ReceiveStop ==
  /\ Alive /\ asked
  /\ Becomes("shutdown", "polled", "done")
  /\ UNCHANGED <<phase, asked, tick, client, dead, taken>>

\* select! is over, and Stopped is reported.
Leave ==
  /\ phase = "run" /\ \E t \in Tasks : task[t] = "done"
  /\ phase' = "stopped"
  /\ UNCHANGED <<asked, task, tick, client, dead, taken>>

\* The dispatcher returns and main with it.
End ==
  /\ phase = "stopped"
  /\ phase' = "ended"
  /\ UNCHANGED <<asked, task, tick, client, dead, taken>>

-----------------------------------------------------------------------------
(* From outside. *)

Stop ==
  /\ ~asked /\ asked' = TRUE
  /\ UNCHANGED <<phase, task, tick, client, dead, taken>>

\* The interval, if anybody looks at the clock.
Tick ==
  /\ Alive /\ IdleWorker /\ ~tick
  /\ tick' = TRUE
  /\ task' = [task EXCEPT !["update"] = IF @ = "parked" THEN "queued" ELSE @]
  /\ UNCHANGED <<phase, asked, client, dead, taken>>

Call ==
  /\ Alive /\ client = "none"
  /\ client' \in {"quick", "force"}
  /\ UNCHANGED <<phase, asked, task, tick, dead, taken>>

ClientSeen ==
  /\ Alive /\ IdleWorker /\ client # "none"
  /\ Becomes("listen", "parked", "queued")
  /\ UNCHANGED <<phase, asked, tick, client, dead, taken>>

UpdateStep == Alive /\ (BeginUpdate \/ WaitForTick \/ FinishUpdate)
ListenStep == Alive /\ (Serve \/ BeginForce \/ FinishForce \/ WaitForClient)
MainStep == Leave \/ End

Next ==
  \/ \E t \in Tasks : Poll(t)
  \/ UpdateStep \/ ListenStep \/ ReceiveStop \/ MainStep
  \/ Stop \/ Tick \/ Call \/ ClientSeen

Spec == Init /\ [][Next]_vars

\* Every thread goes on, queued tasks have their turn, the clock does not stop.
FairSpec ==
  /\ Spec
  /\ \A t \in Tasks : SF_vars(Poll(t))
  /\ WF_vars(UpdateStep) /\ WF_vars(ListenStep) /\ WF_vars(ReceiveStop) /\ WF_vars(MainStep)
  /\ SF_vars(Tick) /\ SF_vars(ClientSeen)

-----------------------------------------------------------------------------
(* Properties. *)

(***************************************************************************)
(* run_service ends when any of its three tasks does, but the loops have   *)
(* no end: whatever updates and clients do, Stopped is only reported after *)
(* a STOP ("listening loop has ended unexpectedly", "Cannot update         *)
(* DuckDNS").                                                              *)
(***************************************************************************)
OnlyStopEnds == phase # "run" => asked

\* Requests that are never answered have taken all workers but one, and the
\* task that waits for the STOP has that one or needs it.
Starved == Cardinality(dead) + 1 >= Workers

(***************************************************************************)
(* "Runs in the background for continuous, automated updates" (README.md): *)
(* until it is told to stop the service begins one update after another,   *)
(* unless DuckDNS never answers the update loop, or leaves no worker to    *)
(* the loops.                                                              *)
(***************************************************************************)
UpdatesGoOn ==
  LET Excused == asked \/ "update" \in dead \/ Starved IN
  []<>(task["update"] = "http" \/ Excused) /\ []<>(task["update"] # "http" \/ Excused)

(***************************************************************************)
(* A client that waits is served, until the service is told to stop,       *)
(* unless DuckDNS never answers a forced update, or leaves no worker to    *)
(* the loops: an update that takes long does not keep the client waiting   *)
(* for ever.                                                               *)
(***************************************************************************)
ClientServed ==
  client # "none" ~> client = "none" \/ asked \/ "listen" \in dead \/ Starved

(***************************************************************************)
(* After a STOP the process ends, whatever its tasks are about: a loop     *)
(* that waits for an answer, even for ever, does not keep it -- unless     *)
(* requests that are never answered had all workers before the task that   *)
(* waits for the STOP was polled for the first time.                       *)
(***************************************************************************)
StopEnds == asked ~> phase = "ended" \/ Cardinality(dead) >= Workers
=============================================================================
