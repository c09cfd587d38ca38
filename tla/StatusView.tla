----------------------------- MODULE StatusView -----------------------------
(***************************************************************************)
(* What the user is shown: the tooltip of the tray (src/tray/mod.rs) and   *)
(* the page of the dashboard (api_status, api_config, dashboard.js).  Both *)
(* are put together from two requests, of which either may not get through *)
(* and between which the service may change, update, end or be upgraded.   *)
(* A request that fails changes what the view says and leaves the list of  *)
(* the page as it is.                                                      *)
(*                                                                         *)
(* One view is watched, a tray or the page; the others are among the other *)
(* clients of the pipe, which is the one of module Pipe with its timeouts  *)
(* left out: one client at a time, and none from the end of an answer      *)
(* until the next instance has been created.                               *)
(***************************************************************************)
EXTENDS FiniteSets

CONSTANTS
  Domains,
  Fetches,    \* what makes the page fetch: its timer, its button
  Free, None, \* the pipe has no client; there is no pipe
  Other       \* the pipe has another client

ASSUME StatusViewAssumption ==
  /\ "tray" \notin Fetches
  /\ {Free, None, Other} \cap (Fetches \cup {"tray"}) = {} /\ Free # None /\ Other # None

Jobs == Fetches \cup {"tray"}

VARIABLES
  running,   \* whether the service is
  pipe,      \* None, Free, Other, or the job that has it
  domains,   \* the configured domains
  success,   \* whether there has been a successful update since the start
  updated,   \* the domains of the last one
  upgraded,  \* whether the service is of another version than the viewers
  calm,      \* whether nobody but the view begins anything any more
  view,      \* the view that is watched
  pc, gotSuccess, gotUpdated, gotDomains,  \* of each job
  shown      \* what it shows

service == <<running, domains, success, updated, upgraded, calm, view>>
got == <<gotSuccess, gotUpdated, gotDomains>>
job == <<pc, got>>
vars == <<service, pipe, job, shown>>

\* A tooltip or a banner, and the domains of the page with those it marks.
Text == [says : {"connecting", "unreachable", "notRunning", "noUpdates", "notAll", "updated"},
         list : SUBSET Domains, marked : SUBSET Domains]

TypeOK ==
  /\ running \in BOOLEAN /\ success \in BOOLEAN /\ upgraded \in BOOLEAN
  /\ pipe \in Jobs \cup {Free, None, Other} /\ calm \in BOOLEAN /\ view \in {"tray", "page"}
  /\ pipe \in Jobs => pc[pipe] \in {"status", "config"}
  /\ domains \subseteq Domains /\ updated \subseteq Domains
  /\ pc \in [Jobs -> {"idle", "askStatus", "status", "askConfig", "config", "render"}]
  /\ gotSuccess \in [Jobs -> BOOLEAN]
  /\ gotUpdated \in [Jobs -> SUBSET Domains]
  /\ gotDomains \in [Jobs -> SUBSET Domains]
  /\ shown \in Text

\* format_tooltip, and the banner of render
Verdict(ok, up, configured) ==
  CASE ~ok -> "noUpdates"
    [] ok /\ configured \subseteq up -> "updated"
    [] OTHER -> "notAll"

Render(ok, up, configured) ==
  [says   |-> Verdict(ok, up, configured),
   list   |-> IF view = "page" THEN configured ELSE {},
   marked |-> IF view = "page" /\ ok THEN configured \ up ELSE {}]

Truth == Render(success, updated, domains)

Init ==
  /\ running = FALSE /\ pipe = None
  /\ domains = {} /\ success = FALSE /\ updated = {}
  /\ upgraded = FALSE /\ calm = FALSE /\ view \in {"tray", "page"}
  /\ pc = [j \in Jobs |-> "idle"]
  /\ gotSuccess = [j \in Jobs |-> FALSE]
  /\ gotUpdated = [j \in Jobs |-> {}]
  /\ gotDomains = [j \in Jobs |-> {}]
  /\ shown = [says |-> IF view = "page" THEN "connecting" ELSE "notRunning",
              list |-> {}, marked |-> {}]

-----------------------------------------------------------------------------
(* The viewers. *)

Goto(j, l) == pc' = [pc EXCEPT ![j] = l] /\ UNCHANGED got

\* What the job has asked for is over, and with it its local variables.
Done(j) ==
  /\ pc' = [pc EXCEPT ![j] = "idle"]
  /\ gotSuccess' = [gotSuccess EXCEPT ![j] = FALSE]
  /\ gotUpdated' = [gotUpdated EXCEPT ![j] = {}]
  /\ gotDomains' = [gotDomains EXCEPT ![j] = {}]

\* Bug: an error takes the domains from the page.
BlankPage(j, what) ==
  /\ shown' = [says |-> what, list |-> {}, marked |-> {}]
  /\ Done(j)

\* The list of domains and its marks stay.
SetBanner(j, what) ==
  /\ shown' = [shown EXCEPT !.says = what]
  /\ Done(j)

\* WM_TIMER
TrayTimer ==
  /\ view = "tray" /\ pc["tray"] = "idle"
  /\ IF running
     THEN Goto("tray", "askStatus") /\ UNCHANGED shown
     ELSE SetBanner("tray", "notRunning")
  /\ UNCHANGED <<service, pipe>>

\* fetchData
Fetch(f) ==
  /\ view = "page" /\ pc[f] = "idle"
  /\ Goto(f, "askStatus")
  /\ UNCHANGED <<service, pipe, shown>>

FailText == IF view = "tray" THEN "noUpdates" ELSE "notRunning"

\* Bug: the page stays as it is.
FailSilently(j) ==
  IF view = "tray" THEN SetBanner(j, FailText) ELSE Done(j) /\ UNCHANGED shown

\* query_status is None, or the answer of the dashboard is 503.
Fail(j) == SetBanner(j, FailText)

\* An answer of Err makes a tooltip like a failure; the page gets a 500.
Reject(j) == IF view = "tray" THEN Fail(j) ELSE Done(j) /\ UNCHANGED shown

Ask(j, from, to) ==
  /\ pc[j] = from
  /\ IF pipe = Free
     THEN pipe' = j /\ Goto(j, to) /\ UNCHANGED shown
     ELSE Fail(j) /\ UNCHANGED pipe
  /\ UNCHANGED service

\* The server of the dashboard is between two ports, or gone for a while; it
\* answers what it was asked before it goes.
Unreachable(f) ==
  /\ ~calm /\ pc[f] \in {"askStatus", "askConfig"}
  /\ SetBanner(f, "unreachable")
  /\ UNCHANGED <<service, pipe>>

\* The service ended before it answered.
Lost(j) ==
  /\ pc[j] \in {"status", "config"} /\ pipe # j
  /\ Fail(j)
  /\ UNCHANGED <<service, pipe>>

\* Bug: the client keeps the instance.
Kept == UNCHANGED pipe

\* The client has its answer once the instance is dropped; there is none then.
Dropped == pipe' = None

GetStatus(j) ==
  /\ pc[j] = "status" /\ pipe = j
  /\ Dropped
  /\ IF upgraded
     THEN Reject(j)
     ELSE /\ gotSuccess' = [gotSuccess EXCEPT ![j] = success]
          /\ gotUpdated' = [gotUpdated EXCEPT ![j] = updated]
          /\ pc' = [pc EXCEPT ![j] = "askConfig"]
          /\ UNCHANGED <<gotDomains, shown>>
  /\ UNCHANGED service

GetConfig(j) ==
  /\ pc[j] = "config" /\ pipe = j
  /\ Dropped
  /\ IF upgraded
     THEN Reject(j)
     ELSE /\ gotDomains' = [gotDomains EXCEPT ![j] = domains]
          /\ pc' = [pc EXCEPT ![j] = "render"]
          /\ UNCHANGED <<gotSuccess, gotUpdated, shown>>
  /\ UNCHANGED service

\* Of two fetches the one with the older answers may be the later.
Show(j) ==
  /\ pc[j] = "render"
  /\ shown' = Render(gotSuccess[j], gotUpdated[j], gotDomains[j])
  /\ Done(j)
  /\ UNCHANGED <<service, pipe>>

JobStep(j) ==
  \/ Ask(j, "askStatus", "status") \/ GetStatus(j)
  \/ Ask(j, "askConfig", "config") \/ GetConfig(j)
  \/ Show(j) \/ Lost(j)

-----------------------------------------------------------------------------
(* The service. *)

CreatePipe ==
  /\ running /\ pipe = None
  /\ pipe' = Free
  /\ UNCHANGED <<service, job, shown>>

OtherOpens ==
  /\ ~calm /\ pipe = Free
  /\ pipe' = Other
  /\ UNCHANGED <<service, job, shown>>

OtherIsAnswered ==
  /\ pipe = Other
  /\ Dropped
  /\ UNCHANGED <<service, job, shown>>

Acts == ~calm /\ UNCHANGED <<calm, view, job, shown>>

Start ==
  /\ Acts /\ ~running
  /\ running' = TRUE
  /\ UNCHANGED <<pipe, domains, success, updated, upgraded>>

Stop ==
  /\ Acts /\ running
  /\ running' = FALSE /\ pipe' = None
  /\ success' = FALSE /\ updated' = {}
  /\ UNCHANGED <<domains, upgraded>>

Upgrade ==
  /\ Acts /\ ~running
  /\ upgraded' = TRUE
  /\ UNCHANGED <<pipe, running, domains, success, updated>>

Change(d) ==
  /\ Acts /\ running
  /\ domains' \in {domains \cup {d}, domains \ {d}}
  /\ UNCHANGED <<pipe, running, success, updated, upgraded>>

\* The configuration of an update may be the one before the last change.
Update(ds) ==
  /\ Acts /\ running
  /\ ds \in {domains} \cup {domains \cup {d} : d \in Domains} \cup {domains \ {d} : d \in Domains}
  /\ success' = TRUE /\ updated' = ds
  /\ UNCHANGED <<pipe, running, domains, upgraded>>

CalmDown ==
  /\ ~calm /\ calm' = TRUE
  /\ UNCHANGED <<running, domains, success, updated, upgraded, view, pipe, job, shown>>

Next ==
  \/ TrayTimer
  \/ \E f \in Fetches : Fetch(f) \/ Unreachable(f)
  \/ \E j \in Jobs : JobStep(j)
  \/ CreatePipe \/ OtherOpens \/ OtherIsAnswered \/ Start \/ Stop \/ Upgrade \/ CalmDown
  \/ \E d \in Domains : Change(d)
  \/ \E ds \in SUBSET Domains : Update(ds)

Spec == Init /\ [][Next]_vars

\* The timers fire, requests end, and a service that runs creates its pipe.
FairSpec ==
  /\ Spec
  /\ \A j \in Jobs : WF_vars(JobStep(j))
  /\ WF_vars(TrayTimer) /\ \A f \in Fetches : WF_vars(Fetch(f))
  /\ WF_vars(CreatePipe) /\ WF_vars(OtherIsAnswered)

-----------------------------------------------------------------------------
(* Properties. *)

\* What a view ought to say; a request that fails makes it say FailText.
Expected == IF running THEN Verdict(success, updated, domains) ELSE "notRunning"

(***************************************************************************)
(* Once only the view goes on, it comes to say what is the case, and keeps *)
(* to it -- or, when the service runs, that a request did not get through, *)
(* and nothing else: not what an earlier state, an older answer that comes *)
(* late or the way to the dashboard made it say.  (Unless the service has  *)
(* been upgraded under it.)                                                *)
(***************************************************************************)
Settles ==
  <>(calm /\ ~upgraded) =>
    <>[](shown.says \in {Expected} \cup (IF running THEN {FailText} ELSE {}))

(***************************************************************************)
(* If in addition its second request meets an instance of the pipe again   *)
(* and again -- the code sends it at once, while the service has yet to    *)
(* create one -- the page comes to list the domains and to mark those not  *)
(* updated as they are, and keeps to it through every request that fails;  *)
(* and again and again all it shows is right.                              *)
(***************************************************************************)
ShowsTheTruth ==
  <>(calm /\ ~upgraded /\ running) /\ []<>(\E j \in Jobs : pc[j] = "config") =>
    /\ <>[](shown.list = Truth.list /\ shown.marked = Truth.marked)
    /\ []<>(shown = Truth)
=============================================================================
