-------------------------- MODULE StatusViewProofs --------------------------
(* Theorems about StatusView, for any domains and any causes of a fetch. *)
EXTENDS StatusView, TLAPS

(***************************************************************************)
(* What a view makes of its answers is a text.                             *)
(***************************************************************************)
LEMMA RenderText ==
  ASSUME NEW ok \in BOOLEAN, NEW up \in SUBSET Domains, NEW configured \in SUBSET Domains
  PROVE  Render(ok, up, configured) \in Text
BY DEF Render, Verdict, Text

(***************************************************************************)
(* So is what it says when a request has failed, with the rest as it was.  *)
(***************************************************************************)
LEMMA BannerText ==
  ASSUME TypeOK, NEW j \in Jobs, NEW what \in {"unreachable", "notRunning", "noUpdates"},
         SetBanner(j, what)
  PROVE  shown' \in Text
BY DEF SetBanner, Text, TypeOK

(***************************************************************************)
(* A job that is over forgets its answers.                                 *)
(***************************************************************************)
LEMMA DoneType ==
  ASSUME TypeOK, NEW j \in Jobs, Done(j)
  PROVE  /\ pc' \in [Jobs -> {"idle", "askStatus", "status", "askConfig", "config", "render"}]
         /\ gotSuccess' \in [Jobs -> BOOLEAN] /\ gotUpdated' \in [Jobs -> SUBSET Domains]
         /\ gotDomains' \in [Jobs -> SUBSET Domains]
         /\ \A i \in Jobs \ {j} : pc'[i] = pc[i]
BY DEF Done, TypeOK

-----------------------------------------------------------------------------
(***************************************************************************)
(* A step of the view: the pipe is left to its others, taken for a request *)
(* or dropped with the answer.                                             *)
(***************************************************************************)
LEMMA JobKeepsType ==
  ASSUME TypeOK, NEW j \in Jobs,
         \/ JobStep(j) \/ (j = "tray" /\ TrayTimer)
         \/ (j \in Fetches /\ (Fetch(j) \/ Unreachable(j)))
  PROVE  TypeOK'
<1> DEFINE L == {"idle", "askStatus", "status", "askConfig", "config", "render"}
           Held == /\ pipe' \in Jobs \cup {Free, None, Other}
                   /\ pipe' \in Jobs => pc'[pipe'] \in {"status", "config"}
           Views == /\ shown' \in Text /\ pc' \in [Jobs -> L]
                    /\ gotSuccess' \in [Jobs -> BOOLEAN]
                    /\ gotUpdated' \in [Jobs -> SUBSET Domains]
                    /\ gotDomains' \in [Jobs -> SUBSET Domains]
                    /\ \A i \in Jobs \ {j} : pc'[i] = pc[i]
<1>1. UNCHANGED service
  BY DEF JobStep, TrayTimer, Fetch, Unreachable, Ask, GetStatus, GetConfig, Show, Lost
<1> SUFFICES Held /\ Views
  BY <1>1 DEF service, TypeOK
<1>2. Free \notin Jobs /\ None \notin Jobs
  BY StatusViewAssumption DEF Jobs
<1>3. ASSUME NEW what \in {"unreachable", "notRunning", "noUpdates"}, SetBanner(j, what)
      PROVE  Views
  BY <1>3, BannerText, DoneType DEF SetBanner
<1>4. ASSUME Fail(j) PROVE Views
  BY <1>3, <1>4 DEF Fail, FailText
<1>5. ASSUME NEW l \in L, Goto(j, l), UNCHANGED shown PROVE Views
  BY <1>5 DEF Goto, got, TypeOK
<1>6. ASSUME Reject(j) PROVE Views
  BY <1>4, <1>6, DoneType DEF Reject, TypeOK
\* Somebody else keeps the pipe, or nobody has it.
<1>7. ASSUME pipe' = pipe, pipe # j, Views PROVE Held
  BY <1>7 DEF TypeOK
<1>8. ASSUME NEW from \in {"askStatus", "askConfig"}, NEW to \in {"status", "config"},
             Ask(j, from, to)
      PROVE  Held /\ Views
  <2>1. CASE pipe = Free
    BY <1>5, <1>8, <2>1 DEF Ask, Goto, TypeOK
  <2>2. CASE pipe # Free
    BY <1>4, <1>7, <1>8, <2>2 DEF Ask, TypeOK
  <2> QED BY <2>1, <2>2
<1>9. CASE Ask(j, "askStatus", "status") \/ Ask(j, "askConfig", "config")
  BY <1>8, <1>9
<1>10. CASE GetStatus(j)
  <2>1. CASE upgraded
    BY <1>2, <1>6, <1>10, <2>1 DEF GetStatus, Dropped
  <2>2. CASE ~upgraded
    BY <1>2, <1>10, <2>2 DEF GetStatus, Dropped, TypeOK
  <2> QED BY <2>1, <2>2
<1>11. CASE GetConfig(j)
  <2>1. CASE upgraded
    BY <1>2, <1>6, <1>11, <2>1 DEF GetConfig, Dropped
  <2>2. CASE ~upgraded
    BY <1>2, <1>11, <2>2 DEF GetConfig, Dropped, TypeOK
  <2> QED BY <2>1, <2>2
<1>12. CASE Show(j)
  <2>1. shown' \in Text
    BY <1>12, RenderText DEF Show, TypeOK
  <2>2. Views /\ pipe' = pipe /\ pipe # j
    BY <1>12, <2>1, DoneType DEF Show, TypeOK
  <2> QED BY <1>7, <2>2
<1>13. CASE Lost(j)
  BY <1>4, <1>7, <1>13 DEF Lost
<1>14. CASE j = "tray" /\ TrayTimer
  <2>1. pipe' = pipe /\ pipe # j
    BY <1>14 DEF TrayTimer, TypeOK
  <2>2. Views
    BY <1>3, <1>5, <1>14 DEF TrayTimer
  <2> QED BY <1>7, <2>1, <2>2
<1>15. CASE j \in Fetches /\ (Fetch(j) \/ Unreachable(j))
  <2>1. pipe' = pipe /\ pipe # j
    BY <1>15 DEF Fetch, Unreachable, TypeOK
  <2>2. Views
    BY <1>3, <1>5, <1>15 DEF Fetch, Unreachable
  <2> QED BY <1>7, <2>1, <2>2
<1> QED BY <1>9, <1>10, <1>11, <1>12, <1>13, <1>14, <1>15 DEF JobStep

(***************************************************************************)
(* The steps of the service and of its other clients.                      *)
(***************************************************************************)
LEMMA ServiceKeepsType ==
  ASSUME TypeOK,
         \/ CreatePipe \/ OtherOpens \/ OtherIsAnswered \/ Start \/ Stop \/ Upgrade \/ CalmDown
         \/ \E d \in Domains : Change(d)
         \/ \E ds \in SUBSET Domains : Update(ds)
         \/ UNCHANGED vars
  PROVE  TypeOK'
<1> USE StatusViewAssumption DEF TypeOK, service, job, got, Acts, Dropped, Jobs
<1>1. CASE CreatePipe BY <1>1 DEF CreatePipe
<1>2. CASE OtherOpens BY <1>2 DEF OtherOpens
<1>3. CASE OtherIsAnswered BY <1>3 DEF OtherIsAnswered
<1>4. CASE Start BY <1>4 DEF Start
<1>5. CASE Stop BY <1>5 DEF Stop
<1>6. CASE Upgrade BY <1>6 DEF Upgrade
<1>7. CASE CalmDown BY <1>7 DEF CalmDown
<1>8. ASSUME NEW d \in Domains, Change(d) PROVE TypeOK'
  BY <1>8 DEF Change
<1>9. ASSUME NEW ds \in SUBSET Domains, Update(ds) PROVE TypeOK'
  BY <1>9 DEF Update
<1>10. CASE UNCHANGED vars BY <1>10 DEF vars
<1> QED BY <1>1, <1>2, <1>3, <1>4, <1>5, <1>6, <1>7, <1>8, <1>9, <1>10

(***************************************************************************)
(* Every variable of StatusView keeps its type; in particular a job that   *)
(* has the pipe is one that waits for an answer, so that the pipe goes to  *)
(* nobody who will not give it back.                                       *)
(***************************************************************************)
THEOREM ViewTypeCorrect == Spec => []TypeOK
<1>1. Init => TypeOK
  <2> SUFFICES ASSUME Init PROVE TypeOK
    OBVIOUS
  <2>1. shown \in Text
    BY DEF Init, Text
  <2>2. pipe \notin Jobs
    BY StatusViewAssumption DEF Init, Jobs
  <2> QED BY <2>1, <2>2 DEF Init, TypeOK
<1>2. TypeOK /\ [Next]_vars => TypeOK'
  <2> SUFFICES ASSUME TypeOK, [Next]_vars PROVE TypeOK'
    OBVIOUS
  <2>1. ASSUME NEW j \in Jobs, JobStep(j) PROVE TypeOK'
    BY <2>1, JobKeepsType
  <2>2. ASSUME NEW f \in Fetches, Fetch(f) \/ Unreachable(f) PROVE TypeOK'
    BY <2>2, JobKeepsType DEF Jobs
  <2>3. CASE TrayTimer
    BY <2>3, JobKeepsType DEF Jobs
  <2> QED BY <2>1, <2>2, <2>3, ServiceKeepsType DEF Next
<1> QED BY <1>1, <1>2, PTL DEF Spec
=============================================================================
