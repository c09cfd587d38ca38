------------------------------ MODULE Service ------------------------------
(***************************************************************************)
(* The BarvazDNS service process (src/service/mod.rs): the listening loop, *)
(* which carries out one request at a time, the update loop, which keeps   *)
(* DuckDNS up to date, the channel between them, and config.toml, which    *)
(* outlives the process and which others may edit.                         *)
(*                                                                         *)
(* The configuration exists in three copies -- the file, the listening     *)
(* loop's ctx and the update loop's loopConfig -- and in the messages on   *)
(* the way from the second to the third.                                   *)
(*                                                                         *)
(* Requests that only read (GetConfig, GetStatus, Version), DebugLevel,    *)
(* which only concerns the log, requests that fail validation, ForceUpdate *)
(* with a file that does not parse, and a tick that finds the              *)
(* configuration not ready to be sent change nothing modelled here: they   *)
(* are stuttering steps.                                                   *)
(***************************************************************************)
EXTENDS DuckDns, Sequences

CONSTANTS
  Absent, Empty, Garbled, \* no file; a truncated one; one that does not parse
  NoSuccess,              \* there has been no successful update
  Requests,               \* the changes clients ask for
  InitialFiles,           \* what config.toml may hold at first
  Edits,                  \* what others may make of it later
  ChanCapacity            \* the capacity of the channel

FileContent == Saved \cup {Absent, Empty, Garbled}

\* UpdateStatus.last_success, of which the time is left out.
Success == [domains: SUBSET Domain]

ASSUME ServiceAssumption ==
  /\ {Absent, Empty, Garbled} \cap Saved = {} /\ Absent \notin {Empty, Garbled}
  /\ NoSuccess \notin Success
  /\ Requests \subseteq Change \cup {ForceUpdate}
  /\ InitialFiles \subseteq FileContent
  /\ Edits \subseteq FileContent
  /\ ChanCapacity \in Nat \ {0}

VARIABLES
  file,       \* config.toml
  lpc,        \* where the listening loop is, or "stopped"
  ctx,        \* context.config, the listening loop's configuration
  req,        \* the request it is carrying out, or carried out last
  answer,     \* what the client of req was told
  chan,       \* configurations sent but not yet received
  loopConfig, \* the update loop's configuration
  status      \* the domains of the last successful update

listenVars == <<lpc, ctx, req, answer>>
vars == <<dnsVars, file, listenVars, chan, loopConfig, status>>

NoRequest == [type |-> "None"]

TypeOK ==
  /\ DnsTypeOK
  /\ file \in FileContent
  /\ lpc \in {"stopped", "installing", "boot", "idle", "open", "write",
              "notify", "force"}
  /\ ctx \in Config
  /\ req \in Change \cup {ForceUpdate, NoRequest}
  /\ answer \in {"none", "ok", "err"}
  /\ chan \in Seq(Config)
  /\ Len(chan) <= ChanCapacity
  /\ loopConfig \in Config
  /\ status \in {NoSuccess} \cup Success

\* A stopped process remembers nothing: its variables rest at these values.
Init ==
  /\ DnsInit
  /\ file \in InitialFiles
  /\ lpc = "stopped"
  /\ ctx = DefaultConfig
  /\ req = NoRequest
  /\ answer = "none"
  /\ chan = << >>
  /\ loopConfig = DefaultConfig
  /\ status = NoSuccess

Running == lpc \notin {"stopped", "installing"}

\* The listening loop and the update loop only call update while they wait
\* for it, so the configuration a job works for is its caller's.
ConfigOf(p) == IF p = "loop" THEN loopConfig ELSE ctx

Reply(a) == lpc' = "idle" /\ answer' = a

\* The second half of store(), which writes the file it has truncated.  If
\* someone else wrote to it in between, the tail of a longer text may remain
\* behind the new one.
Written(c) ==
  file' \in {Stored(c)} \cup (IF file = Empty THEN {} ELSE {Garbled})

\* Bug: an unbounded channel.
SendUnbounded(c) == chan' = Append(chan, c)

\* tokio::sync::mpsc: the sender waits until there is room.
Send(c) ==
  /\ Len(chan) < ChanCapacity
  /\ chan' = Append(chan, c)
----------------------------------------------------------------------------
(* Starting and stopping *)

\* service_main finds a file that parses; both loops begin with the same
\* configuration.  With a file that does not parse the service stops again.
Start ==
  /\ lpc = "stopped"
  /\ file \in Saved
  /\ ctx' = Parsed(file)
  /\ loopConfig' = Parsed(file)
  /\ lpc' = "boot"
  /\ UNCHANGED <<dnsVars, file, req, answer, chan, status>>

\* Without a file it installs the default one: the first half of store().
StartInstall ==
  /\ lpc = "stopped"
  /\ file = Absent
  /\ file' = Empty
  /\ lpc' = "installing"
  /\ UNCHANGED <<dnsVars, ctx, req, answer, chan, loopConfig, status>>

\* The second half, after which both loops begin with the defaults.
FinishInstall ==
  /\ lpc = "installing"
  /\ Written(DefaultConfig)
  /\ ctx' = DefaultConfig
  /\ loopConfig' = DefaultConfig
  /\ lpc' = "boot"
  /\ UNCHANGED <<dnsVars, req, answer, chan, status>>

\* The write fails: the service reports an error and stops.
InstallFails ==
  /\ "store" \in Faults
  /\ lpc = "installing"
  /\ lpc' = "stopped"
  /\ UNCHANGED <<dnsVars, file, ctx, req, answer, chan, loopConfig, status>>

\* force_update_on_service_start, once the delay after a boot is over.
Boot ==
  /\ lpc = "boot"
  /\ Send(ctx)
  /\ lpc' = "idle"
  /\ UNCHANGED <<dnsVars, file, ctx, req, answer, loopConfig, status>>

\* The process ends: a STOP control (the tasks are not waited for), an abort
\* or a power failure.  A call of update in flight is cut off where it is.  In
\* instances with "stop" but not "halt" this never hits the middle of store().
Halt ==
  /\ lpc # "stopped"
  /\ "halt" \in Faults \/ ("stop" \in Faults /\ lpc \notin {"installing", "write"})
  /\ lpc' = "stopped"
  /\ job' = [p \in Updater |-> JobAt("idle")]
  /\ ctx' = DefaultConfig
  /\ req' = NoRequest
  /\ answer' = "none"
  /\ chan' = << >>
  /\ loopConfig' = DefaultConfig
  /\ status' = NoSuccess
  /\ UNCHANGED <<dns, ip, ip6, file>>
----------------------------------------------------------------------------
(* The listening loop: handle_message *)

\* Bug: the update loop hears of a change that is not written.
HandleChangeUnsaved(r) ==
  /\ lpc = "idle"
  /\ r \in Change
  /\ Accepts(r, ctx)
  /\ ctx' = Applied(r, ctx)
  /\ req' = r
  /\ answer' = "none"
  /\ lpc' = "notify"
  /\ UNCHANGED <<dnsVars, file, chan, loopConfig, status>>

\* A change that passes validation is made in memory first.
HandleChange(r) ==
  /\ lpc = "idle"
  /\ r \in Change
  /\ Accepts(r, ctx)
  /\ ctx' = Applied(r, ctx)
  /\ req' = r
  /\ answer' = "none"
  /\ lpc' = "open"
  /\ UNCHANGED <<dnsVars, file, chan, loopConfig, status>>

\* ForceUpdate reads the file again and calls update with what it says.
HandleForceUpdate ==
  /\ lpc = "idle"
  /\ file \in Saved
  /\ ctx' = Parsed(file)
  /\ req' = ForceUpdate
  /\ answer' = "none"
  /\ lpc' = "force"
  /\ job' = [job EXCEPT !["force"] = JobAt("lookup4")]
  /\ UNCHANGED <<dns, ip, ip6, file, chan, loopConfig, status>>

\* If the file is gone, Config::read installs the default one on the way.
HandleForceInstall ==
  /\ lpc = "idle"
  /\ file = Absent
  /\ file' = Empty
  /\ req' = ForceUpdate
  /\ answer' = "none"
  /\ lpc' = "write"
  /\ UNCHANGED <<dnsVars, ctx, chan, loopConfig, status>>

Receive ==
  \E r \in Requests :
    HandleChange(r) \/ (r = ForceUpdate /\ (HandleForceUpdate \/ HandleForceInstall))

\* store() opens the file, which truncates it, and then writes it.
StoreOpen ==
  /\ lpc = "open"
  /\ file' = Empty
  /\ lpc' = "write"
  /\ UNCHANGED <<dnsVars, ctx, req, answer, chan, loopConfig, status>>

StoreWrite ==
  /\ lpc = "write"
  /\ IF req = ForceUpdate
     THEN /\ Written(DefaultConfig)
          /\ ctx' = DefaultConfig
          /\ job' = [job EXCEPT !["force"] = JobAt("lookup4")]
          /\ lpc' = "force"
     ELSE /\ Written(ctx)
          /\ lpc' = "notify"
          /\ UNCHANGED <<ctx, job>>
  /\ UNCHANGED <<dns, ip, ip6, req, answer, chan, loopConfig, status>>

\* store() fails in either half.  The client is told so; what was changed in
\* memory stays changed, and the update loop hears nothing of it.
StoreFails ==
  /\ "store" \in Faults
  /\ lpc \in {"open", "write"}
  /\ Reply("err")
  /\ UNCHANGED <<dnsVars, file, ctx, req, chan, loopConfig, status>>

\* Bug: try_send, whose failure is ignored.
NotifyIfRoom ==
  /\ lpc = "notify"
  /\ chan' = IF Len(chan) < ChanCapacity THEN Append(chan, ctx) ELSE chan
  /\ Reply("ok")
  /\ UNCHANGED <<dnsVars, file, ctx, req, loopConfig, status>>

\* The new configuration is sent to the update loop, which may have to make
\* room for it first, and the client is answered.
Notify ==
  /\ lpc = "notify"
  /\ Send(ctx)
  /\ Reply("ok")
  /\ UNCHANGED <<dnsVars, file, ctx, req, loopConfig, status>>

\* A forced update has returned.  The update loop is not told of it.
ForceDone ==
  /\ lpc = "force"
  /\ job["force"].pc \in {"ok", "err"}
  /\ Reply(job["force"].pc)
  /\ status' = IF job["force"].pc = "ok" THEN [domains |-> ctx.domain] ELSE status
  /\ Return("force", "idle")
  /\ UNCHANGED <<dns, ip, ip6, file, ctx, req, chan, loopConfig>>
----------------------------------------------------------------------------
(* The update loop: update_ip_loop *)

BeginUpdate(cfg) ==
  job' = IF Ready(cfg) THEN [job EXCEPT !["loop"] = JobAt("lookup4")] ELSE job

LoopWaits == Running /\ job["loop"].pc = "idle"

\* Bug: the newest configuration first, the older ones later.
LoopReceiveNewest ==
  /\ LoopWaits
  /\ chan # << >>
  /\ loopConfig' = chan[Len(chan)]
  /\ chan' = SubSeq(chan, 1, Len(chan) - 1)
  /\ BeginUpdate(loopConfig')
  /\ UNCHANGED <<dns, ip, ip6, file, listenVars, status>>

\* A new configuration arrives and is used at once.
LoopReceive ==
  /\ LoopWaits
  /\ chan # << >>
  /\ loopConfig' = Head(chan)
  /\ chan' = Tail(chan)
  /\ BeginUpdate(Head(chan))
  /\ UNCHANGED <<dns, ip, ip6, file, listenVars, status>>

\* Bug: no more updates after the first successful one.
LoopTickOnce ==
  /\ LoopWaits
  /\ status = NoSuccess
  /\ BeginUpdate(loopConfig)
  /\ UNCHANGED <<dns, ip, ip6, file, listenVars, chan, loopConfig, status>>

\* The interval elapses; the first tick is immediate.
LoopTick ==
  /\ LoopWaits
  /\ BeginUpdate(loopConfig)
  /\ UNCHANGED <<dns, ip, ip6, file, listenVars, chan, loopConfig, status>>

\* Bug: an error ends the loop.
LoopDoneOnSuccess ==
  /\ job["loop"].pc = "ok"
  /\ status' = [domains |-> loopConfig.domain]
  /\ loopConfig' = [loopConfig EXCEPT !.clear_ip_addresses = FALSE]
  /\ Return("loop", "idle")
  /\ UNCHANGED <<dns, ip, ip6, file, listenVars, chan>>

\* Bug: a failed update counts as a success.
LoopDoneAnyway ==
  /\ job["loop"].pc \in {"ok", "err"}
  /\ status' = [domains |-> loopConfig.domain]
  /\ loopConfig' = [loopConfig EXCEPT !.clear_ip_addresses = FALSE]
  /\ Return("loop", "idle")
  /\ UNCHANGED <<dns, ip, ip6, file, listenVars, chan>>

\* update has returned.  Whatever its outcome the flag is dropped.
LoopDone ==
  /\ job["loop"].pc \in {"ok", "err"}
  /\ status' = IF job["loop"].pc = "ok" THEN [domains |-> loopConfig.domain] ELSE status
  /\ loopConfig' = [loopConfig EXCEPT !.clear_ip_addresses = FALSE]
  /\ Return("loop", "idle")
  /\ UNCHANGED <<dns, ip, ip6, file, listenVars, chan>>
----------------------------------------------------------------------------
(* The specification *)

Call(p) ==
  /\ UpdateStep(p, ConfigOf(p))
  /\ UNCHANGED <<file, listenVars, chan, loopConfig, status>>

\* Someone edits config.toml.
Edit ==
  /\ file' \in Edits \ {file}
  /\ UNCHANGED <<dnsVars, listenVars, chan, loopConfig, status>>

\* What happens to a call of update, or to the host, from outside.
Outside ==
  /\ \/ AddressChange
     \/ \E p \in Updater :
          \/ LookupFails(p)
          \/ HttpRefused(p)
          \/ HttpAnswerLost(p, ConfigOf(p))
          \/ HttpHangs(p)
  /\ UNCHANGED <<file, listenVars, chan, loopConfig, status>>

ListenStep ==
  FinishInstall \/ Boot \/ StoreOpen \/ StoreWrite \/ Notify \/ ForceDone \/ Call("force")

LoopStep == LoopReceive \/ LoopTick \/ LoopDone \/ Call("loop")

Environment ==
  Start \/ StartInstall \/ InstallFails \/ Receive \/ StoreFails \/ Halt \/ Edit
  \/ Outside

Next == ListenStep \/ LoopStep \/ Environment

Spec == Init /\ [][Next]_vars

(***************************************************************************)
(* Both loops are tasks of a runtime that keeps polling them, and every    *)
(* lookup and HTTP call returns at some point, one way or the other.  When *)
(* a message and a tick are both there, select! chooses at random: it does *)
(* not choose the tick for ever.                                           *)
(***************************************************************************)
Fairness == WF_vars(ListenStep) /\ WF_vars(LoopStep) /\ SF_vars(LoopReceive)

FairSpec == Spec /\ Fairness
----------------------------------------------------------------------------
(* Properties *)

\* Every configuration in the process.
InProcess == {ctx, loopConfig} \cup {chan[i] : i \in DOMAIN chan}

(***************************************************************************)
(* No configuration in the process has an interval below the minimum,      *)
(* whatever clients ask for and whatever others write to the file:         *)
(* update_ip_loop hands the interval to tokio::time::interval, which       *)
(* panics on zero.                                                         *)
(***************************************************************************)
IntervalFloor == \A c \in InProcess : c.interval >= MinimalInterval

\* What others have written, or will write, to the file.
ByHand == (InitialFiles \cup Edits) \cap Saved

(***************************************************************************)
(* validate_add_domain is the only guard of what is sent to DuckDNS:       *)
(* Config::read does not look at the domains of a file.  So a list may be  *)
(* too long, but then it is, or is what removals have left of, one that    *)
(* was written by hand, and nothing is added to it; and a name that        *)
(* is_valid_domain refuses was written by hand.  Adding, removing,         *)
(* restarting and reading such a file again in any order leads to no other *)
(* excess.                                                                 *)
(***************************************************************************)
DomainLimit ==
  \A c \in InProcess :
    /\ \/ Cardinality(c.domain) <= MaxDomainCount
       \/ \E s \in ByHand : c.domain \subseteq s.domain
    /\ \A d \in c.domain \ ValidDomain : \E s \in ByHand : d \in s.domain

\* Reading the file back would give the settings of c.
OnDisk(c) == file \in Saved /\ SameSettings(Parsed(file), c)

(***************************************************************************)
(* Between requests, unless store() failed in the last one, reading the    *)
(* file back would give the settings the service works with: an            *)
(* acknowledged change survives a restart, and a forced update works with  *)
(* what it has read.  For instances in which nobody else edits the file.   *)
(***************************************************************************)
MemoryMatchesDisk == lpc = "idle" /\ answer # "err" => OnDisk(ctx)

\* The configuration the update loop has, or will have when it has received
\* all that was sent to it.
Newest == IF chan = << >> THEN loopConfig ELSE chan[Len(chan)]

(***************************************************************************)
(* Between requests, if the last one was an accepted change, the update    *)
(* loop has the settings of the listening loop or is about to receive      *)
(* them: no change is lost on the way, overtaken by an older one, or sent  *)
(* before it was complete.                                                 *)
(***************************************************************************)
LoopFollowsService ==
  lpc = "idle" /\ answer # "err" /\ req # ForceUpdate => SameSettings(Newest, ctx)

(***************************************************************************)
(* Once the update loop has dealt with a configuration that disables IPv6, *)
(* none of its domains keeps an AAAA record (duckdns.rs: "the ipv6         *)
(* configuration might have been changed to false, in which case we need   *)
(* to clear the ipv6 address").                                            *)
(***************************************************************************)
NoStaleIpv6 ==
  /\ lpc = "idle"
  /\ chan = << >>
  /\ job["loop"].pc = "idle"
  /\ Ready(loopConfig)
  /\ ~loopConfig.ipv6
  => \A d \in loopConfig.domain : dns[d].v6 = NoAddr

\* The domain has an address at DuckDNS, unless a call of update has just
\* cleared it and is about to send the new one.
Addressed(d) ==
  \/ dns[d].v4 # NoAddr
  \/ \E p \in Updater :
       /\ job[p].pc = "send"
       /\ ConfigOf(p).clear_ip_addresses
       /\ d \in ConfigOf(p).domain

(***************************************************************************)
(* The domains the status names as updated are reachable, or about to be:  *)
(* however the two callers interleave, and whatever lookup fails, a        *)
(* successful update is not undone.                                        *)
(***************************************************************************)
StatusBacked == status # NoSuccess => \A d \in status.domains : Addressed(d)

(***************************************************************************)
(* A stopped service can be started again: the file holds a configuration, *)
(* or there is none and the default one will be installed.  For instances  *)
(* in which nobody else edits the file.                                    *)
(***************************************************************************)
Restartable == lpc = "stopped" => file \in Saved \cup {Absent}

(***************************************************************************)
(* The listening loop always comes back for the next client: neither a     *)
(* full channel nor a slow or failing update keeps it for ever.  A server  *)
(* that never answers does: for instances without "hang".                  *)
(***************************************************************************)
RequestAnswered == lpc \notin {"idle", "stopped"} ~> lpc \in {"idle", "stopped"}

\* From some point on only the service itself takes steps: no request, fault,
\* edit or change of address.
Calm == <>[][ListenStep \/ LoopStep]_vars

\* The records of the domains hold the addresses of the host, as far as the
\* update loop is configured to publish them and the host has them.
UpToDate ==
  Running /\ Ready(loopConfig) /\ (loopConfig.ipv6 => ip6 # NoAddr) =>
    \A d \in loopConfig.domain :
      dns[d].v4 = ip /\ (loopConfig.ipv6 => dns[d].v6 = ip6)

(***************************************************************************)
(* Whatever has happened before -- failed updates, lost answers, two       *)
(* updates that raced with addresses looked up at different times -- once  *)
(* things are calm the records become correct and stay so.                 *)
(***************************************************************************)
Converges == Calm => <>[]UpToDate
============================================================================
