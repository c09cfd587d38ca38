--------------------------- MODULE ServiceProofs ---------------------------
(***************************************************************************)
(* Proofs about the service process, for every set of domains, tokens and  *)
(* intervals, every capacity of the channel, every combination of faults,  *)
(* and, except where a theorem says otherwise, whatever others write to    *)
(* config.toml.                                                            *)
(***************************************************************************)
EXTENDS Service, SequenceTheorems, FiniteSetTheorems, TLAPS
----------------------------------------------------------------------------
(* What the operators on configurations return *)

(* Reading a file gives a configuration whose interval is not too short    *)
(* (Config::read).                                                         *)
LEMMA ParsedConfig ==
  ASSUME NEW s \in Saved
  PROVE  Parsed(s) \in Config /\ Parsed(s).interval >= MinimalInterval
BY ConfigAssumption DEF Saved, Config, Parsed, InMemory, ClampInterval

(* What store() writes can be read again.                                  *)
LEMMA StoredSaved ==
  ASSUME NEW c \in Config
  PROVE  Stored(c) \in Saved
BY DEF Saved, Config, Stored

(* So can the default file, which gives the default configuration.         *)
LEMMA DefaultIsConfig ==
  DefaultConfig \in Config /\ DefaultConfig.interval >= MinimalInterval
BY ConfigAssumption DEF Config, DefaultConfig, InMemory

(* store() and then read() keep the settings, provided that the interval   *)
(* is not too short: the round trip through the file is lossless for       *)
(* every configuration the service works with.                             *)
LEMMA RoundTrip ==
  ASSUME NEW c \in Config, c.interval >= MinimalInterval
  PROVE  SameSettings(Parsed(Stored(c)), c)
BY ConfigAssumption DEF Config, Saved, Parsed, Stored, InMemory, ClampInterval, SameSettings

(* A change that passes validation gives a configuration, and keeps the    *)
(* interval from being too short (handle_message).                         *)
LEMMA AppliedConfig ==
  ASSUME NEW c \in Config, NEW r \in Change
  PROVE  /\ Applied(r, c) \in Config
         /\ Accepts(r, c) /\ c.interval >= MinimalInterval =>
              Applied(r, c).interval >= MinimalInterval
<1>1. CASE r \in [type: {"Interval"}, value: Interval]
  BY <1>1, ConfigAssumption DEF Config, Applied, Accepts
<1>2. CASE r \in [type: {"Token"}, value: Token]
  BY <1>2, ConfigAssumption DEF Config, Applied, Accepts
<1>3. CASE r \in [type: {"AddDomain", "RemoveDomain"}, value: Domain]
  BY <1>3, ConfigAssumption DEF Config, Applied, Accepts
<1>4. CASE r \in [type: {"Ipv6"}, value: BOOLEAN]
  BY <1>4, ConfigAssumption DEF Config, Applied, Accepts
<1> QED BY <1>1, <1>2, <1>3, <1>4 DEF Change
----------------------------------------------------------------------------
(* Type correctness *)

(* The steps of a call of update keep the types of what they change, when  *)
(* the configuration it works for is one.                                  *)
LEMMA DnsStepType ==
  ASSUME DnsTypeOK, NEW p \in Updater, NEW cfg \in Config,
         \/ UpdateStep(p, cfg)
         \/ LookupFails(p)
         \/ HttpRefused(p)
         \/ HttpAnswerLost(p, cfg)
         \/ HttpHangs(p)
         \/ AddressChange
  PROVE  DnsTypeOK'
<1> USE DEF DnsTypeOK
<1>1. job[p] \in Job /\ \A outcome \in {"ok", "err"} : JobAt(outcome) \in Job
  BY DEF Job, JobAt
<1>2. Cleared(cfg) \in [Domain -> [v4: IPv4 \cup {NoAddr}, v6: IPv6 \cup {NoAddr}]]
  BY DEF Cleared, NoRecord
<1>3. Published(p, cfg) \in [Domain -> [v4: IPv4 \cup {NoAddr}, v6: IPv6 \cup {NoAddr}]]
  BY <1>1 DEF Published, Job
<1>4. CASE LookupV4(p, cfg)
  BY <1>1, <1>4 DEF LookupV4, Return, Job, FirstRequest
<1>5. CASE LookupV6(p, cfg)
  BY <1>1, <1>5 DEF LookupV6, Return, Job, FirstRequest
<1>6. CASE HttpClear(p, cfg)
  BY <1>1, <1>2, <1>6 DEF HttpClear, Job
<1>7. CASE HttpUpdate(p, cfg)
  BY <1>1, <1>3, <1>7 DEF HttpUpdate, Return
<1>8. CASE LookupFails(p) \/ HttpRefused(p)
  BY <1>1, <1>8 DEF LookupFails, HttpRefused, Return
<1>9. CASE HttpAnswerLost(p, cfg)
  BY <1>1, <1>2, <1>3, <1>9 DEF HttpAnswerLost, Return
<1>10. CASE HttpHangs(p)
  BY <1>1, <1>10 DEF HttpHangs, Job
<1>11. CASE AddressChange
  BY <1>11 DEF AddressChange
<1> QED
  BY <1>4, <1>5, <1>6, <1>7, <1>8, <1>9, <1>10, <1>11 DEF UpdateStep

(* A configuration that is sent, or received, leaves the channel a bounded *)
(* sequence of configurations.                                             *)
LEMMA SendType ==
  ASSUME TypeOK, NEW c \in Config, Send(c)
  PROVE  chan' \in Seq(Config) /\ Len(chan') <= ChanCapacity
BY ServiceAssumption DEF TypeOK, Send

(* What is received is a configuration, and the rest is a bounded          *)
(* sequence.                                                               *)
LEMMA ReceiveType ==
  ASSUME TypeOK, chan # << >>
  PROVE  /\ Head(chan) \in Config
         /\ Tail(chan) \in Seq(Config)
         /\ Len(Tail(chan)) <= ChanCapacity
BY ServiceAssumption DEF TypeOK

(* The file may hold what a write leaves behind.                           *)
LEMMA WrittenType ==
  ASSUME NEW c \in Config, Written(c)
  PROVE  file' \in FileContent
BY StoredSaved DEF Written, FileContent

(* Initially every variable has its type.                                  *)
LEMMA InitType == Init => TypeOK
BY ServiceAssumption, ConfigAssumption, DefaultIsConfig
   DEF Init, DnsInit, TypeOK, DnsTypeOK, NoRecord, Job, JobAt, NoRequest

(* Every step of the service and of its environment keeps the types.       *)
LEMMA NextType == TypeOK /\ [Next]_vars => TypeOK'
<1> SUFFICES ASSUME TypeOK, [Next]_vars PROVE TypeOK'
  OBVIOUS
<1>0. \A pc \in {"idle", "lookup4", "ok", "err"} : JobAt(pc) \in Job
  BY DEF Job, JobAt
<1>1. CASE Start
  BY <1>1, ParsedConfig DEF Start, TypeOK, DnsTypeOK, dnsVars
<1>2. CASE StartInstall
  BY <1>2 DEF StartInstall, TypeOK, DnsTypeOK, dnsVars, FileContent
<1>3. CASE FinishInstall
  BY <1>3, DefaultIsConfig, WrittenType DEF FinishInstall, TypeOK, DnsTypeOK, dnsVars
<1>4. CASE InstallFails
  BY <1>4 DEF InstallFails, TypeOK, DnsTypeOK, dnsVars
<1>5. CASE Boot
  BY <1>5, SendType DEF Boot, TypeOK, DnsTypeOK, dnsVars
<1>6. CASE Halt
  BY <1>0, <1>6, DefaultIsConfig, ServiceAssumption
     DEF Halt, TypeOK, DnsTypeOK, NoRequest
<1>7. CASE Receive
  <2> PICK r \in Requests :
        HandleChange(r) \/ (r = ForceUpdate /\ (HandleForceUpdate \/ HandleForceInstall))
    BY <1>7 DEF Receive
  <2>1. CASE HandleChange(r)
    BY <2>1, AppliedConfig DEF HandleChange, TypeOK, DnsTypeOK, dnsVars
  <2>2. CASE HandleForceUpdate
    BY <1>0, <2>2, ParsedConfig DEF HandleForceUpdate, TypeOK, DnsTypeOK
  <2>3. CASE HandleForceInstall
    BY <2>3 DEF HandleForceInstall, TypeOK, DnsTypeOK, dnsVars, FileContent
  <2> QED BY <2>1, <2>2, <2>3
<1>8. CASE StoreOpen
  BY <1>8 DEF StoreOpen, TypeOK, DnsTypeOK, dnsVars, FileContent
<1>9. CASE StoreWrite
  <2>1. file' \in FileContent
    BY <1>9, DefaultIsConfig, WrittenType DEF StoreWrite, TypeOK
  <2> QED
    BY <1>0, <1>9, <2>1, DefaultIsConfig DEF StoreWrite, TypeOK, DnsTypeOK
<1>10. CASE StoreFails
  BY <1>10 DEF StoreFails, Reply, TypeOK, DnsTypeOK, dnsVars
<1>11. CASE Notify
  BY <1>11, SendType DEF Notify, Reply, TypeOK, DnsTypeOK, dnsVars
<1>12. CASE ForceDone
  BY <1>0, <1>12 DEF ForceDone, Reply, Return, Success, Config, TypeOK, DnsTypeOK, Updater
<1>13. CASE LoopReceive
  BY <1>0, <1>13, ReceiveType
     DEF LoopReceive, BeginUpdate, TypeOK, DnsTypeOK, listenVars
<1>14. CASE LoopTick
  BY <1>0, <1>14 DEF LoopTick, BeginUpdate, TypeOK, DnsTypeOK, listenVars
<1>15. CASE LoopDone
  <2>1. loopConfig' \in Config
    BY <1>15 DEF LoopDone, TypeOK, Config
  <2>2. job' \in [Updater -> Job]
    BY <1>0, <1>15 DEF LoopDone, Return, TypeOK, DnsTypeOK
  <2>3. [domains |-> loopConfig.domain] \in Success
    BY DEF TypeOK, Config, Success
  <2> QED
    BY <1>15, <2>1, <2>2, <2>3 DEF LoopDone, TypeOK, DnsTypeOK, listenVars
<1>16. CASE Call("force") \/ Call("loop") \/ Outside
  <2>1. \A p \in Updater : ConfigOf(p) \in Config
    BY DEF ConfigOf, TypeOK
  <2>2. DnsTypeOK'
    BY <1>16, <2>1, DnsStepType DEF Call, Outside, TypeOK, Updater
  <2> QED
    BY <1>16, <2>2 DEF Call, Outside, TypeOK, listenVars
<1>17. CASE Edit
  BY <1>17, ServiceAssumption DEF Edit, TypeOK, DnsTypeOK, dnsVars, listenVars
<1>18. CASE UNCHANGED vars
  BY <1>18 DEF vars, dnsVars, listenVars, TypeOK, DnsTypeOK
<1> QED
  BY <1>1, <1>2, <1>3, <1>4, <1>5, <1>6, <1>7, <1>8, <1>9, <1>10, <1>11,
     <1>12, <1>13, <1>14, <1>15, <1>16, <1>17, <1>18
     DEF Next, ListenStep, LoopStep, Environment

(* Every variable keeps its type; the channel never holds more than its    *)
(* capacity.                                                               *)
THEOREM TypeCorrect == Spec => []TypeOK
BY InitType, NextType, PTL DEF Spec
----------------------------------------------------------------------------
(* No interval below the minimum *)

(* Where a configuration in the process comes from: it was there before,   *)
(* was read from a file, is the default one, was made by a change that     *)
(* passed validation, or is that of the update loop with the flag dropped. *)
Origin(c) ==
  \/ c \in InProcess
  \/ file \in Saved /\ c = Parsed(file)
  \/ c = DefaultConfig
  \/ \E r \in Change : Accepts(r, ctx) /\ c = Applied(r, ctx)
  \/ c = [loopConfig EXCEPT !.clear_ip_addresses = FALSE]

(* There is no other way into the process.                                 *)
LEMMA ConfigOrigin ==
  ASSUME TypeOK, [Next]_vars, NEW c \in InProcess'
  PROVE  Origin(c)
<1>1. CASE c \in InProcess
  BY <1>1 DEF Origin
<1>2. CASE c = ctx' /\ ctx' # ctx
  <2>1. CASE Start
    BY <1>2, <2>1 DEF Start, Origin
  <2>2. CASE FinishInstall \/ Halt \/ StoreWrite
    BY <1>2, <2>2 DEF FinishInstall, Halt, StoreWrite, Origin
  <2>3. CASE Receive
    BY <1>2, <2>3 DEF Receive, HandleChange, HandleForceUpdate, HandleForceInstall, Origin
  <2>4. UNCHANGED ctx \/ Start \/ FinishInstall \/ Halt \/ StoreWrite \/ Receive
    BY DEF Next, ListenStep, LoopStep, Environment, StartInstall, InstallFails,
           Boot, StoreOpen, StoreFails, Notify, ForceDone, LoopReceive, LoopTick,
           LoopDone, Call, Edit, Outside, vars, listenVars
  <2> QED BY <1>2, <2>1, <2>2, <2>3, <2>4
<1>3. CASE c = loopConfig' /\ loopConfig' # loopConfig
  <2>1. CASE Start \/ FinishInstall \/ Halt \/ LoopDone
    BY <1>3, <2>1 DEF Start, FinishInstall, Halt, LoopDone, Origin
  <2>2. CASE LoopReceive
    <3>1. Head(chan) \in InProcess
      BY <2>2 DEF LoopReceive, InProcess, TypeOK
    <3> QED BY <1>3, <2>2, <3>1 DEF LoopReceive, Origin
  <2>3. UNCHANGED loopConfig \/ Start \/ FinishInstall \/ Halt \/ LoopReceive \/ LoopDone
    BY DEF Next, ListenStep, LoopStep, Environment, Receive, HandleChange,
           HandleForceUpdate, HandleForceInstall, StartInstall, InstallFails, Boot,
           StoreOpen, StoreWrite, StoreFails, Notify, ForceDone, LoopTick, Call,
           Edit, Outside, vars
  <2> QED BY <1>3, <2>1, <2>2, <2>3
<1>4. CASE \E i \in DOMAIN chan' : c = chan'[i]
  <2> PICK i \in DOMAIN chan' : c = chan'[i]
    BY <1>4
  <2>1. CASE Boot \/ Notify
    BY <2>1 DEF Boot, Notify, Send, InProcess, TypeOK, Origin
  <2>2. CASE LoopReceive
    BY <2>2 DEF LoopReceive, InProcess, TypeOK, Origin
  <2>3. CASE Halt
    BY <2>3 DEF Halt
  <2>4. CASE UNCHANGED chan
    BY <2>4 DEF InProcess, Origin
  <2>5. UNCHANGED chan \/ Boot \/ Notify \/ LoopReceive \/ Halt
    BY DEF Next, ListenStep, LoopStep, Environment, Start, Receive, HandleChange,
           HandleForceUpdate, HandleForceInstall, StartInstall, FinishInstall,
           InstallFails, StoreOpen, StoreWrite, StoreFails, ForceDone, LoopTick,
           LoopDone, Call, Edit, Outside, vars
  <2> QED BY <2>1, <2>2, <2>3, <2>4, <2>5
<1> QED BY <1>1, <1>2, <1>3, <1>4 DEF InProcess

(* IntervalFloor is inductive: Config::read clamps the interval, a change  *)
(* of it is validated, and the rest leaves it alone.                       *)
LEMMA NextInterval ==
  TypeOK /\ IntervalFloor /\ [Next]_vars => IntervalFloor'
<1> SUFFICES ASSUME TypeOK, IntervalFloor, [Next]_vars,
                    NEW c \in InProcess'
             PROVE  c.interval >= MinimalInterval
  BY DEF IntervalFloor
<1>1. \A d \in {ctx, loopConfig} : d \in Config /\ d.interval >= MinimalInterval
  BY DEF InProcess, IntervalFloor, TypeOK
<1>2. CASE c \in InProcess
  BY <1>2 DEF IntervalFloor
<1>3. CASE (file \in Saved /\ c = Parsed(file)) \/ c = DefaultConfig
  BY <1>3, ParsedConfig, DefaultIsConfig
<1>4. CASE \E r \in Change : Accepts(r, ctx) /\ c = Applied(r, ctx)
  BY <1>1, <1>4, AppliedConfig
<1>5. CASE c = [loopConfig EXCEPT !.clear_ip_addresses = FALSE]
  BY <1>1, <1>5 DEF Config
<1> QED BY <1>2, <1>3, <1>4, <1>5, ConfigOrigin DEF Origin

(* No configuration in the process ever has an interval below the minimum. *)
THEOREM IntervalIsFloored == Spec => []IntervalFloor
<1>1. Init => IntervalFloor
  BY DefaultIsConfig DEF Init, IntervalFloor, InProcess
<1> QED BY <1>1, NextInterval, TypeCorrect, PTL DEF Spec
----------------------------------------------------------------------------
(* Never too many domains *)

(* DomainLimit for one set of domains.                                     *)
Limited(ds) ==
  /\ \/ Cardinality(ds) <= MaxDomainCount
     \/ \E s \in ByHand : ds \subseteq s.domain
  /\ \A d \in ds \ ValidDomain : \E s \in ByHand : d \in s.domain

(* A change that passes validation adds nothing to a list that is too      *)
(* long: only AddDomain adds a domain, and they are counted first.         *)
LEMMA AppliedLimited ==
  ASSUME NEW c \in Config, NEW r \in Change, Accepts(r, c), Limited(c.domain)
  PROVE  Limited(Applied(r, c).domain)
<1>0. IsFiniteSet(c.domain) /\ Cardinality(c.domain) \in Nat
  BY ConfigAssumption, FS_Subset, FS_CardinalityType DEF Config
<1>1. CASE r.type = "AddDomain"
  <2>1. Applied(r, c).domain = c.domain \cup {r.value}
    BY <1>1 DEF Applied, Config
  <2>2. Cardinality(c.domain) < MaxDomainCount /\ r.value \in ValidDomain
    BY <1>1 DEF Accepts
  <2>3. \/ Cardinality(c.domain \cup {r.value}) = Cardinality(c.domain)
        \/ Cardinality(c.domain \cup {r.value}) = Cardinality(c.domain) + 1
    BY <1>0, FS_AddElement
  <2>4. Cardinality(c.domain \cup {r.value}) <= MaxDomainCount
    BY <1>0, <2>2, <2>3, ConfigAssumption
  <2>5. (c.domain \cup {r.value}) \ ValidDomain = c.domain \ ValidDomain
    BY <2>2
  <2> QED BY <2>1, <2>4, <2>5 DEF Limited
<1>2. CASE r.type # "AddDomain"
  <2> DEFINE ds == Applied(r, c).domain
  <2>1. ds \in SUBSET c.domain
    BY <1>2 DEF Applied, Config
  <2>2. Cardinality(ds) \in Nat /\ Cardinality(ds) <= Cardinality(c.domain)
    BY <1>0, <2>1, FS_Subset, FS_CardinalityType
  <2>3. \/ Cardinality(ds) <= MaxDomainCount
        \/ \E s \in ByHand : ds \subseteq s.domain
    <3> HIDE DEF ds
    <3>1. CASE Cardinality(c.domain) <= MaxDomainCount
      BY <1>0, <2>2, <3>1, ConfigAssumption
    <3>2. CASE \E s \in ByHand : c.domain \subseteq s.domain
      BY <2>1, <3>2
    <3> QED BY <3>1, <3>2 DEF Limited
  <2>4. \A d \in ds \ ValidDomain : \E s \in ByHand : d \in s.domain
    BY <2>1 DEF Limited
  <2> HIDE DEF ds
  <2>5. Limited(ds)
    BY <2>3, <2>4 DEF Limited
  <2> QED BY <2>5 DEF ds
<1> QED BY <1>1, <1>2

(* DomainLimit needs the same of the file: what is read from it enters the *)
(* process unchecked.                                                      *)
DomainInv == DomainLimit /\ (file \in Saved => Limited(file.domain))

(* What the file may hold after a step.                                    *)
LEMMA FileOrigin ==
  ASSUME [Next]_vars, file' \in Saved
  PROVE  file' = file \/ file' \in Edits \/ file' \in {Stored(ctx), Stored(DefaultConfig)}
BY ServiceAssumption
   DEF Next, ListenStep, LoopStep, Environment, Start, StartInstall, FinishInstall,
       InstallFails, Boot, Halt, Receive, HandleChange, HandleForceUpdate,
       HandleForceInstall, StoreOpen, StoreWrite, StoreFails, Notify, ForceDone,
       LoopReceive, LoopTick, LoopDone, Call, Edit, Outside, Written, vars

LEMMA NextDomains ==
  TypeOK /\ DomainInv /\ [Next]_vars => DomainInv'
<1> SUFFICES ASSUME TypeOK, DomainInv, [Next]_vars PROVE DomainInv'
  OBVIOUS
<1>0. /\ ctx \in Config /\ loopConfig \in Config
      /\ \A c \in InProcess : Limited(c.domain)
      /\ Limited(ctx.domain) /\ Limited(loopConfig.domain)
  BY DEF TypeOK, InProcess, DomainInv, DomainLimit, Limited
<1>1. DefaultConfig.domain = {} /\ Limited({})
  BY ConfigAssumption, FS_EmptySet DEF DefaultConfig, InMemory, Limited
<1>2. ASSUME NEW c \in InProcess' PROVE Limited(c.domain)
  <2>1. CASE file \in Saved /\ c = Parsed(file)
    <3>1. c.domain = file.domain
      BY <2>1 DEF Parsed, InMemory, Saved
    <3> QED BY <2>1, <3>1 DEF DomainInv
  <2>2. CASE \E r \in Change : Accepts(r, ctx) /\ c = Applied(r, ctx)
    BY <1>0, <2>2, AppliedLimited
  <2>3. CASE c = [loopConfig EXCEPT !.clear_ip_addresses = FALSE]
    <3>1. c.domain = loopConfig.domain
      BY <1>0, <2>3 DEF Config
    <3> QED BY <1>0, <3>1
  <2> QED BY <1>0, <1>1, <2>1, <2>2, <2>3, ConfigOrigin DEF Origin
<1>3. ASSUME file' \in Saved PROVE Limited(file'.domain)
  <2>1. Stored(ctx).domain = ctx.domain /\ Stored(DefaultConfig).domain = DefaultConfig.domain
    BY DEF Stored
  <2>2. \A s \in Edits \cap Saved : Limited(s.domain)
    <3> SUFFICES ASSUME NEW s \in Edits \cap Saved PROVE Limited(s.domain)
      OBVIOUS
    <3>1. s \in ByHand
      BY DEF ByHand
    <3> QED BY <3>1 DEF Limited
  <2> QED BY <1>0, <1>1, <1>3, <2>1, <2>2, FileOrigin DEF DomainInv
<1>4. DomainLimit'
  BY <1>2 DEF DomainLimit, Limited, ByHand
<1>5. (file \in Saved => Limited(file.domain))'
  BY <1>3 DEF Limited, ByHand
<1> QED BY <1>4, <1>5 DEF DomainInv

(* Whatever others write to the file, and whatever is requested, a list of *)
(* domains that is too long, or a name that is none, comes from a file     *)
(* that was written by hand.                                               *)
THEOREM DomainsAreLimited == Spec => []DomainLimit
<1>1. Init => DomainInv
  <2> SUFFICES ASSUME Init PROVE DomainInv
    OBVIOUS
  <2>1. \A c \in InProcess : c = DefaultConfig
    BY DEF Init, InProcess
  <2>2. DefaultConfig.domain = {} /\ Cardinality({}) <= MaxDomainCount
    BY ConfigAssumption, FS_EmptySet DEF DefaultConfig, InMemory
  <2>3. file \in Saved => file \in ByHand
    BY DEF Init, ByHand
  <2>4. file \in Saved => Limited(file.domain)
    BY <2>3 DEF Limited
  <2> QED BY <2>1, <2>2, <2>4 DEF DomainInv, DomainLimit
<1>2. DomainInv => DomainLimit
  BY DEF DomainInv
<1> QED BY <1>1, <1>2, NextDomains, TypeCorrect, PTL DEF Spec
----------------------------------------------------------------------------
(* The update loop follows the service *)

(* LoopFollowsService says nothing of what the listening loop is doing in  *)
(* the middle of a request; what it needs to know there is that a call of  *)
(* update by the listening loop belongs to a ForceUpdate.                  *)
LoopInv == LoopFollowsService /\ (lpc = "force" => req = ForceUpdate)

(* Receiving moves the head of the channel, not its last element.          *)
LEMMA ReceiveKeepsNewest ==
  ASSUME TypeOK, LoopReceive
  PROVE  Newest' = Newest
<1>1. CASE Len(chan) = 1
  BY <1>1 DEF TypeOK, LoopReceive, Newest
<1>2. CASE Len(chan) > 1
  <2>1. Tail(chan) # << >> /\ Tail(chan)[Len(Tail(chan))] = chan[Len(chan)]
    BY <1>2 DEF TypeOK
  <2> QED BY <2>1 DEF TypeOK, LoopReceive, Newest
<1>3. Len(chan) = 1 \/ Len(chan) > 1
  <2>1. Len(chan) \in Nat \ {0}
    BY EmptySeq DEF TypeOK, LoopReceive
  <2> QED BY <2>1
<1> QED
  BY <1>1, <1>2, <1>3

(* Every step keeps this: of those that lead to idle without an error Boot *)
(* and Notify have just sent ctx, and ForceDone ends a ForceUpdate.        *)
LEMMA NextLoop == TypeOK /\ LoopInv /\ [Next]_vars => LoopInv'
<1> SUFFICES ASSUME TypeOK, LoopInv, [Next]_vars PROVE LoopInv'
  OBVIOUS
<1> USE DEF LoopInv, LoopFollowsService, SameSettings
<1>1. CASE Boot
  BY <1>1 DEF Boot, Send, TypeOK, Newest
<1>2. CASE Notify
  BY <1>2 DEF Notify, Reply, Send, TypeOK, Newest
<1>3. CASE StoreFails
  BY <1>3 DEF StoreFails, Reply
<1>4. CASE ForceDone
  BY <1>4 DEF ForceDone, Reply
<1>5. CASE StoreWrite
  BY <1>5 DEF StoreWrite
<1>6. CASE Receive
  BY <1>6 DEF Receive, HandleChange, HandleForceUpdate, HandleForceInstall
<1>7. CASE Start \/ StartInstall \/ FinishInstall \/ InstallFails \/ Halt \/ StoreOpen
  BY <1>7 DEF Start, StartInstall, FinishInstall, InstallFails, Halt, StoreOpen
<1>8. CASE LoopReceive
  BY <1>8, ReceiveKeepsNewest DEF LoopReceive, listenVars
<1>9. CASE LoopDone
  <2>1. Stored(loopConfig') = Stored(loopConfig)
    BY <1>9 DEF LoopDone, Stored, TypeOK, Config
  <2> QED BY <1>9, <2>1 DEF LoopDone, Newest, listenVars
<1>10. CASE LoopTick \/ Call("force") \/ Call("loop") \/ Outside \/ Edit
  BY <1>10 DEF LoopTick, Call, Outside, Edit, Newest, listenVars
<1>11. CASE UNCHANGED vars
  BY <1>11 DEF vars, listenVars, Newest
<1> QED
  BY <1>1, <1>2, <1>3, <1>4, <1>5, <1>6, <1>7, <1>8, <1>9, <1>10, <1>11
     DEF Next, ListenStep, LoopStep, Environment

(* Between requests the update loop has, or is about to receive, the       *)
(* settings of the listening loop, unless the last request failed or was a *)
(* ForceUpdate: whatever fails, and whatever others do to the file.        *)
THEOREM LoopFollows == Spec => []LoopFollowsService
<1>1. Init => LoopInv
  BY DEF Init, LoopInv, LoopFollowsService
<1>2. LoopInv => LoopFollowsService
  BY DEF LoopInv
<1> QED BY <1>1, <1>2, NextLoop, TypeCorrect, PTL DEF Spec
----------------------------------------------------------------------------
(* Memory and disk agree *)

(* The invariant along a request.  While store() is between its two halves *)
(* the file is empty; before its first half, or after a failure, nothing   *)
(* is known of the file; everywhere else it holds what ctx holds.          *)
DiskInv ==
  /\ lpc \in {"installing", "write"} => file = Empty
  /\ lpc \in {"boot", "notify", "force"} => OnDisk(ctx)
  /\ MemoryMatchesDisk

(* What store() has written reads back as what it was given, if nobody     *)
(* wrote to the file in between.                                           *)
LEMMA WrittenOnDisk ==
  ASSUME NEW c \in Config, c.interval >= MinimalInterval, file = Empty, Written(c)
  PROVE  file' \in Saved /\ SameSettings(Parsed(file'), c)
BY StoredSaved, RoundTrip DEF Written

(* Without edits every step keeps this: memory changes only together with  *)
(* a request under way, and the request is over only after store() or its  *)
(* failure.                                                                *)
LEMMA NextDisk ==
  ASSUME Edits = {}
  PROVE  TypeOK /\ IntervalFloor /\ DiskInv /\ [Next]_vars => DiskInv'
<1> SUFFICES ASSUME TypeOK, IntervalFloor, DiskInv, [Next]_vars PROVE DiskInv'
  OBVIOUS
<1>0. ctx \in Config /\ ctx.interval >= MinimalInterval
  BY DEF TypeOK, IntervalFloor, InProcess
<1> USE DEF DiskInv, MemoryMatchesDisk, OnDisk
<1>1. CASE Start
  BY <1>1 DEF Start, SameSettings
<1>2. CASE FinishInstall
  BY <1>2, DefaultIsConfig, WrittenOnDisk DEF FinishInstall
<1>3. CASE StartInstall \/ InstallFails \/ Halt \/ StoreOpen
  BY <1>3 DEF StartInstall, InstallFails, Halt, StoreOpen
<1>4. CASE Boot
  BY <1>4 DEF Boot
<1>5. CASE Receive
  BY <1>5 DEF Receive, HandleChange, HandleForceUpdate, HandleForceInstall, SameSettings
<1>6. CASE StoreWrite
  BY <1>0, <1>6, DefaultIsConfig, WrittenOnDisk DEF StoreWrite
<1>7. CASE StoreFails
  BY <1>7 DEF StoreFails, Reply
<1>8. CASE Notify
  BY <1>8 DEF Notify, Reply
<1>9. CASE ForceDone
  BY <1>9 DEF ForceDone, Reply
<1>10. CASE LoopStep \/ Call("force") \/ Outside
  BY <1>10 DEF LoopStep, LoopReceive, LoopTick, LoopDone, Call, Outside, listenVars
<1>11. CASE Edit
  BY <1>11 DEF Edit
<1>12. CASE UNCHANGED vars
  BY <1>12 DEF vars, listenVars
<1> QED
  BY <1>1, <1>2, <1>3, <1>4, <1>5, <1>6, <1>7, <1>8, <1>9, <1>10, <1>11, <1>12
     DEF Next, ListenStep, Environment

(* If nobody else writes to config.toml then, between requests and unless  *)
(* store() failed in the last one, reading the file back gives the         *)
(* settings the service works with: acknowledged changes survive restarts. *)
THEOREM ChangesAreOnDisk ==
  ASSUME Edits = {}
  PROVE  Spec => []MemoryMatchesDisk
<1>1. Init => DiskInv
  BY DEF Init, DiskInv, MemoryMatchesDisk
<1>2. DiskInv => MemoryMatchesDisk
  BY DEF DiskInv
<1>3. TypeOK /\ IntervalFloor /\ DiskInv /\ [Next]_vars => DiskInv'
  BY NextDisk
<1> QED BY <1>1, <1>2, <1>3, IntervalIsFloored, TypeCorrect, PTL DEF Spec
----------------------------------------------------------------------------
(* What is reported as updated has an address *)

(* What has to be known of the calls of update: there is none while the    *)
(* process is down, the listening loop only has one during a ForceUpdate,  *)
(* an address has been looked up before anything is sent, the records are  *)
(* only cleared for a configuration that asks for it, and a call that      *)
(* succeeded has left its domains with an address.                         *)
StatusInv ==
  /\ lpc \in {"stopped", "installing"} => \A p \in Updater : job[p].pc = "idle"
  /\ job["force"].pc # "idle" => lpc = "force"
  /\ \A p \in Updater :
       /\ job[p].pc \in {"lookup6", "clear", "send"} => job[p].v4 # NoAddr
       /\ job[p].pc = "clear" => ConfigOf(p).clear_ip_addresses
       /\ job[p].pc = "ok" => \A d \in ConfigOf(p).domain : Addressed(d)
  /\ StatusBacked

(* The steps of a call keep this, as long as a request that is sent is     *)
(* carried out and answered.                                               *)
LEMMA CallStatus ==
  ASSUME TypeOK, StatusInv, NEW q \in Updater,
         UpdateStep(q, ConfigOf(q)) \/ LookupFails(q),
         UNCHANGED <<lpc, ctx, loopConfig, status>>
  PROVE  StatusInv'
<1>1. /\ job \in [Updater -> Job] /\ ip \in IPv4 /\ NoAddr \notin IPv4
      /\ dns \in [Domain -> [v4: IPv4 \cup {NoAddr}, v6: IPv6 \cup {NoAddr}]]
      /\ \A p \in Updater : ConfigOf(p) \in Config
  BY DuckDnsAssumption DEF TypeOK, DnsTypeOK, ConfigOf
<1>2. \A p \in Updater : ConfigOf(p)' = ConfigOf(p)
  BY DEF ConfigOf
<1>3. \A p \in Updater \ {q} : job'[p] = job[p]
  BY <1>1 DEF UpdateStep, LookupV4, LookupV6, HttpClear, HttpUpdate, LookupFails, Return
<1>4. /\ job[q].pc # "idle" /\ job'[q].pc # "idle"
      /\ job'[q].pc \in {"lookup6", "clear", "send"} => job'[q].v4 # NoAddr
      /\ job'[q].pc = "clear" => ConfigOf(q).clear_ip_addresses
      /\ job'[q].pc = "ok" => HttpUpdate(q, ConfigOf(q))
  <2>1. CASE LookupV4(q, ConfigOf(q))
    <3>1. job[q].pc = "lookup4"
      BY <2>1 DEF LookupV4
    <3>2. CASE job' = [job EXCEPT ![q] = JobAt("err")]
      BY <1>1, <3>1, <3>2 DEF JobAt
    <3>3. CASE job' = [job EXCEPT ![q].v4 = ip,
                 ![q].pc = IF ConfigOf(q).ipv6 THEN "lookup6" ELSE FirstRequest(ConfigOf(q))]
      BY <1>1, <3>1, <3>3 DEF FirstRequest, Job
    <3> QED BY <2>1, <3>2, <3>3 DEF LookupV4, Return
  <2>2. CASE LookupV6(q, ConfigOf(q))
    <3>1. job[q].pc = "lookup6" /\ job[q].v4 # NoAddr
      BY <2>2 DEF LookupV6, StatusInv
    <3>2. CASE job' = [job EXCEPT ![q] = JobAt("err")]
      BY <1>1, <3>1, <3>2 DEF JobAt
    <3>3. CASE job' = [job EXCEPT ![q].v6 = ip6, ![q].pc = FirstRequest(ConfigOf(q))]
      BY <1>1, <3>1, <3>3 DEF FirstRequest, Job
    <3> QED BY <2>2, <3>2, <3>3 DEF LookupV6, Return
  <2>3. CASE HttpClear(q, ConfigOf(q))
    <3>1. job[q].pc = "clear" /\ job[q].v4 # NoAddr
      BY <2>3 DEF HttpClear, StatusInv
    <3> QED BY <1>1, <2>3, <3>1 DEF HttpClear, Job
  <2>4. CASE HttpUpdate(q, ConfigOf(q))
    BY <1>1, <2>4 DEF HttpUpdate, Return, JobAt
  <2>5. CASE LookupFails(q)
    BY <1>1, <2>5 DEF LookupFails, Return, JobAt
  <2> QED BY <2>1, <2>2, <2>3, <2>4, <2>5 DEF UpdateStep
<1>5. \A d \in Domain : Addressed(d) => Addressed(d)'
  <2> SUFFICES ASSUME NEW d \in Domain, Addressed(d) PROVE Addressed(d)'
    OBVIOUS
  <2>1. CASE HttpUpdate(q, ConfigOf(q))
    <3>1. job[q].pc = "send" /\ job[q].v4 # NoAddr
      BY <2>1 DEF HttpUpdate, StatusInv
    <3>2. CASE d \in ConfigOf(q).domain
      BY <1>1, <2>1, <3>1, <3>2 DEF HttpUpdate, Published, Addressed
    <3>3. CASE d \notin ConfigOf(q).domain
      BY <1>1, <1>2, <1>3, <2>1, <3>3 DEF HttpUpdate, Published, Addressed
    <3> QED BY <3>2, <3>3
  <2>2. CASE HttpClear(q, ConfigOf(q))
    <3>1. job'[q].pc = "send" /\ ConfigOf(q).clear_ip_addresses
      BY <1>1, <2>2 DEF HttpClear, StatusInv
    <3>2. CASE d \in ConfigOf(q).domain
      BY <1>2, <3>1, <3>2 DEF Addressed
    <3>3. CASE d \notin ConfigOf(q).domain
      BY <1>1, <1>2, <1>3, <2>2, <3>3 DEF HttpClear, Cleared, Addressed
    <3> QED BY <3>2, <3>3
  <2>3. CASE LookupV4(q, ConfigOf(q)) \/ LookupV6(q, ConfigOf(q)) \/ LookupFails(q)
    <3>1. dns' = dns /\ job[q].pc # "send"
      BY <2>3 DEF LookupV4, LookupV6, LookupFails
    <3> QED BY <1>2, <1>3, <3>1 DEF Addressed
  <2> QED BY <2>1, <2>2, <2>3 DEF UpdateStep
<1>6. job'[q].pc = "ok" => \A d \in ConfigOf(q).domain : Addressed(d)'
  <2>1. SUFFICES ASSUME job'[q].pc = "ok", NEW d \in ConfigOf(q).domain
                 PROVE  Addressed(d)'
    OBVIOUS
  <2>2. HttpUpdate(q, ConfigOf(q))
    BY <1>4, <2>1
  <2>3. d \in Domain /\ job[q].v4 # NoAddr
    BY <1>1, <2>2 DEF HttpUpdate, StatusInv, Config
  <2> QED BY <1>1, <2>2, <2>3 DEF HttpUpdate, Published, Addressed
<1>7. \A p \in Updater : ConfigOf(p).domain \subseteq Domain
  BY <1>1 DEF Config
<1>8. status # NoSuccess => status.domains \subseteq Domain
  BY DEF TypeOK, Success
<1>9. StatusBacked'
  BY <1>5, <1>8 DEF StatusInv, StatusBacked
<1>10. lpc' \notin {"stopped", "installing"}
  BY <1>4 DEF StatusInv
<1>11. job'["force"].pc # "idle" => lpc' = "force"
  BY <1>3, <1>4 DEF StatusInv, Updater
<1>12. ASSUME NEW p \in Updater
       PROVE  /\ job'[p].pc \in {"lookup6", "clear", "send"} => job'[p].v4 # NoAddr
              /\ job'[p].pc = "clear" => ConfigOf(p)'.clear_ip_addresses
              /\ job'[p].pc = "ok" => \A d \in ConfigOf(p)'.domain : Addressed(d)'
  BY <1>2, <1>3, <1>4, <1>5, <1>6, <1>7 DEF StatusInv
<1> QED BY <1>9, <1>10, <1>11, <1>12 DEF StatusInv

(* A step that keeps the records and the calls that are about to send, and *)
(* the configurations of all calls under way, keeps the rest as well.      *)
LEMMA OtherStatus ==
  ASSUME TypeOK, StatusInv, dns' = dns, job' = job, status' = status,
         job["force"].pc # "idle" => UNCHANGED <<lpc, ctx>>,
         job["loop"].pc # "idle" => UNCHANGED loopConfig,
         lpc' \in {"stopped", "installing"} =>
           \A p \in Updater : job[p].pc = "idle"
  PROVE  StatusInv'
<1>1. \A p \in Updater : job[p].pc # "idle" => ConfigOf(p)' = ConfigOf(p)
  BY DEF ConfigOf, Updater
<1>2. \A d : Addressed(d) => Addressed(d)'
  BY <1>1 DEF Addressed
<1> QED BY <1>1, <1>2 DEF StatusInv, StatusBacked

(* So does the beginning or the end of a call, which is not about to send. *)
LEMMA TurnStatus ==
  ASSUME TypeOK, StatusInv, dns' = dns,
         NEW q \in Updater, NEW pc \in {"idle", "lookup4"},
         job[q].pc \in {"idle", "ok", "err"},
         job' = [job EXCEPT ![q] = JobAt(pc)],
         \A p \in Updater \ {q} : job[p].pc # "idle" => ConfigOf(p)' = ConfigOf(p),
         lpc' \notin {"stopped", "installing"},
         job'["force"].pc # "idle" => lpc' = "force",
         \/ status' = status
         \/ /\ job[q].pc = "ok"
            /\ status' = [domains |-> ConfigOf(q).domain]
  PROVE  StatusInv'
<1>1. job \in [Updater -> Job]
  BY DEF TypeOK, DnsTypeOK
<1>2. job'[q].pc = pc /\ \A p \in Updater \ {q} : job'[p] = job[p]
  BY <1>1 DEF JobAt
<1>3. \A d : Addressed(d) => Addressed(d)'
  BY <1>2 DEF Addressed
<1>4. StatusBacked'
  BY <1>3 DEF StatusInv, StatusBacked
<1>5. ASSUME NEW p \in Updater
      PROVE  /\ job'[p].pc \in {"lookup6", "clear", "send"} => job'[p].v4 # NoAddr
             /\ job'[p].pc = "clear" => ConfigOf(p)'.clear_ip_addresses
             /\ job'[p].pc = "ok" => \A d \in ConfigOf(p)'.domain : Addressed(d)'
  BY <1>2, <1>3 DEF StatusInv
<1> QED BY <1>4, <1>5 DEF StatusInv

(* Every step keeps this when each request is carried out and answered: a  *)
(* clear is always followed by the update of the same call.                *)
LEMMA NextStatus ==
  ASSUME Faults \cap {"refuse", "lost", "hang"} = {}
  PROVE  TypeOK /\ StatusInv /\ [Next]_vars => StatusInv'
<1> SUFFICES ASSUME TypeOK, StatusInv, [Next]_vars PROVE StatusInv'
  OBVIOUS
<1>0. /\ lpc \notin {"force"} => job["force"].pc = "idle"
      /\ lpc \in {"stopped", "installing"} => job["loop"].pc = "idle"
      /\ job \in [Updater -> Job]
  BY DEF StatusInv, Updater, TypeOK, DnsTypeOK
<1>1. CASE Start \/ StartInstall \/ FinishInstall \/ InstallFails
  BY <1>0, <1>1, OtherStatus
     DEF Start, StartInstall, FinishInstall, InstallFails, dnsVars, Updater
<1>2. CASE Boot \/ StoreOpen \/ StoreFails \/ Notify
  BY <1>0, <1>2, OtherStatus DEF Boot, StoreOpen, StoreFails, Notify, Reply, dnsVars
<1>3. CASE Halt
  <2>1. \A p \in Updater : job'[p].pc = "idle"
    BY <1>3 DEF Halt, JobAt
  <2> QED BY <1>3, <2>1 DEF Halt, StatusInv, StatusBacked, Updater
<1>4. CASE Receive
  <2> PICK r \in Requests :
        HandleChange(r) \/ (r = ForceUpdate /\ (HandleForceUpdate \/ HandleForceInstall))
    BY <1>4 DEF Receive
  <2>1. CASE HandleChange(r) \/ HandleForceInstall
    BY <1>0, <2>1, OtherStatus DEF HandleChange, HandleForceInstall, dnsVars
  <2>2. CASE HandleForceUpdate
    BY <1>0, <2>2, TurnStatus DEF HandleForceUpdate, ConfigOf, Updater
  <2> QED BY <2>1, <2>2
<1>5. CASE StoreWrite
  <2>1. CASE req = ForceUpdate
    BY <1>0, <1>5, <2>1, TurnStatus DEF StoreWrite, ConfigOf, Updater
  <2>2. CASE req # ForceUpdate
    BY <1>0, <1>5, <2>2, OtherStatus DEF StoreWrite
  <2> QED BY <2>1, <2>2
<1>6. CASE ForceDone
  <2>1. lpc' = "idle" /\ job' = [job EXCEPT !["force"] = JobAt("idle")]
    BY <1>6 DEF ForceDone, Reply, Return
  <2>2. job'["force"].pc = "idle"
    BY <1>0, <2>1 DEF JobAt, Updater
  <2> QED BY <1>6, <2>1, <2>2, TurnStatus DEF ForceDone, ConfigOf, Updater
<1>7. CASE LoopReceive \/ LoopTick
  <2>1. /\ job["loop"].pc = "idle" /\ Running
        /\ UNCHANGED <<dns, lpc, ctx, status>>
        /\ job' = job \/ job' = [job EXCEPT !["loop"] = JobAt("lookup4")]
    BY <1>7 DEF LoopReceive, LoopTick, LoopWaits, BeginUpdate, listenVars
  <2>2. CASE job' = job
    BY <2>1, <2>2, OtherStatus DEF StatusInv, Running
  <2>3. CASE job' = [job EXCEPT !["loop"] = JobAt("lookup4")]
    <3>1. job'["force"] = job["force"]
      BY <1>0, <2>3 DEF Updater
    <3> QED BY <2>1, <2>3, <3>1, TurnStatus DEF StatusInv, ConfigOf, Running, Updater
  <2> QED BY <2>1, <2>2, <2>3
<1>8. CASE LoopDone
  <2>1. /\ job' = [job EXCEPT !["loop"] = JobAt("idle")]
        /\ UNCHANGED <<dns, lpc, ctx>>
        /\ job["loop"].pc \in {"ok", "err"}
    BY <1>8 DEF LoopDone, Return, listenVars
  <2>2. job'["force"] = job["force"] /\ lpc \notin {"stopped", "installing"}
    BY <1>0, <2>1 DEF Updater
  <2> QED BY <1>8, <2>1, <2>2, TurnStatus DEF LoopDone, StatusInv, ConfigOf, Updater
<1>9. CASE Call("force") \/ Call("loop")
  BY <1>9, CallStatus DEF Call, Updater, listenVars
<1>10. CASE Outside
  <2>1. CASE AddressChange
    BY <1>0, <1>10, <2>1, OtherStatus DEF AddressChange, Outside, listenVars, StatusInv
  <2>2. CASE \E p \in Updater : LookupFails(p)
    BY <1>10, <2>2, CallStatus DEF Outside, listenVars
  <2>3. AddressChange \/ \E p \in Updater : LookupFails(p)
    BY <1>10 DEF Outside, HttpRefused, HttpAnswerLost, HttpHangs
  <2> QED BY <2>1, <2>2, <2>3
<1>11. CASE Edit \/ UNCHANGED vars
  BY <1>11, OtherStatus DEF Edit, vars, dnsVars, listenVars, StatusInv
<1> QED
  BY <1>1, <1>2, <1>3, <1>4, <1>5, <1>6, <1>7, <1>8, <1>9, <1>10, <1>11
     DEF Next, ListenStep, LoopStep, Environment

(* If every request that reaches DuckDNS is carried out and answered, the  *)
(* domains that are reported as updated have an address, or are about to   *)
(* get it: two concurrent calls of update do not undo each other's work,   *)
(* whatever lookups fail and whatever happens to the configuration.        *)
THEOREM UpdatedIsAddressed ==
  ASSUME Faults \cap {"refuse", "lost", "hang"} = {}
  PROVE  Spec => []StatusBacked
<1>1. Init => StatusInv
  BY DEF Init, DnsInit, JobAt, StatusInv, StatusBacked, Updater
<1>2. StatusInv => StatusBacked
  BY DEF StatusInv
<1>3. TypeOK /\ StatusInv /\ [Next]_vars => StatusInv'
  BY NextStatus
<1> QED BY <1>1, <1>2, <1>3, TypeCorrect, PTL DEF Spec
----------------------------------------------------------------------------
(* No AAAA record stays behind *)

NoRecordsV6 == \A d \in Domain : dns[d].v6 = NoAddr

(* Nothing the update loop has, or is about to receive, publishes an IPv6  *)
(* address, and none is published.                                         *)
NeverIpv6 ==
  /\ NoRecordsV6
  /\ \A p \in Updater : job[p].v6 = NoAddr
  /\ ~loopConfig.ipv6
  /\ \A i \in DOMAIN chan : ~chan[i].ipv6

(* A call of update only has an IPv6 address for a configuration with      *)
(* IPv6, and the update loop only calls with a token and a domain.         *)
CallsInv ==
  /\ lpc \in {"stopped", "installing"} =>
       chan = << >> /\ \A p \in Updater : job[p].pc = "idle"
  /\ job["force"].pc # "idle" => lpc = "force"
  /\ job["loop"].pc # "idle" => Ready(loopConfig)
  /\ \A p \in Updater :
       /\ job[p].pc \in {"idle", "lookup4"} => job[p].v6 = NoAddr
       /\ job[p].pc = "lookup6" => ConfigOf(p).ipv6
       /\ job[p].v6 # NoAddr => ConfigOf(p).ipv6

(* There is only no file before the first start, and if it can be read the *)
(* update loop has, or is about to receive, what it says, or it says       *)
(* nothing of IPv6: a forced update, which works with the file, publishes  *)
(* no IPv6 address that the update loop does not know of.                  *)
FileInv ==
  /\ file = Absent => lpc = "stopped" /\ NoRecordsV6
  /\ lpc = "installing" => NoRecordsV6
  /\ lpc \in {"open", "write"} => req # ForceUpdate
  /\ file \in Saved /\ file.ipv6 =>
       /\ lpc # "write"
       /\ lpc \in {"boot", "notify"} => SameSettings(ctx, Parsed(file))
       /\ lpc \in {"idle", "open", "force"} => SameSettings(Newest, Parsed(file))
  /\ lpc = "force" /\ ctx.ipv6 => SameSettings(Newest, ctx)

(* What is sent to the update loop makes it clear the records, unless      *)
(* there has been no IPv6 since the default file was installed.            *)
FlagInv ==
  Running =>
    /\ ctx.clear_ip_addresses \/ (NeverIpv6 /\ ~ctx.ipv6)
    /\ chan # << >> => chan[Len(chan)].clear_ip_addresses \/ NeverIpv6

(* The update loop is about to clear the records of its domains, or would  *)
(* be if it could call DuckDNS at all.                                     *)
Due ==
  /\ loopConfig.clear_ip_addresses
  /\ \/ job["loop"].pc \in {"lookup4", "clear", "hung"}
     \/ job["loop"].pc = "idle" /\ (lpc = "boot" \/ ~Ready(loopConfig))

CleanInv ==
  Running /\ chan = << >> /\ ~loopConfig.ipv6 =>
    Due \/ \A d \in loopConfig.domain : dns[d].v6 = NoAddr

Ipv6Inv == CallsInv /\ FileInv /\ FlagInv /\ CleanInv

(* Configurations with the same settings agree on IPv6 and the domains.    *)
LEMMA SameIpv6 ==
  ASSUME NEW c, NEW d, SameSettings(c, d)
  PROVE  c.ipv6 = d.ipv6 /\ c.domain = d.domain
BY DEF SameSettings, Stored

(* The steps of a call keep this, except that a lookup fails or a request  *)
(* is refused: then the flag would be dropped with the records still there *)
(* (update_ip_loop).                                                       *)
LEMMA CallIpv6 ==
  ASSUME TypeOK, Ipv6Inv, NEW q \in Updater,
         \/ UpdateStep(q, ConfigOf(q))
         \/ HttpAnswerLost(q, ConfigOf(q))
         \/ HttpHangs(q),
         UNCHANGED <<file, lpc, ctx, req, chan, loopConfig>>
  PROVE  Ipv6Inv'
<1> DEFINE cfg == ConfigOf(q)
<1>1. /\ job \in [Updater -> Job] /\ NoAddr \notin IPv4 /\ ip \in IPv4
      /\ dns \in [Domain -> [v4: IPv4 \cup {NoAddr}, v6: IPv6 \cup {NoAddr}]]
      /\ \A p \in Updater : ConfigOf(p) \in Config
      /\ cfg.domain \subseteq Domain
  BY DuckDnsAssumption DEF TypeOK, DnsTypeOK, ConfigOf, Config
<1>2. \A p \in Updater : ConfigOf(p)' = ConfigOf(p)
  BY DEF ConfigOf
<1>3. \A p \in Updater \ {q} : job'[p] = job[p]
  BY <1>1 DEF UpdateStep, LookupV4, LookupV6, HttpClear, HttpUpdate, HttpAnswerLost,
              HttpHangs, Return
<1>4. /\ job[q].pc # "idle" /\ job'[q].pc \notin {"idle", "lookup4"}
      /\ job'[q].pc = "lookup6" => cfg.ipv6
      /\ job'[q].v6 # NoAddr => cfg.ipv6
  <2>0. /\ job[q] \in Job
        /\ job[q].v6 # NoAddr => cfg.ipv6
        /\ job[q].pc = "lookup4" => job[q].v6 = NoAddr
        /\ job[q].pc = "lookup6" => cfg.ipv6
    BY <1>1 DEF CallsInv, Ipv6Inv
  <2>1. CASE job' = [job EXCEPT ![q] = JobAt("err")] \/ job' = [job EXCEPT ![q] = JobAt("ok")]
    <3>1. job'[q].pc \in {"err", "ok"} /\ job'[q].v6 = NoAddr
      BY <1>1, <2>1 DEF JobAt
    <3>2. job[q].pc # "idle"
      BY DEF UpdateStep, LookupV4, LookupV6, HttpClear, HttpUpdate, HttpAnswerLost, HttpHangs
    <3> QED BY <3>1, <3>2
  <2>2. CASE /\ job[q].pc = "lookup4"
             /\ job' = [job EXCEPT ![q].v4 = ip,
                          ![q].pc = IF cfg.ipv6 THEN "lookup6" ELSE FirstRequest(cfg)]
    <3>1. /\ job'[q].pc = IF cfg.ipv6 THEN "lookup6" ELSE FirstRequest(cfg)
          /\ job'[q].v6 = job[q].v6
      BY <1>1, <2>0, <2>2 DEF Job
    <3> QED BY <2>0, <2>2, <3>1 DEF FirstRequest
  <2>3. CASE /\ job[q].pc = "lookup6"
             /\ job' = [job EXCEPT ![q].v6 = ip6, ![q].pc = FirstRequest(cfg)]
    <3>1. job'[q].pc = FirstRequest(cfg)
      BY <1>1, <2>0, <2>3 DEF Job
    <3> QED BY <2>0, <2>3, <3>1 DEF FirstRequest
  <2>4. CASE /\ job[q].pc \in {"clear", "send"}
             /\ \/ job' = [job EXCEPT ![q].pc = "send"]
                \/ job' = [job EXCEPT ![q].pc = "hung"]
    <3>1. job'[q].pc \in {"send", "hung"} /\ job'[q].v6 = job[q].v6
      BY <1>1, <2>0, <2>4 DEF Job
    <3> QED BY <2>0, <2>4, <3>1
  <2>5. CASE LookupV4(q, cfg)
    BY <2>1, <2>2, <2>5 DEF LookupV4, Return
  <2>6. CASE LookupV6(q, cfg)
    BY <2>1, <2>3, <2>6 DEF LookupV6, Return
  <2>7. CASE HttpClear(q, cfg) \/ HttpHangs(q)
    BY <2>4, <2>7 DEF HttpClear, HttpHangs
  <2>8. CASE HttpUpdate(q, cfg) \/ HttpAnswerLost(q, cfg)
    BY <2>1, <2>8 DEF HttpUpdate, HttpAnswerLost, Return
  <2> QED BY <2>5, <2>6, <2>7, <2>8 DEF UpdateStep
<1>5. ~cfg.ipv6 => \A d \in Domain : dns[d].v6 = NoAddr => dns'[d].v6 = NoAddr
  <2> SUFFICES ASSUME ~cfg.ipv6, NEW d \in Domain, dns[d].v6 = NoAddr
               PROVE  dns'[d].v6 = NoAddr
    OBVIOUS
  <2>1. job[q].v6 = NoAddr
    BY DEF CallsInv, Ipv6Inv
  <2>2. Cleared(cfg)[d].v6 = NoAddr
    BY DEF Cleared, NoRecord
  <2>3. Published(q, cfg)[d].v6 = NoAddr
    BY <2>1 DEF Published
  <2>4. dns' \in {dns, Cleared(cfg), Published(q, cfg)}
    BY DEF UpdateStep, LookupV4, LookupV6, HttpClear, HttpUpdate, HttpAnswerLost, HttpHangs
  <2> QED BY <2>2, <2>3, <2>4
<1>6. lpc \notin {"stopped", "installing"}
  BY <1>4 DEF CallsInv, Ipv6Inv
<1>7. CallsInv'
  <2>1. /\ job'["force"].pc # "idle" => lpc' = "force"
        /\ job'["loop"].pc # "idle" => Ready(loopConfig)'
    BY <1>3, <1>4 DEF CallsInv, Ipv6Inv, Updater, Ready
  <2>2. ASSUME NEW p \in Updater
        PROVE  /\ job'[p].pc \in {"idle", "lookup4"} => job'[p].v6 = NoAddr
               /\ job'[p].pc = "lookup6" => ConfigOf(p)'.ipv6
               /\ job'[p].v6 # NoAddr => ConfigOf(p)'.ipv6
    BY <1>2, <1>3, <1>4 DEF CallsInv, Ipv6Inv
  <2> QED BY <1>6, <2>1, <2>2 DEF CallsInv
<1>8. FileInv'
  BY <1>6 DEF FileInv, Ipv6Inv, Newest
<1>9. q = "force" => cfg = ctx /\ (ctx.ipv6 => SameSettings(Newest, ctx))
  BY <1>4 DEF CallsInv, FileInv, Ipv6Inv, ConfigOf
<1>10. NeverIpv6 => NeverIpv6'
  <2> SUFFICES ASSUME NeverIpv6 PROVE NeverIpv6'
    OBVIOUS
  <2>1. ~Newest.ipv6
    <3>1. Len(chan) \in DOMAIN chan \/ chan = << >>
      BY DEF TypeOK
    <3> QED BY <3>1 DEF NeverIpv6, Newest
  <2>2. ~cfg.ipv6
    BY <1>9, <2>1, SameIpv6 DEF NeverIpv6, ConfigOf, Updater
  <2>3. NoRecordsV6'
    BY <1>5, <2>2 DEF NeverIpv6, NoRecordsV6
  <2>4. \A p \in Updater : job'[p].v6 = NoAddr
    BY <1>3, <1>4, <2>2 DEF NeverIpv6
  <2> QED BY <2>3, <2>4 DEF NeverIpv6
<1>11. FlagInv'
  BY <1>10 DEF FlagInv, Ipv6Inv, Running
<1>12. CleanInv'
  <2> SUFFICES ASSUME chan = << >>, ~loopConfig.ipv6
               PROVE  Due' \/ \A d \in loopConfig.domain : dns'[d].v6 = NoAddr
    BY DEF CleanInv
  <2>1. Due \/ \A d \in loopConfig.domain : dns[d].v6 = NoAddr
    BY <1>6 DEF CleanInv, Ipv6Inv, Running
  <2>2. loopConfig.domain \subseteq Domain
    BY DEF TypeOK, Config
  <2>3. ~cfg.ipv6
    BY <1>9, SameIpv6 DEF Newest, ConfigOf, Updater
  <2>4. CASE \A d \in loopConfig.domain : dns[d].v6 = NoAddr
    BY <1>5, <2>2, <2>3, <2>4
  <2>5. CASE Due /\ q = "force"
    <3>1. job'["loop"] = job["loop"]
      BY <1>3, <2>5 DEF Updater
    <3> QED BY <2>5, <3>1 DEF Due, Ready
  <2>6. CASE Due /\ q = "loop"
    <3>1. /\ loopConfig.clear_ip_addresses /\ job["loop"].pc \in {"lookup4", "clear", "hung"}
          /\ cfg = loopConfig /\ Ready(loopConfig)
      BY <1>4, <2>6 DEF Due, ConfigOf, CallsInv, Ipv6Inv
    <3>2. CASE LookupV4(q, cfg)
      <4>1. job' = [job EXCEPT ![q].v4 = ip, ![q].pc = "clear"]
        BY <2>3, <3>1, <3>2 DEF LookupV4, FirstRequest, Ready
      <4>2. job'["loop"].pc = "clear"
        BY <1>1, <2>6, <4>1 DEF Job
      <4> QED BY <3>1, <4>2 DEF Due
    <3>3. CASE HttpHangs(q)
      <4>1. job'["loop"].pc = "hung"
        BY <1>1, <2>6, <3>3 DEF HttpHangs, Job
      <4> QED BY <3>1, <4>1 DEF Due
    <3>4. CASE dns' = Cleared(cfg)
      BY <2>2, <3>1, <3>4 DEF Cleared, NoRecord
    <3>5. LookupV4(q, cfg) \/ HttpHangs(q) \/ dns' = Cleared(cfg)
      BY <2>6, <3>1 DEF UpdateStep, LookupV6, HttpClear, HttpUpdate, HttpAnswerLost
    <3> QED BY <3>2, <3>3, <3>4, <3>5
  <2> QED BY <2>1, <2>4, <2>5, <2>6 DEF Updater
<1> QED BY <1>7, <1>8, <1>11, <1>12 DEF Ipv6Inv

(* So do an edit that leaves the file there and does not switch IPv6 on,   *)
(* and a step that concerns none of this.                                  *)
LEMMA EditIpv6 ==
  ASSUME TypeOK, Ipv6Inv, UNCHANGED <<dns, job, lpc, ctx, req, chan, loopConfig>>,
         file' = file \/ (file' # Absent /\ (file' \in Saved => ~file'.ipv6))
  PROVE  Ipv6Inv'
<1>1. \A p \in Updater : ConfigOf(p)' = ConfigOf(p)
  BY DEF ConfigOf
<1>2. CallsInv'
  BY <1>1 DEF CallsInv, Ipv6Inv, Ready
<1>3. FileInv'
  BY DEF FileInv, Ipv6Inv, Newest, NoRecordsV6
<1>4. FlagInv'
  BY DEF FlagInv, Ipv6Inv, Running, NeverIpv6, NoRecordsV6
<1>5. CleanInv'
  BY DEF CleanInv, Ipv6Inv, Running, Due, Ready
<1> QED BY <1>2, <1>3, <1>4, <1>5 DEF Ipv6Inv

(* A step of the listening loop alone, after it has booted, leaves three   *)
(* parts of the invariant as they are if it keeps the flag.                *)
LEMMA ListenIpv6 ==
  ASSUME TypeOK, Ipv6Inv, UNCHANGED <<dns, job, chan, loopConfig>>,
         Running, lpc # "boot", Running',
         job["force"].pc # "idle" => lpc' = "force" /\ ctx' = ctx,
         ctx'.clear_ip_addresses \/ (NeverIpv6 /\ ~ctx'.ipv6)
  PROVE  CallsInv' /\ FlagInv' /\ CleanInv'
<1>1. ASSUME NEW p \in Updater
      PROVE  /\ job'[p].pc \in {"idle", "lookup4"} => job'[p].v6 = NoAddr
             /\ job'[p].pc = "lookup6" => ConfigOf(p)'.ipv6
             /\ job'[p].v6 # NoAddr => ConfigOf(p)'.ipv6
  BY DEF CallsInv, Ipv6Inv, ConfigOf, Updater
<1>2. CallsInv'
  BY <1>1 DEF CallsInv, Ipv6Inv, Ready, Running
<1>3. NeverIpv6 => NeverIpv6'
  BY DEF NeverIpv6, NoRecordsV6
<1>4. FlagInv'
  BY <1>3 DEF FlagInv, Ipv6Inv
<1>5. CleanInv'
  BY DEF CleanInv, Ipv6Inv, Due, Ready
<1> QED BY <1>2, <1>4, <1>5

(* A change of IPv6 sets the flag, and no change resets it.                *)
LEMMA AppliedFlag ==
  ASSUME NEW c \in Config, NEW r \in Change
  PROVE  \/ Applied(r, c).clear_ip_addresses
         \/ /\ Applied(r, c).clear_ip_addresses = c.clear_ip_addresses
            /\ Applied(r, c).ipv6 = c.ipv6
BY DEF Applied, Config

(* What is sent to the update loop becomes the newest configuration, and   *)
(* has the flag or cannot publish an IPv6 address.                         *)
LEMMA SendIpv6 ==
  ASSUME TypeOK, Ipv6Inv, lpc \in {"boot", "notify"}, lpc' = "idle", Send(ctx),
         UNCHANGED <<dns, job, file, ctx, loopConfig>>
  PROVE  Ipv6Inv'
<1>1. /\ chan' # << >> /\ chan'[Len(chan')] = ctx /\ Newest' = ctx
      /\ \A i \in DOMAIN chan' : chan'[i] = ctx \/ \E j \in DOMAIN chan : chan'[i] = chan[j]
  BY DEF Send, TypeOK, Newest
<1>2. CallsInv'
  BY DEF CallsInv, Ipv6Inv, ConfigOf, Ready
<1>3. FileInv'
  BY <1>1 DEF FileInv, Ipv6Inv, SameSettings
<1>4. ctx.clear_ip_addresses \/ (NeverIpv6 /\ ~ctx.ipv6)
  BY DEF FlagInv, Ipv6Inv, Running
<1>5. NeverIpv6 /\ ~ctx.ipv6 => NeverIpv6'
  BY <1>1 DEF NeverIpv6, NoRecordsV6
<1>6. FlagInv'
  BY <1>1, <1>4, <1>5 DEF FlagInv
<1>7. CleanInv'
  BY <1>1 DEF CleanInv
<1> QED BY <1>2, <1>3, <1>6, <1>7 DEF Ipv6Inv

(* The update loop turns to what it has received.                          *)
LEMMA ReceiveIpv6 ==
  ASSUME TypeOK, Ipv6Inv, LoopReceive
  PROVE  Ipv6Inv'
<1>1. /\ Running /\ job["loop"].pc = "idle" /\ chan # << >>
      /\ loopConfig' = Head(chan) /\ chan' = Tail(chan)
      /\ UNCHANGED <<dns, file, lpc, ctx, req>>
      /\ job' = IF Ready(loopConfig') THEN [job EXCEPT !["loop"] = JobAt("lookup4")] ELSE job
      /\ job \in [Updater -> Job]
  BY DEF LoopReceive, LoopWaits, BeginUpdate, listenVars, TypeOK, DnsTypeOK
<1>2. job'["force"] = job["force"]
  BY <1>1 DEF Updater
<1>3. IF Ready(loopConfig') THEN job'["loop"] = JobAt("lookup4") ELSE job'["loop"] = job["loop"]
  BY <1>1 DEF Updater
<1>4. job["loop"].v6 = NoAddr /\ job'["loop"].v6 = NoAddr
  BY <1>1, <1>3 DEF CallsInv, Ipv6Inv, Updater, JobAt
<1>5. CallsInv'
  <2>1. job'["loop"].pc # "idle" => Ready(loopConfig')
    BY <1>1, <1>3
  <2>2. /\ job'["loop"].pc # "lookup6"
        /\ job'["force"].pc \in {"idle", "lookup4"} => job'["force"].v6 = NoAddr
        /\ job'["force"].pc = "lookup6" => ctx'.ipv6
        /\ job'["force"].v6 # NoAddr => ctx'.ipv6
    BY <1>1, <1>2, <1>3 DEF CallsInv, Ipv6Inv, ConfigOf, Updater, JobAt
  <2> QED BY <1>1, <1>2, <1>4, <2>1, <2>2
        DEF CallsInv, Ipv6Inv, Running, ConfigOf, Updater, Ready
<1>6. FileInv'
  BY <1>1, ReceiveKeepsNewest DEF FileInv, Ipv6Inv, NoRecordsV6
<1>7. Len(chan) \in Nat \ {0} /\ Head(chan) = chan[1] /\ 1 \in DOMAIN chan
  BY <1>1, EmptySeq DEF TypeOK
<1>8. NeverIpv6 => NeverIpv6'
  <2> SUFFICES ASSUME NeverIpv6 PROVE NeverIpv6'
    OBVIOUS
  <2>1. ~loopConfig'.ipv6
    BY <1>1, <1>7 DEF NeverIpv6
  <2>2. ASSUME NEW i \in DOMAIN chan' PROVE ~chan'[i].ipv6
    <3>1. i + 1 \in DOMAIN chan /\ chan'[i] = chan[i + 1]
      BY <1>1, <1>7 DEF TypeOK
    <3> QED BY <3>1 DEF NeverIpv6
  <2> QED BY <1>1, <1>2, <1>4, <2>1, <2>2 DEF NeverIpv6, NoRecordsV6, Updater
<1>9. chan' # << >> => chan'[Len(chan')] = chan[Len(chan)]
  BY <1>1, <1>7 DEF TypeOK
<1>10. chan' = << >> => Head(chan) = chan[Len(chan)]
  <2>1. Len(chan') = Len(chan) - 1 /\ Len(<< >>) = 0
    BY <1>1, HeadTailProperties, EmptySeq DEF TypeOK
  <2>2. chan' = << >> => Len(chan) = 1
    BY <1>7, <2>1
  <2> QED BY <1>7, <2>2
<1>11. FlagInv'
  BY <1>1, <1>8, <1>9 DEF FlagInv, Ipv6Inv, Running
<1>12. CleanInv'
  <2> SUFFICES ASSUME chan' = << >>
               PROVE  Due' \/ \A d \in loopConfig'.domain : dns'[d].v6 = NoAddr
    BY DEF CleanInv
  <2>1. CASE NeverIpv6
    <3>1. Head(chan) \in Config
      BY <1>1, ReceiveType
    <3> QED BY <1>1, <1>8, <2>1, <3>1 DEF NeverIpv6, NoRecordsV6, Config
  <2>2. CASE loopConfig'.clear_ip_addresses
    BY <1>1, <1>3, <2>2 DEF Due, JobAt, Ready
  <2> QED BY <1>1, <1>10, <2>1, <2>2 DEF FlagInv, Ipv6Inv
<1> QED BY <1>5, <1>6, <1>11, <1>12 DEF Ipv6Inv

(* Every step keeps this, if nobody else removes the file or switches IPv6 *)
(* on in it, no lookup fails and no request is refused.                    *)
LEMMA NextIpv6 ==
  ASSUME Faults \cap {"lookup", "refuse"} = {},
         Absent \notin Edits, \A s \in Edits \cap Saved : ~s.ipv6
  PROVE  TypeOK /\ IntervalFloor /\ Ipv6Inv /\ [Next]_vars => Ipv6Inv'
<1> SUFFICES ASSUME TypeOK, IntervalFloor, Ipv6Inv, [Next]_vars PROVE Ipv6Inv'
  OBVIOUS
<1>0. /\ ctx \in Config /\ ctx.interval >= MinimalInterval
      /\ job \in [Updater -> Job] /\ NoAddr \notin IPv4
      /\ {Absent, Empty, Garbled} \cap Saved = {} /\ Absent \notin {Empty, Garbled}
  BY DuckDnsAssumption, ServiceAssumption DEF TypeOK, DnsTypeOK, IntervalFloor, InProcess
<1>1. CASE Start
  <2>1. /\ ctx' = Parsed(file) /\ loopConfig' = Parsed(file) /\ lpc' = "boot"
        /\ UNCHANGED <<dns, job, file, chan>> /\ file \in Saved
        /\ chan = << >> /\ \A p \in Updater : job[p].pc = "idle" /\ job[p].v6 = NoAddr
    BY <1>1 DEF Start, dnsVars, CallsInv, Ipv6Inv
  <2>2. ctx'.clear_ip_addresses /\ loopConfig'.clear_ip_addresses
    BY <2>1 DEF Parsed, InMemory
  <2>3. CallsInv' /\ FlagInv' /\ CleanInv'
    BY <2>1, <2>2 DEF CallsInv, FlagInv, CleanInv, Due, Updater
  <2>4. FileInv'
    BY <1>0, <2>1 DEF FileInv, SameSettings
  <2> QED BY <2>3, <2>4 DEF Ipv6Inv
<1>2. CASE StartInstall
  <2>1. UNCHANGED <<dns, job, ctx, loopConfig, chan>> /\ lpc' = "installing" /\ file' = Empty
    BY <1>2 DEF StartInstall, dnsVars
  <2>2. NoRecordsV6 /\ lpc = "stopped"
    BY <1>2 DEF StartInstall, FileInv, Ipv6Inv
  <2>3. CallsInv'
    BY <2>1, <2>2 DEF CallsInv, Ipv6Inv, ConfigOf, Ready
  <2>4. FileInv'
    BY <2>1, <2>2, ServiceAssumption DEF FileInv, NoRecordsV6, StartInstall
  <2> QED BY <2>1, <2>3, <2>4 DEF Ipv6Inv, FlagInv, CleanInv, Running
<1>3. CASE FinishInstall
  <2>1. /\ UNCHANGED <<dns, job, chan>> /\ lpc' = "boot" /\ Written(DefaultConfig)
        /\ ctx' = DefaultConfig /\ loopConfig' = DefaultConfig
        /\ chan = << >> /\ NoRecordsV6
        /\ \A p \in Updater : job[p].pc = "idle" /\ job[p].v6 = NoAddr
    BY <1>3 DEF FinishInstall, dnsVars, CallsInv, FileInv, Ipv6Inv
  <2>2. ~DefaultConfig.ipv6
    BY DEF DefaultConfig, InMemory
  <2>3. NeverIpv6'
    BY <2>1, <2>2 DEF NeverIpv6, NoRecordsV6
  <2>4. CallsInv' /\ FlagInv'
    BY <2>1, <2>2, <2>3 DEF CallsInv, FlagInv, Updater
  <2>5. CleanInv'
    <3>1. DefaultConfig.domain \subseteq Domain
      BY DefaultIsConfig DEF Config
    <3> QED BY <2>1, <3>1 DEF CleanInv, NoRecordsV6
  <2>6. file' \in {Stored(DefaultConfig), Garbled} /\ file' # Absent
    BY <1>0, <2>1, StoredSaved, DefaultIsConfig, ServiceAssumption DEF Written
  <2>7. FileInv'
    BY <1>0, <2>1, <2>6, RoundTrip, DefaultIsConfig DEF FileInv, SameSettings
  <2> QED BY <2>4, <2>5, <2>7 DEF Ipv6Inv
<1>4. CASE InstallFails
  <2>1. /\ UNCHANGED <<dns, job, file, ctx, loopConfig, chan>>
        /\ lpc' = "stopped" /\ lpc = "installing"
    BY <1>4 DEF InstallFails, dnsVars
  <2>2. CallsInv'
    BY <2>1 DEF CallsInv, Ipv6Inv, ConfigOf, Ready
  <2>3. FileInv'
    BY <2>1 DEF FileInv, Ipv6Inv
  <2> QED BY <2>1, <2>2, <2>3 DEF Ipv6Inv, FlagInv, CleanInv, Running
<1>5. CASE Boot \/ Notify
  BY <1>5, SendIpv6 DEF Boot, Notify, Reply, dnsVars
<1>6. CASE Halt
  <2>1. /\ lpc' = "stopped" /\ lpc # "stopped" /\ chan' = << >>
        /\ UNCHANGED <<dns, file>>
        /\ \A p \in Updater : job'[p].pc = "idle" /\ job'[p].v6 = NoAddr
    BY <1>6 DEF Halt, JobAt
  <2>2. CallsInv'
    BY <2>1 DEF CallsInv, Updater
  <2>3. FileInv'
    BY <2>1 DEF FileInv, Ipv6Inv
  <2> QED BY <2>1, <2>2, <2>3 DEF Ipv6Inv, FlagInv, CleanInv, Running
<1>7. ASSUME NEW r \in Requests, HandleChange(r) PROVE Ipv6Inv'
  <2>1. /\ UNCHANGED <<dns, job, file, chan, loopConfig>>
        /\ lpc = "idle" /\ lpc' = "open" /\ ctx' = Applied(r, ctx) /\ r \in Change
    BY <1>7 DEF HandleChange, dnsVars
  <2>2. ctx'.clear_ip_addresses \/ (NeverIpv6 /\ ~ctx'.ipv6)
    BY <1>0, <2>1, AppliedFlag DEF FlagInv, Ipv6Inv, Running
  <2>3. CallsInv' /\ FlagInv' /\ CleanInv'
    BY <2>1, <2>2, ListenIpv6 DEF CallsInv, Ipv6Inv, Running
  <2>4. req' # ForceUpdate
    BY <1>7, <2>1 DEF HandleChange, Change, ForceUpdate
  <2>5. FileInv'
    BY <2>1, <2>4 DEF FileInv, Ipv6Inv, Newest
  <2> QED BY <2>3, <2>5 DEF Ipv6Inv
<1>8. CASE HandleForceUpdate
  <2>1. /\ UNCHANGED <<dns, file, chan, loopConfig>> /\ file \in Saved
        /\ lpc = "idle" /\ lpc' = "force" /\ ctx' = Parsed(file)
        /\ job' = [job EXCEPT !["force"] = JobAt("lookup4")]
    BY <1>8 DEF HandleForceUpdate
  <2>2. job'["loop"] = job["loop"] /\ job'["force"] = JobAt("lookup4")
    BY <1>0, <2>1 DEF Updater
  <2>3. ctx'.clear_ip_addresses
    BY <2>1 DEF Parsed, InMemory
  <2>4. CallsInv'
    BY <2>1, <2>2 DEF CallsInv, Ipv6Inv, ConfigOf, Updater, JobAt, Ready
  <2>5. FileInv'
    <3>1. Parsed(file).ipv6 = file.ipv6
      BY DEF Parsed, InMemory
    <3> QED BY <1>0, <2>1, <3>1 DEF FileInv, Ipv6Inv, Newest
  <2>6. NeverIpv6 => NeverIpv6'
    BY <2>1, <2>2 DEF NeverIpv6, NoRecordsV6, Updater, JobAt
  <2>7. FlagInv'
    BY <2>1, <2>3, <2>6 DEF FlagInv, Ipv6Inv, Running
  <2>8. CleanInv'
    BY <2>1, <2>2 DEF CleanInv, Ipv6Inv, Running, Due, Ready
  <2> QED BY <2>4, <2>5, <2>7, <2>8 DEF Ipv6Inv
<1>9. ~HandleForceInstall
  BY DEF HandleForceInstall, FileInv, Ipv6Inv
<1>10. CASE StoreOpen \/ StoreWrite \/ StoreFails
  <2>1. /\ UNCHANGED <<dns, job, ctx, chan, loopConfig, req>>
        /\ lpc \in {"open", "write"} /\ lpc' \in {"write", "notify", "idle"}
    BY <1>10 DEF StoreOpen, StoreWrite, StoreFails, Reply, dnsVars, FileInv, Ipv6Inv
  <2>2. CallsInv' /\ FlagInv' /\ CleanInv'
    BY <2>1, ListenIpv6 DEF CallsInv, FlagInv, Ipv6Inv, Running
  <2>3. FileInv'
    <3>1. CASE StoreOpen
      <4>1. lpc' = "write" /\ file' = Empty /\ req # ForceUpdate
        BY <3>1 DEF StoreOpen, FileInv, Ipv6Inv
      <4> QED BY <1>0, <2>1, <4>1 DEF FileInv
    <3>2. CASE StoreWrite
      <4>1. lpc' = "notify" /\ Written(ctx)
        BY <3>2 DEF StoreWrite, FileInv, Ipv6Inv
      <4>2. file' \in {Stored(ctx), Garbled} /\ file' # Absent
        BY <1>0, <4>1, StoredSaved, ServiceAssumption DEF Written
      <4> QED BY <1>0, <2>1, <4>1, <4>2, RoundTrip DEF FileInv, SameSettings
    <3>3. CASE StoreFails
      <4>1. lpc' = "idle" /\ file' = file
        BY <3>3 DEF StoreFails, Reply
      <4> QED BY <2>1, <4>1 DEF FileInv, Ipv6Inv, Newest
    <3> QED BY <1>10, <3>1, <3>2, <3>3
  <2> QED BY <2>2, <2>3 DEF Ipv6Inv
<1>11. CASE ForceDone
  <2>1. /\ UNCHANGED <<dns, file, ctx, chan, loopConfig>> /\ lpc = "force" /\ lpc' = "idle"
        /\ job' = [job EXCEPT !["force"] = JobAt("idle")]
    BY <1>11 DEF ForceDone, Reply, Return
  <2>2. job'["loop"] = job["loop"] /\ job'["force"] = JobAt("idle")
    BY <1>0, <2>1 DEF Updater
  <2>3. CallsInv'
    BY <2>1, <2>2 DEF CallsInv, Ipv6Inv, ConfigOf, Updater, JobAt, Ready
  <2>4. FileInv'
    BY <2>1 DEF FileInv, Ipv6Inv, Newest
  <2>5. NeverIpv6 => NeverIpv6'
    BY <2>1, <2>2 DEF NeverIpv6, NoRecordsV6, Updater, JobAt
  <2>6. FlagInv'
    BY <2>1, <2>5 DEF FlagInv, Ipv6Inv, Running
  <2>7. CleanInv'
    BY <2>1, <2>2 DEF CleanInv, Ipv6Inv, Running, Due, Ready
  <2> QED BY <2>3, <2>4, <2>6, <2>7 DEF Ipv6Inv
<1>12. CASE LoopReceive
  BY <1>12, ReceiveIpv6
<1>13. CASE LoopTick \/ LoopDone
  <2>1. /\ UNCHANGED <<dns, file, lpc, ctx, req, chan>> /\ loopConfig \in Config
        /\ lpc \notin {"stopped", "installing"}
        /\ loopConfig'.ipv6 = loopConfig.ipv6 /\ loopConfig'.domain = loopConfig.domain
        /\ Stored(loopConfig') = Stored(loopConfig) /\ Ready(loopConfig') = Ready(loopConfig)
    BY <1>13 DEF LoopTick, LoopDone, listenVars, LoopWaits, Running, TypeOK, Config,
                 Stored, Ready, CallsInv, Ipv6Inv, Updater
  <2>2. /\ job'["force"] = job["force"]
        /\ job'["loop"] \in {job["loop"], JobAt("lookup4"), JobAt("idle")}
        /\ job'["loop"].pc # "idle" => Ready(loopConfig')
    BY <1>0, <1>13, <2>1 DEF LoopTick, LoopDone, BeginUpdate, Return, Updater, JobAt, CallsInv, Ipv6Inv
  <2>3. CallsInv'
    BY <2>1, <2>2 DEF CallsInv, Ipv6Inv, ConfigOf, Updater, JobAt
  <2>4. Stored(Newest') = Stored(Newest)
    BY <2>1 DEF Newest
  <2>5. FileInv'
    BY <2>1, <2>4 DEF FileInv, Ipv6Inv, NoRecordsV6, SameSettings
  <2>6. NeverIpv6 => NeverIpv6'
    BY <2>1, <2>2 DEF NeverIpv6, NoRecordsV6, Updater, JobAt
  <2>7. FlagInv'
    BY <2>1, <2>6 DEF FlagInv, Ipv6Inv, Running
  <2>8. CASE LoopTick
    <3>1. /\ job["loop"].pc = "idle" /\ loopConfig' = loopConfig
          /\ Ready(loopConfig) => job'["loop"].pc = "lookup4"
          /\ ~Ready(loopConfig) => job'["loop"] = job["loop"]
      BY <1>0, <2>8 DEF LoopTick, LoopWaits, BeginUpdate, Updater, JobAt
    <3>2. CleanInv'
      BY <2>1, <3>1 DEF CleanInv, Ipv6Inv, Running, Due
    <3> QED BY <2>3, <2>5, <2>7, <3>2 DEF Ipv6Inv
  <2>9. CASE LoopDone
    <3>1. ~Due
      BY <2>9 DEF LoopDone, Due
    <3>2. CleanInv'
      BY <2>1, <3>1 DEF CleanInv, Ipv6Inv, Running
    <3> QED BY <2>3, <2>5, <2>7, <3>2 DEF Ipv6Inv
  <2> QED BY <1>13, <2>8, <2>9
<1>14. CASE Call("force") \/ Call("loop")
  BY <1>14, CallIpv6 DEF Call, Updater, listenVars
<1>15. CASE Outside
  <2>1. CASE \E p \in Updater : HttpAnswerLost(p, ConfigOf(p)) \/ HttpHangs(p)
    BY <1>15, <2>1, CallIpv6 DEF Outside, listenVars
  <2>2. CASE AddressChange
    BY <1>15, <2>2, EditIpv6 DEF Outside, AddressChange, listenVars
  <2> QED BY <1>15, <2>1, <2>2 DEF Outside, LookupFails, HttpRefused
<1>16. CASE Edit \/ UNCHANGED vars
  BY <1>16, EditIpv6 DEF Edit, vars, dnsVars, listenVars
<1> QED
  BY <1>1, <1>2, <1>3, <1>4, <1>5, <1>6, <1>7, <1>8, <1>9, <1>10, <1>11, <1>12,
     <1>13, <1>14, <1>15, <1>16
     DEF Next, ListenStep, LoopStep, Environment, Receive

(* Unless a lookup fails or a request is refused, and as long as nobody    *)
(* else removes the file or switches IPv6 on in it, switching IPv6 off     *)
(* leaves no AAAA record behind: whatever forced updates, other edits,     *)
(* failures of store(), lost answers, crashes and restarts come between.   *)
THEOREM Ipv6IsCleared ==
  ASSUME Faults \cap {"lookup", "refuse"} = {},
         Absent \notin Edits, \A s \in Edits \cap Saved : ~s.ipv6
  PROVE  Spec => []NoStaleIpv6
<1>1. Init => Ipv6Inv
  <2> SUFFICES ASSUME Init PROVE Ipv6Inv
    OBVIOUS
  <2>1. /\ lpc = "stopped" /\ chan = << >> /\ NoRecordsV6
        /\ \A p \in Updater : job[p].pc = "idle" /\ job[p].v6 = NoAddr
    BY DEF Init, DnsInit, NoRecord, JobAt, NoRecordsV6
  <2> QED BY <2>1 DEF Ipv6Inv, CallsInv, FileInv, FlagInv, CleanInv, Running, Updater
<1>2. Ipv6Inv => NoStaleIpv6
  BY DEF Ipv6Inv, CleanInv, Due, NoStaleIpv6, Running
<1>3. TypeOK /\ IntervalFloor /\ Ipv6Inv /\ [Next]_vars => Ipv6Inv'
  BY NextIpv6
<1> QED BY <1>1, <1>2, <1>3, IntervalIsFloored, TypeCorrect, PTL DEF Spec
============================================================================
