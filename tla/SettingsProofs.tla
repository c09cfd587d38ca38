--------------------------- MODULE SettingsProofs ---------------------------
(***************************************************************************)
(* The proof that the service implements Settings.                         *)
(***************************************************************************)
EXTENDS ServiceRefinement, ServiceProofs
----------------------------------------------------------------------------
(* A change is accepted, and has its effect, according to the settings     *)
(* alone: the flag that asks for a clear plays no part in it.              *)
LEMMA SettingsDecide ==
  ASSUME NEW c \in Config, NEW r \in Change
  PROVE  LET d == InMemory(Stored(c), FALSE)
         IN  /\ d \in Config
             /\ Accepts(r, c) => Accepts(r, d)
             /\ Stored(Applied(r, c)) = Stored(Applied(r, d))
<1> DEFINE d == InMemory(Stored(c), FALSE)
<1>1. d \in Config
  BY DEF Config, InMemory, Stored
<1>2. /\ d.token = c.token /\ d.domain = c.domain /\ d.interval = c.interval
      /\ d.ipv6 = c.ipv6 /\ d.dashboard = c.dashboard
  BY DEF InMemory, Stored
<1>3. Accepts(r, c) => Accepts(r, d)
  BY <1>2 DEF Accepts
<1>4. Stored(Applied(r, c)) = Stored(Applied(r, d))
  BY <1>1, <1>2 DEF Stored, Applied, Config
<1> QED BY <1>1, <1>3, <1>4

(* The abstract specification means the same by these operators.           *)
LEMMA SameOperators ==
  /\ Abs!Saved = Saved
  /\ Abs!Change = Change
  /\ Abs!DefaultConfig = DefaultConfig
  /\ \A c : Abs!Stored(c) = Stored(c)
  /\ \A s, b : Abs!InMemory(s, b) = InMemory(s, b)
  /\ \A r, c : Abs!Accepts(r, c) <=> Accepts(r, c)
  /\ \A r, c : Abs!Applied(r, c) = Applied(r, c)
<1>1. Abs!Saved = Saved /\ Abs!Change = Change
  BY DEF Abs!Saved, Saved, Abs!Change, Change
<1>2. \A s, b : Abs!InMemory(s, b) = InMemory(s, b)
  BY DEF Abs!InMemory, InMemory
<1>3. Abs!DefaultConfig = DefaultConfig
  BY <1>2 DEF Abs!DefaultConfig, DefaultConfig
<1>4. \A c : Abs!Stored(c) = Stored(c)
  BY DEF Abs!Stored, Stored
<1>5. \A r, c : Abs!Accepts(r, c) <=> Accepts(r, c)
  <2>1. \A S : Abs!Cardinality(S) = Cardinality(S)
    BY DEF Abs!Cardinality, Cardinality
  <2> QED BY <2>1 DEF Abs!Accepts, Accepts
<1>6. \A r, c : Abs!Applied(r, c) = Applied(r, c)
  BY DEF Abs!Applied, Applied
<1> QED BY <1>1, <1>2, <1>3, <1>4, <1>5, <1>6
----------------------------------------------------------------------------
(* What is on its way to the update loop *)

(* As the settings it carries, it is a sequence of the same length.        *)
LEMMA StoredAllType ==
  ASSUME NEW q \in Seq(Config)
  PROVE  /\ StoredAll(q) \in Seq(Saved)
         /\ Len(StoredAll(q)) = Len(q)
         /\ \A i \in 1 .. Len(q) : StoredAll(q)[i] = Stored(q[i])
<1>1. Len(q) \in Nat /\ \A i \in 1 .. Len(q) : q[i] \in Config
  OBVIOUS
<1>2. \A i \in 1 .. Len(q) : Stored(q[i]) \in Saved
  BY <1>1, StoredSaved
<1>3. StoredAll(q) \in [1 .. Len(q) -> Saved]
  BY <1>2 DEF StoredAll
<1>4. StoredAll(q) \in Seq(Saved)
  BY <1>1, <1>3, SeqDef
<1>5. Len(StoredAll(q)) = Len(q)
  BY <1>1, <1>3, <1>4, LenProperties
<1> QED BY <1>4, <1>5 DEF StoredAll

(* A configuration that is sent adds its settings to what is coming.       *)
LEMMA StoredAllAppend ==
  ASSUME NEW q \in Seq(Config), NEW c \in Config
  PROVE  StoredAll(Append(q, c)) = Append(StoredAll(q), Stored(c))
<1>1. /\ Append(q, c) \in Seq(Config)
      /\ Len(Append(q, c)) = Len(q) + 1 /\ Len(q) \in Nat
      /\ \A i \in 1 .. Len(q) : Append(q, c)[i] = q[i]
      /\ Append(q, c)[Len(q) + 1] = c
  BY AppendProperties
<1>2. Stored(c) \in Saved
  BY StoredSaved
<1> DEFINE left == StoredAll(Append(q, c))
           right == Append(StoredAll(q), Stored(c))
<1>3. /\ left \in Seq(Saved) /\ Len(left) = Len(q) + 1
      /\ \A i \in 1 .. Len(q) + 1 : left[i] = Stored(Append(q, c)[i])
  BY <1>1, StoredAllType
<1>4. /\ right \in Seq(Saved) /\ Len(right) = Len(q) + 1
      /\ \A i \in 1 .. Len(q) : right[i] = StoredAll(q)[i]
      /\ right[Len(q) + 1] = Stored(c)
  BY <1>1, <1>2, StoredAllType, AppendProperties
<1> HIDE DEF left, right
<1>5. ASSUME NEW i \in 1 .. Len(q) + 1 PROVE left[i] = right[i]
  <2>1. CASE i = Len(q) + 1
    BY <1>1, <1>3, <1>4, <2>1
  <2>2. CASE i \in 1 .. Len(q)
    BY <1>1, <1>3, <1>4, <2>2, StoredAllType
  <2> QED BY <1>1, <2>1, <2>2
<1>6. left = right
  BY <1>3, <1>4, <1>5, SeqEqual
<1> QED BY <1>6 DEF left, right

(* One that is received takes its settings away from the front.            *)
LEMMA StoredAllTail ==
  ASSUME NEW q \in Seq(Config), q # << >>
  PROVE  /\ StoredAll(q)[1] = Stored(Head(q))
         /\ SubSeq(StoredAll(q), 2, Len(StoredAll(q))) = StoredAll(Tail(q))
<1>1. /\ Len(q) \in Nat \ {0} /\ Tail(q) \in Seq(Config)
      /\ Len(Tail(q)) = Len(q) - 1
      /\ \A i \in 1 .. Len(q) - 1 : Tail(q)[i] = q[i + 1]
  BY EmptySeq, HeadTailProperties
<1> DEFINE left == SubSeq(StoredAll(q), 2, Len(StoredAll(q)))
           right == StoredAll(Tail(q))
<1>2. StoredAll(q)[1] = Stored(Head(q))
  BY <1>1, StoredAllType
<1>3. /\ left \in Seq(Saved) /\ Len(left) = Len(q) - 1
      /\ \A i \in 1 .. Len(q) - 1 : left[i] = StoredAll(q)[i + 1]
  BY <1>1, StoredAllType
<1>4. /\ right \in Seq(Saved) /\ Len(right) = Len(q) - 1
      /\ \A i \in 1 .. Len(q) - 1 : right[i] = Stored(Tail(q)[i])
  BY <1>1, StoredAllType
<1>5. \A i \in 1 .. Len(q) - 1 : left[i] = right[i]
  BY <1>1, <1>3, <1>4, StoredAllType
<1> HIDE DEF left, right
<1>6. left = right
  BY <1>3, <1>4, <1>5, SeqEqual
<1> QED BY <1>2, <1>6 DEF left, right
----------------------------------------------------------------------------
(* The invariant along a request *)

(* While the service runs the file is only ever empty between the halves   *)
(* of store(); except in the middle of a change, file, listening loop and  *)
(* update loop agree; and a change that is about to be stored was accepted *)
(* when they did.                                                          *)
SettingsInv ==
  /\ ~Running => chan = << >>
  /\ lpc = "installing" => file = Empty
  /\ lpc = "write" => file = Empty /\ req # ForceUpdate
  /\ Running /\ lpc # "write" => file \in Saved
  /\ lpc \in {"boot", "idle", "notify", "force"} => OnDisk(ctx)
  /\ lpc \in {"boot", "idle", "force"} => SameSettings(Newest, ctx)
  /\ lpc = "open" =>
       /\ req \in Requests \cap Change
       /\ \E c \in Config :
            /\ OnDisk(c) /\ SameSettings(Newest, c)
            /\ Accepts(req, c)
            /\ ctx = Applied(req, c)

(* A configuration that is sent is the newest.                             *)
LEMMA SendNewest ==
  ASSUME TypeOK, NEW c \in Config, Send(c)
  PROVE  Newest' = c
BY DEF TypeOK, Send, Newest

(* Without edits, failing writes and a process that ends in the middle of  *)
(* one, every step keeps this: StoreOpen is the only one that makes file   *)
(* and listening loop disagree, and StoreWrite restores it.                *)
LEMMA NextSettings ==
  ASSUME Edits = {}, Faults \cap {"store", "halt"} = {}
  PROVE  TypeOK /\ IntervalFloor /\ SettingsInv /\ [Next]_vars => SettingsInv'
<1> SUFFICES ASSUME TypeOK, IntervalFloor, SettingsInv, [Next]_vars
             PROVE  SettingsInv'
  OBVIOUS
<1>0. /\ ctx \in Config /\ ctx.interval >= MinimalInterval
      /\ {Absent, Empty, Garbled} \cap Saved = {}
  BY ServiceAssumption DEF TypeOK, IntervalFloor, InProcess
<1> USE DEF SettingsInv, OnDisk, SameSettings, Running
<1>1. CASE Start
  BY <1>1 DEF Start, Newest, TypeOK
<1>2. CASE StartInstall
  BY <1>2 DEF StartInstall
<1>3. CASE FinishInstall
  BY <1>3, DefaultIsConfig, WrittenOnDisk DEF FinishInstall, Newest
<1>4. CASE InstallFails \/ StoreFails \/ Edit
  BY <1>4 DEF InstallFails, StoreFails, Edit
<1>5. CASE Boot
  BY <1>0, <1>5, SendNewest DEF Boot
<1>6. CASE Halt
  BY <1>6 DEF Halt
<1>7. CASE Receive
  <2> PICK r \in Requests :
        HandleChange(r) \/ (r = ForceUpdate /\ (HandleForceUpdate \/ HandleForceInstall))
    BY <1>7 DEF Receive
  <2>1. CASE HandleChange(r)
    BY <1>0, <2>1 DEF HandleChange, Newest
  <2>2. CASE HandleForceUpdate
    BY <2>2 DEF HandleForceUpdate, Newest
  <2>3. CASE HandleForceInstall
    BY <1>0, <2>3 DEF HandleForceInstall
  <2> QED BY <2>1, <2>2, <2>3
<1>8. CASE StoreOpen
  <2>1. req \in Change
    BY <1>8 DEF StoreOpen
  <2>2. req # ForceUpdate
    BY <2>1 DEF Change, ForceUpdate
  <2> QED BY <1>8, <2>2 DEF StoreOpen
<1>9. CASE StoreWrite
  BY <1>0, <1>9, WrittenOnDisk DEF StoreWrite
<1>10. CASE Notify
  BY <1>0, <1>10, SendNewest DEF Notify, Reply
<1>11. CASE ForceDone
  BY <1>11 DEF ForceDone, Reply, Newest
<1>12. CASE LoopReceive
  BY <1>12, ReceiveKeepsNewest DEF LoopReceive, listenVars
<1>13. CASE LoopDone
  <2>1. Stored(loopConfig') = Stored(loopConfig)
    BY <1>13 DEF LoopDone, Stored, TypeOK, Config
  <2>2. Stored(Newest') = Stored(Newest)
    BY <1>13, <2>1 DEF LoopDone, Newest
  <2> QED BY <1>13, <2>2 DEF LoopDone, listenVars
<1>14. CASE LoopTick \/ Call("force") \/ Call("loop") \/ Outside
  BY <1>14 DEF LoopTick, Call, Outside, Newest, listenVars
<1>15. CASE UNCHANGED vars
  BY <1>15 DEF vars, listenVars, Newest
<1> QED
  BY <1>1, <1>2, <1>3, <1>4, <1>5, <1>6, <1>7, <1>8, <1>9, <1>10, <1>11,
     <1>12, <1>13, <1>14, <1>15
     DEF Next, ListenStep, LoopStep, Environment
----------------------------------------------------------------------------
(* Every step is a step of Settings, or none *)

(* While the service runs the settings are those of the file, or those     *)
(* that are about to be written.                                           *)
LEMMA SettingsOfFile ==
  ASSUME TypeOK, SettingsInv
  PROVE  /\ lpc = "write" => SettingsNow = Stored(ctx)
         /\ Running /\ lpc # "write" =>
              file \in Saved /\ SettingsNow = Stored(Parsed(file))
         /\ lpc \in {"boot", "idle", "notify", "force"} => SettingsNow = Stored(ctx)
<1>1. Empty \notin Saved
  BY ServiceAssumption
<1> QED BY <1>1 DEF SettingsInv, SettingsNow, Running, OnDisk, SameSettings

(* The last of what is coming is the newest.                               *)
LEMMA LatestIsNewest ==
  ASSUME TypeOK, Running
  PROVE  Abs!Latest = Stored(Newest)
<1>1. CASE chan = << >>
  <2>1. StoredAll(chan) = << >>
    BY <1>1, StoredAllType, EmptySeq DEF TypeOK
  <2> QED BY <1>1, <2>1 DEF Abs!Latest, Newest, InUse
<1>2. CASE chan # << >>
  <2>1. chan \in Seq(Config) /\ Len(chan) \in Nat \ {0}
    BY <1>2, EmptySeq DEF TypeOK
  <2>2. /\ StoredAll(chan) \in Seq(Saved) /\ Len(StoredAll(chan)) = Len(chan)
        /\ StoredAll(chan)[Len(chan)] = Stored(chan[Len(chan)])
    BY <2>1, StoredAllType
  <2>3. StoredAll(chan) # << >>
    BY <2>1, <2>2, EmptySeq
  <2> QED BY <1>2, <2>2, <2>3 DEF Abs!Latest, Newest
<1> QED BY <1>1, <1>2

(* The service starts where Settings does: with any file, and stopped.     *)
LEMMA InitSettings == Init => Abs!Init
<1> SUFFICES ASSUME Init PROVE Abs!Init
  OBVIOUS
<1>1. StoredAll(chan) = << >>
  BY StoredAllType, EmptySeq DEF Init
<1>2. SettingsNow \in Saved \cup {Absent}
  BY ParsedConfig, StoredSaved DEF Init, SettingsNow
<1> QED BY <1>1, <1>2, SameOperators DEF Abs!Init, Init, Running, InUse

(* StoreOpen is Replace, Boot and Notify are Announce, LoopReceive is      *)
(* Adopt, Start and FinishInstall are Start, Halt is Stop; all else leaves *)
(* the settings as they are.                                               *)
LEMMA StepSettings ==
  ASSUME Edits = {}, Faults \cap {"store", "halt"} = {}
  PROVE  /\ TypeOK /\ IntervalFloor /\ SettingsInv
         /\ TypeOK' /\ SettingsInv' /\ [Next]_vars
         => [Abs!Next]_(Abs!vars)
<1> SUFFICES ASSUME TypeOK, IntervalFloor, SettingsInv, TypeOK', SettingsInv', [Next]_vars
             PROVE  [Abs!Next]_(Abs!vars)
  OBVIOUS
<1>0. {Absent, Empty, Garbled} \cap Saved = {}
  BY ServiceAssumption
<1>1. ASSUME SettingsNow' = SettingsNow, Running' <=> Running, UNCHANGED <<loopConfig, chan>>
      PROVE  UNCHANGED Abs!vars
  BY <1>1 DEF Abs!vars, InUse
<1>2. CASE Start
  <2>1. file \in Saved /\ ~Running /\ chan = << >> /\ chan' = chan
    BY <1>2 DEF Start, Running, SettingsInv
  <2>2. /\ SettingsNow = Stored(Parsed(file)) /\ SettingsNow' = SettingsNow
        /\ SettingsNow \in Saved
    BY <1>2, <2>1, ParsedConfig, StoredSaved DEF Start, SettingsNow
  <2>3. Running' /\ InUse' = SettingsNow'
    BY <1>2, <2>2 DEF Start, InUse, Running
  <2>4. StoredAll(chan') = << >>
    BY <2>1, StoredAllType, EmptySeq DEF TypeOK
  <2>5. Abs!Start
    BY <1>0, <2>1, <2>2, <2>3, <2>4 DEF Abs!Start
  <2> QED BY <2>5 DEF Abs!Next
<1>3. CASE StartInstall
  <2>1. SettingsNow' = SettingsNow
    BY <1>0, <1>3 DEF StartInstall, SettingsNow
  <2> QED BY <1>1, <1>3, <2>1 DEF StartInstall, Running
<1>4. CASE FinishInstall
  <2>1. file = Empty /\ ~Running /\ chan = << >> /\ chan' = chan
    BY <1>4 DEF FinishInstall, Running, SettingsInv
  <2>2. SettingsNow = Absent
    BY <1>0, <1>4, <2>1 DEF FinishInstall, SettingsNow
  <2>3. Running' /\ InUse' = Stored(DefaultConfig)
    BY <1>4 DEF FinishInstall, InUse, Running
  <2>4. SettingsNow' = Stored(DefaultConfig)
    BY <1>4, <2>1, DefaultIsConfig, WrittenOnDisk
       DEF FinishInstall, SettingsNow, SameSettings
  <2>5. StoredAll(chan') = << >>
    BY <2>1, StoredAllType, EmptySeq DEF TypeOK
  <2>6. Abs!Start
    BY <2>1, <2>2, <2>3, <2>4, <2>5, SameOperators DEF Abs!Start
  <2> QED BY <2>6 DEF Abs!Next
<1>5. CASE InstallFails \/ StoreFails \/ Edit
  BY <1>5 DEF InstallFails, StoreFails, Edit
<1>6. CASE Boot \/ Notify
  <2>1. ctx \in Config /\ chan \in Seq(Config)
    BY DEF TypeOK
  <2>2. Running /\ SettingsNow = Stored(ctx) /\ Send(ctx)
    BY <1>6, SettingsOfFile DEF Boot, Notify, Running
  <2>3. StoredAll(chan') = Append(StoredAll(chan), SettingsNow)
    BY <2>1, <2>2, StoredAllAppend DEF Send
  <2>4. UNCHANGED <<file, loopConfig>> /\ lpc' = "idle"
    BY <1>6 DEF Boot, Notify, Reply
  <2>5. SettingsNow' = SettingsNow
    BY <1>6, <2>4, SettingsOfFile DEF Boot, Notify, Running, SettingsNow
  <2>6. (Running' <=> Running) /\ InUse' = InUse
    BY <2>2, <2>4 DEF Running, InUse
  <2>7. Abs!Announce
    BY <2>2, <2>3, <2>5, <2>6 DEF Abs!Announce
  <2> QED BY <2>7 DEF Abs!Next
<1>7. CASE Halt
  <2>1. lpc \notin {"stopped", "installing", "write"} /\ Running /\ ~Running'
        /\ UNCHANGED file /\ lpc' = "stopped" /\ chan' = << >>
    BY <1>7 DEF Halt, Running
  <2>2. SettingsNow' = SettingsNow
    BY <2>1, SettingsOfFile DEF SettingsNow
  <2>3. StoredAll(chan') = << >>
    BY <2>1, StoredAllType, EmptySeq DEF TypeOK
  <2>4. Abs!Stop
    BY <2>1, <2>2, <2>3 DEF Abs!Stop, InUse
  <2> QED BY <2>4 DEF Abs!Next
<1>8. CASE Receive
  <2> PICK r \in Requests :
        HandleChange(r) \/ (r = ForceUpdate /\ (HandleForceUpdate \/ HandleForceInstall))
    BY <1>8 DEF Receive
  <2>1. lpc = "idle" /\ file \in Saved
    BY SettingsOfFile DEF HandleChange, HandleForceUpdate, HandleForceInstall, Running
  <2>2. UNCHANGED <<file, loopConfig, chan>> /\ Running'
    BY <1>0, <2>1 DEF HandleChange, HandleForceUpdate, HandleForceInstall, Running
  <2> QED BY <1>1, <2>1, <2>2 DEF SettingsNow, Running
<1>9. CASE StoreOpen
  <2> DEFINE s == SettingsNow
  <2>1. lpc = "open" /\ Running /\ Running' /\ UNCHANGED <<chan, loopConfig, ctx>>
    BY <1>9 DEF StoreOpen, Running
  <2>2. PICK c \in Config :
          /\ OnDisk(c) /\ SameSettings(Newest, c)
          /\ Accepts(req, c)
          /\ ctx = Applied(req, c)
    BY <2>1 DEF SettingsInv
  <2>3. req \in Requests \cap Change /\ s = Stored(c) /\ Abs!Latest = s
    BY <2>1, <2>2, SettingsOfFile, LatestIsNewest
       DEF SettingsInv, OnDisk, SameSettings
  <2>4. Accepts(req, InMemory(s, FALSE))
        /\ Stored(ctx) = Stored(Applied(req, InMemory(s, FALSE)))
    BY <2>2, <2>3, SettingsDecide
  <2>5. s' = Stored(ctx)
    BY <1>0, <1>9 DEF StoreOpen, SettingsNow
  <2>6. InUse' = InUse /\ StoredAll(chan)' = StoredAll(chan)
    BY <2>1 DEF InUse
  <2>7. Abs!Replace(req)
    BY <2>1, <2>3, <2>4, <2>5, <2>6, SameOperators DEF Abs!Replace
  <2> QED BY <2>3, <2>7, SameOperators DEF Abs!Next
<1>10. CASE StoreWrite
  <2>1. /\ lpc = "write" /\ file = Empty /\ Running /\ Running'
        /\ Written(ctx) /\ UNCHANGED <<ctx, chan, loopConfig>>
    BY <1>10 DEF StoreWrite, SettingsInv, Running
  <2>2. ctx \in Config /\ ctx.interval >= MinimalInterval
    BY DEF TypeOK, IntervalFloor, InProcess
  <2>3. SettingsNow' = Stored(ctx)
    BY <2>1, <2>2, WrittenOnDisk DEF SettingsNow, SameSettings
  <2> QED BY <1>1, <2>1, <2>3, SettingsOfFile
<1>11. CASE LoopReceive
  <2>1. chan \in Seq(Config) /\ chan # << >> /\ chan' = Tail(chan)
        /\ loopConfig' = Head(chan) /\ Running /\ UNCHANGED <<file, listenVars>>
    BY <1>11 DEF LoopReceive, LoopWaits, TypeOK
  <2>2. SettingsNow' = SettingsNow /\ Running' /\ InUse' = Stored(Head(chan))
    BY <2>1 DEF SettingsNow, Running, InUse, listenVars
  <2>3. 1 \in 1 .. Len(StoredAll(chan))
    BY <2>1, StoredAllType, EmptySeq
  <2>4. /\ InUse' = StoredAll(chan)[1]
        /\ StoredAll(chan') = SubSeq(StoredAll(chan), 1 + 1, Len(StoredAll(chan)))
    BY <2>1, <2>2, StoredAllTail
  <2>5. Abs!Adopt
    BY <2>1, <2>2, <2>3, <2>4 DEF Abs!Adopt
  <2> QED BY <2>5 DEF Abs!Next
<1>12. CASE LoopDone
  <2>1. Stored(loopConfig') = Stored(loopConfig)
    BY <1>12 DEF LoopDone, Stored, TypeOK, Config
  <2>2. UNCHANGED <<file, listenVars, chan>>
    BY <1>12 DEF LoopDone
  <2>3. SettingsNow' = SettingsNow /\ (Running' <=> Running) /\ InUse' = InUse
    BY <2>1, <2>2 DEF SettingsNow, Running, InUse, listenVars
  <2> QED BY <2>2, <2>3 DEF Abs!vars
<1>13. CASE ForceDone
  <2>1. lpc = "force" /\ lpc' = "idle" /\ UNCHANGED <<file, chan, loopConfig>>
    BY <1>13 DEF ForceDone, Reply
  <2>2. SettingsNow' = SettingsNow
    BY <2>1, SettingsOfFile DEF SettingsNow, Running
  <2> QED BY <1>1, <2>1, <2>2 DEF Running
<1>14. CASE LoopTick \/ Call("force") \/ Call("loop") \/ Outside \/ UNCHANGED vars
  <2>1. UNCHANGED <<file, listenVars, chan, loopConfig>>
    BY <1>14 DEF LoopTick, Call, Outside, vars
  <2> QED BY <1>1, <2>1 DEF SettingsNow, Running, listenVars
<1> QED
  BY <1>2, <1>3, <1>4, <1>5, <1>6, <1>7, <1>8, <1>9, <1>10, <1>11, <1>12,
     <1>13, <1>14
     DEF Next, ListenStep, LoopStep, Environment

(* If nobody else edits config.toml, no write fails, and the process is    *)
(* not ended in the middle of one, the service implements Settings: its    *)
(* settings are one durable value that accepted requests change in a       *)
(* single step, and that reaches the update loop in order.                 *)
THEOREM ServiceImplementsSettings ==
  ASSUME Edits = {}, Faults \cap {"store", "halt"} = {}
  PROVE  Spec => ImplementsSettings
<1>1. Init => SettingsInv
  BY DEF Init, SettingsInv, Running
<1>2. TypeOK /\ IntervalFloor /\ SettingsInv /\ [Next]_vars => SettingsInv'
  BY NextSettings
<1>3. Spec => []SettingsInv
  BY <1>1, <1>2, TypeCorrect, IntervalIsFloored, PTL DEF Spec
<1>4. /\ TypeOK /\ IntervalFloor /\ SettingsInv
      /\ TypeOK' /\ SettingsInv' /\ [Next]_vars
      => [Abs!Next]_(Abs!vars)
  BY StepSettings
<1> QED
  BY <1>3, <1>4, InitSettings, TypeCorrect, IntervalIsFloored, PTL
     DEF Spec, ImplementsSettings, Abs!Spec
----------------------------------------------------------------------------
(* Starting again *)

(* The file is read when the service starts.  If it could be read once it  *)
(* can be read after every stop: SettingsInv says that a request leaves a  *)
(* file that parses, and that only store() has it empty for a while.       *)
LEMMA NextRestartable ==
  ASSUME Edits = {}, Faults \cap {"store", "halt"} = {}
  PROVE  SettingsInv /\ Restartable /\ [Next]_vars => Restartable'
<1> SUFFICES ASSUME SettingsInv, Restartable, [Next]_vars PROVE Restartable'
  OBVIOUS
<1>1. CASE Halt
  <2>1. lpc \notin {"stopped", "installing", "write"} /\ file' = file
    BY <1>1 DEF Halt
  <2> QED BY <2>1 DEF SettingsInv, Running, Restartable
<1>2. CASE InstallFails \/ StoreFails \/ Edit
  BY <1>2 DEF InstallFails, StoreFails, Edit
<1>3. CASE Start \/ StartInstall \/ FinishInstall
  BY <1>3 DEF Start, StartInstall, FinishInstall, Restartable
<1>4. CASE Boot \/ Receive \/ StoreOpen \/ StoreWrite \/ Notify \/ ForceDone
  BY <1>4
     DEF Boot, Receive, HandleChange, HandleForceUpdate, HandleForceInstall, StoreOpen,
         StoreWrite, Notify, ForceDone, Reply, Restartable
<1>5. CASE Call("force") \/ LoopStep \/ Outside \/ UNCHANGED vars
  <2>1. lpc' = lpc /\ file' = file
    BY <1>5 DEF LoopStep, LoopReceive, LoopTick, LoopDone, Call, Outside, listenVars, vars
  <2> QED BY <2>1 DEF Restartable
<1> QED BY <1>1, <1>2, <1>3, <1>4, <1>5 DEF Next, Environment, ListenStep, LoopStep

(* The end of the process in the middle of store(), a write that fails and *)
(* an edit by somebody else are all that can keep a stopped service from   *)
(* starting again: without them, and with a file it can start with at      *)
(* first, no sequence of requests, updates and stops does.                 *)
THEOREM StaysRestartable ==
  ASSUME Edits = {}, Faults \cap {"store", "halt"} = {},
         InitialFiles \subseteq Saved \cup {Absent}
  PROVE  Spec => []Restartable
<1>1. Init => SettingsInv /\ Restartable
  BY DEF Init, SettingsInv, Running, Restartable
<1>2. TypeOK /\ IntervalFloor /\ SettingsInv /\ [Next]_vars => SettingsInv'
  BY NextSettings
<1>3. SettingsInv /\ Restartable /\ [Next]_vars => Restartable'
  BY NextRestartable
<1> QED BY <1>1, <1>2, <1>3, TypeCorrect, IntervalIsFloored, PTL DEF Spec
============================================================================
