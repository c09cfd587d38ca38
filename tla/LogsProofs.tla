----------------------------- MODULE LogsProofs -----------------------------
(* Theorems about Logs, for any sizes and limits. *)
EXTENDS Logs, FiniteSetTheorems, SequenceTheorems, WellFoundedInduction, TLAPS

(***************************************************************************)
(* What makes ClearsAll inductive: as long as the logger has not renamed a *)
(* file under it, whatever was there when clear-logs began is either gone  *)
(* or still on its list.                                                   *)
(***************************************************************************)
Listed ==
  clearing /\ ~moved =>
    /\ linked /\ open # << >> => open[1] > before \/ Current \in clear
    /\ \A f \in old : f > before \/ f \in clear

ClearInv == before <= last /\ Listed /\ ClearsAll

-----------------------------------------------------------------------------
(***************************************************************************)
(* The file that goes first exists: a set of numbers has a smallest one.   *)
(***************************************************************************)
LEMMA Smallest ==
  ASSUME NEW files \in SUBSET Nat, files # {}
  PROVE  \E f \in files : \A g \in files : f <= g
<1> DEFINE Upto == {0..f : f \in files}
           R == StrictSubsetOrdering(Nat)
<1>1. Upto \subseteq FiniteSubsetsOf(Nat)
  <2> SUFFICES ASSUME NEW f \in files PROVE 0..f \in FiniteSubsetsOf(Nat)
    OBVIOUS
  <2>1. IsFiniteSet(0..f)
    BY FS_Interval
  <2> QED BY <2>1 DEF FiniteSubsetsOf
<1>2. PICK U \in Upto : \A V \in Upto : <<V, U>> \notin R
  <2>1. IsWellFoundedOn(R, FiniteSubsetsOf(Nat))
    BY FS_StrictSubsetOrderingWellFounded
  <2>2. Upto # {}
    OBVIOUS
  <2> HIDE DEF Upto, R
  <2> QED BY <1>1, <2>1, <2>2, WFMin
<1>3. PICK f \in files : U = 0..f
  OBVIOUS
<1>4. ASSUME NEW g \in files, g < f PROVE FALSE
  <2>1. <<0..g, 0..f>> \notin R
    BY <1>2, <1>3
  <2>2. 0..g \subseteq 0..f /\ f \in 0..f /\ f \notin 0..g
    BY <1>4
  <2>3. 0..g \in SUBSET Nat /\ 0..f \in SUBSET Nat /\ 0..g # 0..f
    BY <2>2
  <2> QED BY <2>1, <2>2, <2>3 DEF StrictSubsetOrdering
<1>5. \A g \in files : f <= g
  BY <1>4
<1> QED BY <1>5

(***************************************************************************)
(* One file too many is one that Keep removes.                             *)
(***************************************************************************)
LEMMA KeepLimits ==
  ASSUME NEW files \in SUBSET Nat, IsFiniteSet(files),
         Cardinality(files) <= KeepFiles + 1
  PROVE  Keep(files) \subseteq files /\ Cardinality(Keep(files)) <= KeepFiles
<1>0. KeepFiles \in Nat \ {0} /\ Cardinality(files) \in Nat
  BY LogsAssumption, FS_CardinalityType
<1>1. CASE Cardinality(files) <= KeepFiles
  BY <1>0, <1>1 DEF Keep
<1>2. CASE Cardinality(files) > KeepFiles
  <2> DEFINE first == CHOOSE f \in files : \A g \in files : f <= g
  <2>1. files # {}
    BY <1>0, <1>2, FS_EmptySet
  <2>2. first \in files
    BY <2>1, Smallest
  <2>3. Keep(files) = files \ {first}
    BY <1>2 DEF Keep
  <2> HIDE DEF first
  <2>4. Cardinality(files \ {first}) = Cardinality(files) - 1
    BY <2>2, FS_RemoveElement
  <2> QED BY <1>0, <2>3, <2>4
<1> QED BY <1>0, <1>1, <1>2

(***************************************************************************)
(* Removing files, or rotating one, leaves no more than KeepFiles.         *)
(***************************************************************************)
LEMMA OldFinite == TypeOK => IsFiniteSet(old)
<1>1. IsFiniteSet(Entries)
  BY LogsAssumption, FS_Interval DEF Entries
<1> QED BY <1>1, FS_Subset DEF TypeOK

LEMMA FewerFiles ==
  ASSUME TypeOK, old' \subseteq old
  PROVE  old' \subseteq Entries /\ Cardinality(old)' <= KeepFiles
<1>1. /\ Cardinality(old) \in Nat /\ Cardinality(old') \in Nat
      /\ Cardinality(old') <= Cardinality(old)
  BY OldFinite, FS_Subset, FS_CardinalityType
<1> QED BY <1>1, LogsAssumption DEF TypeOK

LEMMA RotatedFiles ==
  ASSUME TypeOK, NEW e \in Entries,
         old' = Keep(old \cup {e}) \/ old' = Keep(old)
  PROVE  /\ old' \subseteq Entries /\ Cardinality(old)' <= KeepFiles
         /\ old' \subseteq old \cup {e}
<1>0. /\ IsFiniteSet(old) /\ Cardinality(old) \in Nat /\ Cardinality(old) <= KeepFiles
      /\ KeepFiles \in Nat /\ old \in SUBSET Nat /\ old \cup {e} \in SUBSET Nat
      /\ old \cup {e} \subseteq Entries
  BY OldFinite, FS_CardinalityType, LogsAssumption DEF TypeOK, Entries
<1>1. CASE old' = Keep(old \cup {e})
  <2>1. IsFiniteSet(old \cup {e}) /\ Cardinality(old \cup {e}) <= KeepFiles + 1
    BY <1>0, FS_AddElement
  <2>2. /\ Keep(old \cup {e}) \subseteq old \cup {e}
        /\ Cardinality(Keep(old \cup {e})) <= KeepFiles
    BY <1>0, <2>1, KeepLimits
  <2> QED BY <1>0, <1>1, <2>2
<1>2. CASE old' = Keep(old)
  <2>1. Keep(old) \subseteq old /\ Cardinality(Keep(old)) <= KeepFiles
    BY <1>0, KeepLimits
  <2> QED BY <1>0, <1>2, <2>1
<1> QED BY <1>1, <1>2

-----------------------------------------------------------------------------
(***************************************************************************)
(* A new entry: the open file has room for it, or is rotated.              *)
(***************************************************************************)
LEMMA LogStep ==
  ASSUME TypeOK, Log
  PROVE  /\ last' \in Entries /\ last' = last + 1 /\ linked' \in BOOLEAN
         /\ moved' \in BOOLEAN
         /\ open' \in Seq(Entries) /\ Len(open') <= RotationSize
         /\ old' \subseteq Entries /\ Cardinality(old)' <= KeepFiles
         /\ \/ /\ open # << >> /\ open' = <<last'>> /\ linked'
               /\ moved' = (moved \/ clearing)
               /\ old' \subseteq (IF linked THEN old \cup {open[1]} ELSE old)
            \/ /\ open' # << >> /\ open'[1] = IF open = << >> THEN last' ELSE open[1]
               /\ UNCHANGED <<linked, old, moved>>
<1>0. /\ RotationSize \in Nat \ {0} /\ MaxEntries \in Nat /\ Len(open) \in Nat
      /\ open = << >> <=> Len(open) = 0
  BY LogsAssumption, EmptySeq, LenProperties DEF TypeOK
<1>1. last' \in Entries /\ last' = last + 1
  BY <1>0 DEF TypeOK, Log, Entries
<1>2. CASE Len(open) >= RotationSize
  <2>1. open # << >> /\ open[1] \in Entries
    BY <1>0, <1>2, ElementOfSeq DEF TypeOK
  <2>2. /\ open' = <<last'>> /\ linked' /\ moved' = (moved \/ clearing)
        /\ old' = Keep(IF linked THEN old \cup {open[1]} ELSE old)
        /\ linked' \in BOOLEAN
    BY <1>2 DEF Log
  <2>3. open' \in Seq(Entries) /\ Len(open') = 1
    BY <1>1, <2>2
  <2>4. /\ old' \subseteq Entries /\ Cardinality(old)' <= KeepFiles
        /\ old' \subseteq (IF linked THEN old \cup {open[1]} ELSE old)
    <3>1. CASE linked
      BY <2>1, <2>2, <3>1, RotatedFiles
    <3>2. CASE ~linked
      <4>1. old' = Keep(old) /\ IsFiniteSet(old)
        BY <2>2, <3>2, OldFinite
      <4>2. /\ Cardinality(old) \in Nat /\ Cardinality(old) <= KeepFiles + 1
            /\ old \in SUBSET Nat
        BY <4>1, FS_CardinalityType, LogsAssumption DEF TypeOK, Entries
      <4> QED BY <2>1, <3>2, <4>1, <4>2, KeepLimits, RotatedFiles
    <3> QED BY <3>1, <3>2
  <2>5. moved' \in BOOLEAN
    BY <2>2 DEF TypeOK
  <2>6. open' \in Seq(Entries) /\ Len(open') <= RotationSize
    BY <1>0, <2>3
  <2> QED BY <1>1, <2>1, <2>2, <2>4, <2>5, <2>6
<1>3. CASE ~(Len(open) >= RotationSize)
  <2>1. open' = Append(open, last') /\ UNCHANGED <<linked, old, moved>>
    BY <1>3 DEF Log
  <2>2. open \in Seq(Entries)
    BY DEF TypeOK
  <2>3. /\ open' \in Seq(Entries) /\ Len(open') = Len(open) + 1
        /\ open'[1] = IF open = << >> THEN last' ELSE open[1]
    BY <1>0, <1>1, <2>1, <2>2
  <2>4. open' # << >> /\ Len(open') <= RotationSize
    BY <1>0, <1>3, <2>3, EmptySeq
  <2> QED BY <1>1, <2>1, <2>3, <2>4 DEF TypeOK
<1> QED BY <1>2, <1>3

(***************************************************************************)
(* Every variable of Logs keeps its type; in particular the open file does *)
(* not grow beyond the size at which it is rotated, and there are never    *)
(* more rotated files than the limit.                                      *)
(***************************************************************************)
THEOREM LogsTypeCorrect == Spec => []TypeOK
<1>1. Init => TypeOK
  <2> SUFFICES ASSUME Init PROVE TypeOK
    OBVIOUS
  <2>1. open \in Seq(Entries) /\ Len(open) = 0 /\ shown \in Seq(Entries)
    BY DEF Init
  <2>2. /\ linked \in BOOLEAN /\ clearing \in BOOLEAN /\ moved \in BOOLEAN
        /\ tray \in BOOLEAN
    BY DEF Init
  <2>3. Cardinality(old) <= KeepFiles
    <3>1. old = {} \/ old = {0}
      BY DEF Init
    <3>2. Cardinality(old) \in {0, 1}
      BY <3>1, FS_EmptySet, FS_Singleton
    <3> QED BY <3>2, LogsAssumption
  <2>4. /\ last \in Entries /\ old \subseteq Entries /\ before \in Entries
        /\ Len(open) <= RotationSize /\ offset \in 0..RotationSize
    BY <2>1, LogsAssumption DEF Init, Entries
  <2> QED BY <2>1, <2>2, <2>3, <2>4 DEF Init, TypeOK
<1>2. TypeOK /\ [Next]_vars => TypeOK'
  <2> SUFFICES ASSUME TypeOK, [Next]_vars PROVE TypeOK'
    OBVIOUS
  <2>1. CASE Log
    BY <2>1, LogStep DEF Log, TypeOK, web
  <2>2. CASE List
    BY <2>2 DEF List, Present, TypeOK, logger, web
  <2>3. ASSUME NEW f \in clear, Remove(f) PROVE TypeOK'
    <3>1. /\ old' = old \ {f} /\ linked' = (linked /\ f # Current)
          /\ clear' \subseteq clear /\ clearing' \in BOOLEAN
          /\ cleared' \in {"error", cleared}
      BY <2>3 DEF Remove
    <3>2. old' \subseteq Entries /\ Cardinality(old)' <= KeepFiles
      BY <3>1, FewerFiles
    <3>3. linked' \in BOOLEAN
      BY <3>1 DEF TypeOK
    <3> QED BY <2>3, <3>1, <3>2, <3>3 DEF Remove, TypeOK, web
  <2>4. CASE Cleared
    BY <2>4 DEF Cleared, TypeOK, logger, web
  <2>5. CASE Metadata
    <3>0. /\ TailSize \in Nat \ {0} /\ RotationSize \in Nat
          /\ Len(open) \in Nat /\ Len(open) <= RotationSize
      BY LogsAssumption, LenProperties DEF TypeOK
    <3>1. offset' \in 0..RotationSize
      BY <2>5, <3>0 DEF Metadata, TypeOK
    <3>2. shown' \in Seq(Entries)
      <4>1. shown' = shown \/ shown' = << >>
        BY <2>5 DEF Metadata
      <4> QED BY <4>1, EmptySeq DEF TypeOK
    <3> QED BY <2>5, <3>1, <3>2 DEF Metadata, TypeOK, logger, cli
  <2>6. CASE Read
    <3>1. \A i \in 1..Len(open) : open[i] \in Entries
      BY ElementOfSeq DEF TypeOK
    <3>2. ASSUME NEW k \in Nat \ {0} PROVE SubSeq(open, k, Len(open)) \in Seq(Entries)
      <4>1. Len(open) \in Int /\ k \in Int /\ k >= 1
        BY LenProperties DEF TypeOK
      <4>2. \A i \in k .. Len(open) : open[i] \in Entries
        BY <3>1, <4>1
      <4> QED BY <4>1, <4>2, SubSeqProperties
    <3>3. (IF offset > 0 THEN offset + 2 ELSE 1) \in Nat \ {0}
      BY LogsAssumption DEF TypeOK
    <3>4. shown' \in Seq(Entries)
      BY <2>6, <3>2, <3>3 DEF Read, TypeOK
    <3>5. tray' \in BOOLEAN
      BY <2>6 DEF Read
    <3> QED BY <2>6, <3>4, <3>5 DEF Read, TypeOK, logger, cli
  <2>7. CASE UNCHANGED vars
    BY <2>7 DEF vars, TypeOK, logger, cli, web
  <2>8. CASE ListOn
    BY <2>8 DEF ListOn, Present, TypeOK, logger, web
  <2> QED BY <2>1, <2>2, <2>3, <2>4, <2>5, <2>6, <2>7, <2>8 DEF Next
<1> QED BY <1>1, <1>2, PTL DEF Spec

-----------------------------------------------------------------------------
(***************************************************************************)
(* Every step keeps ClearInv.                                              *)
(***************************************************************************)
LEMMA ClearInvStep == TypeOK /\ ClearInv /\ [Next]_vars => ClearInv'
<1> SUFFICES ASSUME TypeOK, ClearInv, [Next]_vars PROVE ClearInv'
  OBVIOUS
<1>0. last \in Nat /\ before \in Nat /\ before <= last /\ old \subseteq Nat
  BY DEF TypeOK, ClearInv, Entries
<1>1. CASE Log
  <2>1. UNCHANGED <<before, clear, clearing, cleared>>
    BY <1>1 DEF Log
  <2>2. last' = last + 1 /\ last' > before' /\ before' <= last'
    BY <1>0, <1>1, <2>1, LogStep
  \* The file is rotated.
  <2>3. CASE /\ open # << >> /\ open' = <<last'>> /\ linked'
             /\ moved' = (moved \/ clearing)
             /\ old' \subseteq (IF linked THEN old \cup {open[1]} ELSE old)
    <3>1. open'[1] > before'
      BY <2>2, <2>3
    <3>2. Listed'
      BY <2>1, <2>3 DEF Listed
    <3>3. ClearsAll'
      BY <2>1, <2>3, <3>1 DEF ClearInv, ClearsAll
    <3> QED BY <2>2, <3>2, <3>3 DEF ClearInv
  \* The entry is appended.
  <2>4. CASE /\ open' # << >> /\ open'[1] = IF open = << >> THEN last' ELSE open[1]
             /\ UNCHANGED <<linked, old, moved>>
    <3>1. open = << >> => open'[1] > before'
      BY <2>2, <2>4
    <3>2. Listed'
      BY <2>1, <2>4, <3>1 DEF ClearInv, Listed
    <3>3. ClearsAll'
      BY <2>1, <2>4, <3>1 DEF ClearInv, ClearsAll
    <3> QED BY <2>2, <3>2, <3>3 DEF ClearInv
  <2> QED BY <1>1, <2>3, <2>4, LogStep
<1>2. CASE List
  BY <1>0, <1>2 DEF List, Present, ClearInv, Listed, ClearsAll, logger
<1>3. ASSUME NEW f \in clear, Remove(f) PROVE ClearInv'
  <2>1. /\ UNCHANGED <<last, open, before, moved>>
        /\ old' = old \ {f} /\ linked' = (linked /\ f # Current)
        /\ clearing' => clear' = clear \ {f}
        /\ clearing' => clearing
        /\ cleared' = "ok" => cleared = "ok"
    BY <1>3 DEF Remove
  <2>2. Listed'
    BY <2>1 DEF ClearInv, Listed
  <2>3. ClearsAll'
    BY <2>1 DEF ClearInv, ClearsAll
  <2> QED BY <2>1, <2>2, <2>3 DEF ClearInv
<1>4. CASE Cleared
  BY <1>4 DEF Cleared, ClearInv, Listed, ClearsAll, logger
<1>5. CASE Metadata \/ Read \/ UNCHANGED vars
  BY <1>5 DEF Metadata, Read, vars, logger, cli, ClearInv, Listed, ClearsAll
\* What is taken off the list is no longer there.
<1>6. CASE ListOn
  BY <1>0, <1>6 DEF ListOn, Present, ClearInv, Listed, ClearsAll, logger
<1> QED BY <1>1, <1>2, <1>3, <1>4, <1>5, <1>6 DEF Next

(***************************************************************************)
(* After a clear-logs that reported success nothing is left of what was    *)
(* there when it began, unless the logger has renamed a file under it.     *)
(***************************************************************************)
THEOREM ClearLogsClearsAll == Spec => []ClearsAll
<1>1. Init => ClearInv
  BY DEF Init, ClearInv, Listed, ClearsAll
<1>2. ClearInv => ClearsAll
  BY DEF ClearInv
<1> QED BY <1>1, <1>2, ClearInvStep, LogsTypeCorrect, PTL DEF Spec
=============================================================================
