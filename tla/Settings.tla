------------------------------ MODULE Settings ------------------------------
(***************************************************************************)
(* What the service promises about its settings, without saying how.       *)
(*                                                                         *)
(* There is one durable value, the settings.  A change that is accepted    *)
(* replaces them in a single step, and only when the update loop has, or   *)
(* is sure to get, the ones it replaces.  Stopping and starting again does *)
(* not change them.  The update loop may lag behind, and may skip settings *)
(* it has not used yet, but it never goes back.                            *)
(***************************************************************************)
EXTENDS ServiceConfig, Sequences

CONSTANTS
  Requests,  \* the changes clients ask for
  NoSettings \* there are no settings yet

VARIABLES
  settings, \* the settings
  up,       \* whether the service runs
  inUse,    \* the settings of the update loop
  coming    \* the settings it will get, oldest first

vars == <<settings, up, inUse, coming>>

Init ==
  /\ settings \in Saved \cup {NoSettings}
  /\ up = FALSE
  /\ inUse = NoSettings
  /\ coming = << >>

Latest == IF coming = << >> THEN inUse ELSE coming[Len(coming)]

Start ==
  /\ ~up
  /\ up' = TRUE
  /\ settings' = IF settings = NoSettings THEN Stored(DefaultConfig) ELSE settings
  /\ inUse' = settings'
  /\ coming' = << >>

Stop ==
  /\ up
  /\ up' = FALSE
  /\ inUse' = NoSettings
  /\ coming' = << >>
  /\ UNCHANGED settings

Replace(r) ==
  /\ up
  /\ Latest = settings
  /\ Accepts(r, InMemory(settings, FALSE))
  /\ settings' = Stored(Applied(r, InMemory(settings, FALSE)))
  /\ UNCHANGED <<up, inUse, coming>>

Announce ==
  /\ up
  /\ coming' = Append(coming, settings)
  /\ UNCHANGED <<settings, up, inUse>>

Adopt ==
  /\ up
  /\ \E i \in 1 .. Len(coming) :
       inUse' = coming[i] /\ coming' = SubSeq(coming, i + 1, Len(coming))
  /\ UNCHANGED <<settings, up>>

Next ==
  \/ Start \/ Stop \/ Announce \/ Adopt
  \/ \E r \in Requests \cap Change : Replace(r)

Spec == Init /\ [][Next]_vars
=============================================================================
