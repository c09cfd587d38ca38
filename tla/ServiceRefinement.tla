------------------------- MODULE ServiceRefinement -------------------------
(***************************************************************************)
(* The service implements Settings, as long as it is not ended in the      *)
(* middle of store(), no write fails, and nobody else edits the file.      *)
(***************************************************************************)
EXTENDS Service

(***************************************************************************)
(* The settings are what config.toml says, once read.  A change takes      *)
(* effect when store() truncates the file: from there on until the file is *)
(* written again they are what the listening loop is about to write.       *)
(***************************************************************************)
SettingsNow ==
  IF file \in Saved THEN Stored(Parsed(file))
  ELSE IF lpc = "write" THEN Stored(ctx) ELSE Absent

InUse == IF Running THEN Stored(loopConfig) ELSE Absent

StoredAll(q) == [i \in 1 .. Len(q) |-> Stored(q[i])]

Abs == INSTANCE Settings WITH
  NoSettings <- Absent,
  settings <- SettingsNow,
  up <- Running,
  inUse <- InUse,
  coming <- StoredAll(chan)

(***************************************************************************)
(* Every behaviour of the service is one that Settings allows: changes are *)
(* atomic, durable and reach the update loop in order, whatever happens to *)
(* the updates themselves.                                                 *)
(***************************************************************************)
ImplementsSettings == Abs!Spec
============================================================================
