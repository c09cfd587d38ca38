-------------------------------- MODULE Logs --------------------------------
(***************************************************************************)
(* The log files: the service writes and rotates them (flexi_logger, with  *)
(* the limits of logger_init), the dashboard shows the end of the current  *)
(* one (api_logs), and clear-logs deletes them (src/client/mod.rs).        *)
(*                                                                         *)
(* Entries are numbered, one unit of size each; entry 0 is one of an       *)
(* earlier run.  A file that is deleted while the logger has it open goes  *)
(* on taking entries that nobody sees.                                     *)
(***************************************************************************)
EXTENDS Naturals, Sequences, FiniteSets

CONSTANTS
  RotationSize,  \* LOG_ROTATION_SIZE
  KeepFiles,     \* LOG_KEEP_FILES
  TailSize,      \* MAX_LOG_BYTES
  MaxEntries,    \* bound on the entries of a run
  Current        \* the file ..._rCURRENT.log

ASSUME LogsAssumption ==
  /\ {RotationSize, KeepFiles, TailSize} \subseteq Nat \ {0} /\ MaxEntries \in Nat

VARIABLES
  last,     \* the number of the last entry
  open,     \* the content of the file the logger has open
  linked,   \* whether that is Current
  old,      \* the numbers of the first entries of the rotated files
  clear,    \* the files clear-logs has listed and still has to delete
  clearing, \* whether it is running
  cleared,  \* what it reported
  before,   \* the number of the last entry when it listed them
  moved,    \* whether the logger has renamed the current file since
  view,     \* what the request for the log does
  offset,   \* where it will start to read
  shown,    \* the entries on the page
  tray      \* whether the process of the dashboard is alive

logger == <<last, open, linked, old>>
cli == <<clear, clearing, cleared, before, moved>>
web == <<view, offset, shown, tray>>
vars == <<logger, cli, web>>

Entries == 0..MaxEntries

TypeOK ==
  /\ last \in Entries
  /\ open \in Seq(Entries) /\ Len(open) <= RotationSize
  /\ linked \in BOOLEAN
  /\ old \subseteq Entries /\ Cardinality(old) <= KeepFiles
  /\ clear \subseteq Entries \cup {Current} /\ clearing \in BOOLEAN
  /\ cleared \in {"nothing", "ok", "error"}
  /\ before \in Entries /\ moved \in BOOLEAN
  /\ view \in {"idle", "read"} /\ offset \in 0..RotationSize
  /\ shown \in Seq(Entries)
  /\ tray \in BOOLEAN

Init ==
  /\ last = 0 /\ open = << >> /\ linked = TRUE /\ old \in {{}, {0}}
  /\ clear = {} /\ clearing = FALSE /\ cleared = "nothing" /\ before = 0
  /\ moved = FALSE
  /\ view = "idle" /\ offset = 0 /\ shown = << >> /\ tray = TRUE

-----------------------------------------------------------------------------
(* The logger. *)

\* Bug: the rotated files are not counted.
KeepAll(files) == files

\* Cleanup::KeepLogFiles
Keep(files) ==
  IF Cardinality(files) > KeepFiles
  THEN files \ {CHOOSE f \in files : \A g \in files : f <= g}
  ELSE files

\* A full file is renamed, if it still has its name, and another one opened.
Log ==
  /\ last < MaxEntries
  /\ last' = last + 1
  /\ IF Len(open) >= RotationSize
     THEN /\ open' = <<last'>> /\ linked' = TRUE
          /\ old' = Keep(IF linked THEN old \cup {open[1]} ELSE old)
          /\ moved' = (moved \/ clearing)
     ELSE open' = Append(open, last') /\ UNCHANGED <<linked, old, moved>>
  /\ UNCHANGED <<clear, clearing, cleared, before, web>>

-----------------------------------------------------------------------------
(* clear-logs. *)

\* Bug: the current file is not listed.
ListRotated ==
  /\ ~clearing /\ clearing' = TRUE
  /\ clear' = old
  /\ before' = last /\ moved' = FALSE
  /\ cleared' = "nothing"
  /\ UNCHANGED <<logger, web>>

Present == old \cup (IF linked THEN {Current} ELSE {})

\* read_dir
List ==
  /\ ~clearing /\ clearing' = TRUE
  /\ clear' = Present
  /\ before' = last /\ moved' = FALSE
  /\ cleared' = "nothing"
  /\ UNCHANGED <<logger, web>>

\* It goes on reading while files are deleted: one that has come since may be
\* listed as well, and one that has gone not.
ListOn ==
  /\ clearing
  /\ \/ \E f \in Present \ clear : clear' = clear \cup {f}
     \/ \E f \in clear \ Present : clear' = clear \ {f}
  /\ UNCHANGED <<clearing, cleared, before, moved, logger, web>>

\* remove_file; a file that is gone by then ends the command.
Remove(f) ==
  /\ clearing /\ f \in clear
  /\ LET gone == IF f = Current THEN ~linked ELSE f \notin old
     IN /\ linked' = (linked /\ f # Current)
        /\ old' = old \ {f}
        /\ clear' = IF gone THEN {} ELSE clear \ {f}
        /\ clearing' = ~gone
        /\ cleared' = IF gone THEN "error" ELSE cleared
  /\ UNCHANGED <<last, open, before, moved, web>>

Cleared ==
  /\ clearing /\ clear = {}
  /\ clearing' = FALSE /\ cleared' = "ok"
  /\ UNCHANGED <<clear, before, moved, logger, web>>

-----------------------------------------------------------------------------
(* The log on the page. *)

Metadata ==
  /\ tray /\ view = "idle"
  /\ IF linked
     THEN /\ offset' = IF Len(open) > TailSize THEN Len(open) - TailSize ELSE 0
          /\ view' = "read" /\ UNCHANGED shown
     ELSE shown' = << >> /\ UNCHANGED <<view, offset>>
  /\ UNCHANGED <<tray, logger, cli>>

\* Bug: the start of the file is shown.
ReadHead ==
  /\ tray /\ view = "read" /\ view' = "idle"
  /\ shown' = IF linked
              THEN SubSeq(open, 1, IF Len(open) < TailSize THEN Len(open) ELSE TailSize)
              ELSE shown
  /\ UNCHANGED <<offset, tray, logger, cli>>

\* From the offset to the end, without the first line of a part.  An offset
\* behind the end is a panic, which aborts the process; a file that is gone is
\* an error, and the page stays as it is.
Read ==
  /\ tray /\ view = "read" /\ view' = "idle"
  /\ tray' = (linked => offset <= Len(open))
  /\ shown' = IF linked /\ tray'
              THEN SubSeq(open, IF offset > 0 THEN offset + 2 ELSE 1, Len(open))
              ELSE shown
  /\ UNCHANGED <<offset, logger, cli>>

Next ==
  \/ Log \/ List \/ ListOn \/ Cleared \/ Metadata \/ Read
  \/ \E f \in clear : Remove(f)

Spec == Init /\ [][Next]_vars

\* The page asks again and again (setInterval), and its requests are answered.
FairSpec == Spec /\ WF_vars(Metadata) /\ WF_vars(Read)

-----------------------------------------------------------------------------
(* Properties. *)

(***************************************************************************)
(* After a clear-logs that reported success nothing is left of what was    *)
(* there when it began ("Deletes all log files from the log directory",    *)
(* client/mod.rs), unless the logger has renamed a file under it.          *)
(***************************************************************************)
ClearsAll ==
  cleared = "ok" /\ ~moved =>
    /\ linked /\ open # << >> => open[1] > before
    /\ \A f \in old : f > before

(***************************************************************************)
(* When nothing is logged any more the page shows the last entry, whatever *)
(* was written, rotated and deleted while it read, as long as its process  *)
(* is there; if there is no log, it is empty.                              *)
(***************************************************************************)
CatchesUp ==
  []tray =>
    <>[](IF linked /\ last > 0 THEN shown # << >> /\ shown[Len(shown)] = last
         ELSE shown = << >>)
=============================================================================
