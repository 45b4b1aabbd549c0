----------------------------- MODULE RunWriter -----------------------------
(***************************************************************************)
(* The run output of the live and the replay application                   *)
(* (src/src/trajectory.cpp).  A run is a directory with four files and,    *)
(* until it is finalised, a marker named INCOMPLETE.  The rows written go  *)
(* through buffered output streams that can fail at any write or flush,    *)
(* and the process can die at any moment: what was handed to the system    *)
(* stays on disk, what was buffered is gone.                               *)
(*                                                                         *)
(* Every member function holds mutex_ throughout and is one action, except *)
(* that open() and finalize() are cut where another entry of the directory *)
(* changes, so that the process can die in between.  Of a file's rows the  *)
(* model keeps whether they are exactly the rows whose caller was told     *)
(* that they were written; rows refused for their contents never reach a   *)
(* stream and are left out.                                                *)
(***************************************************************************)
EXTENDS Naturals

CONSTANTS
  Dirs,         \* the directories runs are written to, over several processes
  NoDirectory   \* directory_ before open()

ASSUME NoDirectoryAssumption == NoDirectory \notin Dirs

VARIABLES
  disk,         \* what the file system holds of every directory
  directory,    \* directory_
  streams,      \* trajectory_, state_, diagnostics_ and application_log_
  outputOpen,   \* output_open_
  finalized,    \* finalized_
  haveState,    \* have_state_
  step          \* inside open() or finalize(), or "idle"

members == <<directory, streams, outputOpen, finalized, haveState, step>>
vars    == <<disk, members>>

Files  == {"trajectory", "state", "diagnostics", "log"}
Headed == Files \ {"log"}

\* A directory: whether it has entries, among them the marker, whether a state was
\* accepted for it, and the files damaged so far, which lack an accepted row or a
\* header, or hold a row that was refused.
Empty  == [used |-> FALSE, marker |-> FALSE, hasState |-> FALSE, damaged |-> {}]
Marked == [used |-> TRUE, marker |-> TRUE, hasState |-> FALSE, damaged |-> {}]

\* An ofstream: whether it has a file, its state bits, and whether it buffers
\* something that is not on disk yet.
Closed == [open |-> FALSE, good |-> TRUE, pending |-> FALSE]
Failed == [open |-> FALSE, good |-> FALSE, pending |-> FALSE]

Init ==
  /\ disk = [d \in Dirs |-> Empty]
  /\ directory = NoDirectory
  /\ streams = [f \in Files |-> Closed]
  /\ outputOpen = FALSE /\ finalized = FALSE /\ haveState = FALSE
  /\ step = "idle"

----------------------------------------------------------------------------
(* Output streams.  Definitions marked "Faulty" are plausible slips in the *)
(* code that only the mutation runs use.                                   *)

Writable(f) == streams[f].open /\ streams[f].good

\* Writing a row: it stays in the buffer, or the buffer is written out with it, or
\* the stream fails.  A stream that has failed, or has no file, takes nothing.
Outcomes(f) == IF Writable(f) THEN {"buffered", "written", "fails"} ELSE {"fails"}

After(f, outcome) ==
  CASE outcome = "buffered" -> [streams[f] EXCEPT !.pending = TRUE]
    [] outcome = "written"  -> [streams[f] EXCEPT !.pending = FALSE]
    [] OTHER                -> [streams[f] EXCEPT !.good = FALSE]

\* One row goes to every file in fs, with the outcomes o; when any of them fails the
\* caller is told so, and the row is in none, some or all of them.
Put(fs, o) ==
  streams' = [f \in Files |-> IF f \in fs THEN After(f, o[f]) ELSE streams[f]]

Refused(fs, o) == \E f \in fs : o[f] = "fails"

Damage(fs) ==
  IF directory \in Dirs
  THEN [disk EXCEPT ![directory].damaged = @ \cup {f \in fs : streams[f].open}]
  ELSE disk

Rows(fs) == {o \in [fs -> {"buffered", "written", "fails"}] : \A f \in fs : o[f] \in Outcomes(f)}

----------------------------------------------------------------------------
(* close_locked: the summary goes to the log, and all files are flushed    *)
(* and closed; in those in failing the summary or the flush fails.         *)
(* Closing a stream that has no file makes it fail.                        *)

Failing == SUBSET {f \in Files : Writable(f)}

\* Faulty: only whether the state file could be written is asked.
SuccessOfState(failing) == streams["state"].open => Writable("state") /\ "state" \notin failing

\* No stream that is open has failed, now or ever since it was opened.
Success(failing) == \A f \in Files : streams[f].open => Writable(f) /\ f \notin failing

ClosedStreams(failing) ==
  [f \in Files |-> IF Writable(f) /\ f \notin failing THEN Closed ELSE Failed]

\* Faulty: the output keeps being open.
CloseKeepsOpen(failing) ==
  disk' = Damage(failing) /\ streams' = ClosedStreams(failing) /\ UNCHANGED outputOpen

CloseLocked(failing) ==
  disk' = Damage(failing) /\ streams' = ClosedStreams(failing) /\ outputOpen' = FALSE

----------------------------------------------------------------------------
(* open.  It closes what is still open first; when the directory has       *)
(* entries it does no more than that, as Close below does.                 *)

\* The members open() resets, with the streams as close_locked leaves them.
Begin(d, failing) ==
  /\ directory' = d
  /\ streams' = ClosedStreams(failing)
  /\ outputOpen' = FALSE /\ finalized' = FALSE /\ haveState' = FALSE

\* Faulty: the directory is not asked for its contents.
OpenMarkerAnywhere(d) ==
  /\ step = "idle"
  /\ \E failing \in Failing :
       Begin(d, failing) /\ disk' = [Damage(failing) EXCEPT ![d] = Marked]
  /\ step' = "marked"

\* The marker is the first entry of the directory.
OpenMarker(d) ==
  /\ step = "idle" /\ ~disk[d].used
  /\ \E failing \in Failing :
       Begin(d, failing) /\ disk' = [Damage(failing) EXCEPT ![d] = Marked]
  /\ step' = "marked"

\* The marker cannot be created, or can be created but not written.
OpenMarkerFails(d) ==
  /\ step = "idle" /\ ~disk[d].used
  /\ \E failing \in Failing, left \in {Empty, Marked} :
       Begin(d, failing) /\ disk' = [Damage(failing) EXCEPT ![d] = left]
  /\ UNCHANGED step

\* The files are created with their header lines; open() does not ask whether the
\* headers could be written.
OpenFiles ==
  /\ step = "marked"
  /\ \E lost \in SUBSET Headed, buffered \in SUBSET Headed :
       /\ streams' = [f \in Files |-> [open |-> TRUE, good |-> f \notin lost,
                                       pending |-> f \in buffered]]
       /\ disk' = [disk EXCEPT ![directory].damaged = lost]
  /\ outputOpen' = TRUE
  /\ step' = "idle"
  /\ UNCHANGED <<directory, finalized, haveState>>

\* One of them cannot be created; the others are closed again.
OpenFilesFails ==
  /\ step = "marked"
  /\ \E missing \in SUBSET Files \ {{}} :
       streams' = [f \in Files |-> IF f \in missing THEN Failed ELSE Closed]
  /\ step' = "idle"
  /\ UNCHANGED <<disk, directory, outputOpen, finalized, haveState>>

----------------------------------------------------------------------------
(* The other member functions                                              *)

\* Both files get the row, or one of them fails and the caller is told; have_state_
\* is set before that is known.
WriteState ==
  /\ step = "idle"
  /\ \E o \in Rows({"trajectory", "state"}) :
       /\ Put({"trajectory", "state"}, o)
       /\ disk' = IF Refused({"trajectory", "state"}, o) THEN Damage({"trajectory", "state"})
                  ELSE [disk EXCEPT ![directory].hasState = TRUE]
  /\ haveState' = TRUE
  /\ UNCHANGED <<directory, outputOpen, finalized, step>>

\* A row of diagnostics, or a line of the log unless its stream has failed.
WriteTo(f) ==
  /\ step = "idle"
  /\ \E o \in Rows({f}) :
       /\ Put({f}, o)
       /\ disk' = IF Refused({f}, o) THEN Damage({f}) ELSE disk
  /\ UNCHANGED <<directory, outputOpen, finalized, haveState, step>>

WriteDiagnostics == WriteTo("diagnostics")

Log == streams["log"].good /\ WriteTo("log")

\* close(), which the destructor calls too.
Close ==
  /\ step = "idle"
  /\ \E failing \in Failing : CloseLocked(failing)
  /\ UNCHANGED <<directory, finalized, haveState, step>>

\* finalize(), up to the return of close_locked; an unsuccessful one ends it.
Finalize ==
  /\ step = "idle" /\ ~finalized /\ outputOpen /\ haveState
  /\ \E failing \in Failing :
       /\ CloseLocked(failing)
       /\ step' = IF Success(failing) THEN "closed" ELSE "idle"
  /\ UNCHANGED <<directory, finalized, haveState>>

\* The last step of a run: the marker goes.
RemoveMarker ==
  /\ step = "closed"
  /\ disk' = [disk EXCEPT ![directory].marker = FALSE]
  /\ finalized' = TRUE
  /\ step' = "idle"
  /\ UNCHANGED <<directory, streams, outputOpen, haveState>>

RemoveMarkerFails ==
  /\ step = "closed"
  /\ step' = "idle"
  /\ UNCHANGED <<disk, directory, streams, outputOpen, finalized, haveState>>

\* The process dies, with what its streams buffer, and a new one starts.
Crash ==
  /\ disk' = Damage({f \in Files : streams[f].pending})
  /\ directory' = NoDirectory
  /\ streams' = [f \in Files |-> Closed]
  /\ outputOpen' = FALSE /\ finalized' = FALSE /\ haveState' = FALSE
  /\ step' = "idle"

Next ==
  \/ \E d \in Dirs : OpenMarker(d) \/ OpenMarkerFails(d)
  \/ OpenFiles \/ OpenFilesFails
  \/ WriteState \/ WriteDiagnostics \/ Log
  \/ Close \/ Finalize \/ RemoveMarker \/ RemoveMarkerFails
  \/ Crash

Spec == Init /\ [][Next]_vars

----------------------------------------------------------------------------
(* Properties                                                              *)

Directory == [used : BOOLEAN, marker : BOOLEAN, hasState : BOOLEAN, damaged : SUBSET Files]
Stream    == [open : BOOLEAN, good : BOOLEAN, pending : BOOLEAN]

\* The members keep their types, only an open stream buffers anything, and output
\* is open exactly while all four streams are (lines 80-163 and 336-391).
TypeOK ==
  /\ disk \in [Dirs -> Directory]
  /\ directory \in Dirs \cup {NoDirectory}
  /\ streams \in [Files -> Stream]
  /\ \A f \in Files : streams[f].open = outputOpen /\ (streams[f].pending => outputOpen)
  /\ outputOpen \in BOOLEAN /\ finalized \in BOOLEAN /\ haveState \in BOOLEAN
  /\ outputOpen => directory \in Dirs
  /\ step \in {"idle", "marked", "closed"}
  /\ step # "idle" => directory \in Dirs /\ ~outputOpen

Complete(d) == disk[d].used /\ ~disk[d].marker

\* A run directory without its marker is complete, wherever a write, a flush or
\* the process has failed: its files hold their headers, the rows whose caller was
\* told they were written, and no others, among them a state (lines 165-428).
MarkerProtects ==
  \A d \in Dirs : Complete(d) => disk[d].hasState /\ disk[d].damaged = {}

\* Once complete a run never changes, not even when a later process is pointed at
\* its directory (lines 85-92) or the writer is used on after finalize().
CompletedRunsStay == [][\A d \in Dirs : Complete(d) => disk'[d] = disk[d]]_vars

=============================================================================
