------------------------------ MODULE Recorder ------------------------------
(***************************************************************************)
(* The recorder (src/apps/ovrs_record.cpp) from the moment its capture     *)
(* source runs: the source's callbacks push into three bounded queues      *)
(* (src/include/ovrs/bounded_queue.hpp), the main thread drains them into  *)
(* CSV files and through the IMU synchronizer, and at the end decides      *)
(* whether the dataset may be called complete: its metadata says so and    *)
(* the marker INCOMPLETE goes.                                             *)
(*                                                                         *)
(* A callback is one action, since push holds the queue's mutex.  The main *)
(* thread takes one action for each element it pops, so that callbacks run *)
(* in between.  Queues are abstracted to their lengths, and the synchro-   *)
(* nizer, which has a module of its own, to whether samples are ready and  *)
(* whether it has counted an error.  The optional preview before the       *)
(* capture writes nothing and is left out.                                 *)
(***************************************************************************)
EXTENDS Naturals, FiniteSets

CONSTANTS
  Capacity,      \* capacity_ of each stream's queue
  MaxFaults      \* bound on the number of different things that go wrong

Streams == {"accel", "gyro", "stereo"}

ASSUME CapacityAssumption == Capacity \in [Streams -> Nat \ {0}]
ASSUME MaxFaultsAssumption == MaxFaults \in Nat

VARIABLES
  mode,          \* plan->name
  phase,         \* "capture" until source.stop() returns, then "drain"
  pc,            \* where the main thread is
  didWork,       \* did_work of drain_queues
  asked,         \* a signal or the preview asked for a stop before the loop ended
  interrupted,   \* interrupted
  queue,         \* the length of each stream's queue
  received,      \* the streams whose counter in the source is not zero
  sync,          \* the synchronizer: nothing, "ready" samples, or all "taken"
  faults,        \* what the counters, stream states and flags have recorded
  disk,          \* the marker and the metadata
  lost           \* history: streams of which a sample was received and discarded

control == <<phase, pc, didWork, asked, interrupted>>
data    == <<queue, received, sync, lost>>
vars    == <<mode, control, data, faults, disk>>

Modes == {"vio", "imu-allan", "stereo-calibration", "imu-camera-calibration"}

\* enable_stereo and enable_motion of the capture plans.
Enabled(m) ==
  CASE m = "imu-allan"          -> {"accel", "gyro"}
    [] m = "stereo-calibration" -> {"stereo"}
    [] OTHER                    -> Streams

\* write_synchronized_imu of the capture plans.
WritesSynchronized == mode # "stereo-calibration"

\* The preview can only be had with the modes that need a target.
Previews == mode \in {"stereo-calibration", "imu-camera-calibration"}

Files == Enabled(mode) \cup IF WritesSynchronized THEN {"synced"} ELSE {}

Dropped(s)    == <<"dropped", s>>
FileFailed(f) == <<"file", f>>
Source        == <<"source", "counters">>
SourceFailed  == <<"source", "failure">>
SyncError     == <<"synchronizer", "counters">>

Init ==
  /\ mode \in Modes
  /\ phase = "capture" /\ pc = "files"
  /\ didWork = FALSE /\ asked = FALSE /\ interrupted = FALSE
  /\ queue = [s \in Streams |-> 0]
  /\ received = {} /\ sync = "nothing" /\ faults = {}
  /\ disk = [marker |-> FALSE, metadata |-> "absent"]
  /\ lost = {}

----------------------------------------------------------------------------
(* What happens around the main thread.  Definitions marked "Faulty" are   *)
(* plausible slips in the code that only the mutation runs use.            *)

Room == Cardinality(faults) < MaxFaults

\* Faulty: the queue does not count what it drops.
EvictUncounted(s) == UNCHANGED faults

\* A full queue drops its oldest element and counts it.
Evict(s) == (Dropped(s) \in faults \/ Room) /\ faults' = faults \cup {Dropped(s)}

\* Faulty: one element more than the capacity is let in.
HasRoomForOneMore(s) == queue[s] <= Capacity[s]

HasRoom(s) == queue[s] < Capacity[s]

\* A callback of the source, which counts the sample and pushes it.
Push(s) ==
  /\ phase = "capture" /\ s \in Enabled(mode)
  /\ received' = received \cup {s}
  /\ \/ /\ HasRoom(s)
        /\ queue' = [queue EXCEPT ![s] = @ + 1]
        /\ UNCHANGED <<faults, lost>>
     \/ /\ ~HasRoom(s)
        /\ Evict(s)
        /\ lost' = lost \cup {s}
        /\ UNCHANGED queue
  /\ UNCHANGED <<mode, control, sync, disk>>

\* The source drops, rejects or cannot read a frame, fails, or loses the device.
SourceFault ==
  /\ phase = "capture" /\ Room
  /\ \E f \in {Source, SourceFailed} : faults' = faults \cup {f}
  /\ UNCHANGED <<mode, control, data, disk>>

\* SIGINT or SIGTERM, as long as it is still asked for.  A later one has no effect.
Interrupt ==
  /\ phase = "capture"
  /\ asked' = TRUE
  /\ UNCHANGED <<mode, phase, pc, didWork, interrupted, data, faults, disk>>

\* The process dies; what its file streams buffer is gone.
Crash ==
  /\ pc \notin {"complete", "incomplete", "dead"}
  /\ pc' = "dead" /\ phase' = "over"
  /\ UNCHANGED <<mode, didWork, asked, interrupted, data, faults, disk>>

\* An exception: catch reports it, and the destructor stops the source.
Throw == pc' = "incomplete" /\ phase' = "over"

GoTo(there) == pc' = there /\ UNCHANGED phase

----------------------------------------------------------------------------
(* Before the loop                                                         *)

OpenFiles ==
  /\ pc = "files"
  /\ GoTo("texts")
  /\ disk' = [disk EXCEPT !.marker = TRUE]
  /\ UNCHANGED <<mode, didWork, asked, interrupted, data, faults>>

\* A directory, the marker or one of the CSV files cannot be created.
OpenFilesFails ==
  /\ pc = "files"
  /\ Throw
  /\ \E made \in BOOLEAN : disk' = [disk EXCEPT !.marker = made]
  /\ UNCHANGED <<mode, didWork, asked, interrupted, data, faults>>

\* write_text asks whether the text went into the stream's buffer, and leaves it to
\* the stream's destructor to put the buffer on the disk.  The texts written along
\* with the metadata fare no better.
Texts(metadata) ==
  \E content \in {metadata, "unreadable"} : disk' = [disk EXCEPT !.metadata = content]

WriteTexts ==
  /\ pc = "texts"
  /\ GoTo("check")
  /\ Texts("incomplete")
  /\ UNCHANGED <<mode, didWork, asked, interrupted, data, faults>>

\* One of them is refused, before, in or after the metadata.
WriteTextsFails ==
  /\ pc = "texts"
  /\ Throw
  /\ \E m \in {"absent", "unreadable", "incomplete"} : disk' = [disk EXCEPT !.metadata = m]
  /\ UNCHANGED <<mode, didWork, asked, interrupted, data, faults>>

----------------------------------------------------------------------------
(* drain_queues, called by the loop and again when the source has stopped  *)

\* The loop goes on as long as nothing speaks against it; time may be over whenever
\* it looks.
Check ==
  /\ pc = "check"
  /\ \/ ~asked /\ SourceFailed \notin faults /\ GoTo("accel")
     \/ GoTo("stop")
  /\ didWork' = FALSE
  /\ UNCHANGED <<mode, asked, interrupted, data, faults, disk>>

NextStage == [accel |-> "gyro", gyro |-> "synced", synced |-> "stereo"]

\* A popped sample goes to its file, which may fail, and to the synchronizer.
PopImu(s) ==
  /\ pc = s /\ queue[s] > 0
  /\ queue' = [queue EXCEPT ![s] = @ - 1]
  /\ \E failing \in SUBSET {FileFailed(s), SyncError} :
       /\ failing # {} => Room
       /\ faults' = faults \cup failing
  /\ sync' \in {sync, "ready"}
  /\ didWork' = TRUE
  /\ UNCHANGED <<mode, phase, pc, asked, interrupted, received, disk, lost>>

\* Samples that are ready go to synchronized.csv.
TakeReady ==
  /\ pc = "synced" /\ sync = "ready"
  /\ sync' = "taken"
  /\ faults' \in {faults} \cup IF Room THEN {faults \cup {FileFailed("synced")}} ELSE {}
  /\ didWork' = TRUE
  /\ UNCHANGED <<mode, phase, pc, asked, interrupted, queue, received, disk, lost>>

\* The queue is found empty, or nothing is ready any more.
LeaveStage ==
  /\ pc \in DOMAIN NextStage
  /\ IF pc = "synced" THEN sync # "ready" ELSE queue[pc] = 0
  /\ GoTo(NextStage[pc])
  /\ UNCHANGED <<mode, didWork, asked, interrupted, data, faults, disk>>

\* The images and their rows; an image that cannot be written ends the program.
PopStereo ==
  /\ pc = "stereo" /\ queue["stereo"] > 0
  /\ queue' = [queue EXCEPT !["stereo"] = @ - 1]
  /\ \/ GoTo("stereo") /\ UNCHANGED faults
     \/ GoTo("stereo") /\ Room /\ faults' = faults \cup {FileFailed("stereo")}
     \/ Throw /\ UNCHANGED faults
  /\ didWork' = TRUE
  /\ UNCHANGED <<mode, asked, interrupted, received, sync, disk, lost>>

\* Faulty: that something was found once is not forgotten.
LeaveStereoRemembering ==
  /\ pc = "stereo" /\ queue["stereo"] = 0
  /\ IF phase = "capture" THEN GoTo(IF Previews THEN "preview" ELSE "check")
     ELSE GoTo(IF didWork THEN "accel" ELSE "close")
  /\ UNCHANGED <<mode, didWork, asked, interrupted, data, faults, disk>>

\* The end of drain_queues: the loop goes on, or the last drain is repeated until
\* it has found nothing.
LeaveStereo ==
  /\ pc = "stereo" /\ queue["stereo"] = 0
  /\ IF phase = "capture" THEN GoTo(IF Previews THEN "preview" ELSE "check")
     ELSE GoTo(IF didWork THEN "accel" ELSE "close")
  /\ didWork' = FALSE
  /\ UNCHANGED <<mode, asked, interrupted, data, faults, disk>>

\* The operator lets it go on or aborts, or the window fails.
Preview ==
  /\ pc = "preview"
  /\ \/ GoTo("check") /\ UNCHANGED asked
     \/ GoTo("stop") /\ asked' = TRUE
     \/ Throw /\ UNCHANGED asked
  /\ UNCHANGED <<mode, didWork, interrupted, data, faults, disk>>

----------------------------------------------------------------------------
(* The end of the recording                                                *)

\* Faulty: only the source is asked why the loop has ended.
StopIgnoringRequest ==
  /\ pc = "stop"
  /\ UNCHANGED interrupted
  /\ pc' = "accel" /\ phase' = "drain" /\ UNCHANGED faults
  /\ UNCHANGED <<mode, didWork, asked, data, disk>>

\* interrupted is decided, and stop() waits for the callbacks; it may report an
\* error of its own.
StopSource ==
  /\ pc = "stop"
  /\ interrupted' = asked
  /\ pc' = "accel" /\ phase' = "drain"
  /\ faults' \in {faults} \cup IF Room THEN {faults \cup {SourceFailed}} ELSE {}
  /\ UNCHANGED <<mode, didWork, asked, data, disk>>

\* All CSV files are closed; one that failed, then or earlier, ends the program.
CloseFiles ==
  /\ pc = "close"
  /\ \/ (\A f \in Files : FileFailed(f) \notin faults) /\ GoTo("decide")
     \/ Throw
  /\ UNCHANGED <<mode, didWork, asked, interrupted, data, faults, disk>>

MissingStream ==
  ~(Enabled(mode) \subseteq received) \/ (WritesSynchronized /\ sync = "nothing")

Integrity == faults \cap ({Source, SourceFailed, SyncError} \cup {Dropped(s) : s \in Streams}) = {}

Decide ==
  /\ pc = "decide"
  /\ IF interrupted \/ ~Integrity \/ MissingStream
     THEN pc' = "incomplete" /\ phase' = "over"
     ELSE GoTo("finish")
  /\ UNCHANGED <<mode, didWork, asked, interrupted, data, faults, disk>>

\* The final device report, summary and metadata.
WriteFinalTexts ==
  /\ pc = "finish"
  /\ GoTo("unmark")
  /\ Texts("complete")
  /\ UNCHANGED <<mode, didWork, asked, interrupted, data, faults>>

\* One of them is refused; the metadata comes last.
WriteFinalTextsFails ==
  /\ pc = "finish"
  /\ Throw
  /\ \E m \in {disk.metadata, "unreadable", "complete"} : disk' = [disk EXCEPT !.metadata = m]
  /\ UNCHANGED <<mode, didWork, asked, interrupted, data, faults>>

RemoveMarker ==
  /\ pc = "unmark"
  /\ pc' = "complete" /\ phase' = "over"
  /\ disk' = [disk EXCEPT !.marker = FALSE]
  /\ UNCHANGED <<mode, didWork, asked, interrupted, data, faults>>

RemoveMarkerFails ==
  /\ pc = "unmark"
  /\ Throw
  /\ UNCHANGED <<mode, didWork, asked, interrupted, data, faults, disk>>

Main ==
  \/ OpenFiles \/ OpenFilesFails \/ WriteTexts \/ WriteTextsFails
  \/ Check \/ PopImu("accel") \/ PopImu("gyro") \/ TakeReady \/ PopStereo
  \/ LeaveStage \/ LeaveStereo \/ Preview
  \/ StopSource \/ CloseFiles \/ Decide
  \/ WriteFinalTexts \/ WriteFinalTextsFails \/ RemoveMarker \/ RemoveMarkerFails

Next == Main \/ (\E s \in Streams : Push(s)) \/ SourceFault \/ Interrupt \/ Crash

Spec == Init /\ [][Next]_vars

\* The main thread is scheduled.
FairSpec == Spec /\ WF_vars(Main)

----------------------------------------------------------------------------
(* Properties                                                              *)

Faults == {Dropped(s) : s \in Enabled(mode)} \cup {FileFailed(f) : f \in Files}
            \cup {Source, SourceFailed, SyncError}

Pcs == {"files", "texts", "check", "accel", "gyro", "synced", "stereo", "preview", "stop",
        "close", "decide", "finish", "unmark", "complete", "incomplete", "dead"}

WithinCapacity(q) == q \in [Streams -> Nat] /\ \A s \in Streams : q[s] <= Capacity[s]

\* Types; no queue outgrows its capacity, and only the enabled streams have samples.
TypeOK ==
  /\ mode \in Modes /\ phase \in {"capture", "drain", "over"} /\ pc \in Pcs
  /\ didWork \in BOOLEAN /\ asked \in BOOLEAN /\ interrupted \in BOOLEAN
  /\ WithinCapacity(queue)
  /\ received \subseteq Enabled(mode) /\ lost \subseteq received
  /\ \A s \in Streams : queue[s] > 0 => s \in received
  /\ sync \in {"nothing", "ready", "taken"} /\ faults \subseteq Faults
  /\ disk \in [marker : BOOLEAN, metadata : {"absent", "unreadable", "incomplete", "complete"}]

\* What the dataset must hold: data of every enabled stream, and all of it.
Whole ==
  /\ received = Enabled(mode) /\ lost = {}
  /\ \A s \in Streams : queue[s] = 0
  /\ \A f \in Files : FileFailed(f) \notin faults
  /\ WritesSynchronized => sync = "taken"

\* A dataset that is not marked and calls itself complete, which is what
\* ovrs_replay.cpp:128-132 and 171-177 ask for, holds every sample and frame the
\* source delivered, wherever something failed or the process died.
CompleteIsWhole == ~disk.marker /\ disk.metadata = "complete" => Whole

\* What went wrong, or a stop asked for while recording, keeps the marker
\* (lines 457 and 484-524 of ovrs_record.cpp).
MarkerKept ==
  disk.metadata # "absent" /\ (asked \/ faults # {} \/ pc # "complete") => disk.marker

\* Once the source has stopped the recorder ends, however much the last drain finds
\* (lines 458-463): a drain with the source running need not.
DrainEnds == pc = "stop" ~> pc \in {"complete", "incomplete", "dead"}

\* docs/operator_runbook.md:990: "All capture modes leave an `INCOMPLETE` marker on
\* interruption, data loss, [...] or write failure."
WriteFailureKeepsMarker == disk.metadata = "unreadable" => disk.marker

=============================================================================
