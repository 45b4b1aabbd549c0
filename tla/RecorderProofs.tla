--------------------------- MODULE RecorderProofs ---------------------------
(***************************************************************************)
(* What the recorder's marker and metadata say holds for queues of any     *)
(* capacity and any number of faults.                                      *)
(***************************************************************************)
EXTENDS Recorder, TLAPS

Ending == {"close", "decide", "finish", "unmark"}
Ended  == {"complete", "incomplete", "dead"}

\* The main thread's place in the phases.
Places ==
  /\ phase = "over" <=> pc \in Ended
  /\ pc \in {"files", "texts", "check", "preview", "stop"} => phase = "capture"
  /\ pc \in Ending => phase = "drain"
  /\ phase = "drain" => interrupted = asked

\* Synchronized samples come from the motion streams, and what is lost was counted.
Counted ==
  /\ sync # "nothing" => WritesSynchronized
  /\ \A s \in lost : Dropped(s) \in faults

\* The last drain leaves its stages behind empty, and nothing refills them.
Drained ==
  /\ phase = "drain" /\ pc \in {"gyro", "synced", "stereo"} \cup Ending => queue["accel"] = 0
  /\ phase = "drain" /\ pc \in {"synced", "stereo"} \cup Ending => queue["gyro"] = 0 
  /\ phase = "drain" /\ pc \in {"stereo"} \cup Ending => sync # "ready"
  /\ pc \in Ending => queue["stereo"] = 0

\* Each check on the way to the end has been passed.
Passed ==
  /\ pc \in Ending \ {"close"} => \A f \in Files : FileFailed(f) \notin faults
  /\ pc \in {"finish", "unmark"} => Integrity /\ ~MissingStream /\ ~asked

\* The marker is there as soon as there is metadata, and the metadata changes last.
Marked ==
  /\ pc \in {"texts", "check", "accel", "gyro", "synced", "stereo", "preview", "stop"} \cup Ending
       => disk.marker
  /\ pc \in {"files", "texts"} => disk.metadata = "absent"
  /\ pc \in Ended \ {"complete"} /\ disk.metadata # "absent" => disk.marker
  /\ pc = "complete" => Whole /\ ~asked /\ faults = {}

IInv == TypeOK /\ Places /\ Counted /\ Drained /\ Passed /\ Marked

LEMMA InitIInv == Init => IInv
<1>. SUFFICES ASSUME Init PROVE IInv
  OBVIOUS
<1>1. \A s \in Streams : 0 <= Capacity[s]
  BY CapacityAssumption
<1>2. WithinCapacity(queue) /\ \A s \in Streams : queue[s] = 0
  BY <1>1 DEF Init, WithinCapacity
<1>3. TypeOK
  <2>1. /\ mode \in Modes /\ phase \in {"capture", "drain", "over"} /\ pc \in Pcs
        /\ didWork \in BOOLEAN /\ asked \in BOOLEAN /\ interrupted \in BOOLEAN
        /\ sync \in {"nothing", "ready", "taken"}
    BY DEF Init, Pcs
  <2>2. disk \in [marker : BOOLEAN, metadata : {"absent", "unreadable", "incomplete", "complete"}]
    BY DEF Init
  <2>3. received \subseteq Enabled(mode) /\ lost \subseteq received /\ faults \subseteq Faults
    BY DEF Init
  <2>4. \A s \in Streams : queue[s] > 0 => s \in received
    BY <1>2
  <2>. QED BY <1>2, <2>1, <2>2, <2>3, <2>4 DEF TypeOK
<1>4. pc = "files" /\ phase = "capture" /\ pc \notin Ending /\ pc \notin Ended
  BY DEF Init, Ending, Ended
<1>5. Places /\ Counted /\ Drained
  BY <1>4 DEF Init, Places, Counted, Drained
<1>6. Passed /\ Marked
  BY <1>4 DEF Init, Passed, Marked, Ending, Ended
<1>. QED BY <1>3, <1>5, <1>6 DEF IInv

\* A callback only touches the queues, the counters and what is lost, and none runs
\* once the source has stopped.
LEMMA PushKeeps == ASSUME IInv, NEW s \in Streams, Push(s) PROVE IInv'
<1>1. /\ phase = "capture" /\ s \in Enabled(mode) /\ received' = received \cup {s}
      /\ UNCHANGED <<mode, control, sync, disk>>
  BY DEF Push
<1>2. TypeOK
  BY DEF IInv
<1>3. \/ /\ queue' = [queue EXCEPT ![s] = @ + 1] /\ queue[s] < Capacity[s]
         /\ UNCHANGED <<faults, lost>>
      \/ /\ faults' = faults \cup {Dropped(s)} /\ lost' = lost \cup {s} /\ UNCHANGED queue
  BY DEF Push, HasRoom, Evict
<1>4. WithinCapacity(queue') /\ \A r \in Streams : queue'[r] > 0 => r \in received'
  BY <1>1, <1>2, <1>3, CapacityAssumption DEF TypeOK, WithinCapacity
<1>5. /\ faults' \subseteq Faults /\ lost' \subseteq received'
      /\ \A r \in lost' : Dropped(r) \in faults'
  BY <1>1, <1>2, <1>3 DEF TypeOK, Faults, IInv, Counted
<1>6. TypeOK'
  BY <1>1, <1>2, <1>4, <1>5 DEF TypeOK, control, Faults, Files, WritesSynchronized
<1>7. Places' /\ Counted'
  BY <1>1, <1>5 DEF IInv, Places, Counted, WritesSynchronized, control
<1>8. pc \notin Ending /\ pc \notin Ended
  BY <1>1 DEF IInv, Places
<1>9. Drained' /\ Passed' /\ Marked'
  BY <1>1, <1>8 DEF IInv, Drained, Passed, Marked, control, Ending, Ended
<1>. QED BY <1>6, <1>7, <1>9 DEF IInv

\* A step of the main thread that leaves the data alone keeps the types.
LEMMA ControlStep ==
  ASSUME TypeOK, UNCHANGED <<mode, data, faults>>,
         phase' \in {"capture", "drain", "over"}, pc' \in Pcs,
         didWork' \in BOOLEAN, asked' \in BOOLEAN, interrupted' \in BOOLEAN,
         disk' \in [marker : BOOLEAN, metadata : {"absent", "unreadable", "incomplete", "complete"}]
  PROVE  TypeOK'
BY DEF TypeOK, data, Faults, Files, WritesSynchronized

\* A thrown exception or a crash leaves a marker wherever there is metadata.
LEMMA OverKeeps ==
  ASSUME IInv, pc \notin Ended, pc' \in {"incomplete", "dead"}, phase' = "over",
         TypeOK', Counted', disk'.metadata # "absent" => disk'.marker
  PROVE  IInv'
<1>1. Places'
  BY DEF Places, Ended, Ending
<1>2. Drained' /\ Passed' /\ Marked'
  BY DEF Drained, Passed, Marked, Ended, Ending
<1>. QED BY <1>1, <1>2 DEF IInv

\* What a failure leaves when it changes neither the data nor the disk.
LEMMA ThrowKeeps ==
  ASSUME IInv, pc \in {"preview", "close", "decide", "unmark"},
         pc' = "incomplete", phase' = "over",
         UNCHANGED <<mode, didWork, asked, interrupted, data, faults, disk>>
  PROVE  IInv'
<1>1. TypeOK'
  BY ControlStep DEF IInv, TypeOK, Pcs
<1>2. Counted'
  BY DEF IInv, Counted, WritesSynchronized, data
<1>3. disk.marker
  BY DEF IInv, Marked, Ending
<1>. QED BY <1>1, <1>2, <1>3, OverKeeps DEF Ended

LEMMA CrashKeeps == ASSUME IInv, Crash PROVE IInv'
<1>1. /\ pc \notin Ended /\ pc' = "dead" /\ phase' = "over"
      /\ UNCHANGED <<mode, didWork, asked, interrupted, data, faults, disk>>
  BY DEF Crash, Ended
<1>2. TypeOK'
  BY <1>1, ControlStep DEF IInv, TypeOK, Pcs
<1>3. Counted'
  BY <1>1 DEF IInv, Counted, WritesSynchronized, data
<1>4. disk.metadata # "absent" => disk.marker
  BY <1>1 DEF IInv, TypeOK, Marked, Pcs, Ending, Ended
<1>. QED BY <1>1, <1>2, <1>3, <1>4, OverKeeps

LEMMA FailingStartKeeps ==
  ASSUME IInv, OpenFilesFails \/ WriteTextsFails \/ WriteFinalTextsFails PROVE IInv'
<1>1. /\ pc \in {"files", "texts", "finish"} /\ pc' = "incomplete" /\ phase' = "over"
      /\ UNCHANGED <<mode, didWork, asked, interrupted, data, faults>>
  BY DEF OpenFilesFails, WriteTextsFails, WriteFinalTextsFails, Throw
<1>2. disk \in [marker : BOOLEAN, metadata : {"absent", "unreadable", "incomplete", "complete"}]
  BY DEF IInv, TypeOK
<1>3. /\ disk' \in [marker : BOOLEAN, metadata : {"absent", "unreadable", "incomplete", "complete"}]
      /\ disk'.metadata # "absent" => disk'.marker
  <2>1. CASE OpenFilesFails
    BY <1>2, <2>1 DEF OpenFilesFails, IInv, Marked
  <2>2. CASE WriteTextsFails
    BY <1>2, <2>2 DEF WriteTextsFails, IInv, Marked
  <2>3. CASE WriteFinalTextsFails
    BY <1>2, <2>3 DEF WriteFinalTextsFails, IInv, Marked, Ending
  <2>. QED BY <2>1, <2>2, <2>3
<1>4. TypeOK'
  BY <1>1, <1>3, ControlStep DEF IInv, TypeOK, Pcs
<1>5. Counted'
  BY <1>1 DEF IInv, Counted, WritesSynchronized, data
<1>. QED BY <1>1, <1>3, <1>4, <1>5, OverKeeps DEF Ended

LEMMA StartKeeps == ASSUME IInv, OpenFiles \/ WriteTexts PROVE IInv'
<1>1. /\ \/ pc = "files" /\ pc' = "texts" /\ disk' = [disk EXCEPT !.marker = TRUE]
         \/ pc = "texts" /\ pc' = "check" /\ \E c \in {"incomplete", "unreadable"} :
                                                disk' = [disk EXCEPT !.metadata = c]
      /\ UNCHANGED <<mode, phase, didWork, asked, interrupted, data, faults>>
  BY DEF OpenFiles, WriteTexts, Texts, GoTo
<1>2. disk \in [marker : BOOLEAN, metadata : {"absent", "unreadable", "incomplete", "complete"}]
  BY DEF IInv, TypeOK
<1>3. /\ disk' \in [marker : BOOLEAN, metadata : {"absent", "unreadable", "incomplete", "complete"}]
      /\ disk'.marker /\ (pc' = "texts" => disk'.metadata = "absent")
  BY <1>1, <1>2 DEF IInv, Marked
<1>4. TypeOK'
  BY <1>1, <1>3, ControlStep DEF IInv, TypeOK, Pcs
<1>5. Counted'
  BY <1>1 DEF IInv, Counted, WritesSynchronized, data
<1>6. phase = "capture" /\ Places'
  BY <1>1 DEF IInv, Places, Ended, Ending
<1>7. Drained' /\ Passed' /\ Marked'
  BY <1>1, <1>3, <1>6 DEF Drained, Passed, Marked, Ended, Ending
<1>. QED BY <1>4, <1>5, <1>6, <1>7 DEF IInv

LEMMA EnvironmentKeeps == ASSUME IInv, SourceFault \/ Interrupt PROVE IInv'
<1>1. /\ phase = "capture" /\ faults' \in {faults, faults \cup {Source}, faults \cup {SourceFailed}}
      /\ asked' \in BOOLEAN
      /\ UNCHANGED <<mode, phase, pc, didWork, interrupted, data, disk>>
  BY DEF SourceFault, Interrupt, IInv, TypeOK, control
<1>2. pc \notin Ending /\ pc \notin Ended
  BY <1>1 DEF IInv, Places
<1>3. faults \subseteq faults' /\ faults' \subseteq Faults
  BY <1>1 DEF IInv, TypeOK, Faults
<1>4. TypeOK'
  BY <1>1, <1>3 DEF IInv, TypeOK, data, Faults, Files, WritesSynchronized
<1>5. Places' /\ Counted' /\ Drained'
  BY <1>1, <1>2, <1>3 DEF IInv, Places, Counted, Drained, WritesSynchronized, data
<1>6. Passed' /\ Marked'
  BY <1>1, <1>2 DEF IInv, Passed, Marked, Ended, Ending
<1>. QED BY <1>4, <1>5, <1>6 DEF IInv

\* The steps of the recording loop that leave everything but the control alone.
LEMMA LoopKeeps == ASSUME IInv, Check \/ Preview PROVE IInv'
<1>1. CASE pc = "preview" /\ Throw /\ Preview
  <2>1. UNCHANGED <<mode, didWork, asked, interrupted, data, faults, disk>>
    BY <1>1 DEF Preview, Throw, GoTo
  <2>. QED BY <1>1, <2>1, ThrowKeeps DEF Throw
<1>2. CASE (Check \/ Preview) /\ ~(pc = "preview" /\ Throw)
  <2>1. /\ pc \in {"check", "preview"} /\ pc' \in {"accel", "check", "stop"} /\ phase' = phase
        /\ didWork' \in BOOLEAN /\ asked' \in BOOLEAN
        /\ UNCHANGED <<mode, interrupted, data, faults, disk>>
    BY <1>2 DEF Check, Preview, GoTo, IInv, TypeOK
  <2>2. phase = "capture"
    BY <2>1 DEF IInv, Places
  <2>3. TypeOK'
    BY <2>1, ControlStep DEF IInv, TypeOK, Pcs
  <2>4. Places' /\ Counted'
    BY <2>1, <2>2 DEF IInv, Places, Counted, WritesSynchronized, data, Ended, Ending
  <2>5. Drained' /\ Passed' /\ Marked'
    BY <2>1, <2>2 DEF IInv, Drained, Passed, Marked, Ended, Ending
  <2>. QED BY <2>3, <2>4, <2>5 DEF IInv
<1>. QED BY <1>1, <1>2 DEF Check, Preview

\* In the last drain a stage that is left stays empty.
LEMMA LeaveKeeps == ASSUME IInv, LeaveStage \/ LeaveStereo PROVE IInv'
<1>1. TypeOK /\ UNCHANGED <<mode, phase, asked, interrupted, data, faults, disk>>
  BY DEF LeaveStage, LeaveStereo, GoTo, IInv
<1>2. /\ pc \in {"accel", "gyro", "synced", "stereo"} /\ didWork' \in BOOLEAN
      /\ pc = "accel" => pc' = "gyro" /\ queue["accel"] = 0
      /\ pc = "gyro" => pc' = "synced" /\ queue["gyro"] = 0
      /\ pc = "synced" => pc' = "stereo" /\ sync # "ready"
      /\ pc = "stereo" => /\ queue["stereo"] = 0
                          /\ \/ pc' \in {"preview", "check"} /\ phase = "capture"
                             \/ pc' \in {"accel", "close"} /\ phase # "capture"
  <2>1. CASE LeaveStage
    <3>1. pc \in {"accel", "gyro", "synced"}
      BY <2>1 DEF LeaveStage, NextStage
    <3>2. /\ NextStage["accel"] = "gyro" /\ NextStage["gyro"] = "synced"
          /\ NextStage["synced"] = "stereo"
      BY DEF NextStage
    <3>. QED BY <1>1, <2>1, <3>1, <3>2 DEF LeaveStage, GoTo, TypeOK
  <2>2. CASE LeaveStereo
    BY <2>2 DEF LeaveStereo, GoTo
  <2>. QED BY <2>1, <2>2
<1>3. phase \in {"capture", "drain"}
  BY <1>1, <1>2 DEF IInv, Places, TypeOK, Ended
<1>4. pc' \in {"gyro", "synced", "stereo", "preview", "check", "accel", "close"}
  BY <1>2
<1>5. TypeOK'
  BY <1>1, <1>2, <1>4, ControlStep DEF TypeOK, Pcs
<1>6. Places'
  BY <1>1, <1>2, <1>3, <1>4 DEF IInv, Places, Ended, Ending
<1>7. Counted'
  BY <1>1 DEF IInv, Counted, WritesSynchronized, data
<1>8. Drained'
  BY <1>1, <1>2, <1>3, <1>4 DEF IInv, Drained, Ending, data
<1>9. Passed' /\ Marked'
  BY <1>1, <1>2, <1>4 DEF IInv, Passed, Marked, Ended, Ending
<1>. QED BY <1>5, <1>6, <1>7, <1>8, <1>9 DEF IInv

LEMMA StopSourceKeeps == ASSUME IInv, StopSource PROVE IInv'
<1>1. /\ pc = "stop" /\ pc' = "accel" /\ phase' = "drain" /\ interrupted' = asked
      /\ faults' \in {faults, faults \cup {SourceFailed}}
      /\ UNCHANGED <<mode, didWork, asked, data, disk>>
  BY DEF StopSource
<1>2. TypeOK'
  BY <1>1 DEF IInv, TypeOK, data, Faults, Files, WritesSynchronized, Pcs
<1>3. Counted'
  BY <1>1 DEF IInv, Counted, WritesSynchronized, data
<1>4. Places' /\ Drained' /\ Passed' /\ Marked'
  BY <1>1 DEF IInv, Places, Drained, Passed, Marked, Ended, Ending
<1>. QED BY <1>2, <1>3, <1>4 DEF IInv

LEMMA CloseFilesKeeps == ASSUME IInv, CloseFiles PROVE IInv'
<1>1. pc = "close" /\ UNCHANGED <<mode, didWork, asked, interrupted, data, faults, disk>>
  BY DEF CloseFiles
<1>2. CASE Throw
  BY <1>1, <1>2, ThrowKeeps DEF Throw
<1>3. CASE (\A f \in Files : FileFailed(f) \notin faults) /\ GoTo("decide")
  <2>1. pc' = "decide" /\ phase' = phase /\ phase = "drain"
    BY <1>1, <1>3 DEF GoTo, IInv, Places, Ending
  <2>2. TypeOK'
    BY <1>1, <2>1, ControlStep DEF IInv, TypeOK, Pcs
  <2>3. Places' /\ Counted'
    BY <1>1, <2>1 DEF IInv, Places, Counted, WritesSynchronized, data, Ended, Ending
  <2>4. Drained' /\ Marked'
    BY <1>1, <2>1 DEF IInv, Drained, Marked, Ended, Ending, data
  <2>5. Passed'
    BY <1>1, <1>3, <2>1 DEF Passed, Files, WritesSynchronized, Ending
  <2>. QED BY <2>2, <2>3, <2>4, <2>5 DEF IInv
<1>. QED BY <1>2, <1>3 DEF CloseFiles

LEMMA DecideKeeps == ASSUME IInv, Decide PROVE IInv'
<1>1. pc = "decide" /\ UNCHANGED <<mode, didWork, asked, interrupted, data, faults, disk>>
  BY DEF Decide
<1>2. CASE interrupted \/ ~Integrity \/ MissingStream
  <2>1. pc' = "incomplete" /\ phase' = "over"
    BY <1>2 DEF Decide
  <2>. QED BY <1>1, <2>1, ThrowKeeps
<1>3. CASE ~(interrupted \/ ~Integrity \/ MissingStream)
  <2>1. pc' = "finish" /\ phase' = phase /\ phase = "drain" /\ ~asked
    BY <1>1, <1>3 DEF Decide, GoTo, IInv, Places, Ending
  <2>2. TypeOK'
    BY <1>1, <2>1, ControlStep DEF IInv, TypeOK, Pcs
  <2>3. Places' /\ Counted'
    BY <1>1, <2>1 DEF IInv, Places, Counted, WritesSynchronized, data, Ended, Ending
  <2>4. Drained' /\ Marked'
    BY <1>1, <2>1 DEF IInv, Drained, Marked, Ended, Ending, data
  <2>5. Integrity' /\ ~MissingStream'
    BY <1>1, <1>3 DEF Integrity, MissingStream, WritesSynchronized, data
  <2>6. Passed'
    BY <1>1, <2>1, <2>5 DEF IInv, Passed, Files, WritesSynchronized, Ending
  <2>. QED BY <2>2, <2>3, <2>4, <2>6 DEF IInv
<1>. QED BY <1>2, <1>3

LEMMA WriteFinalTextsKeeps == ASSUME IInv, WriteFinalTexts PROVE IInv'
<1>1. /\ pc = "finish" /\ pc' = "unmark" /\ phase' = phase
      /\ \E c \in {"complete", "unreadable"} : disk' = [disk EXCEPT !.metadata = c]
      /\ UNCHANGED <<mode, didWork, asked, interrupted, data, faults>>
  BY DEF WriteFinalTexts, Texts, GoTo
<1>2. disk \in [marker : BOOLEAN, metadata : {"absent", "unreadable", "incomplete", "complete"}]
  BY DEF IInv, TypeOK
<1>3. /\ disk' \in [marker : BOOLEAN, metadata : {"absent", "unreadable", "incomplete", "complete"}]
      /\ disk'.marker
  BY <1>1, <1>2 DEF IInv, Marked, Ending
<1>4. TypeOK'
  BY <1>1, <1>3, ControlStep DEF IInv, TypeOK, Pcs
<1>5. Places' /\ Counted'
  BY <1>1 DEF IInv, Places, Counted, WritesSynchronized, data, Ended, Ending
<1>6. Drained' /\ Marked'
  BY <1>1, <1>3 DEF IInv, Drained, Marked, Ended, Ending, data
<1>7. Integrity' /\ ~MissingStream'
  BY <1>1 DEF IInv, Passed, Integrity, MissingStream, WritesSynchronized, data
<1>8. Passed'
  BY <1>1, <1>7 DEF IInv, Passed, Files, WritesSynchronized, Ending
<1>. QED BY <1>4, <1>5, <1>6, <1>8 DEF IInv

\* What the checks leave no room for: a capture that has passed them all is whole.
LEMMA PassedIsWhole ==
  ASSUME IInv, pc = "unmark" PROVE Whole /\ ~asked /\ faults = {}
<1>1. /\ TypeOK /\ ~asked /\ Integrity /\ ~MissingStream
      /\ \A f \in Files : FileFailed(f) \notin faults
  BY DEF IInv, Passed, Ending
<1>2. faults = {}
  <2>1. faults \subseteq Faults
    BY <1>1 DEF TypeOK
  <2>2. Enabled(mode) \subseteq Streams
    BY DEF Enabled, Streams
  <2>3. \A s \in Streams : Dropped(s) \notin faults
    BY <1>1 DEF Integrity
  <2>4. Source \notin faults /\ SourceFailed \notin faults /\ SyncError \notin faults
    BY <1>1 DEF Integrity
  <2>. QED BY <1>1, <2>1, <2>2, <2>3, <2>4 DEF Faults
<1>3. lost = {}
  BY <1>2 DEF IInv, Counted
<1>4. received = Enabled(mode)
  BY <1>1 DEF MissingStream, TypeOK
<1>5. phase = "drain"
  BY DEF IInv, Places, Ending
<1>6. queue["accel"] = 0 /\ queue["gyro"] = 0 /\ queue["stereo"] = 0 /\ sync # "ready"
  BY <1>5 DEF IInv, Drained, Ending
<1>7. WritesSynchronized => sync = "taken"
  BY <1>1, <1>6 DEF MissingStream, TypeOK
<1>. QED BY <1>1, <1>2, <1>3, <1>4, <1>6, <1>7 DEF Whole, Streams

LEMMA RemoveMarkerKeeps == ASSUME IInv, RemoveMarker \/ RemoveMarkerFails PROVE IInv'
<1>1. CASE RemoveMarkerFails
  BY <1>1, ThrowKeeps DEF RemoveMarkerFails, Throw
<1>2. CASE RemoveMarker
  <2>1. /\ pc = "unmark" /\ pc' = "complete" /\ phase' = "over"
        /\ disk' = [disk EXCEPT !.marker = FALSE]
        /\ UNCHANGED <<mode, didWork, asked, interrupted, data, faults>>
    BY <1>2 DEF RemoveMarker
  <2>2. disk \in [marker : BOOLEAN, metadata : {"absent", "unreadable", "incomplete", "complete"}]
    BY DEF IInv, TypeOK
  <2>3. disk' \in [marker : BOOLEAN, metadata : {"absent", "unreadable", "incomplete", "complete"}]
    BY <2>1, <2>2
  <2>4. TypeOK'
    BY <2>1, <2>3, ControlStep DEF IInv, TypeOK, Pcs
  <2>5. Counted'
    BY <2>1 DEF IInv, Counted, WritesSynchronized, data
  <2>6. (Whole /\ ~asked /\ faults = {})'
    BY <2>1, PassedIsWhole DEF Whole, Files, WritesSynchronized, data
  <2>7. Places' /\ Drained' /\ Passed'
    BY <2>1 DEF Places, Drained, Passed, Ended, Ending
  <2>8. Marked'
    BY <2>1, <2>6 DEF Marked, Ended, Ending
  <2>. QED BY <2>4, <2>5, <2>7, <2>8 DEF IInv
<1>. QED BY <1>1, <1>2

\* A popped element leaves the queues within their types.
LEMMA PopStep ==
  ASSUME TypeOK, NEW s \in Streams, queue[s] > 0, queue' = [queue EXCEPT ![s] = @ - 1]
  PROVE  /\ WithinCapacity(queue')
         /\ \A r \in Streams : queue'[r] > 0 => queue[r] > 0
         /\ \A r \in Streams : queue[r] = 0 => queue'[r] = 0
         /\ s \in received /\ s \in Enabled(mode)
<1>1. /\ WithinCapacity(queue) /\ s \in received /\ received \subseteq Enabled(mode)
  BY DEF TypeOK
<1>2. /\ queue \in [Streams -> Nat] /\ \A r \in Streams : queue[r] <= Capacity[r]
      /\ \A r \in Streams : Capacity[r] \in Nat
  BY <1>1, CapacityAssumption DEF WithinCapacity
<1>3. \A r \in Streams : queue'[r] = IF r = s THEN queue[s] - 1 ELSE queue[r]
  BY <1>2
<1>4. WithinCapacity(queue')
  BY <1>2, <1>3 DEF WithinCapacity
<1>5. \A r \in Streams : queue'[r] > 0 => queue[r] > 0
  BY <1>3
<1>6. \A r \in Streams : queue[r] = 0 => queue'[r] = 0
  BY <1>2, <1>3
<1>. QED BY <1>1, <1>4, <1>5, <1>6

LEMMA PopImuKeeps ==
  ASSUME IInv, NEW s \in {"accel", "gyro"}, PopImu(s) PROVE IInv'
<1>1. /\ pc = s /\ queue[s] > 0 /\ queue' = [queue EXCEPT ![s] = @ - 1]
      /\ sync' \in {sync, "ready"} /\ didWork' = TRUE
      /\ UNCHANGED <<mode, phase, pc, asked, interrupted, received, disk, lost>>
  BY DEF PopImu
<1>2. TypeOK /\ s \in Streams
  BY DEF IInv, Streams
<1>3. /\ WithinCapacity(queue')
      /\ \A r \in Streams : queue'[r] > 0 => queue[r] > 0
      /\ \A r \in Streams : queue[r] = 0 => queue'[r] = 0
      /\ s \in Enabled(mode)
  BY <1>1, <1>2, PopStep
<1>4. PICK failing \in SUBSET {FileFailed(s), SyncError} : faults' = faults \cup failing
  BY DEF PopImu
<1>5. FileFailed(s) \in Faults /\ SyncError \in Faults
  BY <1>3 DEF Faults, Files
<1>6. faults' \subseteq Faults /\ faults \subseteq faults'
  BY <1>2, <1>4, <1>5 DEF TypeOK
<1>7. TypeOK'
  BY <1>1, <1>2, <1>3, <1>6 DEF TypeOK, Faults, Files, WritesSynchronized
<1>8. WritesSynchronized
  BY <1>3 DEF WritesSynchronized, Enabled
<1>9. Places' /\ Counted'
  BY <1>1, <1>6, <1>8 DEF IInv, Places, Counted, WritesSynchronized
<1>10. Drained'
  BY <1>1, <1>3 DEF IInv, Drained, Ending, Streams
<1>11. Passed' /\ Marked'
  BY <1>1 DEF IInv, Passed, Marked, Ended, Ending
<1>. QED BY <1>7, <1>9, <1>10, <1>11 DEF IInv

LEMMA TakeReadyKeeps == ASSUME IInv, TakeReady PROVE IInv'
<1>1. /\ pc = "synced" /\ sync = "ready" /\ sync' = "taken" /\ didWork' = TRUE
      /\ faults' \in {faults, faults \cup {FileFailed("synced")}}
      /\ UNCHANGED <<mode, phase, pc, asked, interrupted, queue, received, disk, lost>>
  BY DEF TakeReady
<1>2. TypeOK /\ WritesSynchronized
  BY <1>1 DEF IInv, Counted
<1>3. FileFailed("synced") \in Faults
  BY <1>2 DEF Faults, Files
<1>4. faults' \subseteq Faults /\ faults \subseteq faults'
  BY <1>1, <1>2, <1>3 DEF TypeOK
<1>5. TypeOK'
  BY <1>1, <1>2, <1>4 DEF TypeOK, Faults, Files, WritesSynchronized
<1>6. Places' /\ Counted'
  BY <1>1, <1>2, <1>4 DEF IInv, Places, Counted, WritesSynchronized
<1>7. Drained' /\ Passed' /\ Marked'
  BY <1>1 DEF IInv, Drained, Passed, Marked, Ended, Ending
<1>. QED BY <1>5, <1>6, <1>7 DEF IInv

LEMMA PopStereoKeeps == ASSUME IInv, PopStereo PROVE IInv'
<1>1. /\ pc = "stereo" /\ queue["stereo"] > 0 /\ didWork' = TRUE
      /\ queue' = [queue EXCEPT !["stereo"] = @ - 1]
      /\ \/ pc' = "stereo" /\ phase' = phase /\ faults' \in {faults, faults \cup {FileFailed("stereo")}}
         \/ pc' = "incomplete" /\ phase' = "over" /\ UNCHANGED faults
      /\ UNCHANGED <<mode, asked, interrupted, received, sync, disk, lost>>
  BY DEF PopStereo, GoTo, Throw
<1>2. TypeOK /\ "stereo" \in Streams
  BY DEF IInv, Streams
<1>3. /\ WithinCapacity(queue')
      /\ \A r \in Streams : queue'[r] > 0 => queue[r] > 0
      /\ \A r \in Streams : queue[r] = 0 => queue'[r] = 0
      /\ "stereo" \in Enabled(mode)
  BY <1>1, <1>2, PopStep
<1>4. FileFailed("stereo") \in Faults
  BY <1>3 DEF Faults, Files
<1>5. faults' \subseteq Faults /\ faults \subseteq faults'
  BY <1>1, <1>2, <1>4 DEF TypeOK
<1>6. TypeOK'
  BY <1>1, <1>2, <1>3, <1>5 DEF TypeOK, Faults, Files, WritesSynchronized, Pcs
<1>7. Counted'
  BY <1>1, <1>5 DEF IInv, Counted, WritesSynchronized
<1>8. CASE pc' = "stereo"
  <2>1. Places'
    BY <1>1, <1>8 DEF IInv, Places
  <2>2. Drained'
    BY <1>1, <1>3, <1>8 DEF IInv, Drained, Ending, Streams
  <2>3. Passed' /\ Marked'
    BY <1>1, <1>8 DEF IInv, Passed, Marked, Ended, Ending
  <2>. QED BY <1>6, <1>7, <2>1, <2>2, <2>3 DEF IInv
<1>9. CASE pc' = "incomplete"
  <2>1. disk.marker
    BY <1>1 DEF IInv, Marked
  <2>. QED BY <1>1, <1>6, <1>7, <1>9, <2>1, OverKeeps DEF Ended
<1>. QED BY <1>1, <1>8, <1>9

LEMMA NextKeeps == ASSUME IInv, [Next]_vars PROVE IInv'
<1>1. CASE UNCHANGED vars
  <2>1. UNCHANGED <<mode, phase, pc, didWork, asked, interrupted, data, faults, disk>>
    BY <1>1 DEF vars, control
  <2>2. TypeOK'
    BY <2>1, ControlStep DEF IInv, TypeOK
  <2>3. Places' /\ Counted' /\ Drained'
    BY <2>1 DEF IInv, Places, Counted, Drained, WritesSynchronized, data
  <2>4. Passed' /\ Marked'
    BY <2>1 DEF IInv, Passed, Marked, Whole, Integrity, MissingStream, Files, WritesSynchronized, data
  <2>. QED BY <2>2, <2>3, <2>4 DEF IInv
<1>2. CASE Main
  <2>1. CASE \/ OpenFiles \/ OpenFilesFails \/ WriteTexts \/ WriteTextsFails \/ WriteFinalTextsFails
    BY <2>1, StartKeeps, FailingStartKeeps
  <2>2. CASE Check \/ Preview \/ LeaveStage \/ LeaveStereo \/ StopSource
    BY <2>2, LoopKeeps, LeaveKeeps, StopSourceKeeps
  <2>3. CASE PopImu("accel") \/ PopImu("gyro") \/ TakeReady \/ PopStereo
    BY <2>3, PopImuKeeps, TakeReadyKeeps, PopStereoKeeps
  <2>4. CASE CloseFiles \/ Decide \/ WriteFinalTexts \/ RemoveMarker \/ RemoveMarkerFails
    BY <2>4, CloseFilesKeeps, DecideKeeps, WriteFinalTextsKeeps, RemoveMarkerKeeps
  <2>. QED BY <1>2, <2>1, <2>2, <2>3, <2>4 DEF Main
<1>3. CASE SourceFault \/ Interrupt \/ Crash
  BY <1>3, EnvironmentKeeps, CrashKeeps
<1>4. ASSUME NEW s \in Streams, Push(s) PROVE IInv'
  BY <1>4, PushKeeps
<1>. QED BY <1>1, <1>2, <1>3, <1>4 DEF Next

LEMMA Invariance == Spec => []IInv
<1>1. IInv /\ [Next]_vars => IInv'
  BY NextKeeps
<1>. QED BY InitIInv, <1>1, PTL DEF Spec

\* Nothing but a run that ended well has metadata without a marker.
LEMMA UnmarkedIsComplete ==
  ASSUME IInv, disk.metadata # "absent", ~disk.marker
  PROVE  pc = "complete"
BY DEF IInv, TypeOK, Pcs, Marked, Ended, Ending

\* No queue outgrows its capacity, and nothing but what was enabled is ever received
\* (bounded_queue.hpp:19-31 and ovrs_record.cpp:248-266).
THEOREM TypeCorrect == Spec => []TypeOK
BY Invariance, PTL DEF IInv

\* A dataset that replay accepts holds everything the source delivered, for every
\* capacity and any number of faults (ovrs_record.cpp:457-636).
THEOREM CompleteIsComplete == Spec => []CompleteIsWhole
<1>1. IInv => CompleteIsWhole
  <2>. SUFFICES ASSUME IInv, ~disk.marker, disk.metadata = "complete" PROVE Whole
    BY DEF CompleteIsWhole
  <2>1. pc = "complete"
    BY UnmarkedIsComplete
  <2>. QED BY <2>1 DEF IInv, Marked
<1>. QED BY <1>1, Invariance, PTL

\* Whatever goes wrong, and whenever a stop is asked for while recording, the marker
\* stays (ovrs_record.cpp:457 and 484-524).
THEOREM MarkerIsKept == Spec => []MarkerKept
<1>1. IInv => MarkerKept
  <2>. SUFFICES ASSUME IInv, disk.metadata # "absent", ~disk.marker
                PROVE  ~asked /\ faults = {} /\ pc = "complete"
    BY DEF MarkerKept
  <2>1. pc = "complete"
    BY UnmarkedIsComplete
  <2>. QED BY <2>1 DEF IInv, Marked
<1>. QED BY <1>1, Invariance, PTL

=============================================================================
