------------------------------- MODULE Replay -------------------------------
(***************************************************************************)
(* The replay application (src/apps/ovrs_replay.cpp): one thread loads the *)
(* synchronized IMU rows of a dataset, then reads the stereo rows one by   *)
(* one and feeds the estimator the IMU samples each frame needs, the frame *)
(* itself, and asks it for its state, which the tracking-health gate       *)
(* judges.  An operator may ask it to stop at any moment.                  *)
(*                                                                         *)
(* Rows are abstracted to their timestamps and to whether they are         *)
(* acceptable otherwise; the dataset is whatever rows turn up.  The        *)
(* estimator is external: when it initializes and what it tracks is its    *)
(* own affair, and the state it reports after a frame carries the frame's  *)
(* timestamp.  The run writer has a module of its own; here a write        *)
(* succeeds or throws.                                                     *)
(***************************************************************************)
EXTENDS TrackingHealthGate

CONSTANT Time          \* the timestamps rows can carry

ASSUME TimeAssumption == Time \subseteq Nat

VARIABLES
  pc,                  \* where the program is, or how it has ended
  asked,               \* the stop flag
  imu, imuIndex,       \* imu, imu_index
  previousCamera,      \* previous_camera_timestamp
  frame,               \* timestamp of the row being replayed
  cameraCount,         \* camera_count
  initialized,         \* whether the estimator is initialized
  frames,              \* history: the frames read, in order
  skipped,             \* history: those skipped before the first IMU sample
  delivered            \* history: what the estimator was fed, in order

position == <<imuIndex, previousCamera, frame, cameraCount>>
history  == <<frames, skipped, delivered>>
vars     == <<pc, asked, imu, position, initialized, history, gate>>

ImuEvent(t)    == [kind |-> "imu", time |-> t]
StereoEvent(t) == [kind |-> "stereo", time |-> t]

Ended == {"complete", "interrupted", "uninitialized", "failed", "refused"}

Init ==
  /\ pc = "loading" /\ asked = FALSE
  /\ imu = <<>>
  /\ imuIndex = 0 /\ previousCamera = NoTime /\ frame = NoTime /\ cameraCount = 0
  /\ initialized = FALSE
  /\ frames = <<>> /\ skipped = <<>> /\ delivered = <<>>
  /\ GateInit

----------------------------------------------------------------------------
(* Loading.  What fails here fails before the run directory exists.        *)

LoadImu(t) ==
  /\ pc = "loading"
  /\ imu # <<>> => t > imu[Len(imu)]
  /\ imu' = Append(imu, t)
  /\ UNCHANGED <<pc, asked, position, initialized, history, gate>>

\* All IMU rows are there and the stereo tables are of one length: the run begins.
\* Writing the run's first files may fail, which leaves a run marked INCOMPLETE.
Loaded ==
  /\ pc = "loading" /\ imu # <<>>
  /\ pc' \in {"next", "failed"}
  /\ UNCHANGED <<asked, imu, position, initialized, history, gate>>

\* An IMU row out of order or malformed, none at all, or tables that do not agree.
LoadingFails ==
  /\ pc = "loading"
  /\ pc' = "refused"
  /\ UNCHANGED <<asked, imu, position, initialized, history, gate>>

----------------------------------------------------------------------------
(* The loop over the stereo rows.  Definitions marked "Faulty" are         *)
(* plausible slips in the code that only the mutation runs use.            *)

InOrder(t) == t > previousCamera

\* No IMU sample precedes the frame and nothing was fed yet.
Leading(t) == cameraCount = 0 /\ imuIndex = 0 /\ t < imu[1]

\* The next pair of rows, with its images.
ReadRow(t) ==
  /\ pc = "next" /\ ~asked /\ InOrder(t)
  /\ previousCamera' = t
  /\ frames' = Append(frames, t)
  /\ IF Leading(t)
     THEN pc' = "next" /\ skipped' = Append(skipped, t) /\ UNCHANGED frame
     ELSE pc' = "pace" /\ frame' = t /\ UNCHANGED skipped
  /\ UNCHANGED <<asked, imu, imuIndex, cameraCount, initialized, delivered, gate>>

\* The rows are out of order or do not belong together, or an image cannot be read.
RowFails ==
  /\ pc = "next" /\ ~asked
  /\ pc' = "failed"
  /\ UNCHANGED <<asked, imu, position, initialized, history, gate>>

\* No more rows, or a stop; the row read before the flag is looked at is dropped.
LeaveLoop ==
  /\ pc = "next"
  /\ pc' = "finish"
  /\ UNCHANGED <<asked, imu, position, initialized, history, gate>>

\* The number of skipped frames is logged once, and with a rate the program waits
\* until it is time, or until it is asked to stop.
Pace ==
  /\ pc = "pace"
  /\ \/ pc' \in {"imu", "failed"}
     \/ asked /\ pc' = "finish"
  /\ UNCHANGED <<asked, imu, position, initialized, history, gate>>

\* Faulty: the sample at the frame's own time is left for later.
UpToBefore == imuIndex < Len(imu) /\ imu[imuIndex + 1] < frame

UpTo == imuIndex < Len(imu) /\ imu[imuIndex + 1] <= frame

\* Faulty: a sample after the frame is fed although one at it was.
BeyondAlways == ~UpTo /\ imuIndex < Len(imu) /\ imuIndex > 0

\* Only after a sample before the frame, not at it, is one after it needed.
Beyond ==
  ~UpTo /\ imuIndex < Len(imu) /\ imuIndex > 0 /\ imu[imuIndex] < frame

\* One IMU sample goes to the estimator, which may throw.
FeedImu ==
  /\ pc = "imu" /\ (UpTo \/ Beyond)
  /\ imuIndex' = imuIndex + 1
  /\ delivered' = Append(delivered, ImuEvent(imu[imuIndex + 1]))
  /\ pc' \in {IF Beyond THEN "stereo" ELSE "imu", "failed"}
  /\ UNCHANGED <<asked, imu, previousCamera, frame, cameraCount, initialized, frames, skipped, gate>>

\* Faulty: a frame is fed although the dataset has no sample after it.
ImuFedUnchecked ==
  /\ pc = "imu" /\ ~UpTo /\ ~Beyond
  /\ pc' = "stereo"
  /\ UNCHANGED <<asked, imu, position, initialized, history, gate>>

\* Nothing more to feed.  Without a sample at or after the frame the replay fails.
ImuFed ==
  /\ pc = "imu" /\ ~UpTo /\ ~Beyond
  /\ pc' = IF imuIndex = 0 \/ imu[imuIndex] < frame THEN "failed" ELSE "stereo"
  /\ UNCHANGED <<asked, imu, position, initialized, history, gate>>

\* The frame goes to the estimator, which may initialize, or throw.
FeedStereo ==
  /\ pc = "stereo"
  /\ delivered' = Append(delivered, StereoEvent(frame))
  /\ \/ pc' = "state" /\ cameraCount' = cameraCount + 1 /\ initialized' \in {initialized, TRUE}
     \/ pc' = "failed" /\ UNCHANGED <<cameraCount, initialized>>
  /\ UNCHANGED <<asked, imu, imuIndex, previousCamera, frame, frames, skipped, gate>>

\* latest_state() and write_state(); the limits on speed and bias, or the writer,
\* may throw after the gate has been updated.
JudgeState ==
  /\ pc = "state" /\ initialized
  /\ \E supported \in BOOLEAN : Update(frame, supported)
  /\ pc' \in {"poll", "failed"}
  /\ UNCHANGED <<asked, imu, position, initialized, history>>

\* The state is not finite, or the gate refuses its time.
StateFails ==
  /\ pc = "state" /\ initialized
  /\ pc' = "failed"
  /\ UNCHANGED <<asked, imu, position, initialized, history, gate>>

NoState ==
  /\ pc = "state" /\ ~initialized
  /\ pc' = "poll"
  /\ UNCHANGED <<asked, imu, position, initialized, history, gate>>

\* The viewer, if there is one: its window may be closed, or fail.
Poll ==
  /\ pc = "poll"
  /\ \/ pc' \in {"next", "failed"} /\ UNCHANGED asked
     \/ pc' = "finish" /\ asked' = TRUE
  /\ UNCHANGED <<imu, position, initialized, history, gate>>

----------------------------------------------------------------------------
(* The end, and the operator                                               *)

\* Faulty: a run that was stopped is finalized if the estimator was initialized.
FinishInitialized ==
  /\ pc = "finish"
  /\ pc' \in {IF initialized THEN "complete" ELSE "uninitialized", "failed"}
  /\ UNCHANGED <<asked, imu, position, initialized, history, gate>>

\* The last diagnostics are written, and the run is closed or finalized.
Finish ==
  /\ pc = "finish"
  /\ \/ pc' = CASE asked -> "interrupted"
                [] ~asked /\ ~initialized -> "uninitialized"
                [] OTHER -> "complete"
     \/ pc' = "failed"
  /\ UNCHANGED <<asked, imu, position, initialized, history, gate>>

\* SIGINT or SIGTERM; after the flag was read for the last time it has no effect.
Interrupt ==
  /\ pc \notin Ended
  /\ asked' = TRUE
  /\ UNCHANGED <<pc, imu, position, initialized, history, gate>>

Main ==
  \/ \E t \in Time : LoadImu(t)
  \/ Loaded \/ LoadingFails
  \/ \E t \in Time : ReadRow(t)
  \/ RowFails \/ LeaveLoop \/ Pace
  \/ FeedImu \/ ImuFed \/ FeedStereo
  \/ JudgeState \/ StateFails \/ NoState \/ Poll
  \/ Finish

Next == Main \/ Interrupt

Spec == Init /\ [][Next]_vars

\* The program is scheduled, and estimator, writer and viewer return.
FairSpec == Spec /\ WF_vars(Main)

----------------------------------------------------------------------------
(* Properties                                                              *)

Places == {"loading", "next", "pace", "imu", "stereo", "state", "poll", "finish"} \cup Ended

\* Types; the counters agree with what was fed.
TypeOK ==
  /\ pc \in Places /\ asked \in BOOLEAN /\ initialized \in BOOLEAN
  /\ imu \in Seq(Time) /\ imuIndex \in 0..Len(imu)
  /\ {previousCamera, frame} \subseteq Time \cup {NoTime}
  /\ cameraCount \in Nat
  /\ frames \in Seq(Time) /\ skipped \in Seq(Time)
  /\ delivered \in Seq([kind : {"imu", "stereo"}, time : Time])
  /\ GateTypeOK

ImuTimes == {imu[i] : i \in 1..Len(imu)}

\* What events 1 .. n brought of one kind.
Fed(events, kind, n) == {events[i].time : i \in {j \in 1..n : events[j].kind = kind}}

\* Every frame the estimator was given follows exactly the IMU samples up to it and
\* the first at or after it, and there is one on either side: what the live
\* dispatcher delivers (lines 107-133 of measurement_dispatcher.cpp), from a loop of
\* its own (lines 451-464 of ovrs_replay.cpp).
FedAsLive ==
  \A n \in 1..Len(delivered) :
    LET time   == delivered[n].time
        before == Fed(delivered, "imu", n)
    IN  /\ delivered[n].kind = "stereo" =>
             /\ before = {t \in ImuTimes : ~\E u \in ImuTimes : time <= u /\ u < t}
             /\ \E t \in before : t <= time
             /\ \E t \in before : t >= time
        /\ \A m \in 1..(n - 1) : delivered[m].kind = delivered[n].kind => delivered[m].time < time

\* A run that is finalized has been given every frame that was read, except those
\* older than all IMU samples; docs/dataset.md:73-79: replay "never [...] tolerates a
\* missing IMU bracket after replay has begun".
CompleteRunSawAll ==
  pc = "complete" =>
    /\ \A i \in 1..Len(frames) :
         frames[i] \in Fed(delivered, "stereo", Len(delivered)) <=> frames[i] >= imu[1]
    /\ cameraCount + Len(skipped) = Len(frames)

\* Replay gives up for want of IMU samples only where the dataset has none left, so
\* that cutting the frames after the last sample makes it replayable (lines 454-459).
OnlyTheTailFails ==
  pc = "imu" /\ ~UpTo /\ ~Beyond /\ (imuIndex = 0 \/ imu[imuIndex] < frame)
    => frame > imu[Len(imu)]

\* Between them: replay uses every frame it can and refuses no dataset it could use.
UsesWhatItCan == CompleteRunSawAll /\ OnlyTheTailFails

\* The frame in hand has not reached the estimator, and may never do.
Waiting == frame # NoTime /\ frame \notin Fed(delivered, "stereo", Len(delivered))

\* The samples of the dataset end before the frame, and the replay has noticed.
OutOfSamples == Waiting /\ pc \in {"imu", "failed"} /\ frame > imu[Len(imu)]

\* The session of the live dispatcher that a replay is: without losses, with the
\* samples not fed yet for its queue.  Frames before the first sample are no input.
Unfed      == SubSeq(imu, imuIndex + 1, Len(imu))
InTurn     == IF Waiting THEN <<frame>> ELSE <<>>
LastSample == IF imu = <<>> THEN NoTime ELSE imu[Len(imu)]

Promise == INSTANCE BracketedDelivery WITH
  open <- ~OutOfSamples,
  pendingImu <- Unfed, pendingStereo <- InTurn,
  newestImu <- LastSample, newestStereo <- frame,
  lossless <- TRUE

\* What a replay feeds, a live session could have fed: every run of the replay is a
\* session of BracketedDelivery, which the live dispatcher implements as well
\* (lines 352-469 of ovrs_replay.cpp, 104-142 of measurement_dispatcher.cpp).
KeepsPromise == Promise!Spec

\* Once asked to stop, the replay ends, and it is not called complete.
StopIsObeyed == asked /\ pc \notin Ended ~> pc \in Ended \ {"complete"}

=============================================================================
