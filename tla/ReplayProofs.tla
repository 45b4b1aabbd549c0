---------------------------- MODULE ReplayProofs ----------------------------
(***************************************************************************)
(* Proofs about the replay and the tracking-health gate inside it, for     *)
(* every set of timestamps, every dataset and every setting of the gate.   *)
(*                                                                         *)
(* The gate compares three durations it keeps with three it was given.     *)
(* Judging ties each duration to the run of samples it measures, which is  *)
(* what makes the status agree with the samples themselves.  The loop over *)
(* the rows keeps an index into the IMU samples instead of a queue:        *)
(* Cursor says where the index stands against the frame in hand, FedSoFar  *)
(* what was fed by then, and from the two follows that the replay          *)
(* implements BracketedDelivery, as the live dispatcher does.              *)
(***************************************************************************)
EXTENDS Replay, SequenceTheorems, TLAPS

----------------------------------------------------------------------------
(* The gate                                                                *)

\* The supported, or the weak, samples since the last one of the other kind, or
\* since the segment began, last as long as the gate has counted.
Measured(samples, supported, s, duration) ==
  \E g \in s..Len(samples) :
    /\ duration = samples[Len(samples)].time - samples[g].time
    /\ \A k \in (g + 1)..Len(samples) : samples[k].supported = supported
    /\ g > s => samples[g].supported # supported

\* What the three durations say of the segment that began with sample s.
Judging(s) ==
  /\ Segment(evidence, s)
  /\ evaluation = evidence[Len(evidence)].time - evidence[s].time
  /\ Measured(evidence, TRUE, s, good) /\ Measured(evidence, FALSE, s, bad)
  /\ Deserves(evidence, s, status)

Ordered(samples) == \A i, j \in 1..Len(samples) : i < j => samples[i].time < samples[j].time

GateInv ==
  /\ enabled =>
       IF evidence = <<>> THEN status = "warming_up" /\ good = 0 /\ bad = 0 /\ evaluation = 0
       ELSE \E s \in 1..Len(evidence) : Judging(s)
  /\ enabled => Ordered(evidence)
  /\ enabled <=> status # "disabled"

----------------------------------------------------------------------------
(* The loop                                                                *)

InHand == {"pace", "imu", "stereo", "state"}

\* The rows are in order, and once they are loaded there is at least one sample.
Rows ==
  /\ \A i, j \in 1..Len(imu) : i < j => imu[i] < imu[j]
  /\ pc = "loading" =>
       /\ imuIndex = 0 /\ frame = NoTime /\ cameraCount = 0
       /\ frames = <<>> /\ skipped = <<>> /\ delivered = <<>>
  /\ pc \notin {"loading", "refused"} => imu # <<>>

\* Where the index stands: the sample before the last one fed precedes the newest
\* frame, and nothing is fed for a frame that no sample precedes.
Cursor ==
  /\ frame <= previousCamera
  /\ pc \in InHand => frame = previousCamera /\ frame \in Time /\ imu[1] <= frame
  /\ imuIndex > 0 => imu[1] <= previousCamera
  /\ imuIndex > 1 => imu[imuIndex - 1] < previousCamera
  /\ cameraCount > 0 => imuIndex > 0
  /\ pc = "stereo" => imuIndex > 0 /\ frame <= imu[imuIndex]

\* The estimator was fed the samples up to the index, and frames in order.
FedSoFar ==
  /\ Fed(delivered, "imu", Len(delivered)) = {imu[i] : i \in 1..imuIndex}
  /\ \A t \in Fed(delivered, "stereo", Len(delivered)) :
       t <= previousCamera /\ (pc \in {"pace", "imu", "stereo"} => t < previousCamera)

\* As long as nothing has gone wrong and nobody has asked to stop, every frame read
\* was fed or skipped, but for the one in hand.
Settled == pc \in {"next", "state", "poll", "complete"} \/ (pc = "finish" /\ ~asked)

SawAll(n) ==
  /\ \A i \in 1..n : frames[i] \in Fed(delivered, "stereo", Len(delivered)) <=> frames[i] >= imu[1]
  /\ cameraCount + Len(skipped) = n

Accounts ==
  /\ \A i \in 1..Len(frames) : frames[i] <= previousCamera
  /\ Settled => SawAll(Len(frames))
  /\ pc \in {"pace", "imu", "stereo"} =>
       /\ frames # <<>> /\ frames[Len(frames)] = frame
       /\ \A i \in 1..(Len(frames) - 1) : frames[i] < frame
       /\ SawAll(Len(frames) - 1)

IInv == TypeOK /\ GateInv /\ Rows /\ Cursor /\ FedSoFar /\ FedAsLive /\ Accounts

----------------------------------------------------------------------------
(* Types                                                                   *)

ControlOK ==
  /\ pc \in Places /\ asked \in BOOLEAN /\ initialized \in BOOLEAN /\ cameraCount \in Nat

RowsOK ==
  /\ imu \in Seq(Time) /\ imuIndex \in 0..Len(imu)
  /\ previousCamera \in Time \cup {NoTime} /\ frame \in Time \cup {NoTime}

HistoryOK ==
  /\ frames \in Seq(Time) /\ skipped \in Seq(Time)
  /\ delivered \in Seq([kind : {"imu", "stereo"}, time : Time])

LEMMA TypeParts == TypeOK <=> ControlOK /\ RowsOK /\ HistoryOK /\ GateTypeOK
BY DEF TypeOK, ControlOK, RowsOK, HistoryOK

LEMMA TypeInit == Init => TypeOK
<1>. SUFFICES ASSUME Init PROVE TypeOK
  OBVIOUS
<1>1. GateTypeOK
  BY DEF Init, GateInit, GateTypeOK, Statuses
<1>2. ControlOK
  BY DEF Init, ControlOK, Places
<1>3. RowsOK
  BY DEF Init, RowsOK
<1>4. HistoryOK
  BY DEF Init, HistoryOK
<1>. QED BY <1>1, <1>2, <1>3, <1>4, TypeParts

\* What update() does to a gate of the right type.
LEMMA UpdateType ==
  ASSUME GateTypeOK, NEW t \in Nat, NEW supported \in BOOLEAN, Update(t, supported)
  PROVE  GateTypeOK'
<1>. DEFINE e == [time |-> t, supported |-> supported]
<1>1. /\ evidence' = Append(evidence, e)
      /\ evidence' \in Seq([time : Nat, supported : BOOLEAN])
      /\ evidence' # <<>> /\ evidence'[Len(evidence')] = e
  BY DEF GateTypeOK, Update
<1>2. previous \in Int /\ (Started => t - previous \in Nat)
  BY DEF GateTypeOK, NoTime, Started, Update
<1>3. good' \in Nat /\ bad' \in Nat /\ evaluation' \in Nat
  <2>1. CASE Note
    BY <2>1 DEF GateTypeOK, Note, durations
  <2>2. CASE StartAgain(t)
    BY <2>2 DEF StartAgain
  <2>3. CASE Judge(t, supported)
    <3>1. t - previous \in Nat /\ evaluation' = evaluation + (t - previous)
      BY <1>2, <2>3 DEF Judge
    <3>2. /\ good' = good + (t - previous) \/ good' = 0
          /\ bad' = bad + (t - previous) \/ bad' = 0
      BY <2>3 DEF Judge, Support, Weakness
    <3>3. good \in Nat /\ bad \in Nat /\ evaluation \in Nat
      BY DEF GateTypeOK
    <3>. QED BY <3>1, <3>2, <3>3
  <2>. QED BY <2>1, <2>2, <2>3 DEF Update
<1>4. status' \in Statuses
  BY DEF GateTypeOK, Update, Note, StartAgain, Judge, Support, Weakness, TimedOut, Statuses
<1>. QED BY <1>1, <1>3, <1>4 DEF GateTypeOK, Update

LEMMA GateTypeKept == GateTypeOK /\ UNCHANGED gate => GateTypeOK'
BY DEF gate, durations, GateTypeOK

LEMMA ControlStep == TypeOK /\ [Next]_vars => ControlOK'
<1>. SUFFICES ASSUME TypeOK, [Next]_vars PROVE ControlOK'
  OBVIOUS
<1>1. ControlOK
  BY TypeParts
<1>2. cameraCount' = cameraCount \/ cameraCount' = cameraCount + 1
  BY DEF Next, Main, vars, position, LoadImu, ReadRow, Loaded, LoadingFails, RowFails,
      LeaveLoop, Pace, FeedImu, ImuFed, FeedStereo, JudgeState, StateFails, NoState, Poll, Finish,
      Interrupt
<1>3. asked' \in BOOLEAN /\ initialized' \in BOOLEAN
  BY <1>1
  DEF ControlOK, Next, Main, vars, LoadImu, ReadRow, Loaded, LoadingFails, RowFails,
      LeaveLoop, Pace, FeedImu, ImuFed, FeedStereo, JudgeState, StateFails, NoState, Poll, Finish,
      Interrupt
<1>4. pc' \in Places
  BY <1>1
  DEF ControlOK, Next, Main, vars, LoadImu, ReadRow, Loaded, LoadingFails, RowFails,
      LeaveLoop, Pace, FeedImu, ImuFed, FeedStereo, JudgeState, StateFails, NoState, Poll, Finish,
      Interrupt, Places, Ended
<1>. QED BY <1>1, <1>2, <1>3, <1>4 DEF ControlOK

LEMMA RowsStep == TypeOK /\ [Next]_vars => RowsOK'
<1>. SUFFICES ASSUME TypeOK, [Next]_vars PROVE RowsOK'
  OBVIOUS
<1>0. RowsOK
  BY TypeParts
<1>1. ASSUME NEW t \in Time, LoadImu(t) PROVE RowsOK'
  BY <1>0, <1>1 DEF LoadImu, position, RowsOK
<1>2. ASSUME NEW t \in Time, ReadRow(t) PROVE RowsOK'
  BY <1>0, <1>2 DEF ReadRow, RowsOK
<1>3. CASE FeedImu
  BY <1>0, <1>3 DEF FeedImu, UpTo, Beyond, RowsOK
<1>4. CASE UNCHANGED <<imu, imuIndex, previousCamera, frame>>
  BY <1>0, <1>4 DEF RowsOK
<1>. QED
  BY <1>1, <1>2, <1>3, <1>4
  DEF Next, Main, vars, position, Loaded, LoadingFails, RowFails, LeaveLoop, Pace, ImuFed,
      FeedStereo, JudgeState, StateFails, NoState, Poll, Finish, Interrupt

LEMMA HistoryStep == TypeOK /\ Cursor /\ [Next]_vars => HistoryOK'
<1>. SUFFICES ASSUME TypeOK, Cursor, [Next]_vars PROVE HistoryOK'
  OBVIOUS
<1>0. HistoryOK /\ RowsOK
  BY TypeParts
<1>1. ASSUME NEW t \in Time, ReadRow(t) PROVE HistoryOK'
  <2>1. frames' = Append(frames, t) /\ delivered' = delivered
    BY <1>1 DEF ReadRow
  <2>2. skipped' = skipped \/ skipped' = Append(skipped, t)
    BY <1>1 DEF ReadRow
  <2>0. t \in Time /\ frames \in Seq(Time) /\ skipped \in Seq(Time)
    BY <1>0, <1>1 DEF HistoryOK
  <2>3. frames' \in Seq(Time) /\ skipped' \in Seq(Time)
    BY <2>0, <2>1, <2>2
  <2>. QED BY <1>0, <2>1, <2>3 DEF HistoryOK
<1>2. ASSUME NEW kind \in {"imu", "stereo"}, NEW t \in Time,
             delivered' = Append(delivered, [kind |-> kind, time |-> t]),
             UNCHANGED <<frames, skipped>>
      PROVE  HistoryOK'
  BY <1>0, <1>2 DEF HistoryOK
<1>3. CASE FeedImu
  <2>1. imu[imuIndex + 1] \in Time
    BY <1>0, <1>3 DEF FeedImu, UpTo, Beyond, RowsOK
  <2>. QED BY <1>2, <1>3, <2>1 DEF FeedImu, ImuEvent
<1>4. CASE FeedStereo
  BY <1>2, <1>4 DEF FeedStereo, StereoEvent, Cursor, InHand
<1>5. CASE UNCHANGED history
  BY <1>0, <1>5 DEF history, HistoryOK
<1>. QED
  BY <1>1, <1>3, <1>4, <1>5
  DEF Next, Main, vars, LoadImu, Loaded, LoadingFails, RowFails, LeaveLoop, Pace, ImuFed,
      JudgeState, StateFails, NoState, Poll, Finish, Interrupt

\* Only a state that is judged touches the gate.
LEMMA GateSteps ==
  ASSUME Cursor, [Next]_vars
  PROVE  \/ \E t \in Time, supported \in BOOLEAN : Update(t, supported)
         \/ UNCHANGED gate
<1>1. CASE JudgeState
  BY <1>1 DEF JudgeState, Cursor, InHand
<1>. QED
  BY <1>1
  DEF Next, Main, vars, LoadImu, ReadRow, FeedImu, FeedStereo, Loaded, LoadingFails, RowFails,
      LeaveLoop, Pace, ImuFed, StateFails, NoState, Poll, Finish, Interrupt

LEMMA TypeStep == TypeOK /\ Cursor /\ [Next]_vars => TypeOK'
<1>. SUFFICES ASSUME TypeOK, Cursor, [Next]_vars PROVE TypeOK'
  OBVIOUS
<1>1. GateTypeOK'
  BY GateSteps, UpdateType, GateTypeKept, TimeAssumption DEF TypeOK
<1>2. (ControlOK /\ RowsOK /\ HistoryOK /\ GateTypeOK)'
  BY <1>1, ControlStep, RowsStep, HistoryStep
<1>. QED BY <1>2, TypeParts, PTL

----------------------------------------------------------------------------
(* The gate: what one more sample changes                                  *)

Sample == [time : Nat, supported : BOOLEAN]

LEMMA SampleTimes ==
  ASSUME NEW samples \in Seq(Sample)
  PROVE  /\ Len(samples) \in Nat
         /\ \A i \in 1..Len(samples) :
              /\ samples[i] \in Sample
              /\ samples[i].time \in Nat /\ samples[i].supported \in BOOLEAN
<1>1. \A i \in 1..Len(samples) : samples[i] \in Sample
  BY ElementOfSeq
<1>. QED BY <1>1 DEF Sample

\* A segment is the whole of the newest stretch without a gap, so there is one.
LEMMA OneSegment ==
  ASSUME NEW samples \in Seq(Sample),
         NEW s \in 1..Len(samples), NEW r \in 1..Len(samples),
         Segment(samples, s), Segment(samples, r)
  PROVE  s = r
<1>1. ASSUME NEW a \in 1..Len(samples), NEW b \in 1..Len(samples),
             Segment(samples, a), Segment(samples, b), a < b
      PROVE  FALSE
  <2>1. samples[b].time - samples[b - 1].time > MaxSampleGap
    BY <1>1, SampleTimes DEF Segment
  <2>2. samples[b].time - samples[b - 1].time <= MaxSampleGap
    BY <1>1, SampleTimes DEF Segment
  <2>3. samples[b].time \in Nat /\ samples[b - 1].time \in Nat
    BY <1>1, SampleTimes
  <2>4. MaxSampleGap \in Nat
    BY GateAssumption
  <2>. QED BY <2>1, <2>2, <2>3, <2>4
<1>2. s \in Nat /\ r \in Nat
  BY SampleTimes
<1>. QED BY <1>1, <1>2

\* One more sample leaves the samples before it alone.
LEMMA OneMore ==
  ASSUME NEW samples \in Seq(Sample), NEW e \in Sample, NEW more, more = Append(samples, e)
  PROVE  /\ more \in Seq(Sample) /\ more # <<>>
         /\ Len(samples) \in Nat /\ Len(more) = Len(samples) + 1
         /\ more[Len(samples) + 1] = e
         /\ \A i \in 1..Len(samples) : more[i] = samples[i] /\ samples[i].time \in Nat
         /\ e.time \in Nat /\ e.supported \in BOOLEAN
<1>1. e.time \in Nat /\ e.supported \in BOOLEAN
  BY DEF Sample
<1>. QED BY <1>1, SampleTimes

\* The samples conclude what their duration says: nothing else was seen since the
\* last sample of the other kind.
LEMMA NewestVerdict ==
  ASSUME NEW samples \in Seq(Sample), Ordered(samples), NEW s \in 1..Len(samples),
         NEW duration \in Nat, NEW supported \in BOOLEAN, NEW limit \in Nat \ {0},
         Measured(samples, supported, s, duration)
  PROVE  duration >= limit
           <=> \E i \in s..(Len(samples) - 1) : Lasted(samples, supported, limit, i, Len(samples))
<1>. DEFINE n == Len(samples)
<1>0. /\ n \in Nat /\ n >= 1
      /\ \A i \in 1..n : samples[i].time \in Nat
  BY SampleTimes
<1>1. PICK g \in s..n :
        /\ duration = samples[n].time - samples[g].time
        /\ \A k \in (g + 1)..n : samples[k].supported = supported
        /\ g > s => samples[g].supported # supported
  BY DEF Measured
<1>2. ASSUME duration >= limit
      PROVE  \E i \in s..(n - 1) : Lasted(samples, supported, limit, i, n)
  <2>1. g # n
    BY <1>0, <1>1, <1>2
  <2>2. g \in s..(n - 1)
    BY <1>0, <1>1, <2>1
  <2>3. Lasted(samples, supported, limit, g, n)
    BY <1>1, <1>2 DEF Lasted
  <2>. QED BY <2>2, <2>3
<1>3. ASSUME NEW i \in s..(n - 1), Lasted(samples, supported, limit, i, n)
      PROVE  duration >= limit
  <2>1. ~(i < g)
    <3>. SUFFICES ASSUME i < g PROVE FALSE
      OBVIOUS
    <3>1. g \in (i + 1)..n /\ g > s
      BY <1>0
    <3>. QED BY <1>1, <1>3, <3>1 DEF Lasted
  <2>2. i = g \/ (i > g /\ samples[g].time < samples[i].time)
    BY <1>0, <1>1, <1>3, <2>1 DEF Ordered
  <2>3. samples[g].time <= samples[i].time /\ samples[n].time - samples[i].time >= limit
    BY <1>0, <1>1, <1>3, <2>2 DEF Lasted
  <2>4. samples[i].time \in Nat /\ samples[g].time \in Nat /\ samples[n].time \in Nat
    BY <1>0, <1>3
  <2>. QED BY <1>1, <2>3, <2>4
<1>. QED BY <1>2, <1>3

\* A further sample without a gap belongs to the segment, and each duration grows
\* by the time since the sample before, or begins again.
LEMMA SegmentExtended ==
  ASSUME NEW samples \in Seq(Sample), NEW e \in Sample, NEW more, more = Append(samples, e),
         NEW s \in 1..Len(samples), Segment(samples, s),
         e.time - samples[Len(samples)].time <= MaxSampleGap
  PROVE  Segment(more, s)
<1>. DEFINE n == Len(samples)
<1>1. /\ n \in Nat /\ s \in 1..n /\ Len(more) = n + 1 /\ more[n + 1] = e
      /\ \A i \in 1..n : more[i] = samples[i]
  BY OneMore
<1>2. e.time - samples[n].time <= MaxSampleGap
  OBVIOUS
<1>3. /\ s > 1 => samples[s].time - samples[s - 1].time > MaxSampleGap
      /\ \A k \in (s + 1)..n : samples[k].time - samples[k - 1].time <= MaxSampleGap
  BY DEF Segment
<1>. HIDE DEF n
<1>4. s > 1 => more[s].time - more[s - 1].time > MaxSampleGap
  BY <1>1, <1>3
<1>5. ASSUME NEW k \in (s + 1)..(n + 1)
      PROVE  more[k].time - more[k - 1].time <= MaxSampleGap
  <2>1. CASE k = n + 1
    BY <1>1, <1>2, <2>1
  <2>2. CASE k # n + 1
    BY <1>1, <1>3, <1>5, <2>2
  <2>. QED BY <2>1, <2>2
<1>. QED BY <1>1, <1>4, <1>5 DEF Segment

LEMMA MeasuredExtended ==
  ASSUME NEW samples \in Seq(Sample), NEW e \in Sample, NEW more, more = Append(samples, e),
         NEW s \in 1..Len(samples), NEW duration \in Nat, NEW supported \in BOOLEAN,
         Measured(samples, supported, s, duration)
  PROVE  Measured(more, supported, s,
           IF e.supported = supported
           THEN duration + (e.time - samples[Len(samples)].time) ELSE 0)
<1>. DEFINE n == Len(samples)
            longer == IF e.supported = supported THEN duration + (e.time - samples[n].time) ELSE 0
<1>1. /\ n \in Nat /\ Len(more) = n + 1 /\ more[n + 1] = e /\ s \in 1..n
      /\ \A i \in 1..n : more[i] = samples[i] /\ samples[i].time \in Nat
      /\ e.time \in Nat
  BY OneMore
<1>2. PICK g \in s..n :
        /\ duration = samples[n].time - samples[g].time
        /\ \A k \in (g + 1)..n : samples[k].supported = supported
        /\ g > s => samples[g].supported # supported
  BY DEF Measured
<1>3. CASE e.supported = supported
  <2>1. longer = duration + (e.time - samples[n].time)
    BY <1>3
  <2>. HIDE DEF n, longer
  <2>2. /\ more[g].time = samples[g].time /\ more[n + 1].time = e.time
        /\ samples[g].time \in Nat /\ samples[n].time \in Nat
    BY <1>1, <1>2
  <2>3. longer = more[n + 1].time - more[g].time
    BY <1>1, <1>2, <2>1, <2>2
  <2>4. ASSUME NEW k \in (g + 1)..(n + 1) PROVE more[k].supported = supported
    <3>1. CASE k = n + 1
      BY <1>1, <1>3, <3>1
    <3>2. CASE k # n + 1
      BY <1>1, <1>2, <2>4, <3>2
    <3>. QED BY <3>1, <3>2
  <2>5. g \in s..(n + 1) /\ (g > s => more[g].supported # supported)
    BY <1>1, <1>2
  <2>6. Measured(more, supported, s, longer)
    BY <1>1, <2>3, <2>4, <2>5 DEF Measured
  <2>. QED BY <2>6 DEF n, longer
<1>4. CASE e.supported # supported
  <2>1. longer = 0
    BY <1>4
  <2>. HIDE DEF n, longer
  <2>2. longer = more[n + 1].time - more[n + 1].time
    BY <1>1, <2>1
  <2>3. n + 1 \in s..(n + 1) /\ more[n + 1].supported # supported
    BY <1>1, <1>4
  <2>4. (n + 1 + 1)..(n + 1) = {}
    BY <1>1
  <2>5. Measured(more, supported, s, longer)
    BY <1>1, <2>2, <2>3, <2>4 DEF Measured
  <2>. QED BY <2>5 DEF n, longer
<1>. QED BY <1>3, <1>4

\* What was concluded from older samples stays concluded.
LEMMA OlderVerdicts ==
  ASSUME NEW samples \in Seq(Sample), NEW e \in Sample, NEW more, more = Append(samples, e),
         NEW s \in 1..Len(samples), NEW j \in 1..Len(samples)
  PROVE  /\ Recovered(more, s, j) <=> Recovered(samples, s, j)
         /\ Degraded(more, s, j) <=> Degraded(samples, s, j)
<1>1. \A i \in 1..Len(samples) : more[i] = samples[i]
  OBVIOUS
<1>2. ASSUME NEW i \in s..(j - 1)
      PROVE  /\ Lasted(more, TRUE, RecoverAfter, i, j) <=> Lasted(samples, TRUE, RecoverAfter, i, j)
             /\ Lasted(more, FALSE, DegradeAfter, i, j) <=> Lasted(samples, FALSE, DegradeAfter, i, j)
  BY <1>1, <1>2 DEF Lasted
<1>. QED BY <1>2 DEF Recovered, Degraded

\* The verdict: the newest conclusive sample counts, and without one the time.
LEMMA DeservesExtended ==
  ASSUME NEW samples \in Seq(Sample), NEW e \in Sample, NEW more, more = Append(samples, e),
         NEW s \in 1..Len(samples), Ordered(more),
         NEW verdict \in {"warming_up", "healthy", "degraded"}, Deserves(samples, s, verdict),
         NEW better \in Nat, Measured(more, TRUE, s, better),
         NEW worse \in Nat, Measured(more, FALSE, s, worse)
  PROVE  Deserves(more, s,
           TimedOut(IF e.supported
                    THEN IF better >= RecoverAfter THEN "healthy" ELSE verdict
                    ELSE IF worse >= DegradeAfter THEN "degraded" ELSE verdict,
                    e.time - samples[s].time))
<1>. DEFINE n == Len(samples)
            judged == IF e.supported
                      THEN IF better >= RecoverAfter THEN "healthy" ELSE verdict
                      ELSE IF worse >= DegradeAfter THEN "degraded" ELSE verdict
            evaluated == e.time - samples[s].time
            new == TimedOut(judged, evaluated)
<1>1. /\ n \in Nat /\ n >= 1 /\ Len(more) = n + 1 /\ more[n + 1] = e /\ s \in 1..n
      /\ \A i \in 1..n : more[i] = samples[i] /\ samples[i].time \in Nat
      /\ e.time \in Nat /\ e.supported \in BOOLEAN /\ more \in Seq(Sample)
      /\ samples[s].time \in Nat
  BY OneMore
<1>3. \A j \in 1..n : /\ Recovered(more, s, j) <=> Recovered(samples, s, j)
                      /\ Degraded(more, s, j) <=> Degraded(samples, s, j)
  BY OlderVerdicts
<1>4. /\ RecoverAfter \in Nat \ {0} /\ DegradeAfter \in Nat \ {0} /\ WarmupTimeout \in Nat \ {0}
  BY GateAssumption
<1>. HIDE DEF n
<1>5. /\ Recovered(more, s, n + 1) <=> better >= RecoverAfter
      /\ Degraded(more, s, n + 1) <=> worse >= DegradeAfter
  <2>1. s \in 1..Len(more)
    BY <1>1
  <2>2. /\ better >= RecoverAfter <=> Recovered(more, s, Len(more))
        /\ worse >= DegradeAfter <=> Degraded(more, s, Len(more))
    BY <1>1, <1>4, <2>1, NewestVerdict DEF Recovered, Degraded
  <2>. QED BY <1>1, <2>2
\* The newest sample can only conclude what it shows itself.
<1>6. /\ Recovered(more, s, n + 1) => e.supported
      /\ Degraded(more, s, n + 1) => ~e.supported
  <2>1. \A i \in s..(n + 1 - 1) : n + 1 \in (i + 1)..(n + 1)
    BY <1>1
  <2>. QED BY <1>1, <2>1 DEF Recovered, Degraded, Lasted
<1>7. evaluated = more[n + 1].time - more[s].time /\ evaluated \in Int
  BY <1>1
<1>8. CASE Recovered(more, s, n + 1)
  <2>1. new = "healthy"
    BY <1>5, <1>6, <1>8 DEF TimedOut
  <2>2. n + 1 \in (s + 1)..(n + 1) /\ (n + 1 + 1)..(n + 1) = {}
    BY <1>1
  <2>3. Deserves(more, s, "healthy")
    BY <1>1, <1>8, <2>2 DEF Deserves
  <2>. QED BY <2>1, <2>3
<1>9. CASE Degraded(more, s, n + 1)
  <2>1. new = "degraded"
    BY <1>5, <1>6, <1>9 DEF TimedOut
  <2>2. n + 1 \in (s + 1)..(n + 1) /\ (n + 1 + 1)..(n + 1) = {}
    BY <1>1
  <2>3. Deserves(more, s, "degraded")
    BY <1>1, <1>9, <2>2 DEF Deserves
  <2>. QED BY <2>1, <2>3
<1>10. CASE ~Recovered(more, s, n + 1) /\ ~Degraded(more, s, n + 1)
  <2>1. judged = verdict
    BY <1>1, <1>5, <1>10
  <2>3. samples[n].time - samples[s].time <= evaluated
    <3>1. more[n].time < more[n + 1].time
      BY <1>1 DEF Ordered
    <3>. QED BY <1>1, <3>1
  <2>4. CASE verdict = "healthy"
    <3>1. new = "healthy"
      BY <2>1, <2>4 DEF TimedOut
    <3>2. PICK j \in (s + 1)..n :
            Recovered(samples, s, j) /\ \A k \in (j + 1)..n : ~Degraded(samples, s, k)
      BY <2>4 DEF Deserves, n
    <3>3. j \in (s + 1)..(n + 1) /\ Recovered(more, s, j)
      BY <1>1, <1>3, <3>2
    <3>4. ASSUME NEW k \in (j + 1)..(n + 1) PROVE ~Degraded(more, s, k)
      BY <1>1, <1>3, <1>10, <3>2, <3>4
    <3>5. Deserves(more, s, "healthy")
      BY <1>1, <3>3, <3>4 DEF Deserves
    <3>. QED BY <3>1, <3>5
  <2>5. CASE verdict = "degraded"
    <3>1. new = "degraded"
      BY <2>1, <2>5 DEF TimedOut
    <3>2. CASE \E j \in (s + 1)..n :
                 Degraded(samples, s, j) /\ \A k \in (j + 1)..n : ~Recovered(samples, s, k)
      <4>1. PICK j \in (s + 1)..n :
              Degraded(samples, s, j) /\ \A k \in (j + 1)..n : ~Recovered(samples, s, k)
        BY <3>2
      <4>2. j \in (s + 1)..(n + 1) /\ Degraded(more, s, j)
        BY <1>1, <1>3, <4>1
      <4>3. ASSUME NEW k \in (j + 1)..(n + 1) PROVE ~Recovered(more, s, k)
        <5>1. k = n + 1 \/ (k \in 1..n /\ k \in (j + 1)..n)
          BY <1>1, <4>1, <4>3
        <5>. QED BY <1>3, <1>10, <4>1, <5>1
      <4>4. Deserves(more, s, "degraded")
        BY <1>1, <4>2, <4>3 DEF Deserves
      <4>. QED BY <3>1, <4>4
    <3>3. CASE /\ samples[n].time - samples[s].time >= WarmupTimeout
               /\ \A j \in (s + 1)..n : ~Recovered(samples, s, j)
      <4>1. more[n + 1].time - more[s].time >= WarmupTimeout
        BY <1>1, <1>4, <1>7, <2>3, <3>3
      <4>2. ASSUME NEW j \in (s + 1)..(n + 1) PROVE ~Recovered(more, s, j)
        BY <1>1, <1>3, <1>10, <3>3, <4>2
      <4>3. Deserves(more, s, "degraded")
        BY <1>1, <4>1, <4>2 DEF Deserves
      <4>. QED BY <3>1, <4>3
    <3>. QED BY <2>5, <3>2, <3>3 DEF Deserves, n
  <2>6. CASE verdict = "warming_up"
    <3>1. \A j \in (s + 1)..n : ~Recovered(samples, s, j) /\ ~Degraded(samples, s, j)
      BY <2>6 DEF Deserves, n
    <3>2. ASSUME NEW j \in (s + 1)..(n + 1) PROVE ~Recovered(more, s, j) /\ ~Degraded(more, s, j)
      BY <1>1, <1>3, <1>10, <3>1, <3>2
    <3>3. CASE evaluated >= WarmupTimeout
      <4>1. new = "degraded"
        BY <2>1, <2>6, <3>3 DEF TimedOut
      <4>2. Deserves(more, s, "degraded")
        BY <1>1, <1>7, <3>2, <3>3 DEF Deserves
      <4>. QED BY <4>1, <4>2
    <3>4. CASE ~(evaluated >= WarmupTimeout)
      <4>1. new = "warming_up"
        BY <2>1, <2>6, <3>4 DEF TimedOut
      <4>2. Deserves(more, s, "warming_up")
        BY <1>1, <1>4, <1>7, <3>2, <3>4 DEF Deserves
      <4>. QED BY <4>1, <4>2
    <3>. QED BY <3>3, <3>4
  <2>. QED BY <2>4, <2>5, <2>6
<1>. QED BY <1>8, <1>9, <1>10

----------------------------------------------------------------------------
(* The gate: its invariant                                                 *)

\* The first sample of a segment concludes nothing.
LEMMA FirstOfSegment ==
  ASSUME NEW samples \in Seq(Sample), samples # <<>>,
         LET n == Len(samples)
         IN  n > 1 => samples[n].time - samples[n - 1].time > MaxSampleGap
  PROVE  LET n == Len(samples)
         IN  /\ n \in 1..n /\ Segment(samples, n)
             /\ samples[n].time - samples[n].time = 0
             /\ \A supported \in BOOLEAN : Measured(samples, supported, n, 0)
             /\ Deserves(samples, n, "warming_up")
<1>. DEFINE n == Len(samples)
<1>1. n \in Nat /\ n >= 1 /\ samples[n].time \in Nat /\ (n + 1)..n = {}
  BY SampleTimes, EmptySeq
<1>2. Segment(samples, n)
  BY <1>1 DEF Segment
<1>3. \A supported \in BOOLEAN : Measured(samples, supported, n, 0)
  BY <1>1 DEF Measured
<1>4. Deserves(samples, n, "warming_up")
  BY <1>1, GateAssumption DEF Deserves
<1>. QED BY <1>1, <1>2, <1>3, <1>4

LEMMA GateInitial == GateInit => GateInv
BY DEF GateInit, GateInv, Ordered

LEMMA GateStep ==
  ASSUME GateTypeOK, GateInv, NEW t \in Nat, NEW supported \in BOOLEAN, Update(t, supported)
  PROVE  GateInv'
<1>. DEFINE e == [time |-> t, supported |-> supported]
<1>1. /\ evidence \in Seq(Sample) /\ e \in Sample /\ evidence' = Append(evidence, e)
      /\ enabled' = enabled /\ enabled \in BOOLEAN
      /\ good \in Nat /\ bad \in Nat /\ evaluation \in Nat
  BY DEF GateTypeOK, Update, Sample
<1>2. /\ evidence' \in Seq(Sample) /\ evidence' # <<>>
      /\ Len(evidence) \in Nat /\ Len(evidence') = Len(evidence) + 1
      /\ evidence'[Len(evidence) + 1] = e /\ e.time = t /\ e.supported = supported
      /\ \A i \in 1..Len(evidence) : evidence'[i] = evidence[i] /\ evidence[i].time \in Nat
  BY <1>1, OneMore
<1>. HIDE DEF e
<1>3. CASE ~enabled
  BY <1>1, <1>3 DEF GateInv, Update, Started, Note, StartAgain, Judge
<1>4. CASE enabled /\ evidence = <<>>
  <2>1. UNCHANGED <<status, good, bad, evaluation>>
    BY <1>4 DEF GateTypeOK, Update, Started, Note, StartAgain, Judge, durations
  <2>2. status = "warming_up" /\ good = 0 /\ bad = 0 /\ evaluation = 0
    BY <1>4 DEF GateInv
  <2>3. Len(evidence') = 1
    BY <1>2, <1>4
  <2>4. Judging(1)'
    <3>1. /\ Segment(evidence', 1)
          /\ evidence'[1].time - evidence'[1].time = 0
          /\ \A kind \in BOOLEAN : Measured(evidence', kind, 1, 0)
          /\ Deserves(evidence', 1, "warming_up")
      BY <1>2, <2>3, FirstOfSegment
    <3>. QED BY <2>1, <2>2, <2>3, <3>1 DEF Judging
  <2>5. Ordered(evidence')
    BY <2>3 DEF Ordered
  <2>6. 1 \in 1..Len(evidence') /\ status' = "warming_up"
    BY <2>1, <2>2, <2>3
  <2>. QED BY <1>1, <1>2, <1>4, <2>4, <2>5, <2>6 DEF GateInv
<1>5. CASE enabled /\ evidence # <<>>
  <2>. DEFINE n == Len(evidence)
  <2>1. n \in Nat /\ n >= 1 /\ previous = evidence[n].time /\ evidence[n].time \in Nat
    BY <1>1, <1>2, <1>5, EmptySeq DEF GateTypeOK
  <2>2. Started /\ t > previous
    BY <1>5, <2>1 DEF Started, NoTime, Update
  <2>3. Ordered(evidence')
    <3>1. Ordered(evidence)
      BY <1>5 DEF GateInv
    <3>2. \A i \in 1..n : evidence[i].time <= evidence[n].time
      BY <1>2, <2>1, <3>1 DEF Ordered
    <3>. QED BY <1>2, <2>1, <2>2, <3>1, <3>2 DEF Ordered
  <2>4. CASE Gap(t)
    <3>1. status' = "warming_up" /\ good' = 0 /\ bad' = 0 /\ evaluation' = 0
      BY <2>2, <2>4 DEF Update, Note, StartAgain, Judge
    <3>2. evidence'[n + 1].time - evidence'[n].time > MaxSampleGap
      BY <1>2, <2>1, <2>4 DEF Gap
    <3>3. /\ n + 1 \in 1..Len(evidence') /\ Segment(evidence', n + 1)
          /\ evidence'[n + 1].time - evidence'[n + 1].time = 0
          /\ \A kind \in BOOLEAN : Measured(evidence', kind, n + 1, 0)
          /\ Deserves(evidence', n + 1, "warming_up")
      BY <1>2, <2>1, <3>2, FirstOfSegment
    <3>4. PICK s : s = n + 1
      OBVIOUS
    <3>5. s \in 1..Len(evidence') /\ Judging(s)'
      BY <1>2, <3>1, <3>3, <3>4 DEF Judging
    <3>. QED BY <1>1, <1>2, <1>5, <2>3, <3>1, <3>5 DEF GateInv
  <2>5. CASE ~Gap(t)
    <3>1. PICK s \in 1..n : Judging(s)
      BY <1>5 DEF GateInv
    <3>2. /\ Segment(evidence, s) /\ evaluation = evidence[n].time - evidence[s].time
          /\ Measured(evidence, TRUE, s, good) /\ Measured(evidence, FALSE, s, bad)
          /\ Deserves(evidence, s, status)
      BY <3>1 DEF Judging
    <3>. DEFINE elapsed == t - previous
    <3>3. elapsed \in Nat /\ evidence[s].time \in Nat
      BY <1>2, <2>1, <2>2
    <3>4. Segment(evidence', s)
      <4>1. e.time - evidence[n].time <= MaxSampleGap
        BY <1>2, <2>1, <2>5, GateAssumption DEF Gap
      <4>. QED BY <1>1, <3>2, <4>1, SegmentExtended
    <3>5. /\ evaluation' = evaluation + elapsed
          /\ IF supported THEN Support(elapsed) ELSE Weakness(elapsed)
      BY <2>2, <2>5 DEF Update, Note, StartAgain, Judge
    <3>6. /\ good' = IF supported = TRUE THEN good + elapsed ELSE 0
          /\ bad' = IF supported = FALSE THEN bad + elapsed ELSE 0
          /\ good' \in Nat /\ bad' \in Nat
      BY <1>1, <3>3, <3>5 DEF Support, Weakness
    <3>7. Measured(evidence', TRUE, s, good') /\ Measured(evidence', FALSE, s, bad')
      <4>1. elapsed = e.time - evidence[n].time
        BY <1>2, <2>1
      <4>2. Measured(evidence', TRUE, s, IF e.supported = TRUE THEN good + (e.time - evidence[n].time) ELSE 0)
        BY <1>1, <3>2, MeasuredExtended
      <4>3. Measured(evidence', FALSE, s, IF e.supported = FALSE THEN bad + (e.time - evidence[n].time) ELSE 0)
        BY <1>1, <3>2, MeasuredExtended
      <4>. QED BY <1>2, <3>6, <4>1, <4>2, <4>3
    <3>8. evaluation' = evidence'[n + 1].time - evidence'[s].time
      BY <1>2, <2>1, <3>2, <3>3, <3>5
    <3>9. evaluation' = e.time - evidence[s].time
      BY <1>2, <3>8
    <3>10. status' = TimedOut(IF e.supported
                              THEN IF good' >= RecoverAfter THEN "healthy" ELSE status
                              ELSE IF bad' >= DegradeAfter THEN "degraded" ELSE status,
                              e.time - evidence[s].time)
      BY <1>2, <3>5, <3>9 DEF Support, Weakness
    <3>11. /\ status \in {"warming_up", "healthy", "degraded"}
           /\ status' \in {"warming_up", "healthy", "degraded"}
      BY <1>5, <3>10 DEF GateTypeOK, GateInv, Statuses, TimedOut
    <3>12. Deserves(evidence', s, status')
      <4>1. Deserves(evidence', s, TimedOut(IF e.supported
                              THEN IF good' >= RecoverAfter THEN "healthy" ELSE status
                              ELSE IF bad' >= DegradeAfter THEN "degraded" ELSE status,
                              e.time - evidence[s].time))
        BY <1>1, <2>3, <3>2, <3>6, <3>7, <3>11, DeservesExtended
      <4>. QED BY <3>10, <4>1
    <3>13. s \in 1..Len(evidence') /\ Judging(s)'
      <4>1. evaluation' = evidence'[Len(evidence')].time - evidence'[s].time
        BY <1>2, <3>8
      <4>2. s \in 1..Len(evidence')
        BY <1>2, <2>1
      <4>. QED BY <3>4, <3>7, <3>12, <4>1, <4>2 DEF Judging
    <3>. QED BY <1>1, <1>2, <1>5, <2>3, <3>11, <3>13 DEF GateInv
  <2>. QED BY <2>4, <2>5
<1>. QED BY <1>1, <1>3, <1>4, <1>5

LEMMA GateKept == GateInv /\ UNCHANGED gate => GateInv'
<1>. SUFFICES ASSUME GateInv, UNCHANGED gate PROVE GateInv'
  OBVIOUS
<1>1. UNCHANGED <<enabled, status, good, bad, evaluation, evidence>>
  BY DEF gate, durations
<1>. QED BY <1>1 DEF GateInv, Judging

LEMMA GateInvImplies == GateTypeOK /\ GateInv => StatusIsDeserved
<1>. SUFFICES ASSUME GateTypeOK, GateInv PROVE StatusIsDeserved
  OBVIOUS
<1>1. ASSUME enabled, evidence # <<>>, NEW r \in 1..Len(evidence), Segment(evidence, r)
      PROVE  Deserves(evidence, r, status)
  <2>1. PICK s \in 1..Len(evidence) : Judging(s)
    BY <1>1 DEF GateInv
  <2>2. s = r
    BY <1>1, <2>1, OneSegment DEF Judging, GateTypeOK, Sample
  <2>. QED BY <2>1, <2>2 DEF Judging
<1>2. enabled /\ evidence = <<>> => status = "warming_up"
  BY DEF GateInv
<1>. QED BY <1>1, <1>2 DEF GateInv, StatusIsDeserved

----------------------------------------------------------------------------
(* The loop: where the index stands                                        *)

LEMMA RowsInit == Init => Rows /\ Cursor /\ FedSoFar /\ FedAsLive /\ Accounts
<1>. SUFFICES ASSUME Init PROVE Rows /\ Cursor /\ FedSoFar /\ FedAsLive /\ Accounts
  OBVIOUS
<1>. USE DEF Init
<1>1. Rows
  BY DEF Rows
<1>2. Cursor
  BY DEF Cursor, InHand, NoTime
<1>3. FedSoFar
  BY DEF FedSoFar, Fed
<1>4. FedAsLive
  BY DEF FedAsLive
<1>5. Accounts
  BY DEF Accounts, Settled
<1>. QED BY <1>1, <1>2, <1>3, <1>4, <1>5

\* Times, as numbers.
LEMMA RowTimes ==
  ASSUME RowsOK
  PROVE  /\ Len(imu) \in Nat /\ imuIndex \in Nat /\ imuIndex <= Len(imu)
         /\ \A i \in 1..Len(imu) : imu[i] \in Time /\ imu[i] \in Nat
         /\ previousCamera \in Int /\ frame \in Int
         /\ Time \subseteq Nat
<1>1. imu \in Seq(Time)
  BY DEF RowsOK
<1>2. \A i \in 1..Len(imu) : imu[i] \in Time
  BY <1>1, ElementOfSeq
<1>3. Len(imu) \in Nat /\ imuIndex \in Nat /\ imuIndex <= Len(imu)
  BY <1>1 DEF RowsOK
<1>4. previousCamera \in Int /\ frame \in Int
  BY TimeAssumption DEF RowsOK, NoTime
<1>. QED BY <1>2, <1>3, <1>4, TimeAssumption

LEMMA RowsKept == TypeOK /\ Rows /\ [Next]_vars => Rows'
<1>. SUFFICES ASSUME TypeOK, Rows, [Next]_vars PROVE Rows'
  OBVIOUS
<1>1. ASSUME NEW t \in Time, LoadImu(t) PROVE Rows'
  <2>1. /\ imu \in Seq(Time) /\ imu' = Append(imu, t) /\ t \in Nat
        /\ imu # <<>> => t > imu[Len(imu)]
    BY <1>1, TimeAssumption DEF LoadImu, TypeOK
  <2>2. Len(imu) \in Nat /\ \A i \in 1..Len(imu) : imu[i] \in Nat
    BY <2>1, RowTimes, TypeParts
  <2>3. \A i \in 1..Len(imu) : imu[i] < t
    BY <2>1, <2>2, EmptySeq DEF Rows
  <2>4. \A i, j \in 1..Len(imu') : i < j => imu'[i] < imu'[j]
    BY <2>1, <2>2, <2>3 DEF Rows
  <2>5. imu' # <<>>
    BY <2>1
  <2>. QED BY <1>1, <2>4, <2>5 DEF Rows, LoadImu, position, history
<1>2. CASE UNCHANGED imu /\ pc' # "loading" /\ (pc' # "refused" => imu # <<>>)
  BY <1>2 DEF Rows
<1>3. CASE UNCHANGED <<imu, imuIndex, frame, cameraCount, frames, skipped, delivered, pc>>
  BY <1>3 DEF Rows
<1>. QED
  BY <1>1, <1>2, <1>3
  DEF Rows, Next, Main, vars, position, history, ReadRow, Loaded, LoadingFails, RowFails, LeaveLoop,
      Pace, FeedImu, ImuFed, FeedStereo, JudgeState, StateFails, NoState, Poll, Finish, Interrupt,
      Ended

LEMMA CursorKept == TypeOK /\ Rows /\ Cursor /\ [Next]_vars => Cursor'
<1>. SUFFICES ASSUME TypeOK, Rows, Cursor, [Next]_vars PROVE Cursor'
  OBVIOUS
<1>0. RowsOK /\ ControlOK
  BY TypeParts
<1>1. ASSUME NEW t \in Time, LoadImu(t) PROVE Cursor'
  BY <1>1 DEF LoadImu, Rows, Cursor, InHand, position
<1>2. ASSUME NEW t \in Time, ReadRow(t) PROVE Cursor'
  <2>1. /\ t > previousCamera /\ previousCamera' = t /\ UNCHANGED <<imu, imuIndex, cameraCount>>
        /\ t \in Time /\ t \in Nat /\ imu # <<>> /\ imu[1] \in Nat
    BY <1>0, <1>2, RowTimes, EmptySeq DEF ReadRow, InOrder, Rows, RowsOK
  <2>2. CASE Leading(t)
    BY <1>0, <1>2, <2>1, <2>2, RowTimes DEF ReadRow, Cursor, InHand, Leading
  <2>3. CASE ~Leading(t)
    <3>1. pc' = "pace" /\ frame' = t
      BY <1>2, <2>3 DEF ReadRow
    <3>2. imu[1] <= t
      BY <1>0, <2>1, <2>3, RowTimes DEF Leading, Cursor, ControlOK
    <3>. QED BY <1>0, <2>1, <3>1, <3>2, RowTimes DEF Cursor, InHand
  <2>. QED BY <2>2, <2>3
<1>3. CASE FeedImu
  <2>1. /\ frame = previousCamera /\ frame \in Nat /\ imu[1] <= frame
        /\ imuIndex' = imuIndex + 1 /\ UNCHANGED <<imu, frame, previousCamera, cameraCount>>
        /\ pc' \in {"imu", "stereo", "failed"}
        /\ pc' = "stereo" => Beyond
    BY <1>0, <1>3, RowTimes DEF FeedImu, Cursor, InHand
  <2>2. imuIndex > 0 => imu[imuIndex] < previousCamera
    <3>1. CASE Beyond
      BY <2>1, <3>1 DEF Beyond
    <3>2. CASE UpTo
      <4>. SUFFICES ASSUME imuIndex > 0 PROVE imu[imuIndex] < previousCamera
        OBVIOUS
      <4>1. imuIndex \in 1..Len(imu) /\ imuIndex + 1 \in 1..Len(imu) /\ imu[imuIndex + 1] <= frame
        BY <1>0, <3>2, RowTimes DEF UpTo
      <4>2. imu[imuIndex] < imu[imuIndex + 1]
        BY <4>1 DEF Rows
      <4>. QED BY <1>0, <2>1, <4>1, <4>2, RowTimes
    <3>. QED BY <1>3, <3>1, <3>2 DEF FeedImu
  <2>3. Beyond => frame <= imu[imuIndex + 1]
    BY <1>0, <2>1, RowTimes DEF Beyond, UpTo
  <2>4. /\ imuIndex \in Nat /\ imuIndex' - 1 = imuIndex /\ imuIndex' > 0
        /\ imuIndex' > 1 => imuIndex > 0
    BY <1>0, <2>1, RowTimes
  <2>5. frame' = previousCamera' /\ frame' \in Time
    BY <1>3, <2>1 DEF FeedImu, Cursor, InHand
  <2>. QED BY <2>1, <2>2, <2>3, <2>4, <2>5 DEF Cursor, InHand
<1>4. CASE ImuFed
  <2>1. /\ pc' \in {"stereo", "failed"}
        /\ pc' = "stereo" => imuIndex # 0 /\ ~(imu[imuIndex] < frame)
        /\ UNCHANGED <<imu, imuIndex, frame, previousCamera, cameraCount>>
    BY <1>4 DEF ImuFed, position
  <2>. QED BY <1>0, <1>4, <2>1, RowTimes DEF ImuFed, Cursor, InHand
<1>5. CASE FeedStereo
  <2>1. /\ imuIndex > 0 /\ pc' \in {"state", "failed"}
        /\ UNCHANGED <<imu, imuIndex, frame, previousCamera>>
    BY <1>5 DEF FeedStereo, Cursor
  <2>. QED BY <1>5, <2>1 DEF FeedStereo, Cursor, InHand
<1>6. CASE /\ UNCHANGED <<imu, position>> /\ pc' # "stereo"
           /\ pc' \in InHand => pc \in InHand
  BY <1>6 DEF Cursor, position
<1>7. CASE UNCHANGED <<imu, position, pc>>
  BY <1>7 DEF Cursor, position
<1>. QED
  BY <1>1, <1>2, <1>3, <1>4, <1>5, <1>6, <1>7
  DEF Next, Main, vars, Loaded, LoadingFails, RowFails, LeaveLoop, Pace, JudgeState, StateFails,
      NoState, Poll, Finish, Interrupt, InHand

----------------------------------------------------------------------------
(* The loop: what was fed                                                  *)

Kinds == {"imu", "stereo"}
Event == [kind : {"imu", "stereo"}, time : Time]

\* One more event leaves what came before, adds its time to what its kind brought, and
\* nothing to what the other kind brought.
LEMMA OneMoreEvent ==
  ASSUME NEW events \in Seq(Event), NEW e \in Event, NEW more, more = Append(events, e)
  PROVE  /\ Len(events) \in Nat /\ Len(more) = Len(events) + 1 /\ more[Len(events) + 1] = e
         /\ \A i \in 1..Len(events) : more[i] = events[i]
         /\ 1..Len(more) = 1..Len(events) \cup {Len(more)}
  OBVIOUS

LEMMA FedBefore ==
  ASSUME NEW events \in Seq(Event), NEW e \in Event, NEW more, more = Append(events, e),
         NEW kind \in Kinds, NEW n \in 0..Len(events)
  PROVE  Fed(more, kind, n) = Fed(events, kind, n)
<1>1. \A i \in 1..n : more[i] = events[i]
  BY OneMoreEvent
<1>. QED BY <1>1 DEF Fed

LEMMA FedOfKind ==
  ASSUME NEW events \in Seq(Event), NEW e \in Event, NEW more, more = Append(events, e)
  PROVE  Fed(more, e.kind, Len(more)) = Fed(events, e.kind, Len(events)) \cup {e.time}
<1>1. /\ more[Len(more)] = e /\ \A i \in 1..Len(events) : more[i] = events[i]
      /\ 1..Len(more) = 1..Len(events) \cup {Len(more)}
  BY OneMoreEvent
<1>. DEFINE l == Len(events)
            m == Len(more)
<1>2. more[m] = e /\ (\A i \in 1..l : more[i] = events[i]) /\ 1..m = 1..l \cup {m}
  BY <1>1
<1>. HIDE DEF l, m
<1>3. Fed(more, e.kind, m) = Fed(events, e.kind, l) \cup {e.time}
  BY <1>2, Zenon DEF Fed
<1>. QED BY <1>3 DEF l, m

LEMMA FedOfOther ==
  ASSUME NEW events \in Seq(Event), NEW e \in Event, NEW more, more = Append(events, e),
         NEW kind \in Kinds, kind # e.kind
  PROVE  Fed(more, kind, Len(more)) = Fed(events, kind, Len(events))
<1>1. /\ more[Len(more)] = e /\ \A i \in 1..Len(events) : more[i] = events[i]
      /\ 1..Len(more) = 1..Len(events) \cup {Len(more)}
  BY OneMoreEvent
<1>. QED BY <1>1, Zenon DEF Fed

LEMMA FedTimes ==
  ASSUME NEW events \in Seq(Event), NEW kind, NEW n \in 0..Len(events)
  PROVE  /\ Fed(events, kind, n) \subseteq Time
         /\ \A t \in Fed(events, kind, n) : t \in Int
<1>1. \A i \in 1..Len(events) : events[i] \in Event
  BY ElementOfSeq
<1>2. \A i \in 1..n : events[i].time \in Time
  BY <1>1 DEF Event
<1>3. Fed(events, kind, n) \subseteq Time
  BY <1>2 DEF Fed
<1>4. Time \subseteq Int
  BY TimeAssumption
<1>. QED BY <1>3, <1>4, Zenon

LEMMA FedKept == TypeOK /\ Rows /\ Cursor /\ FedSoFar /\ [Next]_vars => FedSoFar'
<1>. SUFFICES ASSUME TypeOK, Rows, Cursor, FedSoFar, [Next]_vars PROVE FedSoFar'
  OBVIOUS
<1>0. RowsOK /\ ControlOK /\ delivered \in Seq(Event)
  BY TypeParts DEF TypeOK, Event
<1>1. ASSUME NEW t \in Time, LoadImu(t) PROVE FedSoFar'
  <2>1. /\ imuIndex = 0 /\ UNCHANGED <<imuIndex, delivered, previousCamera, pc>>
        /\ {imu[i] : i \in 1..imuIndex} = {} /\ {imu'[i] : i \in 1..imuIndex'} = {}
    BY <1>1 DEF LoadImu, Rows, position, history
  <2>. QED BY <2>1 DEF FedSoFar
<1>2. ASSUME NEW t \in Time, ReadRow(t) PROVE FedSoFar'
  <2>1. /\ t > previousCamera /\ previousCamera' = t /\ UNCHANGED <<imu, imuIndex, delivered>>
        /\ t \in Nat
    BY <1>0, <1>2, RowTimes DEF ReadRow, InOrder
  <2>2. previousCamera \in Int /\ \A u \in Fed(delivered, "stereo", Len(delivered)) : u \in Int
    BY <1>0, RowTimes, FedTimes
  <2>3. \A u \in Fed(delivered, "stereo", Len(delivered)) : u < t /\ u <= t
    BY <2>1, <2>2 DEF FedSoFar
  <2>. QED BY <2>1, <2>3 DEF FedSoFar
<1>3. CASE FeedImu
  <2>. DEFINE e == ImuEvent(imu[imuIndex + 1])
  <2>1. /\ imuIndex \in Nat /\ imuIndex + 1 \in 1..Len(imu) /\ imuIndex' = imuIndex + 1
        /\ delivered' = Append(delivered, e) /\ UNCHANGED <<imu, previousCamera>>
        /\ e \in Event /\ e.kind = "imu" /\ e.time = imu[imuIndex + 1]
        /\ pc = "imu"
    BY <1>0, <1>3, RowTimes DEF FeedImu, UpTo, Beyond, ImuEvent, Event
  <2>. HIDE DEF e
  <2>2. /\ Fed(delivered', "imu", Len(delivered'))
             = Fed(delivered, "imu", Len(delivered)) \cup {imu[imuIndex + 1]}
        /\ Fed(delivered', "stereo", Len(delivered')) = Fed(delivered, "stereo", Len(delivered))
    <3>1. Fed(delivered', e.kind, Len(delivered')) = Fed(delivered, e.kind, Len(delivered)) \cup {e.time}
      BY <1>0, <2>1, FedOfKind
    <3>2. Fed(delivered', "stereo", Len(delivered')) = Fed(delivered, "stereo", Len(delivered))
      BY <1>0, <2>1, FedOfOther DEF Kinds
    <3>. QED BY <2>1, <3>1, <3>2
  <2>3. {imu[i] : i \in 1..(imuIndex + 1)} = {imu[i] : i \in 1..imuIndex} \cup {imu[imuIndex + 1]}
    <3>1. 1..(imuIndex + 1) = (1..imuIndex) \cup {imuIndex + 1}
      BY <2>1
    <3>. QED BY <3>1
  <2>. QED BY <2>1, <2>2, <2>3 DEF FedSoFar
<1>4. CASE FeedStereo
  <2>. DEFINE e == StereoEvent(frame)
  <2>1. /\ delivered' = Append(delivered, e) /\ UNCHANGED <<imu, imuIndex, previousCamera>>
        /\ e \in Event /\ e.kind = "stereo" /\ e.time = frame /\ frame = previousCamera
        /\ pc' \notin {"pace", "imu", "stereo"}
    BY <1>4 DEF FeedStereo, StereoEvent, Event, Cursor, InHand
  <2>. HIDE DEF e
  <2>2. /\ Fed(delivered', "stereo", Len(delivered'))
             = Fed(delivered, "stereo", Len(delivered)) \cup {frame}
        /\ Fed(delivered', "imu", Len(delivered')) = Fed(delivered, "imu", Len(delivered))
    <3>1. Fed(delivered', e.kind, Len(delivered')) = Fed(delivered, e.kind, Len(delivered)) \cup {e.time}
      BY <1>0, <2>1, FedOfKind
    <3>2. Fed(delivered', "imu", Len(delivered')) = Fed(delivered, "imu", Len(delivered))
      BY <1>0, <2>1, FedOfOther DEF Kinds
    <3>. QED BY <2>1, <3>1, <3>2
  <2>3. frame <= previousCamera
    BY <1>0, <2>1, RowTimes
  <2>. QED BY <2>1, <2>2, <2>3 DEF FedSoFar
<1>5. CASE /\ UNCHANGED <<imu, imuIndex, previousCamera, delivered>>
           /\ pc' \in {"pace", "imu", "stereo"} => pc \in {"pace", "imu", "stereo"}
  BY <1>5 DEF FedSoFar
<1>. QED
  BY <1>1, <1>2, <1>3, <1>4, <1>5
  DEF Next, Main, vars, position, history, Loaded, LoadingFails, RowFails, LeaveLoop, Pace, ImuFed,
      JudgeState, StateFails, NoState, Poll, Finish, Interrupt

----------------------------------------------------------------------------
(* The loop: as the live dispatcher feeds                                  *)

\* What FedAsLive says of event n, of any sequence of events and set of samples.
AsLive(events, times, n) ==
  LET time   == events[n].time
      before == Fed(events, "imu", n)
  IN  /\ events[n].kind = "stereo" =>
           /\ before = {t \in times : ~\E u \in times : time <= u /\ u < t}
           /\ \E t \in before : t <= time
           /\ \E t \in before : t >= time
      /\ \A m \in 1..(n - 1) : events[m].kind = events[n].kind => events[m].time < time

LEMMA FedAsLiveParts == FedAsLive <=> \A n \in 1..Len(delivered) : AsLive(delivered, ImuTimes, n)
BY DEF FedAsLive, AsLive

\* What was fed before stays as it was.
LEMMA EarlierAsLive ==
  ASSUME NEW events \in Seq(Event), NEW e \in Event, NEW more, more = Append(events, e),
         NEW times, NEW n \in 1..Len(events), AsLive(events, times, n)
  PROVE  AsLive(more, times, n)
<1>1. Len(events) \in Nat /\ \A i \in 1..Len(events) : more[i] = events[i]
  BY OneMoreEvent
<1>2. more[n] = events[n] /\ \A m \in 1..(n - 1) : more[m] = events[m]
  BY <1>1
<1>3. Fed(more, "imu", n) = Fed(events, "imu", n)
  <2>1. "imu" \in Kinds /\ n \in 0..Len(events)
    BY <1>1 DEF Kinds
  <2>. QED BY <2>1, FedBefore
<1>. QED BY <1>2, <1>3 DEF AsLive

\* An event that is younger than all of its kind, and, if it is a frame, comes where
\* it should, is fed as the live dispatcher would.
LEMMA LastAsLive ==
  ASSUME NEW events \in Seq(Event), NEW e \in Event, NEW more, more = Append(events, e), NEW times,
         \A t \in Fed(events, e.kind, Len(events)) : t < e.time,
         e.kind = "stereo" =>
           /\ Fed(events, "imu", Len(events)) = {t \in times : ~\E u \in times : e.time <= u /\ u < t}
           /\ \E t \in Fed(events, "imu", Len(events)) : t <= e.time
           /\ \E t \in Fed(events, "imu", Len(events)) : t >= e.time
  PROVE  AsLive(more, times, Len(events) + 1)
<1>. DEFINE l == Len(events)
<1>1. /\ l \in Nat /\ Len(more) = l + 1 /\ more[l + 1] = e
      /\ \A i \in 1..l : more[i] = events[i]
  BY OneMoreEvent
<1>2. e.kind = "stereo" => Fed(more, "imu", l + 1) = Fed(events, "imu", l)
  <2>1. e.kind = "stereo" => Fed(more, "imu", Len(more)) = Fed(events, "imu", Len(events))
    BY FedOfOther DEF Kinds
  <2>. QED BY <1>1, <2>1
<1>3. ASSUME NEW m \in 1..l, more[m].kind = e.kind PROVE more[m].time < e.time
  <2>1. events[m].time \in Fed(events, e.kind, l)
    BY <1>1, <1>3 DEF Fed
  <2>. QED BY <1>1, <1>3, <2>1
<1>4. 1..((l + 1) - 1) = 1..l
  BY <1>1
<1>. QED BY <1>1, <1>2, <1>3, <1>4 DEF AsLive

\* The samples up to the one at the index, when the frame lies between the last two
\* fed, are those with none between them and the frame.
LEMMA FedForFrame ==
  ASSUME RowsOK, Rows, frame \in Nat, imuIndex > 0, imu[1] <= frame, frame <= imu[imuIndex],
         imuIndex > 1 => imu[imuIndex - 1] < frame
  PROVE  /\ {imu[i] : i \in 1..imuIndex} = {t \in ImuTimes : ~\E u \in ImuTimes : frame <= u /\ u < t}
         /\ \E t \in {imu[i] : i \in 1..imuIndex} : t <= frame
         /\ \E t \in {imu[i] : i \in 1..imuIndex} : t >= frame
<1>1. /\ imuIndex \in 1..Len(imu) /\ Len(imu) \in Nat
      /\ \A i \in 1..Len(imu) : imu[i] \in Nat
      /\ \A i, j \in 1..Len(imu) : i < j => imu[i] < imu[j]
  BY RowTimes DEF Rows
<1>2. ASSUME NEW i \in 1..imuIndex, NEW j \in 1..Len(imu), frame <= imu[j], imu[j] < imu[i]
      PROVE  FALSE
  <2>1. j < i
    BY <1>1, <1>2
  <2>2. imuIndex > 1 /\ imuIndex - 1 \in 1..Len(imu) /\ j <= imuIndex - 1
    BY <1>1, <1>2, <2>1
  <2>3. imu[j] <= imu[imuIndex - 1]
    BY <1>1, <1>2, <2>2
  <2>. QED BY <1>1, <1>2, <2>2, <2>3
<1>3. ASSUME NEW i \in 1..Len(imu), i \notin 1..imuIndex
      PROVE  frame <= imu[imuIndex] /\ imu[imuIndex] < imu[i]
  BY <1>1, <1>3
<1>4. {imu[i] : i \in 1..imuIndex} \subseteq {t \in ImuTimes : ~\E u \in ImuTimes : frame <= u /\ u < t}
  BY <1>1, <1>2 DEF ImuTimes
<1>5. {t \in ImuTimes : ~\E u \in ImuTimes : frame <= u /\ u < t} \subseteq {imu[i] : i \in 1..imuIndex}
  BY <1>1, <1>3 DEF ImuTimes
<1>6. imu[1] \in {imu[i] : i \in 1..imuIndex} /\ imu[imuIndex] \in {imu[i] : i \in 1..imuIndex}
  BY <1>1
<1>7. frame <= imu[imuIndex] => imu[imuIndex] >= frame
  BY <1>1
<1>. QED BY <1>4, <1>5, <1>6, <1>7

LEMMA AsLiveKept ==
  TypeOK /\ Rows /\ Cursor /\ FedSoFar /\ FedAsLive /\ [Next]_vars => FedAsLive'
<1>. SUFFICES ASSUME TypeOK, Rows, Cursor, FedSoFar, FedAsLive, [Next]_vars PROVE FedAsLive'
  OBVIOUS
<1>0. RowsOK /\ delivered \in Seq(Event)
  BY TypeParts DEF TypeOK, Event
<1>a. \A n \in 1..Len(delivered) : AsLive(delivered, ImuTimes, n)
  BY FedAsLiveParts
<1>1. ASSUME NEW t \in Time, LoadImu(t) PROVE FedAsLive'
  <2>1. delivered' = <<>>
    BY <1>1 DEF LoadImu, Rows, history
  <2>. QED BY <2>1 DEF FedAsLive
<1>2. ASSUME NEW e \in Event, delivered' = Append(delivered, e), imu' = imu,
             AsLive(delivered', ImuTimes, Len(delivered) + 1)
      PROVE  FedAsLive'
  <2>. DEFINE more == delivered'
  <2>1. more = Append(delivered, e) /\ ImuTimes' = ImuTimes
    BY <1>2 DEF ImuTimes
  <2>2. Len(delivered) \in Nat /\ Len(more) = Len(delivered) + 1
    BY <1>0, <1>2
  <2>. HIDE DEF more
  <2>3. ASSUME NEW n \in 1..Len(delivered) PROVE AsLive(more, ImuTimes, n)
    <3>1. AsLive(delivered, ImuTimes, n)
      BY <1>a, <2>3
    <3>. QED BY <1>0, <1>2, <2>1, <2>3, <3>1, EarlierAsLive
  <2>4. \A n \in 1..Len(more) : AsLive(more, ImuTimes, n)
    <3>1. \A n \in 1..Len(more) : n \in 1..Len(delivered) \/ n = Len(delivered) + 1
      BY <2>2
    <3>. QED BY <1>2, <2>3, <3>1 DEF more
  <2>. QED BY <2>1, <2>4 DEF FedAsLive, AsLive, more
<1>3. CASE FeedImu
  <2>. DEFINE e == ImuEvent(imu[imuIndex + 1])
  <2>1. /\ imuIndex \in Nat /\ imuIndex + 1 \in 1..Len(imu) /\ imu' = imu
        /\ delivered' = Append(delivered, e) /\ e \in Event
        /\ e.kind = "imu" /\ e.time = imu[imuIndex + 1]
    BY <1>0, <1>3, RowTimes DEF FeedImu, UpTo, Beyond, ImuEvent, Event
  <2>. HIDE DEF e
  <2>2. \A i \in 1..imuIndex : imu[i] < e.time
    BY <1>0, <2>1, RowTimes DEF Rows
  <2>3. \A t \in Fed(delivered, e.kind, Len(delivered)) : t < e.time
    BY <2>1, <2>2 DEF FedSoFar
  <2>4. AsLive(delivered', ImuTimes, Len(delivered) + 1)
    BY <1>0, <2>1, <2>3, LastAsLive
  <2>. QED BY <1>2, <2>1, <2>4
<1>4. CASE FeedStereo
  <2>. DEFINE e == StereoEvent(frame)
  <2>1. /\ frame = previousCamera /\ frame \in Time /\ frame \in Nat /\ imu[1] <= frame
        /\ imuIndex > 0 /\ frame <= imu[imuIndex] /\ imu' = imu
        /\ imuIndex > 1 => imu[imuIndex - 1] < frame
        /\ pc = "stereo"
    BY <1>0, <1>4, RowTimes DEF FeedStereo, Cursor, InHand
  <2>2. /\ delivered' = Append(delivered, e)
        /\ e \in Event /\ e.kind = "stereo" /\ e.time = frame
    BY <1>4, <2>1 DEF FeedStereo, StereoEvent, Event
  <2>. HIDE DEF e
  <2>3. \A t \in Fed(delivered, e.kind, Len(delivered)) : t < e.time
    BY <2>1, <2>2 DEF FedSoFar
  <2>4. /\ Fed(delivered, "imu", Len(delivered))
             = {t \in ImuTimes : ~\E u \in ImuTimes : frame <= u /\ u < t}
        /\ \E t \in Fed(delivered, "imu", Len(delivered)) : t <= frame
        /\ \E t \in Fed(delivered, "imu", Len(delivered)) : t >= frame
    BY <1>0, <2>1, FedForFrame DEF FedSoFar
  <2>5. AsLive(delivered', ImuTimes, Len(delivered) + 1)
    BY <1>0, <2>2, <2>3, <2>4, LastAsLive
  <2>. QED BY <1>2, <2>1, <2>2, <2>5
<1>5. CASE UNCHANGED <<imu, delivered>>
  BY <1>5 DEF FedAsLive, ImuTimes
<1>. QED
  BY <1>1, <1>3, <1>4, <1>5
  DEF Next, Main, vars, position, history, ReadRow, Loaded, LoadingFails, RowFails, LeaveLoop, Pace,
      ImuFed, JudgeState, StateFails, NoState, Poll, Finish, Interrupt

----------------------------------------------------------------------------
(* The loop: every frame is accounted for                                  *)

LEMMA AccountsKept ==
  TypeOK /\ Rows /\ Cursor /\ FedSoFar /\ Accounts /\ [Next]_vars => Accounts'
<1>. SUFFICES ASSUME TypeOK, Rows, Cursor, FedSoFar, Accounts, [Next]_vars PROVE Accounts'
  OBVIOUS
<1>0. /\ RowsOK /\ ControlOK /\ delivered \in Seq(Event) /\ frames \in Seq(Time)
      /\ skipped \in Seq(Time) /\ Time \subseteq Int
      /\ Len(frames) \in Nat /\ Len(skipped) \in Nat /\ Len(delivered) \in Nat
      /\ \A i \in 1..Len(frames) : frames[i] \in Int
  <2>1. RowsOK /\ ControlOK /\ delivered \in Seq(Event) /\ frames \in Seq(Time) /\ skipped \in Seq(Time)
    BY TypeParts DEF TypeOK, Event
  <2>2. Time \subseteq Int
    BY TimeAssumption
  <2>3. \A i \in 1..Len(frames) : frames[i] \in Int
    <3>1. \A i \in 1..Len(frames) : frames[i] \in Time
      BY <2>1, ElementOfSeq
    <3>. QED BY <2>2, <3>1, Zenon
  <2>4. Len(frames) \in Nat /\ Len(skipped) \in Nat /\ Len(delivered) \in Nat
    BY <2>1
  <2>. QED BY <2>1, <2>2, <2>3, <2>4
<1>a. previousCamera \in Int /\ frame \in Int
  BY <1>0, RowTimes
<1>1. ASSUME NEW t \in Time, LoadImu(t) PROVE Accounts'
  <2>1. /\ frames = <<>> /\ frames' = <<>> /\ pc' = "loading"
    BY <1>1 DEF LoadImu, Rows, history
  <2>. QED BY <2>1 DEF Accounts, Settled
<1>2. ASSUME NEW t \in Time, ReadRow(t) PROVE Accounts'
  <2>1. /\ t > previousCamera /\ previousCamera' = t /\ UNCHANGED <<imu, cameraCount, delivered>>
        /\ frames' = Append(frames, t) /\ t \in Int /\ imu[1] \in Int
    BY <1>0, <1>2, RowTimes, EmptySeq DEF ReadRow, InOrder, Rows, RowsOK
  <2>2. /\ Len(frames') = Len(frames) + 1 /\ frames'[Len(frames) + 1] = t /\ frames' # <<>>
        /\ \A i \in 1..Len(frames) : frames'[i] = frames[i]
    BY <1>0, <2>1
  <2>3. /\ \A i \in 1..Len(frames) : frames[i] < t
        /\ \A i \in 1..Len(frames') : frames'[i] <= t
    BY <1>0, <1>a, <2>1, <2>2 DEF Accounts
  <2>4. SawAll(Len(frames))
    BY <1>2 DEF ReadRow, Accounts, Settled
  <2>5. /\ \A i \in 1..Len(frames) : frames'[i] \in Fed(delivered', "stereo", Len(delivered'))
                                        <=> frames'[i] >= imu'[1]
        /\ cameraCount + Len(skipped) = Len(frames)
    BY <2>1, <2>2, <2>4 DEF SawAll
  <2>6. CASE Leading(t)
    <3>1. pc' = "next" /\ skipped' = Append(skipped, t) /\ t < imu[1]
      BY <1>2, <2>6 DEF ReadRow, Leading
    <3>2. t \notin Fed(delivered, "stereo", Len(delivered))
      <4>1. \A u \in Fed(delivered, "stereo", Len(delivered)) : u \in Int /\ u <= previousCamera
        BY <1>0, FedTimes DEF FedSoFar
      <4>. QED BY <1>a, <2>1, <4>1
    <3>3. SawAll(Len(frames))' /\ ~(t >= imu[1])
      <4>1. ~(t >= imu[1])
        BY <2>1, <3>1
      <4>2. \A i \in 1..Len(frames') : frames'[i] \in Fed(delivered', "stereo", Len(delivered'))
                                        <=> frames'[i] >= imu'[1]
        <5>1. \A i \in 1..Len(frames') : i \in 1..Len(frames) \/ i = Len(frames) + 1
          BY <1>0, <2>2
        <5>. QED BY <2>1, <2>2, <2>5, <3>2, <4>1, <5>1
      <4>3. cameraCount' + Len(skipped') = Len(frames')
        <5>1. Len(skipped') = Len(skipped) + 1 /\ cameraCount \in Nat /\ cameraCount' = cameraCount
          BY <1>0, <2>1, <3>1 DEF ControlOK
        <5>. QED BY <1>0, <2>2, <2>5, <5>1
      <4>. QED BY <4>1, <4>2, <4>3 DEF SawAll
    <3>. QED BY <2>1, <2>3, <3>1, <3>3 DEF Accounts
  <2>7. CASE ~Leading(t)
    <3>1. pc' = "pace" /\ frame' = t /\ skipped' = skipped
      BY <1>2, <2>7 DEF ReadRow
    <3>2. Len(frames') - 1 = Len(frames)
      BY <1>0, <2>2
    <3>3. /\ \A i \in 1..(Len(frames') - 1) : frames'[i] \in Fed(delivered', "stereo", Len(delivered'))
                                                <=> frames'[i] >= imu'[1]
          /\ cameraCount' + Len(skipped') = Len(frames') - 1
          /\ \A i \in 1..(Len(frames') - 1) : frames'[i] < frame'
      BY <2>1, <2>2, <2>3, <2>5, <3>1, <3>2
    <3>. QED BY <2>1, <2>2, <2>3, <3>1, <3>3 DEF Accounts, Settled, SawAll
  <2>. QED BY <2>6, <2>7
<1>3. CASE FeedImu
  <2>. DEFINE e == ImuEvent(imu[imuIndex + 1])
  <2>1. /\ pc = "imu" /\ pc' \in {"imu", "stereo", "failed"}
        /\ UNCHANGED <<imu, previousCamera, frame, frames, skipped, cameraCount>>
        /\ delivered' = Append(delivered, e) /\ e \in Event /\ e.kind # "stereo"
    BY <1>0, <1>3, RowTimes DEF FeedImu, UpTo, Beyond, ImuEvent, Event
  <2>. HIDE DEF e
  <2>2. Fed(delivered', "stereo", Len(delivered')) = Fed(delivered, "stereo", Len(delivered))
    BY <1>0, <2>1, FedOfOther DEF Kinds
  <2>. QED BY <2>1, <2>2 DEF Accounts, Settled, SawAll
<1>4. CASE FeedStereo
  <2>. DEFINE e == StereoEvent(frame)
  <2>1. /\ pc = "stereo" /\ frame = previousCamera /\ frame \in Time /\ imu[1] <= frame
        /\ UNCHANGED <<imu, previousCamera, frame, frames, skipped>>
        /\ (pc' = "state" /\ cameraCount' = cameraCount + 1) \/ pc' = "failed"
    BY <1>4 DEF FeedStereo, Cursor, InHand
  <2>2. /\ delivered' = Append(delivered, e)
        /\ e \in Event /\ e.kind = "stereo" /\ e.time = frame
    BY <1>4, <2>1 DEF FeedStereo, StereoEvent, Event
  <2>. HIDE DEF e
  <2>3. Fed(delivered', "stereo", Len(delivered'))
          = Fed(delivered, "stereo", Len(delivered)) \cup {frame}
    <3>1. Fed(delivered', e.kind, Len(delivered')) = Fed(delivered, e.kind, Len(delivered)) \cup {e.time}
      BY <1>0, <2>2, FedOfKind
    <3>. QED BY <2>2, <3>1
  <2>4. /\ frames # <<>> /\ frames[Len(frames)] = frame
        /\ \A i \in 1..(Len(frames) - 1) : frames[i] < frame
        /\ SawAll(Len(frames) - 1)
    BY <2>1 DEF Accounts
  <2>5. frame >= imu[1]
    BY <1>0, <1>a, <2>1, RowTimes, EmptySeq DEF Rows, RowsOK
  <2>6. \A i \in 1..Len(frames) : i \in 1..(Len(frames) - 1) \/ i = Len(frames)
    BY <1>0
  <2>7. \A i \in 1..(Len(frames) - 1) : frames[i] # frame
    BY <1>0, <1>a, <2>4
  <2>8. \A i \in 1..Len(frames) : frames[i] \in Fed(delivered', "stereo", Len(delivered'))
                                    <=> frames[i] >= imu[1]
    BY <2>3, <2>4, <2>5, <2>6, <2>7 DEF SawAll
  <2>9. pc' = "state" => cameraCount' + Len(skipped) = Len(frames)
    BY <1>0, <2>1, <2>4 DEF SawAll, ControlOK
  <2>. QED BY <2>1, <2>8, <2>9 DEF Accounts, Settled, SawAll
<1>5. ASSUME UNCHANGED <<imu, position, history>>, Settled' => Settled,
             pc' \in {"pace", "imu", "stereo"} => pc \in {"pace", "imu", "stereo"}
      PROVE  Accounts'
  BY <1>5 DEF Accounts, SawAll, position, history
<1>6. CASE Loaded
  <2>1. /\ frames = <<>> /\ skipped = <<>> /\ cameraCount = 0 /\ UNCHANGED <<imu, position, history>>
        /\ pc' \in {"next", "failed"}
    BY <1>6 DEF Loaded, Rows
  <2>2. SawAll(Len(frames))
    BY <2>1 DEF SawAll
  <2>. QED BY <2>1, <2>2 DEF Accounts, Settled, SawAll, position, history
<1>7. CASE \/ LoadingFails \/ RowFails \/ LeaveLoop \/ Pace \/ ImuFed \/ JudgeState \/ StateFails
           \/ NoState \/ Poll \/ Finish \/ Interrupt \/ UNCHANGED vars
  <2>1. UNCHANGED <<imu, position, history>>
    BY <1>7
    DEF vars, LoadingFails, RowFails, LeaveLoop, Pace, ImuFed, JudgeState, StateFails, NoState, Poll,
        Finish, Interrupt
  <2>2. Settled' => Settled
    BY <1>7
    DEF vars, LoadingFails, RowFails, LeaveLoop, Pace, ImuFed, JudgeState, StateFails, NoState, Poll,
        Finish, Interrupt, Settled, Ended
  <2>3. pc' \in {"pace", "imu", "stereo"} => pc \in {"pace", "imu", "stereo"}
    BY <1>7
    DEF vars, LoadingFails, RowFails, LeaveLoop, Pace, ImuFed, JudgeState, StateFails, NoState, Poll,
        Finish, Interrupt
  <2>. QED BY <1>5, <2>1, <2>2, <2>3
<1>. QED BY <1>1, <1>2, <1>3, <1>4, <1>6, <1>7 DEF Next, Main

----------------------------------------------------------------------------
(* The loop: as a session of BracketedDelivery                             *)

\* A frame waits from the moment it is read until it is fed, or for ever.
LEMMA FrameWaits ==
  ASSUME TypeOK, Cursor, FedSoFar
  PROVE  pc \in {"pace", "imu", "stereo"} => Waiting /\ frame \in Nat
<1>. SUFFICES ASSUME pc \in {"pace", "imu", "stereo"} PROVE Waiting /\ frame \in Nat
  OBVIOUS
<1>1. frame \in Time /\ frame = previousCamera /\ delivered \in Seq(Event)
  BY TypeParts DEF TypeOK, Event, Cursor, InHand
<1>2. frame \in Nat /\ frame # NoTime
  BY <1>1, TimeAssumption DEF NoTime
<1>3. \A t \in Fed(delivered, "stereo", Len(delivered)) : t \in Int /\ t < frame
  BY <1>1, FedTimes DEF FedSoFar
<1>. QED BY <1>2, <1>3 DEF Waiting

\* A frame that is done with does not wait.
Handled == pc \in {"loading", "next", "state", "poll"} => ~Waiting

LEMMA HandledKept == TypeOK /\ Rows /\ Cursor /\ Handled /\ [Next]_vars => Handled'
<1>. SUFFICES ASSUME TypeOK, Rows, Cursor, Handled, [Next]_vars PROVE Handled'
  OBVIOUS
<1>1. ASSUME NEW t \in Time, LoadImu(t) PROVE Handled'
  BY <1>1 DEF LoadImu, Rows, Handled, Waiting, position, history
<1>2. ASSUME NEW t \in Time, ReadRow(t) PROVE Handled'
  BY <1>2 DEF ReadRow, Handled, Waiting
<1>3. CASE FeedStereo
  <2>. DEFINE e == StereoEvent(frame)
  <2>1. /\ delivered \in Seq(Event) /\ delivered' = Append(delivered, e) /\ frame' = frame
        /\ e \in Event /\ e.kind = "stereo" /\ e.time = frame
    BY <1>3, TypeParts DEF TypeOK, FeedStereo, StereoEvent, Event, Cursor, InHand
  <2>. HIDE DEF e
  <2>2. Fed(delivered', e.kind, Len(delivered')) = Fed(delivered, e.kind, Len(delivered)) \cup {e.time}
    BY <2>1, FedOfKind
  <2>. QED BY <2>1, <2>2 DEF Handled, Waiting
<1>4. CASE pc' \notin {"loading", "next", "state", "poll"}
  BY <1>4 DEF Handled
<1>5. CASE /\ UNCHANGED <<frame, delivered>>
           /\ pc' \in {"loading", "next", "state", "poll"} => pc \in {"loading", "next", "state", "poll"}
  BY <1>5 DEF Handled, Waiting
<1>. QED
  BY <1>1, <1>2, <1>3, <1>4, <1>5
  DEF Next, Main, vars, position, history, Loaded, LoadingFails, RowFails, LeaveLoop, Pace, FeedImu,
      ImuFed, JudgeState, StateFails, NoState, Poll, Finish, Interrupt

\* What is left to feed.
LEMMA UnfedFacts ==
  ASSUME RowsOK
  PROVE  /\ Unfed \in Seq(Time)
         /\ imuIndex < Len(imu) =>
              /\ Unfed # <<>> /\ Head(Unfed) = imu[imuIndex + 1]
              /\ Tail(Unfed) = SubSeq(imu, imuIndex + 2, Len(imu))
         /\ imuIndex = Len(imu) => Unfed = <<>>
         /\ imuIndex = 0 => Unfed = imu
<1>1. /\ imu \in Seq(Time) /\ Len(imu) \in Nat /\ imuIndex \in Nat /\ imuIndex <= Len(imu)
  BY RowTimes DEF RowsOK
<1>2. Unfed \in Seq(Time)
  BY <1>1 DEF Unfed
<1>3. ASSUME imuIndex < Len(imu)
      PROVE  /\ Unfed # <<>> /\ Head(Unfed) = imu[imuIndex + 1]
             /\ Tail(Unfed) = SubSeq(imu, imuIndex + 2, Len(imu))
  <2>1. Len(Unfed) = Len(imu) - imuIndex /\ \A i \in 1..Len(Unfed) : Unfed[i] = imu[imuIndex + i]
    BY <1>1, <1>3 DEF Unfed
  <2>2. Unfed # <<>> /\ Head(Unfed) = imu[imuIndex + 1]
    BY <1>1, <1>2, <1>3, <2>1
  <2>3. /\ Len(Tail(Unfed)) = Len(Unfed) - 1 /\ Tail(Unfed) \in Seq(Time)
        /\ \A i \in 1..(Len(Unfed) - 1) : Tail(Unfed)[i] = Unfed[i + 1]
    BY <1>2, <2>2
  <2>. DEFINE rest == SubSeq(imu, imuIndex + 2, Len(imu))
  <2>4. /\ rest \in Seq(Time) /\ Len(rest) = Len(imu) - imuIndex - 1
        /\ \A i \in 1..Len(rest) : rest[i] = imu[imuIndex + 1 + i]
    BY <1>1, <1>3
  <2>. HIDE DEF rest
  <2>5. Len(Tail(Unfed)) = Len(rest) /\ \A i \in 1..Len(rest) : Tail(Unfed)[i] = rest[i]
    BY <1>1, <1>3, <2>1, <2>3, <2>4
  <2>6. Tail(Unfed) = rest
    BY <2>3, <2>4, <2>5, SeqEqual
  <2>. QED BY <2>2, <2>6 DEF rest
<1>4. imuIndex = Len(imu) => Unfed = <<>>
  BY <1>1 DEF Unfed
<1>5. imuIndex = 0 => Unfed = imu
  BY <1>1 DEF Unfed
<1>. QED BY <1>2, <1>3, <1>4, <1>5

LEMMA SamplesDelivered == ASSUME FedSoFar PROVE Promise!DeliveredImuTimes = {imu[i] : i \in 1..imuIndex}
BY DEF FedSoFar, Fed, Promise!DeliveredImuTimes

\* Nothing the promise sees happens, or the dataset turns out to end too early.
LEMMA CloseOrStutter ==
  ASSUME UNCHANGED <<imu, imuIndex, frame, delivered>>, OutOfSamples => OutOfSamples'
  PROVE  Promise!Close \/ UNCHANGED Promise!vars
<1>1. UNCHANGED <<Unfed, InTurn, LastSample, frame, delivered>>
  BY DEF Unfed, InTurn, LastSample, Waiting
<1>2. CASE OutOfSamples'
  BY <1>1, <1>2 DEF Promise!Close
<1>3. CASE ~OutOfSamples'
  <2>1. OutOfSamples' = OutOfSamples
    BY <1>3 DEF OutOfSamples
  <2>. QED BY <1>1, <2>1 DEF Promise!vars
<1>. QED BY <1>2, <1>3

LEMMA LoadRefines ==
  ASSUME RowsOK, Rows, Handled, NEW t \in Time, LoadImu(t) PROVE Promise!AcceptImu(t)
<1>1. /\ pc = "loading" /\ imu \in Seq(Time) /\ imuIndex = 0 /\ t \in Nat
      /\ imu # <<>> => t > imu[Len(imu)]
      /\ imu' = Append(imu, t) /\ UNCHANGED <<pc, imuIndex, frame, delivered>>
  BY TimeAssumption DEF LoadImu, Rows, RowsOK, position, history
<1>2. ~OutOfSamples /\ ~OutOfSamples'
  BY <1>1 DEF OutOfSamples
<1>3. Unfed = imu
  BY <1>1, UnfedFacts
<1>4. Unfed' = Append(imu, t)
  <2>1. Len(imu) \in Nat /\ Append(imu, t) \in Seq(Time) /\ Len(Append(imu, t)) = Len(imu) + 1
    BY <1>1
  <2>2. SubSeq(Append(imu, t), 1, Len(Append(imu, t))) = Append(imu, t)
    BY <2>1
  <2>. QED BY <1>1, <2>2 DEF Unfed
<1>5. LastSample' = t
  BY <1>1 DEF LastSample
<1>6. t > LastSample
  BY <1>1 DEF LastSample, NoTime
<1>7. InTurn' = InTurn
  BY <1>1 DEF InTurn, Waiting
<1>. QED BY <1>1, <1>2, <1>3, <1>4, <1>5, <1>6, <1>7 DEF Promise!AcceptImu

LEMMA ReadRefines ==
  ASSUME TypeOK, Cursor, FedSoFar, FedSoFar', Handled, NEW t \in Time, ReadRow(t)
  PROVE  [Promise!Next]_(Promise!vars)
<1>0. RowsOK /\ t \in Nat /\ delivered \in Seq(Event)
  BY TimeAssumption, TypeParts DEF TypeOK, Event
<1>1. CASE Leading(t)
  <2>1. UNCHANGED <<imu, imuIndex, frame, delivered>> /\ ~OutOfSamples
    BY <1>1 DEF ReadRow, OutOfSamples
  <2>. QED BY <2>1, CloseOrStutter DEF Promise!Next
<1>2. CASE ~Leading(t)
  <2>1. /\ pc = "next" /\ pc' = "pace" /\ frame' = t /\ t > previousCamera /\ previousCamera' = t
        /\ UNCHANGED <<imu, imuIndex, delivered>>
    BY <1>2 DEF ReadRow, InOrder
  <2>2. ~OutOfSamples /\ ~OutOfSamples' /\ InTurn = <<>>
    BY <2>1 DEF OutOfSamples, Handled, InTurn
  <2>3. InTurn' = <<t>>
    <3>1. \A u \in Fed(delivered', "stereo", Len(delivered')) : u < t
      BY <2>1 DEF FedSoFar
    <3>2. t \notin Fed(delivered', "stereo", Len(delivered'))
      BY <1>0, <3>1
    <3>. QED BY <1>0, <2>1, <3>2 DEF InTurn, Waiting, NoTime
  <2>4. t > frame
    BY <1>0, <2>1, RowTimes DEF Cursor
  <2>5. UNCHANGED <<Unfed, LastSample>>
    BY <2>1 DEF Unfed, LastSample
  <2>6. Append(<<>>, t) = <<t>>
    OBVIOUS
  <2>7. Promise!AcceptStereo(t)
    BY <2>1, <2>2, <2>3, <2>4, <2>5, <2>6 DEF Promise!AcceptStereo
  <2>. QED BY <2>7 DEF Promise!Next
<1>. QED BY <1>1, <1>2

\* The sample fed is one that the frame needs, or one of the last, which no frame
\* will be bracketed by.
LEMMA FeedImuRefines ==
  ASSUME TypeOK, Rows, Cursor, FedSoFar, FeedImu
  PROVE  Promise!DeliverImu
<1>0. RowsOK /\ delivered \in Seq(Event) /\ Waiting /\ frame \in Nat /\ pc = "imu"
  BY FrameWaits, TypeParts DEF TypeOK, Event, FeedImu
<1>1. /\ imuIndex \in Nat /\ Len(imu) \in Nat /\ imuIndex < Len(imu)
      /\ \A i \in 1..Len(imu) : imu[i] \in Nat
      /\ UpTo => imu[imuIndex + 1] <= frame
      /\ ~UpTo => imuIndex > 0 /\ imu[imuIndex] < frame /\ imu[imuIndex + 1] > frame
  BY <1>0, RowTimes DEF FeedImu, UpTo, Beyond
<1>2. /\ imuIndex' = imuIndex + 1 /\ UNCHANGED <<imu, frame>>
      /\ delivered' = Append(delivered, ImuEvent(imu[imuIndex + 1]))
      /\ pc' \in {IF Beyond THEN "stereo" ELSE "imu", "failed"}
  BY DEF FeedImu
<1>3. /\ Unfed # <<>> /\ Head(Unfed) = imu[imuIndex + 1] /\ Tail(Unfed) = Unfed'
  BY <1>0, <1>1, <1>2, UnfedFacts DEF Unfed
<1>4. \A i \in 1..imuIndex : imu[i] < frame
  <2>1. CASE UpTo
    BY <1>0, <1>1, <2>1 DEF Rows
  <2>2. CASE ~UpTo
    BY <1>0, <1>1, <2>2 DEF Rows
  <2>. QED BY <2>1, <2>2
<1>5. InTurn = <<frame>> /\ Head(InTurn) = frame /\ InTurn # <<>>
  BY <1>0 DEF InTurn
<1>6. LastSample = imu[Len(imu)] /\ imu # <<>> /\ imu[Len(imu)] \in Nat
  BY <1>0, <1>1, EmptySeq DEF LastSample, RowsOK
<1>7. Promise!NeededByAFrame \/ Promise!OnlyImuLeft
  <2>1. CASE imu[Len(imu)] >= frame
    BY <1>4, <1>5, <1>6, <2>1, SamplesDelivered DEF Promise!NeededByAFrame
  <2>2. CASE ~(imu[Len(imu)] >= frame)
    <3>1. frame > imu[Len(imu)] /\ LastSample < frame
      BY <1>0, <1>6, <2>2
    <3>2. OutOfSamples
      BY <1>0, <3>1 DEF OutOfSamples
    <3>. QED BY <1>5, <3>1, <3>2 DEF Promise!OnlyImuLeft
  <2>. QED BY <2>1, <2>2
<1>8. Waiting'
  <2>. DEFINE e == ImuEvent(imu[imuIndex + 1])
  <2>1. e \in Event /\ e.kind = "imu" /\ delivered' = Append(delivered, e)
    BY <1>0, <1>1, <1>2, RowTimes DEF ImuEvent, Event
  <2>. HIDE DEF e
  <2>2. Fed(delivered', "stereo", Len(delivered')) = Fed(delivered, "stereo", Len(delivered))
    BY <1>0, <2>1, FedOfOther DEF Kinds
  <2>. QED BY <1>0, <1>2, <2>2 DEF Waiting
<1>9. OutOfSamples' = OutOfSamples
  <2>1. Beyond => ~(frame > imu[Len(imu)])
    <3>. SUFFICES ASSUME Beyond PROVE ~(frame > imu[Len(imu)])
      OBVIOUS
    <3>1. imu[imuIndex + 1] > frame /\ imuIndex + 1 <= Len(imu)
      BY <1>1 DEF Beyond
    <3>2. imu[imuIndex + 1] <= imu[Len(imu)]
      <4>1. CASE imuIndex + 1 = Len(imu)
        BY <1>1, <4>1
      <4>2. CASE imuIndex + 1 # Len(imu)
        BY <1>1, <3>1, <4>2 DEF Rows
      <4>. QED BY <4>1, <4>2
    <3>. QED BY <1>0, <1>1, <1>6, <3>1, <3>2
  <2>. QED BY <1>0, <1>2, <1>8, <2>1 DEF OutOfSamples
<1>10. UNCHANGED <<InTurn, LastSample>>
  BY <1>0, <1>2, <1>8 DEF InTurn, LastSample
<1>. QED
  BY <1>2, <1>3, <1>7, <1>9, <1>10 DEF Promise!DeliverImu, ImuEvent

LEMMA FeedStereoRefines ==
  ASSUME TypeOK, Rows, Cursor, FedSoFar, FeedStereo
  PROVE  Promise!DeliverStereo
<1>0. RowsOK /\ delivered \in Seq(Event) /\ Waiting /\ frame \in Nat /\ pc = "stereo"
  BY FrameWaits, TypeParts DEF TypeOK, Event, FeedStereo
<1>1. /\ frame \in Time /\ imuIndex > 0 /\ imu[1] <= frame /\ frame <= imu[imuIndex]
      /\ imuIndex > 1 => imu[imuIndex - 1] < frame
      /\ delivered' = Append(delivered, StereoEvent(frame)) /\ pc' \in {"state", "failed"}
      /\ UNCHANGED <<imu, imuIndex, frame>>
  BY <1>0 DEF FeedStereo, Cursor, InHand
<1>2. InTurn = <<frame>> /\ Head(InTurn) = frame /\ InTurn # <<>> /\ Tail(InTurn) = <<>>
  BY <1>0 DEF InTurn
<1>3. Promise!Bracketed
  BY <1>0, <1>1, <1>2, FedForFrame, SamplesDelivered DEF Promise!Bracketed
<1>4. Promise!NoneWaiting
  <2>1. Unfed # <<>> => imuIndex < Len(imu)
    BY <1>0, UnfedFacts, RowTimes
  <2>2. imuIndex < Len(imu) => Head(Unfed) > frame
    <3>. SUFFICES ASSUME imuIndex < Len(imu) PROVE Head(Unfed) > frame
      OBVIOUS
    <3>1. Head(Unfed) = imu[imuIndex + 1]
      BY <1>0, UnfedFacts
    <3>2. imuIndex \in 1..Len(imu) /\ imuIndex + 1 \in 1..Len(imu)
      BY <1>0, <1>1, RowTimes
    <3>3. imu[imuIndex] < imu[imuIndex + 1] /\ imu[imuIndex] \in Nat /\ imu[imuIndex + 1] \in Nat
      BY <1>0, <3>2, RowTimes DEF Rows
    <3>. QED BY <1>0, <1>1, <3>1, <3>3
  <2>. QED BY <1>2, <2>1, <2>2 DEF Promise!NoneWaiting
<1>5. ~Waiting'
  <2>. DEFINE e == StereoEvent(frame)
  <2>1. /\ delivered' = Append(delivered, e) /\ e \in Event /\ e.kind = "stereo" /\ e.time = frame
    BY <1>1 DEF StereoEvent, Event
  <2>. HIDE DEF e
  <2>2. Fed(delivered', e.kind, Len(delivered')) = Fed(delivered, e.kind, Len(delivered)) \cup {e.time}
    BY <1>0, <2>1, FedOfKind
  <2>. QED BY <1>1, <2>1, <2>2 DEF Waiting
<1>6. InTurn' = <<>> /\ ~OutOfSamples /\ ~OutOfSamples' /\ UNCHANGED <<Unfed, LastSample>>
  BY <1>0, <1>1, <1>5 DEF InTurn, OutOfSamples, Unfed, LastSample
<1>. QED
  BY <1>1, <1>2, <1>3, <1>4, <1>6 DEF Promise!DeliverStereo, StereoEvent

LEMMA StepRefines ==
  TypeOK /\ Rows /\ Cursor /\ FedSoFar /\ FedSoFar' /\ Handled /\ [Next]_vars
    => [Promise!Next]_(Promise!vars)
<1>. SUFFICES ASSUME TypeOK, Rows, Cursor, FedSoFar, FedSoFar', Handled, [Next]_vars
              PROVE  [Promise!Next]_(Promise!vars)
  OBVIOUS
<1>1. ASSUME NEW t \in Time, LoadImu(t) PROVE Promise!Next
  BY <1>1, LoadRefines, TypeParts DEF Promise!Next
<1>2. ASSUME NEW t \in Time, ReadRow(t) PROVE [Promise!Next]_(Promise!vars)
  BY <1>2, ReadRefines
<1>3. CASE FeedImu
  BY <1>3, FeedImuRefines DEF Promise!Next
<1>4. CASE FeedStereo
  BY <1>4, FeedStereoRefines DEF Promise!Next
<1>5. CASE ImuFed
  <2>1. /\ UNCHANGED <<imu, imuIndex, frame, delivered>> /\ pc = "imu"
        /\ pc' = IF imuIndex = 0 \/ imu[imuIndex] < frame THEN "failed" ELSE "stereo"
    BY <1>5 DEF ImuFed, position, history
  <2>2. frame > imu[Len(imu)] => pc' = "failed"
    <3>. SUFFICES ASSUME frame > imu[Len(imu)], imuIndex # 0 PROVE imu[imuIndex] < frame
      BY <2>1
    <3>1. /\ imuIndex \in 1..Len(imu) /\ Len(imu) \in 1..Len(imu) /\ frame \in Int
          /\ \A i \in 1..Len(imu) : imu[i] \in Nat
      BY RowTimes, TypeParts
    <3>2. imu[imuIndex] <= imu[Len(imu)]
      BY <3>1 DEF Rows
    <3>. QED BY <3>1, <3>2
  <2>3. OutOfSamples => OutOfSamples'
    BY <2>1, <2>2 DEF OutOfSamples, Waiting
  <2>. QED BY <2>1, <2>3, CloseOrStutter DEF Promise!Next
<1>6. CASE \/ Loaded \/ LoadingFails \/ RowFails \/ LeaveLoop \/ Pace \/ JudgeState \/ StateFails
           \/ NoState \/ Poll \/ Finish \/ Interrupt \/ UNCHANGED vars
  <2>1. UNCHANGED <<imu, imuIndex, frame, delivered>>
    BY <1>6
    DEF vars, Loaded, LoadingFails, RowFails, LeaveLoop, Pace, JudgeState, StateFails, NoState, Poll,
        Finish, Interrupt, position, history
  <2>2. pc \in {"imu", "failed"} => pc' = pc
    BY <1>6
    DEF vars, Loaded, LoadingFails, RowFails, LeaveLoop, Pace, JudgeState, StateFails, NoState, Poll,
        Finish, Interrupt
  <2>3. OutOfSamples => OutOfSamples'
    BY <2>1, <2>2 DEF OutOfSamples, Waiting
  <2>. QED BY <2>1, <2>3, CloseOrStutter DEF Promise!Next
<1>. QED BY <1>1, <1>2, <1>3, <1>4, <1>5, <1>6 DEF Next, Main

----------------------------------------------------------------------------
(* The theorems                                                            *)

LEMMA IInvInit == Init => IInv
<1>1. Init => GateInv
  BY GateInitial DEF Init
<1>. QED BY <1>1, TypeInit, RowsInit DEF IInv

LEMMA IInvStep == IInv /\ [Next]_vars => IInv'
<1>. SUFFICES ASSUME IInv, [Next]_vars PROVE IInv'
  OBVIOUS
<1>1. GateInv'
  <2>1. GateTypeOK /\ GateInv /\ Cursor
    BY TypeParts DEF IInv
  <2>2. ASSUME NEW t \in Time, NEW supported \in BOOLEAN, Update(t, supported) PROVE GateInv'
    <3>1. t \in Nat
      BY <2>2, TimeAssumption
    <3>. QED BY <2>1, <2>2, <3>1, GateStep
  <2>3. CASE UNCHANGED gate
    BY <2>1, <2>3, GateKept
  <2>. QED BY <2>1, <2>2, <2>3, GateSteps
<1>. QED
  BY <1>1, TypeStep, RowsKept, CursorKept, FedKept, AsLiveKept, AccountsKept DEF IInv

LEMMA Invariance == Spec => []IInv
BY IInvInit, IInvStep, PTL DEF Spec

\* The types of the replay's state and of the gate's, for any dataset: the index never
\* passes the last sample, and no duration of the gate becomes negative (lines 423-487
\* of ovrs_replay.cpp and tracking_health_gate.cpp).
THEOREM ReplayTypeCorrect == Spec => []TypeOK
BY Invariance, PTL DEF IInv

\* The replay's own loop over the IMU rows (lines 451-464) feeds the estimator what
\* the live dispatcher would: with every frame the samples up to it and the first one
\* at or after it, in order, whatever the dataset.
THEOREM ReplayFeedsAsLive == Spec => []FedAsLive
BY Invariance, PTL DEF IInv

\* A replay that completes has used every frame it read but those before the first
\* sample, and one that gives up for want of samples has none left (lines 431-464).
THEOREM ReplayUsesWhatItCan == Spec => []UsesWhatItCan
<1>1. ASSUME IInv PROVE CompleteRunSawAll
  BY <1>1 DEF IInv, Accounts, Settled, SawAll, CompleteRunSawAll
<1>2. ASSUME IInv PROVE OnlyTheTailFails
  <2>. SUFFICES ASSUME pc = "imu", ~UpTo, ~Beyond, imuIndex = 0 \/ imu[imuIndex] < frame
                PROVE  frame > imu[Len(imu)]
    BY DEF OnlyTheTailFails
  <2>1. RowsOK /\ imu # <<>> /\ imu[1] <= frame /\ frame \in Int
    BY <1>2, RowTimes, TypeParts DEF IInv, Rows, Cursor, InHand
  <2>2. /\ Len(imu) \in Nat /\ Len(imu) > 0 /\ imuIndex \in Nat /\ imuIndex <= Len(imu)
        /\ \A i \in 1..Len(imu) : imu[i] \in Nat
    BY <2>1, RowTimes, EmptySeq DEF RowsOK
  <2>3. imuIndex # 0
    BY <2>1, <2>2 DEF UpTo
  <2>4. imuIndex = Len(imu)
    BY <2>2, <2>3 DEF Beyond
  <2>. QED BY <2>1, <2>2, <2>3, <2>4
<1>. QED BY Invariance, <1>1, <1>2, PTL DEF UsesWhatItCan

\* The status the replay's gate reports is the one its samples deserve: the durations
\* it keeps are those of the samples it was given, whatever its settings
\* (tracking_health_gate.cpp:64-135).
THEOREM ReplayStatusIsDeserved == Spec => []StatusIsDeserved
<1>1. IInv => StatusIsDeserved
  BY GateInvImplies, TypeParts DEF IInv
<1>. QED BY Invariance, <1>1, PTL

\* The replay implements BracketedDelivery as the live dispatcher does: whatever the
\* dataset and whenever it is stopped or fails, what the estimator was fed is what a
\* live session without losses could have fed it (lines 352-469).
THEOREM ReplayKeepsPromise == Spec => KeepsPromise
<1>1. Init => Promise!Init
  <2>. SUFFICES ASSUME Init PROVE Promise!Init
    OBVIOUS
  <2>1. imu = <<>> /\ imuIndex = 0 /\ frame = NoTime /\ delivered = <<>>
    BY DEF Init
  <2>2. Unfed = <<>> /\ InTurn = <<>> /\ LastSample = -1
    BY <2>1 DEF Unfed, InTurn, LastSample, Waiting, NoTime
  <2>. QED BY <2>1, <2>2 DEF Promise!Init, NoTime
<1>2. Init => Handled
  BY DEF Init, Handled, Waiting
<1>3. IInv /\ Handled /\ [Next]_vars => Handled'
  BY HandledKept DEF IInv
<1>4. IInv /\ IInv' /\ Handled /\ [Next]_vars => [Promise!Next]_(Promise!vars)
  BY StepRefines DEF IInv
<1>. QED BY <1>1, <1>2, <1>3, <1>4, Invariance, PTL DEF Spec, KeepsPromise, Promise!Spec

=============================================================================
