-------------------------- MODULE ImuSynchronizer --------------------------
(***************************************************************************)
(* The IMU synchronizer (src/src/imu_synchronizer.cpp).  Gyroscope and     *)
(* accelerometer samples arrive in any interleaving; a gyroscope sample is *)
(* combined with the acceleration interpolated between the two samples     *)
(* around it.  The applications serialise the calls: ovrs_live with a      *)
(* mutex in its motion callback, ovrs_record by draining in one thread.    *)
(*                                                                         *)
(* An operation is one action, except that process(), which ends both      *)
(* add operations, is cut at the iterations of its loops: pc tells whether *)
(* it runs, and no other operation starts meanwhile.  Samples are          *)
(* abstracted to their timestamps; a combined sample remembers the two     *)
(* accelerations it was interpolated from.                                 *)
(***************************************************************************)
EXTENDS Integers, Sequences

CONSTANTS
  Time,          \* the finite timestamps samples can carry
  Requested,     \* the constructor's argument
  MaxRejected    \* bound on the number of refused samples

ASSUME TimeAssumption == Time \subseteq Nat

ASSUME BoundAssumption == Requested \in Nat /\ MaxRejected \in Nat

VARIABLES
  accel, gyro, ready,        \* the buffers accel_, gyro_ and ready_
  lastAccel, lastGyro,       \* last_accel_, last_gyro_
  stats,                     \* stats_, without the maximum delay
  stopped,                   \* stopped_
  pc,                        \* "idle", or "process" inside process()
  accelStream, gyroStream,   \* history: the accepted timestamps
  emitted,                   \* history: every combined sample
  taken                      \* history: how many take_ready returned

buffers == <<accel, gyro, ready>>
newest  == <<lastAccel, lastGyro>>
history == <<accelStream, gyroStream, emitted, taken>>
vars    == <<buffers, newest, stats, stopped, pc, history>>

\* Two accelerations are the least an interpolation needs.
Capacity == IF Requested < 2 THEN 2 ELSE Requested

\* An empty std::optional<double>, and a timestamp that is not finite.
NoTime    == -1
NotFinite == -2

Combined == [time : Time, before : Time, after : Time]

Stats == [receivedAccel : Nat, receivedGyro : Nat, generated : Nat, duplicate : Nat,
          regressing : Nat, invalid : Nat, missing : Nat, dropped : Nat]

Init ==
  /\ accel = <<>> /\ gyro = <<>> /\ ready = <<>>
  /\ lastAccel = NoTime /\ lastGyro = NoTime
  /\ stats = [receivedAccel |-> 0, receivedGyro |-> 0, generated |-> 0, duplicate |-> 0,
              regressing |-> 0, invalid |-> 0, missing |-> 0, dropped |-> 0]
  /\ stopped = FALSE
  /\ pc = "idle"
  /\ accelStream = <<>> /\ gyroStream = <<>> /\ emitted = <<>> /\ taken = 0

----------------------------------------------------------------------------
(* Helpers.  Definitions marked "Faulty" are plausible slips in the code;  *)
(* nothing uses them but the mutation runs.                                *)

\* Faulty: trimming is forgotten.
PushUntrimmed(buffer, x) == Append(buffer, x)

\* push_back, after which the oldest elements over the capacity are removed.
Push(buffer, x) ==
  IF Len(buffer) < Capacity THEN Append(buffer, x) ELSE Append(Tail(buffer), x)

\* How many elements that push removes.
Trimmed(buffer) == IF Len(buffer) < Capacity THEN 0 ELSE 1

----------------------------------------------------------------------------
(* add_accelerometer and add_gyroscope, up to process()                    *)

AddAccelerometer(t) ==
  /\ pc = "idle" /\ ~stopped
  /\ t > lastAccel
  /\ lastAccel' = t
  /\ accel' = Push(accel, t)
  /\ stats' = [stats EXCEPT !.receivedAccel = @ + 1, !.dropped = @ + Trimmed(accel)]
  /\ pc' = "process"
  /\ accelStream' = Append(accelStream, t)
  /\ UNCHANGED <<gyro, ready, lastGyro, stopped, gyroStream, emitted, taken>>

AddGyroscope(t) ==
  /\ pc = "idle" /\ ~stopped
  /\ t > lastGyro
  /\ lastGyro' = t
  /\ gyro' = Push(gyro, t)
  /\ stats' = [stats EXCEPT !.receivedGyro = @ + 1, !.dropped = @ + Trimmed(gyro)]
  /\ pc' = "process"
  /\ gyroStream' = Append(gyroStream, t)
  /\ UNCHANGED <<accel, ready, lastAccel, stopped, accelStream, emitted, taken>>

Rejected == stats.duplicate + stats.regressing + stats.invalid

\* A refused sample only counts.
Refuse(statsThen) ==
  /\ pc = "idle" /\ ~stopped
  /\ Rejected < MaxRejected
  /\ stats' = statsThen
  /\ UNCHANGED <<buffers, newest, stopped, pc, history>>

\* A sample whose value or raw timestamp is not finite.
RefuseInvalid == Refuse([stats EXCEPT !.invalid = @ + 1])

\* validate_timestamp, for a stream whose newest timestamp is last.
RefuseDuplicate(t, last) ==
  t = last /\ Refuse([stats EXCEPT !.duplicate = @ + 1])

RefuseRegressing(t, last) ==
  (t = NotFinite \/ t < last) /\ Refuse([stats EXCEPT !.regressing = @ + 1])

----------------------------------------------------------------------------
(* process()                                                               *)

Searching == pc = "process" /\ gyro # <<>> /\ Len(accel) >= 2

\* Faulty: an acceleration at the gyroscope's own time is skipped.
SkippableLate == accel[2] <= Head(gyro)

\* The second acceleration is still before the oldest gyroscope sample.
Skippable == accel[2] < Head(gyro)

\* Faulty: the search goes on without removing the acceleration.
SkipInPlace ==
  /\ Searching /\ Skippable
  /\ UNCHANGED vars

Skip ==
  /\ Searching /\ Skippable
  /\ accel' = Tail(accel)
  /\ UNCHANGED <<gyro, ready, newest, stats, stopped, pc, history>>

\* Faulty: the acceleration is extrapolated backwards.
BeforeBufferNever == FALSE

BeforeBuffer == Head(gyro) < accel[1]

\* No acceleration precedes the gyroscope sample.
Miss ==
  /\ Searching /\ ~Skippable /\ BeforeBuffer
  /\ gyro' = Tail(gyro)
  /\ stats' = [stats EXCEPT !.missing = @ + 1]
  /\ UNCHANGED <<accel, ready, newest, stopped, pc, history>>

\* After the search accel[2] is not before the gyroscope sample, and accepted
\* timestamps strictly increase: the returns of lines 89-91 and 93-97 are dead.
Emit ==
  /\ Searching /\ ~Skippable /\ ~BeforeBuffer
  /\ LET sample == [time |-> Head(gyro), before |-> accel[1], after |-> accel[2]]
     IN  /\ ready' = Push(ready, sample)
         /\ emitted' = Append(emitted, sample)
  /\ gyro' = Tail(gyro)
  /\ stats' = [stats EXCEPT !.generated = @ + 1, !.dropped = @ + Trimmed(ready)]
  /\ UNCHANGED <<accel, newest, stopped, pc, accelStream, gyroStream, taken>>

Return ==
  /\ pc = "process" /\ ~Searching
  /\ pc' = "idle"
  /\ UNCHANGED <<buffers, newest, stats, stopped, history>>

Process == Skip \/ Miss \/ Emit \/ Return

----------------------------------------------------------------------------
(* take_ready and shutdown                                                 *)

TakeReady ==
  /\ pc = "idle" /\ ready # <<>>
  /\ ready' = Tail(ready)
  /\ taken' = taken + 1
  /\ UNCHANGED <<accel, gyro, newest, stats, stopped, pc, accelStream, gyroStream, emitted>>

\* Faulty: the samples that still wait are forgotten.
ShutdownUncounted ==
  /\ pc = "idle" /\ ~stopped
  /\ stopped' = TRUE
  /\ accel' = <<>> /\ gyro' = <<>>
  /\ UNCHANGED <<ready, newest, stats, pc, history>>

\* Calling it again changes nothing.
Shutdown ==
  /\ pc = "idle" /\ ~stopped
  /\ stopped' = TRUE
  /\ stats' = [stats EXCEPT !.missing = @ + Len(gyro)]
  /\ accel' = <<>> /\ gyro' = <<>>
  /\ UNCHANGED <<ready, newest, pc, history>>

Refusals ==
  \/ RefuseInvalid
  \/ \E t \in Time, last \in {lastAccel, lastGyro} : RefuseDuplicate(t, last)
  \/ \E t \in Time \cup {NotFinite}, last \in {lastAccel, lastGyro} : RefuseRegressing(t, last)

Next ==
  \/ \E t \in Time : AddAccelerometer(t)
  \/ \E t \in Time : AddGyroscope(t)
  \/ Refusals
  \/ Process
  \/ TakeReady
  \/ Shutdown

Spec == Init /\ [][Next]_vars

\* The thread that called an add operation keeps running.
FairSpec == Spec /\ WF_vars(Process)

----------------------------------------------------------------------------
(* Properties                                                              *)

BuffersOK ==
  /\ accel \in Seq(Time) /\ Len(accel) <= Capacity
  /\ gyro \in Seq(Time) /\ Len(gyro) <= Capacity
  /\ ready \in Seq(Combined) /\ Len(ready) <= Capacity

HistoryOK ==
  /\ accelStream \in Seq(Time) /\ gyroStream \in Seq(Time)
  /\ emitted \in Seq(Combined) /\ taken \in Nat

\* Members keep their types and no buffer outgrows the capacity (lines 112-127).
TypeOK ==
  /\ BuffersOK
  /\ {lastAccel, lastGyro} \subseteq Time \cup {NoTime}
  /\ stats \in Stats
  /\ stopped \in BOOLEAN
  /\ pc \in {"idle", "process"}
  /\ HistoryOK

\* A combined sample is interpolated between two accelerations that followed each
\* other directly in the accepted stream, at a time within a proper interval, even
\* after trimming: line 98 never divides by zero and alpha is within 0..1.
Bracketed(sample) ==
  /\ sample.before < sample.after
  /\ sample.before <= sample.time /\ sample.time <= sample.after
  /\ \E i \in 1..(Len(accelStream) - 1) :
       sample.before = accelStream[i] /\ sample.after = accelStream[i + 1]

BracketsAreNeighbours == \A n \in 1..Len(emitted) : Bracketed(emitted[n])

\* The samples handed out, and those about to be, are in strict time order, and
\* what take_ready has yet to return is the newest end of what was emitted: the
\* dispatcher, which refuses older samples, will accept each one.
OutputInOrder ==
  /\ \A i, j \in 1..Len(emitted) : i < j => emitted[i].time < emitted[j].time
  /\ Len(ready) <= Len(emitted)
  /\ \A i \in 1..Len(ready) : ready[i] = emitted[Len(emitted) - Len(ready) + i]

\* If no buffer overflowed, and that is what the applications require of a good
\* run, every accepted gyroscope sample was emitted, counted as missing, or waits,
\* and every emitted sample was taken or waits.
AccountedFor ==
  stats.dropped = 0 =>
    /\ stats.receivedGyro = stats.generated + stats.missing + Len(gyro)
    /\ stats.generated = taken + Len(ready)

EmittedTimes == {emitted[n].time : n \in 1..Len(emitted)}

\* What the two streams alone decide: the gyroscope samples within the time the
\* accelerations span.
SpannedTimes ==
  {gyroStream[n] : n \in {k \in 1..Len(gyroStream) :
     /\ Len(accelStream) >= 2
     /\ accelStream[1] <= gyroStream[k]
     /\ gyroStream[k] <= accelStream[Len(accelStream)]}}

\* The output does not depend on how the two sensors' callbacks interleave:
\* between calls, and as long as nothing was dropped, exactly the gyroscope
\* samples the accelerations span have been emitted, none late and none lost.
\* With OutputInOrder this fixes the emitted sequence.
OutcomeIndependentOfArrival ==
  pc = "idle" /\ stats.dropped = 0 => EmittedTimes = SpannedTimes

\* An add operation returns: the nested loops of process() end.
ProcessReturns == pc = "process" ~> pc = "idle"

=============================================================================
