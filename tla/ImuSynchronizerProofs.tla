----------------------- MODULE ImuSynchronizerProofs -----------------------
(***************************************************************************)
(* Proofs about the IMU synchronizer for every set of timestamps and every *)
(* capacity.                                                               *)
(***************************************************************************)
EXTENDS ImuSynchronizer, SequenceTheorems, TLAPS

----------------------------------------------------------------------------
(* Buffers                                                                 *)

LEMMA CapacityType == Capacity \in Nat /\ Capacity >= 2
BY BoundAssumption DEF Capacity

\* A push keeps a buffer bounded, the new element is the last, and before it are
\* the elements of the old buffer, less the oldest one if the buffer was full.
LEMMA PushResult ==
  ASSUME NEW S, NEW b \in Seq(S), NEW x \in S, Len(b) <= Capacity
  PROVE  /\ Push(b, x) \in Seq(S) /\ Len(Push(b, x)) <= Capacity
         /\ Len(Push(b, x)) = Len(b) + 1 - Trimmed(b)
         /\ Push(b, x)[Len(Push(b, x))] = x
         /\ Trimmed(b) \in {0, 1} /\ Len(b) \in Nat
         /\ Push(b, x) # <<>>
<1>1. Len(b) \in Nat /\ Capacity \in Nat /\ Capacity >= 2
  BY CapacityType
<1>2. CASE Len(b) < Capacity
  <2>1. Push(b, x) = Append(b, x) /\ Trimmed(b) = 0
    BY <1>2 DEF Push, Trimmed
  <2>2. /\ Append(b, x) \in Seq(S) /\ Len(Append(b, x)) = Len(b) + 1
        /\ Append(b, x)[Len(b) + 1] = x
        /\ \A i \in 1..Len(b) : Append(b, x)[i] = b[i]
    OBVIOUS
  <2>3. QED BY <1>1, <1>2, <2>1, <2>2, EmptySeq
<1>3. CASE ~(Len(b) < Capacity)
  <2>1. Push(b, x) = Append(Tail(b), x) /\ Trimmed(b) = 1
    BY <1>3 DEF Push, Trimmed
  <2>2. b # <<>> /\ Len(b) = Capacity
    BY <1>1, <1>3, EmptySeq
  <2>3. /\ Tail(b) \in Seq(S) /\ Len(Tail(b)) = Len(b) - 1
        /\ \A i \in 1..Len(Tail(b)) : Tail(b)[i] = b[i + 1]
    BY <2>2, HeadTailProperties
  <2>4. /\ Append(Tail(b), x) \in Seq(S) /\ Len(Append(Tail(b), x)) = Len(b)
        /\ Append(Tail(b), x)[Len(b)] = x
        /\ \A i \in 1..(Len(b) - 1) : Append(Tail(b), x)[i] = Tail(b)[i]
    BY <1>1, <2>3
  <2>5. \A i \in 1..(Len(b) - 1) : i + 1 \in 1..Len(b)
    BY <1>1
  <2>6. QED BY <1>1, <2>1, <2>2, <2>3, <2>4, <2>5, EmptySeq
<1>4. QED BY <1>2, <1>3

LEMMA PushElement ==
  ASSUME NEW S, NEW b \in Seq(S), NEW x \in S, Len(b) <= Capacity,
         NEW i \in 1..(Len(Push(b, x)) - 1)
  PROVE  i + Trimmed(b) \in 1..Len(b) /\ Push(b, x)[i] = b[i + Trimmed(b)]
<1>1. Len(b) \in Nat /\ Capacity \in Nat /\ Capacity >= 2
  BY CapacityType
<1>2. CASE Len(b) < Capacity
  <2>1. Push(b, x) = Append(b, x) /\ Trimmed(b) = 0
    BY <1>2 DEF Push, Trimmed
  <2>2. Len(Append(b, x)) = Len(b) + 1 /\ \A k \in 1..Len(b) : Append(b, x)[k] = b[k]
    OBVIOUS
  <2>3. i \in 1..Len(b) /\ i + 0 = i
    BY <1>1, <2>1, <2>2
  <2>4. QED BY <2>1, <2>2, <2>3
<1>3. CASE ~(Len(b) < Capacity)
  <2>1. Push(b, x) = Append(Tail(b), x) /\ Trimmed(b) = 1
    BY <1>3 DEF Push, Trimmed
  <2>2. b # <<>>
    BY <1>1, <1>3, EmptySeq
  <2>3. /\ Tail(b) \in Seq(S) /\ Len(Tail(b)) = Len(b) - 1
        /\ \A k \in 1..Len(Tail(b)) : Tail(b)[k] = b[k + 1]
    BY <2>2, HeadTailProperties
  <2>4. /\ Len(Append(Tail(b), x)) = Len(b)
        /\ \A k \in 1..(Len(b) - 1) : Append(Tail(b), x)[k] = Tail(b)[k]
    BY <1>1, <2>3
  <2>5. i \in 1..(Len(b) - 1) /\ i + 1 \in 1..Len(b)
    BY <1>1, <2>1, <2>4
  <2>6. QED BY <2>1, <2>3, <2>4, <2>5
<1>4. QED BY <1>2, <1>3

\* Removing the oldest element.
LEMMA PopResult ==
  ASSUME NEW S, NEW b \in Seq(S), b # <<>>
  PROVE  /\ Head(b) = b[1] /\ Head(b) \in S /\ 1 \in 1..Len(b)
         /\ Tail(b) \in Seq(S) /\ Len(Tail(b)) = Len(b) - 1
         /\ \A i \in 1..Len(Tail(b)) : i + 1 \in 1..Len(b) /\ Tail(b)[i] = b[i + 1]
         /\ Len(b) \in Nat \ {0}
<1>1. /\ Head(b) \in S /\ Tail(b) \in Seq(S) /\ Len(Tail(b)) = Len(b) - 1
      /\ \A i \in 1..Len(Tail(b)) : Tail(b)[i] = b[i + 1]
  BY HeadTailProperties
<1>2. Len(b) \in Nat \ {0} /\ Head(b) = b[1]
  BY EmptySeq
<1>3. QED BY <1>1, <1>2

\* The elements of a sequence after an append.
LEMMA AppendResult ==
  ASSUME NEW S, NEW b \in Seq(S), NEW x \in S
  PROVE  /\ Append(b, x) \in Seq(S) /\ Len(Append(b, x)) = Len(b) + 1
         /\ Append(b, x)[Len(b) + 1] = x
         /\ \A i \in 1..Len(b) : Append(b, x)[i] = b[i]
         /\ Len(b) \in Nat
OBVIOUS

----------------------------------------------------------------------------
(* Types                                                                   *)

StampsOK == {lastAccel, lastGyro} \subseteq Time \cup {NoTime}

LEMMA SampleType ==
  ASSUME BuffersOK, Searching
  PROVE  /\ Head(gyro) \in Time /\ accel[1] \in Time /\ accel[2] \in Time
         /\ Head(gyro) = gyro[1] /\ 1 \in 1..Len(gyro) /\ 1 \in 1..Len(accel) /\ 2 \in 1..Len(accel)
         /\ [time |-> Head(gyro), before |-> accel[1], after |-> accel[2]] \in Combined
<1>1. gyro \in Seq(Time) /\ gyro # <<>> /\ accel \in Seq(Time) /\ Len(accel) >= 2
  BY DEF BuffersOK, Searching
<1>2. Len(accel) \in Nat /\ 1 \in 1..Len(accel) /\ 2 \in 1..Len(accel)
  BY <1>1
<1>3. accel[1] \in Time /\ accel[2] \in Time
  BY <1>1, <1>2
<1>4. QED BY <1>1, <1>2, <1>3, PopResult DEF Combined

LEMMA BuffersStep == BuffersOK /\ [Next]_vars => BuffersOK'
<1> SUFFICES ASSUME BuffersOK, [Next]_vars PROVE BuffersOK'
  OBVIOUS
<1>0. /\ accel \in Seq(Time) /\ Len(accel) <= Capacity
      /\ gyro \in Seq(Time) /\ Len(gyro) <= Capacity
      /\ ready \in Seq(Combined) /\ Len(ready) <= Capacity
  BY DEF BuffersOK
<1>1. ASSUME NEW t \in Time, AddAccelerometer(t) PROVE BuffersOK'
  BY <1>0, <1>1, PushResult DEF AddAccelerometer, BuffersOK
<1>2. ASSUME NEW t \in Time, AddGyroscope(t) PROVE BuffersOK'
  BY <1>0, <1>2, PushResult DEF AddGyroscope, BuffersOK
<1>3. CASE Skip
  <2>1. accel # <<>>
    BY <1>3, EmptySeq DEF Skip, Searching
  <2>2. Tail(accel) \in Seq(Time) /\ Len(Tail(accel)) = Len(accel) - 1 /\ Len(accel) \in Nat
    BY <1>0, <2>1, PopResult
  <2>3. Len(Tail(accel)) <= Capacity
    BY <1>0, <2>2, CapacityType
  <2>4. QED BY <1>0, <1>3, <2>2, <2>3 DEF Skip, BuffersOK
<1>4. ASSUME gyro # <<>> PROVE Tail(gyro) \in Seq(Time) /\ Len(Tail(gyro)) <= Capacity
  <2>1. Tail(gyro) \in Seq(Time) /\ Len(Tail(gyro)) = Len(gyro) - 1 /\ Len(gyro) \in Nat
    BY <1>0, <1>4, PopResult
  <2>2. QED BY <1>0, <2>1, CapacityType
<1>5. CASE Miss
  BY <1>0, <1>4, <1>5 DEF Miss, Searching, BuffersOK
<1>6. CASE Emit
  <2> DEFINE sample == [time |-> Head(gyro), before |-> accel[1], after |-> accel[2]]
  <2>1. sample \in Combined
    BY <1>6, SampleType DEF Emit
  <2>2. Push(ready, sample) \in Seq(Combined) /\ Len(Push(ready, sample)) <= Capacity
    BY <1>0, <2>1, PushResult
  <2>3. ready' = Push(ready, sample) /\ accel' = accel /\ gyro' = Tail(gyro) /\ gyro # <<>>
    BY <1>6 DEF Emit, Searching
  <2>4. QED BY <1>0, <1>4, <2>2, <2>3 DEF BuffersOK
<1>7. CASE TakeReady
  <2>1. Tail(ready) \in Seq(Combined) /\ Len(Tail(ready)) = Len(ready) - 1 /\ Len(ready) \in Nat
    BY <1>0, <1>7, PopResult DEF TakeReady
  <2>2. Len(Tail(ready)) <= Capacity
    BY <1>0, <2>1, CapacityType
  <2>3. QED BY <1>0, <1>7, <2>1, <2>2 DEF TakeReady, BuffersOK
<1>8. CASE Shutdown
  BY <1>0, <1>8, CapacityType DEF Shutdown, BuffersOK
<1>9. CASE UNCHANGED buffers
  BY <1>9 DEF BuffersOK, buffers
<1>10. QED
  BY <1>1, <1>2, <1>3, <1>5, <1>6, <1>7, <1>8, <1>9
  DEF Next, Process, Refusals, RefuseInvalid, RefuseDuplicate, RefuseRegressing, Refuse, Return, vars

LEMMA StampsStep == StampsOK /\ [Next]_vars => StampsOK'
<1> SUFFICES ASSUME StampsOK, [Next]_vars PROVE StampsOK'
  OBVIOUS
<1>1. ASSUME NEW t \in Time, AddAccelerometer(t) \/ AddGyroscope(t) PROVE StampsOK'
  BY <1>1 DEF AddAccelerometer, AddGyroscope, StampsOK
<1>2. CASE UNCHANGED newest
  BY <1>2 DEF newest, StampsOK
<1>3. QED
  BY <1>1, <1>2
  DEF Next, Process, Refusals, RefuseInvalid, RefuseDuplicate, RefuseRegressing, Refuse, Return,
      Skip, Miss, Emit, TakeReady, Shutdown, vars

LEMMA StatsStep == BuffersOK /\ stats \in Stats /\ [Next]_vars => stats' \in Stats
<1> SUFFICES ASSUME BuffersOK, stats \in Stats, [Next]_vars PROVE stats' \in Stats
  OBVIOUS
<1>0. /\ Len(gyro) \in Nat /\ Trimmed(accel) \in Nat /\ Trimmed(gyro) \in Nat
      /\ Trimmed(ready) \in Nat
  <2>1. \A b : Trimmed(b) \in Nat
    BY DEF Trimmed
  <2>2. gyro \in Seq(Time)
    BY SMTT(60) DEF BuffersOK
  <2>3. QED BY <2>1, <2>2
<1>1. ASSUME NEW t \in Time, AddAccelerometer(t) \/ AddGyroscope(t) PROVE stats' \in Stats
  <2>1. ASSUME NEW n \in Nat
        PROVE  /\ [stats EXCEPT !.receivedAccel = @ + 1, !.dropped = @ + n] \in Stats
               /\ [stats EXCEPT !.receivedGyro = @ + 1, !.dropped = @ + n] \in Stats
    <3>1. stats.receivedAccel + 1 \in Nat /\ stats.receivedGyro + 1 \in Nat /\ stats.dropped + n \in Nat
      BY DEF Stats
    <3>2. QED BY <3>1 DEF Stats
  <2>2. \/ stats' = [stats EXCEPT !.receivedAccel = @ + 1, !.dropped = @ + Trimmed(accel)]
        \/ stats' = [stats EXCEPT !.receivedGyro = @ + 1, !.dropped = @ + Trimmed(gyro)]
    BY <1>1 DEF AddAccelerometer, AddGyroscope
  <2>3. QED BY <1>0, <2>1, <2>2
<1>2. CASE Refusals
  BY <1>2 DEF Refusals, RefuseInvalid, RefuseDuplicate, RefuseRegressing, Refuse, Stats
<1>3. CASE Miss
  BY <1>3 DEF Miss, Stats
<1>4. CASE Emit
  <2>1. ASSUME NEW n \in Nat
        PROVE  [stats EXCEPT !.generated = @ + 1, !.dropped = @ + n] \in Stats
    <3>1. stats.generated + 1 \in Nat /\ stats.dropped + n \in Nat
      BY DEF Stats
    <3>2. QED BY <3>1 DEF Stats
  <2>2. stats' = [stats EXCEPT !.generated = @ + 1, !.dropped = @ + Trimmed(ready)]
    BY <1>4 DEF Emit
  <2>3. QED BY <1>0, <2>1, <2>2
<1>5. CASE Shutdown
  BY <1>0, <1>5, SMTT(60) DEF Shutdown, Stats
<1>6. CASE UNCHANGED stats
  BY <1>6
<1>7. QED
  BY <1>1, <1>2, <1>3, <1>4, <1>5, <1>6 DEF Next, Process, Skip, Return, TakeReady, vars

LEMMA HistoryStep == BuffersOK /\ HistoryOK /\ [Next]_vars => HistoryOK'
<1> SUFFICES ASSUME BuffersOK, HistoryOK, [Next]_vars PROVE HistoryOK'
  OBVIOUS
<1> USE DEF HistoryOK
<1>1. ASSUME NEW t \in Time, AddAccelerometer(t) PROVE HistoryOK'
  BY <1>1, AppendResult DEF AddAccelerometer
<1>2. ASSUME NEW t \in Time, AddGyroscope(t) PROVE HistoryOK'
  BY <1>2, AppendResult DEF AddGyroscope
<1>3. CASE Emit
  <2> DEFINE sample == [time |-> Head(gyro), before |-> accel[1], after |-> accel[2]]
  <2>1. sample \in Combined
    BY <1>3, SampleType DEF Emit
  <2>2. emitted' = Append(emitted, sample) /\ UNCHANGED <<accelStream, gyroStream, taken>>
    BY <1>3 DEF Emit
  <2>3. QED BY <2>1, <2>2, AppendResult
<1>4. CASE TakeReady
  BY <1>4 DEF TakeReady
<1>5. CASE UNCHANGED history
  BY <1>5 DEF history
<1>6. QED
  BY <1>1, <1>2, <1>3, <1>4, <1>5
  DEF Next, Process, Refusals, RefuseInvalid, RefuseDuplicate, RefuseRegressing, Refuse, Return,
      Skip, Miss, Shutdown, vars

\* No buffer outgrows the capacity whatever the streams (lines 112-127).
THEOREM TypeCorrect == Spec => []TypeOK
<1>1. Init => TypeOK
  <2> SUFFICES ASSUME Init PROVE TypeOK
    OBVIOUS
  <2>1. BuffersOK /\ HistoryOK
    BY CapacityType DEF Init, BuffersOK, HistoryOK
  <2>2. stats \in Stats
    BY DEF Init, Stats
  <2>3. QED BY <2>1, <2>2 DEF Init, TypeOK
<1>2. TypeOK /\ [Next]_vars => TypeOK'
  <2> SUFFICES ASSUME TypeOK, [Next]_vars PROVE TypeOK'
    OBVIOUS
  <2>1. stopped' \in BOOLEAN
    BY DEF TypeOK, Next, Process, Refusals, RefuseInvalid, RefuseDuplicate, RefuseRegressing, Refuse,
           Return, vars, AddAccelerometer, AddGyroscope, Skip, Miss, Emit, TakeReady, Shutdown
  <2>2. pc' \in {"idle", "process"}
    BY DEF TypeOK, Next, Process, Refusals, RefuseInvalid, RefuseDuplicate, RefuseRegressing, Refuse,
           Return, vars, AddAccelerometer, AddGyroscope, Skip, Miss, Emit, TakeReady, Shutdown
  <2>3. BuffersOK' /\ StampsOK' /\ stats' \in Stats /\ HistoryOK'
    BY BuffersStep, StampsStep, StatsStep, HistoryStep DEF TypeOK, StampsOK
  <2>4. QED BY <2>1, <2>2, <2>3 DEF TypeOK, StampsOK
<1>3. QED BY <1>1, <1>2, PTL DEF Spec

----------------------------------------------------------------------------
(* Order: the accelerations buffered are the newest end of the accepted    *)
(* stream, the gyroscope samples buffered follow all that were emitted.    *)

IsEndOf(b, s) ==
  /\ Len(b) <= Len(s)
  /\ \A i \in 1..Len(b) : b[i] = s[Len(s) - Len(b) + i]

StreamOrder ==
  /\ \A i, j \in 1..Len(accelStream) : i < j => accelStream[i] < accelStream[j]
  /\ \A i \in 1..Len(accelStream) : accelStream[i] <= lastAccel
  /\ accelStream # <<>> => accelStream[Len(accelStream)] = lastAccel
  /\ IsEndOf(accel, accelStream)

GyroOrder ==
  /\ \A i, j \in 1..Len(gyro) : i < j => gyro[i] < gyro[j]
  /\ \A i \in 1..Len(gyro) : gyro[i] <= lastGyro
  /\ \A n \in 1..Len(emitted) :
       /\ emitted[n].time <= lastGyro
       /\ \A i \in 1..Len(gyro) : emitted[n].time < gyro[i]

Ordered == /\ BuffersOK /\ StampsOK /\ stats \in Stats /\ HistoryOK
           /\ StreamOrder /\ GyroOrder /\ BracketsAreNeighbours /\ OutputInOrder

LEMMA EndAfterPush ==
  ASSUME NEW S, NEW b \in Seq(S), NEW s \in Seq(S), NEW x \in S,
         Len(b) <= Capacity, IsEndOf(b, s)
  PROVE  IsEndOf(Push(b, x), Append(s, x))
<1> DEFINE c == Push(b, x)
           r == Append(s, x)
           d == Trimmed(b)
<1>1. /\ Len(c) = Len(b) + 1 - d /\ c[Len(c)] = x /\ d \in {0, 1} /\ Len(b) \in Nat
      /\ \A i \in 1..(Len(c) - 1) : i + d \in 1..Len(b) /\ c[i] = b[i + d]
  <2>1. /\ Len(Push(b, x)) = Len(b) + 1 - Trimmed(b)
        /\ Push(b, x)[Len(Push(b, x))] = x
        /\ Trimmed(b) \in {0, 1} /\ Len(b) \in Nat
    BY PushResult
  <2>2. ASSUME NEW i \in 1..(Len(Push(b, x)) - 1)
        PROVE  i + Trimmed(b) \in 1..Len(b) /\ Push(b, x)[i] = b[i + Trimmed(b)]
    BY PushElement
  <2>3. QED BY <2>1, <2>2
<1>2. /\ Len(r) = Len(s) + 1 /\ r[Len(s) + 1] = x /\ Len(s) \in Nat
      /\ \A i \in 1..Len(s) : r[i] = s[i]
  BY AppendResult
<1>3. Len(b) <= Len(s) /\ \A i \in 1..Len(b) : b[i] = s[Len(s) - Len(b) + i]
  BY DEF IsEndOf
<1> HIDE DEF c, r, d
<1>4. Len(c) <= Len(r)
  BY <1>1, <1>2, <1>3
<1>5. ASSUME NEW i \in 1..Len(c) PROVE c[i] = r[Len(r) - Len(c) + i]
  <2>1. CASE i = Len(c)
    BY <1>1, <1>2, <2>1
  <2>2. CASE i # Len(c)
    <3>1. i \in 1..(Len(c) - 1)
      BY <1>1, <2>2
    <3>2. c[i] = b[i + d] /\ i + d \in 1..Len(b)
      BY <1>1, <3>1
    <3>3. b[i + d] = s[Len(s) - Len(b) + (i + d)]
      BY <1>3, <3>2
    <3>4. Len(s) - Len(b) + (i + d) \in 1..Len(s)
      BY <1>1, <1>2, <1>3, <3>2
    <3>5. Len(r) - Len(c) + i = Len(s) - Len(b) + (i + d)
      BY <1>1, <1>2
    <3>6. QED BY <1>2, <3>2, <3>3, <3>4, <3>5
  <2>3. QED BY <2>1, <2>2
<1>6. QED BY <1>4, <1>5 DEF IsEndOf, c, r

LEMMA EndAfterPop ==
  ASSUME NEW S, NEW b \in Seq(S), NEW s \in Seq(S), b # <<>>, IsEndOf(b, s)
  PROVE  IsEndOf(Tail(b), s)
<1>1. /\ Len(Tail(b)) = Len(b) - 1 /\ Len(b) \in Nat \ {0} /\ Len(s) \in Nat
      /\ \A i \in 1..Len(Tail(b)) : i + 1 \in 1..Len(b) /\ Tail(b)[i] = b[i + 1]
  BY PopResult
<1>2. Len(b) <= Len(s) /\ \A i \in 1..Len(b) : b[i] = s[Len(s) - Len(b) + i]
  BY DEF IsEndOf
<1>3. ASSUME NEW i \in 1..Len(Tail(b)) PROVE Tail(b)[i] = s[Len(s) - Len(Tail(b)) + i]
  <2>1. Tail(b)[i] = s[Len(s) - Len(b) + (i + 1)]
    BY <1>1, <1>2
  <2>2. Len(s) - Len(b) + (i + 1) = Len(s) - Len(Tail(b)) + i
    BY <1>1
  <2>3. QED BY <2>1, <2>2
<1>4. QED BY <1>1, <1>2, <1>3 DEF IsEndOf

\* A push of a newer timestamp keeps a buffer sorted and bounded by the newest.
LEMMA PushSorted ==
  ASSUME NEW b \in Seq(Time), NEW t \in Time, Len(b) <= Capacity,
         NEW last \in Time \cup {NoTime}, t > last,
         \A i, j \in 1..Len(b) : i < j => b[i] < b[j],
         \A i \in 1..Len(b) : b[i] <= last
  PROVE  /\ \A i, j \in 1..Len(Push(b, t)) : i < j => Push(b, t)[i] < Push(b, t)[j]
         /\ \A i \in 1..Len(Push(b, t)) : Push(b, t)[i] <= t
         /\ \A i \in 1..Len(Push(b, t)) :
              Push(b, t)[i] = t \/ \E k \in 1..Len(b) : Push(b, t)[i] = b[k]
<1> DEFINE c == Push(b, t)
           d == Trimmed(b)
<1>1. /\ Len(c) = Len(b) + 1 - d /\ c[Len(c)] = t /\ d \in {0, 1} /\ Len(b) \in Nat
      /\ \A i \in 1..(Len(c) - 1) : i + d \in 1..Len(b) /\ c[i] = b[i + d]
  <2>1. /\ Len(Push(b, t)) = Len(b) + 1 - Trimmed(b)
        /\ Push(b, t)[Len(Push(b, t))] = t
        /\ Trimmed(b) \in {0, 1} /\ Len(b) \in Nat
    BY PushResult
  <2>2. ASSUME NEW i \in 1..(Len(Push(b, t)) - 1)
        PROVE  i + Trimmed(b) \in 1..Len(b) /\ Push(b, t)[i] = b[i + Trimmed(b)]
    BY PushElement
  <2>3. QED BY <2>1, <2>2
<1> HIDE DEF c, d
<1>2. \A x \in Time \cup {NoTime} : x \in Int
  BY TimeAssumption DEF NoTime
<1>3. \A k \in 1..Len(b) : b[k] \in Time
  OBVIOUS
<1>4. ASSUME NEW i \in 1..(Len(c) - 1) PROVE c[i] < t /\ \E k \in 1..Len(b) : c[i] = b[k]
  <2>1. c[i] = b[i + d] /\ i + d \in 1..Len(b)
    BY <1>1
  <2>2. b[i + d] \in Int /\ last \in Int /\ t \in Int /\ b[i + d] <= last
    BY <1>2, <1>3, <2>1
  <2>3. QED BY <2>1, <2>2
<1>5. \A i \in 1..Len(c) : i = Len(c) \/ i \in 1..(Len(c) - 1)
  BY <1>1
<1>6. ASSUME NEW i \in 1..Len(c), NEW j \in 1..Len(c), i < j PROVE c[i] < c[j]
  <2>1. i \in 1..(Len(c) - 1)
    BY <1>1, <1>6
  <2>2. CASE j = Len(c)
    BY <1>1, <1>4, <2>1, <2>2
  <2>3. CASE j \in 1..(Len(c) - 1)
    <3>1. c[i] = b[i + d] /\ c[j] = b[j + d] /\ i + d \in 1..Len(b) /\ j + d \in 1..Len(b)
      BY <1>1, <2>1, <2>3
    <3>2. i + d < j + d
      BY <1>1, <1>6
    <3>3. QED BY <3>1, <3>2
  <2>4. QED BY <1>5, <2>2, <2>3
<1>7. t <= t
  BY <1>2
<1>8. \A i \in 1..Len(c) : c[i] <= t
  <2> TAKE i \in 1..Len(c)
  <2>1. CASE i = Len(c)
    BY <1>1, <1>7, <2>1
  <2>2. CASE i \in 1..(Len(c) - 1)
    <3>1. PICK k \in 1..Len(b) : c[i] = b[k]
      BY <1>4, <2>2
    <3>2. c[i] < t /\ c[i] \in Int /\ t \in Int
      BY <1>2, <1>3, <1>4, <2>2, <3>1
    <3>3. QED BY <3>2
  <2>3. QED BY <1>5, <2>1, <2>2
<1>9. \A i \in 1..Len(c) : c[i] = t \/ \E k \in 1..Len(b) : c[i] = b[k]
  BY <1>1, <1>4, <1>5
<1>10. QED BY <1>6, <1>8, <1>9 DEF c

LEMMA StreamOrderStep == Ordered /\ [Next]_vars => StreamOrder'
<1> SUFFICES ASSUME Ordered, [Next]_vars PROVE StreamOrder'
  OBVIOUS
<1>0. BuffersOK /\ StampsOK /\ HistoryOK /\ StreamOrder
  BY DEF Ordered
<1>a. accel \in Seq(Time) /\ accelStream \in Seq(Time) /\ Len(accel) <= Capacity
  BY <1>0 DEF BuffersOK, HistoryOK
<1>1. ASSUME NEW t \in Time, AddAccelerometer(t) PROVE StreamOrder'
  <2>1. accelStream' = Append(accelStream, t) /\ lastAccel' = t /\ t > lastAccel
    BY <1>1 DEF AddAccelerometer
  <2>2. IsEndOf(accel', accelStream')
    BY <1>0, <1>1, <1>a, EndAfterPush DEF StreamOrder, AddAccelerometer
  <2>3. /\ Len(accelStream') = Len(accelStream) + 1 /\ Len(accelStream) \in Nat
        /\ accelStream'[Len(accelStream) + 1] = t
        /\ \A i \in 1..Len(accelStream) : accelStream'[i] = accelStream[i]
    BY <1>a, <2>1, AppendResult
  <2>4. \A x \in Time \cup {NoTime} : x \in Int
    BY TimeAssumption DEF NoTime
  <2>5. lastAccel \in Int /\ t \in Int
    BY <1>0, <2>4 DEF StampsOK
  <2>6. \A i \in 1..Len(accelStream) : accelStream[i] \in Int
    BY <1>a, <2>4
  <2>7. \A i \in 1..Len(accelStream) : accelStream[i] < t
    BY <1>0, <2>1, <2>5, <2>6 DEF StreamOrder
  <2>8. \A i \in 1..Len(accelStream') : i = Len(accelStream) + 1 \/ i \in 1..Len(accelStream)
    BY <2>3
  <2>9. \A i, j \in 1..Len(accelStream') : i < j => accelStream'[i] < accelStream'[j]
    <3> SUFFICES ASSUME NEW i \in 1..Len(accelStream'), NEW j \in 1..Len(accelStream'), i < j
                 PROVE  accelStream'[i] < accelStream'[j]
      OBVIOUS
    <3>1. i \in 1..Len(accelStream)
      BY <2>3
    <3>2. CASE j = Len(accelStream) + 1
      BY <2>3, <2>7, <3>1, <3>2
    <3>3. CASE j \in 1..Len(accelStream)
      BY <1>0, <2>3, <3>1, <3>3 DEF StreamOrder
    <3>4. QED BY <2>8, <3>2, <3>3
  <2>10. \A i \in 1..Len(accelStream') : accelStream'[i] <= t
    BY <2>3, <2>5, <2>6, <2>7, <2>8
  <2>11. QED BY <2>1, <2>2, <2>3, <2>9, <2>10 DEF StreamOrder
<1>2. ASSUME UNCHANGED <<accelStream, lastAccel>>, IsEndOf(accel', accelStream) PROVE StreamOrder'
  BY <1>0, <1>2 DEF StreamOrder
<1>3. CASE Skip
  <2>1. accel # <<>>
    BY <1>3, EmptySeq DEF Skip, Searching
  <2>2. IsEndOf(Tail(accel), accelStream)
    BY <1>0, <1>a, <2>1, EndAfterPop DEF StreamOrder
  <2>3. QED BY <1>2, <1>3, <2>2 DEF Skip, newest, history
<1>4. CASE Shutdown
  <2>1. IsEndOf(<<>>, accelStream)
    BY <1>a DEF IsEndOf
  <2>2. QED BY <1>2, <1>4, <2>1 DEF Shutdown, newest, history
<1>5. CASE UNCHANGED <<accel, accelStream, lastAccel>>
  BY <1>0, <1>2, <1>5 DEF StreamOrder
<1>6. QED
  BY <1>1, <1>3, <1>4, <1>5
  DEF Next, Process, Refusals, RefuseInvalid, RefuseDuplicate, RefuseRegressing, Refuse, Return,
      AddGyroscope, Miss, Emit, TakeReady, vars, buffers, newest, history

LEMMA GyroOrderStep == Ordered /\ [Next]_vars => GyroOrder'
<1> SUFFICES ASSUME Ordered, [Next]_vars PROVE GyroOrder'
  OBVIOUS
<1>0. BuffersOK /\ StampsOK /\ HistoryOK /\ GyroOrder
  BY DEF Ordered
<1>a. gyro \in Seq(Time) /\ Len(gyro) <= Capacity /\ emitted \in Seq(Combined)
  BY <1>0 DEF BuffersOK, HistoryOK
<1>b. \A x \in Time \cup {NoTime} : x \in Int
  BY TimeAssumption DEF NoTime
<1>c. \A n \in 1..Len(emitted) : emitted[n].time \in Time
  <2>1. \A n \in 1..Len(emitted) : emitted[n] \in Combined
    BY <1>a
  <2>2. \A e \in Combined : e.time \in Time
    BY DEF Combined
  <2>3. QED BY <2>1, <2>2
<1>1. ASSUME NEW t \in Time, AddGyroscope(t) PROVE GyroOrder'
  <2>1. lastGyro' = t /\ t > lastGyro /\ gyro' = Push(gyro, t) /\ emitted' = emitted
    BY <1>1 DEF AddGyroscope
  <2>2. lastGyro \in Time \cup {NoTime}
    BY <1>0 DEF StampsOK
  <2>3. /\ \A i, j \in 1..Len(gyro') : i < j => gyro'[i] < gyro'[j]
        /\ \A i \in 1..Len(gyro') : gyro'[i] <= t
        /\ \A i \in 1..Len(gyro') : gyro'[i] = t \/ \E k \in 1..Len(gyro) : gyro'[i] = gyro[k]
    BY <1>0, <1>a, <2>1, <2>2, PushSorted DEF GyroOrder
  <2>4. \A n \in 1..Len(emitted) : emitted[n].time < t
    BY <1>0, <1>b, <1>c, <2>1, <2>2 DEF GyroOrder
  <2>5. \A n \in 1..Len(emitted) : emitted[n].time <= t
    BY <1>b, <1>c, <2>4
  <2>6. \A n \in 1..Len(emitted) : \A i \in 1..Len(gyro') : emitted[n].time < gyro'[i]
    BY <1>0, <2>3, <2>4 DEF GyroOrder
  <2>7. QED BY <2>1, <2>3, <2>5, <2>6 DEF GyroOrder
<1>2. ASSUME gyro # <<>>
      PROVE  /\ \A i, j \in 1..Len(Tail(gyro)) : i < j => Tail(gyro)[i] < Tail(gyro)[j]
             /\ \A i \in 1..Len(Tail(gyro)) : Tail(gyro)[i] <= lastGyro /\ Head(gyro) < Tail(gyro)[i]
             /\ \A n \in 1..Len(emitted), i \in 1..Len(Tail(gyro)) : emitted[n].time < Tail(gyro)[i]
             /\ Head(gyro) \in Time /\ Head(gyro) <= lastGyro
  <2>1. /\ Head(gyro) = gyro[1] /\ Head(gyro) \in Time /\ 1 \in 1..Len(gyro)
        /\ Len(Tail(gyro)) = Len(gyro) - 1 /\ Len(gyro) \in Nat \ {0}
        /\ \A i \in 1..Len(Tail(gyro)) : i + 1 \in 1..Len(gyro) /\ Tail(gyro)[i] = gyro[i + 1]
    BY <1>a, <1>2, PopResult
  <2>2. \A i, j \in 1..Len(Tail(gyro)) : i < j => i + 1 < j + 1
    BY <2>1
  <2>3. \A i \in 1..Len(Tail(gyro)) : 1 < i + 1
    BY <2>1
  <2>4. QED BY <1>0, <2>1, <2>2, <2>3 DEF GyroOrder
<1>3. CASE Miss
  <2>1. gyro' = Tail(gyro) /\ gyro # <<>> /\ UNCHANGED <<lastGyro, emitted>>
    BY <1>3 DEF Miss, Searching, newest, history
  <2>2. QED BY <1>0, <1>2, <2>1 DEF GyroOrder
<1>4. CASE Emit
  <2> DEFINE sample == [time |-> Head(gyro), before |-> accel[1], after |-> accel[2]]
  <2>1. /\ gyro' = Tail(gyro) /\ gyro # <<>> /\ lastGyro' = lastGyro
        /\ emitted' = Append(emitted, sample)
    BY <1>4 DEF Emit, Searching, newest
  <2>2. sample \in Combined /\ sample.time = Head(gyro)
    BY <1>0, <1>4, SampleType DEF Emit
  <2> HIDE DEF sample
  <2>3. /\ Len(emitted') = Len(emitted) + 1 /\ emitted'[Len(emitted) + 1] = sample
        /\ Len(emitted) \in Nat
        /\ \A n \in 1..Len(emitted) : emitted'[n] = emitted[n]
    BY <1>a, <2>1, <2>2, AppendResult
  <2>4. \A n \in 1..Len(emitted') : n = Len(emitted) + 1 \/ n \in 1..Len(emitted)
    BY <2>3
  <2>5. \A n \in 1..Len(emitted') :
          emitted'[n].time <= lastGyro /\ \A i \in 1..Len(gyro') : emitted'[n].time < gyro'[i]
    BY <1>0, <1>2, <2>1, <2>2, <2>3, <2>4 DEF GyroOrder
  <2>6. QED BY <1>2, <2>1, <2>5 DEF GyroOrder
<1>5. CASE Shutdown
  <2>1. gyro' = <<>> /\ UNCHANGED <<lastGyro, emitted>>
    BY <1>5 DEF Shutdown, newest, history
  <2>2. QED BY <1>0, <2>1, EmptySeq DEF GyroOrder
<1>6. CASE UNCHANGED <<gyro, lastGyro, emitted>>
  BY <1>0, <1>6 DEF GyroOrder
<1>7. QED
  BY <1>1, <1>3, <1>4, <1>5, <1>6
  DEF Next, Process, Refusals, RefuseInvalid, RefuseDuplicate, RefuseRegressing, Refuse, Return,
      AddAccelerometer, Skip, TakeReady, vars, buffers, newest, history

----------------------------------------------------------------------------
(* The output                                                              *)

\* The oldest gyroscope sample, when it is combined.
LEMMA EmitBracketed ==
  ASSUME BuffersOK, HistoryOK, StreamOrder, Emit
  PROVE  Bracketed([time |-> Head(gyro), before |-> accel[1], after |-> accel[2]])
<1> DEFINE sample == [time |-> Head(gyro), before |-> accel[1], after |-> accel[2]]
           k == Len(accelStream) - Len(accel) + 1
<1>1. /\ Head(gyro) \in Time /\ accel[1] \in Time /\ accel[2] \in Time
      /\ 1 \in 1..Len(accel) /\ 2 \in 1..Len(accel)
  BY SampleType DEF Emit
<1>2. ~(accel[2] < Head(gyro)) /\ ~(Head(gyro) < accel[1])
  BY DEF Emit, Skippable, BeforeBuffer
<1>3. \A x \in Time : x \in Int
  BY TimeAssumption
<1>4. accel[1] <= Head(gyro) /\ Head(gyro) <= accel[2]
  BY <1>1, <1>2, <1>3
<1>5. Len(accel) \in Nat /\ Len(accelStream) \in Nat /\ Len(accel) <= Len(accelStream)
  BY DEF BuffersOK, HistoryOK, StreamOrder, IsEndOf
<1>6. Len(accel) >= 2
  BY DEF Emit, Searching
<1>7. k \in 1..(Len(accelStream) - 1) /\ k \in 1..Len(accelStream) /\ k + 1 \in 1..Len(accelStream)
      /\ k < k + 1
  BY <1>5, <1>6
<1>8. /\ accel[1] = accelStream[Len(accelStream) - Len(accel) + 1]
      /\ accel[2] = accelStream[Len(accelStream) - Len(accel) + 2]
  BY <1>1 DEF StreamOrder, IsEndOf
<1>9. Len(accelStream) - Len(accel) + 2 = k + 1
  BY <1>5
<1>10. accel[1] = accelStream[k] /\ accel[2] = accelStream[k + 1]
  BY <1>8, <1>9
<1> HIDE DEF k
<1>11. accelStream[k] < accelStream[k + 1]
  BY <1>7 DEF StreamOrder
<1>12. accel[1] < accel[2]
  BY <1>10, <1>11
<1>13. sample.time = Head(gyro) /\ sample.before = accel[1] /\ sample.after = accel[2]
  OBVIOUS
<1> HIDE DEF sample
<1>14. Bracketed(sample)
  BY <1>4, <1>7, <1>10, <1>12, <1>13 DEF Bracketed
<1>15. QED BY <1>14 DEF sample

\* Accepting another acceleration leaves the neighbours neighbours.
LEMMA BracketedStays ==
  ASSUME HistoryOK, NEW t \in Time, NEW e, Bracketed(e),
         accelStream' = Append(accelStream, t)
  PROVE  /\ e.before < e.after /\ e.before <= e.time /\ e.time <= e.after
         /\ \E i \in 1..(Len(accelStream') - 1) :
              e.before = accelStream'[i] /\ e.after = accelStream'[i + 1]
<1>1. /\ Len(accelStream') = Len(accelStream) + 1 /\ Len(accelStream) \in Nat
      /\ \A i \in 1..Len(accelStream) : accelStream'[i] = accelStream[i]
  BY AppendResult DEF HistoryOK
<1>2. PICK i \in 1..(Len(accelStream) - 1) :
        e.before = accelStream[i] /\ e.after = accelStream[i + 1]
  BY DEF Bracketed
<1>3. /\ i \in 1..Len(accelStream) /\ i + 1 \in 1..Len(accelStream)
      /\ i \in 1..(Len(accelStream') - 1)
  BY <1>1
<1>4. e.before = accelStream'[i] /\ e.after = accelStream'[i + 1]
  BY <1>1, <1>2, <1>3
<1>5. QED BY <1>3, <1>4 DEF Bracketed

LEMMA BracketsStep == Ordered /\ [Next]_vars => BracketsAreNeighbours'
<1> SUFFICES ASSUME Ordered, [Next]_vars, NEW n \in 1..Len(emitted') PROVE Bracketed(emitted[n])'
  BY DEF BracketsAreNeighbours
<1>0. BuffersOK /\ HistoryOK /\ StreamOrder /\ BracketsAreNeighbours
  BY DEF Ordered
<1>1. ASSUME NEW t \in Time, AddAccelerometer(t) PROVE Bracketed(emitted[n])'
  <2>1. emitted' = emitted /\ accelStream' = Append(accelStream, t)
    BY <1>1 DEF AddAccelerometer
  <2>2. Bracketed(emitted[n])
    BY <1>0, <2>1 DEF BracketsAreNeighbours
  <2>3. QED BY <1>0, <2>1, <2>2, BracketedStays DEF Bracketed
<1>2. CASE Emit
  <2> DEFINE sample == [time |-> Head(gyro), before |-> accel[1], after |-> accel[2]]
  <2>1. accelStream' = accelStream /\ emitted' = Append(emitted, sample)
    BY <1>2 DEF Emit
  <2>2. sample \in Combined /\ Bracketed(sample)
    BY <1>0, <1>2, SampleType, EmitBracketed DEF Emit
  <2> HIDE DEF sample
  <2>3. /\ Len(emitted') = Len(emitted) + 1 /\ emitted'[Len(emitted) + 1] = sample
        /\ Len(emitted) \in Nat /\ \A i \in 1..Len(emitted) : emitted'[i] = emitted[i]
    BY <1>0, <2>1, <2>2, AppendResult DEF HistoryOK
  <2>4. n = Len(emitted) + 1 \/ n \in 1..Len(emitted)
    BY <2>3
  <2>5. Bracketed(emitted'[n])
    BY <1>0, <2>2, <2>3, <2>4 DEF BracketsAreNeighbours
  <2>6. QED BY <2>1, <2>5 DEF Bracketed
<1>3. CASE UNCHANGED <<emitted, accelStream>>
  <2>1. Bracketed(emitted[n])
    BY <1>0, <1>3 DEF BracketsAreNeighbours
  <2>2. QED BY <1>3, <2>1 DEF Bracketed
<1>4. QED
  BY <1>1, <1>2, <1>3
  DEF Next, Process, Refusals, RefuseInvalid, RefuseDuplicate, RefuseRegressing, Refuse, Return,
      AddGyroscope, Skip, Miss, TakeReady, Shutdown, vars, history

LEMMA OutputStep == Ordered /\ [Next]_vars => OutputInOrder'
<1> SUFFICES ASSUME Ordered, [Next]_vars PROVE OutputInOrder'
  OBVIOUS
<1>0. BuffersOK /\ HistoryOK /\ GyroOrder /\ OutputInOrder
  BY DEF Ordered
<1>a. /\ ready \in Seq(Combined) /\ Len(ready) <= Capacity /\ emitted \in Seq(Combined)
      /\ IsEndOf(ready, emitted)
  BY <1>0 DEF BuffersOK, HistoryOK, OutputInOrder, IsEndOf
<1>1. CASE Emit
  <2> DEFINE sample == [time |-> Head(gyro), before |-> accel[1], after |-> accel[2]]
  <2>1. ready' = Push(ready, sample) /\ emitted' = Append(emitted, sample) /\ gyro # <<>>
    BY <1>1 DEF Emit, Searching
  <2>2. sample \in Combined /\ sample.time = gyro[1] /\ 1 \in 1..Len(gyro)
    BY <1>0, <1>1, SampleType DEF Emit
  <2> HIDE DEF sample
  <2>3. IsEndOf(ready', emitted')
    BY <1>a, <2>1, <2>2, EndAfterPush
  <2>4. /\ Len(emitted') = Len(emitted) + 1 /\ emitted'[Len(emitted) + 1] = sample
        /\ Len(emitted) \in Nat /\ \A i \in 1..Len(emitted) : emitted'[i] = emitted[i]
    BY <1>a, <2>1, <2>2, AppendResult
  <2>5. \A i \in 1..Len(emitted) : emitted[i].time < sample.time
    BY <1>0, <2>2 DEF GyroOrder
  <2>6. \A i, j \in 1..Len(emitted') : i < j => emitted'[i].time < emitted'[j].time
    <3> SUFFICES ASSUME NEW i \in 1..Len(emitted'), NEW j \in 1..Len(emitted'), i < j
                 PROVE  emitted'[i].time < emitted'[j].time
      OBVIOUS
    <3>1. i \in 1..Len(emitted) /\ (j = Len(emitted) + 1 \/ j \in 1..Len(emitted))
      BY <2>4
    <3>2. QED BY <1>0, <2>4, <2>5, <3>1 DEF OutputInOrder
  <2>7. QED BY <2>3, <2>6 DEF OutputInOrder, IsEndOf
<1>2. ASSUME emitted' = emitted, IsEndOf(ready', emitted) PROVE OutputInOrder'
  BY <1>0, <1>2 DEF OutputInOrder, IsEndOf
<1>3. CASE TakeReady
  <2>1. IsEndOf(Tail(ready), emitted)
    BY <1>a, <1>3, EndAfterPop DEF TakeReady
  <2>2. QED BY <1>2, <1>3, <2>1 DEF TakeReady
<1>4. CASE UNCHANGED <<ready, emitted>>
  BY <1>a, <1>2, <1>4
<1>5. QED
  BY <1>1, <1>3, <1>4
  DEF Next, Process, Refusals, RefuseInvalid, RefuseDuplicate, RefuseRegressing, Refuse, Return,
      AddAccelerometer, AddGyroscope, Skip, Miss, Shutdown, vars, buffers, history

LEMMA OrderedCorrect == Spec => []Ordered
<1>1. Init => Ordered
  <2> SUFFICES ASSUME Init PROVE Ordered
    OBVIOUS
  <2>1. BuffersOK /\ HistoryOK /\ StampsOK
    BY CapacityType DEF Init, BuffersOK, HistoryOK, StampsOK
  <2>2. stats \in Stats
    BY DEF Init, Stats
  <2>3. StreamOrder /\ GyroOrder /\ BracketsAreNeighbours /\ OutputInOrder
    BY EmptySeq DEF Init, StreamOrder, IsEndOf, GyroOrder, BracketsAreNeighbours, OutputInOrder
  <2>4. QED BY <2>1, <2>2, <2>3 DEF Ordered
<1>2. Ordered /\ [Next]_vars => Ordered'
  <2> SUFFICES ASSUME Ordered, [Next]_vars PROVE Ordered'
    OBVIOUS
  <2>1. BuffersOK' /\ StampsOK' /\ stats' \in Stats /\ HistoryOK'
    BY BuffersStep, StampsStep, StatsStep, HistoryStep DEF Ordered
  <2>2. StreamOrder' /\ GyroOrder' /\ BracketsAreNeighbours' /\ OutputInOrder'
    BY StreamOrderStep, GyroOrderStep, BracketsStep, OutputStep
  <2>3. QED BY <2>1, <2>2 DEF Ordered
<1>3. QED BY <1>1, <1>2, PTL DEF Spec

\* Line 98 divides by the distance of two accelerations that were accepted one
\* after the other, and that distance is never zero, however much was trimmed.
THEOREM InterpolationIsSound == Spec => []BracketsAreNeighbours
<1>1. Ordered => BracketsAreNeighbours
  BY DEF Ordered
<1>2. QED BY <1>1, OrderedCorrect, PTL

\* take_ready returns samples in strict time order (lines 130-137).
THEOREM OutputIsOrdered == Spec => []OutputInOrder
<1>1. Ordered => OutputInOrder
  BY DEF Ordered
<1>2. QED BY <1>1, OrderedCorrect, PTL

----------------------------------------------------------------------------
(* Accounting                                                              *)

LEMMA CountMove ==
  ASSUME NEW r \in Nat, NEW g \in Nat, NEW m \in Nat, NEW l \in Nat, r = g + m + l
  PROVE  /\ r + 1 = g + m + (l + 1 - 0)
         /\ r = g + (m + 1) + (l - 1)
         /\ r = (g + 1) + m + (l - 1)
         /\ r = g + (m + l) + 0
OBVIOUS

LEMMA AccountedStep == Ordered /\ AccountedFor /\ [Next]_vars => AccountedFor'
<1> SUFFICES ASSUME Ordered, AccountedFor, [Next]_vars, stats'.dropped = 0
             PROVE  /\ stats'.receivedGyro = stats'.generated + stats'.missing + Len(gyro')
                    /\ stats'.generated = taken' + Len(ready')
  BY DEF AccountedFor
<1>0. /\ accel \in Seq(Time) /\ gyro \in Seq(Time) /\ ready \in Seq(Combined)
      /\ Len(accel) <= Capacity /\ Len(gyro) <= Capacity /\ Len(ready) <= Capacity
      /\ stats \in Stats /\ taken \in Nat
  BY DEF Ordered, BuffersOK, HistoryOK
<1>a. /\ stats.receivedGyro \in Nat /\ stats.generated \in Nat /\ stats.missing \in Nat
      /\ stats.dropped \in Nat /\ Len(gyro) \in Nat /\ Len(ready) \in Nat
  BY <1>0 DEF Stats
<1>b. stats.dropped = 0 => /\ stats.receivedGyro = stats.generated + stats.missing + Len(gyro)
                           /\ stats.generated = taken + Len(ready)
  BY DEF AccountedFor
<1>c. \A b : Trimmed(b) \in Nat
  BY DEF Trimmed
<1>1. ASSUME NEW t \in Time, AddAccelerometer(t)
      PROVE  /\ stats'.receivedGyro = stats'.generated + stats'.missing + Len(gyro')
             /\ stats'.generated = taken' + Len(ready')
  <2>1. /\ stats'.dropped = stats.dropped + Trimmed(accel)
        /\ UNCHANGED <<stats.receivedGyro, stats.generated, stats.missing, gyro, ready, taken>>
    BY <1>0, <1>1 DEF AddAccelerometer, Stats
  <2>2. stats.dropped = 0
    BY <1>a, <1>c, <2>1
  <2>3. QED BY <1>b, <2>1, <2>2
<1>2. ASSUME NEW t \in Time, AddGyroscope(t)
      PROVE  /\ stats'.receivedGyro = stats'.generated + stats'.missing + Len(gyro')
             /\ stats'.generated = taken' + Len(ready')
  <2>1. /\ stats'.dropped = stats.dropped + Trimmed(gyro)
        /\ stats'.receivedGyro = stats.receivedGyro + 1
        /\ UNCHANGED <<stats.generated, stats.missing, ready, taken>>
    BY <1>0, <1>2 DEF AddGyroscope, Stats
  <2>2. stats.dropped = 0 /\ Trimmed(gyro) = 0
    BY <1>a, <1>c, <2>1
  <2>3. Len(gyro') = Len(gyro) + 1 - 0
    BY <1>0, <1>2, <2>2, PushResult DEF AddGyroscope
  <2>4. stats.receivedGyro + 1 = stats.generated + stats.missing + (Len(gyro) + 1 - 0)
    BY <1>a, <1>b, <2>2, CountMove
  <2>5. QED BY <1>b, <2>1, <2>2, <2>3, <2>4
<1>3. CASE Miss
  <2>1. /\ stats'.missing = stats.missing + 1 /\ stats.dropped = 0
        /\ UNCHANGED <<stats.receivedGyro, stats.generated, ready, taken>>
    BY <1>0, <1>3 DEF Miss, Stats, history
  <2>2. Len(gyro') = Len(gyro) - 1
    BY <1>0, <1>3, PopResult DEF Miss, Searching
  <2>3. stats.receivedGyro = stats.generated + (stats.missing + 1) + (Len(gyro) - 1)
    BY <1>a, <1>b, <2>1, CountMove, SMTT(60)
  <2>4. QED BY <1>b, <2>1, <2>2, <2>3
<1>4. CASE Emit
  <2> DEFINE sample == [time |-> Head(gyro), before |-> accel[1], after |-> accel[2]]
  <2>1. /\ stats'.dropped = stats.dropped + Trimmed(ready)
        /\ stats'.generated = stats.generated + 1
        /\ UNCHANGED <<stats.receivedGyro, stats.missing, taken>>
    BY <1>0, <1>4 DEF Emit, Stats
  <2>2. stats.dropped = 0 /\ Trimmed(ready) = 0
    BY <1>a, <1>c, <2>1
  <2>3. sample \in Combined /\ ready' = Push(ready, sample)
    BY <1>4, SampleType DEF Emit, Ordered
  <2>4. Len(ready') = Len(ready) + 1
    BY <1>0, <2>2, <2>3, PushResult
  <2>5. Len(gyro') = Len(gyro) - 1
    BY <1>0, <1>4, PopResult DEF Emit, Searching
  <2>6. stats.receivedGyro = (stats.generated + 1) + stats.missing + (Len(gyro) - 1)
    BY <1>a, <1>b, <2>2, CountMove
  <2>7. stats.generated + 1 = taken + (Len(ready) + 1)
    BY <1>0, <1>a, <1>b, <2>2
  <2>8. QED BY <2>1, <2>4, <2>5, <2>6, <2>7
<1>5. CASE Shutdown
  <2>1. /\ stats'.missing = stats.missing + Len(gyro) /\ stats.dropped = 0 /\ Len(gyro') = 0
        /\ UNCHANGED <<stats.receivedGyro, stats.generated, ready, taken>>
    BY <1>0, <1>5, EmptySeq DEF Shutdown, Stats, history
  <2>2. stats.receivedGyro = stats.generated + (stats.missing + Len(gyro)) + 0
    BY <1>a, <1>b, <2>1, CountMove
  <2>3. QED BY <1>b, <2>1, <2>2
<1>6. CASE TakeReady
  <2>1. /\ taken' = taken + 1 /\ UNCHANGED <<stats, gyro>> /\ stats.dropped = 0
    BY <1>6 DEF TakeReady
  <2>2. Len(ready') = Len(ready) - 1
    BY <1>0, <1>6, PopResult DEF TakeReady
  <2>3. taken + Len(ready) = (taken + 1) + (Len(ready) - 1)
    BY <1>0, <1>a
  <2>4. QED BY <1>b, <2>1, <2>2, <2>3
<1>7. CASE Refusals
  BY <1>0, <1>b, <1>7
  DEF Refusals, RefuseInvalid, RefuseDuplicate, RefuseRegressing, Refuse, Stats, buffers, history
<1>8. CASE UNCHANGED <<stats, gyro, ready, taken>>
  BY <1>b, <1>8
<1>9. QED
  BY <1>1, <1>2, <1>3, <1>4, <1>5, <1>6, <1>7, <1>8
  DEF Next, Process, Return, Skip, vars, buffers, history

\* The counters the applications judge a run by: without a capacity drop, every
\* accepted gyroscope sample was emitted, counted as missing, or still waits.
THEOREM NothingIsLostUncounted == Spec => []AccountedFor
<1>1. Init => AccountedFor
  BY EmptySeq DEF Init, AccountedFor
<1>2. QED BY <1>1, OrderedCorrect, AccountedStep, PTL DEF Spec

----------------------------------------------------------------------------
(* The output is a function of the two streams                             *)

Times(s) == {s[i] : i \in 1..Len(s)}

FromStream == Times(gyro) \subseteq Times(gyroStream) /\ EmittedTimes \subseteq Times(gyroStream)

TooEarly(t) == accelStream # <<>> /\ t < accelStream[1]
TooLate(t)  == stopped /\ (Len(accelStream) < 2 \/ t > lastAccel)

\* Every accepted gyroscope sample was emitted, waits, or has no bracket.
NoneForgotten ==
  \A t \in Times(gyroStream) :
    t \in EmittedTimes \/ t \in Times(gyro) \/ TooEarly(t) \/ TooLate(t)

\* Accelerations were skipped only for the sake of older gyroscope samples.
SkippedOlder ==
  ~stopped /\ Len(accel) < Len(accelStream) =>
    accel # <<>> /\ accel[1] < lastGyro /\ \A t \in Times(gyro) : accel[1] < t

\* Between calls only gyroscope samples newer than every acceleration wait.
CaughtUp ==
  pc = "idle" /\ Len(accelStream) >= 2 => \A t \in Times(gyro) : lastAccel < t

Settled == FromStream /\ NoneForgotten /\ SkippedOlder /\ CaughtUp

\* process() runs only on behalf of an add operation that found it not stopped.
Live == pc = "process" => ~stopped

Decided == Live /\ (stats.dropped = 0 => Settled)

LEMMA TimesAppend ==
  ASSUME NEW S, NEW s \in Seq(S), NEW x \in S
  PROVE  Times(Append(s, x)) = Times(s) \cup {x}
<1>1. /\ Len(Append(s, x)) = Len(s) + 1 /\ Len(s) \in Nat /\ Append(s, x)[Len(s) + 1] = x
      /\ \A i \in 1..Len(s) : Append(s, x)[i] = s[i]
  BY AppendResult
<1>2. \A i : i \in 1..(Len(s) + 1) <=> i \in 1..Len(s) \/ i = Len(s) + 1
  BY <1>1
<1>3. QED BY <1>1, <1>2 DEF Times

LEMMA TimesPop ==
  ASSUME NEW S, NEW s \in Seq(S), s # <<>>
  PROVE  Times(s) = Times(Tail(s)) \cup {Head(s)}
<1>1. /\ Head(s) = s[1] /\ 1 \in 1..Len(s) /\ Len(s) \in Nat \ {0}
      /\ Len(Tail(s)) = Len(s) - 1
      /\ \A i \in 1..Len(Tail(s)) : i + 1 \in 1..Len(s) /\ Tail(s)[i] = s[i + 1]
  BY PopResult
<1>2. \A i \in 1..Len(s) : i = 1 \/ (i - 1 \in 1..Len(Tail(s)) /\ (i - 1) + 1 = i)
  BY <1>1
<1>3. \A i \in 1..Len(s) : s[i] = Head(s) \/ \E k \in 1..Len(Tail(s)) : s[i] = Tail(s)[k]
  BY <1>1, <1>2
<1>4. QED BY <1>1, <1>3 DEF Times

\* What one combination moves from the waiting to the emitted samples.
LEMMA EmitMoves ==
  ASSUME BuffersOK, HistoryOK, Emit
  PROVE  /\ Times(gyro) = Times(gyro') \cup {Head(gyro)}
         /\ EmittedTimes' = EmittedTimes \cup {Head(gyro)}
<1> DEFINE sample == [time |-> Head(gyro), before |-> accel[1], after |-> accel[2]]
<1>1. sample \in Combined /\ sample.time = Head(gyro)
  BY SampleType DEF Emit
<1>2. emitted' = Append(emitted, sample) /\ gyro' = Tail(gyro) /\ gyro # <<>>
  BY DEF Emit, Searching
<1> HIDE DEF sample
<1>3. /\ Len(emitted') = Len(emitted) + 1 /\ emitted'[Len(emitted) + 1] = sample
      /\ Len(emitted) \in Nat /\ \A i \in 1..Len(emitted) : emitted'[i] = emitted[i]
  BY <1>1, <1>2, AppendResult DEF HistoryOK
<1>4. \A i : i \in 1..Len(emitted') <=> i \in 1..Len(emitted) \/ i = Len(emitted) + 1
  BY <1>3
<1>5. EmittedTimes' = EmittedTimes \cup {Head(gyro)}
  BY <1>1, <1>3, <1>4 DEF EmittedTimes
<1>6. Times(gyro) = Times(Tail(gyro)) \cup {Head(gyro)}
  BY <1>2, TimesPop DEF BuffersOK
<1>7. QED BY <1>2, <1>5, <1>6

LEMMA SameTimes ==
  ASSUME UNCHANGED <<gyro, gyroStream, emitted>>
  PROVE  /\ Times(gyro') = Times(gyro) /\ Times(gyroStream') = Times(gyroStream)
         /\ EmittedTimes' = EmittedTimes
BY DEF Times, EmittedTimes

\* Without drops, the front of the acceleration buffer is the start of the stream
\* unless something was skipped.
LEMMA NotBeforeStream ==
  ASSUME Ordered, SkippedOlder, Live, Searching, BeforeBuffer
  PROVE  TooEarly(Head(gyro))
<1>1. /\ Head(gyro) \in Time /\ accel[1] \in Time /\ Head(gyro) = gyro[1]
      /\ 1 \in 1..Len(gyro) /\ 1 \in 1..Len(accel)
  BY SampleType DEF Ordered
<1>2. Head(gyro) < accel[1] /\ Head(gyro) \in Times(gyro)
  BY <1>1 DEF BeforeBuffer, Times
<1>3. \A x \in Time : x \in Int
  BY TimeAssumption
<1>4. ~(Len(accel) < Len(accelStream))
  BY <1>1, <1>2, <1>3 DEF SkippedOlder, Live, Searching
<1>5. /\ Len(accel) <= Len(accelStream) /\ Len(accel) \in Nat /\ Len(accelStream) \in Nat
      /\ accel[1] = accelStream[Len(accelStream) - Len(accel) + 1]
  BY <1>1 DEF Ordered, BuffersOK, HistoryOK, StreamOrder, IsEndOf
<1>6. Len(accelStream) - Len(accel) + 1 = 1 /\ Len(accelStream) >= 1
  BY <1>1, <1>4, <1>5
<1>7. accelStream # <<>>
  BY <1>6, EmptySeq
<1>8. QED BY <1>2, <1>5, <1>6, <1>7 DEF TooEarly

LEMMA DroppedGrows ==
  ASSUME Ordered, [Next]_vars, stats'.dropped = 0
  PROVE  /\ stats.dropped = 0
         /\ \A t \in Time : AddAccelerometer(t) => Trimmed(accel) = 0
         /\ \A t \in Time : AddGyroscope(t) => Trimmed(gyro) = 0
<1>0. stats \in Stats /\ stats.dropped \in Nat
  BY DEF Ordered, Stats
<1>a. \A b : Trimmed(b) \in Nat
  BY DEF Trimmed
<1>b. \A n \in Nat : stats.dropped + n = 0 => stats.dropped = 0 /\ n = 0
  BY <1>0
<1>1. ASSUME NEW t \in Time, AddAccelerometer(t) PROVE stats'.dropped = stats.dropped + Trimmed(accel)
  BY <1>0, <1>1 DEF AddAccelerometer, Stats
<1>2. ASSUME NEW t \in Time, AddGyroscope(t) PROVE stats'.dropped = stats.dropped + Trimmed(gyro)
  BY <1>0, <1>2 DEF AddGyroscope, Stats
<1>3. CASE Emit
  <2>1. stats'.dropped = stats.dropped + Trimmed(ready)
    BY <1>0, <1>3 DEF Emit, Stats
  <2>2. ~\E t \in Time : AddAccelerometer(t) \/ AddGyroscope(t)
    BY <1>3 DEF Emit, Searching, AddAccelerometer, AddGyroscope
  <2>3. QED BY <1>a, <1>b, <2>1, <2>2
<1>4. ASSUME ~Emit, ~\E t \in Time : AddAccelerometer(t) \/ AddGyroscope(t)
      PROVE  stats'.dropped = stats.dropped
  BY <1>0, <1>4
  DEF Next, Process, Refusals, RefuseInvalid, RefuseDuplicate, RefuseRegressing, Refuse, Return,
      Skip, Miss, TakeReady, Shutdown, vars, Stats
<1>5. QED BY <1>a, <1>b, <1>1, <1>2, <1>3, <1>4


LEMMA TimesOfEmpty == Times(<<>>) = {}
BY DEF Times

\* One step of each action.
LEMMA SettledAccelerometer ==
  ASSUME Ordered, Settled, NEW t \in Time, AddAccelerometer(t), Trimmed(accel) = 0
  PROVE  Settled'
<1>0. /\ accel \in Seq(Time) /\ accelStream \in Seq(Time) /\ ~stopped
      /\ accelStream' = Append(accelStream, t) /\ pc' = "process"
      /\ UNCHANGED <<gyro, lastGyro, gyroStream, emitted>>
  BY DEF Ordered, BuffersOK, HistoryOK, AddAccelerometer
<1>1. accel' = Append(accel, t)
  BY DEF AddAccelerometer, Push, Trimmed
<1>2. /\ Len(accel') = Len(accel) + 1 /\ Len(accel) \in Nat
      /\ \A i \in 1..Len(accel) : accel'[i] = accel[i]
  BY <1>0, <1>1, AppendResult
<1>3. /\ Len(accelStream') = Len(accelStream) + 1 /\ Len(accelStream) \in Nat
      /\ \A i \in 1..Len(accelStream) : accelStream'[i] = accelStream[i]
  BY <1>0, AppendResult
<1>4. accel # <<>> => 1 \in 1..Len(accel)
  BY <1>0, EmptySeq
<1>5. accelStream # <<>> => 1 \in 1..Len(accelStream) /\ accelStream' # <<>>
  BY <1>0, <1>3, EmptySeq
<1>6. FromStream'
  BY <1>0, SameTimes DEF Settled, FromStream
<1>7. NoneForgotten'
  BY <1>0, <1>3, <1>5, SameTimes DEF Settled, NoneForgotten, TooEarly, TooLate
<1>8. SkippedOlder'
  <2>1. ASSUME Len(accel') < Len(accelStream')
        PROVE  /\ accel' # <<>> /\ accel'[1] < lastGyro
               /\ \A u \in Times(gyro) : accel'[1] < u
    <3>1. Len(accel) < Len(accelStream)
      BY <1>2, <1>3, <2>1
    <3>2. accel # <<>> /\ accel[1] < lastGyro /\ \A u \in Times(gyro) : accel[1] < u
      BY <1>0, <3>1 DEF Settled, SkippedOlder
    <3>3. accel'[1] = accel[1]
      BY <1>2, <1>4, <3>2
    <3>4. accel' # <<>>
      BY <1>2, EmptySeq
    <3>5. QED BY <3>2, <3>3, <3>4
  <2>2. QED BY <1>0, <2>1, SameTimes DEF SkippedOlder
<1>9. CaughtUp'
  BY <1>0 DEF CaughtUp
<1>10. QED BY <1>6, <1>7, <1>8, <1>9 DEF Settled

LEMMA SettledGyroscope ==
  ASSUME Ordered, Settled, NEW t \in Time, AddGyroscope(t), Trimmed(gyro) = 0
  PROVE  Settled'
<1>0. /\ gyro \in Seq(Time) /\ gyroStream \in Seq(Time) /\ accel \in Seq(Time)
      /\ lastGyro \in Time \cup {NoTime} /\ t > lastGyro /\ lastGyro' = t /\ ~stopped
      /\ gyroStream' = Append(gyroStream, t) /\ pc' = "process"
      /\ UNCHANGED <<accel, lastAccel, accelStream, emitted, stopped>>
  BY DEF Ordered, BuffersOK, HistoryOK, StampsOK, AddGyroscope
<1>1. gyro' = Append(gyro, t)
  BY DEF AddGyroscope, Push, Trimmed
<1>2. Times(gyro') = Times(gyro) \cup {t} /\ Times(gyroStream') = Times(gyroStream) \cup {t}
  <2>1. Times(Append(gyro, t)) = Times(gyro) \cup {t}
    BY <1>0, TimesAppend
  <2>2. Times(Append(gyroStream, t)) = Times(gyroStream) \cup {t}
    BY <1>0, TimesAppend
  <2>3. QED BY <1>0, <1>1, <2>1, <2>2
<1>3. EmittedTimes' = EmittedTimes
  BY <1>0 DEF EmittedTimes
<1>4. FromStream'
  BY <1>2, <1>3 DEF Settled, FromStream
<1>5. NoneForgotten'
  BY <1>0, <1>2, <1>3 DEF Settled, NoneForgotten, TooEarly, TooLate
<1>6. SkippedOlder'
  <2>1. ASSUME Len(accel) < Len(accelStream)
        PROVE  accel # <<>> /\ accel[1] < t /\ \A u \in Times(gyro') : accel[1] < u
    <3>1. accel # <<>> /\ accel[1] < lastGyro /\ \A u \in Times(gyro) : accel[1] < u
      BY <1>0, <2>1 DEF Settled, SkippedOlder
    <3>2. accel[1] \in Time
      BY <1>0, <3>1, PopResult
    <3>3. \A x \in Time \cup {NoTime} : x \in Int
      BY TimeAssumption DEF NoTime
    <3>4. accel[1] \in Int /\ lastGyro \in Int /\ t \in Int
      BY <1>0, <3>2, <3>3
    <3>5. accel[1] < t
      BY <1>0, <3>1, <3>4
    <3>6. QED BY <1>2, <3>1, <3>5
  <2>2. QED BY <1>0, <2>1 DEF SkippedOlder
<1>7. CaughtUp'
  BY <1>0 DEF CaughtUp
<1>8. QED BY <1>4, <1>5, <1>6, <1>7 DEF Settled


LEMMA SettledSkip ==
  ASSUME Ordered, Settled, Skip
  PROVE  Settled'
<1>0. /\ gyro \in Seq(Time) /\ accel \in Seq(Time) /\ pc' = "process"
      /\ accel' = Tail(accel) /\ Len(accel) >= 2 /\ gyro # <<>> /\ accel[2] < Head(gyro)
      /\ UNCHANGED <<gyro, lastGyro, lastAccel, accelStream, gyroStream, emitted, stopped>>
  BY DEF Ordered, BuffersOK, Skip, Searching, Skippable, newest, history
<1>1. accel # <<>> /\ Len(accel) \in Nat
  BY <1>0, EmptySeq
<1>2. /\ Len(accel') = Len(accel) - 1
      /\ \A i \in 1..Len(accel') : i + 1 \in 1..Len(accel) /\ accel'[i] = accel[i + 1]
  BY <1>0, <1>1, PopResult
<1>3. accel' # <<>> /\ accel'[1] = accel[2] /\ accel[2] \in Time
  <2>1. 1 \in 1..Len(accel') /\ 1 + 1 = 2
    BY <1>0, <1>1, <1>2
  <2>2. QED BY <1>0, <1>2, <2>1, EmptySeq
<1>4. /\ Head(gyro) = gyro[1] /\ 1 \in 1..Len(gyro) /\ Head(gyro) \in Time /\ Len(gyro) \in Nat
      /\ \A i \in 1..Len(gyro) : gyro[i] \in Time
  BY <1>0, PopResult
<1>5. \A x \in Time \cup {NoTime} : x \in Int
  BY TimeAssumption DEF NoTime
<1>6. lastGyro \in Int /\ accel[2] \in Int /\ Head(gyro) \in Int
  BY <1>3, <1>4, <1>5 DEF Ordered, StampsOK
<1>7. accel'[1] < lastGyro
  BY <1>0, <1>3, <1>4, <1>6 DEF Ordered, GyroOrder
<1>8. \A u \in Times(gyro) : accel'[1] < u
  <2> SUFFICES ASSUME NEW i \in 1..Len(gyro) PROVE accel[2] < gyro[i]
    BY <1>3 DEF Times
  <2>1. i = 1 \/ 1 < i
    BY <1>4
  <2>2. i = 1 \/ Head(gyro) < gyro[i]
    BY <1>4, <2>1 DEF Ordered, GyroOrder
  <2>3. gyro[i] \in Int
    BY <1>4, <1>5
  <2>4. QED BY <1>0, <1>4, <1>6, <2>2, <2>3
<1>9. SkippedOlder'
  BY <1>0, <1>3, <1>7, <1>8, SameTimes DEF SkippedOlder
<1>10. FromStream' /\ NoneForgotten' /\ CaughtUp'
  BY <1>0, SameTimes DEF Settled, FromStream, NoneForgotten, TooEarly, TooLate, CaughtUp
<1>11. QED BY <1>9, <1>10 DEF Settled

LEMMA SettledMiss ==
  ASSUME Ordered, Settled, Live, Miss
  PROVE  Settled'
<1>0. /\ gyro \in Seq(Time) /\ pc' = "process" /\ gyro' = Tail(gyro) /\ gyro # <<>>
      /\ Searching /\ BeforeBuffer
      /\ UNCHANGED <<accel, lastGyro, lastAccel, accelStream, gyroStream, emitted, stopped>>
  BY DEF Ordered, BuffersOK, Miss, Searching, newest, history
<1>1. Times(gyro) = Times(gyro') \cup {Head(gyro)}
  BY <1>0, TimesPop
<1>2. /\ EmittedTimes' = EmittedTimes /\ Times(gyroStream') = Times(gyroStream)
  BY <1>0 DEF EmittedTimes
<1>3. TooEarly(Head(gyro))
  BY <1>0, NotBeforeStream DEF Settled
<1>4. FromStream'
  BY <1>1, <1>2 DEF Settled, FromStream
<1>5. NoneForgotten'
  BY <1>0, <1>1, <1>2, <1>3 DEF Settled, NoneForgotten, TooEarly, TooLate
<1>6. SkippedOlder' /\ CaughtUp'
  BY <1>0, <1>1 DEF Settled, SkippedOlder, CaughtUp
<1>7. QED BY <1>4, <1>5, <1>6 DEF Settled

LEMMA SettledEmit ==
  ASSUME Ordered, Settled, Emit
  PROVE  Settled'
<1>0. /\ pc' = "process"
      /\ UNCHANGED <<accel, lastGyro, lastAccel, accelStream, gyroStream, stopped>>
  BY DEF Emit, Searching, newest
<1>1. /\ Times(gyro) = Times(gyro') \cup {Head(gyro)}
      /\ EmittedTimes' = EmittedTimes \cup {Head(gyro)}
      /\ Times(gyroStream') = Times(gyroStream)
  BY <1>0, EmitMoves DEF Ordered
<1>2. FromStream'
  BY <1>1 DEF Settled, FromStream
<1>3. NoneForgotten'
  BY <1>0, <1>1 DEF Settled, NoneForgotten, TooEarly, TooLate
<1>4. SkippedOlder' /\ CaughtUp'
  BY <1>0, <1>1 DEF Settled, SkippedOlder, CaughtUp
<1>5. QED BY <1>2, <1>3, <1>4 DEF Settled

\* When the search ends only samples newer than every acceleration wait.
LEMMA SettledReturn ==
  ASSUME Ordered, Settled, Live, Return
  PROVE  Settled'
<1>0. /\ gyro \in Seq(Time) /\ accel \in Seq(Time) /\ accelStream \in Seq(Time) /\ ~stopped
      /\ gyro = <<>> \/ ~(Len(accel) >= 2)
      /\ UNCHANGED <<gyro, accel, lastGyro, lastAccel, accelStream, gyroStream, emitted, stopped>>
  BY DEF Ordered, BuffersOK, HistoryOK, Live, Return, Searching, buffers, newest, history
<1>1. FromStream' /\ NoneForgotten' /\ SkippedOlder'
  BY <1>0, SameTimes DEF Settled, FromStream, NoneForgotten, TooEarly, TooLate, SkippedOlder
<1>2. ASSUME Len(accelStream) >= 2 PROVE \A t \in Times(gyro) : lastAccel < t
  <2>1. CASE gyro = <<>>
    BY <2>1, TimesOfEmpty
  <2>2. CASE ~(Len(accel) >= 2)
    <3>1. Len(accel) \in Nat /\ Len(accelStream) \in Nat /\ Len(accel) < Len(accelStream)
      BY <1>0, <1>2, <2>2
    <3>2. accel # <<>> /\ \A t \in Times(gyro) : accel[1] < t
      BY <1>0, <3>1 DEF Settled, SkippedOlder
    <3>3. Len(accel) = 1
      <4>1. Len(accel) # 0
        BY <1>0, <3>2, EmptySeq
      <4>2. QED BY <2>2, <3>1, <4>1
    <3>4. accel[1] = accelStream[Len(accelStream) - Len(accel) + 1] /\ accelStream # <<>>
      <4>1. 1 \in 1..Len(accel)
        BY <3>3
      <4>2. QED BY <1>2, <4>1, EmptySeq DEF Ordered, StreamOrder, IsEndOf
    <3>5. Len(accelStream) - Len(accel) + 1 = Len(accelStream)
      BY <3>1, <3>3
    <3>6. accel[1] = lastAccel
      BY <3>4, <3>5 DEF Ordered, StreamOrder
    <3>7. QED BY <3>2, <3>6
  <2>3. QED BY <1>0, <2>1, <2>2
<1>3. CaughtUp'
  BY <1>0, <1>2, SameTimes DEF CaughtUp
<1>4. QED BY <1>1, <1>3 DEF Settled

LEMMA SettledShutdown ==
  ASSUME Ordered, Settled, Shutdown
  PROVE  Settled'
<1>0. /\ pc = "idle" /\ pc' = "idle" /\ ~stopped /\ stopped' /\ gyro' = <<>>
      /\ accelStream \in Seq(Time)
      /\ UNCHANGED <<lastAccel, accelStream, gyroStream, emitted>>
  BY DEF Ordered, HistoryOK, Shutdown, newest, history
<1>1. /\ Times(gyro') = {} /\ EmittedTimes' = EmittedTimes
      /\ Times(gyroStream') = Times(gyroStream)
  BY <1>0, TimesOfEmpty DEF EmittedTimes
<1>2. FromStream' /\ SkippedOlder' /\ CaughtUp'
  BY <1>0, <1>1 DEF Settled, FromStream, SkippedOlder, CaughtUp
<1>3. ASSUME NEW t \in Times(gyro) PROVE TooLate(t)'
  <2>1. CASE Len(accelStream) < 2
    BY <1>0, <2>1 DEF TooLate
  <2>2. CASE ~(Len(accelStream) < 2)
    <3>1. Len(accelStream) >= 2
      BY <1>0, <2>2
    <3>2. lastAccel < t
      BY <1>0, <3>1 DEF Settled, CaughtUp
    <3>3. QED BY <1>0, <3>2 DEF TooLate
  <2>3. QED BY <2>1, <2>2
<1>4. NoneForgotten'
  <2>1. ASSUME NEW t \in Times(gyroStream)
        PROVE  (t \in EmittedTimes \/ t \in Times(gyro') \/ TooEarly(t)' \/ TooLate(t)')
    <3>1. t \in EmittedTimes \/ t \in Times(gyro) \/ TooEarly(t)
      BY <1>0 DEF Settled, NoneForgotten, TooLate
    <3>2. TooEarly(t) => TooEarly(t)'
      BY <1>0 DEF TooEarly
    <3>3. QED BY <1>3, <3>1, <3>2
  <2>2. QED BY <1>1, <2>1 DEF NoneForgotten
<1>5. QED BY <1>2, <1>4 DEF Settled

LEMMA DecidedStep == Ordered /\ Decided /\ [Next]_vars => Decided'
<1> SUFFICES ASSUME Ordered, Decided, [Next]_vars PROVE Decided'
  OBVIOUS
<1>1. Live'
  BY DEF Decided, Live, Next, Process, Refusals, RefuseInvalid, RefuseDuplicate, RefuseRegressing,
         Refuse, Return, vars, AddAccelerometer, AddGyroscope, Skip, Miss, Emit, TakeReady, Shutdown
<1>2. ASSUME stats'.dropped = 0 PROVE Settled'
  <2>1. Settled /\ Live
    BY <1>2, DroppedGrows DEF Decided
  <2>2. ASSUME NEW t \in Time, AddAccelerometer(t) PROVE Settled'
    BY <1>2, <2>1, <2>2, DroppedGrows, SettledAccelerometer
  <2>3. ASSUME NEW t \in Time, AddGyroscope(t) PROVE Settled'
    BY <1>2, <2>1, <2>3, DroppedGrows, SettledGyroscope
  <2>4. CASE Skip \/ Miss \/ Emit \/ Return
    BY <2>1, <2>4, SettledSkip, SettledMiss, SettledEmit, SettledReturn
  <2>5. CASE Shutdown
    BY <2>1, <2>5, SettledShutdown
  <2>6. CASE UNCHANGED <<gyro, accel, newest, accelStream, gyroStream, emitted, stopped, pc>>
    BY <2>1, <2>6, SameTimes
    DEF Settled, FromStream, NoneForgotten, TooEarly, TooLate, SkippedOlder, CaughtUp, newest
  <2>7. QED
    BY <2>2, <2>3, <2>4, <2>5, <2>6
    DEF Next, Process, Refusals, RefuseInvalid, RefuseDuplicate, RefuseRegressing, Refuse,
        TakeReady, vars, buffers, history
<1>3. QED BY <1>1, <1>2 DEF Decided


\* The emitted samples are those the whole streams select.
LEMMA OutcomeFollows == Ordered /\ Decided => OutcomeIndependentOfArrival
<1> SUFFICES ASSUME Ordered, Decided, pc = "idle", stats.dropped = 0
             PROVE  EmittedTimes = SpannedTimes
  BY DEF OutcomeIndependentOfArrival
<1>0. /\ Settled
      /\ accelStream \in Seq(Time) /\ gyroStream \in Seq(Time) /\ emitted \in Seq(Combined)
      /\ \A i, j \in 1..Len(accelStream) : i < j => accelStream[i] < accelStream[j]
      /\ accelStream # <<>> => accelStream[Len(accelStream)] = lastAccel
      /\ \A n \in 1..Len(emitted) : Bracketed(emitted[n])
  BY DEF Decided, Ordered, HistoryOK, StreamOrder, BracketsAreNeighbours
<1>1. \A x \in Time : x \in Int
  BY TimeAssumption
<1>2. Len(accelStream) \in Nat /\ \A i \in 1..Len(accelStream) : accelStream[i] \in Int
  BY <1>0, <1>1
<1> DEFINE Spanned(t) == /\ Len(accelStream) >= 2
                         /\ accelStream[1] <= t
                         /\ t <= accelStream[Len(accelStream)]
<1>3. \A t : t \in SpannedTimes <=> t \in Times(gyroStream) /\ Spanned(t)
  BY DEF SpannedTimes, Times
<1>4. ASSUME NEW t \in EmittedTimes PROVE t \in SpannedTimes
  <2>1. PICK n \in 1..Len(emitted) : t = emitted[n].time
    BY DEF EmittedTimes
  <2>2. emitted[n] \in Combined
    BY <1>0
  <2>3. /\ emitted[n].before <= t /\ t <= emitted[n].after
        /\ \E i \in 1..(Len(accelStream) - 1) :
             emitted[n].before = accelStream[i] /\ emitted[n].after = accelStream[i + 1]
    BY <1>0, <2>1 DEF Bracketed
  <2>4. PICK i \in 1..(Len(accelStream) - 1) :
          emitted[n].before = accelStream[i] /\ emitted[n].after = accelStream[i + 1]
    BY <2>3
  <2>5. /\ Len(accelStream) >= 2 /\ 1 \in 1..Len(accelStream) /\ i \in 1..Len(accelStream)
        /\ i + 1 \in 1..Len(accelStream) /\ Len(accelStream) \in 1..Len(accelStream)
        /\ (i = 1 \/ 1 < i) /\ (i + 1 = Len(accelStream) \/ i + 1 < Len(accelStream))
    BY <1>2
  <2>6. accelStream[1] <= accelStream[i] /\ accelStream[i + 1] <= accelStream[Len(accelStream)]
    <3>1. i = 1 \/ accelStream[1] < accelStream[i]
      BY <1>0, <2>5
    <3>2. i + 1 = Len(accelStream) \/ accelStream[i + 1] < accelStream[Len(accelStream)]
      BY <1>0, <2>5
    <3>3. /\ accelStream[1] \in Int /\ accelStream[i] \in Int /\ accelStream[i + 1] \in Int
          /\ accelStream[Len(accelStream)] \in Int
      BY <1>2, <2>5
    <3>4. accelStream[1] <= accelStream[i]
      BY <3>1, <3>3
    <3>5. accelStream[i + 1] <= accelStream[Len(accelStream)]
      BY <3>2, <3>3
    <3>6. QED BY <3>4, <3>5
  <2>7. t \in Int
    BY <1>1, <2>1, <2>2 DEF Combined
  <2>8. accelStream[1] <= t /\ t <= accelStream[Len(accelStream)]
    BY <1>2, <2>3, <2>4, <2>5, <2>6, <2>7, SMTT(60)
  <2>9. t \in Times(gyroStream)
    BY <1>0 DEF Settled, FromStream
  <2>10. QED BY <1>3, <2>5, <2>8, <2>9
<1>5. ASSUME NEW t \in SpannedTimes PROVE t \in EmittedTimes
  <2>1. t \in Times(gyroStream) /\ Spanned(t)
    BY <1>3
  <2>2. t \in Int
    BY <1>0, <1>1, <2>1 DEF Times
  <2>3. /\ accelStream # <<>> /\ 1 \in 1..Len(accelStream)
        /\ Len(accelStream) \in 1..Len(accelStream)
    BY <1>2, <2>1, EmptySeq
  <2>4. accelStream[1] \in Int /\ lastAccel \in Int /\ t <= lastAccel /\ accelStream[1] <= t
    BY <1>0, <1>2, <2>1, <2>3
  <2>5. ~(lastAccel < t) /\ ~(t > lastAccel) /\ ~(t < accelStream[1])
    BY <2>2, <2>4
  <2>6. ~TooEarly(t)
    BY <2>5 DEF TooEarly
  <2>7. ~TooLate(t)
    BY <1>2, <2>1, <2>5 DEF TooLate
  <2>8. t \notin Times(gyro)
    BY <1>0, <2>1, <2>5 DEF Settled, CaughtUp
  <2>9. QED BY <1>0, <2>1, <2>6, <2>7, <2>8 DEF Settled, NoneForgotten
<1>6. QED BY <1>4, <1>5

\* The samples take_ready hands out are decided by the two streams alone, however
\* the callbacks of the two sensors interleave, as long as nothing was dropped.
THEOREM ArrivalOrderIsIrrelevant == Spec => []OutcomeIndependentOfArrival
<1>1. Init => Decided
  <2> SUFFICES ASSUME Init PROVE Decided
    OBVIOUS
  <2>1. Times(gyro) = {} /\ Times(gyroStream) = {} /\ EmittedTimes = {}
    BY DEF Init, Times, EmittedTimes
  <2>2. pc = "idle" /\ accel = <<>> /\ accelStream = <<>>
    BY DEF Init
  <2>3. Settled
    BY <2>1, <2>2, EmptySeq DEF Settled, FromStream, NoneForgotten, SkippedOlder, CaughtUp
  <2>4. QED BY <2>2, <2>3 DEF Decided, Live
<1>2. QED BY <1>1, OrderedCorrect, DecidedStep, OutcomeFollows, PTL DEF Spec
=============================================================================
