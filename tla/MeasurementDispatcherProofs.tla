-------------------- MODULE MeasurementDispatcherProofs --------------------
(***************************************************************************)
(* Proofs about the dispatcher and the live pipeline around it, for every  *)
(* set of timestamps, all queue capacities and any number of troubles.     *)
(*                                                                         *)
(* Part 1: the queues, the counters and the locks of the dispatcher.       *)
(*                                                                         *)
(* Part 2: the dispatcher keeps its promise to the estimator: it           *)
(* implements BracketedDelivery, and as long as no frame has been dropped  *)
(* every delivered frame is covered.  The inductive invariant relates the  *)
(* queues and the worker's locals to the history of handler calls.  Its    *)
(* heart is InImage: what is known of imageTime, which the worker reads    *)
(* once and keeps while it gives up the mutex around every IMU handler.    *)
(*                                                                         *)
(* Part 3: the pipeline runs the dispatcher as the dispatcher's own        *)
(* specification says, so that everything proved of the dispatcher holds   *)
(* in it, and a finalized run has processed all that was given to it.      *)
(***************************************************************************)
EXTENDS LivePipeline, SequenceTheorems, TLAPS

----------------------------------------------------------------------------
(* Part 1: queues                                                          *)

\* A queue operation of either push keeps the queue a bounded sequence; its
\* length grows by one unless the queue was full.
LEMMA EnqueueBounded ==
  ASSUME NEW q \in Seq(Time), NEW t \in Time, NEW c \in Nat \ {0}, Len(q) <= c
  PROVE  /\ Enqueue(q, t, c) \in Seq(Time)
         /\ Len(Enqueue(q, t, c)) <= c
         /\ Len(Enqueue(q, t, c)) = Len(q) + 1 - Overflow(q, c)
         /\ Overflow(q, c) \in Nat
         /\ Enqueue(q, t, c) # <<>>
<1>1. CASE Len(q) = c
  <2>1. q # <<>>
    BY <1>1, EmptySeq
  <2>2. Tail(q) \in Seq(Time) /\ Len(Tail(q)) = c - 1
    BY <1>1, <2>1, HeadTailProperties
  <2>3. Enqueue(q, t, c) = Append(Tail(q), t) /\ Overflow(q, c) = 1
    BY <1>1 DEF Enqueue, Overflow
  <2>4. Append(Tail(q), t) \in Seq(Time) /\ Len(Append(Tail(q), t)) = c
    BY <2>2
  <2>5. QED BY <1>1, <2>3, <2>4, EmptySeq
<1>2. CASE Len(q) # c
  <2>1. Enqueue(q, t, c) = Append(q, t) /\ Overflow(q, c) = 0
    BY <1>2 DEF Enqueue, Overflow
  <2>2. Append(q, t) \in Seq(Time) /\ Len(Append(q, t)) = Len(q) + 1
    OBVIOUS
  <2>3. Len(q) \in Nat
    OBVIOUS
  <2>4. QED BY <1>2, <2>1, <2>2, <2>3, EmptySeq
<1>3. QED BY <1>1, <1>2

\* Popping the front of a nonempty queue.
LEMMA PopFront ==
  ASSUME NEW q \in Seq(Time), q # <<>>
  PROVE  /\ Head(q) \in Time
         /\ Tail(q) \in Seq(Time)
         /\ Len(Tail(q)) = Len(q) - 1
         /\ Len(q) \in Nat \ {0}
BY HeadTailProperties, EmptySeq

----------------------------------------------------------------------------
(* Types                                                                   *)

LEMMA TypeInit == Init => TypeOK
<1> SUFFICES ASSUME Init PROVE TypeOK
  OBVIOUS
<1> USE CapacityAssumption DEF Init
<1>1. QueuesOK
  BY DEF QueuesOK
<1>2. StampsOK
  BY DEF StampsOK
<1>3. StatsOK
  BY DEF StatsOK, Stats, ZeroStats
<1>4. ThreadsOK
  BY DEF ThreadsOK, Pcs
<1>5. HistoryOK
  BY DEF HistoryOK
<1>6. QED BY <1>1, <1>2, <1>3, <1>4, <1>5 DEF TypeOK

----------------------------------------------------------------------------
(* The front of the stereo queue while the worker is inside                *)
(* dispatch_ready_locked.  TypeOK alone is not inductive: pop_front on an  *)
(* empty queue would leave it, so the two are proved together.             *)

Base == TypeOK /\ FrontAlwaysThere

LEMMA FrontStep == Base /\ [Next]_vars => FrontAlwaysThere'
<1> SUFFICES ASSUME Base, [Next]_vars, pc' \in {"scan", "feedScan", "feedBracket", "decide"}
             PROVE  stereo' # <<>>
  BY DEF FrontAlwaysThere
<1> USE DEF Base, FrontAlwaysThere
<1>0. QueuesOK
  BY DEF TypeOK
<1>1. ASSUME NEW t \in Time, PushStereo(t) PROVE stereo' # <<>>
  BY <1>0, <1>1, CapacityAssumption, EnqueueBounded DEF QueuesOK, PushStereo
<1>2. CASE BeginImage
  BY <1>2 DEF BeginImage, ImageReady, queues
<1>3. ASSUME NEW t \in Time, PushImu(t) PROVE stereo' # <<>>
  BY <1>3 DEF PushImu, Notified
<1>4. CASE FeedScan \/ FeedBracket \/ FeedDrain
  BY <1>4 DEF FeedScan, FeedBracket, FeedDrain, FeedImu
<1>5. CASE ImuHandlerReturns
  BY <1>5 DEF ImuHandlerReturns, InImuHandler, queues
<1>6. CASE Start \/ StopRequest \/ StopJoin
  BY <1>6 DEF Start, StopRequest, StopJoin, Notified, queues
<1>7. CASE UNCHANGED <<stereo, pc>>
  BY <1>7
<1>8. QED
  BY <1>1, <1>2, <1>3, <1>4, <1>5, <1>6, <1>7
  DEF Next, Worker, vars, queues, RejectPush, Wake, NothingReady, SkipStereo, DispatchStereo,
      FinishDrain, CameraHandlerReturns, HandlerThrows, SpuriousWakeup

LEMMA QueuesStep == Base /\ [Next]_vars => QueuesOK'
<1> SUFFICES ASSUME Base, [Next]_vars PROVE QueuesOK'
  OBVIOUS
<1> USE CapacityAssumption DEF QueuesOK
<1>0. QueuesOK
  BY DEF Base, TypeOK
<1>1. CASE Start
  BY <1>1 DEF Start
<1>2. ASSUME NEW t \in Time, PushImu(t) PROVE QueuesOK'
  BY <1>0, <1>2, EnqueueBounded DEF PushImu
<1>3. ASSUME NEW t \in Time, PushStereo(t) PROVE QueuesOK'
  BY <1>0, <1>3, EnqueueBounded DEF PushStereo
<1>4. ASSUME imu # <<>>, NEW next, FeedImu(next) PROVE QueuesOK'
  BY <1>0, <1>4, PopFront DEF FeedImu
<1>5. CASE FeedScan \/ FeedBracket \/ FeedDrain
  BY <1>4, <1>5 DEF FeedScan, ScanComplete, FeedBracket, NeedsBracket, FeedDrain
<1>6. ASSUME stereo # <<>>, stereo' = Tail(stereo), imu' = imu PROVE QueuesOK'
  BY <1>0, <1>6, PopFront
<1>7. CASE SkipStereo \/ DispatchStereo
  BY <1>6, <1>7 DEF SkipStereo, DispatchStereo, ReadyToDecide, Base, FrontAlwaysThere
<1>8. CASE FinishDrain
  BY <1>0, <1>8 DEF FinishDrain
<1>9. CASE UNCHANGED queues
  BY <1>0, <1>9 DEF queues
<1>10. QED
  BY <1>1, <1>2, <1>3, <1>5, <1>7, <1>8, <1>9
  DEF Next, Worker, vars, StopRequest, StopJoin, RejectPush, Wake, NothingReady, BeginImage,
      ImuHandlerReturns, CameraHandlerReturns, HandlerThrows, SpuriousWakeup

----------------------------------------------------------------------------
(* The rest of the type invariant                                          *)

LEMMA StampsStep == Base /\ [Next]_vars => StampsOK'
<1> SUFFICES ASSUME Base, [Next]_vars PROVE StampsOK'
  OBVIOUS
<1> USE DEF StampsOK
<1>0. StampsOK /\ QueuesOK
  BY DEF Base, TypeOK
<1>1. CASE Start
  BY <1>0, <1>1 DEF Start, locals
<1>2. ASSUME NEW t \in Time, PushImu(t) PROVE StampsOK'
  BY <1>0, <1>2 DEF PushImu, dispatch, locals
<1>3. ASSUME NEW t \in Time, PushStereo(t) PROVE StampsOK'
  BY <1>0, <1>3 DEF PushStereo, dispatch, locals
<1>4. ASSUME imu # <<>>, NEW next, FeedImu(next), lastDispatched' \in {Head(imu), lastDispatched}
      PROVE  StampsOK'
  <2>1. Head(imu) \in Time
    BY <1>0, <1>4, PopFront DEF QueuesOK
  <2>2. QED BY <1>0, <1>4, <2>1 DEF FeedImu, received, locals
<1>5. CASE FeedScan \/ FeedBracket \/ FeedDrain
  BY <1>4, <1>5 DEF FeedScan, ScanComplete, FeedBracket, NeedsBracket, FeedDrain
<1>6. CASE BeginImage
  <2>1. Head(stereo) \in Time
    BY <1>0, <1>6, PopFront DEF QueuesOK, BeginImage, ImageReady
  <2>2. QED BY <1>0, <1>6, <2>1 DEF BeginImage, received, dispatch
<1>7. CASE SkipStereo \/ DispatchStereo \/ HandlerThrows
  BY <1>0, <1>7 DEF SkipStereo, DispatchStereo, HandlerThrows, received, dispatch
<1>8. CASE UNCHANGED <<received, dispatch, imageTime>>
  BY <1>0, <1>8 DEF received, dispatch
<1>9. QED
  BY <1>1, <1>2, <1>3, <1>5, <1>6, <1>7, <1>8
  DEF Next, Worker, vars, locals, StopRequest, StopJoin, RejectPush, Wake, NothingReady, FinishDrain,
      ImuHandlerReturns, CameraHandlerReturns, SpuriousWakeup

LEMMA StatsStep == Base /\ [Next]_vars => StatsOK'
<1> SUFFICES ASSUME Base, [Next]_vars PROVE StatsOK'
  OBVIOUS
<1> USE DEF StatsOK, Stats
<1>0. StatsOK /\ QueuesOK
  BY DEF Base, TypeOK
<1>1. CASE Start
  BY <1>1 DEF Start, ZeroStats
<1>2. ASSUME NEW t \in Time, PushImu(t) PROVE StatsOK'
  BY <1>0, <1>2 DEF PushImu, Overflow
<1>3. ASSUME NEW t \in Time, PushStereo(t) PROVE StatsOK'
  BY <1>0, <1>3 DEF PushStereo, Overflow
<1>4. ASSUME NEW t, NEW newest, RejectPush(t, newest) PROVE StatsOK'
  BY <1>0, <1>4 DEF RejectPush
<1>5. CASE SkipStereo
  BY <1>0, <1>5 DEF SkipStereo
<1>6. CASE FinishDrain
  <2>1. Len(stereo) \in Nat
    BY <1>0 DEF QueuesOK
  <2>2. QED BY <1>0, <1>6, <2>1 DEF FinishDrain
<1>7. CASE ImuHandlerReturns
  BY <1>0, <1>7 DEF ImuHandlerReturns
<1>8. CASE CameraHandlerReturns
  BY <1>0, <1>8 DEF CameraHandlerReturns
<1>9. CASE UNCHANGED stats
  BY <1>0, <1>9
<1>10. QED
  BY <1>1, <1>2, <1>3, <1>4, <1>5, <1>6, <1>7, <1>8, <1>9
  DEF Next, Worker, vars, StopRequest, StopJoin, Wake, NothingReady, BeginImage, FeedScan,
      FeedBracket, FeedDrain, FeedImu, DispatchStereo, HandlerThrows, SpuriousWakeup

LEMMA ThreadsStep == Base /\ [Next]_vars => ThreadsOK'
<1> SUFFICES ASSUME Base, [Next]_vars PROVE ThreadsOK'
  OBVIOUS
<1> USE DEF ThreadsOK, Pcs, LockedPcs, InHandler, InImuHandler
<1>0. ThreadsOK
  BY DEF Base, TypeOK
<1>1. CASE Start \/ StopRequest \/ StopJoin
  BY <1>0, <1>1 DEF Start, StopRequest, StopJoin, Notified, locals
<1>2. ASSUME NEW t \in Time, PushImu(t) \/ PushStereo(t) PROVE ThreadsOK'
  BY <1>0, <1>2 DEF PushImu, PushStereo, Notified, life, locals
<1>3. CASE Wake \/ NothingReady \/ SpuriousWakeup
  BY <1>0, <1>3 DEF Wake, NothingReady, SpuriousWakeup, life, locals
<1>4. CASE BeginImage
  BY <1>0, <1>4 DEF BeginImage, life
<1>5. ASSUME NEW next \in Pcs, FeedImu(next) PROVE ThreadsOK'
  BY <1>0, <1>5 DEF FeedImu, life, locals
<1>6. CASE FeedScan \/ FeedBracket \/ FeedDrain
  BY <1>5, <1>6 DEF FeedScan, FeedBracket, FeedDrain
<1>7. CASE SkipStereo \/ DispatchStereo
  BY <1>0, <1>7 DEF SkipStereo, DispatchStereo, life
<1>8. CASE FinishDrain
  BY <1>0, <1>8 DEF FinishDrain, locals
<1>9. CASE ImuHandlerReturns
  BY <1>0, <1>9 DEF ImuHandlerReturns, life
<1>10. CASE CameraHandlerReturns
  BY <1>0, <1>10 DEF CameraHandlerReturns, life, locals
<1>11. CASE HandlerThrows
  BY <1>0, <1>11 DEF HandlerThrows
<1>12. CASE UNCHANGED <<life, pc, locals>>
  BY <1>0, <1>12 DEF life, locals
<1>13. QED
  BY <1>1, <1>2, <1>3, <1>4, <1>6, <1>7, <1>8, <1>9, <1>10, <1>11, <1>12
  DEF Next, Worker, vars, RejectPush

LEMMA HistoryStep == Base /\ [Next]_vars => HistoryOK'
<1> SUFFICES ASSUME Base, [Next]_vars PROVE HistoryOK'
  OBVIOUS
<1> USE DEF HistoryOK
<1>0. HistoryOK /\ QueuesOK
  BY DEF Base, TypeOK
<1>1. CASE Start
  BY <1>1 DEF Start
<1>2. ASSUME NEW t \in Time, PushImu(t) \/ PushStereo(t) PROVE HistoryOK'
  BY <1>0, <1>2 DEF PushImu, PushStereo
<1>3. ASSUME NEW e \in Events, trace' = Append(trace, e), UNCHANGED <<accepted, lost>>
      PROVE  HistoryOK'
  BY <1>0, <1>3 DEF accepted
<1>4. CASE FeedScan \/ FeedBracket \/ FeedDrain
  <2>1. imu # <<>>
    BY <1>4 DEF FeedScan, ScanComplete, FeedBracket, NeedsBracket, FeedDrain
  <2>2. ImuEvent(Head(imu)) \in Events
    BY <1>0, <2>1, PopFront DEF QueuesOK, ImuEvent, Events, Kinds
  <2>3. QED BY <1>3, <1>4, <2>2 DEF FeedScan, FeedBracket, FeedDrain, FeedImu
<1>5. CASE DispatchStereo
  <2>1. StereoEvent(Head(stereo)) \in Events
    BY <1>0, <1>5, PopFront
    DEF QueuesOK, Base, FrontAlwaysThere, DispatchStereo, ReadyToDecide, StereoEvent, Events, Kinds
  <2>2. QED BY <1>3, <1>5, <2>1 DEF DispatchStereo
<1>6. CASE HandlerThrows
  BY <1>0, <1>6 DEF HandlerThrows, accepted
<1>7. CASE UNCHANGED <<accepted, lost, trace>>
  BY <1>0, <1>7 DEF accepted
<1>8. QED
  BY <1>1, <1>2, <1>4, <1>5, <1>6, <1>7
  DEF Next, Worker, vars, StopRequest, StopJoin, RejectPush, Wake, NothingReady, BeginImage,
      SkipStereo, FinishDrain, ImuHandlerReturns, CameraHandlerReturns, SpuriousWakeup

LEMMA BaseCorrect == Spec => []Base
<1>1. Init => Base
  BY TypeInit DEF Base, FrontAlwaysThere, Init
<1>2. Base /\ [Next]_vars => Base'
  BY FrontStep, QueuesStep, StampsStep, StatsStep, ThreadsStep, HistoryStep DEF Base, TypeOK
<1>3. QED BY <1>1, <1>2, PTL DEF Spec

\* Members keep their types and the queues their bounds, for all capacities.
THEOREM TypeCorrect == Spec => []TypeOK
<1>1. Base => TypeOK
  BY DEF Base
<1>2. QED BY <1>1, BaseCorrect, PTL

\* Popping the stereo queue after a handler call never meets an empty queue.
THEOREM FrontIsThere == Spec => []FrontAlwaysThere
<1>1. Base => FrontAlwaysThere
  BY DEF Base
<1>2. QED BY <1>1, BaseCorrect, PTL

----------------------------------------------------------------------------
(* The life of the worker thread and what is left when it ends             *)

Lifecycle ==
  /\ running <=> pc \notin {"idle", "exited"}
  /\ pc \in {"exited", "drain", "feedDrain"} => stopping
  /\ client = "joining" => stopping /\ pc # "idle"
  /\ failed <=> lost # "nothing"
  /\ failed => pc \in {"idle", "exited"}
  /\ pc \in {"idle", "exited"} /\ ~failed => imu = <<>> /\ stereo = <<>>

LEMMA LifecycleStep == Base /\ Lifecycle /\ [Next]_vars => Lifecycle'
<1> SUFFICES ASSUME Base, Lifecycle, [Next]_vars PROVE Lifecycle'
  OBVIOUS
<1> USE DEF Lifecycle, LockedPcs, InHandler, InImuHandler
<1>0. ThreadsOK
  BY DEF Base, TypeOK
<1>1. CASE Start
  BY <1>1 DEF Start
<1>2. CASE StopRequest \/ StopJoin
  BY <1>2 DEF StopRequest, StopJoin, Notified, queues
<1>3. ASSUME NEW t \in Time, PushImu(t) \/ PushStereo(t) PROVE Lifecycle'
  BY <1>3 DEF PushImu, PushStereo, Accepting, Notified, life
<1>4. CASE Wake \/ NothingReady \/ SpuriousWakeup \/ BeginImage
  BY <1>4 DEF Wake, NothingReady, SpuriousWakeup, BeginImage, WaitPredicate, life, queues
<1>5. CASE FeedScan \/ FeedBracket \/ FeedDrain
  BY <1>5 DEF FeedScan, FeedBracket, FeedDrain, FeedImu, life
<1>6. CASE SkipStereo \/ DispatchStereo
  BY <1>6 DEF SkipStereo, DispatchStereo, ReadyToDecide, life
<1>7. CASE FinishDrain
  BY <1>7 DEF FinishDrain
<1>8. CASE ImuHandlerReturns \/ CameraHandlerReturns
  BY <1>8 DEF ImuHandlerReturns, CameraHandlerReturns, queues, life
<1>9. CASE HandlerThrows
  BY <1>9 DEF HandlerThrows
<1>10. CASE UNCHANGED <<queues, life, pc, lost>>
  BY <1>10 DEF queues, life
<1>11. QED
  BY <1>1, <1>2, <1>3, <1>4, <1>5, <1>6, <1>7, <1>8, <1>9, <1>10
  DEF Next, Worker, vars, RejectPush

----------------------------------------------------------------------------
(* Wakeups                                                                 *)

LEMMA WakeupStep == NoLostWakeup /\ [Next]_vars => NoLostWakeup'
<1> SUFFICES ASSUME NoLostWakeup, [Next]_vars, pc' = "blocked"
             PROVE  ~WaitPredicate'
  BY DEF NoLostWakeup
<1> USE DEF NoLostWakeup, WaitPredicate, ImageReady
<1>1. CASE Wake \/ NothingReady
  BY <1>1 DEF Wake, NothingReady, queues, received, life
<1>2. CASE UNCHANGED <<queues, received, life, pc>>
  BY <1>2 DEF queues, received, life
<1>3. QED
  BY <1>1, <1>2
  DEF Next, Worker, vars, Start, StopRequest, StopJoin, Notified, RejectPush, PushImu, PushStereo,
      BeginImage, FeedScan, FeedBracket, FeedDrain, FeedImu, SkipStereo, DispatchStereo,
      FinishDrain, ImuHandlerReturns, InImuHandler, CameraHandlerReturns, HandlerThrows,
      SpuriousWakeup

\* No push and no stop() is missed by a worker that goes to sleep.
THEOREM WorkerNeverOversleeps == Spec => []NoLostWakeup
<1>1. Init => NoLostWakeup
  BY DEF Init, NoLostWakeup
<1>2. QED BY <1>1, WakeupStep, PTL DEF Spec

----------------------------------------------------------------------------
(* Accounting                                                              *)

\* Accepting one frame and dropping o others leaves the frames accounted for.
LEMMA PushBalance ==
  ASSUME NEW n \in Nat, NEW r \in Nat, NEW u \in Nat, NEW l \in Nat, NEW f \in Nat, NEW o \in Nat
  PROVE  (n + r + u + l + f) + 1 = n + (r + o) + u + (l + 1 - o) + f
OBVIOUS

LEMMA ConservationStep == Base /\ Lifecycle /\ Conservation /\ [Next]_vars => Conservation'
<1> SUFFICES ASSUME Base, Lifecycle, Conservation, [Next]_vars PROVE Conservation'
  OBVIOUS
<1> USE DEF Conservation
<1>0. QueuesOK /\ StatsOK /\ HistoryOK
  BY DEF Base, TypeOK
<1>a. Len(imu) \in Nat /\ Len(stereo) \in Nat /\ ImuInFlight \in {0, 1} /\ StereoInFlight \in {0, 1}
  BY <1>0 DEF QueuesOK, ImuInFlight, StereoInFlight, Count, InImuHandler
<1>b. /\ acceptedImu = stats.dispatchedImu + stats.droppedImu + Len(imu) + ImuInFlight
      /\ acceptedImu \in Nat /\ stats.dispatchedImu \in Nat /\ stats.droppedImu \in Nat
      /\ Len(imu) \in Nat /\ ImuInFlight \in {0, 1}
  BY <1>0, <1>a DEF StatsOK, Stats, HistoryOK
<1>c. /\ acceptedStereo = stats.dispatchedStereo + stats.droppedStereo + stats.uncovered
                            + Len(stereo) + StereoInFlight
      /\ acceptedStereo \in Nat /\ stats.dispatchedStereo \in Nat
      /\ stats.droppedStereo \in Nat /\ stats.uncovered \in Nat
      /\ Len(stereo) \in Nat /\ StereoInFlight \in {0, 1}
  BY <1>0, <1>a DEF StatsOK, Stats, HistoryOK
<1>d. /\ stats.dispatchedImu \in Nat /\ stats.droppedImu \in Nat
      /\ Len(imu) \in Nat /\ ImuInFlight \in Nat
  BY <1>b
<1>e. /\ stats.dispatchedStereo \in Nat /\ stats.droppedStereo \in Nat
      /\ stats.uncovered \in Nat /\ Len(stereo) \in Nat /\ StereoInFlight \in Nat
  BY <1>c
<1>1. CASE Start
  BY <1>1, EmptySeq DEF Start, ZeroStats, ImuInFlight, StereoInFlight, Count, InImuHandler
<1>2. CASE StopRequest \/ StopJoin
  BY <1>2 DEF StopRequest, StopJoin, Notified, queues, accepted, ImuInFlight, StereoInFlight, Count, InImuHandler,
              LockedPcs
<1>3. ASSUME NEW t \in Time, PushImu(t) PROVE Conservation'
  <2>1. Len(imu') = Len(imu) + 1 - Overflow(imu, ImuCapacity) /\ Overflow(imu, ImuCapacity) \in Nat
    BY <1>0, <1>3, EnqueueBounded, CapacityAssumption DEF QueuesOK, PushImu
  <2>2. /\ stats'.droppedImu = stats.droppedImu + Overflow(imu, ImuCapacity)
        /\ stats'.dispatchedImu = stats.dispatchedImu
        /\ acceptedImu' = acceptedImu + 1
    BY <1>0, <1>3 DEF PushImu, StatsOK, Stats
  <2>3. /\ stats'.dispatchedStereo = stats.dispatchedStereo
        /\ stats'.droppedStereo = stats.droppedStereo
        /\ stats'.uncovered = stats.uncovered
        /\ Len(stereo') = Len(stereo) /\ acceptedStereo' = acceptedStereo
    BY <1>0, <1>3 DEF PushImu, StatsOK, Stats
  <2>4. ImuInFlight' = ImuInFlight
    BY <1>3 DEF PushImu, Notified, ImuInFlight, Count, InImuHandler
  <2>5. StereoInFlight' = StereoInFlight
    BY <1>3 DEF PushImu, Notified, StereoInFlight, Count
  <2>6. acceptedImu' = stats'.dispatchedImu + stats'.droppedImu + Len(imu') + ImuInFlight'
    <3>1. (stats.dispatchedImu + stats.droppedImu + Len(imu) + ImuInFlight) + 1
            = stats.dispatchedImu + (stats.droppedImu + Overflow(imu, ImuCapacity))
                + (Len(imu) + 1 - Overflow(imu, ImuCapacity)) + ImuInFlight
      BY ONLY <1>d, <2>1, SMTT(60)
    <3>2. QED BY ONLY <3>1, <1>b, <2>1, <2>2, <2>4
  <2>7. QED BY <1>c, <2>3, <2>5, <2>6
<1>4. ASSUME NEW t \in Time, PushStereo(t) PROVE Conservation'
  <2>1. /\ Len(stereo') = Len(stereo) + 1 - Overflow(stereo, StereoCapacity)
        /\ Overflow(stereo, StereoCapacity) \in Nat
    BY <1>0, <1>4, EnqueueBounded, CapacityAssumption DEF QueuesOK, PushStereo
  <2>2. /\ stats'.droppedStereo = stats.droppedStereo + Overflow(stereo, StereoCapacity)
        /\ stats'.dispatchedStereo = stats.dispatchedStereo
        /\ stats'.uncovered = stats.uncovered
        /\ acceptedStereo' = acceptedStereo + 1
    BY <1>0, <1>4 DEF PushStereo, StatsOK, Stats
  <2>3. /\ stats'.dispatchedImu = stats.dispatchedImu
        /\ stats'.droppedImu = stats.droppedImu
        /\ Len(imu') = Len(imu) /\ acceptedImu' = acceptedImu
    BY <1>0, <1>4 DEF PushStereo, StatsOK, Stats
  <2>4. ImuInFlight' = ImuInFlight
    BY <1>4 DEF PushStereo, Notified, ImuInFlight, Count, InImuHandler
  <2>5. StereoInFlight' = StereoInFlight
    BY <1>4 DEF PushStereo, Notified, StereoInFlight, Count
  <2>6. acceptedStereo' = stats'.dispatchedStereo + stats'.droppedStereo + stats'.uncovered
                            + Len(stereo') + StereoInFlight'
    <3>0. Overflow(stereo, StereoCapacity) \in Nat
      BY <2>1
    <3>1. (stats.dispatchedStereo + stats.droppedStereo + stats.uncovered + Len(stereo)
             + StereoInFlight) + 1
            = stats.dispatchedStereo + (stats.droppedStereo + Overflow(stereo, StereoCapacity))
                + stats.uncovered + (Len(stereo) + 1 - Overflow(stereo, StereoCapacity))
                + StereoInFlight
      BY ONLY <1>e, <3>0, PushBalance, SMTT(60)
    <3>2. QED BY ONLY <3>1, <1>c, <2>1, <2>2, <2>5
  <2>7. QED BY <1>b, <2>3, <2>4, <2>6
<1>5. ASSUME NEW t, NEW newest, RejectPush(t, newest) PROVE Conservation'
  BY <1>0, <1>5 DEF RejectPush, queues, accepted, life, StatsOK, Stats, ImuInFlight, StereoInFlight, Count, InImuHandler
<1>6. CASE Wake \/ NothingReady \/ SpuriousWakeup \/ BeginImage
  BY <1>6 DEF Wake, NothingReady, SpuriousWakeup, BeginImage, queues, accepted, life, ImuInFlight, StereoInFlight, Count, InImuHandler
<1>7. CASE FeedScan \/ FeedBracket \/ FeedDrain
  <2>1. Len(imu') = Len(imu) - 1 /\ UNCHANGED <<stereo, stats, accepted>>
    BY <1>0, <1>7, PopFront
    DEF QueuesOK, FeedScan, ScanComplete, FeedBracket, NeedsBracket, FeedDrain, FeedImu
  <2>2. ImuInFlight = 0 /\ StereoInFlight = 0 /\ ImuInFlight' = 1 /\ StereoInFlight' = 0
    BY <1>7 DEF FeedScan, FeedBracket, FeedDrain, FeedImu, ImuInFlight, StereoInFlight, Count, InImuHandler, Lifecycle
  <2>3. stats.dispatchedImu + stats.droppedImu + Len(imu) + 0
          = stats.dispatchedImu + stats.droppedImu + (Len(imu) - 1) + 1
    BY ONLY <1>d
  <2>4. QED BY ONLY <1>b, <1>c, <2>1, <2>2, <2>3 DEF Conservation, accepted
<1>8. CASE SkipStereo
  <2>1. Len(stereo') = Len(stereo) - 1 /\ UNCHANGED <<imu, accepted>>
    BY <1>0, <1>8, PopFront DEF QueuesOK, Base, FrontAlwaysThere, SkipStereo, ReadyToDecide
  <2>2. ImuInFlight = 0 /\ StereoInFlight = 0 /\ ImuInFlight' = 0 /\ StereoInFlight' = 0
    BY <1>8 DEF SkipStereo, ReadyToDecide, ImuInFlight, StereoInFlight, Count, InImuHandler, Lifecycle
  <2>3. stats' = [stats EXCEPT !.uncovered = @ + 1]
    BY <1>8 DEF SkipStereo
  <2>4. /\ stats'.uncovered = stats.uncovered + 1
        /\ stats'.dispatchedStereo = stats.dispatchedStereo
        /\ stats'.droppedStereo = stats.droppedStereo
        /\ stats'.dispatchedImu = stats.dispatchedImu
        /\ stats'.droppedImu = stats.droppedImu
    BY <1>0, <2>3 DEF StatsOK, Stats
  <2>5. stats.dispatchedStereo + stats.droppedStereo + stats.uncovered + Len(stereo) + 0
          = stats.dispatchedStereo + stats.droppedStereo + (stats.uncovered + 1)
              + (Len(stereo) - 1) + 0
    BY ONLY <1>e, SMTT(60)
  <2>6. QED BY ONLY <1>b, <1>c, <2>1, <2>2, <2>4, <2>5 DEF Conservation, accepted
<1>9. CASE DispatchStereo
  <2>1. Len(stereo') = Len(stereo) - 1 /\ UNCHANGED <<imu, stats, accepted>>
    BY <1>0, <1>9, PopFront DEF QueuesOK, Base, FrontAlwaysThere, DispatchStereo, ReadyToDecide
  <2>2. ImuInFlight = 0 /\ StereoInFlight = 0 /\ ImuInFlight' = 0 /\ StereoInFlight' = 1
    BY <1>9 DEF DispatchStereo, ReadyToDecide, ImuInFlight, StereoInFlight, Count, InImuHandler, Lifecycle
  <2>3. stats.dispatchedStereo + stats.droppedStereo + stats.uncovered + Len(stereo) + 0
          = stats.dispatchedStereo + stats.droppedStereo + stats.uncovered
              + (Len(stereo) - 1) + 1
    BY ONLY <1>e, SMTT(60)
  <2>4. QED BY ONLY <1>b, <1>c, <2>1, <2>2, <2>3 DEF Conservation, accepted
<1>10. CASE FinishDrain
  <2>1. Len(stereo') = 0 /\ UNCHANGED <<imu, accepted>>
    BY <1>10, EmptySeq DEF FinishDrain
  <2>2. ImuInFlight = 0 /\ StereoInFlight = 0 /\ ImuInFlight' = 0 /\ StereoInFlight' = 0
    BY <1>10 DEF FinishDrain, ImuInFlight, StereoInFlight, Count, InImuHandler, Lifecycle
  <2>3. stats' = [stats EXCEPT !.uncovered = @ + Len(stereo)]
    BY <1>10 DEF FinishDrain
  <2>4. /\ stats'.uncovered = stats.uncovered + Len(stereo)
        /\ stats'.dispatchedStereo = stats.dispatchedStereo
        /\ stats'.droppedStereo = stats.droppedStereo
        /\ stats'.dispatchedImu = stats.dispatchedImu
        /\ stats'.droppedImu = stats.droppedImu
    BY <1>0, <2>3 DEF StatsOK, Stats
  <2>5. stats.dispatchedStereo + stats.droppedStereo + stats.uncovered + Len(stereo) + 0
          = stats.dispatchedStereo + stats.droppedStereo + (stats.uncovered + Len(stereo)) + 0 + 0
    BY ONLY <1>e
  <2>6. QED BY ONLY <1>b, <1>c, <2>1, <2>2, <2>4, <2>5 DEF Conservation, accepted
<1>11. CASE ImuHandlerReturns
  <2>1. UNCHANGED <<imu, stereo, accepted>>
    BY <1>11 DEF ImuHandlerReturns, queues
  <2>2. ImuInFlight = 1 /\ StereoInFlight = 0 /\ ImuInFlight' = 0 /\ StereoInFlight' = 0
    BY <1>11 DEF ImuHandlerReturns, ImuInFlight, StereoInFlight, Count, InImuHandler, Lifecycle
  <2>3. stats' = [stats EXCEPT !.dispatchedImu = @ + 1]
    BY <1>11 DEF ImuHandlerReturns
  <2>4. /\ stats'.dispatchedImu = stats.dispatchedImu + 1
        /\ stats'.droppedImu = stats.droppedImu
        /\ stats'.dispatchedStereo = stats.dispatchedStereo
        /\ stats'.droppedStereo = stats.droppedStereo
        /\ stats'.uncovered = stats.uncovered
    BY <1>0, <2>3 DEF StatsOK, Stats
  <2>5. stats.dispatchedImu + stats.droppedImu + Len(imu) + 1
          = (stats.dispatchedImu + 1) + stats.droppedImu + Len(imu) + 0
    BY ONLY <1>d
  <2>6. QED BY ONLY <1>b, <1>c, <2>1, <2>2, <2>4, <2>5 DEF Conservation, accepted
<1>12. CASE CameraHandlerReturns
  <2>1. UNCHANGED <<imu, stereo, accepted>>
    BY <1>12 DEF CameraHandlerReturns, queues
  <2>2. ImuInFlight = 0 /\ StereoInFlight = 1 /\ ImuInFlight' = 0 /\ StereoInFlight' = 0
    BY <1>12 DEF CameraHandlerReturns, ImuInFlight, StereoInFlight, Count, InImuHandler, Lifecycle
  <2>3. stats' = [stats EXCEPT !.dispatchedStereo = @ + 1]
    BY <1>12 DEF CameraHandlerReturns
  <2>4. /\ stats'.dispatchedStereo = stats.dispatchedStereo + 1
        /\ stats'.droppedStereo = stats.droppedStereo
        /\ stats'.uncovered = stats.uncovered
        /\ stats'.dispatchedImu = stats.dispatchedImu
        /\ stats'.droppedImu = stats.droppedImu
    BY <1>0, <2>3 DEF StatsOK, Stats
  <2>5. stats.dispatchedStereo + stats.droppedStereo + stats.uncovered + Len(stereo) + 1
          = (stats.dispatchedStereo + 1) + stats.droppedStereo + stats.uncovered + Len(stereo) + 0
    BY ONLY <1>e, SMTT(60)
  <2>6. QED BY ONLY <1>b, <1>c, <2>1, <2>2, <2>4, <2>5 DEF Conservation, accepted
<1>13. CASE HandlerThrows
  BY <1>0, <1>13 DEF HandlerThrows, InHandler, accepted, queues, ImuInFlight, StereoInFlight, Count, InImuHandler, Lifecycle
<1>14. CASE UNCHANGED vars
  BY <1>14 DEF vars, queues, accepted, ImuInFlight, StereoInFlight, Count, InImuHandler
<1>15. QED
  BY <1>1, <1>2, <1>3, <1>4, <1>5, <1>6, <1>7, <1>8, <1>9, <1>10, <1>11, <1>12, <1>13, <1>14
  DEF Next, Worker

Accounting == Base /\ Lifecycle /\ Conservation

LEMMA AccountingCorrect == Spec => []Accounting
<1>1. Init => Accounting
  BY TypeInit DEF Accounting, Base, FrontAlwaysThere, Lifecycle, Conservation, Init, ZeroStats,
                  ImuInFlight, StereoInFlight, Count, InImuHandler
<1>2. Base /\ [Next]_vars => Base'
  BY FrontStep, QueuesStep, StampsStep, StatsStep, ThreadsStep, HistoryStep DEF Base, TypeOK
<1>3. Accounting /\ [Next]_vars => Accounting'
  BY <1>2, LifecycleStep, ConservationStep DEF Accounting
<1>4. QED BY <1>1, <1>3, PTL DEF Spec

\* Every accepted sample and frame is in exactly one place, whatever the
\* capacities and whoever runs.
THEOREM NothingIsLostUncounted == Spec => []Conservation
<1>1. Accounting => Conservation
  BY DEF Accounting
<1>2. QED BY <1>1, AccountingCorrect, PTL

\* After a clean end nothing is left and the statistics add up.
THEOREM CleanExitIsClean == Spec => []CleanExit
<1>1. Accounting => CleanExit
  <2> SUFFICES ASSUME Accounting, pc \in {"exited", "idle"}, ~failed
               PROVE  /\ imu = <<>> /\ stereo = <<>>
                      /\ acceptedImu = stats.dispatchedImu + stats.droppedImu
                      /\ acceptedStereo = stats.dispatchedStereo + stats.droppedStereo
                                            + stats.uncovered
    BY DEF CleanExit, Accounting, Lifecycle
  <2>1. imu = <<>> /\ stereo = <<>> /\ ImuInFlight = 0 /\ StereoInFlight = 0
    BY DEF Accounting, Lifecycle, ImuInFlight, StereoInFlight, Count, InImuHandler
  <2>2. StatsOK
    BY DEF Accounting, Base, TypeOK
  <2>3. QED BY <2>1, <2>2, EmptySeq DEF Accounting, Conservation, StatsOK, Stats
<1>2. QED BY <1>1, AccountingCorrect, PTL

----------------------------------------------------------------------------
(* Part 2: the promise                                                   *)

ImagePcs == {"scan", "feedScan", "feedBracket", "decide"}
DrainPcs == {"drain", "feedDrain"}
OverPcs  == {"idle", "exited"}

\* The timestamps of the IMU samples handed over so far.
Delivered == {t \in Time : \E n \in 1..Len(trace) : trace[n] = ImuEvent(t)}

\* Both queues are sorted and hold nothing newer than the last accepted element,
\* and the newest sample accepted is the last of the IMU queue.
QueueOrder ==
  /\ imu # <<>> => imu[Len(imu)] = lastImuReceived
  /\ \A i, j \in 1..Len(imu) : i < j => imu[i] < imu[j]
  /\ \A i \in 1..Len(imu) : imu[i] <= lastImuReceived
  /\ \A i, j \in 1..Len(stereo) : i < j => stereo[i] < stereo[j]
  /\ \A i \in 1..Len(stereo) : stereo[i] <= lastStereoReceived

\* Delivered samples precede the queued ones and lie between first and last.
DeliveredOrder ==
  /\ \A t \in Delivered :
       /\ t <= lastImuReceived
       /\ \A i \in 1..Len(imu) : t < imu[i]
       /\ firstDispatched # NoTime /\ firstDispatched <= t
       /\ pc \notin DrainPcs \cup OverPcs => t <= lastDispatched
  /\ lastDispatched # NoTime => lastDispatched \in Delivered
  /\ firstDispatched # NoTime => firstDispatched \in Delivered
  /\ pc \notin DrainPcs \cup OverPcs /\ imu = <<>> => lastDispatched = lastImuReceived

\* What stays true of the image the worker has begun while others push.
InImage ==
  pc \in ImagePcs =>
    /\ imageTime \in Time
    /\ lastImuReceived >= imageTime
    /\ imageTime <= Head(stereo)
    /\ stats.droppedStereo = 0 => imageTime = Head(stereo)
    /\ pc = "feedScan" => lastDispatched <= imageTime /\ lastDispatched # NoTime
    /\ hasBefore => \E t \in Delivered : t <= imageTime
    /\ ~hasBefore /\ pc # "feedScan" => \A t \in Delivered : t > imageTime
    /\ pc \in {"feedBracket", "decide"} =>
         /\ lastDispatched >= imageTime
         /\ \A i \in 1..Len(imu) : imu[i] > imageTime

\* No frame is ready once the worker drains.
Draining ==
  pc \in DrainPcs => \A i \in 1..Len(stereo) : stereo[i] > lastImuReceived

OrderInv == QueueOrder /\ DeliveredOrder /\ InImage /\ Draining

----------------------------------------------------------------------------
(* Queue and trace lemmas                                                  *)

\* The elements after a push: the new one last, before it those that stay.
LEMMA EnqueueElements ==
  ASSUME NEW q \in Seq(Time), NEW t \in Time, NEW c \in Nat \ {0}, Len(q) <= c
  PROVE  LET r == Enqueue(q, t, c)
             s == Overflow(q, c)
         IN  /\ r[Len(r)] = t
             /\ \A i \in 1..(Len(r) - 1) : r[i] = q[i + s] /\ i + s \in 1..Len(q)
             /\ s = 0 => r = Append(q, t)
<1>1. CASE Len(q) = c
  <2>1. q # <<>>
    BY <1>1, EmptySeq
  <2>2. /\ Tail(q) \in Seq(Time) /\ Len(Tail(q)) = c - 1
        /\ \A i \in 1..Len(Tail(q)) : Tail(q)[i] = q[i + 1]
    BY <1>1, <2>1, HeadTailProperties
  <2>3. Enqueue(q, t, c) = Append(Tail(q), t) /\ Overflow(q, c) = 1
    BY <1>1 DEF Enqueue, Overflow
  <2>4. QED BY <1>1, <2>2, <2>3
<1>2. CASE Len(q) # c
  <2>1. Enqueue(q, t, c) = Append(q, t) /\ Overflow(q, c) = 0
    BY <1>2 DEF Enqueue, Overflow
  <2>2. QED BY <2>1
<1>3. QED BY <1>1, <1>2

\* The elements after a pop.
LEMMA PopElements ==
  ASSUME NEW q \in Seq(Time), q # <<>>
  PROVE  /\ Head(q) = q[1] /\ 1 \in 1..Len(q)
         /\ \A i \in 1..Len(Tail(q)) : Tail(q)[i] = q[i + 1] /\ i + 1 \in 1..Len(q)
<1>1. Len(q) \in Nat \ {0} /\ Len(Tail(q)) = Len(q) - 1
  BY PopFront
<1>2. \A i \in 1..Len(Tail(q)) : Tail(q)[i] = q[i + 1]
  BY HeadTailProperties
<1>3. Head(q) = q[1]
  OBVIOUS
<1>4. QED BY <1>1, <1>2, <1>3

\* Handing over a sample adds its timestamp to Delivered; a frame adds nothing.
LEMMA DeliveredGrows ==
  ASSUME trace \in Seq(Events), NEW e \in Events, trace' = Append(trace, e)
  PROVE  /\ \A t \in Time : e = ImuEvent(t) => Delivered' = Delivered \cup {t}
         /\ \A t \in Time : e = StereoEvent(t) => Delivered' = Delivered
<1>1. /\ Len(trace') = Len(trace) + 1 /\ Len(trace) \in Nat
      /\ \A n \in 1..Len(trace) : trace'[n] = trace[n]
      /\ trace'[Len(trace) + 1] = e
  OBVIOUS
<1>2. \A t \in Time : t \in Delivered' <=> t \in Delivered \/ e = ImuEvent(t)
  BY <1>1 DEF Delivered
<1>3. \A t, u \in Time : ImuEvent(t) = ImuEvent(u) => t = u
  BY DEF ImuEvent
<1>4. \A t, u \in Time : StereoEvent(t) # ImuEvent(u)
  BY DEF ImuEvent, StereoEvent
<1>5. Delivered \subseteq Time /\ Delivered' \subseteq Time
  BY DEF Delivered
<1>6. QED BY <1>2, <1>3, <1>4, <1>5

LEMMA DeliveredStays == ASSUME UNCHANGED trace PROVE Delivered' = Delivered
BY DEF Delivered

----------------------------------------------------------------------------
(* The order of the queues                                                 *)

\* A push of a newer timestamp keeps a queue sorted and bounded by the newest.
LEMMA EnqueueSorted ==
  ASSUME NEW q \in Seq(Time), NEW t \in Time, NEW c \in Nat \ {0}, Len(q) <= c,
         NEW newest \in Time \cup {NoTime}, t > newest,
         \A i, j \in 1..Len(q) : i < j => q[i] < q[j],
         \A i \in 1..Len(q) : q[i] <= newest
  PROVE  LET r == Enqueue(q, t, c)
         IN  /\ \A i, j \in 1..Len(r) : i < j => r[i] < r[j]
             /\ \A i \in 1..Len(r) : r[i] <= t
             /\ \A i \in 1..Len(r) : r[i] = t \/ \E k \in 1..Len(q) : r[i] = q[k]
             /\ r[Len(r)] = t
<1> DEFINE r == Enqueue(q, t, c)
           s == Overflow(q, c)
<1>1. /\ r \in Seq(Time) /\ r[Len(r)] = t
      /\ \A i \in 1..(Len(r) - 1) : r[i] = q[i + s] /\ i + s \in 1..Len(q)
      /\ s \in Nat
  BY EnqueueBounded, EnqueueElements
<1> HIDE DEF r, s
<1>2. Len(r) \in Nat /\ Len(q) \in Nat /\ newest \in Int /\ t \in Nat
  BY <1>1, TimeAssumption DEF NoTime
<1>3. \A i \in 1..(Len(r) - 1) : r[i] < t /\ r[i] \in Nat
  <2> TAKE i \in 1..(Len(r) - 1)
  <2>1. r[i] = q[i + s] /\ i + s \in 1..Len(q)
    BY <1>1
  <2>2. q[i + s] \in Time /\ q[i + s] <= newest
    BY <2>1
  <2>3. q[i + s] \in Nat
    BY <2>2, TimeAssumption
  <2>4. q[i + s] < t
    BY <1>2, <2>2, <2>3
  <2>5. QED BY <2>1, <2>3, <2>4
<1>4. \A i, j \in 1..(Len(r) - 1) : i < j => r[i] < r[j]
  <2> TAKE i, j \in 1..(Len(r) - 1)
  <2> HAVE i < j
  <2>1. i + s < j + s
    BY <1>1, <1>2
  <2>2. QED BY <1>1, <2>1
<1>5. \A i \in 1..Len(r) : i = Len(r) \/ i \in 1..(Len(r) - 1)
  BY <1>2
<1>6. \A i, j \in 1..Len(r) : i < j => r[i] < r[j]
  BY <1>1, <1>2, <1>3, <1>4, <1>5
<1>7. \A i \in 1..Len(r) : r[i] <= t
  BY <1>1, <1>2, <1>3, <1>5
<1>8. \A i \in 1..Len(r) : r[i] = t \/ \E k \in 1..Len(q) : r[i] = q[k]
  BY <1>1, <1>5
<1>9. QED BY <1>1, <1>6, <1>7, <1>8 DEF r

\* A pop keeps a queue sorted and bounded; what is left exceeds the front.
LEMMA PopSorted ==
  ASSUME NEW q \in Seq(Time), q # <<>>, \A i, j \in 1..Len(q) : i < j => q[i] < q[j]
  PROVE  /\ \A i, j \in 1..Len(Tail(q)) : i < j => Tail(q)[i] < Tail(q)[j]
         /\ \A i \in 1..Len(Tail(q)) : Head(q) < Tail(q)[i]
         /\ \A i \in 1..Len(Tail(q)) : \E k \in 1..Len(q) : Tail(q)[i] = q[k]
         /\ Tail(q) # <<>> => Tail(q)[Len(Tail(q))] = q[Len(q)]
         /\ Tail(q) = <<>> => Head(q) = q[Len(q)]
<1>1. /\ Len(q) \in Nat \ {0} /\ Len(Tail(q)) = Len(q) - 1 /\ Head(q) = q[1]
      /\ \A i \in 1..Len(Tail(q)) : Tail(q)[i] = q[i + 1] /\ i + 1 \in 1..Len(q)
      /\ 1 \in 1..Len(q)
  BY PopFront, PopElements
<1>2. \A i \in 1..Len(Tail(q)) : Head(q) < Tail(q)[i]
  <2> TAKE i \in 1..Len(Tail(q))
  <2>1. 1 < i + 1
    BY <1>1
  <2>2. QED BY <1>1, <2>1
<1>3. \A i, j \in 1..Len(Tail(q)) : i < j => Tail(q)[i] < Tail(q)[j]
  <2> TAKE i, j \in 1..Len(Tail(q))
  <2> HAVE i < j
  <2>1. i + 1 < j + 1
    BY <1>1
  <2>2. QED BY <1>1, <2>1
<1>4. ASSUME Tail(q) # <<>> PROVE Tail(q)[Len(Tail(q))] = q[Len(q)]
  <2>1. Tail(q) \in Seq(Time)
    BY PopFront
  <2>2. Len(Tail(q)) \in 1..Len(Tail(q))
    BY <1>4, <2>1, EmptySeq
  <2>3. Tail(q)[Len(Tail(q))] = q[Len(Tail(q)) + 1]
    BY <1>1, <2>2
  <2>4. Len(Tail(q)) + 1 = Len(q)
    BY <1>1
  <2>5. QED BY <2>3, <2>4
<1>5. ASSUME Tail(q) = <<>> PROVE Head(q) = q[Len(q)]
  <2>1. Len(Tail(q)) = 0
    BY <1>5, EmptySeq
  <2>2. Len(q) = 1
    BY <2>1, PopFront
  <2>3. QED BY <1>1, <2>2
<1>6. QED BY <1>1, <1>2, <1>3, <1>4, <1>5

Strong == Base /\ Lifecycle /\ OrderInv

LEMMA QueueOrderStep == Strong /\ [Next]_vars => QueueOrder'
<1> SUFFICES ASSUME Strong, [Next]_vars PROVE QueueOrder'
  OBVIOUS
<1>0. QueuesOK /\ StampsOK /\ QueueOrder /\ FrontAlwaysThere
  BY DEF Strong, OrderInv, Base, TypeOK
<1>1. CASE Start
  BY <1>1, EmptySeq DEF Start, QueueOrder
<1>2. ASSUME NEW t \in Time, PushImu(t) PROVE QueueOrder'
  <2>1. /\ \A i, j \in 1..Len(imu') : i < j => imu'[i] < imu'[j]
        /\ \A i \in 1..Len(imu') : imu'[i] <= t
        /\ imu'[Len(imu')] = t
    BY <1>0, <1>2, EnqueueSorted, SMTT(30), CapacityAssumption DEF QueuesOK, StampsOK, QueueOrder, PushImu
  <2>2. QED BY <1>0, <1>2, <2>1 DEF PushImu, QueueOrder
<1>3. ASSUME NEW t \in Time, PushStereo(t) PROVE QueueOrder'
  <2>1. /\ \A i, j \in 1..Len(stereo') : i < j => stereo'[i] < stereo'[j]
        /\ \A i \in 1..Len(stereo') : stereo'[i] <= t
    BY <1>0, <1>3, EnqueueSorted, CapacityAssumption DEF QueuesOK, StampsOK, QueueOrder, PushStereo
  <2>2. QED BY <1>0, <1>3, <2>1 DEF PushStereo, QueueOrder
<1>4. ASSUME imu # <<>>, imu' = Tail(imu), UNCHANGED <<stereo, received>> PROVE QueueOrder'
  <2>1. /\ \A i, j \in 1..Len(imu') : i < j => imu'[i] < imu'[j]
        /\ \A i \in 1..Len(imu') : imu'[i] <= lastImuReceived
        /\ imu' # <<>> => imu'[Len(imu')] = lastImuReceived
    BY <1>0, <1>4, PopSorted DEF QueuesOK, QueueOrder
  <2>2. QED BY <1>0, <1>4, <2>1 DEF received, QueueOrder
<1>5. CASE FeedScan \/ FeedBracket \/ FeedDrain
  BY <1>4, <1>5 DEF FeedScan, ScanComplete, FeedBracket, NeedsBracket, FeedDrain, FeedImu
<1>6. ASSUME stereo # <<>>, stereo' = Tail(stereo), UNCHANGED <<imu, received>> PROVE QueueOrder'
  <2>1. /\ \A i, j \in 1..Len(stereo') : i < j => stereo'[i] < stereo'[j]
        /\ \A i \in 1..Len(stereo') : stereo'[i] <= lastStereoReceived
    BY <1>0, <1>6, PopSorted DEF QueuesOK, QueueOrder
  <2>2. QED BY <1>0, <1>6, <2>1 DEF received, QueueOrder
<1>7. CASE SkipStereo \/ DispatchStereo
  BY <1>0, <1>6, <1>7 DEF SkipStereo, DispatchStereo, ReadyToDecide, FrontAlwaysThere
<1>8. CASE FinishDrain
  BY <1>0, <1>8, EmptySeq DEF FinishDrain, QueueOrder, received
<1>9. CASE UNCHANGED <<queues, received>>
  BY <1>0, <1>9 DEF queues, received, QueueOrder
<1>10. QED
  BY <1>1, <1>2, <1>3, <1>5, <1>7, <1>8, <1>9
  DEF Next, Worker, vars, StopRequest, StopJoin, RejectPush, Wake, NothingReady, BeginImage,
      ImuHandlerReturns, CameraHandlerReturns, HandlerThrows, SpuriousWakeup

----------------------------------------------------------------------------
(* What was delivered, and the worker's two timestamps                     *)

LEMMA DeliveredOrderStep == Strong /\ [Next]_vars => DeliveredOrder'
<1> SUFFICES ASSUME Strong, [Next]_vars PROVE DeliveredOrder'
  OBVIOUS
<1>0. /\ QueuesOK /\ StampsOK /\ HistoryOK /\ FrontAlwaysThere /\ Lifecycle
      /\ QueueOrder /\ DeliveredOrder
  BY DEF Strong, OrderInv, Base, TypeOK
<1>a. /\ Delivered \subseteq Nat /\ lastImuReceived \in Int /\ lastDispatched \in Int
      /\ firstDispatched \in Int
  <2>1. Delivered \subseteq Nat
    BY TimeAssumption DEF Delivered
  <2>2. {lastImuReceived, lastDispatched, firstDispatched} \subseteq Time \cup {NoTime}
    BY <1>0 DEF StampsOK
  <2>3. Time \cup {NoTime} \subseteq Int
    BY TimeAssumption DEF NoTime
  <2>4. QED BY <2>1, <2>2, <2>3
<1>1. CASE Start
  <2>1. Delivered' = {}
    BY <1>1 DEF Start, Delivered
  <2>2. QED BY <1>1, <2>1 DEF Start, DeliveredOrder
<1>2. ASSUME NEW t \in Time, PushImu(t) PROVE DeliveredOrder'
  <2>1. Delivered' = Delivered
    BY <1>2, DeliveredStays DEF PushImu
  <2>2. /\ \A i \in 1..Len(imu') : imu'[i] = t \/ \E k \in 1..Len(imu) : imu'[i] = imu[k]
        /\ imu' # <<>>
    <3>1. imu' # <<>>
      BY <1>0, <1>2, EnqueueBounded, CapacityAssumption DEF QueuesOK, PushImu
    <3>2. QED BY <1>0, <1>2, <3>1, EnqueueSorted, SMTT(30), CapacityAssumption
              DEF QueuesOK, StampsOK, QueueOrder, PushImu
  <2>3. t \in Nat /\ lastImuReceived' = t /\ t > lastImuReceived /\ UNCHANGED dispatch
    BY <1>2, TimeAssumption DEF PushImu
  <2>4. pc' \notin DrainPcs \cup OverPcs => pc \notin DrainPcs \cup OverPcs
    BY <1>2 DEF PushImu, Notified, DrainPcs, OverPcs
  <2>5. \A d \in Delivered : d <= t /\ \A i \in 1..Len(imu') : d < imu'[i]
    BY <1>0, <1>a, <2>2, <2>3 DEF DeliveredOrder
  <2>6. QED BY <1>0, <2>1, <2>2, <2>3, <2>4, <2>5 DEF DeliveredOrder, dispatch
<1>3. ASSUME imu # <<>>, NEW next, FeedImu(next),
             \/ lastDispatched' = Head(imu)
             \/ next \in DrainPcs /\ lastDispatched' = lastDispatched
      PROVE  DeliveredOrder'
  <2>1. Head(imu) \in Time /\ Head(imu) \in Nat /\ Head(imu) <= lastImuReceived
    BY <1>0, <1>3, PopFront, PopElements, TimeAssumption DEF QueuesOK, QueueOrder
  <2>2. /\ \A i \in 1..Len(imu') : Head(imu) < imu'[i]
        /\ imu' = <<>> => Head(imu) = lastImuReceived
    BY <1>0, <1>3, PopSorted DEF QueuesOK, QueueOrder, FeedImu
  <2>3. \A d \in Delivered : d < Head(imu)
    BY <1>0, <1>3, PopElements DEF QueuesOK, DeliveredOrder
  <2>4. Delivered' = Delivered \cup {Head(imu)}
    <3>1. ImuEvent(Head(imu)) \in Events
      BY <2>1 DEF ImuEvent, Events, Kinds
    <3>2. QED BY <1>0, <1>3, <2>1, <3>1, DeliveredGrows DEF HistoryOK, FeedImu
  <2>5. \A d \in Delivered : \A i \in 1..Len(imu') : d < imu'[i]
    BY <1>0, <1>3, PopSorted DEF QueuesOK, QueueOrder, DeliveredOrder, FeedImu
  <2>6. /\ firstDispatched' # NoTime
        /\ firstDispatched' \in Delivered'
        /\ \A d \in Delivered' : firstDispatched' <= d
    BY <1>0, <1>3, <1>a, <2>1, <2>3, <2>4 DEF DeliveredOrder, FeedImu, NoTime
  <2>7. lastDispatched' # NoTime => lastDispatched' \in Delivered'
    BY <1>0, <1>3, <2>4 DEF DeliveredOrder
  <2>8. pc' \notin DrainPcs \cup OverPcs =>
          /\ \A d \in Delivered' : d <= lastDispatched'
          /\ imu' = <<>> => lastDispatched' = lastImuReceived
    BY <1>3, <1>a, <2>1, <2>2, <2>3, <2>4 DEF FeedImu
  <2>9. \A d \in Delivered' : d <= lastImuReceived
    BY <1>0, <2>1, <2>4 DEF DeliveredOrder
  <2>10. lastImuReceived' = lastImuReceived
    BY <1>3 DEF FeedImu, received
  <2>11. QED BY <2>2, <2>4, <2>5, <2>6, <2>7, <2>8, <2>9, <2>10 DEF DeliveredOrder
<1>4. CASE FeedScan \/ FeedBracket \/ FeedDrain
  BY <1>3, <1>4 DEF FeedScan, ScanComplete, FeedBracket, NeedsBracket, FeedDrain, DrainPcs
<1>5. ASSUME UNCHANGED <<imu, lastImuReceived, dispatch>>, Delivered' = Delivered,
             pc' \notin DrainPcs \cup OverPcs => pc \notin DrainPcs \cup OverPcs
      PROVE  DeliveredOrder'
  BY <1>0, <1>5 DEF DeliveredOrder, dispatch
<1>6. CASE DispatchStereo
  <2>1. Head(stereo) \in Time
    BY <1>0, <1>6, PopFront DEF QueuesOK, FrontAlwaysThere, DispatchStereo, ReadyToDecide
  <2>2. StereoEvent(Head(stereo)) \in Events
    BY <2>1 DEF StereoEvent, Events, Kinds
  <2>3. Delivered' = Delivered
    BY <1>0, <1>6, <2>1, <2>2, DeliveredGrows DEF HistoryOK, DispatchStereo
  <2>4. QED BY <1>5, <1>6, <2>3 DEF DispatchStereo, ReadyToDecide, DrainPcs, OverPcs, received
<1>7. ASSUME NEW t \in Time, PushStereo(t) PROVE DeliveredOrder'
  BY <1>5, <1>7, DeliveredStays DEF PushStereo, Notified, DrainPcs, OverPcs, dispatch
<1>8. CASE StopRequest \/ StopJoin
  BY <1>5, <1>8, DeliveredStays
  DEF StopRequest, StopJoin, Notified, DrainPcs, OverPcs, dispatch, queues, received
<1>9. CASE \/ Wake \/ NothingReady \/ SpuriousWakeup \/ BeginImage \/ SkipStereo \/ FinishDrain
           \/ ImuHandlerReturns \/ CameraHandlerReturns \/ HandlerThrows
  BY <1>5, <1>9, DeliveredStays
  DEF Wake, NothingReady, SpuriousWakeup, BeginImage, SkipStereo, FinishDrain, ImuHandlerReturns,
      InImuHandler, CameraHandlerReturns, HandlerThrows, ReadyToDecide, DrainPcs, OverPcs,
      dispatch, queues, received
<1>10. ASSUME NEW t, NEW newest, RejectPush(t, newest) PROVE DeliveredOrder'
  BY <1>5, <1>10, DeliveredStays DEF RejectPush, dispatch, queues, received
<1>11. CASE UNCHANGED vars
  BY <1>5, <1>11, DeliveredStays DEF vars, dispatch, queues, received
<1>12. QED
  BY <1>1, <1>2, <1>4, <1>6, <1>7, <1>8, <1>9, <1>10, <1>11 DEF Next, Worker

----------------------------------------------------------------------------
(* The image in progress                                                   *)

LEMMA InImageStep == Strong /\ [Next]_vars => InImage'
<1> SUFFICES ASSUME Strong, [Next]_vars PROVE InImage'
  OBVIOUS
<1>0. /\ QueuesOK /\ StampsOK /\ StatsOK /\ ThreadsOK /\ HistoryOK /\ FrontAlwaysThere
      /\ Lifecycle /\ QueueOrder /\ DeliveredOrder /\ InImage
  BY DEF Strong, OrderInv, Base, TypeOK
<1>a. Delivered \subseteq Nat /\ Time \cup {NoTime} \subseteq Int
  <2>1. Delivered \subseteq Time
    BY DEF Delivered
  <2>2. Time \subseteq Int /\ NoTime \in Int
    BY TimeAssumption DEF NoTime
  <2>3. QED BY <2>1, <2>2, TimeAssumption
<1>1. ASSUME pc' \notin ImagePcs PROVE InImage'
  BY <1>1 DEF InImage
<1>2. ASSUME pc' = pc, UNCHANGED <<locals, dispatch, imu, lastImuReceived>>, Delivered' = Delivered,
             pc \in ImagePcs => \/ Head(stereo') = Head(stereo)
                                \/ stats'.droppedStereo # 0 /\ imageTime <= Head(stereo'),
             stats'.droppedStereo = 0 => stats.droppedStereo = 0
      PROVE  InImage'
  BY <1>0, <1>2 DEF InImage, locals, dispatch
<1>b. ASSUME pc' = pc, UNCHANGED <<locals, dispatch, queues, received, trace>>,
             stats'.droppedStereo = stats.droppedStereo
      PROVE  InImage'
  <2>1. UNCHANGED <<imu, stereo, lastImuReceived>>
    BY <1>b DEF queues, received
  <2>2. Delivered' = Delivered
    BY <1>b, DeliveredStays
  <2>3. stats'.droppedStereo = 0 => stats.droppedStereo = 0
    BY <1>b
  <2>4. Head(stereo') = Head(stereo)
    BY <2>1
  <2>5. QED BY <1>0, <1>b, <2>1, <2>2, <2>3, <2>4 DEF InImage, locals, dispatch
<1>3. ASSUME NEW t \in Time, PushImu(t) PROVE InImage'
  <2> SUFFICES ASSUME pc' \in ImagePcs PROVE InImage'
    BY <1>1
  <2>1. pc' = pc
    BY <1>3 DEF PushImu, Notified, ImagePcs
  <2>2. Delivered' = Delivered
    BY <1>3, DeliveredStays DEF PushImu
  <2>3. /\ \A i \in 1..Len(imu') : imu'[i] = t \/ \E k \in 1..Len(imu) : imu'[i] = imu[k]
    BY <1>0, <1>3, EnqueueSorted, CapacityAssumption DEF QueuesOK, StampsOK, QueueOrder, PushImu
  <2>4. stats'.droppedStereo = stats.droppedStereo
    BY <1>0, <1>3 DEF PushImu, StatsOK, Stats
  <2>5. /\ lastImuReceived' = t /\ t > lastImuReceived
        /\ UNCHANGED <<locals, dispatch, stereo>>
    BY <1>3 DEF PushImu
  <2>6. imageTime \in Time /\ lastImuReceived >= imageTime
    BY <1>0, <2>1 DEF InImage
  <2>7. t > imageTime
    BY <1>a, <1>0, <2>5, <2>6 DEF StampsOK
  <2>8. pc \in {"feedBracket", "decide"} => \A i \in 1..Len(imu') : imu'[i] > imageTime
    BY <1>0, <2>1, <2>3, <2>7 DEF InImage
  <2>9. lastImuReceived' >= imageTime
    BY <1>a, <2>5, <2>6, <2>7
  <2>10. QED BY <1>0, <2>1, <2>2, <2>4, <2>5, <2>8, <2>9 DEF InImage, locals, dispatch
<1>4. ASSUME NEW t \in Time, PushStereo(t) PROVE InImage'
  <2> SUFFICES ASSUME pc' \in ImagePcs PROVE InImage'
    BY <1>1
  <2>1. pc' = pc /\ pc \in ImagePcs
    BY <1>4 DEF PushStereo, Notified, ImagePcs
  <2>2. Delivered' = Delivered
    BY <1>4, DeliveredStays DEF PushStereo
  <2>3. stats'.droppedStereo = stats.droppedStereo + Overflow(stereo, StereoCapacity)
    BY <1>0, <1>4 DEF PushStereo, StatsOK, Stats
  <2>4. stats.droppedStereo \in Nat /\ Overflow(stereo, StereoCapacity) \in Nat
    BY <1>0, <1>4, EnqueueBounded, CapacityAssumption DEF StatsOK, Stats, QueuesOK
  <2>5. stats'.droppedStereo = 0 =>
          stats.droppedStereo = 0 /\ Overflow(stereo, StereoCapacity) = 0
    BY <2>3, <2>4
  <2>6. Overflow(stereo, StereoCapacity) = 0 => stereo' = Append(stereo, t)
    BY <1>0, <1>4, EnqueueElements, CapacityAssumption DEF QueuesOK, PushStereo
  <2>7. stereo # <<>> /\ stereo \in Seq(Time)
    BY <1>0, <2>1 DEF FrontAlwaysThere, ImagePcs, QueuesOK
  <2>8. stereo' = Append(stereo, t) => Head(stereo') = Head(stereo)
    BY <2>7
  <2>9. imageTime <= Head(stereo')
    <3>1. imageTime <= stereo[1] /\ imageTime \in Time /\ 1 \in 1..Len(stereo)
      BY <1>0, <2>1, <2>7, PopElements DEF InImage
    <3>2. /\ stereo' \in Seq(Time) /\ stereo' # <<>> /\ stereo'[Len(stereo')] = t
          /\ \A i \in 1..Len(stereo') :
               stereo'[i] = t \/ \E k \in 1..Len(stereo) : stereo'[i] = stereo[k]
      <4>1. /\ stereo' = Enqueue(stereo, t, StereoCapacity) /\ t > lastStereoReceived
            /\ Len(stereo) <= StereoCapacity /\ stereo \in Seq(Time)
            /\ StereoCapacity \in Nat \ {0} /\ lastStereoReceived \in Time \cup {NoTime}
        BY <1>0, <1>4, CapacityAssumption DEF QueuesOK, StampsOK, PushStereo
      <4>2. stereo' \in Seq(Time) /\ stereo' # <<>>
        BY <4>1, EnqueueBounded
      <4>3. QED BY <1>0, <4>1, <4>2, EnqueueSorted DEF QueueOrder
    <3>3. /\ Head(stereo') = stereo'[1] /\ 1 \in 1..Len(stereo')
          /\ stereo'[1] = t \/ \E k \in 1..Len(stereo) : stereo'[1] = stereo[k]
      BY <3>2, PopElements
    <3>4. t > lastStereoReceived /\ stereo[1] <= lastStereoReceived
      BY <1>0, <1>4, <3>1 DEF QueueOrder, PushStereo
    <3>5. \A k \in 1..Len(stereo) : k = 1 \/ stereo[1] < stereo[k]
      BY <1>0, <3>1 DEF QueueOrder
    <3>6. \A k \in 1..Len(stereo) : stereo[k] \in Int
      <4>1. \A k \in 1..Len(stereo) : stereo[k] \in Time
        BY <2>7
      <4>2. QED BY <1>a, <4>1
    <3>7. t \in Int /\ lastStereoReceived \in Int /\ imageTime \in Int
      BY <1>0, <1>a, <3>1 DEF StampsOK
    <3>8. stereo'[1] = t => imageTime <= stereo'[1]
      BY <3>1, <3>4, <3>6, <3>7
    <3>9. ASSUME NEW k \in 1..Len(stereo), stereo'[1] = stereo[k] PROVE imageTime <= stereo'[1]
      <4>1. stereo[1] \in Int /\ stereo[k] \in Int /\ stereo[1] <= stereo[k]
        BY <3>1, <3>5, <3>6
      <4>2. QED BY <3>1, <3>7, <3>9, <4>1
    <3>10. QED BY <3>3, <3>8, <3>9
  <2>10. QED BY <1>2, <1>4, <2>1, <2>2, <2>5, <2>6, <2>8, <2>9 DEF PushStereo
<1>5. CASE BeginImage
  <2>1. Head(stereo) \in Time
    BY <1>0, <1>5, PopFront DEF QueuesOK, BeginImage, ImageReady
  <2>2. Delivered' = Delivered
    BY <1>5, DeliveredStays DEF BeginImage
  <2>3. hasBefore' => \E d \in Delivered : d <= Head(stereo)
    BY <1>0, <1>5 DEF BeginImage, DeliveredOrder
  <2>4. ~hasBefore' => \A d \in Delivered : d > Head(stereo)
    <3> SUFFICES ASSUME ~hasBefore', NEW d \in Delivered PROVE d > Head(stereo)
      OBVIOUS
    <3>1. firstDispatched # NoTime /\ firstDispatched <= d
      BY <1>0 DEF DeliveredOrder
    <3>2. ~(firstDispatched <= Head(stereo))
      BY <1>5, <3>1 DEF BeginImage
    <3>3. firstDispatched \in Int /\ d \in Int /\ Head(stereo) \in Int
      BY <1>0, <1>a, <2>1 DEF StampsOK
    <3>4. QED BY <3>1, <3>2, <3>3
  <2>5. lastImuReceived >= Head(stereo)
    BY <1>5 DEF BeginImage, ImageReady
  <2>6. Head(stereo) <= Head(stereo)
    BY <1>a, <2>1
  <2>7. QED BY <1>5, <2>1, <2>2, <2>3, <2>4, <2>5, <2>6 DEF BeginImage, InImage, queues, received
<1>6. ASSUME imu # <<>>, pc = "scan", NEW next, FeedImu(next), lastDispatched' = Head(imu)
      PROVE  /\ Head(imu) \in Time /\ Delivered' = Delivered \cup {Head(imu)}
             /\ \A i \in 1..Len(imu') : Head(imu) < imu'[i]
             /\ UNCHANGED <<locals, stereo, stats, lastImuReceived>>
             /\ imageTime \in Time
  <2>1. Head(imu) \in Time
    BY <1>0, <1>6, PopFront DEF QueuesOK
  <2>2. ImuEvent(Head(imu)) \in Events
    BY <2>1 DEF ImuEvent, Events, Kinds
  <2>3. Delivered' = Delivered \cup {Head(imu)}
    BY <1>0, <1>6, <2>1, <2>2, DeliveredGrows DEF HistoryOK, FeedImu
  <2>4. \A i \in 1..Len(imu') : Head(imu) < imu'[i]
    BY <1>0, <1>6, PopSorted DEF QueuesOK, QueueOrder, FeedImu
  <2>5. QED BY <1>0, <1>6, <2>1, <2>3, <2>4 DEF FeedImu, received, InImage, ImagePcs
<1>7. CASE FeedScan
  <2>1. ~(Head(imu) > imageTime) /\ imu # <<>> /\ pc = "scan" /\ pc' = "feedScan"
    BY <1>7 DEF FeedScan, ScanComplete, FeedImu
  <2>2. Head(imu) <= imageTime /\ Head(imu) # NoTime
    <3>1. Head(imu) \in Time /\ imageTime \in Time
      BY <1>6, <1>7, <2>1 DEF FeedScan
    <3>2. Head(imu) \in Nat /\ imageTime \in Nat
      BY <3>1, TimeAssumption
    <3>3. QED BY <2>1, <3>2 DEF NoTime
  <2>3. QED BY <1>0, <1>6, <1>7, <2>1, <2>2 DEF FeedScan, InImage, ImagePcs, locals
<1>8. CASE FeedBracket
  <2>1. Head(imu) > imageTime /\ imu # <<>> /\ pc = "scan" /\ pc' = "feedBracket"
    BY <1>8 DEF FeedBracket, ScanComplete, NeedsBracket, FeedImu
  <2>2. Head(imu) \in Nat /\ imageTime \in Nat /\ \A i \in 1..Len(imu') : Head(imu) < imu'[i]
    <3>1. /\ Head(imu) \in Time /\ imageTime \in Time
          /\ \A i \in 1..Len(imu') : Head(imu) < imu'[i]
      BY <1>6, <1>8, <2>1 DEF FeedBracket
    <3>2. QED BY <3>1, TimeAssumption
  <2>3. imu' \in Seq(Time)
    BY <1>0, <1>8, <2>1, PopFront DEF QueuesOK, FeedBracket, FeedImu
  <2>4. \A i \in 1..Len(imu') : imu'[i] > imageTime
    <3> TAKE i \in 1..Len(imu')
    <3>1. imu'[i] \in Time
      BY <2>3
    <3>2. imu'[i] \in Nat
      BY <3>1, TimeAssumption
    <3>3. QED BY <2>1, <2>2, <3>2
  <2>5. lastDispatched' >= imageTime
    BY <1>8, <2>1, <2>2 DEF FeedBracket
  <2>6. QED BY <1>0, <1>6, <1>8, <2>1, <2>4, <2>5 DEF FeedBracket, InImage, ImagePcs, locals
<1>9. CASE ImuHandlerReturns
  <2> SUFFICES ASSUME pc' \in ImagePcs PROVE InImage'
    BY <1>1
  <2>1. Delivered' = Delivered
    BY <1>9, DeliveredStays DEF ImuHandlerReturns
  <2>2. (pc = "feedScan" /\ pc' = "scan") \/ (pc = "feedBracket" /\ pc' = "decide")
    <3>1. pc \in InImuHandler
      BY <1>9 DEF ImuHandlerReturns
    <3>2. pc = "feedScan" => pc' = "scan"
      BY <1>9 DEF ImuHandlerReturns
    <3>3. pc = "feedBracket" => pc' = "decide"
      BY <1>9 DEF ImuHandlerReturns
    <3>4. pc = "feedDrain" => pc' = "drain"
      BY <1>9 DEF ImuHandlerReturns
    <3>5. QED BY <3>1, <3>2, <3>3, <3>4 DEF InImuHandler, ImagePcs
  <2>a. hasBefore' = (hasBefore \/ pc = "feedScan")
    BY <1>9 DEF ImuHandlerReturns
  <2>b. UNCHANGED <<queues, received, dispatch, imageTime>>
    BY <1>9 DEF ImuHandlerReturns
  <2>3. stats'.droppedStereo = stats.droppedStereo
    BY <1>0, <1>9 DEF ImuHandlerReturns, StatsOK, Stats
  <2>4. pc \in ImagePcs /\ pc' # "feedScan"
    BY <2>2 DEF ImagePcs
  <2>5. UNCHANGED <<imu, stereo, lastImuReceived, lastDispatched, imageTime>>
    BY <2>b DEF queues, received, dispatch
  <2>6. hasBefore' => \E d \in Delivered : d <= imageTime
    BY <1>0, <2>2, <2>a, <2>4 DEF InImage, DeliveredOrder, DrainPcs, OverPcs
  <2>7. ~hasBefore' => \A d \in Delivered : d > imageTime
    BY <1>0, <2>2, <2>a, <2>4 DEF InImage
  <2>8. pc' \in {"feedBracket", "decide"} =>
          lastDispatched >= imageTime /\ \A i \in 1..Len(imu) : imu[i] > imageTime
    BY <1>0, <2>2, <2>4 DEF InImage
  <2>9. QED BY <1>0, <2>1, <2>3, <2>4, <2>5, <2>6, <2>7, <2>8 DEF InImage
<1>10. CASE StopRequest
  <2>1. pc' = pc \/ pc' \notin ImagePcs
    BY <1>10 DEF StopRequest, Notified, ImagePcs
  <2>2. QED BY <1>1, <1>b, <1>10, <2>1 DEF StopRequest
<1>11. ASSUME NEW t, NEW newest, RejectPush(t, newest) PROVE InImage'
  <2>1. stats'.droppedStereo = stats.droppedStereo
    BY <1>0, <1>11 DEF RejectPush, StatsOK, Stats
  <2>2. QED BY <1>b, <1>11, <2>1 DEF RejectPush
<1>12. CASE UNCHANGED vars
  BY <1>b, <1>12 DEF vars
<1>13. CASE \/ Start \/ StopJoin \/ Wake \/ NothingReady \/ SkipStereo \/ DispatchStereo
            \/ FeedDrain \/ FinishDrain \/ CameraHandlerReturns \/ HandlerThrows \/ SpuriousWakeup
  BY <1>1, <1>13
  DEF Start, StopJoin, Wake, NothingReady, SkipStereo, DispatchStereo, FeedDrain, FeedImu,
      FinishDrain, CameraHandlerReturns, HandlerThrows, SpuriousWakeup, ImagePcs
<1>14. QED
  BY <1>3, <1>4, <1>5, <1>7, <1>8, <1>9, <1>10, <1>11, <1>12, <1>13 DEF Next, Worker

LEMMA DrainingStep == Strong /\ [Next]_vars => Draining'
<1> SUFFICES ASSUME Strong, [Next]_vars, pc' \in DrainPcs
             PROVE  \A i \in 1..Len(stereo') : stereo'[i] > lastImuReceived'
  BY DEF Draining
<1>0. QueuesOK /\ StampsOK /\ ThreadsOK /\ Lifecycle /\ QueueOrder /\ Draining
  BY DEF Strong, OrderInv, Base, TypeOK
<1>1. CASE NothingReady
  <2>1. UNCHANGED <<stereo, lastImuReceived>> /\ (stereo # <<>> => ~(lastImuReceived >= Head(stereo)))
    BY <1>1 DEF NothingReady, ImageReady, queues, received
  <2> SUFFICES ASSUME NEW i \in 1..Len(stereo) PROVE stereo[i] > lastImuReceived
    BY <2>1
  <2>2. stereo # <<>>
    BY EmptySeq
  <2>3. /\ Head(stereo) = stereo[1] /\ 1 \in 1..Len(stereo) /\ Len(stereo) \in Nat
        /\ stereo[1] \in Time /\ stereo[i] \in Time
    BY <1>0, <2>2, PopElements, PopFront DEF QueuesOK
  <2>4. i = 1 \/ 1 < i
    BY <2>3
  <2>5. stereo[1] \in Int /\ stereo[i] \in Int
    <3>1. \A x \in Time : x \in Int
      BY TimeAssumption
    <3>2. QED BY <2>3, <3>1
  <2>6. lastImuReceived \in Int
    <3>1. lastImuReceived \in Time \cup {NoTime}
      BY <1>0 DEF StampsOK
    <3>2. QED BY <3>1, TimeAssumption DEF NoTime
  <2>7. i = 1 \/ stereo[1] < stereo[i]
    BY <1>0, <2>3, <2>4 DEF QueueOrder
  <2>8. QED BY <2>1, <2>2, <2>3, <2>5, <2>6, <2>7
<1>2. ASSUME pc \in DrainPcs, UNCHANGED <<stereo, lastImuReceived>>
      PROVE  \A i \in 1..Len(stereo') : stereo'[i] > lastImuReceived'
  BY <1>0, <1>2 DEF Draining
<1>3. QED
  BY <1>0, <1>1, <1>2
  DEF Next, Worker, Lifecycle, DrainPcs, vars, queues, received, Start, StopRequest, StopJoin,
      Notified, Accepting, PushImu, PushStereo, RejectPush, Wake, BeginImage, FeedScan,
      FeedBracket, FeedDrain, FeedImu, SkipStereo, DispatchStereo, ReadyToDecide, FinishDrain,
      ImuHandlerReturns, InImuHandler, CameraHandlerReturns, HandlerThrows, SpuriousWakeup

LEMMA StrongCorrect == Spec => []Strong
<1>1. Init => Strong
  <2> SUFFICES ASSUME Init PROVE Strong
    OBVIOUS
  <2>1. Base
    BY TypeInit DEF Base, FrontAlwaysThere, Init
  <2>2. Lifecycle
    BY DEF Lifecycle, Init
  <2>3. Delivered = {}
    BY DEF Init, Delivered
  <2>4. QueueOrder /\ InImage /\ Draining
    BY EmptySeq DEF Init, QueueOrder, InImage, ImagePcs, Draining, DrainPcs
  <2>5. DeliveredOrder
    BY <2>3 DEF Init, DeliveredOrder
  <2>6. QED BY <2>1, <2>2, <2>4, <2>5 DEF Strong, OrderInv
<1>2. Base /\ [Next]_vars => Base'
  BY FrontStep, QueuesStep, StampsStep, StatsStep, ThreadsStep, HistoryStep DEF Base, TypeOK
<1>3. Strong /\ [Next]_vars => Strong'
  BY <1>2, LifecycleStep, QueueOrderStep, DeliveredOrderStep, InImageStep, DrainingStep
  DEF Strong, OrderInv
<1>4. QED BY <1>1, <1>3, PTL DEF Spec

----------------------------------------------------------------------------
(* Delivered frames are covered                                            *)

\* Where the worker decides about the frame at the front, no frame dropped.
LEMMA AtDecision ==
  ASSUME Strong, ReadyToDecide, stats.droppedStereo = 0
  PROVE  /\ imageTime = Head(stereo) /\ stereo # <<>>
         /\ imageTime \in Time /\ lastImuReceived >= imageTime
         /\ hasBefore => \E t \in Delivered : t <= imageTime
         /\ ~hasBefore => \A t \in Delivered : t > imageTime
         /\ lastDispatched >= imageTime
         /\ imu # <<>> => Head(imu) > imageTime
<1>0. /\ QueuesOK /\ StampsOK /\ FrontAlwaysThere /\ DeliveredOrder /\ InImage
  BY DEF Strong, OrderInv, Base, TypeOK
<1>1. pc \in {"scan", "decide"}
  BY DEF ReadyToDecide
<1>2. stereo # <<>>
  BY <1>0, <1>1 DEF FrontAlwaysThere
<1>3. /\ imageTime = Head(stereo)
      /\ imageTime \in Time /\ lastImuReceived >= imageTime
      /\ hasBefore => \E t \in Delivered : t <= imageTime
      /\ ~hasBefore => \A t \in Delivered : t > imageTime
  BY <1>0, <1>1 DEF InImage, ImagePcs
<1>4. CASE pc = "decide"
  <2>1. lastDispatched >= imageTime /\ \A i \in 1..Len(imu) : imu[i] > imageTime
    BY <1>0, <1>4 DEF InImage, ImagePcs
  <2>2. imu # <<>> => Head(imu) = imu[1] /\ 1 \in 1..Len(imu)
    BY <1>0, PopElements DEF QueuesOK
  <2>3. QED BY <1>2, <1>3, <2>1, <2>2
<1>5. CASE pc = "scan"
  <2>1. (imu # <<>> => Head(imu) > imageTime) /\ (imu # <<>> => ~(lastDispatched < imageTime))
    BY <1>5 DEF ReadyToDecide, ScanComplete, NeedsBracket
  <2>2. imu = <<>> => lastDispatched = lastImuReceived
    BY <1>0, <1>5 DEF DeliveredOrder, DrainPcs, OverPcs
  <2>3. lastDispatched \in Time \cup {NoTime}
    BY <1>0 DEF StampsOK
  <2>4. lastDispatched \in Int /\ imageTime \in Int
    BY <1>3, <2>3, TimeAssumption DEF NoTime
  <2>5. lastDispatched >= imageTime
    BY <1>3, <2>1, <2>2, <2>4
  <2>6. QED BY <1>2, <1>3, <2>1, <2>5
<1>6. QED BY <1>1, <1>4, <1>5

\* A sample at or after the frame was handed over.
LEMMA CoveredAfter ==
  ASSUME Strong, ReadyToDecide, stats.droppedStereo = 0
  PROVE  lastDispatched \in Delivered
<1>1. lastDispatched >= imageTime /\ imageTime \in Nat
  BY AtDecision, TimeAssumption
<1>2. lastDispatched # NoTime
  BY <1>1 DEF NoTime
<1>3. QED BY <1>2 DEF Strong, OrderInv, DeliveredOrder

\* An appended event keeps the coverage of the others and needs its own.
LEMMA CoverageGrows ==
  ASSUME trace \in Seq(Events), NEW e \in Events, trace' = Append(trace, e),
         DeliveredFramesCovered,
         e.kind = "stereo" => /\ \E t \in Delivered : t <= e.time
                              /\ \E t \in Delivered : t >= e.time
  PROVE  DeliveredFramesCovered'
<1>1. /\ Len(trace') = Len(trace) + 1 /\ Len(trace) \in Nat
      /\ \A n \in 1..Len(trace) : trace'[n] = trace[n]
      /\ trace'[Len(trace) + 1] = e
  OBVIOUS
<1>2. SUFFICES ASSUME NEW n \in 1..Len(trace'), trace'[n].kind = "stereo"
               PROVE  Covered(n)'
  BY DEF DeliveredFramesCovered
<1>3. CASE n \in 1..Len(trace)
  <2>1. trace'[n] = trace[n] /\ \A i \in 1..(n - 1) : trace'[i] = trace[i]
    BY <1>1, <1>3
  <2>2. Covered(n)
    BY <1>2, <1>3, <2>1 DEF DeliveredFramesCovered
  <2>3. QED BY <2>1, <2>2 DEF Covered
<1>4. CASE n = Len(trace) + 1
  <2>1. trace'[n] = e /\ n - 1 = Len(trace)
    BY <1>1, <1>4
  <2>2. PICK t \in Delivered : t <= e.time
    BY <1>2, <2>1
  <2>3. PICK u \in Delivered : u >= e.time
    BY <1>2, <2>1
  <2>4. \A d \in Delivered : \E i \in 1..(n - 1) : trace'[i] = ImuEvent(d)
    BY <1>1, <2>1 DEF Delivered
  <2>5. \A d : ImuEvent(d).kind = "imu" /\ ImuEvent(d).time = d
    BY DEF ImuEvent
  <2>6. \E i \in 1..(n - 1) : trace'[i].kind = "imu" /\ trace'[i].time <= trace'[n].time
    BY <2>1, <2>2, <2>4, <2>5
  <2>7. \E i \in 1..(n - 1) : trace'[i].kind = "imu" /\ trace'[i].time >= trace'[n].time
    BY <2>1, <2>3, <2>4, <2>5
  <2>8. QED BY <2>6, <2>7 DEF Covered
<1>5. QED BY <1>1, <1>2, <1>3, <1>4

LEMMA CoverageStep ==
  Strong /\ CoveredUnlessOverflow /\ [Next]_vars => CoveredUnlessOverflow'
<1> SUFFICES ASSUME Strong, CoveredUnlessOverflow, [Next]_vars, stats'.droppedStereo = 0
             PROVE  DeliveredFramesCovered'
  BY DEF CoveredUnlessOverflow
<1>0. QueuesOK /\ StatsOK /\ HistoryOK /\ FrontAlwaysThere
  BY DEF Strong, Base, TypeOK
<1>1. CASE Start
  BY <1>1 DEF Start, DeliveredFramesCovered
<1>2. ASSUME UNCHANGED trace, stats.droppedStereo = 0 PROVE DeliveredFramesCovered'
  BY <1>2 DEF CoveredUnlessOverflow, DeliveredFramesCovered, Covered
<1>3. ASSUME NEW t \in Time, PushStereo(t) PROVE DeliveredFramesCovered'
  <2>1. stats'.droppedStereo = stats.droppedStereo + Overflow(stereo, StereoCapacity)
    BY <1>0, <1>3 DEF PushStereo, StatsOK, Stats
  <2>2. stats.droppedStereo \in Nat /\ Overflow(stereo, StereoCapacity) \in Nat
    BY <1>0, <1>3, EnqueueBounded, CapacityAssumption DEF StatsOK, Stats, QueuesOK
  <2>3. stats.droppedStereo = 0
    BY <2>1, <2>2
  <2>4. QED BY <1>2, <1>3, <2>3 DEF PushStereo
<1>4. ASSUME imu # <<>>, NEW next, FeedImu(next) PROVE DeliveredFramesCovered'
  <2>1. Head(imu) \in Time
    BY <1>0, <1>4, PopFront DEF QueuesOK
  <2>2. ImuEvent(Head(imu)) \in Events /\ ImuEvent(Head(imu)).kind = "imu"
    BY <2>1 DEF ImuEvent, Events, Kinds
  <2>3. stats.droppedStereo = 0 /\ trace' = Append(trace, ImuEvent(Head(imu)))
    BY <1>4 DEF FeedImu
  <2>4. QED BY <1>0, <2>2, <2>3, CoverageGrows DEF HistoryOK, CoveredUnlessOverflow
<1>5. CASE FeedScan \/ FeedBracket \/ FeedDrain
  BY <1>4, <1>5 DEF FeedScan, ScanComplete, FeedBracket, NeedsBracket, FeedDrain
<1>6. CASE DispatchStereo
  <2>1. /\ ReadyToDecide /\ hasBefore /\ stats.droppedStereo = 0
        /\ trace' = Append(trace, StereoEvent(Head(stereo)))
    BY <1>6 DEF DispatchStereo, HasCoverage
  <2>2. /\ Head(stereo) \in Time
        /\ \E t \in Delivered : t <= Head(stereo)
        /\ lastDispatched >= Head(stereo)
    BY <2>1, AtDecision
  <2>3. lastDispatched \in Delivered
    BY <2>1, CoveredAfter
  <2>4. /\ StereoEvent(Head(stereo)) \in Events
        /\ StereoEvent(Head(stereo)).time = Head(stereo)
    BY <2>2 DEF StereoEvent, Events, Kinds
  <2>5. QED BY <1>0, <2>1, <2>2, <2>3, <2>4, CoverageGrows DEF HistoryOK, CoveredUnlessOverflow
<1>7. ASSUME NEW t \in Time, PushImu(t) PROVE DeliveredFramesCovered'
  BY <1>0, <1>2, <1>7 DEF PushImu, StatsOK, Stats
<1>8. ASSUME NEW t, NEW newest, RejectPush(t, newest) PROVE DeliveredFramesCovered'
  BY <1>0, <1>2, <1>8 DEF RejectPush, StatsOK, Stats
<1>9. CASE SkipStereo \/ FinishDrain \/ ImuHandlerReturns \/ CameraHandlerReturns
  BY <1>0, <1>2, <1>9
  DEF SkipStereo, FinishDrain, ImuHandlerReturns, CameraHandlerReturns, StatsOK, Stats
<1>10. CASE UNCHANGED <<stats, trace>>
  BY <1>2, <1>10
<1>11. QED
  BY <1>1, <1>3, <1>5, <1>6, <1>7, <1>8, <1>9, <1>10
  DEF Next, Worker, vars, StopRequest, StopJoin, Wake, NothingReady, BeginImage, HandlerThrows,
      SpuriousWakeup

\* Every frame handed to camera_handler_ (line 130) was preceded by an IMU sample
\* at or before it and by one at or after it, as long as no frame was dropped:
\* re-reading the front of the queue at line 127 is harmless then.
THEOREM CoverageKept == Spec => []CoveredUnlessOverflow
<1>1. Init => CoveredUnlessOverflow
  BY DEF Init, CoveredUnlessOverflow, DeliveredFramesCovered
<1>2. QED BY <1>1, StrongCorrect, CoverageStep, PTL DEF Spec

----------------------------------------------------------------------------
(* Every step is one of BracketedDelivery's                                *)

LEMMA SameDelivered == ASSUME HistoryOK PROVE Promise!DeliveredImuTimes = Delivered
<1>1. \A n \in 1..Len(trace) : trace[n] \in Events
  BY DEF HistoryOK
<1>2. \A e \in Events : e.kind = "imu" <=> e = ImuEvent(e.time)
  BY DEF Events, ImuEvent, Kinds
<1>3. \A e \in Events : e.time \in Time
  BY DEF Events
<1>4. \A t \in Time : ImuEvent(t).kind = "imu" /\ ImuEvent(t).time = t
  BY DEF ImuEvent
<1>5. \A x : x \in Promise!DeliveredImuTimes <=>
                \E n \in 1..Len(trace) : trace[n].kind = "imu" /\ x = trace[n].time
  BY DEF Promise!DeliveredImuTimes
<1>6. \A x : x \in Delivered <=> x \in Time /\ \E n \in 1..Len(trace) : trace[n] = ImuEvent(x)
  BY DEF Delivered
<1>7. \A x : x \in Promise!DeliveredImuTimes <=> x \in Delivered
  BY <1>1, <1>2, <1>3, <1>4, <1>5, <1>6
<1>8. QED BY <1>7

\* The frame at the front, when the worker looks for IMU samples to feed.  It may
\* have taken the place of an older one, which makes it newer than imageTime.
LEMMA WhileScanning ==
  ASSUME Strong, pc = "scan", imu # <<>>,
         ~(Head(imu) > imageTime) \/ lastDispatched < imageTime
  PROVE  Promise!NeededByAFrame
<1>0. /\ QueuesOK /\ StampsOK /\ FrontAlwaysThere /\ DeliveredOrder /\ InImage /\ HistoryOK
  BY DEF Strong, OrderInv, Base, TypeOK
<1>1. /\ imageTime <= Head(stereo) /\ imageTime \in Time /\ lastImuReceived >= imageTime
      /\ stats.droppedStereo = 0 => imageTime = Head(stereo)
  BY <1>0 DEF InImage, ImagePcs
<1>2. Head(imu) \in Time /\ Head(imu) = imu[1] /\ 1 \in 1..Len(imu)
  BY <1>0, PopElements, PopFront DEF QueuesOK
<1>3. \A t \in Delivered : t < Head(imu) /\ t <= lastDispatched
  BY <1>0, <1>2 DEF DeliveredOrder, DrainPcs, OverPcs
<1>4. lastDispatched \in Time \cup {NoTime} /\ Delivered \subseteq Time
  BY <1>0 DEF StampsOK, Delivered
<1>5. \A x \in Time \cup {NoTime} : x \in Int
  BY TimeAssumption DEF NoTime
<1>6. stereo # <<>> /\ Head(stereo) \in Time
  BY <1>0, PopFront DEF FrontAlwaysThere, QueuesOK
<1>7. \A t \in Delivered : t < Head(stereo)
  <2> TAKE t \in Delivered
  <2>1. /\ t \in Int /\ Head(imu) \in Int /\ imageTime \in Int /\ lastDispatched \in Int
        /\ Head(stereo) \in Int
    BY <1>1, <1>2, <1>4, <1>5, <1>6
  <2>2. QED BY <1>1, <1>3, <2>1
<1>8. stats.droppedStereo = 0 => lastImuReceived >= Head(stereo)
  BY <1>1
<1>9. QED BY <1>0, <1>6, <1>7, <1>8, SameDelivered DEF Promise!NeededByAFrame

LEMMA PushImuRefines ==
  ASSUME QueuesOK, StatsOK, NEW t \in Time, PushImu(t) PROVE Promise!AcceptImu(t)
<1>1. CASE Len(imu) = ImuCapacity
  <2>1. imu # <<>>
    BY <1>1, CapacityAssumption, EmptySeq
  <2>2. imu' = Append(Tail(imu), t)
    BY <1>1 DEF PushImu, Enqueue
  <2>3. QED BY <2>1, <2>2 DEF PushImu, Accepting, Promise!AcceptImu, life, StatsOK, Stats
<1>2. CASE Len(imu) # ImuCapacity
  <2>1. imu' = Append(imu, t)
    BY <1>2 DEF PushImu, Enqueue
  <2>2. QED BY <2>1 DEF PushImu, Accepting, Promise!AcceptImu, life, StatsOK, Stats
<1>3. QED BY <1>1, <1>2

LEMMA PushStereoRefines ==
  ASSUME QueuesOK, StatsOK, NEW t \in Time, PushStereo(t) PROVE Promise!AcceptStereo(t)
<1>1. stats'.droppedStereo = stats.droppedStereo + Overflow(stereo, StereoCapacity)
  BY DEF PushStereo, StatsOK, Stats
<1>2. stats.droppedStereo \in Nat
  BY DEF StatsOK, Stats
<1>3. CASE Len(stereo) = StereoCapacity
  <2>1. stereo # <<>>
    BY <1>3, CapacityAssumption, EmptySeq
  <2>2. stereo' = Append(Tail(stereo), t)
    BY <1>3 DEF PushStereo, Enqueue
  <2>3. (stats'.droppedStereo = 0) = FALSE
    BY <1>1, <1>2, <1>3 DEF Overflow
  <2>4. QED BY <2>1, <2>2, <2>3 DEF PushStereo, Accepting, Promise!AcceptStereo, life
<1>4. CASE Len(stereo) # StereoCapacity
  <2>1. stereo' = Append(stereo, t)
    BY <1>4 DEF PushStereo, Enqueue
  <2>2. stats'.droppedStereo = stats.droppedStereo
    BY <1>1, <1>2, <1>4 DEF Overflow
  <2>3. QED BY <2>1, <2>2 DEF PushStereo, Accepting, Promise!AcceptStereo, life
<1>5. QED BY <1>3, <1>4

LEMMA StepRefines == Strong /\ [Next]_vars => [Promise!Next]_(Promise!vars)
<1> SUFFICES ASSUME Strong, [Next]_vars PROVE [Promise!Next]_(Promise!vars)
  OBVIOUS
<1>0. /\ QueuesOK /\ StatsOK /\ HistoryOK /\ FrontAlwaysThere /\ Lifecycle /\ Draining
  BY DEF Strong, OrderInv, Base, TypeOK
<1>1. CASE Start
  <2>1. Promise!Open
    BY <1>1 DEF Start, Promise!Open, NoTime, ZeroStats
  <2>2. QED BY <2>1 DEF Promise!Next
<1>2. CASE StopRequest \/ HandlerThrows
  <2>1. Promise!Close
    BY <1>2 DEF StopRequest, HandlerThrows, Promise!Close, queues, received
  <2>2. QED BY <2>1 DEF Promise!Next
<1>3. ASSUME NEW t \in Time, PushImu(t) PROVE Promise!Next
  BY <1>0, <1>3, PushImuRefines DEF Promise!Next
<1>4. ASSUME NEW t \in Time, PushStereo(t) PROVE Promise!Next
  <2>1. Promise!AcceptStereo(t)
    BY <1>0, <1>4, PushStereoRefines
  <2>2. QED BY <2>1 DEF Promise!Next
<1>5. CASE FeedScan \/ FeedBracket
  <2>1. /\ pc = "scan" /\ imu # <<>>
        /\ ~(Head(imu) > imageTime) \/ lastDispatched < imageTime
    BY <1>5 DEF FeedScan, ScanComplete, FeedBracket, NeedsBracket, FeedImu
  <2>2. Promise!NeededByAFrame
    BY <2>1, WhileScanning
  <2>3. Promise!DeliverImu
    BY <1>5, <2>1, <2>2
    DEF FeedScan, FeedBracket, FeedImu, ImuEvent, Promise!DeliverImu, life, received
  <2>4. QED BY <2>3 DEF Promise!Next
<1>6. CASE FeedDrain
  <2>1. ~(running /\ ~stopping)
    BY <1>0, <1>6 DEF Lifecycle, FeedDrain
  <2>2. stereo # <<>> => lastImuReceived < Head(stereo)
    <3>1. \A i \in 1..Len(stereo) : stereo[i] > lastImuReceived
      BY <1>0, <1>6 DEF Draining, DrainPcs, FeedDrain
    <3>2. stereo # <<>> => Head(stereo) = stereo[1] /\ 1 \in 1..Len(stereo)
      BY <1>0, PopElements DEF QueuesOK
    <3>3. QED BY <3>1, <3>2
  <2>3. Promise!OnlyImuLeft
    BY <2>1, <2>2 DEF Promise!OnlyImuLeft
  <2>4. Promise!DeliverImu
    BY <1>6, <2>3 DEF FeedDrain, FeedImu, ImuEvent, Promise!DeliverImu, life, received
  <2>5. QED BY <2>4 DEF Promise!Next
<1>7. CASE SkipStereo
  <2>1. ReadyToDecide /\ ~HasCoverage
    BY <1>7 DEF SkipStereo
  <2>2. stats'.droppedStereo = stats.droppedStereo
    BY <1>0, <1>7 DEF SkipStereo, StatsOK, Stats
  <2>3. ASSUME stats.droppedStereo = 0
        PROVE  /\ lastImuReceived >= Head(stereo)
               /\ ~\E t \in Promise!DeliveredImuTimes : t <= Head(stereo)
               /\ Promise!NoneWaiting
    <3>1. ~hasBefore
      BY <2>1, <2>3, AtDecision DEF HasCoverage
    <3>2. ASSUME NEW t \in Delivered PROVE ~(t <= Head(stereo))
      <4>1. t > Head(stereo) /\ Head(stereo) \in Time /\ t \in Time
        BY <2>1, <2>3, <3>1, AtDecision DEF Delivered
      <4>2. Head(stereo) \in Nat /\ t \in Nat
        BY <4>1, TimeAssumption
      <4>3. QED BY <4>1, <4>2
    <3>3. QED BY <1>0, <2>1, <2>3, <3>2, AtDecision, SameDelivered DEF Promise!NoneWaiting
  <2>4. stereo # <<>>
    BY <1>0, <2>1 DEF FrontAlwaysThere, ReadyToDecide
  <2>5. Promise!SkipStereo
    BY <1>7, <2>2, <2>3, <2>4 DEF SkipStereo, Promise!SkipStereo, life, received
  <2>6. QED BY <2>5 DEF Promise!Next
<1>8. CASE DispatchStereo
  <2>1. ReadyToDecide /\ hasBefore
    BY <1>8 DEF DispatchStereo, HasCoverage
  <2>2. ASSUME stats.droppedStereo = 0 PROVE Promise!Bracketed /\ Promise!NoneWaiting
    <3>1. lastDispatched \in Delivered
      BY <2>1, <2>2, CoveredAfter
    <3>2. QED BY <1>0, <2>1, <2>2, <3>1, AtDecision, SameDelivered
          DEF Promise!Bracketed, Promise!NoneWaiting
  <2>3. stereo # <<>>
    BY <1>0, <2>1 DEF FrontAlwaysThere, ReadyToDecide
  <2>4. Promise!DeliverStereo
    BY <1>8, <2>2, <2>3
    DEF DispatchStereo, StereoEvent, Promise!DeliverStereo, life, received
  <2>5. QED BY <2>4 DEF Promise!Next
<1>9. CASE FinishDrain
  <2>1. ~(running /\ ~stopping)
    BY <1>0, <1>9 DEF Lifecycle, FinishDrain
  <2>2. \A i \in 1..Len(stereo) : stereo[i] > lastImuReceived
    BY <1>0, <1>9 DEF Draining, DrainPcs, FinishDrain
  <2>3. stats'.droppedStereo = stats.droppedStereo
    BY <1>0, <1>9 DEF FinishDrain, StatsOK, Stats
  <2>4. Promise!DiscardTail
    BY <1>9, <2>1, <2>2, <2>3 DEF FinishDrain, Promise!DiscardTail, received
  <2>5. QED BY <2>4 DEF Promise!Next
<1>10. CASE /\ UNCHANGED <<running, stopping, queues, received, trace>>
            /\ stats'.droppedStereo = stats.droppedStereo
  BY <1>10 DEF Promise!vars, queues, received
<1>11. ASSUME UNCHANGED <<running, stopping, queues, received, trace, stats>>
       PROVE  [Promise!Next]_(Promise!vars)
  BY <1>10, <1>11
<1>12. CASE ImuHandlerReturns \/ CameraHandlerReturns
  <2>1. stats'.droppedStereo = stats.droppedStereo
    BY <1>0, <1>12 DEF ImuHandlerReturns, CameraHandlerReturns, StatsOK, Stats
  <2>2. QED BY <1>10, <1>12, <2>1 DEF ImuHandlerReturns, CameraHandlerReturns, life
<1>13. ASSUME NEW t, NEW newest, RejectPush(t, newest) PROVE [Promise!Next]_(Promise!vars)
  <2>1. stats'.droppedStereo = stats.droppedStereo
    BY <1>0, <1>13 DEF RejectPush, StatsOK, Stats
  <2>2. QED BY <1>10, <1>13, <2>1 DEF RejectPush, life
<1>14. CASE StopJoin \/ Wake \/ NothingReady \/ BeginImage \/ SpuriousWakeup \/ UNCHANGED vars
  BY <1>11, <1>14
  DEF StopJoin, Wake, NothingReady, BeginImage, SpuriousWakeup, vars, life
<1>15. QED
  BY <1>1, <1>2, <1>3, <1>4, <1>5, <1>6, <1>7, <1>8, <1>9, <1>12, <1>13, <1>14
  DEF Next, Worker

\* The dispatcher implements BracketedDelivery (lines 17-192): its initial states
\* are the promise's, and each of its steps is one of the promise's or changes
\* nothing the promise sees, queues that overflow and handlers that throw included.
THEOREM PromiseKept == Spec => KeepsPromise
<1>1. Init => Promise!Init
  BY DEF Init, Promise!Init, NoTime, ZeroStats
<1>2. QED BY <1>1, StrongCorrect, StepRefines, PTL DEF Spec, KeepsPromise, Promise!Spec

----------------------------------------------------------------------------
(* Part 3: the dispatcher inside the pipeline                              *)

LEMMA LiveStepIsDispatcherStep == [LiveNext]_liveVars => [Next]_vars
<1> SUFFICES ASSUME [LiveNext]_liveVars PROVE [Next]_vars
  OBVIOUS
<1>1. CASE UNCHANGED dispatcher
  BY <1>1 DEF dispatcher
<1>2. ASSUME NEW t \in Time, MotionCallback(t) \/ StereoCallback(t) PROVE [Next]_vars
  BY <1>2 DEF MotionCallback, StereoCallback, Refused, dispatcher, Next
<1>3. CASE StartDispatcher \/ StopDispatcher \/ Joined
  BY <1>3 DEF StartDispatcher, StopDispatcher, Joined, Next
<1>4. CASE DispatcherWorks
  BY <1>4 DEF DispatcherWorks, Next
<1>5. QED
  BY <1>1, <1>2, <1>3, <1>4
  DEF LiveNext, Main, liveVars, Trouble, Interrupt, GiveUp, PollViewer, SourceStarts,
      SourceRefuses, Checked, LeaveLoop, StopSource, Decide

\* The live application uses the dispatcher as its specification allows: start() and
\* stop() come from one thread and pushes only change it as pushes do (lines 330-355
\* and 493 of ovrs_live.cpp).
THEOREM LiveRunsTheDispatcher == LiveSpec => Spec
<1>1. LiveInit => Init
  BY DEF LiveInit
<1>2. QED BY <1>1, LiveStepIsDispatcherStep, PTL DEF LiveSpec, Spec

LEMMA DispatcherInvariants == LiveSpec => [](Strong /\ CoveredUnlessOverflow)
BY LiveRunsTheDispatcher, StrongCorrect, CoverageKept, PTL

----------------------------------------------------------------------------
(* The order of starting and stopping                                      *)

\* From start() until stop() the dispatcher accepts input unless a handler failed.
Working == {"starting", "checking", "capturing", "stopSource", "stopDispatcher"}

Order ==
  /\ main = "begin" => /\ pc = "idle" /\ ~failed
                       /\ stats.droppedImu = 0 /\ stats.droppedStereo = 0
  /\ main \in {"begin", "starting"} => capture = "off" /\ sentImu = {} /\ sentStereo = {}
  /\ main \in Working /\ ~failed => running /\ ~stopping
  /\ main = "deciding" => verdict = "none" /\ pc = "idle"
  /\ verdict = "complete" => main = "ended" /\ Sound

LiveLife == LiveTypeOK /\ Order

\* What callbacks and the worker do to the order: nothing, but for handlers that fail.
LEMMA CallbackOrder ==
  ASSUME Base, Lifecycle, LiveLife, NEW t \in Time, MotionCallback(t) \/ StereoCallback(t)
  PROVE  LiveLife'
<1>1. /\ capture = "on" /\ UNCHANGED <<main, capture, asked, trouble, verdict>>
      /\ sentImu' \subseteq Time /\ sentStereo' \subseteq Time
  BY DEF MotionCallback, StereoCallback, LiveLife, LiveTypeOK
<1>2. main \in {"checking", "capturing", "stopSource"}
  BY <1>1 DEF LiveLife, LiveTypeOK
<1>3. UNCHANGED <<running, stopping, failed>>
  BY DEF MotionCallback, StereoCallback, Refused, PushImu, PushStereo, dispatcher, vars, life
<1>4. LiveTypeOK'
  BY <1>1, <1>2 DEF LiveLife, LiveTypeOK
<1>5. Order'
  BY <1>1, <1>2, <1>3 DEF LiveLife, Order, Working
<1>6. QED BY <1>4, <1>5 DEF LiveLife

LEMMA WorkerOrder ==
  ASSUME Base, Lifecycle, LiveLife, DispatcherWorks PROVE LiveLife'
<1>1. UNCHANGED <<main, capture, asked, trouble, verdict, sentImu, sentStereo>>
  BY DEF DispatcherWorks, sent
<1>2. pc # "idle"
  BY DEF DispatcherWorks, Worker, Wake, NothingReady, BeginImage, FeedScan, FeedBracket,
         SkipStereo, DispatchStereo, ReadyToDecide, FeedDrain, FinishDrain, ImuHandlerReturns,
         CameraHandlerReturns, HandlerThrows, InImuHandler, InHandler, SpuriousWakeup
<1>3. main \notin {"begin", "deciding", "ended"}
  BY <1>2 DEF LiveLife, LiveTypeOK, Order
<1>4. UNCHANGED <<running, stopping>> \/ failed' \/ (stopping /\ UNCHANGED failed)
  BY DEF DispatcherWorks, Worker, Wake, NothingReady, BeginImage, FeedScan, FeedBracket,
         SkipStereo, DispatchStereo, FeedDrain, FeedImu, FinishDrain, ImuHandlerReturns,
         CameraHandlerReturns, HandlerThrows, SpuriousWakeup, life, Lifecycle
<1>5. ~failed' => ~failed
  BY DEF DispatcherWorks, Worker, Wake, NothingReady, BeginImage, FeedScan, FeedBracket,
         SkipStereo, DispatchStereo, FeedDrain, FeedImu, FinishDrain, ImuHandlerReturns,
         CameraHandlerReturns, HandlerThrows, SpuriousWakeup, life
<1>6. LiveTypeOK'
  BY <1>1, <1>3 DEF LiveLife, LiveTypeOK
<1>7. Order'
  BY <1>1, <1>3, <1>4, <1>5 DEF LiveLife, Order, Working
<1>8. QED BY <1>6, <1>7 DEF LiveLife

\* The steps that leave the dispatcher alone.
LEMMA AsideOrder ==
  ASSUME LiveLife, UNCHANGED dispatcher,
         \/ \E kind \in Troubles \ {"viewer"} : Trouble(kind)
         \/ Interrupt \/ GiveUp \/ PollViewer
         \/ SourceStarts \/ SourceRefuses \/ Checked \/ LeaveLoop \/ StopSource \/ Decide
  PROVE  LiveLife'
<1>1. UNCHANGED <<pc, failed, running, stopping, stats, sentImu, sentStereo>>
  BY DEF Trouble, Interrupt, GiveUp, PollViewer, SourceStarts, SourceRefuses, Checked,
         LeaveLoop, StopSource, Decide, dispatcher, vars, life, sent
<1> USE DEF LiveLife, LiveTypeOK, Order, Working, MainPcs, Troubles
<1>2. ASSUME NEW kind \in Troubles \ {"viewer"}, Trouble(kind) PROVE LiveLife'
  BY <1>1, <1>2 DEF Trouble
<1>3. CASE Interrupt \/ GiveUp \/ PollViewer
  BY <1>1, <1>3 DEF Interrupt, GiveUp, PollViewer
<1>4. CASE SourceStarts \/ SourceRefuses \/ Checked \/ LeaveLoop \/ StopSource
  BY <1>1, <1>4 DEF SourceStarts, SourceRefuses, Checked, LeaveLoop, StopSource
<1>5. CASE Decide
  BY <1>1, <1>5 DEF Decide, Sound
<1>6. QED BY <1>2, <1>3, <1>4, <1>5

LEMMA ControlOrder ==
  ASSUME Base, Lifecycle, LiveLife, StartDispatcher \/ StopDispatcher \/ Joined
  PROVE  LiveLife'
<1> USE DEF LiveLife, LiveTypeOK, Order, Working, MainPcs
<1>1. CASE StartDispatcher
  BY <1>1 DEF StartDispatcher, Start, sent
<1>2. CASE StopDispatcher
  BY <1>2 DEF StopDispatcher, sent
<1>3. CASE Joined
  BY <1>3 DEF Joined, StopJoin, sent
<1>4. QED BY <1>1, <1>2, <1>3

LEMMA LifeStep == Base /\ Lifecycle /\ LiveLife /\ [LiveNext]_liveVars => LiveLife'
<1> SUFFICES ASSUME Base, Lifecycle, LiveLife, [LiveNext]_liveVars PROVE LiveLife'
  OBVIOUS
<1>1. CASE UNCHANGED liveVars
  BY <1>1 DEF liveVars, dispatcher, vars, life, sent, LiveLife, LiveTypeOK, Order, Sound
<1>2. CASE \/ \E kind \in Troubles \ {"viewer"} : Trouble(kind)
           \/ Interrupt \/ GiveUp \/ PollViewer
           \/ SourceStarts \/ SourceRefuses \/ Checked \/ LeaveLoop \/ StopSource \/ Decide
  <2>1. UNCHANGED dispatcher
    BY <1>2 DEF Trouble, Interrupt, GiveUp, PollViewer, SourceStarts, SourceRefuses, Checked,
                LeaveLoop, StopSource, Decide
  <2>2. QED BY <1>2, <2>1, AsideOrder
<1>3. QED
  BY <1>1, <1>2, CallbackOrder, WorkerOrder, ControlOrder DEF LiveNext, Main

LEMMA LifeCorrect == LiveSpec => []LiveLife
<1>1. LiveInit => LiveLife
  <2> SUFFICES ASSUME LiveInit PROVE LiveLife
    OBVIOUS
  <2>1. LiveTypeOK
    BY DEF LiveInit, LiveTypeOK, MainPcs, Troubles
  <2>2. stats.droppedImu = 0 /\ stats.droppedStereo = 0
    BY DEF LiveInit, Init, ZeroStats
  <2>3. Order
    BY <2>2 DEF LiveInit, Init, Order, Working
  <2>4. QED BY <2>1, <2>3 DEF LiveLife
<1>2. Strong => Base /\ Lifecycle
  BY DEF Strong
<1>3. QED BY <1>1, <1>2, LifeStep, DispatcherInvariants, PTL DEF LiveSpec

\* No callback comes once the dispatcher is being stopped, and at the end no thread
\* is left, whatever refused, threw or failed on the way.
THEOREM LiveTypeCorrect == LiveSpec => []LiveTypeOK
<1>1. LiveLife => LiveTypeOK
  BY DEF LiveLife
<1>2. QED BY <1>1, LifeCorrect, PTL

\* What the verdict is drawn from does not change once it is being drawn.
THEOREM TheDecisionIsFinal == LiveSpec => DecisionIsFinal
<1>1. ASSUME LiveLife, [LiveNext]_liveVars, main \in {"deciding", "ended"}
      PROVE  UNCHANGED <<dispatcher, trouble, sent>>
  <2>1. pc = "idle" /\ capture # "on"
    BY <1>1 DEF LiveLife, LiveTypeOK, Order
  <2>2. ~DispatcherWorks
    BY <2>1 DEF DispatcherWorks, Worker, Wake, NothingReady, BeginImage, FeedScan, FeedBracket,
         SkipStereo, DispatchStereo, ReadyToDecide, FeedDrain, FinishDrain, ImuHandlerReturns,
         CameraHandlerReturns, HandlerThrows, InImuHandler, InHandler, SpuriousWakeup
  <2>3. QED
    BY <1>1, <2>1, <2>2
    DEF LiveNext, Main, liveVars, MotionCallback, StereoCallback, Trouble, Interrupt, GiveUp,
        PollViewer, StartDispatcher, SourceStarts, SourceRefuses, Checked, LeaveLoop, StopSource,
        StopDispatcher, Joined, Decide
<1>2. QED BY <1>1, LifeCorrect, PTL DEF LiveSpec, DecisionIsFinal

----------------------------------------------------------------------------
(* What was sent is in one of its places                                   *)

NoLoss == stats.droppedImu = 0 /\ stats.droppedStereo = 0 /\ ~failed

Queued(q) == {q[i] : i \in 1..Len(q)}

\* The timestamps of the frames handed over so far.
Taken == {t \in Time : \E n \in 1..Len(trace) : trace[n] = StereoEvent(t)}

\* A frame that lies before or after all samples, and always will.
Bare(t) ==
  \/ t <= lastImuReceived /\ \A u \in sentImu : t < u
  \/ ~(running /\ ~stopping) /\ \A u \in sentImu : u < t

Kept ==
  /\ \A u \in sentImu : u <= lastImuReceived
  /\ sentImu = Delivered \cup Queued(imu)
  /\ Taken \cup Queued(stereo) \subseteq sentStereo
  /\ \A t \in sentStereo : t \in Taken \cup Queued(stereo) \/ Bare(t)

KeptUnlessLoss == NoLoss => Kept

\* A queue's elements after a push without loss and after a pop.
LEMMA QueuedAppend ==
  ASSUME NEW q \in Seq(Time), NEW t \in Time PROVE Queued(Append(q, t)) = Queued(q) \cup {t}
<1>1. /\ Len(Append(q, t)) = Len(q) + 1 /\ Len(q) \in Nat
      /\ \A i \in 1..Len(q) : Append(q, t)[i] = q[i]
      /\ Append(q, t)[Len(q) + 1] = t
  OBVIOUS
<1>2. 1..(Len(q) + 1) = (1..Len(q)) \cup {Len(q) + 1}
  BY <1>1
<1>3. \A x : x \in Queued(Append(q, t)) <=> x \in Queued(q) \/ x = t
  BY <1>1, <1>2 DEF Queued
<1>4. QED BY <1>3

LEMMA QueuedPop ==
  ASSUME NEW q \in Seq(Time), q # <<>> PROVE Queued(q) = Queued(Tail(q)) \cup {Head(q)}
<1>1. /\ Head(q) = q[1] /\ 1 \in 1..Len(q)
      /\ \A i \in 1..Len(Tail(q)) : Tail(q)[i] = q[i + 1] /\ i + 1 \in 1..Len(q)
  BY PopElements
<1>2. Len(Tail(q)) = Len(q) - 1 /\ Len(q) \in Nat \ {0}
  BY PopFront
<1>3. \A i \in 1..Len(q) : i = 1 \/ i - 1 \in 1..Len(Tail(q))
  BY <1>2
<1>4. \A i \in 1..Len(q) : i # 1 => q[i] = Tail(q)[i - 1]
  <2> TAKE i \in 1..Len(q)
  <2> HAVE i # 1
  <2>1. i - 1 \in 1..Len(Tail(q)) /\ (i - 1) + 1 = i
    BY <1>2, <1>3
  <2>2. QED BY <1>1, <2>1
<1>5. \A x \in Queued(q) : x = Head(q) \/ x \in Queued(Tail(q))
  BY <1>1, <1>3, <1>4 DEF Queued
<1>6. \A x \in Queued(Tail(q)) : x \in Queued(q)
  BY <1>1 DEF Queued
<1>7. Head(q) \in Queued(q)
  BY <1>1 DEF Queued
<1>8. QED BY <1>5, <1>6, <1>7

LEMMA QueuedEmpty == Queued(<<>>) = {}
BY EmptySeq DEF Queued

\* Handing over a frame adds its timestamp to Taken; a sample adds nothing.
LEMMA TakenGrows ==
  ASSUME trace \in Seq(Events), NEW e \in Events, trace' = Append(trace, e)
  PROVE  /\ \A t \in Time : e = StereoEvent(t) => Taken' = Taken \cup {t}
         /\ \A t \in Time : e = ImuEvent(t) => Taken' = Taken
<1>1. /\ Len(trace') = Len(trace) + 1 /\ Len(trace) \in Nat
      /\ \A n \in 1..Len(trace) : trace'[n] = trace[n]
      /\ trace'[Len(trace) + 1] = e
  OBVIOUS
<1>2. \A t \in Time : t \in Taken' <=> t \in Taken \/ e = StereoEvent(t)
  BY <1>1 DEF Taken
<1>3. \A t, u \in Time : StereoEvent(t) = StereoEvent(u) => t = u
  BY DEF StereoEvent
<1>4. \A t, u \in Time : ImuEvent(t) # StereoEvent(u)
  BY DEF ImuEvent, StereoEvent
<1>5. Taken \subseteq Time /\ Taken' \subseteq Time
  BY DEF Taken
<1>6. QED BY <1>2, <1>3, <1>4, <1>5

LEMMA TakenStays == ASSUME UNCHANGED trace PROVE Taken' = Taken
BY DEF Taken

\* What was lost stays lost for the rest of the run.
LEMMA LossStays ==
  ASSUME Base, LiveLife, [LiveNext]_liveVars, NoLoss' PROVE NoLoss
<1>0. StatsOK /\ QueuesOK
  BY DEF Base, TypeOK
<1>1. CASE main = "begin"
  BY <1>1 DEF LiveLife, Order, NoLoss
<1>2. CASE main # "begin"
  <2>1. [Next]_vars /\ ~StartDispatcher
    BY <1>2, LiveStepIsDispatcherStep DEF StartDispatcher
  <2>2. CASE UNCHANGED <<stats, failed>>
    BY <2>2 DEF NoLoss
  <2>3. ASSUME NEW t \in Time, PushImu(t) \/ PushStereo(t) PROVE NoLoss
    <3>1. Overflow(imu, ImuCapacity) \in Nat /\ Overflow(stereo, StereoCapacity) \in Nat
      BY DEF Overflow
    <3>2. /\ stats'.droppedImu >= stats.droppedImu /\ stats'.droppedStereo >= stats.droppedStereo
          /\ stats.droppedImu \in Nat /\ stats.droppedStereo \in Nat /\ failed' = failed
      BY <1>0, <2>3, <3>1 DEF PushImu, PushStereo, StatsOK, Stats, life
    <3>3. QED BY <3>2 DEF NoLoss
  <2>4. CASE DispatcherWorks
    <3>1. /\ stats'.droppedImu = stats.droppedImu /\ stats'.droppedStereo = stats.droppedStereo
          /\ failed => failed'
      BY <1>0, <2>4
      DEF DispatcherWorks, Worker, Wake, NothingReady, BeginImage, FeedScan, FeedBracket,
          SkipStereo, DispatchStereo, FeedDrain, FeedImu, FinishDrain, ImuHandlerReturns,
          CameraHandlerReturns, HandlerThrows, SpuriousWakeup, life, StatsOK, Stats
    <3>2. QED BY <3>1 DEF NoLoss
  <2>5. QED
    BY <2>1, <2>2, <2>3, <2>4
    DEF LiveNext, Main, liveVars, dispatcher, vars, life, MotionCallback, StereoCallback, Refused,
        Trouble, Interrupt, GiveUp, PollViewer, SourceStarts, SourceRefuses, Checked, LeaveLoop,
        StopSource, StopDispatcher, StopRequest, Joined, StopJoin, Decide
<1>3. QED BY <1>1, <1>2

\* A sample pushed to a working dispatcher waits in its queue.
LEMMA MotionKept ==
  ASSUME Strong, LiveLife, Kept, NoLoss, NoLoss', NEW t \in Time, MotionCallback(t)
  PROVE  Kept'
<1>0. QueuesOK /\ StampsOK /\ StatsOK /\ sentImu \subseteq Time
  BY DEF Strong, Base, TypeOK, LiveLife, LiveTypeOK
<1>1. /\ capture = "on" /\ Newer(t, sentImu) /\ sentImu' = sentImu \cup {t}
      /\ UNCHANGED sentStereo
  BY DEF MotionCallback
<1>2. running /\ ~stopping
  BY <1>1 DEF LiveLife, LiveTypeOK, Order, Working, NoLoss
<1>3. PushImu(t)
  BY <1>2 DEF MotionCallback, Refused
<1>4. Overflow(imu, ImuCapacity) = 0
  BY <1>0, <1>3 DEF PushImu, NoLoss, StatsOK, Stats, Overflow
<1>5. imu' = Append(imu, t)
  BY <1>0, <1>3, <1>4, EnqueueElements, CapacityAssumption DEF PushImu, QueuesOK
<1>6. /\ UNCHANGED <<stereo, trace, running, stopping>>
      /\ lastImuReceived' = t /\ t > lastImuReceived
  BY <1>3 DEF PushImu, life
<1>7. Queued(imu') = Queued(imu) \cup {t} /\ Delivered' = Delivered /\ Taken' = Taken
  BY <1>0, <1>5, <1>6, QueuedAppend, DeliveredStays, TakenStays DEF QueuesOK
<1>8. /\ t \in Int /\ lastImuReceived \in Int
      /\ \A x \in Time : x \in Int
  <2>1. \A x \in Time \cup {NoTime} : x \in Int
    BY TimeAssumption DEF NoTime
  <2>2. lastImuReceived \in Time \cup {NoTime}
    BY <1>0 DEF StampsOK
  <2>3. QED BY <2>1, <2>2
<1>9. \A u \in sentImu' : u <= lastImuReceived'
  BY <1>0, <1>1, <1>6, <1>8 DEF Kept
<1>10. sentImu' = Delivered' \cup Queued(imu)'
  BY <1>1, <1>7 DEF Kept, Queued
<1>11. (Taken \cup Queued(stereo) \subseteq sentStereo)'
  BY <1>1, <1>6, <1>7 DEF Kept, Queued
<1>12. ASSUME NEW f \in sentStereo, Bare(f) PROVE Bare(f)'
  <2>1. f \in Int
    BY <1>8 DEF LiveLife, LiveTypeOK
  <2>2. f <= lastImuReceived /\ \A u \in sentImu : f < u
    BY <1>2, <1>12 DEF Bare
  <2>3. f < t
    BY <1>6, <1>8, <2>1, <2>2
  <2>4. QED BY <1>1, <1>6, <1>8, <2>1, <2>2, <2>3 DEF Bare
<1>13. \A f \in sentStereo' : f \in (Taken \cup Queued(stereo))' \/ Bare(f)'
  BY <1>1, <1>6, <1>7, <1>12 DEF Kept, Queued
<1>14. QED BY <1>9, <1>10, <1>11, <1>13 DEF Kept

\* So does a frame.
LEMMA StereoKept ==
  ASSUME Strong, LiveLife, Kept, NoLoss, NoLoss', NEW t \in Time, StereoCallback(t)
  PROVE  Kept'
<1>0. QueuesOK /\ StatsOK
  BY DEF Strong, Base, TypeOK
<1>1. capture = "on" /\ sentStereo' = sentStereo \cup {t} /\ UNCHANGED sentImu
  BY DEF StereoCallback
<1>2. running /\ ~stopping
  BY <1>1 DEF LiveLife, LiveTypeOK, Order, Working, NoLoss
<1>3. PushStereo(t)
  BY <1>2 DEF StereoCallback, Refused
<1>4. Overflow(stereo, StereoCapacity) = 0
  BY <1>0, <1>3 DEF PushStereo, NoLoss, StatsOK, Stats, Overflow
<1>5. stereo' = Append(stereo, t)
  BY <1>0, <1>3, <1>4, EnqueueElements, CapacityAssumption DEF PushStereo, QueuesOK
<1>6. UNCHANGED <<imu, trace, running, stopping, lastImuReceived>>
  BY <1>3 DEF PushStereo, life
<1>7. Queued(stereo') = Queued(stereo) \cup {t} /\ Delivered' = Delivered /\ Taken' = Taken
  BY <1>0, <1>5, <1>6, QueuedAppend, DeliveredStays, TakenStays DEF QueuesOK
<1>8. \A f : Bare(f) => Bare(f)'
  BY <1>1, <1>6 DEF Bare
<1>9. /\ (\A u \in sentImu : u <= lastImuReceived)'
      /\ sentImu' = Delivered' \cup Queued(imu)'
  BY <1>1, <1>6, <1>7 DEF Kept, Queued
<1>10. (Taken \cup Queued(stereo) \subseteq sentStereo)'
  BY <1>1, <1>7 DEF Kept, Queued
<1>11. \A f \in sentStereo' : f \in (Taken \cup Queued(stereo))' \/ Bare(f)'
  BY <1>1, <1>7, <1>8 DEF Kept, Queued
<1>12. QED BY <1>9, <1>10, <1>11 DEF Kept

\* The worker moves samples and frames from the queues to the estimator, and gives
\* up bare frames only.
LEMMA WorkerKept ==
  ASSUME Strong, LiveLife, Kept, NoLoss, NoLoss', DispatcherWorks
  PROVE  Kept'
<1>0. QueuesOK /\ StampsOK /\ HistoryOK /\ Lifecycle /\ QueueOrder
  BY DEF Strong, Base, TypeOK, OrderInv
<1>1. UNCHANGED <<sentImu, sentStereo, lastImuReceived, lastStereoReceived>>
  BY DEF DispatcherWorks, sent, Worker, Wake, NothingReady, BeginImage, FeedScan, FeedBracket,
         SkipStereo, DispatchStereo, FeedDrain, FeedImu, FinishDrain, ImuHandlerReturns,
         CameraHandlerReturns, HandlerThrows, SpuriousWakeup, received
<1>2. ~(running /\ ~stopping) => ~(running /\ ~stopping)'
  BY DEF DispatcherWorks, Worker, Wake, NothingReady, BeginImage, FeedScan, FeedBracket,
         SkipStereo, DispatchStereo, FeedDrain, FeedImu, FinishDrain, ImuHandlerReturns,
         CameraHandlerReturns, HandlerThrows, SpuriousWakeup, life
<1>3. [Promise!Next]_(Promise!vars)
  <2>1. [Next]_vars
    BY DEF DispatcherWorks, Next
  <2>2. QED BY <2>1, StepRefines
<1>4. \A f : Bare(f) => Bare(f)'
  BY <1>1, <1>2 DEF Bare
<1>5. \A x \in Time \cup {NoTime} : x \in Int
  BY TimeAssumption DEF NoTime
<1>6. CASE UNCHANGED <<imu, stereo, trace>>
  <2>1. Delivered' = Delivered /\ Taken' = Taken
    BY <1>6, DeliveredStays, TakenStays
  <2>2. Queued(imu)' = Queued(imu) /\ Queued(stereo)' = Queued(stereo)
    BY <1>6 DEF Queued
  <2>3. QED BY <1>1, <1>4, <2>1, <2>2 DEF Kept
<1>7. CASE Promise!DeliverImu
  <2>1. /\ imu # <<>> /\ imu' = Tail(imu) /\ UNCHANGED stereo
        /\ trace' = Append(trace, ImuEvent(Head(imu)))
    BY <1>7 DEF Promise!DeliverImu, ImuEvent
  <2>2. Head(imu) \in Time /\ Queued(imu) = Queued(Tail(imu)) \cup {Head(imu)}
    BY <1>0, <2>1, PopFront, QueuedPop DEF QueuesOK
  <2>3. ImuEvent(Head(imu)) \in Events
    BY <2>2 DEF ImuEvent, Events, Kinds
  <2>4. Delivered' = Delivered \cup {Head(imu)}
    BY <1>0, <2>1, <2>2, <2>3, DeliveredGrows DEF HistoryOK
  <2>5. Taken' = Taken
    BY <1>0, <2>1, <2>2, <2>3, TakenGrows DEF HistoryOK
  <2>6. Queued(imu)' = Queued(Tail(imu)) /\ Queued(stereo)' = Queued(stereo)
    BY <2>1 DEF Queued
  <2>7. QED BY <1>1, <1>4, <2>2, <2>4, <2>5, <2>6 DEF Kept
<1>8. CASE Promise!DeliverStereo
  <2>1. /\ stereo # <<>> /\ stereo' = Tail(stereo) /\ UNCHANGED imu
        /\ trace' = Append(trace, StereoEvent(Head(stereo)))
    BY <1>8 DEF Promise!DeliverStereo, StereoEvent
  <2>2. Head(stereo) \in Time /\ Queued(stereo) = Queued(Tail(stereo)) \cup {Head(stereo)}
    BY <1>0, <2>1, PopFront, QueuedPop DEF QueuesOK
  <2>3. StereoEvent(Head(stereo)) \in Events
    BY <2>2 DEF StereoEvent, Events, Kinds
  <2>4. Delivered' = Delivered
    BY <1>0, <2>1, <2>2, <2>3, DeliveredGrows DEF HistoryOK
  <2>5. Taken' = Taken \cup {Head(stereo)}
    BY <1>0, <2>1, <2>2, <2>3, TakenGrows DEF HistoryOK
  <2>6. Queued(stereo)' = Queued(Tail(stereo)) /\ Queued(imu)' = Queued(imu)
    BY <2>1 DEF Queued
  <2>7. QED BY <1>1, <1>4, <2>2, <2>4, <2>5, <2>6 DEF Kept
<1>9. CASE Promise!SkipStereo
  <2>1. /\ stereo # <<>> /\ stereo' = Tail(stereo) /\ UNCHANGED <<imu, trace>>
        /\ lastImuReceived >= Head(stereo)
        /\ ~\E d \in Delivered : d <= Head(stereo)
        /\ imu # <<>> => Head(imu) > Head(stereo)
    BY <1>0, <1>9, SameDelivered DEF Promise!SkipStereo, Promise!NoneWaiting, NoLoss
  <2>2. Head(stereo) \in Time /\ Queued(stereo) = Queued(Tail(stereo)) \cup {Head(stereo)}
    BY <1>0, <2>1, PopFront, QueuedPop DEF QueuesOK
  <2>3. Delivered' = Delivered /\ Taken' = Taken
    BY <2>1, DeliveredStays, TakenStays
  <2>4. ASSUME NEW u \in Queued(imu) PROVE Head(stereo) < u
    <3>1. PICK i \in 1..Len(imu) : u = imu[i]
      BY DEF Queued
    <3>2. imu # <<>>
      BY <3>1, EmptySeq
    <3>3. /\ Head(imu) = imu[1] /\ 1 \in 1..Len(imu) /\ Head(imu) \in Time /\ u \in Time
      BY <1>0, <3>1, <3>2, PopElements, PopFront DEF QueuesOK
    <3>4. 1 < i => imu[1] < imu[i]
      BY <1>0, <3>3 DEF QueueOrder
    <3>5. i = 1 \/ 1 < i
      BY <3>1
    <3>6. Head(imu) = u \/ Head(imu) < u
      BY <3>1, <3>3, <3>4, <3>5
    <3>7. QED BY <1>5, <2>1, <2>2, <3>2, <3>3, <3>6
  <2>5. ASSUME NEW u \in Delivered PROVE Head(stereo) < u
    <3>1. u \in Int /\ Head(stereo) \in Int
      BY <1>5, <2>2 DEF Delivered
    <3>2. QED BY <2>1, <3>1
  <2>6. Head(stereo) <= lastImuReceived
    <3>1. lastImuReceived \in Int /\ Head(stereo) \in Int
      BY <1>0, <1>5, <2>2 DEF StampsOK
    <3>2. QED BY <2>1, <3>1
  <2>7. Bare(Head(stereo))
    BY <2>4, <2>5, <2>6 DEF Kept, Bare
  <2>8. Queued(stereo)' = Queued(Tail(stereo)) /\ Queued(imu)' = Queued(imu)
    BY <2>1 DEF Queued
  <2>9. QED BY <1>1, <1>4, <2>2, <2>3, <2>7, <2>8 DEF Kept
<1>10. CASE Promise!DiscardTail
  <2>1. /\ ~(running /\ ~stopping) /\ imu = <<>> /\ stereo' = <<>>
        /\ UNCHANGED <<imu, trace>>
        /\ \A i \in 1..Len(stereo) : stereo[i] > lastImuReceived
    BY <1>10 DEF Promise!DiscardTail
  <2>2. Delivered' = Delivered /\ Taken' = Taken
    BY <2>1, DeliveredStays, TakenStays
  <2>3. ASSUME NEW f \in Queued(stereo) PROVE Bare(f)
    <3>1. PICK i \in 1..Len(stereo) : f = stereo[i]
      BY DEF Queued
    <3>2. f > lastImuReceived /\ f \in Time /\ lastImuReceived \in Int
      BY <1>0, <1>5, <2>1, <3>1 DEF QueuesOK, StampsOK
    <3>3. ASSUME NEW u \in sentImu PROVE u < f
      <4>1. u <= lastImuReceived /\ u \in Int /\ f \in Int
        BY <1>5, <3>2, <3>3 DEF Kept, LiveLife, LiveTypeOK
      <4>2. QED BY <3>2, <4>1
    <3>4. QED BY <2>1, <3>3 DEF Bare
  <2>4. Queued(stereo)' = {} /\ Queued(imu)' = Queued(imu)
    BY <2>1, QueuedEmpty DEF Queued
  <2>5. QED BY <1>1, <1>4, <2>2, <2>3, <2>4 DEF Kept
<1>11. \A t \in Time : ~Promise!AcceptImu(t) /\ ~Promise!AcceptStereo(t)
  BY <1>0, <1>1, <1>5 DEF Promise!AcceptImu, Promise!AcceptStereo, StampsOK
<1>12. ~Promise!Open
  BY <1>2 DEF Promise!Open
<1>13. Promise!Close => UNCHANGED <<imu, stereo, trace>>
  BY DEF Promise!Close
<1>14. QED
  BY <1>3, <1>6, <1>7, <1>8, <1>9, <1>10, <1>11, <1>12, <1>13 DEF Promise!Next, Promise!vars

LEMMA KeptStep ==
  Strong /\ LiveLife /\ KeptUnlessLoss /\ [LiveNext]_liveVars => KeptUnlessLoss'
<1> SUFFICES ASSUME Strong, LiveLife, KeptUnlessLoss, [LiveNext]_liveVars, NoLoss' PROVE Kept'
  BY DEF KeptUnlessLoss
<1>1. NoLoss /\ Kept
  BY LossStays DEF Strong, KeptUnlessLoss
<1>2. CASE StartDispatcher
  <2>1. /\ sentImu' = {} /\ sentStereo' = {}
        /\ trace' = <<>> /\ imu' = <<>> /\ stereo' = <<>>
    BY <1>2 DEF StartDispatcher, Start, sent, LiveLife, Order
  <2>2. Delivered' = {} /\ Taken' = {} /\ Queued(imu)' = {} /\ Queued(stereo)' = {}
    BY <2>1, EmptySeq DEF Delivered, Taken, Queued
  <2>3. QED BY <2>1, <2>2 DEF Kept
<1>3. CASE UNCHANGED <<imu, stereo, trace, lastImuReceived, sentImu, sentStereo>>
           /\ (~(running /\ ~stopping) => ~(running /\ ~stopping)')
  <2>1. Delivered' = Delivered /\ Taken' = Taken
    BY <1>3, DeliveredStays, TakenStays
  <2>2. Queued(imu)' = Queued(imu) /\ Queued(stereo)' = Queued(stereo)
    BY <1>3 DEF Queued
  <2>3. \A f : Bare(f) => Bare(f)'
    BY <1>3 DEF Bare
  <2>4. QED BY <1>1, <1>3, <2>1, <2>2, <2>3 DEF Kept
<1>4. CASE StopDispatcher \/ Joined
  BY <1>3, <1>4 DEF StopDispatcher, Joined, StopRequest, StopJoin, queues, received, sent
<1>5. QED
  BY <1>1, <1>2, <1>3, <1>4, MotionKept, StereoKept, WorkerKept
  DEF LiveNext, Main, liveVars, dispatcher, vars, queues, received, life, sent, Trouble, Interrupt,
      GiveUp, PollViewer, SourceStarts, SourceRefuses, Checked, LeaveLoop, StopSource, Decide

----------------------------------------------------------------------------
(* The verdict                                                             *)

LEMMA HandledTimes ==
  ASSUME HistoryOK PROVE Handled("imu") = Delivered /\ Handled("stereo") = Taken
<1>1. \A n \in 1..Len(trace) : trace[n] \in Events
  BY DEF HistoryOK
<1>2. \A e \in Events : /\ e.time \in Time
                        /\ e.kind = "imu" <=> e = ImuEvent(e.time)
                        /\ e.kind = "stereo" <=> e = StereoEvent(e.time)
  BY DEF Events, ImuEvent, StereoEvent, Kinds
<1>3. \A t : /\ ImuEvent(t).kind = "imu" /\ ImuEvent(t).time = t
             /\ StereoEvent(t).kind = "stereo" /\ StereoEvent(t).time = t
  BY DEF ImuEvent, StereoEvent
<1>4. \A k, x : x \in Handled(k) <=> \E n \in 1..Len(trace) : trace[n].kind = k /\ x = trace[n].time
  BY DEF Handled
<1>5. \A x : x \in Delivered <=> x \in Time /\ \E n \in 1..Len(trace) : trace[n] = ImuEvent(x)
  BY DEF Delivered
<1>6. \A x : x \in Taken <=> x \in Time /\ \E n \in 1..Len(trace) : trace[n] = StereoEvent(x)
  BY DEF Taken
<1>7. \A x : x \in Handled("imu") <=> x \in Delivered
  BY <1>1, <1>2, <1>3, <1>4, <1>5
<1>8. \A x : x \in Handled("stereo") <=> x \in Taken
  BY <1>1, <1>2, <1>3, <1>4, <1>6
<1>9. QED BY <1>7, <1>8

LEMMA CompleteImpliesWhole ==
  Strong /\ CoveredUnlessOverflow /\ LiveLife /\ KeptUnlessLoss => FinalizedIsWhole
<1> SUFFICES ASSUME Strong, CoveredUnlessOverflow, LiveLife, KeptUnlessLoss,
                    verdict = "complete"
             PROVE  /\ trouble = {} /\ ~failed
                    /\ Handled("imu") = sentImu
                    /\ Handled("stereo") = {t \in sentStereo : /\ \E u \in sentImu : u <= t
                                                               /\ \E u \in sentImu : u >= t}
                    /\ DeliveredFramesCovered
  BY DEF FinalizedIsWhole
<1>0. HistoryOK /\ Lifecycle /\ sentImu \subseteq Time /\ sentStereo \subseteq Time
  BY DEF Strong, Base, TypeOK, LiveLife, LiveTypeOK
<1>1. trouble = {} /\ NoLoss /\ pc = "idle"
  BY DEF LiveLife, LiveTypeOK, Order, Sound, NoLoss
<1>2. imu = <<>> /\ stereo = <<>> /\ Kept
  BY <1>0, <1>1 DEF Lifecycle, NoLoss, KeptUnlessLoss
<1>3. DeliveredFramesCovered
  BY <1>1 DEF CoveredUnlessOverflow, NoLoss
<1>4. Queued(imu) = {} /\ Queued(stereo) = {}
  BY <1>2, QueuedEmpty
<1>5. sentImu = Delivered /\ Handled("imu") = Delivered /\ Handled("stereo") = Taken
  BY <1>0, <1>2, <1>4, HandledTimes DEF Kept
<1>6. ASSUME NEW t \in Taken
      PROVE  /\ t \in sentStereo
             /\ \E u \in sentImu : u <= t
             /\ \E u \in sentImu : u >= t
  <2>1. PICK n \in 1..Len(trace) : trace[n] = StereoEvent(t)
    BY DEF Taken
  <2>2. trace[n].kind = "stereo" /\ trace[n].time = t
    BY <2>1 DEF StereoEvent
  <2>3. Covered(n)
    BY <1>3, <2>2 DEF DeliveredFramesCovered
  <2>4. 1..(n - 1) \subseteq 1..Len(trace)
    BY <1>0, <2>1 DEF HistoryOK
  <2>5. \A i \in 1..(n - 1) : trace[i].kind = "imu" => trace[i].time \in sentImu
    BY <1>5, <2>4 DEF Handled
  <2>6. t \in sentStereo
    BY <1>2 DEF Kept
  <2>7. QED BY <2>2, <2>3, <2>5, <2>6 DEF Covered
<1>7. ASSUME NEW t \in sentStereo, \E u \in sentImu : u <= t, \E u \in sentImu : u >= t
      PROVE  t \in Taken
  <2>1. \A x \in Time : x \in Int
    BY TimeAssumption
  <2>2. ~Bare(t)
    BY <1>0, <1>7, <2>1 DEF Bare
  <2>3. QED BY <1>2, <1>4, <2>2 DEF Kept
<1>8. QED BY <1>1, <1>3, <1>5, <1>6, <1>7 DEF NoLoss

\* A finalized live run has fed the estimator every combined IMU sample the source
\* and the synchronizer produced and every frame with samples on both sides, each
\* after its samples, for every capacity of the queues and any timing.
THEOREM FinalizedRunsAreWhole == LiveSpec => []FinalizedIsWhole
<1>1. LiveInit => KeptUnlessLoss
  <2> SUFFICES ASSUME LiveInit PROVE Kept
    BY DEF KeptUnlessLoss
  <2>1. /\ sentImu = {} /\ sentStereo = {}
        /\ trace = <<>> /\ imu = <<>> /\ stereo = <<>>
    BY DEF LiveInit, Init
  <2>2. Delivered = {} /\ Taken = {} /\ Queued(imu) = {} /\ Queued(stereo) = {}
    BY <2>1, EmptySeq DEF Delivered, Taken, Queued
  <2>3. QED BY <2>1, <2>2 DEF Kept
<1>2. QED
  BY <1>1, KeptStep, CompleteImpliesWhole, LifeCorrect, DispatcherInvariants, PTL DEF LiveSpec

=============================================================================
