----------------------- MODULE MeasurementDispatcher -----------------------
(***************************************************************************)
(* The ordered dispatcher of the live pipeline                             *)
(* (src/src/measurement_dispatcher.cpp).  Two kinds of producers push IMU  *)
(* samples and stereo frames into two bounded queues; one worker thread    *)
(* hands them to the estimator's handlers in time order, each frame after  *)
(* the first IMU sample at or after it.  The class has a single mutex,     *)
(* which the worker gives up around every handler call, and one condition  *)
(* variable.                                                               *)
(*                                                                         *)
(* A push, start() or stop() is one critical section and so one action.    *)
(* The worker's code is cut where it takes or gives up the mutex; pc says  *)
(* where it is and LockedPcs are the places where it holds the mutex.      *)
(* Sample contents are abstracted to their timestamps, and timestamps to   *)
(* the natural numbers, since the code only compares them.  Non-finite     *)
(* timestamps are refused without any effect and are left out.             *)
(***************************************************************************)
EXTENDS Integers, Sequences

CONSTANTS
  Time,            \* the timestamps samples and frames can carry
  ImuCapacity,     \* imu_capacity_
  StereoCapacity,  \* stereo_capacity_
  MaxRejected      \* bound on the counter rejected_nonmonotonic

ASSUME TimeAssumption == Time \subseteq Nat

\* config.cpp:80-84 admits no empty queue, so the capacity-0 returns of the two
\* push operations cannot be reached in the program.
ASSUME CapacityAssumption ==
  ImuCapacity \in Nat \ {0} /\ StereoCapacity \in Nat \ {0}

ASSUME RejectedAssumption == MaxRejected \in Nat

VARIABLES
  imu, stereo,                             \* the queues imu_ and stereo_
  lastImuReceived, lastStereoReceived,     \* newest accepted timestamps
  firstDispatched, lastDispatched,         \* first_/last_dispatched_*timestamp_
  stats,                                   \* stats_
  running, stopping, failed,               \* running_, stopping_, failure_ set
  pc,                                      \* where the worker thread is
  imageTime, hasBefore,                    \* locals of dispatch_ready_locked
  client,                                  \* the thread that calls start and stop
  acceptedImu, acceptedStereo,             \* history: pushes that returned true
  lost,                                    \* history: what a throwing handler held
  trace                                    \* history: handler calls, in order

queues    == <<imu, stereo>>
received  == <<lastImuReceived, lastStereoReceived>>
dispatch  == <<firstDispatched, lastDispatched>>
life      == <<running, stopping, failed, client>>
locals    == <<imageTime, hasBefore>>
accepted  == <<acceptedImu, acceptedStereo>>
vars      == <<queues, received, dispatch, stats, life, pc, locals, accepted,
               lost, trace>>

\* An empty std::optional<double>; smaller than every timestamp.
NoTime == -1

Kinds == {"imu", "stereo"}

Events == [kind : Kinds, time : Time]

ImuEvent(t)    == [kind |-> "imu",    time |-> t]
StereoEvent(t) == [kind |-> "stereo", time |-> t]

InImuHandler == {"feedScan", "feedBracket", "feedDrain"}
InHandler    == InImuHandler \cup {"feedStereo"}
LockedPcs    == {"top", "scan", "decide", "drain"}
Pcs          == {"idle", "wakeup", "blocked", "exited"} \cup LockedPcs \cup InHandler

Stats == [dispatchedImu : Nat, dispatchedStereo : Nat, rejected : Nat,
          droppedImu : Nat, droppedStereo : Nat, uncovered : Nat]

ZeroStats == [dispatchedImu |-> 0, dispatchedStereo |-> 0, rejected |-> 0,
              droppedImu |-> 0, droppedStereo |-> 0, uncovered |-> 0]

Init ==
  /\ imu = <<>> /\ stereo = <<>>
  /\ lastImuReceived = NoTime /\ lastStereoReceived = NoTime
  /\ firstDispatched = NoTime /\ lastDispatched = NoTime
  /\ stats = ZeroStats
  /\ running = FALSE /\ stopping = FALSE /\ failed = FALSE
  /\ pc = "idle" /\ imageTime = NoTime /\ hasBefore = FALSE
  /\ client = "free"
  /\ acceptedImu = 0 /\ acceptedStereo = 0
  /\ lost = "nothing" /\ trace = <<>>

----------------------------------------------------------------------------
(* Helpers                                                                 *)

\* Definitions marked "Faulty" are plausible slips in the code; nothing uses them
\* but the mutation runs, which put them in place of the definition that follows.

\* Faulty: dispatch without waiting for the IMU stream.
ImageReadyAtOnce == stereo # <<>>

\* Faulty: wait for a sample strictly after the frame.
ImageReadyStrict == stereo # <<>> /\ lastImuReceived > Head(stereo)

\* Some frame is buffered and the IMU stream has reached its timestamp.
ImageReady == stereo # <<>> /\ lastImuReceived >= Head(stereo)

\* The predicate of cv_.wait.
WaitPredicate == stopping \/ ImageReady

\* Faulty: the notification is forgotten.
NotifiedNever == pc

\* A notification lets a thread that blocks in cv_.wait compete for the mutex.
Notified == IF pc = "blocked" THEN "wakeup" ELSE pc

\* Faulty: the capacity is not enforced.
EnqueueUnbounded(queue, t, capacity) == Append(queue, t)

\* Faulty: an overflow clears the queue.
EnqueueClearing(queue, t, capacity) ==
  IF Len(queue) = capacity THEN <<>> ELSE Append(queue, t)

\* push_back, after the oldest element has made room in a full queue.
Enqueue(queue, t, capacity) ==
  Append(IF Len(queue) = capacity THEN Tail(queue) ELSE queue, t)

\* Faulty: overflows are not counted.
OverflowUncounted(queue, capacity) == 0

Overflow(queue, capacity) == IF Len(queue) = capacity THEN 1 ELSE 0

----------------------------------------------------------------------------
(* Clients: the two producers and the thread that controls the dispatcher  *)

\* start() on a stopped dispatcher.  On a running one it returns at once.  It
\* must not be called while a failed worker is still unjoined: assigning to a
\* joinable std::thread terminates the program (measurement_dispatcher.cpp:32).
Start ==
  /\ client = "free" /\ ~running /\ pc = "idle"
  /\ imu' = <<>> /\ stereo' = <<>>
  /\ lastImuReceived' = NoTime /\ lastStereoReceived' = NoTime
  /\ firstDispatched' = NoTime /\ lastDispatched' = NoTime
  /\ stats' = ZeroStats
  /\ running' = TRUE /\ stopping' = FALSE /\ failed' = FALSE
  /\ pc' = "wakeup"
  /\ acceptedImu' = 0 /\ acceptedStereo' = 0
  /\ lost' = "nothing" /\ trace' = <<>>
  /\ UNCHANGED <<locals, client>>

\* What both push operations ask first, with the mutex they need.
Accepting == running /\ ~stopping /\ pc \notin LockedPcs

\* push_imu and push_stereo of a timestamp that does not advance its stream.
RejectPush(t, newest) ==
  /\ Accepting
  /\ t <= newest
  /\ stats.rejected < MaxRejected
  /\ stats' = [stats EXCEPT !.rejected = @ + 1]
  /\ UNCHANGED <<queues, received, dispatch, life, pc, locals, accepted, lost, trace>>

PushImu(t) ==
  /\ Accepting
  /\ t > lastImuReceived
  /\ lastImuReceived' = t
  /\ imu' = Enqueue(imu, t, ImuCapacity)
  /\ stats' = [stats EXCEPT !.droppedImu = @ + Overflow(imu, ImuCapacity)]
  /\ pc' = Notified
  /\ acceptedImu' = acceptedImu + 1
  /\ UNCHANGED <<stereo, lastStereoReceived, dispatch, life, locals,
                 acceptedStereo, lost, trace>>

PushStereo(t) ==
  /\ Accepting
  /\ t > lastStereoReceived
  /\ lastStereoReceived' = t
  /\ stereo' = Enqueue(stereo, t, StereoCapacity)
  /\ stats' = [stats EXCEPT !.droppedStereo = @ + Overflow(stereo, StereoCapacity)]
  /\ pc' = Notified
  /\ acceptedStereo' = acceptedStereo + 1
  /\ UNCHANGED <<imu, lastImuReceived, dispatch, life, locals,
                 acceptedImu, lost, trace>>

\* The first half of stop(); with no thread to join it returns at once.
StopRequest ==
  /\ client = "free" /\ pc # "idle" /\ pc \notin LockedPcs
  /\ stopping' = TRUE
  /\ pc' = Notified
  /\ client' = "joining"
  /\ UNCHANGED <<queues, received, dispatch, stats, running, failed, locals,
                 accepted, lost, trace>>

\* worker_.join() returns.
StopJoin ==
  /\ client = "joining" /\ pc = "exited"
  /\ pc' = "idle"
  /\ client' = "free"
  /\ UNCHANGED <<queues, received, dispatch, stats, running, stopping, failed,
                 locals, accepted, lost, trace>>

----------------------------------------------------------------------------
(* The worker                                                              *)

\* The predicate of cv_.wait is evaluated with the mutex held.
Wake ==
  /\ pc = "wakeup"
  /\ pc' = IF WaitPredicate THEN "top" ELSE "blocked"
  /\ UNCHANGED <<queues, received, dispatch, stats, life, locals, accepted, lost, trace>>

\* C++ lets a condition variable wake up for no reason.
SpuriousWakeup ==
  /\ pc = "blocked"
  /\ pc' = "wakeup"
  /\ UNCHANGED <<queues, received, dispatch, stats, life, locals, accepted, lost, trace>>

\* Faulty: a stop ends the worker without draining.
NothingReadyExits ==
  /\ pc = "top" /\ ~ImageReady
  /\ running' = ~stopping
  /\ pc' = IF stopping THEN "exited" ELSE "blocked"
  /\ UNCHANGED <<queues, received, dispatch, stats, stopping, failed, client, locals,
                 accepted, lost, trace>>

\* dispatch_ready_locked returns false: the worker drains if it has to stop and
\* waits otherwise (the wait predicate is false, the mutex was never given up).
NothingReady ==
  /\ pc = "top" /\ ~ImageReady
  /\ pc' = IF stopping THEN "drain" ELSE "blocked"
  /\ UNCHANGED <<queues, received, dispatch, stats, life, locals, accepted, lost, trace>>

\* dispatch_ready_locked remembers the front frame's time.
BeginImage ==
  /\ pc = "top" /\ ImageReady
  /\ imageTime' = Head(stereo)
  /\ hasBefore' = (firstDispatched # NoTime /\ firstDispatched <= Head(stereo))
  /\ pc' = "scan"
  /\ UNCHANGED <<queues, received, dispatch, stats, life, accepted, lost, trace>>

\* Pop the oldest IMU sample, give up the mutex and enter imu_handler_.
FeedImu(next) ==
  /\ imu' = Tail(imu)
  /\ firstDispatched' = IF firstDispatched = NoTime THEN Head(imu) ELSE firstDispatched
  /\ trace' = Append(trace, ImuEvent(Head(imu)))
  /\ pc' = next
  /\ UNCHANGED <<stereo, received, stats, life, locals, accepted, lost>>

ScanComplete == imu # <<>> => Head(imu) > imageTime

\* Faulty: one more sample is fed although the frame is bracketed already.
NeedsBracketAlways == imu # <<>>

NeedsBracket == lastDispatched < imageTime /\ imu # <<>>

\* The first loop: every buffered sample up to the image.
FeedScan ==
  /\ pc = "scan" /\ ~ScanComplete
  /\ lastDispatched' = Head(imu)
  /\ FeedImu("feedScan")

\* The first sample after the image, unless one was fed before.
FeedBracket ==
  /\ pc = "scan" /\ ScanComplete /\ NeedsBracket
  /\ lastDispatched' = Head(imu)
  /\ FeedImu("feedBracket")

ReadyToDecide ==
  /\ pc \in {"scan", "decide"}
  /\ pc = "scan" => ScanComplete /\ ~NeedsBracket

\* Faulty: no sample before the frame is asked for.
HasCoverageAfterOnly == lastDispatched >= imageTime

HasCoverage == hasBefore /\ lastDispatched >= imageTime

\* The frame at the front is given up as one without IMU coverage.
SkipStereo ==
  /\ ReadyToDecide /\ ~HasCoverage
  /\ stats' = [stats EXCEPT !.uncovered = @ + 1]
  /\ stereo' = Tail(stereo)
  /\ pc' = "top"
  /\ imageTime' = NoTime /\ hasBefore' = FALSE
  /\ UNCHANGED <<imu, received, dispatch, life, accepted, lost, trace>>

\* The frame at the front is popped, the mutex given up, camera_handler_ entered.
DispatchStereo ==
  /\ ReadyToDecide /\ HasCoverage
  /\ stereo' = Tail(stereo)
  /\ trace' = Append(trace, StereoEvent(Head(stereo)))
  /\ pc' = "feedStereo"
  /\ imageTime' = NoTime /\ hasBefore' = FALSE
  /\ UNCHANGED <<imu, received, dispatch, stats, life, accepted, lost>>

\* While stopping, the IMU samples left are fed; last_dispatched_timestamp_ stays.
FeedDrain ==
  /\ pc = "drain" /\ imu # <<>>
  /\ FeedImu("feedDrain")
  /\ UNCHANGED lastDispatched

\* The frames left were never bracketed.
FinishDrain ==
  /\ pc = "drain" /\ imu = <<>>
  /\ stats' = [stats EXCEPT !.uncovered = @ + Len(stereo)]
  /\ stereo' = <<>>
  /\ running' = FALSE
  /\ pc' = "exited"
  /\ UNCHANGED <<imu, received, dispatch, stopping, failed, client, locals,
                 accepted, lost, trace>>

ImuHandlerReturns ==
  /\ pc \in InImuHandler
  /\ stats' = [stats EXCEPT !.dispatchedImu = @ + 1]
  /\ hasBefore' = (hasBefore \/ pc = "feedScan")
  /\ pc' = CASE pc = "feedScan"    -> "scan"
             [] pc = "feedBracket" -> "decide"
             [] pc = "feedDrain"   -> "drain"
  /\ UNCHANGED <<queues, received, dispatch, life, imageTime, accepted, lost, trace>>

CameraHandlerReturns ==
  /\ pc = "feedStereo"
  /\ stats' = [stats EXCEPT !.dispatchedStereo = @ + 1]
  /\ pc' = "top"
  /\ UNCHANGED <<queues, received, dispatch, life, locals, accepted, lost, trace>>

\* A handler throws (the estimator or the writer does): run()'s catch blocks.
HandlerThrows ==
  /\ pc \in InHandler
  /\ failed' = TRUE /\ running' = FALSE /\ stopping' = TRUE
  /\ lost' = IF pc = "feedStereo" THEN "stereo" ELSE "imu"
  /\ pc' = "exited"
  /\ imageTime' = NoTime /\ hasBefore' = FALSE
  /\ UNCHANGED <<queues, received, dispatch, stats, client, accepted, trace>>

Worker ==
  \/ Wake \/ NothingReady \/ BeginImage \/ FeedScan \/ FeedBracket
  \/ SkipStereo \/ DispatchStereo \/ FeedDrain \/ FinishDrain
  \/ ImuHandlerReturns \/ CameraHandlerReturns \/ HandlerThrows

Next ==
  \/ Start \/ StopRequest \/ StopJoin
  \/ \E t \in Time : PushImu(t)
  \/ \E t \in Time : PushStereo(t)
  \/ \E t \in Time : RejectPush(t, lastImuReceived)
  \/ \E t \in Time : RejectPush(t, lastStereoReceived)
  \/ Worker
  \/ SpuriousWakeup

Spec == Init /\ [][Next]_vars

\* The worker is scheduled and handlers come back, normally or by throwing;
\* join() returns once the thread is over.  Nobody has to push, start or stop.
FairSpec == Spec /\ WF_vars(Worker) /\ WF_vars(StopJoin)

----------------------------------------------------------------------------
(* Properties                                                              *)

Count(i) == IF i THEN 1 ELSE 0

ImuInFlight    == Count(pc \in InImuHandler \/ lost = "imu")
StereoInFlight == Count(pc = "feedStereo" \/ lost = "stereo")

QueuesOK ==
  /\ imu \in Seq(Time) /\ Len(imu) <= ImuCapacity
  /\ stereo \in Seq(Time) /\ Len(stereo) <= StereoCapacity

StampsOK ==
  {lastImuReceived, lastStereoReceived, firstDispatched, lastDispatched, imageTime}
    \subseteq Time \cup {NoTime}

StatsOK == stats \in Stats

ThreadsOK ==
  /\ {running, stopping, failed, hasBefore} \subseteq BOOLEAN
  /\ pc \in Pcs
  /\ client \in {"free", "joining"}

HistoryOK ==
  /\ acceptedImu \in Nat /\ acceptedStereo \in Nat
  /\ lost \in {"nothing", "imu", "stereo"}
  /\ trace \in Seq(Events)

\* The members keep their types and no queue outgrows the capacity given to the
\* constructor (lines 49-52 and 73-76).
TypeOK == QueuesOK /\ StampsOK /\ StatsOK /\ ThreadsOK /\ HistoryOK

\* Whoever takes the mutex next, every accepted sample and frame is accounted for
\* exactly once: still queued, counted as dispatched, dropped or uncovered, or in
\* the hands of a handler that runs or has thrown.
Conservation ==
  /\ acceptedImu = stats.dispatchedImu + stats.droppedImu + Len(imu) + ImuInFlight
  /\ acceptedStereo = stats.dispatchedStereo + stats.droppedStereo + stats.uncovered
                        + Len(stereo) + StereoInFlight

\* stereo_.front() and stereo_.pop_front() after a handler call still find a
\* frame (lines 124 and 127), although producers changed the queue meanwhile.
FrontAlwaysThere ==
  pc \in {"scan", "feedScan", "feedBracket", "decide"} => stereo # <<>>

\* The worker never sleeps while there is something to dispatch or a stop to
\* obey: no push and no stop() is missed between its predicate and its wait.
NoLostWakeup == pc = "blocked" => ~WaitPredicate

\* Frame n of the trace was handed over after an IMU sample at or before it and
\* one at or after it.
Covered(n) ==
  /\ \E i \in 1..(n - 1) : trace[i].kind = "imu" /\ trace[i].time <= trace[n].time
  /\ \E i \in 1..(n - 1) : trace[i].kind = "imu" /\ trace[i].time >= trace[n].time

\* docs/timestamps.md: the dispatcher "buffers stereo until IMU spans its
\* timestamp. It feeds IMU up through the first sample at or after the image,
\* then the stereo pair."
DeliveredFramesCovered ==
  \A n \in 1..Len(trace) : trace[n].kind = "stereo" => Covered(n)

\* What the code does guarantee, and what ovrs_live's final integrity decision
\* relies on: as long as no frame was dropped, every delivered frame is covered.
CoveredUnlessOverflow == stats.droppedStereo = 0 => DeliveredFramesCovered

\* running() turns false only when nothing more can happen: no handler is active,
\* and without a failure nothing accepted is left behind, so that the statistics
\* the application reads after stop() are final and add up.
CleanExit ==
  pc \in {"exited", "idle"} =>
    /\ ~running
    /\ ~failed => /\ imu = <<>> /\ stereo = <<>>
                  /\ acceptedImu = stats.dispatchedImu + stats.droppedImu
                  /\ acceptedStereo = stats.dispatchedStereo + stats.droppedStereo
                                        + stats.uncovered

\* stop() returns, whatever the producers and handlers do: no deadlock between
\* the join and the worker.
StopReturns == client = "joining" ~> client = "free"

\* A frame that the IMU stream has reached does not stay in the queue, unless a
\* handler has failed.
ReadyFramesLeave ==
  \A t \in Time :
    (stereo # <<>> /\ Head(stereo) = t /\ lastImuReceived >= t)
      ~> (failed \/ stereo = <<>> \/ Head(stereo) # t)

\* What the dispatcher promises the estimator, and all it promises once a frame has
\* been dropped (docs/timestamps.md, "Stereo and dispatcher"): every session is one of
\* BracketedDelivery's.
Promise == INSTANCE BracketedDelivery WITH
  open <- running /\ ~stopping,
  pendingImu <- imu, pendingStereo <- stereo,
  newestImu <- lastImuReceived, newestStereo <- lastStereoReceived,
  lossless <- stats.droppedStereo = 0,
  delivered <- trace

KeepsPromise == Promise!Spec

=============================================================================
