------------------------- MODULE BracketedDelivery -------------------------
(***************************************************************************)
(* What the dispatcher promises its estimator (docs/timestamps.md and      *)
(* docs/architecture.md of the repository), without threads, mutexes or    *)
(* queue capacities: samples and frames are accepted in order, an IMU      *)
(* sample is delivered when the oldest frame needs it or when the session  *)
(* ends, and a frame is delivered only once IMU samples on both sides of   *)
(* it were, and no sample at or before it is still waiting.  The replay is *)
(* held to the same promise.                                               *)
(*                                                                         *)
(* The oldest IMU sample may be lost when a new one arrives; a frame is    *)
(* only given up when no IMU sample precedes it or when the session ends.  *)
(*                                                                         *)
(* When a frame is accepted, the oldest one waiting may be lost as well.   *)
(* From then on the session is no longer lossless, and all that is still   *)
(* promised of a frame is that at most one sample at or after it precedes  *)
(* it.                                                                     *)
(***************************************************************************)
EXTENDS Integers, Sequences

CONSTANT Time          \* the timestamps, natural numbers

VARIABLES
  open,                \* the session accepts input
  pendingImu,          \* accepted IMU timestamps not yet delivered
  pendingStereo,       \* accepted frame timestamps not yet delivered
  newestImu,           \* newest IMU timestamp accepted, -1 if none
  newestStereo,        \* newest frame timestamp accepted, -1 if none
  lossless,            \* no frame of this session was lost
  delivered            \* [kind, time] records, in delivery order

vars == <<open, pendingImu, pendingStereo, newestImu, newestStereo, lossless,
          delivered>>

DeliveredImuTimes ==
  {delivered[i].time : i \in {j \in 1..Len(delivered) : delivered[j].kind = "imu"}}

\* The live session begins closed, a replay open.
Init ==
  /\ open \in BOOLEAN
  /\ pendingImu = <<>> /\ pendingStereo = <<>>
  /\ newestImu = -1 /\ newestStereo = -1
  /\ lossless = TRUE
  /\ delivered = <<>>

Open ==
  /\ ~open
  /\ open' = TRUE
  /\ pendingImu' = <<>> /\ pendingStereo' = <<>>
  /\ newestImu' = -1 /\ newestStereo' = -1
  /\ lossless' = TRUE
  /\ delivered' = <<>>

Close ==
  /\ open' = FALSE
  /\ UNCHANGED <<pendingImu, pendingStereo, newestImu, newestStereo, lossless, delivered>>

AcceptImu(t) ==
  /\ open /\ t > newestImu
  /\ newestImu' = t
  /\ \/ pendingImu' = Append(pendingImu, t)
     \/ pendingImu # <<>> /\ pendingImu' = Append(Tail(pendingImu), t)
  /\ UNCHANGED <<open, pendingStereo, newestStereo, lossless, delivered>>

AcceptStereo(t) ==
  /\ open /\ t > newestStereo
  /\ newestStereo' = t
  /\ \/ /\ pendingStereo' = Append(pendingStereo, t)
        /\ UNCHANGED lossless
     \/ /\ pendingStereo # <<>>
        /\ pendingStereo' = Append(Tail(pendingStereo), t)
        /\ lossless' = FALSE
  /\ UNCHANGED <<open, pendingImu, newestImu, delivered>>

\* The oldest frame still lacks a sample at or after it and, unless it took the
\* place of a lost one, can be bracketed.
NeededByAFrame ==
  /\ pendingStereo # <<>>
  /\ lossless => newestImu >= Head(pendingStereo)
  /\ \A t \in DeliveredImuTimes : t < Head(pendingStereo)

\* The session is over and no frame that is left can be bracketed.
OnlyImuLeft ==
  /\ ~open
  /\ pendingStereo # <<>> => newestImu < Head(pendingStereo)

DeliverImu ==
  /\ pendingImu # <<>>
  /\ NeededByAFrame \/ OnlyImuLeft
  /\ pendingImu' = Tail(pendingImu)
  /\ delivered' = Append(delivered, [kind |-> "imu", time |-> Head(pendingImu)])
  /\ UNCHANGED <<open, pendingStereo, newestImu, newestStereo, lossless>>

\* IMU samples on both sides of the oldest frame were delivered.
Bracketed ==
  /\ \E t \in DeliveredImuTimes : t <= Head(pendingStereo)
  /\ \E t \in DeliveredImuTimes : t >= Head(pendingStereo)

\* No sample at or before the oldest frame is still waiting.
NoneWaiting == pendingImu # <<>> => Head(pendingImu) > Head(pendingStereo)

DeliverStereo ==
  /\ pendingStereo # <<>>
  /\ lossless => Bracketed /\ NoneWaiting
  /\ pendingStereo' = Tail(pendingStereo)
  /\ delivered' = Append(delivered, [kind |-> "stereo", time |-> Head(pendingStereo)])
  /\ UNCHANGED <<open, pendingImu, newestImu, newestStereo, lossless>>

\* A frame older than the whole IMU stream delivered so far.
SkipStereo ==
  /\ pendingStereo # <<>>
  /\ lossless => /\ newestImu >= Head(pendingStereo)
                 /\ ~\E t \in DeliveredImuTimes : t <= Head(pendingStereo)
                 /\ NoneWaiting
  /\ pendingStereo' = Tail(pendingStereo)
  /\ UNCHANGED <<open, pendingImu, newestImu, newestStereo, lossless, delivered>>

\* At the end of a session every frame left is newer than the whole IMU stream.
DiscardTail ==
  /\ ~open
  /\ pendingImu = <<>>
  /\ \A i \in 1..Len(pendingStereo) : pendingStereo[i] > newestImu
  /\ pendingStereo' = <<>>
  /\ UNCHANGED <<open, pendingImu, newestImu, newestStereo, lossless, delivered>>

Next ==
  \/ Open \/ Close
  \/ \E t \in Time : AcceptImu(t) \/ AcceptStereo(t)
  \/ DeliverImu \/ DeliverStereo \/ SkipStereo \/ DiscardTail

Spec == Init /\ [][Next]_vars

=============================================================================
