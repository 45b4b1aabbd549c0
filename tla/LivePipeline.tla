---------------------------- MODULE LivePipeline ----------------------------
(***************************************************************************)
(* The live application (src/apps/ovrs_live.cpp): the capture source's     *)
(* callbacks feed the ordered dispatcher, the IMU through the synchronizer,*)
(* while the main thread starts everything, watches, stops everything in   *)
(* order and decides from the statistics whether the run is complete.      *)
(*                                                                         *)
(* The dispatcher is MeasurementDispatcher with all its steps.  Source and *)
(* synchronizer have modules of their own, which show that the frames and  *)
(* the combined samples handed over here advance in time; of both only     *)
(* what they hand over and whether they report trouble is kept.  The run   *)
(* writer has a module of its own; here a write succeeds or throws, in     *)
(* main or in a handler.                                                   *)
(***************************************************************************)
EXTENDS MeasurementDispatcher, FiniteSets

CONSTANT MaxTroubles    \* bound on the kinds of trouble in one run

ASSUME TroublesAssumption == MaxTroubles \in Nat

VARIABLES
  main,                 \* where the main thread is
  capture,              \* "off", "on" while callbacks come, "over"
  asked,                \* the stop flag
  trouble,              \* what will be reported besides the dispatcher's statistics
  verdict,              \* how the run ends
  sentImu, sentStereo   \* history: the times given to the dispatcher

sent       == <<sentImu, sentStereo>>
dispatcher == vars
liveVars   == <<dispatcher, main, capture, asked, trouble, verdict, sent>>

\* "source": failure() or disconnected(), which the main loop looks at.
\* "counters": the integrity counters of the source's statistics.
\* "sync": those of the synchronizer.  "viewer": viewer_failure.
Troubles == {"source", "counters", "sync", "viewer"}

LiveInit ==
  /\ Init
  /\ main = "begin" /\ capture = "off" /\ asked = FALSE
  /\ trouble = {} /\ verdict = "none"
  /\ sentImu = {} /\ sentStereo = {}

----------------------------------------------------------------------------
(* The callbacks                                                           *)

Newer(t, times) == \A u \in times : t > u

\* push_imu and push_stereo of a dispatcher whose worker has failed do nothing.
Refused == ~(running /\ ~stopping) /\ pc \notin LockedPcs /\ UNCHANGED dispatcher

\* A gyroscope or accelerometer sample completes a combined sample; sync_mutex
\* keeps the samples in order until they are pushed.
MotionCallback(t) ==
  /\ capture = "on" /\ Newer(t, sentImu)
  /\ sentImu' = sentImu \cup {t}
  /\ PushImu(t) \/ Refused
  /\ UNCHANGED <<main, capture, asked, trouble, verdict, sentStereo>>

StereoCallback(t) ==
  /\ capture = "on" /\ Newer(t, sentStereo)
  /\ sentStereo' = sentStereo \cup {t}
  /\ PushStereo(t) \/ Refused
  /\ UNCHANGED <<main, capture, asked, trouble, verdict, sentImu>>

\* A callback or the SDK has something to report.
Trouble(kind) ==
  /\ capture = "on" /\ kind \notin trouble
  /\ Cardinality(trouble) < MaxTroubles
  /\ trouble' = trouble \cup {kind}
  /\ UNCHANGED <<dispatcher, main, capture, asked, verdict, sent>>

\* SIGINT or SIGTERM.
Interrupt ==
  /\ main \in {"begin", "starting", "checking", "capturing"} /\ ~asked
  /\ asked' = TRUE
  /\ UNCHANGED <<dispatcher, main, capture, trouble, verdict, sent>>

----------------------------------------------------------------------------
(* The main thread.  Definitions marked "Faulty" are plausible slips in    *)
(* the code that only the mutation runs use.                               *)

StartDispatcher ==
  /\ main = "begin"
  /\ Start
  /\ main' = "starting"
  /\ UNCHANGED <<capture, asked, trouble, verdict, sent>>

\* Callbacks come from here on, before start() has returned.
SourceStarts ==
  /\ main = "starting"
  /\ main' = "checking" /\ capture' = "on"
  /\ UNCHANGED <<dispatcher, asked, trouble, verdict, sent>>

SourceRefuses ==
  /\ main = "starting"
  /\ main' = "stopDispatcher" /\ verdict' = "refused"
  /\ UNCHANGED <<dispatcher, capture, asked, trouble, sent>>

\* The device is the calibrated one, its rates and options fit, the files are there.
Checked ==
  /\ main = "checking"
  /\ main' = "capturing"
  /\ UNCHANGED <<dispatcher, capture, asked, trouble, verdict, sent>>

\* Another device, which refuses the run, or an exception: either way source and
\* dispatcher are stopped, by calls or by their destructors.
GiveUp ==
  /\ main \in {"checking", "capturing"}
  /\ main' = "stopSource"
  /\ verdict' \in {"thrown"} \cup {v \in {"refused"} : main = "checking"}
  /\ UNCHANGED <<dispatcher, capture, asked, trouble, sent>>

\* Closing the viewer's window asks for a stop; so does a viewer that fails.
PollViewer ==
  /\ main = "capturing"
  /\ asked' = TRUE /\ main' = "stopSource"
  /\ \/ UNCHANGED trouble
     \/ Cardinality(trouble) < MaxTroubles /\ trouble' = trouble \cup {"viewer"}
  /\ UNCHANGED <<dispatcher, capture, verdict, sent>>

\* Faulty: only the source is watched.
LoopEndsForSource == asked \/ "source" \in trouble

LoopEnds == asked \/ "source" \in trouble \/ failed

LeaveLoop ==
  /\ main = "capturing" /\ LoopEnds
  /\ main' = "stopSource"
  /\ UNCHANGED <<dispatcher, capture, asked, trouble, verdict, sent>>

\* Faulty: the callbacks are not waited for.
StopSourceLater ==
  /\ main = "stopSource"
  /\ main' = "stopDispatcher"
  /\ UNCHANGED <<dispatcher, capture, asked, trouble, verdict, sent>>

\* source.stop() returns after the last callback, possibly with a failure, and
\* the synchronizer forgets what is still waiting in it.
StopSource ==
  /\ main = "stopSource"
  /\ main' = "stopDispatcher" /\ capture' = "over"
  /\ \/ UNCHANGED trouble
     \/ Cardinality(trouble) < MaxTroubles /\ trouble' = trouble \cup {"source"}
  /\ UNCHANGED <<dispatcher, asked, verdict, sent>>

StopDispatcher ==
  /\ main = "stopDispatcher"
  /\ StopRequest
  /\ main' = "joining"
  /\ UNCHANGED <<capture, asked, trouble, verdict, sent>>

\* dispatcher.stop() returns; a run that was given up ends here.
Joined ==
  /\ main = "joining"
  /\ StopJoin
  /\ main' = IF verdict = "none" THEN "deciding" ELSE "ended"
  /\ UNCHANGED <<capture, asked, trouble, verdict, sent>>

\* Faulty: what the queues dropped is not looked at.
SoundUnlessFailed == trouble = {} /\ ~failed

\* Nothing that the statistics of source, synchronizer and dispatcher would show.
Sound ==
  /\ trouble = {} /\ ~failed
  /\ stats.droppedImu = 0 /\ stats.droppedStereo = 0 /\ stats.rejected = 0

\* The verdict is logged and the run closed or finalized; a write may throw.  The
\* estimator can only have been initialized by a frame.
Decide ==
  /\ main = "deciding"
  /\ main' = "ended"
  /\ \/ verdict' = "complete" /\ Sound /\ stats.dispatchedStereo > 0
     \/ verdict' \in {"failed", "thrown"}
  /\ UNCHANGED <<dispatcher, capture, asked, trouble, sent>>

Main ==
  \/ StartDispatcher \/ SourceStarts \/ SourceRefuses \/ Checked \/ LeaveLoop
  \/ StopSource \/ StopDispatcher \/ Joined \/ Decide

\* A step of the worker leaves the rest alone.
DispatcherWorks ==
  /\ Worker \/ SpuriousWakeup
  /\ UNCHANGED <<main, capture, asked, trouble, verdict, sent>>

WorkerWorks ==
  /\ Worker
  /\ UNCHANGED <<main, capture, asked, trouble, verdict, sent>>

LiveNext ==
  \/ \E t \in Time : MotionCallback(t)
  \/ \E t \in Time : StereoCallback(t)
  \/ \E kind \in Troubles \ {"viewer"} : Trouble(kind)
  \/ Interrupt \/ GiveUp \/ PollViewer
  \/ Main
  \/ DispatcherWorks

LiveSpec == LiveInit /\ [][LiveNext]_liveVars

\* Both threads are scheduled; source.stop() returns, as RealSenseSource shows.
LiveFairSpec == LiveSpec /\ WF_liveVars(Main) /\ WF_liveVars(WorkerWorks)

----------------------------------------------------------------------------
(* Properties                                                              *)

MainPcs == {"begin", "starting", "checking", "capturing", "stopSource", "stopDispatcher",
            "joining", "deciding", "ended"}

\* Types.  No callback comes once the dispatcher is being stopped, and at the end
\* neither thread is left.
LiveTypeOK ==
  /\ main \in MainPcs /\ asked \in BOOLEAN /\ trouble \subseteq Troubles
  /\ verdict \in {"none", "refused", "thrown", "failed", "complete"}
  /\ capture \in {"off", "on", "over"}
  /\ capture = "on" => main \in {"checking", "capturing", "stopSource"}
  /\ main = "ended" => verdict # "none" /\ pc = "idle"
  /\ sentImu \subseteq Time /\ sentStereo \subseteq Time

Handled(kind) == {trace[i].time : i \in {j \in 1..Len(trace) : trace[j].kind = kind}}

\* A finalized run has processed everything: each IMU sample that was synchronized
\* and each frame with samples on both sides, in an order in which each frame
\* follows them.  docs/timestamps.md:90-95 and the decision at lines 556-576, which
\* sees statistics only.
FinalizedIsWhole ==
  verdict = "complete" =>
    /\ trouble = {} /\ ~failed
    /\ Handled("imu") = sentImu
    /\ Handled("stereo") =
         {t \in sentStereo : /\ \E u \in sentImu : u <= t
                             /\ \E u \in sentImu : u >= t}
    /\ DeliveredFramesCovered

\* The statistics read at lines 494-496 are those of the whole run: from then on
\* nothing that the decision depends on changes.
DecisionIsFinal ==
  [][(main \in {"deciding", "ended"}) => UNCHANGED <<dispatcher, trouble, sent>>]_liveVars

\* A stop, a failing source and a failing handler all end the run: the loop notices,
\* and both stops return.
RunEnds == main = "capturing" /\ (asked \/ failed \/ "source" \in trouble) ~> main = "ended"

=============================================================================
