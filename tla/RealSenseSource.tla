-------------------------- MODULE RealSenseSource --------------------------
(***************************************************************************)
(* The capture source (src/src/realsense_source.cpp).  The application's   *)
(* thread starts and stops the librealsense pipeline; the SDK calls        *)
(* handle_frame from a thread of the video and one of the motion sensor,   *)
(* and handle_devices_changed from a third.  start() lets frames flow      *)
(* while it sets the sensor options, and publishes the application's       *)
(* callbacks only afterwards, at the beginning of a fresh capture epoch.   *)
(*                                                                         *)
(* handle_frame holds callback_mutex from its first line to its last; it   *)
(* is cut at its sections under the state mutex.  Both images of a         *)
(* frameset carry one timestamp here, in milliseconds, and seconds are     *)
(* milliseconds since the origin: only differences matter.  The tables of  *)
(* sensor options, the report's text and exposure metadata are left out.   *)
(***************************************************************************)
EXTENDS Integers, Sequences, FiniteSets

CONSTANTS
  Raw,         \* the raw timestamps a frame can carry
  Domains,     \* the timestamp domains of the SDK
  MaxFrames,   \* bound on the frames of one session
  MaxGap       \* bound on the framesets lost between two that arrive

ASSUME FrameAssumption ==
  /\ Raw \subseteq Nat /\ "" \notin Domains
  /\ MaxFrames \in Nat /\ MaxGap \in Nat

VARIABLES
  app,               \* where the thread that calls start() and stop() is
  pipeline,          \* the SDK's pipeline: "off", "on", or "stopping"
  active, disconnected, failure,     \* active, disconnected_flag, failure_message
  callbacks,         \* "none", or "app" once the application's are published
  stats,             \* statistics
  lastFrameset,      \* last_frameset_number
  normalizer,        \* the members of the TimestampNormalizer
  waiting,           \* SDK threads that want callback_mutex
  owner,             \* the thread that holds it, or "none"
  step,              \* where that thread is
  sample,            \* the measurement in its hands
  frames, number,    \* the device: frames delivered, newest frameset number
  hotplug,           \* history: a removal or a hotplug error was handled
  troubled,          \* history: an error was handled, since start() opened
  firstFrameset,     \* history: the first frameset counted in this epoch
  delivered          \* history: measurements given to the application

control == <<active, disconnected, failure, callbacks>>
counts  == <<stats, lastFrameset>>
handler == <<waiting, owner, step, sample>>
device  == <<pipeline, frames, number>>
history == <<hotplug, troubled, firstFrameset, delivered>>
vars    == <<app, control, counts, normalizer, handler, device, history>>

Images  == {"infrared_1", "infrared_2"}
Motions == {"gyro", "accelerometer"}
Streams == Images \cup Motions
Threads == {"video", "motion"}

None == -1

\* TimestampNormalizer: origin_ms_, domain_ and last_by_stream_ms_.
Fresh == [origin |-> None, domain |-> "", last |-> [s \in Streams |-> None]]

\* refused stands for malformed_frames and rejected_timestamps together.
ZeroStats == [framesets |-> 0, pairs |-> 0, gyro |-> 0, accelerometer |-> 0,
              refused |-> 0, dropped |-> 0, errors |-> 0]

NoSample == [stream |-> "", raw |-> 0, seconds |-> 0, domain |-> "", number |-> 0, paired |-> FALSE]

Init ==
  /\ app = "idle" /\ pipeline = "off"
  /\ active = FALSE /\ disconnected = FALSE /\ failure = "" /\ callbacks = "none"
  /\ stats = ZeroStats /\ lastFrameset = 0
  /\ normalizer = Fresh
  /\ waiting = {} /\ owner = "none" /\ step = "none" /\ sample = NoSample
  /\ frames = 0 /\ number = 0
  /\ hotplug = FALSE /\ troubled = FALSE /\ firstFrameset = 0 /\ delivered = <<>>

----------------------------------------------------------------------------
(* TimestampNormalizer::normalize                                          *)

Accepts(n, stream, raw, domain) ==
  n.domain \in {"", domain} /\ raw > n.last[stream]

\* The first accepted timestamp of any stream becomes the origin.
Register(n, stream, raw, domain) ==
  [origin |-> IF n.origin = None THEN raw ELSE n.origin,
   domain |-> domain,
   last   |-> [n.last EXCEPT ![stream] = raw]]

----------------------------------------------------------------------------
(* start() and stop(), in the application's thread.  Definitions marked    *)
(* "Faulty" are plausible slips that only the mutation runs use.           *)

\* The device is found and the streams are chosen; whatever failed before this
\* session is forgotten.
Open ==
  /\ app = "idle" /\ ~active
  /\ app' = "opened"
  /\ callbacks' = "none" /\ failure' = "" /\ disconnected' = FALSE
  /\ stats' = ZeroStats /\ lastFrameset' = 0 /\ normalizer' = Fresh
  /\ frames' = 0 /\ number' = 0
  /\ hotplug' = FALSE /\ troubled' = FALSE /\ firstFrameset' = 0 /\ delivered' = <<>>
  /\ UNCHANGED <<active, pipeline, handler>>

\* No such device or profile, or later an option that precedes streaming is refused.
OpenFails ==
  /\ app = "idle" /\ ~active
  /\ callbacks' \in {callbacks, "none"}
  /\ UNCHANGED <<app, active, disconnected, failure, counts, normalizer, handler, device, history>>

\* pipeline.start returns, and from now on frames arrive.
StartPipeline ==
  /\ app = "opened"
  /\ app' = "starting" /\ pipeline' = "on"
  /\ UNCHANGED <<control, counts, normalizer, handler, frames, number, history>>

\* pipeline.start throws; stop() finds the source inactive.
StartPipelineFails ==
  /\ app = "opened"
  /\ app' = "idle"
  /\ UNCHANGED <<control, counts, normalizer, handler, device, history>>

Activate ==
  /\ app = "starting"
  /\ app' = "configuring" /\ active' = TRUE
  /\ UNCHANGED <<disconnected, failure, callbacks, counts, normalizer, handler, device, history>>

\* Faulty: a measurement of the warm-up may be half way through handle_frame.
PublishUnlocked ==
  /\ app = "configuring"
  /\ app' = "running"
  /\ callbacks' = "app" /\ stats' = ZeroStats /\ lastFrameset' = 0 /\ normalizer' = Fresh
  /\ firstFrameset' = 0
  /\ UNCHANGED <<active, disconnected, failure, handler, device, hotplug, troubled, delivered>>

\* Faulty: the frameset number of the warm-up is kept.
PublishKeepingFrameset ==
  /\ app = "configuring" /\ owner = "none"
  /\ app' = "running"
  /\ callbacks' = "app" /\ stats' = ZeroStats /\ normalizer' = Fresh
  /\ firstFrameset' = 0
  /\ UNCHANGED <<active, disconnected, failure, lastFrameset, handler, device, hotplug, troubled,
                 delivered>>

\* Faulty: what went wrong during the warm-up is forgotten.
PublishForgetting ==
  /\ app = "configuring" /\ owner = "none"
  /\ app' = "running"
  /\ callbacks' = "app" /\ stats' = ZeroStats /\ lastFrameset' = 0 /\ normalizer' = Fresh
  /\ failure' = ""
  /\ firstFrameset' = 0
  /\ UNCHANGED <<active, disconnected, handler, device, hotplug, troubled, delivered>>

\* The options are set; with callback_mutex held the epoch begins and start()
\* returns true.
Publish ==
  /\ app = "configuring" /\ owner = "none"
  /\ app' = "running"
  /\ callbacks' = "app" /\ stats' = ZeroStats /\ lastFrameset' = 0 /\ normalizer' = Fresh
  /\ firstFrameset' = 0
  /\ UNCHANGED <<active, disconnected, failure, handler, device, hotplug, troubled, delivered>>

\* Faulty: the callbacks are locked out while the pipeline stops.
StopRequestLocking ==
  /\ app \in {"configuring", "running"} /\ owner = "none"
  /\ app' = "stopping" /\ active' = FALSE /\ owner' = "app"
  /\ UNCHANGED <<disconnected, failure, callbacks, counts, normalizer, waiting, step, sample,
                 device, history>>

\* stop() by the application, or by start() when an option is refused.
StopRequest ==
  /\ app \in {"configuring", "running"}
  /\ app' = "stopping" /\ active' = FALSE
  /\ UNCHANGED <<disconnected, failure, callbacks, counts, normalizer, handler, device, history>>

StopPipeline ==
  /\ app = "stopping" /\ pipeline = "on"
  /\ pipeline' = "stopping"
  /\ UNCHANGED <<app, control, counts, normalizer, handler, frames, number, history>>

\* pipeline.stop waits for the callbacks; when it throws, failure_message says so
\* unless it says something already.
StopReturn ==
  /\ app = "stopping" /\ pipeline = "stopping" /\ waiting = {} /\ owner \notin Threads
  /\ app' = "idle" /\ pipeline' = "off"
  /\ failure' \in {failure, IF failure = "" THEN "stop" ELSE failure}
  /\ UNCHANGED <<active, disconnected, callbacks, counts, normalizer, handler, frames, number,
                 history>>

----------------------------------------------------------------------------
(* handle_devices_changed                                                  *)

\* The selected device goes away, or asking whether it did throws.  At most one
\* such event is followed in a session.
DeviceRemoved ==
  /\ active /\ ~hotplug
  /\ disconnected' = TRUE
  /\ failure' = IF failure = "" THEN "disconnected" ELSE failure
  /\ hotplug' = TRUE
  /\ UNCHANGED <<app, active, callbacks, counts, normalizer, handler, device, troubled,
                 firstFrameset, delivered>>

HotplugFails ==
  /\ active /\ ~hotplug
  /\ failure' = IF failure = "" THEN "hotplug" ELSE failure
  /\ stats' = [stats EXCEPT !.errors = @ + 1]
  /\ hotplug' = TRUE /\ troubled' = TRUE
  /\ UNCHANGED <<app, active, disconnected, callbacks, lastFrameset, normalizer, handler, device,
                 firstFrameset, delivered>>

----------------------------------------------------------------------------
(* handle_frame                                                            *)

\* The SDK calls back, with a frame the device may not have finished before.
Arrive(thread) ==
  /\ pipeline = "on" /\ frames < MaxFrames
  /\ thread \notin waiting \cup {owner}
  /\ waiting' = waiting \cup {thread} /\ frames' = frames + 1
  /\ UNCHANGED <<app, control, counts, normalizer, owner, step, sample, pipeline, number, history>>

\* A thread that waits gets callback_mutex.
TakeMutex(thread) ==
  /\ thread \in waiting /\ owner = "none"
  /\ waiting' = waiting \ {thread}

\* It returns at once, without having had anything to deliver.
ReturnAtOnce == UNCHANGED <<owner, step, sample>>

\* It keeps the mutex, with a measurement to count and to deliver.
Keep(thread, measurement) ==
  owner' = thread /\ step' = "count" /\ sample' = measurement

Leave == owner' = "none" /\ step' = "none" /\ sample' = NoSample /\ UNCHANGED waiting

\* What the catch blocks do; that one of them counts a rejected timestamp besides
\* is left out.
Caught(counted) ==
  /\ failure' = "frame" /\ troubled' = TRUE
  /\ stats' = [counted EXCEPT !.errors = @ + 1]

\* A frameset lacks an image.
StereoIncomplete ==
  /\ ReturnAtOnce
  /\ stats' = [stats EXCEPT !.refused = @ + 1]
  /\ UNCHANGED <<app, control, lastFrameset, normalizer, device, history>>

\* One of the images is refused by the normalizer, or is malformed.  C++ leaves
\* open which of pair()'s arguments is evaluated first.
StereoThrows(first, raw, domain) ==
  LET second == CHOOSE s \in Images : s # first
      once   == Register(normalizer, first, raw, domain)
  IN  /\ ReturnAtOnce
      /\ normalizer' \in
           IF ~Accepts(normalizer, first, raw, domain) THEN {normalizer}
           ELSE {once} \cup {n \in {Register(once, second, raw, domain)} :
                               Accepts(once, second, raw, domain)}
      /\ Caught(stats)
      /\ UNCHANGED <<app, active, disconnected, callbacks, lastFrameset, device, hotplug,
                     firstFrameset, delivered>>

\* Both images are read; paired tells whether StereoSynchronizer::pair takes them.
StereoRead(first, raw, domain, lost, paired) ==
  LET second == CHOOSE s \in Images : s # first
      once   == Register(normalizer, first, raw, domain)
      twice  == Register(once, second, raw, domain)
  IN  /\ Accepts(normalizer, first, raw, domain) /\ Accepts(once, second, raw, domain)
      /\ normalizer' = twice
      /\ number' = number + 1 + lost
      /\ Keep("video", [stream |-> "stereo", raw |-> raw, seconds |-> raw - twice.origin,
                        domain |-> domain, number |-> number', paired |-> paired])
      /\ UNCHANGED <<app, control, counts, pipeline, frames, history>>

MotionRejected(stream, raw, domain) ==
  /\ ~Accepts(normalizer, stream, raw, domain)
  /\ ReturnAtOnce
  /\ stats' = [stats EXCEPT !.refused = @ + 1]
  /\ UNCHANGED <<app, control, lastFrameset, normalizer, device, history>>

\* The value is not finite.
MotionThrows(stream, raw, domain) ==
  /\ Accepts(normalizer, stream, raw, domain)
  /\ ReturnAtOnce
  /\ normalizer' = Register(normalizer, stream, raw, domain)
  /\ Caught(stats)
  /\ UNCHANGED <<app, active, disconnected, callbacks, lastFrameset, device, hotplug,
                 firstFrameset, delivered>>

MotionRead(stream, raw, domain) ==
  /\ Accepts(normalizer, stream, raw, domain)
  /\ normalizer' = Register(normalizer, stream, raw, domain)
  /\ Keep("motion", [stream |-> stream, raw |-> raw, seconds |-> raw - normalizer'.origin,
                     domain |-> domain, number |-> 0, paired |-> TRUE])
  /\ UNCHANGED <<app, control, counts, device, history>>

\* Faulty: the early return of a measurement nobody asked for keeps the mutex.
HandOverLocked ==
  IF sample.paired /\ callbacks = "app"
  THEN step' = "deliver" /\ UNCHANGED <<waiting, owner, sample>>
  ELSE step' = "none" /\ sample' = NoSample /\ UNCHANGED <<waiting, owner>>

\* Once counted, a measurement goes to the application if it asked for any.
HandOver ==
  IF sample.paired /\ callbacks = "app"
  THEN step' = "deliver" /\ UNCHANGED <<waiting, owner, sample>>
  ELSE Leave

\* The images the device numbered but never delivered, two in each frameset.
Missed == IF lastFrameset # 0 /\ sample.number > lastFrameset + 1
          THEN 2 * (sample.number - lastFrameset - 1) ELSE 0

CountStereo ==
  /\ owner = "video" /\ step = "count"
  /\ stats' = [stats EXCEPT !.framesets = @ + 1, !.dropped = @ + Missed,
                            !.refused = @ + IF sample.paired THEN 0 ELSE 1]
  /\ lastFrameset' = sample.number
  /\ firstFrameset' = IF firstFrameset = 0 THEN sample.number ELSE firstFrameset
  /\ HandOver
  /\ UNCHANGED <<app, control, normalizer, device, hotplug, troubled, delivered>>

CountMotion ==
  /\ owner = "motion" /\ step = "count"
  /\ stats' = [stats EXCEPT ![sample.stream] = @ + 1]
  /\ HandOver
  /\ UNCHANGED <<app, control, lastFrameset, normalizer, device, history>>

\* What the properties remember of a measurement given to the application.
Given == [stream |-> sample.stream, raw |-> sample.raw, seconds |-> sample.seconds,
          domain |-> sample.domain]

\* The statistics when the callback is about to be called.
Delivering == [stats EXCEPT !.pairs = @ + IF owner = "video" THEN 1 ELSE 0]

Deliver ==
  /\ step = "deliver"
  /\ stats' = Delivering
  /\ delivered' = Append(delivered, Given)
  /\ Leave
  /\ UNCHANGED <<app, control, lastFrameset, normalizer, device, hotplug, troubled, firstFrameset>>

\* The application's callback throws.
CallbackThrows ==
  /\ step = "deliver"
  /\ delivered' = Append(delivered, Given)
  /\ Caught(Delivering)
  /\ Leave
  /\ UNCHANGED <<app, active, disconnected, callbacks, lastFrameset, normalizer, device, hotplug,
                 firstFrameset>>

ReadStereo ==
  \/ StereoIncomplete
  \/ \E raw \in Raw, domain \in Domains, first \in Images :
       \/ StereoThrows(first, raw, domain)
       \/ \E lost \in 0..MaxGap, paired \in BOOLEAN :
            StereoRead(first, raw, domain, lost, paired)

ReadMotion ==
  \E raw \in Raw, domain \in Domains, stream \in Motions :
    \/ MotionRejected(stream, raw, domain)
    \/ MotionThrows(stream, raw, domain)
    \/ MotionRead(stream, raw, domain)

Read ==
  \/ TakeMutex("video") /\ ReadStereo
  \/ TakeMutex("motion") /\ ReadMotion

HandleFrame == Read \/ CountStereo \/ CountMotion \/ Deliver \/ CallbackThrows

Start == StartPipeline \/ StartPipelineFails \/ Activate \/ Publish

Stop == StopPipeline \/ StopReturn

Next ==
  \/ Open \/ OpenFails \/ Start
  \/ StopRequest \/ Stop
  \/ DeviceRemoved \/ HotplugFails
  \/ \E thread \in Threads : Arrive(thread)
  \/ HandleFrame

Spec == Init /\ [][Next]_vars

\* Every thread keeps running, and a callback returns.  callback_mutex is free
\* again and again, between frames, and is then taken by whoever waits for it.
FairSpec ==
  /\ Spec
  /\ WF_vars(HandleFrame)
  /\ WF_vars(StartPipeline \/ StartPipelineFails \/ Activate \/ Stop)
  /\ SF_vars(Publish)

----------------------------------------------------------------------------
(* Properties                                                              *)

Measurement ==
  [stream : Motions \cup {"stereo"}, raw : Raw, seconds : Int, domain : Domains,
   number : Nat, paired : BOOLEAN]

Delivered == [stream : Motions \cup {"stereo"}, raw : Raw, seconds : Int, domain : Domains]

\* The members keep their types; the source is active exactly from Activate to
\* StopRequest (lines 358-361 and 834-840), callback_mutex is held exactly while
\* a measurement is in hand.
TypeOK ==
  /\ app \in {"idle", "opened", "starting", "configuring", "running", "stopping"}
  /\ pipeline \in {"off", "on", "stopping"}
  /\ active \in BOOLEAN /\ (active <=> app \in {"configuring", "running"})
  /\ disconnected \in BOOLEAN /\ hotplug \in BOOLEAN /\ troubled \in BOOLEAN
  /\ failure \in {"", "frame", "disconnected", "hotplug", "stop"}
  /\ callbacks \in {"none", "app"}
  /\ DOMAIN stats = DOMAIN ZeroStats /\ \A k \in DOMAIN stats : stats[k] \in Nat
  /\ {lastFrameset, firstFrameset, frames, number} \subseteq Nat
  /\ normalizer.origin \in Raw \cup {None} /\ normalizer.domain \in Domains \cup {""}
  /\ normalizer.last \in [Streams -> Raw \cup {None}]
  /\ waiting \subseteq Threads
  /\ owner = "none" => step = "none" /\ sample = NoSample
  /\ owner # "none" => /\ owner \in Threads \ waiting
                       /\ step \in {"count", "deliver"} /\ sample \in Measurement
  /\ delivered \in Seq(Delivered)

\* All the application is given in one session lies on one time line: one domain,
\* one origin, and every stream strictly increasing, whatever frame was being
\* handled when the epoch began (lines 366-385).
OneTimeline ==
  \A i, j \in 1..Len(delivered) :
    /\ delivered[i].domain = delivered[j].domain
    /\ delivered[i].seconds - delivered[j].seconds = delivered[i].raw - delivered[j].raw
    /\ i < j /\ delivered[i].stream = delivered[j].stream => delivered[i].raw < delivered[j].raw

Deliveries(stream) == Cardinality({i \in 1..Len(delivered) : delivered[i].stream = stream})

\* From the moment start() returns, the statistics are those of what was
\* delivered: nothing counted was withheld, nothing delivered was not counted.
\* Received and dropped framesets add up to the numbers the device has counted
\* since the first of the epoch: a gap is counted once, none of it twice.
StatisticsOfTheEpoch ==
  /\ callbacks = "app" /\ owner = "none" =>
       /\ stats.pairs = Deliveries("stereo")
       /\ \A stream \in Motions : stats[stream] = Deliveries(stream)
  /\ callbacks = "app" =>
       2 * stats.framesets + stats.dropped =
         IF firstFrameset = 0 THEN 0 ELSE 2 * (lastFrameset - firstFrameset + 1)

\* Whatever went wrong while the source was active is known to the application,
\* which polls failure() and disconnected(), until the next start().
NothingUnnoticed ==
  /\ hotplug \/ troubled => failure # ""
  /\ failure = "disconnected" => disconnected

\* "do not expose those warm-up measurements to the caller ... so the first
\* delivered sample starts a clean capture epoch" (realsense_source.cpp:367-371):
\* a frame error the application sees is one of this epoch.
CleanEpoch == app = "running" /\ failure = "frame" => stats.errors > 0

\* start() and stop() return, although frames keep callback_mutex busy, are being
\* handled or wait to be.
CallsReturn ==
  /\ app \in {"opened", "starting", "configuring"} ~> app \in {"running", "idle", "stopping"}
  /\ app = "stopping" ~> app = "idle"

=============================================================================
