----------------------- MODULE RealSenseSourceProofs -----------------------
(***************************************************************************)
(* The safety of the capture source, for any timestamps, any number of     *)
(* frames and any gaps between framesets.  A measurement in hand when      *)
(* start() begins the epoch is not delivered, since Publish waits for      *)
(* callback_mutex; from then on one normalizer stands behind whatever is   *)
(* delivered.                                                              *)
(***************************************************************************)
EXTENDS RealSenseSource, SequenceTheorems, FiniteSetTheorems, TLAPS

Normalizers ==
  [origin : Raw \cup {None}, domain : Domains \cup {""},
   last : [Streams -> Raw \cup {None}]]

Statistics ==
  [framesets : Nat, pairs : Nat, gyro : Nat, accelerometer : Nat,
   refused : Nat, dropped : Nat, errors : Nat]

Types ==
  /\ app \in {"idle", "opened", "starting", "configuring", "running", "stopping"}
  /\ pipeline \in {"off", "on", "stopping"}
  /\ active \in BOOLEAN /\ (active <=> app \in {"configuring", "running"})
  /\ disconnected \in BOOLEAN /\ hotplug \in BOOLEAN /\ troubled \in BOOLEAN
  /\ failure \in {"", "frame", "disconnected", "hotplug", "stop"}
  /\ callbacks \in {"none", "app"}
  /\ stats \in Statistics
  /\ lastFrameset \in Nat /\ firstFrameset \in Nat /\ frames \in Nat /\ number \in Nat
  /\ normalizer \in Normalizers
  /\ waiting \subseteq Threads
  /\ owner = "none" => step = "none" /\ sample = NoSample
  /\ owner # "none" => /\ owner \in Threads \ waiting
                       /\ step \in {"count", "deliver"} /\ sample \in Measurement
  /\ delivered \in Seq(Delivered)

\* What the place of the application's thread says about the SDK and the epoch.
Places ==
  /\ app \in {"idle", "opened"} <=> pipeline = "off"
  /\ pipeline = "stopping" => app = "stopping"
  /\ pipeline = "off" => owner = "none" /\ waiting = {}
  /\ app \in {"opened", "starting", "configuring"} => callbacks = "none"
  /\ callbacks = "none" /\ app # "idle" => delivered = <<>>
  /\ step = "deliver" => callbacks = "app"

\* The stream under which the normalizer keeps the newest time of a measurement.
Key(stream) == IF stream = "stereo" THEN "infrared_1" ELSE stream

\* A measurement in hand is the newest the normalizer has accepted.
InHand ==
  owner # "none" =>
    /\ owner = "video" => /\ sample.stream = "stereo"
                          /\ step = "count" => sample.number > lastFrameset
                          /\ sample.number <= number
    /\ owner = "motion" => sample.stream \in Motions /\ sample.paired
    /\ normalizer.origin # None
    /\ sample.domain = normalizer.domain
    /\ sample.seconds = sample.raw - normalizer.origin
    /\ sample.raw = normalizer.last[Key(sample.stream)]

\* The origin is set with the domain.
Rooted(n) == n.origin = None <=> n.domain = ""

\* The normalizer bounds all that was delivered.
Bounds(d, n) ==
  \A i \in 1..Len(d) :
    /\ n.origin # None
    /\ d[i].domain = n.domain
    /\ d[i].seconds = d[i].raw - n.origin
    /\ d[i].raw <= n.last[Key(d[i].stream)]

Increasing(d) ==
  \A i, j \in 1..Len(d) : i < j /\ d[i].stream = d[j].stream => d[i].raw < d[j].raw

Older(d, s) == \A i \in 1..Len(d) : d[i].stream = s.stream => d[i].raw < s.raw

Line ==
  /\ Rooted(normalizer)
  /\ Bounds(delivered, normalizer)
  /\ Increasing(delivered)
  /\ owner # "none" => Older(delivered, sample)

Underway(stream) == IF step = "deliver" /\ sample.stream = stream THEN 1 ELSE 0

Tally ==
  /\ lastFrameset <= number
  /\ lastFrameset = 0 <=> firstFrameset = 0
  /\ callbacks = "app" =>
       /\ stats.pairs = Deliveries("stereo")
       /\ stats.gyro = Deliveries("gyro") + Underway("gyro")
       /\ stats.accelerometer = Deliveries("accelerometer") + Underway("accelerometer")
       /\ 2 * stats.framesets + stats.dropped =
            IF firstFrameset = 0 THEN 0 ELSE 2 * (lastFrameset - firstFrameset + 1)

IInv == Types /\ Places /\ InHand /\ Line /\ Tally /\ NothingUnnoticed

-----------------------------------------------------------------------------
(* The normalizer. *)

\* One normalizer follows another on the same time line.
Later(n, m) ==
  /\ Rooted(m)
  /\ n.origin # None => m.origin = n.origin /\ m.domain = n.domain
  /\ \A s \in Streams : n.last[s] <= m.last[s]

LEMMA NoneOutside == None \in Int /\ None \notin Raw /\ \A r \in Raw : r \in Int /\ None < r
<1>1. Raw \subseteq Nat
  BY FrameAssumption
<1>2. -1 \in Int /\ -1 \notin Nat /\ \A r \in Nat : r \in Int /\ -1 < r
  OBVIOUS
<1>. QED BY <1>1, <1>2 DEF None

LEMMA KeyIsStream ==
  ASSUME NEW s \in Motions \cup {"stereo"} PROVE Key(s) \in Streams
BY DEF Key, Motions, Streams, Images

LEMMA LastIsInt ==
  ASSUME NEW n \in Normalizers, NEW s \in Streams PROVE n.last[s] \in Int
<1>1. n.last \in [Streams -> Raw \cup {None}]
  BY DEF Normalizers
<1>2. n.last[s] \in Raw \cup {None}
  BY <1>1
<1>. QED BY <1>2, NoneOutside

LEMMA FreshIs == Fresh \in Normalizers /\ Rooted(Fresh)
BY DEF Fresh, Normalizers, Rooted

LEMMA RegisterIs ==
  ASSUME NEW n \in Normalizers, Rooted(n), NEW stream \in Streams, NEW raw \in Raw,
         NEW domain \in Domains, Accepts(n, stream, raw, domain)
  PROVE  LET m == Register(n, stream, raw, domain) IN
         /\ m \in Normalizers /\ Later(n, m)
         /\ m.origin # None /\ m.domain = domain
         /\ m.last[stream] = raw
         /\ \A s \in Streams \ {stream} : m.last[s] = n.last[s]
         /\ n.last[stream] < raw
<1>. DEFINE m == Register(n, stream, raw, domain)
<1>1. /\ n.origin \in Raw \cup {None} /\ n.domain \in Domains \cup {""}
      /\ n.last \in [Streams -> Raw \cup {None}]
  BY DEF Normalizers
<1>2. /\ m.origin = IF n.origin = None THEN raw ELSE n.origin
      /\ m.domain = domain /\ m.last = [n.last EXCEPT ![stream] = raw]
  BY DEF Register
<1>3. m \in Normalizers
  BY <1>1, <1>2 DEF Register, Normalizers
<1>4. m.origin # None /\ m.domain # ""
  BY <1>2, NoneOutside, FrameAssumption
<1>5. n.origin # None => m.origin = n.origin /\ m.domain = n.domain
  BY <1>2 DEF Accepts, Rooted
<1>6. n.last[stream] < raw
  <2>1. raw > n.last[stream] /\ raw \in Int /\ n.last[stream] \in Int
    BY NoneOutside, LastIsInt DEF Accepts
  <2>. QED BY <2>1
<1>7. m.last[stream] = raw /\ \A s \in Streams \ {stream} : m.last[s] = n.last[s]
  BY <1>1, <1>2
<1>8. \A s \in Streams : n.last[s] <= m.last[s]
  <2>. TAKE s \in Streams
  <2>1. n.last[s] \in Int
    BY LastIsInt
  <2>2. CASE s = stream
    BY <2>2, <2>1, <1>6, <1>7, NoneOutside
  <2>3. CASE s # stream
    BY <2>3, <2>1, <1>7
  <2>. QED BY <2>2, <2>3
<1>9. Rooted(m)
  BY <1>4 DEF Rooted
<1>. QED BY <1>2, <1>3, <1>4, <1>5, <1>6, <1>7, <1>8, <1>9 DEF Later

LEMMA LaterTwice ==
  ASSUME NEW n \in Normalizers, NEW m \in Normalizers, NEW o \in Normalizers,
         Later(n, m), Later(m, o)
  PROVE  Later(n, o)
<1>1. \A s \in Streams : n.last[s] \in Int /\ m.last[s] \in Int /\ o.last[s] \in Int
  BY LastIsInt
<1>2. \A s \in Streams : n.last[s] <= o.last[s]
  <2>. TAKE s \in Streams
  <2>1. n.last[s] <= m.last[s] /\ m.last[s] <= o.last[s]
    BY DEF Later
  <2>. QED BY <1>1, <2>1
<1>. QED BY <1>2 DEF Later

LEMMA BoundsLater ==
  ASSUME NEW d \in Seq(Delivered), NEW n \in Normalizers, NEW m \in Normalizers,
         Bounds(d, n), Later(n, m)
  PROVE  Bounds(d, m)
<1>. SUFFICES ASSUME NEW i \in 1..Len(d)
     PROVE  /\ m.origin # None /\ d[i].domain = m.domain
            /\ d[i].seconds = d[i].raw - m.origin
            /\ d[i].raw <= m.last[Key(d[i].stream)]
  BY DEF Bounds
<1>1. d[i] \in Delivered
  BY ElementOfSeq
<1>2. Key(d[i].stream) \in Streams /\ d[i].raw \in Int
  BY <1>1, KeyIsStream, NoneOutside DEF Delivered
<1>3. /\ n.last[Key(d[i].stream)] \in Int /\ m.last[Key(d[i].stream)] \in Int
  BY <1>2, LastIsInt
<1>4. n.last[Key(d[i].stream)] <= m.last[Key(d[i].stream)]
  BY <1>2 DEF Later
<1>5. d[i].raw <= n.last[Key(d[i].stream)]
  BY DEF Bounds
<1>6. d[i].raw <= m.last[Key(d[i].stream)]
  BY <1>2, <1>3, <1>4, <1>5
<1>. QED BY <1>6 DEF Bounds, Later

\* What is accepted next is newer than all that was delivered of its stream.
LEMMA AcceptedIsNewer ==
  ASSUME NEW d \in Seq(Delivered), NEW n \in Normalizers, Bounds(d, n),
         NEW s, s.stream \in Motions \cup {"stereo"}, s.raw \in Raw,
         n.last[Key(s.stream)] < s.raw
  PROVE  Older(d, s)
<1>. SUFFICES ASSUME NEW i \in 1..Len(d), d[i].stream = s.stream
     PROVE  d[i].raw < s.raw
  BY DEF Older
<1>1. d[i] \in Delivered
  BY ElementOfSeq
<1>2. d[i].raw \in Int /\ s.raw \in Int /\ n.last[Key(s.stream)] \in Int
  BY <1>1, KeyIsStream, LastIsInt, NoneOutside DEF Delivered
<1>3. d[i].raw <= n.last[Key(s.stream)]
  BY DEF Bounds
<1>. QED BY <1>2, <1>3

LEMMA NumbersAreNatural == Types => number \in Nat /\ lastFrameset \in Nat /\ firstFrameset \in Nat
BY DEF Types

LEMMA StatisticsAre == Types => stats \in Statistics
BY DEF Types

-----------------------------------------------------------------------------
(* What reading a frame does: at most one measurement is taken in hand, and *)
(* it is newer than all of its stream.                                      *)

TakenInHand ==
  /\ owner' \in Threads \ waiting' /\ step' = "count"
  /\ sample' \in Measurement
  /\ owner' = "video" => /\ sample'.stream = "stereo"
                         /\ sample'.number > number /\ sample'.number = number'
  /\ owner' = "motion" => sample'.stream \in Motions /\ sample'.paired
  /\ normalizer'.origin # None
  /\ sample'.domain = normalizer'.domain
  /\ sample'.seconds = sample'.raw - normalizer'.origin
  /\ sample'.raw = normalizer'.last[Key(sample'.stream)]
  /\ normalizer.last[Key(sample'.stream)] < sample'.raw

ReadEffect ==
  /\ owner = "none" /\ waiting # {} /\ waiting' \subseteq waiting
  /\ UNCHANGED <<app, active, disconnected, callbacks, lastFrameset, pipeline, frames,
                 hotplug, firstFrameset, delivered>>
  /\ normalizer' \in Normalizers /\ Later(normalizer, normalizer')
  /\ number' \in Nat /\ number <= number'
  /\ stats' \in Statistics
  /\ \A k \in {"framesets", "pairs", "gyro", "accelerometer", "dropped"} : stats'[k] = stats[k]
  /\ \/ failure' = failure /\ troubled' = troubled
     \/ failure' = "frame" /\ troubled' = TRUE
  /\ \/ UNCHANGED <<owner, step, sample>>
     \/ TakenInHand

LEMMA LaterItself ==
  ASSUME NEW n \in Normalizers, Rooted(n) PROVE Later(n, n)
<1>1. \A s \in Streams : n.last[s] <= n.last[s]
  BY LastIsInt
<1>. QED BY <1>1 DEF Later

\* A frame that is not taken in hand.
LEMMA Dismissed ==
  ASSUME Types, Rooted(normalizer), NEW thread \in Threads, TakeMutex(thread), ReturnAtOnce,
         UNCHANGED <<app, active, disconnected, callbacks, lastFrameset, device, hotplug,
                     firstFrameset, delivered>>,
         normalizer' \in Normalizers, Later(normalizer, normalizer'),
         \/ stats' = [stats EXCEPT !.refused = @ + 1] /\ UNCHANGED <<failure, troubled>>
         \/ Caught(stats)
  PROVE  ReadEffect
<1>1. owner = "none" /\ waiting # {} /\ waiting' \subseteq waiting
  BY DEF TakeMutex
<1>2. UNCHANGED <<pipeline, frames, number>>
  BY DEF device
<1>3. number' \in Nat /\ number <= number'
  <2>1. number \in Nat /\ number' = number
    BY <1>2, NumbersAreNatural
  <2>. QED BY <2>1
<1>4. \/ stats' = [stats EXCEPT !.refused = @ + 1]
      \/ stats' = [stats EXCEPT !.errors = @ + 1]
  BY DEF Caught
<1>5. /\ stats' \in Statistics
      /\ \A k \in {"framesets", "pairs", "gyro", "accelerometer", "dropped"} :
           stats'[k] = stats[k]
  <2>1. stats \in Statistics
    BY StatisticsAre
  <2>. QED BY <2>1, <1>4 DEF Statistics
<1>6. \/ failure' = failure /\ troubled' = troubled
      \/ failure' = "frame" /\ troubled' = TRUE
  BY DEF Caught
<1>. QED BY <1>1, <1>2, <1>3, <1>5, <1>6 DEF ReadEffect, ReturnAtOnce

LEMMA OtherImage ==
  ASSUME NEW first \in Images, NEW second, second = CHOOSE s \in Images : s # first
  PROVE  second \in Images \ {first}
<1>1. \E s \in Images : s # first
  BY DEF Images
<1>. QED BY <1>1

LEMMA ThreadsAre == "video" \in Threads /\ "motion" \in Threads /\ "none" \notin Threads
BY DEF Threads

LEMMA ReadStereoEffect ==
  ASSUME Types, Rooted(normalizer), TakeMutex("video"), ReadStereo
  PROVE  ReadEffect
<1>. USE ThreadsAre
<1>0. normalizer \in Normalizers
  BY DEF Types
<1>1. CASE StereoIncomplete
  <2>1. Later(normalizer, normalizer') /\ normalizer' \in Normalizers
    BY <1>0, <1>1, LaterItself DEF StereoIncomplete
  <2>2. UNCHANGED <<app, active, disconnected, callbacks, lastFrameset, device, hotplug,
                    firstFrameset, delivered, failure, troubled>>
    BY <1>1 DEF StereoIncomplete, control, history
  <2>. QED BY <1>1, <2>1, <2>2, Dismissed DEF StereoIncomplete
<1>2. ASSUME NEW raw \in Raw, NEW domain \in Domains, NEW first \in Images,
             StereoThrows(first, raw, domain)
      PROVE  ReadEffect
  <2>. DEFINE second == CHOOSE s \in Images : s # first
              once   == Register(normalizer, first, raw, domain)
              twice  == Register(once, second, raw, domain)
  <2>1. first \in Streams /\ second \in Streams
    BY OtherImage DEF Streams
  <2>2. normalizer' \in Normalizers /\ Later(normalizer, normalizer')
    <3>1. CASE normalizer' = normalizer
      BY <3>1, <1>0, LaterItself
    <3>2. CASE Accepts(normalizer, first, raw, domain) /\ normalizer' = once
      BY <3>2, <1>0, <2>1, RegisterIs
    <3>3. CASE /\ Accepts(normalizer, first, raw, domain) /\ Accepts(once, second, raw, domain)
               /\ normalizer' = twice
      <4>1. once \in Normalizers /\ Later(normalizer, once)
        BY <3>3, <1>0, <2>1, RegisterIs
      <4>2. twice \in Normalizers /\ Later(once, twice)
        <5>. HIDE DEF once, second
        <5>. QED BY <3>3, <4>1, <2>1, RegisterIs DEF Later
      <4>. QED BY <3>3, <4>1, <4>2, <1>0, LaterTwice
    <3>. QED BY <1>2, <3>1, <3>2, <3>3 DEF StereoThrows
  <2>3. UNCHANGED <<app, active, disconnected, callbacks, lastFrameset, device, hotplug,
                    firstFrameset, delivered>> /\ Caught(stats) /\ ReturnAtOnce
    BY <1>2 DEF StereoThrows
  <2>. QED BY <2>2, <2>3, Dismissed
<1>3. ASSUME NEW raw \in Raw, NEW domain \in Domains, NEW first \in Images,
             NEW lost \in 0..MaxGap, NEW paired \in BOOLEAN,
             StereoRead(first, raw, domain, lost, paired)
      PROVE  ReadEffect
  <2>. DEFINE second == CHOOSE s \in Images : s # first
              once   == Register(normalizer, first, raw, domain)
              twice  == Register(once, second, raw, domain)
  <2>1. first \in Streams /\ second \in Streams /\ second # first
    BY OtherImage DEF Streams
  <2>2. /\ Accepts(normalizer, first, raw, domain) /\ Accepts(once, second, raw, domain)
        /\ normalizer' = twice
    BY <1>3 DEF StereoRead
  <2>3. /\ once \in Normalizers /\ Later(normalizer, once) /\ once.origin # None
        /\ once.last[first] = raw /\ normalizer.last[first] < raw
        /\ \A s \in Streams \ {first} : once.last[s] = normalizer.last[s]
    BY <2>1, <2>2, <1>0, RegisterIs
  <2>4. /\ twice \in Normalizers /\ Later(once, twice)
        /\ twice.origin # None /\ twice.domain = domain
        /\ twice.last[second] = raw /\ once.last[second] < raw
        /\ \A s \in Streams \ {second} : twice.last[s] = once.last[s]
    <3>. HIDE DEF once, second
    <3>. QED BY <2>1, <2>2, <2>3, RegisterIs DEF Later
  <2>5. normalizer' \in Normalizers /\ Later(normalizer, normalizer')
    BY <1>0, <2>2, <2>3, <2>4, LaterTwice
  <2>6. twice.last["infrared_1"] = raw /\ normalizer.last["infrared_1"] < raw
    <3>1. "infrared_1" \in Streams /\ "infrared_1" \in {first, second}
      BY <2>1, OtherImage DEF Images, Streams
    <3>. HIDE DEF once, twice, second
    <3>. QED BY <3>1, <2>1, <2>3, <2>4
  <2>7. number' = number + 1 + lost /\ number' \in Nat /\ number < number'
    <3>0. MaxGap \in Nat
      BY FrameAssumption
    <3>1. number \in Nat /\ lost \in Nat
      BY <3>0, NumbersAreNatural
    <3>2. number' = number + 1 + lost
      BY <1>3 DEF StereoRead
    <3>. QED BY <3>1, <3>2
  <2>8. /\ owner' = "video" /\ step' = "count"
        /\ sample' = [stream |-> "stereo", raw |-> raw, seconds |-> raw - twice.origin,
                      domain |-> domain, number |-> number', paired |-> paired]
    BY <1>3 DEF StereoRead, Keep
  <2>9. raw - twice.origin \in Int
    <3>1. twice.origin \in Raw \cup {None}
      BY <2>4 DEF Normalizers
    <3>2. twice.origin \in Int /\ raw \in Int
      BY <3>1, NoneOutside
    <3>. HIDE DEF twice
    <3>. QED BY <3>2
  <2>10. sample' \in Measurement
    <3>. HIDE DEF twice
    <3>. QED BY <2>7, <2>8, <2>9 DEF Measurement
  <2>11. TakenInHand
    <3>1. owner' \in Threads \ waiting'
      BY <2>8 DEF TakeMutex
    <3>2. /\ sample'.stream = "stereo" /\ sample'.number = number' /\ sample'.domain = domain
          /\ sample'.raw = raw /\ sample'.seconds = raw - twice.origin
      BY <2>8
    <3>3. Key("stereo") = "infrared_1" /\ owner' # "motion"
      BY <2>8 DEF Key
    <3>. HIDE DEF twice
    <3>. QED BY <2>2, <2>4, <2>6, <2>7, <2>8, <2>10, <3>1, <3>2, <3>3 DEF TakenInHand
  <2>12. UNCHANGED <<app, active, disconnected, failure, callbacks, stats, lastFrameset, pipeline,
                     frames, hotplug, troubled, firstFrameset, delivered>>
    BY <1>3 DEF StereoRead, control, counts, history
  <2>13. stats' \in Statistics /\ number \in Nat /\ number <= number'
    BY <2>7, <2>12, StatisticsAre, NumbersAreNatural
  <2>14. owner = "none" /\ waiting # {} /\ waiting' \subseteq waiting
    BY DEF TakeMutex
  <2>. QED BY <2>5, <2>7, <2>11, <2>12, <2>13, <2>14 DEF ReadEffect
<1>. QED BY <1>1, <1>2, <1>3 DEF ReadStereo

LEMMA ReadMotionEffect ==
  ASSUME Types, Rooted(normalizer), TakeMutex("motion"), ReadMotion
  PROVE  ReadEffect
<1>. USE ThreadsAre
<1>0. normalizer \in Normalizers
  BY DEF Types
<1>. PICK raw \in Raw, domain \in Domains, stream \in Motions :
       \/ MotionRejected(stream, raw, domain)
       \/ MotionThrows(stream, raw, domain)
       \/ MotionRead(stream, raw, domain)
  BY DEF ReadMotion
<1>1. stream \in Streams /\ Key(stream) = stream
  BY DEF Streams, Motions, Key
<1>2. CASE MotionRejected(stream, raw, domain)
  <2>1. normalizer' \in Normalizers /\ Later(normalizer, normalizer')
    BY <1>0, <1>2, LaterItself DEF MotionRejected
  <2>2. UNCHANGED <<app, active, disconnected, callbacks, lastFrameset, device, hotplug,
                    firstFrameset, delivered, failure, troubled>>
    BY <1>2 DEF MotionRejected, control, history
  <2>. QED BY <1>2, <2>1, <2>2, Dismissed DEF MotionRejected
<1>3. CASE MotionThrows(stream, raw, domain)
  <2>1. normalizer' \in Normalizers /\ Later(normalizer, normalizer')
    BY <1>0, <1>1, <1>3, RegisterIs DEF MotionThrows
  <2>2. UNCHANGED <<app, active, disconnected, callbacks, lastFrameset, device, hotplug,
                    firstFrameset, delivered>> /\ Caught(stats) /\ ReturnAtOnce
    BY <1>3 DEF MotionThrows
  <2>. QED BY <2>1, <2>2, Dismissed
<1>4. CASE MotionRead(stream, raw, domain)
  <2>1. /\ normalizer' \in Normalizers /\ Later(normalizer, normalizer')
        /\ normalizer'.origin # None /\ normalizer'.domain = domain
        /\ normalizer'.last[stream] = raw /\ normalizer.last[stream] < raw
    BY <1>0, <1>1, <1>4, RegisterIs DEF MotionRead
  <2>2. /\ owner' = "motion" /\ step' = "count"
        /\ sample' = [stream |-> stream, raw |-> raw, seconds |-> raw - normalizer'.origin,
                      domain |-> domain, number |-> 0, paired |-> TRUE]
    BY <1>4 DEF MotionRead, Keep
  <2>3. raw - normalizer'.origin \in Int
    <3>1. normalizer'.origin \in Raw \cup {None}
      BY <2>1 DEF Normalizers
    <3>2. normalizer'.origin \in Int /\ raw \in Int
      BY <3>1, NoneOutside
    <3>. QED BY <3>2
  <2>4. sample' \in Measurement
    BY <2>2, <2>3 DEF Measurement
  <2>5. TakenInHand
    <3>1. owner' \in Threads \ waiting' /\ owner' # "video"
      BY <2>2 DEF TakeMutex
    <3>2. /\ sample'.stream = stream /\ sample'.domain = domain /\ sample'.raw = raw
          /\ sample'.seconds = raw - normalizer'.origin /\ sample'.paired
      BY <2>2
    <3>. QED BY <1>1, <2>1, <2>2, <2>4, <3>1, <3>2 DEF TakenInHand
  <2>6. UNCHANGED <<app, active, disconnected, failure, callbacks, stats, lastFrameset, pipeline,
                    frames, number, hotplug, troubled, firstFrameset, delivered>>
    BY <1>4 DEF MotionRead, control, counts, device, history
  <2>7. stats' \in Statistics /\ number' \in Nat /\ number <= number'
    BY <2>6, StatisticsAre, NumbersAreNatural
  <2>8. owner = "none" /\ waiting # {} /\ waiting' \subseteq waiting
    BY DEF TakeMutex
  <2>. QED BY <2>1, <2>5, <2>6, <2>7, <2>8 DEF ReadEffect
<1>. QED BY <1>2, <1>3, <1>4

LEMMA ReadIs ==
  ASSUME IInv, Read PROVE ReadEffect
BY ReadStereoEffect, ReadMotionEffect DEF Read, IInv, Line

\* The actions of Next, with reading as one.
LEMMA Cases ==
  ASSUME Next
  PROVE  \/ Open \/ OpenFails \/ StartPipeline \/ StartPipelineFails \/ Activate \/ Publish
         \/ StopRequest \/ StopPipeline \/ StopReturn \/ DeviceRemoved \/ HotplugFails
         \/ (\E thread \in Threads : Arrive(thread))
         \/ Read \/ CountStereo \/ CountMotion \/ Deliver \/ CallbackThrows
BY DEF Next, Start, Stop, HandleFrame

-----------------------------------------------------------------------------
(* Statistics. *)

LEMMA ZeroStatsAre == ZeroStats \in Statistics
BY DEF ZeroStats, Statistics

LEMMA MissedIs ==
  ASSUME Types, owner # "none"
  PROVE  /\ Missed \in Nat
         /\ (lastFrameset # 0 /\ sample.number > lastFrameset
               => Missed = 2 * (sample.number - lastFrameset - 1))
         /\ (lastFrameset = 0 => Missed = 0)
<1>1. lastFrameset \in Nat /\ sample \in Measurement
  BY DEF Types
<1>2. sample.number \in Nat
  BY <1>1 DEF Measurement
<1>3. CASE lastFrameset # 0 /\ sample.number > lastFrameset + 1
  BY <1>1, <1>2, <1>3 DEF Missed
<1>4. CASE ~(lastFrameset # 0 /\ sample.number > lastFrameset + 1)
  <2>1. Missed = 0
    BY <1>4 DEF Missed
  <2>2. ASSUME lastFrameset # 0, sample.number > lastFrameset
        PROVE  2 * (sample.number - lastFrameset - 1) = 0
    <3>. DEFINE a == sample.number
                b == lastFrameset
    <3>1. ~(a > b + 1) /\ a > b /\ a \in Nat /\ b \in Nat
      BY <1>1, <1>2, <1>4, <2>2
    <3>2. a - b - 1 = 0
      <4>. HIDE DEF a, b
      <4>. QED BY <3>1
    <3>. QED BY <3>2
  <2>. QED BY <2>1, <2>2
<1>. QED BY <1>3, <1>4

LEMMA StatisticsKept ==
  ASSUME IInv, [Next]_vars PROVE stats' \in Statistics
<1>0. Types /\ stats \in Statistics
  BY StatisticsAre DEF IInv
<1>1. CASE Read
  BY <1>1, ReadIs DEF ReadEffect
<1>2. CASE Open \/ Publish
  BY <1>2, ZeroStatsAre DEF Open, Publish
<1>3. CASE HotplugFails
  <2>1. stats' = [stats EXCEPT !.errors = @ + 1]
    BY <1>3 DEF HotplugFails
  <2>. QED BY <1>0, <2>1 DEF Statistics
<1>4. CASE CountStereo
  <2>1. Missed \in Nat
    BY <1>0, <1>4, MissedIs DEF CountStereo
  <2>2. PICK p \in {0, 1} :
          stats' = [stats EXCEPT !.framesets = @ + 1, !.dropped = @ + Missed, !.refused = @ + p]
    BY <1>4 DEF CountStereo
  <2>3. p \in Nat
    OBVIOUS
  <2>4. /\ stats.framesets + 1 \in Nat /\ stats.dropped + Missed \in Nat
        /\ stats.refused + p \in Nat
    BY <1>0, <2>1, <2>3 DEF Statistics
  <2>. QED BY <1>0, <2>2, <2>4 DEF Statistics
<1>5. CASE CountMotion
  <2>1. stats' = [stats EXCEPT ![sample.stream] = @ + 1]
    BY <1>5 DEF CountMotion
  <2>. QED BY <1>0, <2>1 DEF Statistics
<1>6. CASE Deliver \/ CallbackThrows
  <2>1. Delivering \in Statistics
    <3>1. \E p \in {0, 1} : Delivering = [stats EXCEPT !.pairs = @ + p]
      BY DEF Delivering
    <3>. QED BY <1>0, <3>1 DEF Statistics
  <2>2. \/ stats' = Delivering
        \/ stats' = [Delivering EXCEPT !.errors = @ + 1]
    BY <1>6 DEF Deliver, CallbackThrows, Caught
  <2>. QED BY <2>1, <2>2 DEF Statistics
<1>7. CASE UNCHANGED stats
  BY <1>0, <1>7
<1>. QED
  BY <1>1, <1>2, <1>3, <1>4, <1>5, <1>6, <1>7, Cases
     DEF OpenFails, StartPipeline, StartPipelineFails, Activate, StopRequest, StopPipeline,
         StopReturn, DeviceRemoved, Arrive, counts, vars

-----------------------------------------------------------------------------
(* Types. *)

\* Who is where, and what went wrong.
Flags ==
  /\ app \in {"idle", "opened", "starting", "configuring", "running", "stopping"}
  /\ pipeline \in {"off", "on", "stopping"}
  /\ active \in BOOLEAN /\ (active <=> app \in {"configuring", "running"})
  /\ disconnected \in BOOLEAN /\ hotplug \in BOOLEAN /\ troubled \in BOOLEAN
  /\ failure \in {"", "frame", "disconnected", "hotplug", "stop"}
  /\ callbacks \in {"none", "app"}

LEMMA FlagsKept ==
  ASSUME IInv, [Next]_vars PROVE Flags'
<1>0. Flags
  BY DEF IInv, Types, Flags
<1>1. CASE Read
  <2>1. /\ UNCHANGED <<app, active, disconnected, callbacks, pipeline, hotplug>>
        /\ \/ failure' = failure /\ troubled' = troubled
           \/ failure' = "frame" /\ troubled' = TRUE
    BY <1>1, ReadIs DEF ReadEffect
  <2>. QED BY <1>0, <2>1 DEF Flags
<1>2. CASE CountStereo \/ CountMotion \/ Deliver
  <2>1. UNCHANGED <<app, control, device, hotplug, troubled>>
    BY <1>2 DEF CountStereo, CountMotion, Deliver, history
  <2>. QED BY <1>0, <2>1 DEF Flags, control, device
<1>3. CASE CallbackThrows
  BY <1>0, <1>3 DEF Flags, CallbackThrows, Caught, device
<1>4. CASE \E thread \in Threads : Arrive(thread)
  <2>1. UNCHANGED <<app, control, pipeline, history>>
    BY <1>4 DEF Arrive
  <2>. QED BY <1>0, <2>1 DEF Flags, control, history
<1>5. CASE Open
  BY <1>0, <1>5 DEF Flags, Open, handler
<1>6. CASE OpenFails
  BY <1>0, <1>6 DEF Flags, OpenFails, device, history
<1>7. CASE StartPipeline
  BY <1>0, <1>7 DEF Flags, StartPipeline, control, history
<1>8. CASE StartPipelineFails
  BY <1>0, <1>8 DEF Flags, StartPipelineFails, control, device, history
<1>9. CASE Activate
  BY <1>0, <1>9 DEF Flags, Activate, device, history
<1>10. CASE Publish
  BY <1>0, <1>10 DEF Flags, Publish, device
<1>11. CASE StopRequest
  BY <1>0, <1>11 DEF Flags, StopRequest, device, history
<1>12. CASE StopPipeline
  BY <1>0, <1>12 DEF Flags, StopPipeline, control, history
<1>13. CASE StopReturn
  BY <1>0, <1>13 DEF Flags, StopReturn, history
<1>14. CASE DeviceRemoved
  BY <1>0, <1>14 DEF Flags, DeviceRemoved, device
<1>15. CASE HotplugFails
  BY <1>0, <1>15 DEF Flags, HotplugFails, device
<1>16. CASE UNCHANGED vars
  BY <1>0, <1>16 DEF Flags, vars, control, device, history
<1>. QED
  BY <1>1, <1>2, <1>3, <1>4, <1>5, <1>6, <1>7, <1>8, <1>9, <1>10, <1>11, <1>12, <1>13, <1>14,
     <1>15, <1>16, Cases

\* What passes through the hands of the SDK's threads.
Numbers ==
  /\ lastFrameset \in Nat /\ firstFrameset \in Nat /\ frames \in Nat /\ number \in Nat
  /\ normalizer \in Normalizers

LEMMA NumbersKept ==
  ASSUME IInv, [Next]_vars PROVE Numbers'
<1>0. Numbers
  BY DEF IInv, Types, Numbers
<1>1. CASE Read
  <2>1. /\ UNCHANGED <<lastFrameset, firstFrameset, frames>>
        /\ number' \in Nat /\ normalizer' \in Normalizers
    BY <1>1, ReadIs DEF ReadEffect
  <2>. QED BY <1>0, <2>1 DEF Numbers
<1>2. CASE CountStereo
  <2>1. sample.number \in Nat
    <3>1. sample \in Measurement
      BY <1>2 DEF CountStereo, IInv, Types
    <3>. QED BY <3>1 DEF Measurement
  <2>2. /\ lastFrameset' = sample.number
        /\ firstFrameset' = IF firstFrameset = 0 THEN sample.number ELSE firstFrameset
        /\ UNCHANGED <<normalizer, frames, number>>
    BY <1>2 DEF CountStereo, device
  <2>. QED BY <1>0, <2>1, <2>2 DEF Numbers
<1>3. CASE CountMotion \/ Deliver \/ CallbackThrows
  <2>1. UNCHANGED <<lastFrameset, firstFrameset, frames, number, normalizer>>
    BY <1>3 DEF CountMotion, Deliver, CallbackThrows, device, history
  <2>. QED BY <1>0, <2>1 DEF Numbers
<1>4. CASE \E thread \in Threads : Arrive(thread)
  <2>1. frames' = frames + 1 /\ UNCHANGED <<lastFrameset, firstFrameset, number, normalizer>>
    BY <1>4 DEF Arrive, counts, history
  <2>. QED BY <1>0, <2>1 DEF Numbers
<1>5. CASE Open
  BY <1>5, FreshIs DEF Open, Numbers
<1>6. CASE Publish
  BY <1>0, <1>6, FreshIs DEF Publish, Numbers, device
<1>7. CASE \/ OpenFails \/ StartPipeline \/ StartPipelineFails \/ Activate \/ StopRequest
          \/ StopPipeline \/ StopReturn \/ DeviceRemoved \/ HotplugFails
  <2>1. UNCHANGED <<lastFrameset, firstFrameset, frames, number, normalizer>>
    BY <1>7 DEF OpenFails, StartPipeline, StartPipelineFails, Activate, StopRequest,
                StopPipeline, StopReturn, DeviceRemoved, HotplugFails, counts, device, history
  <2>. QED BY <1>0, <2>1 DEF Numbers
<1>8. CASE UNCHANGED vars
  BY <1>0, <1>8 DEF Numbers, vars, counts, device, history
<1>. QED
  BY <1>1, <1>2, <1>3, <1>4, <1>5, <1>6, <1>7, <1>8, Cases

\* A thread has a measurement in hand exactly while it has callback_mutex.
Hands ==
  /\ waiting \subseteq Threads
  /\ owner = "none" => step = "none" /\ sample = NoSample
  /\ owner # "none" => /\ owner \in Threads \ waiting
                       /\ step \in {"count", "deliver"} /\ sample \in Measurement

LEMMA HandsKept ==
  ASSUME IInv, [Next]_vars PROVE Hands'
<1>0. Hands
  BY DEF IInv, Types, Hands
<1>1. CASE Read
  <2>1. /\ owner = "none" /\ waiting' \subseteq waiting
        /\ \/ UNCHANGED <<owner, step, sample>>
           \/ TakenInHand
    BY <1>1, ReadIs DEF ReadEffect
  <2>2. CASE UNCHANGED <<owner, step, sample>>
    BY <1>0, <2>1, <2>2 DEF Hands
  <2>3. CASE TakenInHand
    BY <1>0, <2>1, <2>3, ThreadsAre DEF Hands, TakenInHand
  <2>. QED BY <2>1, <2>2, <2>3
<1>2. CASE CountStereo \/ CountMotion
  <2>1. owner # "none"
    BY <1>2, ThreadsAre DEF CountStereo, CountMotion
  <2>2. \/ step' = "deliver" /\ UNCHANGED <<waiting, owner, sample>>
        \/ Leave
    BY <1>2 DEF CountStereo, CountMotion, HandOver
  <2>. QED BY <1>0, <2>1, <2>2, ThreadsAre DEF Hands, Leave
<1>3. CASE Deliver \/ CallbackThrows
  <2>1. Leave
    BY <1>3 DEF Deliver, CallbackThrows
  <2>. QED BY <1>0, <2>1 DEF Hands, Leave
<1>4. ASSUME NEW thread \in Threads, Arrive(thread) PROVE Hands'
  BY <1>0, <1>4 DEF Hands, Arrive
<1>5. CASE \/ OpenFails \/ StartPipeline \/ StartPipelineFails \/ Activate \/ StopRequest
          \/ StopPipeline \/ StopReturn \/ DeviceRemoved \/ HotplugFails \/ Open \/ Publish
          \/ UNCHANGED vars
  <2>1. UNCHANGED handler
    BY <1>5 DEF OpenFails, StartPipeline, StartPipelineFails, Activate, StopRequest, StopPipeline,
                StopReturn, DeviceRemoved, HotplugFails, Open, Publish, vars
  <2>. QED BY <1>0, <2>1 DEF Hands, handler
<1>. QED
  BY <1>1, <1>2, <1>3, <1>4, <1>5, Cases

\* Nothing is delivered but what is in hand.
LEMMA DeliveredGrows ==
  ASSUME IInv, [Next]_vars
  PROVE  \/ delivered' = delivered
         \/ Open /\ delivered' = <<>>
         \/ /\ Deliver \/ CallbackThrows
            /\ Given \in Delivered /\ delivered' = Append(delivered, Given)
<1>1. CASE Read
  BY <1>1, ReadIs DEF ReadEffect
<1>2. CASE Deliver \/ CallbackThrows
  <2>1. step = "deliver" /\ delivered' = Append(delivered, Given)
    BY <1>2 DEF Deliver, CallbackThrows
  <2>2. owner # "none"
    BY <2>1 DEF IInv, Types
  <2>3. sample \in Measurement
    BY <2>2 DEF IInv, Types
  <2>4. Given \in Delivered
    BY <2>3 DEF Given, Delivered, Measurement
  <2>. QED BY <1>2, <2>1, <2>4
<1>3. CASE Open
  BY <1>3 DEF Open
<1>4. CASE \/ OpenFails \/ StartPipeline \/ StartPipelineFails \/ Activate \/ StopRequest
          \/ StopPipeline \/ StopReturn \/ DeviceRemoved \/ HotplugFails \/ Publish
          \/ CountStereo \/ CountMotion \/ (\E thread \in Threads : Arrive(thread))
          \/ UNCHANGED vars
  BY <1>4 DEF OpenFails, StartPipeline, StartPipelineFails, Activate, StopRequest, StopPipeline,
              StopReturn, DeviceRemoved, HotplugFails, Publish, CountStereo, CountMotion, Arrive,
              history, vars
<1>. QED
  BY <1>1, <1>2, <1>3, <1>4, Cases

LEMMA TypesKept ==
  ASSUME IInv, [Next]_vars PROVE Types'
<1>1. delivered' \in Seq(Delivered)
  <2>1. delivered \in Seq(Delivered)
    BY DEF IInv, Types
  <2>2. CASE Given \in Delivered /\ delivered' = Append(delivered, Given)
    BY <2>1, <2>2, AppendProperties
  <2>. QED BY <2>1, <2>2, DeliveredGrows, EmptySeq
<1>2. Flags' /\ Numbers' /\ Hands' /\ stats' \in Statistics
  BY FlagsKept, NumbersKept, HandsKept, StatisticsKept
<1>. QED
  BY <1>1, <1>2 DEF Flags, Numbers, Hands, Types

-----------------------------------------------------------------------------
(* Places. *)

LEMMA PlacesKept ==
  ASSUME IInv, [Next]_vars PROVE Places'
<1>0. Places /\ Hands /\ app \in {"idle", "opened", "starting", "configuring", "running", "stopping"}
  BY DEF IInv, Types, Hands
<1>1. CASE Read
  <2>1. /\ owner = "none" /\ waiting # {} /\ waiting' \subseteq waiting
        /\ UNCHANGED <<app, callbacks, pipeline, delivered>>
        /\ UNCHANGED <<owner, step, sample>> \/ step' = "count"
    BY <1>1, ReadIs DEF ReadEffect, TakenInHand
  <2>2. pipeline # "off" /\ step' # "deliver"
    BY <1>0, <2>1 DEF Places, Hands
  <2>. QED BY <1>0, <2>1, <2>2 DEF Places
<1>2. CASE CountStereo \/ CountMotion
  <2>1. owner # "none" /\ UNCHANGED <<app, callbacks, pipeline, delivered>>
    BY <1>2, ThreadsAre DEF CountStereo, CountMotion, control, device, history
  <2>2. pipeline # "off" /\ (step' = "deliver" => callbacks = "app")
    BY <1>0, <1>2, <2>1 DEF Places, CountStereo, CountMotion, HandOver, Leave
  <2>. QED BY <1>0, <2>1, <2>2 DEF Places
<1>3. CASE Deliver \/ CallbackThrows
  <2>1. step = "deliver" /\ step' = "none" /\ UNCHANGED <<app, callbacks, pipeline>>
    BY <1>3 DEF Deliver, CallbackThrows, Leave, control, device
  <2>2. callbacks = "app" /\ pipeline # "off"
    BY <1>0, <2>1 DEF Places, Hands
  <2>. QED BY <1>0, <2>1, <2>2 DEF Places
<1>4. ASSUME NEW thread \in Threads, Arrive(thread) PROVE Places'
  <2>1. pipeline = "on" /\ UNCHANGED <<app, callbacks, pipeline, delivered, step>>
    BY <1>4 DEF Arrive, control, history
  <2>. QED BY <1>0, <2>1 DEF Places
<1>5. CASE Open
  <2>1. /\ app = "idle" /\ app' = "opened" /\ callbacks' = "none" /\ delivered' = <<>>
        /\ UNCHANGED <<pipeline, owner, waiting, step>>
    BY <1>5 DEF Open, handler
  <2>2. pipeline = "off" /\ owner = "none" /\ waiting = {} /\ step = "none"
    BY <1>0, <2>1 DEF Places, Hands
  <2>. QED BY <2>1, <2>2 DEF Places
<1>6. CASE OpenFails
  <2>1. app = "idle" /\ UNCHANGED <<app, pipeline, owner, waiting, step>>
    BY <1>6 DEF OpenFails, handler, device
  <2>2. pipeline = "off" /\ owner = "none" /\ waiting = {} /\ step = "none"
    BY <1>0, <2>1 DEF Places, Hands
  <2>. QED BY <2>1, <2>2 DEF Places
<1>7. CASE StartPipeline
  BY <1>0, <1>7 DEF Places, StartPipeline, control, handler, history
<1>8. CASE StartPipelineFails
  BY <1>0, <1>8 DEF Places, StartPipelineFails, control, handler, device, history
<1>9. CASE Activate
  BY <1>0, <1>9 DEF Places, Activate, handler, device, history
<1>10. CASE Publish
  BY <1>0, <1>10 DEF Places, Publish, handler, device
<1>11. CASE StopRequest
  BY <1>0, <1>11 DEF Places, StopRequest, handler, device, history
<1>12. CASE StopPipeline
  BY <1>0, <1>12 DEF Places, StopPipeline, control, handler, history
<1>13. CASE StopReturn
  BY <1>0, <1>13 DEF Places, Hands, StopReturn, handler, history
<1>14. CASE DeviceRemoved \/ HotplugFails \/ UNCHANGED vars
  <2>1. UNCHANGED <<app, callbacks, pipeline, delivered, owner, waiting, step>>
    BY <1>14 DEF DeviceRemoved, HotplugFails, vars, control, handler, device, history
  <2>. QED BY <1>0, <2>1 DEF Places
<1>. QED
  BY <1>1, <1>2, <1>3, <1>4, <1>5, <1>6, <1>7, <1>8, <1>9, <1>10, <1>11, <1>12, <1>13, <1>14, Cases

-----------------------------------------------------------------------------
(* What is in hand. *)

LEMMA InHandKept ==
  ASSUME IInv, [Next]_vars PROVE InHand'
<1>0. InHand /\ lastFrameset <= number /\ number \in Nat /\ lastFrameset \in Nat
  BY NumbersAreNatural DEF IInv, Tally
<1>1. CASE Read
  <2>1. /\ owner = "none" /\ lastFrameset' = lastFrameset /\ number' \in Nat
        /\ \/ UNCHANGED <<owner, step, sample>>
           \/ TakenInHand
    BY <1>1, ReadIs DEF ReadEffect
  <2>2. CASE UNCHANGED <<owner, step, sample>>
    BY <2>1, <2>2 DEF InHand
  <2>3. CASE TakenInHand
    <3>1. ASSUME owner' = "video"
          PROVE  sample'.number > lastFrameset' /\ sample'.number <= number'
      <4>1. sample'.number > number /\ sample'.number = number'
        BY <2>3, <3>1 DEF TakenInHand
      <4>2. number' > number
        BY <4>1
      <4>3. number' > lastFrameset
        BY <1>0, <2>1, <4>2
      <4>. QED BY <2>1, <4>1, <4>3
    <3>. QED BY <2>3, <3>1 DEF InHand, TakenInHand
  <2>. QED BY <2>1, <2>2, <2>3
<1>2. CASE CountStereo \/ CountMotion
  <2>1. /\ UNCHANGED <<normalizer, number>>
        /\ \/ step' = "deliver" /\ UNCHANGED <<owner, sample>>
           \/ owner' = "none"
    BY <1>2 DEF CountStereo, CountMotion, HandOver, Leave, device
  <2>. QED BY <1>0, <2>1 DEF InHand
<1>3. CASE Deliver \/ CallbackThrows
  <2>1. owner' = "none"
    BY <1>3 DEF Deliver, CallbackThrows, Leave
  <2>. QED BY <2>1 DEF InHand
<1>4. CASE Open
  <2>1. owner = "none" /\ owner' = owner
    BY <1>4 DEF Open, handler, IInv, Places
  <2>. QED BY <2>1 DEF InHand
<1>5. CASE Publish
  <2>1. owner' = "none"
    BY <1>5 DEF Publish, handler
  <2>. QED BY <2>1 DEF InHand
<1>6. CASE \/ OpenFails \/ StartPipeline \/ StartPipelineFails \/ Activate \/ StopRequest
          \/ StopPipeline \/ StopReturn \/ DeviceRemoved \/ HotplugFails
          \/ (\E thread \in Threads : Arrive(thread)) \/ UNCHANGED vars
  <2>1. UNCHANGED <<owner, step, sample, normalizer, lastFrameset, number>>
    BY <1>6 DEF OpenFails, StartPipeline, StartPipelineFails, Activate, StopRequest, StopPipeline,
                StopReturn, DeviceRemoved, HotplugFails, Arrive, vars, counts, handler, device
  <2>. QED BY <1>0, <2>1 DEF InHand
<1>. QED
  BY <1>1, <1>2, <1>3, <1>4, <1>5, <1>6, Cases

-----------------------------------------------------------------------------
(* The time line. *)

LEMMA NothingDelivered ==
  ASSUME NEW n PROVE Bounds(<<>>, n) /\ Increasing(<<>>)
<1>1. Len(<<>>) = 0 /\ 1..0 = {}
  BY EmptySeq
<1>. QED BY <1>1 DEF Bounds, Increasing

\* The measurement in hand comes next.
LEMMA LineGrows ==
  ASSUME NEW d \in Seq(Delivered), NEW n \in Normalizers, NEW g \in Delivered,
         Bounds(d, n), Increasing(d), Older(d, g), n.origin # None,
         g.domain = n.domain, g.seconds = g.raw - n.origin, g.raw = n.last[Key(g.stream)]
  PROVE  Bounds(Append(d, g), n) /\ Increasing(Append(d, g))
<1>. DEFINE e == Append(d, g)
<1>1. /\ Len(d) \in Nat /\ Len(e) = Len(d) + 1 /\ e[Len(d) + 1] = g
      /\ \A i \in 1..Len(d) : e[i] = d[i]
  BY AppendProperties, LenProperties
<1>2. \A i \in 1..Len(e) : i = Len(d) + 1 \/ i \in 1..Len(d)
  BY <1>1
<1>3. g.raw <= n.last[Key(g.stream)]
  <2>1. g.raw \in Int
    BY NoneOutside DEF Delivered
  <2>. QED BY <2>1
<1>4. Bounds(e, n)
  <2>. HIDE DEF e
  <2>1. ASSUME NEW i \in 1..Len(e)
        PROVE  /\ n.origin # None /\ e[i].domain = n.domain
               /\ e[i].seconds = e[i].raw - n.origin
               /\ e[i].raw <= n.last[Key(e[i].stream)]
    <3>1. CASE i = Len(d) + 1
      BY <1>1, <1>3, <3>1
    <3>2. CASE i \in 1..Len(d)
      BY <1>1, <3>2 DEF Bounds
    <3>. QED BY <1>2, <3>1, <3>2
  <2>. QED BY <2>1 DEF Bounds
<1>5. Increasing(e)
  <2>. HIDE DEF e
  <2>1. ASSUME NEW i \in 1..Len(e), NEW j \in 1..Len(e), i < j, e[i].stream = e[j].stream
        PROVE  e[i].raw < e[j].raw
    <3>1. i \in 1..Len(d)
      BY <1>1, <2>1
    <3>2. CASE j = Len(d) + 1
      BY <1>1, <2>1, <3>1, <3>2 DEF Older
    <3>3. CASE j \in 1..Len(d)
      BY <1>1, <2>1, <3>1, <3>3 DEF Increasing
    <3>. QED BY <1>2, <3>2, <3>3
  <2>. QED BY <2>1 DEF Increasing
<1>. QED BY <1>4, <1>5

LEMMA LineKept ==
  ASSUME IInv, [Next]_vars PROVE Line'
<1>0. Line /\ normalizer \in Normalizers /\ delivered \in Seq(Delivered)
  BY DEF IInv, Types
<1>1. CASE Read
  <2>1. /\ owner = "none" /\ delivered' = delivered
        /\ normalizer' \in Normalizers /\ Later(normalizer, normalizer')
        /\ \/ UNCHANGED <<owner, step, sample>>
           \/ TakenInHand
    BY <1>1, ReadIs DEF ReadEffect
  <2>2. Bounds(delivered, normalizer') /\ Rooted(normalizer')
    BY <1>0, <2>1, BoundsLater DEF Line, Later
  <2>3. owner' # "none" => Older(delivered, sample')
    <3>1. CASE TakenInHand
      <4>1. /\ sample'.stream \in Motions \cup {"stereo"} /\ sample'.raw \in Raw
            /\ normalizer.last[Key(sample'.stream)] < sample'.raw
        BY <3>1 DEF TakenInHand, Measurement
      <4>. QED BY <1>0, <4>1, AcceptedIsNewer DEF Line
    <3>. QED BY <2>1, <3>1
  <2>. QED BY <1>0, <2>1, <2>2, <2>3 DEF Line
<1>2. CASE CountStereo \/ CountMotion
  <2>1. /\ UNCHANGED <<normalizer, delivered>>
        /\ UNCHANGED sample \/ owner' = "none"
        /\ owner # "none"
    BY <1>2, ThreadsAre DEF CountStereo, CountMotion, HandOver, Leave, history
  <2>. QED BY <1>0, <2>1 DEF Line
<1>3. CASE Deliver \/ CallbackThrows
  <2>1. /\ step = "deliver" /\ owner' = "none" /\ normalizer' = normalizer
        /\ delivered' = Append(delivered, Given)
    BY <1>3 DEF Deliver, CallbackThrows, Leave
  <2>2. owner # "none" /\ sample \in Measurement
    BY <2>1 DEF IInv, Types
  <2>3. Given \in Delivered
    BY <2>2 DEF Given, Delivered, Measurement
  <2>4. /\ normalizer.origin # None /\ sample.domain = normalizer.domain
        /\ sample.seconds = sample.raw - normalizer.origin
        /\ sample.raw = normalizer.last[Key(sample.stream)]
    BY <2>2 DEF IInv, InHand
  <2>5. /\ Given.stream = sample.stream /\ Given.raw = sample.raw
        /\ Given.seconds = sample.seconds /\ Given.domain = sample.domain
    BY DEF Given
  <2>6. Older(delivered, Given)
    BY <1>0, <2>2, <2>5 DEF Line, Older
  <2>7. Bounds(delivered', normalizer) /\ Increasing(delivered')
    <3>. HIDE DEF Given
    <3>. QED BY <1>0, <2>1, <2>3, <2>4, <2>5, <2>6, LineGrows DEF Line
  <2>. QED BY <1>0, <2>1, <2>7 DEF Line
<1>4. CASE Open \/ Publish
  <2>1. delivered' = <<>> /\ normalizer' = Fresh
    BY <1>4 DEF Open, Publish, IInv, Places
  <2>2. owner' = "none"
    BY <1>4 DEF Open, Publish, handler, IInv, Places
  <2>. QED BY <2>1, <2>2, FreshIs, NothingDelivered DEF Line
<1>5. CASE \/ OpenFails \/ StartPipeline \/ StartPipelineFails \/ Activate \/ StopRequest
          \/ StopPipeline \/ StopReturn \/ DeviceRemoved \/ HotplugFails
          \/ (\E thread \in Threads : Arrive(thread)) \/ UNCHANGED vars
  <2>1. UNCHANGED <<owner, sample, normalizer, delivered>>
    BY <1>5 DEF OpenFails, StartPipeline, StartPipelineFails, Activate, StopRequest, StopPipeline,
                StopReturn, DeviceRemoved, HotplugFails, Arrive, vars, handler, history
  <2>. QED BY <1>0, <2>1 DEF Line
<1>. QED
  BY <1>1, <1>2, <1>3, <1>4, <1>5, Cases

-----------------------------------------------------------------------------
(* The statistics. *)

LEMMA DeliveriesAreNatural ==
  ASSUME delivered \in Seq(Delivered), NEW s PROVE Deliveries(s) \in Nat
<1>. DEFINE those == {i \in 1..Len(delivered) : delivered[i].stream = s}
<1>1. Len(delivered) \in Nat
  BY LenProperties
<1>2. IsFiniteSet(1..Len(delivered)) /\ those \subseteq 1..Len(delivered)
  BY <1>1, FS_Interval
<1>3. Cardinality(those) \in Nat
  <2>. HIDE DEF those
  <2>. QED BY <1>2, FS_Subset, FS_CardinalityType
<1>. QED BY <1>3 DEF Deliveries

LEMMA CountAppended ==
  ASSUME delivered \in Seq(Delivered), NEW g \in Delivered, delivered' = Append(delivered, g),
         NEW s
  PROVE  /\ Deliveries(s) \in Nat
         /\ Deliveries(s)' = Deliveries(s) + IF g.stream = s THEN 1 ELSE 0
<1>. DEFINE n == Len(delivered)
            old == {i \in 1..n : delivered[i].stream = s}
            new == {i \in 1..Len(delivered') : delivered'[i].stream = s}
<1>1. /\ n \in Nat /\ Len(delivered') = n + 1 /\ delivered'[n + 1] = g
      /\ \A i \in 1..n : delivered'[i] = delivered[i]
  BY AppendProperties, LenProperties
<1>2. IsFiniteSet(old)
  <2>1. IsFiniteSet(1..n)
    BY <1>1, FS_Interval
  <2>. QED BY <2>1, FS_Subset
<1>3. Cardinality(old) \in Nat
  BY <1>2, FS_CardinalityType
<1>4. Deliveries(s) = Cardinality(old) /\ Deliveries(s)' = Cardinality(new)
  BY DEF Deliveries
<1>5. n + 1 \notin old
  BY <1>1
<1>6. CASE g.stream = s
  <2>1. new = old \cup {n + 1}
    BY <1>1, <1>6
  <2>2. Cardinality(old \cup {n + 1}) = Cardinality(old) + 1
    <3>. HIDE DEF old
    <3>. QED BY <1>2, <1>5, FS_AddElement
  <2>. QED BY <1>3, <1>4, <1>6, <2>1, <2>2
<1>7. CASE g.stream # s
  <2>1. new = old
    <3>1. \A i \in 1..n + 1 : i = n + 1 \/ i \in 1..n
      BY <1>1
    <3>2. \A i \in 1..n : i \in 1..n + 1
      BY <1>1
    <3>. QED BY <1>1, <1>7, <3>1, <3>2
  <2>2. Cardinality(old) = Cardinality(old) + 0
    BY <1>3
  <2>. QED BY <1>3, <1>4, <1>7, <2>1, <2>2
<1>. QED BY <1>6, <1>7

LEMMA NoneCounted ==
  ASSUME NEW s, delivered' = <<>> PROVE Deliveries(s)' = 0
<1>1. {i \in 1..Len(delivered') : delivered'[i].stream = s} = {}
  <2>1. Len(<<>>) = 0 /\ 1..0 = {}
    BY EmptySeq
  <2>. QED BY <2>1
<1>. QED BY <1>1, FS_EmptySet DEF Deliveries

LEMMA TallyKept ==
  ASSUME IInv, [Next]_vars PROVE Tally'
<1>0. /\ Tally /\ number \in Nat /\ lastFrameset \in Nat /\ firstFrameset \in Nat
      /\ stats \in Statistics /\ delivered \in Seq(Delivered)
  BY DEF IInv, Types
<1>1. CASE Read
  <2>1. /\ owner = "none" /\ UNCHANGED <<callbacks, lastFrameset, firstFrameset, delivered>>
        /\ number' \in Nat /\ number <= number'
        /\ \A k \in {"framesets", "pairs", "gyro", "accelerometer", "dropped"} :
             stats'[k] = stats[k]
        /\ UNCHANGED <<owner, step, sample>> \/ step' = "count"
    BY <1>1, ReadIs DEF ReadEffect, TakenInHand
  <2>2. step # "deliver" /\ step' # "deliver"
    BY <2>1 DEF IInv, Types
  <2>3. lastFrameset <= number'
    BY <1>0, <2>1 DEF Tally
  <2>4. UNCHANGED <<stats.framesets, stats.pairs, stats.gyro, stats.accelerometer, stats.dropped>>
    BY <2>1
  <2>5. \A s : Underway(s)' = Underway(s) /\ Deliveries(s)' = Deliveries(s)
    BY <2>1, <2>2 DEF Underway, Deliveries
  <2>. QED BY <1>0, <2>1, <2>3, <2>4, <2>5 DEF Tally
<1>2. CASE CountStereo
  <2>1. /\ owner = "video" /\ step = "count" /\ UNCHANGED <<callbacks, delivered, number>>
        /\ lastFrameset' = sample.number
        /\ firstFrameset' = IF firstFrameset = 0 THEN sample.number ELSE firstFrameset
        /\ sample' = sample \/ step' = "none"
    BY <1>2 DEF CountStereo, HandOver, Leave, control, device
  <2>2. /\ sample \in Measurement /\ sample.stream = "stereo"
        /\ sample.number > lastFrameset /\ sample.number <= number
    BY <2>1 DEF IInv, InHand, Types
  <2>3. sample.number \in Nat /\ Missed \in Nat
    BY <2>1, <2>2, MissedIs DEF Measurement, IInv
  <2>4. \A s \in Motions : Underway(s)' = 0 /\ Underway(s) = 0
    BY <2>1, <2>2 DEF Underway, Motions
  <2>5. \A s : Deliveries(s)' = Deliveries(s)
    BY <2>1 DEF Deliveries
  <2>6. /\ stats'.framesets = stats.framesets + 1 /\ stats'.dropped = stats.dropped + Missed
        /\ UNCHANGED <<stats.pairs, stats.gyro, stats.accelerometer>>
    BY <1>0, <1>2 DEF CountStereo, Statistics
  <2>7. lastFrameset' <= number' /\ (lastFrameset' = 0 <=> firstFrameset' = 0)
    BY <1>0, <2>1, <2>2, <2>3 DEF Tally
  <2>8. ASSUME callbacks = "app"
        PROVE  2 * stats'.framesets + stats'.dropped =
                 IF firstFrameset' = 0 THEN 0 ELSE 2 * (lastFrameset' - firstFrameset' + 1)
    <3>1. stats.framesets \in Nat /\ stats.dropped \in Nat
      BY <1>0 DEF Statistics
    <3>2. 2 * stats.framesets + stats.dropped =
            IF firstFrameset = 0 THEN 0 ELSE 2 * (lastFrameset - firstFrameset + 1)
      BY <1>0, <2>8 DEF Tally
    <3>3. CASE firstFrameset = 0
      <4>1. lastFrameset = 0 /\ Missed = 0
        BY <1>0, <2>1, <3>3, MissedIs DEF Tally, IInv
      <4>2. /\ stats.framesets = 0 /\ stats.dropped = 0
            /\ stats'.framesets = 1 /\ stats'.dropped = 0
        BY <2>6, <3>1, <3>2, <3>3, <4>1
      <4>3. firstFrameset' = sample.number /\ lastFrameset' = sample.number
        BY <2>1, <3>3
      <4>4. sample.number # 0
        BY <2>2, <2>3, <4>1
      <4>. QED BY <2>3, <4>2, <4>3, <4>4
    <3>4. CASE firstFrameset # 0
      <4>1. Missed = 2 * (sample.number - lastFrameset - 1)
        BY <1>0, <2>1, <2>2, <3>4, MissedIs DEF Tally, IInv
      <4>2. firstFrameset' = firstFrameset /\ lastFrameset' = sample.number
        BY <2>1, <3>4
      <4>3. 2 * (stats.framesets + 1) + (stats.dropped + Missed)
              = 2 * (lastFrameset - firstFrameset + 1) + 2 + Missed
        <5>. DEFINE f == stats.framesets
                    d == stats.dropped
                    m == Missed
        <5>1. /\ f \in Nat /\ d \in Nat /\ m \in Nat
              /\ 2 * f + d = 2 * (lastFrameset - firstFrameset + 1)
          BY <2>3, <3>1, <3>2, <3>4
        <5>. HIDE DEF f, d, m
        <5>2. 2 * (f + 1) + (d + m) = 2 * (lastFrameset - firstFrameset + 1) + 2 + m
          BY <1>0, <5>1
        <5>. QED BY <5>2 DEF f, d, m
      <4>4. 2 * (lastFrameset - firstFrameset + 1) + 2 + 2 * (sample.number - lastFrameset - 1)
              = 2 * (sample.number - firstFrameset + 1)
        BY <1>0, <2>3
      <4>. QED BY <2>6, <3>4, <4>1, <4>2, <4>3, <4>4
    <3>. QED BY <3>3, <3>4
  <2>. QED BY <1>0, <2>1, <2>4, <2>5, <2>6, <2>7, <2>8 DEF Tally, Motions
<1>3. CASE CountMotion
  <2>1. /\ owner = "motion" /\ step = "count"
        /\ UNCHANGED <<callbacks, delivered, number, lastFrameset, firstFrameset>>
        /\ stats' = [stats EXCEPT ![sample.stream] = @ + 1]
    BY <1>3 DEF CountMotion, control, device, history
  <2>2. sample.stream \in Motions /\ sample.paired
    BY <2>1 DEF IInv, InHand
  <2>3. ASSUME callbacks = "app" PROVE step' = "deliver" /\ sample' = sample
    BY <1>3, <2>2, <2>3 DEF CountMotion, HandOver
  <2>4. \A s : Deliveries(s)' = Deliveries(s)
    BY <2>1 DEF Deliveries
  <2>5. UNCHANGED <<stats.framesets, stats.pairs, stats.dropped>>
    BY <1>0, <2>1, <2>2 DEF Statistics, Motions
  <2>6. /\ stats'.gyro = stats.gyro + IF sample.stream = "gyro" THEN 1 ELSE 0
        /\ stats'.accelerometer =
             stats.accelerometer + IF sample.stream = "accelerometer" THEN 1 ELSE 0
    BY <1>0, <2>1, <2>2 DEF Statistics, Motions
  <2>7. ASSUME callbacks = "app", NEW s
        PROVE  Underway(s) = 0 /\ Underway(s)' = IF sample.stream = s THEN 1 ELSE 0
    BY <2>1, <2>3, <2>7 DEF Underway
  <2>8. ASSUME callbacks = "app", NEW s PROVE Deliveries(s) \in Int
    BY <1>0, DeliveriesAreNatural
  <2>9. ASSUME callbacks = "app"
        PROVE  /\ stats'.gyro = Deliveries("gyro")' + Underway("gyro")'
               /\ stats'.accelerometer = Deliveries("accelerometer")' + Underway("accelerometer")'
    <3>1. /\ stats.gyro = Deliveries("gyro") + 0
          /\ stats.accelerometer = Deliveries("accelerometer") + 0
      BY <1>0, <2>7, <2>9 DEF Tally
    <3>2. Deliveries("gyro") \in Int /\ Deliveries("accelerometer") \in Int
      BY <2>8, <2>9
    <3>. QED BY <2>4, <2>6, <2>7, <2>9, <3>1, <3>2
  <2>. QED BY <1>0, <2>1, <2>4, <2>5, <2>9 DEF Tally
<1>4. CASE Deliver \/ CallbackThrows
  <2>1. /\ step = "deliver" /\ step' = "none" /\ delivered' = Append(delivered, Given)
        /\ UNCHANGED <<callbacks, number, lastFrameset, firstFrameset>>
        /\ stats' = Delivering \/ stats' = [Delivering EXCEPT !.errors = @ + 1]
    BY <1>4 DEF Deliver, CallbackThrows, Leave, Caught, control, device
  <2>2. owner \in Threads /\ sample \in Measurement
    BY <2>1 DEF IInv, Types
  <2>3. Given \in Delivered /\ Given.stream = sample.stream
    BY <2>2 DEF Given, Delivered, Measurement
  <2>4. owner = "video" <=> sample.stream = "stereo"
    BY <2>2 DEF IInv, InHand, Threads, Motions
  <2>5. /\ UNCHANGED <<stats.framesets, stats.gyro, stats.accelerometer, stats.dropped>>
        /\ stats'.pairs = stats.pairs + IF owner = "video" THEN 1 ELSE 0
    BY <1>0, <2>1 DEF Delivering, Statistics
  <2>6. \A s : /\ Deliveries(s) \in Nat
               /\ Deliveries(s)' = Deliveries(s) + IF sample.stream = s THEN 1 ELSE 0
    <3>. HIDE DEF Given
    <3>. QED BY <1>0, <2>1, <2>3, CountAppended
  <2>7. \A s : Underway(s)' = 0 /\ Underway(s) = IF sample.stream = s THEN 1 ELSE 0
    BY <2>1 DEF Underway
  <2>8. ASSUME callbacks = "app"
        PROVE  /\ stats'.pairs = Deliveries("stereo")'
               /\ stats'.gyro = Deliveries("gyro")' + Underway("gyro")'
               /\ stats'.accelerometer = Deliveries("accelerometer")' + Underway("accelerometer")'
    <3>1. /\ stats.pairs = Deliveries("stereo")
          /\ stats.gyro = Deliveries("gyro") + Underway("gyro")
          /\ stats.accelerometer = Deliveries("accelerometer") + Underway("accelerometer")
      BY <1>0, <2>8 DEF Tally
    <3>. QED BY <2>4, <2>5, <2>6, <2>7, <3>1
  <2>. QED BY <1>0, <2>1, <2>5, <2>8 DEF Tally
<1>5. CASE Open \/ Publish
  <2>1. /\ stats' = ZeroStats /\ lastFrameset' = 0 /\ firstFrameset' = 0 /\ number' \in Nat
        /\ delivered' = <<>> /\ owner' = owner /\ step' = step
    <3>1. CASE Open
      BY <3>1 DEF Open, handler
    <3>2. CASE Publish
      <4>1. delivered = <<>>
        BY <3>2 DEF Publish, IInv, Places
      <4>. QED BY <1>0, <3>2, <4>1 DEF Publish, handler, device
    <3>. QED BY <1>5, <3>1, <3>2
  <2>2. step' # "deliver"
    BY <1>5, <2>1 DEF Open, Publish, IInv, Places, Types
  <2>3. \A s : Underway(s)' = 0 /\ Deliveries(s)' = 0
    BY <2>1, <2>2, NoneCounted DEF Underway
  <2>. QED BY <2>1, <2>3 DEF Tally, ZeroStats
<1>6. CASE OpenFails
  <2>1. UNCHANGED <<stats, lastFrameset, firstFrameset, number, step, sample, delivered>>
    BY <1>6 DEF OpenFails, counts, handler, device, history
  <2>2. callbacks' = "app" => callbacks = "app"
    BY <1>6 DEF OpenFails
  <2>3. \A s : Underway(s)' = Underway(s) /\ Deliveries(s)' = Deliveries(s)
    BY <2>1 DEF Underway, Deliveries
  <2>. QED BY <1>0, <2>1, <2>2, <2>3 DEF Tally
<1>7. CASE \/ StartPipeline \/ StartPipelineFails \/ Activate \/ StopRequest
          \/ StopPipeline \/ StopReturn \/ DeviceRemoved \/ HotplugFails
          \/ (\E thread \in Threads : Arrive(thread)) \/ UNCHANGED vars
  <2>1. UNCHANGED <<callbacks, lastFrameset, firstFrameset, number, step, sample, delivered>>
    BY <1>7 DEF StartPipeline, StartPipelineFails, Activate, StopRequest, StopPipeline,
                StopReturn, DeviceRemoved, HotplugFails, Arrive, vars, control, counts, handler,
                device, history
  <2>2. stats' = stats \/ stats' = [stats EXCEPT !.errors = @ + 1]
    BY <1>7 DEF StartPipeline, StartPipelineFails, Activate, StopRequest, StopPipeline,
                StopReturn, DeviceRemoved, HotplugFails, Arrive, vars, counts
  <2>3. UNCHANGED <<stats.framesets, stats.pairs, stats.gyro, stats.accelerometer, stats.dropped>>
    BY <1>0, <2>2 DEF Statistics
  <2>4. \A s : Underway(s)' = Underway(s) /\ Deliveries(s)' = Deliveries(s)
    BY <2>1 DEF Underway, Deliveries
  <2>. QED BY <1>0, <2>1, <2>3, <2>4 DEF Tally
<1>. QED
  BY <1>1, <1>2, <1>3, <1>4, <1>5, <1>6, <1>7, Cases

-----------------------------------------------------------------------------
(* Failures. *)

LEMMA NoticedKept ==
  ASSUME IInv, [Next]_vars PROVE NothingUnnoticed'
<1>0. NothingUnnoticed /\ hotplug \in BOOLEAN /\ troubled \in BOOLEAN
  BY DEF IInv, Types
<1>1. CASE Read
  <2>1. /\ UNCHANGED <<disconnected, hotplug>>
        /\ \/ failure' = failure /\ troubled' = troubled
           \/ failure' = "frame" /\ troubled' = TRUE
    BY <1>1, ReadIs DEF ReadEffect
  <2>2. CASE failure' = failure /\ troubled' = troubled
    BY <1>0, <2>1, <2>2 DEF NothingUnnoticed
  <2>3. CASE failure' = "frame" /\ troubled' = TRUE
    BY <2>3 DEF NothingUnnoticed
  <2>. QED BY <2>1, <2>2, <2>3
<1>2. CASE CallbackThrows
  BY <1>0, <1>2 DEF CallbackThrows, Caught, NothingUnnoticed
<1>3. CASE Open
  BY <1>3 DEF Open, NothingUnnoticed
<1>4. CASE StopReturn
  BY <1>0, <1>4 DEF StopReturn, NothingUnnoticed, history
<1>5. CASE DeviceRemoved
  BY <1>0, <1>5 DEF DeviceRemoved, NothingUnnoticed
<1>6. CASE HotplugFails
  BY <1>0, <1>6 DEF HotplugFails, NothingUnnoticed
<1>7. CASE \/ OpenFails \/ StartPipeline \/ StartPipelineFails \/ Activate \/ Publish
          \/ StopRequest \/ StopPipeline \/ CountStereo \/ CountMotion \/ Deliver
          \/ (\E thread \in Threads : Arrive(thread)) \/ UNCHANGED vars
  <2>1. UNCHANGED <<failure, disconnected, hotplug, troubled>>
    BY <1>7 DEF OpenFails, StartPipeline, StartPipelineFails, Activate, Publish, StopRequest,
                StopPipeline, CountStereo, CountMotion, Deliver, Arrive, vars, control, history
  <2>. QED BY <1>0, <2>1 DEF NothingUnnoticed
<1>. QED
  BY <1>1, <1>2, <1>3, <1>4, <1>5, <1>6, <1>7, Cases

-----------------------------------------------------------------------------
(* Theorems. *)

LEMMA InitIInv == Init => IInv
<1>. SUFFICES ASSUME Init PROVE IInv
  OBVIOUS
<1>1. Types
  <2>1. <<>> \in Seq(Delivered)
    BY EmptySeq
  <2>2. stats \in Statistics /\ normalizer \in Normalizers
    BY ZeroStatsAre, FreshIs DEF Init
  <2>. QED BY <2>1, <2>2 DEF Init, Types
<1>2. Places /\ InHand /\ NothingUnnoticed
  BY DEF Init, Places, InHand, NothingUnnoticed
<1>3. Line
  <2>1. delivered = <<>> /\ normalizer = Fresh /\ owner = "none"
    BY DEF Init
  <2>2. Bounds(<<>>, Fresh) /\ Increasing(<<>>) /\ Rooted(Fresh)
    BY NothingDelivered, FreshIs
  <2>3. Bounds(delivered, normalizer) /\ Increasing(delivered) /\ Rooted(normalizer)
    BY <2>1, <2>2
  <2>. QED BY <2>1, <2>3 DEF Line
<1>4. Tally
  <2>1. lastFrameset = 0 /\ firstFrameset = 0 /\ number = 0 /\ callbacks = "none"
    BY DEF Init
  <2>. QED BY <2>1 DEF Tally
<1>. QED BY <1>1, <1>2, <1>3, <1>4 DEF IInv

LEMMA IInvKept == IInv /\ [Next]_vars => IInv'
BY TypesKept, PlacesKept, InHandKept, LineKept, TallyKept, NoticedKept DEF IInv

LEMMA AlwaysIInv == Spec => []IInv
BY InitIInv, IInvKept, PTL DEF Spec

\* The members keep their types, the source is active exactly between Activate
\* and StopRequest, and callback_mutex is held exactly while a measurement is in
\* hand.
THEOREM SourceTypeCorrect == Spec => []TypeOK
<1>1. IInv => TypeOK
  <2>. SUFFICES ASSUME IInv PROVE TypeOK
    OBVIOUS
  <2>1. DOMAIN stats = DOMAIN ZeroStats /\ \A k \in DOMAIN stats : stats[k] \in Nat
    BY StatisticsAre DEF IInv, Statistics, ZeroStats
  <2>2. /\ normalizer.origin \in Raw \cup {None} /\ normalizer.domain \in Domains \cup {""}
        /\ normalizer.last \in [Streams -> Raw \cup {None}]
    BY DEF IInv, Types, Normalizers
  <2>. QED BY <2>1, <2>2 DEF IInv, Types, TypeOK
<1>. QED BY <1>1, AlwaysIInv, PTL

\* One session's measurements lie on one time line, whatever frame was being
\* handled when the epoch began.
THEOREM OneTimelineHolds == Spec => []OneTimeline
<1>1. IInv => OneTimeline
  <2>. SUFFICES ASSUME IInv, NEW i \in 1..Len(delivered), NEW j \in 1..Len(delivered)
       PROVE  /\ delivered[i].domain = delivered[j].domain
              /\ delivered[i].seconds - delivered[j].seconds
                   = delivered[i].raw - delivered[j].raw
              /\ i < j /\ delivered[i].stream = delivered[j].stream
                   => delivered[i].raw < delivered[j].raw
    BY DEF OneTimeline
  <2>1. delivered[i] \in Delivered /\ delivered[j] \in Delivered
    BY ElementOfSeq DEF IInv, Types
  <2>2. delivered[i].raw \in Int /\ delivered[j].raw \in Int
    BY <2>1, NoneOutside DEF Delivered
  <2>3. normalizer.origin \in Int
    <3>1. normalizer.origin \in Raw \cup {None}
      BY DEF IInv, Types, Normalizers
    <3>. QED BY <3>1, NoneOutside
  <2>4. /\ delivered[i].domain = normalizer.domain /\ delivered[j].domain = normalizer.domain
        /\ delivered[i].seconds = delivered[i].raw - normalizer.origin
        /\ delivered[j].seconds = delivered[j].raw - normalizer.origin
    BY DEF IInv, Line, Bounds
  <2>5. delivered[i].seconds - delivered[j].seconds = delivered[i].raw - delivered[j].raw
    BY <2>2, <2>3, <2>4
  <2>. QED BY <2>4, <2>5 DEF IInv, Line, Increasing
<1>. QED BY <1>1, AlwaysIInv, PTL

\* From the moment start() returns the statistics are those of what was
\* delivered, and every frameset the device numbered is counted once.
THEOREM StatisticsAreOfTheEpoch == Spec => []StatisticsOfTheEpoch
<1>1. IInv => StatisticsOfTheEpoch
  <2>. SUFFICES ASSUME IInv PROVE StatisticsOfTheEpoch
    OBVIOUS
  <2>1. ASSUME callbacks = "app", owner = "none"
        PROVE  /\ stats.pairs = Deliveries("stereo")
               /\ \A stream \in Motions : stats[stream] = Deliveries(stream)
    <3>1. step # "deliver"
      BY <2>1 DEF IInv, Types
    <3>2. \A s : Underway(s) = 0
      BY <3>1 DEF Underway
    <3>3. ASSUME NEW s PROVE Deliveries(s) + 0 = Deliveries(s)
      <4>1. Deliveries(s) \in Nat
        BY DeliveriesAreNatural DEF IInv, Types
      <4>. QED BY <4>1
    <3>. QED BY <2>1, <3>2, <3>3 DEF IInv, Tally, Motions
  <2>. QED BY <2>1 DEF IInv, Tally, StatisticsOfTheEpoch
<1>. QED BY <1>1, AlwaysIInv, PTL

\* Whatever went wrong while the source was active is known to the application
\* until the next start().
THEOREM NothingGoesUnnoticed == Spec => []NothingUnnoticed
<1>1. IInv => NothingUnnoticed
  BY DEF IInv
<1>. QED BY <1>1, AlwaysIInv, PTL
=============================================================================
