# D435i-OpenVINS: formal models, checks and proofs

TLA+ models of the programs in this repository: a capture source for the Intel RealSense
D435i, the components that order and synchronise its measurements, and the applications
that record them, replay them, or feed them live to the OpenVINS estimator. TLC checks the
models on small instances; TLAPS proves the main safety properties for all values of the
constants. Source files are named here by their base names.

`PROJECT.json` is the machine-readable side of this document: components, runs, hazards,
findings, theorems, and for every definition the lines of code it stands for (`map`), with full paths.

## 1. The system

### Components

| Component | State it keeps | Operations | What makes it correct | Model |
|---|---|---|---|---|
| Ordered dispatcher (`measurement_dispatcher.cpp`) | two bounded queues, newest accepted times, statistics, `running_`, `stopping_`, failure, one worker thread, one mutex, one condition variable | `start`, `push_imu`, `push_stereo`, `stop`, worker (`run`, `dispatch_ready_locked`) | each frame reaches the estimator after the first IMU sample at or after it; nothing is lost uncounted; no missed wake-up; `stop()` returns | `MeasurementDispatcher`, `BracketedDelivery` |
| IMU synchronizer (`imu_synchronizer.cpp`) | three bounded buffers, newest times, counters, `stopped_` | `add_accelerometer`, `add_gyroscope`, `take_ready`, `shutdown` | acceleration is interpolated between neighbours; output ordered; independent of how the two callbacks interleave | `ImuSynchronizer` |
| Capture source (`realsense_source.cpp`) | SDK pipeline, `active`, flags, failure text, callbacks, statistics, frameset number, `callback_mutex`, `mutex` | `start`, `stop`, `handle_frame`, `handle_devices_changed` | a clean capture epoch; one time line; statistics of that epoch; no failure lost; no deadlock | `RealSenseSource` |
| Stereo pairing, timestamp normaliser | origin, domain, newest raw time per stream | `pair`, `normalize`, `reset` | as part of the source | `RealSenseSource` (partly) |
| Run writer (`trajectory.cpp`) | directory, four streams, `have_state_`, `output_open_`, `finalized_` | `open`, `write_state`, `write_diagnostics`, `log`, `close`, `finalize` | a run without the `INCOMPLETE` marker is complete | `RunWriter` |
| Recorder (`ovrs_record.cpp`), `bounded_queue.hpp` | three queues between callbacks and main thread, files, interrupted flag | drain loop, stop, final drain, decision, marker | a dataset that looks complete is whole | `Recorder` |
| Replay (`ovrs_replay.cpp`), OpenVINS adapter | IMU rows and an index into them, newest frame, counters | load, read row, pace, feed, judge, finish | feeds the estimator as the live dispatcher does; an early end is never called complete | `Replay` |
| Tracking-health gate (`tracking_health.cpp`) | status, newest time, three durations | `update` | the status is what the samples since the last gap deserve | `TrackingHealthGate`, inside `Replay` |
| Live application (`ovrs_live.cpp`) | progress of the main thread, stop flag | start, watch, stop source, synchronizer and dispatcher, decide | a finalised run processed everything; the verdict is on final numbers | `LivePipeline`, on `MeasurementDispatcher` |
| Live viewer, trajectory view (`live_viewer.cpp`, `trajectory_view.cpp`) | newest frame and state, bounded trajectory, origin, path length; windows, view frame, camera, drag | `publish_stereo`, `publish_state`, `open`, `poll`, `close`, mouse and keys | a picture is of one moment of what was published; it moves only when somebody moves it | `LiveViewer` |
| Calibration validation (`calibration_validation.cpp`, `yaml_utils.hpp`) | none; reads three documents of the operator | `validate_*`, `read_estimator_dependency`, `copy_config_dependency` | an estimate is made with a calibration of this device as it is set | `CalibrationDocuments`, used by `Admission` |
| Configuration (`config.cpp`), application support | the stream configuration; stop flag | defaults, file, command line, bounds, printing; signal handlers, `write_text`, `wait_until_or_stop` | the printed document says what was captured | `StreamConfiguration`; the rest in the applications (partly) |
| Inspection tool (`ovrs_inspect.cpp`) | none | select device and profiles, test the factory lens model, export | the readers refuse of what it exports nothing but unsound numbers | `Admission` (partly) |
| Capture modes, capture preview | constant table; a window | `capture_plan`; drawing | - | `Recorder`, `Admission` (partly) |
| Scripts | none kept | numerical checks, installation | - | not modelled |

### How they interact

```
 RealSense SDK --handle_frame (video thread, motion thread)--> RealSenseSource
   live:   stereo callback ------------------------------> MeasurementDispatcher.push_stereo
           motion callback --mutex--> ImuSynchronizer ---> MeasurementDispatcher.push_imu
           worker thread --handlers--> OpenVINS adapter, TrackingHealthGate, RunWriter
           main thread: starts, polls failure()/running()/stop flag, stops, decides
   record: callbacks --> three BoundedQueues --> main thread --> ImuSynchronizer --> files
   replay: files --> main thread --> OpenVINS adapter, TrackingHealthGate, RunWriter
   viewer: dispatcher and capture thread --publish, mutex--> LiveViewer <--poll, input-- main thread
   before any of them: documents, command line, dataset, device --validators--> go on or refuse
```

The hard behaviours are concurrency (SDK threads, worker and main thread around three
mutexes and a condition variable), the worker giving up its mutex in the middle of an image,
start-up with frames already flowing, the order of stops, bounded queues that evict, rows
and texts that fail to reach the disk, processes that die between two changes of a
directory, a picture drawn from a copy while its data go on changing, and four tools that
have to agree on whether documents, device and recording belong together without sharing
more than files. `PROJECT.json` lists each place as a hazard with the property that covers it, or
the reason why none does.

## 2. Modules

| Module | Role |
|---|---|
| `MeasurementDispatcher` | the dispatcher with all its threads; `FairSpec` adds scheduling; `KeepsPromise` instantiates the abstract specification |
| `BracketedDelivery` | abstract specification: what the estimator is promised, without threads, mutexes or capacities |
| `ImuSynchronizer` | all operations, `process()` cut at its loop iterations |
| `RealSenseSource` | source with normaliser, two SDK threads, hotplug thread, application thread |
| `RunWriter` | run directories written by processes that die |
| `Recorder` | main thread of the recorder with callbacks, signals, faults and crashes |
| `TrackingHealthGate` | the gate's state, `Update`, and what the evidence deserves |
| `Replay` | extends `TrackingHealthGate` with the replay's main thread |
| `LivePipeline` | extends `MeasurementDispatcher` with callbacks and the live main thread |
| `CalibrationDocuments` | the documents and the validators, as predicates over them |
| `StreamConfiguration` | the stream configuration from its three sources, and the document it is printed to |
| `Admission` | extends `StreamConfiguration` with the four tools, the device, the operator, and what each tool asks before it goes on |
| `LiveViewer` | the viewer with publishers, main thread, mouse and keyboard |
| `MC*` | instances for TLC: values of the constants, symmetry |
| `MeasurementDispatcherProofs` | the dispatcher, its promise, and the live application on top of it |
| `ReplayProofs` | the tracking-health gate, the loop around it, and the promise |
| `ImuSynchronizerProofs`, `RealSenseSourceProofs`, `RunWriterProofs`, `RecorderProofs`, `AdmissionProofs`, `LiveViewerProofs` | the module each is named after |

### Correspondence with the code

*MeasurementDispatcher.* Variables are the class's members under their own names. A push,
`start()` or `stop()` is one critical section and one action. The worker is cut where it
takes or gives up the mutex: `pc` is its place, `LockedPcs` are the places inside. A worker
that is blocked goes back to `wakeup` when notified, and may also wake by itself. Handlers
run without the mutex (`feedScan`, `feedBracket`, `feedStereo`, `feedDrain`) and return or
throw. `trace` is what the handlers have been given; `acceptedImu`, `acceptedStereo` and
`lost` are histories for accounting.

*BracketedDelivery.* Samples and frames are accepted in order. An IMU sample is delivered
when the oldest frame needs it or the session has ended; a frame once samples on both sides
were delivered and no older sample waits; a frame is given up when no sample precedes it or
the session ends. Once a frame has been lost to a newer one the session is no longer
`lossless`, and of a frame only this remains promised: order, and at most one sample at or
after it before it. The refinement maps `running_ && !stopping_` to `open`, the queues to the
pending sequences, `dropped_stereo == 0` to `lossless` and `trace` to `delivered`. The
replay is held to the same specification, without losses: the samples it has loaded and not
yet fed are the pending ones, and the session is over for a frame that the dataset has no
sample after (`OutOfSamples`). A session may therefore begin open or closed.

*ImuSynchronizer.* A sample is its timestamp, a combined sample also remembers the two
accelerations around it. `Skip`, `Miss`, `Emit` and `Return` are the four ways through an
iteration of `process()`. Other operations wait for it, as both applications serialise the
calls. Lines 89-91 and 93-97 test conditions that cannot occur; `BracketsAreNeighbours`
covers why.

*RealSenseSource.* `handle_frame` is `Arrive` (wants `callback_mutex`), `Read` (takes it and
reads the frame under `mutex`), `CountStereo` or `CountMotion`, `Deliver` or
`CallbackThrows`. `start()` is `Open`, `StartPipeline`, `Activate`, `Publish`, with their
failures; `Publish` needs `callback_mutex`. `stop()` is `StopRequest`, `StopPipeline` (waits
for callbacks), `StopReturn`. Both images of a frameset carry one timestamp, seconds are
raw units since the origin, and the outcome of the pairing is free.

*RunWriter.* Of each file the model keeps whether the directory holds exactly the rows whose
caller was told they were written. A write can fail at once or leave rows in the buffer; a
flush moves the buffer to the disk or fails. `open()` and `finalize()` are cut where another
entry of the directory changes. `Crash` loses the buffers and starts a new process. The
death of the process is modelled, not the loss of power: what was given to the system stays.

*Recorder.* One action per turn of a loop: `Check`, `PopImu`, `TakeReady`, `PopStereo`,
`Preview`; then `StopSource`, the same stages for the last drain, `CloseFiles`, `Decide`,
`WriteFinalTexts`, `RemoveMarker`. Queues are lengths, faults the set of what counters and
streams have recorded. `capture_plan` is `Enabled` and `WritesSynchronized`. `Texts` is
`write_text`: a text can become unreadable with success reported. The optional preview
before the capture writes nothing and is left out.

*TrackingHealthGate.* `update()` on whole-number times. `evidence` keeps the accepted
samples, and `Deserves` says from them alone what the status must be.

*Replay.* `LoadImu`, `ReadRow` (with the skip of leading frames), `Pace`, `FeedImu`,
`FeedStereo`, `JudgeState`, `StateFails`, `NoState`, `Poll`, `Finish`. A row is its time and
whether it is acceptable otherwise; the dataset is whatever rows turn up. The estimator is
external: its state after a frame carries the frame's time.

*LivePipeline.* The dispatcher's variables and steps are those of `MeasurementDispatcher`.
The main thread's place is `main`. Of source and synchronizer there remains what they hand
over (times that advance, shown in their modules) and the kinds of trouble their counters
show. `source.stop()` is one step, after the last callback, as its own module shows.

*CalibrationDocuments.* A document is what the readers of `yaml_utils.hpp` see in a text: for
each key, the scalars of the lines that carry it. A validator is the predicate it returns;
its refusals keep their conditions and lose their wording. Numbers are whole, each key in a
unit of its own. The units of a matrix (`MatrixUnit` of them to 1.0) are finer than the code's
tolerance `MatrixTolerance`, so that a rotation can be off by less or by more than is forgiven;
coefficients, scale factors and time offsets are equal or further apart than their tolerance.

*StreamConfiguration.* Defaults, overridden by a file, overridden by the command line, with
`validate` after each (`Accepts`, `Applied`), and `StreamDocument`, what `stream_config_yaml`
prints beside a capture. Kept are the fields that some other component compares.

*Admission.* One action per step of a tool at which files or device are read anew:
`LiveValidate`, `LiveConfigure`, `LiveLoad`, `LiveArchive`, `LiveStart`, `LiveCheck`,
`RecordStart`, `ReplayValidate`, `ReplayLoad`, `ReplayArchive`, `Inspect`. `Save`, `Adopt` and
`Replug` are the operator's, between any two of them. The source's choice of device,
profiles and options with their read-back is `SourceStarts` and `After`; `Report` is
`build_report` with its six printed digits. `FactoryCalibration` is what `write_camera` and
`write_transform` print: every number goes through a stream of default precision, which leaves
six digits (`PrintedList`, `PrintedMatrix`), and nothing is assumed of the numbers the factory
stored. A copy into the run directory may fail (`Archive`). What follows a successful admission belongs to
the other modules.

*LiveViewer.* `PublishStereo` and `PublishState` are critical sections. `poll` is `Copy`
(under the mutex), `Draw`, any number of mouse events inside `waitKey`, `Return`. OpenCV may
throw anywhere in `Draw`, before or after the view is fitted, whatever is drawn. Space and
screen have one dimension, a length beyond `MaxFinite` stands for one that overflows, and
the zoom is counted so that pixels stay whole.

Definitions commented "Faulty" are variants a bug could produce. No specification
uses them; they show that each property is violated when the code is wrong in that way.

## 3. What the runs check

`tlc -workers 2 -config <cfg> <module>` in this directory repeats a run.

| Run | Configuration | Instance | States |
|---|---|---|---|
| dispatcher | `MCMeasurementDispatcher.cfg` | times 1..5, capacities 2 and 2, one refused push | 230,168 |
| dispatcher_overflow | `MCMeasurementDispatcherOverflow.cfg` | times 1..3, capacities 2 and 1 | violated |
| imu_synchronizer | `MCImuSynchronizer.cfg` | times 1..5, capacity 3, one refused sample | 79,304 |
| capture_source | `MCRealSenseSource.cfg` | raw times 0..1, two domains, three frames, gaps of one | 472,553 |
| capture_epoch | `MCRealSenseSourceEpoch.cfg` | raw times 0..1, two domains, two frames | violated |
| run_writer | `MCRunWriter.cfg` | two directories (symmetric) | 36,481 |
| recorder | `MCRecorder.cfg` | four modes, capacities 1, two faults | 418,744 |
| recorder_texts | `MCRecorderTexts.cfg` | capacities 1, one fault | violated |
| replay | `MCReplay.cfg` | times 1..5; gap 1, degrade 2, recover 2, warm-up 3 | 259,664 |
| live | `MCLivePipeline.cfg` | times 1..3, capacities 2, one kind of trouble | 111,458 |
| admission | `MCAdmission.cfg` | 64 sets of documents, 19 sets of devices, 14 command lines, two sessions, one change | 182,260 |
| viewer | `MCLiveViewer.cfg` | positions 0, 2, 5; finite up to 4; two points kept, three states, two mouse events | 2,142,549 |

*dispatcher.* `TypeOK`, `Conservation` (every accepted element is queued, counted or in a
handler's hands), `FrontAlwaysThere` (the worker never takes the front of an empty queue
after giving up the mutex), `NoLostWakeup`, `CleanExit`; `KeepsPromise`, the refinement of
`BracketedDelivery`, which makes exceptions only for what overflows have dropped; and
`StopReturns` and `ReadyFramesLeave`. Five instants are enough for both queues to overflow
while the worker is in a handler and for two frames to be in play afterwards; a third slot in
a queue adds length but no new relation between its front, its back and the worker's locals.

*dispatcher_overflow.* `DeliveredFramesCovered` is what `docs/timestamps.md:90-95` says
without a condition. It fails: see Findings.

*imu_synchronizer.* `BracketsAreNeighbours`, `AccountedFor`,
`OutcomeIndependentOfArrival`, `ProcessReturns`. Capacity 3 is one more than an
interpolation needs, so that all three buffers trim in the middle of a search; behaviours
without any drop, of which `AccountedFor` and `OutcomeIndependentOfArrival` speak, exist as
well.

*capture_source.* `OneTimeline`, `StatisticsOfTheEpoch` (with the framesets received and
dropped against the device's numbering), `NothingUnnoticed` and `CallsReturn`, with both SDK
threads and hotplug events in every interleaving of start-up, capture and stop. Three frames
let one be in hand across the start of the epoch, one follow it and one wait for the lock;
with two instants a stream can advance, repeat and regress.

*capture_epoch.* `CleanEpoch`, the comment at `realsense_source.cpp:367-371`. It fails: see
Findings.

*run_writer.* `MarkerProtects` (a directory without its marker is complete) and
`CompletedRunsStay`. Two directories tell the run being written from an earlier one.

*recorder.* `CompleteIsWhole`, `MarkerKept`, `DrainEnds`. Capacity 1 makes every queue drop;
two faults let a second one come after the first has been noticed.

*recorder_texts.* `WriteFailureKeepsMarker`, `docs/operator_runbook.md:990`. It fails: see
Findings.

*replay.* `FedAsLive` (the loop feeds what the live dispatcher would), `KeepsPromise` (every
run of the replay is a session of `BracketedDelivery`, which the live dispatcher implements
too), `UsesWhatItCan` (a complete run has seen every frame it could, and only the tail of a
dataset makes it fail), `StatusIsDeserved`, `StopIsObeyed`. Every dataset over five instants. A gap of one step is the
longest that is judged, any two steps of one kind decide, three without a decision end the
warm-up, and five instants leave room for a decision, its reversal, and a gap.

*live.* `FinalizedIsWhole`, `DecisionIsFinal`, `RunEnds`. Three instants let frames be
bracketed, come before the first sample and after the last one; two of three fit a queue, so
that both overflow. Refused pushes are excluded (`MaxRejected` 0), because the times handed
over advance.

*admission.* `EstimatesAsCalibrated`: an estimate that goes on is made with a calibration of
this very device, as it is set, and the run directory holds that calibration, unless the
files were saved meanwhile. `SameVerdict`: replay accepts the documents `ovrs_live` would have
accepted with the recorded device and streams. `ExportIsAdmissible`: the validators refuse what
the inspection exports exactly where the rotations, the baseline or the principal points are
not sound as printed; identity, keys and lens models are never the reason. Histories start from documents that
are sound or have one defect each (one for nearly every condition the validators refuse on)
and from devices that lack, ignore or preset an option, or whose factory numbers are unsound:
a fifth coefficient, cameras in one place, a transform that is not finite, and two that become
unsound by printing alone (a principal point just inside the image that is rounded out of it,
and a transform that is rigid within the tolerance until its digits are cut). TLC's integers
have 32 bits, so the instance scales the last case down: 1000 units to 1.0, a tolerance of 10
units and two printed digits (`MatrixDigits`) stand for six digits and `1e-6`; the shape of the
comparison, a tolerance as fine as the last digit printed, is kept, and the theorem holds for
every unit, tolerance and number of digits. Two sessions are a recording and its
replay, or a session that leaves options set and the next; one change of files or devices
falls between any two steps.

*viewer.* `ShowsOneMoment`: state, origin, path length and track on the screen are of one
moment, even when the first pose has left the bounded trajectory. `ViewStaysPut`: an untouched
picture keeps its view, a fit keeps the direction, and the world point under the pointer stays
there through a drag or a zoom, at its limits too. Three states against two points make the
oldest leave; 0 to 5 and 2 twice apart are the two ways a length overflows; two mouse events
are a press and a move, or two turns of the wheel that reach a limit.

Bounds named in the models: `MaxRejected`, `MaxFrames`, `MaxGap`, `MaxFaults`,
`MaxTroubles`, `MaxSessions`, `MaxEdits`, `MaxPublish`, `MaxInputs`; sets of times are finite in
the instances only. Deadlock is checked except in `imu_synchronizer`, `recorder`,
`recorder_texts`, `replay`, `live`, `admission` and `viewer`, where the system really comes to an
end: the synchronizer is shut down, the viewer closed, or the program has returned.

### Fairness

| Specification | Assumed | Why the code justifies it |
|---|---|---|
| dispatcher | weak fairness of the worker and of the join in `stop()` | threads that can run are scheduled; handlers return or throw. Producers owe nothing |
| synchronizer | weak fairness of `process()` | a function that was called runs on |
| source | weak fairness of `HandleFrame`, `Stop`, `StartPipeline`, `Activate`; strong fairness of `Publish` | `Publish` waits for `callback_mutex`, which becomes free again and again between two frames; frames in a session are bounded |
| recorder, replay | weak fairness of the main thread | signals, callbacks and faults owe nothing |
| live | weak fairness of the main thread and of the worker | as above |
| admission, viewer | none | operator, publishers and input owe nothing; no liveness is claimed |

## 4. What is proved

Every theorem holds for all constants that satisfy the assumptions named in the modules:
times are natural numbers (`TimeAssumption`), queues hold at least one element
(`CapacityAssumption`: `config.cpp` admits no other), bounds are natural numbers
(`RejectedAssumption`, `BoundAssumption`, `MaxFaultsAssumption`, `TroublesAssumption`), and
`NoDirectory` is no directory (`NoDirectoryAssumption`). Raw timestamps are natural numbers and
the empty name is no timestamp domain (`FrameAssumption`); the viewer keeps at least two
points, positions are whole numbers, and the mouse stands where pixels divide (`ViewerAssumption`);
the units of pixels and matrices are positive (`UnitsAssumption`). `tlapm <module>` repeats a proof.

Admission assumes the most, all of it about what is outside the programs
(`AdmissionAssumption`, `MarksAssumption`): a directory and its documents have the shape the
readers see (`IsFiles`; nothing is assumed of what they say), no two devices carry one serial,
requests name one of the four modes, an absent value is no number and no word that means something,
and a D435i reports five distortion coefficients and four intrinsics per lens and does not do what
it says it does not support (`IsDevice`). Of the numbers themselves nothing is assumed: transforms
need not be rigid, nor cameras apart, nor principal points inside an image.

*Dispatcher* (`MeasurementDispatcherProofs`): `TypeCorrect`, `FrontIsThere`,
`WorkerNeverOversleeps`, `NothingIsLostUncounted`, `CleanExitIsClean`. The invariant has
three parts: `Base` (types), `Lifecycle` (what the worker's place says about the flags, the
client and the queues) and `Conservation`. `CleanExit` does not hold inductively by
itself: that nothing is left behind follows from the worker having left its loop with empty
queues and no push being accepted since, which `Lifecycle` says; the numbers follow from
`Conservation`.

*Promise* (same module, second part): `CoverageKept` and `PromiseKept`. `OrderInv`
relates queues and locals to `trace`: both queues are sorted and newer than what was
delivered, and `lastDispatched` is the newest sample delivered. Its heart is `InImage`, which says
what remains true of `imageTime`, read once, while the mutex is given up around IMU
handlers: it is still the time of the front as long as no frame was dropped, `hasBefore`
says whether a sample at or before it was delivered, and once its bracket is complete no
sample up to it waits.
`PromiseKept` is the refinement itself: initial states map to initial states, and every step
maps to a step of `BracketedDelivery` or a stutter, in sessions with dropped frames as well
as in those without.

*Synchronizer* (`ImuSynchronizerProofs`): `TypeCorrect`, `InterpolationIsSound`,
`OutputIsOrdered`, `NothingIsLostUncounted`, `ArrivalOrderIsIrrelevant`. `Ordered` says that
each buffer is the newest end of its stream and sorted. For the last theorem `Decided`
adds, while nothing was dropped: what was emitted comes from the stream (`FromStream`), no
spanned sample is forgotten (`NoneForgotten`), after a skip the oldest acceleration kept
still precedes every waiting sample (`SkippedOlder`), and `process()` stops only when it has caught up
(`CaughtUp`).

*Run writer* (`RunWriterProofs`): `TypeCorrect`, `MarkerCorrect`, `CompleteIsFinal`.
`OpenRun` is the strengthening: as long as no stream has failed, the open run's files are
undamaged; a failed stream stays failed, so that `finalize()` will see it. `Halfway` covers
the states in which a crash finds `open()` or `finalize()` half done.

*Recorder* (`RecorderProofs`): `TypeCorrect`, `CompleteIsComplete`, `MarkerIsKept`. `Drained`
says that the last drain leaves its stages empty behind it, since no callback comes any
more; `Counted` that what is lost was counted; `Passed` that the decision saw no fault;
`Marked` that the marker is there until all of that was checked.

*Live application* (`MeasurementDispatcherProofs`, third part): `LiveRunsTheDispatcher` shows that the pipeline
implements the dispatcher's specification, so all of the above holds in it. On that rest
`LiveTypeCorrect`, `TheDecisionIsFinal` and `FinalizedRunsAreWhole`. The last needs
`KeptUnlessLoss`: without a loss, samples sent are those delivered or queued, and each frame
sent was delivered, is queued, or has all samples on one side of it for good (`Bare`). The
proof takes each step of the worker as the step of `BracketedDelivery` it refines. The decision sees only counters; this is what they imply.

*Capture source* (`RealSenseSourceProofs`): `SourceTypeCorrect`, `OneTimelineHolds`,
`StatisticsAreOfTheEpoch`, `NothingGoesUnnoticed`. `Places` ties the epoch to the application's
thread: nothing has been delivered before `Publish`, and `Publish` finds nothing in hand
because it needs `callback_mutex`. `InHand` says that a measurement in hand is the newest its
normalizer accepted; `Bounds`, that the normalizer bounds all that was delivered. Reading a
frame, with its six outcomes, is one lemma (`ReadEffect`): the normalizer moves on along the
same time line (`Later`). `Tally` counts what is under way, and framesets received and
dropped against the device's numbering.

*Gate and replay* (`ReplayProofs`): `ReplayTypeCorrect`, `ReplayFeedsAsLive`,
`ReplayUsesWhatItCan`, `ReplayStatusIsDeserved`, `ReplayKeepsPromise`. The gate compares three
durations with three thresholds; `Judging` ties each duration to the run of samples it measures
(`Measured`: since the last sample of the other kind, or since the segment began), and only
then does the status follow from the samples themselves. The loop keeps an index into the
IMU rows: `Cursor` says where it stands against the frame in hand, `FedSoFar` that what was
fed is the prefix up to it, `Accounts` that every frame read was fed, skipped or is in hand,
and `Handled` that a frame done with does not wait. From these each step of the replay is a
step of `BracketedDelivery` or a stutter, although the replay has no queue: what the live
dispatcher proves of its queues and what the replay proves of its index are one promise.

*Admission* (`AdmissionProofs`): `AdmissionTypeCorrect`, `EstimatesCalibrated`,
`ExportAdmitted`, `VerdictsAgree`. `IInv` says who may hold the device (`Control`,
`Streaming`), that directory and devices keep their shape and no option that a device lacks is
ever set (`Directory`, `Plugged`), and that a recording says of itself exactly what its device
and configuration were when it began (`Recording`). `Live` and `ReplayKnows` say what the tool
has found out by the step it has reached, as long as no file was saved since: this is where
the checks of different files meet. `AdmittedFits` then shows that what the validators accept
one by one fits the device as a whole, and it is the same lemma for both tools, which is why
`VerdictsAgree` holds: replay puts to the recording the questions that `ovrs_live` puts to the
device (`SameQuestions`). `FactoryAdmissible` follows `write_camera` field by field into the
validators: printing keeps lists of numbers of the same length (`PrintedNumbers`) and a zero fifth
coefficient zero, so every condition is met but those on the numbers, which are exactly
`SoundWhenPrinted`. Two things the proof brought out: a `KALIBR_VERIFIED` camera document is not put
through the bootstrap checks, so the missing fifth coefficient is required of bootstrap
calibrations only; and a validator looks at the document its reader names, so a key repeated
in a document nobody reads it from is harmless. `Fits` says both.

*Viewer* (`LiveViewerProofs`): `ViewerTypeCorrect`, `PictureStaysPut`, `PictureIsOfOneMoment`.
`Settled` says that as
long as nobody touches anything, the picture shown is the one that would be drawn now, with no
fit pending; `OnGrid`, that the offset stays on the grid the zoom leaves, so that zooming
divides without a remainder and the point under the pointer is kept exactly. For the last
theorem, `Accounts` says that what `publish_state` keeps incrementally is what the states
accepted so far amount to (`Match`), `Taken` that a copy is of one moment of it, and
`MomentKept` that a moment stays one while others publish. The length of the way is defined
recursively and the newest points by cutting the whole history, so this needs induction along the
history: `WayAddsUp` shows that the recursion defines a function, `AddsUpAlike` that a length depends only
on the poses so far, `BoundedGoesOn` that cutting at every step is cutting once.

### Only model-checked

The violated claims (`DeliveredFramesCovered`, `CleanEpoch`, `WriteFailureKeepsMarker`), where TLC's
counterexample is the result, and every liveness property (`StopReturns`, `ReadyFramesLeave`,
`ProcessReturns`, `CallsReturn`, `DrainEnds`, `StopIsObeyed`, `RunEnds`): the prover does not
handle liveness under fairness or `ENABLED`. All invariants, action properties and refinements
that a passing run checks are theorems as well; the types of `Replay`, part of its inductive
invariant, are proved and no run repeats them.

Induction over data is available to a limited degree. The library's induction theorems take
an operator as a parameter, which no installed prover instantiates; the theorem that a
well-founded set has minimal elements takes a set, and `Induct` in `LiveViewerProofs` is
obtained from it. No module here declares a recursive operator.

## 5. Findings

1. `measurement_dispatcher.cpp:127` (run `dispatcher_overflow`). `image_time` is computed from
   the front of the queue, the mutex is given up around the IMU handlers, and the front is
   read again. If `push_stereo` evicted the frame meanwhile, the next one is delivered
   without a sample at or after it. The drop is counted and a live run then fails at its end;
   the estimator has been fed by then. `CoveredUnlessOverflow` is what does hold.
2. `realsense_source.cpp:381` (run `capture_epoch`). The reset at the start of the epoch leaves
   `failure_message` as the warm-up set it, against the comment above it: `start()` can
   return true with clean statistics and a failure.
3. `app_support.cpp:71` (run `recorder_texts`). `write_text` does not flush. A final text
   that cannot be written when the stream is destroyed is reported as written, and the
   recorder removes the marker, against `docs/operator_runbook.md:990`.

Three observations are no disagreement with any document, but worth knowing.
`realsense_source.cpp:800-803` prints the gyro scale factor with six digits while
`calibration_validation.cpp` compares it within `1e-12`, so a factor with more digits is
refused by `ovrs_live` and, equally, by replay (`SixDigits`). And `publish_state` sets
`latest_state_` before it throws on an infinite length, so the refused pose can be on the
screen once, beside the track before it; `ShowsOneMoment` says so. Last, `ovrs_inspect` can
write a calibration that `ovrs_live` and `ovrs_replay` refuse. It prints matrices and intrinsics
with six digits (`ovrs_inspect.cpp:45-56` and `125-153`) and the readers ask for rotations within
`1e-6` (`calibration_validation.cpp:568-597`): a rotation by about 7.4e-4 rad about each axis is
orthonormal in the device and has a determinant of about 1 - 1.36e-6 in the file. And
`read_intrinsics` (98-123) does not ask whether the principal point lies inside the image. The
refusal is loud and comes before any estimate; no document of the repository says that every
export is accepted, and `ExportIsAdmissible` says precisely which is not.

## 6. What is not modelled

- Numbers: interpolated values, clock conversion in floating point, track counts beyond
  the comparison with their minimum, statistics that nobody decides by. The code compares
  and subtracts times, and the models do so with whole numbers.
- The scripts: numerical validation of a calibration outside the programs, and installation.
- Reals: matrices are whole numbers of small units, with the code's tolerance in those units;
  rounding inside the floating-point arithmetic of the validators, and numbers closer together
  than the tolerance in the other keys, are left out.
- Signals to the recorder after its loop has ended: the stop flag is read once
  (`ovrs_record.cpp:457`), before the source is stopped, and nothing looks at it again, so
  `Interrupt` ends with the capture and `MarkerKept` speaks of stops asked for until then.
- Painting: grid, axes, labels, colours, resizing, the second dimension of screen and the
  other two of space, the capture preview's window.
- The printed listing of the inspection, the syntax of command lines, logging options, and
  configuration fields that nothing compares.
- `wait_pop`, `close` and `size` of the bounded queue, which no program calls.
- A complete run of `ovrs_live` across all components in one model: each module hands the next
  what its own properties establish (times that advance, callbacks that end before `stop()`
  returns), since the product is out of TLC's reach.
- Non-finite timestamps at the dispatcher and queues of capacity 0: refused without effect,
  and excluded by the configuration.

## 7. Plan

Done, in this order: dispatcher and its promise (the behaviour on which the estimator
depends), synchronizer, capture source, run writer, recorder, gate and replay, live
application, the documents and what every tool asks of them, the viewer; proofs of every
safety property of these, in the same order.

Next:

1. An abstract run directory (nothing, in progress, complete, never back) that both
   `RunWriter` and `Recorder` implement, with the refinement proved for any number of directories.
2. `BracketedDelivery` proved about by itself: what its sessions imply (`FedAsLive` in
   particular) would then hold of dispatcher and replay at once.
3. The live pipeline with the actual synchronizer instead of what it hands over, so that a
   finalised run is one that fed every gyroscope sample the accelerations span.
4. A recorder feeding a replay: `CompleteIsWhole` on one side, `UsesWhatItCan` on the other,
   and the frames after the last synchronized sample (`docs/dataset.md:73-79`).

New properties should replace weaker ones rather than lengthen the runs.
