----------------------------- MODULE Admission ------------------------------
(***************************************************************************)
(* What has to fit before an estimate is made.  An operator keeps a main   *)
(* configuration with the two calibrations it names and plugs in a device; *)
(* ovrs_live estimates from the device, ovrs_record captures it,           *)
(* ovrs_replay estimates from the capture and ovrs_inspect exports what    *)
(* the factory knows of the device.  The tools run one at a time and share *)
(* nothing but the files and the device, so each has to find out by itself *)
(* whether documents, device and capture belong together, and each reads   *)
(* the documents several times: validation, the resolution check, the      *)
(* estimator, the copies in the run directory and the check of the running *)
(* device open the files anew, while the operator may save a file between  *)
(* any two of these steps.                                                 *)
(*                                                                         *)
(* The reads of one step count as one.  Command-line syntax, viewer and    *)
(* logging options, and what happens between admission and the end of a    *)
(* session (the other modules' subject) are left out.                      *)
(***************************************************************************)
EXTENDS StreamConfiguration, FiniteSets, FiniteSetsExt, SequencesExt

CONSTANTS
  Situations,   \* where a history may begin: [files, plugged] records
  Editions,     \* what the operator may save later: [main, at] records
  Rigs,         \* the sequences of devices that may be plugged in later
  Requests,     \* command lines: [allow, mode, file, cli] records
  MatrixDigits, \* 10^n where the numbers of a matrix are printed with n digits
  MaxSessions,  \* bound: tools started
  MaxEdits      \* bound: times the operator changes files or devices

\* The shape of a directory with its documents.
IsFiles(f) ==
  /\ f = [main |-> f.main, at |-> f.at]
  /\ IsDocument(f.main)
  /\ \A path \in DOMAIN f.at :
       LET entry == f.at[path] IN
       /\ entry = [inside |-> entry.inside, regular |-> entry.regular, text |-> entry.text]
       /\ IsDocument(entry.text)

\* What librealsense stands for: a lens has five coefficients, four intrinsics
\* and a transform to the gyroscope, three rows of numbers or Malformed where one
\* is not finite; what a device does not support it does not do.  What the factory
\* has stored is not vouched for: neither that a transform is rigid nor that a
\* principal point is inside an image.
IsDevice(d) ==
  /\ d.serial \notin {Missing, Malformed}
  /\ "motion_correction" \notin d.supports
       => "motion_correction" \notin d.obeys /\ d.options.motion_correction = FALSE
  /\ d.d435i =>
       \A i \in 1 .. 2 :
         LET lens == d.cameras[i] IN
         /\ lens.coefficients \in Seq(Int) /\ Len(lens.coefficients) = 5
         /\ lens.intrinsics \in Seq(Int) /\ Len(lens.intrinsics) = 4

IsRig(rig) ==
  /\ Len(rig) \in Nat /\ rig = [i \in 1 .. Len(rig) |-> rig[i]]
  /\ \A i \in 1 .. Len(rig) : IsDevice(rig[i])
  /\ \A i, j \in 1 .. Len(rig) : rig[i].serial = rig[j].serial => i = j

Modes == {"vio", "imu-allan", "stereo-calibration", "imu-camera-calibration"}

ASSUME AdmissionAssumption ==
  /\ MaxSessions \in Nat /\ MaxEdits \in Nat /\ MatrixDigits \in Nat \ {0}
  /\ \A s \in Situations : IsFiles(s.files) /\ IsRig(s.plugged)
  /\ \A f \in Editions : IsFiles(f)
  /\ \A rig \in Rigs : IsRig(rig)
  /\ \A r \in Requests : r.mode \in Modes

VARIABLES
  files,      \* [main, at]: the main configuration, and its directory
  plugged,    \* the devices, in the order librealsense enumerates them
  options,    \* by serial: the options as the device has them
  tool,       \* the program that runs, "none" between sessions
  step,       \* what it does next
  held,       \* what it has read: [request, main, config, report]
  streaming,  \* whether the device streams
  estimator,  \* the documents the estimator was made from
  run,        \* the run directory: [mark, documents]
  dataset,    \* the last recording: [mark, format, report, stream, origin]
  export,     \* the calibration ovrs_inspect wrote, or Missing
  edited,     \* the files were saved since the session began
  sessions, edits

vars == << files, plugged, options, tool, step, held, streaming, estimator,
           run, dataset, export, edited, sessions, edits >>

outside == << files, plugged, edits >>

-----------------------------------------------------------------------------
(* The device and the source that opens it (realsense_source.cpp). *)

OptionNames == {"gyro_sensitivity", "global_time", "motion_correction"}

\* The first D435i, or the first one with the serial asked for.
Candidates(config) ==
  {i \in DOMAIN plugged :
     plugged[i].d435i /\ config.serial \in {Missing, plugged[i].serial}}

Device(config) == plugged[Min(Candidates(config))]

\* Both infrared profiles in the size asked for, both motion rates.
HasProfiles(device, config, plan) ==
  /\ plan.stereo => << config.width, config.height >> \in device.sizes
  /\ plan.motion => config.gyro_fps \in device.rates

Wanted(config) ==
  [gyro_sensitivity  |-> config.gyro_sensitivity,
   global_time       |-> config.global_time_enabled,
   motion_correction |-> config.motion_correction_enabled]

\* A device takes over an option it obeys; the others keep their setting.
After(device, config, plan) ==
  [o \in OptionNames |->
     IF o \in device.obeys /\ (plan.motion \/ o = "global_time")
     THEN Wanted(config)[o] ELSE options[device.serial][o]]

\* Every option is read back.  Motion correction may be absent where it is
\* not asked for.
OptionsTaken(device, config, plan) ==
  \A o \in OptionNames :
    \/ ~plan.motion /\ o # "global_time"
    \/ /\ o \in device.supports
       /\ After(device, config, plan)[o] = Wanted(config)[o]
    \/ /\ o = "motion_correction" /\ o \notin device.supports
       /\ ~config.motion_correction_enabled

SourceStarts(config, plan) ==
  /\ Candidates(config) # {}
  /\ HasProfiles(Device(config), config, plan)
  /\ OptionsTaken(Device(config), config, plan)

\* A stream of default precision prints a number with six significant digits, and
\* so in full while it has no more: below limit, in the unit it is counted in.
Decades == {1, 10, 100, 1000, 10000, 100000, 1000000, 10000000, 100000000}

Rounded(n, limit) ==
  LET size == IF n < 0 THEN -n ELSE n
      unit == 10 * Max({u \in Decades : u <= size \div limit})
      text == ((size + unit \div 2) \div unit) * unit
  IN IF size < limit THEN n ELSE IF n < 0 THEN -text ELSE text

SixDigits(n) == Rounded(n, 1000000)

Report(device, config, plan) ==
  LET scale == IF plan.motion THEN config.gyro_scale_factor ELSE ScaleUnit
      correction == /\ plan.motion
                    /\ "motion_correction" \in device.supports
                    /\ config.motion_correction_enabled
      sensitivity == IF plan.motion THEN config.gyro_sensitivity ELSE -1
  IN [serial                       |-> << device.serial >>,
      gyro_rate_hz                 |-> << IF plan.motion THEN config.gyro_fps ELSE 0 >>,
      motion_correction_active     |-> << SwitchText(correction) >>,
      global_time_active           |-> << SwitchText(config.global_time_enabled) >>,
      gyro_sensitivity_requested   |-> << sensitivity >>,
      gyro_sensitivity_available   |-> << SwitchText(plan.motion) >>,
      gyro_sensitivity_active      |-> << sensitivity >>,
      gyro_scale_factor_configured |-> << SixDigits(config.gyro_scale_factor) >>,
      gyro_scale_factor_applied    |-> << SixDigits(scale) >>]

\* The plans of capture_mode.cpp.
Plan(mode) ==
  CASE mode = "vio" ->
         [stereo |-> TRUE, motion |-> TRUE, format |-> "ovrs-euroc-like-v1"]
    [] mode = "imu-allan" ->
         [stereo |-> FALSE, motion |-> TRUE, format |-> "ovrs-calibration-capture-v1"]
    [] mode = "stereo-calibration" ->
         [stereo |-> TRUE, motion |-> FALSE, format |-> "ovrs-calibration-capture-v1"]
    [] mode = "imu-camera-calibration" ->
         [stereo |-> TRUE, motion |-> TRUE, format |-> "ovrs-calibration-capture-v1"]

Both == Plan("vio")

\* Opening the source sets the options and starts the stream.  A start that
\* fails leaves a part of the options set and nothing streaming.
OpenSource(config, plan) ==
  /\ SourceStarts(config, plan)
  /\ options' = [options EXCEPT ![Device(config).serial] =
                   After(Device(config), config, plan)]

OpenSourceFails(config, plan) ==
  /\ ~SourceStarts(config, plan)
  /\ \E changed \in {{}, {"gyro_sensitivity"}, OptionNames} :
       options' =
         IF Candidates(config) = {} THEN options
         ELSE [options EXCEPT ![Device(config).serial] =
                 [o \in OptionNames |->
                    IF o \in changed /\ HasProfiles(Device(config), config, plan)
                    THEN After(Device(config), config, plan)[o] ELSE @[o]]]

-----------------------------------------------------------------------------
(* Sessions. *)

NoDocuments == [main |-> Missing, imu |-> Missing, camera |-> Missing]

NoReading == [request |-> Missing, main |-> Missing, config |-> Missing,
              report |-> Missing]

Init ==
  /\ \E s \in Situations : files = s.files /\ plugged = s.plugged
  /\ options = [s \in {plugged[i].serial : i \in DOMAIN plugged} |->
                  (CHOOSE d \in Range(plugged) : d.serial = s).options]
  /\ tool = "none" /\ step = "idle" /\ held = NoReading
  /\ streaming = FALSE /\ estimator = NoDocuments
  /\ run = [mark |-> "none", documents |-> NoDocuments]
  /\ dataset = Missing /\ export = Missing
  /\ edited = FALSE
  /\ sessions = 0 /\ edits = 0

\* A session begins with the command line and the main configuration.  What
\* the session before left is dropped unless the new one starts from it.
Begin(name, request) ==
  /\ tool = "none" /\ sessions < MaxSessions
  /\ tool' = name /\ step' = "validate"
  /\ held' = [NoReading EXCEPT !.request = request, !.main = files.main]
  /\ estimator' = NoDocuments
  /\ run' = [mark |-> "none", documents |-> NoDocuments]
  /\ dataset' = (IF name = "replay" THEN dataset ELSE Missing)
  /\ export' = Missing
  /\ edited' = FALSE /\ sessions' = sessions + 1
  /\ UNCHANGED << outside, options, streaming >>

\* Definitions marked "Faulty" are plausible slips in the code; nothing uses
\* them but the mutation runs.

\* Faulty: a session ends without stopping the source.
EndStreaming ==
  /\ tool' = "none" /\ step' = "idle" /\ held' = NoReading
  /\ UNCHANGED << outside, streaming, dataset, export, edited, sessions >>

\* The session ends; the destructors stop the source and leave the marks.
End ==
  /\ tool' = "none" /\ step' = "idle" /\ held' = NoReading
  /\ streaming' = FALSE
  /\ UNCHANGED << outside, dataset, export, edited, sessions >>

Refuse ==
  End /\ UNCHANGED << options, estimator, run >>

Proceed(next) ==
  /\ step' = next
  /\ UNCHANGED << outside, tool, dataset, export, edited, sessions >>

Calibrated == Scalar(held.main, "calibrated_serial")

\* What both estimating tools demand of the documents alone.
DocumentsAdmitted(at, main, allow) ==
  EstimatorConfigurationValid(at, main) /\ StateAllows(main, allow)

\* The file is laid over the defaults (a document without keys stands for no
\* file), the command line over the result; a tool may pin the serial in between.
Configured(request, pin) ==
  LET file == Applied("file", request.file, Defaults)
  IN Applied("cli", request.cli,
             IF pin = Missing THEN file ELSE [file EXCEPT !.serial = pin])

ConfigurationAccepted(request, pin) ==
  /\ Accepts("file", request.file, Defaults)
  /\ Applies("cli", request.cli)
  /\ ConfigurationValid(Configured(request, pin))

\* What the checks of a running capture demand.
CaptureAdmitted(at, main, report, stream) ==
  /\ Scalar(report, "serial") = Scalar(main, "calibrated_serial")
  /\ ImuRateMatches(at, main, report)
  /\ SensorPolicyMatches(at, main, report, stream, MaxScale)

-----------------------------------------------------------------------------
(* ovrs_live. *)

BeginLive ==
  \E r \in Requests :
    Begin("live", [allow |-> r.allow, file |-> r.file, cli |-> r.cli])

\* --serial and the calibration name the same device.
LiveValidates ==
  /\ DocumentsAdmitted(files.at, held.main, held.request.allow)
  /\ Scalar(held.request.cli, "serial") \in {Missing, Calibrated}

LiveValidate ==
  /\ tool = "live" /\ step = "validate"
  /\ \/ /\ LiveValidates
        /\ Proceed("configure")
        /\ UNCHANGED << options, held, streaming, estimator, run >>
     \/ ~LiveValidates /\ Refuse

LiveConfigures ==
  LET config == Configured(held.request, Calibrated) IN
  /\ ConfigurationAccepted(held.request, Calibrated)
  /\ ResolutionMatches(files.at, held.main, config.width, config.height)

LiveConfigure ==
  /\ tool = "live" /\ step = "configure"
  /\ \/ /\ LiveConfigures
        /\ held' = [held EXCEPT !.config = Configured(held.request, Calibrated)]
        /\ Proceed("load")
        /\ UNCHANGED << options, streaming, estimator, run >>
     \/ ~LiveConfigures /\ Refuse

\* The documents as they are on disk now.
Present(main) ==
  [main |-> files.main, imu |-> ImuOf(files.at, main),
   camera |-> CameraOf(files.at, main)]

\* OpenVINS reads the files by itself, from the main one on; then the run
\* directory is opened with its INCOMPLETE mark.  Either may fail.
Load(next) ==
  /\ step = "load"
  /\ \/ /\ estimator' = Present(files.main)
        /\ run' = [run EXCEPT !.mark = "INCOMPLETE"]
        /\ Proceed(next)
        /\ UNCHANGED << options, held, streaming >>
     \/ Refuse

\* Each calibration is copied from where the main text of the validation leads;
\* a copy may fail.
Copied == Present(held.main)

Archive(next) ==
  /\ step = "archive"
  /\ \/ /\ Missing \notin {Copied.imu, Copied.camera}
        /\ run' = [run EXCEPT !.documents = Copied]
        /\ Proceed(next)
        /\ UNCHANGED << options, held, streaming, estimator >>
     \/ Refuse

LiveLoad == tool = "live" /\ Load("archive")

LiveArchive == tool = "live" /\ Archive("start")

LiveStart ==
  /\ tool = "live" /\ step = "start"
  /\ \/ /\ OpenSource(held.config, Both)
        /\ streaming' = TRUE
        /\ held' = [held EXCEPT !.report =
                      Report(Device(held.config), held.config, Both)]
        /\ Proceed("check")
        /\ UNCHANGED << estimator, run >>
     \/ /\ OpenSourceFails(held.config, Both)
        /\ End /\ UNCHANGED << estimator, run >>

\* From here on the estimator is fed; the device is judged only now.
LiveChecks ==
  CaptureAdmitted(files.at, held.main, held.report, StreamDocument(held.config))

LiveCheck ==
  /\ tool = "live" /\ step = "check"
  /\ \/ /\ LiveChecks
        /\ Proceed("run")
        /\ UNCHANGED << options, held, streaming, estimator, run >>
     \/ ~LiveChecks /\ Refuse

\* A run that ends well loses its mark, one that fails keeps it.
FinishRun ==
  /\ tool \in {"live", "replay"} /\ step = "run"
  /\ \E mark \in {"complete", "INCOMPLETE"} : run' = [run EXCEPT !.mark = mark]
  /\ End /\ UNCHANGED << options, estimator >>

-----------------------------------------------------------------------------
(* ovrs_record: no calibration is asked for, the capture says what it is. *)

BeginRecord ==
  \E r \in Requests :
    Begin("record", [mode |-> r.mode, file |-> r.file, cli |-> r.cli])

RecordStart ==
  /\ tool = "record" /\ step = "validate"
  /\ LET config == Configured(held.request, Missing)
         plan == Plan(held.request.mode)
     IN \/ /\ ConfigurationAccepted(held.request, Missing)
           /\ OpenSource(config, plan)
           /\ LET device == Device(config) IN
              dataset' =
                [mark |-> "INCOMPLETE", format |-> plan.format,
                 report |-> Report(device, config, plan),
                 stream |-> StreamDocument([config EXCEPT !.serial = device.serial]),
                 origin |-> [device |-> device, config |-> config,
                             options |-> After(device, config, plan)]]
           /\ streaming' = TRUE /\ step' = "run"
           /\ UNCHANGED << outside, tool, held, estimator, run, export,
                           edited, sessions >>
        \/ /\ ConfigurationAccepted(held.request, Missing)
           /\ OpenSourceFails(config, plan)
           /\ End /\ UNCHANGED << estimator, run >>
        \/ ~ConfigurationAccepted(held.request, Missing) /\ Refuse

RecordFinish ==
  /\ tool = "record" /\ step = "run"
  /\ \E mark \in {"complete", "INCOMPLETE"} :
       dataset' = [dataset EXCEPT !.mark = mark]
  /\ tool' = "none" /\ step' = "idle" /\ held' = NoReading
  /\ streaming' = FALSE
  /\ UNCHANGED << outside, options, estimator, run, export, edited, sessions >>

-----------------------------------------------------------------------------
(* ovrs_replay. *)

BeginReplay ==
  dataset # Missing /\ \E r \in Requests : Begin("replay", [allow |-> r.allow])

Replayable(d) == d.mark = "complete" /\ d.format = "ovrs-euroc-like-v1"

Recorded(stream) == Applied("file", stream, Defaults)

\* Faulty: the sensor policy of the recording is not asked for.
ReplayOverlooksPolicy ==
  /\ DocumentsAdmitted(files.at, held.main, held.request.allow)
  /\ Replayable(dataset)
  /\ Scalar(dataset.report, "serial") = Calibrated
  /\ ImuRateMatches(files.at, held.main, dataset.report)
  /\ Accepts("file", dataset.stream, Defaults)
  /\ ResolutionMatches(files.at, held.main, Recorded(dataset.stream).width,
                       Recorded(dataset.stream).height)

ReplayValidates ==
  /\ DocumentsAdmitted(files.at, held.main, held.request.allow)
  /\ Replayable(dataset)
  /\ CaptureAdmitted(files.at, held.main, dataset.report, dataset.stream)
  /\ Scalar(dataset.stream, "stereo_tolerance_ms") # Missing
  /\ Accepts("file", dataset.stream, Defaults)
  /\ Recorded(dataset.stream).serial = Scalar(dataset.report, "serial")
  /\ ResolutionMatches(files.at, held.main, Recorded(dataset.stream).width,
                       Recorded(dataset.stream).height)

ReplayValidate ==
  /\ tool = "replay" /\ step = "validate"
  /\ \/ /\ ReplayValidates
        /\ Proceed("load")
        /\ UNCHANGED << options, held, streaming, estimator, run >>
     \/ ~ReplayValidates /\ Refuse

ReplayLoad == tool = "replay" /\ Load("archive")

ReplayArchive == tool = "replay" /\ Archive("run")

-----------------------------------------------------------------------------
(* ovrs_inspect. *)

BeginInspect ==
  \E r \in Requests : Begin("inspect", [file |-> r.file, cli |-> r.cli])

\* Intrinsics without positive focal lengths count as unavailable.
ProfilesComplete(device) ==
  \A i \in 1 .. 2 :
    device.cameras[i].intrinsics[1] > 0 /\ device.cameras[i].intrinsics[2] > 0

\* Faulty: the fifth coefficient is cut off unseen.
FactoryModelNamed(camera) ==
  /\ camera.model \in {"Brown Conrady", "None"}
  /\ camera.model = "None" => camera.coefficients = << 0, 0, 0, 0, 0 >>

FactoryModelCompatible(camera) ==
  /\ camera.model \in {"Brown Conrady", "None"}
  /\ camera.coefficients[5] = 0
  /\ camera.model = "None" => camera.coefficients = << 0, 0, 0, 0, 0 >>

PrintedList(list) == [k \in 1 .. Len(list) |-> SixDigits(list[k])]

\* The fourth row is a literal.
PrintedMatrix(T) ==
  IF T = Malformed THEN Malformed
  ELSE [row \in 1 .. 4 |->
          IF row = 4 THEN << 0, 0, 0, MatrixUnit >>
          ELSE [column \in 1 .. 4 |-> Rounded(T[row][column], MatrixDigits)]]

CameraSection(lens, config) ==
  [T_imu_cam         |-> PrintedMatrix(lens.transform),
   camera_model      |-> "pinhole",
   realsense_distortion_model  |-> lens.model,
   realsense_distortion_coeffs |-> PrintedList(lens.coefficients),
   distortion_model  |-> "radtan",
   distortion_coeffs |-> SubSeq(PrintedList(lens.coefficients), 1, 4),
   intrinsics        |-> PrintedList(lens.intrinsics),
   resolution        |-> << config.width, config.height >>,
   timeshift_cam_imu |-> 0]

\* The factory sections: identity, T_gyro_accel and one section per camera.
FactoryCalibration(device, config) ==
  LET section == << CameraSection(device.cameras[1], config),
                    CameraSection(device.cameras[2], config) >>
      OfBoth(key) == << section[1][key], section[2][key] >>
  IN [calibration_state |-> << Bootstrap >>,
      calibrated_serial |-> << device.serial >>,
      T_gyro_accel      |-> << Missing >>,
      cam0              |-> << Missing >>,
      cam1              |-> << Missing >>,
      T_imu_cam         |-> OfBoth("T_imu_cam"),
      camera_model      |-> OfBoth("camera_model"),
      realsense_distortion_model  |-> OfBoth("realsense_distortion_model"),
      realsense_distortion_coeffs |-> OfBoth("realsense_distortion_coeffs"),
      distortion_model  |-> OfBoth("distortion_model"),
      distortion_coeffs |-> OfBoth("distortion_coeffs"),
      intrinsics        |-> OfBoth("intrinsics"),
      resolution        |-> OfBoth("resolution"),
      timeshift_cam_imu |-> OfBoth("timeshift_cam_imu")]

\* Both streams are sampled first: a capture with any loss exports nothing.
Inspect ==
  /\ tool = "inspect" /\ step = "validate"
  /\ LET config == Configured(held.request, Missing) IN
     \/ /\ ConfigurationAccepted(held.request, Missing)
        /\ OpenSource(config, Both)
        /\ LET device == Device(config)
               fine == /\ ProfilesComplete(device)
                       /\ \A i \in 1 .. 2 :
                            FactoryModelCompatible(device.cameras[i])
           IN \E clean \in BOOLEAN :
                export' = IF clean /\ fine
                          THEN FactoryCalibration(device, config) ELSE export
        /\ tool' = "none" /\ step' = "idle" /\ held' = NoReading
        /\ UNCHANGED << outside, streaming, estimator, run, dataset, edited,
                        sessions >>
     \/ /\ ConfigurationAccepted(held.request, Missing)
        /\ OpenSourceFails(config, Both)
        /\ End /\ UNCHANGED << estimator, run >>
     \/ ~ConfigurationAccepted(held.request, Missing) /\ Refuse

-----------------------------------------------------------------------------
(* The operator. *)

\* Saves other documents, at any time.
Save ==
  /\ edits < MaxEdits
  /\ files' \in Editions \ {files}
  /\ edits' = edits + 1 /\ edited' = TRUE
  /\ UNCHANGED << plugged, options, tool, step, held, streaming, estimator,
                  run, dataset, export, sessions >>

\* Puts the exported camera calibration in place of the one the main
\* configuration names.
Adopt ==
  /\ edits < MaxEdits /\ tool = "none" /\ export # Missing
  /\ CameraOf(files.at, files.main) # Missing
  /\ files' = [files EXCEPT
       !.at[Scalar(files.main, "relative_config_imucam")].text = export]
  /\ edits' = edits + 1 /\ edited' = TRUE
  /\ UNCHANGED << plugged, options, tool, step, held, streaming, estimator,
                  run, dataset, export, sessions >>

\* Plugs in other devices while none streams.  Another program may have left
\* their options in any state.
Replug ==
  /\ edits < MaxEdits /\ ~streaming
  /\ plugged' \in Rigs \ {plugged}
  /\ options' = [s \in {plugged'[i].serial : i \in DOMAIN plugged'} |->
                   (CHOOSE d \in Range(plugged') : d.serial = s).options]
  /\ edits' = edits + 1
  /\ UNCHANGED << files, tool, step, held, streaming, estimator, run, dataset,
                  export, edited, sessions >>

Next ==
  \/ BeginLive \/ LiveValidate \/ LiveConfigure \/ LiveLoad \/ LiveArchive
  \/ LiveStart \/ LiveCheck \/ FinishRun
  \/ BeginRecord \/ RecordStart \/ RecordFinish
  \/ BeginReplay \/ ReplayValidate \/ ReplayLoad \/ ReplayArchive
  \/ BeginInspect \/ Inspect
  \/ Save \/ Adopt \/ Replug

Spec == Init /\ [][Next]_vars

-----------------------------------------------------------------------------
(* Properties. *)

Tools == {"none", "live", "record", "replay", "inspect"}

Steps == {"idle", "validate", "configure", "load", "archive", "start", "check",
          "run"}

Marks == {"none", "INCOMPLETE", "complete"}

\* The variables keep their kinds, and only a program that has opened the
\* device keeps it streaming (destructors of ovrs_live.cpp and ovrs_record.cpp).
TypeOK ==
  /\ tool \in Tools /\ step \in Steps /\ (tool = "none" <=> step = "idle")
  /\ streaming \in BOOLEAN /\ edited \in BOOLEAN
  /\ streaming => << tool, step >> \in
       {<< "live", "check" >>, << "live", "run" >>, << "record", "run" >>}
  /\ run.mark \in Marks /\ DOMAIN run.documents = DOMAIN NoDocuments
  /\ DOMAIN estimator = DOMAIN NoDocuments
  /\ dataset # Missing => dataset.mark \in Marks \ {"none"}
  /\ DOMAIN options = {plugged[i].serial : i \in DOMAIN plugged}
  /\ sessions \in 0 .. MaxSessions /\ edits \in 0 .. MaxEdits

\* All that the lines with a key say, whichever of them a reader goes by.
Said(document, key) == Range(Scalars(document, key))

SaidByAll(documents, key) ==
  UNION {Said(documents[d], key) : d \in {"main", "imu", "camera"}}

\* What an estimate means: one device and one state throughout the documents;
\* that device, at the rates, sizes and switches the documents were made for;
\* two cameras at different places, each inside its image; and, where the factory
\* and not Kalibr calibrated them, lenses without a fifth coefficient.
Fits(documents, allow, device, config, settings) ==
  LET imu == documents.imu  camera == documents.camera IN
  /\ SaidByAll(documents, "calibrated_serial") = {device.serial}
  /\ \/ SaidByAll(documents, "calibration_state") = {Verified}
     \/ /\ SaidByAll(documents, "calibration_state") = {Bootstrap} /\ allow
        /\ \A c \in Said(camera, "realsense_distortion_coeffs") : c[5] = 0
  /\ Said(imu, "update_rate") = {config.gyro_fps}
  /\ Said(camera, "resolution") = {<< config.width, config.height >>}
  /\ Said(imu, "realsense_motion_correction_enabled")
       = {SwitchText(settings.motion_correction)}
  /\ Said(imu, "realsense_global_time_enabled") = {SwitchText(settings.global_time)}
  /\ settings.gyro_sensitivity = config.gyro_sensitivity
  /\ Cardinality(Said(camera, "timeshift_cam_imu")) = 1
  /\ Cardinality({Centre(T) : T \in Said(camera, "T_imu_cam")}) = 2
  /\ \A T \in Said(camera, "T_imu_cam") : Rigid(T)
  /\ \A p \in Said(camera, "intrinsics") :
       InsideImage(p, << config.width, config.height >>)
  /\ \A key \in NoiseKeys : \A n \in Said(imu, key) : n > 0

Truth ==
  IF tool = "live"
  THEN [device |-> Device(held.config), config |-> held.config,
        options |-> options[Device(held.config).serial]]
  ELSE dataset.origin

\* An estimate that goes on is made with a calibration of the very device, as
\* the device really is set, and the run directory holds that calibration:
\* unless the files were saved while the session began, whatever documents,
\* devices, options and command lines came together (the checks of
\* ovrs_live.cpp:86-335 and ovrs_replay.cpp:100-232 and the validators they call).
EstimatesAsCalibrated ==
  tool \in {"live", "replay"} /\ step = "run" /\ ~edited
    => /\ Fits(estimator, held.request.allow, Truth.device, Truth.config,
               Truth.options)
       /\ run.documents = estimator

\* What ovrs_live would say of the documents with the device of the recording
\* plugged in and the streams of the recording asked for.
LiveWouldAdmit ==
  LET device == dataset.origin.device
      config == [dataset.origin.config EXCEPT !.serial = Calibrated]
  IN /\ DocumentsAdmitted(files.at, held.main, held.request.allow)
     /\ ResolutionMatches(files.at, held.main, config.width, config.height)
     /\ device.serial = Calibrated
     /\ CaptureAdmitted(files.at, held.main, Report(device, config, Both),
                        StreamDocument(config))

\* A complete VIO recording is replayed with exactly the documents ovrs_live
\* accepts for its device and streams: neither tool forgets a check of the
\* other, and nothing a check needs is lost on the way through the dataset
\* (ovrs_replay.cpp:100-211 against ovrs_live.cpp:86-335).
SameVerdict ==
  [][tool = "replay" /\ step = "validate" /\ step' # step /\ Replayable(dataset)
       => (step' = "load" <=> LiveWouldAdmit)]_vars

\* The numbers the factory has stored are sound once six digits are left of them:
\* rigid transforms, cameras apart, principal points inside the image.
SoundWhenPrinted(device, config) ==
  LET transform(i) == PrintedMatrix(device.cameras[i].transform)
      size == << config.width, config.height >>
  IN /\ \A i \in 1 .. 2 :
          /\ Rigid(transform(i))
          /\ InsideImage(PrintedList(device.cameras[i].intrinsics), size)
     /\ Apart(transform(1), transform(2))

\* ovrs_inspect asks of a device what the estimating tools ask of a bootstrap
\* calibration, the numbers apart: what it exports they refuse exactly where the
\* numbers of the factory are not sound, or no longer after printing, which
\* nothing in ovrs_inspect looks at (ovrs_inspect.cpp:45-153 and 418-441 against
\* calibration_validation.cpp:499-750).
ExportIsAdmissible ==
  [][export = Missing /\ export' # Missing
       => LET config == Configured(held.request, Missing)
              device == Device(config)
          IN /\ IdentityValid(export') /\ CameraReviewed(export')
             /\ (GeometryValid(export') /\ BootstrapValid(export'))
                  <=> SoundWhenPrinted(device, config)]_vars
=============================================================================
