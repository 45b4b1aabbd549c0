-------------------------- MODULE AdmissionProofs --------------------------
(***************************************************************************)
(* Proofs about admission, for all documents, devices and command lines,   *)
(* any number of sessions and of edits between and during them.            *)
(***************************************************************************)
EXTENDS Admission, SequenceTheorems, FiniteSetTheorems, WellFoundedInduction, TLAPS

----------------------------------------------------------------------------
(* Reading documents                                                       *)

\* The keys an estimate depends on.
DocumentKeys ==
  {"calibration_state", "calibrated_serial", "update_rate",
   "realsense_motion_correction_enabled", "realsense_global_time_enabled",
   "resolution", "timeshift_cam_imu", "T_imu_cam", "intrinsics",
   "realsense_distortion_coeffs"} \cup NoiseKeys

LEMMA LinesOfKey ==
  ASSUME NEW doc, IsDocument(doc), NEW key \in DOMAIN doc
  PROVE  doc[key] \in Seq(Range(doc[key])) /\ DOMAIN doc[key] = 1..Len(doc[key])
<1>. DEFINE s == doc[key]
<1>1. Len(s) \in Nat /\ s = [i \in 1..Len(s) |-> s[i]]
  BY DEF IsDocument
<1>. HIDE DEF s
<1>2. DOMAIN s = 1..Len(s)
  BY <1>1
<1>3. \A i \in 1..Len(s) : s[i] \in Range(s)
  BY <1>2 DEF Range
<1>4. [i \in 1..Len(s) |-> s[i]] \in Seq(Range(s))
  BY <1>1, <1>3
<1>5. s \in Seq(Range(s))
  BY <1>1, <1>4
<1>. QED BY <1>2, <1>5 DEF s

LEMMA SaidOnce ==
  ASSUME NEW doc, IsDocument(doc), NEW key \in DocumentKeys, KeyCount(doc, key) = 1
  PROVE  Said(doc, key) = {Scalar(doc, key)}
<1>1. key \in DOMAIN doc /\ Scalars(doc, key) = doc[key] /\ Len(doc[key]) = 1
  BY DEF KeyCount, Scalars
<1>2. doc[key] \in Seq(Range(doc[key])) /\ DOMAIN doc[key] = 1..1
  BY <1>1, LinesOfKey
<1>3. Head(doc[key]) = doc[key][1]
  BY <1>1, <1>2
<1>4. Range(doc[key]) = {doc[key][1]}
  BY <1>2 DEF Range
<1>. QED BY <1>1, <1>3, <1>4 DEF Said, Scalar, KeyCount

LEMMA SaidTwice ==
  ASSUME NEW doc, IsDocument(doc), NEW key \in DocumentKeys, KeyCount(doc, key) = 2
  PROVE  Said(doc, key) = {doc[key][1], doc[key][2]}
<1>1. key \in DOMAIN doc /\ Scalars(doc, key) = doc[key] /\ Len(doc[key]) = 2
  BY DEF KeyCount, Scalars
<1>2. DOMAIN doc[key] = 1..2
  BY <1>1, LinesOfKey
<1>3. Range(doc[key]) = {doc[key][1], doc[key][2]}
  BY <1>2 DEF Range
<1>. QED BY <1>1, <1>3 DEF Said

LEMMA SaidNever ==
  ASSUME NEW doc, IsDocument(doc), NEW key \in DocumentKeys, KeyCount(doc, key) = 0
  PROVE  Said(doc, key) = {}
<1>1. CASE key \in DOMAIN doc
  <2>1. Scalars(doc, key) = doc[key] /\ Len(doc[key]) = 0
    BY <1>1 DEF KeyCount, Scalars
  <2>2. DOMAIN doc[key] = 1..0
    BY <1>1, <2>1, LinesOfKey
  <2>. QED BY <2>1, <2>2 DEF Said, Range
<1>2. CASE key \notin DOMAIN doc
  BY <1>2 DEF Said, Scalars, Range
<1>. QED BY <1>1, <1>2

\* What a tool that reads the files now has before it.
PresentIn(f) == [main |-> f.main, imu |-> ImuOf(f.at, f.main), camera |-> CameraOf(f.at, f.main)]

LEMMA DocumentsOfFiles ==
  ASSUME NEW f, IsFiles(f)
  PROVE  /\ IsDocument(f.main)
         /\ ImuOf(f.at, f.main) # Missing => IsDocument(ImuOf(f.at, f.main))
         /\ CameraOf(f.at, f.main) # Missing => IsDocument(CameraOf(f.at, f.main))
<1>1. ASSUME NEW key PROVE Dependency(f.at, f.main, key) # Missing => IsDocument(Dependency(f.at, f.main, key))
  BY <1>1 DEF Dependency, IsFiles
<1>. QED BY <1>1 DEF IsFiles, ImuOf, CameraOf

----------------------------------------------------------------------------
(* What fits                                                               *)
(* The documents as they lie on disk, one device, one configuration: what  *)
(* the validators have found out says that an estimate may be made.        *)

Admitted(f, allow, device, config, stream) ==
  /\ DocumentsAdmitted(f.at, f.main, allow)
  /\ ResolutionMatches(f.at, f.main, config.width, config.height)
  /\ CaptureAdmitted(f.at, f.main, Report(device, config, Both), stream)
  /\ Scalar(stream, "motion_correction_enabled") = SwitchText(config.motion_correction_enabled)
  /\ Scalar(stream, "global_time_enabled") = SwitchText(config.global_time_enabled)

LEMMA BothStreams ==
  Both = [stereo |-> TRUE, motion |-> TRUE, format |-> "ovrs-euroc-like-v1"]
BY DEF Both, Plan

LEMMA ReportSays ==
  ASSUME NEW device, NEW config
  PROVE  /\ Scalar(Report(device, config, Both), "serial") = device.serial
         /\ Scalar(Report(device, config, Both), "gyro_rate_hz") = config.gyro_fps
<1>. DEFINE r == Report(device, config, Both)
<1>1. /\ {"serial", "gyro_rate_hz"} \subseteq DOMAIN r
      /\ r["serial"] = << device.serial >>
      /\ r["gyro_rate_hz"] = << config.gyro_fps >>
  BY BothStreams DEF Report
<1>. HIDE DEF r
<1>2. /\ Scalars(r, "serial") = << device.serial >>
      /\ Scalars(r, "gyro_rate_hz") = << config.gyro_fps >>
  BY <1>1 DEF Scalars
<1>3. KeyCount(r, "serial") = 1 /\ KeyCount(r, "gyro_rate_hz") = 1
  BY <1>2 DEF KeyCount
<1>4. Scalar(r, "serial") = device.serial /\ Scalar(r, "gyro_rate_hz") = config.gyro_fps
  BY <1>2, <1>3 DEF Scalar
<1>. QED BY <1>4 DEF r

\* The three documents are there and each says once whose it is and what state
\* the calibration is in.
LEMMA IdentityOnce ==
  ASSUME NEW f, IsFiles(f), EstimatorConfigurationValid(f.at, f.main),
         NEW key \in {"calibration_state", "calibrated_serial"}
  PROVE  SaidByAll(PresentIn(f), key) = {Scalar(f.main, key)}
<1>. DEFINE imu == ImuOf(f.at, f.main)
            camera == CameraOf(f.at, f.main)
<1>1. /\ imu # Missing /\ camera # Missing
      /\ KeyCount(f.main, key) = 1
      /\ KeyCount(imu, key) = 1 /\ Scalar(imu, key) = Scalar(f.main, key)
      /\ KeyCount(camera, key) = 1 /\ Scalar(camera, key) = Scalar(f.main, key)
  BY DEF EstimatorConfigurationValid, IdentityValid, SameIdentity, RateConfigured
<1>2. IsDocument(f.main) /\ IsDocument(imu) /\ IsDocument(camera)
  BY <1>1, DocumentsOfFiles
<1>. HIDE DEF imu, camera
<1>3. key \in DocumentKeys
  BY DEF DocumentKeys
<1>4. Said(f.main, key) = {Scalar(f.main, key)}
  BY <1>1, <1>2, <1>3, SaidOnce
<1>5. Said(imu, key) = {Scalar(f.main, key)}
  BY <1>1, <1>2, <1>3, SaidOnce
<1>6. Said(camera, key) = {Scalar(f.main, key)}
  BY <1>1, <1>2, <1>3, SaidOnce
<1>. DEFINE said(d) == Said(PresentIn(f)[d], key)
<1>7. said("main") = {Scalar(f.main, key)} /\ said("imu") = {Scalar(f.main, key)}
        /\ said("camera") = {Scalar(f.main, key)}
  BY <1>4, <1>5, <1>6 DEF PresentIn, imu, camera
<1>8. SaidByAll(PresentIn(f), key) = UNION {said(d) : d \in {"main", "imu", "camera"}}
  BY DEF SaidByAll
<1>. HIDE DEF said
<1>. QED BY <1>7, <1>8

LEMMA SaidOnceByImu ==
  ASSUME NEW f, IsFiles(f), ImuOf(f.at, f.main) # Missing, NEW key \in DocumentKeys,
         KeyCount(ImuOf(f.at, f.main), key) = 1
  PROVE  Said(PresentIn(f).imu, key) = {Scalar(ImuOf(f.at, f.main), key)}
<1>1. IsDocument(ImuOf(f.at, f.main))
  BY DocumentsOfFiles
<1>. QED BY <1>1, SaidOnce DEF PresentIn

LEMMA SaidTwiceByCamera ==
  ASSUME NEW f, IsFiles(f), CameraOf(f.at, f.main) # Missing, NEW key \in DocumentKeys,
         KeyCount(CameraOf(f.at, f.main), key) = 2
  PROVE  Said(PresentIn(f).camera, key)
           = {CameraOf(f.at, f.main)[key][1], CameraOf(f.at, f.main)[key][2]}
<1>1. IsDocument(CameraOf(f.at, f.main))
  BY DocumentsOfFiles
<1>. QED BY <1>1, SaidTwice DEF PresentIn

\* The IMU calibration.
LEMMA ImuFits ==
  ASSUME NEW f, NEW allow, NEW device, NEW config, NEW stream,
         IsFiles(f), Admitted(f, allow, device, config, stream)
  PROVE  LET imu == PresentIn(f).imu IN
         /\ Said(imu, "update_rate") = {config.gyro_fps}
         /\ Said(imu, "realsense_motion_correction_enabled")
              = {SwitchText(config.motion_correction_enabled)}
         /\ Said(imu, "realsense_global_time_enabled") = {SwitchText(config.global_time_enabled)}
         /\ \A key \in NoiseKeys : \A n \in Said(imu, key) : n > 0
<1>. DEFINE imu == ImuOf(f.at, f.main)
            report == Report(device, config, Both)
<1>1. EstimatorConfigurationValid(f.at, f.main) /\ CaptureAdmitted(f.at, f.main, report, stream)
  BY DEF Admitted, DocumentsAdmitted
<1>2. imu # Missing /\ \A key \in NoiseKeys : OncePositive(imu, key)
  BY <1>1 DEF EstimatorConfigurationValid, RateConfigured
<1>3. KeyCount(imu, "update_rate") = 1
      /\ Scalar(imu, "update_rate") = Scalar(report, "gyro_rate_hz")
  BY <1>1 DEF CaptureAdmitted, ImuRateMatches, RateConfigured, OncePositive
<1>4. /\ KeyCount(imu, "realsense_motion_correction_enabled") = 1
      /\ Scalar(imu, "realsense_motion_correction_enabled")
           = Scalar(stream, "motion_correction_enabled")
      /\ KeyCount(imu, "realsense_global_time_enabled") = 1
      /\ Scalar(imu, "realsense_global_time_enabled") = Scalar(stream, "global_time_enabled")
  BY <1>1 DEF CaptureAdmitted, SensorPolicyMatches, SwitchAgrees
<1>5. Scalar(report, "gyro_rate_hz") = config.gyro_fps
  BY ReportSays
<1>6. ASSUME NEW key \in NoiseKeys
      PROVE  \A n \in Said(PresentIn(f).imu, key) : n > 0
  <2>1. key \in DocumentKeys /\ KeyCount(imu, key) = 1 /\ Scalar(imu, key) > 0
    BY <1>2, <1>6 DEF DocumentKeys, OncePositive
  <2>2. Said(PresentIn(f).imu, key) = {Scalar(imu, key)}
    BY <1>2, <2>1, SaidOnceByImu
  <2>. QED BY <2>1, <2>2
<1>7. Said(PresentIn(f).imu, "update_rate") = {config.gyro_fps}
  BY <1>2, <1>3, <1>5, SaidOnceByImu DEF DocumentKeys
<1>8. Said(PresentIn(f).imu, "realsense_motion_correction_enabled")
        = {SwitchText(config.motion_correction_enabled)}
  BY <1>2, <1>4, SaidOnceByImu DEF Admitted, DocumentKeys
<1>9. Said(PresentIn(f).imu, "realsense_global_time_enabled")
        = {SwitchText(config.global_time_enabled)}
  BY <1>2, <1>4, SaidOnceByImu DEF Admitted, DocumentKeys
<1>. QED BY <1>6, <1>7, <1>8, <1>9

\* The camera calibration.
LEMMA CameraOnce ==
  ASSUME NEW f, IsFiles(f), EstimatorConfigurationValid(f.at, f.main),
         NEW key \in {"timeshift_cam_imu", "T_imu_cam", "intrinsics"}
  PROVE  Said(PresentIn(f).camera, key)
           = {CameraOf(f.at, f.main)[key][1], CameraOf(f.at, f.main)[key][2]}
<1>1. CameraOf(f.at, f.main) # Missing /\ GeometryValid(CameraOf(f.at, f.main))
  BY DEF EstimatorConfigurationValid
<1>2. KeyCount(CameraOf(f.at, f.main), key) = 2
  BY <1>1 DEF GeometryValid
<1>3. key \in DocumentKeys
  BY DEF DocumentKeys
<1>. QED BY <1>1, <1>2, <1>3, SaidTwiceByCamera

LEMMA OneTimeshift ==
  ASSUME NEW f, IsFiles(f), EstimatorConfigurationValid(f.at, f.main)
  PROVE  Cardinality(Said(PresentIn(f).camera, "timeshift_cam_imu")) = 1
<1>. DEFINE shift == CameraOf(f.at, f.main)["timeshift_cam_imu"]
<1>1. shift[1] = shift[2]
  BY DEF EstimatorConfigurationValid, GeometryValid
<1>2. Said(PresentIn(f).camera, "timeshift_cam_imu") = {shift[1], shift[2]}
  BY CameraOnce
<1>. HIDE DEF shift
<1>3. Said(PresentIn(f).camera, "timeshift_cam_imu") = {shift[1]}
  BY <1>1, <1>2
<1>4. Cardinality({shift[1]}) = 1
  BY FS_Singleton
<1>. QED BY <1>3, <1>4

LEMMA CardinalityOfTwo ==
  ASSUME NEW a, NEW b, a # b
  PROVE  Cardinality({a, b}) = 2
<1>1. IsFiniteSet({a}) /\ Cardinality({a}) = 1
  BY FS_Singleton
<1>2. {a, b} = {a} \cup {b} /\ b \notin {a}
  OBVIOUS
<1>3. Cardinality({a} \cup {b}) = Cardinality({a}) + 1
  BY <1>1, <1>2, FS_AddElement
<1>. QED BY <1>1, <1>2, <1>3

LEMMA SquareNatural ==
  ASSUME NEW n \in Nat
  PROVE  n * n >= 0
OBVIOUS

\* A baseline longer than the tolerance has two ends.
LEMMA ApartCentres ==
  ASSUME NEW T1 \in Matrices, NEW T2 \in Matrices, Apart(T1, T2)
  PROVE  Centre(T1) # Centre(T2)
<1>. SUFFICES ASSUME Centre(T1) = Centre(T2) PROVE FALSE
  OBVIOUS
<1>1. T1[1][4] = T2[1][4] /\ T1[2][4] = T2[2][4] /\ T1[3][4] = T2[3][4]
  BY DEF Centre
<1>2. T2[1][4] \in Int /\ T2[2][4] \in Int /\ T2[3][4] \in Int
  BY DEF Matrices
<1>3. T2[1][4] - T1[1][4] = 0 /\ T2[2][4] - T1[2][4] = 0 /\ T2[3][4] - T1[3][4] = 0
  BY <1>1, <1>2
<1>4. 0 > MatrixTolerance * MatrixTolerance
  BY <1>3 DEF Apart
<1>5. MatrixTolerance \in Nat
  BY UnitsAssumption
<1>. QED BY <1>4, <1>5, SquareNatural

LEMMA TwoRigidCameras ==
  ASSUME NEW f, IsFiles(f), EstimatorConfigurationValid(f.at, f.main)
  PROVE  /\ Cardinality({Centre(T) : T \in Said(PresentIn(f).camera, "T_imu_cam")}) = 2
         /\ \A T \in Said(PresentIn(f).camera, "T_imu_cam") : Rigid(T)
<1>. DEFINE T1 == CameraOf(f.at, f.main)["T_imu_cam"][1]
            T2 == CameraOf(f.at, f.main)["T_imu_cam"][2]
            said == Said(PresentIn(f).camera, "T_imu_cam")
<1>1. Rigid(T1) /\ Rigid(T2) /\ Centre(T1) # Centre(T2)
  <2>1. GeometryValid(CameraOf(f.at, f.main))
    BY DEF EstimatorConfigurationValid
  <2>2. 1 \in 1 .. 2 /\ 2 \in 1 .. 2
    OBVIOUS
  <2>3. \A i \in 1 .. 2 : Rigid(CameraOf(f.at, f.main)["T_imu_cam"][i])
    BY <2>1 DEF GeometryValid
  <2>4. Rigid(T1) /\ Rigid(T2)
    BY <2>2, <2>3
  <2>5. Apart(T1, T2)
    BY <2>1 DEF GeometryValid
  <2>. HIDE DEF T1, T2
  <2>6. T1 \in Matrices /\ T2 \in Matrices
    BY <2>4 DEF Rigid
  <2>7. Centre(T1) # Centre(T2)
    BY <2>5, <2>6, ApartCentres
  <2>. QED BY <2>4, <2>7
<1>2. said = {T1, T2}
  BY CameraOnce
<1>. HIDE DEF T1, T2, said
<1>3. {Centre(T) : T \in said} = {Centre(T1), Centre(T2)}
  BY <1>2
<1>4. Cardinality({Centre(T1), Centre(T2)}) = 2
  BY <1>1, CardinalityOfTwo
<1>5. Cardinality({Centre(T) : T \in said}) = 2 /\ \A T \in said : Rigid(T)
  BY <1>1, <1>2, <1>3, <1>4
<1>. QED BY <1>5 DEF said

LEMMA ResolutionSaid ==
  ASSUME NEW f, NEW width, NEW height, IsFiles(f), ResolutionMatches(f.at, f.main, width, height)
  PROVE  /\ Said(PresentIn(f).camera, "resolution") = {<< width, height >>}
         /\ CameraOf(f.at, f.main)["resolution"][1] = << width, height >>
         /\ CameraOf(f.at, f.main)["resolution"][2] = << width, height >>
<1>. DEFINE size == << width, height >>
            camera == CameraOf(f.at, f.main)
<1>1. Scalars(camera, "resolution") = << size, size >>
  BY DEF ResolutionMatches
<1>2. PresentIn(f).camera = camera
  BY DEF PresentIn
<1>. HIDE DEF size, camera
<1>3. Range(<< size, size >>) = {size}
  BY DEF Range
<1>4. "resolution" \in DOMAIN camera
  <2>1. << size, size >> # << >>
    OBVIOUS
  <2>. QED BY <1>1, <2>1 DEF Scalars
<1>5. camera["resolution"] = << size, size >>
  BY <1>1, <1>4 DEF Scalars
<1>6. camera["resolution"][1] = size /\ camera["resolution"][2] = size
  BY <1>5
<1>7. Said(PresentIn(f).camera, "resolution") = {size}
  BY <1>1, <1>2, <1>3 DEF Said
<1>. QED BY <1>6, <1>7 DEF size, camera

LEMMA PrincipalPointsInside ==
  ASSUME NEW f, NEW width, NEW height, IsFiles(f),
         EstimatorConfigurationValid(f.at, f.main),
         ResolutionMatches(f.at, f.main, width, height)
  PROVE  \A p \in Said(PresentIn(f).camera, "intrinsics") : InsideImage(p, << width, height >>)
<1>. DEFINE camera == CameraOf(f.at, f.main)
            said == Said(PresentIn(f).camera, "intrinsics")
<1>1. \A i \in 1 .. 2 : InsideImage(camera["intrinsics"][i], camera["resolution"][i])
  BY DEF EstimatorConfigurationValid, GeometryValid
<1>2. camera["resolution"][1] = << width, height >> /\ camera["resolution"][2] = << width, height >>
  BY ResolutionSaid
<1>3. said = {camera["intrinsics"][1], camera["intrinsics"][2]}
  BY CameraOnce
<1>. HIDE DEF said, camera
<1>4. InsideImage(camera["intrinsics"][1], << width, height >>)
        /\ InsideImage(camera["intrinsics"][2], << width, height >>)
  BY <1>1, <1>2
<1>5. \A p \in said : InsideImage(p, << width, height >>)
  BY <1>3, <1>4
<1>. QED BY <1>5 DEF said

\* A calibration that is not Kalibr's carries no fifth coefficient, or none at all.
LEMMA NoFifthCoefficient ==
  ASSUME NEW f, IsFiles(f), CameraOf(f.at, f.main) # Missing,
         BootstrapValid(CameraOf(f.at, f.main))
  PROVE  \A c \in Said(PresentIn(f).camera, "realsense_distortion_coeffs") : c[5] = 0
<1>. DEFINE camera == CameraOf(f.at, f.main)
            said == Said(PresentIn(f).camera, "realsense_distortion_coeffs")
<1>0. IsDocument(camera) /\ PresentIn(f).camera = camera
      /\ "realsense_distortion_coeffs" \in DocumentKeys
  BY DocumentsOfFiles DEF PresentIn, DocumentKeys
<1>1. CASE KalibrCandidate(camera)
  <2>1. KeyCount(camera, "realsense_distortion_coeffs") = 0
    BY <1>1 DEF BootstrapValid, ProvenanceComplete
  <2>2. said = {}
    BY <1>0, <2>1, SaidNever
  <2>. QED BY <2>2
<1>2. CASE ~KalibrCandidate(camera)
  <2>1. /\ KeyCount(camera, "realsense_distortion_coeffs") = 2
        /\ \A i \in 1 .. 2 : FactoryModelKept(camera, i)
    BY <1>2 DEF BootstrapValid
  <2>2. \A i \in 1 .. 2 : camera["realsense_distortion_coeffs"][i][5] = 0
    BY <2>1 DEF FactoryModelKept
  <2>3. said = {camera["realsense_distortion_coeffs"][1], camera["realsense_distortion_coeffs"][2]}
    BY <1>0, <2>1, SaidTwice
  <2>. HIDE DEF said, camera
  <2>4. \A c \in said : c[5] = 0
    BY <2>2, <2>3
  <2>. QED BY <2>4 DEF said
<1>. QED BY <1>1, <1>2

\* Together: what is admitted fits the device as it is set.
LEMMA AdmittedFits ==
  ASSUME NEW f, NEW allow, NEW device, NEW config, NEW stream, NEW settings,
         IsFiles(f), Admitted(f, allow, device, config, stream),
         \A o \in OptionNames : settings[o] = Wanted(config)[o]
  PROVE  Fits(PresentIn(f), allow, device, config, settings)
<1>. DEFINE documents == PresentIn(f)
<1>1. /\ EstimatorConfigurationValid(f.at, f.main)
      /\ StateAllows(f.main, allow)
      /\ ResolutionMatches(f.at, f.main, config.width, config.height)
      /\ Scalar(Report(device, config, Both), "serial") = Scalar(f.main, "calibrated_serial")
  BY DEF Admitted, DocumentsAdmitted, CaptureAdmitted
<1>2. SaidByAll(documents, "calibrated_serial") = {device.serial}
  <2>1. SaidByAll(documents, "calibrated_serial") = {Scalar(f.main, "calibrated_serial")}
    BY <1>1, IdentityOnce
  <2>. QED BY <1>1, <2>1, ReportSays
<1>3. \/ SaidByAll(documents, "calibration_state") = {Verified}
      \/ /\ SaidByAll(documents, "calibration_state") = {Bootstrap} /\ allow
         /\ \A c \in Said(documents.camera, "realsense_distortion_coeffs") : c[5] = 0
  <2>1. SaidByAll(documents, "calibration_state") = {Scalar(f.main, "calibration_state")}
    BY <1>1, IdentityOnce
  <2>2. CASE Scalar(f.main, "calibration_state") = Verified
    BY <2>1, <2>2
  <2>3. CASE Scalar(f.main, "calibration_state") = Bootstrap /\ allow
    <3>1. CameraOf(f.at, f.main) # Missing /\ BootstrapValid(CameraOf(f.at, f.main))
      BY <1>1, <2>3 DEF EstimatorConfigurationValid
    <3>2. \A c \in Said(documents.camera, "realsense_distortion_coeffs") : c[5] = 0
      BY <3>1, NoFifthCoefficient
    <3>. QED BY <2>1, <2>3, <3>2
  <2>. QED BY <1>1, <2>2, <2>3 DEF StateAllows
<1>4. /\ settings.motion_correction = config.motion_correction_enabled
      /\ settings.global_time = config.global_time_enabled
      /\ settings.gyro_sensitivity = config.gyro_sensitivity
  BY DEF OptionNames, Wanted
<1>5. /\ Said(documents.imu, "update_rate") = {config.gyro_fps}
      /\ Said(documents.imu, "realsense_motion_correction_enabled")
           = {SwitchText(settings.motion_correction)}
      /\ Said(documents.imu, "realsense_global_time_enabled") = {SwitchText(settings.global_time)}
      /\ \A key \in NoiseKeys : \A n \in Said(documents.imu, key) : n > 0
  BY <1>4, ImuFits
<1>6. /\ Said(documents.camera, "resolution") = {<< config.width, config.height >>}
      /\ \A p \in Said(documents.camera, "intrinsics") :
           InsideImage(p, << config.width, config.height >>)
  BY <1>1, ResolutionSaid, PrincipalPointsInside
<1>7. /\ Cardinality(Said(documents.camera, "timeshift_cam_imu")) = 1
      /\ Cardinality({Centre(T) : T \in Said(documents.camera, "T_imu_cam")}) = 2
      /\ \A T \in Said(documents.camera, "T_imu_cam") : Rigid(T)
  BY <1>1, OneTimeshift, TwoRigidCameras
<1>. HIDE DEF documents
<1>8. Fits(documents, allow, device, config, settings)
  BY <1>2, <1>3, <1>4, <1>5, <1>6, <1>7 DEF Fits
<1>. QED BY <1>8 DEF documents

----------------------------------------------------------------------------
(* Configurations                                                          *)

WellConfigured(config) ==
  /\ config = [key \in Keys |-> config[key]]
  /\ ConfigurationValid(config)
  /\ config.gyro_fps \in Int
  /\ config.motion_correction_enabled \in BOOLEAN
  /\ config.global_time_enabled \in BOOLEAN

LEMMA KeysAre ==
  Keys = {"serial", "width", "height", "gyro_fps", "gyro_sensitivity", "gyro_scale_factor",
          "motion_correction_enabled", "global_time_enabled", "stereo_tolerance_ms"}
BY DEF Keys, Defaults

LEMMA AppliedSwitch ==
  ASSUME NEW kind, NEW doc, NEW config, NEW key \in Switches, config[key] \in BOOLEAN
  PROVE  Applied(kind, doc, config)[key] \in BOOLEAN
<1>1. key \in Keys
  BY KeysAre DEF Switches
<1>2. Applied(kind, doc, config)[key]
        = CASE Scalar(doc, key) = Missing -> config[key]
            [] Scalar(doc, key) # Missing /\ key \in Switches -> Scalar(doc, key) = Words[kind][1]
            [] OTHER -> Scalar(doc, key)
  BY <1>1 DEF Applied
<1>3. CASE Scalar(doc, key) = Missing
  <2>1. Applied(kind, doc, config)[key] = config[key]
    BY <1>2, <1>3
  <2>. QED BY <2>1
<1>4. CASE Scalar(doc, key) # Missing
  <2>1. Applied(kind, doc, config)[key] = (Scalar(doc, key) = Words[kind][1])
    BY <1>2, <1>4
  <2>. QED BY <2>1
<1>. QED BY <1>3, <1>4

LEMMA AppliedRate ==
  ASSUME NEW kind, NEW doc, NEW config, config.gyro_fps \in Int, Applies(kind, doc)
  PROVE  Applied(kind, doc, config).gyro_fps \in Int
<1>1. "gyro_fps" \in Keys /\ "gyro_fps" \notin Switches
  BY KeysAre DEF Switches
<1>2. Applied(kind, doc, config)["gyro_fps"]
        = IF Scalar(doc, "gyro_fps") = Missing THEN config["gyro_fps"] ELSE Scalar(doc, "gyro_fps")
  BY <1>1 DEF Applied
<1>3. Scalar(doc, "gyro_fps") = Missing \/ Scalar(doc, "gyro_fps") \in Int
  BY <1>1 DEF Applies, Parses, IsNumber
<1>. QED BY <1>2, <1>3

LEMMA ConfiguredWell ==
  ASSUME NEW request, NEW pin, ConfigurationAccepted(request, pin)
  PROVE  WellConfigured(Configured(request, pin))
<1>. DEFINE file == Applied("file", request.file, Defaults)
            base == IF pin = Missing THEN file ELSE [file EXCEPT !.serial = pin]
            config == Applied("cli", request.cli, base)
<1>1. /\ Applies("file", request.file) /\ Applies("cli", request.cli)
      /\ ConfigurationValid(config) /\ config = Configured(request, pin)
  BY DEF ConfigurationAccepted, Accepts, Configured
<1>2. /\ Defaults.gyro_fps \in Int
      /\ Defaults["motion_correction_enabled"] \in BOOLEAN
      /\ Defaults["global_time_enabled"] \in BOOLEAN
  BY DEF Defaults
<1>3. "motion_correction_enabled" \in Switches /\ "global_time_enabled" \in Switches
  BY DEF Switches
<1>4. /\ file.gyro_fps \in Int
      /\ file["motion_correction_enabled"] \in BOOLEAN
      /\ file["global_time_enabled"] \in BOOLEAN
  BY <1>1, <1>2, <1>3, AppliedRate, AppliedSwitch
<1>5. file = [key \in Keys |-> file[key]]
  BY DEF Applied
<1>6. /\ base.gyro_fps \in Int
      /\ base["motion_correction_enabled"] \in BOOLEAN
      /\ base["global_time_enabled"] \in BOOLEAN
  <2>. HIDE DEF file
  <2>1. DOMAIN file = Keys
    BY <1>5
  <2>2. CASE pin = Missing
    BY <1>4, <2>2
  <2>3. CASE pin # Missing
    <3>1. base = [file EXCEPT !.serial = pin]
      BY <2>3
    <3>2. /\ base["gyro_fps"] = file["gyro_fps"]
          /\ base["motion_correction_enabled"] = file["motion_correction_enabled"]
          /\ base["global_time_enabled"] = file["global_time_enabled"]
      BY <2>1, <3>1, KeysAre
    <3>. QED BY <1>4, <3>2
  <2>. QED BY <2>2, <2>3
<1>. HIDE DEF base
<1>7. /\ config.gyro_fps \in Int
      /\ config["motion_correction_enabled"] \in BOOLEAN
      /\ config["global_time_enabled"] \in BOOLEAN
  BY <1>1, <1>3, <1>6, AppliedRate, AppliedSwitch
<1>8. config = [key \in Keys |-> config[key]]
  BY DEF Applied
<1>. HIDE DEF config
<1>9. WellConfigured(config)
  BY <1>1, <1>7, <1>8 DEF WellConfigured
<1>. QED BY <1>1, <1>9

\* What a recording prints and the replay reads back.
LEMMA StreamSays ==
  ASSUME NEW config, NEW key \in Keys
  PROVE  /\ KeyCount(StreamDocument(config), key) = 1
         /\ Scalar(StreamDocument(config), key)
              = IF key \in Switches THEN SwitchText(config[key]) ELSE config[key]
<1>. DEFINE text == IF key \in Switches THEN SwitchText(config[key]) ELSE config[key]
            doc == StreamDocument(config)
<1>1. key \in DOMAIN doc /\ doc[key] = << text >>
  BY DEF StreamDocument
<1>. HIDE DEF text, doc
<1>2. Scalars(doc, key) = << text >>
  BY <1>1 DEF Scalars
<1>3. KeyCount(doc, key) = 1
  BY <1>2 DEF KeyCount
<1>4. Scalar(doc, key) = text
  BY <1>2, <1>3 DEF Scalar
<1>. QED BY <1>3, <1>4 DEF text, doc

LEMMA Bounds ==
  ASSUME NEW config, WellConfigured(config)
  PROVE  /\ config.width \in 1 .. MaxSize /\ config.height \in 1 .. MaxSize
         /\ config.gyro_fps > 0 /\ config.gyro_fps \in Int
         /\ config.gyro_sensitivity \in 0 .. 4 /\ config.gyro_scale_factor \in 1 .. MaxScale
         /\ config.stereo_tolerance_ms \in 0 .. 20 /\ config.serial # Malformed
<1>1. ConfigurationValid(config) /\ config.gyro_fps \in Int
  BY DEF WellConfigured
<1>. QED BY <1>1 DEF ConfigurationValid

LEMMA SizesPositive ==
  ASSUME NEW config, WellConfigured(config)
  PROVE  config.width \in Nat \ {0} /\ config.height \in Nat \ {0}
<1>1. config.width \in 1 .. MaxSize /\ config.height \in 1 .. MaxSize
  BY Bounds
<1>2. MaxSize \in Int
  BY DEF MaxSize
<1>. QED BY <1>1, <1>2

LEMMA ValidWithin ==
  ASSUME NEW config,
         config.width \in 1 .. MaxSize /\ config.height \in 1 .. MaxSize,
         config.gyro_fps > 0, config.gyro_sensitivity \in 0 .. 4,
         config.gyro_scale_factor \in 1 .. MaxScale,
         config.stereo_tolerance_ms \in 0 .. 20, config.serial # Malformed
  PROVE  ConfigurationValid(config)
BY DEF ConfigurationValid

LEMMA ValidAsWell ==
  ASSUME NEW config, NEW more, ConfigurationValid(config),
         more.width = config.width, more.height = config.height,
         more.gyro_fps = config.gyro_fps, more.gyro_sensitivity = config.gyro_sensitivity,
         more.gyro_scale_factor = config.gyro_scale_factor,
         more.stereo_tolerance_ms = config.stereo_tolerance_ms, more.serial # Malformed
  PROVE  ConfigurationValid(more)
BY DEF ConfigurationValid

LEMMA NumbersOf ==
  ASSUME NEW config, WellConfigured(config), NEW key \in Keys, key \notin Switches, key # "serial"
  PROVE  config[key] \in Int
<1>1. key \in {"width", "height", "gyro_fps", "gyro_sensitivity", "gyro_scale_factor",
               "stereo_tolerance_ms"}
  BY KeysAre DEF Switches
<1>2. MaxScale \in Int
  BY ScaleUnitAssumption DEF MaxScale
<1>0. /\ config.width \in 1 .. MaxSize /\ config.height \in 1 .. MaxSize
      /\ config.gyro_fps \in Int
      /\ config.gyro_sensitivity \in 0 .. 4 /\ config.gyro_scale_factor \in 1 .. MaxScale
      /\ config.stereo_tolerance_ms \in 0 .. 20
  BY Bounds
<1>4. \A n \in 0 .. 20 : n \in Int
  OBVIOUS
<1>5. \A n \in 0 .. 4 : n \in Int
  OBVIOUS
<1>6. \A n \in 1 .. MaxScale : n \in Int
  BY <1>2
<1>7. MaxSize \in Int
  BY DEF MaxSize
<1>12. config.width \in Int /\ config.height \in Int
  BY <1>0, <1>7
<1>8. config.gyro_sensitivity \in Int
  BY <1>0, <1>5
<1>9. config.gyro_scale_factor \in Int
  BY <1>0, <1>6
<1>10. config.stereo_tolerance_ms \in Int
  BY <1>0, <1>4
<1>11. config.gyro_fps \in Int
  BY <1>0
<1>. QED BY <1>1, <1>8, <1>9, <1>10, <1>11, <1>12

LEMMA RecordedIs ==
  ASSUME NEW config, WellConfigured(config), NEW key \in Keys
  PROVE  Recorded(StreamDocument(config))[key] = config[key]
<1>. DEFINE doc == StreamDocument(config)
<1>1. Recorded(doc)[key]
        = IF Scalar(doc, key) = Missing THEN Defaults[key]
          ELSE IF key \in Switches THEN Scalar(doc, key) = Words["file"][1]
          ELSE Scalar(doc, key)
  BY DEF Recorded, Applied
<1>2. Scalar(doc, key) = IF key \in Switches THEN SwitchText(config[key]) ELSE config[key]
  BY StreamSays
<1>. HIDE DEF doc
<1>3. CASE key \in Switches
  <2>1. config[key] \in BOOLEAN
    BY <1>3 DEF WellConfigured, Switches
  <2>2. Scalar(doc, key) \in {"true", "false"} /\ Scalar(doc, key) # Missing
    BY <1>2, <1>3, MarksAssumption DEF SwitchText
  <2>3. Recorded(doc)[key] = (Scalar(doc, key) = "true")
    BY <1>1, <1>3, <2>2 DEF Words
  <2>4. CASE config[key] = TRUE
    <3>1. Scalar(doc, key) = "true"
      BY <1>2, <1>3, <2>4 DEF SwitchText
    <3>2. Recorded(doc)[key] = TRUE
      BY <2>3, <3>1
    <3>. QED BY <2>4, <3>2 DEF doc
  <2>5. CASE config[key] = FALSE
    <3>1. Scalar(doc, key) = "false"
      BY <1>2, <1>3, <2>5 DEF SwitchText
    <3>2. Recorded(doc)[key] = FALSE
      BY <2>3, <3>1
    <3>. QED BY <2>5, <3>2 DEF doc
  <2>. QED BY <2>1, <2>4, <2>5
<1>4. CASE key \notin Switches
  <2>1. Scalar(doc, key) = config[key]
    BY <1>2, <1>4
  <2>2. CASE key = "serial"
    <3>1. Defaults[key] = Missing
      BY <2>2 DEF Defaults
    <3>2. Recorded(doc)[key] = Scalar(doc, key)
      BY <1>1, <1>4, <3>1
    <3>. QED BY <2>1, <3>2 DEF doc
  <2>3. CASE key # "serial"
    <3>1. config[key] \in Int
      BY <1>4, <2>3, NumbersOf
    <3>2. Scalar(doc, key) # Missing
      BY <2>1, <3>1, MarksAssumption
    <3>3. Recorded(doc)[key] = Scalar(doc, key)
      BY <1>1, <1>4, <3>2
    <3>. QED BY <2>1, <3>3 DEF doc
  <2>. QED BY <2>2, <2>3
<1>. QED BY <1>3, <1>4 DEF doc

\* The reader of the dataset refuses nothing the recorder prints.
LEMMA RecordedAccepted ==
  ASSUME NEW config, WellConfigured(config)
  PROVE  /\ Accepts("file", StreamDocument(config), Defaults)
         /\ Scalar(StreamDocument(config), "stereo_tolerance_ms") # Missing
<1>. DEFINE doc == StreamDocument(config)
<1>0. /\ config["motion_correction_enabled"] \in BOOLEAN
      /\ config["global_time_enabled"] \in BOOLEAN
  BY DEF WellConfigured
<1>1. ASSUME NEW key \in Keys
      PROVE  /\ KeyCount(doc, key) <= 1
             /\ Scalar(doc, key) = Missing \/ Parses("file", key, Scalar(doc, key))
  <2>1. /\ KeyCount(doc, key) = 1
        /\ Scalar(doc, key) = IF key \in Switches THEN SwitchText(config[key]) ELSE config[key]
    BY <1>1, StreamSays
  <2>. HIDE DEF doc
  <2>2. CASE key = "serial"
    <3>1. KeyCount(doc, key) <= 1
      BY <2>1
    <3>2. Parses("file", key, Scalar(doc, key))
      <4>1. key \notin Switches
        BY <2>2 DEF Switches
      <4>2. Parses("file", key, Scalar(doc, key)) <=> TRUE
        BY <2>2, <4>1 DEF Parses
      <4>. QED BY <4>2
    <3>. QED BY <3>1, <3>2
  <2>3. CASE key \in Switches
    <3>1. Scalar(doc, key) \in {"true", "false"}
      BY <1>0, <2>1, <2>3 DEF SwitchText
    <3>2. key # "serial"
      BY <2>3 DEF Switches
    <3>3. Parses("file", key, Scalar(doc, key))
            <=> Scalar(doc, key) \in {Words["file"][1], Words["file"][2]}
      BY <2>3, <3>2 DEF Parses
    <3>4. Words["file"][1] = "true" /\ Words["file"][2] = "false"
      BY DEF Words
    <3>. QED BY <2>1, <3>1, <3>3, <3>4
  <2>4. CASE key # "serial" /\ key \notin Switches
    <3>3. Scalar(doc, key) \in Int
      BY <1>1, <2>1, <2>4, NumbersOf
    <3>4. Parses("file", key, Scalar(doc, key)) <=> IsNumber(Scalar(doc, key))
      BY <2>4 DEF Parses
    <3>. QED BY <2>1, <3>3, <3>4 DEF IsNumber
  <2>. QED BY <2>2, <2>3, <2>4
<1>2. Applies("file", doc)
  BY <1>1 DEF Applies
<1>3. /\ {"serial", "width", "height", "gyro_fps", "gyro_sensitivity", "gyro_scale_factor",
          "stereo_tolerance_ms"} \subseteq Keys
      /\ "stereo_tolerance_ms" \notin Switches
  BY KeysAre DEF Switches
<1>4. \A key \in Keys : Recorded(doc)[key] = config[key]
  BY RecordedIs
<1>5. ConfigurationValid(Recorded(doc))
  <2>. HIDE DEF doc
  <2>1. /\ Recorded(doc).width = config.width /\ Recorded(doc).height = config.height
        /\ Recorded(doc).gyro_fps = config.gyro_fps /\ Recorded(doc).serial = config.serial
        /\ Recorded(doc).gyro_sensitivity = config.gyro_sensitivity
        /\ Recorded(doc).gyro_scale_factor = config.gyro_scale_factor
        /\ Recorded(doc).stereo_tolerance_ms = config.stereo_tolerance_ms
    BY <1>3, <1>4
  <2>2. ConfigurationValid(config) /\ config.serial # Malformed
    BY Bounds DEF WellConfigured
  <2>. QED BY <2>1, <2>2, ValidAsWell
<1>6. Scalar(doc, "stereo_tolerance_ms") = config["stereo_tolerance_ms"]
  BY <1>3, StreamSays
<1>7. Scalar(doc, "stereo_tolerance_ms") # Missing
  <2>. HIDE DEF doc
  <2>1. config["stereo_tolerance_ms"] \in Int
    BY <1>3, NumbersOf
  <2>. QED BY <1>6, <2>1, MarksAssumption
<1>8. Accepts("file", doc, Defaults)
  BY <1>2, <1>5 DEF Accepts, Recorded
<1>. QED BY <1>7, <1>8

----------------------------------------------------------------------------
(* Devices                                                                 *)

CandidatesIn(rig, config) ==
  {i \in DOMAIN rig : rig[i].d435i /\ config.serial \in {Missing, rig[i].serial}}

DeviceIn(rig, config) == rig[Min(CandidatesIn(rig, config))]

LEMMA MinIn ==
  ASSUME NEW S \in SUBSET Nat, S # {}
  PROVE  Min(S) \in S
<1>1. \E x \in S : \A y \in S : ~ (<< y, x >> \in OpToRel(<, Nat))
  BY NatLessThanWellFounded, WFMin
<1>2. PICK x \in S : \A y \in S : ~ (<< y, x >> \in OpToRel(<, Nat))
  BY <1>1
<1>3. ASSUME NEW y \in S
      PROVE  x <= y
  <2>1. x \in Nat /\ y \in Nat
    BY <1>3
  <2>2. ~ (<< y, x >> \in OpToRel(<, Nat))
    BY <1>2, <1>3
  <2>3. ~ (y < x)
    BY <2>1, <2>2, Zenon DEF OpToRel
  <2>. QED BY <2>1, <2>3
<1>. QED BY <1>2, <1>3 DEF Min

LEMMA FoundDevice ==
  ASSUME NEW rig, NEW config, IsRig(rig), CandidatesIn(rig, config) # {}
  PROVE  /\ \E i \in 1 .. Len(rig) : DeviceIn(rig, config) = rig[i]
         /\ IsDevice(DeviceIn(rig, config))
         /\ DeviceIn(rig, config).d435i
<1>1. DOMAIN rig = 1 .. Len(rig) /\ Len(rig) \in Nat
  BY DEF IsRig
<1>2. CandidatesIn(rig, config) \in SUBSET Nat
  BY <1>1 DEF CandidatesIn
<1>3. Min(CandidatesIn(rig, config)) \in CandidatesIn(rig, config)
  BY <1>2, MinIn
<1>4. PICK i \in CandidatesIn(rig, config) : i = Min(CandidatesIn(rig, config))
  BY <1>3
<1>5. DeviceIn(rig, config) = rig[i] /\ i \in 1 .. Len(rig) /\ rig[i].d435i
  BY <1>1, <1>4 DEF DeviceIn, CandidatesIn
<1>. QED BY <1>5 DEF IsRig

Serials(rig) == {rig[i].serial : i \in DOMAIN rig}

\* A device that cannot correct motion does not do it.
UnsupportedOff(rig, settings) ==
  \A i \in DOMAIN rig :
    "motion_correction" \notin rig[i].supports
      => settings[rig[i].serial].motion_correction = FALSE

\* The options are read back before the stream starts, so that every one that
\* matters is as the configuration wants it.
LEMMA SettingsAsWanted ==
  ASSUME NEW device, NEW config, IsDevice(device),
         OptionsTaken(device, config, Both), config.motion_correction_enabled \in BOOLEAN,
         "motion_correction" \notin device.supports
           => options[device.serial].motion_correction = FALSE,
         NEW o \in OptionNames
  PROVE  After(device, config, Both)[o] = Wanted(config)[o]
<1>1. \/ After(device, config, Both)[o] = Wanted(config)[o]
      \/ /\ o = "motion_correction" /\ o \notin device.supports
         /\ ~config.motion_correction_enabled
  BY BothStreams DEF OptionsTaken
<1>2. CASE /\ o = "motion_correction" /\ o \notin device.supports
           /\ ~config.motion_correction_enabled
  <2>1. o \notin device.obeys
    BY <1>2 DEF IsDevice
  <2>2. After(device, config, Both)[o] = options[device.serial][o]
    BY <2>1 DEF After
  <2>3. options[device.serial][o] = FALSE
    BY <1>2
  <2>4. Wanted(config)[o] = FALSE
    BY <1>2 DEF Wanted
  <2>. QED BY <2>2, <2>3, <2>4
<1>. QED BY <1>1, <1>2

LEMMA SettingsChanged ==
  ASSUME NEW rig, NEW settings, NEW value, NEW more, NEW i \in DOMAIN rig,
         IsRig(rig), settings = [s \in Serials(rig) |-> settings[s]],
         UnsupportedOff(rig, settings),
         "motion_correction" \notin rig[i].supports => value.motion_correction = FALSE,
         more = [settings EXCEPT ![rig[i].serial] = value]
  PROVE  more = [s \in Serials(rig) |-> more[s]] /\ UnsupportedOff(rig, more)
<1>1. DOMAIN settings = Serials(rig)
  OBVIOUS
<1>2. DOMAIN rig = 1 .. Len(rig)
  BY DEF IsRig
<1>3. more = [s \in Serials(rig) |-> more[s]]
  BY <1>1
<1>4. ASSUME NEW j \in DOMAIN rig, "motion_correction" \notin rig[j].supports
      PROVE  more[rig[j].serial].motion_correction = FALSE
  <2>1. rig[j].serial \in Serials(rig)
    BY <1>4 DEF Serials
  <2>2. CASE rig[j].serial = rig[i].serial
    <3>1. j = i
      BY <1>2, <1>4, <2>2 DEF IsRig
    <3>2. more[rig[j].serial] = value
      BY <1>1, <2>1, <2>2
    <3>. QED BY <1>4, <3>1, <3>2
  <2>3. CASE rig[j].serial # rig[i].serial
    <3>1. more[rig[j].serial] = settings[rig[j].serial]
      BY <1>1, <2>1, <2>3
    <3>. QED BY <1>4, <3>1 DEF UnsupportedOff
  <2>. QED BY <2>2, <2>3
<1>. QED BY <1>3, <1>4 DEF UnsupportedOff

LEMMA SettingsFound ==
  ASSUME NEW rig, NEW settings, IsRig(rig),
         settings = [s \in Serials(rig) |-> (CHOOSE d \in Range(rig) : d.serial = s).options]
  PROVE  settings = [s \in Serials(rig) |-> settings[s]] /\ UnsupportedOff(rig, settings)
<1>1. DOMAIN rig = 1 .. Len(rig)
  BY DEF IsRig
<1>2. settings = [s \in Serials(rig) |-> settings[s]]
  OBVIOUS
<1>3. ASSUME NEW i \in DOMAIN rig, "motion_correction" \notin rig[i].supports
      PROVE  settings[rig[i].serial].motion_correction = FALSE
  <2>. DEFINE found == CHOOSE d \in Range(rig) : d.serial = rig[i].serial
  <2>1. rig[i] \in Range(rig) /\ rig[i].serial \in Serials(rig)
    BY <1>3 DEF Range, Serials
  <2>2. found \in Range(rig) /\ found.serial = rig[i].serial
    BY <2>1
  <2>3. settings[rig[i].serial] = found.options
    BY <2>1
  <2>. HIDE DEF found
  <2>4. PICK j \in DOMAIN rig : found = rig[j]
    BY <2>2 DEF Range
  <2>5. j = i
    BY <1>1, <1>3, <2>2, <2>4 DEF IsRig
  <2>6. rig[i].options.motion_correction = FALSE
    BY <1>1, <1>3 DEF IsRig, IsDevice
  <2>. QED BY <2>3, <2>4, <2>5, <2>6
<1>. QED BY <1>2, <1>3 DEF UnsupportedOff

----------------------------------------------------------------------------
(* The inductive invariant                                                 *)
(* Who may run which step with the device streaming, what lies on disk and *)
(* is plugged in, what a recording says of itself, and what each of the    *)
(* estimating tools has found out by the step it has reached.  A step may  *)
(* rely on an earlier one only as long as no file was saved in between.    *)

Control ==
  /\ tool \in Tools /\ step \in Steps
  /\ tool = "none" <=> step = "idle"
  /\ tool = "replay" => step \in {"validate", "load", "archive", "run"}
  /\ tool = "record" => step \in {"validate", "run"}
  /\ tool = "inspect" => step = "validate"
  /\ edited \in BOOLEAN

Streaming ==
  /\ streaming \in BOOLEAN
  /\ streaming = TRUE => << tool, step >> \in
       {<< "live", "check" >>, << "live", "run" >>, << "record", "run" >>}
  /\ << tool, step >> \in {<< "live", "check" >>, << "live", "run" >>, << "record", "run" >>}
       => streaming = TRUE

Counters == sessions \in 0 .. MaxSessions /\ edits \in 0 .. MaxEdits

Shapes ==
  /\ held = [request |-> held.request, main |-> held.main, config |-> held.config,
             report |-> held.report]
  /\ run = [mark |-> run.mark, documents |-> run.documents]
  /\ run.mark \in Marks
  /\ DOMAIN run.documents = DOMAIN NoDocuments
  /\ DOMAIN estimator = DOMAIN NoDocuments

Directory == IsFiles(files) /\ (export # Missing => IsDocument(export))

Plugged ==
  /\ IsRig(plugged)
  /\ options = [s \in Serials(plugged) |-> options[s]]
  /\ UnsupportedOff(plugged, options)

\* A recording is the work of the device and the configuration it began with.
IsRecording(d) ==
  /\ d = [mark |-> d.mark, format |-> d.format, report |-> d.report, stream |-> d.stream,
          origin |-> d.origin]
  /\ d.mark \in {"INCOMPLETE", "complete"}
  /\ WellConfigured(d.origin.config) /\ IsDevice(d.origin.device)
  /\ d.stream = StreamDocument([d.origin.config EXCEPT !.serial = d.origin.device.serial])
  /\ d.format = Both.format
       => /\ d.report = Report(d.origin.device, d.origin.config, Both)
          /\ \A o \in OptionNames : d.origin.options[o] = Wanted(d.origin.config)[o]

Recording ==
  /\ dataset # Missing => IsRecording(dataset)
  /\ tool = "record" /\ step = "validate" => held.request.mode \in Modes
  /\ tool = "record" /\ step = "run" => IsRecording(dataset)

\* What ovrs_live knows.
Live ==
  tool = "live" =>
    /\ step \in {"load", "archive", "start", "check", "run"} => WellConfigured(held.config)
    /\ step \in {"check", "run"} =>
         /\ held.report = Report(DeviceIn(plugged, held.config), held.config, Both)
         /\ \A o \in OptionNames :
              options[DeviceIn(plugged, held.config).serial][o] = Wanted(held.config)[o]
    /\ ~edited =>
         /\ held.main = files.main
         /\ step # "validate" => DocumentsAdmitted(files.at, files.main, held.request.allow)
         /\ step \in {"load", "archive", "start", "check", "run"}
              => ResolutionMatches(files.at, files.main, held.config.width, held.config.height)
         /\ step \in {"archive", "start", "check", "run"} => estimator = PresentIn(files)
         /\ step \in {"start", "check", "run"} => run.documents = PresentIn(files)
         /\ step = "run" => CaptureAdmitted(files.at, files.main, held.report,
                                            StreamDocument(held.config))

\* What ovrs_replay knows.
ReplayKnows ==
  tool = "replay" =>
    /\ IsRecording(dataset)
    /\ step # "validate" => dataset.format = Both.format
    /\ ~edited =>
         /\ held.main = files.main
         /\ step # "validate" =>
              /\ DocumentsAdmitted(files.at, files.main, held.request.allow)
              /\ CaptureAdmitted(files.at, files.main, dataset.report, dataset.stream)
              /\ ResolutionMatches(files.at, files.main, dataset.origin.config.width,
                                   dataset.origin.config.height)
         /\ step \in {"archive", "run"} => estimator = PresentIn(files)
         /\ step = "run" => run.documents = PresentIn(files)

IInv ==
  /\ Control /\ Streaming /\ Counters /\ Shapes /\ Directory /\ Plugged /\ Recording
  /\ Live /\ ReplayKnows

----------------------------------------------------------------------------
(* What every step keeps                                                   *)

\* A session ends with nothing running and nothing streaming.
LEMMA Ended ==
  ASSUME End
  PROVE  /\ tool' = "none" /\ step' = "idle" /\ held' = NoReading /\ streaming' = FALSE
         /\ UNCHANGED << files, plugged, edits, dataset, export, edited, sessions >>
BY DEF End, outside

\* Whoever begins.
LEMMA BeginsLive ==
  ASSUME BeginLive
  PROVE  /\ tool = "none" /\ tool' = "live" /\ step' = "validate"
         /\ sessions < MaxSessions /\ sessions' = sessions + 1
         /\ edited' = FALSE /\ export' = Missing /\ dataset' = Missing
         /\ estimator' = NoDocuments /\ run' = [mark |-> "none", documents |-> NoDocuments]
         /\ \E r \in Requests :
              held' = [NoReading EXCEPT
                         !.request = [allow |-> r.allow, file |-> r.file, cli |-> r.cli],
                         !.main = files.main]
         /\ UNCHANGED << files, plugged, edits, options, streaming >>
BY DEF BeginLive, Begin, outside

LEMMA BeginsRecord ==
  ASSUME BeginRecord
  PROVE  /\ tool = "none" /\ tool' = "record" /\ step' = "validate"
         /\ sessions < MaxSessions /\ sessions' = sessions + 1
         /\ edited' = FALSE /\ export' = Missing /\ dataset' = Missing
         /\ estimator' = NoDocuments /\ run' = [mark |-> "none", documents |-> NoDocuments]
         /\ \E r \in Requests :
              held' = [NoReading EXCEPT
                         !.request = [mode |-> r.mode, file |-> r.file, cli |-> r.cli],
                         !.main = files.main]
         /\ UNCHANGED << files, plugged, edits, options, streaming >>
BY DEF BeginRecord, Begin, outside

LEMMA BeginsReplay ==
  ASSUME BeginReplay
  PROVE  /\ tool = "none" /\ tool' = "replay" /\ step' = "validate"
         /\ sessions < MaxSessions /\ sessions' = sessions + 1
         /\ edited' = FALSE /\ export' = Missing /\ dataset # Missing /\ dataset' = dataset
         /\ estimator' = NoDocuments /\ run' = [mark |-> "none", documents |-> NoDocuments]
         /\ \E r \in Requests :
              held' = [NoReading EXCEPT !.request = [allow |-> r.allow], !.main = files.main]
         /\ UNCHANGED << files, plugged, edits, options, streaming >>
BY DEF BeginReplay, Begin, outside

LEMMA BeginsInspect ==
  ASSUME BeginInspect
  PROVE  /\ tool = "none" /\ tool' = "inspect" /\ step' = "validate"
         /\ sessions < MaxSessions /\ sessions' = sessions + 1
         /\ edited' = FALSE /\ export' = Missing /\ dataset' = Missing
         /\ estimator' = NoDocuments /\ run' = [mark |-> "none", documents |-> NoDocuments]
         /\ \E r \in Requests :
              held' = [NoReading EXCEPT !.request = [file |-> r.file, cli |-> r.cli],
                                        !.main = files.main]
         /\ UNCHANGED << files, plugged, edits, options, streaming >>
BY DEF BeginInspect, Begin, outside

\* The steps of a session that leave the operator's side alone: what the tool
\* does next, whether it streams and which of its variables it may write.
LEMMA LiveSteps ==
  ASSUME LiveValidate \/ LiveConfigure \/ LiveLoad \/ LiveArchive \/ LiveStart \/ LiveCheck
  PROVE  /\ tool = "live" /\ UNCHANGED << files, plugged, edits, dataset, export, edited, sessions >>
         /\ \/ tool' = "none" /\ step' = "idle" /\ streaming' = FALSE
            \/ /\ tool' = "live"
               /\ \/ step = "validate" /\ step' = "configure" /\ UNCHANGED streaming
                  \/ step = "configure" /\ step' = "load" /\ UNCHANGED streaming
                  \/ step = "load" /\ step' = "archive" /\ UNCHANGED streaming
                  \/ step = "archive" /\ step' = "start" /\ UNCHANGED streaming
                  \/ step = "start" /\ step' = "check" /\ streaming' = TRUE
                  \/ step = "check" /\ step' = "run" /\ UNCHANGED streaming
<1>1. CASE LiveValidate
  BY <1>1 DEF LiveValidate, Refuse, End, Proceed, outside
<1>2. CASE LiveConfigure
  BY <1>2 DEF LiveConfigure, Refuse, End, Proceed, outside
<1>3. CASE LiveLoad
  BY <1>3 DEF LiveLoad, Load, Refuse, End, Proceed, outside
<1>4. CASE LiveArchive
  BY <1>4 DEF LiveArchive, Archive, Refuse, End, Proceed, outside
<1>5. CASE LiveStart
  BY <1>5 DEF LiveStart, End, Proceed, outside
<1>6. CASE LiveCheck
  BY <1>6 DEF LiveCheck, Refuse, End, Proceed, outside
<1>. QED BY <1>1, <1>2, <1>3, <1>4, <1>5, <1>6

LEMMA ReplaySteps ==
  ASSUME ReplayValidate \/ ReplayLoad \/ ReplayArchive
  PROVE  /\ tool = "replay"
         /\ UNCHANGED << files, plugged, edits, dataset, export, edited, sessions, options >>
         /\ \/ tool' = "none" /\ step' = "idle" /\ streaming' = FALSE
            \/ /\ tool' = "replay" /\ UNCHANGED << streaming, held >>
               /\ \/ step = "validate" /\ step' = "load"
                  \/ step = "load" /\ step' = "archive"
                  \/ step = "archive" /\ step' = "run"
<1>1. CASE ReplayValidate
  BY <1>1 DEF ReplayValidate, Refuse, End, Proceed, outside
<1>2. CASE ReplayLoad
  BY <1>2 DEF ReplayLoad, Load, Refuse, End, Proceed, outside
<1>3. CASE ReplayArchive
  BY <1>3 DEF ReplayArchive, Archive, Refuse, End, Proceed, outside
<1>. QED BY <1>1, <1>2, <1>3

LEMMA Finishes ==
  ASSUME FinishRun
  PROVE  /\ tool \in {"live", "replay"} /\ tool' = "none" /\ step' = "idle" /\ streaming' = FALSE
         /\ \E mark \in {"complete", "INCOMPLETE"} : run' = [run EXCEPT !.mark = mark]
         /\ held' = NoReading
         /\ UNCHANGED << files, plugged, edits, dataset, export, edited, sessions, options,
                         estimator >>
BY DEF FinishRun, End, outside

LEMMA RecordSteps ==
  ASSUME RecordStart \/ RecordFinish
  PROVE  /\ tool = "record"
         /\ UNCHANGED << files, plugged, edits, export, edited, sessions, estimator, run >>
         /\ \/ tool' = "none" /\ step' = "idle" /\ streaming' = FALSE /\ held' = NoReading
            \/ /\ step = "validate" /\ tool' = "record" /\ step' = "run" /\ streaming' = TRUE
               /\ UNCHANGED held
<1>1. CASE RecordStart
  BY <1>1 DEF RecordStart, Refuse, End, outside
<1>2. CASE RecordFinish
  BY <1>2 DEF RecordFinish, outside
<1>. QED BY <1>1, <1>2

LEMMA Inspects ==
  ASSUME Inspect
  PROVE  /\ tool = "inspect" /\ tool' = "none" /\ step' = "idle" /\ held' = NoReading
         /\ streaming' \in {streaming, FALSE}
         /\ UNCHANGED << files, plugged, edits, dataset, edited, sessions, estimator, run >>
BY DEF Inspect, Refuse, End, outside

LEMMA ControlKept ==
  ASSUME Control, Next
  PROVE  Control'
<1>. USE DEF Control, Tools, Steps
<1>1. CASE BeginLive
  BY <1>1, BeginsLive
<1>2. CASE BeginRecord
  BY <1>2, BeginsRecord
<1>3. CASE BeginReplay
  BY <1>3, BeginsReplay
<1>4. CASE BeginInspect
  BY <1>4, BeginsInspect
<1>5. CASE LiveValidate \/ LiveConfigure \/ LiveLoad \/ LiveArchive \/ LiveStart \/ LiveCheck
  BY <1>5, LiveSteps
<1>6. CASE ReplayValidate \/ ReplayLoad \/ ReplayArchive
  BY <1>6, ReplaySteps
<1>7. CASE FinishRun
  BY <1>7, Finishes
<1>8. CASE RecordStart \/ RecordFinish
  BY <1>8, RecordSteps
<1>9. CASE Inspect
  BY <1>9, Inspects
<1>10. CASE Save
  BY <1>10 DEF Save
<1>11. CASE Adopt
  BY <1>11 DEF Adopt
<1>12. CASE Replug
  BY <1>12 DEF Replug
<1>. QED BY <1>1, <1>2, <1>3, <1>4, <1>5, <1>6, <1>7, <1>8, <1>9, <1>10, <1>11, <1>12 DEF Next

LEMMA StreamingKept ==
  ASSUME Control, Streaming, Next
  PROVE  Streaming'
<1>. USE DEF Control, Streaming
<1>1. CASE BeginLive
  BY <1>1, BeginsLive
<1>2. CASE BeginRecord
  BY <1>2, BeginsRecord
<1>3. CASE BeginReplay
  BY <1>3, BeginsReplay
<1>4. CASE BeginInspect
  BY <1>4, BeginsInspect
<1>5. CASE LiveValidate \/ LiveConfigure \/ LiveLoad \/ LiveArchive \/ LiveStart \/ LiveCheck
  BY <1>5, LiveSteps
<1>6. CASE ReplayValidate \/ ReplayLoad \/ ReplayArchive
  BY <1>6, ReplaySteps
<1>7. CASE FinishRun
  BY <1>7, Finishes
<1>8. CASE RecordStart \/ RecordFinish
  BY <1>8, RecordSteps
<1>9. CASE Inspect
  BY <1>9, Inspects
<1>10. CASE Save
  BY <1>10 DEF Save
<1>11. CASE Adopt
  BY <1>11 DEF Adopt
<1>12. CASE Replug
  BY <1>12 DEF Replug
<1>. QED BY <1>1, <1>2, <1>3, <1>4, <1>5, <1>6, <1>7, <1>8, <1>9, <1>10, <1>11, <1>12 DEF Next

LEMMA CountersKept ==
  ASSUME Counters, Next
  PROVE  Counters'
<1>. USE AdmissionAssumption DEF Counters
<1>1. CASE BeginLive \/ BeginRecord \/ BeginReplay \/ BeginInspect
  <2>1. sessions < MaxSessions /\ sessions' = sessions + 1 /\ edits' = edits
    BY <1>1, BeginsLive, BeginsRecord, BeginsReplay, BeginsInspect
  <2>. QED BY <2>1
<1>2. CASE \/ LiveValidate \/ LiveConfigure \/ LiveLoad \/ LiveArchive \/ LiveStart \/ LiveCheck
           \/ ReplayValidate \/ ReplayLoad \/ ReplayArchive \/ FinishRun
           \/ RecordStart \/ RecordFinish \/ Inspect
  <2>1. sessions' = sessions /\ edits' = edits
    BY <1>2, LiveSteps, ReplaySteps, Finishes, RecordSteps, Inspects
  <2>. QED BY <2>1
<1>3. CASE Save \/ Adopt \/ Replug
  <2>1. edits < MaxEdits /\ edits' = edits + 1 /\ sessions' = sessions
    BY <1>3 DEF Save, Adopt, Replug
  <2>. QED BY <2>1
<1>. QED BY <1>1, <1>2, <1>3 DEF Next

LEMMA ShapesKept ==
  ASSUME Shapes, Next
  PROVE  Shapes'
<1>. DEFINE heldIs == held' = [request |-> held'.request, main |-> held'.main,
                               config |-> held'.config, report |-> held'.report]
            runIs == /\ run' = [mark |-> run'.mark, documents |-> run'.documents]
                     /\ run'.mark \in Marks
                     /\ DOMAIN run'.documents = DOMAIN NoDocuments
                     /\ DOMAIN estimator' = DOMAIN NoDocuments
<1>1. CASE BeginLive
  <2>1. heldIs
    BY <1>1, BeginsLive DEF NoReading
  <2>2. run' = [mark |-> "none", documents |-> NoDocuments] /\ estimator' = NoDocuments
    BY <1>1, BeginsLive
  <2>3. runIs
    BY <2>2 DEF Marks
  <2>. QED BY <2>1, <2>3 DEF Shapes
<1>2. CASE BeginRecord
  <2>1. heldIs
    BY <1>2, BeginsRecord DEF NoReading
  <2>2. run' = [mark |-> "none", documents |-> NoDocuments] /\ estimator' = NoDocuments
    BY <1>2, BeginsRecord
  <2>3. runIs
    BY <2>2 DEF Marks
  <2>. QED BY <2>1, <2>3 DEF Shapes
<1>3. CASE BeginReplay
  <2>1. heldIs
    BY <1>3, BeginsReplay DEF NoReading
  <2>2. run' = [mark |-> "none", documents |-> NoDocuments] /\ estimator' = NoDocuments
    BY <1>3, BeginsReplay
  <2>3. runIs
    BY <2>2 DEF Marks
  <2>. QED BY <2>1, <2>3 DEF Shapes
<1>4. CASE BeginInspect
  <2>1. heldIs
    BY <1>4, BeginsInspect DEF NoReading
  <2>2. run' = [mark |-> "none", documents |-> NoDocuments] /\ estimator' = NoDocuments
    BY <1>4, BeginsInspect
  <2>3. runIs
    BY <2>2 DEF Marks
  <2>. QED BY <2>1, <2>3 DEF Shapes
<1>5. ASSUME held' = NoReading \/ held' = held,
             run' = run, estimator' = estimator
      PROVE  Shapes'
  <2>1. heldIs
    BY <1>5 DEF NoReading, Shapes
  <2>. QED BY <1>5, <2>1 DEF Shapes
<1>6. CASE LiveValidate
  BY <1>5, <1>6 DEF LiveValidate, Refuse, End
<1>7. CASE LiveConfigure
  <2>1. CASE held' = [held EXCEPT !.config = Configured(held.request, Calibrated)]
               /\ UNCHANGED << run, estimator >>
    <3>1. heldIs
      BY <2>1 DEF Shapes
    <3>. QED BY <2>1, <3>1 DEF Shapes
  <2>2. CASE Refuse
    BY <1>5, <2>2 DEF Refuse, End
  <2>. QED BY <1>7, <2>1, <2>2 DEF LiveConfigure
<1>8. CASE LiveLoad \/ ReplayLoad
  <2>1. CASE /\ estimator' = Present(files.main) /\ run' = [run EXCEPT !.mark = "INCOMPLETE"]
             /\ held' = held
    <3>1. heldIs /\ runIs
      BY <2>1 DEF Shapes, Present, NoDocuments, Marks
    <3>. QED BY <3>1 DEF Shapes
  <2>2. CASE Refuse
    BY <1>5, <2>2 DEF Refuse, End
  <2>. QED BY <1>8, <2>1, <2>2 DEF LiveLoad, ReplayLoad, Load
<1>9. CASE LiveArchive \/ ReplayArchive
  <2>1. CASE run' = [run EXCEPT !.documents = Copied] /\ UNCHANGED << held, estimator >>
    <3>1. heldIs /\ runIs
      BY <2>1 DEF Shapes, Copied, Present, NoDocuments, Marks
    <3>. QED BY <3>1 DEF Shapes
  <2>2. CASE Refuse
    BY <1>5, <2>2 DEF Refuse, End
  <2>. QED BY <1>9, <2>1, <2>2 DEF LiveArchive, ReplayArchive, Archive
<1>10. CASE LiveStart
  <2>1. CASE held' = [held EXCEPT !.report = Report(Device(held.config), held.config, Both)]
               /\ UNCHANGED << run, estimator >>
    <3>1. heldIs
      BY <2>1 DEF Shapes
    <3>. QED BY <2>1, <3>1 DEF Shapes
  <2>2. CASE End /\ UNCHANGED << estimator, run >>
    BY <1>5, <2>2 DEF End
  <2>. QED BY <1>10, <2>1, <2>2 DEF LiveStart
<1>11. CASE LiveCheck
  BY <1>5, <1>11 DEF LiveCheck, Refuse, End
<1>12. CASE ReplayValidate
  BY <1>5, <1>12 DEF ReplayValidate, Refuse, End
<1>13. CASE FinishRun
  <2>1. heldIs
    BY <1>13, Finishes DEF NoReading
  <2>2. runIs
    BY <1>13, Finishes DEF Shapes, Marks
  <2>. QED BY <2>1, <2>2 DEF Shapes
<1>14. CASE RecordStart \/ RecordFinish
  BY <1>5, <1>14, RecordSteps
<1>15. CASE Inspect
  BY <1>5, <1>15, Inspects
<1>16. CASE Save \/ Adopt \/ Replug
  BY <1>5, <1>16 DEF Save, Adopt, Replug
<1>. QED
  BY <1>1, <1>2, <1>3, <1>4, <1>6, <1>7, <1>8, <1>9, <1>10, <1>11, <1>12, <1>13, <1>14, <1>15,
     <1>16 DEF Next

----------------------------------------------------------------------------
(* The factory calibration                                                 *)

LEMMA OneLine ==
  ASSUME NEW a
  PROVE  Len(<< a >>) \in Nat /\ << a >> = [i \in 1 .. Len(<< a >>) |-> << a >>[i]]
OBVIOUS

LEMMA TwoLines ==
  ASSUME NEW a, NEW b
  PROVE  Len(<< a, b >>) \in Nat /\ << a, b >> = [i \in 1 .. Len(<< a, b >>) |-> << a, b >>[i]]
OBVIOUS

FactoryKeys ==
  {"calibration_state", "calibrated_serial", "T_gyro_accel", "cam0", "cam1", "T_imu_cam",
   "camera_model", "realsense_distortion_model", "realsense_distortion_coeffs",
   "distortion_model", "distortion_coeffs", "intrinsics", "resolution", "timeshift_cam_imu"}

LEMMA FactorySays ==
  ASSUME NEW device, NEW config
  PROVE  LET doc == FactoryCalibration(device, config)
             lens1 == device.cameras[1]  lens2 == device.cameras[2]
             size == << config.width, config.height >>
         IN /\ DOMAIN doc = FactoryKeys
            /\ doc["calibration_state"] = << Bootstrap >>
            /\ doc["calibrated_serial"] = << device.serial >>
            /\ doc["T_gyro_accel"] = << Missing >>
            /\ doc["cam0"] = << Missing >>
            /\ doc["cam1"] = << Missing >>
            /\ doc["T_imu_cam"]
                 = << PrintedMatrix(lens1.transform), PrintedMatrix(lens2.transform) >>
            /\ doc["camera_model"] = << "pinhole", "pinhole" >>
            /\ doc["realsense_distortion_model"] = << lens1.model, lens2.model >>
            /\ doc["realsense_distortion_coeffs"]
                 = << PrintedList(lens1.coefficients), PrintedList(lens2.coefficients) >>
            /\ doc["distortion_model"] = << "radtan", "radtan" >>
            /\ doc["distortion_coeffs"]

                      = << SubSeq(PrintedList(lens1.coefficients), 1, 4),
                           SubSeq(PrintedList(lens2.coefficients), 1, 4) >>
            /\ doc["intrinsics"]
                 = << PrintedList(lens1.intrinsics), PrintedList(lens2.intrinsics) >>
            /\ doc["resolution"] = << size, size >>
            /\ doc["timeshift_cam_imu"] = << 0, 0 >>
BY DEF FactoryCalibration, CameraSection, FactoryKeys

LEMMA FactoryIsDocument ==
  ASSUME NEW device, NEW config
  PROVE  IsDocument(FactoryCalibration(device, config))
<1>. DEFINE doc == FactoryCalibration(device, config)
            lens1 == device.cameras[1]
            lens2 == device.cameras[2]
            size == << config.width, config.height >>
            fine(lines) == Len(lines) \in Nat /\ lines = [i \in 1 .. Len(lines) |-> lines[i]]
<1>1. DOMAIN doc = FactoryKeys
  BY FactorySays
<1>2. /\ fine(doc["calibration_state"]) /\ fine(doc["calibrated_serial"])
      /\ fine(doc["T_gyro_accel"]) /\ fine(doc["cam0"]) /\ fine(doc["cam1"])
  <2>1. \A a : fine(<< a >>)
    BY OneLine
  <2>. HIDE DEF fine
  <2>2. fine(<< Bootstrap >>) /\ fine(<< device.serial >>) /\ fine(<< Missing >>)
    BY <2>1
  <2>3. /\ doc["calibration_state"] = << Bootstrap >>
        /\ doc["calibrated_serial"] = << device.serial >>
        /\ doc["T_gyro_accel"] = << Missing >>
        /\ doc["cam0"] = << Missing >> /\ doc["cam1"] = << Missing >>
    BY FactorySays
  <2>. HIDE DEF doc
  <2>. QED BY <2>2, <2>3
<1>3. /\ fine(doc["T_imu_cam"]) /\ fine(doc["camera_model"])
      /\ fine(doc["realsense_distortion_model"]) /\ fine(doc["realsense_distortion_coeffs"])
      /\ fine(doc["distortion_model"]) /\ fine(doc["distortion_coeffs"])
      /\ fine(doc["intrinsics"]) /\ fine(doc["resolution"]) /\ fine(doc["timeshift_cam_imu"])
  <2>1. \A a, b : fine(<< a, b >>)
    BY TwoLines
  <2>. HIDE DEF fine
  <2>2. fine(<< PrintedMatrix(lens1.transform), PrintedMatrix(lens2.transform) >>)
          /\ fine(<< "pinhole", "pinhole" >>)
          /\ fine(<< lens1.model, lens2.model >>)
    BY <2>1
  <2>3. fine(<< PrintedList(lens1.coefficients), PrintedList(lens2.coefficients) >>)
          /\ fine(<< "radtan", "radtan" >>)
    BY <2>1
  <2>4. fine(<< SubSeq(PrintedList(lens1.coefficients), 1, 4),
                SubSeq(PrintedList(lens2.coefficients), 1, 4) >>)
    BY <2>1
  <2>5. fine(<< PrintedList(lens1.intrinsics), PrintedList(lens2.intrinsics) >>)
          /\ fine(<< size, size >>)
          /\ fine(<< 0, 0 >>)
    BY <2>1
  <2>6. /\ doc["T_imu_cam"] = << PrintedMatrix(lens1.transform), PrintedMatrix(lens2.transform) >>
        /\ doc["camera_model"] = << "pinhole", "pinhole" >>
        /\ doc["realsense_distortion_model"] = << lens1.model, lens2.model >>
        /\ doc["realsense_distortion_coeffs"]
             = << PrintedList(lens1.coefficients), PrintedList(lens2.coefficients) >>
        /\ doc["distortion_model"] = << "radtan", "radtan" >>
        /\ doc["distortion_coeffs"]

                  = << SubSeq(PrintedList(lens1.coefficients), 1, 4),
                       SubSeq(PrintedList(lens2.coefficients), 1, 4) >>
        /\ doc["intrinsics"] = << PrintedList(lens1.intrinsics), PrintedList(lens2.intrinsics) >>
        /\ doc["resolution"] = << size, size >>
        /\ doc["timeshift_cam_imu"] = << 0, 0 >>
    BY FactorySays
  <2>. HIDE DEF doc, lens1, lens2, size
  <2>. QED BY <2>2, <2>3, <2>4, <2>5, <2>6
<1>. HIDE DEF doc
<1>4. \A key \in DOMAIN doc : fine(doc[key])
  <2>. HIDE DEF fine
  <2>. QED BY <1>1, <1>2, <1>3 DEF FactoryKeys
<1>. QED BY <1>4 DEF IsDocument, doc

PairKeys ==
  {"T_imu_cam", "camera_model", "realsense_distortion_model", "realsense_distortion_coeffs",
   "distortion_model", "distortion_coeffs", "intrinsics", "resolution", "timeshift_cam_imu"}

LEMMA FactoryCounts ==
  ASSUME NEW device, NEW config
  PROVE  LET doc == FactoryCalibration(device, config) IN
         /\ \A key \in PairKeys : KeyCount(doc, key) = 2
         /\ \A key \in FactoryKeys \ PairKeys : KeyCount(doc, key) = 1
         /\ \A key \in {"INVALID PLACEHOLDER", "T_cam_imu", "camera_calibration_method"} :
              KeyCount(doc, key) = 0
         /\ Scalar(doc, "camera_calibration_method") = Missing
         /\ Scalar(doc, "calibration_state") = Bootstrap
         /\ Scalar(doc, "calibrated_serial") = device.serial
<1>. DEFINE doc == FactoryCalibration(device, config)
            lens1 == device.cameras[1]
            lens2 == device.cameras[2]
            size == << config.width, config.height >>
<1>1. DOMAIN doc = FactoryKeys
  BY FactorySays
<1>2. /\ doc["calibration_state"] = << Bootstrap >>
      /\ doc["calibrated_serial"] = << device.serial >>
      /\ doc["T_gyro_accel"] = << Missing >>
      /\ doc["cam0"] = << Missing >> /\ doc["cam1"] = << Missing >>
  BY FactorySays
<1>3. /\ doc["T_imu_cam"] = << PrintedMatrix(lens1.transform), PrintedMatrix(lens2.transform) >>
      /\ doc["camera_model"] = << "pinhole", "pinhole" >>
      /\ doc["realsense_distortion_model"] = << lens1.model, lens2.model >>
      /\ doc["realsense_distortion_coeffs"]
           = << PrintedList(lens1.coefficients), PrintedList(lens2.coefficients) >>
      /\ doc["distortion_model"] = << "radtan", "radtan" >>
      /\ doc["distortion_coeffs"]

                = << SubSeq(PrintedList(lens1.coefficients), 1, 4),
                     SubSeq(PrintedList(lens2.coefficients), 1, 4) >>
      /\ doc["intrinsics"] = << PrintedList(lens1.intrinsics), PrintedList(lens2.intrinsics) >>
      /\ doc["resolution"] = << size, size >>
      /\ doc["timeshift_cam_imu"] = << 0, 0 >>
  BY FactorySays
<1>. HIDE DEF doc, lens1, lens2, size
<1>4. ASSUME NEW key \in FactoryKeys
      PROVE  Scalars(doc, key) = doc[key] /\ KeyCount(doc, key) = Len(doc[key])
  BY <1>1, <1>4 DEF Scalars, KeyCount
<1>5. ASSUME NEW key \in PairKeys
      PROVE  KeyCount(doc, key) = 2
  <2>1. Len(doc[key]) = 2
    <3>1. /\ Len(doc["T_imu_cam"]) = 2 /\ Len(doc["camera_model"]) = 2
          /\ Len(doc["realsense_distortion_model"]) = 2
      BY <1>3
    <3>2. /\ Len(doc["realsense_distortion_coeffs"]) = 2
          /\ Len(doc["distortion_model"]) = 2 /\ Len(doc["distortion_coeffs"]) = 2
      BY <1>3
    <3>3. /\ Len(doc["intrinsics"]) = 2 /\ Len(doc["resolution"]) = 2
          /\ Len(doc["timeshift_cam_imu"]) = 2
      BY <1>3
    <3>. QED BY <1>5, <3>1, <3>2, <3>3 DEF PairKeys
  <2>2. key \in FactoryKeys
    BY <1>5 DEF PairKeys, FactoryKeys
  <2>. QED BY <1>4, <2>1, <2>2
<1>6. ASSUME NEW key \in FactoryKeys \ PairKeys
      PROVE  KeyCount(doc, key) = 1
  <2>1. key \in {"calibration_state", "calibrated_serial", "T_gyro_accel", "cam0", "cam1"}
    BY <1>6 DEF PairKeys, FactoryKeys
  <2>2. Len(doc[key]) = 1
    BY <1>2, <2>1
  <2>. QED BY <1>4, <1>6, <2>2
<1>7. ASSUME NEW key \in {"INVALID PLACEHOLDER", "T_cam_imu", "camera_calibration_method"}
      PROVE  KeyCount(doc, key) = 0
  <2>1. key \notin DOMAIN doc
    BY <1>1, <1>7 DEF FactoryKeys
  <2>. QED BY <2>1 DEF KeyCount, Scalars
<1>8. Scalar(doc, "camera_calibration_method") = Missing
  BY <1>7 DEF Scalar
<1>9. Scalar(doc, "calibration_state") = Bootstrap
  <2>1. "calibration_state" \in FactoryKeys \ PairKeys
    BY DEF PairKeys, FactoryKeys
  <2>2. KeyCount(doc, "calibration_state") = 1 /\ Scalars(doc, "calibration_state")
       = << Bootstrap >>
    BY <1>2, <1>4, <1>6, <2>1
  <2>. QED BY <2>2 DEF Scalar
<1>10. Scalar(doc, "calibrated_serial") = device.serial
  <2>1. "calibrated_serial" \in FactoryKeys \ PairKeys
    BY DEF PairKeys, FactoryKeys
  <2>2. /\ KeyCount(doc, "calibrated_serial") = 1
        /\ Scalars(doc, "calibrated_serial") = << device.serial >>
    BY <1>2, <1>4, <1>6, <2>1
  <2>. QED BY <2>2 DEF Scalar
<1>. QED BY <1>5, <1>6, <1>7, <1>8, <1>9, <1>10 DEF doc

\* What is printed is a number again.
LEMMA LargestDecade ==
  ASSUME NEW c \in Nat \ {0}
  PROVE  Max({u \in Decades : u <= c}) \in Nat \ {0}
<1>. DEFINE fitting == {u \in Decades : u <= c}
<1>1. \E u \in fitting : \A v \in fitting : u >= v
  <2>1. CASE c >= 100000000
    BY <2>1 DEF Decades
  <2>2. CASE 10000000 <= c /\ c < 100000000
    BY <2>2 DEF Decades
  <2>3. CASE 1000000 <= c /\ c < 10000000
    BY <2>3 DEF Decades
  <2>4. CASE 100000 <= c /\ c < 1000000
    BY <2>4 DEF Decades
  <2>5. CASE 10000 <= c /\ c < 100000
    BY <2>5 DEF Decades
  <2>6. CASE 1000 <= c /\ c < 10000
    BY <2>6 DEF Decades
  <2>7. CASE 100 <= c /\ c < 1000
    BY <2>7 DEF Decades
  <2>8. CASE 10 <= c /\ c < 100
    BY <2>8 DEF Decades
  <2>9. CASE 1 <= c /\ c < 10
    BY <2>9 DEF Decades
  <2>. QED BY <2>1, <2>2, <2>3, <2>4, <2>5, <2>6, <2>7, <2>8, <2>9
<1>2. fitting \subseteq Nat \ {0}
  BY DEF Decades
<1>. HIDE DEF fitting
<1>3. Max(fitting) \in fitting
  BY <1>1 DEF Max
<1>. QED BY <1>2, <1>3 DEF fitting

LEMMA QuotientPositive ==
  ASSUME NEW a \in Nat, NEW b \in Nat \ {0}, ~(a < b)
  PROVE  a \div b \in Nat \ {0}
OBVIOUS

LEMMA RoundedNumber ==
  ASSUME NEW n \in Int, NEW limit \in Nat \ {0}
  PROVE  Rounded(n, limit) \in Int
<1>. DEFINE size == IF n < 0 THEN -n ELSE n
            largest == Max({u \in Decades : u <= size \div limit})
            unit == 10 * largest
            text == ((size + unit \div 2) \div unit) * unit
<1>1. size \in Nat
  OBVIOUS
<1>2. CASE size < limit
  BY <1>2 DEF Rounded
<1>3. CASE ~(size < limit)
  <2>1. size \div limit \in Nat \ {0}
    BY <1>1, <1>3, QuotientPositive
  <2>2. largest \in Nat \ {0}
    BY <2>1, LargestDecade
  <2>3. unit \in Nat \ {0}
    <3>. HIDE DEF largest
    <3>. QED BY <2>2
  <2>4. text \in Int
    <3>. HIDE DEF unit, size
    <3>1. unit \div 2 \in Int
      BY <2>3
    <3>2. (size + unit \div 2) \div unit \in Int
      BY <1>1, <2>3, <3>1
    <3>. QED BY <2>3, <3>2
  <2>5. Rounded(n, limit) = IF n < 0 THEN -text ELSE text
    BY <1>3 DEF Rounded
  <2>. HIDE DEF text
  <2>. QED BY <2>4, <2>5
<1>. QED BY <1>2, <1>3

LEMMA PrintedNumbers ==
  ASSUME NEW list \in Seq(Int)
  PROVE  /\ PrintedList(list) \in Seq(Int) /\ Len(PrintedList(list)) = Len(list)
         /\ \A k \in 1 .. Len(list) : list[k] = 0 => PrintedList(list)[k] = 0
<1>1. ASSUME NEW k \in 1 .. Len(list)
      PROVE  SixDigits(list[k]) \in Int
  <2>. DEFINE n == list[k]
              limit == 1000000
  <2>1. n \in Int /\ limit \in Nat \ {0}
    BY <1>1
  <2>2. SixDigits(n) = Rounded(n, limit)
    BY DEF SixDigits
  <2>. HIDE DEF n, limit
  <2>3. Rounded(n, limit) \in Int
    BY <2>1, RoundedNumber
  <2>4. SixDigits(n) \in Int
    BY <2>2, <2>3
  <2>. QED BY <2>4 DEF n
<1>2. SixDigits(0) = 0
  BY DEF SixDigits, Rounded
<1>. QED BY <1>1, <1>2 DEF PrintedList

LEMMA PrintedZeros == PrintedList(<< 0, 0, 0, 0, 0 >>) = << 0, 0, 0, 0, 0 >>
<1>. DEFINE zeros == << 0, 0, 0, 0, 0 >>
<1>1. zeros \in Seq(Int) /\ Len(zeros) = 5 /\ \A k \in 1 .. 5 : zeros[k] = 0
  OBVIOUS
<1>2. PrintedList(zeros) \in Seq(Int) /\ Len(PrintedList(zeros)) = 5
        /\ \A k \in 1 .. 5 : PrintedList(zeros)[k] = 0
  BY <1>1, PrintedNumbers
<1>. QED BY <1>1, <1>2

LEMMA ItemIsNumber ==
  ASSUME NEW list \in Seq(Int), NEW k \in 1 .. Len(list)
  PROVE  list[k] \in Int
OBVIOUS

LEMMA FourOfFive ==
  ASSUME NEW list \in Seq(Int), Len(list) = 5
  PROVE  SubSeq(list, 1, 4) \in Seq(Int) /\ Len(SubSeq(list, 1, 4)) = 4
<1>1. SubSeq(list, 1, 4) = [k \in 1 .. 4 |-> list[k]]
  OBVIOUS
<1>2. ASSUME NEW k \in 1 .. 4
      PROVE  list[k] \in Int
  <2>1. k \in 1 .. Len(list)
    BY <1>2
  <2>. QED BY <2>1, ItemIsNumber
<1>3. Len(SubSeq(list, 1, 4)) = 4
  OBVIOUS
<1>4. SubSeq(list, 1, 4) \in Seq(Int)
  BY <1>1, <1>2
<1>. QED BY <1>3, <1>4

\* One section of the exported calibration: all of it but the numbers is as the
\* readers want it.
LEMMA SectionComplete ==
  ASSUME NEW device, NEW config, NEW i \in 1 .. 2, IsDevice(device), device.d435i,
         config.width \in Nat \ {0}, config.height \in Nat \ {0},
         FactoryModelCompatible(device.cameras[i])
  PROVE  LET doc == FactoryCalibration(device, config) IN
         /\ doc["camera_model"][i] = "pinhole"
         /\ doc["distortion_model"][i] = "radtan"
         /\ IsResolution(doc["resolution"][i])
         /\ IsList(doc["intrinsics"][i], 4)
         /\ IsList(doc["distortion_coeffs"][i], 4)
         /\ doc["timeshift_cam_imu"][i] = 0
         /\ FactoryModelKept(doc, i)
<1>. DEFINE doc == FactoryCalibration(device, config)
            lens == device.cameras[i]
            size == << config.width, config.height >>
            coefficients == PrintedList(lens.coefficients)
            kept == SubSeq(coefficients, 1, 4)
            intrinsics == PrintedList(lens.intrinsics)
<1>1. /\ doc["camera_model"][i] = "pinhole"
      /\ doc["realsense_distortion_model"][i] = lens.model
      /\ doc["realsense_distortion_coeffs"][i] = coefficients
  BY FactorySays
<1>2. /\ doc["distortion_model"][i] = "radtan"
      /\ doc["distortion_coeffs"][i] = kept
      /\ doc["intrinsics"][i] = intrinsics
  BY FactorySays
<1>3. /\ doc["resolution"][i] = size
      /\ doc["timeshift_cam_imu"][i] = 0
  BY FactorySays
<1>4. /\ lens.coefficients \in Seq(Int) /\ Len(lens.coefficients) = 5
      /\ lens.intrinsics \in Seq(Int) /\ Len(lens.intrinsics) = 4
  BY DEF IsDevice
<1>5. /\ lens.model \in {"Brown Conrady", "None"}
      /\ lens.model = "None" => lens.coefficients = << 0, 0, 0, 0, 0 >>
  BY DEF FactoryModelCompatible
<1>6. lens.coefficients[5] = 0
  BY DEF FactoryModelCompatible
<1>7. size[1] > 0 /\ size[2] > 0 /\ size \in Seq(Int) /\ Len(size) = 2
  OBVIOUS
<1>. HIDE DEF doc, lens, size
<1>8. coefficients \in Seq(Int) /\ Len(coefficients) = 5
  BY <1>4, PrintedNumbers
<1>9. coefficients[5] = 0
  <2>. DEFINE list == lens.coefficients
  <2>1. list \in Seq(Int) /\ Len(list) = 5 /\ list[5] = 0
    BY <1>4, <1>6
  <2>. HIDE DEF list
  <2>2. \A k \in 1 .. 5 : list[k] = 0 => PrintedList(list)[k] = 0
    BY <2>1, PrintedNumbers
  <2>3. PrintedList(list)[5] = 0
    BY <2>1, <2>2
  <2>. QED BY <2>3 DEF list
<1>10. lens.model = "None" => coefficients = << 0, 0, 0, 0, 0 >>
  BY <1>5, PrintedZeros
<1>11. intrinsics \in Seq(Int) /\ Len(intrinsics) = 4
  BY <1>4, PrintedNumbers
<1>. HIDE DEF coefficients, intrinsics
<1>12. kept \in Seq(Int) /\ Len(kept) = 4
  BY <1>8, FourOfFive
<1>13. IsList(kept, 4) /\ IsList(coefficients, 5) /\ IsList(intrinsics, 4)
  BY <1>8, <1>11, <1>12, MarksAssumption DEF IsList
<1>14. IsResolution(size)
  <2>1. IsList(size, 2)
    BY <1>7, MarksAssumption DEF IsList
  <2>. QED BY <1>7, <2>1 DEF IsResolution
<1>15. FactoryModelKept(doc, i)
  <2>1. IsNumber(doc["timeshift_cam_imu"][i])
    BY <1>3 DEF IsNumber
  <2>. QED BY <1>1, <1>2, <1>5, <1>9, <1>10, <1>13, <2>1 DEF FactoryModelKept
<1>16. /\ doc["camera_model"][i] = "pinhole" /\ doc["distortion_model"][i] = "radtan"
       /\ IsResolution(doc["resolution"][i]) /\ IsList(doc["intrinsics"][i], 4)
       /\ IsList(doc["distortion_coeffs"][i], 4) /\ doc["timeshift_cam_imu"][i] = 0
  BY <1>1, <1>2, <1>3, <1>13, <1>14
<1>. QED BY <1>15, <1>16 DEF doc

LEMMA FactoryAdmissible ==
  ASSUME NEW device, NEW config, IsDevice(device), device.d435i,
         config.width \in Nat \ {0}, config.height \in Nat \ {0},
         \A i \in 1 .. 2 : FactoryModelCompatible(device.cameras[i])
  PROVE  LET doc == FactoryCalibration(device, config) IN
         /\ IdentityValid(doc) /\ CameraReviewed(doc)
         /\ (GeometryValid(doc) /\ BootstrapValid(doc)) <=> SoundWhenPrinted(device, config)
<1>. DEFINE doc == FactoryCalibration(device, config)
            sound(i) == /\ Rigid(doc["T_imu_cam"][i])
                        /\ InsideImage(doc["intrinsics"][i], doc["resolution"][i])
            apart == Apart(doc["T_imu_cam"][1], doc["T_imu_cam"][2])
<1>1. \A i \in 1 .. 2 :
        /\ doc["camera_model"][i] = "pinhole" /\ doc["distortion_model"][i] = "radtan"
        /\ IsResolution(doc["resolution"][i]) /\ IsList(doc["intrinsics"][i], 4)
        /\ IsList(doc["distortion_coeffs"][i], 4) /\ doc["timeshift_cam_imu"][i] = 0
        /\ FactoryModelKept(doc, i)
  BY SectionComplete
<1>2. /\ \A key \in PairKeys : KeyCount(doc, key) = 2
      /\ \A key \in FactoryKeys \ PairKeys : KeyCount(doc, key) = 1
      /\ \A key \in {"INVALID PLACEHOLDER", "T_cam_imu", "camera_calibration_method"} :
           KeyCount(doc, key) = 0
      /\ Scalar(doc, "camera_calibration_method") = Missing
      /\ Scalar(doc, "calibration_state") = Bootstrap
      /\ Scalar(doc, "calibrated_serial") = device.serial
  BY FactoryCounts
<1>3. SoundWhenPrinted(device, config) <=> (\A i \in 1 .. 2 : sound(i)) /\ apart
  <2>. DEFINE size == << config.width, config.height >>
  <2>1. \A i \in 1 .. 2 :
          /\ doc["T_imu_cam"][i] = PrintedMatrix(device.cameras[i].transform)
          /\ doc["intrinsics"][i] = PrintedList(device.cameras[i].intrinsics)
          /\ doc["resolution"][i] = size
    BY FactorySays
  <2>2. 1 \in 1 .. 2 /\ 2 \in 1 .. 2
    OBVIOUS
  <2>. HIDE DEF doc, size
  <2>. QED BY <2>1, <2>2 DEF SoundWhenPrinted, size
<1>. HIDE DEF doc
<1>4. /\ KeyCount(doc, "cam0") = 1 /\ KeyCount(doc, "cam1") = 1
      /\ KeyCount(doc, "T_gyro_accel") = 1
      /\ KeyCount(doc, "calibration_state") = 1 /\ KeyCount(doc, "calibrated_serial") = 1
  BY <1>2 DEF FactoryKeys, PairKeys
<1>5. CameraReviewed(doc)
  BY <1>2, <1>4 DEF CameraReviewed, PairKeys
<1>6. IdentityValid(doc)
  <2>1. device.serial \notin {Missing, Malformed}
    BY DEF IsDevice
  <2>. QED BY <1>2, <1>4, <2>1 DEF IdentityValid
<1>7. \A key \in {"camera_model", "distortion_model", "distortion_coeffs", "intrinsics",
                  "resolution", "timeshift_cam_imu", "T_imu_cam"} : KeyCount(doc, key) = 2
  BY <1>2 DEF PairKeys
<1>8. ASSUME \A i \in 1 .. 2 : sound(i), apart
      PROVE  GeometryValid(doc)
  <2>1. \A i \in 1 .. 2 : IsNumber(doc["timeshift_cam_imu"][i])
    BY <1>1 DEF IsNumber
  <2>2. doc["timeshift_cam_imu"][1] = doc["timeshift_cam_imu"][2]
    BY <1>1
  <2>. QED BY <1>1, <1>7, <1>8, <2>1, <2>2 DEF GeometryValid
<1>9. ASSUME \A i \in 1 .. 2 : sound(i)
      PROVE  BootstrapValid(doc)
  <2>1. ~KalibrCandidate(doc)
    BY <1>2, MarksAssumption DEF KalibrCandidate
  <2>2. KeyCount(doc, "realsense_distortion_model") = 2
          /\ KeyCount(doc, "realsense_distortion_coeffs") = 2
    BY <1>2 DEF PairKeys
  <2>. QED BY <1>1, <1>2, <1>4, <1>7, <1>9, <2>1, <2>2 DEF BootstrapValid
<1>10. ASSUME GeometryValid(doc)
       PROVE  (\A i \in 1 .. 2 : sound(i)) /\ apart
  BY <1>10 DEF GeometryValid
<1>11. (GeometryValid(doc) /\ BootstrapValid(doc)) <=> SoundWhenPrinted(device, config)
  <2>. HIDE DEF sound, apart
  <2>. QED BY <1>3, <1>8, <1>9, <1>10
<1>. QED BY <1>5, <1>6, <1>11 DEF doc

----------------------------------------------------------------------------
(* What the operator changes and what a program does to the device         *)

\* The device a source opens, and what it then has of it.
LEMMA Opened ==
  ASSUME Plugged, NEW config, NEW plan, OpenSource(config, plan)
  PROVE  /\ Device(config) = DeviceIn(plugged, config)
         /\ IsDevice(Device(config)) /\ Device(config).d435i
         /\ HasProfiles(Device(config), config, plan)
         /\ OptionsTaken(Device(config), config, plan)
         /\ "motion_correction" \notin Device(config).supports
              => options[Device(config).serial].motion_correction = FALSE
         /\ options'[Device(config).serial] = After(Device(config), config, plan)
<1>1. /\ Candidates(config) # {} /\ Candidates(config) = CandidatesIn(plugged, config)
      /\ Device(config) = DeviceIn(plugged, config)
      /\ HasProfiles(Device(config), config, plan)
      /\ OptionsTaken(Device(config), config, plan)
      /\ options' = [options EXCEPT ![Device(config).serial] =
                       After(Device(config), config, plan)]
  BY DEF OpenSource, SourceStarts, Candidates, CandidatesIn, Device, DeviceIn
<1>2. IsRig(plugged) /\ DOMAIN options = Serials(plugged) /\ UnsupportedOff(plugged, options)
  BY DEF Plugged
<1>3. /\ \E i \in 1 .. Len(plugged) : Device(config) = plugged[i]
      /\ IsDevice(Device(config)) /\ Device(config).d435i
  BY <1>1, <1>2, FoundDevice
<1>4. PICK i \in DOMAIN plugged : Device(config) = plugged[i]
  BY <1>2, <1>3 DEF IsRig
<1>5. Device(config).serial \in DOMAIN options
  BY <1>2, <1>4 DEF Serials
<1>6. "motion_correction" \notin Device(config).supports
        => options[Device(config).serial].motion_correction = FALSE
  BY <1>2, <1>4 DEF UnsupportedOff
<1>7. options'[Device(config).serial] = After(Device(config), config, plan)
  BY <1>1, <1>5
<1>. QED BY <1>1, <1>3, <1>6, <1>7

LEMMA PluggedByOpening ==
  ASSUME Plugged, plugged' = plugged, NEW config, NEW plan,
         OpenSource(config, plan) \/ OpenSourceFails(config, plan)
  PROVE  Plugged'
<1>0. /\ IsRig(plugged) /\ options = [s \in Serials(plugged) |-> options[s]]
      /\ UnsupportedOff(plugged, options)
  BY DEF Plugged
<1>1. CASE options' = options
  BY <1>1 DEF Plugged
<1>2. ASSUME CandidatesIn(plugged, config) # {}
      PROVE  \E i \in DOMAIN plugged :
               /\ Device(config) = plugged[i] /\ IsDevice(plugged[i])
               /\ "motion_correction" \notin plugged[i].supports
                    => options[plugged[i].serial].motion_correction = FALSE
  <2>1. Device(config) = DeviceIn(plugged, config)
    BY DEF Device, DeviceIn, Candidates, CandidatesIn
  <2>2. \E i \in 1 .. Len(plugged) : DeviceIn(plugged, config) = plugged[i]
    BY <1>0, <1>2, FoundDevice
  <2>3. PICK i \in DOMAIN plugged : Device(config) = plugged[i]
    BY <1>0, <2>1, <2>2 DEF IsRig
  <2>4. IsDevice(plugged[i])
    BY <1>0, <2>3 DEF IsRig
  <2>. QED BY <1>0, <2>3, <2>4 DEF UnsupportedOff
<1>3. ASSUME NEW i \in DOMAIN plugged, Device(config) = plugged[i], NEW value,
             "motion_correction" \notin plugged[i].supports => value.motion_correction = FALSE,
             options' = [options EXCEPT ![plugged[i].serial] = value]
      PROVE  Plugged'
  <2>1. options' = [s \in Serials(plugged) |-> options'[s]] /\ UnsupportedOff(plugged, options')
    BY <1>0, <1>3, SettingsChanged
  <2>. QED BY <1>0, <2>1 DEF Plugged
<1>4. CASE OpenSource(config, plan)
  <2>1. CandidatesIn(plugged, config) # {}
    BY <1>4 DEF OpenSource, SourceStarts, Candidates, CandidatesIn
  <2>2. PICK i \in DOMAIN plugged :
               /\ Device(config) = plugged[i] /\ IsDevice(plugged[i])
               /\ "motion_correction" \notin plugged[i].supports
                    => options[plugged[i].serial].motion_correction = FALSE
    BY <1>2, <2>1
  <2>3. "motion_correction" \notin plugged[i].supports
          => After(plugged[i], config, plan).motion_correction = FALSE
    BY <2>2 DEF After, IsDevice, OptionNames
  <2>4. options' = [options EXCEPT ![plugged[i].serial] = After(plugged[i], config, plan)]
    BY <1>4, <2>2 DEF OpenSource
  <2>. QED BY <1>3, <2>2, <2>3, <2>4
<1>5. CASE OpenSourceFails(config, plan)
  <2>1. CASE Candidates(config) = {}
    BY <1>1, <1>5, <2>1 DEF OpenSourceFails
  <2>2. CASE Candidates(config) # {}
    <3>1. PICK i \in DOMAIN plugged :
               /\ Device(config) = plugged[i] /\ IsDevice(plugged[i])
               /\ "motion_correction" \notin plugged[i].supports
                    => options[plugged[i].serial].motion_correction = FALSE
      BY <1>2, <2>2 DEF Candidates, CandidatesIn
    <3>2. PICK changed \in {{}, {"gyro_sensitivity"}, OptionNames} :
            options' = [options EXCEPT ![Device(config).serial] =
                 [o \in OptionNames |->
                    IF o \in changed /\ HasProfiles(Device(config), config, plan)
                    THEN After(Device(config), config, plan)[o] ELSE @[o]]]
      BY <1>5, <2>2 DEF OpenSourceFails
    <3>. DEFINE value == [o \in OptionNames |->
                            IF o \in changed /\ HasProfiles(Device(config), config, plan)
                            THEN After(Device(config), config, plan)[o]
                            ELSE options[plugged[i].serial][o]]
    <3>3. options' = [options EXCEPT ![plugged[i].serial] = value]
      BY <3>1, <3>2
    <3>4. "motion_correction" \notin plugged[i].supports
            => After(plugged[i], config, plan).motion_correction = FALSE
      BY <3>1 DEF After, IsDevice, OptionNames
    <3>5. "motion_correction" \notin plugged[i].supports => value.motion_correction = FALSE
      BY <3>1, <3>4 DEF OptionNames
    <3>. HIDE DEF value
    <3>. QED BY <1>3, <3>1, <3>3, <3>5
  <2>. QED BY <2>1, <2>2
<1>. QED BY <1>4, <1>5

LEMMA PluggedKept ==
  ASSUME Plugged, Next
  PROVE  Plugged'
<1>1. ASSUME plugged' = plugged, options' = options
      PROVE  Plugged'
  BY <1>1 DEF Plugged
<1>2. CASE BeginLive \/ BeginRecord \/ BeginReplay \/ BeginInspect
  BY <1>1, <1>2, BeginsLive, BeginsRecord, BeginsReplay, BeginsInspect
<1>3. CASE LiveValidate \/ LiveConfigure \/ LiveLoad \/ LiveArchive \/ LiveCheck
  <2>1. plugged' = plugged
    BY <1>3, LiveSteps
  <2>2. options' = options
    BY <1>3 DEF LiveValidate, LiveConfigure, LiveLoad, Load, LiveArchive, Archive, LiveCheck, Refuse
  <2>. QED BY <1>1, <2>1, <2>2
<1>4. CASE LiveStart
  <2>1. plugged' = plugged
    BY <1>4, LiveSteps
  <2>2. OpenSource(held.config, Both) \/ OpenSourceFails(held.config, Both)
    BY <1>4 DEF LiveStart
  <2>. QED BY <2>1, <2>2, PluggedByOpening
<1>5. CASE ReplayValidate \/ ReplayLoad \/ ReplayArchive
  BY <1>1, <1>5, ReplaySteps
<1>6. CASE FinishRun
  BY <1>1, <1>6, Finishes
<1>7. CASE RecordStart
  <2>. DEFINE config == Configured(held.request, Missing)
              plan == Plan(held.request.mode)
  <2>1. plugged' = plugged
    BY <1>7, RecordSteps
  <2>2. OpenSource(config, plan) \/ OpenSourceFails(config, plan) \/ options' = options
    BY <1>7 DEF RecordStart, Refuse
  <2>. HIDE DEF config, plan
  <2>. QED BY <1>1, <2>1, <2>2, PluggedByOpening
<1>8. CASE RecordFinish
  BY <1>1, <1>8, RecordSteps DEF RecordFinish
<1>9. CASE Inspect
  <2>. DEFINE config == Configured(held.request, Missing)
  <2>1. plugged' = plugged
    BY <1>9, Inspects
  <2>2. OpenSource(config, Both) \/ OpenSourceFails(config, Both) \/ options' = options
    BY <1>9 DEF Inspect, Refuse
  <2>. HIDE DEF config
  <2>. QED BY <1>1, <2>1, <2>2, PluggedByOpening
<1>10. CASE Save \/ Adopt
  BY <1>1, <1>10 DEF Save, Adopt
<1>11. CASE Replug
  <2>1. IsRig(plugged')
    BY <1>11, AdmissionAssumption DEF Replug
  <2>2. options' = [s \in Serials(plugged') |->
                      (CHOOSE d \in Range(plugged') : d.serial = s).options]
    BY <1>11 DEF Replug, Serials
  <2>3. options' = [s \in Serials(plugged') |-> options'[s]] /\ UnsupportedOff(plugged', options')
    BY <2>1, <2>2, SettingsFound
  <2>. QED BY <2>1, <2>3 DEF Plugged
<1>. QED
  BY <1>2, <1>3, <1>4, <1>5, <1>6, <1>7, <1>8, <1>9, <1>10, <1>11 DEF Next

LEMMA Exports ==
  ASSUME Plugged, Inspect
  PROVE  LET config == Configured(held.request, Missing)
             device == Device(config)
         IN \/ export' = export
            \/ /\ IsDocument(export')
               /\ IdentityValid(export') /\ CameraReviewed(export')
               /\ (GeometryValid(export') /\ BootstrapValid(export'))
                    <=> SoundWhenPrinted(device, config)
<1>. DEFINE config == Configured(held.request, Missing)
            device == Device(config)
            doc == FactoryCalibration(device, config)
<1>1. CASE /\ ConfigurationAccepted(held.request, Missing) /\ OpenSource(config, Both)
           /\ ProfilesComplete(device)
           /\ \A i \in 1 .. 2 : FactoryModelCompatible(device.cameras[i])
           /\ export' = doc
  <2>1. WellConfigured(config)
    BY <1>1, ConfiguredWell
  <2>. HIDE DEF config
  <2>2. config.width \in Nat \ {0} /\ config.height \in Nat \ {0}
    BY <2>1, SizesPositive
  <2>3. IsDevice(device) /\ device.d435i
    BY <1>1, Opened
  <2>. HIDE DEF device
  <2>4. IsDocument(doc)
    BY FactoryIsDocument
  <2>5. /\ IdentityValid(doc) /\ CameraReviewed(doc)
        /\ (GeometryValid(doc) /\ BootstrapValid(doc)) <=> SoundWhenPrinted(device, config)
    BY <1>1, <2>2, <2>3, FactoryAdmissible
  <2>. HIDE DEF doc
  <2>. QED BY <1>1, <2>4, <2>5 DEF config, device
<1>2. CASE export' = export
  BY <1>2
<1>. QED BY <1>1, <1>2 DEF Inspect, Refuse, End

\* What is not exported anew stays as it is, or is dropped.
LEMMA ExportsElsewhere ==
  ASSUME Next, ~Inspect
  PROVE  export' \in {export, Missing}
<1>1. CASE BeginLive \/ BeginRecord \/ BeginReplay \/ BeginInspect
  BY <1>1, BeginsLive, BeginsRecord, BeginsReplay, BeginsInspect
<1>2. CASE \/ LiveValidate \/ LiveConfigure \/ LiveLoad \/ LiveArchive \/ LiveStart \/ LiveCheck
           \/ ReplayValidate \/ ReplayLoad \/ ReplayArchive \/ FinishRun
           \/ RecordStart \/ RecordFinish
  BY <1>2, LiveSteps, ReplaySteps, Finishes, RecordSteps
<1>3. CASE Save \/ Adopt \/ Replug
  BY <1>3 DEF Save, Adopt, Replug
<1>. QED BY <1>1, <1>2, <1>3 DEF Next

\* The operator's own copy of the export is a document like the others.
LEMMA Adopted ==
  ASSUME NEW f, NEW text, NEW more, NEW path \in DOMAIN f.at, IsFiles(f), IsDocument(text),
         more = [f EXCEPT !.at[path].text = text]
  PROVE  IsFiles(more)
<1>1. /\ f = [main |-> f.main, at |-> f.at] /\ IsDocument(f.main)
      /\ \A p \in DOMAIN f.at :
           LET entry == f.at[p] IN
           /\ entry = [inside |-> entry.inside, regular |-> entry.regular, text |-> entry.text]
           /\ IsDocument(entry.text)
  BY DEF IsFiles
<1>2. /\ more = [main |-> more.main, at |-> more.at] /\ more.main = f.main
      /\ more.at = [f.at EXCEPT ![path].text = text]
  BY <1>1
<1>3. ASSUME NEW p \in DOMAIN more.at
      PROVE  /\ more.at[p] = [inside |-> more.at[p].inside, regular |-> more.at[p].regular,
                              text |-> more.at[p].text]
             /\ IsDocument(more.at[p].text)
  <2>1. p \in DOMAIN f.at
    BY <1>2, <1>3
  <2>2. CASE p = path
    <3>1. more.at[p] = [f.at[path] EXCEPT !.text = text]
      BY <1>2, <2>1, <2>2
    <3>2. f.at[path] = [inside |-> f.at[path].inside, regular |-> f.at[path].regular,
                        text |-> f.at[path].text]
      BY <1>1
    <3>3. more.at[p] = [inside |-> f.at[path].inside, regular |-> f.at[path].regular,
                        text |-> text]
      BY <3>1, <3>2
    <3>. QED BY <3>3
  <2>3. CASE p # path
    <3>1. more.at[p] = f.at[p]
      BY <1>2, <2>1, <2>3
    <3>. QED BY <1>1, <2>1, <3>1
  <2>. QED BY <2>2, <2>3
<1>. QED BY <1>1, <1>2, <1>3 DEF IsFiles

LEMMA DirectoryKept ==
  ASSUME Directory, Plugged, Next
  PROVE  Directory'
<1>1. export' # Missing => IsDocument(export')
  <2>1. CASE Inspect
    BY <2>1, Exports DEF Directory
  <2>2. CASE ~Inspect
    BY <2>2, ExportsElsewhere DEF Directory
  <2>. QED BY <2>1, <2>2
<1>2. CASE Save
  <2>1. IsFiles(files')
    BY <1>2, AdmissionAssumption DEF Save
  <2>. QED BY <1>1, <2>1 DEF Directory
<1>3. CASE Adopt
  <2>. DEFINE path == Scalar(files.main, "relative_config_imucam")
  <2>1. path \in DOMAIN files.at
    BY <1>3 DEF Adopt, CameraOf, Dependency
  <2>2. files' = [files EXCEPT !.at[path].text = export] /\ export # Missing
    BY <1>3 DEF Adopt
  <2>3. IsFiles(files) /\ IsDocument(export)
    BY <2>2 DEF Directory
  <2>. HIDE DEF path
  <2>4. IsFiles(files')
    BY <2>1, <2>2, <2>3, Adopted
  <2>. QED BY <1>1, <2>4 DEF Directory
<1>4. CASE files' = files
  BY <1>1, <1>4 DEF Directory
<1>5. files' = files \/ Save \/ Adopt
  <2>1. CASE BeginLive \/ BeginRecord \/ BeginReplay \/ BeginInspect
    BY <2>1, BeginsLive, BeginsRecord, BeginsReplay, BeginsInspect
  <2>2. CASE \/ LiveValidate \/ LiveConfigure \/ LiveLoad \/ LiveArchive \/ LiveStart \/ LiveCheck
             \/ ReplayValidate \/ ReplayLoad \/ ReplayArchive \/ FinishRun
             \/ RecordStart \/ RecordFinish \/ Inspect
    BY <2>2, LiveSteps, ReplaySteps, Finishes, RecordSteps, Inspects
  <2>3. CASE Replug
    BY <2>3 DEF Replug
  <2>. QED BY <2>1, <2>2, <2>3 DEF Next
<1>. QED BY <1>2, <1>3, <1>4, <1>5

----------------------------------------------------------------------------
(* Recordings                                                              *)

\* Only the VIO plan has the format the replay takes.
LEMMA FormatOfBoth ==
  ASSUME NEW mode \in Modes, Plan(mode).format = Both.format
  PROVE  Plan(mode) = Both
<1>1. CASE mode = "vio"
  BY <1>1 DEF Both
<1>2. CASE mode # "vio"
  <2>1. Plan(mode).format = "ovrs-calibration-capture-v1"
    BY <1>2 DEF Plan, Modes
  <2>. QED BY <2>1, BothStreams
<1>. QED BY <1>1, <1>2

LEMMA StartsRecording ==
  ASSUME Plugged, held.request.mode \in Modes, RecordStart, tool' # "none"
  PROVE  IsRecording(dataset')
<1>. DEFINE config == Configured(held.request, Missing)
            plan == Plan(held.request.mode)
            device == Device(config)
            report == Report(device, config, plan)
            stream == StreamDocument([config EXCEPT !.serial = device.serial])
            after == After(device, config, plan)
<1>1. /\ ConfigurationAccepted(held.request, Missing) /\ OpenSource(config, plan)
      /\ dataset' = [mark |-> "INCOMPLETE", format |-> plan.format, report |-> report,
                     stream |-> stream,
                     origin |-> [device |-> device, config |-> config, options |-> after]]
  BY DEF RecordStart, End, Refuse
<1>2. WellConfigured(config)
  BY <1>1, ConfiguredWell
<1>3. plan.format = Both.format => plan = Both
  BY FormatOfBoth
<1>. HIDE DEF config, plan
<1>4. /\ IsDevice(device) /\ OptionsTaken(device, config, plan)
      /\ "motion_correction" \notin device.supports
           => options[device.serial].motion_correction = FALSE
  BY <1>1, Opened
<1>. HIDE DEF device
<1>5. ASSUME plan.format = Both.format
      PROVE  report = Report(device, config, Both)
             /\ \A o \in OptionNames : after[o] = Wanted(config)[o]
  <2>1. plan = Both
    BY <1>3, <1>5
  <2>2. config.motion_correction_enabled \in BOOLEAN
    BY <1>2 DEF WellConfigured
  <2>3. ASSUME NEW o \in OptionNames
        PROVE  after[o] = Wanted(config)[o]
    <3>1. OptionsTaken(device, config, Both)
      BY <1>4, <2>1
    <3>2. After(device, config, Both)[o] = Wanted(config)[o]
      BY <1>4, <2>2, <2>3, <3>1, SettingsAsWanted
    <3>. QED BY <2>1, <3>2
  <2>. QED BY <2>1, <2>3
<1>. HIDE DEF report, stream, after
<1>6. /\ dataset'.mark = "INCOMPLETE" /\ dataset'.format = plan.format
      /\ dataset'.report = report /\ dataset'.stream = stream
      /\ dataset'.origin.device = device /\ dataset'.origin.config = config
      /\ dataset'.origin.options = after
      /\ dataset' = [mark |-> dataset'.mark, format |-> dataset'.format,
                     report |-> dataset'.report, stream |-> dataset'.stream,
                     origin |-> dataset'.origin]
  BY <1>1
<1>. QED BY <1>2, <1>4, <1>5, <1>6 DEF IsRecording, stream

LEMMA FinishedRecording ==
  ASSUME NEW d, IsRecording(d), NEW mark \in {"complete", "INCOMPLETE"}, NEW more,
         more = [d EXCEPT !.mark = mark]
  PROVE  IsRecording(more)
<1>1. d = [mark |-> d.mark, format |-> d.format, report |-> d.report, stream |-> d.stream,
           origin |-> d.origin]
  BY DEF IsRecording
<1>2. more = [mark |-> mark, format |-> d.format, report |-> d.report, stream |-> d.stream,
              origin |-> d.origin]
  BY <1>1
<1>. QED BY <1>2 DEF IsRecording

LEMMA RecordingKept ==
  ASSUME Recording, Control, Plugged, Next
  PROVE  Recording'
<1>1. ASSUME dataset' = dataset, tool' # "record"
      PROVE  Recording'
  BY <1>1 DEF Recording
<1>2. CASE BeginLive \/ BeginInspect
  <2>1. dataset' = Missing /\ tool' # "record"
    BY <1>2, BeginsLive, BeginsInspect
  <2>. QED BY <2>1 DEF Recording
<1>3. CASE BeginReplay
  BY <1>1, <1>3, BeginsReplay
<1>4. CASE BeginRecord
  <2>1. dataset' = Missing /\ step' = "validate"
    BY <1>4, BeginsRecord
  <2>2. PICK r \in Requests :
          held' = [NoReading EXCEPT
                     !.request = [mode |-> r.mode, file |-> r.file, cli |-> r.cli],
                     !.main = files.main]
    BY <1>4, BeginsRecord
  <2>3. held'.request.mode = r.mode
    BY <2>2 DEF NoReading
  <2>4. held'.request.mode \in Modes
    BY <2>3, AdmissionAssumption
  <2>. QED BY <2>1, <2>4 DEF Recording
<1>5. CASE \/ LiveValidate \/ LiveConfigure \/ LiveLoad \/ LiveArchive \/ LiveStart \/ LiveCheck
           \/ ReplayValidate \/ ReplayLoad \/ ReplayArchive \/ FinishRun
  BY <1>1, <1>5, LiveSteps, ReplaySteps, Finishes
<1>6. CASE Inspect
  BY <1>1, <1>6, Inspects
<1>7. CASE RecordStart
  <2>1. tool = "record" /\ step = "validate" /\ held.request.mode \in Modes
    BY <1>7 DEF RecordStart, Recording
  <2>2. CASE tool' = "none"
    <3>1. dataset' = dataset
      BY <1>7, <2>2, Ended DEF RecordStart, Refuse
    <3>. QED BY <1>1, <2>2, <3>1
  <2>3. CASE tool' # "none"
    <3>1. IsRecording(dataset')
      BY <1>7, <2>1, <2>3, StartsRecording
    <3>2. step' # "validate"
      BY <1>7, <2>3, RecordSteps
    <3>. QED BY <3>1, <3>2 DEF Recording
  <2>. QED BY <2>2, <2>3
<1>8. CASE RecordFinish
  <2>1. IsRecording(dataset) /\ tool' = "none"
    BY <1>8 DEF RecordFinish, Recording
  <2>2. PICK mark \in {"complete", "INCOMPLETE"} : dataset' = [dataset EXCEPT !.mark = mark]
    BY <1>8 DEF RecordFinish
  <2>3. IsRecording(dataset')
    BY <2>1, <2>2, FinishedRecording
  <2>. QED BY <2>1, <2>3 DEF Recording
<1>9. CASE Save \/ Adopt \/ Replug
  BY <1>9 DEF Save, Adopt, Replug, Recording
<1>. QED BY <1>2, <1>3, <1>4, <1>5, <1>6, <1>7, <1>8, <1>9 DEF Next

----------------------------------------------------------------------------
(* What ovrs_live finds out                                                *)

LEMMA PresentIsIn == Present(files.main) = PresentIn(files)
BY DEF Present, PresentIn

LEMMA LiveValidateKeeps ==
  ASSUME Live, LiveValidate
  PROVE  Live'
<1>1. CASE tool' # "live"
  BY <1>1 DEF Live
<1>2. CASE tool' = "live"
  <2>1. /\ LiveValidates /\ step' = "configure" /\ tool = "live"
        /\ UNCHANGED << files, plugged, options, held, edited >>
    BY <1>2 DEF LiveValidate, Refuse, End, Proceed, outside
  <2>2. ~edited => held.main = files.main
    BY <2>1 DEF Live
  <2>3. ~edited => DocumentsAdmitted(files.at, files.main, held.request.allow)
    BY <2>1, <2>2 DEF LiveValidates
  <2>. QED BY <2>1, <2>2, <2>3 DEF Live
<1>. QED BY <1>1, <1>2

LEMMA LiveConfigureKeeps ==
  ASSUME Live, Shapes, LiveConfigure
  PROVE  Live'
<1>1. CASE tool' # "live"
  BY <1>1 DEF Live
<1>2. CASE tool' = "live"
  <2>. DEFINE config == Configured(held.request, Calibrated)
  <2>1. /\ ConfigurationAccepted(held.request, Calibrated)
        /\ ResolutionMatches(files.at, held.main, config.width, config.height)
        /\ step = "configure" /\ step' = "load" /\ tool = "live"
        /\ held' = [held EXCEPT !.config = config]
        /\ UNCHANGED << files, plugged, options, edited >>
    BY <1>2 DEF LiveConfigure, LiveConfigures, Refuse, End, Proceed, outside
  <2>2. WellConfigured(config)
    BY <2>1, ConfiguredWell
  <2>. HIDE DEF config
  <2>3. /\ held'.config = config /\ held'.main = held.main /\ held'.request = held.request
    BY <2>1 DEF Shapes
  <2>4. ~edited => /\ held.main = files.main
                   /\ DocumentsAdmitted(files.at, files.main, held.request.allow)
    BY <2>1 DEF Live
  <2>. QED BY <2>1, <2>2, <2>3, <2>4 DEF Live
<1>. QED BY <1>1, <1>2

LEMMA LiveLoadKeeps ==
  ASSUME Live, LiveLoad
  PROVE  Live'
<1>1. CASE tool' # "live"
  BY <1>1 DEF Live
<1>2. CASE tool' = "live"
  <2>1. /\ estimator' = PresentIn(files) /\ step = "load" /\ step' = "archive" /\ tool = "live"
        /\ UNCHANGED << files, plugged, options, held, edited >>
    BY <1>2, PresentIsIn DEF LiveLoad, Load, Refuse, End, Proceed, outside
  <2>2. PresentIn(files') = PresentIn(files)
    BY <2>1
  <2>. QED BY <2>1, <2>2 DEF Live
<1>. QED BY <1>1, <1>2

LEMMA LiveArchiveKeeps ==
  ASSUME Live, Shapes, LiveArchive
  PROVE  Live'
<1>1. CASE tool' # "live"
  BY <1>1 DEF Live
<1>2. CASE tool' = "live"
  <2>1. /\ run' = [run EXCEPT !.documents = Copied]
        /\ step = "archive" /\ step' = "start" /\ tool = "live"
        /\ UNCHANGED << files, plugged, options, held, estimator, edited >>
    BY <1>2 DEF LiveArchive, Archive, Refuse, End, Proceed, outside
  <2>2. run'.documents = Present(held.main)
    BY <2>1 DEF Shapes, Copied
  <2>3. ~edited => run'.documents = PresentIn(files)
    BY <2>1, <2>2, PresentIsIn DEF Live
  <2>4. PresentIn(files') = PresentIn(files)
    BY <2>1
  <2>. QED BY <2>1, <2>3, <2>4 DEF Live
<1>. QED BY <1>1, <1>2

LEMMA LiveStartKeeps ==
  ASSUME Live, Shapes, Plugged, LiveStart
  PROVE  Live'
<1>1. CASE tool' # "live"
  BY <1>1 DEF Live
<1>2. CASE tool' = "live"
  <2>. DEFINE device == DeviceIn(plugged, held.config)
  <2>1. /\ OpenSource(held.config, Both)
        /\ held' = [held EXCEPT !.report = Report(Device(held.config), held.config, Both)]
        /\ step = "start" /\ step' = "check" /\ tool = "live"
        /\ UNCHANGED << files, plugged, estimator, run, edited >>
    BY <1>2 DEF LiveStart, End, Proceed, outside
  <2>2. /\ Device(held.config) = device /\ IsDevice(device)
        /\ OptionsTaken(device, held.config, Both)
        /\ "motion_correction" \notin device.supports
             => options[device.serial].motion_correction = FALSE
        /\ options'[device.serial] = After(device, held.config, Both)
    BY <2>1, Opened
  <2>3. WellConfigured(held.config) /\ held.config.motion_correction_enabled \in BOOLEAN
    BY <2>1 DEF Live, WellConfigured
  <2>4. /\ held'.report = Report(device, held.config, Both)
        /\ held'.main = held.main /\ held'.request = held.request /\ held'.config = held.config
    BY <2>1, <2>2 DEF Shapes
  <2>. HIDE DEF device
  <2>5. ASSUME NEW o \in OptionNames
        PROVE  options'[device.serial][o] = Wanted(held.config)[o]
    <3>1. /\ IsDevice(device) /\ OptionsTaken(device, held.config, Both)
          /\ "motion_correction" \notin device.supports
               => options[device.serial].motion_correction = FALSE
      BY <2>2
    <3>2. held.config.motion_correction_enabled \in BOOLEAN
      BY <2>3
    <3>3. After(device, held.config, Both)[o] = Wanted(held.config)[o]
      BY <2>5, <3>1, <3>2, SettingsAsWanted
    <3>. QED BY <2>2, <3>3
  <2>6. DeviceIn(plugged', held'.config) = device
    BY <2>1, <2>4 DEF device
  <2>7. /\ held'.report = Report(DeviceIn(plugged', held'.config), held'.config, Both)
        /\ \A o \in OptionNames :
             options'[DeviceIn(plugged', held'.config).serial][o] = Wanted(held'.config)[o]
    BY <2>4, <2>5, <2>6
  <2>8. PresentIn(files') = PresentIn(files)
    BY <2>1
  <2>9. ~edited' =>
         /\ held'.main = files'.main
         /\ DocumentsAdmitted(files'.at, files'.main, held'.request.allow)
         /\ ResolutionMatches(files'.at, files'.main, held'.config.width, held'.config.height)
         /\ estimator' = PresentIn(files')
         /\ run'.documents = PresentIn(files')
    BY <2>1, <2>4, <2>8 DEF Live
  <2>. QED BY <2>1, <2>3, <2>4, <2>7, <2>9 DEF Live
<1>. QED BY <1>1, <1>2

LEMMA LiveCheckKeeps ==
  ASSUME Live, LiveCheck
  PROVE  Live'
<1>1. CASE tool' # "live"
  BY <1>1 DEF Live
<1>2. CASE tool' = "live"
  <2>1. /\ LiveChecks /\ step = "check" /\ step' = "run" /\ tool = "live"
        /\ UNCHANGED << files, plugged, options, held, estimator, run, edited >>
    BY <1>2 DEF LiveCheck, Refuse, End, Proceed, outside
  <2>2. ~edited => CaptureAdmitted(files.at, files.main, held.report,
                                   StreamDocument(held.config))
    BY <2>1 DEF LiveChecks, Live
  <2>3. /\ PresentIn(files') = PresentIn(files)
        /\ DeviceIn(plugged', held'.config) = DeviceIn(plugged, held.config)
    BY <2>1
  <2>4. /\ WellConfigured(held.config)
        /\ held.report = Report(DeviceIn(plugged, held.config), held.config, Both)
        /\ \A o \in OptionNames :
             options[DeviceIn(plugged, held.config).serial][o] = Wanted(held.config)[o]
        /\ ~edited =>
             /\ held.main = files.main
             /\ DocumentsAdmitted(files.at, files.main, held.request.allow)
             /\ ResolutionMatches(files.at, files.main, held.config.width, held.config.height)
             /\ estimator = PresentIn(files)
             /\ run.documents = PresentIn(files)
    BY <2>1 DEF Live
  <2>. QED BY <2>1, <2>2, <2>3, <2>4 DEF Live
<1>. QED BY <1>1, <1>2

LEMMA LiveKept ==
  ASSUME Live, Control, Streaming, Shapes, Plugged, Next
  PROVE  Live'
<1>1. CASE BeginLive
  <2>1. /\ step' = "validate" /\ files' = files
        /\ \E r \in Requests :
              held' = [NoReading EXCEPT
                         !.request = [allow |-> r.allow, file |-> r.file, cli |-> r.cli],
                         !.main = files.main]
    BY <1>1, BeginsLive
  <2>2. held'.main = files'.main
    BY <2>1 DEF NoReading
  <2>. QED BY <2>1, <2>2 DEF Live
<1>2. CASE BeginRecord \/ BeginReplay \/ BeginInspect
  BY <1>2, BeginsRecord, BeginsReplay, BeginsInspect DEF Live
<1>3. CASE LiveValidate
  BY <1>3, LiveValidateKeeps
<1>4. CASE LiveConfigure
  BY <1>4, LiveConfigureKeeps
<1>5. CASE LiveLoad
  BY <1>5, LiveLoadKeeps
<1>6. CASE LiveArchive
  BY <1>6, LiveArchiveKeeps
<1>7. CASE LiveStart
  BY <1>7, LiveStartKeeps
<1>8. CASE LiveCheck
  BY <1>8, LiveCheckKeeps
<1>9. CASE ReplayValidate \/ ReplayLoad \/ ReplayArchive
  <2>1. tool' # "live"
    BY <1>9, ReplaySteps
  <2>. QED BY <2>1 DEF Live
<1>10. CASE FinishRun
  <2>1. tool' # "live"
    BY <1>10, Finishes
  <2>. QED BY <2>1 DEF Live
<1>11. CASE RecordStart \/ RecordFinish
  <2>1. tool' # "live"
    BY <1>11, RecordSteps
  <2>. QED BY <2>1 DEF Live
<1>12. CASE Inspect
  <2>1. tool' # "live"
    BY <1>12, Inspects
  <2>. QED BY <2>1 DEF Live
<1>13. CASE Save
  <2>1. /\ edited' = TRUE
        /\ UNCHANGED << plugged, options, tool, step, held >>
    BY <1>13 DEF Save
  <2>. QED BY <2>1 DEF Live
<1>14. CASE Adopt
  BY <1>14 DEF Adopt, Live
<1>15. CASE Replug
  <2>1. /\ streaming # TRUE
        /\ UNCHANGED << files, tool, step, held, estimator, run, edited >>
    BY <1>15 DEF Replug
  <2>2. tool = "live" => step \notin {"check", "run"}
    BY <2>1 DEF Streaming
  <2>3. PresentIn(files') = PresentIn(files)
    BY <2>1
  <2>. QED BY <2>1, <2>2, <2>3 DEF Live
<1>. QED
  BY <1>1, <1>2, <1>3, <1>4, <1>5, <1>6, <1>7, <1>8, <1>9, <1>10, <1>11, <1>12, <1>13, <1>14,
     <1>15 DEF Next

----------------------------------------------------------------------------
(* What ovrs_replay finds out                                              *)

\* The recorder prints the serial of the device it found over the one asked for.
LEMMA SerialReplaced ==
  ASSUME NEW config, NEW serial, NEW more, WellConfigured(config), serial # Malformed,
         more = [config EXCEPT !.serial = serial]
  PROVE  /\ WellConfigured(more) /\ more.serial = serial
         /\ \A key \in Keys \ {"serial"} : more[key] = config[key]
<1>1. config = [key \in Keys |-> config[key]]
  BY DEF WellConfigured
<1>2. /\ more = [key \in Keys |-> more[key]] /\ more["serial"] = serial
      /\ \A key \in Keys \ {"serial"} : more[key] = config[key]
  BY <1>1, KeysAre
<1>3. /\ more.width = config.width /\ more.height = config.height
      /\ more.gyro_fps = config.gyro_fps /\ more.gyro_sensitivity = config.gyro_sensitivity
      /\ more.gyro_scale_factor = config.gyro_scale_factor
      /\ more.stereo_tolerance_ms = config.stereo_tolerance_ms
  BY <1>2, KeysAre
<1>4. /\ more["motion_correction_enabled"] = config["motion_correction_enabled"]
      /\ more["global_time_enabled"] = config["global_time_enabled"]
  BY <1>2, KeysAre
<1>5. ConfigurationValid(more)
  <2>1. ConfigurationValid(config)
    BY DEF WellConfigured
  <2>2. more.serial # Malformed
    BY <1>2
  <2>. QED BY <1>3, <2>1, <2>2, ValidAsWell
<1>6. /\ more.gyro_fps \in Int /\ more.motion_correction_enabled \in BOOLEAN
      /\ more.global_time_enabled \in BOOLEAN
  BY <1>3, <1>4 DEF WellConfigured
<1>. QED BY <1>2, <1>5, <1>6 DEF WellConfigured

\* What the replay reads of a recording is what the recorder was given.
LEMMA RecordingReads ==
  ASSUME NEW d, IsRecording(d)
  PROVE  /\ Recorded(d.stream).width = d.origin.config.width
         /\ Recorded(d.stream).height = d.origin.config.height
         /\ Recorded(d.stream).serial = d.origin.device.serial
         /\ Accepts("file", d.stream, Defaults)
         /\ Scalar(d.stream, "stereo_tolerance_ms") # Missing
<1>. DEFINE config == d.origin.config
            serial == d.origin.device.serial
            more == [config EXCEPT !.serial = serial]
<1>1. /\ WellConfigured(config) /\ IsDevice(d.origin.device) /\ d.stream = StreamDocument(more)
  BY DEF IsRecording
<1>2. serial # Malformed
  BY <1>1 DEF IsDevice
<1>. HIDE DEF config, serial
<1>3. /\ WellConfigured(more) /\ more.serial = serial
      /\ \A key \in Keys \ {"serial"} : more[key] = config[key]
  BY <1>1, <1>2, SerialReplaced
<1>. HIDE DEF more
<1>4. {"serial", "width", "height"} \subseteq Keys
  BY KeysAre
<1>5. \A key \in Keys : Recorded(d.stream)[key] = more[key]
  BY <1>1, <1>3, RecordedIs
<1>6. /\ Recorded(d.stream).width = config.width /\ Recorded(d.stream).height = config.height
      /\ Recorded(d.stream).serial = serial
  BY <1>3, <1>4, <1>5
<1>7. Accepts("file", d.stream, Defaults) /\ Scalar(d.stream, "stereo_tolerance_ms") # Missing
  BY <1>1, <1>3, RecordedAccepted
<1>. QED BY <1>6, <1>7 DEF config, serial

LEMMA ReplayValidateKeeps ==
  ASSUME ReplayKnows, ReplayValidate
  PROVE  ReplayKnows'
<1>1. CASE tool' # "replay"
  BY <1>1 DEF ReplayKnows
<1>2. CASE tool' = "replay"
  <2>1. /\ ReplayValidates /\ step' = "load" /\ tool = "replay"
        /\ UNCHANGED << files, held, dataset, edited >>
    BY <1>2 DEF ReplayValidate, Refuse, End, Proceed, outside
  <2>2. IsRecording(dataset) /\ (~edited => held.main = files.main)
    BY <2>1 DEF ReplayKnows
  <2>3. dataset.format = Both.format
    BY <2>1, BothStreams DEF ReplayValidates, Replayable
  <2>4. /\ DocumentsAdmitted(files.at, held.main, held.request.allow)
        /\ CaptureAdmitted(files.at, held.main, dataset.report, dataset.stream)
        /\ ResolutionMatches(files.at, held.main, Recorded(dataset.stream).width,
                             Recorded(dataset.stream).height)
    BY <2>1 DEF ReplayValidates
  <2>5. ResolutionMatches(files.at, held.main, dataset.origin.config.width,
                          dataset.origin.config.height)
    BY <2>2, <2>4, RecordingReads
  <2>. QED BY <2>1, <2>2, <2>3, <2>4, <2>5 DEF ReplayKnows
<1>. QED BY <1>1, <1>2

LEMMA ReplayLoadKeeps ==
  ASSUME ReplayKnows, ReplayLoad
  PROVE  ReplayKnows'
<1>1. CASE tool' # "replay"
  BY <1>1 DEF ReplayKnows
<1>2. CASE tool' = "replay"
  <2>1. /\ estimator' = PresentIn(files) /\ step = "load" /\ step' = "archive" /\ tool = "replay"
        /\ UNCHANGED << files, held, dataset, edited >>
    BY <1>2, PresentIsIn DEF ReplayLoad, Load, Refuse, End, Proceed, outside
  <2>2. PresentIn(files') = PresentIn(files)
    BY <2>1
  <2>. QED BY <2>1, <2>2 DEF ReplayKnows
<1>. QED BY <1>1, <1>2

LEMMA ReplayArchiveKeeps ==
  ASSUME ReplayKnows, Shapes, ReplayArchive
  PROVE  ReplayKnows'
<1>1. CASE tool' # "replay"
  BY <1>1 DEF ReplayKnows
<1>2. CASE tool' = "replay"
  <2>1. /\ run' = [run EXCEPT !.documents = Copied]
        /\ step = "archive" /\ step' = "run" /\ tool = "replay"
        /\ UNCHANGED << files, held, estimator, dataset, edited >>
    BY <1>2 DEF ReplayArchive, Archive, Refuse, End, Proceed, outside
  <2>2. run'.documents = Present(held.main)
    BY <2>1 DEF Shapes, Copied
  <2>3. ~edited => run'.documents = PresentIn(files)
    BY <2>1, <2>2, PresentIsIn DEF ReplayKnows
  <2>4. PresentIn(files') = PresentIn(files)
    BY <2>1
  <2>. QED BY <2>1, <2>3, <2>4 DEF ReplayKnows
<1>. QED BY <1>1, <1>2

LEMMA ReplayKept ==
  ASSUME ReplayKnows, Control, Shapes, Recording, Next
  PROVE  ReplayKnows'
<1>1. CASE BeginReplay
  <2>1. /\ step' = "validate" /\ files' = files /\ dataset # Missing /\ dataset' = dataset
        /\ \E r \in Requests :
             held' = [NoReading EXCEPT !.request = [allow |-> r.allow], !.main = files.main]
    BY <1>1, BeginsReplay
  <2>2. held'.main = files'.main
    BY <2>1 DEF NoReading
  <2>3. IsRecording(dataset')
    BY <2>1 DEF Recording
  <2>. QED BY <2>1, <2>2, <2>3 DEF ReplayKnows
<1>2. CASE BeginLive \/ BeginRecord \/ BeginInspect
  BY <1>2, BeginsLive, BeginsRecord, BeginsInspect DEF ReplayKnows
<1>3. CASE ReplayValidate
  BY <1>3, ReplayValidateKeeps
<1>4. CASE ReplayLoad
  BY <1>4, ReplayLoadKeeps
<1>5. CASE ReplayArchive
  BY <1>5, ReplayArchiveKeeps
<1>6. CASE LiveValidate \/ LiveConfigure \/ LiveLoad \/ LiveArchive \/ LiveStart \/ LiveCheck
  <2>1. tool' # "replay"
    BY <1>6, LiveSteps
  <2>. QED BY <2>1 DEF ReplayKnows
<1>7. CASE FinishRun
  <2>1. tool' # "replay"
    BY <1>7, Finishes
  <2>. QED BY <2>1 DEF ReplayKnows
<1>8. CASE RecordStart \/ RecordFinish
  <2>1. tool' # "replay"
    BY <1>8, RecordSteps
  <2>. QED BY <2>1 DEF ReplayKnows
<1>9. CASE Inspect
  <2>1. tool' # "replay"
    BY <1>9, Inspects
  <2>. QED BY <2>1 DEF ReplayKnows
<1>10. CASE Save
  <2>1. edited' = TRUE /\ UNCHANGED << tool, step, held, dataset >>
    BY <1>10 DEF Save
  <2>. QED BY <2>1 DEF ReplayKnows
<1>11. CASE Adopt
  BY <1>11 DEF Adopt, ReplayKnows
<1>12. CASE Replug
  <2>1. UNCHANGED << files, tool, step, held, estimator, run, dataset, edited >>
    BY <1>12 DEF Replug
  <2>2. PresentIn(files') = PresentIn(files)
    BY <2>1
  <2>. QED BY <2>1, <2>2 DEF ReplayKnows
<1>. QED
  BY <1>1, <1>2, <1>3, <1>4, <1>5, <1>6, <1>7, <1>8, <1>9, <1>10, <1>11, <1>12 DEF Next

----------------------------------------------------------------------------
(* The invariant, and what follows from it                                 *)

LEMMA InvariantBegins ==
  ASSUME Init
  PROVE  IInv
<1>1. /\ tool = "none" /\ step = "idle" /\ held = NoReading /\ streaming = FALSE
      /\ estimator = NoDocuments /\ run = [mark |-> "none", documents |-> NoDocuments]
      /\ dataset = Missing /\ export = Missing /\ edited = FALSE /\ sessions = 0 /\ edits = 0
  BY DEF Init
<1>2. Control /\ Streaming /\ Recording /\ Live /\ ReplayKnows
  BY <1>1 DEF Control, Tools, Steps, Streaming, Recording, Live, ReplayKnows
<1>3. Counters
  BY <1>1, AdmissionAssumption DEF Counters
<1>4. Shapes
  BY <1>1 DEF Shapes, NoReading, Marks, NoDocuments
<1>5. PICK start \in Situations : files = start.files /\ plugged = start.plugged
  BY DEF Init
<1>6. IsFiles(files) /\ IsRig(plugged)
  BY <1>5, AdmissionAssumption
<1>7. Directory
  BY <1>1, <1>6 DEF Directory
<1>8. Plugged
  <2>1. options = [s \in Serials(plugged) |->
                     (CHOOSE d \in Range(plugged) : d.serial = s).options]
    BY DEF Init, Serials
  <2>2. options = [s \in Serials(plugged) |-> options[s]] /\ UnsupportedOff(plugged, options)
    BY <1>6, <2>1, SettingsFound
  <2>. QED BY <1>6, <2>2 DEF Plugged
<1>. QED BY <1>2, <1>3, <1>4, <1>7, <1>8 DEF IInv

LEMMA InvariantKept ==
  ASSUME IInv, [Next]_vars
  PROVE  IInv'
<1>1. /\ Control /\ Streaming /\ Counters /\ Shapes /\ Directory /\ Plugged /\ Recording
      /\ Live /\ ReplayKnows
  BY DEF IInv
<1>2. CASE Next
  <2>1. Control' /\ Streaming' /\ Counters' /\ Shapes'
    BY <1>1, <1>2, ControlKept, StreamingKept, CountersKept, ShapesKept
  <2>2. Directory' /\ Plugged' /\ Recording'
    BY <1>1, <1>2, DirectoryKept, PluggedKept, RecordingKept
  <2>3. Live' /\ ReplayKnows'
    BY <1>1, <1>2, LiveKept, ReplayKept
  <2>. QED BY <2>1, <2>2, <2>3 DEF IInv
<1>3. CASE UNCHANGED vars
  <2>1. Control' /\ Streaming' /\ Counters' /\ Shapes'
    BY <1>1, <1>3 DEF vars, Control, Streaming, Counters, Shapes
  <2>2. Directory' /\ Plugged' /\ Recording'
    BY <1>1, <1>3 DEF vars, Directory, Plugged, Recording
  <2>3. Live' /\ ReplayKnows'
    BY <1>1, <1>3 DEF vars, Live, ReplayKnows
  <2>. QED BY <2>1, <2>2, <2>3 DEF IInv
<1>. QED BY <1>2, <1>3

LEMMA Invariance == Spec => []IInv
<1>1. Init => IInv
  BY InvariantBegins
<1>2. IInv /\ [Next]_vars => IInv'
  BY InvariantKept
<1>. QED BY <1>1, <1>2, PTL DEF Spec

\* The variables keep their kinds through all sessions, edits and replugging,
\* and nothing streams but for a program that has opened the device (TypeOK).
THEOREM AdmissionTypeCorrect == Spec => []TypeOK
<1>1. IInv => TypeOK
  <2>. SUFFICES ASSUME IInv PROVE TypeOK
    OBVIOUS
  <2>1. /\ tool \in Tools /\ step \in Steps /\ (tool = "none" <=> step = "idle")
        /\ edited \in BOOLEAN
    BY DEF IInv, Control
  <2>2. /\ streaming \in BOOLEAN
        /\ streaming => << tool, step >> \in
             {<< "live", "check" >>, << "live", "run" >>, << "record", "run" >>}
    BY DEF IInv, Streaming
  <2>3. /\ run.mark \in Marks /\ DOMAIN run.documents = DOMAIN NoDocuments
        /\ DOMAIN estimator = DOMAIN NoDocuments
    BY DEF IInv, Shapes
  <2>4. dataset # Missing => dataset.mark \in Marks \ {"none"}
    BY DEF IInv, Recording, IsRecording, Marks
  <2>5. DOMAIN options = {plugged[i].serial : i \in DOMAIN plugged}
    BY DEF IInv, Plugged, Serials
  <2>6. sessions \in 0 .. MaxSessions /\ edits \in 0 .. MaxEdits
    BY DEF IInv, Counters
  <2>. QED BY <2>1, <2>2, <2>3, <2>4, <2>5, <2>6 DEF TypeOK
<1>. QED BY <1>1, Invariance, PTL

\* Whatever the factory stored in a device, the calibration that ovrs_inspect
\* exports for it lacks nothing that the validators of the estimating tools ask
\* for, and they take it exactly when its numbers are sound as printed, with six
\* digits (ExportIsAdmissible).
THEOREM ExportAdmitted == Spec => ExportIsAdmissible
<1>. DEFINE told == LET config == Configured(held.request, Missing)
                        device == Device(config)
                    IN /\ IdentityValid(export') /\ CameraReviewed(export')
                       /\ (GeometryValid(export') /\ BootstrapValid(export'))
                            <=> SoundWhenPrinted(device, config)
<1>1. ASSUME IInv, [Next]_vars, export = Missing, export' # Missing
      PROVE  told
  <2>1. CASE Inspect
    <3>1. Plugged
      BY <1>1 DEF IInv
    <3>. QED BY <1>1, <2>1, <3>1, Exports
  <2>2. CASE Next /\ ~Inspect
    BY <1>1, <2>2, ExportsElsewhere
  <2>3. CASE UNCHANGED vars
    BY <1>1, <2>3 DEF vars
  <2>. QED BY <1>1, <2>1, <2>2, <2>3
<1>2. IInv /\ [Next]_vars => [export = Missing /\ export' # Missing => told]_vars
  BY <1>1
<1>. QED BY <1>2, Invariance, PTL DEF Spec, ExportIsAdmissible

LEMMA LiveEstimates ==
  ASSUME IInv, tool = "live", step = "run", ~edited
  PROVE  /\ Fits(estimator, held.request.allow, Truth.device, Truth.config, Truth.options)
         /\ run.documents = estimator
<1>. DEFINE device == DeviceIn(plugged, held.config)
            config == held.config
            stream == StreamDocument(config)
<1>1. Live /\ IsFiles(files)
  BY DEF IInv, Directory
<1>2. /\ held.report = Report(device, config, Both)
      /\ \A o \in OptionNames : options[device.serial][o] = Wanted(config)[o]
      /\ DocumentsAdmitted(files.at, files.main, held.request.allow)
      /\ ResolutionMatches(files.at, files.main, config.width, config.height)
      /\ estimator = PresentIn(files) /\ run.documents = PresentIn(files)
      /\ CaptureAdmitted(files.at, files.main, held.report, stream)
  BY <1>1 DEF Live
<1>3. /\ Truth.device = device /\ Truth.config = config
      /\ Truth.options = options[device.serial]
  BY DEF Truth, Device, DeviceIn, Candidates, CandidatesIn
<1>4. /\ Scalar(stream, "motion_correction_enabled")
           = SwitchText(config.motion_correction_enabled)
      /\ Scalar(stream, "global_time_enabled") = SwitchText(config.global_time_enabled)
  <2>1. /\ {"motion_correction_enabled", "global_time_enabled"} \subseteq Keys
        /\ {"motion_correction_enabled", "global_time_enabled"} \subseteq Switches
    BY KeysAre DEF Switches
  <2>. QED BY <2>1, StreamSays
<1>. HIDE DEF device, config, stream
<1>5. Admitted(files, held.request.allow, device, config, stream)
  BY <1>2, <1>4 DEF Admitted
<1>6. Fits(PresentIn(files), held.request.allow, device, config, options[device.serial])
  BY <1>1, <1>2, <1>5, AdmittedFits
<1>. QED BY <1>2, <1>3, <1>6

LEMMA ReplayEstimates ==
  ASSUME IInv, tool = "replay", step = "run", ~edited
  PROVE  /\ Fits(estimator, held.request.allow, Truth.device, Truth.config, Truth.options)
         /\ run.documents = estimator
<1>. DEFINE device == dataset.origin.device
            config == dataset.origin.config
            settings == dataset.origin.options
            stream == dataset.stream
            more == [config EXCEPT !.serial = device.serial]
<1>1. ReplayKnows /\ IsFiles(files)
  BY DEF IInv, Directory
<1>2. /\ IsRecording(dataset) /\ dataset.format = Both.format
      /\ DocumentsAdmitted(files.at, files.main, held.request.allow)
      /\ CaptureAdmitted(files.at, files.main, dataset.report, stream)
      /\ ResolutionMatches(files.at, files.main, config.width, config.height)
      /\ estimator = PresentIn(files) /\ run.documents = PresentIn(files)
  BY <1>1 DEF ReplayKnows
<1>3. /\ dataset.report = Report(device, config, Both)
      /\ \A o \in OptionNames : settings[o] = Wanted(config)[o]
      /\ WellConfigured(config) /\ IsDevice(device) /\ stream = StreamDocument(more)
  BY <1>2 DEF IsRecording
<1>4. Truth.device = device /\ Truth.config = config /\ Truth.options = settings
  BY DEF Truth
<1>. HIDE DEF device, config, settings, stream
<1>5. device.serial # Malformed
  BY <1>3 DEF IsDevice
<1>6. /\ Scalar(stream, "motion_correction_enabled")
           = SwitchText(config.motion_correction_enabled)
      /\ Scalar(stream, "global_time_enabled") = SwitchText(config.global_time_enabled)
  <2>1. \A key \in Keys \ {"serial"} : more[key] = config[key]
    BY <1>3, <1>5, SerialReplaced
  <2>2. /\ {"motion_correction_enabled", "global_time_enabled"} \subseteq Keys \ {"serial"}
        /\ {"motion_correction_enabled", "global_time_enabled"} \subseteq Switches
    BY KeysAre DEF Switches
  <2>. HIDE DEF more
  <2>3. /\ Scalar(stream, "motion_correction_enabled")
             = SwitchText(more["motion_correction_enabled"])
        /\ Scalar(stream, "global_time_enabled") = SwitchText(more["global_time_enabled"])
    BY <1>3, <2>2, StreamSays
  <2>. QED BY <2>1, <2>2, <2>3
<1>7. Admitted(files, held.request.allow, device, config, stream)
  BY <1>2, <1>3, <1>6 DEF Admitted
<1>8. Fits(PresentIn(files), held.request.allow, device, config, settings)
  BY <1>1, <1>3, <1>7, AdmittedFits
<1>. QED BY <1>2, <1>4, <1>8

\* Whatever documents, devices, options and command lines come together: unless
\* a file is saved while the session begins, an estimate that goes on is made
\* with a calibration of that very device as it is really set, live as well as
\* from a recording, and the run directory holds it (EstimatesAsCalibrated).
THEOREM EstimatesCalibrated == Spec => []EstimatesAsCalibrated
<1>1. IInv => EstimatesAsCalibrated
  BY LiveEstimates, ReplayEstimates DEF EstimatesAsCalibrated
<1>. QED BY <1>1, Invariance, PTL

\* A report of both streams does not tell which serial was asked for.
LEMMA ReportWithoutSerial ==
  ASSUME NEW device, NEW config, NEW more, WellConfigured(config),
         \A key \in Keys \ {"serial"} : more[key] = config[key]
  PROVE  Report(device, more, Both) = Report(device, config, Both)
<1>1. /\ more.gyro_fps = config.gyro_fps
      /\ more.gyro_sensitivity = config.gyro_sensitivity
      /\ more.gyro_scale_factor = config.gyro_scale_factor
      /\ more.motion_correction_enabled = config.motion_correction_enabled
      /\ more.global_time_enabled = config.global_time_enabled
  BY KeysAre
<1>. QED BY <1>1 DEF Report

\* For a complete VIO recording the two tools ask the same.
LEMMA SameQuestions ==
  ASSUME IInv, tool = "replay", Replayable(dataset)
  PROVE  ReplayValidates <=> LiveWouldAdmit
<1>. DEFINE device == dataset.origin.device
            config == dataset.origin.config
            printed == [config EXCEPT !.serial = device.serial]
            pinned == [config EXCEPT !.serial = Calibrated]
            admitted == DocumentsAdmitted(files.at, held.main, held.request.allow)
            sized == ResolutionMatches(files.at, held.main, config.width, config.height)
            captured == CaptureAdmitted(files.at, held.main, dataset.report, dataset.stream)
<1>1. IsRecording(dataset) /\ dataset.format = Both.format
  BY BothStreams DEF IInv, ReplayKnows, Replayable
<1>2. /\ WellConfigured(config) /\ IsDevice(device)
      /\ dataset.report = Report(device, config, Both)
      /\ dataset.stream = StreamDocument(printed)
  BY <1>1 DEF IsRecording
<1>3. device.serial # Malformed /\ Scalar(dataset.report, "serial") = device.serial
  <2>1. device.serial # Malformed
    BY <1>2 DEF IsDevice
  <2>2. Scalar(dataset.report, "serial") = device.serial
    BY <1>2, ReportSays
  <2>. QED BY <2>1, <2>2
<1>4. ReplayValidates <=> admitted /\ captured /\ sized
  <2>1. /\ Recorded(dataset.stream).width = config.width
        /\ Recorded(dataset.stream).height = config.height
        /\ Recorded(dataset.stream).serial = Scalar(dataset.report, "serial")
        /\ Accepts("file", dataset.stream, Defaults)
        /\ Scalar(dataset.stream, "stereo_tolerance_ms") # Missing
    BY <1>1, <1>3, RecordingReads
  <2>2. ReplayValidates
          <=> /\ admitted /\ captured
              /\ ResolutionMatches(files.at, held.main, Recorded(dataset.stream).width,
                                   Recorded(dataset.stream).height)
    BY <2>1 DEF ReplayValidates
  <2>. QED BY <2>1, <2>2
<1>5. captured => device.serial = Calibrated
  BY <1>3 DEF CaptureAdmitted, Calibrated
<1>6. ASSUME device.serial = Calibrated
      PROVE  LiveWouldAdmit <=> admitted /\ captured /\ sized
  <2>1. printed = pinned
    BY <1>6
  <2>2. /\ pinned.width = config.width /\ pinned.height = config.height
        /\ Report(device, pinned, Both) = Report(device, config, Both)
    <3>1. Calibrated # Malformed
      BY <1>3, <1>6
    <3>2. \A key \in Keys \ {"serial"} : pinned[key] = config[key]
      BY <1>2, <3>1, SerialReplaced
    <3>. HIDE DEF pinned
    <3>3. pinned.width = config.width /\ pinned.height = config.height
      BY <3>2, KeysAre
    <3>4. Report(device, pinned, Both) = Report(device, config, Both)
      BY <1>2, <3>2, ReportWithoutSerial
    <3>. QED BY <3>3, <3>4
  <2>3. LiveWouldAdmit
          <=> /\ admitted
              /\ ResolutionMatches(files.at, held.main, pinned.width, pinned.height)
              /\ CaptureAdmitted(files.at, held.main, Report(device, pinned, Both),
                                 StreamDocument(pinned))
    BY <1>6 DEF LiveWouldAdmit
  <2>. HIDE DEF printed, pinned, device, config
  <2>. QED BY <1>2, <2>1, <2>2, <2>3
<1>7. LiveWouldAdmit => device.serial = Calibrated
  BY DEF LiveWouldAdmit
<1>. HIDE DEF device, config, admitted, captured, sized
<1>. QED BY <1>4, <1>5, <1>6, <1>7

\* A complete VIO recording is replayed with exactly the documents ovrs_live
\* accepts for the device and the streams it was recorded with: neither tool
\* forgets a check of the other, and the dataset carries all a check needs
\* (SameVerdict).
THEOREM VerdictsAgree == Spec => SameVerdict
<1>1. ASSUME IInv, [Next]_vars, tool = "replay", step = "validate", step' # step,
             Replayable(dataset)
      PROVE  step' = "load" <=> LiveWouldAdmit
  <2>1. ReplayValidate
    <3>1. Next
      BY <1>1 DEF vars
    <3>2. ~(BeginLive \/ BeginRecord \/ BeginReplay \/ BeginInspect)
      BY <1>1, BeginsLive, BeginsRecord, BeginsReplay, BeginsInspect
    <3>3. /\ ~(LiveValidate \/ LiveConfigure \/ LiveLoad \/ LiveArchive \/ LiveStart \/ LiveCheck)
          /\ ~(RecordStart \/ RecordFinish) /\ ~Inspect
      BY <1>1, LiveSteps, RecordSteps, Inspects
    <3>4. ~FinishRun /\ ~ReplayLoad /\ ~ReplayArchive
      BY <1>1 DEF FinishRun, ReplayLoad, Load, ReplayArchive, Archive
    <3>5. ~Save /\ ~Adopt /\ ~Replug
      BY <1>1 DEF Save, Adopt, Replug
    <3>. QED BY <3>1, <3>2, <3>3, <3>4, <3>5 DEF Next
  <2>2. step' = "load" <=> ReplayValidates
    <3>1. CASE ReplayValidates
      BY <2>1, <3>1 DEF ReplayValidate, Proceed
    <3>2. CASE ~ReplayValidates
      BY <2>1, <3>2 DEF ReplayValidate, Refuse, End
    <3>. QED BY <3>1, <3>2
  <2>3. ReplayValidates <=> LiveWouldAdmit
    BY <1>1, SameQuestions
  <2>. QED BY <2>2, <2>3
<1>2. IInv /\ [Next]_vars
        => [tool = "replay" /\ step = "validate" /\ step' # step /\ Replayable(dataset)
              => (step' = "load" <=> LiveWouldAdmit)]_vars
  BY <1>1
<1>. QED BY <1>2, Invariance, PTL DEF Spec, SameVerdict

=============================================================================
