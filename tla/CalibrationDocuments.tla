------------------------ MODULE CalibrationDocuments ------------------------
(***************************************************************************)
(* The reviewed documents an estimation needs and what                     *)
(* src/calibration_validation.cpp demands of them: the main estimator      *)
(* configuration, the IMU calibration and the camera calibration it names, *)
(* the report of the device and the stream configuration of a capture.     *)
(*                                                                         *)
(* A document is a function from keys to the sequence of the scalars the   *)
(* lines with that key carry, in the order of the lines: the readers of    *)
(* yaml_utils.hpp look at a text in no other way.  A scalar is a string, a *)
(* number, a list of numbers, a matrix (its rows), a path (its             *)
(* components) or one of two model values: Missing, no text behind the     *)
(* colon, and Malformed, a text the reader of that key refuses (a serial   *)
(* that is not all digits, a number that does not parse or is not finite,  *)
(* a list of another length or a matrix that is not four lists of four).   *)
(* Numbers are integers, each key in a unit of its own.  Units are so fine *)
(* that a matrix may be off by less or by more than the tolerance of the   *)
(* code; two coefficients, factors or time offsets are either equal or     *)
(* further apart than theirs (1e-12, 1e-12 and 1e-9).  The messages of the *)
(* validators are left out: a validator is the predicate it returns.       *)
(***************************************************************************)
EXTENDS Integers, Sequences

CONSTANTS
  Missing,      \* no text, no document
  Malformed,    \* a text that its reader refuses
  PixelUnit,    \* the units of the intrinsics to one pixel
  MatrixUnit,   \* the units of a matrix to 1.0
  MatrixTolerance   \* matrix_tolerance, counted in MatrixUnit

ASSUME UnitsAssumption ==
  PixelUnit \in Nat \ {0} /\ MatrixUnit \in Nat \ {0} /\ MatrixTolerance \in Nat

\* The two marks are no numbers and no lists of numbers, and they are none of the
\* words that are told apart from no text.
ASSUME MarksAssumption ==
  /\ Missing # Malformed
  /\ \A mark \in {Missing, Malformed} :
       /\ mark \notin Int /\ mark \notin Seq(Int)
       /\ mark \notin {"true", "false", "KALIBR_REPEATABILITY_CANDIDATE"}

\* Every key of a document carries a sequence of scalars.
IsDocument(doc) ==
  \A key \in DOMAIN doc :
    /\ Len(doc[key]) \in Nat
    /\ doc[key] = [i \in 1 .. Len(doc[key]) |-> doc[key][i]]

-----------------------------------------------------------------------------
(* The readers of yaml_utils.hpp. *)

Scalars(doc, key) == IF key \in DOMAIN doc THEN doc[key] ELSE << >>

KeyCount(doc, key) == Len(Scalars(doc, key))

\* The first of several lines counts.
Scalar(doc, key) ==
  IF KeyCount(doc, key) = 0 THEN Missing ELSE Head(Scalars(doc, key))

IsNumber(text) == text \in Int

IsList(text, n) == text \notin {Missing, Malformed} /\ Len(text) = n

OncePositive(doc, key) ==
  /\ KeyCount(doc, key) = 1
  /\ IsNumber(Scalar(doc, key))
  /\ Scalar(doc, key) > 0

-----------------------------------------------------------------------------
(* Who is calibrated, and whether that suffices for an estimate. *)

Verified  == "KALIBR_VERIFIED"
Bootstrap == "BOOTSTRAP_UNVERIFIED"

IdentityValid(main) ==
  /\ KeyCount(main, "calibration_state") = 1
  /\ KeyCount(main, "calibrated_serial") = 1
  /\ Scalar(main, "calibration_state") \in {Bootstrap, Verified}
  /\ Scalar(main, "calibrated_serial") \notin {Missing, Malformed}

StateAllows(main, allowUnverified) ==
  \/ Scalar(main, "calibration_state") = Verified
  \/ Scalar(main, "calibration_state") = Bootstrap /\ allowUnverified

\* Faulty (a plausible slip, used by the mutation runs alone): only the state
\* is compared.
SameState(doc, main) ==
  /\ KeyCount(doc, "calibration_state") = 1
  /\ Scalar(doc, "calibration_state") = Scalar(main, "calibration_state")

\* Both calibrations repeat the identity of the main configuration.
SameIdentity(doc, main) ==
  \A key \in {"calibration_state", "calibrated_serial"} :
    KeyCount(doc, key) = 1 /\ Scalar(doc, key) = Scalar(main, key)

-----------------------------------------------------------------------------
(* The calibrations are files below the directory of the main              *)
(* configuration.  A directory maps the paths of its entries to            *)
(* [inside, regular, text]: whether the canonical path stays below the     *)
(* directory, whether it is a regular file, and its document.  A component *)
(* "/" stands for every way to name a root (a slash, a drive letter, a     *)
(* backslash anywhere in the text).                                        *)

SafeRelativePath(path) ==
  /\ path \notin {Missing, Malformed}
  /\ \A i \in DOMAIN path : path[i] \notin {"/", ".."}

\* The document the key leads to, or Missing when the code refuses to go there.
Dependency(directory, main, key) ==
  LET path == Scalar(main, key) IN
  IF /\ KeyCount(main, key) = 1
     /\ SafeRelativePath(path)
     /\ path \in DOMAIN directory
     /\ directory[path].inside
     /\ directory[path].regular
  THEN directory[path].text
  ELSE Missing

ImuOf(directory, main) == Dependency(directory, main, "relative_config_imu")

CameraOf(directory, main) ==
  Dependency(directory, main, "relative_config_imucam")

-----------------------------------------------------------------------------
(* The camera calibration. *)

IsResolution(text) == IsList(text, 2) /\ text[1] > 0 /\ text[2] > 0

\* A principal point outside the declared image is refused; intrinsics are
\* <<fx, fy, cx, cy>>.
InsideImage(intrinsics, resolution) ==
  /\ intrinsics[1] > 0 /\ intrinsics[2] > 0
  /\ intrinsics[3] \in 0 .. resolution[1] * PixelUnit - 1
  /\ intrinsics[4] \in 0 .. resolution[2] * PixelUnit - 1

Matrices == [1 .. 4 -> [1 .. 4 -> Int]]

Within(n, expected, tolerance) == n - expected \in -tolerance .. tolerance

Determinant(T) ==
  T[1][1] * (T[2][2] * T[3][3] - T[2][3] * T[3][2])
    - T[1][2] * (T[2][1] * T[3][3] - T[2][3] * T[3][1])
    + T[1][3] * (T[2][1] * T[3][2] - T[2][2] * T[3][1])

\* A homogeneous rigid transformation up to the tolerance: last row, orthonormal
\* columns, and a rotation rather than a reflection.
Rigid(T) ==
  /\ T \in Matrices
  /\ \A k \in 1 .. 4 :
       Within(T[4][k], IF k = 4 THEN MatrixUnit ELSE 0, MatrixTolerance)
  /\ \A i, j \in 1 .. 3 :
       Within(T[1][i] * T[1][j] + T[2][i] * T[2][j] + T[3][i] * T[3][j],
              IF i = j THEN MatrixUnit * MatrixUnit ELSE 0,
              MatrixTolerance * MatrixUnit)
  /\ Within(Determinant(T), MatrixUnit * MatrixUnit * MatrixUnit,
            MatrixTolerance * MatrixUnit * MatrixUnit)

Centre(T) == << T[1][4], T[2][4], T[3][4] >>

\* The least baseline is as long as the tolerance (1e-12 is its square).
Apart(T1, T2) ==
  LET moved(row) == T2[row][4] - T1[row][4]
  IN moved(1) * moved(1) + moved(2) * moved(2) + moved(3) * moved(3)
       > MatrixTolerance * MatrixTolerance

GeometryValid(camera) ==
  /\ \A key \in {"camera_model", "distortion_model", "distortion_coeffs",
                 "intrinsics", "resolution", "timeshift_cam_imu",
                 "T_imu_cam"} : KeyCount(camera, key) = 2
  /\ \A i \in 1 .. 2 :
       /\ camera["camera_model"][i] = "pinhole"
       /\ camera["distortion_model"][i] \in {"radtan", "equidistant"}
       /\ IsResolution(camera["resolution"][i])
       /\ IsList(camera["intrinsics"][i], 4)
       /\ IsList(camera["distortion_coeffs"][i], 4)
       /\ InsideImage(camera["intrinsics"][i], camera["resolution"][i])
       /\ IsNumber(camera["timeshift_cam_imu"][i])
       /\ Rigid(camera["T_imu_cam"][i])
  /\ camera["timeshift_cam_imu"][1] = camera["timeshift_cam_imu"][2]
  /\ Apart(camera["T_imu_cam"][1], camera["T_imu_cam"][2])

\* A bootstrap calibration comes either from the factory or from a repeated
\* Kalibr run that names the files it was made from.
KalibrCandidate(camera) ==
  Scalar(camera, "camera_calibration_method") = "KALIBR_REPEATABILITY_CANDIDATE"

\* A sha256 that is not 64 lower-case hexadecimal digits is Malformed.
ProvenanceComplete(camera) ==
  /\ KeyCount(camera, "camera_calibration_method") = 1
  /\ \A key \in {"kalibr_primary_camchain_sha256",
                 "kalibr_repeat_camchain_sha256",
                 "kalibr_repeatability_review_sha256"} :
       /\ KeyCount(camera, key) = 1
       /\ Scalar(camera, key) \notin {Missing, Malformed}
  /\ KeyCount(camera, "realsense_distortion_model") = 0
  /\ KeyCount(camera, "realsense_distortion_coeffs") = 0

\* The factory model must be one that four radtan coefficients represent.
FactoryModelKept(camera, i) ==
  LET factory == camera["realsense_distortion_coeffs"][i] IN
  /\ IsList(factory, 5)
  /\ camera["realsense_distortion_model"][i] \in {"Brown Conrady", "None"}
  /\ factory[5] = 0
  /\ SubSeq(factory, 1, 4) = camera["distortion_coeffs"][i]
  /\ (camera["realsense_distortion_model"][i] = "None"
        => factory = << 0, 0, 0, 0, 0 >>)
  /\ IsNumber(camera["timeshift_cam_imu"][i])

BootstrapValid(camera) ==
  /\ Scalar(camera, "camera_calibration_method")
       \in {Missing, "KALIBR_REPEATABILITY_CANDIDATE"}
  /\ (KalibrCandidate(camera) => ProvenanceComplete(camera))
  /\ \A key \in {"camera_model", "distortion_model", "distortion_coeffs",
                 "intrinsics", "resolution", "timeshift_cam_imu",
                 "T_imu_cam"} : KeyCount(camera, key) = 2
  /\ KeyCount(camera, "T_gyro_accel") = 1
  /\ KeyCount(camera, "T_cam_imu") = 0
  /\ \A i \in 1 .. 2 :
       /\ IsResolution(camera["resolution"][i])
       /\ IsList(camera["intrinsics"][i], 4)
       /\ IsList(camera["distortion_coeffs"][i], 4)
       /\ camera["camera_model"][i] = "pinhole"
       /\ camera["distortion_model"][i] = "radtan"
       /\ InsideImage(camera["intrinsics"][i], camera["resolution"][i])
  /\ \/ KalibrCandidate(camera)
     \/ /\ KeyCount(camera, "realsense_distortion_model") = 2
        /\ KeyCount(camera, "realsense_distortion_coeffs") = 2
        /\ \A i \in 1 .. 2 : FactoryModelKept(camera, i)

ResolutionMatches(directory, main, width, height) ==
  LET camera == CameraOf(directory, main) IN
  /\ width > 0 /\ height > 0
  /\ camera # Missing
  /\ Scalars(camera, "resolution")
       = << << width, height >>, << width, height >> >>

-----------------------------------------------------------------------------
(* The three documents together. *)

NoiseKeys == {"accelerometer_noise_density", "accelerometer_random_walk",
              "gyroscope_noise_density", "gyroscope_random_walk"}

\* INVALID PLACEHOLDER is a mark anywhere in the text, kept here as a key.
CameraReviewed(camera) ==
  /\ KeyCount(camera, "INVALID PLACEHOLDER") = 0
  /\ KeyCount(camera, "cam0") = 1 /\ KeyCount(camera, "cam1") = 1
  /\ KeyCount(camera, "T_imu_cam") = 2 /\ KeyCount(camera, "T_cam_imu") = 0
  /\ KeyCount(camera, "intrinsics") = 2 /\ KeyCount(camera, "resolution") = 2

RateConfigured(imu) == imu # Missing /\ OncePositive(imu, "update_rate")

EstimatorConfigurationValid(directory, main) ==
  LET imu == ImuOf(directory, main)
      camera == CameraOf(directory, main)
  IN /\ IdentityValid(main)
     /\ OncePositive(main, "max_estimated_speed_m_s")
     /\ OncePositive(main, "max_accel_bias_m_s2")
     /\ RateConfigured(imu)
     /\ camera # Missing
     /\ SameIdentity(imu, main)
     /\ Scalars(imu, "model") = << "kalibr" >>
     /\ \A key \in NoiseKeys : OncePositive(imu, key)
     /\ SameIdentity(camera, main)
     /\ CameraReviewed(camera)
     /\ GeometryValid(camera)
     /\ (Scalar(main, "calibration_state") = Bootstrap
           => BootstrapValid(camera))

-----------------------------------------------------------------------------
(* What the device does against what the calibration was made with. *)

ImuRateMatches(directory, main, report) ==
  LET imu == ImuOf(directory, main) IN
  /\ RateConfigured(imu)
  /\ Scalar(report, "gyro_rate_hz") = Scalar(imu, "update_rate")

\* A switch of the IMU calibration is the one the stream configuration asks
\* for and the one the device reports as active.
SwitchAgrees(imu, imuKey, stream, streamKey, report, reportKey) ==
  /\ KeyCount(imu, imuKey) = 1
  /\ KeyCount(stream, streamKey) = 1
  /\ KeyCount(report, reportKey) = 1
  /\ Scalar(imu, imuKey) \in {"true", "false"}
  /\ Scalar(stream, streamKey) = Scalar(imu, imuKey)
  /\ Scalar(report, reportKey) = Scalar(imu, imuKey)

\* Captures from before the option was recorded carry none of the four keys.
SensitivityAgrees(stream, report) ==
  LET counts == << KeyCount(stream, "gyro_sensitivity"),
                   KeyCount(report, "gyro_sensitivity_requested"),
                   KeyCount(report, "gyro_sensitivity_active"),
                   KeyCount(report, "gyro_sensitivity_available") >>
      configured == Scalar(stream, "gyro_sensitivity")
  IN \/ counts = << 0, 0, 0, 0 >>
     \/ /\ counts = << 1, 1, 1, 1 >>
        /\ Scalar(report, "gyro_sensitivity_available") = "true"
        /\ configured \in 0 .. 4
        /\ Scalar(report, "gyro_sensitivity_requested") = configured
        /\ Scalar(report, "gyro_sensitivity_active") = configured

ScaleAgrees(stream, report, maxScale) ==
  LET counts == << KeyCount(stream, "gyro_scale_factor"),
                   KeyCount(report, "gyro_scale_factor_configured"),
                   KeyCount(report, "gyro_scale_factor_applied") >>
      configured == Scalar(stream, "gyro_scale_factor")
  IN \/ counts = << 0, 0, 0 >>
     \/ /\ counts = << 1, 1, 1 >>
        /\ configured \in 1 .. maxScale
        /\ Scalar(report, "gyro_scale_factor_configured") = configured
        /\ Scalar(report, "gyro_scale_factor_applied") = configured

SensorPolicyMatches(directory, main, report, stream, maxScale) ==
  LET imu == ImuOf(directory, main) IN
  /\ imu # Missing
  /\ SwitchAgrees(imu, "realsense_motion_correction_enabled",
                  stream, "motion_correction_enabled",
                  report, "motion_correction_active")
  /\ SwitchAgrees(imu, "realsense_global_time_enabled",
                  stream, "global_time_enabled",
                  report, "global_time_active")
  /\ SensitivityAgrees(stream, report)
  /\ ScaleAgrees(stream, report, maxScale)
=============================================================================
