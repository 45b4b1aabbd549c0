---------------------------- MODULE MCAdmission -----------------------------
(***************************************************************************)
(* Admission with one reviewed set of documents for device "111" and its   *)
(* variations: other valid calibrations, and documents with one defect     *)
(* each.  Devices differ in what they support, obey and were built with.   *)
(***************************************************************************)
EXTENDS Admission, TLC

Put(doc, key, scalars) == (key :> scalars) @@ doc

Drop(doc, key) == [k \in DOMAIN doc \ {key} |-> doc[k]]

Main(state, serial) ==
  [calibration_state |-> << state >>, calibrated_serial |-> << serial >>,
   max_estimated_speed_m_s |-> << 5 >>, max_accel_bias_m_s2 |-> << 1 >>,
   relative_config_imu |-> << << "imu" >> >>,
   relative_config_imucam |-> << << "imucam" >> >>]

Imu(state, serial) ==
  [calibration_state |-> << state >>, calibrated_serial |-> << serial >>,
   model |-> << "kalibr" >>, update_rate |-> << 200 >>,
   accelerometer_noise_density |-> << 1 >>, accelerometer_random_walk |-> << 1 >>,
   gyroscope_noise_density |-> << 1 >>, gyroscope_random_walk |-> << 1 >>,
   realsense_motion_correction_enabled |-> << "true" >>,
   realsense_global_time_enabled |-> << "true" >>]

\* A transform of whole numbers.
Transform(rows) ==
  [i \in 1 .. Len(rows) |-> [j \in 1 .. 4 |-> MatrixUnit * rows[i][j]]]

At(x) ==
  Transform(<< << 1, 0, 0, x >>, << 0, 1, 0, 0 >>, << 0, 0, 1, 0 >>, << 0, 0, 0, 1 >> >>)

Reflected ==
  Transform(<< << 1, 0, 0, 5 >>, << 0, 1, 0, 0 >>, << 0, 0, -1, 0 >>, << 0, 0, 0, 1 >> >>)

Sheared ==
  Transform(<< << 1, 1, 0, 5 >>, << 0, 1, 0, 0 >>, << 0, 0, 1, 0 >>, << 0, 0, 0, 1 >> >>)

Projective ==
  Transform(<< << 1, 0, 0, 5 >>, << 0, 1, 0, 0 >>, << 0, 0, 1, 0 >>, << 0, 0, 1, 1 >> >>)

\* Rigid within the tolerance, but no longer with two digits; and rigid with two.
Tilted(diagonal, x) ==
  << << diagonal, -80, 80, x >>, << 80, diagonal, -80, 0 >>, << -80, 80, diagonal, 0 >>,
     << 0, 0, 0, MatrixUnit >> >>

Pixels(list) == [i \in 1 .. Len(list) |-> PixelUnit * list[i]]

Zeros == << 0, 0, 0, 0, 0 >>

Camera(state, serial) ==
  [calibration_state |-> << state >>, calibrated_serial |-> << serial >>,
   T_gyro_accel |-> << Missing >>, cam0 |-> << Missing >>, cam1 |-> << Missing >>,
   T_imu_cam |-> << At(0), At(5) >>,
   camera_model |-> << "pinhole", "pinhole" >>,
   realsense_distortion_model |-> << "Brown Conrady", "None" >>,
   realsense_distortion_coeffs |-> << << 1, 2, 0, 0, 0 >>, Zeros >>,
   distortion_model |-> << "radtan", "radtan" >>,
   distortion_coeffs |-> << << 1, 2, 0, 0 >>, << 0, 0, 0, 0 >> >>,
   intrinsics |-> << Pixels(<< 420, 420, 424, 240 >>), Pixels(<< 420, 420, 423, 0 >>) >>,
   resolution |-> << << 848, 480 >>, << 848, 480 >> >>,
   timeshift_cam_imu |-> << 0, 0 >>]

Entry(text) == [inside |-> TRUE, regular |-> TRUE, text |-> text]

Files(main, imu, camera) ==
  [main |-> main,
   at |-> << "imu" >> :> Entry(imu) @@ << "imucam" >> :> Entry(camera)]

Set(state, serial) ==
  Files(Main(state, serial), Imu(state, serial), Camera(state, serial))

B == Bootstrap
M == Main(B, "111")
I == Imu(B, "111")
C == Camera(B, "111")

\* A second line for a key, or another scalar in place of each line's.
Twice(doc, key, scalar) == Put(doc, key, doc[key] \o << scalar >>)

Candidate ==
  Put(Put(Put(Put(Drop(Drop(C, "realsense_distortion_model"),
                       "realsense_distortion_coeffs"),
      "camera_calibration_method", << "KALIBR_REPEATABILITY_CANDIDATE" >>),
      "kalibr_primary_camchain_sha256", << "a" >>),
      "kalibr_repeat_camchain_sha256", << "b" >>),
      "kalibr_repeatability_review_sha256", << "c" >>)

Small(doc) ==
  Put(Put(doc, "resolution", << << 424, 240 >>, << 424, 240 >> >>),
      "intrinsics", << Pixels(<< 210, 210, 212, 120 >>), Pixels(<< 210, 210, 212, 120 >>) >>)

Uncorrected == Put(I, "realsense_motion_correction_enabled", << "false" >>)

LocalTime == Put(I, "realsense_global_time_enabled", << "false" >>)

Fast == Put(I, "update_rate", << 400 >>)

Sound ==
  {Set(B, "111"), Set(Verified, "111"), Set(B, "222"),
   Files(M, Uncorrected, C), Files(M, LocalTime, C), Files(M, Fast, C),
   Files(M, I, Small(C)), Files(M, I, Candidate),
   Files(M, I, Put(C, "T_imu_cam", << At(0), Tilted(994, 5 * MatrixUnit) >>))}

DefectiveMain ==
  {Twice(M, "calibrated_serial", "222"), Drop(M, "calibration_state"),
   Put(M, "calibration_state", << "FACTORY" >>),
   Put(M, "calibrated_serial", << Malformed >>),
   Put(M, "max_estimated_speed_m_s", << 0 >>),
   Drop(M, "max_accel_bias_m_s2"),
   Put(M, "relative_config_imu", << << "..", "imu" >> >>),
   Put(M, "relative_config_imu", << << "gone" >> >>),
   Twice(M, "relative_config_imucam", << "imu" >>),
   Put(M, "relative_config_imucam", << << "/", "imucam" >> >>)}

DefectiveImu ==
  {Twice(I, "calibrated_serial", "222"), Imu(Verified, "111"), Imu(B, "222"),
   Put(I, "model", << "calibrated" >>), Twice(I, "update_rate", 400),
   Put(I, "update_rate", << Malformed >>), Put(I, "update_rate", << 0 >>),
   Put(I, "gyroscope_noise_density", << 0 >>),
   Twice(I, "gyroscope_random_walk", 2),
   Drop(I, "realsense_motion_correction_enabled"),
   Twice(I, "realsense_motion_correction_enabled", "false"),
   Put(I, "realsense_global_time_enabled", << "yes" >>)}

DefectiveCamera ==
  {Twice(C, "calibrated_serial", "222"), Camera(Verified, "111"), Camera(B, "222"),
   Put(C, "INVALID PLACEHOLDER", << Missing >>), Drop(C, "cam1"),
   Put(C, "T_cam_imu", << At(0) >>), Drop(C, "T_gyro_accel"),
   Put(C, "T_imu_cam", << At(0) >>), Put(C, "T_imu_cam", << At(0), Malformed >>),
   Put(C, "T_imu_cam", << At(5), At(5) >>),
   Put(C, "T_imu_cam", << At(0), Reflected >>),
   Put(C, "T_imu_cam", << Sheared, At(0) >>),
   Put(C, "T_imu_cam", << At(0), Projective >>),
   Put(C, "T_imu_cam", << At(0), Tilted(990, 5 * MatrixUnit) >>),
   Put(C, "timeshift_cam_imu", << 0, 1 >>),
   Put(C, "timeshift_cam_imu", << Malformed, Malformed >>),
   Put(C, "camera_model", << "omni", "pinhole" >>),
   Put(C, "distortion_model", << "equidistant", "equidistant" >>),
   Put(C, "intrinsics", << Pixels(<< 420, 420, 848, 240 >>), Pixels(<< 420, 420, 424, 240 >>) >>),
   Put(C, "intrinsics", << Pixels(<< 420, 420, 424, -1 >>), Pixels(<< 420, 420, 424, 240 >>) >>),
   Put(C, "intrinsics", << Pixels(<< 0, 420, 424, 240 >>), Pixels(<< 420, 420, 424, 240 >>) >>),
   Put(C, "resolution", << << 848, 480 >>, << 424, 480 >> >>),
   Put(C, "resolution", << << 848, 480 >>, Malformed >>),
   Put(C, "realsense_distortion_model", << "Inverse Brown Conrady", "None" >>),
   Put(C, "realsense_distortion_coeffs", << << 1, 2, 0, 0, 3 >>, Zeros >>),
   Put(C, "realsense_distortion_coeffs", << << 1, 3, 0, 0, 0 >>, Zeros >>),
   Put(C, "realsense_distortion_model", << "None", "None" >>),
   Put(C, "camera_calibration_method", << "FACTORY" >>),
   Drop(Candidate, "kalibr_repeat_camchain_sha256"),
   Put(Candidate, "kalibr_primary_camchain_sha256", << Malformed >>),
   Put(Candidate, "realsense_distortion_model", << "None", "None" >>)}

\* A link that leaves the directory, and a path that is a directory.
Misplaced ==
  {[Set(B, "111") EXCEPT !.at[<< "imu" >>].inside = FALSE],
   [Set(B, "111") EXCEPT !.at[<< "imucam" >>].regular = FALSE]}

Defective ==
  {Files(m, I, C) : m \in DefectiveMain} \cup {Files(M, i, C) : i \in DefectiveImu}
    \cup {Files(M, I, c) : c \in DefectiveCamera} \cup Misplaced

-----------------------------------------------------------------------------

Lens(model, coefficients, fx, x) ==
  [model |-> model, coefficients |-> coefficients,
   intrinsics |-> Pixels(<< fx, 420, 212, 120 >>), transform |-> SubSeq(At(x), 1, 3)]

Factory == [gyro_sensitivity |-> 1, global_time |-> FALSE, motion_correction |-> TRUE]

Unit(serial) ==
  [serial |-> serial, d435i |-> TRUE, sizes |-> {<< 848, 480 >>, << 424, 240 >>},
   rates |-> {200, 400}, supports |-> OptionNames, obeys |-> OptionNames,
   options |-> Factory,
   cameras |-> << Lens("Brown Conrady", << 1, 2, 0, 0, 0 >>, 420, 0),
                  Lens("None", Zeros, 420, 5) >>]

U == Unit("111")

Without(option, value) ==
  [U EXCEPT !.obeys = @ \ {option}, !.options[option] = value]

Built(lens) == [U EXCEPT !.cameras[1] = lens]

MCRigs ==
  {<< U >>, << Unit("222") >>, << Unit("222"), U >>}

OddRigs ==
  {<< >>, << [Unit("222") EXCEPT !.d435i = FALSE], U >>,
   << [Without("motion_correction", FALSE) EXCEPT
         !.supports = @ \ {"motion_correction"}] >>,
   << [Without("global_time", FALSE) EXCEPT !.supports = @ \ {"global_time"}] >>,
   << Without("motion_correction", TRUE) >>,
   << Without("global_time", FALSE) >>, << Without("gyro_sensitivity", 2) >>,
   << [U EXCEPT !.sizes = {<< 424, 240 >>}, !.rates = {200}] >>}

BuiltRigs ==
  {<< Built(Lens("Brown Conrady", << 1, 2, 0, 0, 3 >>, 420, 0)) >>,
   << Built(Lens("Inverse Brown Conrady", << 1, 2, 0, 0, 0 >>, 420, 0)) >>,
   << Built(Lens("None", << 1, 0, 0, 0, 0 >>, 420, 0)) >>,
   << Built(Lens("None", Zeros, 0, 0)) >>,
   \* Unsound as stored, or only once printed.
   << Built(Lens("None", Zeros, 420, 5)) >>,
   << Built([Lens("None", Zeros, 420, 0) EXCEPT !.transform = Malformed]) >>,
   << Built([Lens("None", Zeros, 420, 0) EXCEPT
               !.intrinsics[3] = 848 * PixelUnit - 1]) >>,
   << Built([Lens("None", Zeros, 420, 0) EXCEPT
               !.transform = SubSeq(Tilted(994, 0), 1, 3)]) >>}

Situation(files_, rig) == [files |-> files_, plugged |-> rig]

MCSituations ==
  {Situation(f, r) : f \in Sound, r \in MCRigs}
    \cup {Situation(f, << U >>) : f \in Defective}
    \cup {Situation(f, r) : f \in {Set(B, "111"), Files(M, Uncorrected, C)},
                            r \in OddRigs \cup BuiltRigs}

MCEditions == {Set(B, "222"), Files(M, Uncorrected, C)}

Request(allow, mode, file, cli) ==
  [allow |-> allow, mode |-> mode, file |-> file, cli |-> cli]

Nothing == << >>

MCRequests ==
  {Request(TRUE, "vio", Nothing, Nothing),
   Request(FALSE, "vio", Nothing, Nothing),
   Request(TRUE, "vio", Nothing, "serial" :> << "111" >>),
   Request(TRUE, "vio", "serial" :> << "111" >>, "serial" :> << "222" >>),
   Request(TRUE, "vio", "motion_correction_enabled" :> << "false" >>, Nothing),
   Request(TRUE, "vio", "global_time_enabled" :> << "true" >>,
           "global_time_enabled" :> << "off" >>),
   Request(TRUE, "vio", "width" :> << 424 >>, "height" :> << 240 >>),
   Request(TRUE, "vio", "gyro_scale_factor" :> << ScaleUnit + 1 >>, Nothing),
   Request(TRUE, "vio", "gyro_scale_factor" :> << MaxScale + 1 >>, Nothing),
   Request(TRUE, "vio", "gyro_sensitivity" :> << 2 >>, "gyro_fps" :> << 400 >>),
   Request(TRUE, "vio", "width" :> << 848, 848 >>, Nothing),
   Request(TRUE, "stereo-calibration", Nothing, Nothing),
   Request(TRUE, "imu-allan", Nothing, Nothing),
   Request(TRUE, "imu-camera-calibration", Nothing, Nothing)}
=============================================================================
