------------------------ MODULE StreamConfiguration -------------------------
(***************************************************************************)
(* The stream configuration of src/config.cpp: the defaults, overridden by *)
(* a YAML file, overridden by the command line, checked after each of the  *)
(* two; and the document it is printed to beside a capture, which the      *)
(* replay reads back.  A configuration is a record; the fields kept are    *)
(* the ones a validator or another component compares with something else. *)
(* The rest (the camera and accelerometer rates, emitter, exposure and the *)
(* queue sizes) are read, bounded and printed by the same lines.           *)
(***************************************************************************)
EXTENDS CalibrationDocuments

\* gyro_scale_factor is counted in units of ScaleUnit to 1.0; the largest
\* factor is 100.
CONSTANT ScaleUnit

ASSUME ScaleUnitAssumption == ScaleUnit \in Nat \ {0}

MaxScale == 100 * ScaleUnit

Defaults ==
  [serial |-> Missing, width |-> 848, height |-> 480, gyro_fps |-> 200,
   gyro_sensitivity |-> 1, gyro_scale_factor |-> ScaleUnit,
   motion_correction_enabled |-> TRUE, global_time_enabled |-> TRUE,
   stereo_tolerance_ms |-> 2]

Keys == DOMAIN Defaults

Switches == {"motion_correction_enabled", "global_time_enabled"}

\* The widest and the highest image.
MaxSize == 4096

\* validate()
ConfigurationValid(config) ==
  /\ config.width \in 1 .. MaxSize /\ config.height \in 1 .. MaxSize
  /\ config.gyro_fps > 0
  /\ config.gyro_sensitivity \in 0 .. 4
  /\ config.gyro_scale_factor \in 1 .. MaxScale
  /\ config.stereo_tolerance_ms \in 0 .. 20
  /\ config.serial # Malformed

\* The file and the command line differ in how a switch is written.
Words == [file |-> << "true", "false" >>, cli |-> << "on", "off" >>]

Parses(kind, key, text) ==
  CASE key = "serial"   -> TRUE
    [] key \in Switches -> text \in {Words[kind][1], Words[kind][2]}
    [] OTHER            -> IsNumber(text)

\* A key given twice is an error, a key that is not given leaves the field.
Applies(kind, doc) ==
  \A key \in Keys :
    /\ KeyCount(doc, key) <= 1
    /\ Scalar(doc, key) = Missing \/ Parses(kind, key, Scalar(doc, key))

Applied(kind, doc, config) ==
  [key \in Keys |->
     CASE Scalar(doc, key) = Missing -> config[key]
       [] Scalar(doc, key) # Missing /\ key \in Switches
            -> Scalar(doc, key) = Words[kind][1]
       [] OTHER -> Scalar(doc, key)]

\* apply_stream_config_yaml and apply_stream_config_cli
Accepts(kind, doc, config) ==
  Applies(kind, doc) /\ ConfigurationValid(Applied(kind, doc, config))

SwitchText(enabled) == IF enabled THEN "true" ELSE "false"

\* stream_config_yaml prints with as many digits as a double needs: what is
\* read back is the configuration itself.
StreamDocument(config) ==
  [key \in Keys |->
     << IF key \in Switches THEN SwitchText(config[key]) ELSE config[key] >>]
=============================================================================
