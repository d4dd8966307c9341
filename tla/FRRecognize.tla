----------------------------- MODULE FRRecognize -----------------------------
(***************************************************************************)
(* One run of FaceRecognizer.exe -m recognize: recognizeFace in            *)
(* FaceRecognizer/src/main.cpp, with what it needs of the camera           *)
(* (modules/camera.cppm) and of the face models (seetaface.cpp).           *)
(*                                                                         *)
(* The process is one thread.  The camera delivers a frame or, after ten   *)
(* attempts, none; what the models say of a frame is the frame's.  The     *)
(* service may terminate the process at any moment.                        *)
(***************************************************************************)
EXTENDS Integers, Sequences

CONSTANTS
  Feature,    \* features, as hex text
  NoFeature,  \* the empty hex text
  Frame,      \* the frames the camera may deliver
  NoFrame,    \* no frame held
  Limit,      \* 10000 ms
  Tick        \* 10 ms

ASSUME FeatureAssumption == NoFeature \notin Feature
ASSUME LimitAssumption == Limit \in Nat /\ Tick \in Nat \ {0}

(* What the models say of a frame: detect finds a face, img2features gives  *)
(* features, whose hex text is `feature', and anti_face takes it for real.  *)
FrameRecord ==
  [face : BOOLEAN, extracts : BOOLEAN, real : BOOLEAN,
   feature : Feature \cup {NoFeature}]

ASSUME FrameAssumption == Frame \subseteq FrameRecord /\ NoFrame \notin FrameRecord

VARIABLES
  pc,                   \* where recognizeFace is
  recognition_success, used_time,
  img_data,             \* the frame held, NoFrame when released
  liveness_detection,   \* the configuration, fixed when the process starts
  fas_models,           \* the two anti-spoofing models are installed
  out,                  \* history: the reports given to the UDP sender
  captured              \* history: the frames the camera delivered

config == <<liveness_detection, fas_models>>
vars == <<pc, recognition_success, used_time, img_data, config, out, captured>>

Report ==
  [status : {"RECOGNIZING", "SUCCESS", "TIMEOUT"},
   feature : Feature \cup {NoFeature}]

TypeOK ==
  /\ pc \in {"start", "camera", "models", "capture", "frame", "result", "gone"}
  /\ recognition_success \in BOOLEAN
  /\ used_time \in 0 .. Limit
  /\ img_data \in Frame \cup {NoFrame}
  /\ liveness_detection \in BOOLEAN /\ fas_models \in BOOLEAN
  /\ out \in Seq(Report)
  /\ captured \subseteq Frame
  /\ pc = "frame" => img_data # NoFrame            \* delete[] on every way
  /\ pc \notin {"frame", "gone"} => img_data = NoFrame

Init ==
  /\ pc = "start"
  /\ recognition_success = FALSE
  /\ used_time = 0
  /\ img_data = NoFrame
  /\ liveness_detection \in BOOLEAN /\ fas_models \in BOOLEAN
  /\ out = << >>
  /\ captured = {}

Goto(next) == pc' = next
Says(status, feature) ==
  out' = Append(out, [status |-> status, feature |-> feature])

loop == <<recognition_success, used_time, img_data, captured>>

-----------------------------------------------------------------------------
(* Before the loop.                                                        *)

Announce ==
  /\ pc = "start" /\ Goto("camera")
  /\ Says("RECOGNIZING", NoFeature)
  /\ UNCHANGED <<loop, config>>

(* Without a camera, or without a model, an exception ends the process. *)
OpenCamera ==
  /\ pc = "camera" /\ (Goto("models") \/ Goto("gone"))
  /\ UNCHANGED <<loop, config, out>>

LoadModels ==
  /\ pc = "models" /\ (Goto("capture") \/ Goto("gone"))
  /\ UNCHANGED <<loop, config, out>>

-----------------------------------------------------------------------------
(* The loop.                                                               *)

CaptureFrame ==
  /\ pc = "capture" /\ Goto("frame")
  /\ img_data' \in Frame
  /\ captured' = captured \cup {img_data'}
  /\ UNCHANGED <<recognition_success, used_time, config, out>>

(* No frame: 10 ms are counted, however long the attempts took.  The count  *)
(* is only compared with Limit, so it stops there.                         *)
Counted == IF used_time + Tick < Limit THEN used_time + Tick ELSE Limit

CaptureFails ==
  /\ pc = "capture"
  /\ used_time' = Counted
  /\ UNCHANGED <<pc, recognition_success, img_data, config, out, captured>>

(* Mutants of Decided: the success is not looked at; the limit is not.      *)
DecidedByTime == used_time >= Limit
DecidedBySuccess == recognition_success = TRUE

(* Only looked at when a frame has arrived. *)
Decided == recognition_success \/ used_time >= Limit

HasFeatures == img_data.face /\ img_data.extracts

(* A mutant of Passes: the gate is left out. *)
PassesUngated == HasFeatures /\ img_data.feature # NoFeature

(* The frame is reported. *)
Passes ==
  /\ HasFeatures
  /\ liveness_detection => img_data.real
  /\ img_data.feature # NoFeature

(* anti_face uses the anti-spoofing models whether they are there or not. *)
NoLivenessCheck == HasFeatures /\ liveness_detection /\ ~ fas_models

Release == img_data' = NoFrame

Leave ==
  /\ pc = "frame" /\ Decided
  /\ Release /\ Goto("result")
  /\ UNCHANGED <<recognition_success, used_time, config, out, captured>>

Recognize ==
  /\ pc = "frame" /\ ~ Decided /\ ~ NoLivenessCheck /\ Passes
  /\ recognition_success' = TRUE
  /\ Says("SUCCESS", img_data.feature)
  /\ Release /\ Goto("capture")
  /\ UNCHANGED <<used_time, config, captured>>

(* A mutant of Skip: continue without delete[]. *)
SkipKeepsFrame ==
  /\ pc = "frame" /\ ~ Decided /\ ~ NoLivenessCheck /\ ~ Passes
  /\ Goto("capture")
  /\ UNCHANGED <<recognition_success, used_time, img_data, config, out, captured>>

Skip ==
  /\ pc = "frame" /\ ~ Decided /\ ~ NoLivenessCheck /\ ~ Passes
  /\ Release /\ Goto("capture")
  /\ UNCHANGED <<recognition_success, used_time, config, out, captured>>

(* predict dereferences a null pointer. *)
Crash ==
  /\ pc = "frame" /\ ~ Decided /\ NoLivenessCheck
  /\ Goto("gone")
  /\ UNCHANGED <<loop, config, out>>

-----------------------------------------------------------------------------
(* A mutant of Result: the success is reported at the end again. *)
ResultAgain ==
  /\ pc = "result" /\ Goto("gone")
  /\ Says(IF recognition_success THEN "SUCCESS" ELSE "TIMEOUT", NoFeature)
  /\ UNCHANGED <<loop, config>>

Result ==
  /\ pc = "result" /\ Goto("gone")
  /\ IF recognition_success THEN UNCHANGED out ELSE Says("TIMEOUT", NoFeature)
  /\ UNCHANGED <<loop, config>>

Run ==
  \/ Announce \/ OpenCamera \/ LoadModels \/ CaptureFails
  \/ Leave \/ Recognize \/ Skip \/ Crash \/ Result

(* stop_fr_process of the service, or the end of the session. *)
Terminated ==
  /\ pc # "gone" /\ Goto("gone")
  /\ UNCHANGED <<loop, config, out>>

Next == Run \/ CaptureFrame \/ Terminated

(* The thread runs.  Nothing is assumed of the camera: every attempt may    *)
(* fail, for ever.                                                         *)
Spec == Init /\ [][Next]_vars /\ WF_vars(Run)

-----------------------------------------------------------------------------
Final(report) == report.status \in {"SUCCESS", "TIMEOUT"}

(* One verdict at most, and nothing after it: the frame that the loop      *)
(* still captures after a success is not reported, and a success is not    *)
(* followed by a time-out (recognizeFace).                                 *)
OneVerdict ==
  \A i \in 1 .. Len(out) :
    Final(out[i]) =>
      /\ i = Len(out)
      /\ out[i].status = "SUCCESS" <=> recognition_success

(* A reported feature is one of a captured frame with a face in it, which  *)
(* passed the liveness detection if that is switched on; a frame that did  *)
(* not pass never lends its feature to a report (recognizeFace).           *)
ReportPassedGate ==
  \A i \in 1 .. Len(out) :
    out[i].status = "SUCCESS" =>
      \E f \in captured :
        /\ f.feature = out[i].feature /\ f.feature # NoFeature
        /\ f.face /\ f.extracts
        /\ liveness_detection => f.real /\ fas_models

(* With a camera that goes on delivering frames the process ends once it   *)
(* has succeeded or has counted 10 s of failures: the loop's only exits    *)
(* are behind a captured frame (recognizeFace).                            *)
WorkingCamera == []<>(pc \in {"frame", "gone"})
EndsOnceDecided ==
  WorkingCamera => (recognition_success \/ used_time >= Limit ~> pc = "gone")

(* A recognizer does what SUService assumes of one.                        *)
state ==
  IF pc = "start" THEN "started"
  ELSE IF pc = "gone" THEN "gone"
  ELSE IF recognition_success THEN "leaving" ELSE "scanning"

Abstract == INSTANCE Recognizer
RefinesRecognizer == Abstract!Spec

(* main.cpp:322 says of the loop that it times out after ten seconds: with  *)
(* a camera that delivers, whoever scans comes to an end.                  *)
TimesOut == WorkingCamera => (pc = "capture" ~> pc = "gone")
=============================================================================
