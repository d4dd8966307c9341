-------------------------- MODULE FRRecognize_proofs --------------------------
(***************************************************************************)
(* Proofs about FRRecognize: types, one verdict, the liveness gate, and    *)
(* that a recognizer does what the service assumes of one.                 *)
(***************************************************************************)
EXTENDS FRRecognize, TLAPS

(* What has been said, by how far the process has come. *)
SaidNothing == out = << >>
SaidScanning == Len(out) = 1 /\ out[1].status = "RECOGNIZING"
SaidVerdict(status) ==
  Len(out) = 2 /\ out[1].status = "RECOGNIZING" /\ out[2].status = status

SaidInv ==
  /\ pc = "start" => SaidNothing /\ ~ recognition_success
  /\ pc \in {"camera", "models", "capture", "frame", "result"} =>
       IF recognition_success THEN SaidVerdict("SUCCESS") ELSE SaidScanning
  /\ pc = "gone" =>
       IF recognition_success THEN SaidVerdict("SUCCESS")
       ELSE SaidNothing \/ SaidScanning \/ SaidVerdict("TIMEOUT")

HeldInv == pc = "frame" => img_data \in captured

IInv == TypeOK /\ SaidInv /\ HeldInv /\ ReportPassedGate

LEMMA InitInv == Init => IInv
<1> SUFFICES ASSUME Init PROVE IInv
  OBVIOUS
<1>1. TypeOK
  <2>1. 0 \in 0 .. Limit /\ << >> \in Seq(Report)
    BY LimitAssumption
  <2> QED BY <2>1 DEF Init, TypeOK
<1>2. SaidInv /\ HeldInv
  BY DEF Init, SaidInv, SaidNothing, HeldInv
<1>3. ReportPassedGate
  BY DEF Init, ReportPassedGate
<1> QED BY <1>1, <1>2, <1>3 DEF IInv

(* Reports only go to the end. *)
LEMMA FirstReport ==
  ASSUME NEW r \in Report
  PROVE  LET s == Append(<< >>, r) IN
         s \in Seq(Report) /\ Len(s) = 1 /\ s[1] = r
  OBVIOUS

LEMMA SecondReport ==
  ASSUME NEW s \in Seq(Report), Len(s) = 1, NEW r \in Report
  PROVE  /\ Append(s, r) \in Seq(Report) /\ Len(Append(s, r)) = 2
         /\ Append(s, r)[1] = s[1] /\ Append(s, r)[2] = r
<1>1. /\ Append(s, r) \in Seq(Report)
      /\ Len(Append(s, r)) = Len(s) + 1
      /\ Append(s, r)[Len(s) + 1] = r
      /\ \A i \in 1 .. Len(s) : Append(s, r)[i] = s[i]
  OBVIOUS
<1> QED BY <1>1

LEMMA NextInv == IInv /\ [Next]_vars => IInv'
<1> SUFFICES ASSUME IInv, [Next]_vars PROVE IInv'
  OBVIOUS
<1> USE DEF IInv, Goto, loop, config
<1>1. CASE Announce
  <2> DEFINE r == [status |-> "RECOGNIZING", feature |-> NoFeature]
  <2>1. r \in Report /\ out' = Append(out, r) /\ out = << >>
    BY <1>1 DEF Announce, Says, Report, SaidInv, SaidNothing
  <2>2. out' \in Seq(Report) /\ Len(out') = 1 /\ out'[1] = r
    BY <2>1, FirstReport
  <2>3. TypeOK'
    <3>1. pc = "start" /\ pc' = "camera" /\ UNCHANGED <<loop, config>>
      BY <1>1 DEF Announce
    <3>2. out' \in Seq(Report)
      BY <2>2
    <3> QED BY <3>1, <3>2 DEF TypeOK
  <2>4. SaidInv'
    BY <1>1, <2>2 DEF Announce, SaidInv, SaidScanning
  <2>5. HeldInv' /\ ReportPassedGate'
    BY <1>1, <2>2 DEF Announce, HeldInv, ReportPassedGate
  <2> QED BY <2>3, <2>4, <2>5
<1>2. ASSUME OpenCamera \/ LoadModels PROVE IInv'
  <2>1. TypeOK' BY <1>2 DEF OpenCamera, LoadModels, TypeOK
  <2>2. SaidInv'
    BY <1>2 DEF OpenCamera, LoadModels, SaidInv, SaidNothing, SaidScanning, SaidVerdict
  <2>3. HeldInv' /\ ReportPassedGate'
    BY <1>2 DEF OpenCamera, LoadModels, HeldInv, ReportPassedGate
  <2> QED BY <2>1, <2>2, <2>3
<1>3. CASE CaptureFrame
  <2>1. TypeOK' BY <1>3, FrameAssumption DEF CaptureFrame, TypeOK
  <2>2. SaidInv' BY <1>3 DEF CaptureFrame, SaidInv, SaidScanning, SaidVerdict
  <2>3. HeldInv' BY <1>3 DEF CaptureFrame, HeldInv
  <2>4. ReportPassedGate' BY <1>3 DEF CaptureFrame, ReportPassedGate
  <2> QED BY <2>1, <2>2, <2>3, <2>4
<1>4. CASE CaptureFails
  <2>1. TypeOK' BY <1>4, LimitAssumption DEF CaptureFails, Counted, TypeOK
  <2>2. SaidInv' BY <1>4 DEF CaptureFails, SaidInv, SaidScanning, SaidVerdict
  <2>3. HeldInv' /\ ReportPassedGate'
    BY <1>4 DEF CaptureFails, HeldInv, ReportPassedGate
  <2> QED BY <2>1, <2>2, <2>3
<1>5. ASSUME Leave \/ Skip PROVE IInv'
  <2>1. TypeOK' BY <1>5 DEF Leave, Skip, Release, TypeOK
  <2>2. SaidInv' BY <1>5 DEF Leave, Skip, SaidInv, SaidScanning, SaidVerdict
  <2>3. HeldInv' /\ ReportPassedGate'
    BY <1>5 DEF Leave, Skip, HeldInv, ReportPassedGate
  <2> QED BY <2>1, <2>2, <2>3
<1>6. CASE Recognize
  <2> DEFINE r == [status |-> "SUCCESS", feature |-> img_data.feature]
  <2>1. /\ img_data \in Frame /\ img_data \in captured
        /\ img_data.feature # NoFeature /\ img_data.face /\ img_data.extracts
        /\ liveness_detection => img_data.real /\ fas_models
        /\ ~ recognition_success
    BY <1>6 DEF Recognize, Passes, HasFeatures, NoLivenessCheck, Decided, HeldInv, TypeOK
  <2>2. r \in Report /\ out' = Append(out, r)
    BY <1>6, <2>1, FrameAssumption DEF Recognize, Says, Report, FrameRecord
  <2>3. Len(out) = 1 /\ out[1].status = "RECOGNIZING"
    BY <1>6, <2>1 DEF Recognize, SaidInv, SaidScanning
  <2>4. out' \in Seq(Report) /\ Len(out') = 2 /\ out'[1] = out[1] /\ out'[2] = r
    <3>1. out \in Seq(Report)
      BY DEF TypeOK
    <3> HIDE DEF r
    <3> QED BY <2>2, <2>3, <3>1, SecondReport
  <2>5. TypeOK' BY <1>6, <2>4 DEF Recognize, Release, TypeOK
  <2>6. SaidInv' BY <1>6, <2>3, <2>4 DEF Recognize, SaidInv, SaidVerdict
  <2>7. HeldInv' BY <1>6 DEF Recognize, HeldInv
  <2>8. ReportPassedGate'
    BY <1>6, <2>1, <2>3, <2>4 DEF Recognize, ReportPassedGate
  <2> QED BY <2>5, <2>6, <2>7, <2>8
<1>7. ASSUME Crash \/ Terminated PROVE IInv'
  <2>1. TypeOK' BY <1>7 DEF Crash, Terminated, TypeOK
  <2>2. SaidInv'
    BY <1>7 DEF Crash, Terminated, TypeOK, SaidInv, SaidNothing, SaidScanning, SaidVerdict
  <2>3. HeldInv' /\ ReportPassedGate'
    BY <1>7 DEF Crash, Terminated, HeldInv, ReportPassedGate
  <2> QED BY <2>1, <2>2, <2>3
<1>8. CASE Result
  <2>1. CASE recognition_success
    <3>1. TypeOK' BY <1>8, <2>1 DEF Result, TypeOK
    <3>2. SaidInv' BY <1>8, <2>1 DEF Result, SaidInv, SaidVerdict
    <3>3. HeldInv' /\ ReportPassedGate'
      BY <1>8, <2>1 DEF Result, HeldInv, ReportPassedGate
    <3> QED BY <3>1, <3>2, <3>3
  <2>2. CASE ~ recognition_success
    <3> DEFINE r == [status |-> "TIMEOUT", feature |-> NoFeature]
    <3>1. r \in Report /\ out' = Append(out, r)
      BY <1>8, <2>2 DEF Result, Says, Report
    <3>2. Len(out) = 1 /\ out[1].status = "RECOGNIZING"
      BY <1>8, <2>2 DEF Result, SaidInv, SaidScanning
    <3>3. out' \in Seq(Report) /\ Len(out') = 2 /\ out'[1] = out[1] /\ out'[2] = r
      <4>1. out \in Seq(Report)
        BY DEF TypeOK
      <4> HIDE DEF r
      <4> QED BY <3>1, <3>2, <4>1, SecondReport
    <3>4. TypeOK' BY <1>8, <3>3 DEF Result, TypeOK
    <3>5. SaidInv' BY <1>8, <2>2, <3>2, <3>3 DEF Result, SaidInv, SaidVerdict
    <3>6. HeldInv' BY <1>8 DEF Result, HeldInv
    <3>7. ReportPassedGate' BY <1>8, <3>2, <3>3 DEF Result, ReportPassedGate
    <3> QED BY <3>4, <3>5, <3>6, <3>7
  <2> QED BY <2>1, <2>2
<1>9. CASE UNCHANGED vars
  BY <1>9 DEF vars, TypeOK, SaidInv, SaidNothing, SaidScanning, SaidVerdict,
    HeldInv, ReportPassedGate
<1> QED
  BY <1>1, <1>2, <1>3, <1>4, <1>5, <1>6, <1>7, <1>8, <1>9 DEF Next, Run

(* The inductive invariant of a run of recognizeFace. *)
THEOREM RunInvariant == Spec => []IInv
  BY InitInv, NextInv, PTL DEF Spec

(* Type correctness, with a frame held only while it is looked at. *)
THEOREM TypeCorrect == Spec => []TypeOK
  BY RunInvariant, PTL DEF IInv

(* At most one verdict is reported, and nothing after it. *)
THEOREM VerdictIsSingle == Spec => []OneVerdict
<1>1. IInv => OneVerdict
  <2> SUFFICES ASSUME IInv PROVE OneVerdict
    OBVIOUS
  <2>1. \/ SaidNothing \/ SaidScanning
        \/ SaidVerdict("SUCCESS") /\ recognition_success
        \/ SaidVerdict("TIMEOUT") /\ ~ recognition_success
    BY DEF IInv, TypeOK, SaidInv
  <2>2. CASE SaidNothing
    BY <2>2 DEF SaidNothing, OneVerdict
  <2>3. CASE SaidScanning
    BY <2>3 DEF SaidScanning, OneVerdict, Final
  <2>4. CASE SaidVerdict("SUCCESS") /\ recognition_success
    BY <2>4 DEF SaidVerdict, OneVerdict, Final
  <2>5. CASE SaidVerdict("TIMEOUT") /\ ~ recognition_success
    BY <2>5 DEF SaidVerdict, OneVerdict, Final
  <2> QED BY <2>1, <2>2, <2>3, <2>4, <2>5
<1> QED BY <1>1, RunInvariant, PTL

(* A reported feature passed the gate. *)
THEOREM ReportsPassGate == Spec => []ReportPassedGate
  BY RunInvariant, PTL DEF IInv

LEMMA StepImplements == IInv /\ [Next]_vars => [Abstract!Next]_<<state, out>>
<1> SUFFICES ASSUME IInv, [Next]_vars PROVE [Abstract!Next]_<<state, out>>
  OBVIOUS
<1> USE DEF IInv, Goto, Abstract!Next
<1>1. CASE Announce
  BY <1>1 DEF Announce, Says, loop, SaidInv, state, Abstract!BeginScan, Abstract!Says
<1>2. ASSUME OpenCamera \/ LoadModels PROVE [Abstract!Next]_<<state, out>>
  BY <1>2 DEF OpenCamera, LoadModels, loop, state, Abstract!Exit
<1>3. ASSUME CaptureFrame \/ CaptureFails \/ Leave \/ Skip
      PROVE  UNCHANGED <<state, out>>
  BY <1>3 DEF CaptureFrame, CaptureFails, Leave, Skip, state
<1>4. CASE Recognize
  <2>1. img_data.feature \in Feature /\ ~ recognition_success
    BY <1>4, FrameAssumption
    DEF Recognize, Passes, Decided, TypeOK, FrameRecord
  <2>2. state = "scanning" /\ state' = "leaving"
    BY <1>4, <2>1 DEF Recognize, state
  <2>3. Abstract!Recognize
    BY <1>4, <2>1, <2>2 DEF Recognize, Says, Abstract!Recognize, Abstract!Says
  <2> QED BY <2>3
<1>5. ASSUME Crash \/ Terminated PROVE Abstract!Exit
  <2>1. state # "gone" /\ state' = "gone"
    BY <1>5 DEF Crash, Terminated, state
  <2> QED BY <1>5, <2>1 DEF Crash, Terminated, Abstract!Exit
<1>6. CASE Result
  BY <1>6 DEF Result, Says, loop, state, Abstract!GiveUp, Abstract!Exit, Abstract!Says
<1>7. CASE UNCHANGED vars
  BY <1>7 DEF vars, state
<1> QED BY <1>1, <1>2, <1>3, <1>4, <1>5, <1>6, <1>7 DEF Next, Run

(* recognizeFace does what the service assumes of a recognizer. *)
THEOREM ImplementsRecognizer == Spec => RefinesRecognizer
<1>1. Init => Abstract!Init
  BY DEF Init, state, Abstract!Init
<1> QED
  BY <1>1, StepImplements, RunInvariant, PTL
  DEF Spec, RefinesRecognizer, Abstract!Spec, Abstract!RecognizerVars
=============================================================================
