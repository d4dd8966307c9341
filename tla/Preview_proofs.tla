----------------------------- MODULE Preview_proofs ----------------------------
(* What holds of the preview and of captures, for any number of preview     *)
(* processes.                                                               *)
EXTENDS Preview, SequenceTheorems, TLAPS

-----------------------------------------------------------------------------
(* What the pipe's thread has still to do.                                  *)

(* The step it is at.                                                       *)
Now == IF todo = << >> THEN "idle" ELSE Head(todo)

(* A picture is copied, sent and shown in this order, and nothing but the   *)
(* end of the preview leads to a capture (GetLatestPreviewFrame,            *)
(* CaptureAndAddFace).                                                      *)
Follows(a, b) ==
  /\ b # "copy" /\ (b = "send" => a = "copy") /\ (b = "show" => a = "send")
  /\ b = "capture" => a \in {"stop", "await exit"}

OrderInv ==
  /\ todo \in Seq(Step)
  /\ \A i \in 1 .. Len(todo) - 1 : Follows(todo[i], todo[i + 1])

(* A thread that has something to do does the first of it (todo).           *)
LEMMA NowIsFirst ==
  ASSUME OrderInv
  PROVE  /\ Now \in Step \union {"idle"}
         /\ \A step \in Step : Does(step) <=> Now = step
         /\ todo = << >> <=> Now = "idle"
<1>1. "idle" \notin Step
  BY DEF Step
<1>2. todo # << >> => Head(todo) \in Step
  BY HeadTailProperties DEF OrderInv
<1> QED
  BY <1>1, <1>2 DEF Now, Does

(* The next thing, when one is done.                                        *)
LEMMA DoneOne ==
  ASSUME OrderInv, NEW step, Does(step), Then(<< >>)
  PROVE  OrderInv' /\ (Now' = "idle" \/ Follows(step, Now'))
<1>1. /\ todo # << >> /\ todo \in Seq(Step) /\ todo[1] = step
      /\ Tail(todo) \in Seq(Step) /\ Len(Tail(todo)) = Len(todo) - 1
      /\ \A i \in 1 .. Len(Tail(todo)) : Tail(todo)[i] = todo[i + 1]
      /\ Len(todo) \in Nat \ {0}
  BY HeadTailProperties DEF OrderInv, Does
<1>2. todo' = Tail(todo)
  BY <1>1 DEF Then
<1>3. todo' # << >> => Len(todo') > 0 /\ Head(todo') = todo'[1]
  BY <1>1, <1>2, HeadTailProperties
<1>4. OrderInv'
  BY <1>1, <1>2 DEF OrderInv
<1>5. todo' # << >> => Follows(todo[1], todo'[1])
  BY <1>1, <1>2, <1>3 DEF OrderInv
<1> QED
  BY <1>1, <1>3, <1>4, <1>5 DEF Now

(* One thing instead of another.                                            *)
LEMMA ReplacedOne ==
  ASSUME OrderInv, NEW step, Does(step), NEW a \in Step, Then(<<a>>),
         \A x : Follows(step, x) => Follows(a, x)
  PROVE  OrderInv' /\ Now' = a
<1>1. /\ todo # << >> /\ todo \in Seq(Step) /\ todo[1] = step
      /\ Tail(todo) \in Seq(Step) /\ Len(Tail(todo)) = Len(todo) - 1
      /\ \A i \in 1 .. Len(Tail(todo)) : Tail(todo)[i] = todo[i + 1]
      /\ Len(todo) \in Nat \ {0}
  BY HeadTailProperties DEF OrderInv, Does
<1>2. <<a>> \in Seq(Step) /\ Len(<<a>>) = 1 /\ <<a>>[1] = a
  OBVIOUS
<1>3. todo' = <<a>> \o Tail(todo)
  BY DEF Then
<1>4. /\ todo' \in Seq(Step) /\ Len(todo') = Len(todo)
      /\ todo'[1] = a /\ \A i \in 2 .. Len(todo') : todo'[i] = todo[i]
  <2>1. /\ todo' \in Seq(Step) /\ Len(todo') = 1 + Len(Tail(todo))
        /\ \A i \in 1 .. 1 + Len(Tail(todo)) :
             todo'[i] = IF i <= 1 THEN <<a>>[i] ELSE Tail(todo)[i - 1]
    BY <1>1, <1>2, <1>3, ConcatProperties
  <2> QED
    BY <1>1, <1>2, <2>1
<1>5. OrderInv'
  <2>1. \A i \in 1 .. Len(todo) - 1 : Follows(todo[i], todo[i + 1])
    BY DEF OrderInv
  <2>2. ASSUME NEW i \in 1 .. Len(todo') - 1
        PROVE  Follows(todo'[i], todo'[i + 1])
    <3>1. i \in 1 .. Len(todo) - 1 /\ i + 1 \in 2 .. Len(todo')
      BY <1>1, <1>4
    <3>2. todo'[i + 1] = todo[i + 1] /\ Follows(todo[i], todo[i + 1])
      BY <1>4, <2>1, <3>1
    <3>3. CASE i = 1
      BY <1>1, <1>4, <3>2, <3>3
    <3>4. CASE i # 1
      BY <1>1, <1>4, <3>1, <3>2, <3>4
    <3> QED
      BY <3>3, <3>4
  <2> QED
    BY <1>4, <2>2 DEF OrderInv
<1>6. todo' # << >> /\ Head(todo') = a
  BY <1>1, <1>4, HeadTailProperties
<1> QED
  BY <1>5, <1>6 DEF Now

(* A new call.                                                              *)
LEMMA Called ==
  ASSUME todo' \in {<<"start">>, <<"stop">>, <<"grab">>, <<"capture", "add">>,
                    <<"stop", "capture", "start", "add">>,
                    <<"copy", "send", "show">>}
  PROVE  OrderInv' /\ Now' = todo'[1]
<1>1. ASSUME NEW a \in Step, todo' = <<a>>
      PROVE  OrderInv' /\ Now' = todo'[1]
  BY <1>1 DEF OrderInv, Now
<1>2. ASSUME NEW a \in Step, NEW b \in Step, todo' = <<a, b>>, Follows(a, b)
      PROVE  OrderInv' /\ Now' = todo'[1]
  <2>1. todo' \in Seq(Step) /\ Len(todo') = 2 /\ todo' # << >>
    BY <1>2
  <2>2. Follows(todo'[1], todo'[2])
    BY <1>2
  <2> QED
    BY <2>1, <2>2, HeadTailProperties DEF OrderInv, Now
<1>3. ASSUME NEW a \in Step, NEW b \in Step, NEW c \in Step,
             todo' = <<a, b, c>>, Follows(a, b), Follows(b, c)
      PROVE  OrderInv' /\ Now' = todo'[1]
  <2>1. todo' \in Seq(Step) /\ Len(todo') = 3 /\ todo' # << >>
    BY <1>3
  <2>2. Follows(todo'[1], todo'[2]) /\ Follows(todo'[2], todo'[3])
    BY <1>3
  <2> QED
    BY <2>1, <2>2, HeadTailProperties DEF OrderInv, Now
<1>4. ASSUME NEW a \in Step, NEW b \in Step, NEW c \in Step, NEW d \in Step,
             todo' = <<a, b, c, d>>, Follows(a, b), Follows(b, c), Follows(c, d)
      PROVE  OrderInv' /\ Now' = todo'[1]
  <2>1. todo' \in Seq(Step) /\ Len(todo') = 4 /\ todo' # << >>
    BY <1>4
  <2>2. /\ Follows(todo'[1], todo'[2]) /\ Follows(todo'[2], todo'[3])
        /\ Follows(todo'[3], todo'[4])
    BY <1>4
  <2> QED
    BY <2>1, <2>2, HeadTailProperties DEF OrderInv, Now
<1>5. CASE todo' \in {<<"start">>, <<"stop">>, <<"grab">>}
  <2>1. "start" \in Step /\ "stop" \in Step /\ "grab" \in Step
    BY DEF Step
  <2> QED
    BY <1>1, <1>5, <2>1
<1>6. CASE todo' = <<"capture", "add">>
  <2>1. "capture" \in Step /\ "add" \in Step /\ Follows("capture", "add")
    BY DEF Step, Follows
  <2> QED
    BY <1>2, <1>6, <2>1
<1>7. CASE todo' = <<"stop", "capture", "start", "add">>
  <2>1. /\ "stop" \in Step /\ "capture" \in Step /\ "start" \in Step
        /\ "add" \in Step /\ Follows("stop", "capture")
        /\ Follows("capture", "start") /\ Follows("start", "add")
    BY DEF Step, Follows
  <2> QED
    BY <1>4, <1>7, <2>1
<1>8. CASE todo' = <<"copy", "send", "show">>
  <2>1. /\ "copy" \in Step /\ "send" \in Step /\ "show" \in Step
        /\ Follows("copy", "send") /\ Follows("send", "show")
    BY DEF Step, Follows
  <2> QED
    BY <1>3, <1>8, <2>1
<1> QED
  BY <1>5, <1>6, <1>7, <1>8

(* Two things instead of one: what is left of a preview is removed before   *)
(* the next one is started (StartPreviewStream).                            *)
LEMMA StopsAndStarts ==
  ASSUME OrderInv, Does("start"), Then(<<"stop", "start">>)
  PROVE  OrderInv' /\ Now' = "stop"
<1>1. /\ todo # << >> /\ todo \in Seq(Step) /\ todo[1] = "start"
      /\ Tail(todo) \in Seq(Step) /\ Len(Tail(todo)) = Len(todo) - 1
      /\ \A i \in 1 .. Len(Tail(todo)) : Tail(todo)[i] = todo[i + 1]
      /\ Len(todo) \in Nat \ {0}
  BY HeadTailProperties DEF OrderInv, Does
<1>2. /\ <<"stop", "start">> \in Seq(Step) /\ Len(<<"stop", "start">>) = 2
      /\ <<"stop", "start">>[1] = "stop" /\ <<"stop", "start">>[2] = "start"
  <2>1. "stop" \in Step /\ "start" \in Step
    BY DEF Step
  <2> QED
    BY <2>1
<1>3. todo' = <<"stop", "start">> \o Tail(todo)
  BY DEF Then
<1>4. /\ todo' \in Seq(Step) /\ Len(todo') = Len(todo) + 1
      /\ todo'[1] = "stop" /\ todo'[2] = "start"
      /\ \A i \in 2 .. Len(todo') : todo'[i] = todo[i - 1]
  <2>1. /\ todo' \in Seq(Step) /\ Len(todo') = 2 + Len(Tail(todo))
        /\ \A i \in 1 .. 2 + Len(Tail(todo)) :
             todo'[i] = IF i <= 2 THEN <<"stop", "start">>[i]
                                  ELSE Tail(todo)[i - 2]
    BY <1>1, <1>2, <1>3, ConcatProperties
  <2>2. todo'[1] = "stop" /\ todo'[2] = "start"
    BY <1>1, <1>2, <2>1
  <2>3. ASSUME NEW i \in 2 .. Len(todo) + 1 PROVE todo'[i] = todo[i - 1]
    <3>1. CASE i = 2
      BY <1>1, <2>2, <3>1
    <3>2. CASE i # 2
      <4>1. i - 2 \in 1 .. Len(Tail(todo)) /\ (i - 2) + 1 = i - 1
        BY <1>1, <3>2
      <4>2. todo'[i] = Tail(todo)[i - 2]
        BY <1>1, <2>1, <3>2
      <4> QED
        BY <1>1, <4>1, <4>2
    <3> QED
      BY <3>1, <3>2
  <2> QED
    BY <1>1, <2>1, <2>2, <2>3
<1>5. OrderInv'
  <2>1. \A i \in 1 .. Len(todo) - 1 : Follows(todo[i], todo[i + 1])
    BY DEF OrderInv
  <2>2. ASSUME NEW i \in 1 .. Len(todo') - 1
        PROVE  Follows(todo'[i], todo'[i + 1])
    <3>1. CASE i = 1
      <4>1. Follows("stop", "start")
        BY DEF Follows
      <4> QED
        BY <1>4, <3>1, <4>1
    <3>2. CASE i # 1
      <4>1. i - 1 \in 1 .. Len(todo) - 1 /\ (i - 1) + 1 = i
        BY <1>1, <1>4, <3>2
      <4>2. todo'[i] = todo[i - 1] /\ todo'[i + 1] = todo[i]
        BY <1>1, <1>4, <3>2
      <4> QED
        BY <2>1, <4>1, <4>2
    <3> QED
      BY <3>1, <3>2
  <2> QED
    BY <1>4, <2>2 DEF OrderInv
<1>6. todo' # << >> /\ Head(todo') = "stop"
  BY <1>1, <1>4, HeadTailProperties
<1> QED
  BY <1>5, <1>6 DEF Now

-----------------------------------------------------------------------------
(* A capture that has ended with success has left a whole feature or none,  *)
(* so the service has never read a part of one                              *)
(* (captureImageToSharedMemory, capture_shared_payload).                    *)
CaptureInv ==
  /\ cap \notin {"sized", "exit 0", "exit 1"} => frame.feature = "none"
  /\ cap = "exit 0" => frame.feature # "part"
  /\ captured # "part"

(* READY is set for whole pictures only (streamPreviewToSharedMemory).      *)
ReadyInv ==
  \A n \in Stream :
    status[n] = "READY" \/ child[n] = "copied" => written[n] = Pieces

(* A picture on its way to the GUI: GetLatestPreviewFrame,                  *)
(* serialize_preview_via_shared_mapping, parse_preview_data.                *)
ViewInv ==
  /\ slot \in {{}, Pieces} /\ shown \in {{}, Pieces}
  /\ Now = "copy" =>
       mapping \in Stream /\ written[mapping] = Pieces /\ got = {"top"}
  /\ Now = "send" => got = Pieces

(* Only the stream the service knows of can live without being forced, and  *)
(* it does not run when a face is captured (CaptureAndAddFace).             *)
CameraInv ==
  /\ Live \subseteq forced \union {proc}
  /\ Now = "capture" => ~ Running
  /\ extract => Now = "await capture" /\ ~ Running

IInv == TypeOK /\ OrderInv /\ CaptureInv /\ ReadyInv /\ ViewInv /\ CameraInv

(* Nothing to do.                                                           *)
LEMMA NothingToDo ==
  ASSUME todo' = << >>
  PROVE  OrderInv' /\ Now' = "idle"
BY DEF OrderInv, Now

(* The header as it is reset (captureImageToSharedMemory).                  *)
LEMMA ResetFrame ==
  LET Frame == [status : {"EMPTY", "READY", "CAPTURE_FAILED",
                          "FEATURE_EXTRACTION_FAILED"},
                feature : {"none", "part", "whole"}]
      failed == [NoFrame EXCEPT !.status = "CAPTURE_FAILED"]
  IN  /\ NoFrame \in Frame /\ NoFrame.feature = "none"
      /\ failed \in Frame /\ failed.feature = "none"
BY DEF NoFrame

(* A step keeps what it has no hand in.                                     *)
LEMMA Undisturbed ==
  ASSUME IInv
  PROVE  /\ OrderInv' /\ UNCHANGED <<captured, viewer>> => CallTypes'
         /\ UNCHANGED <<stream, child, shared, forced>> => StreamTypes'
         /\ UNCHANGED <<child, capture, camera>> => CaptureTypes'
         /\ UNCHANGED <<captured, capture>> => CaptureInv'
         /\ UNCHANGED <<child, status, written>> => ReadyInv'
         /\ /\ UNCHANGED <<slot, shown>>
            /\ Now' \in {"copy", "send"} =>
                 UNCHANGED <<got, mapping, written>> /\ Now' = Now
            => ViewInv'
         /\ /\ UNCHANGED <<proc, Live, forced, extract>>
            /\ Now' = Now \/ (Now' # "capture" /\ Now # "await capture")
            => CameraInv'
<1>1. OrderInv' /\ UNCHANGED <<captured, viewer>> => CallTypes'
  BY DEF IInv, TypeOK, CallTypes, OrderInv, viewer
<1>2. UNCHANGED <<stream, child, shared, forced>> => StreamTypes'
  BY DEF IInv, TypeOK, StreamTypes, stream, shared
<1>3. UNCHANGED <<child, capture, camera>> => CaptureTypes'
  BY DEF IInv, TypeOK, CaptureTypes, capture, Live
<1>4. UNCHANGED <<captured, capture>> => CaptureInv'
  BY DEF IInv, CaptureInv, capture
<1>5. UNCHANGED <<child, status, written>> => ReadyInv'
  BY DEF IInv, ReadyInv
<1>6. ASSUME UNCHANGED <<slot, shown>>,
             Now' \in {"copy", "send"} =>
               UNCHANGED <<got, mapping, written>> /\ Now' = Now
      PROVE  ViewInv'
  BY <1>6 DEF IInv, ViewInv
<1>7. ASSUME UNCHANGED <<proc, Live, forced, extract>>,
             Now' = Now \/ (Now' # "capture" /\ Now # "await capture")
      PROVE  CameraInv'
  BY <1>7 DEF IInv, CameraInv, Running
<1> QED
  BY <1>1, <1>2, <1>3, <1>4, <1>5, <1>6, <1>7

(* A preview process that has ended has not got the camera.                 *)
LEMMA Ended ==
  ASSUME IInv, NEW n \in Stream, Ends(n), UNCHANGED capture
  PROVE  CaptureTypes'
<1>1. Live' = Live \ {n}
  BY DEF IInv, TypeOK, StreamTypes, Live, Ends
<1>2. camera' = IF camera = n THEN Nobody ELSE camera
  BY DEF Ends, Free
<1>3. /\ camera' \in {Nobody, Capturer} \union Stream
      /\ camera' \in Stream => camera' \in Live'
  BY <1>1, <1>2, PreviewAssumption DEF IInv, TypeOK, CaptureTypes
<1> QED
  BY <1>3 DEF IInv, TypeOK, CaptureTypes, capture

(* The invariant of preview and capture.                                    *)
THEOREM PreviewInvariant == Spec => []IInv
<1>1. Init => IInv
  <2> SUFFICES ASSUME Init PROVE IInv
    OBVIOUS
  <2>1. OrderInv /\ Now = "idle"
    BY DEF Init, OrderInv, Now
  <2> QED
    BY <2>1, PreviewAssumption
       DEF Init, IInv, TypeOK, CallTypes, StreamTypes, CaptureTypes, OrderInv,
           CaptureInv, ReadyInv, ViewInv, CameraInv, NoFrame, Live
<1>2. IInv /\ [Next]_vars => IInv'
  <2> SUFFICES ASSUME IInv, [Next]_vars PROVE IInv'
    OBVIOUS
  <2>0. OrderInv /\ (UNCHANGED todo => OrderInv' /\ Now' = Now)
    BY DEF IInv, OrderInv, Now
  <2>1. CASE StartCameraPreview
    <3>0. Now = "idle" /\ OrderInv' /\ Now' = "start"
      BY <2>1, <2>0, NowIsFirst, Called DEF StartCameraPreview, Call
    <3>1. /\ CallTypes' /\ StreamTypes' /\ CaptureTypes' /\ CaptureInv'
          /\ ReadyInv' /\ ViewInv' /\ CameraInv'
      BY <2>1, <3>0, Undisturbed
         DEF StartCameraPreview, Call, caller, viewer, stream, shared,
             capture, Live
    <3> QED
      BY <3>0, <3>1 DEF IInv, TypeOK
  <2>2. CASE StopCameraPreview
    <3>0. Now = "idle" /\ OrderInv' /\ Now' = "stop"
      BY <2>2, <2>0, NowIsFirst, Called DEF StopCameraPreview, Call
    <3>1. /\ CallTypes' /\ StreamTypes' /\ CaptureTypes' /\ CaptureInv'
          /\ ReadyInv' /\ ViewInv' /\ CameraInv'
      BY <2>2, <3>0, Undisturbed
         DEF StopCameraPreview, Call, caller, viewer, stream, shared, capture,
             Live
    <3> QED
      BY <3>0, <3>1 DEF IInv, TypeOK
  <2>3. CASE CapturePreviewFrame
    <3>0. Now = "idle" /\ OrderInv' /\ Now' = "grab"
      BY <2>3, <2>0, NowIsFirst, Called DEF CapturePreviewFrame, Call
    <3>1. /\ CallTypes' /\ StreamTypes' /\ CaptureTypes' /\ CaptureInv'
          /\ ReadyInv' /\ ViewInv' /\ CameraInv'
      BY <2>3, <3>0, Undisturbed
         DEF CapturePreviewFrame, Call, caller, viewer, stream, shared,
             capture, Live
    <3> QED
      BY <3>0, <3>1 DEF IInv, TypeOK
  <2>4. CASE CaptureAndAddFace
    <3>0. /\ Now = "idle" /\ OrderInv'
          /\ IF Running THEN Now' = "stop" ELSE Now' = "capture"
      BY <2>4, <2>0, NowIsFirst, Called DEF CaptureAndAddFace, Call
    <3>1. /\ CallTypes' /\ StreamTypes' /\ CaptureTypes' /\ CaptureInv'
          /\ ReadyInv' /\ ViewInv'
      BY <2>4, <3>0, Undisturbed
         DEF CaptureAndAddFace, Call, caller, viewer, stream, shared, capture
    <3>2. CameraInv'
      <4>1. UNCHANGED Live
        BY <2>4 DEF IInv, TypeOK, StreamTypes, Live, CaptureAndAddFace, Call
      <4> QED
        BY <2>4, <3>0, <4>1
           DEF IInv, CameraInv, Running, stream, capture, CaptureAndAddFace,
               Call
    <3> QED
      BY <3>0, <3>1, <3>2 DEF IInv, TypeOK
  <2>5. CASE GetLatestCameraPreview
    <3>0. Now = "idle" /\ OrderInv' /\ Now' = "copy"
      BY <2>5, <2>0, NowIsFirst, Called DEF GetLatestCameraPreview
    <3>1. /\ StreamTypes' /\ CaptureTypes' /\ CaptureInv' /\ ReadyInv'
          /\ CameraInv'
      BY <2>5, <3>0, Undisturbed
         DEF GetLatestCameraPreview, caller, viewer, stream, shared, capture,
             Live
    <3>2. CallTypes'
      BY <2>5, <3>0, PreviewAssumption
         DEF IInv, TypeOK, CallTypes, OrderInv, Pieces, caller, viewer,
             GetLatestCameraPreview
    <3>3. ViewInv'
      BY <2>5, <3>0, PreviewAssumption
         DEF IInv, TypeOK, StreamTypes, CallTypes, ReadyInv, ViewInv,
             Running, Pieces, viewer, stream, shared, GetLatestCameraPreview
    <3> QED
      BY <3>0, <3>1, <3>2, <3>3 DEF IInv, TypeOK
  <2>6. CASE StartPreviewStream
    <3>0. /\ Now = "start" /\ OrderInv'
          /\ \/ Now' = "idle" \/ Follows("start", Now')
             \/ Now' \in {"stop", "probe"}
      BY <2>6, <2>0, NowIsFirst, DoneOne, ReplacedOne, StopsAndStarts
      DEF StartPreviewStream, Step, Follows
    <3>1. CaptureInv'
      BY <2>6, <3>0, Undisturbed
         DEF StartPreviewStream, caller, viewer, stream, shared, capture,
             Follows
    <3>2. CallTypes'
      BY <2>6, <3>0, PreviewAssumption
         DEF IInv, TypeOK, CallTypes, OrderInv, Pieces, caller, viewer,
             StartPreviewStream, Follows
    <3>3. StreamTypes'
      BY <2>6, <3>0, PreviewAssumption
         DEF IInv, TypeOK, StreamTypes, Pieces, stream, shared,
             StartPreviewStream, Follows
    <3>4. CaptureTypes'
      BY <2>6, <3>0, PreviewAssumption
         DEF IInv, TypeOK, StreamTypes, CaptureTypes, Live, capture,
             StartPreviewStream, Follows
    <3>5. ReadyInv'
      BY <2>6, <3>0, PreviewAssumption
         DEF IInv, TypeOK, StreamTypes, ReadyInv, Live, stream, shared,
             StartPreviewStream, Follows
    <3>6. ViewInv'
      BY <2>6, <3>0, PreviewAssumption
         DEF IInv, TypeOK, StreamTypes, CallTypes, ReadyInv, ViewInv,
             Running, Pieces, viewer, stream, shared, StartPreviewStream,
             Follows
    <3>7. CameraInv'
      <4>1. ~extract' /\ Now' # "capture"
        <5>1. ~extract
          BY <3>0 DEF IInv, CameraInv
        <5>2. UNCHANGED extract
          BY <2>6 DEF StartPreviewStream, capture
        <5> QED
          BY <3>0, <5>1, <5>2 DEF Follows
      <4>2. Live \subseteq forced \union {proc} /\ UNCHANGED forced
        BY <2>6 DEF IInv, CameraInv, StartPreviewStream
      <4>3. \/ UNCHANGED <<Live, proc>>
            \/ proc = Nobody /\ proc' \in Stream /\ Live' = Live \union {proc'}
        BY <2>6, <3>0
           DEF IInv, TypeOK, StreamTypes, Live, StartPreviewStream, Follows,
               stream
      <4>4. Nobody \notin Live
        BY PreviewAssumption DEF Live
      <4>5. Live' \subseteq forced' \union {proc'}
        BY <4>2, <4>3, <4>4
      <4> QED
        BY <4>1, <4>5 DEF CameraInv
    <3> QED
      BY <3>0, <3>1, <3>2, <3>3, <3>4, <3>5, <3>6, <3>7 DEF IInv, TypeOK
  <2>7. CASE Probe
    <3>0. /\ Now = "probe" /\ OrderInv'
          /\ \/ Now' = "idle" \/ Follows("probe", Now')
             \/ Now' = "stop"
      BY <2>7, <2>0, NowIsFirst, DoneOne, ReplacedOne DEF Probe, Step, Follows
    <3>1. /\ CallTypes' /\ StreamTypes' /\ CaptureTypes' /\ CaptureInv'
          /\ ReadyInv' /\ ViewInv' /\ CameraInv'
      BY <2>7, <3>0, Undisturbed
         DEF Probe, caller, viewer, stream, shared, capture, Follows, Live
    <3> QED
      BY <3>0, <3>1 DEF IInv, TypeOK
  <2>8. CASE RequestStop
    <3>0. Now = "stop" /\ OrderInv' /\ Now' = "await exit"
      BY <2>8, <2>0, NowIsFirst, ReplacedOne DEF RequestStop, Step, Follows
    <3>1. /\ CallTypes' /\ CaptureTypes' /\ CaptureInv' /\ ReadyInv'
          /\ ViewInv' /\ CameraInv'
      BY <2>8, <3>0, Undisturbed
         DEF RequestStop, caller, viewer, stream, shared, capture, Follows,
             Live
    <3>2. StreamTypes'
      BY <2>8, <3>0, PreviewAssumption
         DEF IInv, TypeOK, StreamTypes, Pieces, stream, shared, RequestStop
    <3> QED
      BY <3>0, <3>1, <3>2 DEF IInv, TypeOK
  <2>9. CASE StopPreviewStream
    <3>0. /\ Now = "await exit" /\ OrderInv'
          /\ Now' = "idle" \/ Follows("await exit", Now')
      BY <2>9, <2>0, NowIsFirst, DoneOne DEF StopPreviewStream, Step
    <3>1. CallTypes' /\ CaptureInv' /\ ViewInv'
      BY <2>9, <3>0, Undisturbed
         DEF StopPreviewStream, caller, viewer, stream, shared, capture,
             Follows
    <3>2. StreamTypes'
      BY <2>9, <3>0, PreviewAssumption
         DEF IInv, TypeOK, StreamTypes, Pieces, stream, shared,
             StopPreviewStream, Follows, Running, Live
    <3>3. CaptureTypes'
      BY <2>9, <3>0, PreviewAssumption
         DEF IInv, TypeOK, StreamTypes, CaptureTypes, Live, capture,
             StopPreviewStream, Follows
    <3>4. ReadyInv'
      BY <2>9, <3>0, PreviewAssumption
         DEF IInv, TypeOK, StreamTypes, ReadyInv, Live, stream, shared,
             StopPreviewStream, Follows
    <3>5. CameraInv'
      <4>1. UNCHANGED Live
        BY <2>9
           DEF IInv, TypeOK, StreamTypes, Live, StopPreviewStream, Follows,
               Running, stream
      <4> QED
        BY <2>9, <3>0, <4>1
           DEF IInv, CameraInv, Running, stream, capture, StopPreviewStream,
               Follows
    <3> QED
      BY <3>0, <3>1, <3>2, <3>3, <3>4, <3>5 DEF IInv, TypeOK
  <2>10. CASE Copy
    <3>0. /\ Now = "copy" /\ OrderInv'
          /\ Now' = "idle" \/ Follows("copy", Now')
      BY <2>10, <2>0, NowIsFirst, DoneOne DEF Copy, Step
    <3>1. CaptureTypes' /\ CaptureInv' /\ ReadyInv' /\ CameraInv'
      BY <2>10, <3>0, Undisturbed
         DEF Copy, caller, viewer, stream, shared, capture, Follows, Live
    <3>2. CallTypes'
      BY <2>10, <3>0, PreviewAssumption
         DEF IInv, TypeOK, CallTypes, OrderInv, Pieces, caller, viewer, Copy,
             Follows
    <3>3. StreamTypes'
      BY <2>10, <3>0, PreviewAssumption
         DEF IInv, TypeOK, StreamTypes, Pieces, stream, shared, Copy, Follows
    <3>4. ViewInv'
      BY <2>10, <3>0, PreviewAssumption
         DEF IInv, TypeOK, StreamTypes, CallTypes, ReadyInv, ViewInv,
             Running, Pieces, viewer, stream, shared, Copy, Follows
    <3> QED
      BY <3>0, <3>1, <3>2, <3>3, <3>4 DEF IInv, TypeOK
  <2>11. CASE SendPreview
    <3>0. /\ Now = "send" /\ OrderInv'
          /\ Now' = "idle" \/ Follows("send", Now')
      <4>1. CASE Then(<< >>)
        BY <2>11, <2>0, <4>1, NowIsFirst, DoneOne DEF SendPreview, Step
      <4>2. CASE todo' = << >>
        BY <2>11, <2>0, <4>2, NowIsFirst, NothingToDo DEF SendPreview, Step
      <4> QED
        BY <2>11, <4>1, <4>2 DEF SendPreview
    <3>1. /\ StreamTypes' /\ CaptureTypes' /\ CaptureInv' /\ ReadyInv'
          /\ CameraInv'
      BY <2>11, <3>0, Undisturbed
         DEF SendPreview, caller, viewer, stream, shared, capture, Follows,
             Live
    <3>2. CallTypes'
      BY <2>11, <3>0, PreviewAssumption
         DEF IInv, TypeOK, CallTypes, OrderInv, Pieces, caller, viewer,
             SendPreview, Follows
    <3>3. ViewInv'
      BY <2>11, <3>0, PreviewAssumption
         DEF IInv, TypeOK, StreamTypes, CallTypes, ReadyInv, ViewInv,
             Running, Pieces, viewer, stream, shared, SendPreview, Follows
    <3> QED
      BY <3>0, <3>1, <3>2, <3>3 DEF IInv, TypeOK
  <2>12. CASE ShowPreview
    <3>0. /\ Now = "show" /\ OrderInv'
          /\ Now' = "idle" \/ Follows("show", Now')
      BY <2>12, <2>0, NowIsFirst, DoneOne DEF ShowPreview, Step
    <3>1. /\ StreamTypes' /\ CaptureTypes' /\ CaptureInv' /\ ReadyInv'
          /\ CameraInv'
      BY <2>12, <3>0, Undisturbed
         DEF ShowPreview, caller, viewer, stream, shared, capture, Follows,
             Live
    <3>2. CallTypes'
      BY <2>12, <3>0, PreviewAssumption
         DEF IInv, TypeOK, CallTypes, OrderInv, Pieces, caller, viewer,
             ShowPreview, Follows
    <3>3. ViewInv'
      BY <2>12, <3>0, PreviewAssumption
         DEF IInv, TypeOK, StreamTypes, CallTypes, ReadyInv, ViewInv,
             Running, Pieces, viewer, stream, shared, ShowPreview, Follows
    <3> QED
      BY <3>0, <3>1, <3>2, <3>3 DEF IInv, TypeOK
  <2>13. CASE Capture("capture", TRUE)
    <3>0. /\ Now = "capture" /\ OrderInv'
          /\ \/ Now' = "idle" \/ Follows("capture", Now')
             \/ Now' = "await capture"
          /\ extract' # extract => Now' = "await capture"
      <4>1. CASE Then(<< >>) /\ UNCHANGED capture
        BY <2>13, <2>0, <4>1, NowIsFirst, DoneOne DEF Capture, Step, capture
      <4>2. CASE Then(<<"await capture">>)
        BY <2>13, <2>0, <4>2, NowIsFirst, ReplacedOne DEF Capture, Step, Follows
      <4> QED
        BY <2>13, <4>1, <4>2 DEF Capture
    <3>1. StreamTypes' /\ ReadyInv' /\ ViewInv'
      BY <2>13, <3>0, Undisturbed
         DEF Capture, caller, viewer, stream, shared, capture, Follows
    <3>2. CallTypes'
      BY <2>13, <3>0, PreviewAssumption
         DEF IInv, TypeOK, CallTypes, OrderInv, Pieces, caller, viewer,
             Capture, Follows
    <3>3. CaptureTypes'
      BY <2>13, <3>0, PreviewAssumption, ResetFrame
         DEF IInv, TypeOK, StreamTypes, CaptureTypes, Live, capture, Capture,
             Follows
    <3>4. CaptureInv'
      BY <2>13, <3>0, PreviewAssumption, ResetFrame
         DEF IInv, TypeOK, CaptureTypes, CaptureInv, caller, capture,
             Capture, Follows
    <3>5. CameraInv'
      <4>1. ~extract /\ UNCHANGED <<proc, forced, child>>
        BY <2>13, <3>0 DEF IInv, CameraInv, Capture, stream
      <4>2. UNCHANGED Live /\ UNCHANGED Running
        BY <4>1 DEF Live, Running
      <4>3. Now' # "capture"
        BY <3>0 DEF Follows
      <4>4. extract' => Now' = "await capture" /\ ~ Running
        BY <2>13, <3>0, <4>1 DEF IInv, CameraInv, Capture, capture
      <4> QED
        BY <4>1, <4>2, <4>3, <4>4 DEF IInv, CameraInv
    <3> QED
      BY <3>0, <3>1, <3>2, <3>3, <3>4, <3>5 DEF IInv, TypeOK
  <2>14. CASE Capture("grab", FALSE)
    <3>0. /\ Now = "grab" /\ OrderInv'
          /\ \/ Now' = "idle" \/ Follows("grab", Now')
             \/ Now' = "await capture"
          /\ extract' # extract => Now' = "await capture"
      <4>1. CASE Then(<< >>) /\ UNCHANGED capture
        BY <2>14, <2>0, <4>1, NowIsFirst, DoneOne DEF Capture, Step, capture
      <4>2. CASE Then(<<"await capture">>)
        BY <2>14, <2>0, <4>2, NowIsFirst, ReplacedOne DEF Capture, Step, Follows
      <4> QED
        BY <2>14, <4>1, <4>2 DEF Capture
    <3>1. StreamTypes' /\ ReadyInv' /\ ViewInv'
      BY <2>14, <3>0, Undisturbed
         DEF Capture, caller, viewer, stream, shared, capture, Follows
    <3>2. CallTypes'
      BY <2>14, <3>0, PreviewAssumption
         DEF IInv, TypeOK, CallTypes, OrderInv, Pieces, caller, viewer,
             Capture, Follows
    <3>3. CaptureTypes'
      BY <2>14, <3>0, PreviewAssumption, ResetFrame
         DEF IInv, TypeOK, StreamTypes, CaptureTypes, Live, capture, Capture,
             Follows
    <3>4. CaptureInv'
      BY <2>14, <3>0, PreviewAssumption, ResetFrame
         DEF IInv, TypeOK, CaptureTypes, CaptureInv, caller, capture,
             Capture, Follows
    <3>5. CameraInv'
      <4>1. ~extract /\ UNCHANGED <<proc, forced, child>>
        BY <2>14, <3>0 DEF IInv, CameraInv, Capture, stream
      <4>2. UNCHANGED Live /\ UNCHANGED Running
        BY <4>1 DEF Live, Running
      <4>3. Now' # "capture"
        BY <3>0 DEF Follows
      <4>4. extract' => Now' = "await capture" /\ ~ Running
        BY <2>14, <4>1 DEF Capture, capture
      <4> QED
        BY <4>1, <4>2, <4>3, <4>4 DEF IInv, CameraInv
    <3> QED
      BY <3>0, <3>1, <3>2, <3>3, <3>4, <3>5 DEF IInv, TypeOK
  <2>15. CASE CaptureEnds
    <3>0. /\ Now = "await capture" /\ OrderInv'
          /\ Now' = "idle" \/ Follows("await capture", Now')
      BY <2>15, <2>0, NowIsFirst, DoneOne DEF CaptureEnds, Step
    <3>1. StreamTypes' /\ ReadyInv' /\ ViewInv'
      BY <2>15, <3>0, Undisturbed
         DEF CaptureEnds, Payload, NoFrame, caller, viewer, stream, shared,
             capture, Follows
    <3>2. CallTypes'
      BY <2>15, <3>0, PreviewAssumption
         DEF IInv, TypeOK, CallTypes, OrderInv, Pieces, caller, viewer,
             CaptureEnds, Payload, NoFrame, Follows, CaptureTypes
    <3>3. CaptureTypes'
      BY <2>15, <3>0, PreviewAssumption
         DEF IInv, TypeOK, StreamTypes, CaptureTypes, Live, capture,
             CaptureEnds, Payload, NoFrame, Follows
    <3>4. CaptureInv'
      BY <2>15, <3>0, PreviewAssumption
         DEF IInv, TypeOK, CaptureTypes, CaptureInv, caller, capture,
             CaptureEnds, Payload, NoFrame, Follows
    <3>5. CameraInv'
      <4>1. UNCHANGED Live
        BY <2>15
           DEF IInv, TypeOK, StreamTypes, Live, CaptureEnds, Payload,
               NoFrame, Follows
      <4> QED
        BY <2>15, <3>0, <4>1
           DEF IInv, CameraInv, Running, stream, capture, CaptureEnds,
               Payload, NoFrame, Follows
    <3> QED
      BY <3>0, <3>1, <3>2, <3>3, <3>4, <3>5 DEF IInv, TypeOK
  <2>16. CASE AddFace
    <3>0. /\ Now = "add" /\ OrderInv'
          /\ Now' = "idle" \/ Follows("add", Now')
      BY <2>16, <2>0, NowIsFirst, DoneOne DEF AddFace, Step
    <3>1. /\ StreamTypes' /\ CaptureTypes' /\ ReadyInv' /\ ViewInv'
          /\ CameraInv'
      BY <2>16, <3>0, Undisturbed
         DEF AddFace, caller, viewer, stream, shared, capture, Follows, Live
    <3>2. CallTypes'
      BY <2>16, <3>0, PreviewAssumption
         DEF IInv, TypeOK, CallTypes, OrderInv, Pieces, caller, viewer,
             AddFace, Follows
    <3>3. CaptureInv'
      BY <2>16, <3>0, PreviewAssumption
         DEF IInv, TypeOK, CaptureTypes, CaptureInv, caller, capture,
             AddFace, Follows
    <3> QED
      BY <3>0, <3>1, <3>2, <3>3 DEF IInv, TypeOK
  <2>17. CASE CapOpens
    <3>0. OrderInv' /\ Now' = Now
      BY <2>17, <2>0 DEF CapOpens, caller
    <3>1. CallTypes' /\ StreamTypes' /\ ReadyInv' /\ ViewInv' /\ CameraInv'
      BY <2>17, <3>0, Undisturbed
         DEF CapOpens, Cap, caller, viewer, stream, shared, capture, Live
    <3>2. CaptureTypes'
      BY <2>17, <3>0, PreviewAssumption, ResetFrame
         DEF IInv, TypeOK, StreamTypes, CaptureTypes, Live, capture,
             CapOpens, Cap
    <3>3. CaptureInv'
      BY <2>17, <3>0, PreviewAssumption, ResetFrame
         DEF IInv, TypeOK, CaptureTypes, CaptureInv, caller, capture,
             CapOpens, Cap
    <3> QED
      BY <3>0, <3>1, <3>2, <3>3 DEF IInv, TypeOK
  <2>18. CASE CapPicture
    <3>0. OrderInv' /\ Now' = Now
      BY <2>18, <2>0 DEF CapPicture, caller
    <3>1. CallTypes' /\ StreamTypes' /\ ReadyInv' /\ ViewInv' /\ CameraInv'
      BY <2>18, <3>0, Undisturbed
         DEF CapPicture, Cap, Free, caller, viewer, stream, shared, capture,
             Live
    <3>2. CaptureTypes'
      BY <2>18, <3>0, PreviewAssumption
         DEF IInv, TypeOK, StreamTypes, CaptureTypes, Live, capture,
             CapPicture, Cap, Free
    <3>3. CaptureInv'
      BY <2>18, <3>0, PreviewAssumption
         DEF IInv, TypeOK, CaptureTypes, CaptureInv, caller, capture,
             CapPicture, Cap, Free
    <3> QED
      BY <3>0, <3>1, <3>2, <3>3 DEF IInv, TypeOK
  <2>19. CASE CapFeature
    <3>0. OrderInv' /\ Now' = Now
      BY <2>19, <2>0 DEF CapFeature, caller
    <3>1. CallTypes' /\ StreamTypes' /\ ReadyInv' /\ ViewInv' /\ CameraInv'
      BY <2>19, <3>0, Undisturbed
         DEF CapFeature, Cap, Free, caller, viewer, stream, shared, capture,
             Live
    <3>2. CaptureTypes'
      BY <2>19, <3>0, PreviewAssumption
         DEF IInv, TypeOK, StreamTypes, CaptureTypes, Live, capture,
             CapFeature, Cap, Free
    <3>3. CaptureInv'
      BY <2>19, <3>0, PreviewAssumption
         DEF IInv, TypeOK, CaptureTypes, CaptureInv, caller, capture,
             CapFeature, Cap, Free
    <3> QED
      BY <3>0, <3>1, <3>2, <3>3 DEF IInv, TypeOK
  <2>20. CASE CapCopies
    <3>0. OrderInv' /\ Now' = Now
      BY <2>20, <2>0 DEF CapCopies, caller
    <3>1. CallTypes' /\ StreamTypes' /\ ReadyInv' /\ ViewInv' /\ CameraInv'
      BY <2>20, <3>0, Undisturbed
         DEF CapCopies, Cap, Free, caller, viewer, stream, shared, capture,
             Live
    <3>2. CaptureTypes'
      BY <2>20, <3>0, PreviewAssumption
         DEF IInv, TypeOK, StreamTypes, CaptureTypes, Live, capture,
             CapCopies, Cap, Free
    <3>3. CaptureInv'
      BY <2>20, <3>0, PreviewAssumption
         DEF IInv, TypeOK, CaptureTypes, CaptureInv, caller, capture,
             CapCopies, Cap, Free
    <3> QED
      BY <3>0, <3>1, <3>2, <3>3 DEF IInv, TypeOK
  <2>21. CASE CapDies
    <3>0. OrderInv' /\ Now' = Now
      BY <2>21, <2>0 DEF CapDies, caller
    <3>1. CallTypes' /\ StreamTypes' /\ ReadyInv' /\ ViewInv' /\ CameraInv'
      BY <2>21, <3>0, Undisturbed
         DEF CapDies, Cap, Free, caller, viewer, stream, shared, capture, Live
    <3>2. CaptureTypes'
      BY <2>21, <3>0, PreviewAssumption
         DEF IInv, TypeOK, StreamTypes, CaptureTypes, Live, capture, CapDies,
             Cap, Free
    <3>3. CaptureInv'
      BY <2>21, <3>0, PreviewAssumption
         DEF IInv, TypeOK, CaptureTypes, CaptureInv, caller, capture,
             CapDies, Cap, Free
    <3> QED
      BY <3>0, <3>1, <3>2, <3>3 DEF IInv, TypeOK
  <2>22. ASSUME NEW n \in Stream, OpenMapping(n)
        PROVE  IInv'
    <3>0. OrderInv' /\ Now' = Now
      BY <2>22, <2>0 DEF OpenMapping, caller
    <3>1. CallTypes' /\ CaptureInv' /\ ViewInv'
      BY <2>22, <3>0, Undisturbed
         DEF OpenMapping, Ends, Free, caller, viewer, stream, shared, capture
    <3>2. StreamTypes'
      BY <2>22, <3>0, PreviewAssumption
         DEF IInv, TypeOK, StreamTypes, Pieces, stream, shared, OpenMapping,
             Ends, Free
    <3>3. CaptureTypes'
      <4>1. CASE Ends(n)
        BY <2>22, <4>1, Ended DEF OpenMapping
      <4>2. CASE ~Ends(n)
        <5>1. Live' = Live /\ UNCHANGED <<camera, capture>>
          BY <2>22, <4>2 DEF IInv, TypeOK, StreamTypes, Live, OpenMapping
        <5> QED
          BY <5>1 DEF IInv, TypeOK, CaptureTypes, capture
      <4> QED
        BY <4>1, <4>2
    <3>4. ReadyInv'
      BY <2>22, <3>0, PreviewAssumption
         DEF IInv, TypeOK, StreamTypes, ReadyInv, Live, stream, shared,
             OpenMapping, Ends, Free
    <3>5. CameraInv'
      <4>1. \/ UNCHANGED <<Live, forced>>
            \/ Live' = Live \ {n} /\ forced' = forced \ {n}
        BY <2>22 DEF IInv, TypeOK, StreamTypes, Live, OpenMapping, Ends, Free
      <4> QED
        BY <2>22, <3>0, <4>1
           DEF IInv, CameraInv, Running, stream, capture, OpenMapping, Ends,
               Free
    <3> QED
      BY <3>0, <3>1, <3>2, <3>3, <3>4, <3>5 DEF IInv, TypeOK
  <2>23. ASSUME NEW n \in Stream, OpenCamera(n)
        PROVE  IInv'
    <3>0. OrderInv' /\ Now' = Now
      BY <2>23, <2>0 DEF OpenCamera, caller
    <3>1. CallTypes' /\ CaptureInv' /\ ViewInv'
      BY <2>23, <3>0, Undisturbed
         DEF OpenCamera, Ends, Free, caller, viewer, stream, shared, capture
    <3>2. StreamTypes'
      BY <2>23, <3>0, PreviewAssumption
         DEF IInv, TypeOK, StreamTypes, Pieces, stream, shared, OpenCamera,
             Ends, Free
    <3>3. CaptureTypes'
      <4>1. CASE Ends(n)
        BY <2>23, <4>1, Ended DEF OpenCamera
      <4>2. CASE ~Ends(n)
        <5>1. Live' = Live /\ n \in Live /\ camera' = n /\ UNCHANGED capture
          BY <2>23, <4>2 DEF IInv, TypeOK, StreamTypes, Live, OpenCamera
        <5> QED
          BY <5>1 DEF IInv, TypeOK, CaptureTypes, capture
      <4> QED
        BY <4>1, <4>2
    <3>4. ReadyInv'
      BY <2>23, <3>0, PreviewAssumption
         DEF IInv, TypeOK, StreamTypes, ReadyInv, Live, stream, shared,
             OpenCamera, Ends, Free
    <3>5. CameraInv'
      <4>1. \/ UNCHANGED <<Live, forced>>
            \/ Live' = Live \ {n} /\ forced' = forced \ {n}
        BY <2>23 DEF IInv, TypeOK, StreamTypes, Live, OpenCamera, Ends, Free
      <4> QED
        BY <2>23, <3>0, <4>1
           DEF IInv, CameraInv, Running, stream, capture, OpenCamera, Ends,
               Free
    <3> QED
      BY <3>0, <3>1, <3>2, <3>3, <3>4, <3>5 DEF IInv, TypeOK
  <2>24. ASSUME NEW n \in Stream, Leave(n)
        PROVE  IInv'
    <3>0. OrderInv' /\ Now' = Now
      BY <2>24, <2>0 DEF Leave, caller
    <3>1. CallTypes' /\ CaptureInv' /\ ViewInv'
      BY <2>24, <3>0, Undisturbed
         DEF Leave, Ends, Free, caller, viewer, stream, shared, capture
    <3>2. StreamTypes'
      BY <2>24, <3>0, PreviewAssumption
         DEF IInv, TypeOK, StreamTypes, Pieces, stream, shared, Leave, Ends,
             Free
    <3>3. CaptureTypes'
      BY <2>24, Ended DEF Leave
    <3>4. ReadyInv'
      BY <2>24, <3>0, PreviewAssumption
         DEF IInv, TypeOK, StreamTypes, ReadyInv, Live, stream, shared,
             Leave, Ends, Free
    <3>5. CameraInv'
      <4>1. \/ UNCHANGED <<Live, forced>>
            \/ Live' = Live \ {n} /\ forced' = forced \ {n}
        BY <2>24 DEF IInv, TypeOK, StreamTypes, Live, Leave, Ends, Free
      <4> QED
        BY <2>24, <3>0, <4>1
           DEF IInv, CameraInv, Running, stream, capture, Leave, Ends, Free
    <3> QED
      BY <3>0, <3>1, <3>2, <3>3, <3>4, <3>5 DEF IInv, TypeOK
  <2>25. ASSUME NEW n \in Stream, Picture(n)
        PROVE  IInv'
    <3>0. OrderInv' /\ Now' = Now
      BY <2>25, <2>0 DEF Picture, caller
    <3>1. CallTypes' /\ CaptureInv'
      BY <2>25, <3>0, Undisturbed
         DEF Picture, Child, caller, viewer, stream, shared, capture
    <3>2. StreamTypes'
      BY <2>25, <3>0, PreviewAssumption
         DEF IInv, TypeOK, StreamTypes, Pieces, stream, shared, Picture,
             Child
    <3>3. CaptureTypes'
      BY <2>25, <3>0, PreviewAssumption
         DEF IInv, TypeOK, StreamTypes, CaptureTypes, Live, capture, Picture,
             Child
    <3>4. ReadyInv'
      BY <2>25, <3>0, PreviewAssumption
         DEF IInv, TypeOK, StreamTypes, ReadyInv, Live, stream, shared,
             Picture, Child, Pieces
    <3>5. ViewInv'
      BY <2>25, <3>0, PreviewAssumption
         DEF IInv, TypeOK, StreamTypes, CallTypes, ReadyInv, ViewInv,
             Running, Pieces, viewer, stream, shared, Picture, Child
    <3>6. CameraInv'
      <4>1. UNCHANGED <<Live, forced>>
        BY <2>25 DEF IInv, TypeOK, StreamTypes, Live, Picture, Child
      <4> QED
        BY <2>25, <3>0, <4>1
           DEF IInv, CameraInv, Running, stream, capture, Picture, Child
    <3> QED
      BY <3>0, <3>1, <3>2, <3>3, <3>4, <3>5, <3>6 DEF IInv, TypeOK
  <2>26. ASSUME NEW n \in Stream, CopyRest(n)
        PROVE  IInv'
    <3>0. OrderInv' /\ Now' = Now
      BY <2>26, <2>0 DEF CopyRest, caller
    <3>1. CallTypes' /\ CaptureInv'
      BY <2>26, <3>0, Undisturbed
         DEF CopyRest, Child, caller, viewer, stream, shared, capture
    <3>2. StreamTypes'
      BY <2>26, <3>0, PreviewAssumption
         DEF IInv, TypeOK, StreamTypes, Pieces, stream, shared, CopyRest,
             Child
    <3>3. CaptureTypes'
      BY <2>26, <3>0, PreviewAssumption
         DEF IInv, TypeOK, StreamTypes, CaptureTypes, Live, capture,
             CopyRest, Child
    <3>4. ReadyInv'
      BY <2>26, <3>0, PreviewAssumption
         DEF IInv, TypeOK, StreamTypes, ReadyInv, Live, stream, shared,
             CopyRest, Child
    <3>5. ViewInv'
      BY <2>26, <3>0, PreviewAssumption
         DEF IInv, TypeOK, StreamTypes, CallTypes, ReadyInv, ViewInv,
             Running, Pieces, viewer, stream, shared, CopyRest, Child
    <3>6. CameraInv'
      <4>1. UNCHANGED <<Live, forced>>
        BY <2>26 DEF IInv, TypeOK, StreamTypes, Live, CopyRest, Child
      <4> QED
        BY <2>26, <3>0, <4>1
           DEF IInv, CameraInv, Running, stream, capture, CopyRest, Child
    <3> QED
      BY <3>0, <3>1, <3>2, <3>3, <3>4, <3>5, <3>6 DEF IInv, TypeOK
  <2>27. ASSUME NEW n \in Stream, Publish(n)
        PROVE  IInv'
    <3>0. OrderInv' /\ Now' = Now
      BY <2>27, <2>0 DEF Publish, caller
    <3>1. CallTypes' /\ CaptureInv' /\ ViewInv'
      BY <2>27, <3>0, Undisturbed
         DEF Publish, Child, caller, viewer, stream, shared, capture
    <3>2. StreamTypes'
      BY <2>27, <3>0, PreviewAssumption
         DEF IInv, TypeOK, StreamTypes, Pieces, stream, shared, Publish,
             Child
    <3>3. CaptureTypes'
      BY <2>27, <3>0, PreviewAssumption
         DEF IInv, TypeOK, StreamTypes, CaptureTypes, Live, capture, Publish,
             Child
    <3>4. ReadyInv'
      BY <2>27, <3>0, PreviewAssumption
         DEF IInv, TypeOK, StreamTypes, ReadyInv, Live, stream, shared,
             Publish, Child
    <3>5. CameraInv'
      <4>1. UNCHANGED <<Live, forced>>
        BY <2>27 DEF IInv, TypeOK, StreamTypes, Live, Publish, Child
      <4> QED
        BY <2>27, <3>0, <4>1
           DEF IInv, CameraInv, Running, stream, capture, Publish, Child
    <3> QED
      BY <3>0, <3>1, <3>2, <3>3, <3>4, <3>5 DEF IInv, TypeOK
  <2>28. ASSUME NEW n \in Stream, NoPicture(n)
        PROVE  IInv'
    <3>0. OrderInv' /\ Now' = Now
      BY <2>28, <2>0 DEF NoPicture, caller
    <3>1. /\ CallTypes' /\ CaptureTypes' /\ CaptureInv' /\ ViewInv'
          /\ CameraInv'
      BY <2>28, <3>0, Undisturbed
         DEF NoPicture, caller, viewer, stream, shared, capture, Live
    <3>2. StreamTypes'
      BY <2>28, <3>0, PreviewAssumption
         DEF IInv, TypeOK, StreamTypes, Pieces, stream, shared, NoPicture
    <3>3. ReadyInv'
      BY <2>28, <3>0, PreviewAssumption
         DEF IInv, TypeOK, StreamTypes, ReadyInv, Live, stream, shared,
             NoPicture
    <3> QED
      BY <3>0, <3>1, <3>2, <3>3 DEF IInv, TypeOK
  <2>29. ASSUME NEW n \in Stream, Crash(n)
        PROVE  IInv'
    <3>0. OrderInv' /\ Now' = Now
      BY <2>29, <2>0 DEF Crash, caller
    <3>1. CallTypes' /\ CaptureInv' /\ ViewInv'
      BY <2>29, <3>0, Undisturbed
         DEF Crash, Ends, Free, caller, viewer, stream, shared, capture
    <3>2. StreamTypes'
      BY <2>29, <3>0, PreviewAssumption
         DEF IInv, TypeOK, StreamTypes, Pieces, stream, shared, Crash, Ends,
             Free
    <3>3. CaptureTypes'
      BY <2>29, Ended DEF Crash
    <3>4. ReadyInv'
      BY <2>29, <3>0, PreviewAssumption
         DEF IInv, TypeOK, StreamTypes, ReadyInv, Live, stream, shared,
             Crash, Ends, Free
    <3>5. CameraInv'
      <4>1. \/ UNCHANGED <<Live, forced>>
            \/ Live' = Live \ {n} /\ forced' = forced \ {n}
        BY <2>29 DEF IInv, TypeOK, StreamTypes, Live, Crash, Ends, Free
      <4> QED
        BY <2>29, <3>0, <4>1
           DEF IInv, CameraInv, Running, stream, capture, Crash, Ends, Free
    <3> QED
      BY <3>0, <3>1, <3>2, <3>3, <3>4, <3>5 DEF IInv, TypeOK
  <2>30. CASE ServiceRestarts
    <3>0. OrderInv' /\ Now' = "idle"
      BY <2>30, NothingToDo DEF ServiceRestarts
    <3>1. CallTypes'
      BY <2>30, <3>0, PreviewAssumption
         DEF IInv, TypeOK, CallTypes, OrderInv, Pieces, caller, viewer,
             ServiceRestarts, NoFrame
    <3>2. StreamTypes'
      BY <2>30, <3>0, PreviewAssumption
         DEF IInv, TypeOK, StreamTypes, Pieces, stream, shared,
             ServiceRestarts, NoFrame, Live
    <3>3. CaptureTypes'
      BY <2>30, <3>0, PreviewAssumption
         DEF IInv, TypeOK, StreamTypes, CaptureTypes, Live, capture,
             ServiceRestarts, NoFrame
    <3>4. CaptureInv'
      BY <2>30, <3>0, PreviewAssumption
         DEF IInv, TypeOK, CaptureTypes, CaptureInv, caller, capture,
             ServiceRestarts, NoFrame
    <3>5. ReadyInv'
      BY <2>30, <3>0, PreviewAssumption
         DEF IInv, TypeOK, StreamTypes, ReadyInv, Live, stream, shared,
             ServiceRestarts, NoFrame
    <3>6. ViewInv'
      BY <2>30, <3>0, PreviewAssumption
         DEF IInv, TypeOK, StreamTypes, CallTypes, ReadyInv, ViewInv,
             Running, Pieces, viewer, stream, shared, ServiceRestarts,
             NoFrame
    <3>7. CameraInv'
      <4>1. UNCHANGED Live
        BY <2>30 DEF IInv, TypeOK, StreamTypes, Live, ServiceRestarts, NoFrame
      <4> QED
        BY <2>30, <3>0, <4>1
           DEF IInv, CameraInv, Running, stream, capture, ServiceRestarts,
               NoFrame
    <3> QED
      BY <3>0, <3>1, <3>2, <3>3, <3>4, <3>5, <3>6, <3>7 DEF IInv, TypeOK
  <2>31. CASE UNCHANGED vars
    <3>0. OrderInv' /\ Now' = Now
      BY <2>31, <2>0 DEF vars, caller
    <3>1. /\ CallTypes' /\ StreamTypes' /\ CaptureTypes' /\ CaptureInv'
          /\ ReadyInv' /\ ViewInv' /\ CameraInv'
      BY <2>31, <3>0, Undisturbed
         DEF vars, caller, viewer, stream, shared, capture, Live
    <3> QED
      BY <3>0, <3>1 DEF IInv, TypeOK
  <2> QED
    BY <2>1, <2>2, <2>3, <2>4, <2>5, <2>6, <2>7, <2>8, <2>9, <2>10, <2>11,
       <2>12, <2>13, <2>14, <2>15, <2>16, <2>17, <2>18, <2>19, <2>20,
       <2>21, <2>22, <2>23, <2>24, <2>25, <2>26, <2>27, <2>28, <2>29,
       <2>30, <2>31
       DEF Next, Calls, ServiceThread, CaptureProcess, ChildSteps
<1> QED
  BY <1>1, <1>2, PTL DEF Spec

-----------------------------------------------------------------------------
(* Every variable has values the code can produce (Preview).                *)
THEOREM TypeCorrect == Spec => []TypeOK
<1>1. IInv => TypeOK
  BY DEF IInv
<1> QED
  BY <1>1, PreviewInvariant, PTL

(* The GUI shows whole pictures only, for any number of preview processes   *)
(* that are started, stopped, terminated or orphaned                        *)
(* (GetLatestPreviewFrame, streamPreviewToSharedMemory).                    *)
THEOREM OnlyWholePictures == Spec => []ShowsWhole
<1>1. IInv => ShowsWhole
  BY DEF IInv, ViewInv, ShowsWhole
<1> QED
  BY <1>1, PreviewInvariant, PTL

(* No half-written feature becomes a face (capture_shared_payload,          *)
(* CaptureAndAddFace).                                                      *)
THEOREM OnlyWholeFeatures == Spec => []EnrolsWhole
<1>1. IInv => EnrolsWhole
  BY DEF IInv, CaptureInv, EnrolsWhole
<1> QED
  BY <1>1, PreviewInvariant, PTL

(* While a face is captured for an account, no preview process is left but  *)
(* one that was terminated or that outlived its service                     *)
(* (CaptureAndAddFace, StopPreviewStream).                                  *)
THEOREM CameraIsFree == Spec => []CameraIsLeft
<1>1. IInv => CameraIsLeft
  <2> SUFFICES ASSUME IInv, extract PROVE Live \subseteq forced
    BY DEF CameraIsLeft
  <2>1. Live \subseteq forced \union {proc} /\ ~ Running
    BY DEF IInv, CameraInv
  <2>2. proc \notin Live
    BY <2>1, PreviewAssumption DEF Running, Live
  <2> QED
    BY <2>1, <2>2
<1> QED
  BY <1>1, PreviewInvariant, PTL
=============================================================================
