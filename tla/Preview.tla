------------------------------- MODULE Preview -------------------------------
(* The camera pictures of the GUI: the preview stream and the capture of a  *)
(* face, which FaceRecognizer processes write into shared memory            *)
(* (SharedFrameHeader and the bytes behind it) and the service reads.       *)
(*   - the service: FaceRecognition's preview and capture functions, called *)
(*     one after the other by the thread that serves the GUI's pipe;        *)
(*   - streamPreviewToSharedMemory, a process and a mapping per stream;     *)
(*   - captureImageToSharedMemory, a process and a mapping per capture;     *)
(*   - the camera, which one process can open at a time (external); that    *)
(*     anybody else has it is one of the reasons why opening it fails.      *)
(*                                                                          *)
(* There is no lock on the shared memory, so its bytes are written and read *)
(* piece by piece: a picture has two pieces, a feature is written after its *)
(* size.                                                                    *)
EXTENDS Sequences

CONSTANTS
  Stream,            \* preview processes, each with its mapping
  Nobody, Capturer   \* who has the camera, if none of them has

ASSUME PreviewAssumption == Nobody \notin Stream /\ Capturer \notin Stream

VARIABLES
  todo,      \* what the service's call has still to do, step by step
  proc,      \* preview_process_: the stream it is of, or Nobody
  mapping,   \* preview_view_ and preview_mapping_: the stream's, or Nobody
  fresh,     \* frame_sequence differs from last_preview_sequence_
  got,       \* the pieces GetLatestPreviewFrame has copied
  slot,      \* preview_transport_mapping_: the pieces in it
  shown,     \* the pieces of the last picture the GUI got of the stream
  captured,  \* the feature capture_shared_payload has read, or "none"
  child,     \* where each preview process is
  stop,      \* stop_requested of each stream's header
  status,    \* status_code of each stream's header
  written,   \* the pieces ever written into each stream's mapping
  cap,       \* where the capture process is
  extract,   \* its --extract-feature
  frame,     \* the capture's mapping: [status, feature]
  camera,    \* who has the camera: Nobody, Capturer or a stream
  forced     \* ghost: streams that were terminated or outlived their service

caller  == <<todo, captured>>
viewer  == <<got, slot, shown>>
stream  == <<proc, mapping>>
shared  == <<stop, status, written, fresh>>
capture == <<cap, extract, frame>>
vars == <<caller, viewer, stream, child, shared, capture, camera, forced>>

Pieces == {"top", "bottom"}
Live == {n \in Stream : child[n] # "dead"}
Running == proc # Nobody /\ proc \in Live          \* IsPreviewStreamRunning
NoFrame == [status |-> "EMPTY", feature |-> "none"]

-----------------------------------------------------------------------------
(* The calls of the GUI, which arrive one at a time.                        *)

Call(steps) ==
  /\ todo = << >>
  /\ todo' = steps
  /\ UNCHANGED <<captured, viewer, stream, child, shared, capture,
                 camera, forced>>

StartCameraPreview == Call(<<"start">>)
StopCameraPreview == Call(<<"stop">>)
CapturePreviewFrame == Call(<<"grab">>)

(* A preview that runs is stopped, for the camera, and started again before *)
(* the result of the capture is looked at.                                  *)
CaptureAndAddFace ==
  Call(IF Running THEN <<"stop", "capture", "start", "add">>
                  ELSE <<"capture", "add">>)

Does(step) == todo # << >> /\ Head(todo) = step
Then(steps) == todo' = steps \o Tail(todo)

-----------------------------------------------------------------------------
(* StartPreviewStream and StopPreviewStream.                                *)

(* Nothing to do for a stream that runs; what is left of one that has ended *)
(* is removed first; else a new mapping and a new process, or neither.      *)
StartPreviewStream ==
  /\ Does("start")
  /\ \/ Running /\ Then(<< >>) /\ UNCHANGED <<stream, child, shared, shown>>
     \/ /\ ~Running /\ proc # Nobody
        /\ Then(<<"stop", "start">>)
        /\ UNCHANGED <<stream, child, shared, shown>>
     \/ /\ proc = Nobody
        /\ Then(<< >>)
        /\ UNCHANGED <<stream, child, shared, shown>>
     \/ /\ proc = Nobody
        /\ \E n \in Stream \ Live :
             /\ proc' = n /\ mapping' = n
             /\ child' = [child EXCEPT ![n] = "spawned"]
             /\ stop' = [stop EXCEPT ![n] = FALSE]
             /\ status' = [status EXCEPT ![n] = "EMPTY"]
             /\ written' = [written EXCEPT ![n] = {}]
        /\ fresh' = FALSE /\ shown' = {}
        /\ Then(<<"probe">>)
  /\ UNCHANGED <<captured, got, slot, capture, camera, forced>>

(* start_fr_preview_process watches the process for two seconds at most: it *)
(* has a picture, it has exited, or time is up.                             *)
Probe ==
  /\ Does("probe")
  /\ Then(IF Running THEN << >> ELSE <<"stop">>)
  /\ UNCHANGED <<captured, viewer, stream, child, shared, capture,
                 camera, forced>>

RequestStop ==
  /\ Does("stop")
  /\ stop' = IF mapping # Nobody THEN [stop EXCEPT ![mapping] = TRUE] ELSE stop
  /\ Then(<<"await exit">>)
  /\ UNCHANGED <<captured, viewer, stream, child, status, written,
                 fresh, capture, camera, forced>>

(* A mutant of StopPreviewStream: it waits without a limit.                 *)
WaitsForExit ==
  /\ Does("await exit")
  /\ ~Running
  /\ proc' = Nobody /\ mapping' = Nobody
  /\ Then(<< >>)
  /\ UNCHANGED <<captured, viewer, child, shared, capture,
                 camera, forced>>

(* A mutant of StopPreviewStream: it closes the handles without waiting.    *)
ClosesHandles ==
  /\ Does("await exit")
  /\ proc' = Nobody /\ mapping' = Nobody
  /\ Then(<< >>)
  /\ UNCHANGED <<captured, viewer, child, shared, capture,
                 camera, forced>>

(* A mutant of StopPreviewStream: preview_process_ keeps its value.         *)
KeepsHandle ==
  /\ Does("await exit")
  /\ ~Running
  /\ mapping' = Nobody
  /\ Then(<< >>)
  /\ UNCHANGED <<captured, viewer, proc, child, shared,
                 capture, camera, forced>>

(* The process has exited, or is terminated after two seconds, which takes  *)
(* effect later; the mapping and the handles are closed.                    *)
StopPreviewStream ==
  /\ Does("await exit")
  /\ \/ ~Running /\ UNCHANGED <<child, forced>>
     \/ /\ Running
        /\ child' = [child EXCEPT ![proc] = "dying"]
        /\ forced' = forced \union {proc}
  /\ proc' = Nobody /\ mapping' = Nobody
  /\ Then(<< >>)
  /\ UNCHANGED <<captured, viewer, shared, capture, camera>>

-----------------------------------------------------------------------------
(* A picture for the GUI.                                                   *)

(* GetLatestPreviewFrame: the checks, without which there is no picture and *)
(* nothing changes, and the first piece.                                    *)
GetLatestCameraPreview ==
  /\ todo = << >>
  /\ Running /\ status[mapping] = "READY" /\ fresh
  /\ got' = written[mapping] \intersect {"top"}
  /\ todo' = <<"copy", "send", "show">>
  /\ UNCHANGED <<captured, slot, shown, stream, child, shared,
                 capture, camera, forced>>

(* The rest, and only then the sequence is noted.                           *)
Copy ==
  /\ Does("copy")
  /\ got' = got \union (written[mapping] \intersect {"bottom"})
  /\ fresh' = FALSE
  /\ Then(<< >>)
  /\ UNCHANGED <<captured, slot, shown, stream, child, stop, status,
                 written, capture, camera, forced>>

(* serialize_preview_via_shared_mapping: the mapping of the picture before  *)
(* is closed, and a new one of the same name holds this picture.            *)
SendPreview ==
  /\ Does("send")
  /\ got' = {}
  /\ \/ slot' = got /\ Then(<< >>)
     \/ slot' = {} /\ todo' = << >>
  /\ UNCHANGED <<captured, shown, stream, child, shared, capture,
                 camera, forced>>

(* parse_preview_data: the GUI opens the mapping by its name.               *)
ShowPreview ==
  /\ Does("show")
  /\ shown' = slot
  /\ Then(<< >>)
  /\ UNCHANGED <<captured, got, slot, stream, child, shared, capture,
                 camera, forced>>

-----------------------------------------------------------------------------
(* capture_shared_payload and start_fr_capture_process.                     *)

Capture(step, feature) ==
  /\ Does(step)
  /\ cap = "none"
  /\ \/ /\ cap' = "spawned" /\ extract' = feature /\ frame' = NoFrame
        /\ Then(<<"await capture">>)
        /\ UNCHANGED captured
     \/ /\ captured' = "none" /\ Then(<< >>)
        /\ UNCHANGED capture
  /\ UNCHANGED <<viewer, stream, child, shared, camera, forced>>

(* What the payload is read as, once the process has exited.                *)
Payload ==
  IF frame.status = "READY" THEN frame.feature ELSE "none"

(* A mutant of CaptureEnds: the exit code is not looked at.                 *)
IgnoresExitCode ==
  /\ Does("await capture")
  /\ cap \in {"exit 0", "exit 1"}
  /\ captured' = Payload /\ cap' = "none"
  /\ extract' = FALSE /\ frame' = NoFrame
  /\ Then(<< >>)
  /\ UNCHANGED <<viewer, stream, child, shared, camera, forced>>

(* The process exits, with success or without, or is terminated after 15 s. *)
CaptureEnds ==
  /\ Does("await capture")
  /\ \/ cap = "exit 0" /\ captured' = Payload /\ cap' = "none"
     \/ cap = "exit 1" /\ captured' = "none" /\ cap' = "none"
     \/ /\ cap \notin {"exit 0", "exit 1"}
        /\ captured' = "none" /\ cap' = "dying"
  /\ extract' = FALSE /\ frame' = NoFrame
  /\ Then(<< >>)
  /\ UNCHANGED <<viewer, stream, child, shared, camera, forced>>

(* Without a feature CaptureAndAddFace fails.                               *)
AddFace ==
  /\ Does("add")
  /\ captured' = "none"
  /\ Then(<< >>)
  /\ UNCHANGED <<viewer, stream, child, shared, capture, camera, forced>>

-----------------------------------------------------------------------------
(* streamPreviewToSharedMemory.                                             *)

Free(who) == camera' = IF camera = who THEN Nobody ELSE camera

(* The process has ended.  The header is not looked at any more, the bytes  *)
(* may be if the service is copying them.                                   *)
Ends(n) ==
  /\ child' = [child EXCEPT ![n] = "dead"]
  /\ stop' = [stop EXCEPT ![n] = FALSE]
  /\ status' = [status EXCEPT ![n] = "EMPTY"]
  /\ fresh' = (fresh /\ mapping # n)
  /\ UNCHANGED written
  /\ forced' = forced \ {n}
  /\ Free(n)

Child(n, from, to) == child[n] = from /\ child' = [child EXCEPT ![n] = to]

(* The mapping is opened, unless it has gone, and its header is reset: also *)
(* a stop_requested the service has set by then.                            *)
OpenMapping(n) ==
  /\ child[n] = "spawned"
  /\ \/ /\ mapping = n
        /\ child' = [child EXCEPT ![n] = "opened"]
        /\ stop' = [stop EXCEPT ![n] = FALSE]
        /\ status' = [status EXCEPT ![n] = "EMPTY"]
        /\ UNCHANGED <<written, fresh, camera, forced>>
     \/ mapping # n /\ Ends(n)
  /\ UNCHANGED <<caller, viewer, stream, capture>>

(* The camera is opened, or it cannot be.                                   *)
OpenCamera(n) ==
  /\ child[n] = "opened"
  /\ \/ /\ camera = Nobody
        /\ child' = [child EXCEPT ![n] = "loop"]
        /\ camera' = n
        /\ UNCHANGED <<shared, forced>>
     \/ Ends(n)
  /\ UNCHANGED <<caller, viewer, stream, capture>>

(* stop_requested is looked at once per round.                              *)
Leave(n) ==
  /\ stop[n] /\ child[n] = "loop"
  /\ Ends(n)
  /\ UNCHANGED <<caller, viewer, stream, capture>>

NoPicture(n) ==
  /\ ~stop[n] /\ child[n] = "loop"
  /\ status' = [status EXCEPT ![n] = "CAPTURE_FAILED"]
  /\ UNCHANGED <<caller, viewer, stream, child, stop, written, fresh, capture,
                 camera, forced>>

(* A mutant of Picture: the header before the bytes, as in the capture.     *)
HeaderFirst(n) ==
  /\ ~stop[n] /\ Child(n, "loop", "copying")
  /\ written' = [written EXCEPT ![n] = @ \union {"top"}]
  /\ status' = [status EXCEPT ![n] = "READY"]
  /\ fresh' = (fresh \/ mapping = n)
  /\ UNCHANGED <<caller, viewer, stream, stop, capture, camera, forced>>

(* A picture is there and its first piece is copied.                        *)
Picture(n) ==
  /\ ~stop[n] /\ Child(n, "loop", "copying")
  /\ written' = [written EXCEPT ![n] = @ \union {"top"}]
  /\ UNCHANGED <<caller, viewer, stream, stop, status, fresh, capture, camera,
                 forced>>

CopyRest(n) ==
  /\ Child(n, "copying", "copied")
  /\ written' = [written EXCEPT ![n] = Pieces]
  /\ UNCHANGED <<caller, viewer, stream, stop, status, fresh, capture, camera,
                 forced>>

(* A mutant of Publish: the status is set, the sequence stays.              *)
SameSequence(n) ==
  /\ Child(n, "copied", "loop")
  /\ status' = [status EXCEPT ![n] = "READY"]
  /\ UNCHANGED <<caller, viewer, stream, stop, written, fresh, capture, camera,
                 forced>>

(* READY, and the next frame_sequence.                                      *)
Publish(n) ==
  /\ Child(n, "copied", "loop")
  /\ status' = [status EXCEPT ![n] = "READY"]
  /\ fresh' = (fresh \/ mapping = n)
  /\ UNCHANGED <<caller, viewer, stream, stop, written, capture, camera, forced>>

(* It crashes, or has been terminated.                                      *)
Crash(n) ==
  /\ n \in Live
  /\ Ends(n)
  /\ UNCHANGED <<caller, viewer, stream, capture>>

-----------------------------------------------------------------------------
(* captureImageToSharedMemory.                                              *)

Cap(from, to) == cap = from /\ cap' = to

(* The header is reset; the camera is opened, or it cannot be.              *)
CapOpens ==
  /\ \/ /\ camera = Nobody
        /\ Cap("spawned", "opened")
        /\ frame' = NoFrame /\ camera' = Capturer
     \/ /\ Cap("spawned", "exit 1")
        /\ frame' = [NoFrame EXCEPT !.status = "CAPTURE_FAILED"]
        /\ UNCHANGED camera
  /\ UNCHANGED <<caller, viewer, stream, child, shared, extract, forced>>

(* The picture: READY before the bytes, and before the feature.             *)
CapPicture ==
  /\ \/ /\ Cap("opened", IF extract THEN "pictured" ELSE "exit 0")
        /\ frame' = [frame EXCEPT !.status = "READY"]
     \/ /\ Cap("opened", "exit 1")
        /\ frame' = [frame EXCEPT !.status = "CAPTURE_FAILED"]
  /\ IF cap' = "pictured" THEN UNCHANGED camera ELSE Free(Capturer)
  /\ UNCHANGED <<caller, viewer, stream, child, shared, extract, forced>>

(* The feature's size; or there is no face, or it does not fit.             *)
CapFeature ==
  /\ \/ /\ Cap("pictured", "sized")
        /\ frame' = [frame EXCEPT !.feature = "part"]
        /\ UNCHANGED camera
     \/ /\ Cap("pictured", "exit 0")
        /\ frame' = [frame EXCEPT !.status = "FEATURE_EXTRACTION_FAILED"]
        /\ Free(Capturer)
  /\ UNCHANGED <<caller, viewer, stream, child, shared, extract, forced>>

CapCopies ==
  /\ Cap("sized", "exit 0")
  /\ frame' = [frame EXCEPT !.feature = "whole"]
  /\ Free(Capturer)
  /\ UNCHANGED <<caller, viewer, stream, child, shared, extract, forced>>

CapDies ==
  /\ \/ Cap("dying", "none")
     \/ cap \in {"spawned", "opened", "pictured", "sized"} /\ cap' = "exit 1"
  /\ Free(Capturer)
  /\ UNCHANGED <<caller, viewer, stream, child, shared, extract, frame, forced>>

CaptureProcess == CapOpens \/ CapPicture \/ CapFeature \/ CapCopies \/ CapDies

-----------------------------------------------------------------------------
(* The service is killed and a new one is started.  A preview process lives *)
(* on, with nobody to stop it; a capture goes on to its end ("dying").      *)
ServiceRestarts ==
  /\ todo' = << >> /\ captured' = "none"
  /\ cap' = IF cap \in {"none", "exit 0", "exit 1"} THEN "none" ELSE "dying"
  /\ proc' = Nobody /\ mapping' = Nobody
  /\ got' = {} /\ slot' = {} /\ shown' = {} /\ fresh' = FALSE
  /\ forced' = forced \union Live
  /\ extract' = FALSE /\ frame' = NoFrame
  /\ UNCHANGED <<child, stop, status, written, camera>>

-----------------------------------------------------------------------------
Init ==
  /\ todo = << >> /\ captured = "none"
  /\ got = {} /\ slot = {} /\ shown = {}
  /\ proc = Nobody /\ mapping = Nobody
  /\ child = [n \in Stream |-> "dead"]
  /\ stop = [n \in Stream |-> FALSE]
  /\ status = [n \in Stream |-> "EMPTY"]
  /\ written = [n \in Stream |-> {}]
  /\ fresh = FALSE
  /\ cap = "none" /\ extract = FALSE /\ frame = NoFrame
  /\ camera = Nobody /\ forced = {}

Calls ==
  StartCameraPreview \/ StopCameraPreview \/ GetLatestCameraPreview
  \/ CapturePreviewFrame \/ CaptureAndAddFace

ServiceThread ==
  StartPreviewStream \/ Probe \/ RequestStop \/ StopPreviewStream \/ Copy
  \/ SendPreview \/ ShowPreview \/ Capture("capture", TRUE)
  \/ Capture("grab", FALSE) \/ CaptureEnds \/ AddFace

ChildSteps(n) ==
  OpenMapping(n) \/ OpenCamera(n) \/ Leave(n) \/ Picture(n) \/ CopyRest(n)
  \/ Publish(n)

Next ==
  \/ Calls \/ ServiceThread \/ CaptureProcess
  \/ \E n \in Stream : ChildSteps(n) \/ NoPicture(n) \/ Crash(n)
  \/ ServiceRestarts

(* The thread and the processes run, neither the camera nor the creation of *)
(* a mapping fails for ever, and a GUI goes on asking for pictures.         *)
Fairness ==
  /\ WF_vars(ServiceThread) /\ SF_vars(SendPreview /\ slot' = got)
  /\ WF_vars(CaptureProcess)
  /\ \A n \in Stream : WF_vars(ChildSteps(n))
  /\ SF_vars(GetLatestCameraPreview)

Spec == Init /\ [][Next]_vars /\ Fairness
-----------------------------------------------------------------------------
(* Properties.                                                              *)

Step ==
  {"start", "probe", "stop", "await exit", "copy", "send", "show", "capture",
   "grab", "await capture", "add"}

CallTypes ==
  /\ todo \in Seq(Step) /\ captured \in {"none", "part", "whole"}
  /\ got \subseteq Pieces /\ slot \subseteq Pieces /\ shown \subseteq Pieces

StreamTypes ==
  /\ proc \in {Nobody} \union Stream /\ mapping = proc
  /\ child \in [Stream -> {"spawned", "opened", "loop", "copying",
                          "copied", "dying", "dead"}]
  /\ stop \in [Stream -> BOOLEAN] /\ fresh \in BOOLEAN
  /\ status \in [Stream -> {"EMPTY", "READY", "CAPTURE_FAILED"}]
  /\ written \in [Stream -> SUBSET Pieces]
  /\ forced \subseteq Stream

CaptureTypes ==
  /\ cap \in {"none", "spawned", "opened", "pictured", "sized", "exit 0",
              "exit 1", "dying"}
  /\ extract \in BOOLEAN
  /\ frame \in [status : {"EMPTY", "READY", "CAPTURE_FAILED",
                          "FEATURE_EXTRACTION_FAILED"},
                feature : {"none", "part", "whole"}]
  /\ camera \in {Nobody, Capturer} \union Stream
  /\ camera \in Stream => camera \in Live

TypeOK == CallTypes /\ StreamTypes /\ CaptureTypes

(* No picture the GUI shows has a piece that was never written, though the  *)
(* service reads the bytes while the process writes them: READY comes after *)
(* the whole of the first picture (streamPreviewToSharedMemory), and every  *)
(* stream has a mapping of its own (StartPreviewStream).                    *)
ShowsWhole == shown \in {{}, Pieces}

(* No half-written feature becomes a face of an account, although READY and *)
(* the size are written before it and the process may crash or be           *)
(* terminated at any point (capture_shared_payload, CaptureAndAddFace).     *)
EnrolsWhole == Does("add") => captured # "part"

(* The camera is not taken from an enrolment by the service's own preview:  *)
(* while the face is captured no preview process is left but one that had   *)
(* to be terminated or outlived a killed service (CaptureAndAddFace,        *)
(* StopPreviewStream).                                                      *)
CameraIsLeft ==
  (extract /\ cap \notin {"none", "dying"}) => Live \subseteq forced

(* Every call returns, although a preview process that starts may wipe the  *)
(* stop_requested it was just sent (StopPreviewStream).                     *)
CallEnds == todo # << >> ~> todo = << >>

(* A preview that is left open shows a picture (streamPreviewToSharedMemory *)
(* against the checks of GetLatestPreviewFrame).                            *)
LeftOpen ==
  Running /\ todo \in {<< >>, <<"copy", "send", "show">>, <<"send", "show">>,
                       <<"show">>}

PreviewShows == <>[]LeftOpen => <>[](shown = Pieces)
=============================================================================
