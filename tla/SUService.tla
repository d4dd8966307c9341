------------------------------ MODULE SUService ------------------------------
(***************************************************************************)
(* The recognition manager of the service: class FaceRecognition in        *)
(* Smile2Unlock/modules/face_recognition.cppm, as it runs under the        *)
(* credential provider.  Two threads share its fields without a lock:      *)
(*   cp  receives the requests of the credential provider and runs         *)
(*       on_cp_request_received;                                           *)
(*   fr  receives the reports of the recognizer processes and runs         *)
(*       on_fr_status_received.                                            *)
(* The recognizers (FaceRecognizer.exe -m recognize) are processes of      *)
(* their own; a report is a datagram that may be lost.  Two threads may    *)
(* touch the same std::string field: a read that meets a write yields the  *)
(* old value, the new one or a mixture, which is no user's name.           *)
(***************************************************************************)
EXTENDS FaceMatch

CONSTANTS
  Users,        \* the users in the database
  Faces,        \* their enrolled faces, as GetAllUsers delivers them
  Configured,   \* config_.face_threshold
  Garbled,      \* what a torn read of a name yields
  Proc,         \* recognizer processes, in the order they are spawned
  NoProc,       \* nullptr, as fr_process_
  MaxRequests   \* bound: requests the credential provider sends

ASSUME DatabaseAssumption ==
  /\ Users \subseteq User
  /\ Faces \in Seq(Enrolled)
  /\ Configured \in Int
  /\ Garbled \in User \ Users
ASSUME ProcAssumption == NoProc \notin Proc
ASSUME MaxRequestsAssumption == MaxRequests \in Nat

RequestType == {"START", "CANCEL", "QUERY", "GET_PASSWORD"}
Status == {"IDLE", "RECOGNIZING", "SUCCESS", "TIMEOUT", "RECOGNITION_ERROR",
           "PROCESS_ENDED"}
FinalStatus == {"SUCCESS", "TIMEOUT", "RECOGNITION_ERROR", "PROCESS_ENDED"}

VARIABLES
  current_session_id, pending_username_hint, is_running, fr_process,
  last_recognition_feature, last_result,
  cp,         \* where the cp thread is in its handler
  fr,         \* where the fr thread is, the report and what it came to
  asked,      \* requests that have reached the socket; i-th has session id i
  served,     \* how many of them the cp thread has taken
  reports,    \* reports waiting at the other socket
  recognizer, \* state of each recognizer process
  captured,   \* history: the features extracted by recognizers
  sent        \* history: what was sent to the credential provider

cpVars == <<current_session_id, pending_username_hint, fr_process, cp, served>>
frVars == <<last_recognition_feature, last_result, fr>>
procVars == <<recognizer, captured, reports>>
vars == <<cpVars, frVars, procVars, is_running, asked, sent>>

Request == [type : RequestType, hint : Name]
Report  == [status : {"RECOGNIZING", "SUCCESS", "TIMEOUT"},
            feature : Feature \cup {NoFeature}]
Result  == [success : BOOLEAN, user : Name]

(* probe: history, the feature a SUCCESS is about *)
Datagram ==
  [by : {"cp", "fr"}, status : Status, user : Name, session : Nat,
   probe : Feature \cup {NoFeature}]
PasswordReply == [by : {"password"}, session : Nat, user : Name, found : BOOLEAN]

CpStep == {"idle", "hint", "start", "begin", "ack", "cancel", "stop", "kill",
           "stopped", "query", "password"}
FrStep == {"idle", "resolve", "clear", "send"}

TypeOK ==
  /\ current_session_id \in Nat
  /\ pending_username_hint \in Name
  /\ is_running \in BOOLEAN
  /\ fr_process \in Proc \cup {NoProc}
  /\ last_recognition_feature \in Feature \cup {NoFeature}
  /\ last_result \in Result
  /\ cp \in [pc : CpStep, req : Request]
  /\ fr \in [pc : FrStep, report : Report, final : Status]
  /\ asked \in Seq(Request)
  /\ served \in 0 .. Len(asked)
  /\ reports \in Seq(Report)
  /\ recognizer \in [Proc -> {"none", "started", "scanning", "leaving", "gone"}]
  /\ captured \subseteq Feature
  /\ sent \subseteq Datagram \cup PasswordReply

NoRequest == [type |-> "QUERY", hint |-> NoName]
NoReport  == [status |-> "RECOGNIZING", feature |-> NoFeature]

Init ==
  /\ current_session_id = 0
  /\ pending_username_hint = NoName
  /\ is_running = FALSE
  /\ fr_process = NoProc
  /\ last_recognition_feature = NoFeature
  /\ last_result = [success |-> FALSE, user |-> NoName]
  /\ cp = [pc |-> "idle", req |-> NoRequest]
  /\ fr = [pc |-> "idle", report |-> NoReport, final |-> "IDLE"]
  /\ asked = << >> /\ served = 0
  /\ reports = << >>
  /\ recognizer = [p \in Proc |-> "none"]
  /\ captured = {}
  /\ sent = {}

Alive(p) == recognizer[p] \in {"started", "scanning", "leaving"}
Exited == fr_process # NoProc /\ ~ Alive(fr_process)

ToCP(by, status, user, session, probe) ==
  [by |-> by, status |-> status, user |-> user, session |-> session,
   probe |-> probe]

(* udp_sender_->send_status, by the cp thread *)
Reply(status, user) ==
  sent' = sent \cup {ToCP("cp", status, user, served, NoFeature)}

-----------------------------------------------------------------------------
(* The environment: the credential provider asks.                          *)

Ask ==
  /\ Len(asked) < MaxRequests
  /\ \E type \in RequestType, hint \in Name :
       asked' = Append(asked, [type |-> type, hint |-> hint])
  /\ UNCHANGED <<cpVars, frVars, procVars, is_running, sent>>

-----------------------------------------------------------------------------
(* The recognizer processes.                                               *)

(* One datagram to the service's socket, which has room or has not. *)
Emit(status, feature) ==
  \/ reports' = Append(reports, [status |-> status, feature |-> feature])
  \/ reports' = reports

Becomes(p, state) == recognizer' = [recognizer EXCEPT ![p] = state]

serviceVars == <<cpVars, frVars, is_running, asked, sent>>

BeginScan(p) ==
  /\ recognizer[p] = "started"
  /\ Becomes(p, "scanning")
  /\ Emit("RECOGNIZING", NoFeature)
  /\ UNCHANGED <<serviceVars, captured>>

(* A mutant of Extracted: an empty extraction is reported too. *)
ExtractedOrEmpty == Feature \cup {NoFeature}

(* What recognizeFace reports: a feature that came out empty is given up. *)
Extracted == Feature

(* The first feature is reported; matching it is left to the service. *)
Recognize(p) ==
  /\ recognizer[p] = "scanning"
  /\ \E f \in Extracted :
       /\ captured' = captured \cup {f}
       /\ Emit("SUCCESS", f)
  /\ Becomes(p, "leaving")
  /\ UNCHANGED serviceVars

GiveUp(p) ==
  /\ recognizer[p] = "scanning"
  /\ Becomes(p, "gone")
  /\ Emit("TIMEOUT", NoFeature)
  /\ UNCHANGED <<serviceVars, captured>>

(* The end after a success, or an exception such as a camera that cannot be *)
(* opened: no report.                                                      *)
Exit(p) ==
  /\ Alive(p)
  /\ Becomes(p, "gone")
  /\ UNCHANGED <<serviceVars, captured, reports>>

-----------------------------------------------------------------------------
(* The cp thread: on_cp_request_received.                                  *)

Goto(pc) == cp' = [cp EXCEPT !.pc = pc]

(* The session id is stored and the hint is about to be. *)
TakeRequest ==
  /\ cp.pc = "idle"
  /\ served < Len(asked)
  /\ served' = served + 1
  /\ current_session_id' = served + 1
  /\ cp' = [pc |-> "hint", req |-> asked[served + 1]]
  /\ UNCHANGED <<pending_username_hint, fr_process, frVars, procVars,
                 is_running, asked, sent>>

StoreHint ==
  /\ cp.pc = "hint"
  /\ pending_username_hint' = cp.req.hint
  /\ Goto(CASE cp.req.type = "START"  -> "start"
            [] cp.req.type = "CANCEL" -> "cancel"
            [] cp.req.type = "QUERY"  -> "query"
            [] OTHER                  -> "password")
  /\ UNCHANGED <<current_session_id, fr_process, served, frVars, procVars,
                 is_running, asked, sent>>

(* A mutant of Reuse: the second START is taken for a repetition. *)
ReuseSilently ==
  /\ cp.pc = "start"
  /\ fr_process # NoProc /\ ~ Exited
  /\ Goto("idle")
  /\ UNCHANGED <<current_session_id, pending_username_hint, fr_process, served,
                 frVars, procVars, is_running, asked, sent>>

(* START: a recognizer that is still there is used again. *)
Reuse ==
  /\ cp.pc = "start"
  /\ fr_process # NoProc /\ ~ Exited
  /\ Goto("begin")
  /\ UNCHANGED <<current_session_id, pending_username_hint, fr_process, served,
                 frVars, procVars, is_running, asked, sent>>

Fresh == {p \in Proc : recognizer[p] = "none"}

(* START: start_fr_process, which sleeps 1.5 s before it returns. *)
Spawn ==
  /\ cp.pc = "start"
  /\ fr_process = NoProc \/ Exited
  /\ Fresh # {}
  /\ LET p == CHOOSE q \in Fresh : TRUE IN
       /\ fr_process' = p
       /\ Becomes(p, "started")
  /\ Goto("begin")
  /\ UNCHANGED <<current_session_id, pending_username_hint, served, frVars,
                 captured, reports, is_running, asked, sent>>

(* START: there is no FaceRecognizer.exe, or it cannot be started. *)
SpawnFails ==
  /\ cp.pc = "start"
  /\ fr_process = NoProc \/ Exited
  /\ fr_process' = NoProc
  /\ Reply("RECOGNITION_ERROR", NoName)
  /\ Goto("idle")
  /\ UNCHANGED <<current_session_id, pending_username_hint, served, frVars,
                 procVars, is_running, asked>>

Begin ==
  /\ cp.pc = "begin"
  /\ is_running' = TRUE
  /\ Goto("ack")
  /\ UNCHANGED <<current_session_id, pending_username_hint, fr_process, served,
                 frVars, procVars, asked, sent>>

Acknowledge ==
  /\ cp.pc = "ack"
  /\ Reply("RECOGNIZING", NoName)
  /\ Goto("idle")
  /\ UNCHANGED <<current_session_id, pending_username_hint, fr_process, served,
                 frVars, procVars, is_running, asked>>

(* CANCEL: StopRecognition returns at once unless is_running_. *)
Cancel ==
  /\ cp.pc = "cancel"
  /\ is_running' = FALSE
  /\ Goto(IF is_running THEN "stop" ELSE "stopped")
  /\ UNCHANGED <<current_session_id, pending_username_hint, fr_process, served,
                 frVars, procVars, asked, sent>>

(* stop_fr_process: the end is announced before the process ends, *)
AnnounceEnd ==
  /\ cp.pc = "stop"
  /\ IF fr_process = NoProc
     THEN Goto("stopped") /\ UNCHANGED sent
     ELSE Goto("kill") /\ Reply("PROCESS_ENDED", NoName)
  /\ UNCHANGED <<current_session_id, pending_username_hint, fr_process, served,
                 frVars, procVars, is_running, asked>>

(* A mutant of Kill: the handles are closed, the process goes on. *)
CloseHandlesOnly ==
  /\ cp.pc = "kill"
  /\ fr_process' = NoProc
  /\ Goto("stopped")
  /\ UNCHANGED <<current_session_id, pending_username_hint, served, frVars,
                 procVars, is_running, asked, sent>>

(* which is given 500 ms, then terminated; its handles are closed. *)
Kill ==
  /\ cp.pc = "kill"
  /\ Becomes(fr_process, "gone")
  /\ fr_process' = NoProc
  /\ Goto("stopped")
  /\ UNCHANGED <<current_session_id, pending_username_hint, served, frVars,
                 captured, reports, is_running, asked, sent>>

ReplyIdle ==
  /\ cp.pc = "stopped"
  /\ Reply("IDLE", NoName)
  /\ Goto("idle")
  /\ UNCHANGED <<current_session_id, pending_username_hint, fr_process, served,
                 frVars, procVars, is_running, asked>>

(* A name in last_result_ may be read while the fr thread writes it. *)
LastUser == {last_result.user} \cup IF fr.pc = "resolve" THEN {Garbled} ELSE {}

Query_Status ==
  /\ cp.pc = "query"
  /\ fr_process' = IF Exited THEN NoProc ELSE fr_process
  /\ is_running' = (is_running /\ ~ Exited)
  /\ \E user \in LastUser :
       Reply(IF is_running' THEN "RECOGNIZING" ELSE "IDLE", user)
  /\ Goto("idle")
  /\ UNCHANGED <<current_session_id, pending_username_hint, served, frVars,
                 procVars, asked>>

(* GET_PASSWORD: found is false too when the password cannot be decrypted. *)
SendPassword ==
  /\ cp.pc = "password"
  /\ \E found \in {FALSE, cp.req.hint \in Users} :
       sent' = sent \cup {[by |-> "password", session |-> served,
                           user |-> cp.req.hint, found |-> found]}
  /\ Goto("idle")
  /\ UNCHANGED <<current_session_id, pending_username_hint, fr_process, served,
                 frVars, procVars, is_running, asked>>

CpNext ==
  \/ TakeRequest \/ StoreHint \/ Reuse \/ Spawn \/ SpawnFails \/ Begin
  \/ Acknowledge \/ Cancel \/ AnnounceEnd \/ Kill \/ ReplyIdle
  \/ Query_Status \/ SendPassword

-----------------------------------------------------------------------------
(* The fr thread: on_fr_status_received.                                   *)

(* A mutant of FeatureAfter: an old feature survives a newer report. *)
FeatureKept(report) ==
  IF last_recognition_feature # NoFeature THEN last_recognition_feature
  ELSE report.feature

FeatureAfter(report) ==
  IF report.feature # NoFeature THEN report.feature
  ELSE IF report.status # "SUCCESS" THEN NoFeature
  ELSE last_recognition_feature

TakeReport ==
  /\ fr.pc = "idle"
  /\ reports # << >>
  /\ reports' = Tail(reports)
  /\ last_recognition_feature' = FeatureAfter(Head(reports))
  /\ last_result' = [success |-> FALSE, user |-> NoName]
  /\ fr' = [pc |-> "resolve", report |-> Head(reports),
            final |-> Head(reports).status]
  /\ UNCHANGED <<cpVars, recognizer, captured, is_running, asked, sent>>

(* The hint may be read while the cp thread writes it. *)
HintRead ==
  {pending_username_hint}
    \cup IF cp.pc = "hint" THEN {cp.req.hint, Garbled} ELSE {}

QueryFor(hint, probe) ==
  [users |-> Users, faces |-> Faces, hint |-> hint, probe |-> probe,
   threshold |-> Configured]

(* The comparison decides whether a SUCCESS stays one. *)
Match ==
  /\ fr.pc = "resolve"
  /\ fr.report.status = "SUCCESS"
  /\ \E hint \in HintRead :
       LET user == Resolve(QueryFor(hint, last_recognition_feature)).user IN
       /\ last_result' = [success |-> user # NoName, user |-> user]
       /\ fr' = [fr EXCEPT !.pc = "clear",
                           !.final = IF user # NoName THEN "SUCCESS"
                                     ELSE "RECOGNITION_ERROR"]
  /\ UNCHANGED <<cpVars, procVars, last_recognition_feature, is_running, asked,
                 sent>>

(* Any other report is passed on with the hint as the user's name. *)
PassOn ==
  /\ fr.pc = "resolve"
  /\ fr.report.status # "SUCCESS"
  /\ \E hint \in HintRead : last_result' = [success |-> FALSE, user |-> hint]
  /\ fr' = [fr EXCEPT !.pc = IF fr.final \in FinalStatus THEN "clear" ELSE "send"]
  /\ UNCHANGED <<cpVars, procVars, last_recognition_feature, is_running, asked,
                 sent>>

ClearRunning ==
  /\ fr.pc = "clear"
  /\ is_running' = FALSE
  /\ fr' = [fr EXCEPT !.pc = "send"]
  /\ UNCHANGED <<cpVars, procVars, last_recognition_feature, last_result, asked,
                 sent>>

(* The session id is the one of the request taken last. *)
Forward ==
  /\ fr.pc = "send"
  /\ sent' = sent \cup
       {ToCP("fr", fr.final, last_result.user, current_session_id,
             IF fr.final = "SUCCESS" THEN fr.report.feature ELSE NoFeature)}
  /\ fr' = [fr EXCEPT !.pc = "idle"]
  /\ UNCHANGED <<cpVars, procVars, last_recognition_feature, last_result,
                 is_running, asked>>

FrNext == TakeReport \/ Match \/ PassOn \/ ClearRunning \/ Forward

-----------------------------------------------------------------------------
ProcNext == \E p \in Proc : BeginScan(p) \/ Recognize(p) \/ GiveUp(p) \/ Exit(p)

Next == Ask \/ ProcNext \/ CpNext \/ FrNext

(* A thread that has work runs, either of the two: what they have to do is *)
(* finite at any time.  Nothing is assumed of the requests and recognizers. *)
Spec == Init /\ [][Next]_vars /\ WF_vars(CpNext \/ FrNext)

-----------------------------------------------------------------------------
(* A recognizer that is alive is the one the service holds the handle of:  *)
(* at most one uses the camera, and none is out of reach of a CANCEL       *)
(* (start_fr_process, stop_fr_process, cleanup_fr_process_handles).        *)
OneRecognizer == \A p \in Proc : Alive(p) => fr_process = p

Hints == {asked[i].hint : i \in 1 .. served}

(* Every SUCCESS that reaches the credential provider is about a feature   *)
(* that a recognizer extracted and that an enrolled face of the named user *)
(* matches; and some request asked for that user or for anybody.  It has   *)
(* to hold although the two threads race on the hint, the result and the   *)
(* session (on_fr_status_received).                                        *)
SuccessIsMatched ==
  \A m \in sent :
    m.by = "fr" /\ m.status = "SUCCESS" =>
      /\ m.probe \in captured
      /\ Matches(QueryFor(m.user, m.probe), m.user)
      /\ m.user \in Hints \/ NoName \in Hints

(* Every request is answered with its own session id, whatever the         *)
(* recognizers do: START by RECOGNIZING or RECOGNITION_ERROR, CANCEL by    *)
(* IDLE, GET_PASSWORD by a password reply (on_cp_request_received).        *)
Answered(i) ==
  \E m \in sent :
    /\ m.session = i
    /\ CASE asked[i].type = "GET_PASSWORD" -> m.by = "password"
         [] asked[i].type = "START" ->
              m.by = "cp" /\ m.status \in {"RECOGNIZING", "RECOGNITION_ERROR"}
         [] asked[i].type = "CANCEL" -> m.by = "cp" /\ m.status = "IDLE"
         [] OTHER -> m.by = "cp"

EveryRequestAnswered ==
  \A i \in 1 .. MaxRequests : Len(asked) >= i ~> Len(asked) >= i /\ Answered(i)

(* The two threads, their shared fields and the processes behind them do    *)
(* what FaceService promises: however steps of the cp thread, the fr thread *)
(* and the recognizers alternate, requests are answered one at a time, in   *)
(* order and in kind (on_cp_request_received, on_fr_status_received).       *)
Likeness ==
  {p \in Feature \X User : Matches(QueryFor(p[2], p[1]), p[2])}

Service ==
  INSTANCE FaceService WITH busy <- cp.pc # "idle", Known <- Users

RefinesService == Service!Spec

(* The session id relates a response to its request                        *)
(* (common/models/udp_auth_request_packet.h): a SUCCESS is the response to *)
(* a START.                                                                *)
SuccessAnswersStart ==
  \A m \in sent :
    m.by = "fr" /\ m.status = "SUCCESS" => asked[m.session].type = "START"
=============================================================================
