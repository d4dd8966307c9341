------------------------------- MODULE SignIn --------------------------------
(* A sign-in from end to end: LogonUI and the provider, the fields of one   *)
(* credential, its worker, the datagrams to and from the service, and the   *)
(* password that comes back.                                                *)
(*                                                                          *)
(* CPSession and SUService model the two ends in detail, each against a     *)
(* free environment; here they are joined, coarser: one worker at a time    *)
(* (CPSession's SingleWorker), the service as two handlers and one          *)
(* recognizer (SUService's OneRecognizer), a face as the person whose best  *)
(* match it is.  The requests and the status datagrams are queues in which  *)
(* anything may get lost, and the receiver of the credential provider keeps *)
(* nothing but the last status and the last name it was sent.               *)
EXTENDS Naturals, Sequences

CONSTANTS
  Person,     \* the users in the database
  Tiles,      \* what the tile may name: people, or NoOne (CPUS_CREDUI)
  Typed,      \* the user names somebody types
  NoOne,      \* the empty user name
  MaxWorkers, \* bound on the sessions
  MaxQueue,   \* bound on the requests under way
  MaxReports  \* bound on the status datagrams under way

ASSUME SignInAssumption ==
  /\ {NoOne, "none"} \intersect Person = {}
  /\ Tiles \subseteq Person \union {NoOne} /\ Typed \subseteq Person
  /\ MaxWorkers \in Nat /\ MaxQueue \in Nat \ {0} /\ MaxReports \in Nat \ {0}

VARIABLES
  tile,      \* _pszQualifiedUserName; NoOne under CPUS_CREDUI
  username,  \* _pwzUsername
  password,  \* _rgFieldStrings[SFI_PASSWORD]: "none", or whose it is
  hidden,    \* the input fields are hidden
  selected,  \* the tile is selected
  advised,   \* _pcpe of the provider is set
  ready,     \* _fCredentialReady
  changed,   \* LogonUI was told CredentialsChanged and has not asked yet
  worker,    \* where the worker is
  current,   \* is_session_current() of the worker
  workers,   \* how many sessions were started
  request,   \* the worker's GET_PASSWORD: [user, session]
  obtained,  \* whose password the worker has
  status,    \* face_recognition_status
  name,      \* recognized_username
  toService, \* requests under way to the service
  toCP,      \* status datagrams under way to the credential provider
  toWorker,  \* the first password reply that has reached the worker's socket
  hint,      \* pending_username_hint_
  active,    \* is_running_ of the service
  scan,      \* the recognizer: "none", "started", "scanning" or "leaving"
  missed,    \* ghost: an outcome was lost, prevented or overwritten
  disturbed, \* ghost: a name changed between the request and the submission
  faces      \* ghost: faces that matched and have opened nothing yet, counted
             \* up to MaxReports + 1 (no more can be under way)

logonUI    == <<tile, selected, advised, changed>>
credential == <<username, password, hidden, ready>>
session    == <<worker, current, workers, request, obtained>>
receiver   == <<status, name>>
net        == <<toService, toCP, toWorker>>
service    == <<hint, active, scan>>
vars == <<logonUI, credential, session, receiver, net, service, missed,
          disturbed, faces>>

Name == Person \union {NoOne}
NoPassword == "none"
NoRequest == [user |-> NoOne, session |-> 0]
NoReply == [user |-> NoOne, session |-> 0, found |-> FALSE]
Terminal == {"SUCCESS", "FAILED"}   \* FAILED stands for TIMEOUT and errors too
Message ==
  [type : {"START", "CANCEL"}, hint : Name] \union
  [type : {"GET_PASSWORD"}, hint : Person, session : 1..MaxWorkers]

(* AuthRequestSender: a request is queued at the service, or it is lost.    *)
Request(r) ==
  \/ Len(toService) < MaxQueue /\ toService' = Append(toService, r)
  \/ UNCHANGED toService

(* Ghost: noted while the worker still waits for an outcome.                *)
Missing(reason) ==
  missed' = (missed \/ (worker \in {"start", "sent", "wait"} /\ reason))

-----------------------------------------------------------------------------
(* LogonUI, the provider and the fields.                                    *)

(* SetSelected and StartFaceRecognitionAsync, which waits for an old worker.*)
(* Under CPUS_CREDUI the fields are shown again.                            *)
SetSelected ==
  /\ advised /\ ~selected /\ worker = "none" /\ workers < MaxWorkers
  /\ selected' = TRUE
  /\ hidden' = (hidden /\ tile # NoOne)
  /\ ready' = FALSE
  /\ status' = "IDLE"
  /\ worker' = "start" /\ current' = TRUE /\ workers' = workers + 1
  /\ missed' = FALSE
  /\ UNCHANGED <<tile, advised, changed, username, password, request, obtained,
                 name, net, service, disturbed, faces>>

(* SetDeselected: StopFaceRecognition, whose task sends CANCEL (here without *)
(* delay), and the password is wiped.                                       *)
SetDeselected ==
  /\ selected
  /\ selected' = FALSE
  /\ ready' = FALSE /\ password' = NoPassword
  /\ current' = FALSE /\ disturbed' = FALSE
  /\ Request([type |-> "CANCEL", hint |-> username])
  /\ UNCHANGED <<tile, advised, changed, username, hidden, worker,
                 workers, request, obtained, receiver, toCP, toWorker, service,
                 missed, faces>>

(* Between the request for a password and the submission, without a tile's  *)
(* user.                                                                    *)
InExchange ==
  tile = NoOne /\ (ready \/ worker \in {"listen", "fetched", "written"})

(* SetStringValue, a keystroke: the user name can be typed under CREDUI     *)
(* only, the password everywhere, and nothing while the fields are hidden.  *)
TypeName(p) ==
  /\ selected /\ tile = NoOne /\ ~hidden
  /\ username' = p
  /\ disturbed' = (disturbed \/ InExchange)
  /\ UNCHANGED <<logonUI, password, hidden, ready, session, receiver, net,
                 service, missed, faces>>

(* What GetSerialization packs: the tile's user if the tile names one, else *)
(* _pwzUsername, with the password field.                                   *)
Submission ==
  [user |-> IF tile # NoOne THEN tile ELSE username, password |-> password]

(* GetCredentialCount after CredentialsChanged: a ready credential is       *)
(* submitted at once, and only once.                                        *)
GetCredentialCount ==
  /\ changed
  /\ changed' = FALSE
  /\ ready' = FALSE
  /\ UNCHANGED <<tile, selected, advised, username, password, hidden, session,
                 receiver, net, service, missed, disturbed, faces>>

(* Advise and UnAdvise of the provider: LogonUI enumerates after Advise,    *)
(* before it selects a tile, and calls UnAdvise when it has deselected it;  *)
(* it asks nothing any more then.                                           *)
Advise ==
  /\ ~advised
  /\ advised' = TRUE /\ changed' = TRUE
  /\ UNCHANGED <<tile, selected, credential, session, receiver, net, service,
                 missed, disturbed, faces>>

UnAdvise ==
  /\ advised /\ ~selected
  /\ advised' = FALSE /\ ready' = FALSE /\ changed' = FALSE
  /\ UNCHANGED <<tile, selected, username, password, hidden,
                 session, receiver, net, service, missed, disturbed,
                 faces>>

-----------------------------------------------------------------------------
(* The worker of StartFaceRecognitionAsync.                                 *)

WorkerEnds == worker' = "none" /\ request' = NoRequest /\ obtained' = NoPassword

(* SendAuthRequestToSmile2Unlock: an attempt, with the user name as hint.   *)
SendStart ==
  /\ worker \in {"start", "sent"} /\ current
  /\ status \notin {"RECOGNIZING"} \union Terminal
  /\ Request([type |-> "START", hint |-> username])
  /\ Missing(UNCHANGED toService)
  /\ worker' = "sent"
  /\ UNCHANGED <<logonUI, credential, current, workers, request, obtained,
                 receiver, toCP, toWorker, service, disturbed, faces>>

(* A fresh status has acknowledged the request; or no attempt has been      *)
(* answered, or the session is over.                                        *)
Acknowledged ==
  /\ worker = "sent"
  /\ status \in {"RECOGNIZING"} \union Terminal
  /\ worker' = "wait"
  /\ UNCHANGED <<logonUI, credential, current, workers, request, obtained,
                 receiver, net, service, missed, disturbed, faces>>

GiveUp ==
  /\ \/ worker \in {"start", "sent"}
     \/ worker \in {"wait", "ask", "fetched"} /\ ~current
  /\ WorkerEnds
  /\ missed' = FALSE
  /\ UNCHANGED <<logonUI, credential, current, workers, receiver, net, service,
                 disturbed, faces>>

(* A mutant of Polled: only a success ends the wait.                        *)
PollsForSuccess ==
  /\ worker = "wait" /\ current
  /\ status = "SUCCESS"
  /\ worker' = "ask" /\ missed' = FALSE
  /\ UNCHANGED <<logonUI, credential, current, workers, request, obtained,
                 receiver, net, service, disturbed, faces>>

(* A mutant of Polled: any outcome is taken for a success.                  *)
PollsAnyOutcome ==
  /\ worker = "wait" /\ current
  /\ status \in Terminal
  /\ worker' = "ask" /\ missed' = FALSE
  /\ UNCHANGED <<logonUI, credential, current, workers, request, obtained,
                 receiver, net, service, disturbed, faces>>

(* WaitForFaceRecognitionResult polls the status; it has no time limit.     *)
Polled ==
  /\ worker = "wait" /\ current
  /\ status \in Terminal
  /\ IF status = "SUCCESS"
     THEN worker' = "ask" /\ UNCHANGED <<request, obtained>>
     ELSE WorkerEnds
  /\ missed' = FALSE
  /\ UNCHANGED <<logonUI, credential, current, workers, receiver, net, service,
                 disturbed, faces>>

(* RequestAndDecryptPasswordFromSU: a socket of its own, and a session id   *)
(* no other exchange has (the tick count), here the number of the session.  *)
AskPassword ==
  /\ worker = "ask" /\ current
  /\ request' = [user    |-> IF name # NoOne THEN name ELSE username,
                 session |-> workers]
  /\ request'.user # NoOne
  /\ Request([type |-> "GET_PASSWORD", hint |-> request'.user,
              session |-> workers])
  /\ toWorker' = NoReply
  /\ worker' = "listen"
  /\ disturbed' = FALSE
  /\ UNCHANGED <<logonUI, credential, current, workers, obtained, receiver,
                 toCP, service, missed, faces>>

(* A mutant of TakeReply: the session id of the reply is not looked at.     *)
TakesAnyReply ==
  /\ worker = "listen" /\ toWorker # NoReply
  /\ IF toWorker.found
     THEN /\ worker' = "fetched"
          /\ obtained' = toWorker.user
          /\ UNCHANGED request
     ELSE WorkerEnds
  /\ toWorker' = NoReply
  /\ UNCHANGED <<logonUI, credential, current, workers, receiver, toService,
                 toCP, service, missed, disturbed, faces>>

(* A mutant of TakeReply: whether a password was found is not looked at.    *)
TakesEmptyReply ==
  /\ worker = "listen" /\ toWorker # NoReply
  /\ IF toWorker.session = request.session
     THEN /\ worker' = "fetched"
          /\ obtained' = IF toWorker.found THEN toWorker.user ELSE NoPassword
          /\ UNCHANGED request
     ELSE WorkerEnds
  /\ toWorker' = NoReply
  /\ UNCHANGED <<logonUI, credential, current, workers, receiver, toService,
                 toCP, service, missed, disturbed, faces>>

(* The first datagram decides: a reply to another request, or one without a *)
(* password, ends the exchange.  The socket is closed either way.           *)
TakeReply ==
  /\ worker = "listen" /\ toWorker # NoReply
  /\ IF toWorker.found /\ toWorker.session = request.session
     THEN /\ worker' = "fetched"
          /\ obtained' = toWorker.user
          /\ UNCHANGED request
     ELSE WorkerEnds
  /\ toWorker' = NoReply
  /\ UNCHANGED <<logonUI, credential, current, workers, receiver, toService,
                 toCP, service, missed, disturbed, faces>>

(* Five seconds without a reply.                                            *)
ReplyTimesOut ==
  /\ worker = "listen"
  /\ WorkerEnds
  /\ toWorker' = NoReply
  /\ UNCHANGED <<logonUI, credential, current, workers, receiver, toService,
                 toCP, service, missed, disturbed, faces>>

(* Ghost: a face that matched has filled the fields.                        *)
FaceUsed == faces' = IF faces = 0 THEN 0 ELSE faces - 1

(* A mutant of WriteFields: the user name stays what it was.                *)
KeepsUsername ==
  /\ worker = "fetched" /\ current
  /\ password' = obtained /\ hidden' = TRUE
  /\ worker' = "written" /\ FaceUsed
  /\ UNCHANGED <<logonUI, username, ready, current, workers, request, obtained,
                 receiver, net, service, missed, disturbed>>

(* Under _faceMutex: the fields are hidden and filled; recognized_username  *)
(* is read a second time.                                                   *)
WriteFields ==
  /\ worker = "fetched" /\ current
  /\ password' = obtained /\ hidden' = TRUE
  /\ username' = IF name # NoOne THEN name ELSE username
  /\ worker' = "written" /\ FaceUsed
  /\ UNCHANGED <<logonUI, ready, current, workers, request, obtained, receiver,
                 net, service, missed, disturbed>>

(* A mutant of OnCredentialReady: LogonUI is not told.                      *)
TellsNobody ==
  /\ worker = "written"
  /\ ready' = TRUE
  /\ WorkerEnds
  /\ UNCHANGED <<logonUI, username, password, hidden, current, workers,
                 receiver, net, service, missed, disturbed, faces>>

(* OnCredentialReady of the provider, without a further look at the session.*)
OnCredentialReady ==
  /\ worker = "written"
  /\ ready' = TRUE
  /\ changed' = (changed \/ advised)
  /\ WorkerEnds
  /\ UNCHANGED <<tile, selected, advised, username, password,
                 hidden, current, workers, receiver, net, service, missed,
                 disturbed, faces>>

-----------------------------------------------------------------------------
(* The datagrams.                                                           *)

Report(s, p) == [status |-> s, user |-> p]

(* UdpStatusSender: queued, or dropped by a full socket buffer.             *)
SendStatus(d) ==
  \/ /\ Len(toCP) < MaxReports
     /\ toCP' = Append(toCP, d)
     /\ UNCHANGED missed
  \/ UNCHANGED toCP /\ Missing(d.status \in Terminal)

(* receive_loop of UdpReceiver: the status is replaced, the name only by a  *)
(* name; whose session the datagram belongs to is stored and never read.    *)
ReceiveStatus ==
  /\ toCP # << >>
  /\ LET d == Head(toCP) IN
       /\ status' = d.status
       /\ name' = IF d.user # NoOne THEN d.user ELSE name
       /\ Missing(status \in Terminal /\ d.status \notin Terminal)
       /\ disturbed' = (disturbed \/ (InExchange /\ name' # name))
  /\ toCP' = Tail(toCP)
  /\ UNCHANGED <<logonUI, credential, session, toService, toWorker, service,
                 faces>>

-----------------------------------------------------------------------------
(* The service.                                                             *)

(* on_cp_request_received, START: a recognizer that has ended is replaced,  *)
(* one that is still alive is used, even if it has reported already.        *)
TakeStart ==
  /\ toService # << >> /\ Head(toService).type = "START"
  /\ hint' = Head(toService).hint
  /\ IF scan = "none"
     THEN \/ /\ scan' = "started" /\ active' = TRUE
             /\ SendStatus(Report("RECOGNIZING", NoOne))
          \/ UNCHANGED <<scan, active>>
             /\ SendStatus(Report("FAILED", NoOne))
     ELSE /\ active' = TRUE
          /\ UNCHANGED scan
          /\ \/ /\ SendStatus(Report("RECOGNIZING", NoOne))
                /\ scan # "leaving"
             \/ /\ scan = "leaving" /\ Missing(TRUE)
                /\ \/ UNCHANGED toCP
                   \/ /\ Len(toCP) < MaxReports
                      /\ toCP' = Append(toCP, Report("RECOGNIZING", NoOne))
  /\ toService' = Tail(toService)
  /\ UNCHANGED <<logonUI, credential, session, receiver, toWorker, disturbed,
                 faces>>

(* CANCEL: the recognizer is stopped, and its end told, only if is_running_ *)
(* says so.                                                                 *)
TakeCancel ==
  /\ toService # << >> /\ Head(toService).type = "CANCEL"
  /\ hint' = Head(toService).hint
  /\ active' = FALSE
  /\ scan' = IF active THEN "none" ELSE scan
  /\ LET ended   == IF active THEN Append(toCP, Report("FAILED", NoOne))
                              ELSE toCP
         Idle(q) == Append(q, Report("IDLE", NoOne))
     IN  /\ toCP' \in {toCP, ended, Idle(toCP), Idle(ended)}
         /\ Len(toCP') <= MaxReports
  /\ toService' = Tail(toService)
  /\ UNCHANGED <<logonUI, credential, session, receiver, toWorker, missed,
                 disturbed, faces>>

(* GET_PASSWORD: the reply goes to a port that is open only while a worker  *)
(* listens.  It has no password when the user has been deleted since; one   *)
(* that cannot be protected or sent gives no reply, which ReplyTimesOut     *)
(* covers.                                                                  *)
TakeGetPassword ==
  /\ toService # << >> /\ Head(toService).type = "GET_PASSWORD"
  /\ hint' = Head(toService).hint
  /\ \E found \in BOOLEAN :
       LET reply == [user |-> Head(toService).hint, found |-> found,
                     session |-> Head(toService).session]
       IN  toWorker' = IF worker = "listen" /\ toWorker = NoReply
                       THEN reply ELSE toWorker
  /\ toService' = Tail(toService)
  /\ UNCHANGED <<logonUI, credential, session, receiver, toCP, active, scan,
                 missed, disturbed, faces>>

(* A mutant of Matches: the hint narrows nothing.                           *)
MatchesAnyone(p) == TRUE

(* resolve_recognized_username: with a hint only that user may match.       *)
Matches(p) == hint \in {NoOne, p}

(* The recognizer says that it looks; the service passes every report of    *)
(* the recognizer but a success on under the hinted name.                   *)
BeginsToLook ==
  /\ scan = "started"
  /\ scan' = "scanning"
  /\ SendStatus(Report("RECOGNIZING", hint))
  /\ UNCHANGED <<logonUI, credential, session, receiver, toService, toWorker,
                 hint, active, disturbed, faces>>

(* A face before the camera: the recognizer reports it, the service         *)
(* compares it and tells the credential provider.                           *)
SeeFace(p) ==
  /\ scan = "scanning"
  /\ scan' = "leaving" /\ active' = FALSE
  /\ SendStatus(IF Matches(p) THEN Report("SUCCESS", p)
                              ELSE Report("FAILED", NoOne))
  /\ faces' = IF Matches(p) /\ tile \in {NoOne, p} /\ faces <= MaxReports
              THEN faces + 1 ELSE faces
  /\ UNCHANGED <<logonUI, credential, session, receiver, toService, toWorker,
                 hint, disturbed>>

(* The camera gives no pictures for ten seconds: TIMEOUT.                   *)
CaptureFails ==
  /\ scan = "scanning"
  /\ scan' = "leaving" /\ active' = FALSE
  /\ SendStatus(Report("FAILED", hint))
  /\ UNCHANGED <<logonUI, credential, session, receiver, toService, toWorker,
                 hint, disturbed, faces>>

(* The recognizer exits on its own after its report.                        *)
RecognizerLeaves ==
  /\ scan = "leaving"
  /\ scan' = "none"
  /\ UNCHANGED <<logonUI, credential, session, receiver, net, hint, active,
                 missed, disturbed, faces>>

(* It crashes, or finds no camera: nobody is told.                          *)
RecognizerCrashes ==
  /\ scan \in {"started", "scanning"}
  /\ scan' = "none" /\ Missing(TRUE)
  /\ UNCHANGED <<logonUI, credential, session, receiver, net, hint, active,
                 disturbed, faces>>

(* The service is gone, with what it had queued, and a new one is started:  *)
(* the worker's clean-up or a stop task has terminated it.                  *)
ServiceRestarts ==
  /\ worker = "none" /\ workers > 0
  /\ hint' = NoOne /\ active' = FALSE /\ scan' = "none"
  /\ toService' = << >>
  /\ UNCHANGED <<logonUI, credential, session, receiver, toCP, toWorker, missed,
                 disturbed, faces>>

-----------------------------------------------------------------------------
(* The provider makes one credential: for the first user LogonUI lists, or  *)
(* for nobody under CPUS_CREDUI.                                            *)
EnumerateCredentials == tile \in Tiles

Init ==
  /\ EnumerateCredentials
  /\ username = tile /\ password = NoPassword /\ hidden = FALSE
  /\ selected = FALSE /\ advised = TRUE /\ ready = FALSE /\ changed = FALSE
  /\ worker = "none" /\ current = FALSE /\ workers = 0
  /\ request = NoRequest /\ obtained = NoPassword
  /\ status = "IDLE" /\ name = NoOne
  /\ toService = << >> /\ toCP = << >> /\ toWorker = NoReply
  /\ hint = NoOne /\ active = FALSE /\ scan = "none"
  /\ missed = FALSE /\ disturbed = FALSE /\ faces = 0

Worker ==
  SendStart \/ Acknowledged \/ GiveUp \/ Polled \/ AskPassword \/ TakeReply
  \/ ReplyTimesOut \/ WriteFields \/ OnCredentialReady

Service == TakeStart \/ TakeCancel \/ TakeGetPassword

Recognizer == BeginsToLook \/ CaptureFails \/ \E p \in Person : SeeFace(p)

Next ==
  \/ SetSelected \/ SetDeselected \/ GetCredentialCount
  \/ Advise \/ UnAdvise
  \/ \E p \in Typed : TypeName(p)
  \/ Worker \/ Service \/ Recognizer
  \/ ReceiveStatus
  \/ RecognizerLeaves \/ RecognizerCrashes \/ ServiceRestarts

(* Of the threads, the recognizer and whoever comes before its camera while *)
(* it gives pictures, one that can go on does so.  It need not be each of   *)
(* them: while a worker waits none of them has endlessly much to do.        *)
Goes == Worker \/ Service \/ ReceiveStatus \/ Recognizer

Fairness == WF_vars(Goes)

Spec == Init /\ [][Next]_vars /\ Fairness

-----------------------------------------------------------------------------
(* Properties.                                                              *)

Statuses == {"IDLE", "RECOGNIZING"} \union Terminal

FlagTypes ==
  /\ hidden \in BOOLEAN /\ selected \in BOOLEAN /\ advised \in BOOLEAN
  /\ ready \in BOOLEAN /\ changed \in BOOLEAN /\ current \in BOOLEAN
  /\ active \in BOOLEAN /\ missed \in BOOLEAN /\ disturbed \in BOOLEAN

WorkerTypes ==
  /\ tile \in Tiles /\ username \in Name
  /\ password \in Person \union {NoPassword}
  /\ worker \in {"none", "start", "sent", "wait", "ask", "listen", "fetched",
                 "written"}
  /\ workers \in 0..MaxWorkers
  /\ request \in [user : Name, session : 0..MaxWorkers]
  /\ obtained \in Person \union {NoPassword}
  /\ worker \in {"listen", "fetched", "written"} <=> request # NoRequest
  /\ worker \in {"fetched", "written"} <=> obtained # NoPassword

NetTypes ==
  /\ status \in Statuses /\ name \in Name
  /\ toService \in Seq(Message) /\ Len(toService) <= MaxQueue
  /\ toWorker \in [user : Name, session : 0..MaxWorkers, found : BOOLEAN]
  /\ toCP \in Seq([status : Statuses, user : Name]) /\ Len(toCP) <= MaxReports
  /\ hint \in Name /\ scan \in {"none", "started", "scanning", "leaving"}
  /\ faces \in 0..MaxReports + 1

TypeOK == FlagTypes /\ WorkerTypes /\ NetTypes

(* The password the worker accepts is the password of the user it asked     *)
(* for, whatever replies of earlier exchanges arrive (the session check of  *)
(* RequestAndDecryptPasswordFromSU).                                        *)
PasswordOfAsked ==
  worker \in {"fetched", "written"} => obtained = request.user

(* A password the service released is submitted for the account it belongs  *)
(* to.  On a tile of a user this rests on the hint: the service lets nobody *)
(* but the hinted user in.  Without one it rests on recognized_username,    *)
(* which is read once for the request and once for the fields: only a       *)
(* second success or a keystroke in between may part the two.               *)
SubmitsOwnPassword ==
  (ready /\ password \in Person) =>
    Submission.user = password \/ disturbed

(* Nobody signs in with the face of another: the password that reaches the  *)
(* fields of a tile is that of the tile's user.                             *)
TileKeepsItsUser ==
  tile # NoOne => password \in {tile, NoPassword}

(* A face opens one session at most: the fields are filled no more often    *)
(* than a face was seen that matched the hint, on a tile the face of the    *)
(* tile's user.  Late and repeated statuses, restarts of the service and a  *)
(* SUCCESS left from an earlier session fill nothing a second time          *)
(* (StartFaceRecognitionAsync, which forgets the status, and                *)
(* SendAuthRequestToSmile2Unlock, which waits for a fresh one).             *)
FaceOpensOnce == [][worker' = "written" /\ worker # "written" => faces > 0]_vars

(* A ready credential is never left lying: LogonUI has been told of it, or   *)
(* will enumerate when it comes back (OnCredentialReady, Advise, UnAdvise   *)
(* and GetCredentialCount in whatever order).                               *)
ReadyIsAnnounced == (ready /\ advised) => changed

(* The wait of WaitForFaceRecognitionResult, which has no time limit, ends  *)
(* with an outcome unless a START or an outcome was lost, the recognizer    *)
(* crashed, a START met a recognizer that had reported already, or a        *)
(* further status overwrote the outcome before it was polled.               *)
WaitEnds == worker = "wait" ~> (worker # "wait" \/ missed)
=============================================================================
