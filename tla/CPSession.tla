------------------------------ MODULE CPSession ------------------------------
(***************************************************************************)
(* One credential of the credential provider: how it starts, runs and      *)
(* stops a recognition (CredentialProvider/CSampleCredential.cpp).  The    *)
(* LogonUI thread selects and deselects the tile.  A selection spawns a    *)
(* worker thread, a deselection a stop task; each takes the next value of  *)
(* _serviceGeneration, which names it here.  A third thread receives the   *)
(* status datagrams of the service (common/managers/ipc/udp/udp_receiver). *)
(* _faceMutex is held for one step at a time; _serviceMutex is held while  *)
(* the service is being terminated.                                        *)
(***************************************************************************)
EXTENDS Integers, FiniteSets

CONSTANTS
  MaxGen,    \* bound: sessions started and stopped
  MaxTries,  \* bound: attempts to send a request (the code makes 10)
  External   \* TRUE: a service the credential did not create is running

ASSUME BoundAssumption == MaxGen \in Nat /\ MaxTries \in Nat \ {0}
ASSUME ExternalAssumption == External \in BOOLEAN

Gen == 1 .. MaxGen
NoThread == 0
NoService == 0

(* TIMEOUT stands for FAILED and RECOGNITION_ERROR as well. *)
Status == {"IDLE", "RECOGNIZING", "SUCCESS", "TIMEOUT", "PROCESS_ENDED"}

VARIABLES
  running,   \* _fFaceRecognitionRunning
  gen,       \* _serviceGeneration
  thread,    \* _faceRecognitionThread: the worker to join
  handle,    \* _hSmile2UnlockProcess
  holder,    \* the task that holds _serviceMutex
  status,    \* face_recognition_status
  ready,     \* _fCredentialReady of the provider
  password,  \* whether the password field is filled
  ui,        \* what the LogonUI thread is doing
  task,      \* the worker or stop task of each generation
  alive,     \* the service processes that run, named by who created them
  session    \* history: the last generation whose worker got the service

vars == <<running, gen, thread, handle, holder, status, ready, password, ui,
          task, alive, session>>

UiStep == {"idle", "start", "join", "joining", "reset", "raise", "spawn",
           "stop", "retire", "clear"}
TaskStep == {"none", "launch", "grace", "launched", "check", "send", "await",
             "sent", "raise", "wait", "won", "password", "obtained", "write",
             "notify", "end", "clean", "terminate", "finish", "done"}

TypeOK ==
  /\ running \in BOOLEAN /\ ready \in BOOLEAN /\ password \in BOOLEAN
  /\ gen \in 0 .. MaxGen /\ session \in 0 .. MaxGen
  /\ thread \in Gen \cup {NoThread}
  /\ handle \in Gen \cup {NoService}
  /\ holder \in Gen \cup {NoThread}
  /\ status \in Status
  /\ ui \in UiStep
  /\ task \in [Gen -> [kind : {"worker", "stop"}, pc : TaskStep,
                       tries : 0 .. MaxTries, fresh : BOOLEAN]]
  /\ alive \subseteq Gen

Init ==
  /\ running = FALSE /\ ready = FALSE /\ password = FALSE
  /\ gen = 0 /\ session = 0
  /\ thread = NoThread /\ handle = NoService /\ holder = NoThread
  /\ status = "IDLE"
  /\ ui = "idle"
  /\ task = [g \in Gen |-> [kind |-> "worker", pc |-> "none", tries |-> 0,
                            fresh |-> FALSE]]
  /\ alive = {}

Live(g) == task[g].pc \notin {"none", "done"}
Worker(g) == Live(g) /\ task[g].kind = "worker"
OwnedAlive == handle \in alive

(* IsProcessStillRunning waits for _serviceMutex. *)
LooksAtService == handle # NoService => holder = NoThread

sharedVars == <<running, gen, thread, ready, password>>
serviceVars == <<handle, holder, alive, session>>

-----------------------------------------------------------------------------
(* The LogonUI thread.                                                     *)

UiGoto(from, to) == ui = from /\ ui' = to

(* SetSelected: nothing is started while the flag is up. *)
SetSelected ==
  /\ LooksAtService
  /\ running \/ gen < MaxGen
  /\ UiGoto("idle", IF running THEN "idle" ELSE "start")
  /\ ready' = FALSE
  /\ UNCHANGED <<running, gen, thread, status, password, task, serviceVars>>

(* CommandLinkClicked on the face recognition link. *)
ClickFaceLink ==
  /\ ~ running /\ gen < MaxGen
  /\ UiGoto("idle", "start")
  /\ status' = "IDLE"
  /\ UNCHANGED <<sharedVars, task, serviceVars>>

(* StartFaceRecognitionAsync: ignored when already running; a flag without *)
(* a thread and a process is cleared.                                      *)
CheckRunning ==
  /\ LooksAtService
  /\ LET busy == running /\ (thread # NoThread \/ OwnedAlive) IN
       /\ UiGoto("start", IF busy THEN "idle" ELSE "join")
       /\ running' = busy
  /\ ready' = FALSE
  /\ UNCHANGED <<gen, thread, status, password, task, serviceVars>>

(* An old thread is told to stop and joined. *)
TellToStop ==
  /\ UiGoto("join", IF thread = NoThread THEN "reset" ELSE "joining")
  /\ running' = IF thread = NoThread THEN running ELSE FALSE
  /\ UNCHANGED <<gen, thread, status, ready, password, task, serviceVars>>

(* A mutant of Join: the old thread is left to itself. *)
Detach ==
  /\ UiGoto("joining", "reset")
  /\ thread' = NoThread
  /\ UNCHANGED <<running, gen, status, ready, password, task, serviceVars>>

(* The wait has no end: when wait_for has timed out, the destructor of the *)
(* future still waits for the join.                                        *)
Join ==
  /\ UiGoto("joining", "reset")
  /\ ~ Live(thread)
  /\ thread' = NoThread
  /\ UNCHANGED <<running, gen, status, ready, password, task, serviceVars>>

ResetStatus ==
  /\ UiGoto("reset", "raise")
  /\ status' = "IDLE"
  /\ UNCHANGED <<sharedVars, task, serviceVars>>

RaiseFlag ==
  /\ UiGoto("raise", "spawn")
  /\ running' = TRUE
  /\ UNCHANGED <<gen, thread, status, ready, password, task, serviceVars>>

NewTask(kind, pc) ==
  /\ gen' = gen + 1
  /\ task' = [task EXCEPT ![gen + 1] =
                [kind |-> kind, pc |-> pc, tries |-> 0, fresh |-> FALSE]]

SpawnWorker ==
  /\ UiGoto("spawn", "idle")
  /\ NewTask("worker", "launch")
  /\ thread' = gen + 1
  /\ UNCHANGED <<running, status, ready, password, serviceVars>>

(* SetDeselected, which calls StopFaceRecognition. *)
SetDeselected ==
  /\ gen < MaxGen
  /\ UiGoto("idle", "stop")
  /\ ready' = FALSE
  /\ UNCHANGED <<running, gen, thread, status, password, task, serviceVars>>

LowerFlag ==
  /\ UiGoto("stop", "retire")
  /\ running' = FALSE
  /\ UNCHANGED <<gen, thread, status, ready, password, task, serviceVars>>

SpawnStop ==
  /\ UiGoto("retire", "clear")
  /\ NewTask("stop", "check")
  /\ UNCHANGED <<running, thread, status, ready, password, serviceVars>>

ClearPassword ==
  /\ UiGoto("clear", "idle")
  /\ password' = FALSE
  /\ UNCHANGED <<running, gen, thread, status, ready, task, serviceVars>>

(* GetCredentialCount: the flag is taken down when LogonUI has seen it. *)
GetCredentialCount ==
  /\ ui = "idle" /\ ready
  /\ ready' = FALSE
  /\ UNCHANGED <<running, gen, thread, status, password, ui, task, serviceVars>>

UiNext ==
  \/ SetSelected \/ ClickFaceLink \/ CheckRunning \/ TellToStop \/ Join
  \/ ResetStatus \/ RaiseFlag \/ SpawnWorker
  \/ SetDeselected \/ LowerFlag \/ SpawnStop \/ ClearPassword
  \/ GetCredentialCount

-----------------------------------------------------------------------------
(* What the tasks share.                                                   *)

Goto(g, pc) == task' = [task EXCEPT ![g].pc = pc]

(* A mutant of Current: the generation is not looked at. *)
FlagOnly(g) == running

(* is_session_current *)
Current(g) == gen = g /\ running

(* A worker whose request failed ends; a stop task does not look.          *)
AfterFailure(g) == IF task[g].kind = "worker" THEN "end" ELSE "sent"

(* IsAckStatusForRequest, for START and for CANCEL *)
Acks(kind) ==
  IF kind = "worker" THEN {"RECOGNIZING", "SUCCESS", "TIMEOUT", "PROCESS_ENDED"}
  ELSE {"IDLE", "PROCESS_ENDED"}

(* A mutant of MayTry: one attempt too many. *)
MayTryOnce(g) == task[g].tries <= MaxTries
MayTry(g) == task[g].tries < MaxTries

(* SendAuthRequestToSmile2Unlock: an attempt waits for a status that is    *)
(* newer than the attempt.                                                 *)
Attempt(g) ==
  /\ task[g].pc = "send" /\ MayTry(g)
  /\ task' = [task EXCEPT ![g].pc = "await", ![g].tries = @ + 1, ![g].fresh = FALSE]
  /\ UNCHANGED <<sharedVars, serviceVars, status, ui>>

(* The call returns; its locals are gone. *)
Return(g, pc) ==
  task' = [task EXCEPT ![g].pc = pc, ![g].tries = 0, ![g].fresh = FALSE]

NoMoreTries(g) ==
  /\ task[g].pc = "send" /\ ~ MayTry(g)
  /\ Return(g, AfterFailure(g))
  /\ UNCHANGED <<sharedVars, serviceVars, status, ui>>

Acknowledged(g) ==
  /\ task[g].pc = "await" /\ task[g].fresh
  /\ status \in Acks(task[g].kind)
  /\ Return(g, "sent")
  /\ UNCHANGED <<sharedVars, serviceVars, status, ui>>

(* 500 ms without an answer, or the service has exited. *)
NotAcknowledged(g) ==
  /\ task[g].pc = "await"
  /\ \/ Goto(g, "send")
     \/ /\ handle # NoService /\ holder = NoThread /\ ~ OwnedAlive
        /\ Return(g, AfterFailure(g))
  /\ UNCHANGED <<sharedVars, serviceVars, status, ui>>

(* TerminateSmile2UnlockService takes the mutex ...                        *)
Clean(g) ==
  /\ task[g].pc = "clean"
  /\ holder = NoThread
  /\ LET nothing == handle = NoService IN
       /\ holder' = IF nothing THEN NoThread ELSE g
       /\ Goto(g, IF ~ nothing THEN "terminate"
                  ELSE IF task[g].kind = "worker" THEN "finish" ELSE "done")
  /\ UNCHANGED <<sharedVars, handle, alive, session, status, ui>>

(* ... and gives it back after at least a second, the service gone.        *)
Terminate(g) ==
  /\ task[g].pc = "terminate"
  /\ alive' = alive \ {handle}
  /\ handle' = NoService
  /\ holder' = NoThread
  /\ Goto(g, IF task[g].kind = "worker" THEN "finish" ELSE "done")
  /\ UNCHANGED <<sharedVars, session, status, ui>>

-----------------------------------------------------------------------------
(* The stop task.                                                          *)

StopCheck(g) ==
  /\ task[g].pc = "check"
  /\ Goto(g, IF gen = g THEN "send" ELSE "done")
  /\ UNCHANGED <<sharedVars, serviceVars, status, ui>>

StopSent(g) ==
  /\ task[g].pc = "sent" /\ task[g].kind = "stop"
  /\ Goto(g, IF gen = g THEN "clean" ELSE "done")
  /\ UNCHANGED <<sharedVars, serviceVars, status, ui>>

-----------------------------------------------------------------------------
(* The worker: LaunchSmile2UnlockService.                                  *)

ServicePresent == External \/ alive # {}

(* A service that runs is used: the credential's own, or whichever holds   *)
(* the service mutex.                                                      *)
ReuseService(g) ==
  /\ task[g].pc = "launch" /\ holder = NoThread
  /\ OwnedAlive \/ ServicePresent
  /\ handle' = IF OwnedAlive THEN handle ELSE NoService
  /\ session' = g
  /\ Goto(g, "launched")
  /\ UNCHANGED <<sharedVars, holder, alive, status, ui>>

Create(g) ==
  /\ handle' = g
  /\ alive' = alive \cup {g}
  /\ session' = g
  /\ Goto(g, "grace")
  /\ UNCHANGED <<sharedVars, holder, status, ui>>

(* A mutant of CreateService: a running service is not looked for. *)
CreateAnyway(g) == task[g].pc = "launch" /\ holder = NoThread /\ Create(g)

CreateService(g) ==
  /\ task[g].pc = "launch" /\ holder = NoThread
  /\ ~ ServicePresent
  /\ Create(g)

CreateFails(g) ==
  /\ task[g].pc = "launch" /\ holder = NoThread
  /\ ~ ServicePresent
  /\ handle' = NoService
  /\ Goto(g, "end")
  /\ UNCHANGED <<sharedVars, holder, alive, session, status, ui>>

(* 800 ms of grace; a handle closed meanwhile counts as a success. *)
GraceOver(g) ==
  /\ task[g].pc = "grace"
  /\ \/ /\ Goto(g, "launched")
        /\ UNCHANGED handle
     \/ /\ handle = g /\ g \notin alive /\ holder = NoThread
        /\ handle' = NoService
        /\ Goto(g, "end")
  /\ UNCHANGED <<sharedVars, holder, alive, session, status, ui>>

-----------------------------------------------------------------------------
(* The worker: from the request to the credential.                         *)

GoIfCurrent(g, from, to) ==
  /\ task[g].pc = from
  /\ Goto(g, IF Current(g) THEN to ELSE "end")
  /\ UNCHANGED <<sharedVars, serviceVars, status, ui>>

Launched(g) == GoIfCurrent(g, "launched", "send")
StartSent(g) == task[g].kind = "worker" /\ GoIfCurrent(g, "sent", "raise")

(* WaitForFaceRecognitionResult raises the flag, then polls. *)
RaiseInWait(g) ==
  /\ task[g].pc = "raise"
  /\ running' = TRUE
  /\ Goto(g, "wait")
  /\ UNCHANGED <<gen, thread, ready, password, serviceVars, status, ui>>

(* A mutant of Cancelled: the flag is not looked at. *)
NeverCancelled(g) == FALSE
Cancelled(g) == ~ running

PollFlag(g) ==
  /\ task[g].pc = "wait" /\ Cancelled(g)
  /\ Goto(g, "end")
  /\ UNCHANGED <<sharedVars, serviceVars, status, ui>>

PollStatus(g) ==
  /\ task[g].pc = "wait" /\ ~ Cancelled(g)
  /\ \/ status = "SUCCESS" /\ Goto(g, "won")
     \/ status \in {"TIMEOUT", "PROCESS_ENDED"} /\ Goto(g, "end")
  /\ UNCHANGED <<sharedVars, serviceVars, status, ui>>

Won(g) == GoIfCurrent(g, "won", "password")

(* RequestAndDecryptPasswordFromSU: within 5 s, or not. *)
RequestPassword(g) ==
  /\ task[g].pc = "password"
  /\ \E pc \in {"obtained", "end"} : Goto(g, pc)
  /\ UNCHANGED <<sharedVars, serviceVars, status, ui>>

Obtained(g) == GoIfCurrent(g, "obtained", "write")

WriteFields(g) ==
  /\ task[g].pc = "write"
  /\ password' = TRUE
  /\ Goto(g, "notify")
  /\ UNCHANGED <<running, gen, thread, ready, serviceVars, status, ui>>

(* OnCredentialReady *)
Notify(g) ==
  /\ task[g].pc = "notify"
  /\ ready' = TRUE
  /\ Goto(g, "end")
  /\ UNCHANGED <<running, gen, thread, password, serviceVars, status, ui>>

(* Only the worker of the newest generation cleans up. *)
End(g) ==
  /\ task[g].pc = "end"
  /\ Goto(g, IF gen = g THEN "clean" ELSE "finish")
  /\ UNCHANGED <<sharedVars, serviceVars, status, ui>>

(* A mutant of Finish: the flag stays up. *)
FinishFlagUp(g) ==
  /\ task[g].pc = "finish"
  /\ Goto(g, "done")
  /\ UNCHANGED <<sharedVars, serviceVars, status, ui>>

Finish(g) ==
  /\ task[g].pc = "finish"
  /\ running' = FALSE
  /\ Goto(g, "done")
  /\ UNCHANGED <<gen, thread, ready, password, serviceVars, status, ui>>

TaskNext(g) ==
  \/ Attempt(g) \/ NoMoreTries(g) \/ Acknowledged(g) \/ NotAcknowledged(g)
  \/ Clean(g) \/ Terminate(g) \/ StopCheck(g) \/ StopSent(g)
  \/ ReuseService(g) \/ CreateService(g) \/ CreateFails(g) \/ GraceOver(g)
  \/ Launched(g) \/ StartSent(g) \/ RaiseInWait(g) \/ PollFlag(g)
  \/ PollStatus(g) \/ Won(g) \/ RequestPassword(g) \/ Obtained(g)
  \/ WriteFields(g) \/ Notify(g) \/ End(g) \/ Finish(g)

-----------------------------------------------------------------------------
(* The service, seen from here.                                            *)

(* A status datagram arrives (receive_loop). *)
Receive ==
  /\ External \/ session # 0
  /\ status' \in Status
  /\ task' = [g \in Gen |-> [task[g] EXCEPT !.fresh = (@ \/ task[g].pc = "await")]]
  /\ UNCHANGED <<sharedVars, serviceVars, ui>>

(* The service exits on its own, after a time without activity or a crash. *)
ServiceExits ==
  /\ \E s \in alive : alive' = alive \ {s}
  /\ UNCHANGED <<sharedVars, handle, holder, session, status, ui, task>>

Next == UiNext \/ (\E g \in Gen : TaskNext(g)) \/ Receive \/ ServiceExits

(* Of the threads that can run, one does: each has finitely many steps to   *)
(* take, so none is left behind.  LogonUI and the service owe nothing.      *)
Spec == Init /\ [][Next]_vars /\ WF_vars(\E g \in Gen : TaskNext(g))

-----------------------------------------------------------------------------
(* At most one worker is alive: a new one waits for the old one to end,    *)
(* although selections, deselections and results interleave at will        *)
(* (StartFaceRecognitionAsync).                                            *)
SingleWorker == \A g, h \in Gen : Worker(g) /\ Worker(h) => g = h

(* A raised flag has a worker behind it, or one about to be spawned, so a  *)
(* selection that finds it raised may rely on it and the branch that       *)
(* clears a stale flag is never needed (SetSelected,                       *)
(* StartFaceRecognitionAsync, WaitForFaceRecognitionResult).               *)
FlagMeansWorker ==
  running => ui = "spawn" \/ (thread # NoThread /\ Worker(thread))

(* A worker that cleans up terminates the service of its own session,      *)
(* never of a later one, although its check of the generation and the      *)
(* termination are not one step (StartFaceRecognitionAsync).               *)
WorkerSparesNewSession ==
  \A g \in Gen : Worker(g) /\ task[g].pc = "terminate" => session <= g

(* The credential never has two services at once, nor one alive that its   *)
(* handle has lost (LaunchSmile2UnlockService,                             *)
(* TerminateSmile2UnlockService).                                          *)
OneService == alive \subseteq {handle}

(* A worker that waits while the flag is down stops waiting and ends: no   *)
(* worker is left then, for a new one is not started before               *)
(* (WaitForFaceRecognitionResult, StartFaceRecognitionAsync).              *)
WaiterHonoursStop ==
  (\E g \in Gen : task[g].pc = "wait") /\ ~ running
    ~> \A g \in Gen : ~ Worker(g)

(* How far the attempt of a task is; a stop is none. *)
PhaseOf(t) ==
  IF t.kind = "stop" THEN "none"
  ELSE CASE t.pc \in {"none", "launch", "done"} ->
              IF t.pc = "launch" THEN "launching" ELSE t.pc
         [] t.pc \in {"grace", "launched"} -> "launched"
         [] t.pc \in {"send", "await", "sent", "raise", "wait", "won",
                      "password", "obtained"} -> "asking"
         [] t.pc = "write" -> "granted"
         [] t.pc = "notify" -> "filled"
         [] OTHER -> "over"

Promise ==
  INSTANCE Attempts WITH
    Task <- Gen, last <- gen, phase <- [g \in Gen |-> PhaseOf(task[g])],
    filled <- password, announced <- ready, services <- alive

(* However selections, deselections, clicks, workers, stops and statuses   *)
(* alternate, the credential makes one attempt after the other; each asks, *)
(* fills and announces at most once, in this order, and is granted a       *)
(* request and a password only while it is the latest task                 *)
(* (StartFaceRecognitionAsync, StopFaceRecognition).                       *)
RefinesAttempts == Promise!Spec

-----------------------------------------------------------------------------
(* The generation keeps an old stop task from killing a new session's      *)
(* service (CSampleCredential.h, _serviceGeneration).                      *)
StopSparesNewSession ==
  \A g \in Gen :
    task[g].kind = "stop" /\ task[g].pc = "terminate" => session <= g

(* The credential is announced as ready only when it holds a password      *)
(* (StartFaceRecognitionAsync: OnCredentialReady).                         *)
ReadyHoldsPassword == ready => password

(* The cleared flag lets the recognition thread know that it should stop   *)
(* (StopFaceRecognition).                                                  *)
StopReachesWorker ==
  \A g \in Gen : Worker(g) /\ gen > g ~> task[g].pc = "done"
=============================================================================
