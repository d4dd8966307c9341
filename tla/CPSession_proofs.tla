-------------------------- MODULE CPSession_proofs --------------------------
(***************************************************************************)
(* What holds of the credential for any number of sessions started and     *)
(* stopped and of attempts to send a request.                              *)
(***************************************************************************)
EXTENDS CPSession, TLAPS

TaskType == [kind : {"worker", "stop"}, pc : TaskStep, tries : 0 .. MaxTries,
             fresh : BOOLEAN]

(* While LogonUI's thread starts or stops a session, one is left to start. *)
BoundInv == ui \notin {"idle", "clear"} => gen < MaxGen

(* Each kind of task keeps to its own steps. *)
KindInv ==
  \A g \in Gen :
    IF task[g].kind = "worker" THEN task[g].pc # "check"
    ELSE task[g].pc \in {"check", "send", "await", "sent", "clean", "terminate", "done"}

(* A worker that lives is the thread to join, and there is none from the   *)
(* join to the spawning of the next; later generations have not begun.     *)
ThreadInv ==
  /\ \A g \in Gen : Worker(g) => thread = g
  /\ ui \in {"reset", "raise", "spawn"} => thread = NoThread
  /\ \A g \in Gen : g > gen => task[g].pc = "none"
  /\ thread <= gen

(* A raised flag has its worker. *)
FlagInv == FlagMeansWorker

(* No session that got the service is later than a worker that lives. *)
SessionInv ==
  /\ session <= gen
  /\ \A g \in Gen : Worker(g) => session <= g

IInv == TypeOK /\ BoundInv /\ KindInv /\ ThreadInv /\ FlagInv /\ SessionInv /\ OneService

-----------------------------------------------------------------------------
(* The steps of a task keep the types: it does not exceed its attempts     *)
(* (SendAuthRequestToSmile2Unlock).                                        *)
LEMMA TaskKeepsTypes ==
  ASSUME TypeOK, NEW g \in Gen, TaskNext(g)
  PROVE  TypeOK'
<1> USE BoundAssumption DEF TypeOK, TaskStep, Status, sharedVars, serviceVars
<1>1. CASE Attempt(g)
  BY <1>1 DEF Attempt, MayTry
<1>2. CASE NoMoreTries(g)
  <2>1. AfterFailure(g) \in TaskStep
    BY DEF AfterFailure
  <2>2. ASSUME NEW pc \in TaskStep, Return(g, pc)
        PROVE  task' \in [Gen -> TaskType]
    <3> HIDE DEF TaskStep
    <3>1. 0 \in 0 .. MaxTries
      OBVIOUS
    <3>2. task' = [task EXCEPT ![g].pc = pc, ![g].tries = 0, ![g].fresh = FALSE]
      BY <2>2 DEF Return
    <3>3. task'[g] \in TaskType
      BY <3>1, <3>2 DEF TaskType
    <3> QED
      BY <3>2, <3>3 DEF TaskType
  <2>3. task' \in [Gen -> TaskType]
    BY <1>2, <2>1, <2>2 DEF NoMoreTries
  <2> QED
    BY <1>2, <2>3 DEF NoMoreTries, TaskType
<1>3. CASE Acknowledged(g)
  BY <1>3 DEF Acknowledged, Return
<1>4. CASE NotAcknowledged(g)
  BY <1>4 DEF NotAcknowledged, Return, AfterFailure, Goto
<1>5. CASE Clean(g)
  BY <1>5 DEF Clean, Goto
<1>6. CASE Terminate(g)
  BY <1>6 DEF Terminate, Goto
<1>7. CASE StopCheck(g)
  BY <1>7 DEF StopCheck, Goto
<1>8. CASE StopSent(g)
  BY <1>8 DEF StopSent, Goto
<1>9. CASE ReuseService(g)
  <2>1. g \in 0 .. MaxGen
    BY DEF Gen
  <2> QED
    BY <1>9, <2>1 DEF ReuseService, OwnedAlive, ServicePresent, Goto
<1>10. CASE CreateService(g)
  <2>1. g \in 0 .. MaxGen
    BY DEF Gen
  <2> QED
    BY <1>10, <2>1 DEF CreateService, Create, ServicePresent, Goto
<1>11. CASE CreateFails(g)
  BY <1>11 DEF CreateFails, ServicePresent, Goto
<1>12. CASE GraceOver(g)
  BY <1>12 DEF GraceOver, OwnedAlive, Goto
<1>13. CASE Launched(g)
  BY <1>13 DEF Launched, GoIfCurrent, Goto
<1>14. CASE StartSent(g)
  BY <1>14 DEF StartSent, GoIfCurrent, Goto
<1>15. CASE RaiseInWait(g)
  BY <1>15 DEF RaiseInWait, Goto
<1>16. CASE PollFlag(g)
  BY <1>16 DEF PollFlag, Cancelled, Goto
<1>17. CASE PollStatus(g)
  BY <1>17 DEF PollStatus, Cancelled, Goto
<1>18. CASE Won(g)
  BY <1>18 DEF Won, GoIfCurrent, Goto
<1>19. CASE RequestPassword(g)
  BY <1>19 DEF RequestPassword, Goto
<1>20. CASE Obtained(g)
  BY <1>20 DEF Obtained, GoIfCurrent, Goto
<1>21. CASE WriteFields(g)
  BY <1>21 DEF WriteFields, Goto
<1>22. CASE Notify(g)
  BY <1>22 DEF Notify, Goto
<1>23. CASE End(g)
  BY <1>23 DEF End, Goto
<1>24. CASE Finish(g)
  BY <1>24 DEF Finish, Goto
<1> QED
  BY <1>1, <1>2, <1>3, <1>4, <1>5, <1>6, <1>7, <1>8, <1>9, <1>10, <1>11, <1>12, <1>13, <1>14, <1>15, <1>16, <1>17, <1>18, <1>19, <1>20, <1>21, <1>22, <1>23, <1>24 DEF TaskNext

(* A task changes itself alone, stays within its kind, raises the flag     *)
(* only as a living worker, ends with the flag lowered if it is a worker,  *)
(* and gets a service only for itself (StartFaceRecognitionAsync).         *)
LEMMA TaskFrame ==
  ASSUME TypeOK, KindInv, NEW g \in Gen, TaskNext(g)
  PROVE  /\ \A h \in Gen \ {g} : task'[h] = task[h]
         /\ Live(g) /\ task'[g].kind = task[g].kind /\ task'[g].pc # "none"
         /\ IF task[g].kind = "worker" THEN task'[g].pc # "check"
            ELSE task'[g].pc \in {"check", "send", "await", "sent", "clean",
                                  "terminate", "done"}
         /\ gen' = gen /\ thread' = thread /\ ui' = ui
         /\ running' => running \/ Worker(g)'
         /\ running' /\ Worker(g) => Worker(g)'
         /\ session' = session \/ (session' = g /\ Worker(g))
<1> USE DEF TypeOK, KindInv, Live, Worker, sharedVars, serviceVars
<1>1. CASE Attempt(g)
  BY <1>1 DEF Attempt, MayTry
<1>2. CASE NoMoreTries(g)
  BY <1>2 DEF NoMoreTries, Return, AfterFailure
<1>3. CASE Acknowledged(g)
  BY <1>3 DEF Acknowledged, Return
<1>4. CASE NotAcknowledged(g)
  BY <1>4 DEF NotAcknowledged, Return, AfterFailure, Goto
<1>5. CASE Clean(g)
  BY <1>5 DEF Clean, Goto
<1>6. CASE Terminate(g)
  BY <1>6 DEF Terminate, Goto
<1>7. CASE StopCheck(g)
  BY <1>7 DEF StopCheck, Goto
<1>8. CASE StopSent(g)
  BY <1>8 DEF StopSent, Goto
<1>9. CASE ReuseService(g)
  BY <1>9 DEF ReuseService, OwnedAlive, ServicePresent, Goto
<1>10. CASE CreateService(g)
  BY <1>10 DEF CreateService, Create, ServicePresent, Goto
<1>11. CASE CreateFails(g)
  BY <1>11 DEF CreateFails, ServicePresent, Goto
<1>12. CASE GraceOver(g)
  BY <1>12 DEF GraceOver, OwnedAlive, Goto
<1>13. CASE Launched(g)
  BY <1>13 DEF Launched, GoIfCurrent, Goto
<1>14. CASE StartSent(g)
  BY <1>14 DEF StartSent, GoIfCurrent, Goto
<1>15. CASE RaiseInWait(g)
  BY <1>15 DEF RaiseInWait, Goto
<1>16. CASE PollFlag(g)
  BY <1>16 DEF PollFlag, Cancelled, Goto
<1>17. CASE PollStatus(g)
  BY <1>17 DEF PollStatus, Cancelled, Goto
<1>18. CASE Won(g)
  BY <1>18 DEF Won, GoIfCurrent, Goto
<1>19. CASE RequestPassword(g)
  BY <1>19 DEF RequestPassword, Goto
<1>20. CASE Obtained(g)
  BY <1>20 DEF Obtained, GoIfCurrent, Goto
<1>21. CASE WriteFields(g)
  BY <1>21 DEF WriteFields, Goto
<1>22. CASE Notify(g)
  BY <1>22 DEF Notify, Goto
<1>23. CASE End(g)
  BY <1>23 DEF End, Goto
<1>24. CASE Finish(g)
  BY <1>24 DEF Finish, Goto
<1> QED
  BY <1>1, <1>2, <1>3, <1>4, <1>5, <1>6, <1>7, <1>8, <1>9, <1>10, <1>11, <1>12, <1>13, <1>14, <1>15, <1>16, <1>17, <1>18, <1>19, <1>20, <1>21, <1>22, <1>23, <1>24 DEF TaskNext

(* The handle is never left behind (LaunchSmile2UnlockService,             *)
(* TerminateSmile2UnlockService).                                          *)
LEMMA TaskKeepsOneService ==
  ASSUME TypeOK, OneService, NEW g \in Gen, TaskNext(g)
  PROVE  OneService'
<1> USE DEF TypeOK, OneService, sharedVars, serviceVars
<1>1. CASE Attempt(g)
  BY <1>1 DEF Attempt, MayTry
<1>2. CASE NoMoreTries(g)
  BY <1>2 DEF NoMoreTries, Return, AfterFailure
<1>3. CASE Acknowledged(g)
  BY <1>3 DEF Acknowledged, Return
<1>4. CASE NotAcknowledged(g)
  BY <1>4 DEF NotAcknowledged, Return, AfterFailure, Goto
<1>5. CASE Clean(g)
  BY <1>5 DEF Clean, Goto
<1>6. CASE Terminate(g)
  BY <1>6 DEF Terminate, Goto
<1>7. CASE StopCheck(g)
  BY <1>7 DEF StopCheck, Goto
<1>8. CASE StopSent(g)
  BY <1>8 DEF StopSent, Goto
<1>9. CASE ReuseService(g)
  BY <1>9 DEF ReuseService, OwnedAlive, ServicePresent, Goto
<1>10. CASE CreateService(g)
  BY <1>10 DEF CreateService, Create, ServicePresent, Goto
<1>11. CASE CreateFails(g)
  BY <1>11 DEF CreateFails, ServicePresent, Goto
<1>12. CASE GraceOver(g)
  BY <1>12 DEF GraceOver, OwnedAlive, Goto
<1>13. CASE Launched(g)
  BY <1>13 DEF Launched, GoIfCurrent, Goto
<1>14. CASE StartSent(g)
  BY <1>14 DEF StartSent, GoIfCurrent, Goto
<1>15. CASE RaiseInWait(g)
  BY <1>15 DEF RaiseInWait, Goto
<1>16. CASE PollFlag(g)
  BY <1>16 DEF PollFlag, Cancelled, Goto
<1>17. CASE PollStatus(g)
  BY <1>17 DEF PollStatus, Cancelled, Goto
<1>18. CASE Won(g)
  BY <1>18 DEF Won, GoIfCurrent, Goto
<1>19. CASE RequestPassword(g)
  BY <1>19 DEF RequestPassword, Goto
<1>20. CASE Obtained(g)
  BY <1>20 DEF Obtained, GoIfCurrent, Goto
<1>21. CASE WriteFields(g)
  BY <1>21 DEF WriteFields, Goto
<1>22. CASE Notify(g)
  BY <1>22 DEF Notify, Goto
<1>23. CASE End(g)
  BY <1>23 DEF End, Goto
<1>24. CASE Finish(g)
  BY <1>24 DEF Finish, Goto
<1> QED
  BY <1>1, <1>2, <1>3, <1>4, <1>5, <1>6, <1>7, <1>8, <1>9, <1>10, <1>11, <1>12, <1>13, <1>14, <1>15, <1>16, <1>17, <1>18, <1>19, <1>20, <1>21, <1>22, <1>23, <1>24 DEF TaskNext

-----------------------------------------------------------------------------
(* LogonUI's thread keeps the types: it numbers no more sessions than the  *)
(* bound (StartFaceRecognitionAsync, StopFaceRecognition).                 *)
LEMMA UiKeepsTypes ==
  ASSUME TypeOK, BoundInv, UiNext
  PROVE  TypeOK' /\ BoundInv'
<1> USE BoundAssumption DEF TypeOK, BoundInv, UiStep, Gen, TaskStep, Status,
                            UiGoto, sharedVars, serviceVars
<1>1. CASE SetSelected
  BY <1>1 DEF SetSelected
<1>2. CASE ClickFaceLink
  BY <1>2 DEF ClickFaceLink
<1>3. CASE CheckRunning
  BY <1>3 DEF CheckRunning
<1>4. CASE TellToStop
  BY <1>4 DEF TellToStop
<1>5. CASE Join
  BY <1>5 DEF Join
<1>6. CASE ResetStatus
  BY <1>6 DEF ResetStatus
<1>7. CASE RaiseFlag
  BY <1>7 DEF RaiseFlag
<1>8. CASE SpawnWorker
  BY <1>8 DEF SpawnWorker, NewTask
<1>9. CASE SetDeselected
  BY <1>9 DEF SetDeselected
<1>10. CASE LowerFlag
  BY <1>10 DEF LowerFlag
<1>11. CASE SpawnStop
  BY <1>11 DEF SpawnStop, NewTask
<1>12. CASE ClearPassword
  BY <1>12 DEF ClearPassword
<1>13. CASE GetCredentialCount
  BY <1>13 DEF GetCredentialCount
<1> QED
  BY <1>1, <1>2, <1>3, <1>4, <1>5, <1>6, <1>7, <1>8, <1>9, <1>10, <1>11, <1>12, <1>13 DEF UiNext

(* The thread that LogonUI runs keeps what the workers rely on: it joins a *)
(* worker before it spawns the next, and raises the flag only for the one  *)
(* it spawns (StartFaceRecognitionAsync, StopFaceRecognition).             *)
LEMMA UiKeepsWorkers ==
  ASSUME TypeOK, BoundInv, KindInv, ThreadInv, FlagInv, SessionInv, UiNext
  PROVE  KindInv' /\ ThreadInv' /\ FlagInv' /\ SessionInv'
<1> USE DEF TypeOK, KindInv, ThreadInv, FlagInv, FlagMeansWorker, SessionInv,
            Live, Worker, Gen, NoThread, UiGoto, sharedVars, serviceVars
<1>1. CASE SetSelected
  BY <1>1 DEF SetSelected
<1>2. CASE ClickFaceLink
  BY <1>2 DEF ClickFaceLink
<1>3. CASE CheckRunning
  BY <1>3 DEF CheckRunning
<1>4. CASE TellToStop
  BY <1>4 DEF TellToStop
<1>5. CASE Join
  BY <1>5 DEF Join
<1>6. CASE ResetStatus
  BY <1>6 DEF ResetStatus
<1>7. CASE RaiseFlag
  BY <1>7 DEF RaiseFlag
<1>8. CASE SpawnWorker
  <2>1. gen + 1 \in Gen /\ thread = NoThread
    BY <1>8, BoundAssumption DEF SpawnWorker, BoundInv
  <2>2. /\ gen' = gen + 1 /\ thread' = gen + 1 /\ ui' = "idle"
        /\ running' = running /\ session' = session
    BY <1>8 DEF SpawnWorker, NewTask
  <2>3. /\ task'[gen + 1].kind = "worker" /\ task'[gen + 1].pc = "launch"
        /\ \A h \in Gen \ {gen + 1} : task'[h] = task[h]
    BY <1>8, <2>1 DEF SpawnWorker, NewTask
  <2>4. \A h \in Gen : ~ Worker(h)
    BY <2>1
  <2>5. KindInv'
    BY <2>3
  <2>6. ThreadInv'
    BY <2>1, <2>2, <2>3, <2>4
  <2>7. FlagInv' /\ SessionInv'
    BY <2>1, <2>2, <2>3, <2>4
  <2> QED
    BY <2>5, <2>6, <2>7
<1>9. CASE SetDeselected
  BY <1>9 DEF SetDeselected
<1>10. CASE LowerFlag
  BY <1>10 DEF LowerFlag
<1>11. CASE SpawnStop
  BY <1>11 DEF SpawnStop, NewTask
<1>12. CASE ClearPassword
  BY <1>12 DEF ClearPassword
<1>13. CASE GetCredentialCount
  BY <1>13 DEF GetCredentialCount
<1> QED
  BY <1>1, <1>2, <1>3, <1>4, <1>5, <1>6, <1>7, <1>8, <1>9, <1>10, <1>11, <1>12, <1>13 DEF UiNext

-----------------------------------------------------------------------------
(* The initial state has no session. *)
LEMMA InitEstablishes == Init => IInv
<1> SUFFICES ASSUME Init PROVE IInv
  OBVIOUS
<1> USE BoundAssumption DEF Init, NoThread, NoService
<1>1. \A g \in Gen : task[g].kind = "worker" /\ task[g].pc = "none"
  OBVIOUS
<1>2. 0 \in 0 .. MaxGen /\ 0 \in 0 .. MaxTries
  OBVIOUS
<1>3. task \in [Gen -> TaskType]
  BY <1>2 DEF TaskType, TaskStep
<1>4. TypeOK
  BY <1>2, <1>3 DEF TypeOK, TaskType, Status, UiStep
<1>5. BoundInv /\ KindInv /\ FlagInv /\ OneService
  BY <1>1 DEF BoundInv, KindInv, FlagInv, FlagMeansWorker, OneService
<1>6. ThreadInv /\ SessionInv
  BY <1>1 DEF ThreadInv, SessionInv, Worker, Live
<1> QED
  BY <1>4, <1>5, <1>6 DEF IInv

(* Every step of any thread keeps the invariant. *)
LEMMA NextKeeps ==
  ASSUME IInv, [Next]_vars
  PROVE  IInv'
<1> USE DEF IInv
<1>1. CASE UiNext
  <2>1. OneService'
    BY <1>1 DEF UiNext, SetSelected, ClickFaceLink, CheckRunning, TellToStop, Join,
                ResetStatus, RaiseFlag, SpawnWorker, SetDeselected, LowerFlag,
                SpawnStop, ClearPassword, GetCredentialCount, serviceVars, OneService
  <2> QED
    BY <1>1, <2>1, UiKeepsTypes, UiKeepsWorkers
<1>2. ASSUME NEW g \in Gen, TaskNext(g)
      PROVE  IInv'
  <2>1. TypeOK' /\ OneService'
    BY <1>2, TaskKeepsTypes, TaskKeepsOneService
  <2>2. /\ \A h \in Gen \ {g} : task'[h] = task[h]
        /\ Live(g) /\ task'[g].kind = task[g].kind /\ task'[g].pc # "none"
        /\ IF task[g].kind = "worker" THEN task'[g].pc # "check"
           ELSE task'[g].pc \in {"check", "send", "await", "sent", "clean",
                                 "terminate", "done"}
        /\ gen' = gen /\ thread' = thread /\ ui' = ui
        /\ running' => running \/ Worker(g)'
        /\ running' /\ Worker(g) => Worker(g)'
        /\ session' = session \/ (session' = g /\ Worker(g))
    BY <1>2, TaskFrame
  <2>3. /\ \A h \in Gen : Worker(h)' => Worker(h)
        /\ \A h \in Gen \ {g} : Worker(h)' <=> Worker(h)
    BY <2>2 DEF Worker, Live
  <2>4. BoundInv' /\ KindInv'
    BY <2>2 DEF BoundInv, KindInv
  <2>5. ThreadInv'
    BY <2>2, <2>3 DEF ThreadInv, TypeOK, Gen, Live
  <2>6. FlagInv'
    BY <2>2, <2>3 DEF FlagInv, FlagMeansWorker, ThreadInv, TypeOK, NoThread, Gen
  <2>7. SessionInv'
    BY <2>2, <2>3 DEF SessionInv, ThreadInv, TypeOK, Gen, Live
  <2> QED
    BY <2>1, <2>4, <2>5, <2>6, <2>7
<1>3. CASE Receive
  <2>1. /\ \A h \in Gen : task'[h] \in TaskType /\ task'[h].kind = task[h].kind
                           /\ task'[h].pc = task[h].pc
        /\ task' \in [Gen -> TaskType]
    BY <1>3 DEF Receive, TypeOK, TaskType
  <2>2. UNCHANGED <<sharedVars, serviceVars, ui>> /\ status' \in Status
    BY <1>3 DEF Receive
  <2>3. TypeOK' /\ OneService' /\ BoundInv'
    BY <2>1, <2>2 DEF TypeOK, TaskType, OneService, BoundInv, sharedVars, serviceVars
  <2>4. \A h \in Gen : Worker(h)' <=> Worker(h)
    BY <2>1 DEF Worker, Live
  <2>5. KindInv' /\ ThreadInv' /\ SessionInv'
    BY <2>1, <2>2, <2>4 DEF KindInv, ThreadInv, SessionInv, sharedVars, serviceVars
  <2>6. FlagInv'
    BY <2>2, <2>4 DEF FlagInv, FlagMeansWorker, TypeOK, NoThread, sharedVars
  <2> QED
    BY <2>3, <2>5, <2>6
<1>4. CASE ServiceExits
  BY <1>4 DEF ServiceExits, TypeOK, BoundInv, KindInv, ThreadInv, FlagInv,
              FlagMeansWorker, SessionInv, OneService, Worker, Live, sharedVars
<1>5. CASE UNCHANGED vars
  BY <1>5 DEF vars, TypeOK, BoundInv, KindInv, ThreadInv, FlagInv,
              FlagMeansWorker, SessionInv, OneService, Worker, Live
<1> QED
  BY <1>1, <1>2, <1>3, <1>4, <1>5 DEF Next

(* The inductive invariant holds in every reachable state of the           *)
(* credential (StartFaceRecognitionAsync, StopFaceRecognition).            *)
THEOREM SessionInvariant == Spec => []IInv
<1>1. IInv /\ [Next]_vars => IInv'
  BY NextKeeps
<1> QED
  BY InitEstablishes, <1>1, PTL DEF Spec

(* The types hold: no session beyond the bound is numbered, and no attempt *)
(* is made beyond kMaxAttempts.                                            *)
THEOREM TypeCorrect == Spec => []TypeOK
BY SessionInvariant, PTL DEF IInv

(* There is never a second worker, in whatever order tiles are selected    *)
(* and results arrive (StartFaceRecognitionAsync).                         *)
THEOREM NeverTwoWorkers == Spec => []SingleWorker
<1>1. IInv => SingleWorker
  BY DEF IInv, ThreadInv, SingleWorker
<1> QED
  BY <1>1, SessionInvariant, PTL

(* The flag is never left up without a worker that will lower it           *)
(* (SetSelected, StartFaceRecognitionAsync).                               *)
THEOREM FlagIsNeverStale == Spec => []FlagMeansWorker
<1>1. IInv => FlagMeansWorker
  BY DEF IInv, FlagInv
<1> QED
  BY <1>1, SessionInvariant, PTL

(* The clean-up of a worker never reaches the service of a later session   *)
(* (StartFaceRecognitionAsync).                                            *)
THEOREM WorkersSpareNewSessions == Spec => []WorkerSparesNewSession
<1>1. IInv => WorkerSparesNewSession
  BY DEF IInv, SessionInv, WorkerSparesNewSession
<1> QED
  BY <1>1, SessionInvariant, PTL

(* The credential never has two services, nor one out of its handle's      *)
(* reach (LaunchSmile2UnlockService, TerminateSmile2UnlockService).        *)
THEOREM NeverTwoServices == Spec => []OneService
<1>1. IInv => OneService
  BY DEF IInv
<1> QED
  BY <1>1, SessionInvariant, PTL

-----------------------------------------------------------------------------
(* What a worker is about to announce is there unless a stop came later:   *)
(* the field is emptied only then.                                         *)
FillInv ==
  /\ ui = "clear" => gen \in Gen /\ task[gen].kind = "stop"
  /\ \A g \in Gen : task[g].pc = "notify" /\ gen = g => password

(* Tasks fill the field and never empty it (StartFaceRecognitionAsync). *)
LEMMA TaskKeepsFill ==
  ASSUME IInv, FillInv, NEW g \in Gen, TaskNext(g)
  PROVE  FillInv'
<1>1. /\ \A h \in Gen \ {g} : task'[h] = task[h]
      /\ task'[g].kind = task[g].kind /\ gen' = gen /\ ui' = ui
  BY TaskFrame DEF IInv
<1>2. /\ password => password'
      /\ task'[g].pc = "notify" => password' \/ task[g].pc = "notify"
  <2>1. task \in [Gen -> [kind : {"worker", "stop"}, pc : TaskStep,
                          tries : 0 .. MaxTries, fresh : BOOLEAN]]
    BY DEF IInv, TypeOK
  <2> USE DEF Goto, Return, AfterFailure, sharedVars
  <2>2. CASE WriteFields(g)
    BY <2>2 DEF WriteFields
  <2>3. CASE Attempt(g) \/ NoMoreTries(g) \/ Acknowledged(g) \/ NotAcknowledged(g)
             \/ Clean(g) \/ Terminate(g) \/ StopCheck(g) \/ StopSent(g)
    BY <2>1, <2>3 DEF Attempt, NoMoreTries, Acknowledged, NotAcknowledged, Clean,
       Terminate, StopCheck, StopSent
  <2>4. CASE ReuseService(g) \/ CreateService(g) \/ CreateFails(g) \/ GraceOver(g)
             \/ Launched(g) \/ StartSent(g) \/ RaiseInWait(g) \/ PollFlag(g)
    BY <2>1, <2>4 DEF ReuseService, CreateService, Create, CreateFails, GraceOver,
       Launched, StartSent, GoIfCurrent, RaiseInWait, PollFlag
  <2>5. CASE PollStatus(g) \/ Won(g) \/ RequestPassword(g) \/ Obtained(g)
             \/ Notify(g) \/ End(g) \/ Finish(g)
    BY <2>1, <2>5 DEF PollStatus, Won, GoIfCurrent, RequestPassword, Obtained,
       Notify, End, Finish
  <2> QED
    BY <2>2, <2>3, <2>4, <2>5 DEF TaskNext
<1> QED
  BY <1>1, <1>2 DEF FillInv

(* LogonUI's thread empties the field after it has spawned the stop        *)
(* (SetDeselected, StopFaceRecognition).                                   *)
LEMMA UiKeepsFill ==
  ASSUME IInv, FillInv, UiNext
  PROVE  FillInv'
<1>0. task \in [Gen -> [kind : {"worker", "stop"}, pc : TaskStep,
                        tries : 0 .. MaxTries, fresh : BOOLEAN]]
  BY DEF IInv, TypeOK
<1> USE DEF FillInv, UiGoto, sharedVars, serviceVars
<1>1. CASE SetSelected \/ ClickFaceLink \/ CheckRunning \/ TellToStop \/ Join
           \/ ResetStatus \/ RaiseFlag \/ SetDeselected \/ LowerFlag
           \/ GetCredentialCount
  <2>1. UNCHANGED <<gen, password, task>>
    BY <1>1 DEF SetSelected, ClickFaceLink, CheckRunning, TellToStop, Join,
       ResetStatus, RaiseFlag, SetDeselected, LowerFlag, GetCredentialCount
  <2>2. ui' # "clear" \/ ui' = ui
    BY <1>1 DEF SetSelected, ClickFaceLink, CheckRunning, TellToStop, Join,
       ResetStatus, RaiseFlag, SetDeselected, LowerFlag, GetCredentialCount
  <2> QED
    BY <2>1, <2>2
<1>2. CASE SpawnWorker \/ SpawnStop
  <2>1. /\ gen + 1 \in Gen /\ gen' = gen + 1
        /\ task'[gen + 1].pc \in {"launch", "check"}
        /\ SpawnStop => task'[gen + 1].kind = "stop"
    BY <1>0, <1>2, BoundAssumption DEF SpawnWorker, SpawnStop, NewTask, IInv,
       BoundInv, TypeOK, Gen
  <2>2. ui' = "clear" => SpawnStop
    BY <1>2 DEF SpawnWorker
  <2> QED
    BY <2>1, <2>2
<1>3. CASE ClearPassword
  <2>1. task[gen].pc # "notify" /\ ui' = "idle"
    BY <1>3 DEF ClearPassword, IInv, KindInv
  <2> QED
    BY <1>3, <2>1 DEF ClearPassword
<1> QED
  BY <1>1, <1>2, <1>3 DEF UiNext

(* What is announced by the latest attempt is there (SetDeselected,        *)
(* StartFaceRecognitionAsync: OnCredentialReady).                          *)
THEOREM FillInvariant == Spec => []FillInv
<1>1. Init => FillInv
  BY DEF Init, FillInv
<1>2. IInv /\ FillInv /\ [Next]_vars => FillInv'
  <2> SUFFICES ASSUME IInv, FillInv, [Next]_vars PROVE FillInv'
    OBVIOUS
  <2>1. CASE Receive \/ ServiceExits \/ UNCHANGED vars
    <3>1. /\ UNCHANGED <<ui, gen, password>>
          /\ \A g \in Gen : task'[g].pc = task[g].pc /\ task'[g].kind = task[g].kind
      BY <2>1 DEF Receive, ServiceExits, vars, sharedVars, IInv, TypeOK
    <3> QED
      BY <3>1 DEF FillInv
  <2> QED
    BY <2>1, UiKeepsFill, TaskKeepsFill DEF Next
<1> QED
  BY <1>1, <1>2, SessionInvariant, PTL DEF Spec

-----------------------------------------------------------------------------
(* A task that leaves its phase and what LogonUI sees takes no step of     *)
(* Attempts; one that goes on alone moves its own phase.                   *)
LEMMA PhaseMoves ==
  ASSUME NEW g \in Gen, \A h \in Gen \ {g} : task'[h] = task[h]
  PROVE  /\ PhaseOf(task'[g]) = PhaseOf(task[g]) =>
              [h \in Gen |-> PhaseOf(task[h])]' = [h \in Gen |-> PhaseOf(task[h])]
         /\ Promise!GoesOn(g, PhaseOf(task[g]), PhaseOf(task'[g]))
         /\ PhaseOf(task[g]) \notin {"none", "done"} => g \in Promise!UnderWay
<1> DEFINE phases == [h \in Gen |-> PhaseOf(task[h])]
<1>1. \A h \in Gen \ {g} : PhaseOf(task'[h]) = PhaseOf(task[h])
  OBVIOUS
<1>2. phases' = [h \in Gen |-> PhaseOf(task'[h])]
  OBVIOUS
<1> QED
  BY <1>1, <1>2 DEF Promise!GoesOn, Promise!UnderWay

(* Every step of a task is a step of its attempt: a worker goes from the   *)
(* launch of the service to its end, a stop only takes the service away    *)
(* (StartFaceRecognitionAsync, StopFaceRecognition).                       *)
LEMMA TaskAttempts ==
  ASSUME IInv, FillInv, NEW g \in Gen, TaskNext(g)
  PROVE  Promise!Next \/ UNCHANGED Promise!AttemptVars
<1> USE DEF Promise!Next, Promise!AttemptVars
<1> DEFINE from == PhaseOf(task[g])
           to == PhaseOf(task'[g])
<1>1. /\ \A h \in Gen \ {g} : task'[h] = task[h]
      /\ Live(g) /\ task'[g].kind = task[g].kind /\ gen' = gen
  BY TaskFrame DEF IInv
<1>2. task \in [Gen -> [kind : {"worker", "stop"}, pc : TaskStep, tries : 0 .. MaxTries,
                        fresh : BOOLEAN]]
  BY DEF IInv, TypeOK
<1>3. ASSUME to = from, UNCHANGED <<password, ready>>, alive' \in {alive, {}}
      PROVE  Promise!Next \/ UNCHANGED Promise!AttemptVars
  <2>1. [h \in Gen |-> PhaseOf(task[h])]' = [h \in Gen |-> PhaseOf(task[h])]
    BY <1>1, <1>3, PhaseMoves
  <2> QED
    BY <1>1, <1>3, <2>1 DEF Promise!ServiceGoes
<1>4. ASSUME from \in {"launching", "launched", "asking"}, to = "over",
             UNCHANGED <<password, ready, alive>>
      PROVE  Promise!Next
  <2>1. Promise!GoesOn(g, from, "over") /\ g \in Promise!UnderWay
    BY <1>1, <1>4, PhaseMoves
  <2> QED
    BY <1>1, <1>4, <2>1 DEF Promise!GiveUp
<1>5. Promise!GoesOn(g, from, to) /\ (from \notin {"none", "done"} => g \in Promise!UnderWay)
  BY <1>1, PhaseMoves
<1>6. CASE task[g].kind = "stop"
  <2>1. to = from
    BY <1>1, <1>6 DEF PhaseOf
  <2>2. task[g].pc \in {"check", "send", "await", "sent", "clean", "terminate"}
    BY <1>1, <1>6 DEF IInv, KindInv, Live
  <2>3. UNCHANGED <<password, ready>> /\ alive' \in {alive, {}}
    BY <1>6, <2>2 DEF TaskNext, Attempt, NoMoreTries, Acknowledged, NotAcknowledged,
       Clean, Terminate, StopCheck, StopSent, ReuseService, CreateService, CreateFails,
       GraceOver, Launched, StartSent, GoIfCurrent, RaiseInWait, PollFlag, PollStatus,
       Won, RequestPassword, Obtained, WriteFields, Notify, End, Finish,
       sharedVars, serviceVars, IInv, OneService
  <2> QED
    BY <1>3, <2>1, <2>3
<1>7. CASE task[g].kind = "worker"
  <2> USE DEF Goto, Return, AfterFailure, sharedVars, serviceVars
  <2>1. CASE Attempt(g) \/ Acknowledged(g)
    <3>1. from = "asking" /\ to = "asking"
      BY <1>2, <1>7, <2>1 DEF Attempt, Acknowledged, PhaseOf
    <3> QED
      BY <1>3, <2>1, <3>1 DEF Attempt, Acknowledged
  <2>2. CASE NoMoreTries(g) \/ NotAcknowledged(g)
    <3>1. from = "asking" /\ to \in {"asking", "over"}
      BY <1>2, <1>7, <2>2 DEF NoMoreTries, NotAcknowledged, PhaseOf
    <3> QED
      BY <1>3, <1>4, <2>2, <3>1 DEF NoMoreTries, NotAcknowledged
  <2>3. CASE Clean(g) \/ Terminate(g) \/ End(g)
    <3>1. from = "over" /\ to = "over"
      BY <1>2, <1>7, <2>3 DEF Clean, Terminate, End, PhaseOf
    <3>2. alive' \in {alive, {}}
      BY <2>3 DEF Clean, Terminate, End, IInv, OneService
    <3> QED
      BY <1>3, <2>3, <3>1, <3>2 DEF Clean, Terminate, End
  <2>4. CASE StopCheck(g) \/ StopSent(g)
    BY <1>7, <2>4 DEF StopCheck, StopSent, IInv, KindInv
  <2>5. CASE ReuseService(g)
    <3>1. from = "launching" /\ to = "launched"
      BY <1>2, <1>7, <2>5 DEF ReuseService, PhaseOf
    <3> QED
      BY <1>1, <1>5, <2>5, <3>1 DEF ReuseService, Promise!Reuse
  <2>6. CASE CreateService(g)
    <3>1. from = "launching" /\ to = "launched"
      BY <1>2, <1>7, <2>6 DEF CreateService, Create, PhaseOf
    <3> QED
      BY <1>1, <1>5, <2>6, <3>1 DEF CreateService, Create, ServicePresent, Promise!Create
  <2>7. CASE CreateFails(g)
    <3>1. from = "launching" /\ to = "over"
      BY <1>2, <1>7, <2>7 DEF CreateFails, PhaseOf
    <3> QED
      BY <1>4, <2>7, <3>1 DEF CreateFails
  <2>8. CASE GraceOver(g)
    <3>1. from = "launched" /\ to \in {"launched", "over"}
      BY <1>2, <1>7, <2>8 DEF GraceOver, PhaseOf
    <3> QED
      BY <1>3, <1>4, <2>8, <3>1 DEF GraceOver
  <2>9. CASE Launched(g)
    <3>1. from = "launched" /\ to \in {"asking", "over"} /\ (to = "asking" => gen = g)
      BY <1>2, <1>7, <2>9 DEF Launched, GoIfCurrent, Current, PhaseOf
    <3> QED
      BY <1>1, <1>4, <1>5, <2>9, <3>1 DEF Launched, GoIfCurrent, Promise!Ask
  <2>10. CASE StartSent(g) \/ RaiseInWait(g) \/ PollFlag(g) \/ PollStatus(g)
                \/ Won(g) \/ RequestPassword(g)
    <3>1. from = "asking" /\ to \in {"asking", "over"}
      BY <1>2, <1>7, <2>10 DEF StartSent, GoIfCurrent, RaiseInWait, PollFlag,
         PollStatus, Won, RequestPassword, PhaseOf
    <3> QED
      BY <1>3, <1>4, <2>10, <3>1 DEF StartSent, GoIfCurrent, RaiseInWait, PollFlag,
         PollStatus, Won, RequestPassword
  <2>11. CASE Obtained(g)
    <3>1. from = "asking" /\ to \in {"granted", "over"} /\ (to = "granted" => gen = g)
      BY <1>2, <1>7, <2>11 DEF Obtained, GoIfCurrent, Current, PhaseOf
    <3> QED
      BY <1>1, <1>4, <1>5, <2>11, <3>1 DEF Obtained, GoIfCurrent, Promise!Grant
  <2>12. CASE WriteFields(g)
    <3>1. from = "granted" /\ to = "filled"
      BY <1>2, <1>7, <2>12 DEF WriteFields, PhaseOf
    <3> QED
      BY <1>1, <1>5, <2>12, <3>1 DEF WriteFields, Promise!Fill
  <2>13. CASE Notify(g)
    <3>1. from = "filled" /\ to = "over" /\ (gen = g => password)
      BY <1>2, <1>7, <2>13 DEF Notify, PhaseOf, FillInv
    <3> QED
      BY <1>1, <1>5, <2>13, <3>1 DEF Notify, Promise!Announce
  <2>14. CASE Finish(g)
    <3>1. from = "over" /\ to = "done"
      BY <1>2, <1>7, <2>14 DEF Finish, PhaseOf
    <3> QED
      BY <1>1, <1>5, <2>14, <3>1 DEF Finish, Promise!End
  <2> QED
    BY <2>1, <2>2, <2>3, <2>4, <2>5, <2>6, <2>7, <2>8, <2>9, <2>10, <2>11,
       <2>12, <2>13, <2>14 DEF TaskNext
<1> QED
  BY <1>2, <1>6, <1>7

(* LogonUI's thread begins an attempt only when none is under way, and a   *)
(* stop is a later task (StartFaceRecognitionAsync, StopFaceRecognition).  *)
LEMMA UiAttempts ==
  ASSUME IInv, FillInv, UiNext
  PROVE  Promise!Next \/ UNCHANGED Promise!AttemptVars
<1> USE DEF Promise!Next, Promise!AttemptVars
<1> DEFINE phases == [h \in Gen |-> PhaseOf(task[h])]
<1>1. CASE SetSelected \/ CheckRunning \/ SetDeselected \/ GetCredentialCount
  BY <1>1 DEF SetSelected, CheckRunning, SetDeselected, GetCredentialCount,
     serviceVars, Promise!Hide
<1>2. CASE ClickFaceLink \/ TellToStop \/ Join \/ ResetStatus \/ RaiseFlag \/ LowerFlag
  BY <1>2 DEF ClickFaceLink, TellToStop, Join, ResetStatus, RaiseFlag, LowerFlag,
     sharedVars, serviceVars
<1>3. CASE ClearPassword
  <2>1. PhaseOf(task[gen]) = "none" /\ gen \in Gen
    BY <1>3 DEF ClearPassword, UiGoto, FillInv, PhaseOf
  <2> QED
    BY <1>3, <2>1 DEF ClearPassword, serviceVars, Promise!Clear, Promise!UnderWay
<1>4. ASSUME SpawnWorker \/ SpawnStop
      PROVE  /\ gen + 1 \in Gen /\ gen' = gen + 1
             /\ \A h \in Gen \ {gen + 1} : task'[h] = task[h]
             /\ task[gen + 1].pc = "none"
             /\ UNCHANGED <<password, ready, alive>>
  <2>1. gen + 1 \in Gen /\ gen + 1 > gen
    BY <1>4, BoundAssumption DEF SpawnWorker, SpawnStop, UiGoto, IInv, BoundInv,
       TypeOK, Gen
  <2> QED
    BY <1>4, <2>1 DEF SpawnWorker, SpawnStop, NewTask, serviceVars, IInv, TypeOK,
       ThreadInv
<1>5. CASE SpawnWorker
  <2>1. task'[gen + 1].kind = "worker" /\ task'[gen + 1].pc = "launch"
    BY <1>4, <1>5 DEF SpawnWorker, NewTask, IInv, TypeOK
  <2>2. \A h \in Gen : ~ Worker(h)
    BY <1>5 DEF SpawnWorker, UiGoto, IInv, ThreadInv, Gen, NoThread
  <2>3. Promise!UnderWay = {}
    <3>1. \A h \in Gen : PhaseOf(task[h]) \in {"none", "done"}
      BY <2>2 DEF Worker, Live, PhaseOf, IInv, TypeOK
    <3> QED
      BY <3>1 DEF Promise!UnderWay
  <2>4. PhaseOf(task'[gen + 1]) = "launching"
    BY <2>1 DEF PhaseOf
  <2>5. phases' = [phases EXCEPT ![gen + 1] = "launching"]
    BY <1>4, <1>5, <2>4, PhaseMoves DEF Promise!GoesOn
  <2> QED
    BY <1>4, <1>5, <2>3, <2>5 DEF Promise!Begin
<1>6. CASE SpawnStop
  <2>1. task'[gen + 1].kind = "stop"
    BY <1>4, <1>6 DEF SpawnStop, NewTask, IInv, TypeOK
  <2>2. PhaseOf(task'[gen + 1]) = "none" /\ PhaseOf(task[gen + 1]) = "none"
    BY <1>4, <1>6, <2>1 DEF PhaseOf, IInv, TypeOK
  <2>3. phases' = phases
    BY <1>4, <1>6, <2>2, PhaseMoves
  <2> QED
    BY <1>4, <1>6, <2>3 DEF Promise!Retire
<1> QED
  BY <1>1, <1>2, <1>3, <1>5, <1>6 DEF UiNext

(* Every run of the credential is a run of Attempts, for any number of     *)
(* sessions and tries (StartFaceRecognitionAsync, StopFaceRecognition).    *)
THEOREM KeepsItsPromise == Spec => RefinesAttempts
<1>1. Init => Promise!Init
  BY DEF Init, Promise!Init, PhaseOf
<1>2. IInv /\ FillInv /\ [Next]_vars => [Promise!Next]_(Promise!AttemptVars)
  <2> SUFFICES ASSUME IInv, FillInv, [Next]_vars
               PROVE  Promise!Next \/ UNCHANGED Promise!AttemptVars
    OBVIOUS
  <2>1. CASE Receive
    <3>1. \A h \in Gen : PhaseOf(task'[h]) = PhaseOf(task[h])
      BY <2>1 DEF Receive, PhaseOf, IInv, TypeOK
    <3>2. [h \in Gen |-> PhaseOf(task[h])]' = [h \in Gen |-> PhaseOf(task[h])]
      BY <3>1
    <3> QED
      BY <2>1, <3>2 DEF Receive, sharedVars, serviceVars, Promise!AttemptVars
  <2>2. CASE ServiceExits
    <3>1. alive' = {}
      BY <2>2 DEF ServiceExits, IInv, OneService
    <3> QED
      BY <2>2, <3>1 DEF ServiceExits, sharedVars, Promise!Next, Promise!ServiceGoes
  <2>3. CASE UNCHANGED vars
    BY <2>3 DEF vars, Promise!AttemptVars
  <2> QED
    BY <2>1, <2>2, <2>3, UiAttempts, TaskAttempts DEF Next
<1> QED
  BY <1>1, <1>2, SessionInvariant, FillInvariant, PTL
  DEF Spec, RefinesAttempts, Promise!Spec
=============================================================================
