------------------------------- MODULE GuiPipe -------------------------------
(* The service process and the GUIs that use it over a named pipe:          *)
(*   - the life of the service (RunServiceMode, ServiceRuntime): one at a   *)
(*     time behind its mutex, stopped when idle or killed;                  *)
(*   - GuiIpcServer: one thread that creates the pipe, serves one client    *)
(*     until it leaves, and starts over; stop() closes the pipe and joins;  *)
(*   - GuiIpcRequestHandler: payload to operation to answer;                *)
(*   - RemoteBackendService in each GUI: operation to payload, one request  *)
(*     at a time, a new connection when the old one broke.                  *)
(*                                                                          *)
(* The service has one instance of the pipe at a time.  A message written   *)
(* is kept until it is read; DisconnectNamedPipe discards what the client   *)
(* has not read, a closed handle or a dead server leaves it or not.         *)
EXTENDS UserStore

CONSTANTS
  Gui,                        \* GUI processes
  Names, Passwords, Remarks,  \* what is typed into the GUI's forms
  Recognizer,                 \* what the recognizer can be configured to
  MaxCalls,                   \* bound on the calls the GUIs make
  Nobody, Nothing             \* model values

ASSUME PipeAssumption ==
  /\ Names \union Passwords \union Remarks \subseteq Text
  /\ {Nobody, "none", "listening"} \intersect Gui = {}
  /\ Nothing \notin {"ok", "refused"}
  /\ MaxCalls \in Nat

VARIABLES
  config,    \* config.ini: [recognizer, auto_update_check]
  main,      \* main thread of the service: "off", "run", "close", "join"
  running,   \* GuiIpcServer::running_
  srv,       \* where the server thread is
  pipe,      \* the pipe instance: "none", "listening", or its client
  job,       \* the request the server thread works on
  answer,    \* the response it has made of it
  link,      \* each GUI's end of the pipe: "none", "up" or "broken"
  inbox,     \* the request each GUI has written and nobody read
  reply,     \* the response written for each GUI and not read
  gui,       \* "closed", "idle", "waiting" (in ReadFile)
  done,      \* ghost: what became of the GUI's last request
  heard,     \* what the GUI was told of it
  calls      \* ghost: how many calls were made

service  == <<main, running>>
thread   == <<srv, job, answer>>
wires    == <<pipe, link, inbox, reply>>
clients  == <<gui, heard, calls>>
vars     == <<store, config, service, thread, wires, clients, done>>

-----------------------------------------------------------------------------
(* Requests: what a GUI asks for, as typed values, and the payload that     *)
(* RemoteBackendService makes of it.                                        *)

(* Every other command, which changes neither the tables nor config.ini:    *)
(* lists, DLL status and deployment, recognition, preview.                  *)
Look == [cmd |-> "LOOK"]

Form ==
  [cmd : {"ADD_USER"}, username : Names, password : Passwords, remark : Remarks]
  \union
  [cmd : {"UPDATE_USER"}, id : UserId,
   username : Names, password : Passwords \union {Empty}, remark : Remarks]
  \union [cmd : {"DELETE_USER"}, id : UserId]
  \union [cmd : {"CAPTURE_AND_ADD_FACE"}, id : UserId, remark : Remarks]
  \union [cmd : {"DELETE_FACE"}, id : UserId, face : FaceId]
  \union [cmd : {"SAVE_RECOGNIZER_CONFIG"}, recognizer : Recognizer,
          auto_update_check : BOOLEAN]
  \union {Look}

(* Joining texts with '|' joins their sequences of pieces.                  *)
EncodeUser(f) == f.username \o f.password \o f.remark

(* A mutant of Encode: the fields of an update in the order of the columns  *)
(* of users, the remark before the password.                                *)
EncodesColumns(f) ==
  CASE f.cmd = "ADD_USER"    -> [cmd |-> f.cmd, text |-> EncodeUser(f)]
    [] f.cmd = "UPDATE_USER" ->
         [cmd |-> f.cmd, id |-> f.id,
          text |-> f.username \o f.remark \o f.password]
    [] f.cmd = "SAVE_RECOGNIZER_CONFIG" ->
         [cmd |-> f.cmd, recognizer |-> f.recognizer]
    [] OTHER -> f

(* The payload: numbers and single texts stay themselves; the fields of an  *)
(* account become one text; the configuration goes without                  *)
(* auto_update_check, which SaveRecognizerConfig does not write.            *)
Encode(f) ==
  CASE f.cmd = "ADD_USER"    -> [cmd |-> f.cmd, text |-> EncodeUser(f)]
    [] f.cmd = "UPDATE_USER" -> [cmd |-> f.cmd, id |-> f.id,
                                 text |-> EncodeUser(f)]
    [] f.cmd = "SAVE_RECOGNIZER_CONFIG" ->
         [cmd |-> f.cmd, recognizer |-> f.recognizer]
    [] OTHER -> f

(* The default of FaceRecognizerConfig::auto_update_check, which the        *)
(* handler starts from.                                                     *)
DefaultAutoUpdate == TRUE

(* substr up to the first '|', between the first two, and the rest.         *)
Username(text) == <<text[1]>>

Password(text) == <<text[2]>>

Remark(text) == SubSeq(text, 3, Len(text))

(* What the handler makes of a payload.                                     *)
Decode(p) ==
  CASE p.cmd = "ADD_USER" ->
         [cmd |-> p.cmd, username |-> Username(p.text),
          password |-> Password(p.text), remark |-> Remark(p.text)]
    [] p.cmd = "UPDATE_USER" ->
         [cmd |-> p.cmd, id |-> p.id, username |-> Username(p.text),
          password |-> Password(p.text), remark |-> Remark(p.text)]
    [] p.cmd = "SAVE_RECOGNIZER_CONFIG" ->
         [cmd |-> p.cmd, recognizer |-> p.recognizer,
          auto_update_check |-> DefaultAutoUpdate]
    [] OTHER -> p

-----------------------------------------------------------------------------
(* The backend: one operation of BackendService.                            *)

SaveConfig(ok, f) ==
  config' = IF ok THEN [recognizer        |-> f.recognizer,
                        auto_update_check |-> f.auto_update_check]
                  ELSE config

Perform(ok, f) ==
  \/ /\ \/ f.cmd = "ADD_USER" /\ AddUser(ok, f.username, f.password, f.remark)
        \/ f.cmd = "UPDATE_USER"
           /\ UpdateUser(ok, f.id, f.username, f.password, f.remark)
        \/ f.cmd = "DELETE_USER" /\ DeleteUser(ok, f.id)
        \/ f.cmd = "CAPTURE_AND_ADD_FACE" /\ AddFace(ok, f.id, f.remark)
        \/ f.cmd = "DELETE_FACE" /\ DeleteFace(ok, f.id, f.face)
        \/ f.cmd = "LOOK" /\ UNCHANGED store
     /\ UNCHANGED config
  \/ f.cmd = "SAVE_RECOGNIZER_CONFIG" /\ SaveConfig(ok, f) /\ UNCHANGED store

-----------------------------------------------------------------------------
(* The server thread.                                                       *)

NoJob == [gui |-> Nobody, payload |-> Nothing, form |-> Nothing]

(* The client of the pipe instance, when it has one, loses its end; an      *)
(* unread reply is discarded or left, as "kept" says.                       *)
HangUp(kept) ==
  /\ pipe' = "none"
  /\ link' = [g \in Gui |-> IF g = pipe /\ link[g] = "up" THEN "broken"
                                                          ELSE link[g]]
  /\ inbox' = [g \in Gui |-> IF g = pipe THEN Nothing ELSE inbox[g]]
  /\ reply' = [g \in Gui |-> IF g = pipe /\ ~kept THEN Nothing ELSE reply[g]]

(* while (running_) of server_loop.                                         *)
Accept ==
  /\ srv = "top"
  /\ srv' = IF running THEN "create" ELSE "ended"
  /\ UNCHANGED <<store, config, service, job, answer, wires, clients, done>>

(* CreateNamedPipe: without success the loop starts over.                   *)
CreatePipe ==
  /\ srv = "create"
  /\ \/ srv' = "listen" /\ pipe' = "listening"
     \/ srv' = "top" /\ UNCHANGED pipe
  /\ UNCHANGED <<store, config, service, job, answer, link, inbox, reply,
                 clients, done>>

(* ConnectNamedPipe returns: a client has connected, or stop() has closed   *)
(* the handle under it.                                                     *)
Connected ==
  /\ srv = "listen"
  /\ \/ pipe \in Gui /\ srv' = "next"
     \/ pipe = "none" /\ srv' = "top"
  /\ UNCHANGED <<store, config, service, job, answer, wires, clients, done>>

(* while (running_) of handle_client.                                       *)
NextRequest ==
  /\ srv = "next"
  /\ srv' = IF running THEN "read" ELSE "bye"
  /\ UNCHANGED <<store, config, service, job, answer, wires, clients, done>>

(* ReadFile returns: a request, or an error because the client has closed   *)
(* its end or stop() the server's.  What a client wrote before it left is   *)
(* still read.                                                              *)
ReadRequest ==
  /\ srv = "read"
  /\ \/ /\ pipe \in Gui
        /\ inbox[pipe] # Nothing
        /\ job' = [gui     |-> pipe,
                   payload |-> inbox[pipe].payload,
                   form    |-> inbox[pipe].form]
        /\ inbox' = [inbox EXCEPT ![pipe] = Nothing]
        /\ srv' = "exec"
     \/ /\ \/ pipe = "none"
           \/ pipe \in Gui /\ inbox[pipe] = Nothing /\ link[pipe] = "none"
        /\ srv' = "bye"
        /\ UNCHANGED <<job, inbox>>
  /\ UNCHANGED <<store, config, service, answer, pipe, link, reply, clients,
                 done>>

(* Ghost: noted for a GUI that still waits.  It waits for this request: the *)
(* thread makes no new pipe while it works, so nobody can send another.     *)
Became(ok) ==
  [done EXCEPT ![job.gui] = IF gui[job.gui] = "waiting"
                            THEN IF ok THEN "done" ELSE "refused"
                            ELSE @]

(* A mutant of Execute: the answer is written before the operation is done. *)
AnswersFirst ==
  /\ srv = "exec"
  /\ \E ok \in BOOLEAN :
       /\ Perform(ok, Decode(job.payload))
       /\ answer' = "ok"
       /\ done' = Became(ok)
  /\ srv' = "respond"
  /\ UNCHANGED <<service, job, wires, clients>>

(* The handler: the operation of the payload, and an answer that says       *)
(* whether it succeeded.                                                    *)
Execute ==
  /\ srv = "exec"
  /\ \E ok \in BOOLEAN :
       /\ Perform(ok, Decode(job.payload))
       /\ answer' = IF ok THEN "ok" ELSE "refused"
       /\ done' = Became(ok)
  /\ srv' = "respond"
  /\ UNCHANGED <<service, job, wires, clients>>

(* send_response: written if the client is still there.                     *)
Respond ==
  /\ srv = "respond"
  /\ reply' = IF pipe = job.gui /\ link[pipe] = "up"
              THEN [reply EXCEPT ![pipe] = answer]
              ELSE reply
  /\ srv' = "next"
  /\ job' = NoJob /\ answer' = Nothing
  /\ UNCHANGED <<store, config, service, pipe, link, inbox, clients, done>>

(* A mutant of Bye: the handle is leaked and only the variable is reset.    *)
LeaksHandle ==
  /\ srv = "bye"
  /\ pipe' = "none"
  /\ srv' = "top"
  /\ UNCHANGED <<store, config, service, job, answer, link, inbox, reply,
                 clients, done>>

(* DisconnectNamedPipe and CloseHandle; after stop() has closed the pipe    *)
(* there is nothing left to close.                                          *)
Bye ==
  /\ srv = "bye"
  /\ HangUp(FALSE)
  /\ srv' = "top"
  /\ UNCHANGED <<store, config, service, job, answer, clients, done>>

-----------------------------------------------------------------------------
(* The main thread of the service.                                          *)

(* RunServiceMode with the mutex free: backend, handler, server, runtime.   *)
StartService ==
  /\ main = "off"
  /\ main' = "run" /\ running' = TRUE
  /\ srv' = "top" /\ job' = NoJob /\ answer' = Nothing
  /\ UNCHANGED <<store, config, wires, clients, done>>

(* 60 s without a request: ServiceRuntime::Run returns and stop() lowers    *)
(* the flag.  A request takes less than 60 s, so none is being executed.    *)
IdleStop ==
  /\ main = "run"
  /\ srv \notin {"exec", "respond"}
  /\ main' = "close" /\ running' = FALSE
  /\ UNCHANGED <<store, config, thread, wires, clients, done>>

(* The server thread is inside ReadFile or ConnectNamedPipe on the handle.  *)
InPipeCall ==
  /\ pipe # "none"
  /\ \/ srv = "listen" /\ pipe = "listening"
     \/ srv = "read" /\ inbox[pipe] = Nothing /\ link[pipe] = "up"

(* stop() closes the pipe if there is one.  CloseHandle on a handle with a  *)
(* synchronous call pending may wait for that call, so only a close without *)
(* one is certain to return.                                                *)
ClosePipe ==
  /\ main = "close"
  /\ \E kept \in BOOLEAN : HangUp(kept)
  /\ main' = "join"
  /\ UNCHANGED <<store, config, running, thread, clients, done>>

(* A mutant of JoinServer: the thread is detached.                          *)
DetachesServer ==
  /\ main = "join"
  /\ main' = "off"
  /\ UNCHANGED <<store, config, running, thread, wires, clients, done>>

(* The thread has ended: the mutex is released and the process exits.       *)
JoinServer ==
  /\ main = "join"
  /\ srv = "ended"
  /\ main' = "off"
  /\ UNCHANGED <<store, config, running, thread, wires, clients, done>>

(* The service is killed: by the credential provider after a sign-in        *)
(* (TerminateSmile2UnlockService), or it crashes.  A request being executed *)
(* has been executed or not.                                                *)
Killed ==
  /\ main # "off"
  /\ main' = "off" /\ running' = FALSE
  /\ srv' = "ended" /\ job' = NoJob /\ answer' = Nothing
  /\ \E kept \in BOOLEAN : HangUp(kept)
  /\ UNCHANGED <<store, config, clients, done>>

-----------------------------------------------------------------------------
(* The GUIs.                                                                *)

(* RunGuiMode with a service running: connect() finds the instance free,    *)
(* or the GUI gives up.                                                     *)
OpenGui(g) ==
  /\ gui[g] = "closed"
  /\ main # "off"
  /\ pipe = "listening"
  /\ pipe' = g
  /\ link' = [link EXCEPT ![g] = "up"]
  /\ gui' = [gui EXCEPT ![g] = "idle"]
  /\ UNCHANGED <<store, config, service, thread, inbox, reply, heard, calls,
                 done>>

(* The user closes the window, also in the middle of a request (the process *)
(* is ended): the server still reads what was written.                      *)
CloseGui(g) ==
  /\ gui[g] # "closed"
  /\ gui' = [gui EXCEPT ![g] = "closed"]
  /\ link' = [link EXCEPT ![g] = "none"]
  /\ reply' = [reply EXCEPT ![g] = Nothing]
  /\ heard' = [heard EXCEPT ![g] = "nothing"]
  /\ done' = [done EXCEPT ![g] = "no"]
  /\ UNCHANGED <<store, config, service, thread, pipe, inbox, calls>>

(* send_request over a connection that stands, or over a new one.           *)
Send(g) ==
  /\ gui[g] = "idle" /\ calls < MaxCalls
  /\ \/ link[g] = "up" /\ UNCHANGED <<pipe, link>>
     \/ /\ link[g] = "none" /\ pipe = "listening"
        /\ pipe' = g /\ link' = [link EXCEPT ![g] = "up"]
  /\ \E f \in Form :
       inbox' = [inbox EXCEPT ![g] = [payload |-> Encode(f), form |-> f]]
  /\ gui' = [gui EXCEPT ![g] = "waiting"]
  /\ heard' = [heard EXCEPT ![g] = "nothing"]
  /\ done' = [done EXCEPT ![g] = "no"]
  /\ calls' = calls + 1
  /\ UNCHANGED <<store, config, service, thread, reply>>

(* send_request without a connection: connect() fails ("Not connected"), or *)
(* WriteFile meets the broken pipe and the connection is given up.          *)
CannotSend(g) ==
  /\ gui[g] = "idle"
  /\ \/ link[g] = "none" /\ pipe # "listening"
     \/ link[g] = "broken"
  /\ link' = [link EXCEPT ![g] = "none"]
  /\ reply' = [reply EXCEPT ![g] = Nothing]
  /\ heard' = [heard EXCEPT ![g] = "unsent"]
  /\ done' = [done EXCEPT ![g] = "no"]
  /\ UNCHANGED <<store, config, service, thread, pipe, inbox, gui, calls>>

(* ReadFile of send_request returns: the response, or the broken pipe.      *)
Hear(g) ==
  /\ gui[g] = "waiting"
  /\ \/ /\ reply[g] # Nothing
        /\ heard' = [heard EXCEPT ![g] = reply[g]]
        /\ reply' = [reply EXCEPT ![g] = Nothing]
        /\ UNCHANGED link
     \/ /\ reply[g] = Nothing /\ link[g] = "broken"
        /\ heard' = [heard EXCEPT ![g] = "lost"]
        /\ link' = [link EXCEPT ![g] = "none"]
        /\ UNCHANGED reply
  /\ gui' = [gui EXCEPT ![g] = "idle"]
  /\ UNCHANGED <<store, config, service, thread, pipe, inbox, calls, done>>

-----------------------------------------------------------------------------
Init ==
  /\ StoreInit
  /\ config \in [recognizer : Recognizer, auto_update_check : BOOLEAN]
  /\ main = "off" /\ running = FALSE
  /\ srv = "ended" /\ job = NoJob /\ answer = Nothing
  /\ pipe = "none"
  /\ link = [g \in Gui |-> "none"]
  /\ inbox = [g \in Gui |-> Nothing] /\ reply = [g \in Gui |-> Nothing]
  /\ gui = [g \in Gui |-> "closed"]
  /\ heard = [g \in Gui |-> "nothing"] /\ done = [g \in Gui |-> "no"]
  /\ calls = 0

ServerThread ==
  Accept \/ CreatePipe \/ Connected \/ NextRequest \/ ReadRequest \/ Execute
  \/ Respond \/ Bye

Next ==
  \/ ServerThread
  \/ StartService \/ IdleStop \/ ClosePipe \/ JoinServer \/ Killed
  \/ \E g \in Gui : OpenGui(g) \/ CloseGui(g) \/ Send(g) \/ CannotSend(g)
                    \/ Hear(g)

(* The thread runs, and a GUI's ReadFile that can return does.              *)
Fairness ==
  /\ WF_vars(ServerThread)
  /\ WF_vars(~InPipeCall /\ ClosePipe)
  /\ WF_vars(JoinServer)
  /\ \A g \in Gui : WF_vars(Hear(g))

Spec == Init /\ [][Next]_vars /\ Fairness

-----------------------------------------------------------------------------
(* Properties.                                                              *)

Wire == {Nothing} \union [payload : {Encode(f) : f \in Form}, form : Form]

TypeOK ==
  /\ StoreTypeOK
  /\ config \in [recognizer : Recognizer, auto_update_check : BOOLEAN]
  /\ main \in {"off", "run", "close", "join"} /\ running \in BOOLEAN
  /\ srv \in {"top", "create", "listen", "next", "read", "exec", "respond",
              "bye", "ended"}
  /\ pipe \in {"none", "listening"} \union Gui
  /\ main = "off" => srv = "ended" /\ pipe = "none"
  /\ \/ job = NoJob
     \/ job.gui \in Gui /\ job.form \in Form
  /\ answer \in {Nothing, "ok", "refused"}
  /\ link \in [Gui -> {"none", "up", "broken"}]
  /\ inbox \in [Gui -> Wire]
  /\ reply \in [Gui -> {Nothing, "ok", "refused"}]
  /\ gui \in [Gui -> {"closed", "idle", "waiting"}]
  /\ done \in [Gui -> {"no", "done", "refused"}]
  /\ heard \in [Gui -> {"nothing", "ok", "refused", "unsent", "lost"}]
  /\ calls \in 0..MaxCalls

(* What a GUI is told of its request is what became of it: "succeeded" only *)
(* when the tables were changed, "refused" only when they were not,         *)
(* "not sent" only when the service never saw it.  Only a lost connection   *)
(* leaves it open (send_request, handle_client and send_response, whatever  *)
(* stops, kills or restarts of the service happen in between).              *)
AnswerTells ==
  \A g \in Gui :
    /\ heard[g] = "ok" => done[g] = "done"
    /\ heard[g] = "refused" => done[g] = "refused"
    /\ heard[g] = "unsent" => done[g] = "no"

(* A form whose name and password contain no '|' has on the service the     *)
(* effect that the same call has on a backend in the GUI's own process,     *)
(* except that auto_update_check is reset (RemoteBackendService joins the   *)
(* fields, GuiIpcRequestHandler splits them).                               *)
OneField(f) ==
  f.cmd \in {"ADD_USER", "UPDATE_USER"} =>
    Len(f.username) = 1 /\ Len(f.password) = 1

Localised(f) ==
  IF f.cmd = "SAVE_RECOGNIZER_CONFIG"
  THEN [f EXCEPT !.auto_update_check = DefaultAutoUpdate]
  ELSE f

ExecutesAsTyped ==
  (srv = "exec" /\ srv' = "respond" /\ OneField(job.form)) =>
    Perform(answer' = "ok", Localised(job.form))

RemoteIsLocal == [][ExecutesAsTyped]_vars

(* A request returns: the GUI's only thread is not left in ReadFile by a    *)
(* service that stops, is killed or turns to its next client.               *)
CallReturns == \A g \in Gui : gui[g] = "waiting" ~> gui[g] # "waiting"
=============================================================================
