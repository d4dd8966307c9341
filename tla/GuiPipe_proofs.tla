--------------------------- MODULE GuiPipe_proofs ----------------------------
(* What holds of the tables and of the answers the GUIs get, for any number *)
(* of GUIs, accounts, faces and calls.                                      *)
EXTENDS GuiPipe, SequenceTheorems, TLAPS

accounts == {Account(id) : id \in DOMAIN users}

(* One operation of the backend keeps the tables consistent (BackendService *)
(* and the constraints of CreateTables).                                    *)
LEMMA OperationKeepsStore ==
  ASSUME StoreInv, NEW ok \in BOOLEAN, NEW f, Perform(ok, f)
  PROVE  StoreInv'
<1> USE DEF StoreInv, store
<1>1. CASE UNCHANGED store
  BY <1>1
<1>2. ASSUME ok, NEW n, NEW p, NEW r, AddUser(ok, n, p, r)
      PROVE  StoreInv'
  <2>1. PICK id \in UserId :
          /\ ~ NameTaken(n, id)
          /\ users' = With(users, id, [username |-> n, password |-> p, remark |-> r])
    BY <1>2 DEF AddUser
  <2>2. DOMAIN users' = DOMAIN users \union {id}
    BY <2>1 DEF With
  <2>3. \A k \in DOMAIN users' :
          users'[k] = IF k = id
                      THEN [username |-> n, password |-> p, remark |-> r]
                      ELSE users[k]
    BY <2>1, <2>2 DEF With
  <2>4. n # Empty /\ p # Empty /\ faces' = faces
    BY <1>2 DEF AddUser
  <2> QED
    BY <2>1, <2>2, <2>3, <2>4 DEF NameTaken
<1>3. ASSUME ok, NEW id, NEW n, NEW p, NEW r, UpdateUser(ok, id, n, p, r)
      PROVE  StoreInv'
  <2>1. /\ id \in DOMAIN users /\ n # Empty /\ ~ NameTaken(n, id)
        /\ faces' = faces
    BY <1>3 DEF UpdateUser
  <2>2. PICK kept :
          /\ kept = IF p = Empty THEN users[id].password ELSE p
          /\ users' = [users EXCEPT ![id] =
                         [username |-> n, password |-> kept, remark |-> r]]
    BY <1>3 DEF UpdateUser
  <2>3. kept # Empty
    BY <2>1, <2>2
  <2>4. DOMAIN users' = DOMAIN users
    BY <2>2
  <2>5. \A k \in DOMAIN users' :
          users'[k] = IF k = id
                      THEN [username |-> n, password |-> kept, remark |-> r]
                      ELSE users[k]
    BY <2>2, <2>4
  <2> QED
    BY <2>1, <2>3, <2>4, <2>5 DEF NameTaken
<1>4. ASSUME ok, NEW id, DeleteUser(ok, id)
      PROVE  StoreInv'
  BY <1>4 DEF DeleteUser, Without, FacesOf
<1>5. ASSUME ok, NEW id, NEW r, AddFace(ok, id, r)
      PROVE  StoreInv'
  <2>1. PICK new \in FaceId :
          faces' = With(faces, new, [user_id |-> id, remark |-> r])
    BY <1>5 DEF AddFace
  <2>2. DOMAIN faces' = DOMAIN faces \union {new}
    BY <2>1 DEF With
  <2>3. \A k \in DOMAIN faces' :
          faces'[k].user_id = IF k = new THEN id ELSE faces[k].user_id
    BY <2>1, <2>2 DEF With
  <2> QED
    BY <1>5, <2>2, <2>3 DEF AddFace
<1>6. ASSUME ok, NEW id, NEW face, DeleteFace(ok, id, face)
      PROVE  StoreInv'
  BY <1>6 DEF DeleteFace, Without
<1>7. CASE ~ ok
  BY <1>1, <1>7 DEF Perform, AddUser, UpdateUser, DeleteUser, AddFace, DeleteFace
<1> QED
  BY <1>1, <1>2, <1>3, <1>4, <1>5, <1>6, <1>7 DEF Perform

(* One operation of the backend is a step of the directory, or none         *)
(* (BackendService and Database together).                                  *)
LEMMA OperationIsDirectoryStep ==
  ASSUME StoreInv, NEW ok \in BOOLEAN, NEW f, Perform(ok, f)
  PROVE  TheDirectory!Next \/ UNCHANGED accounts
<1> USE DEF store
<1>0. \A i, j \in DOMAIN users : Account(i) = Account(j) => i = j
  BY DEF StoreInv, Account
<1>1. CASE UNCHANGED store
  BY <1>1 DEF accounts, Account, FacesOf
<1>2. ASSUME ok, NEW n, NEW p, NEW r, AddUser(ok, n, p, r)
      PROVE  TheDirectory!Next
  <2>1. PICK id \in UserId :
          /\ IsNewId(id, DOMAIN users)
          /\ ~ NameTaken(n, id)
          /\ users' = With(users, id, [username |-> n, password |-> p, remark |-> r])
    BY <1>2 DEF AddUser
  <2>2. id \notin DOMAIN users
    BY <2>1, StoreAssumption DEF IsNewId
  <2>3. DOMAIN users' = DOMAIN users \union {id}
    BY <2>1 DEF With
  <2>4. faces' = faces
    BY <1>2 DEF AddUser
  <2>5. \A k \in DOMAIN users : Account(k)' = Account(k)
    BY <2>1, <2>2, <2>4 DEF With, Account, FacesOf
  <2>6. Account(id)' = [name |-> n, password |-> p, remark |-> r, faces |-> {}]
    <3>1. FacesOf(id)' = {}
      BY <2>2, <2>4 DEF FacesOf, StoreInv
    <3>2. users'[id] = [username |-> n, password |-> p, remark |-> r]
      BY <2>1 DEF With
    <3> QED
      BY <3>1, <3>2 DEF Account
  <2>7. accounts' = accounts \union {Account(id)'}
    BY <2>3, <2>5 DEF accounts
  <2>8. TheDirectory!Add(Account(id)')
    <3>1. \A a \in accounts : a.name # n
      BY <2>1, <2>2 DEF accounts, Account, NameTaken
    <3> QED
      BY <2>6, <2>7, <3>1 DEF TheDirectory!Add, TheDirectory!NameFree, accounts
  <2> QED
    BY <2>7, <2>8 DEF TheDirectory!Next, accounts
<1>3. ASSUME NEW id \in DOMAIN users, DOMAIN users' = DOMAIN users,
             \A k \in DOMAIN users \ {id} : Account(k)' = Account(k)
      PROVE  /\ accounts' = (accounts \ {Account(id)}) \union {Account(id)'}
             /\ Account(id) \in accounts /\ Account(id)' \in accounts'
  BY <1>0, <1>3 DEF accounts
<1>4. ASSUME ok, NEW id, NEW n, NEW p, NEW r, UpdateUser(ok, id, n, p, r)
      PROVE  TheDirectory!Next
  <2>1. /\ id \in DOMAIN users /\ ~ NameTaken(n, id)
        /\ faces' = faces
    BY <1>4 DEF UpdateUser
  <2>2. PICK kept :
          users' = [users EXCEPT ![id] =
                      [username |-> n, password |-> kept, remark |-> r]]
    BY <1>4 DEF UpdateUser
  <2>3. DOMAIN users' = DOMAIN users
    BY <2>2
  <2>4. \A k \in DOMAIN users \ {id} : Account(k)' = Account(k)
    BY <2>1, <2>2 DEF Account, FacesOf
  <2>5. Account(id)'.name = n /\ Account(id)'.faces = Account(id).faces
    BY <2>1, <2>2 DEF Account, FacesOf
  <2>6. \A a \in accounts \ {Account(id)} : a.name # n
    BY <2>1 DEF accounts, Account, NameTaken
  <2>7. TheDirectory!Change(Account(id), Account(id)')
    BY <1>3, <2>1, <2>3, <2>4, <2>5, <2>6
       DEF TheDirectory!Change, TheDirectory!NameFree, accounts
  <2> QED
    BY <1>3, <2>1, <2>3, <2>4, <2>7 DEF TheDirectory!Next, accounts
<1>5. ASSUME ok, NEW id, DeleteUser(ok, id)
      PROVE  TheDirectory!Next
  <2>1. /\ id \in DOMAIN users
        /\ users' = Without(users, {id}) /\ faces' = Without(faces, FacesOf(id))
    BY <1>5 DEF DeleteUser
  <2>2. DOMAIN users' = DOMAIN users \ {id}
    BY <2>1 DEF Without
  <2>3. \A k \in DOMAIN users' : FacesOf(k)' = FacesOf(k)
    BY <2>1, <2>2 DEF Without, FacesOf
  <2>4. \A k \in DOMAIN users' : Account(k)' = Account(k)
    BY <2>1, <2>2, <2>3 DEF Without, Account
  <2>5. accounts' = accounts \ {Account(id)}
    BY <1>0, <2>1, <2>2, <2>4 DEF accounts
  <2> QED
    BY <2>1, <2>5 DEF TheDirectory!Next, TheDirectory!Remove, accounts
<1>6. ASSUME ok, NEW id, NEW r, AddFace(ok, id, r)
      PROVE  TheDirectory!Next
  <2>1. PICK new \in FaceId :
          /\ IsNewId(new, DOMAIN faces)
          /\ faces' = With(faces, new, [user_id |-> id, remark |-> r])
    BY <1>6 DEF AddFace
  <2>2. new \notin DOMAIN faces
    BY <2>1, StoreAssumption DEF IsNewId
  <2>3. id \in DOMAIN users /\ users' = users
    BY <1>6 DEF AddFace
  <2>4. DOMAIN faces' = DOMAIN faces \union {new}
    BY <2>1 DEF With
  <2>5. \A k \in DOMAIN users :
          FacesOf(k)' = IF k = id THEN FacesOf(k) \union {new} ELSE FacesOf(k)
    <3>1. \A x \in DOMAIN faces' :
            faces'[x].user_id = IF x = new THEN id ELSE faces[x].user_id
      BY <2>1, <2>2, <2>4 DEF With
    <3> QED
      BY <2>2, <2>4, <3>1 DEF FacesOf
  <2>6. \A k \in DOMAIN users \ {id} : Account(k)' = Account(k)
    BY <2>3, <2>5 DEF Account
  <2>7. /\ Account(id)' = [Account(id) EXCEPT !.faces = Account(id)'.faces]
        /\ Account(id)'.faces = Account(id).faces \union {new}
    BY <2>3, <2>5 DEF Account
  <2>8. new \in Account(id)'.faces /\ \A a \in accounts : new \notin a.faces
    BY <2>2, <2>7 DEF accounts, Account, FacesOf
  <2>9. TheDirectory!Enrol(Account(id), Account(id)')
    BY <1>3, <2>3, <2>6, <2>7, <2>8 DEF TheDirectory!Enrol, accounts
  <2> QED
    BY <1>3, <2>3, <2>6, <2>9 DEF TheDirectory!Next, accounts
<1>7. ASSUME ok, NEW id, NEW face, DeleteFace(ok, id, face)
      PROVE  TheDirectory!Next
  <2>1. /\ face \in FacesOf(id) /\ users' = users
        /\ faces' = Without(faces, {face})
    BY <1>7 DEF DeleteFace
  <2>2. id \in DOMAIN users
    BY <2>1 DEF FacesOf, StoreInv
  <2>3. \A k \in DOMAIN users :
          FacesOf(k)' = IF k = id THEN FacesOf(k) \ {face} ELSE FacesOf(k)
    BY <2>1 DEF Without, FacesOf
  <2>4. \A k \in DOMAIN users \ {id} : Account(k)' = Account(k)
    BY <2>1, <2>3 DEF Account
  <2>5. /\ Account(id)' = [Account(id) EXCEPT !.faces = Account(id)'.faces]
        /\ Account(id)'.faces = Account(id).faces \ {face}
        /\ face \in Account(id).faces
    BY <2>1, <2>2, <2>3 DEF Account
  <2>6. TheDirectory!Forget(Account(id), Account(id)')
    BY <1>3, <2>1, <2>2, <2>4, <2>5 DEF TheDirectory!Forget, accounts
  <2> QED
    BY <1>3, <2>1, <2>2, <2>4, <2>6 DEF TheDirectory!Next, accounts
<1>8. CASE ~ ok
  BY <1>1, <1>8 DEF Perform, AddUser, UpdateUser, DeleteUser, AddFace, DeleteFace
<1> QED
  BY <1>1, <1>2, <1>4, <1>5, <1>6, <1>7, <1>8 DEF Perform

-----------------------------------------------------------------------------
(* Only Execute touches the tables (GuiIpcRequestHandler::handle).          *)
LEMMA OnlyExecuteWrites ==
  ASSUME [Next]_vars
  PROVE  \/ UNCHANGED store
         \/ \E ok \in BOOLEAN : Perform(ok, Decode(job.payload))
<1> USE DEF vars
<1>1. CASE ServerThread
  BY <1>1 DEF ServerThread, Accept, CreatePipe, Connected, NextRequest,
              ReadRequest, Execute, Respond, Bye
<1>2. CASE StartService \/ IdleStop \/ ClosePipe \/ JoinServer \/ Killed
  BY <1>2 DEF StartService, IdleStop, ClosePipe, JoinServer, Killed
<1>3. ASSUME NEW g \in Gui,
             OpenGui(g) \/ CloseGui(g) \/ Send(g) \/ CannotSend(g) \/ Hear(g)
      PROVE  UNCHANGED store
  BY <1>3 DEF OpenGui, CloseGui, Send, CannotSend, Hear
<1> QED
  BY <1>1, <1>2, <1>3 DEF Next

(* The tables stay consistent, whatever the GUIs ask for and whatever       *)
(* happens to the service (BackendService, Database).                       *)
THEOREM TablesStayConsistent == Spec => []StoreInv
<1>1. Init => StoreInv
  BY DEF Init, StoreInit
<1>2. StoreInv /\ [Next]_vars => StoreInv'
  <2> SUFFICES ASSUME StoreInv, [Next]_vars PROVE StoreInv'
    OBVIOUS
  <2>1. CASE UNCHANGED store
    BY <2>1 DEF StoreInv, store
  <2> QED
    BY <2>1, OnlyExecuteWrites, OperationKeepsStore
<1> QED
  BY <1>1, <1>2, PTL DEF Spec

(* The tables implement the directory of accounts (BackendService and       *)
(* Database together).                                                      *)
THEOREM TablesAreDirectory == Spec => RefinesDirectory
<1>1. Init => TheDirectory!Init
  BY DEF Init, StoreInit, StoreInv, TheDirectory!Init, Account
<1>2. StoreInv /\ [Next]_vars => [TheDirectory!Next]_accounts
  <2> SUFFICES ASSUME StoreInv, [Next]_vars
               PROVE  TheDirectory!Next \/ UNCHANGED accounts
    OBVIOUS
  <2>1. CASE UNCHANGED store
    BY <2>1 DEF store, accounts, Account, FacesOf
  <2> QED
    BY <2>1, OnlyExecuteWrites, OperationIsDirectoryStep
<1> QED
  BY <1>1, <1>2, TablesStayConsistent, PTL
     DEF Spec, RefinesDirectory, TheDirectory!Spec, accounts

-----------------------------------------------------------------------------
(* Where the pipe and the server thread can be (server_loop, stop).         *)
PlaceInv ==
  /\ main = "off" => srv = "ended"
  /\ srv \in {"top", "create", "ended"} => pipe = "none"
  /\ srv \in {"next", "read", "exec", "respond", "bye"} => pipe # "listening"
  /\ \A g \in Gui : link[g] = "up" => pipe = g
  /\ \A g \in Gui : inbox[g] # Nothing => pipe = g

(* A request is in one place at a time: in the pipe, with the thread, or    *)
(* answered, and its answer says what became of it.                         *)
GuiInv ==
  \A g \in Gui :
    /\ gui[g] = "closed" => link[g] = "none"
    /\ gui[g] # "waiting" => reply[g] = Nothing
    /\ gui[g] = "idle" /\ link[g] = "up" => inbox[g] = Nothing
    /\ gui[g] = "waiting" => heard[g] = "nothing"
    /\ reply[g] # Nothing => inbox[g] = Nothing
    /\ reply[g] = "ok" => done[g] = "done"
    /\ reply[g] = "refused" => done[g] = "refused"

JobInv ==
  srv \in {"exec", "respond"} =>
    /\ job.gui \in Gui /\ pipe \in {"none", job.gui}
    /\ reply[job.gui] = Nothing
    /\ srv = "respond" => answer \in {"ok", "refused"}
    /\ (pipe = job.gui /\ link[pipe] = "up") =>
         /\ gui[pipe] = "waiting" /\ inbox[pipe] = Nothing
         /\ srv = "respond" =>
              done[pipe] = IF answer = "ok" THEN "done" ELSE "refused"

TableTypes ==
  /\ link \in [Gui -> {"none", "up", "broken"}]
  /\ DOMAIN inbox = Gui /\ inbox = [g \in Gui |-> inbox[g]]
  /\ reply \in [Gui -> {Nothing, "ok", "refused"}]
  /\ gui \in [Gui -> {"closed", "idle", "waiting"}]
  /\ done \in [Gui -> {"no", "done", "refused"}]
  /\ heard \in [Gui -> {"nothing", "ok", "refused", "unsent", "lost"}]

IInv == TableTypes /\ PlaceInv /\ GuiInv /\ JobInv /\ AnswerTells

(* Thread, pipe and GUIs agree on where a request is (server_loop,          *)
(* send_request).                                                           *)
LEMMA RequestsAreTracked == Spec => []IInv
<1>1. Init => IInv
  BY PipeAssumption
     DEF Init, IInv, TableTypes, PlaceInv, GuiInv, JobInv, AnswerTells
<1>2. IInv /\ [Next]_vars => IInv'
  <2> SUFFICES ASSUME IInv, [Next]_vars PROVE IInv'
    OBVIOUS
  <2> USE PipeAssumption
      DEF IInv, TableTypes, PlaceInv, GuiInv, JobInv, AnswerTells,
          vars, store, service, thread, wires, clients
  <2>1. CASE Accept
    BY <2>1 DEF Accept
  <2>2. CASE CreatePipe
    BY <2>2 DEF CreatePipe
  <2>3. CASE Connected
    BY <2>3 DEF Connected
  <2>4. CASE NextRequest
    BY <2>4 DEF NextRequest
  <2>5. CASE ReadRequest
    BY <2>5 DEF ReadRequest
  <2>6. CASE Execute
    BY <2>6 DEF Execute, Became
  <2>7. CASE Respond
    BY <2>7 DEF Respond
  <2>8. CASE Bye
    BY <2>8 DEF Bye, HangUp
  <2>9. CASE StartService
    BY <2>9 DEF StartService
  <2>10. CASE IdleStop
    BY <2>10 DEF IdleStop
  <2>11. CASE ClosePipe
    BY <2>11 DEF ClosePipe, HangUp
  <2>12. CASE JoinServer
    BY <2>12 DEF JoinServer
  <2>13. CASE Killed
    BY <2>13 DEF Killed, HangUp
  <2>14. ASSUME NEW g \in Gui, OpenGui(g)
        PROVE  IInv'
    BY <2>14 DEF OpenGui
  <2>15. ASSUME NEW g \in Gui, CloseGui(g)
        PROVE  IInv'
    BY <2>15 DEF CloseGui
  <2>16. ASSUME NEW g \in Gui, Send(g)
        PROVE  IInv'
    BY <2>16 DEF Send
  <2>17. ASSUME NEW g \in Gui, CannotSend(g)
        PROVE  IInv'
    BY <2>17 DEF CannotSend
  <2>18. ASSUME NEW g \in Gui, Hear(g)
        PROVE  IInv'
    BY <2>18 DEF Hear
  <2>19. CASE UNCHANGED vars
    BY <2>19
  <2> QED
    BY <2>1, <2>2, <2>3, <2>4, <2>5, <2>6, <2>7, <2>8, <2>9, <2>10, <2>11, <2>12, <2>13, <2>14, <2>15, <2>16, <2>17, <2>18, <2>19
       DEF Next, ServerThread
<1> QED
  BY <1>1, <1>2, PTL DEF Spec

(* What a GUI is told is what became of its request, however many GUIs call *)
(* and whatever stops, kills or restarts there are (send_request,           *)
(* server_loop, GuiIpcRequestHandler::handle).                              *)
THEOREM AnswersAreTrue == Spec => []AnswerTells
<1>1. IInv => AnswerTells
  BY DEF IInv
<1> QED
  BY <1>1, RequestsAreTracked, PTL

-----------------------------------------------------------------------------
(* The fields of a form come out of the handler as they were typed, if none *)
(* but the last contains a '|' (RemoteBackendService joins them,            *)
(* GuiIpcRequestHandler splits them).                                       *)
LEMMA FieldsSurvive ==
  ASSUME NEW f \in Form, OneField(f)
  PROVE  Decode(Encode(f)) = Localised(f)
<1>1. CASE f.cmd \in {"ADD_USER", "UPDATE_USER"}
  <2>0. Empty \in Text
    <3>1. Empty \in Seq(Piece)
      BY StoreAssumption DEF Empty
    <3> QED
      BY <3>1 DEF Text, Empty
  <2>1. /\ f \in [cmd : {"ADD_USER"}, username : Text, password : Text, remark : Text]
                 \union [cmd : {"UPDATE_USER"}, id : UserId, username : Text,
                         password : Text, remark : Text]
        /\ f.username \in Text /\ f.password \in Text /\ f.remark \in Text
    <3>1. Names \subseteq Text /\ Remarks \subseteq Text
          /\ Passwords \union {Empty} \subseteq Text
      BY <2>0, PipeAssumption
    <3>2. CASE f.cmd = "ADD_USER"
      <4>1. f \in [cmd : {"ADD_USER"}, username : Names,
                   password : Passwords, remark : Remarks]
        BY <3>2 DEF Form, Look
      <4> QED
        BY <3>1, <4>1
    <3>3. CASE f.cmd = "UPDATE_USER"
      <4>1. f \in [cmd : {"UPDATE_USER"}, id : UserId, username : Names,
                   password : Passwords \union {Empty}, remark : Remarks]
        BY <3>3 DEF Form, Look
      <4> QED
        BY <3>1, <4>1
    <3> QED
      BY <1>1, <3>2, <3>3
  <2>2. /\ Len(f.username) = 1 /\ Len(f.password) = 1
    BY <1>1 DEF OneField
  <2>3. PICK n, w \in Piece : f.username = <<n>> /\ f.password = <<w>>
    BY <2>1, <2>2 DEF Text
  <2> DEFINE front == <<n>> \o <<w>>
  <2>4. /\ front \in Seq(Piece) /\ Len(front) = 2
        /\ front[1] = n /\ front[2] = w
    <3>1. <<n>> \in Seq(Piece) /\ <<w>> \in Seq(Piece)
      OBVIOUS
    <3> QED
      BY <3>1, ConcatProperties
  <2>5. EncodeUser(f) = front \o f.remark
    BY <2>3, Zenon DEF EncodeUser
  <2>6. f.remark \in Seq(Piece)
    BY <2>1 DEF Text
  <2> HIDE DEF front
  <2>7. /\ Len(front \o f.remark) = 2 + Len(f.remark)
        /\ (front \o f.remark)[1] = n /\ (front \o f.remark)[2] = w
    <3>1. Len(f.remark) \in Nat
      BY <2>6, LenProperties
    <3>2. /\ Len(front \o f.remark) = Len(front) + Len(f.remark)
          /\ \A i \in 1 .. Len(front) + Len(f.remark) :
               (front \o f.remark)[i] =
                 IF i <= Len(front) THEN front[i] ELSE f.remark[i - Len(front)]
      BY <2>4, <2>6, ConcatProperties, Zenon
    <3>3. 1 \in 1 .. 2 + Len(f.remark) /\ 2 \in 1 .. 2 + Len(f.remark)
      BY <3>1
    <3> QED
      BY <2>4, <3>2, <3>3
  <2>8. /\ Username(EncodeUser(f)) = f.username
        /\ Password(EncodeUser(f)) = f.password
    BY <2>3, <2>5, <2>7, Zenon DEF Username, Password
  <2>9. Remark(EncodeUser(f)) = f.remark
    <3>1. Len(f.remark) \in Nat \ {0}
      BY <2>1, <2>6, EmptySeq DEF Text
    <3>2. SubSeq(front \o f.remark, 3, 2 + Len(f.remark))
            = SubSeq(f.remark, 1, Len(f.remark))
      <4>1. /\ 3 \in Len(front) + 1 .. Len(front) + Len(f.remark)
            /\ 2 + Len(f.remark) \in Len(front) + 1 .. Len(front) + Len(f.remark)
            /\ 3 - Len(front) = 1 /\ (2 + Len(f.remark)) - Len(front) = Len(f.remark)
        BY <2>4, <3>1
      <4>2. SubSeq(front \o f.remark, 3, 2 + Len(f.remark))
              = SubSeq(f.remark, 3 - Len(front), (2 + Len(f.remark)) - Len(front))
        BY <2>4, <2>6, <4>1, SubSeqOfConcat2, Zenon
      <4> QED
        BY <4>1, <4>2
    <3>3. SubSeq(f.remark, 1, Len(f.remark)) = f.remark
      BY <2>6, SubSeqFull
    <3> QED
      BY <2>5, <2>7, <3>2, <3>3, Zenon DEF Remark
  <2> QED
    BY <1>1, <2>1, <2>8, <2>9 DEF Decode, Encode, Localised
<1>2. CASE f.cmd = "SAVE_RECOGNIZER_CONFIG"
  BY <1>2 DEF Form, Look, Decode, Encode, Localised
<1>3. CASE f.cmd \notin {"ADD_USER", "UPDATE_USER", "SAVE_RECOGNIZER_CONFIG"}
  BY <1>3 DEF Decode, Encode, Localised
<1> QED
  BY <1>1, <1>2, <1>3

(* Every payload under way is the one its form was encoded to               *)
(* (send_request, handle_client).                                           *)
CodecInv ==
  /\ inbox = [g \in Gui |-> inbox[g]]
  /\ \A g \in Gui : inbox[g] # Nothing =>
       inbox[g].form \in Form /\ inbox[g].payload = Encode(inbox[g].form)
  /\ srv = "exec" => job.form \in Form /\ job.payload = Encode(job.form)

(* A payload under way is not changed, whatever is stopped or killed        *)
(* (send_request, handle_client).                                           *)
LEMMA PayloadsStayEncoded == Spec => []CodecInv
<1>1. Init => CodecInv
  BY DEF Init, CodecInv
<1>2. CodecInv /\ [Next]_vars => CodecInv'
  <2> SUFFICES ASSUME CodecInv, [Next]_vars PROVE CodecInv'
    OBVIOUS
  <2> USE PipeAssumption DEF CodecInv, vars, service, thread, wires, clients
  <2>1. CASE Accept
    BY <2>1 DEF Accept
  <2>2. CASE CreatePipe
    BY <2>2 DEF CreatePipe
  <2>3. CASE Connected
    BY <2>3 DEF Connected
  <2>4. CASE NextRequest
    BY <2>4 DEF NextRequest
  <2>5. CASE ReadRequest
    BY <2>5 DEF ReadRequest
  <2>6. CASE Execute
    BY <2>6 DEF Execute
  <2>7. CASE Respond
    BY <2>7 DEF Respond
  <2>8. CASE Bye
    BY <2>8 DEF Bye, HangUp
  <2>9. CASE StartService
    BY <2>9 DEF StartService
  <2>10. CASE IdleStop
    BY <2>10 DEF IdleStop
  <2>11. CASE ClosePipe
    BY <2>11 DEF ClosePipe, HangUp
  <2>12. CASE JoinServer
    BY <2>12 DEF JoinServer
  <2>13. CASE Killed
    BY <2>13 DEF Killed, HangUp
  <2>14. ASSUME NEW g \in Gui, OpenGui(g)
        PROVE  CodecInv'
    BY <2>14 DEF OpenGui
  <2>15. ASSUME NEW g \in Gui, CloseGui(g)
        PROVE  CodecInv'
    BY <2>15 DEF CloseGui
  <2>16. ASSUME NEW g \in Gui, Send(g)
        PROVE  CodecInv'
    BY <2>16 DEF Send
  <2>17. ASSUME NEW g \in Gui, CannotSend(g)
        PROVE  CodecInv'
    BY <2>17 DEF CannotSend
  <2>18. ASSUME NEW g \in Gui, Hear(g)
        PROVE  CodecInv'
    BY <2>18 DEF Hear
  <2>19. CASE UNCHANGED vars
    BY <2>19
  <2> QED
    BY <2>1, <2>2, <2>3, <2>4, <2>5, <2>6, <2>7, <2>8, <2>9, <2>10, <2>11, <2>12, <2>13, <2>14, <2>15, <2>16, <2>17, <2>18, <2>19
       DEF Next, ServerThread
<1> QED
  BY <1>1, <1>2, PTL DEF Spec

(* The pipe makes no difference to what a form does to the tables and to    *)
(* config.ini, except for auto_update_check (RemoteBackendService,          *)
(* GuiIpcRequestHandler).                                                   *)
THEOREM RemoteActsAsLocal == Spec => RemoteIsLocal
<1>1. CodecInv /\ [Next]_vars => [ExecutesAsTyped]_vars
  <2> SUFFICES ASSUME CodecInv, [Next]_vars, srv = "exec", srv' = "respond",
                      OneField(job.form)
               PROVE  Perform(answer' = "ok", Localised(job.form))
    BY DEF ExecutesAsTyped
  <2>1. Execute
    BY DEF Next, ServerThread, Accept, CreatePipe, Connected, NextRequest,
           ReadRequest, Respond, Bye, StartService, IdleStop, ClosePipe,
           JoinServer, Killed, OpenGui, CloseGui, Send, CannotSend, Hear,
           vars, thread
  <2>2. PICK ok \in BOOLEAN :
          /\ Perform(ok, Decode(job.payload))
          /\ answer' = IF ok THEN "ok" ELSE "refused"
    BY <2>1 DEF Execute
  <2>3. (answer' = "ok") = ok
    BY <2>2
  <2>4. Decode(job.payload) = Localised(job.form)
    BY FieldsSurvive DEF CodecInv
  <2> QED
    BY <2>2, <2>3, <2>4
<1> QED
  BY <1>1, PayloadsStayEncoded, PTL DEF Spec, RemoteIsLocal

-----------------------------------------------------------------------------
(* Types.                                                                   *)

(* What the backend is handed: texts, and a configuration.                  *)
Typed(f) ==
  /\ f.cmd \in {"ADD_USER", "UPDATE_USER"} =>
       f.username \in Text /\ f.password \in Text /\ f.remark \in Text
  /\ f.cmd = "CAPTURE_AND_ADD_FACE" => f.remark \in Text
  /\ f.cmd = "SAVE_RECOGNIZER_CONFIG" =>
       f.recognizer \in Recognizer /\ f.auto_update_check \in BOOLEAN

(* The handler splits the fields of an account into three texts, wherever   *)
(* there is a '|' in them (GuiIpcRequestHandler).                           *)
LEMMA SplitsIntoTexts ==
  ASSUME NEW f \in Form
  PROVE  Typed(Decode(Encode(f)))
<1>1. Empty \in Text
  <2>1. Empty \in Seq(Piece)
    BY StoreAssumption DEF Empty
  <2> QED
    BY <2>1 DEF Text, Empty
<1>2. Names \subseteq Text /\ Remarks \subseteq Text
      /\ Passwords \union {Empty} \subseteq Text
  BY <1>1, PipeAssumption
<1>3. CASE f.cmd \in {"ADD_USER", "UPDATE_USER"}
  <2>1. f.username \in Text /\ f.password \in Text /\ f.remark \in Text
    <3>1. CASE f.cmd = "ADD_USER"
      <4>1. f \in [cmd : {"ADD_USER"}, username : Names,
                   password : Passwords, remark : Remarks]
        BY <3>1 DEF Form, Look
      <4> QED
        BY <1>2, <4>1
    <3>2. CASE f.cmd = "UPDATE_USER"
      <4>1. f \in [cmd : {"UPDATE_USER"}, id : UserId, username : Names,
                   password : Passwords \union {Empty}, remark : Remarks]
        BY <3>2 DEF Form, Look
      <4> QED
        BY <1>2, <4>1
    <3> QED
      BY <1>3, <3>1, <3>2
  <2>2. /\ EncodeUser(f) \in Seq(Piece)
        /\ Len(EncodeUser(f)) \in Nat /\ Len(EncodeUser(f)) >= 3
    <3>1. \A t \in Text : t \in Seq(Piece) /\ Len(t) \in Nat /\ Len(t) >= 1
      BY EmptySeq, LenProperties DEF Text
    <3>2. /\ f.username \o f.password \in Seq(Piece)
          /\ Len(f.username \o f.password) = Len(f.username) + Len(f.password)
      BY <2>1, <3>1, ConcatProperties
    <3>3. /\ EncodeUser(f) \in Seq(Piece)
          /\ Len(EncodeUser(f)) =
               Len(f.username \o f.password) + Len(f.remark)
      BY <2>1, <3>1, <3>2, ConcatProperties DEF EncodeUser
    <3>4. /\ Len(f.username) \in Nat /\ Len(f.username) >= 1
          /\ Len(f.password) \in Nat /\ Len(f.password) >= 1
          /\ Len(f.remark) \in Nat /\ Len(f.remark) >= 1
      BY <2>1, <3>1
    <3>5. Len(EncodeUser(f)) = Len(f.username) + Len(f.password) + Len(f.remark)
      BY <3>2, <3>3
    <3>6. Len(EncodeUser(f)) \in Nat /\ Len(EncodeUser(f)) >= 3
      <4>1. \A a, b, c \in Nat : a >= 1 /\ b >= 1 /\ c >= 1 =>
              a + b + c \in Nat /\ a + b + c >= 3
        OBVIOUS
      <4>2. /\ Len(f.username) + Len(f.password) + Len(f.remark) \in Nat
            /\ Len(f.username) + Len(f.password) + Len(f.remark) >= 3
        BY <3>4, <4>1, Zenon
      <4> QED
        BY <3>5, <4>2, Zenon
    <3> QED
      BY <3>3, <3>6
  <2>3. ASSUME NEW text \in Seq(Piece), Len(text) >= 3
        PROVE  /\ Username(text) \in Text /\ Password(text) \in Text
               /\ Remark(text) \in Text
    <3>1. Len(text) \in Nat
      BY LenProperties
    <3>2. text[1] \in Piece /\ text[2] \in Piece
      BY <2>3, <3>1, ElementOfSeq
    <3>3. Username(text) \in Text /\ Password(text) \in Text
      BY <3>2 DEF Username, Password, Text
    <3>4. /\ SubSeq(text, 3, Len(text)) \in Seq(Piece)
          /\ Len(SubSeq(text, 3, Len(text))) # 0
      BY <2>3, <3>1, SubSeqProperties, ElementOfSeq
    <3> QED
      BY <3>3, <3>4, EmptySeq DEF Remark, Text
  <2>4. /\ Username(EncodeUser(f)) \in Text /\ Password(EncodeUser(f)) \in Text
        /\ Remark(EncodeUser(f)) \in Text
    BY <2>2, <2>3
  <2> QED
    BY <1>3, <2>4 DEF Typed, Decode, Encode
<1>4. CASE f.cmd = "CAPTURE_AND_ADD_FACE"
  BY <1>2, <1>4 DEF Form, Look, Typed, Decode, Encode
<1>5. CASE f.cmd = "SAVE_RECOGNIZER_CONFIG"
  BY <1>5 DEF Form, Look, Typed, Decode, Encode, DefaultAutoUpdate
<1>6. CASE f.cmd \notin {"ADD_USER", "UPDATE_USER", "CAPTURE_AND_ADD_FACE",
                         "SAVE_RECOGNIZER_CONFIG"}
  BY <1>6 DEF Typed, Decode, Encode
<1> QED
  BY <1>3, <1>4, <1>5, <1>6

ConfigTypeOK == config \in [recognizer : Recognizer, auto_update_check : BOOLEAN]

(* One operation of the backend keeps the types (BackendService).           *)
LEMMA OperationKeepsTypes ==
  ASSUME StoreTypeOK, ConfigTypeOK, NEW ok \in BOOLEAN, NEW f, Typed(f),
         Perform(ok, f)
  PROVE  StoreTypeOK' /\ ConfigTypeOK'
<1> DEFINE User == [username : Text, password : Text, remark : Text]
           Face == [user_id : UserId, remark : Text]
<1> USE DEF StoreTypeOK
<1>0. \A id \in UserId : \A row \in User :
        LET new == With(users, id, row)
        IN  /\ DOMAIN new \subseteq UserId
            /\ \A k \in DOMAIN new : new[k] \in User
  BY DEF With
<1>1. \A id \in FaceId : \A row \in Face :
        LET new == With(faces, id, row)
        IN  /\ DOMAIN new \subseteq FaceId
            /\ \A k \in DOMAIN new : new[k] \in Face
  BY DEF With
<1>2. /\ \A ids : LET new == Without(users, ids)
                  IN  /\ DOMAIN new \subseteq UserId
                      /\ \A k \in DOMAIN new : new[k] \in User
      /\ \A ids : LET new == Without(faces, ids)
                  IN  /\ DOMAIN new \subseteq FaceId
                      /\ \A k \in DOMAIN new : new[k] \in Face
  BY DEF Without
<1>3. CASE UNCHANGED store /\ UNCHANGED config
  BY <1>3 DEF store, ConfigTypeOK
<1>4. ASSUME ok, f.cmd = "ADD_USER", UNCHANGED config,
             AddUser(ok, f.username, f.password, f.remark)
      PROVE  StoreTypeOK' /\ ConfigTypeOK'
  <2>1. [username |-> f.username, password |-> f.password,
         remark |-> f.remark] \in User
    BY <1>4 DEF Typed
  <2>2. PICK id \in UserId :
          users' = With(users, id, [username |-> f.username,
                                    password |-> f.password,
                                    remark   |-> f.remark])
    BY <1>4 DEF AddUser
  <2>3. DOMAIN users' \subseteq UserId /\ \A k \in DOMAIN users' : users'[k] \in User
    BY <1>0, <2>1, <2>2
  <2> QED
    BY <1>4, <2>3 DEF AddUser, ConfigTypeOK
<1>5. ASSUME ok, f.cmd = "UPDATE_USER", UNCHANGED config,
             UpdateUser(ok, f.id, f.username, f.password, f.remark)
      PROVE  StoreTypeOK' /\ ConfigTypeOK'
  <2>1. PICK kept :
          /\ kept = IF f.password = Empty THEN users[f.id].password
                                          ELSE f.password
          /\ users' = [users EXCEPT ![f.id] =
                         [username |-> f.username, password |-> kept,
                          remark |-> f.remark]]
    BY <1>5 DEF UpdateUser
  <2>2. f.id \in DOMAIN users /\ faces' = faces
    BY <1>5 DEF UpdateUser
  <2>3. [username |-> f.username, password |-> kept, remark |-> f.remark] \in User
    BY <1>5, <2>1, <2>2 DEF Typed
  <2>4. DOMAIN users' = DOMAIN users /\ \A k \in DOMAIN users' : users'[k] \in User
    BY <2>1, <2>3
  <2> QED
    BY <1>5, <2>2, <2>4 DEF ConfigTypeOK
<1>6. ASSUME ok, UNCHANGED config, DeleteUser(ok, f.id)
      PROVE  StoreTypeOK' /\ ConfigTypeOK'
  <2>1. /\ users' = Without(users, {f.id})
        /\ faces' = Without(faces, FacesOf(f.id))
    BY <1>6 DEF DeleteUser
  <2> QED
    BY <1>2, <1>6, <2>1 DEF ConfigTypeOK
<1>7. ASSUME ok, f.cmd = "CAPTURE_AND_ADD_FACE", UNCHANGED config,
             AddFace(ok, f.id, f.remark)
      PROVE  StoreTypeOK' /\ ConfigTypeOK'
  <2>1. [user_id |-> f.id, remark |-> f.remark] \in Face
    BY <1>7 DEF Typed, AddFace
  <2>2. PICK new \in FaceId :
          faces' = With(faces, new, [user_id |-> f.id, remark |-> f.remark])
    BY <1>7 DEF AddFace
  <2>3. DOMAIN faces' \subseteq FaceId /\ \A k \in DOMAIN faces' : faces'[k] \in Face
    BY <1>1, <2>1, <2>2
  <2> QED
    BY <1>7, <2>3 DEF AddFace, ConfigTypeOK
<1>8. ASSUME ok, UNCHANGED config, DeleteFace(ok, f.id, f.face)
      PROVE  StoreTypeOK' /\ ConfigTypeOK'
  <2>1. faces' = Without(faces, {f.face}) /\ users' = users
    BY <1>8 DEF DeleteFace
  <2> QED
    BY <1>2, <1>8, <2>1 DEF ConfigTypeOK
<1>9. CASE f.cmd = "SAVE_RECOGNIZER_CONFIG" /\ SaveConfig(ok, f) /\ UNCHANGED store
  BY <1>9 DEF SaveConfig, Typed, ConfigTypeOK, store
<1>10. CASE ~ ok
  BY <1>3, <1>9, <1>10
     DEF Perform, AddUser, UpdateUser, DeleteUser, AddFace, DeleteFace
<1> QED
  BY <1>3, <1>4, <1>5, <1>6, <1>7, <1>8, <1>9, <1>10 DEF Perform

(* The pipe, the threads and the GUIs.                                      *)
PipeTypeOK ==
  /\ main \in {"off", "run", "close", "join"} /\ running \in BOOLEAN
  /\ srv \in {"top", "create", "listen", "next", "read", "exec", "respond",
              "bye", "ended"}
  /\ pipe \in {"none", "listening"} \union Gui
  /\ \/ job = NoJob
     \/ job.gui \in Gui /\ job.form \in Form
  /\ answer \in {Nothing, "ok", "refused"}
  /\ link \in [Gui -> {"none", "up", "broken"}]
  /\ inbox \in [Gui -> Wire]
  /\ reply \in [Gui -> {Nothing, "ok", "refused"}]
  /\ gui \in [Gui -> {"closed", "idle", "waiting"}]
  /\ done \in [Gui -> {"no", "done", "refused"}]
  /\ heard \in [Gui -> {"nothing", "ok", "refused", "unsent", "lost"}]
  /\ calls \in 0..MaxCalls

(* What a disconnected pipe leaves behind (DisconnectNamedPipe).            *)
LEMMA HangUpKeepsTypes ==
  ASSUME PipeTypeOK, NEW kept \in BOOLEAN, HangUp(kept)
  PROVE  /\ pipe' \in {"none", "listening"} \union Gui
         /\ link' \in [Gui -> {"none", "up", "broken"}]
         /\ inbox' \in [Gui -> Wire]
         /\ reply' \in [Gui -> {Nothing, "ok", "refused"}]
<1>1. Nothing \in Wire
  BY DEF Wire
<1> QED
  BY <1>1 DEF PipeTypeOK, HangUp

Types == StoreTypeOK /\ ConfigTypeOK /\ PipeTypeOK

(* Every variable has values the code can produce, the tables and what the  *)
(* handler makes of a payload included (Database, GuiIpcRequestHandler).    *)
THEOREM TypeCorrect == Spec => []TypeOK
<1>1. Init => Types
  <2> SUFFICES ASSUME Init PROVE Types
    OBVIOUS
  <2>1. StoreTypeOK /\ ConfigTypeOK
    BY DEF Init, StoreInit, ConfigTypeOK
  <2>2. Nothing \in Wire /\ 0 \in 0..MaxCalls
    BY PipeAssumption DEF Wire
  <2>3. PipeTypeOK
    BY <2>2 DEF Init, PipeTypeOK
  <2> QED
    BY <2>1, <2>3 DEF Types
<1>2. Types /\ CodecInv /\ [Next]_vars => Types'
  <2> SUFFICES ASSUME Types, CodecInv, [Next]_vars PROVE Types'
    OBVIOUS
  <2>1. CASE Execute
    <3>1. job.form \in Form /\ job.payload = Encode(job.form)
      BY <2>1 DEF CodecInv, Execute
    <3>2. PICK ok \in BOOLEAN :
            /\ Perform(ok, Decode(job.payload))
            /\ answer' = IF ok THEN "ok" ELSE "refused"
            /\ done' = Became(ok)
      BY <2>1 DEF Execute
    <3>3. StoreTypeOK' /\ ConfigTypeOK'
      BY <3>1, <3>2, SplitsIntoTexts, OperationKeepsTypes DEF Types
    <3>4. done' \in [Gui -> {"no", "done", "refused"}]
      BY <3>2 DEF Types, PipeTypeOK, Became
    <3>5. PipeTypeOK'
      BY <2>1, <3>2, <3>4
         DEF Types, PipeTypeOK, Execute, service, wires, clients
    <3> QED
      BY <3>3, <3>5 DEF Types
  <2>2. CASE UNCHANGED <<store, config>> /\ PipeTypeOK'
    BY <2>2 DEF Types, StoreTypeOK, ConfigTypeOK, store
  <2>3. CASE Accept
    BY <2>2, <2>3, PipeAssumption
       DEF Types, PipeTypeOK, Accept, service, thread, wires, clients
  <2>4. CASE CreatePipe
    BY <2>2, <2>4, PipeAssumption
       DEF Types, PipeTypeOK, CreatePipe, service, thread, wires, clients
  <2>5. CASE Connected
    BY <2>2, <2>5, PipeAssumption
       DEF Types, PipeTypeOK, Connected, service, thread, wires, clients
  <2>6. CASE NextRequest
    BY <2>2, <2>6, PipeAssumption
       DEF Types, PipeTypeOK, NextRequest, service, thread, wires, clients
  <2>7. CASE ReadRequest
    BY <2>2, <2>7, PipeAssumption
       DEF Types, PipeTypeOK, ReadRequest, Wire, service, thread, wires, clients
  <2>8. CASE Respond
    BY <2>2, <2>8, PipeAssumption
       DEF Types, PipeTypeOK, Respond, service, thread, wires, clients
  <2>9. CASE Bye
    BY <2>2, <2>9, HangUpKeepsTypes
       DEF Types, PipeTypeOK, Bye, service, thread, wires, clients
  <2>10. CASE StartService
    BY <2>2, <2>10, PipeAssumption
       DEF Types, PipeTypeOK, StartService, service, thread, wires, clients
  <2>11. CASE IdleStop
    BY <2>2, <2>11, PipeAssumption
       DEF Types, PipeTypeOK, IdleStop, service, thread, wires, clients
  <2>12. CASE ClosePipe
    BY <2>2, <2>12, HangUpKeepsTypes
       DEF Types, PipeTypeOK, ClosePipe, service, thread, wires, clients
  <2>13. CASE JoinServer
    BY <2>2, <2>13, PipeAssumption
       DEF Types, PipeTypeOK, JoinServer, service, thread, wires, clients
  <2>14. CASE Killed
    BY <2>2, <2>14, HangUpKeepsTypes
       DEF Types, PipeTypeOK, Killed, service, thread, wires, clients
  <2>15. ASSUME NEW g \in Gui, OpenGui(g)
        PROVE  Types'
    BY <2>2, <2>15, PipeAssumption
       DEF Types, PipeTypeOK, OpenGui, service, thread, wires, clients
  <2>16. ASSUME NEW g \in Gui, CloseGui(g)
        PROVE  Types'
    BY <2>2, <2>16, PipeAssumption
       DEF Types, PipeTypeOK, CloseGui, service, thread, wires, clients
  <2>17. ASSUME NEW g \in Gui, Send(g)
        PROVE  Types'
    BY <2>2, <2>17, PipeAssumption
       DEF Types, PipeTypeOK, Send, Wire, service, thread, wires, clients
  <2>18. ASSUME NEW g \in Gui, CannotSend(g)
        PROVE  Types'
    BY <2>2, <2>18, PipeAssumption
       DEF Types, PipeTypeOK, CannotSend, service, thread, wires, clients
  <2>19. ASSUME NEW g \in Gui, Hear(g)
        PROVE  Types'
    BY <2>2, <2>19, PipeAssumption
       DEF Types, PipeTypeOK, Hear, service, thread, wires, clients
  <2>20. CASE UNCHANGED vars
    BY <2>2, <2>20
       DEF Types, PipeTypeOK, vars, service, thread, wires, clients
  <2> QED
    BY <2>1, <2>3, <2>4, <2>5, <2>6, <2>7, <2>8, <2>9, <2>10, <2>11,
       <2>12, <2>13, <2>14, <2>15, <2>16, <2>17, <2>18, <2>19, <2>20
       DEF Next, ServerThread
<1>3. Types /\ IInv => TypeOK
  BY DEF Types, ConfigTypeOK, PipeTypeOK, IInv, PlaceInv, TypeOK
<1> QED
  BY <1>1, <1>2, <1>3, PayloadsStayEncoded, RequestsAreTracked, PTL DEF Spec
=============================================================================
