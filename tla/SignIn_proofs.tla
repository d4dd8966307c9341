---------------------------- MODULE SignIn_proofs ----------------------------
(* What holds of every sign-in, for any number of users, sessions and       *)
(* datagrams under way.                                                     *)
EXTENDS SignIn, FiniteSets, SequenceTheorems, FiniteSetTheorems, TLAPS

(* The exchange of the password: whatever carries the number of this        *)
(* session belongs to this session's request                                *)
(* (RequestAndDecryptPasswordFromSU, PasswordSender).                       *)
ExchangeInv ==
  /\ worker # "none" => workers > 0 /\ ~ ready
  /\ worker \in {"listen", "fetched", "written"} =>
       request.session = workers /\ request.user \in Person
  /\ \A i \in 1 .. Len(toService) :
       toService[i].type = "GET_PASSWORD" =>
         /\ toService[i].session <= workers
         /\ (toService[i].session = workers /\ worker # "none") =>
              /\ worker \in {"listen", "fetched", "written"}
              /\ toService[i].hint = request.user
  /\ toWorker # NoReply =>
       /\ worker = "listen" /\ toWorker.user \in Person
       /\ toWorker.session = workers => toWorker.user = request.user

(* On a tile of a user nobody else is named anywhere (the hint of           *)
(* resolve_recognized_username).                                            *)
TileInv ==
  tile # NoOne =>
    /\ username = tile /\ name \in {NoOne, tile}
    /\ hint \in {NoOne, tile}
    /\ scan \in {"started", "scanning"} => hint = tile
    /\ \A i \in 1 .. Len(toCP) : toCP[i].user \in {NoOne, tile}
    /\ \A i \in 1 .. Len(toService) : toService[i].hint = tile
    /\ worker \in {"listen", "fetched", "written"} => request.user = tile

(* Without a tile's user the name asked for is the name submitted, unless   *)
(* it was changed in between (StartFaceRecognitionAsync).                   *)
OwnInv ==
  (tile = NoOne /\ ~ disturbed) =>
    /\ (current /\ worker \in {"listen", "fetched"}) =>
         request.user = IF name # NoOne THEN name ELSE username
    /\ ((worker = "written" \/ ready) /\ password \in Person) =>
         username = password

IInv ==
  /\ TypeOK /\ ExchangeInv /\ TileInv /\ OwnInv
  /\ PasswordOfAsked /\ TileKeepsItsUser /\ ReadyIsAnnounced

(* A queue after something was put at its end or taken from its front       *)
(* (the sockets of the two sides).                                          *)
LEMMA QueueLaws ==
  ASSUME NEW S, NEW q \in Seq(S)
  PROVE  /\ Len(q) \in Nat
         /\ \A e \in S :
              /\ Append(q, e) \in Seq(S)
              /\ Len(Append(q, e)) = Len(q) + 1
              /\ \A i \in 1 .. Len(q) + 1 :
                   Append(q, e)[i] = IF i <= Len(q) THEN q[i] ELSE e
         /\ q # << >> =>
              /\ Tail(q) \in Seq(S) /\ Len(q) > 0
              /\ Len(Tail(q)) = Len(q) - 1
              /\ Head(q) = q[1] /\ q[1] \in S
              /\ \A i \in 1 .. Len(q) - 1 : Tail(q)[i] = q[i + 1]
<1>1. Len(q) \in Nat
  OBVIOUS
<1>2. ASSUME NEW e \in S
      PROVE  /\ Append(q, e) \in Seq(S)
             /\ Len(Append(q, e)) = Len(q) + 1
             /\ \A i \in 1 .. Len(q) + 1 :
                  Append(q, e)[i] = IF i <= Len(q) THEN q[i] ELSE e
  BY AppendProperties
<1>3. ASSUME q # << >>
      PROVE  /\ Tail(q) \in Seq(S) /\ Len(q) > 0
             /\ Len(Tail(q)) = Len(q) - 1
             /\ Head(q) = q[1] /\ q[1] \in S
             /\ \A i \in 1 .. Len(q) - 1 : Tail(q)[i] = q[i + 1]
  BY <1>3, HeadTailProperties
<1> QED
  BY <1>1, <1>2, <1>3

(* A request the worker or a stop task sends (AuthRequestSender).           *)
LEMMA RequestQueued ==
  ASSUME toService \in Seq(Message), Len(toService) <= MaxQueue,
         NEW r \in Message, Request(r)
  PROVE  /\ toService' \in Seq(Message) /\ Len(toService') <= MaxQueue
         /\ \A i \in 1 .. Len(toService') :
              \/ i \in 1 .. Len(toService) /\ toService'[i] = toService[i]
              \/ toService'[i] = r
<1>1. CASE UNCHANGED toService
  BY <1>1
<1>2. CASE Len(toService) < MaxQueue /\ toService' = Append(toService, r)
  BY <1>2, QueueLaws, SignInAssumption
<1> QED
  BY <1>1, <1>2 DEF Request

(* A request the service takes (AuthRequestReceiver::receive_loop).         *)
LEMMA RequestTaken ==
  ASSUME toService \in Seq(Message), Len(toService) <= MaxQueue,
         toService # << >>, toService' = Tail(toService)
  PROVE  /\ toService' \in Seq(Message) /\ Len(toService') <= MaxQueue
         /\ 1 \in 1 .. Len(toService) /\ Head(toService) = toService[1]
         /\ toService[1] \in Message
         /\ \A i \in 1 .. Len(toService') :
              i + 1 \in 1 .. Len(toService) /\ toService'[i] = toService[i + 1]
BY QueueLaws, SignInAssumption

(* A status the credential provider takes (UdpReceiver::receive_loop).       *)
LEMMA StatusTaken ==
  ASSUME toCP \in Seq([status : Statuses, user : Name]), Len(toCP) <= MaxReports,
         toCP # << >>, toCP' = Tail(toCP)
  PROVE  /\ toCP' \in Seq([status : Statuses, user : Name])
         /\ Len(toCP') <= MaxReports
         /\ 1 \in 1 .. Len(toCP) /\ Head(toCP) = toCP[1]
         /\ toCP[1] \in [status : Statuses, user : Name]
         /\ \A i \in 1 .. Len(toCP') :
              i + 1 \in 1 .. Len(toCP) /\ toCP'[i] = toCP[i + 1]
<1> DEFINE S == [status : Statuses, user : Name]
<1>1. /\ toCP \in Seq(S) /\ toCP # << >> /\ toCP' = Tail(toCP)
      /\ Len(toCP) <= MaxReports
  OBVIOUS
<1> HIDE DEF S
<1>2. /\ toCP' \in Seq(S) /\ Len(toCP') <= MaxReports
      /\ 1 \in 1 .. Len(toCP) /\ Head(toCP) = toCP[1] /\ toCP[1] \in S
      /\ \A i \in 1 .. Len(toCP') :
           i + 1 \in 1 .. Len(toCP) /\ toCP'[i] = toCP[i + 1]
  BY <1>1, QueueLaws, SignInAssumption
<1> QED
  BY <1>2 DEF S

(* A status the service sends (StatusSender::send_status).                  *)
LEMMA StatusQueued ==
  ASSUME toCP \in Seq([status : Statuses, user : Name]), Len(toCP) <= MaxReports,
         NEW d \in [status : Statuses, user : Name],
         toCP' \in {toCP, Append(toCP, d)},
         toCP' # toCP => Len(toCP) < MaxReports
  PROVE  /\ toCP' \in Seq([status : Statuses, user : Name])
         /\ Len(toCP') <= MaxReports
         /\ \A i \in 1 .. Len(toCP') :
              \/ i \in 1 .. Len(toCP) /\ toCP'[i] = toCP[i]
              \/ toCP'[i] = d
<1>1. CASE toCP' = toCP
  BY <1>1
<1>2. CASE toCP' = Append(toCP, d) /\ Len(toCP) < MaxReports
  BY <1>2, QueueLaws, SignInAssumption
<1> QED
  BY <1>1, <1>2

(* On a tile, a request in its user's name and a report that names nobody   *)
(* else keep the queues so (pending_username_hint_).                        *)
LEMMA TileRequests ==
  ASSUME TileInv, tile # NoOne, NEW r, r.hint = tile,
         \A i \in 1 .. Len(toService') :
           \/ i \in 1 .. Len(toService) /\ toService'[i] = toService[i]
           \/ toService'[i] = r
  PROVE  \A i \in 1 .. Len(toService') : toService'[i].hint = tile
BY DEF TileInv

LEMMA TileReports ==
  ASSUME TileInv, tile # NoOne, NEW New, \A d \in New : d.user \in {NoOne, tile},
         \A i \in 1 .. Len(toCP') :
           \/ i \in 1 .. Len(toCP) /\ toCP'[i] = toCP[i]
           \/ toCP'[i] \in New
  PROVE  \A i \in 1 .. Len(toCP') : toCP'[i].user \in {NoOne, tile}
BY DEF TileInv

(* The statuses of a CANCEL (stop_fr_process and on_cp_request_received).    *)
LEMMA EndTold ==
  ASSUME toCP \in Seq([status : Statuses, user : Name]), TakeCancel
  PROVE  /\ toCP' \in Seq([status : Statuses, user : Name])
         /\ \A i \in 1 .. Len(toCP') :
              \/ i \in 1 .. Len(toCP) /\ toCP'[i] = toCP[i]
              \/ toCP'[i] \in {Report("FAILED", NoOne), Report("IDLE", NoOne)}
<1> DEFINE S    == [status : Statuses, user : Name]
           ended == Append(toCP, Report("FAILED", NoOne))
           idle  == Report("IDLE", NoOne)
           New  == {Report("FAILED", NoOne), Report("IDLE", NoOne)}
           Told(q) == /\ q \in Seq(S)
                      /\ \A i \in 1 .. Len(q) :
                           \/ i \in 1 .. Len(toCP) /\ q[i] = toCP[i]
                           \/ q[i] \in New
<1>1. New \subseteq S
  BY DEF Report, Statuses, Terminal, Name
<1>2. toCP' \in {toCP, ended, Append(toCP, idle), Append(ended, idle)}
  BY DEF TakeCancel
<1>3. toCP \in Seq(S)
  OBVIOUS
<1>4. Report("FAILED", NoOne) \in New /\ idle \in New
  OBVIOUS
<1> HIDE DEF S, New, idle
<1>5. ASSUME NEW q, Told(q), NEW e \in New
      PROVE  Told(Append(q, e))
  <2>1. e \in S
    BY <1>1
  <2>2. /\ Append(q, e) \in Seq(S) /\ Len(Append(q, e)) = Len(q) + 1
        /\ Len(q) \in Nat
        /\ \A i \in 1 .. Len(q) + 1 :
             Append(q, e)[i] = IF i <= Len(q) THEN q[i] ELSE e
    BY <1>5, <2>1, QueueLaws
  <2> QED
    BY <1>5, <2>2
<1>6. Told(toCP)
  BY <1>3
<1>7. Told(ended) /\ Told(Append(toCP, idle))
  BY <1>4, <1>5, <1>6
<1>8. Told(Append(ended, idle))
  BY <1>4, <1>5, <1>7
<1>9. Told(toCP')
  BY <1>2, <1>6, <1>7, <1>8
<1> QED
  BY <1>9 DEF S, New, idle

-----------------------------------------------------------------------------
(* The invariant of every sign-in.                                         *)
THEOREM SignInInvariant == Spec => []IInv
<1>1. Init => IInv
  <2> SUFFICES ASSUME Init PROVE IInv
    OBVIOUS
  <2> USE SignInAssumption
     DEF Init, EnumerateCredentials, IInv, TypeOK, FlagTypes, WorkerTypes, NetTypes,
         ExchangeInv, TileInv, OwnInv, PasswordOfAsked, TileKeepsItsUser, ReadyIsAnnounced, Name, NoPassword,
         NoRequest, NoReply, Statuses, Terminal
  <2>1. FlagTypes
    OBVIOUS
  <2>2. WorkerTypes
    OBVIOUS
  <2>3. NetTypes
    OBVIOUS
  <2>4. ExchangeInv /\ TileInv
    OBVIOUS
  <2>5. OwnInv /\ PasswordOfAsked /\ TileKeepsItsUser /\ ReadyIsAnnounced
    OBVIOUS
  <2> QED
    BY <2>1, <2>2, <2>3, <2>4, <2>5
<1>2. IInv /\ [Next]_vars => IInv'
  <2> SUFFICES ASSUME IInv, [Next]_vars PROVE IInv'
    OBVIOUS
  <2> USE SignInAssumption
      DEF IInv, TypeOK, FlagTypes, WorkerTypes, NetTypes, ExchangeInv, TileInv, OwnInv, PasswordOfAsked,
          TileKeepsItsUser, ReadyIsAnnounced, InExchange,
          logonUI, credential, session, receiver, net, service,
          Name, NoPassword, NoRequest, NoReply, Statuses, Terminal
  <2>1. CASE SetSelected
    <3> USE <2>1 DEF SetSelected, Missing
    <3>0. workers \in Nat /\ workers' = workers + 1
      OBVIOUS
    <3>1. FlagTypes'
      BY <3>0
    <3>2. WorkerTypes'
      BY <3>0
    <3>3. NetTypes'
      BY <3>0
    <3>4. ExchangeInv'
      <4>1. /\ worker = "none" /\ worker' = "start" /\ ~ ready'
            /\ toService' = toService /\ toWorker' = toWorker
        OBVIOUS
      <4>2. \A i \in 1 .. Len(toService) :
              toService[i].type = "GET_PASSWORD" =>
                toService[i].session <= workers' /\ toService[i].session # workers'
        <5>1. \A i \in 1 .. Len(toService) : toService[i] \in Message
          OBVIOUS
        <5> QED
          BY <3>0, <5>1 DEF Message
      <4>3. workers' > 0 /\ toWorker = NoReply
        BY <3>0
      <4> QED
        BY <4>1, <4>2, <4>3
    <3>5. TileInv'
      BY <3>0
    <3>6. OwnInv'
      BY <3>0
    <3>7. (PasswordOfAsked /\ TileKeepsItsUser /\ ReadyIsAnnounced)'
      BY <3>0
    <3> QED
      BY <3>1, <3>2, <3>3, <3>4, <3>5, <3>6, <3>7
  <2>2. CASE SetDeselected
    <3> USE <2>2 DEF SetDeselected, Missing
    <3> DEFINE r == [type |-> "CANCEL", hint |-> username]
    <3>0. /\ r \in Message
          /\ toService' \in Seq(Message) /\ Len(toService') <= MaxQueue
          /\ \A i \in 1 .. Len(toService') :
               \/ i \in 1 .. Len(toService) /\ toService'[i] = toService[i]
               \/ toService'[i] = r
      <4>1. r \in Message
        BY DEF Message
      <4> QED
        BY <4>1, RequestQueued
    <3>1. FlagTypes'
      BY <3>0
    <3>2. WorkerTypes'
      BY <3>0
    <3>3. NetTypes'
      BY <3>0
    <3>4. ExchangeInv'
      <4>1. /\ worker' = worker /\ workers' = workers /\ ready' = FALSE
            /\ request' = request /\ toWorker' = toWorker
        OBVIOUS
      <4>2. \A i \in 1 .. Len(toService') :
              toService'[i].type = "GET_PASSWORD" =>
                i \in 1 .. Len(toService) /\ toService'[i] = toService[i]
        <5>1. r.type = "CANCEL"
          OBVIOUS
        <5> HIDE DEF r
        <5> QED
          BY ONLY <3>0, <5>1
      <4>3. ExchangeInv
        OBVIOUS
      <4> QED
        BY ONLY <4>1, <4>2, <4>3 DEF ExchangeInv, NoReply
    <3>5. TileInv'
      <4>1. tile # NoOne =>
              \A i \in 1 .. Len(toService') : toService'[i].hint = tile
        <5>1. tile # NoOne => r.hint = tile
          OBVIOUS
        <5>2. TileInv
          OBVIOUS
        <5> HIDE DEF r
        <5> QED
          BY ONLY <3>0, <5>1, <5>2, TileRequests
      <4>2. tile # NoOne =>
              \A i \in 1 .. Len(toCP') : toCP'[i].user \in {NoOne, tile}
        OBVIOUS
      <4>3. tile' = tile /\ (tile # NoOne =>
              /\ username' = tile /\ name' \in {NoOne, tile}
              /\ hint' \in {NoOne, tile}
              /\ scan' \in {"started", "scanning"} => hint' = tile
              /\ worker' \in {"listen", "fetched", "written"} =>
                   request'.user = tile)
        OBVIOUS
      <4> QED
        BY <4>1, <4>2, <4>3
    <3>6. OwnInv'
      BY <3>0
    <3>7. (PasswordOfAsked /\ TileKeepsItsUser /\ ReadyIsAnnounced)'
      BY <3>0
    <3> QED
      BY <3>1, <3>2, <3>3, <3>4, <3>5, <3>6, <3>7
  <2>3. CASE GetCredentialCount
    <3> USE <2>3 DEF GetCredentialCount, Missing
    <3>1. FlagTypes'
      OBVIOUS
    <3>2. WorkerTypes'
      OBVIOUS
    <3>3. NetTypes'
      OBVIOUS
    <3>4. ExchangeInv'
      OBVIOUS
    <3>5. TileInv'
      OBVIOUS
    <3>6. OwnInv'
      OBVIOUS
    <3>7. (PasswordOfAsked /\ TileKeepsItsUser /\ ReadyIsAnnounced)'
      OBVIOUS
    <3> QED
      BY <3>1, <3>2, <3>3, <3>4, <3>5, <3>6, <3>7
  <2>4. CASE Advise
    BY <2>4 DEF Advise, Missing
  <2>5. CASE UnAdvise
    <3> USE <2>5 DEF UnAdvise, Missing
    <3>1. FlagTypes'
      OBVIOUS
    <3>2. WorkerTypes'
      OBVIOUS
    <3>3. NetTypes'
      OBVIOUS
    <3>4. ExchangeInv'
      OBVIOUS
    <3>5. TileInv'
      OBVIOUS
    <3>6. OwnInv'
      OBVIOUS
    <3>7. (PasswordOfAsked /\ TileKeepsItsUser /\ ReadyIsAnnounced)'
      OBVIOUS
    <3> QED
      BY <3>1, <3>2, <3>3, <3>4, <3>5, <3>6, <3>7
  <2>6. ASSUME NEW p \in Typed, TypeName(p)
        PROVE  IInv'
    <3> USE <2>6 DEF TypeName, Missing
    <3>1. FlagTypes'
      OBVIOUS
    <3>2. WorkerTypes'
      OBVIOUS
    <3>3. NetTypes'
      OBVIOUS
    <3>4. ExchangeInv'
      OBVIOUS
    <3>5. TileInv'
      OBVIOUS
    <3>6. OwnInv'
      OBVIOUS
    <3>7. (PasswordOfAsked /\ TileKeepsItsUser /\ ReadyIsAnnounced)'
      OBVIOUS
    <3> QED
      BY <3>1, <3>2, <3>3, <3>4, <3>5, <3>6, <3>7
  <2>7. CASE SendStart
    <3> USE <2>7 DEF SendStart, Missing
    <3> DEFINE r == [type |-> "START", hint |-> username]
    <3>0. /\ r \in Message
          /\ toService' \in Seq(Message) /\ Len(toService') <= MaxQueue
          /\ \A i \in 1 .. Len(toService') :
               \/ i \in 1 .. Len(toService) /\ toService'[i] = toService[i]
               \/ toService'[i] = r
      <4>1. r \in Message
        BY DEF Message
      <4> QED
        BY <4>1, RequestQueued
    <3>1. FlagTypes'
      BY <3>0
    <3>2. WorkerTypes'
      BY <3>0
    <3>3. NetTypes'
      BY <3>0
    <3>4. ExchangeInv'
      <4>1. /\ worker \in {"start", "sent"} /\ worker' = "sent"
            /\ workers' = workers /\ ready' = ready /\ toWorker' = toWorker
        OBVIOUS
      <4>2. \A i \in 1 .. Len(toService') :
              toService'[i].type = "GET_PASSWORD" =>
                i \in 1 .. Len(toService) /\ toService'[i] = toService[i]
        BY <3>0
      <4> QED
        BY <4>1, <4>2
    <3>5. TileInv'
      <4>1. tile # NoOne =>
              \A i \in 1 .. Len(toService') : toService'[i].hint = tile
        <5>1. tile # NoOne => r.hint = tile
          OBVIOUS
        <5>2. TileInv
          OBVIOUS
        <5> HIDE DEF r
        <5> QED
          BY ONLY <3>0, <5>1, <5>2, TileRequests
      <4>2. tile # NoOne =>
              \A i \in 1 .. Len(toCP') : toCP'[i].user \in {NoOne, tile}
        OBVIOUS
      <4>3. tile' = tile /\ (tile # NoOne =>
              /\ username' = tile /\ name' \in {NoOne, tile}
              /\ hint' \in {NoOne, tile}
              /\ scan' \in {"started", "scanning"} => hint' = tile
              /\ worker' \in {"listen", "fetched", "written"} =>
                   request'.user = tile)
        OBVIOUS
      <4> QED
        BY <4>1, <4>2, <4>3
    <3>6. OwnInv'
      BY <3>0
    <3>7. (PasswordOfAsked /\ TileKeepsItsUser /\ ReadyIsAnnounced)'
      BY <3>0
    <3> QED
      BY <3>1, <3>2, <3>3, <3>4, <3>5, <3>6, <3>7
  <2>8. CASE Acknowledged
    BY <2>8 DEF Acknowledged, Missing
  <2>9. CASE GiveUp
    <3> USE <2>9 DEF GiveUp, Missing, WorkerEnds
    <3>1. FlagTypes'
      OBVIOUS
    <3>2. WorkerTypes'
      OBVIOUS
    <3>3. NetTypes'
      OBVIOUS
    <3>4. ExchangeInv'
      OBVIOUS
    <3>5. TileInv'
      OBVIOUS
    <3>6. OwnInv'
      OBVIOUS
    <3>7. (PasswordOfAsked /\ TileKeepsItsUser /\ ReadyIsAnnounced)'
      OBVIOUS
    <3> QED
      BY <3>1, <3>2, <3>3, <3>4, <3>5, <3>6, <3>7
  <2>10. CASE Polled
    <3> USE <2>10 DEF Polled, Missing, WorkerEnds
    <3>1. FlagTypes'
      OBVIOUS
    <3>2. WorkerTypes'
      OBVIOUS
    <3>3. NetTypes'
      OBVIOUS
    <3>4. ExchangeInv'
      OBVIOUS
    <3>5. TileInv'
      OBVIOUS
    <3>6. OwnInv'
      OBVIOUS
    <3>7. (PasswordOfAsked /\ TileKeepsItsUser /\ ReadyIsAnnounced)'
      OBVIOUS
    <3> QED
      BY <3>1, <3>2, <3>3, <3>4, <3>5, <3>6, <3>7
  <2>11. CASE AskPassword
    <3> USE <2>11 DEF AskPassword, Missing
    <3> DEFINE r == [type |-> "GET_PASSWORD", hint |-> request'.user, session |-> workers]
    <3>0. /\ r \in Message
          /\ toService' \in Seq(Message) /\ Len(toService') <= MaxQueue
          /\ \A i \in 1 .. Len(toService') :
               \/ i \in 1 .. Len(toService) /\ toService'[i] = toService[i]
               \/ toService'[i] = r
      <4>1. r \in Message
        BY DEF Message
      <4> QED
        BY <4>1, RequestQueued
    <3>1. FlagTypes'
      BY <3>0
    <3>2. WorkerTypes'
      BY <3>0
    <3>3. NetTypes'
      BY <3>0
    <3>4. ExchangeInv'
      <4>1. /\ worker = "ask" /\ worker' = "listen" /\ workers' = workers
            /\ ready' = ready /\ toWorker' = NoReply
            /\ request'.session = workers /\ request'.user \in Person
        OBVIOUS
      <4>2. \A i \in 1 .. Len(toService) :
              toService[i].type = "GET_PASSWORD" =>
                toService[i].session <= workers /\ toService[i].session # workers
        BY <4>1
      <4>3. r.session = workers /\ r.hint = request'.user /\ workers \in Nat
        OBVIOUS
      <4>4. \A i \in 1 .. Len(toService') :
              toService'[i].type = "GET_PASSWORD" =>
                /\ toService'[i].session <= workers
                /\ toService'[i].session = workers =>
                     toService'[i].hint = request'.user
        BY <3>0, <4>2, <4>3
      <4> QED
        BY <4>1, <4>4
    <3>5. TileInv'
      <4>1. tile # NoOne =>
              \A i \in 1 .. Len(toService') : toService'[i].hint = tile
        <5>1. tile # NoOne => r.hint = tile
          OBVIOUS
        <5>2. TileInv
          OBVIOUS
        <5> HIDE DEF r
        <5> QED
          BY ONLY <3>0, <5>1, <5>2, TileRequests
      <4>2. tile # NoOne =>
              \A i \in 1 .. Len(toCP') : toCP'[i].user \in {NoOne, tile}
        OBVIOUS
      <4>3. tile' = tile /\ (tile # NoOne =>
              /\ username' = tile /\ name' \in {NoOne, tile}
              /\ hint' \in {NoOne, tile}
              /\ scan' \in {"started", "scanning"} => hint' = tile
              /\ worker' \in {"listen", "fetched", "written"} =>
                   request'.user = tile)
        OBVIOUS
      <4> QED
        BY <4>1, <4>2, <4>3
    <3>6. OwnInv'
      BY <3>0
    <3>7. (PasswordOfAsked /\ TileKeepsItsUser /\ ReadyIsAnnounced)'
      BY <3>0
    <3> QED
      BY <3>1, <3>2, <3>3, <3>4, <3>5, <3>6, <3>7
  <2>12. CASE TakeReply
    BY <2>12 DEF TakeReply, Missing, WorkerEnds
  <2>13. CASE ReplyTimesOut
    BY <2>13 DEF ReplyTimesOut, Missing, WorkerEnds
  <2>14. CASE WriteFields
    <3> USE <2>14 DEF WriteFields, FaceUsed
    <3>1. FlagTypes'
      OBVIOUS
    <3>2. WorkerTypes'
      OBVIOUS
    <3>3. NetTypes'
      OBVIOUS
    <3>4. ExchangeInv'
      OBVIOUS
    <3>5. TileInv'
      OBVIOUS
    <3>6. OwnInv'
      OBVIOUS
    <3>7. (PasswordOfAsked /\ TileKeepsItsUser /\ ReadyIsAnnounced)'
      OBVIOUS
    <3> QED
      BY <3>1, <3>2, <3>3, <3>4, <3>5, <3>6, <3>7
  <2>15. CASE OnCredentialReady
    BY <2>15 DEF OnCredentialReady, Missing, WorkerEnds
  <2>16. CASE TakeStart
    <3> USE <2>16 DEF TakeStart, Missing
    <3>0. /\ toService' \in Seq(Message) /\ Len(toService') <= MaxQueue
          /\ 1 \in 1 .. Len(toService) /\ Head(toService) = toService[1]
          /\ toService[1] \in Message
          /\ \A i \in 1 .. Len(toService') :
               i + 1 \in 1 .. Len(toService) /\ toService'[i] = toService[i + 1]
      BY RequestTaken
    <3>8. /\ missed' \in BOOLEAN
          /\ toCP' \in Seq([status : Statuses, user : Name])
          /\ Len(toCP') <= MaxReports
          /\ \A i \in 1 .. Len(toCP') :
               \/ i \in 1 .. Len(toCP) /\ toCP'[i] = toCP[i]
               \/ toCP'[i] \in {Report("RECOGNIZING", NoOne), Report("FAILED", NoOne)}
      <4>1. PICK d \in {Report("RECOGNIZING", NoOne), Report("FAILED", NoOne)} :
              /\ toCP' \in {toCP, Append(toCP, d)}
              /\ toCP' # toCP => Len(toCP) < MaxReports
        BY DEF SendStatus
      <4>2. d \in [status : Statuses, user : Name]
        BY DEF Report
      <4>3. missed' \in BOOLEAN
        BY DEF SendStatus
      <4>4. /\ toCP \in Seq([status : Statuses, user : Name])
            /\ Len(toCP) <= MaxReports
        OBVIOUS
      <4>5. /\ toCP' \in Seq([status : Statuses, user : Name])
            /\ Len(toCP') <= MaxReports
            /\ \A i \in 1 .. Len(toCP') :
                 \/ i \in 1 .. Len(toCP) /\ toCP'[i] = toCP[i]
                 \/ toCP'[i] = d
        BY <4>1, <4>2, <4>4, StatusQueued, Zenon
      <4> QED
        BY <4>3, <4>5, Zenon
    <3>1. FlagTypes'
      BY <3>0, <3>8 DEF Message, Report
    <3>2. WorkerTypes'
      BY <3>0, <3>8 DEF Message, Report
    <3>3. NetTypes'
      BY <3>0, <3>8 DEF Message, Report
    <3>4. ExchangeInv'
      BY <3>0, <3>8 DEF Message, Report
    <3>5. TileInv'
      <4>1. tile # NoOne => hint' = tile
        BY <3>0
      <4>2. tile # NoOne =>
              \A i \in 1 .. Len(toCP') : toCP'[i].user \in {NoOne, tile}
        <5>1. \A d \in {Report("RECOGNIZING", NoOne), Report("FAILED", NoOne)} :
                d.user \in {NoOne, tile}
          BY DEF Report
        <5>2. TileInv
          OBVIOUS
        <5> QED
          BY ONLY <3>8, <5>1, <5>2, TileReports
      <4>3. \A i \in 1 .. Len(toService') :
              i + 1 \in 1 .. Len(toService) /\ toService'[i] = toService[i + 1]
        BY <3>0
      <4> QED
        BY <4>1, <4>2, <4>3
    <3>6. OwnInv'
      BY <3>0, <3>8 DEF Message, Report
    <3>7. (PasswordOfAsked /\ TileKeepsItsUser /\ ReadyIsAnnounced)'
      BY <3>0, <3>8 DEF Message, Report
    <3> QED
      BY <3>1, <3>2, <3>3, <3>4, <3>5, <3>6, <3>7
  <2>17. CASE TakeCancel
    <3> USE <2>17 DEF TakeCancel, Missing
    <3>0. /\ toService' \in Seq(Message) /\ Len(toService') <= MaxQueue
          /\ 1 \in 1 .. Len(toService) /\ Head(toService) = toService[1]
          /\ toService[1] \in Message
          /\ \A i \in 1 .. Len(toService') :
               i + 1 \in 1 .. Len(toService) /\ toService'[i] = toService[i + 1]
      BY RequestTaken
    <3>8. /\ missed' = missed
          /\ toCP' \in Seq([status : Statuses, user : Name])
          /\ Len(toCP') <= MaxReports
          /\ \A i \in 1 .. Len(toCP') :
               \/ i \in 1 .. Len(toCP) /\ toCP'[i] = toCP[i]
               \/ toCP'[i] \in {Report("FAILED", NoOne), Report("IDLE", NoOne)}
      <4>1. toCP \in Seq([status : Statuses, user : Name])
        OBVIOUS
      <4>2. /\ toCP' \in Seq([status : Statuses, user : Name])
            /\ \A i \in 1 .. Len(toCP') :
                 \/ i \in 1 .. Len(toCP) /\ toCP'[i] = toCP[i]
                 \/ toCP'[i] \in {Report("FAILED", NoOne), Report("IDLE", NoOne)}
        BY <4>1, <2>17, EndTold
      <4>3. missed' = missed /\ Len(toCP') <= MaxReports
        OBVIOUS
      <4> QED
        BY <4>2, <4>3
    <3>1. FlagTypes'
      BY <3>0, <3>8 DEF Message, Report
    <3>2. WorkerTypes'
      BY <3>0, <3>8 DEF Message, Report
    <3>3. NetTypes'
      BY <3>0, <3>8 DEF Message, Report
    <3>4. ExchangeInv'
      BY <3>0, <3>8 DEF Message, Report
    <3>5. TileInv'
      <4>1. tile # NoOne =>
              \A i \in 1 .. Len(toService') :
                toService'[i].hint = tile
        BY <3>0
      <4>2. tile # NoOne =>
              \A i \in 1 .. Len(toCP') : toCP'[i].user \in {NoOne, tile}
        <5>1. \A d \in {Report("FAILED", NoOne), Report("IDLE", NoOne)} :
                d.user \in {NoOne, tile}
          BY DEF Report
        <5>2. TileInv
          OBVIOUS
        <5> QED
          BY ONLY <3>8, <5>1, <5>2, TileReports
      <4>3. tile' = tile /\ (tile # NoOne =>
              /\ username' = tile /\ name' \in {NoOne, tile}
              /\ hint' \in {NoOne, tile}
              /\ scan' \in {"started", "scanning"} => hint' = tile
              /\ worker' \in {"listen", "fetched", "written"} =>
                   request'.user = tile)
        OBVIOUS
      <4> QED
        BY <4>1, <4>2, <4>3
    <3>6. OwnInv'
      BY <3>0, <3>8 DEF Message, Report
    <3>7. (PasswordOfAsked /\ TileKeepsItsUser /\ ReadyIsAnnounced)'
      BY <3>0, <3>8 DEF Message, Report
    <3> QED
      BY <3>1, <3>2, <3>3, <3>4, <3>5, <3>6, <3>7
  <2>18. CASE TakeGetPassword
    <3> USE <2>18 DEF TakeGetPassword, Missing
    <3>0. /\ toService' \in Seq(Message) /\ Len(toService') <= MaxQueue
          /\ 1 \in 1 .. Len(toService) /\ Head(toService) = toService[1]
          /\ toService[1] \in Message
          /\ \A i \in 1 .. Len(toService') :
               i + 1 \in 1 .. Len(toService) /\ toService'[i] = toService[i + 1]
      BY RequestTaken
    <3>1. FlagTypes'
      BY <3>0 DEF Message
    <3>2. WorkerTypes'
      BY <3>0 DEF Message
    <3>3. NetTypes'
      BY <3>0 DEF Message
    <3>4. ExchangeInv'
      <4>1. /\ worker' = worker /\ workers' = workers /\ ready' = ready
            /\ request' = request
        OBVIOUS
      <4>2. /\ toService[1].hint \in Person
            /\ toService[1].session = workers /\ worker = "listen" =>
                 toService[1].hint = request.user
        BY <3>0 DEF Message
      <4>3. \/ toWorker' = toWorker
            \/ /\ worker = "listen"
               /\ toWorker'.user = toService[1].hint
               /\ toWorker'.session = toService[1].session
        BY <3>0
      <4>4. toWorker' # NoReply =>
              /\ worker = "listen" /\ toWorker'.user \in Person
              /\ toWorker'.session = workers => toWorker'.user = request.user
        BY <4>2, <4>3
      <4>5. \A i \in 1 .. Len(toService') :
              i + 1 \in 1 .. Len(toService) /\ toService'[i] = toService[i + 1]
        BY <3>0
      <4> QED
        BY <4>1, <4>4, <4>5
    <3>5. TileInv'
      <4>1. tile # NoOne =>
              \A i \in 1 .. Len(toService') :
                toService'[i].hint = tile
        BY <3>0
      <4>2. tile # NoOne =>
              \A i \in 1 .. Len(toCP') : toCP'[i].user \in {NoOne, tile}
        OBVIOUS
      <4>3. tile' = tile /\ (tile # NoOne =>
              /\ username' = tile /\ name' \in {NoOne, tile}
              /\ hint' \in {NoOne, tile}
              /\ scan' \in {"started", "scanning"} => hint' = tile
              /\ worker' \in {"listen", "fetched", "written"} =>
                   request'.user = tile)
        BY <3>0 DEF Message
      <4> QED
        BY <4>1, <4>2, <4>3
    <3>6. OwnInv'
      BY <3>0 DEF Message
    <3>7. (PasswordOfAsked /\ TileKeepsItsUser /\ ReadyIsAnnounced)'
      BY <3>0 DEF Message
    <3> QED
      BY <3>1, <3>2, <3>3, <3>4, <3>5, <3>6, <3>7
  <2>19. ASSUME NEW p \in Person, SeeFace(p)
        PROVE  IInv'
    <3> USE <2>19 DEF SeeFace, Missing
    <3>8. /\ missed' \in BOOLEAN
          /\ toCP' \in Seq([status : Statuses, user : Name])
          /\ Len(toCP') <= MaxReports
          /\ \A i \in 1 .. Len(toCP') :
               \/ i \in 1 .. Len(toCP) /\ toCP'[i] = toCP[i]
               \/ toCP'[i] \in {IF Matches(p) THEN Report("SUCCESS", p) ELSE Report("FAILED", NoOne)}
      <4>1. PICK d \in {IF Matches(p) THEN Report("SUCCESS", p) ELSE Report("FAILED", NoOne)} :
              /\ toCP' \in {toCP, Append(toCP, d)}
              /\ toCP' # toCP => Len(toCP) < MaxReports
        BY DEF SendStatus
      <4>2. d \in [status : Statuses, user : Name]
        BY DEF Report
      <4>3. missed' \in BOOLEAN
        BY DEF SendStatus
      <4>4. /\ toCP \in Seq([status : Statuses, user : Name])
            /\ Len(toCP) <= MaxReports
        OBVIOUS
      <4>5. /\ toCP' \in Seq([status : Statuses, user : Name])
            /\ Len(toCP') <= MaxReports
            /\ \A i \in 1 .. Len(toCP') :
                 \/ i \in 1 .. Len(toCP) /\ toCP'[i] = toCP[i]
                 \/ toCP'[i] = d
        BY <4>1, <4>2, <4>4, StatusQueued, Zenon
      <4> QED
        BY <4>3, <4>5, Zenon
    <3>1. FlagTypes'
      BY <3>8 DEF Matches, Report
    <3>2. WorkerTypes'
      BY <3>8 DEF Matches, Report
    <3>3. NetTypes'
      BY <3>8 DEF Matches, Report
    <3>4. ExchangeInv'
      BY <3>8 DEF Matches, Report
    <3>5. TileInv'
      <4>1. tile # NoOne => (~ Matches(p) \/ p = tile)
        BY DEF Matches
      <4>2. tile # NoOne =>
              \A i \in 1 .. Len(toCP') : toCP'[i].user \in {NoOne, tile}
        BY <3>8, <4>1 DEF Report
      <4> QED
        BY <4>2
    <3>6. OwnInv'
      BY <3>8 DEF Matches, Report
    <3>7. (PasswordOfAsked /\ TileKeepsItsUser /\ ReadyIsAnnounced)'
      BY <3>8 DEF Matches, Report
    <3> QED
      BY <3>1, <3>2, <3>3, <3>4, <3>5, <3>6, <3>7
  <2>25. CASE BeginsToLook
    <3> USE <2>25 DEF BeginsToLook, Missing
    <3>8. /\ missed' \in BOOLEAN
          /\ toCP' \in Seq([status : Statuses, user : Name])
          /\ Len(toCP') <= MaxReports
          /\ \A i \in 1 .. Len(toCP') :
               \/ i \in 1 .. Len(toCP) /\ toCP'[i] = toCP[i]
               \/ toCP'[i] \in {Report("RECOGNIZING", hint)}
      <4>1. PICK d \in {Report("RECOGNIZING", hint)} :
              /\ toCP' \in {toCP, Append(toCP, d)}
              /\ toCP' # toCP => Len(toCP) < MaxReports
        BY DEF SendStatus
      <4>2. d \in [status : Statuses, user : Name]
        BY DEF Report
      <4>3. missed' \in BOOLEAN
        BY DEF SendStatus
      <4>4. /\ toCP \in Seq([status : Statuses, user : Name])
            /\ Len(toCP) <= MaxReports
        OBVIOUS
      <4>5. /\ toCP' \in Seq([status : Statuses, user : Name])
            /\ Len(toCP') <= MaxReports
            /\ \A i \in 1 .. Len(toCP') :
                 \/ i \in 1 .. Len(toCP) /\ toCP'[i] = toCP[i]
                 \/ toCP'[i] = d
        BY <4>1, <4>2, <4>4, StatusQueued, Zenon
      <4> QED
        BY <4>3, <4>5, Zenon
    <3>1. FlagTypes'
      BY <3>8 DEF Report
    <3>2. WorkerTypes'
      BY <3>8 DEF Report
    <3>3. NetTypes'
      BY <3>8 DEF Report
    <3>4. ExchangeInv'
      BY <3>8 DEF Report
    <3>5. TileInv'
      <4>2. tile # NoOne =>
              \A i \in 1 .. Len(toCP') : toCP'[i].user \in {NoOne, tile}
        BY <3>8 DEF Report
      <4> QED
        BY <4>2
    <3>6. OwnInv'
      BY <3>8 DEF Report
    <3>7. (PasswordOfAsked /\ TileKeepsItsUser /\ ReadyIsAnnounced)'
      BY <3>8 DEF Report
    <3> QED
      BY <3>1, <3>2, <3>3, <3>4, <3>5, <3>6, <3>7
  <2>26. CASE CaptureFails
    <3> USE <2>26 DEF CaptureFails, Missing
    <3>8. /\ missed' \in BOOLEAN
          /\ toCP' \in Seq([status : Statuses, user : Name])
          /\ Len(toCP') <= MaxReports
          /\ \A i \in 1 .. Len(toCP') :
               \/ i \in 1 .. Len(toCP) /\ toCP'[i] = toCP[i]
               \/ toCP'[i] \in {Report("FAILED", hint)}
      <4>1. PICK d \in {Report("FAILED", hint)} :
              /\ toCP' \in {toCP, Append(toCP, d)}
              /\ toCP' # toCP => Len(toCP) < MaxReports
        BY DEF SendStatus
      <4>2. d \in [status : Statuses, user : Name]
        BY DEF Report
      <4>3. missed' \in BOOLEAN
        BY DEF SendStatus
      <4>4. /\ toCP \in Seq([status : Statuses, user : Name])
            /\ Len(toCP) <= MaxReports
        OBVIOUS
      <4>5. /\ toCP' \in Seq([status : Statuses, user : Name])
            /\ Len(toCP') <= MaxReports
            /\ \A i \in 1 .. Len(toCP') :
                 \/ i \in 1 .. Len(toCP) /\ toCP'[i] = toCP[i]
                 \/ toCP'[i] = d
        BY <4>1, <4>2, <4>4, StatusQueued, Zenon
      <4> QED
        BY <4>3, <4>5, Zenon
    <3>1. FlagTypes'
      BY <3>8 DEF Report
    <3>2. WorkerTypes'
      BY <3>8 DEF Report
    <3>3. NetTypes'
      BY <3>8 DEF Report
    <3>4. ExchangeInv'
      BY <3>8 DEF Report
    <3>5. TileInv'
      <4>2. tile # NoOne =>
              \A i \in 1 .. Len(toCP') : toCP'[i].user \in {NoOne, tile}
        BY <3>8 DEF Report
      <4> QED
        BY <4>2
    <3>6. OwnInv'
      BY <3>8 DEF Report
    <3>7. (PasswordOfAsked /\ TileKeepsItsUser /\ ReadyIsAnnounced)'
      BY <3>8 DEF Report
    <3> QED
      BY <3>1, <3>2, <3>3, <3>4, <3>5, <3>6, <3>7
  <2>20. CASE ReceiveStatus
    <3> USE <2>20 DEF ReceiveStatus, Missing
    <3>0. /\ toCP[1] \in [status : Statuses, user : Name]
          /\ Head(toCP) = toCP[1] /\ 1 \in 1 .. Len(toCP)
          /\ toCP' \in Seq([status : Statuses, user : Name])
          /\ Len(toCP') <= MaxReports
          /\ \A i \in 1 .. Len(toCP') :
               i + 1 \in 1 .. Len(toCP) /\ toCP'[i] = toCP[i + 1]
      BY StatusTaken
    <3>8. missed' \in BOOLEAN /\ disturbed' \in BOOLEAN
      OBVIOUS
    <3>1. FlagTypes'
      BY <3>0, <3>8
    <3>2. WorkerTypes'
      BY <3>0, <3>8
    <3>3. NetTypes'
      BY <3>0, <3>8
    <3>4. ExchangeInv'
      BY <3>0, <3>8
    <3>5. TileInv'
      <4>1. tile # NoOne =>
              \A i \in 1 .. Len(toService') :
                toService'[i].hint = tile
        OBVIOUS
      <4>2. tile # NoOne =>
              \A i \in 1 .. Len(toCP') : toCP'[i].user \in {NoOne, tile}
        BY <3>0
      <4>3. tile' = tile /\ (tile # NoOne =>
              /\ username' = tile /\ name' \in {NoOne, tile}
              /\ hint' \in {NoOne, tile}
              /\ scan' \in {"started", "scanning"} => hint' = tile
              /\ worker' \in {"listen", "fetched", "written"} =>
                   request'.user = tile)
        BY <3>0
      <4> QED
        BY <4>1, <4>2, <4>3
    <3>6. OwnInv'
      BY <3>0, <3>8
    <3>7. (PasswordOfAsked /\ TileKeepsItsUser /\ ReadyIsAnnounced)'
      BY <3>0, <3>8
    <3> QED
      BY <3>1, <3>2, <3>3, <3>4, <3>5, <3>6, <3>7
  <2>21. CASE RecognizerLeaves
    BY <2>21 DEF RecognizerLeaves, Missing
  <2>22. CASE RecognizerCrashes
    BY <2>22 DEF RecognizerCrashes, Missing
  <2>23. CASE ServiceRestarts
    <3> USE <2>23 DEF ServiceRestarts, Missing
    <3>1. FlagTypes'
      OBVIOUS
    <3>2. WorkerTypes'
      OBVIOUS
    <3>3. NetTypes'
      OBVIOUS
    <3>4. ExchangeInv'
      OBVIOUS
    <3>5. TileInv'
      OBVIOUS
    <3>6. OwnInv'
      OBVIOUS
    <3>7. (PasswordOfAsked /\ TileKeepsItsUser /\ ReadyIsAnnounced)'
      OBVIOUS
    <3> QED
      BY <3>1, <3>2, <3>3, <3>4, <3>5, <3>6, <3>7
  <2>24. CASE UNCHANGED vars
    BY <2>24 DEF vars
  <2> QED
    BY <2>1, <2>2, <2>3, <2>4, <2>5, <2>6, <2>7, <2>8, <2>9, <2>10, <2>11, <2>12, <2>13, <2>14, <2>15, <2>16, <2>17, <2>18, <2>19, <2>20, <2>21, <2>22, <2>23, <2>24, <2>25, <2>26
       DEF Next, Worker, Service, Recognizer
<1> QED
  BY <1>1, <1>2, PTL DEF Spec

-----------------------------------------------------------------------------
(* What follows from the invariant.                                         *)

(* The variables keep their types, and the worker holds a request and a     *)
(* password exactly where StartFaceRecognitionAsync does.                   *)
THEOREM TypeCorrect == Spec => []TypeOK
<1>1. IInv => TypeOK
  BY DEF IInv
<1> QED
  BY <1>1, SignInInvariant, PTL

(* The password taken is the one of the user it was asked for, whatever     *)
(* replies are late (RequestAndDecryptPasswordFromSU).                      *)
THEOREM ReplyIsOfRequest == Spec => []PasswordOfAsked
<1>1. IInv => PasswordOfAsked
  BY DEF IInv
<1> QED
  BY <1>1, SignInInvariant, PTL

(* A tile is only ever filled with the password of its own user             *)
(* (resolve_recognized_username with the tile's name as hint).              *)
THEOREM NobodyElsesPassword == Spec => []TileKeepsItsUser
<1>1. IInv => TileKeepsItsUser
  BY DEF IInv
<1> QED
  BY <1>1, SignInInvariant, PTL

(* What is submitted fits together, unless a name changed in between        *)
(* (StartFaceRecognitionAsync and GetSerialization).                        *)
THEOREM SubmissionFits == Spec => []SubmitsOwnPassword
<1>1. IInv => SubmitsOwnPassword
  <2> SUFFICES ASSUME IInv, ready, password \in Person, ~ disturbed
               PROVE  Submission.user = password
    BY DEF SubmitsOwnPassword
  <2>1. CASE tile # NoOne
    BY <2>1, SignInAssumption DEF IInv, TileKeepsItsUser, NoPassword, Submission
  <2>2. CASE tile = NoOne
    BY <2>2 DEF IInv, OwnInv, Submission
  <2> QED
    BY <2>1, <2>2
<1> QED
  BY <1>1, SignInInvariant, PTL

(* A ready credential is not left lying (OnCredentialReady against Advise,  *)
(* UnAdvise and GetCredentialCount).                                        *)
THEOREM ReadyIsNoticed == Spec => []ReadyIsAnnounced
<1>1. IInv => ReadyIsAnnounced
  BY DEF IInv
<1> QED
  BY <1>1, SignInInvariant, PTL

-----------------------------------------------------------------------------
(* A face opens one session at most.                                        *)

(* The successes under way to the credential provider (UdpReceiver).        *)
Reports == [status : Statuses, user : Name]
Successes(q) == Cardinality({i \in 1 .. Len(q) : q[i].status = "SUCCESS"})

(* The worker goes by a success, or is about to (WaitForFaceRecognitionResult *)
(* and what follows it up to the fields).                                   *)
Entitled ==
  \/ worker \in {"ask", "listen", "fetched"}
  \/ worker \in {"start", "sent", "wait"} /\ status = "SUCCESS"

(* Every success that may still open something is that of a face of its own *)
(* (on_fr_status_received, UdpReceiver, StartFaceRecognitionAsync).         *)
FaceInv == Successes(toCP) + (IF Entitled THEN 1 ELSE 0) <= faces

(* A queue of statuses with a further one, or without its first, has        *)
(* accordingly many successes.                                              *)
LEMMA SuccessesLaws ==
  ASSUME NEW q \in Seq(Reports)
  PROVE  /\ Successes(q) \in 0 .. Len(q)
         /\ \A d \in Reports :
              Successes(Append(q, d)) =
                Successes(q) + (IF d.status = "SUCCESS" THEN 1 ELSE 0)
         /\ q # << >> =>
              Successes(Tail(q)) + (IF q[1].status = "SUCCESS" THEN 1 ELSE 0)
                <= Successes(q)
<1> DEFINE At(s) == {i \in 1 .. Len(s) : s[i].status = "SUCCESS"}
<1>1. ASSUME NEW s \in Seq(Reports)
      PROVE  /\ IsFiniteSet(At(s)) /\ Successes(s) = Cardinality(At(s))
             /\ Successes(s) \in 0 .. Len(s)
  <2>1. IsFiniteSet(1 .. Len(s)) /\ Cardinality(1 .. Len(s)) = Len(s)
    <3>1. Len(s) \in Nat /\ Len(s) \in Int /\ 1 \in Int
      OBVIOUS
    <3>2. /\ IsFiniteSet(1 .. Len(s))
          /\ Cardinality(1 .. Len(s)) = IF 1 > Len(s) THEN 0 ELSE Len(s) - 1 + 1
      BY <3>1, FS_Interval, Zenon
    <3> QED
      BY <3>1, <3>2
  <2>2. At(s) \in SUBSET (1 .. Len(s))
    OBVIOUS
  <2>3. IsFiniteSet(At(s)) /\ Cardinality(At(s)) <= Len(s)
    BY <2>1, <2>2, FS_Subset
  <2>4. Cardinality(At(s)) \in Nat
    BY <2>3, FS_CardinalityType
  <2> QED
    BY <2>3, <2>4 DEF Successes
<1>2. ASSUME NEW d \in Reports
      PROVE  Successes(Append(q, d)) =
               Successes(q) + (IF d.status = "SUCCESS" THEN 1 ELSE 0)
  <2>1. /\ Append(q, d) \in Seq(Reports) /\ Len(Append(q, d)) = Len(q) + 1
        /\ Len(q) \in Nat
        /\ \A i \in 1 .. Len(q) + 1 :
             Append(q, d)[i] = IF i <= Len(q) THEN q[i] ELSE d
    BY QueueLaws
  <2>2. At(Append(q, d)) =
          IF d.status = "SUCCESS" THEN At(q) \cup {Len(q) + 1} ELSE At(q)
    BY <2>1
  <2>3. Len(q) + 1 \notin At(q)
    BY <2>1
  <2>5. Successes(Append(q, d)) = Cardinality(At(Append(q, d)))
    BY <1>1, <2>1
  <2>6. Successes(q) = Cardinality(At(q)) /\ Successes(q) \in Nat
    <3>1. Successes(q) = Cardinality(At(q)) /\ Successes(q) \in 0 .. Len(q)
      BY <1>1, Zenon
    <3> QED
      BY <2>1, <3>1
  <2>4. Cardinality(At(q) \cup {Len(q) + 1}) = Cardinality(At(q)) + 1
    BY <1>1, <2>3, FS_AddElement
  <2> HIDE DEF At
  <2> QED
    BY <2>2, <2>4, <2>5, <2>6
<1>3. ASSUME q # << >>
      PROVE  Successes(Tail(q)) + (IF q[1].status = "SUCCESS" THEN 1 ELSE 0)
               <= Successes(q)
  <2>1. /\ Tail(q) \in Seq(Reports) /\ Len(Tail(q)) = Len(q) - 1
        /\ Len(q) \in Nat /\ Len(q) > 0
        /\ \A i \in 1 .. Len(q) - 1 : Tail(q)[i] = q[i + 1]
    BY <1>3, QueueLaws
  <2> DEFINE rest == At(q) \ {1}
             f    == [i \in At(Tail(q)) |-> i + 1]
  <2>2. IsFiniteSet(At(q)) /\ Cardinality(At(q)) \in Nat
    BY <1>1, FS_CardinalityType
  <2>3. /\ IsFiniteSet(rest)
        /\ Cardinality(rest) =
             IF q[1].status = "SUCCESS" THEN Cardinality(At(q)) - 1
                                        ELSE Cardinality(At(q))
    <3>1. 1 \in At(q) <=> q[1].status = "SUCCESS"
      BY <2>1
    <3> HIDE DEF At
    <3> QED
      BY <2>2, <3>1, FS_RemoveElement
  <2>4. f \in Injection(At(Tail(q)), rest)
    <3>1. \A i \in At(Tail(q)) : i \in Nat /\ i + 1 \in rest
      BY <2>1
    <3> HIDE DEF At, rest
    <3> QED
      BY <3>1 DEF Injection, IsInjective
  <2>5. Cardinality(At(Tail(q))) <= Cardinality(rest)
    <3> HIDE DEF At, rest, f
    <3> QED
      BY <2>3, <2>4, FS_Injection
  <2>6. /\ Successes(Tail(q)) = Cardinality(At(Tail(q)))
        /\ Successes(q) = Cardinality(At(q))
    BY <1>1, <2>1, Zenon
  <2>7. Cardinality(At(Tail(q))) \in Nat
    BY <1>1, <2>1, FS_CardinalityType
  <2> HIDE DEF At, rest
  <2> QED
    BY <2>2, <2>3, <2>5, <2>6, <2>7
<1>4. Successes(q) \in 0 .. Len(q)
  BY <1>1, Zenon
<1> QED
  BY <1>2, <1>3, <1>4, Zenon

(* No status that was sent leaves the successes under way more than it adds *)
(* (StatusSender::send_status).                                             *)
LEMMA StatusCounted ==
  ASSUME toCP \in Seq(Reports), NEW d \in Reports, SendStatus(d)
  PROVE  Successes(toCP') <= Successes(toCP)
                             + (IF d.status = "SUCCESS" THEN 1 ELSE 0)
<1>1. toCP' = toCP \/ toCP' = Append(toCP, d)
  BY DEF SendStatus
<1>2. Successes(toCP) \in Nat
  BY SuccessesLaws
<1>3. CASE toCP' = toCP
  BY <1>2, <1>3
<1>4. CASE toCP' = Append(toCP, d)
  <2>1. Successes(Append(toCP, d)) =
          Successes(toCP) + (IF d.status = "SUCCESS" THEN 1 ELSE 0)
    BY SuccessesLaws
  <2> QED
    BY <1>2, <1>4, <2>1
<1> QED
  BY <1>1, <1>3, <1>4

(* No success that may still open something lacks a face of its own, for    *)
(* any number of sessions, people and statuses under way                    *)
(* (on_fr_status_received, UdpReceiver, StartFaceRecognitionAsync).         *)
THEOREM FaceCredit == Spec => []FaceInv
<1>1. Init => FaceInv
  <2> SUFFICES ASSUME Init PROVE FaceInv
    OBVIOUS
  <2>1. {i \in 1 .. Len(toCP) : toCP[i].status = "SUCCESS"} = {}
    BY DEF Init
  <2>2. Successes(toCP) = 0
    BY <2>1, FS_EmptySet DEF Successes
  <2> QED
    BY <2>2 DEF Init, FaceInv, Entitled
<1>2. IInv /\ IInv' /\ FaceInv /\ [Next]_vars => FaceInv'
  <2> SUFFICES ASSUME IInv, IInv', FaceInv, [Next]_vars
               PROVE  FaceInv'
    OBVIOUS
  <2>1. /\ toCP \in Seq(Reports) /\ Len(toCP) <= MaxReports /\ MaxReports \in Nat
        /\ faces \in 0 .. MaxReports + 1 /\ Successes(toCP) \in Nat
    <3>1. /\ toCP \in Seq(Reports) /\ Len(toCP) <= MaxReports
          /\ MaxReports \in Nat /\ faces \in 0 .. MaxReports + 1
      BY SignInAssumption DEF IInv, TypeOK, NetTypes, Reports
    <3> QED
      BY <3>1, SuccessesLaws
  <2>2. toCP' \in Seq(Reports) /\ Len(toCP') <= MaxReports
    BY DEF IInv, TypeOK, NetTypes, Reports
  <2>3. Successes(toCP') \in 0 .. Len(toCP') /\ Len(toCP') \in Nat
    BY <2>2, SuccessesLaws
  <2>4. ASSUME Successes(toCP') <= Successes(toCP), faces' = faces,
               Entitled' => Entitled
        PROVE  FaceInv'
    BY <2>1, <2>3, <2>4 DEF FaceInv
  <2>5. ASSUME UNCHANGED <<toCP, faces>>, Entitled' => Entitled
        PROVE  FaceInv'
    BY <2>1, <2>4, <2>5
  <2>6. ASSUME NEW d \in Reports, SendStatus(d), d.status # "SUCCESS",
               faces' = faces, Entitled' => Entitled
        PROVE  FaceInv'
    <3>1. Successes(toCP') <= Successes(toCP)
      BY <2>1, <2>6, StatusCounted
    <3> QED
      BY <2>4, <2>6, <3>1
  <2> USE DEF logonUI, credential, session, receiver, net, service, Entitled
  <2>7. CASE \/ SetSelected \/ SetDeselected \/ GetCredentialCount
             \/ Advise \/ UnAdvise \/ \E p \in Typed : TypeName(p)
    BY <2>5, <2>7 DEF SetSelected, SetDeselected, GetCredentialCount, Advise,
                      UnAdvise, TypeName
  <2>8. CASE SendStart \/ Acknowledged \/ GiveUp \/ Polled \/ AskPassword
             \/ TakeReply \/ ReplyTimesOut \/ OnCredentialReady
    BY <2>5, <2>8 DEF SendStart, Acknowledged, GiveUp, Polled, AskPassword,
                      TakeReply, ReplyTimesOut, OnCredentialReady, WorkerEnds
  <2>9. CASE WriteFields
    <3>1. /\ Entitled /\ ~ Entitled' /\ toCP' = toCP
          /\ faces' = IF faces = 0 THEN 0 ELSE faces - 1
      BY <2>9 DEF WriteFields, FaceUsed
    <3> QED
      BY <2>1, <3>1 DEF FaceInv
  <2>10. CASE TakeStart
    <3>1. Report("RECOGNIZING", NoOne) \in Reports /\ Report("FAILED", NoOne) \in Reports
      BY DEF Report, Reports, Statuses, Terminal, Name
    <3>2. \E d \in {Report("RECOGNIZING", NoOne), Report("FAILED", NoOne)} :
            toCP' \in {toCP, Append(toCP, d)}
      BY <2>10 DEF TakeStart, SendStatus
    <3>4. /\ Report("RECOGNIZING", NoOne).status # "SUCCESS"
          /\ Report("FAILED", NoOne).status # "SUCCESS"
      BY DEF Report
    <3>3. Successes(toCP') <= Successes(toCP)
      <4>1. PICK d \in {Report("RECOGNIZING", NoOne), Report("FAILED", NoOne)} :
              toCP' \in {toCP, Append(toCP, d)}
        BY <3>2
      <4>2. d \in Reports /\ d.status # "SUCCESS"
        BY <3>1, <3>4, <4>1
      <4>3. Successes(Append(toCP, d)) = Successes(toCP)
        BY <2>1, <4>2, SuccessesLaws
      <4>4. Successes(toCP') = Successes(toCP)
        BY <4>1, <4>3
      <4> QED
        BY <2>1, <4>4
    <3> QED
      BY <2>4, <2>10, <3>3 DEF TakeStart
  <2>11. CASE TakeCancel
    <3> DEFINE ended == Append(toCP, Report("FAILED", NoOne))
               idle  == Report("IDLE", NoOne)
    <3>1. Report("FAILED", NoOne) \in Reports /\ idle \in Reports
      BY DEF Report, Reports, Statuses, Terminal, Name
    <3>2. toCP' \in {toCP, ended, Append(toCP, idle), Append(ended, idle)}
      BY <2>11 DEF TakeCancel
    <3>3. ended \in Seq(Reports) /\ Successes(ended) = Successes(toCP)
      BY <2>1, <3>1, SuccessesLaws, QueueLaws DEF Report
    <3>4. idle.status # "SUCCESS"
      BY DEF Report
    <3> HIDE DEF ended, idle
    <3>5. Successes(toCP') <= Successes(toCP)
      <4>1. Successes(Append(toCP, idle)) = Successes(toCP)
        BY <2>1, <3>1, <3>4, SuccessesLaws
      <4>2. Successes(Append(ended, idle)) = Successes(ended)
        <5>1. Successes(ended) \in Nat
          BY <2>1, <3>3
        <5> QED
          BY <3>1, <3>3, <3>4, <5>1, SuccessesLaws
      <4>3. Successes(toCP') = Successes(toCP)
        BY <3>2, <3>3, <4>1, <4>2, Zenon
      <4> QED
        BY <2>1, <4>3
    <3> QED
      BY <2>4, <2>11, <3>5 DEF TakeCancel
  <2>12. CASE TakeGetPassword
    BY <2>5, <2>12 DEF TakeGetPassword
  <2>13. CASE BeginsToLook
    <3>1. Report("RECOGNIZING", hint) \in Reports
      BY DEF IInv, TypeOK, NetTypes, Report, Reports, Statuses, Terminal
    <3> QED
      BY <2>6, <2>13, <3>1 DEF BeginsToLook, Report
  <2>14. CASE CaptureFails
    <3>1. Report("FAILED", hint) \in Reports
      BY DEF IInv, TypeOK, NetTypes, Report, Reports, Statuses, Terminal
    <3> QED
      BY <2>6, <2>14, <3>1 DEF CaptureFails, Report
  <2>15. ASSUME NEW p \in Person, SeeFace(p)
         PROVE  FaceInv'
    <3>1. CASE Matches(p)
      <4>1. Report("SUCCESS", p) \in Reports /\ SendStatus(Report("SUCCESS", p))
        BY <2>15, <3>1 DEF SeeFace, Report, Reports, Statuses, Terminal, Name
      <4>2. Successes(toCP') <= Successes(toCP) + 1
        BY <2>1, <4>1, StatusCounted DEF Report
      <4>3. tile \in {NoOne, p}
        BY <2>15, <3>1 DEF SeeFace, Matches, IInv, TileInv
      <4>4. /\ faces' = IF faces <= MaxReports THEN faces + 1 ELSE faces
            /\ Entitled' <=> Entitled
        BY <2>15, <3>1, <4>3 DEF SeeFace
      <4> QED
        BY <2>1, <2>2, <2>3, <4>2, <4>4 DEF FaceInv
    <3>2. CASE ~ Matches(p)
      <4>1. /\ Report("FAILED", NoOne) \in Reports
            /\ SendStatus(Report("FAILED", NoOne)) /\ faces' = faces
            /\ Entitled' <=> Entitled
        BY <2>15, <3>2 DEF SeeFace, Report, Reports, Statuses, Terminal, Name
      <4> QED
        BY <2>6, <4>1 DEF Report
    <3> QED
      BY <3>1, <3>2
  <2>16. CASE ReceiveStatus
    <3>1. /\ toCP # << >> /\ toCP' = Tail(toCP) /\ status' = Head(toCP).status
          /\ UNCHANGED <<faces, worker>>
      BY <2>16 DEF ReceiveStatus
    <3>2. Head(toCP) = toCP[1]
      BY <2>1, <3>1, QueueLaws
    <3>3. Successes(toCP') + (IF status' = "SUCCESS" THEN 1 ELSE 0) <= Successes(toCP)
      BY <2>1, <3>1, <3>2, SuccessesLaws
    <3> QED
      BY <2>1, <2>3, <3>1, <3>3 DEF FaceInv
  <2>17. CASE RecognizerLeaves \/ RecognizerCrashes \/ ServiceRestarts
              \/ UNCHANGED vars
    BY <2>5, <2>17 DEF RecognizerLeaves, RecognizerCrashes, ServiceRestarts, vars
  <2> QED
    BY <2>7, <2>8, <2>9, <2>10, <2>11, <2>12, <2>13, <2>14, <2>15, <2>16, <2>17
       DEF Next, Worker, Service, Recognizer
<1> QED
  BY <1>1, <1>2, SignInInvariant, PTL DEF Spec

(* The fields are filled no more often than a face matched (SeeFace's       *)
(* on_fr_status_received against StartFaceRecognitionAsync).                *)
THEOREM OneSessionPerFace == Spec => FaceOpensOnce
<1>1. IInv /\ FaceInv /\ [Next]_vars =>
        [worker' = "written" /\ worker # "written" => faces > 0]_vars
  <2> SUFFICES ASSUME IInv, FaceInv, [Next]_vars,
                      worker' = "written", worker # "written"
               PROVE  faces > 0
    BY DEF vars
  <2>1. WriteFields
    BY DEF Next, Worker, Service, Recognizer, SetSelected, SetDeselected,
           GetCredentialCount, Advise, UnAdvise, TypeName, SendStart,
           Acknowledged, GiveUp, Polled, AskPassword, TakeReply, ReplyTimesOut,
           OnCredentialReady, TakeStart, TakeCancel, TakeGetPassword, SeeFace,
           BeginsToLook, CaptureFails, ReceiveStatus, RecognizerLeaves,
           RecognizerCrashes, ServiceRestarts, WorkerEnds, session, vars
  <2>2. Entitled
    BY <2>1 DEF WriteFields, Entitled
  <2>3. Successes(toCP) \in Nat /\ faces \in Nat
    <3>1. toCP \in Seq(Reports) /\ faces \in Nat
      BY SignInAssumption DEF IInv, TypeOK, NetTypes, Reports
    <3> QED
      BY <3>1, SuccessesLaws
  <2> QED
    BY <2>2, <2>3 DEF FaceInv
<1> QED
  BY <1>1, SignInInvariant, FaceCredit, PTL DEF Spec, FaceOpensOnce
=============================================================================
