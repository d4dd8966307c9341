-------------------------- MODULE SUService_proofs --------------------------
(***************************************************************************)
(* What holds of the service however many requests it is sent, recognizers *)
(* it spawns and faces are enrolled.                                       *)
(***************************************************************************)
EXTENDS SUService, FaceMatch_proofs

(* What the database holds makes a query, for every hint and probe         *)
(* (resolve_recognized_username).                                          *)
LEMMA QueryForType ==
  ASSUME NEW hint \in Name, NEW probe \in Feature \cup {NoFeature}
  PROVE  QueryFor(hint, probe) \in Query
BY DatabaseAssumption DEF QueryFor, Query

(* An answer's user is a name (resolve_recognized_username).               *)
LEMMA ResolveType ==
  ASSUME NEW q \in Query
  PROVE  Resolve(q).user \in Name
<1>1. CASE q.probe = NoFeature
  BY <1>1 DEF Resolve, Reject, Name
<1>2. CASE q.probe # NoFeature /\ ~ HasMatch(q)
  <2>1. Resolve(q) = Decide(q, 0, NoName)
    BY <1>2 DEF Resolve
  <2> QED
    BY <2>1 DEF Decide, Reject, Accept, Name
<1>3. CASE q.probe # NoFeature /\ HasMatch(q)
  <2>1. FirstBest(q) \in 1 .. Len(q.faces)
    BY <1>3 DEF HasMatch, FirstBest
  <2>2. q.faces[FirstBest(q)].user \in User
    BY <1>3, <2>1, ScoreType
  <2>3. Resolve(q) = Decide(q, Score(q, FirstBest(q)), q.faces[FirstBest(q)].user)
    BY <1>3 DEF Resolve
  <2> QED
    BY <2>2, <2>3 DEF Decide, Reject, Accept, Name
<1> QED
  BY <1>1, <1>2, <1>3

-----------------------------------------------------------------------------
(* What the threads send is well-formed (StatusSender::send_status).       *)
LEMMA ReplyType ==
  ASSUME TypeOK, NEW status \in Status, NEW user \in Name, Reply(status, user)
  PROVE  sent' \subseteq Datagram \cup PasswordReply
<1>1. ToCP("cp", status, user, served, NoFeature) \in Datagram
  BY DEF TypeOK, ToCP, Datagram
<1> QED
  BY <1>1 DEF TypeOK, Reply

(* The steps of the cp thread keep the types (on_cp_request_received).     *)
LEMMA CpKeepsTypes ==
  ASSUME TypeOK, CpNext
  PROVE  TypeOK'
<1> USE DEF TypeOK, cpVars, frVars, procVars
<1>1. CASE TakeRequest
  <2>1. served + 1 \in 1 .. Len(asked) /\ Len(asked) \in Nat
    BY <1>1 DEF TakeRequest
  <2>2. asked[served + 1] \in Request
    BY <2>1
  <2>3. cp' \in [pc : CpStep, req : Request]
    BY <1>1, <2>2 DEF TakeRequest, CpStep
  <2> QED
    BY <1>1, <2>1, <2>3 DEF TakeRequest
<1>2. CASE StoreHint
  <2>1. cp.req \in Request /\ cp.req.hint \in Name
    BY DEF Request
  <2>2. cp' \in [pc : CpStep, req : Request]
    BY <1>2 DEF StoreHint, Goto, CpStep
  <2> QED
    BY <1>2, <2>1, <2>2 DEF StoreHint
<1>3. CASE Reuse
  BY <1>3 DEF Reuse, Goto, CpStep
<1>4. CASE Spawn
  <2>1. PICK p \in Proc : fr_process' = p /\ Becomes(p, "started")
    BY <1>4 DEF Spawn, Fresh
  <2>2. recognizer' \in [Proc -> {"none", "started", "scanning", "leaving", "gone"}]
    BY <2>1 DEF Becomes
  <2>3. cp' \in [pc : CpStep, req : Request]
    BY <1>4 DEF Spawn, Goto, CpStep
  <2> QED
    BY <1>4, <2>1, <2>2, <2>3 DEF Spawn
<1>5. CASE SpawnFails
  <2>1. sent' \subseteq Datagram \cup PasswordReply
    BY <1>5, ReplyType DEF SpawnFails, Status, Name
  <2> QED
    BY <1>5, <2>1 DEF SpawnFails, Goto, CpStep
<1>6. CASE Begin
  BY <1>6 DEF Begin, Goto, CpStep
<1>7. CASE Acknowledge
  <2>1. sent' \subseteq Datagram \cup PasswordReply
    BY <1>7, ReplyType DEF Acknowledge, Status, Name
  <2> QED
    BY <1>7, <2>1 DEF Acknowledge, Goto, CpStep
<1>8. CASE Cancel
  BY <1>8 DEF Cancel, Goto, CpStep
<1>9. CASE AnnounceEnd
  <2>1. sent' \subseteq Datagram \cup PasswordReply
    BY <1>9, ReplyType DEF AnnounceEnd, Status, Name
  <2> QED
    BY <1>9, <2>1 DEF AnnounceEnd, Goto, CpStep
<1>10. CASE Kill
  BY <1>10 DEF Kill, Becomes, Goto, CpStep
<1>11. CASE ReplyIdle
  <2>1. sent' \subseteq Datagram \cup PasswordReply
    BY <1>11, ReplyType DEF ReplyIdle, Status, Name
  <2> QED
    BY <1>11, <2>1 DEF ReplyIdle, Goto, CpStep
<1>12. CASE Query_Status
  <2>1. LastUser \subseteq Name
    BY DatabaseAssumption DEF LastUser, Result, Name
  <2>2. sent' \subseteq Datagram \cup PasswordReply
    BY <1>12, <2>1, ReplyType DEF Query_Status, Status
  <2> QED
    BY <1>12, <2>2 DEF Query_Status, Goto, CpStep
<1>13. CASE SendPassword
  <2>1. PICK found \in {FALSE, cp.req.hint \in Users} :
          sent' = sent \cup {[by |-> "password", session |-> served,
                              user |-> cp.req.hint, found |-> found]}
    BY <1>13 DEF SendPassword
  <2>2. found \in BOOLEAN
    <3>1. (cp.req.hint \in Users) \in BOOLEAN
      OBVIOUS
    <3> QED
      BY <3>1, Zenon
  <2>3. [by |-> "password", session |-> served, user |-> cp.req.hint,
         found |-> found] \in PasswordReply
    BY <2>2 DEF PasswordReply, Request
  <2> QED
    BY <1>13, <2>1, <2>3 DEF SendPassword, Goto, CpStep
<1> QED
  BY <1>1, <1>2, <1>3, <1>4, <1>5, <1>6, <1>7, <1>8, <1>9, <1>10, <1>11,
     <1>12, <1>13 DEF CpNext

(* What the fr thread reads of the hint, and what the comparison answers   *)
(* to it, are names (on_fr_status_received).                               *)
LEMMA HintReadType ==
  ASSUME TypeOK
  PROVE  HintRead \subseteq Name
BY DatabaseAssumption DEF TypeOK, HintRead, Request, Name

(* The steps of the fr thread keep the types (on_fr_status_received).      *)
LEMMA FrKeepsTypes ==
  ASSUME TypeOK, FrNext
  PROVE  TypeOK'
<1> USE DEF TypeOK, cpVars, frVars, procVars
<1>1. CASE TakeReport
  <2>1. Head(reports) \in Report /\ Tail(reports) \in Seq(Report)
    BY <1>1 DEF TakeReport
  <2>2. /\ Head(reports).feature \in Feature \cup {NoFeature}
        /\ Head(reports).status \in Status
    BY <2>1 DEF Report, Status
  <2>3. FeatureAfter(Head(reports)) \in Feature \cup {NoFeature}
    BY <2>2 DEF FeatureAfter
  <2>4. fr' \in [pc : FrStep, report : Report, final : Status]
    BY <1>1, <2>1, <2>2 DEF TakeReport, FrStep
  <2>5. last_result' \in Result
    BY <1>1 DEF TakeReport, Result, Name
  <2> QED
    BY <1>1, <2>1, <2>3, <2>4, <2>5 DEF TakeReport
<1>2. CASE Match
  <2>1. PICK hint \in HintRead :
          LET user == Resolve(QueryFor(hint, last_recognition_feature)).user IN
          /\ last_result' = [success |-> user # NoName, user |-> user]
          /\ fr' = [fr EXCEPT !.pc = "clear",
                              !.final = IF user # NoName THEN "SUCCESS"
                                        ELSE "RECOGNITION_ERROR"]
    BY <1>2 DEF Match
  <2> DEFINE user == Resolve(QueryFor(hint, last_recognition_feature)).user
  <2>2. user \in Name
    BY HintReadType, QueryForType, ResolveType
  <2>3. last_result' \in Result
    <3>1. (user # NoName) \in BOOLEAN
      OBVIOUS
    <3> HIDE DEF user
    <3>2. last_result' = [success |-> user # NoName, user |-> user]
      BY <2>1 DEF user
    <3> QED
      BY <2>2, <3>1, <3>2 DEF Result
  <2>4. fr' \in [pc : FrStep, report : Report, final : Status]
    BY <2>1 DEF FrStep, Status
  <2> QED
    BY <1>2, <2>3, <2>4 DEF Match
<1>3. CASE PassOn
  <2>1. last_result' \in Result
    BY <1>3, HintReadType DEF PassOn, Result
  <2>2. fr' \in [pc : FrStep, report : Report, final : Status]
    BY <1>3 DEF PassOn, FrStep
  <2> QED
    BY <1>3, <2>1, <2>2 DEF PassOn
<1>4. CASE ClearRunning
  BY <1>4 DEF ClearRunning, FrStep
<1>5. CASE Forward
  <2>1. ToCP("fr", fr.final, last_result.user, current_session_id,
             IF fr.final = "SUCCESS" THEN fr.report.feature ELSE NoFeature)
          \in Datagram
    BY DEF ToCP, Datagram, Result, Report
  <2> QED
    BY <1>5, <2>1 DEF Forward, FrStep
<1> QED
  BY <1>1, <1>2, <1>3, <1>4, <1>5 DEF FrNext

(* A datagram that arrives lengthens the queue by one (Emit, Ask).         *)
LEMMA AppendType ==
  ASSUME NEW S, NEW s \in Seq(S), NEW e \in S
  PROVE  /\ Append(s, e) \in Seq(S)
         /\ Len(s) \in Nat /\ Len(Append(s, e)) = Len(s) + 1
         /\ \A i \in 1 .. Len(s) : Append(s, e)[i] = s[i]
         /\ Append(s, e)[Len(s) + 1] = e
OBVIOUS

(* The recognizers and the requests keep the types (recognizeFace).        *)
LEMMA OutsideKeepsTypes ==
  ASSUME TypeOK, Ask \/ ProcNext
  PROVE  TypeOK'
<1> USE DEF TypeOK, cpVars, frVars, procVars
<1>1. CASE Ask
  <2>1. PICK type \in RequestType, hint \in Name :
          asked' = Append(asked, [type |-> type, hint |-> hint])
    BY <1>1 DEF Ask
  <2>2. [type |-> type, hint |-> hint] \in Request
    BY DEF Request
  <2>3. asked' \in Seq(Request) /\ Len(asked') = Len(asked) + 1
    BY <2>1, <2>2, AppendType
  <2>4. served \in 0 .. Len(asked')
    <3>1. Len(asked) \in Nat
      OBVIOUS
    <3> QED
      BY <1>1, <2>3, <3>1 DEF Ask
  <2>5. UNCHANGED <<cpVars, frVars, procVars, is_running, sent>>
    BY <1>1 DEF Ask
  <2> QED
    BY <2>3, <2>4, <2>5
<1>2. ASSUME NEW p \in Proc, NEW state \in {"scanning", "leaving", "gone"},
             Becomes(p, state)
      PROVE  recognizer' \in
               [Proc -> {"none", "started", "scanning", "leaving", "gone"}]
  BY <1>2 DEF Becomes
<1>3. ASSUME NEW status \in {"RECOGNIZING", "SUCCESS", "TIMEOUT"},
             NEW f \in Feature \cup {NoFeature}, Emit(status, f)
      PROVE  reports' \in Seq(Report)
  <2>1. [status |-> status, feature |-> f] \in Report
    BY DEF Report
  <2>2. Append(reports, [status |-> status, feature |-> f]) \in Seq(Report)
    BY <2>1, AppendType
  <2> QED
    BY <1>3, <2>2 DEF Emit
<1>4. ASSUME NEW p \in Proc, BeginScan(p) PROVE TypeOK'
  BY <1>2, <1>3, <1>4 DEF BeginScan, serviceVars
<1>5. ASSUME NEW p \in Proc, Recognize(p) PROVE TypeOK'
  <2>1. PICK f \in Feature : captured' = captured \cup {f} /\ Emit("SUCCESS", f)
    BY <1>5 DEF Recognize, Extracted
  <2>2. captured' \subseteq Feature
    BY <2>1
  <2>3. reports' \in Seq(Report)
    BY <1>3, <2>1
  <2> QED
    BY <1>2, <1>5, <2>2, <2>3 DEF Recognize, serviceVars
<1>6. ASSUME NEW p \in Proc, GiveUp(p) PROVE TypeOK'
  BY <1>2, <1>3, <1>6 DEF GiveUp, serviceVars
<1>7. ASSUME NEW p \in Proc, Exit(p) PROVE TypeOK'
  BY <1>2, <1>7 DEF Exit, serviceVars
<1> QED
  BY <1>1, <1>4, <1>5, <1>6, <1>7 DEF ProcNext

(* Every variable keeps its type (FaceRecognition).                        *)
THEOREM TypeCorrect == Spec => []TypeOK
<1>1. Init => TypeOK
  <2> SUFFICES ASSUME Init PROVE TypeOK
    OBVIOUS
  <2> USE DEF Init
  <2>1. cp \in [pc : CpStep, req : Request]
    BY DEF CpStep, Request, RequestType, NoRequest, Name
  <2>2. fr \in [pc : FrStep, report : Report, final : Status]
    BY DEF FrStep, Report, NoReport, Status
  <2>3. /\ pending_username_hint \in Name /\ last_result \in Result
        /\ last_recognition_feature \in Feature \cup {NoFeature}
    BY DEF Name, Result
  <2>4. recognizer \in
          [Proc -> {"none", "started", "scanning", "leaving", "gone"}]
    OBVIOUS
  <2>5. /\ asked \in Seq(Request) /\ reports \in Seq(Report)
        /\ served \in 0 .. Len(asked)
    OBVIOUS
  <2> QED
    BY <2>1, <2>2, <2>3, <2>4, <2>5 DEF TypeOK
<1>2. TypeOK /\ [Next]_vars => TypeOK'
  <2>1. TypeOK /\ UNCHANGED vars => TypeOK'
    BY DEF vars, cpVars, frVars, procVars, TypeOK
  <2> QED
    BY <2>1, CpKeepsTypes, FrKeepsTypes, OutsideKeepsTypes DEF Next
<1> QED
  BY <1>1, <1>2, PTL DEF Spec

-----------------------------------------------------------------------------
(* However the threads and the recognizers interleave, at most one         *)
(* recognizer is alive, and the service can reach it                       *)
(* (start_fr_process, stop_fr_process).                                    *)
THEOREM OnlyOneRecognizer == Spec => []OneRecognizer
<1>1. Init => OneRecognizer
  BY DEF Init, OneRecognizer, Alive
<1>2. TypeOK /\ OneRecognizer /\ [Next]_vars => OneRecognizer'
  <2> SUFFICES ASSUME TypeOK, OneRecognizer, [Next]_vars PROVE OneRecognizer'
    OBVIOUS
  <2>0. recognizer \in [Proc -> {"none", "started", "scanning", "leaving", "gone"}]
    BY DEF TypeOK
  <2> USE DEF OneRecognizer, Alive, Becomes, cpVars, frVars, procVars, serviceVars
  <2>1. ASSUME UNCHANGED <<recognizer, fr_process>> PROVE OneRecognizer'
    BY <2>1
  <2>2. CASE Ask \/ FrNext
    BY <2>1, <2>2 DEF Ask, FrNext, TakeReport, Match, PassOn, ClearRunning, Forward
  <2>3. CASE ProcNext
    BY <2>0, <2>3 DEF ProcNext, BeginScan, Recognize, GiveUp, Exit
  <2>4. CASE TakeRequest \/ StoreHint \/ Reuse \/ Begin \/ Acknowledge \/ Cancel
    BY <2>1, <2>4 DEF TakeRequest, StoreHint, Reuse, Begin, Acknowledge, Cancel
  <2>5. CASE AnnounceEnd \/ ReplyIdle \/ SendPassword
    BY <2>1, <2>5 DEF AnnounceEnd, ReplyIdle, SendPassword
  <2>6. CASE Spawn
    <3>1. PICK q \in Proc : fr_process' = q /\ Becomes(q, "started")
      BY <2>6 DEF Spawn, Fresh
    <3>2. \A p \in Proc : ~ Alive(p)
      BY <2>6, ProcAssumption DEF Spawn, Exited
    <3> QED
      BY <2>0, <3>1, <3>2
  <2>7. CASE SpawnFails \/ Query_Status
    BY <2>7, ProcAssumption DEF SpawnFails, Query_Status, Exited
  <2>8. CASE Kill
    BY <2>0, <2>8 DEF Kill
  <2>9. CASE UNCHANGED vars
    BY <2>1, <2>9 DEF vars
  <2> QED
    BY <2>2, <2>3, <2>4, <2>5, <2>6, <2>7, <2>8, <2>9 DEF Next, CpNext
<1> QED
  BY <1>1, <1>2, TypeCorrect, PTL DEF Spec

-----------------------------------------------------------------------------
(* Before the first hint is stored no recognizer has run. *)
Early == served = 0 \/ (served = 1 /\ cp.pc = "hint")

HintInv ==
  /\ served = 0 => cp.pc = "idle"
  /\ Early => /\ reports = << >> /\ fr.pc = "idle"
              /\ \A p \in Proc : recognizer[p] = "none"
  /\ ~ Early => pending_username_hint \in Hints
  /\ cp.pc = "hint" => cp.req.hint \in Hints

(* What a SUCCESS sent to the credential provider rests on. *)
Backed(f, user) ==
  /\ f \in captured
  /\ Matches(QueryFor(user, f), user)
  /\ user \in Hints \/ NoName \in Hints

(* The feature on its way from the recognizer to the comparison and from   *)
(* there to the credential provider stays the one that was extracted.      *)
MatchInv ==
  /\ \A i \in 1 .. Len(reports) :
       reports[i].status = "SUCCESS" => reports[i].feature \in captured
  /\ fr.pc = "resolve" =>
       /\ fr.final = fr.report.status
       /\ fr.final = "SUCCESS" =>
            /\ fr.report.feature \in captured
            /\ last_recognition_feature = fr.report.feature
  /\ fr.pc \in {"clear", "send"} /\ fr.final = "SUCCESS" =>
       Backed(fr.report.feature, last_result.user)
  /\ \A m \in sent :
       m.by = "fr" /\ m.status = "SUCCESS" => Backed(m.probe, m.user)

IInv == HintInv /\ MatchInv

(* The requests that were taken stay as they are (asked, served). *)
LEMMA RequestsStay ==
  ASSUME TypeOK, [Next]_vars, NEW i \in 1 .. served
  PROVE  i \in 1 .. served' /\ asked'[i] = asked[i]
<1>0. asked \in Seq(Request) /\ Len(asked) \in Nat /\ served \in 0 .. Len(asked)
  BY DEF TypeOK
<1>1. CASE Ask
  <2>1. PICK type \in RequestType, hint \in Name :
          asked' = Append(asked, [type |-> type, hint |-> hint])
    BY <1>1 DEF Ask
  <2>2. [type |-> type, hint |-> hint] \in Request
    BY DEF Request
  <2>3. \A j \in 1 .. Len(asked) : asked'[j] = asked[j]
    BY <1>0, <2>1, <2>2, AppendType
  <2>4. served' = served /\ i \in 1 .. Len(asked)
    BY <1>0, <1>1 DEF Ask, cpVars
  <2> QED
    BY <2>3, <2>4
<1>2. CASE TakeRequest
  BY <1>0, <1>2 DEF TakeRequest
<1>3. CASE UNCHANGED <<asked, served>>
  BY <1>3
<1>4. CASE ProcNext \/ FrNext \/ UNCHANGED vars
  BY <1>3, <1>4 DEF ProcNext, BeginScan, Recognize, GiveUp, Exit, serviceVars,
     FrNext, TakeReport, Match, PassOn, ClearRunning, Forward, cpVars, vars
<1>5. CASE CpNext /\ ~ TakeRequest
  BY <1>3, <1>5 DEF CpNext, StoreHint, Reuse, Spawn, SpawnFails, Begin,
     Acknowledge, Cancel, AnnounceEnd, Kill, ReplyIdle, Query_Status,
     SendPassword
<1> QED
  BY <1>1, <1>2, <1>4, <1>5 DEF Next

(* The hints that have been asked for are not forgotten (asked, served).   *)
LEMMA HintsGrow ==
  ASSUME TypeOK, [Next]_vars
  PROVE  Hints \subseteq Hints'
BY RequestsStay DEF Hints

(* Once a recognizer has run, the hint that is read is one that was asked  *)
(* for, or garbage (on_cp_request_received).                               *)
LEMMA HintInvKept ==
  ASSUME TypeOK, TypeOK', HintInv, [Next]_vars
  PROVE  HintInv'
<1>0. served \in Nat /\ Hints \subseteq Hints'
  BY HintsGrow DEF TypeOK
<1> USE DEF HintInv, Early
<1>1. CASE Ask \/ UNCHANGED vars
  BY <1>0, <1>1 DEF Ask, vars, cpVars, frVars, procVars
<1>2. CASE ProcNext
  <2>1. ~ Early
    BY <1>2 DEF ProcNext, BeginScan, Recognize, GiveUp, Exit, Alive
  <2>2. UNCHANGED <<served, cp, pending_username_hint>>
    BY <1>2 DEF ProcNext, BeginScan, Recognize, GiveUp, Exit, serviceVars, cpVars
  <2> QED
    BY <1>0, <2>1, <2>2
<1>3. CASE FrNext
  <2>1. ~ Early
    BY <1>3 DEF FrNext, TakeReport, Match, PassOn, ClearRunning, Forward
  <2>2. UNCHANGED <<served, cp, pending_username_hint>>
    BY <1>3 DEF FrNext, TakeReport, Match, PassOn, ClearRunning, Forward, cpVars
  <2> QED
    BY <1>0, <2>1, <2>2
<1>4. CASE TakeRequest
  <2>1. /\ served' = served + 1 /\ cp' = [pc |-> "hint", req |-> asked[served + 1]]
        /\ cp.pc = "idle" /\ asked' = asked
        /\ UNCHANGED <<pending_username_hint, reports, fr, recognizer>>
    BY <1>4 DEF TakeRequest, frVars, procVars
  <2>2. cp'.pc = "hint" /\ cp'.req.hint \in Hints'
    <3>1. served' \in 1 .. served'
      BY <1>0, <2>1
    <3>2. cp'.req = asked'[served']
      BY <2>1
    <3> QED
      BY <2>1, <3>1, <3>2 DEF Hints
  <2>3. Early' <=> served = 0
    BY <1>0, <2>1, <2>2
  <2>4. Early' <=> Early
    BY <2>1, <2>3
  <2> QED
    BY <1>0, <2>1, <2>2, <2>4
<1>5. CASE StoreHint
  <2>1. cp' = [cp EXCEPT !.pc = cp'.pc] /\ cp'.pc \notin {"idle", "hint"}
    BY <1>5 DEF StoreHint, Goto, TypeOK
  <2>2. pending_username_hint' \in Hints' /\ served' = served /\ served # 0
    BY <1>0, <1>5 DEF StoreHint
  <2> QED
    BY <2>1, <2>2
<1>6. CASE CpNext /\ ~ TakeRequest /\ ~ StoreHint
  <2>1. UNCHANGED <<served, pending_username_hint>>
    BY <1>6 DEF CpNext, Reuse, Spawn, SpawnFails, Begin, Acknowledge, Cancel,
       AnnounceEnd, Kill, ReplyIdle, Query_Status, SendPassword
  <2>2. cp.pc \notin {"idle", "hint"} /\ cp'.pc # "hint"
    BY <1>6 DEF CpNext, Reuse, Spawn, SpawnFails, Begin, Acknowledge, Cancel,
       AnnounceEnd, Kill, ReplyIdle, Query_Status, SendPassword, Goto, TypeOK
  <2>3. ~ Early /\ ~ Early'
    BY <2>1, <2>2
  <2>4. served' # 0
    BY <2>1, <2>2
  <2> QED
    BY <1>0, <2>1, <2>2, <2>3, <2>4
<1> QED
  BY <1>1, <1>2, <1>3, <1>4, <1>5, <1>6 DEF Next

(* A name that the comparison answers is backed by the feature it was      *)
(* given, whatever the fr thread read as the hint                          *)
(* (on_fr_status_received, resolve_recognized_username).                   *)
LEMMA MatchIsBacked ==
  ASSUME TypeOK, HintInv, ~ Early, NEW hint \in HintRead, NEW f \in captured,
         Resolve(QueryFor(hint, f)).user # NoName
  PROVE  Backed(f, Resolve(QueryFor(hint, f)).user)
<1> DEFINE q == QueryFor(hint, f)
           u == Resolve(q).user
<1>1. q \in Query
  BY HintReadType, QueryForType DEF TypeOK
<1>2. /\ hint = NoName \/ (hint = u /\ hint \in Users)
      /\ Matches(q, u)
  BY <1>1, AcceptedHasFace DEF QueryFor
<1>3. hint # Garbled
  BY <1>2, DatabaseAssumption, NoNameAssumption
<1>4. hint \in Hints
  BY <1>3 DEF HintRead, HintInv
<1>5. Matches(QueryFor(u, f), u)
  <2> HIDE DEF u
  <2> QED
    BY <1>2 DEF Matches, Score, QueryFor
<1> QED
  BY <1>2, <1>4, <1>5 DEF Backed

(* What was backed stays backed: extracted features and requested hints    *)
(* are not forgotten (captured, asked).                                    *)
LEMMA BackedStays ==
  ASSUME TypeOK, [Next]_vars, NEW f, NEW user, Backed(f, user)
  PROVE  Backed(f, user)'
<1>1. captured \subseteq captured'
  BY DEF Next, Ask, ProcNext, BeginScan, Recognize, GiveUp, Exit, serviceVars,
     CpNext, TakeRequest, StoreHint, Reuse, Spawn, SpawnFails, Begin,
     Acknowledge, Cancel, AnnounceEnd, Kill, ReplyIdle, Query_Status,
     SendPassword, FrNext, TakeReport, Match, PassOn, ClearRunning, Forward,
     procVars, vars
<1> QED
  BY <1>1, HintsGrow DEF Backed

(* The cp thread never sends a SUCCESS (on_cp_request_received).           *)
LEMMA CpSendsNoSuccess ==
  ASSUME CpNext \/ Ask \/ ProcNext \/ UNCHANGED vars,
         NEW m \in sent', m.by = "fr"
  PROVE  m \in sent
BY DEF CpNext, TakeRequest, StoreHint, Reuse, Spawn, SpawnFails, Begin,
   Acknowledge, Cancel, AnnounceEnd, Kill, ReplyIdle, Query_Status,
   SendPassword, Reply, ToCP, Ask, ProcNext, BeginScan, Recognize, GiveUp,
   Exit, serviceVars, vars

(* A recognizer reports a SUCCESS only about a feature it has extracted    *)
(* (recognizeFace).                                                        *)
LEMMA ProcKeepsReports ==
  ASSUME TypeOK, MatchInv, ProcNext
  PROVE  \A i \in 1 .. Len(reports') :
           reports'[i].status = "SUCCESS" => reports'[i].feature \in captured'
<1>1. ASSUME NEW status, NEW f \in Feature \cup {NoFeature}, Emit(status, f),
             status \in {"RECOGNIZING", "SUCCESS", "TIMEOUT"},
             status = "SUCCESS" => f \in captured', captured \subseteq captured'
      PROVE  \A i \in 1 .. Len(reports') :
               reports'[i].status = "SUCCESS" => reports'[i].feature \in captured'
  <2> DEFINE e == [status |-> status, feature |-> f]
  <2>1. CASE reports' = reports
    BY <1>1, <2>1 DEF MatchInv
  <2>2. CASE reports' = Append(reports, e)
    <3>1. e \in Report /\ reports \in Seq(Report)
      BY <1>1 DEF Report, TypeOK
    <3> HIDE DEF e
    <3>2. /\ Len(reports) \in Nat /\ Len(reports') = Len(reports) + 1
          /\ \A i \in 1 .. Len(reports) : reports'[i] = reports[i]
          /\ reports'[Len(reports) + 1] = e
      BY <2>2, <3>1, AppendType
    <3>3. ASSUME NEW i \in 1 .. Len(reports'), reports'[i].status = "SUCCESS"
          PROVE  reports'[i].feature \in captured'
      <4>1. CASE i \in 1 .. Len(reports)
        BY <1>1, <3>2, <3>3, <4>1 DEF MatchInv
      <4>2. CASE i = Len(reports) + 1
        BY <1>1, <3>2, <3>3, <4>2 DEF e
      <4> QED
        BY <3>2, <4>1, <4>2
    <3> QED
      BY <3>3
  <2> QED
    BY <1>1, <2>1, <2>2 DEF Emit
<1>2. ASSUME NEW p \in Proc, BeginScan(p) \/ GiveUp(p)
      PROVE  \/ Emit("RECOGNIZING", NoFeature) /\ captured' = captured
             \/ Emit("TIMEOUT", NoFeature) /\ captured' = captured
  BY <1>2 DEF BeginScan, GiveUp
<1>3. ASSUME NEW p \in Proc, Recognize(p)
      PROVE  \E f \in Feature : Emit("SUCCESS", f) /\ captured' = captured \cup {f}
  BY <1>3 DEF Recognize, Extracted
<1>4. ASSUME NEW p \in Proc, Exit(p)
      PROVE  reports' = reports /\ captured' = captured
  BY <1>4 DEF Exit
<1>5. CASE \E p \in Proc : BeginScan(p) \/ GiveUp(p)
  BY <1>1, <1>2, <1>5
<1>6. CASE \E p \in Proc : Recognize(p)
  BY <1>1, <1>3, <1>6
<1>7. CASE \E p \in Proc : Exit(p)
  BY <1>4, <1>7 DEF MatchInv
<1> QED
  BY <1>5, <1>6, <1>7 DEF ProcNext

(* The steps of the fr thread keep what a SUCCESS rests on                 *)
(* (on_fr_status_received).                                                *)
LEMMA FrKeepsMatch ==
  ASSUME TypeOK, TypeOK', HintInv, MatchInv, FrNext
  PROVE  MatchInv'
<1>0. /\ captured' = captured /\ [Next]_vars
      /\ fr \in [pc : FrStep, report : Report, final : Status]
      /\ ~ Early
  BY DEF FrNext, TakeReport, Match, PassOn, ClearRunning, Forward, procVars,
     Next, TypeOK, HintInv
<1>1. \A f, user : Backed(f, user) => Backed(f, user)'
  BY <1>0, BackedStays
<1>2. CASE TakeReport
  <2>1. /\ reports # << >> /\ reports' = Tail(reports) /\ reports \in Seq(Report)
        /\ fr' = [pc |-> "resolve", report |-> Head(reports),
                  final |-> Head(reports).status]
        /\ last_recognition_feature' = FeatureAfter(Head(reports))
        /\ sent' = sent
    BY <1>2 DEF TakeReport, TypeOK
  <2>2. /\ Len(reports) \in Nat \ {0} /\ Head(reports) = reports[1]
        /\ Len(reports') = Len(reports) - 1
        /\ \A i \in 1 .. Len(reports') : reports'[i] = reports[i + 1]
    BY <2>1
  <2>3. ASSUME NEW i \in 1 .. Len(reports'), reports'[i].status = "SUCCESS"
        PROVE  reports'[i].feature \in captured
    <3>1. i + 1 \in 1 .. Len(reports) /\ reports'[i] = reports[i + 1]
      BY <2>2
    <3> QED
      BY <2>3, <3>1 DEF MatchInv
  <2>4. ASSUME Head(reports).status = "SUCCESS"
        PROVE  /\ Head(reports).feature \in captured
               /\ FeatureAfter(Head(reports)) = Head(reports).feature
    <3>1. Head(reports).feature \in captured
      BY <2>2, <2>4 DEF MatchInv
    <3> QED
      BY <3>1, FeatureAssumption DEF FeatureAfter, TypeOK
  <2> QED
    BY <1>0, <1>1, <2>1, <2>3, <2>4 DEF MatchInv
<1>3. CASE Match
  <2>1. PICK hint \in HintRead :
          LET user == Resolve(QueryFor(hint, last_recognition_feature)).user IN
          /\ last_result' = [success |-> user # NoName, user |-> user]
          /\ fr' = [fr EXCEPT !.pc = "clear",
                              !.final = IF user # NoName THEN "SUCCESS"
                                        ELSE "RECOGNITION_ERROR"]
    BY <1>3 DEF Match
  <2> DEFINE user == Resolve(QueryFor(hint, last_recognition_feature)).user
  <2>2. /\ fr.report.feature \in captured
        /\ last_recognition_feature = fr.report.feature
    BY <1>3 DEF Match, MatchInv
  <2>3. user # NoName => Backed(fr.report.feature, user)
    BY <1>0, <2>2, MatchIsBacked
  <2> HIDE DEF user
  <2>4. /\ last_result'.user = user
        /\ fr'.pc = "clear" /\ fr'.report = fr.report
        /\ fr'.final = "SUCCESS" => user # NoName
    BY <1>0, <2>1 DEF user
  <2>5. reports' = reports /\ sent' = sent
    BY <1>3 DEF Match, procVars
  <2> QED
    BY <1>0, <1>1, <2>3, <2>4, <2>5 DEF MatchInv
<1>4. CASE PassOn
  <2>1. fr.final # "SUCCESS" /\ fr'.final = fr.final /\ fr'.pc \in {"clear", "send"}
    BY <1>0, <1>4 DEF PassOn, MatchInv
  <2>2. reports' = reports /\ sent' = sent
    BY <1>4 DEF PassOn, procVars
  <2> QED
    BY <1>0, <1>1, <2>1, <2>2 DEF MatchInv
<1>5. CASE ClearRunning
  <2>1. /\ fr'.final = fr.final /\ fr'.report = fr.report /\ fr'.pc = "send"
        /\ fr.pc = "clear"
        /\ UNCHANGED <<reports, sent, last_result>>
    BY <1>0, <1>5 DEF ClearRunning, procVars
  <2> QED
    BY <1>0, <1>1, <2>1 DEF MatchInv
<1>6. CASE Forward
  <2>1. fr'.pc = "idle" /\ reports' = reports /\ fr.pc = "send"
    BY <1>0, <1>6 DEF Forward, procVars
  <2>2. ASSUME NEW m \in sent', m.by = "fr" /\ m.status = "SUCCESS"
        PROVE  Backed(m.probe, m.user)
    <3>1. CASE m \in sent
      BY <2>2, <3>1 DEF MatchInv
    <3>2. CASE m \notin sent
      <4>1. m = ToCP("fr", fr.final, last_result.user, current_session_id,
                     IF fr.final = "SUCCESS" THEN fr.report.feature ELSE NoFeature)
        BY <1>6, <3>2 DEF Forward
      <4>2. /\ fr.final = "SUCCESS" /\ m.probe = fr.report.feature
            /\ m.user = last_result.user
        BY <2>2, <4>1 DEF ToCP
      <4> QED
        BY <2>1, <4>2 DEF MatchInv
    <3> QED
      BY <3>1, <3>2
  <2> QED
    BY <1>0, <1>1, <2>1, <2>2 DEF MatchInv
<1> QED
  BY <1>2, <1>3, <1>4, <1>5, <1>6 DEF FrNext

(* What the hint and the feature rest on, at every moment.                 *)
THEOREM MatchInvariant == Spec => []IInv
<1>1. Init => IInv
  BY DEF Init, IInv, HintInv, Early, MatchInv
<1>2. TypeOK /\ TypeOK' /\ IInv /\ [Next]_vars => IInv'
  <2> SUFFICES ASSUME TypeOK, TypeOK', IInv, [Next]_vars PROVE MatchInv'
    BY HintInvKept DEF IInv
  <2>1. \A f, user : Backed(f, user) => Backed(f, user)'
    BY BackedStays
  <2>2. ASSUME CpNext \/ Ask \/ ProcNext \/ UNCHANGED vars, NEW m \in sent',
               m.by = "fr" /\ m.status = "SUCCESS"
        PROVE  Backed(m.probe, m.user)'
    BY <2>1, <2>2, CpSendsNoSuccess DEF IInv, MatchInv
  <2>3. CASE CpNext \/ Ask \/ UNCHANGED vars
    <3>1. UNCHANGED <<reports, captured, fr, last_result, last_recognition_feature>>
      BY <2>3 DEF CpNext, TakeRequest, StoreHint, Reuse, Spawn, SpawnFails, Begin,
         Acknowledge, Cancel, AnnounceEnd, Kill, ReplyIdle, Query_Status,
         SendPassword, Ask, frVars, procVars, vars
    <3> QED
      BY <2>1, <2>2, <2>3, <3>1 DEF IInv, MatchInv
  <2>4. CASE ProcNext
    <3>1. UNCHANGED <<fr, last_result, last_recognition_feature>>
      BY <2>4 DEF ProcNext, BeginScan, Recognize, GiveUp, Exit, serviceVars, frVars
    <3>2. captured \subseteq captured'
      BY <2>4 DEF ProcNext, BeginScan, Recognize, GiveUp, Exit
    <3> QED
      BY <2>1, <2>2, <2>4, <3>1, <3>2, ProcKeepsReports DEF IInv, MatchInv
  <2>5. CASE FrNext
    BY <2>5, FrKeepsMatch DEF IInv
  <2> QED
    BY <2>3, <2>4, <2>5 DEF Next
<1> QED
  BY <1>1, <1>2, TypeCorrect, PTL DEF Spec

(* Whatever the threads' interleaving, the hint races, the requests and    *)
(* the losses: every SUCCESS sent to the credential provider rests on an   *)
(* extracted feature that matches the named user (on_fr_status_received).  *)
THEOREM SuccessIsAlwaysMatched == Spec => []SuccessIsMatched
<1>1. IInv => SuccessIsMatched
  BY DEF IInv, MatchInv, Backed, SuccessIsMatched
<1> QED
  BY <1>1, MatchInvariant, PTL

-----------------------------------------------------------------------------
(* The service does what FaceService promises.                             *)

(* The request in hand, where its handler may be, and the session id that  *)
(* is its number.                                                          *)
CpInv ==
  /\ current_session_id = served
  /\ cp.pc # "idle" => served \in 1 .. Len(asked) /\ cp.req = asked[served]
  /\ cp.pc \in {"start", "begin", "ack"} => cp.req.type = "START"
  /\ cp.pc \in {"cancel", "stop", "kill", "stopped"} => cp.req.type = "CANCEL"
  /\ cp.pc = "query" => cp.req.type = "QUERY"
  /\ cp.pc = "password" => cp.req.type = "GET_PASSWORD"

(* What a report can come to. *)
FrInv ==
  fr.pc # "idle" =>
    fr.final \in {"RECOGNIZING", "SUCCESS", "TIMEOUT", "RECOGNITION_ERROR"}

(* Recognizers, their reports and the handler of a report come after a     *)
(* START.                                                                  *)
StartInv ==
  \/ Service!Started
  \/ /\ reports = << >> /\ fr.pc = "idle" /\ fr_process = NoProc
     /\ \A p \in Proc : recognizer[p] = "none"

(* Only the handler of a START makes a recognizer (start_fr_process).      *)
LEMMA StartInvKept ==
  ASSUME TypeOK, CpInv, StartInv, [Next]_vars
  PROVE  StartInv'
<1>1. Service!Started => Service!Started'
  BY RequestsStay DEF Service!Started
<1>2. ASSUME UNCHANGED recognizer, fr_process' \in {fr_process, NoProc},
             UNCHANGED <<reports, fr>>
      PROVE  StartInv'
  BY <1>1, <1>2 DEF StartInv
<1>3. CASE Ask \/ UNCHANGED vars
  BY <1>2, <1>3 DEF Ask, vars, cpVars, frVars, procVars
<1>4. CASE ProcNext
  <2>1. \E p \in Proc : recognizer[p] # "none"
    BY <1>4 DEF ProcNext, BeginScan, Recognize, GiveUp, Exit, Alive
  <2> QED
    BY <1>1, <2>1 DEF StartInv
<1>5. CASE FrNext
  <2>1. reports # << >> \/ fr.pc # "idle"
    BY <1>5 DEF FrNext, TakeReport, Match, PassOn, ClearRunning, Forward
  <2> QED
    BY <1>1, <2>1 DEF StartInv
<1>6. CASE Spawn
  <2>1. served \in 1 .. served /\ asked[served].type = "START"
    BY <1>6 DEF Spawn, CpInv
  <2> QED
    BY <1>1, <2>1 DEF StartInv, Service!Started
<1>7. CASE Kill
  <2>1. fr_process = NoProc => UNCHANGED recognizer
    BY <1>7, ProcAssumption DEF Kill, Becomes, TypeOK
  <2> QED
    BY <1>1, <1>2, <1>7, <2>1 DEF Kill, StartInv, frVars
<1>8. CASE CpNext /\ ~ Spawn /\ ~ Kill
  BY <1>2, <1>8 DEF CpNext, TakeRequest, StoreHint, Reuse, SpawnFails, Begin,
     Acknowledge, Cancel, AnnounceEnd, ReplyIdle, Query_Status, SendPassword,
     frVars, procVars
<1> QED
  BY <1>3, <1>4, <1>5, <1>6, <1>7, <1>8 DEF Next

(* The handler of a request stays with that request                        *)
(* (on_cp_request_received).                                               *)
LEMMA CpInvKept ==
  ASSUME TypeOK, CpInv, [Next]_vars
  PROVE  CpInv'
<1>0. /\ cp \in [pc : CpStep, req : Request] /\ asked \in Seq(Request)
      /\ served \in 0 .. Len(asked) /\ Len(asked) \in Nat
  BY DEF TypeOK
<1> USE DEF CpInv
<1>1. CASE Ask
  <2>1. PICK type \in RequestType, hint \in Name :
          asked' = Append(asked, [type |-> type, hint |-> hint])
    BY <1>1 DEF Ask
  <2>2. [type |-> type, hint |-> hint] \in Request
    BY DEF Request
  <2>3. /\ \A i \in 1 .. Len(asked) : asked'[i] = asked[i]
        /\ Len(asked') = Len(asked) + 1
    BY <1>0, <2>1, <2>2, AppendType
  <2>4. UNCHANGED <<current_session_id, served, cp>>
    BY <1>1 DEF Ask, cpVars
  <2> QED
    BY <1>0, <2>3, <2>4
<1>2. CASE ProcNext \/ FrNext \/ UNCHANGED vars
  <2>1. UNCHANGED <<current_session_id, served, cp, asked>>
    BY <1>2 DEF ProcNext, BeginScan, Recognize, GiveUp, Exit, serviceVars,
       FrNext, TakeReport, Match, PassOn, ClearRunning, Forward, cpVars, vars
  <2> QED
    BY <2>1
<1>3. CASE TakeRequest
  BY <1>0, <1>3 DEF TakeRequest
<1>4. CASE StoreHint
  <2>1. UNCHANGED <<current_session_id, served, asked>>
    BY <1>4 DEF StoreHint
  <2>2. /\ cp.req.type \in RequestType /\ cp'.req = cp.req
        /\ cp'.pc = CASE cp.req.type = "START"  -> "start"
                      [] cp.req.type = "CANCEL" -> "cancel"
                      [] cp.req.type = "QUERY"  -> "query"
                      [] OTHER                  -> "password"
    BY <1>0, <1>4 DEF StoreHint, Goto, Request
  <2> QED
    BY <1>4, <2>1, <2>2 DEF StoreHint, RequestType
<1>5. CASE CpNext /\ ~ TakeRequest /\ ~ StoreHint
  <2>1. UNCHANGED <<current_session_id, served, asked>>
    BY <1>5 DEF CpNext, Reuse, Spawn, SpawnFails, Begin, Acknowledge, Cancel,
       AnnounceEnd, Kill, ReplyIdle, Query_Status, SendPassword
  <2>2. /\ cp'.req = cp.req /\ cp.pc # "idle"
        /\ \/ cp'.pc = "idle"
           \/ cp.pc \in {"start", "begin"} /\ cp'.pc \in {"begin", "ack"}
           \/ /\ cp.pc \in {"cancel", "stop", "kill"}
              /\ cp'.pc \in {"stop", "kill", "stopped"}
    BY <1>0, <1>5 DEF CpNext, Reuse, Spawn, SpawnFails, Begin, Acknowledge,
       Cancel, AnnounceEnd, Kill, ReplyIdle, Query_Status, SendPassword, Goto
  <2> QED
    BY <2>1, <2>2
<1> QED
  BY <1>1, <1>2, <1>3, <1>4, <1>5 DEF Next

(* A report comes to what it says, or to an error (on_fr_status_received). *)
LEMMA FrInvKept ==
  ASSUME TypeOK, FrInv, [Next]_vars
  PROVE  FrInv'
<1>0. fr \in [pc : FrStep, report : Report, final : Status]
  BY DEF TypeOK
<1> USE DEF FrInv
<1>1. CASE Ask \/ ProcNext \/ CpNext \/ UNCHANGED vars
  <2>1. fr' = fr
    BY <1>1 DEF Ask, ProcNext, BeginScan, Recognize, GiveUp, Exit, serviceVars,
       CpNext, TakeRequest, StoreHint, Reuse, Spawn, SpawnFails, Begin,
       Acknowledge, Cancel, AnnounceEnd, Kill, ReplyIdle, Query_Status,
       SendPassword, frVars, vars
  <2> QED
    BY <2>1
<1>2. CASE TakeReport
  <2>1. Head(reports) \in Report
    BY <1>2 DEF TakeReport, TypeOK
  <2> QED
    BY <1>2, <2>1 DEF TakeReport, Report
<1>3. CASE Match
  BY <1>0, <1>3 DEF Match
<1>4. CASE PassOn \/ ClearRunning \/ Forward
  BY <1>0, <1>4 DEF PassOn, ClearRunning, Forward
<1> QED
  BY <1>1, <1>2, <1>3, <1>4 DEF Next, FrNext

(* The cp thread serves requests as promised (on_cp_request_received).     *)
LEMMA CpServes ==
  ASSUME TypeOK, CpInv, CpNext
  PROVE  \/ Service!Take \/ Service!Answer \/ Service!TellEnd
         \/ UNCHANGED <<asked, served, cp.pc # "idle", captured, sent>>
<1>0. /\ cp \in [pc : CpStep, req : Request]
      /\ served \in 0 .. Len(asked) /\ Len(asked) \in Nat
  BY DEF TypeOK
<1>1. CASE TakeRequest
  <2>1. cp'.pc # "idle" /\ cp.pc = "idle"
    BY <1>1 DEF TakeRequest
  <2> QED
    BY <1>0, <1>1, <2>1 DEF TakeRequest, Service!Take, procVars
<1>2. CASE StoreHint
  <2>1. cp'.pc # "idle" /\ cp.pc # "idle"
    BY <1>0, <1>2 DEF StoreHint, Goto
  <2> QED
    BY <1>2, <2>1 DEF StoreHint, procVars
<1>3. CASE Reuse \/ Spawn \/ Begin \/ Cancel \/ Kill
  <2>1. cp'.pc # "idle" /\ cp.pc # "idle"
    BY <1>0, <1>3 DEF Reuse, Spawn, Begin, Cancel, Kill, Goto
  <2>2. UNCHANGED <<asked, served, captured, sent>>
    BY <1>3 DEF Reuse, Spawn, Begin, Cancel, Kill, procVars
  <2> QED
    BY <2>1, <2>2
<1>4. ASSUME Service!InKind(asked[served]), cp.pc # "idle", Goto("idle"),
             UNCHANGED <<asked, served, captured>>
      PROVE  Service!Answer
  <2>1. cp'.pc = "idle"
    BY <1>0, <1>4 DEF Goto
  <2> QED
    BY <1>4, <2>1 DEF Service!Answer
<1>5. CASE SpawnFails \/ Acknowledge
  <2>1. /\ asked[served].type = "START" /\ cp.pc # "idle" /\ Goto("idle")
        /\ UNCHANGED <<asked, served, captured>>
    BY <1>0, <1>5 DEF SpawnFails, Acknowledge, CpInv, procVars
  <2>2. PICK status \in {"RECOGNIZING", "RECOGNITION_ERROR"} : Reply(status, NoName)
    BY <1>5 DEF SpawnFails, Acknowledge
  <2>3. Service!InKind(asked[served])
    BY <2>1, <2>2 DEF Reply, ToCP, Service!InKind, Service!Told, Service!Tell
  <2> QED
    BY <1>4, <2>1, <2>3
<1>6. CASE AnnounceEnd
  <2>1. asked[served].type = "CANCEL" /\ cp.pc # "idle" /\ cp'.pc # "idle"
    BY <1>0, <1>6 DEF AnnounceEnd, CpInv, Goto
  <2>2. CASE UNCHANGED sent
    BY <1>6, <2>1, <2>2 DEF AnnounceEnd, procVars
  <2>3. CASE Reply("PROCESS_ENDED", NoName)
    BY <1>6, <2>1, <2>3 DEF AnnounceEnd, Reply, ToCP, Service!TellEnd,
       Service!Told, Service!Tell, procVars
  <2> QED
    BY <1>6, <2>2, <2>3 DEF AnnounceEnd
<1>7. CASE ReplyIdle
  <2>1. /\ asked[served].type = "CANCEL" /\ cp.pc # "idle" /\ Goto("idle")
        /\ UNCHANGED <<asked, served, captured>>
    BY <1>0, <1>7 DEF ReplyIdle, CpInv, procVars
  <2>2. Service!InKind(asked[served])
    BY <1>7, <2>1 DEF ReplyIdle, Reply, ToCP, Service!InKind, Service!Told, Service!Tell
  <2> QED
    BY <1>4, <2>1, <2>2
<1>8. CASE Query_Status
  <2>1. /\ asked[served].type = "QUERY" /\ cp.pc # "idle" /\ Goto("idle")
        /\ UNCHANGED <<asked, served, captured>>
    BY <1>0, <1>8 DEF Query_Status, CpInv, procVars
  <2>2. LastUser \subseteq Name
    BY DatabaseAssumption DEF LastUser, TypeOK, Result, Name
  <2>3. PICK user \in Name, status \in {"RECOGNIZING", "IDLE"} : Reply(status, user)
    BY <1>8, <2>2 DEF Query_Status
  <2>4. Service!InKind(asked[served])
    BY <2>1, <2>3 DEF Reply, ToCP, Service!InKind, Service!Told, Service!Tell
  <2> QED
    BY <1>4, <2>1, <2>4
<1>9. CASE SendPassword
  <2>1. /\ asked[served].type = "GET_PASSWORD" /\ cp.req = asked[served]
        /\ cp.pc # "idle" /\ Goto("idle") /\ UNCHANGED <<asked, served, captured>>
    BY <1>0, <1>9 DEF SendPassword, CpInv, procVars
  <2>2. \E found \in {FALSE, asked[served].hint \in Users} :
          Service!Tell([by |-> "password", session |-> served,
                        user |-> asked[served].hint, found |-> found])
    BY <1>9, <2>1, Zenon DEF SendPassword, Service!Tell
  <2>3. Service!InKind(asked[served])
    BY <2>1, <2>2, Zenon DEF Service!InKind
  <2> QED
    BY <1>4, <2>1, <2>3
<1> QED
  BY <1>1, <1>2, <1>3, <1>5, <1>6, <1>7, <1>8, <1>9 DEF CpNext

(* The fr thread tells what became of a recognition as promised            *)
(* (on_fr_status_received).                                                *)
LEMMA FrTells ==
  ASSUME TypeOK, IInv, CpInv, FrInv, StartInv, FrNext
  PROVE  \/ Service!TellSuccess \/ Service!TellOther
         \/ UNCHANGED <<asked, served, cp.pc # "idle", captured, sent>>
<1>1. UNCHANGED <<asked, served, cp, captured>>
  BY DEF FrNext, TakeReport, Match, PassOn, ClearRunning, Forward, cpVars, procVars
<1>2. CASE ~ Forward
  <2>1. sent' = sent
    BY <1>2 DEF FrNext, TakeReport, Match, PassOn, ClearRunning
  <2> QED
    BY <1>1, <2>1
<1>3. CASE Forward
  <2>1. /\ fr.pc = "send" /\ current_session_id = served
        /\ sent' = sent \cup
             {ToCP("fr", fr.final, last_result.user, served,
                   IF fr.final = "SUCCESS" THEN fr.report.feature ELSE NoFeature)}
    BY <1>3 DEF Forward, CpInv
  <2>0. Service!Started
    BY <2>1 DEF StartInv
  <2>2. CASE fr.final = "SUCCESS"
    <3>1. Backed(fr.report.feature, last_result.user)
      BY <2>1, <2>2 DEF IInv, MatchInv
    <3>2. fr.report.feature \in captured /\ fr.report.feature \in Feature
      BY <3>1 DEF Backed, TypeOK
    <3>3. last_result.user \in User /\ last_result.user \in Name
      <4>1. PICK i \in 1 .. Len(Faces) : Faces[i].user = last_result.user
        BY <3>1 DEF Backed, Matches, QueryFor
      <4>2. Faces[i] \in Enrolled
        BY <4>1, DatabaseAssumption
      <4> QED
        BY <4>1, <4>2 DEF Enrolled, Name
    <3>4. <<fr.report.feature, last_result.user>> \in Likeness
      BY <3>1, <3>2, <3>3, DatabaseAssumption DEF Backed, Likeness
    <3>5. Service!AskedFor(last_result.user)
      BY <3>1 DEF Backed, Hints, Service!AskedFor
    <3> QED
      BY <1>1, <2>0, <2>1, <2>2, <3>2, <3>3, <3>4, <3>5
         DEF Service!TellSuccess, Service!Told, Service!Tell, ToCP
  <2>3. CASE fr.final # "SUCCESS"
    <3>1. fr.final \in {"RECOGNIZING", "TIMEOUT", "RECOGNITION_ERROR"}
      BY <2>1, <2>3 DEF FrInv
    <3>2. last_result.user \in Name
      BY DEF TypeOK, Result
    <3> QED
      BY <1>1, <2>0, <2>1, <2>3, <3>1, <3>2 DEF Service!TellOther, Service!Told,
         Service!Tell, ToCP
  <2> QED
    BY <2>2, <2>3
<1> QED
  BY <1>2, <1>3

(* Every run of the service is a run of FaceService, for any users, faces, *)
(* recognizers and requests.                                               *)
THEOREM ServesAsPromised == Spec => RefinesService
<1>1. Init => CpInv /\ FrInv /\ StartInv /\ Service!Init
  BY DEF Init, CpInv, FrInv, StartInv, Service!Init
<1>2. TypeOK /\ CpInv /\ FrInv /\ StartInv /\ [Next]_vars => CpInv' /\ FrInv' /\ StartInv'
  BY CpInvKept, FrInvKept, StartInvKept
<1>3. TypeOK /\ IInv /\ CpInv /\ FrInv /\ StartInv /\ [Next]_vars =>
        [Service!Next]_(Service!ServiceVars)
  <2> SUFFICES ASSUME TypeOK, IInv, CpInv, FrInv, StartInv, [Next]_vars
               PROVE  Service!Next \/ UNCHANGED Service!ServiceVars
    OBVIOUS
  <2> USE DEF Service!Next, Service!ServiceVars
  <2>1. CASE Ask
    BY <2>1 DEF Ask, Service!Ask, RequestType, cpVars, procVars
  <2>2. CASE \E p \in Proc : Recognize(p)
    <3>1. Service!Started
      BY <2>2 DEF Recognize, StartInv
    <3> QED
      BY <2>2, <3>1 DEF Recognize, Extracted, Service!Capture, serviceVars, cpVars
  <2>3. CASE \E p \in Proc : BeginScan(p) \/ GiveUp(p) \/ Exit(p)
    BY <2>3 DEF BeginScan, GiveUp, Exit, serviceVars, cpVars
  <2>4. CASE CpNext
    BY <2>4, CpServes
  <2>5. CASE FrNext
    BY <2>5, FrTells
  <2>6. CASE UNCHANGED vars
    BY <2>6 DEF vars, cpVars, procVars
  <2> QED
    BY <2>1, <2>2, <2>3, <2>4, <2>5, <2>6 DEF Next, ProcNext
<1> QED
  BY <1>1, <1>2, <1>3, TypeCorrect, MatchInvariant, PTL
  DEF Spec, RefinesService, Service!Spec
=============================================================================
