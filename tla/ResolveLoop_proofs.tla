------------------------- MODULE ResolveLoop_proofs -------------------------
(***************************************************************************)
(* The loop of resolve_recognized_username is right for every database,    *)
(* hint, probe and threshold.                                              *)
(***************************************************************************)
EXTENDS ResolveLoop, FaceMatch_proofs

(* Every variable keeps its type (ResolveLoop). *)
THEOREM TypeCorrect == Spec => []TypeOK
<1>1. Init => TypeOK
  <2> SUFFICES ASSUME Init PROVE TypeOK
    OBVIOUS
  <2>1. query \in Query /\ Len(query.faces) \in Nat
    BY QueriesAssumption DEF Init, Query
  <2> QED
    BY <2>1 DEF Init, TypeOK, Name, Answer, Pending
<1>2. TypeOK /\ [Next]_vars => TypeOK'
  <2> SUFFICES ASSUME TypeOK, [Next]_vars PROVE TypeOK'
    OBVIOUS
  <2>0. Len(query.faces) \in Nat
    BY DEF TypeOK, Query
  <2>1. CASE RejectEmptyProbe
    BY <2>1 DEF RejectEmptyProbe, TypeOK, Answer, Name, Reject
  <2>2. CASE Visit
    <3>1. /\ next \in 1 .. Len(query.faces)
          /\ next' = next + 1 /\ next' \in 1 .. Len(query.faces) + 1
      BY <2>0, <2>2 DEF Visit, TypeOK
    <3>2. Score(query, next) \in -100 .. 100 /\ query.faces[next].user \in User
      BY <2>2, <3>1, ScoreType DEF Visit, Looking, TypeOK
    <3>3. query' = query /\ answer' = answer
      BY <2>2 DEF Visit
    <3>4. bestScore' \in 0 .. 100
      <4>1. bestScore \in 0 .. 100
        BY DEF TypeOK
      <4>2. CASE Better(next)
        <5>1. bestScore' = Score(query, next) /\ Score(query, next) > bestScore
          BY <2>2, <4>2 DEF Visit, Better
        <5> QED
          BY <3>2, <4>1, <5>1
      <4>3. CASE ~ Better(next)
        BY <2>2, <4>1, <4>3 DEF Visit
      <4> QED
        BY <4>2, <4>3
    <3>5. bestUser' \in Name
      BY <2>2, <3>2 DEF Visit, TypeOK, Name
    <3> QED
      BY <3>1, <3>3, <3>4, <3>5 DEF TypeOK
  <2>3. CASE Return
    <3>1. answer' \in Answer
      <4>1. answer' = Decide(query, bestScore, bestUser) /\ bestUser \in Name
        BY <2>3 DEF Return, TypeOK
      <4> QED
        BY <4>1 DEF Decide, Reject, Accept, Answer, Name
    <3> QED
      BY <2>3, <3>1 DEF Return, TypeOK
  <2>4. CASE UNCHANGED vars
    BY <2>4 DEF vars, TypeOK
  <2> QED
    BY <2>1, <2>2, <2>3, <2>4 DEF Next
<1> QED
  BY <1>1, <1>2, PTL DEF Spec

-----------------------------------------------------------------------------
(* The invariant that carries the result: the types, what the scan has     *)
(* kept so far, and the answer once there is one.                          *)
IInv == TypeOK /\ PrefixBest /\ AnswerIsResolved

(* One turn of the loop keeps the best of the faces seen (Visit).          *)
LEMMA VisitKeepsBest ==
  ASSUME TypeOK, PrefixBest, Visit
  PROVE  PrefixBest'
<1>1. /\ Len(query.faces) \in Nat /\ next \in 1 .. Len(query.faces)
      /\ query' = query /\ next' = next + 1 /\ next' - 1 = next
      /\ query \in Query /\ query.probe # NoFeature /\ bestScore \in 0 .. 100
  BY DEF TypeOK, Query, Visit, Looking
<1>2. \A j \in 1 .. next : Score(query, j) \in Int
  BY <1>1, ScoreType
<1>3. \A j \in 1 .. next : j \in 1 .. next - 1 \/ j = next
  BY <1>1
<1>4. \A j \in 1 .. next - 1 : j \in 1 .. next /\ j < next
  BY <1>1
<1>5. \A j \in 1 .. next - 1 : Considered(query, j) => Score(query, j) <= bestScore
  BY <1>2, <1>4 DEF PrefixBest, IsFirstBestOf
<1>6. CASE Better(next)
  <2>1. bestScore' = Score(query, next) /\ bestUser' = query.faces[next].user
    BY <1>6 DEF Visit
  <2>2. /\ next \in 1 .. next /\ Considered(query, next)
        /\ Score(query, next) > bestScore /\ Score(query, next) > 0
    BY <1>1, <1>2, <1>6 DEF Better
  <2>3. ASSUME NEW j \in 1 .. next, Considered(query, j)
        PROVE  /\ Score(query, j) <= Score(query, next)
               /\ j < next => Score(query, j) < Score(query, next)
    <3>1. Score(query, j) \in Int /\ Score(query, next) \in Int
      BY <1>2, <2>2
    <3>2. CASE j = next
      BY <1>1, <3>1, <3>2
    <3>3. CASE j \in 1 .. next - 1
      BY <1>1, <1>5, <2>2, <2>3, <3>1, <3>3
    <3> QED
      BY <1>3, <3>2, <3>3
  <2>4. IsFirstBestOf(query, next, next)
    BY <2>2, <2>3 DEF IsFirstBestOf
  <2>5. \E i \in 1 .. next : /\ IsFirstBestOf(query, next, i)
                             /\ bestScore' = Score(query, i)
                             /\ bestUser' = query.faces[i].user
    BY <2>1, <2>2, <2>4
  <2> QED
    BY <1>1, <2>5 DEF PrefixBest
<1>7. CASE ~ Better(next)
  <2>1. bestScore' = bestScore /\ bestUser' = bestUser
    BY <1>7 DEF Visit
  <2>2. Considered(query, next) => Score(query, next) <= bestScore
    <3>1. next \in 1 .. next /\ bestScore \in Int
      BY <1>1
    <3> QED
      BY <1>2, <1>7, <3>1 DEF Better
  <2>3. CASE /\ bestScore = 0 /\ bestUser = NoName
             /\ \A j \in 1 .. next - 1 : Considered(query, j) => Score(query, j) <= 0
    <3>1. \A j \in 1 .. next : Considered(query, j) => Score(query, j) <= 0
      BY <1>3, <2>2, <2>3
    <3> QED
      BY <1>1, <2>1, <2>3, <3>1 DEF PrefixBest
  <2>4. ASSUME NEW i \in 1 .. next - 1, IsFirstBestOf(query, next - 1, i),
               bestScore = Score(query, i), bestUser = query.faces[i].user
        PROVE  PrefixBest'
    <3>1. ASSUME NEW j \in 1 .. next, Considered(query, j)
          PROVE  /\ Score(query, j) <= Score(query, i)
                 /\ j < i => Score(query, j) < Score(query, i)
      <4>1. CASE j \in 1 .. next - 1
        BY <2>4, <3>1, <4>1 DEF IsFirstBestOf
      <4>2. CASE j = next
        <5>1. ~ (next < i)
          BY <1>1
        <5> QED
          BY <2>2, <2>4, <3>1, <4>2, <5>1
      <4> QED
        BY <1>3, <4>1, <4>2
    <3>2. IsFirstBestOf(query, next, i)
      BY <2>4, <3>1 DEF IsFirstBestOf
    <3>3. i \in 1 .. next
      BY <1>4
    <3> QED
      BY <1>1, <2>1, <2>4, <3>2, <3>3 DEF PrefixBest
  <2> QED
    BY <2>3, <2>4 DEF PrefixBest
<1> QED
  BY <1>6, <1>7

(* When the scan is over, what the loop decides is what is promised        *)
(* (Return).                                                               *)
LEMMA ReturnIsResolved ==
  ASSUME TypeOK, PrefixBest, Return
  PROVE  answer' = Resolve(query)
<1>1. /\ Len(query.faces) \in Nat /\ next - 1 = Len(query.faces)
      /\ query \in Query /\ query.probe # NoFeature
  BY DEF TypeOK, Query, Return, Looking
<1>2. answer' = Decide(query, bestScore, bestUser)
  BY DEF Return
<1>3. CASE /\ bestScore = 0 /\ bestUser = NoName
           /\ \A j \in 1 .. next - 1 : Considered(query, j) => Score(query, j) <= 0
  <2>1. \A j \in 1 .. Len(query.faces) : Score(query, j) \in Int
    BY <1>1, ScoreType
  <2>2. ~ HasMatch(query)
    BY <1>1, <1>3, <2>1 DEF HasMatch, IsFirstBest, IsFirstBestOf
  <2> QED
    BY <1>1, <1>2, <1>3, <2>2 DEF Resolve
<1>4. ASSUME NEW i \in 1 .. next - 1, IsFirstBestOf(query, next - 1, i),
             bestScore = Score(query, i), bestUser = query.faces[i].user
      PROVE  answer' = Resolve(query)
  <2>1. i \in 1 .. Len(query.faces) /\ IsFirstBest(query, i)
    BY <1>1, <1>4 DEF IsFirstBest
  <2>2. HasMatch(query) /\ FirstBest(query) = i
    BY <1>1, <2>1, FirstBestUnique
  <2> QED
    BY <1>1, <1>2, <1>4, <2>2 DEF Resolve
<1> QED
  BY <1>3, <1>4 DEF PrefixBest

(* The answer of the loop is the promised one, for every query             *)
(* (resolve_recognized_username).                                          *)
THEOREM LoopInvariant == Spec => []IInv
<1>1. Init => IInv
  <2> SUFFICES ASSUME Init PROVE PrefixBest /\ AnswerIsResolved /\ TypeOK
    BY DEF IInv
  <2>1. TypeOK
    <3>1. query \in Query /\ Len(query.faces) \in Nat
      BY QueriesAssumption DEF Init, Query
    <3> QED
      BY <3>1 DEF Init, TypeOK, Name, Answer, Pending
  <2>2. PrefixBest
    BY DEF Init, PrefixBest
  <2>3. AnswerIsResolved
    BY DEF Init, AnswerIsResolved
  <2> QED
    BY <2>1, <2>2, <2>3
<1>2. IInv /\ TypeOK' /\ [Next]_vars => IInv'
  <2> SUFFICES ASSUME IInv, TypeOK', [Next]_vars PROVE PrefixBest' /\ AnswerIsResolved'
    BY DEF IInv
  <2> USE DEF IInv
  <2>1. CASE RejectEmptyProbe
    BY <2>1 DEF RejectEmptyProbe, PrefixBest, AnswerIsResolved, Resolve
  <2>2. CASE Visit
    <3>1. PrefixBest'
      BY <2>2, VisitKeepsBest
    <3>2. AnswerIsResolved'
      BY <2>2 DEF Visit, Looking, AnswerIsResolved
    <3> QED
      BY <3>1, <3>2
  <2>3. CASE Return
    <3>1. answer' = Resolve(query) /\ query' = query
      BY <2>3, ReturnIsResolved DEF Return
    <3>2. PrefixBest'
      BY <2>3 DEF Return, PrefixBest
    <3> QED
      BY <3>1, <3>2 DEF AnswerIsResolved
  <2>4. CASE UNCHANGED vars
    BY <2>4 DEF vars, PrefixBest, AnswerIsResolved
  <2> QED
    BY <2>1, <2>2, <2>3, <2>4 DEF Next
<1> QED
  BY <1>1, <1>2, TypeCorrect, PTL DEF Spec

(* The face the loop has kept is the first best of the faces it has seen    *)
(* (the strict comparison with best_score in compare_user_faces).           *)
THEOREM KeptIsFirstBest == Spec => []PrefixBest
<1>1. IInv => PrefixBest
  BY DEF IInv
<1> QED
  BY <1>1, LoopInvariant, PTL

(* Whatever is enrolled, a name is answered only to a probe that matches   *)
(* that user's own face and satisfies the hint                             *)
(* (resolve_recognized_username).                                          *)
THEOREM AcceptanceIsSound == Spec => []AcceptedIsMatched
<1>1. IInv => AcceptedIsMatched
  <2> SUFFICES ASSUME IInv, answer.user # NoName
               PROVE  /\ \/ query.hint = NoName
                         \/ query.hint = answer.user /\ query.hint \in query.users
                      /\ Matches(query, answer.user)
    BY DEF AcceptedIsMatched
  <2>1. query \in Query /\ answer = Resolve(query)
    BY DEF IInv, TypeOK, AnswerIsResolved, Pending
  <2> QED
    BY <2>1, AcceptedHasFace
<1> QED
  BY <1>1, LoopInvariant, PTL

(* MatchOracle speaks of the same queries and the same answers.            *)
LEMMA SameOracle ==
  /\ Oracle!Query = Query
  /\ \A q : Oracle!Resolve(q) = Resolve(q)
<1>1. Oracle!Query = Query
  BY DEF Oracle!Query, Query, Oracle!Enrolled, Enrolled, Oracle!Name, Name
<1>2. ASSUME NEW q PROVE Oracle!Resolve(q) = Resolve(q)
  <2>1. ASSUME NEW i PROVE Oracle!Score(q, i) = Score(q, i)
    BY DEF Oracle!Score, Score, Oracle!Comparable, Comparable,
           Oracle!MIN_FEATURE_DIM, MIN_FEATURE_DIM,
           Oracle!MAX_FEATURE_DIM, MAX_FEATURE_DIM
  <2>2. ASSUME NEW i PROVE Oracle!IsFirstBest(q, i) <=> IsFirstBest(q, i)
    BY <2>1 DEF Oracle!IsFirstBest, IsFirstBest, Oracle!IsFirstBestOf,
                IsFirstBestOf, Oracle!Considered, Considered,
                Oracle!ComparesAll, ComparesAll
  <2>3. /\ Oracle!HasMatch(q) <=> HasMatch(q)
        /\ Oracle!FirstBest(q) = FirstBest(q)
    BY <2>2 DEF Oracle!HasMatch, HasMatch, Oracle!FirstBest, FirstBest
  <2>4. ASSUME NEW s, NEW u PROVE Oracle!Decide(q, s, u) = Decide(q, s, u)
    BY DEF Oracle!Decide, Decide, Oracle!Reject, Reject, Oracle!Accept, Accept,
           Oracle!Threshold, Threshold, Oracle!DefaultThreshold, DefaultThreshold
  <2> QED
    BY <2>1, <2>3, <2>4 DEF Oracle!Resolve, Resolve, Oracle!Reject, Reject
<1> QED
  BY <1>1, <1>2

(* Every run of the loop is a run of MatchOracle, its fairness aside: it   *)
(* starts unanswered, and a step answers as promised or changes nothing    *)
(* the callers see (resolve_recognized_username).                          *)
THEOREM LoopIsOracle ==
  Spec => Oracle!Init /\ [][Oracle!Give]_(Oracle!OracleVars)
<1>1. Init => Oracle!Init
  BY QueriesAssumption, SameOracle DEF Init, Oracle!Init, Oracle!Unanswered, Pending
<1>2. IInv /\ [Next]_vars => [Oracle!Give]_(Oracle!OracleVars)
  <2> SUFFICES ASSUME IInv, [Next]_vars
               PROVE  Oracle!Give \/ UNCHANGED <<query, answer>>
    BY DEF Oracle!OracleVars
  <2>1. CASE RejectEmptyProbe
    <3>1. answer' = Resolve(query)
      BY <2>1 DEF RejectEmptyProbe, Resolve
    <3> QED
      BY <2>1, <3>1, SameOracle
      DEF RejectEmptyProbe, Oracle!Give, Oracle!Unanswered, Pending
  <2>2. CASE Visit
    BY <2>2 DEF Visit
  <2>3. CASE Return
    <3>1. answer' = Resolve(query)
      BY <2>3, ReturnIsResolved DEF IInv
    <3> QED
      BY <2>3, <3>1, SameOracle
      DEF Return, Looking, Oracle!Give, Oracle!Unanswered, Pending
  <2>4. CASE UNCHANGED vars
    BY <2>4 DEF vars
  <2> QED
    BY <2>1, <2>2, <2>3, <2>4 DEF Next
<1> QED
  BY <1>1, <1>2, LoopInvariant, PTL DEF Spec
=============================================================================
