-------------------------- MODULE FaceMatch_proofs --------------------------
(***************************************************************************)
(* Facts about the comparison, for every database, hint and probe.         *)
(***************************************************************************)
EXTENDS FaceMatch, TLAPS

(* A score lies between -100 and 100, for every index of a query: the      *)
(* cosine when the features are comparable, 0 otherwise                    *)
(* (compare_features_on_su).                                               *)
LEMMA ScoreType ==
  ASSUME NEW q \in Query, NEW i \in 1 .. Len(q.faces), q.probe # NoFeature
  PROVE  /\ Score(q, i) \in -100 .. 100
         /\ Score(q, i) \in Int
         /\ q.faces[i].user \in User
<1>1. q.faces[i] \in Enrolled
  BY DEF Query
<1>2. q.probe \in Feature
  BY DEF Query
<1>3. CASE q.faces[i].feature = NoFeature
  BY <1>1, <1>3 DEF Score, Enrolled
<1>4. CASE q.faces[i].feature # NoFeature
  <2>1. q.faces[i].feature \in Feature
    BY <1>1, <1>4 DEF Enrolled
  <2>2. <<q.probe.face, q.faces[i].feature.face>> \in Face \X Face
    BY <1>2, <2>1, FeatureAssumption DEF FeatureRecord
  <2>3. Cosine[<<q.probe.face, q.faces[i].feature.face>>] \in -100 .. 100
    BY <2>2, CosineAssumption
  <2>4. Cosine[<<q.probe.face, q.faces[i].feature.face>>] \in Int
    <3>1. -100 .. 100 \subseteq Int
      OBVIOUS
    <3> QED
      BY <2>3, <3>1, Zenon
  <2>5. Score(q, i) = Cosine[<<q.probe.face, q.faces[i].feature.face>>] \/ Score(q, i) = 0
    BY DEF Score
  <2>6. q.faces[i].user \in User
    BY <1>1 DEF Enrolled
  <2>7. 0 \in -100 .. 100 /\ 0 \in Int
    OBVIOUS
  <2> QED
    BY <2>3, <2>4, <2>5, <2>6, <2>7
<1> QED
  BY <1>3, <1>4

(* The first best face is unique (FirstBest). *)
LEMMA FirstBestUnique ==
  ASSUME NEW q \in Query, q.probe # NoFeature,
         NEW i \in 1 .. Len(q.faces), IsFirstBest(q, i)
  PROVE  HasMatch(q) /\ FirstBest(q) = i
<1>1. HasMatch(q)
  BY DEF HasMatch
<1>2. /\ FirstBest(q) \in 1 .. Len(q.faces)
      /\ IsFirstBest(q, FirstBest(q))
  BY <1>1 DEF HasMatch, FirstBest
<1>3. ASSUME NEW j \in 1 .. Len(q.faces), IsFirstBest(q, j), j # i
      PROVE  FALSE
  <2>1. Len(q.faces) \in Nat
    BY DEF Query
  <2>2. Score(q, i) \in Int /\ Score(q, j) \in Int
    BY ScoreType
  <2>3. Considered(q, i) /\ Considered(q, j)
    BY <1>3 DEF IsFirstBest, IsFirstBestOf
  <2>4. Score(q, j) <= Score(q, i) /\ (j < i => Score(q, j) < Score(q, i))
    BY <2>3 DEF IsFirstBest, IsFirstBestOf
  <2>5. Score(q, i) <= Score(q, j) /\ (i < j => Score(q, i) < Score(q, j))
    BY <1>3, <2>3 DEF IsFirstBest, IsFirstBestOf
  <2> QED
    BY <1>3, <2>1, <2>2, <2>4, <2>5
<1> QED
  BY <1>1, <1>2, <1>3

(* A score that reaches the threshold in use is above zero (Threshold).    *)
LEMMA ThresholdPositive ==
  ASSUME NEW q \in Query
  PROVE  Threshold(q.threshold) \in Int /\ Threshold(q.threshold) > 0
<1>1. q.threshold \in Int
  BY DEF Query
<1> QED
  BY <1>1 DEF Threshold, DefaultThreshold

(* A promised name is backed by an enrolled face of its own user, and by   *)
(* the hint when one was given (resolve_recognized_username).              *)
LEMMA AcceptedHasFace ==
  ASSUME NEW q \in Query, Resolve(q).user # NoName
  PROVE  /\ q.hint = NoName \/ (q.hint = Resolve(q).user /\ q.hint \in q.users)
         /\ Matches(q, Resolve(q).user)
<1>1. q.probe # NoFeature
  BY DEF Resolve, Reject
<1>2. HasMatch(q)
  BY <1>1 DEF Resolve, Decide, Reject
<1>3. FirstBest(q) \in 1 .. Len(q.faces) /\ IsFirstBest(q, FirstBest(q))
  BY <1>2 DEF HasMatch, FirstBest
<1> DEFINE i == FirstBest(q)
<1>4. Resolve(q) = Decide(q, Score(q, i), q.faces[i].user)
  BY <1>1, <1>2 DEF Resolve
<1>5. /\ Resolve(q) = Accept(q.faces[i].user)
      /\ ~ (q.hint # NoName /\ q.hint \notin q.users)
      /\ ~ (q.hint \in q.users /\ q.faces[i].user \notin {NoName, q.hint})
      /\ q.faces[i].user # NoName
      /\ ~ (Score(q, i) < Threshold(q.threshold))
  BY <1>4 DEF Decide, Reject
<1>6. Resolve(q).user = q.faces[i].user
  BY <1>5 DEF Accept
<1>7. Score(q, i) \in Int
  BY <1>1, <1>3, ScoreType
<1>8. Score(q, i) >= Threshold(q.threshold)
  BY <1>5, <1>7, ThresholdPositive
<1>9. Matches(q, Resolve(q).user)
  BY <1>3, <1>6, <1>8 DEF Matches
<1> QED
  BY <1>5, <1>6, <1>9
=============================================================================
