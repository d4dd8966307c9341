------------------------------ MODULE FaceMatch ------------------------------
(***************************************************************************)
(* The login-time face comparison of the service: what                     *)
(* FaceRecognition::resolve_recognized_username answers for a probe        *)
(* feature, a user name hint and the faces in the database                 *)
(* (Smile2Unlock/modules/face_recognition.cppm).                           *)
(*                                                                         *)
(* A feature keeps what compare_features_on_su looks at: whether its hex   *)
(* text decodes, its dimension, whether all components are finite, whether *)
(* its norm is zero, and the face it was extracted from.  Similarities are *)
(* cosines in percent.  The faces of a query are one sequence in the order *)
(* GetAllUsers delivers them: user by user, the faces of a user together.  *)
(***************************************************************************)
EXTENDS Integers, Sequences

CONSTANTS
  User,       \* user names
  NoName,     \* the empty string, as a user name
  Feature,    \* the features a recognizer or the database may hold
  NoFeature,  \* the empty string, as a feature
  Face,       \* the faces the features were extracted from
  Cosine      \* Cosine[<<f, g>>]: similarity of two faces, in percent

FeatureRecord ==
  [decodes : BOOLEAN, dim : Nat, finite : BOOLEAN, zero : BOOLEAN, face : Face]

ASSUME NoNameAssumption == NoName \notin User
ASSUME FeatureAssumption ==
  /\ Feature \subseteq FeatureRecord
  /\ NoFeature \notin Feature
ASSUME CosineAssumption == Cosine \in [Face \X Face -> -100 .. 100]

Name == User \cup {NoName}

-----------------------------------------------------------------------------
MIN_FEATURE_DIM == 128
MAX_FEATURE_DIM == 4096

(* compare_features_on_su returns true *)
Comparable(probe, enrolled) ==
  /\ probe.decodes /\ enrolled.decodes
  /\ probe.dim = enrolled.dim
  /\ probe.dim \in MIN_FEATURE_DIM .. MAX_FEATURE_DIM
  /\ probe.finite /\ enrolled.finite
  /\ ~ probe.zero /\ ~ enrolled.zero

DefaultThreshold == 62

(* The threshold in use when the configuration holds `configured'. *)
Threshold(configured) == IF configured > 0 THEN configured ELSE DefaultThreshold

-----------------------------------------------------------------------------
(* Queries: a probe, a hint and what the database returned.                *)

Enrolled == [user : User, feature : Feature \cup {NoFeature}]

Query ==
  [users : SUBSET User, faces : Seq(Enrolled), hint : Name,
   probe : Feature \cup {NoFeature}, threshold : Int]

(* The score of the i-th enrolled face; 0 where the loop skips the face.   *)
Score(q, i) ==
  IF /\ q.faces[i].feature # NoFeature
     /\ Comparable(q.probe, q.faces[i].feature)
  THEN Cosine[<<q.probe.face, q.faces[i].feature.face>>]
  ELSE 0

(* An existing hinted user is compared alone, otherwise everybody is.      *)
ComparesAll(q) == q.hint = NoName \/ q.hint \notin q.users
Considered(q, i) == ComparesAll(q) \/ q.faces[i].user = q.hint

Reject(error) == [user |-> NoName, error |-> error]
Accept(user)  == [user |-> user, error |-> "none"]

(* A mutant of Decide: the hint is only used to narrow the scan. *)
DecideByScoreOnly(q, bestScore, bestUser) ==
  IF bestUser = NoName THEN Reject("no_match")
  ELSE IF bestScore < Threshold(q.threshold) THEN Reject("below_threshold")
  ELSE Accept(bestUser)

(* What the function answers once the scan has found bestUser at bestScore. *)
Decide(q, bestScore, bestUser) ==
  IF q.hint # NoName /\ q.hint \notin q.users THEN Reject("unknown_user")
  ELSE IF q.hint \in q.users /\ bestUser \notin {NoName, q.hint}
  THEN Reject("other_user")
  ELSE IF bestUser = NoName THEN Reject("no_match")
  ELSE IF bestScore < Threshold(q.threshold) THEN Reject("below_threshold")
  ELSE Accept(bestUser)

-----------------------------------------------------------------------------
(* The promise, without a loop: of the first n faces, the first of the      *)
(* considered ones that score highest wins, if it scores above zero.       *)

IsFirstBestOf(q, n, i) ==
  /\ Considered(q, i) /\ Score(q, i) > 0
  /\ \A j \in 1 .. n :
       Considered(q, j) => /\ Score(q, j) <= Score(q, i)
                           /\ j < i => Score(q, j) < Score(q, i)

IsFirstBest(q, i) == IsFirstBestOf(q, Len(q.faces), i)

HasMatch(q)  == \E i \in 1 .. Len(q.faces) : IsFirstBest(q, i)
FirstBest(q) == CHOOSE i \in 1 .. Len(q.faces) : IsFirstBest(q, i)

Resolve(q) ==
  IF q.probe = NoFeature THEN Reject("empty_probe")
  ELSE IF HasMatch(q)
       THEN Decide(q, Score(q, FirstBest(q)), q.faces[FirstBest(q)].user)
       ELSE Decide(q, 0, NoName)

(* Some enrolled face of the user matches the probe well enough. *)
Matches(q, user) ==
  \E i \in 1 .. Len(q.faces) :
    q.faces[i].user = user /\ Score(q, i) >= Threshold(q.threshold)
=============================================================================
