----------------------------- MODULE ResolveLoop -----------------------------
(***************************************************************************)
(* resolve_recognized_username as the loop the code runs: one step per     *)
(* enrolled face, keeping the best similarity so far and whose it is       *)
(* (face_recognition.cppm).  The query does not change while the loop      *)
(* runs: the users and faces are the copy GetUserByUsername or             *)
(* GetAllUsers returned before it.                                         *)
(***************************************************************************)
EXTENDS FaceMatch

CONSTANT Queries  \* the queries the loop is started on
ASSUME QueriesAssumption == Queries \subseteq Query

VARIABLES
  query,      \* what is being resolved
  next,       \* index of the next face to look at
  bestScore,  \* best_similarity
  bestUser,   \* best_username
  answer      \* the result, Pending until the function returns

vars == <<query, next, bestScore, bestUser, answer>>

Pending == [user |-> NoName, error |-> "pending"]

Answer ==
  [user : Name,
   error : {"none", "pending", "empty_probe", "unknown_user", "other_user",
            "no_match", "below_threshold"}]

TypeOK ==
  /\ query \in Query
  /\ next \in 1 .. Len(query.faces) + 1
  /\ bestScore \in 0 .. 100
  /\ bestUser \in Name
  /\ answer \in Answer

Init ==
  /\ query \in Queries
  /\ next = 1
  /\ bestScore = 0
  /\ bestUser = NoName
  /\ answer = Pending

(* probe_feature.empty(): nothing is compared *)
RejectEmptyProbe ==
  /\ answer = Pending
  /\ query.probe = NoFeature
  /\ answer' = Reject("empty_probe")
  /\ UNCHANGED <<query, next, bestScore, bestUser>>

(* Mutants of Better: a tie goes to the later face; the scan is not         *)
(* narrowed to the hinted user; the first face is kept whatever it scores.  *)
BetterOrEqual(i) == Considered(query, i) /\ Score(query, i) >= bestScore /\ Score(query, i) > 0
BetterOfAnyone(i) == Score(query, i) > bestScore
BetterOrFirst(i) == Considered(query, i) /\ (bestUser = NoName \/ Score(query, i) > bestScore)

(* similarity > best_similarity, for a face the loop looks at *)
Better(i) == Considered(query, i) /\ Score(query, i) > bestScore

Looking == answer = Pending /\ query.probe # NoFeature

(* One turn of the loop in compare_user_faces. *)
Visit ==
  /\ Looking
  /\ next <= Len(query.faces)
  /\ next' = next + 1
  /\ IF Better(next)
     THEN /\ bestScore' = Score(query, next)
          /\ bestUser' = query.faces[next].user
     ELSE UNCHANGED <<bestScore, bestUser>>
  /\ UNCHANGED <<query, answer>>

(* After the scan: the hint, then the threshold. *)
Return ==
  /\ Looking
  /\ next = Len(query.faces) + 1
  /\ answer' = Decide(query, bestScore, bestUser)
  /\ UNCHANGED <<query, next, bestScore, bestUser>>

Next == RejectEmptyProbe \/ Visit \/ Return

Spec == Init /\ [][Next]_vars /\ WF_vars(Next)

-----------------------------------------------------------------------------
(* A name is answered only if it is the hinted user's, when a hint was     *)
(* given, and one of that user's own enrolled faces reaches the threshold; *)
(* nobody else's face that was looked at scores higher.  A wrong order of  *)
(* the checks, or a best score kept from another user's face, breaks it    *)
(* (resolve_recognized_username).                                          *)
AcceptedIsMatched ==
  answer.user # NoName =>
    /\ \/ query.hint = NoName
       \/ query.hint = answer.user /\ query.hint \in query.users
    /\ Matches(query, answer.user)

(* What the loop has kept is the first best of the faces it has seen. *)
PrefixBest ==
  \/ /\ bestScore = 0 /\ bestUser = NoName
     /\ \A j \in 1 .. next - 1 : Considered(query, j) => Score(query, j) <= 0
  \/ \E i \in 1 .. next - 1 :
       /\ IsFirstBestOf(query, next - 1, i)
       /\ bestScore = Score(query, i)
       /\ bestUser = query.faces[i].user

(* A returned answer is the promised one. *)
AnswerIsResolved == answer # Pending => answer = Resolve(query)

(***************************************************************************)
(* The abstract specification: one step that gives the promised answer.    *)
(***************************************************************************)
Oracle == INSTANCE MatchOracle

(* The loop does what MatchOracle promises: the answer appears once, and   *)
(* it is Resolve(query), the first best of the considered faces put        *)
(* through the checks; it does appear (resolve_recognized_username).       *)
RefinesOracle == Oracle!Spec
=============================================================================
