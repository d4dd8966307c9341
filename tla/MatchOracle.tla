----------------------------- MODULE MatchOracle -----------------------------
(***************************************************************************)
(* What the callers of resolve_recognized_username rely on: a pending      *)
(* query is answered once, in one step, with Resolve(query).               *)
(***************************************************************************)
EXTENDS FaceMatch

VARIABLES query, answer

OracleVars == <<query, answer>>

Unanswered == [user |-> NoName, error |-> "pending"]

Init == query \in Query /\ answer = Unanswered

Give ==
  /\ answer = Unanswered
  /\ answer' = Resolve(query)
  /\ UNCHANGED query

Spec == Init /\ [][Give]_OracleVars /\ WF_OracleVars(Give)
=============================================================================
