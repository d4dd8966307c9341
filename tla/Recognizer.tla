----------------------------- MODULE Recognizer -----------------------------
(***************************************************************************)
(* What the service relies on in a recognizer process: it says that it     *)
(* scans, then reports at most one feature or that it gave up, and may die *)
(* without a word at any moment.  These are the four recognizer actions of *)
(* SUService, for one process and without the loss of datagrams.           *)
(***************************************************************************)
EXTENDS Sequences

CONSTANTS Feature, NoFeature

VARIABLES
  state,  \* "started", "scanning", "leaving" or "gone"
  out     \* the reports sent

RecognizerVars == <<state, out>>

Says(status, feature) ==
  out' = Append(out, [status |-> status, feature |-> feature])

Init == state = "started" /\ out = << >>

BeginScan ==
  /\ state = "started" /\ state' = "scanning"
  /\ Says("RECOGNIZING", NoFeature)

Recognize ==
  /\ state = "scanning" /\ state' = "leaving"
  /\ \E f \in Feature : Says("SUCCESS", f)

GiveUp ==
  /\ state = "scanning" /\ state' = "gone"
  /\ Says("TIMEOUT", NoFeature)

Exit ==
  /\ state # "gone" /\ state' = "gone"
  /\ UNCHANGED out

Next == BeginScan \/ Recognize \/ GiveUp \/ Exit

Spec == Init /\ [][Next]_RecognizerVars
=============================================================================
