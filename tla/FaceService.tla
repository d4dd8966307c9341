----------------------------- MODULE FaceService -----------------------------
(***************************************************************************)
(* What the recognition manager promises the credential provider, without  *)
(* its threads, its processes and the fields they share: requests are      *)
(* served one after the other, in order, each answered once and in kind    *)
(* under its own session id; nothing is told of a recognition before one   *)
(* was started, and a SUCCESS is told only of somebody whose likeness was  *)
(* captured and who was asked for.                                         *)
(***************************************************************************)
EXTENDS Naturals, Sequences

CONSTANTS
  Name,      \* user names and the empty one
  NoName,    \* the empty name
  Feature,   \* what a recognizer can extract
  NoFeature, \* none
  Known,     \* the users in the database
  Likeness   \* the pairs of a feature and a user it matches

VARIABLES
  asked,     \* the requests, in the order they came
  served,    \* how many of them were taken
  busy,      \* the one taken last has no answer yet
  captured,  \* the features that recognizers extracted
  sent       \* what the credential provider was sent

ServiceVars == <<asked, served, busy, captured, sent>>

Init ==
  /\ asked = << >> /\ served = 0 /\ busy = FALSE
  /\ captured = {} /\ sent = {}

(* A status for the session of the request taken last. *)
Told(by, status, user, probe) ==
  [by |-> by, status |-> status, user |-> user, session |-> served,
   probe |-> probe]

Ask ==
  /\ \E type \in {"START", "CANCEL", "QUERY", "GET_PASSWORD"}, hint \in Name :
       asked' = Append(asked, [type |-> type, hint |-> hint])
  /\ UNCHANGED <<served, busy, captured, sent>>

Take ==
  /\ ~ busy /\ served < Len(asked)
  /\ served' = served + 1 /\ busy' = TRUE
  /\ UNCHANGED <<asked, captured, sent>>

Tell(m) == sent' = sent \cup {m}

(* The answer to the request in hand. *)
InKind(request) ==
  \/ /\ request.type = "START"
     /\ \E status \in {"RECOGNIZING", "RECOGNITION_ERROR"} :
          Tell(Told("cp", status, NoName, NoFeature))
  \/ /\ request.type = "CANCEL"
     /\ Tell(Told("cp", "IDLE", NoName, NoFeature))
  \/ /\ request.type = "QUERY"
     /\ \E status \in {"RECOGNIZING", "IDLE"}, user \in Name :
          Tell(Told("cp", status, user, NoFeature))
  \/ /\ request.type = "GET_PASSWORD"
     /\ \E found \in {FALSE, request.hint \in Known} :
          Tell([by |-> "password", session |-> served, user |-> request.hint,
                found |-> found])

Answer ==
  /\ busy /\ busy' = FALSE
  /\ InKind(asked[served])
  /\ UNCHANGED <<asked, served, captured>>

(* A recognizer that a CANCEL ends is announced first. *)
TellEnd ==
  /\ busy /\ asked[served].type = "CANCEL"
  /\ Tell(Told("cp", "PROCESS_ENDED", NoName, NoFeature))
  /\ UNCHANGED <<asked, served, busy, captured>>

(* Recognizers run from the first START on. *)
Started == \E i \in 1 .. served : asked[i].type = "START"

Capture ==
  /\ Started
  /\ \E f \in Feature : captured' = captured \cup {f}
  /\ UNCHANGED <<asked, served, busy, sent>>

AskedFor(user) ==
  \E i \in 1 .. served : asked[i].hint \in {user, NoName}

(* What became of a recognition, while requests come and go. *)
TellSuccess ==
  /\ Started
  /\ \E f \in captured, user \in Name :
       /\ <<f, user>> \in Likeness /\ AskedFor(user)
       /\ Tell(Told("fr", "SUCCESS", user, f))
  /\ UNCHANGED <<asked, served, busy, captured>>

TellOther ==
  /\ Started
  /\ \E status \in {"RECOGNIZING", "TIMEOUT", "RECOGNITION_ERROR"}, user \in Name :
       Tell(Told("fr", status, user, NoFeature))
  /\ UNCHANGED <<asked, served, busy, captured>>

Next ==
  Ask \/ Take \/ Answer \/ TellEnd \/ Capture \/ TellSuccess \/ TellOther

Spec == Init /\ [][Next]_ServiceVars
=============================================================================
