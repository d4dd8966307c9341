------------------------------- MODULE Attempts -------------------------------
(***************************************************************************)
(* What a credential promises LogonUI about its attempts to recognize a    *)
(* user, without threads, locks and flags: they come one after the other,  *)
(* and each goes its way once.  It gets a service for itself unless one of *)
(* its own runs, asks, fills in the password and announces it.  An attempt *)
(* that is not the latest task any more is granted neither a request nor a *)
(* password; one that is announces only a password that is there.          *)
(***************************************************************************)
EXTENDS Naturals

CONSTANT
  Task     \* names of tasks, in their order: attempts, and stops between

VARIABLES
  last,       \* the latest task
  phase,      \* how far each attempt is
  filled,     \* the password field holds something
  announced,  \* LogonUI was told of a ready credential
  services    \* the services that run and were created by an attempt

AttemptVars == <<last, phase, filled, announced, services>>

UnderWay == {g \in Task : phase[g] \notin {"none", "done"}}

Init ==
  /\ last = 0 /\ phase = [g \in Task |-> "none"]
  /\ filled = FALSE /\ announced = FALSE
  /\ services = {}

Begin ==
  /\ UnderWay = {} /\ last + 1 \in Task
  /\ last' = last + 1
  /\ phase' = [phase EXCEPT ![last + 1] = "launching"]
  /\ UNCHANGED <<filled, announced, services>>

(* A stop is a later task. *)
Retire ==
  /\ last + 1 \in Task
  /\ last' = last + 1
  /\ UNCHANGED <<phase, filled, announced, services>>

GoesOn(g, from, to) ==
  /\ phase[g] = from
  /\ phase' = [phase EXCEPT ![g] = to]

Reuse(g) ==
  /\ GoesOn(g, "launching", "launched")
  /\ UNCHANGED <<last, filled, announced, services>>

Create(g) ==
  /\ GoesOn(g, "launching", "launched")
  /\ services = {} /\ services' = {g}
  /\ UNCHANGED <<last, filled, announced>>

Ask(g) ==
  /\ last = g /\ GoesOn(g, "launched", "asking")
  /\ UNCHANGED <<last, filled, announced, services>>

(* The user was recognized and the password obtained. *)
Grant(g) ==
  /\ last = g /\ GoesOn(g, "asking", "granted")
  /\ UNCHANGED <<last, filled, announced, services>>

Fill(g) ==
  /\ GoesOn(g, "granted", "filled")
  /\ filled' = TRUE
  /\ UNCHANGED <<last, announced, services>>

(* What is announced is there, unless a stop has come since. *)
Announce(g) ==
  /\ last = g => filled
  /\ GoesOn(g, "filled", "over")
  /\ announced' = TRUE
  /\ UNCHANGED <<last, filled, services>>

GiveUp(g) ==
  /\ \E from \in {"launching", "launched", "asking"} : GoesOn(g, from, "over")
  /\ UNCHANGED <<last, filled, announced, services>>

End(g) ==
  /\ GoesOn(g, "over", "done")
  /\ UNCHANGED <<last, filled, announced, services>>

(* A stop hides what was filled in. *)
Clear ==
  /\ last \notin UnderWay
  /\ filled' = FALSE
  /\ UNCHANGED <<last, phase, announced, services>>

(* LogonUI has seen the announcement, or does not want it any more. *)
Hide ==
  /\ announced' = FALSE
  /\ UNCHANGED <<last, phase, filled, services>>

(* The service is terminated or exits. *)
ServiceGoes ==
  /\ services' = {}
  /\ UNCHANGED <<last, phase, filled, announced>>

Next ==
  \/ Hide \/ Clear \/ ServiceGoes \/ Retire \/ Begin
  \/ \E g \in UnderWay :
       \/ Reuse(g) \/ Create(g) \/ Ask(g) \/ Grant(g) \/ Fill(g) \/ Announce(g)
       \/ GiveUp(g) \/ End(g)

Spec == Init /\ [][Next]_AttemptVars
=============================================================================
