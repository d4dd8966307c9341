---------------------------- MODULE MCSUService ----------------------------
(* Values for the constants of SUService: alice is enrolled, the          *)
(* recognizers see her face or a stranger's.                               *)
EXTENDS SUService

CONSTANTS alice, garbled, nobody, fa, fx, none

MCCosine ==
  [p \in Face \X Face |-> IF p[1] = p[2] THEN 95 ELSE 20]

Good(f) == [decodes |-> TRUE, dim |-> 1024, finite |-> TRUE, zero |-> FALSE, face |-> f]

MCFeature == {Good(fa), Good(fx)}

MCFaces == <<[user |-> alice, feature |-> Good(fa)]>>
=============================================================================
