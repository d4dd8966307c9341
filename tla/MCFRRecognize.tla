---------------------------- MODULE MCFRRecognize ----------------------------
(* Values for the constants of FRRecognize: one frame for each way through  *)
(* the loop, a feature that is seen on a real face and one that never is.  *)
EXTENDS FRRecognize

CONSTANTS real, fake, none, noframe

Shot(face, extracts, isReal, feature) ==
  [face |-> face, extracts |-> extracts, real |-> isReal, feature |-> feature]

MCFrame ==
  {Shot(FALSE, FALSE, FALSE, none), Shot(TRUE, FALSE, TRUE, none),
   Shot(TRUE, TRUE, TRUE, none), Shot(TRUE, TRUE, TRUE, real),
   Shot(TRUE, TRUE, FALSE, real), Shot(TRUE, TRUE, FALSE, fake)}
=============================================================================
