------------------------------ MODULE MCSignIn -------------------------------
(* The people of SignIn: two users, of whom the tile names the first or     *)
(* nobody.                                                                  *)
EXTENDS SignIn

CONSTANTS ann, bob
=============================================================================
