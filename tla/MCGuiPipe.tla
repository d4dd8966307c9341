------------------------------ MODULE MCGuiPipe ------------------------------
(* Values for the constants of GuiPipe: two names, one password and one     *)
(* remark without a '|' and one of each with one; tables with two accounts  *)
(* of which the second has a face.                                          *)
EXTENDS GuiPipe

CONSTANTS a, b, p, blank

MCNames     == {<<b>>, <<a, p>>}
MCPasswords == {<<p>>}
MCRemarks   == {<<a, b>>}

Row(name) == [username |-> <<name>>, password |-> <<p>>, remark |-> <<blank>>]

MCEarlier ==
  {<< <<Row(a), Row(b)>>, <<[user_id |-> 2, remark |-> <<blank>>]>> >>}
=============================================================================
