------------------------------ MODULE Directory ------------------------------
(* What the account database of Smile2Unlock promises, without its tables,  *)
(* its row ids and the order of its checks: a set of accounts, each with a  *)
(* name no other account has, a password, a remark and a number of faces    *)
(* that belong to it alone and go away with it.                             *)

VARIABLE accounts   \* a set of [name, password, remark, faces]

Init == \A a, b \in accounts : a.name = b.name => a = b

NameFree(name, others) == \A a \in others : a.name # name

(* A new account has a name of its own and no face yet. *)
Add(new) ==
  /\ NameFree(new.name, accounts)
  /\ new.faces = {}
  /\ accounts' = accounts \union {new}

(* An account is renamed, or given a new password or remark: it keeps its   *)
(* faces and no other account changes.                                      *)
Change(old, new) ==
  /\ NameFree(new.name, accounts \ {old})
  /\ new.faces = old.faces
  /\ accounts' = (accounts \ {old}) \union {new}

Remove(old) == accounts' = accounts \ {old}

(* One account gains a face that no account has. *)
Enrol(old, new) ==
  /\ new = [old EXCEPT !.faces = new.faces]
  /\ \E f \in new.faces :
       /\ new.faces = old.faces \union {f}
       /\ \A a \in accounts : f \notin a.faces
  /\ accounts' = (accounts \ {old}) \union {new}

(* One account loses one of its faces. *)
Forget(old, new) ==
  /\ new = [old EXCEPT !.faces = new.faces]
  /\ \E f \in old.faces : new.faces = old.faces \ {f}
  /\ accounts' = (accounts \ {old}) \union {new}

Next ==
  \/ \E new \in accounts' : Add(new)
  \/ \E old \in accounts : Remove(old)
  \/ \E old \in accounts, new \in accounts' :
       Change(old, new) \/ Enrol(old, new) \/ Forget(old, new)

Spec == Init /\ [][Next]_accounts
=============================================================================
