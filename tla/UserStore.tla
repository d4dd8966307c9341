------------------------------ MODULE UserStore ------------------------------
(* The account database: the tables "users" and "faces" of Database         *)
(* (database.cppm) behind the checks of BackendService (service.cppm).      *)
(*                                                                          *)
(* A table maps the ids of its rows to the rows.  A text is the sequence of *)
(* the pieces that its '|' characters separate, so that the texts the GUI's *)
(* pipe joins and splits are the ones stored here: <<a>> is a text without  *)
(* a '|', <<a, b>> stands for "a|b", and the empty text is <<Blank>>.       *)
(*                                                                          *)
(* Every operation says whether it succeeded, as the C++ methods do.  One   *)
(* that passes every check may still fail: the key file may be unreadable,  *)
(* the capture may give no feature, or the write may meet SQLITE_BUSY       *)
(* because a recognition is reading.                                        *)
EXTENDS Integers, Sequences

CONSTANTS
  Piece,     \* the pieces of texts
  Blank,     \* the empty piece
  UserId,    \* ids of rows of users, 1..n
  FaceId,    \* ids of rows of faces, 1..n
  Earlier    \* contents of the tables to start from

ASSUME StoreAssumption ==
  Blank \in Piece /\ UserId \subseteq Nat \ {0} /\ FaceId \subseteq Nat \ {0}

VARIABLES
  users,     \* id -> [username, password, remark]
  faces      \* id -> [user_id, remark]

store == <<users, faces>>

Text == Seq(Piece) \ {<< >>}
Empty == <<Blank>>

-----------------------------------------------------------------------------
(* Tables.                                                                  *)

(* The id SQLite gives to a new row of an INTEGER PRIMARY KEY table without *)
(* AUTOINCREMENT: one more than the largest in use, so the id of the last   *)
(* row is used again when that row is deleted.                              *)
IsNewId(id, used) ==
  /\ \A other \in used : other < id
  /\ id = 1 \/ id - 1 \in used

With(table, id, row) ==
  [k \in DOMAIN table \union {id} |-> IF k = id THEN row ELSE table[k]]

Without(table, ids) == [k \in DOMAIN table \ ids |-> table[k]]

FacesOf(id) == {f \in DOMAIN faces : faces[f].user_id = id}

(* GetUserByUsername found a row other than the one being written; also     *)
(* the UNIQUE constraint of the column.                                     *)
NameTaken(username, id) ==
  \E other \in DOMAIN users \ {id} : users[other].username = username

-----------------------------------------------------------------------------
(* The operations.                                                          *)

AddUser(ok, username, password, remark) ==
  IF ok
  THEN /\ username # Empty /\ password # Empty
       /\ \E id \in UserId :
            /\ IsNewId(id, DOMAIN users)
            /\ ~NameTaken(username, id)
            /\ users' = With(users, id, [username |-> username,
                                         password |-> password,
                                         remark   |-> remark])
       /\ UNCHANGED faces
  ELSE UNCHANGED store

(* A mutant of UpdateUser: the row is written by INSERT OR REPLACE, which    *)
(* deletes the old one and with it its faces.                               *)
ReplacesRow(ok, id, username, password, remark) ==
  IF ok
  THEN /\ id \in DOMAIN users
       /\ username # Empty
       /\ ~NameTaken(username, id)
       /\ LET kept == IF password = Empty THEN users[id].password ELSE password
          IN  users' = [users EXCEPT ![id] = [username |-> username,
                                              password |-> kept,
                                              remark   |-> remark]]
       /\ faces' = Without(faces, FacesOf(id))
  ELSE UNCHANGED store

(* An empty password means: keep the one the account has.                   *)
UpdateUser(ok, id, username, password, remark) ==
  IF ok
  THEN /\ id \in DOMAIN users
       /\ username # Empty
       /\ ~NameTaken(username, id)
       /\ LET kept == IF password = Empty THEN users[id].password ELSE password
          IN  users' = [users EXCEPT ![id] = [username |-> username,
                                              password |-> kept,
                                              remark   |-> remark]]
       /\ UNCHANGED faces
  ELSE UNCHANGED store

(* A mutant of DeleteUser: foreign keys are not switched on.                *)
DeleteWithoutCascade(ok, id) ==
  IF ok
  THEN id \in DOMAIN users /\ users' = Without(users, {id}) /\ UNCHANGED faces
  ELSE UNCHANGED store

(* ON DELETE CASCADE takes the faces with the user.                         *)
DeleteUser(ok, id) ==
  IF ok
  THEN /\ id \in DOMAIN users
       /\ users' = Without(users, {id})
       /\ faces' = Without(faces, FacesOf(id))
  ELSE UNCHANGED store

(* CaptureAndAddFace: the user exists, a feature was captured, and the row  *)
(* is written (the foreign key holds: one thread writes).                   *)
AddFace(ok, id, remark) ==
  IF ok
  THEN /\ id \in DOMAIN users
       /\ \E f \in FaceId :
            /\ IsNewId(f, DOMAIN faces)
            /\ faces' = With(faces, f, [user_id |-> id, remark |-> remark])
       /\ UNCHANGED users
  ELSE UNCHANGED store

DeleteFace(ok, id, face) ==
  IF ok
  THEN /\ face \in FacesOf(id)
       /\ faces' = Without(faces, {face})
       /\ UNCHANGED users
  ELSE UNCHANGED store

-----------------------------------------------------------------------------
StoreTypeOK ==
  /\ DOMAIN users \subseteq UserId
  /\ DOMAIN faces \subseteq FaceId
  /\ \A id \in DOMAIN users :
       users[id] \in [username : Text, password : Text, remark : Text]
  /\ \A f \in DOMAIN faces : faces[f] \in [user_id : UserId, remark : Text]

(* No two accounts share a name, every account can be signed in to (it has  *)
(* a name and a password), and no face outlives its account: a row of faces *)
(* left behind by DeleteUser would belong to the next account that gets the *)
(* same id, and its face would open that account.                           *)
StoreInv ==
  /\ \A i, j \in DOMAIN users :
       users[i].username = users[j].username => i = j
  /\ \A i \in DOMAIN users :
       users[i].username # Empty /\ users[i].password # Empty
  /\ \A f \in DOMAIN faces : faces[f].user_id \in DOMAIN users

-----------------------------------------------------------------------------
(* The tables on their own.                                                 *)

(* The tables as earlier use has left them.                                 *)
StoreInit ==
  /\ \E tables \in Earlier : users = tables[1] /\ faces = tables[2]
  /\ StoreTypeOK /\ StoreInv

StoreNext ==
  \E ok \in BOOLEAN :
    \/ \E n, p, r \in Text : AddUser(ok, n, p, r)
    \/ \E id \in UserId, n, p, r \in Text : UpdateUser(ok, id, n, p, r)
    \/ \E id \in UserId : DeleteUser(ok, id)
    \/ \E id \in UserId, r \in Text : AddFace(ok, id, r)
    \/ \E id \in UserId, f \in FaceId : DeleteFace(ok, id, f)

StoreSpec == StoreInit /\ [][StoreNext]_store

(* The tables as the directory of accounts they stand for.                  *)
Account(id) ==
  [name |-> users[id].username, password |-> users[id].password,
   remark |-> users[id].remark, faces |-> FacesOf(id)]

TheDirectory ==
  INSTANCE Directory WITH accounts <- {Account(id) : id \in DOMAIN users}

(* The tables and their checks implement the directory: an account gets its *)
(* first face by an enrolment of its own, an edit keeps its faces, and      *)
(* deleting it deletes it (BackendService and Database together).           *)
RefinesDirectory == TheDirectory!Spec
=============================================================================
