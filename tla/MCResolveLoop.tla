--------------------------- MODULE MCResolveLoop ---------------------------
(* Values for the constants of ResolveLoop: every query with at most       *)
(* MaxFaces enrolled faces of two users.                                   *)
EXTENDS ResolveLoop, SequencesExt

CONSTANTS alice, bob, nobody, f1, f2, f3, none, MaxFaces

(* f1 is recognized, f2 passes the configured threshold 40 but not the      *)
(* default 62, f3 is unlike the other two.                                 *)
MCCosine ==
  [p \in Face \X Face |->
     IF p[1] = p[2] THEN 95 ELSE IF f3 \in {p[1], p[2]} THEN -10 ELSE 50]

Good(f) == [decodes |-> TRUE, dim |-> 1024, finite |-> TRUE, zero |-> FALSE, face |-> f]

MCFeature ==
  {Good(f) : f \in Face} \cup {[Good(f1) EXCEPT !.dim = 64]}

UserByUser(faces) ==
  \A i, j, k \in DOMAIN faces :
    i < j /\ j < k /\ faces[i].user = faces[k].user => faces[j].user = faces[i].user

MCFaces == {s \in SeqOf(Enrolled, MaxFaces) : UserByUser(s)}

Owners(faces) == {faces[i].user : i \in DOMAIN faces}

(* Every snapshot of the database: the faces and the users they belong to,  *)
(* with and without further users who have no face.                        *)
Snapshots ==
  {x \in (SUBSET User) \X MCFaces : Owners(x[2]) \subseteq x[1]}

MCQueries ==
  {[users |-> x[1], faces |-> x[2], hint |-> h, probe |-> p, threshold |-> t] :
     x \in Snapshots, h \in Name, p \in {Good(f1), NoFeature}, t \in {0, 40}}
=============================================================================
