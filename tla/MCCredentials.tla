--------------------------- MODULE MCCredentials ---------------------------
(* Two relying parties and four users; the id of one begins with that of  *)
(* another.                                                                *)
EXTENDS Credentials, TLC
CONSTANTS u1, u12, u2, u3
MCAlike(u, v) == u = v \/ {u, v} = {u1, u12}
\* Two ids that begin with a third.
MCBeginsWith(u, v) == u = v \/ u1 \in {u, v}
\* u1 and u12 are alike, in both directions, and are both protected.
Symmetry == {p @@ q @@ r : p \in Permutations(Rps), q \in Permutations({u1, u12}),
                           r \in Permutations({u2, u3})}
=============================================================================
