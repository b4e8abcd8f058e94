------------------------------ MODULE Accounts ------------------------------
(***************************************************************************)
(* What the store of discoverable credentials promises, whatever ids are   *)
(* alike: it holds accounts, and changes by one account at a time or by a  *)
(* reset; and a power cut leaves the accounts that are kept.               *)
(***************************************************************************)
CONSTANTS Rps,           \* relying parties
          Users,         \* user ids
          Alike(_, _)    \* user ids one of which may take the other's place

VARIABLES accounts,      \* pairs of a relying party and a user id
          kept           \* those that a power cut leaves

vars == <<accounts, kept>>

Init == accounts = {} /\ kept = {}

\* A new account takes the place of one like it, which is lost, or of none; or
\* it finds no room where it would take the place, and both are lost.
Register(r, u) ==
  /\ \/ accounts' = accounts \cup {<<r, u>>}
     \/ \E a \in accounts :
          /\ a[1] = r /\ Alike(a[2], u)
          /\ \/ accounts' = (accounts \ {a}) \cup {<<r, u>>}
             \/ accounts' = accounts \ {a}
  /\ UNCHANGED kept

Remove(a) == accounts' = accounts \ {a} /\ UNCHANGED kept

Reset == accounts' = {} /\ UNCHANGED kept

\* One account more is kept, one less, or one in the place of another.
Keep == /\ \E a \in accounts \cup kept, b \in accounts \cup kept :
             kept' \in {kept \cup (accounts \cap {a}), kept \ {b},
                       (kept \ {b}) \cup (accounts \cap {a})}
        /\ UNCHANGED accounts

\* After a reset none is.
KeepNone == accounts = {} /\ kept' = {} /\ UNCHANGED accounts

PowerCut == accounts' = kept /\ UNCHANGED kept

Next == \/ \E r \in Rps, u \in Users : Register(r, u)
        \/ \E a \in accounts : Remove(a)
        \/ Reset \/ Keep \/ KeepNone \/ PowerCut

Spec == Init /\ [][Next]_vars
=============================================================================
