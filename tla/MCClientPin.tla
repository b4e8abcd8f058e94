---------------------------- MODULE MCClientPin ----------------------------
(* ClientPin with a short and a long PIN.                                  *)
EXTENDS ClientPin
CONSTANTS short, long
Lengths == [p \in Pins |-> IF p = short THEN 4 ELSE 6]
=============================================================================
