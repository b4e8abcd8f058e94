---------------------------- MODULE MCFlashFiles ----------------------------
(* Three sectors of five cells, the sentinel in the last but one cell of the  *)
(* third, headers of one cell, files of no, one and two bytes, of a sector and  *)
(* of more than one.                                                            *)
EXTENDS FlashFiles, TLC
CONSTANTS x
Bytes(n) == [i \in 1..n |-> x]
MCContents == {Bytes(n) : n \in {0, 1, 2, SECTOR, SECTOR + 1}}
=============================================================================
