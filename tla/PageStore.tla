----------------------------- MODULE PageStore -----------------------------
(***************************************************************************)
(* What the page cache of low_flash.c promises to its callers: a memory of *)
(* sectors that a write updates at once, whose sectors reach the chip one  *)
(* at a time, each through an erase and a program, and that falls back to  *)
(* the chip's contents when the power goes.                                *)
(***************************************************************************)
CONSTANTS Sectors,   \* addresses of the flash sectors of the data pool
          Offsets,   \* offsets inside a sector
          Bytes,     \* what an offset may hold
          Erased     \* the byte an erased sector shows at every offset

VARIABLES mem,       \* what a reader of the store sees
          durable    \* what the chip holds

vars == <<mem, durable>>

Content == [Offsets -> Bytes]
Blank == [o \in Offsets |-> Erased]

\* The chip a device may wake up with is any one.
Init == /\ durable \in [Sectors -> Content]
        /\ mem = durable

Write(s, o, b) == /\ mem' = [mem EXCEPT ![s][o] = b]
                  /\ UNCHANGED durable

\* Committing a sector blanks it first and then programs what readers see.
Erase(s) == /\ durable' = [durable EXCEPT ![s] = Blank]
            /\ UNCHANGED mem

Program(s) == /\ durable' = [durable EXCEPT ![s] = mem[s]]
              /\ UNCHANGED mem

PowerCut == /\ mem' = durable
            /\ UNCHANGED durable

Next == \/ \E s \in Sectors : \/ \E o \in Offsets, b \in Bytes : Write(s, o, b)
                              \/ Erase(s)
                              \/ Program(s)
        \/ PowerCut

Spec == Init /\ [][Next]_vars
=============================================================================
