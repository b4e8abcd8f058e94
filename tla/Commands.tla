------------------------------ MODULE Commands ------------------------------
(***************************************************************************)
(* What the way of a command through the two cores promises to hosts that  *)
(* wait for their answers: there is one request at a time, core 1 takes it *)
(* up once and ends it once, and the answer goes to who asked.  A client   *)
(* that gave up on a request may ask anew; the old one is then dropped,    *)
(* if its answer has not come before.                                      *)
(***************************************************************************)
CONSTANT Clients

VARIABLES
  stage,       \* how far the request of each client has come
  quit         \* the clients that do not wait any more

vars == <<stage, quit>>

Init == stage = [c \in Clients |-> "free"] /\ quit = {}

Move(c, from, to) == stage[c] = from /\ stage' = [stage EXCEPT ![c] = to]

Ask(c) ==
  /\ stage[c] = "free" \/ c \in quit
  /\ \A d \in Clients \ {c} : stage[d] = "free"
  /\ stage' = [stage EXCEPT ![c] = "asked"]
  /\ quit' = quit \ {c}

Take(c) == Move(c, "asked", "taken") /\ UNCHANGED quit
End(c) == Move(c, "taken", "done") /\ UNCHANGED quit
Answer(c) == Move(c, "done", "free") /\ quit' = quit \ {c}

\* Only a request that core 1 has taken up can be given up.
GiveUp(c) ==
  /\ stage[c] = "taken"
  /\ quit' = quit \cup {c}
  /\ UNCHANGED stage

Drop(c) ==
  /\ c \in quit
  /\ Move(c, "taken", "dropped") \/ Move(c, "done", "dropped")
  /\ UNCHANGED quit

Next == \E c \in Clients :
          Ask(c) \/ Take(c) \/ End(c) \/ Answer(c) \/ GiveUp(c) \/ Drop(c)

Spec == Init /\ [][Next]_vars
=============================================================================
