------------------------------ MODULE PinGuard ------------------------------
(***************************************************************************)
(* What the PIN promises: an attempt costs a retry, which only the right   *)
(* PIN gives back; the PIN is changed, and a token comes into use, only    *)
(* after the right PIN was shown; and without retries nothing helps but a  *)
(* reset, or the power if it takes back what was not kept yet.             *)
(***************************************************************************)
EXTENDS Integers

CONSTANTS Pins, NoPin, Max

VARIABLES
  stored,    \* the PIN and the retries left
  kept,      \* what the power leaves of them
  wiped,     \* a reset is not kept yet
  attempt,   \* the PIN that is being tried, or NoPin
  shown,     \* the right one was, and nothing was done with it yet
  open       \* a token that the host holds is in use

vars == <<stored, kept, wiped, attempt, shown, open>>

Blank == [pin |-> NoPin, retries |-> 0]

Init == /\ stored = Blank /\ kept = Blank /\ wiped = FALSE
        /\ attempt = NoPin /\ shown = FALSE /\ open = FALSE

SetPin(p) == /\ stored.pin = NoPin
             /\ stored' = [pin |-> p, retries |-> Max]
             /\ UNCHANGED <<kept, wiped, attempt, shown, open>>

Try(p) == /\ attempt = NoPin /\ ~shown
          /\ stored.pin # NoPin /\ stored.retries > 0
          /\ stored' = [stored EXCEPT !.retries = stored.retries - 1]
          /\ attempt' = p
          /\ UNCHANGED <<kept, wiped, shown, open>>

\* The right PIN may still be refused: it must be changed, or not to this one.
Show == /\ attempt # NoPin /\ attempt = stored.pin
        /\ stored' = [stored EXCEPT !.retries = Max]
        /\ attempt' = NoPin
        /\ shown' \in BOOLEAN
        /\ UNCHANGED <<kept, wiped, open>>

\* A wrong PIN, one that cannot be read, a command that is cut short.
Fail == /\ attempt' = NoPin /\ shown' = FALSE
        /\ UNCHANGED <<stored, kept, wiped, open>>

Change(p) == /\ shown
             /\ stored' = [pin |-> p, retries |-> Max]
             /\ shown' = FALSE
             /\ UNCHANGED <<kept, wiped, attempt, open>>

Open == /\ shown
        /\ open' = TRUE /\ shown' = FALSE
        /\ UNCHANGED <<stored, kept, wiped, attempt>>

Close == /\ open' = FALSE
         /\ UNCHANGED <<stored, kept, wiped, attempt, shown>>

\* A token in use stays so until the next one is drawn.
Reset == /\ stored' = Blank /\ wiped' = TRUE
         /\ UNCHANGED <<kept, attempt, shown, open>>

Keep == /\ kept' = stored \/ (wiped /\ kept' = Blank)
        /\ wiped' = FALSE
        /\ UNCHANGED <<stored, attempt, shown, open>>

Power == /\ stored' = kept /\ wiped' = FALSE
         /\ attempt' = NoPin /\ shown' = FALSE /\ open' = FALSE
         /\ UNCHANGED kept

Next == \/ \E p \in Pins : SetPin(p) \/ Try(p) \/ Change(p)
        \/ Show \/ Fail \/ Open \/ Close \/ Reset \/ Keep \/ Power

Spec == Init /\ [][Next]_vars
=============================================================================
