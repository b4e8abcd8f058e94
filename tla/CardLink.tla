------------------------------ MODULE CardLink ------------------------------
(***************************************************************************)
(* How a command gets to core 1 and its answer back: usb/usb.c, the        *)
(* commands of hid.c and ccid.c, the loops of cbor_thread and apdu_thread, *)
(* and the button dialogue of main.c and fido.c.  The two cores share two  *)
(* queues; the request itself stays in a buffer, one for the CBOR thread   *)
(* and one (apdu) for the APDU thread, whichever interface filled it.      *)
(*                                                                         *)
(* A step of core 0 is a packet, an event taken from card_to_usb_q, or the *)
(* end of the innermost wait_button, which calls usb_task from its loop: a *)
(* packet may come while a dialogue is open and may open another in it.    *)
(* A step of core 1 is what it does between two uses of a queue.           *)
(***************************************************************************)
EXTENDS Integers, Sequences

CONSTANTS
  QSIZE,       \* entries of a queue
  DEPTH,       \* bound: wait_button calls inside each other
  HostWaits    \* the hosts behave as WaitsFor says

ASSUME LinkAssumption ==
  QSIZE \in Nat \ {0} /\ DEPTH \in Nat \ {0} /\ HostWaits \in BOOLEAN

Itf == {"hid", "ccid"}
None == "none"      \* ITF_TOTAL
MaxRuns == 2        \* bound: of the count of runs

VARIABLES
  thread,      \* the function core 1 was started with, none after its return
  core1,       \* what core 1 does
  apduOf,      \* the interface whose request is in apdu
  running,     \* the interface whose request core 1 runs
  toCard,      \* usb_to_card_q
  toUsb,       \* card_to_usb_q
  locked,      \* card_locked_itf
  dialogs,     \* wait_button calls that have not returned
  cancel,      \* cancel_button
  powered,     \* ccid_status = 0
  asked,       \* auxiliary: the request an interface waits for an answer to
  runs         \* auxiliary: how often core 1 took up that request

queues == <<toCard, toUsb>>
card == <<thread, core1, apduOf, running>>
button == <<dialogs, cancel>>
vars == <<card, queues, locked, button, powered, asked, runs>>

Command == "EV_CMD_AVAILABLE"
Exit == "EV_EXIT"
Pressed == "EV_BUTTON_PRESSED"
TimedOut == "EV_BUTTON_TIMEOUT"
Press == [ev |-> "EV_PRESS_BUTTON", itf |-> None]
\* The event says nothing of the request it ends; the model tags it.
Finished(i) == [ev |-> "EV_EXEC_FINISHED", itf |-> i]
ToUsbEvent == {Press} \cup {Finished(i) : i \in Itf}

TypeOK ==
  /\ thread \in {"apdu", "cbor", None}
  /\ core1 \in {"off", "idle", "run", "button", "end"}
  /\ apduOf \in Itf /\ running \in Itf
  /\ toCard \in Seq({Command, Exit, Pressed, TimedOut}) /\ Len(toCard) <= QSIZE
  /\ toUsb \in Seq(ToUsbEvent) /\ Len(toUsb) <= QSIZE
  /\ locked \in Itf \cup {None}
  /\ dialogs \in 0..DEPTH /\ cancel \in BOOLEAN /\ powered \in BOOLEAN
  /\ asked \in [Itf -> {"no", "yes", "cancelled", "stopped"}]
  /\ runs \in [Itf -> 0..MaxRuns]

Init ==
  /\ thread = None /\ core1 = "off" /\ apduOf = "ccid" /\ running = "hid"
  /\ toCard = <<>> /\ toUsb = <<>>
  /\ locked = None /\ dialogs = 0 /\ cancel = FALSE /\ powered = FALSE
  /\ asked = [i \in Itf |-> "no"] /\ runs = [i \in Itf |-> 0]

\* queue_try_add
TryAdd(q, e) == IF Len(q) < QSIZE THEN Append(q, e) ELSE q

-----------------------------------------------------------------------------
(* Packets (core 0).                                                       *)

\* Fault: wait_button looks at another packet before it ends.
ListeningAlways == TRUE

\* The loop of wait_button ends before another packet is looked at.
Listening == dialogs = 0 \/ ~cancel
\* A host that waits asks nothing before the last request, of either interface,
\* is answered.  One that was told that the button is waited for (the status of
\* send_keepalive) and cancelled may go on over HID at once.
WaitsFor(i) ==
  /\ asked["ccid"] = "no"
  /\ asked["hid"] = "no" \/ (i = "hid" /\ asked["hid"] = "stopped")
MayAsk(i) == Listening /\ (HostWaits => WaitsFor(i))

\* Fault: card_start leaves card_to_usb_q as it is.
CardStartKeepsAnswers(f) ==
  /\ thread' = f /\ core1' = "idle"
  /\ UNCHANGED toUsb

\* card_start: both queues are drained and core 1 starts f from its beginning.
CardStart(f) ==
  /\ thread' = f /\ core1' = "idle"
  /\ toUsb' = <<>>

\* usb_event_handle after a packet that core 1 must run: the queue toCard was
\* q before.
HandOver(i, q) ==
  /\ Len(q) < QSIZE
  /\ toCard' = Append(q, Command)
  /\ locked' = i
  /\ asked' = [asked EXCEPT ![i] = "yes"]
  /\ runs' = [runs EXCEPT ![i] = 0]

\* Fault: card_start leaves usb_to_card_q as it is.
HidCborKeepsQueue ==
  /\ MayAsk("hid")
  /\ CardStart("cbor")
  /\ HandOver("hid", toCard)
  /\ UNCHANGED <<apduOf, running, button, powered>>
HidMsgKeepsQueue ==
  /\ MayAsk("hid")
  /\ CardStart("apdu")
  /\ apduOf' = "hid"
  /\ HandOver("hid", toCard)
  /\ UNCHANGED <<running, button, powered>>

HidCbor ==
  /\ MayAsk("hid")
  /\ CardStart("cbor")
  /\ HandOver("hid", <<>>)
  /\ UNCHANGED <<apduOf, running, button, powered>>

HidMsg ==
  /\ MayAsk("hid")
  /\ CardStart("apdu")
  /\ apduOf' = "hid"
  /\ HandOver("hid", <<>>)
  /\ UNCHANGED <<running, button, powered>>

\* A MSG that asks for the rest of a response: apdu_process answers at once,
\* yet core 1 was started again.
HidGetResponse ==
  /\ MayAsk("hid")
  /\ CardStart("apdu")
  /\ apduOf' = "hid"
  /\ toCard' = <<>>
  /\ UNCHANGED <<running, locked, button, powered, asked, runs>>

\* The CANCEL is answered with an error of its own.
HidCancel ==
  /\ Listening
  /\ asked["hid"] = "yes"
  /\ asked' = [asked EXCEPT !["hid"] = IF dialogs > 0 THEN "stopped" ELSE "cancelled"]
  /\ cancel' = TRUE
  /\ UNCHANGED <<card, queues, locked, dialogs, powered, runs>>

CcidPowerOn ==
  /\ MayAsk("ccid")
  /\ CardStart("apdu")
  /\ toCard' = <<>>
  /\ powered' = TRUE
  /\ UNCHANGED <<apduOf, running, locked, button, asked, runs>>

\* Fault: card_exit whether the card was on or not.
CcidPowerOffTwice ==
  /\ MayAsk("ccid")
  /\ toCard' = TryAdd(toCard, Exit) /\ locked' = None
  /\ powered' = FALSE
  /\ UNCHANGED <<card, toUsb, button, asked, runs>>

\* With card_exit, if the card was on.
CcidPowerOff ==
  /\ MayAsk("ccid")
  /\ IF powered
       THEN toCard' = TryAdd(toCard, Exit) /\ locked' = None
       ELSE UNCHANGED <<toCard, locked>>
  /\ powered' = FALSE
  /\ UNCHANGED <<card, toUsb, button, asked, runs>>

\* XFR_BLOCK starts no thread: the event goes to whichever runs.  A host that
\* waits powers the card on again after the other interface was used.
CcidXfr ==
  /\ MayAsk("ccid")
  /\ HostWaits => powered /\ thread = "apdu"
  /\ apduOf' = "ccid"
  /\ HandOver("ccid", toCard)
  /\ UNCHANGED <<thread, core1, running, toUsb, button, powered>>

-----------------------------------------------------------------------------
(* Events from core 1 (core 0): only while card_locked_itf is the          *)
(* interface that usb_task looks after.                                    *)

Answer ==
  /\ locked # None
  /\ toUsb # <<>> /\ Head(toUsb) # Press
  /\ toUsb' = Tail(toUsb)
  /\ asked' = [asked EXCEPT ![locked] = "no"]
  /\ locked' = None
  /\ UNCHANGED <<card, toCard, button, powered, runs>>

\* wait_button is entered; a CANCEL that came before is forgotten.
OpenDialog ==
  /\ locked # None
  /\ toUsb # <<>> /\ Head(toUsb) = Press
  /\ dialogs < DEPTH
  /\ toUsb' = Tail(toUsb)
  /\ dialogs' = dialogs + 1
  /\ cancel' = FALSE
  /\ UNCHANGED <<card, toCard, locked, powered, asked, runs>>

\* Fault: a dialogue is left that was not entered.
CloseDialogTwice ==
  /\ dialogs' = dialogs - 1
  /\ toCard' = TryAdd(toCard, TimedOut)
  /\ UNCHANGED <<card, toUsb, locked, cancel, powered, asked, runs>>

\* The innermost wait_button returns: the button was pressed and released, 15
\* seconds have passed, or cancel_button is set.
CloseDialog ==
  /\ dialogs > 0
  /\ dialogs' = dialogs - 1
  /\ \E e \in {Pressed, TimedOut} :
       /\ cancel => e = TimedOut
       /\ toCard' = TryAdd(toCard, e)
  /\ UNCHANGED <<card, toUsb, locked, cancel, powered, asked, runs>>

-----------------------------------------------------------------------------
(* Core 1.                                                                 *)

\* The loops of the threads: anything that is not EV_EXIT is taken for a
\* command.
Take ==
  /\ core1 = "idle" /\ toCard # <<>>
  /\ toCard' = Tail(toCard)
  /\ IF Head(toCard) = Exit
       THEN /\ core1' = "off" /\ thread' = None
            /\ UNCHANGED <<running, runs>>
       ELSE LET i == IF thread = "cbor" THEN "hid" ELSE apduOf IN
            /\ core1' = "run" /\ running' = i
            /\ runs' = [runs EXCEPT ![i] = IF @ < MaxRuns THEN @ + 1 ELSE @]
            /\ UNCHANGED thread
  /\ UNCHANGED <<apduOf, toUsb, locked, button, powered, asked>>

\* wait_button_pressed, once in a command.
AskForButton ==
  /\ core1 = "run"
  /\ core1' = "button"
  /\ toUsb' = TryAdd(toUsb, Press)
  /\ UNCHANGED <<thread, apduOf, running, toCard, locked, button, powered, asked, runs>>

\* Its loop: every event that is not about the button is thrown away.
HearButton ==
  /\ core1 = "button" /\ toCard # <<>>
  /\ toCard' = Tail(toCard)
  /\ core1' = IF Head(toCard) \in {Pressed, TimedOut} THEN "end" ELSE "button"
  /\ UNCHANGED <<thread, apduOf, running, toUsb, locked, button, powered, asked, runs>>

Finish ==
  /\ core1 \in {"run", "end"}
  /\ Len(toUsb) < QSIZE
  /\ toUsb' = Append(toUsb, Finished(running))
  /\ core1' = "idle"
  /\ UNCHANGED <<thread, apduOf, running, toCard, locked, button, powered, asked, runs>>

-----------------------------------------------------------------------------
Packet == \/ HidCbor \/ HidMsg \/ HidGetResponse \/ HidCancel
          \/ CcidPowerOn \/ CcidPowerOff \/ CcidXfr
Core0 == Answer \/ OpenDialog \/ CloseDialog
Core1 == Take \/ AskForButton \/ HearButton \/ Finish
Next == Packet \/ Core0 \/ Core1

Spec == Init /\ [][Next]_vars
\* usb_task polls on, also from within wait_button, which ends by its timer;
\* core 1 runs a command to its end.
FairSpec == /\ Spec
            /\ WF_vars(Core1)
            /\ WF_vars(Answer) /\ WF_vars(OpenDialog) /\ WF_vars(CloseDialog)

-----------------------------------------------------------------------------
(* Properties of a device whose host waits.                                *)

\* Core 1 takes up a request at most once, through cancellations, dialogues
\* and changes of thread: no event about the button that came too late, and no
\* event for the other thread, makes it run the request in the buffer again
\* (cbor_thread and apdu_thread take any event for a command).
RunsOnce == \A i \in Itf : runs[i] <= 1

\* An end of a command that waits in card_to_usb_q is of the request of the
\* interface that will answer it, and there is such a request
\* (card_locked_itf is overwritten by any command and by card_exit).
AnswersAsker ==
  \A k \in 1..Len(toUsb) : toUsb[k] # Press =>
    /\ toUsb[k].itf = locked
    /\ asked[locked] # "no"

\* There is one dialogue at most, it belongs to a command that waits for the
\* button, and no event about the button is left when the command is over.
OneDialog ==
  /\ dialogs <= 1
  /\ dialogs = 1 => core1 = "button" /\ toUsb = <<>>
  /\ core1 \in {"idle", "run"} =>
       \A k \in 1..Len(toCard) : toCard[k] \notin {Pressed, TimedOut}

\* Neither core ever finds a queue full, so that nothing is lost in
\* queue_try_add and nobody blocks in queue_add_blocking.
QueuesSuffice == Len(toCard) <= 1 /\ Len(toUsb) <= 1

Runs(i) == core1 \in {"run", "button", "end"} /\ running = i
Over(i) == \E k \in 1..Len(toUsb) : toUsb[k] = Finished(i)
Stage(i) ==
  IF Runs(i) THEN "taken"
  ELSE IF Over(i) THEN "done"
  ELSE IF asked[i] = "no" THEN "free"
  ELSE IF runs[i] = 0 THEN "asked" ELSE "dropped"
Cmd == INSTANCE Commands WITH
         Clients <- Itf,
         stage <- [i \in Itf |-> Stage(i)],
         quit <- {i \in Itf : asked[i] = "stopped"}

\* The queues, the two threads and the dialogue carry one request at a time: it
\* is taken up once, by whichever thread, ended once, and answered to who asked;
\* none is started again, also after it was answered or dropped.
ImplementsCommands == Cmd!Spec

\* Every request is answered in the end, whether the user presses the button,
\* the host cancels in time or too early, or nothing comes and wait_button
\* times out (main.c, fido.c).
RequestAnswered ==
  \A i \in Itf : (asked[i] \in {"yes", "cancelled"}) ~> (asked[i] \in {"no", "stopped"})
=============================================================================
