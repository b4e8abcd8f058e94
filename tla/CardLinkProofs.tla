--------------------------- MODULE CardLinkProofs ---------------------------
(***************************************************************************)
(* With a host that waits, a request is in one place at a time: in         *)
(* usb_to_card_q, with core 1, in a dialogue, or in card_to_usb_q.  Phase  *)
(* says which, and every property of CardLink but the liveness follows.    *)
(***************************************************************************)
EXTENDS CardLink, TLAPS

ButtonEvents == {Pressed, TimedOut}
Waiting(i) == asked[i] # "no"
\* The interface whose request the thread takes up at the next command.
Source == IF thread = "cbor" THEN "hid" ELSE apduOf

\* Either queue holds one event at most.
Short ==
  /\ toCard = <<>> \/ \E e \in {Command, Exit} \cup ButtonEvents : toCard = <<e>>
  /\ toUsb = <<>> \/ \E e \in ToUsbEvent : toUsb = <<e>>

Types ==
  /\ thread \in {"apdu", "cbor", None}
  /\ core1 \in {"off", "idle", "run", "button", "end"}
  /\ apduOf \in Itf /\ running \in Itf
  /\ locked \in Itf \cup {None}
  /\ dialogs \in {0, 1} /\ cancel \in BOOLEAN /\ powered \in BOOLEAN
  /\ asked \in [Itf -> {"no", "yes", "cancelled", "stopped"}]
  /\ runs \in [Itf -> 0..1]

\* Where a request may be, by what core 1 does.
Quiet ==
  core1 \in {"off", "idle"} =>
    /\ dialogs = 0
    /\ toUsb # <<Press>>
    /\ \A e \in ButtonEvents : toCard # <<e>>
Queued ==
  toCard = <<Command>> =>
    /\ core1 = "idle" /\ toUsb = <<>>
    /\ locked = Source /\ Waiting(Source) /\ runs[Source] = 0
Leaving ==
  /\ core1 = "off" => ~powered
  /\ toCard = <<Exit>> => ~powered /\ core1 \in {"off", "idle"} /\ toUsb = <<>>
AtWork ==
  core1 \in {"run", "button", "end"} =>
    /\ locked = running /\ Waiting(running)
AtEase ==
  core1 \in {"run", "end"} => toCard = <<>> /\ toUsb = <<>> /\ dialogs = 0
AtButton ==
  core1 = "button" =>
    \/ toUsb = <<Press>> /\ toCard = <<>> /\ dialogs = 0
    \/ toUsb = <<>> /\ toCard = <<>> /\ dialogs = 1
    \/ toUsb = <<>> /\ dialogs = 0 /\ \E e \in ButtonEvents : toCard = <<e>>
Ended ==
  \A i \in Itf : toUsb = <<Finished(i)>> =>
    /\ core1 = "idle" /\ toCard = <<>>
    /\ locked = i /\ Waiting(i)

\* A host goes on after a cancellation in time: nothing asks for the button
\* until it does.
Cancelled ==
  asked["hid"] = "stopped" =>
    /\ core1 # "run" /\ toCard # <<Command>> /\ toUsb # <<Press>>
    /\ dialogs = 1 => cancel

Phase ==
  /\ Quiet /\ Queued /\ Leaving /\ AtWork /\ AtEase /\ AtButton /\ Ended
  /\ Cancelled
Inv == Types /\ Short /\ Phase
-----------------------------------------------------------------------------
(* Queues of one event, and the events, which are all different.           *)

LEMMA One ==
  ASSUME NEW x
  PROVE  /\ <<x>> # <<>> /\ Len(<<x>>) = 1
         /\ Head(<<x>>) = x /\ Tail(<<x>>) = <<>>
         /\ Append(<<>>, x) = <<x>> /\ Len(<<>>) = 0
OBVIOUS

LEMMA SameOne ==
  ASSUME NEW x, NEW y, <<x>> = <<y>>
  PROVE  x = y
OBVIOUS

\* What can be put into an empty queue is put there.
LEMMA Room ==
  ASSUME NEW x
  PROVE  TryAdd(<<>>, x) = <<x>> /\ Len(<<>>) < QSIZE
BY LinkAssumption, One DEF TryAdd

LEMMA ShortQueue ==
  ASSUME NEW S
  PROVE  /\ <<>> \in Seq(S) /\ Len(<<>>) <= QSIZE
         /\ \A x \in S : <<x>> \in Seq(S) /\ Len(<<x>>) <= QSIZE
BY LinkAssumption

LEMMA EventsDiffer ==
  /\ Command # Exit /\ Command # Pressed /\ Command # TimedOut
  /\ Exit # Pressed /\ Exit # TimedOut
  /\ Press \in ToUsbEvent
  /\ \A i \in Itf : Finished(i) \in ToUsbEvent /\ Finished(i) # Press /\ Finished(i).itf = i
  /\ \A i, j \in Itf : Finished(i) = Finished(j) => i = j
  /\ None \notin Itf
BY DEF Command, Exit, Pressed, TimedOut, Press, Finished, ToUsbEvent, Itf, None

-----------------------------------------------------------------------------
(* The invariant is inductive.                                             *)

LEMMA InitInv == Init => Inv
<1> SUFFICES ASSUME Init PROVE Inv
  OBVIOUS
<1>1. Types /\ Short
  <2>1. Types
    <3>1. runs \in [Itf -> 0..1] /\ asked \in [Itf -> {"no", "yes", "cancelled", "stopped"}]
      BY DEF Init
    <3>2. apduOf \in Itf /\ running \in Itf /\ dialogs \in {0, 1}
      BY DEF Init, Itf
    <3> QED
      BY <3>1, <3>2 DEF Init, Types
  <2>2. Short
    BY DEF Init, Short
  <2> QED
    BY <2>1, <2>2
<1>2. Phase
  BY One, EventsDiffer
     DEF Init, Phase, Quiet, Queued, Leaving, AtWork, AtEase, AtButton, Ended, Cancelled
<1> QED
  BY <1>1, <1>2 DEF Inv

LEMMA HidCborInv == ASSUME HostWaits, Inv, HidCbor PROVE Inv'
<1>1. /\ dialogs = 0
  BY One, SameOne, EventsDiffer DEF Inv, Types, Short, Phase, Quiet, Queued, Leaving, AtWork, AtEase, AtButton, Ended, Cancelled,
       Source, Waiting, ButtonEvents, HidCbor, MayAsk, WaitsFor, Listening, Itf
<1>2. /\ thread' = "cbor" /\ core1' = "idle" /\ locked' = "hid"
      /\ toCard' = <<Command>> /\ toUsb' = <<>>
      /\ asked' = [asked EXCEPT !["hid"] = "yes"]
      /\ runs' = [runs EXCEPT !["hid"] = 0]
      /\ UNCHANGED <<apduOf, running, dialogs, cancel, powered>>
  BY <1>1, One, Room DEF HidCbor, CardStart, HandOver, button
<1>3. Types' /\ Short'
  BY <1>1, <1>2, EventsDiffer DEF Inv, Types, Short, Itf, ButtonEvents
<1>4. Quiet'
  BY <1>1, <1>2, One, SameOne, EventsDiffer DEF Inv, Types, Phase, Quiet, ButtonEvents
<1>5. Queued'
  BY <1>1, <1>2, One, SameOne, EventsDiffer DEF Inv, Types, Phase, Queued, Source, Waiting, Itf, ButtonEvents
<1>6. Leaving'
  BY <1>1, <1>2, One, SameOne, EventsDiffer DEF Inv, Types, Phase, Leaving, ButtonEvents
<1>7. AtWork'
  BY <1>1, <1>2, One, SameOne, EventsDiffer DEF Inv, Types, Phase, AtWork, Waiting
<1>8. AtEase'
  BY <1>1, <1>2, One, SameOne, EventsDiffer DEF Inv, Types, Phase, AtEase
<1>9. AtButton'
  BY <1>1, <1>2, One, SameOne, EventsDiffer DEF Inv, Types, Phase, AtButton, ButtonEvents
<1>10. Ended'
  BY <1>1, <1>2, One, SameOne, EventsDiffer DEF Inv, Types, Phase, Ended, Waiting
<1>11. Cancelled'
  BY <1>1, <1>2, One, SameOne, EventsDiffer DEF Inv, Types, Phase, Cancelled, Itf, ButtonEvents
<1> QED
  BY <1>3, <1>4, <1>5, <1>6, <1>7, <1>8, <1>9, <1>10, <1>11 DEF Inv, Phase

LEMMA HidMsgInv == ASSUME HostWaits, Inv, HidMsg PROVE Inv'
<1>1. /\ dialogs = 0
  BY One, SameOne, EventsDiffer DEF Inv, Types, Short, Phase, Quiet, Queued, Leaving, AtWork, AtEase, AtButton, Ended, Cancelled,
       Source, Waiting, ButtonEvents, HidMsg, MayAsk, WaitsFor, Listening, Itf
<1>2. /\ thread' = "apdu" /\ core1' = "idle" /\ locked' = "hid"
      /\ apduOf' = "hid" /\ toCard' = <<Command>> /\ toUsb' = <<>>
      /\ asked' = [asked EXCEPT !["hid"] = "yes"]
      /\ runs' = [runs EXCEPT !["hid"] = 0]
      /\ UNCHANGED <<running, dialogs, cancel, powered>>
  BY <1>1, One, Room DEF HidMsg, CardStart, HandOver, button
<1>3. Types' /\ Short'
  BY <1>1, <1>2, EventsDiffer DEF Inv, Types, Short, Itf, ButtonEvents
<1>4. Quiet'
  BY <1>1, <1>2, One, SameOne, EventsDiffer DEF Inv, Types, Phase, Quiet, ButtonEvents
<1>5. Queued'
  BY <1>1, <1>2, One, SameOne, EventsDiffer DEF Inv, Types, Phase, Queued, Source, Waiting, Itf, ButtonEvents
<1>6. Leaving'
  BY <1>1, <1>2, One, SameOne, EventsDiffer DEF Inv, Types, Phase, Leaving, ButtonEvents
<1>7. AtWork'
  BY <1>1, <1>2, One, SameOne, EventsDiffer DEF Inv, Types, Phase, AtWork, Waiting
<1>8. AtEase'
  BY <1>1, <1>2, One, SameOne, EventsDiffer DEF Inv, Types, Phase, AtEase
<1>9. AtButton'
  BY <1>1, <1>2, One, SameOne, EventsDiffer DEF Inv, Types, Phase, AtButton, ButtonEvents
<1>10. Ended'
  BY <1>1, <1>2, One, SameOne, EventsDiffer DEF Inv, Types, Phase, Ended, Waiting
<1>11. Cancelled'
  BY <1>1, <1>2, One, SameOne, EventsDiffer DEF Inv, Types, Phase, Cancelled, Itf, ButtonEvents
<1> QED
  BY <1>3, <1>4, <1>5, <1>6, <1>7, <1>8, <1>9, <1>10, <1>11 DEF Inv, Phase

LEMMA HidGetResponseInv == ASSUME HostWaits, Inv, HidGetResponse PROVE Inv'
<1>1. /\ dialogs = 0
  BY One, SameOne, EventsDiffer DEF Inv, Types, Short, Phase, Quiet, Queued, Leaving, AtWork, AtEase, AtButton, Ended, Cancelled,
       Source, Waiting, ButtonEvents, HidGetResponse, MayAsk, WaitsFor, Listening, Itf
<1>2. /\ thread' = "apdu" /\ core1' = "idle" /\ apduOf' = "hid"
      /\ toCard' = <<>> /\ toUsb' = <<>>
      /\ UNCHANGED <<running, locked, dialogs, cancel, powered, asked, runs>>
  BY <1>1, One, Room DEF HidGetResponse, CardStart, button
<1>3. Types' /\ Short'
  BY <1>1, <1>2, EventsDiffer DEF Inv, Types, Short, Itf, ButtonEvents
<1>4. Quiet'
  BY <1>1, <1>2, One, SameOne, EventsDiffer DEF Inv, Types, Phase, Quiet, ButtonEvents
<1>5. Queued'
  BY <1>1, <1>2, One, SameOne, EventsDiffer DEF Inv, Types, Phase, Queued, Source, Waiting, Itf, ButtonEvents
<1>6. Leaving'
  BY <1>1, <1>2, One, SameOne, EventsDiffer DEF Inv, Types, Phase, Leaving, ButtonEvents
<1>7. AtWork'
  BY <1>1, <1>2, One, SameOne, EventsDiffer DEF Inv, Types, Phase, AtWork, Waiting
<1>8. AtEase'
  BY <1>1, <1>2, One, SameOne, EventsDiffer DEF Inv, Types, Phase, AtEase
<1>9. AtButton'
  BY <1>1, <1>2, One, SameOne, EventsDiffer DEF Inv, Types, Phase, AtButton, ButtonEvents
<1>10. Ended'
  BY <1>1, <1>2, One, SameOne, EventsDiffer DEF Inv, Types, Phase, Ended, Waiting
<1>11. Cancelled'
  BY <1>1, <1>2, One, SameOne, EventsDiffer DEF Inv, Types, Phase, Cancelled, Itf, ButtonEvents
<1> QED
  BY <1>3, <1>4, <1>5, <1>6, <1>7, <1>8, <1>9, <1>10, <1>11 DEF Inv, Phase

LEMMA HidCancelInv == ASSUME HostWaits, Inv, HidCancel PROVE Inv'
<1>1. /\ asked["hid"] = "yes"
      /\ dialogs = 1 => core1 = "button" /\ toCard = <<>> /\ toUsb = <<>>
  BY One, SameOne, EventsDiffer DEF Inv, Types, Short, Phase, Quiet, Queued, Leaving, AtWork, AtEase, AtButton, Ended, Cancelled,
       Source, Waiting, ButtonEvents, HidCancel
<1>2. /\ cancel' = TRUE
      /\ asked' = [asked EXCEPT !["hid"] = IF dialogs > 0 THEN "stopped" ELSE "cancelled"]
      /\ UNCHANGED <<thread, core1, apduOf, running, toCard, toUsb, locked, dialogs, powered, runs>>
  BY <1>1, One, Room DEF HidCancel, card, queues
<1>3. Types' /\ Short'
  BY <1>1, <1>2, EventsDiffer DEF Inv, Types, Short, Itf, ButtonEvents
<1>4. Quiet'
  BY <1>1, <1>2, One, SameOne, EventsDiffer DEF Inv, Types, Phase, Quiet, ButtonEvents
<1>5. Queued'
  BY <1>1, <1>2, One, SameOne, EventsDiffer DEF Inv, Types, Phase, Queued, Source, Waiting, Itf, ButtonEvents
<1>6. Leaving'
  BY <1>1, <1>2, One, SameOne, EventsDiffer DEF Inv, Types, Phase, Leaving, ButtonEvents
<1>7. AtWork'
  BY <1>1, <1>2, One, SameOne, EventsDiffer DEF Inv, Types, Phase, AtWork, Waiting
<1>8. AtEase'
  BY <1>1, <1>2, One, SameOne, EventsDiffer DEF Inv, Types, Phase, AtEase
<1>9. AtButton'
  BY <1>1, <1>2, One, SameOne, EventsDiffer DEF Inv, Types, Phase, AtButton, ButtonEvents
<1>10. Ended'
  BY <1>1, <1>2, One, SameOne, EventsDiffer DEF Inv, Types, Phase, Ended, Waiting
<1>11. Cancelled'
  <2>1. CASE dialogs = 0
    BY <1>2, <2>1 DEF Inv, Types, Itf, Cancelled
  <2>2. CASE dialogs = 1
    BY <1>1, <1>2, <2>2, One DEF Cancelled
  <2> QED
    BY <2>1, <2>2 DEF Inv, Types
<1> QED
  BY <1>3, <1>4, <1>5, <1>6, <1>7, <1>8, <1>9, <1>10, <1>11 DEF Inv, Phase

LEMMA CcidPowerOnInv == ASSUME HostWaits, Inv, CcidPowerOn PROVE Inv'
<1>1. /\ dialogs = 0
      /\ asked["hid"] = "no" /\ asked["ccid"] = "no"
  BY One, SameOne, EventsDiffer DEF Inv, Types, Short, Phase, Quiet, Queued, Leaving, AtWork, AtEase, AtButton, Ended, Cancelled,
       Source, Waiting, ButtonEvents, CcidPowerOn, MayAsk, WaitsFor, Listening, Itf
<1>2. /\ thread' = "apdu" /\ core1' = "idle"
      /\ toCard' = <<>> /\ toUsb' = <<>> /\ powered' = TRUE
      /\ UNCHANGED <<apduOf, running, locked, dialogs, cancel, asked, runs>>
  BY <1>1, One, Room DEF CcidPowerOn, CardStart, button
<1>3. Types' /\ Short'
  BY <1>1, <1>2, EventsDiffer DEF Inv, Types, Short, Itf, ButtonEvents
<1>4. Quiet'
  BY <1>1, <1>2, One, SameOne, EventsDiffer DEF Inv, Types, Phase, Quiet, ButtonEvents
<1>5. Queued'
  BY <1>1, <1>2, One, SameOne, EventsDiffer DEF Inv, Types, Phase, Queued, Source, Waiting, Itf, ButtonEvents
<1>6. Leaving'
  BY <1>1, <1>2, One, SameOne, EventsDiffer DEF Inv, Types, Phase, Leaving, ButtonEvents
<1>7. AtWork'
  BY <1>1, <1>2, One, SameOne, EventsDiffer DEF Inv, Types, Phase, AtWork, Waiting
<1>8. AtEase'
  BY <1>1, <1>2, One, SameOne, EventsDiffer DEF Inv, Types, Phase, AtEase
<1>9. AtButton'
  BY <1>1, <1>2, One, SameOne, EventsDiffer DEF Inv, Types, Phase, AtButton, ButtonEvents
<1>10. Ended'
  BY <1>1, <1>2, One, SameOne, EventsDiffer DEF Inv, Types, Phase, Ended, Waiting
<1>11. Cancelled'
  BY <1>1, <1>2, One, SameOne, EventsDiffer DEF Inv, Types, Phase, Cancelled, Itf, ButtonEvents
<1> QED
  BY <1>3, <1>4, <1>5, <1>6, <1>7, <1>8, <1>9, <1>10, <1>11 DEF Inv, Phase

LEMMA CcidPowerOffInv == ASSUME HostWaits, Inv, CcidPowerOff PROVE Inv'
<1>1. /\ asked["hid"] = "no" /\ asked["ccid"] = "no"
      /\ core1 \in {"off", "idle"} /\ dialogs = 0 /\ toUsb = <<>>
      /\ powered => core1 = "idle" /\ toCard = <<>>
      /\ toCard # <<Command>>
  BY One, SameOne, EventsDiffer DEF Inv, Types, Short, Phase, Quiet, Queued, Leaving, AtWork, AtEase, AtButton, Ended, Cancelled,
       Source, Waiting, ButtonEvents, CcidPowerOff, MayAsk, WaitsFor, Listening, Itf, ToUsbEvent
<1>2. /\ powered' = FALSE
      /\ IF powered THEN toCard' = <<Exit>> /\ locked' = None ELSE UNCHANGED <<toCard, locked>>
      /\ UNCHANGED <<thread, core1, apduOf, running, toUsb, dialogs, cancel, asked, runs>>
  BY <1>1, One, Room DEF CcidPowerOff, card, button
<1>3. Types' /\ Short'
  BY <1>1, <1>2, EventsDiffer DEF Inv, Types, Short, Itf, ButtonEvents
<1>4. Quiet'
  BY <1>1, <1>2, One, SameOne, EventsDiffer DEF Inv, Types, Phase, Quiet, ButtonEvents
<1>5. Queued'
  BY <1>1, <1>2, One, SameOne, EventsDiffer DEF Inv, Types, Phase, Queued, Source, Waiting, Itf, ButtonEvents
<1>6. Leaving'
  BY <1>1, <1>2, One, SameOne, EventsDiffer DEF Inv, Types, Phase, Leaving, ButtonEvents
<1>7. AtWork'
  BY <1>1, <1>2, One, SameOne, EventsDiffer DEF Inv, Types, Phase, AtWork, Waiting
<1>8. AtEase'
  BY <1>1, <1>2, One, SameOne, EventsDiffer DEF Inv, Types, Phase, AtEase
<1>9. AtButton'
  BY <1>1, <1>2, One, SameOne, EventsDiffer DEF Inv, Types, Phase, AtButton, ButtonEvents
<1>10. Ended'
  BY <1>1, <1>2, One, SameOne, EventsDiffer DEF Inv, Types, Phase, Ended, Waiting
<1>11. Cancelled'
  BY <1>1, <1>2, One, SameOne, EventsDiffer DEF Inv, Types, Phase, Cancelled, Itf, ButtonEvents
<1> QED
  BY <1>3, <1>4, <1>5, <1>6, <1>7, <1>8, <1>9, <1>10, <1>11 DEF Inv, Phase

LEMMA CcidXfrInv == ASSUME HostWaits, Inv, CcidXfr PROVE Inv'
<1>1. /\ asked["hid"] = "no" /\ asked["ccid"] = "no"
      /\ core1 = "idle" /\ thread = "apdu" /\ dialogs = 0
      /\ toCard = <<>> /\ toUsb = <<>>
  BY One, SameOne, EventsDiffer DEF Inv, Types, Short, Phase, Quiet, Queued, Leaving, AtWork, AtEase, AtButton, Ended, Cancelled,
       Source, Waiting, ButtonEvents, CcidXfr, MayAsk, WaitsFor, Listening, Itf, ToUsbEvent
<1>2. /\ toCard' = <<Command>> /\ locked' = "ccid" /\ apduOf' = "ccid"
      /\ asked' = [asked EXCEPT !["ccid"] = "yes"]
      /\ runs' = [runs EXCEPT !["ccid"] = 0]
      /\ UNCHANGED <<thread, core1, running, toUsb, dialogs, cancel, powered>>
  BY <1>1, One, Room DEF CcidXfr, HandOver, button
<1>3. Types' /\ Short'
  BY <1>1, <1>2, EventsDiffer DEF Inv, Types, Short, Itf, ButtonEvents
<1>4. Quiet'
  BY <1>1, <1>2, One, SameOne, EventsDiffer DEF Inv, Types, Phase, Quiet, ButtonEvents
<1>5. Queued'
  BY <1>1, <1>2, One, SameOne, EventsDiffer DEF Inv, Types, Phase, Queued, Source, Waiting, Itf, ButtonEvents
<1>6. Leaving'
  BY <1>1, <1>2, One, SameOne, EventsDiffer DEF Inv, Types, Phase, Leaving, ButtonEvents
<1>7. AtWork'
  BY <1>1, <1>2, One, SameOne, EventsDiffer DEF Inv, Types, Phase, AtWork, Waiting
<1>8. AtEase'
  BY <1>1, <1>2, One, SameOne, EventsDiffer DEF Inv, Types, Phase, AtEase
<1>9. AtButton'
  BY <1>1, <1>2, One, SameOne, EventsDiffer DEF Inv, Types, Phase, AtButton, ButtonEvents
<1>10. Ended'
  BY <1>1, <1>2, One, SameOne, EventsDiffer DEF Inv, Types, Phase, Ended, Waiting
<1>11. Cancelled'
  BY <1>1, <1>2, One, SameOne, EventsDiffer DEF Inv, Types, Phase, Cancelled, Itf, ButtonEvents
<1> QED
  BY <1>3, <1>4, <1>5, <1>6, <1>7, <1>8, <1>9, <1>10, <1>11 DEF Inv, Phase

LEMMA AnswerInv == ASSUME HostWaits, Inv, Answer PROVE Inv'
<1>1. /\ locked \in Itf /\ toUsb = <<Finished(locked)>>
      /\ core1 = "idle" /\ toCard = <<>> /\ dialogs = 0
  BY One, SameOne, EventsDiffer DEF Inv, Types, Short, Phase, Quiet, Queued, Leaving, AtWork, AtEase, AtButton, Ended, Cancelled,
       Source, Waiting, ButtonEvents, Answer, ToUsbEvent
<1>2. /\ toUsb' = <<>> /\ locked' = None
      /\ asked' = [asked EXCEPT ![locked] = "no"]
      /\ UNCHANGED <<thread, core1, apduOf, running, toCard, dialogs, cancel, powered, runs>>
  BY <1>1, One, Room DEF Answer, card, button
<1>3. Types' /\ Short'
  BY <1>1, <1>2, EventsDiffer DEF Inv, Types, Short, Itf, ButtonEvents
<1>4. Quiet'
  BY <1>1, <1>2, One, SameOne, EventsDiffer DEF Inv, Types, Phase, Quiet, ButtonEvents
<1>5. Queued'
  BY <1>1, <1>2, One, SameOne, EventsDiffer DEF Inv, Types, Phase, Queued, Source, Waiting, Itf, ButtonEvents
<1>6. Leaving'
  BY <1>1, <1>2, One, SameOne, EventsDiffer DEF Inv, Types, Phase, Leaving, ButtonEvents
<1>7. AtWork'
  BY <1>1, <1>2, One, SameOne, EventsDiffer DEF Inv, Types, Phase, AtWork, Waiting
<1>8. AtEase'
  BY <1>1, <1>2, One, SameOne, EventsDiffer DEF Inv, Types, Phase, AtEase
<1>9. AtButton'
  BY <1>1, <1>2, One, SameOne, EventsDiffer DEF Inv, Types, Phase, AtButton, ButtonEvents
<1>10. Ended'
  BY <1>1, <1>2, One, SameOne, EventsDiffer DEF Inv, Types, Phase, Ended, Waiting
<1>11. Cancelled'
  BY <1>1, <1>2, One, SameOne, EventsDiffer DEF Inv, Types, Phase, Cancelled, Itf, ButtonEvents
<1> QED
  BY <1>3, <1>4, <1>5, <1>6, <1>7, <1>8, <1>9, <1>10, <1>11 DEF Inv, Phase

LEMMA OpenDialogInv == ASSUME HostWaits, Inv, OpenDialog PROVE Inv'
<1>1. /\ toUsb = <<Press>> /\ toCard = <<>> /\ dialogs = 0
      /\ core1 = "button"
  BY One, SameOne, EventsDiffer DEF Inv, Types, Short, Phase, Quiet, Queued, Leaving, AtWork, AtEase, AtButton, Ended, Cancelled,
       Source, Waiting, ButtonEvents, OpenDialog, ToUsbEvent
<1>2. /\ toUsb' = <<>> /\ dialogs' = 1 /\ cancel' = FALSE
      /\ UNCHANGED <<thread, core1, apduOf, running, toCard, locked, powered, asked, runs>>
  BY <1>1, One, Room DEF OpenDialog, card
<1>3. Types' /\ Short'
  BY <1>1, <1>2, EventsDiffer DEF Inv, Types, Short, Itf, ButtonEvents
<1>4. Quiet'
  BY <1>1, <1>2, One, SameOne, EventsDiffer DEF Inv, Types, Phase, Quiet, ButtonEvents
<1>5. Queued'
  BY <1>1, <1>2, One, SameOne, EventsDiffer DEF Inv, Types, Phase, Queued, Source, Waiting, Itf, ButtonEvents
<1>6. Leaving'
  BY <1>1, <1>2, One, SameOne, EventsDiffer DEF Inv, Types, Phase, Leaving, ButtonEvents
<1>7. AtWork'
  BY <1>1, <1>2, One, SameOne, EventsDiffer DEF Inv, Types, Phase, AtWork, Waiting
<1>8. AtEase'
  BY <1>1, <1>2, One, SameOne, EventsDiffer DEF Inv, Types, Phase, AtEase
<1>9. AtButton'
  BY <1>1, <1>2, One, SameOne, EventsDiffer DEF Inv, Types, Phase, AtButton, ButtonEvents
<1>10. Ended'
  BY <1>1, <1>2, One, SameOne, EventsDiffer DEF Inv, Types, Phase, Ended, Waiting
<1>11. Cancelled'
  BY <1>1, <1>2, One, SameOne, EventsDiffer DEF Inv, Types, Phase, Cancelled, Itf, ButtonEvents
<1> QED
  BY <1>3, <1>4, <1>5, <1>6, <1>7, <1>8, <1>9, <1>10, <1>11 DEF Inv, Phase

LEMMA CloseDialogInv == ASSUME HostWaits, Inv, CloseDialog PROVE Inv'
<1>1. /\ core1 = "button" /\ dialogs = 1
      /\ toCard = <<>> /\ toUsb = <<>>
  BY One, SameOne, EventsDiffer DEF Inv, Types, Short, Phase, Quiet, Queued, Leaving, AtWork, AtEase, AtButton, Ended, Cancelled,
       Source, Waiting, ButtonEvents, CloseDialog
<1>2. /\ dialogs' = 0 /\ \E e \in ButtonEvents : toCard' = <<e>>
      /\ UNCHANGED <<thread, core1, apduOf, running, toUsb, locked, cancel, powered, asked, runs>>
  BY <1>1, One, Room DEF CloseDialog, card, ButtonEvents
<1>3. Types' /\ Short'
  BY <1>1, <1>2, EventsDiffer DEF Inv, Types, Short, Itf, ButtonEvents
<1>4. Quiet'
  BY <1>1, <1>2, One, SameOne, EventsDiffer DEF Inv, Types, Phase, Quiet, ButtonEvents
<1>5. Queued'
  BY <1>1, <1>2, One, SameOne, EventsDiffer DEF Inv, Types, Phase, Queued, Source, Waiting, Itf, ButtonEvents
<1>6. Leaving'
  BY <1>1, <1>2, One, SameOne, EventsDiffer DEF Inv, Types, Phase, Leaving, ButtonEvents
<1>7. AtWork'
  BY <1>1, <1>2, One, SameOne, EventsDiffer DEF Inv, Types, Phase, AtWork, Waiting
<1>8. AtEase'
  BY <1>1, <1>2, One, SameOne, EventsDiffer DEF Inv, Types, Phase, AtEase
<1>9. AtButton'
  BY <1>1, <1>2, One, SameOne, EventsDiffer DEF Inv, Types, Phase, AtButton, ButtonEvents
<1>10. Ended'
  BY <1>1, <1>2, One, SameOne, EventsDiffer DEF Inv, Types, Phase, Ended, Waiting
<1>11. Cancelled'
  BY <1>1, <1>2, One, SameOne, EventsDiffer DEF Inv, Types, Phase, Cancelled, Itf, ButtonEvents
<1> QED
  BY <1>3, <1>4, <1>5, <1>6, <1>7, <1>8, <1>9, <1>10, <1>11 DEF Inv, Phase

LEMMA TakeInv == ASSUME HostWaits, Inv, Take PROVE Inv'
<1>1. /\ core1 = "idle" /\ dialogs = 0 /\ toUsb = <<>> /\ Source \in Itf
      /\ \/ toCard = <<Exit>>
         \/ /\ toCard = <<Command>>
            /\ locked = Source /\ Waiting(Source) /\ runs[Source] = 0
  <2>1. core1 = "idle" /\ toCard # <<>> /\ dialogs = 0 /\ Source \in Itf
    BY DEF Take, Inv, Phase, Quiet, Source, Types, Itf
  <2>2. toCard = <<Exit>> \/ toCard = <<Command>>
    BY <2>1 DEF Inv, Short, Phase, Quiet
  <2>3. CASE toCard = <<Exit>>
    BY <2>1, <2>3 DEF Inv, Phase, Leaving
  <2>4. CASE toCard = <<Command>>
    BY <2>1, <2>4 DEF Inv, Phase, Queued
  <2> QED
    BY <2>1, <2>2, <2>3, <2>4
<1>2. /\ toCard' = <<>>
      /\ IF toCard = <<Exit>> THEN core1' = "off" /\ thread' = None /\ UNCHANGED <<running, runs>>
         ELSE core1' = "run" /\ running' = Source /\ thread' = thread
              /\ runs' = [runs EXCEPT ![Source] = 1]
      /\ UNCHANGED <<apduOf, toUsb, locked, dialogs, cancel, powered, asked>>
  <2>1. /\ toCard' = <<>>
        /\ UNCHANGED <<apduOf, toUsb, locked, dialogs, cancel, powered, asked>>
    BY <1>1, One DEF Take, button
  <2>2. CASE toCard = <<Exit>>
    BY <2>1, <2>2, One DEF Take
  <2>3. CASE toCard = <<Command>>
    <3>1. Head(toCard) # Exit /\ toCard # <<Exit>>
      BY <2>3, One, EventsDiffer
    <3>2. /\ core1' = "run" /\ running' = Source /\ thread' = thread
          /\ runs' = [runs EXCEPT ![Source] =
                        IF runs[Source] < MaxRuns THEN runs[Source] + 1 ELSE runs[Source]]
      BY <3>1 DEF Take, Source
    <3>3. runs[Source] = 0
      BY <1>1, <3>1
    <3> QED
      BY <2>1, <3>1, <3>2, <3>3 DEF MaxRuns
  <2> QED
    BY <1>1, <2>2, <2>1, <2>3
<1>3. Types' /\ Short'
  BY <1>1, <1>2, EventsDiffer DEF Inv, Types, Short, Itf, ButtonEvents
<1>4. Quiet'
  BY <1>1, <1>2, One, SameOne, EventsDiffer DEF Inv, Types, Phase, Quiet, ButtonEvents
<1>5. Queued'
  BY <1>1, <1>2, One, SameOne, EventsDiffer DEF Inv, Types, Phase, Queued, Source, Waiting, Itf, ButtonEvents
<1>6. Leaving'
  BY <1>1, <1>2, One, SameOne, EventsDiffer DEF Inv, Types, Phase, Leaving, ButtonEvents
<1>7. AtWork'
  BY <1>1, <1>2, One, SameOne, EventsDiffer DEF Inv, Types, Phase, AtWork, Waiting
<1>8. AtEase'
  BY <1>1, <1>2, One, SameOne, EventsDiffer DEF Inv, Types, Phase, AtEase
<1>9. AtButton'
  BY <1>1, <1>2, One, SameOne, EventsDiffer DEF Inv, Types, Phase, AtButton, ButtonEvents
<1>10. Ended'
  BY <1>1, <1>2, One, SameOne, EventsDiffer DEF Inv, Types, Phase, Ended, Waiting
<1>11. Cancelled'
  BY <1>1, <1>2, One, SameOne, EventsDiffer DEF Inv, Types, Phase, Cancelled, Itf, ButtonEvents
<1> QED
  BY <1>3, <1>4, <1>5, <1>6, <1>7, <1>8, <1>9, <1>10, <1>11 DEF Inv, Phase

LEMMA AskForButtonInv == ASSUME HostWaits, Inv, AskForButton PROVE Inv'
<1>1. /\ core1 = "run" /\ dialogs = 0
      /\ toCard = <<>> /\ toUsb = <<>>
  BY One, SameOne, EventsDiffer DEF Inv, Types, Short, Phase, Quiet, Queued, Leaving, AtWork, AtEase, AtButton, Ended, Cancelled,
       Source, Waiting, ButtonEvents, AskForButton
<1>2. /\ toUsb' = <<Press>> /\ core1' = "button"
      /\ UNCHANGED <<thread, apduOf, running, toCard, locked, dialogs, cancel, powered, asked, runs>>
  BY <1>1, One, Room DEF AskForButton, button
<1>3. Types' /\ Short'
  BY <1>1, <1>2, EventsDiffer DEF Inv, Types, Short, Itf, ButtonEvents
<1>4. Quiet'
  BY <1>1, <1>2, One, SameOne, EventsDiffer DEF Inv, Types, Phase, Quiet, ButtonEvents
<1>5. Queued'
  BY <1>1, <1>2, One, SameOne, EventsDiffer DEF Inv, Types, Phase, Queued, Source, Waiting, Itf, ButtonEvents
<1>6. Leaving'
  BY <1>1, <1>2, One, SameOne, EventsDiffer DEF Inv, Types, Phase, Leaving, ButtonEvents
<1>7. AtWork'
  BY <1>1, <1>2, One, SameOne, EventsDiffer DEF Inv, Types, Phase, AtWork, Waiting
<1>8. AtEase'
  BY <1>1, <1>2, One, SameOne, EventsDiffer DEF Inv, Types, Phase, AtEase
<1>9. AtButton'
  BY <1>1, <1>2, One, SameOne, EventsDiffer DEF Inv, Types, Phase, AtButton, ButtonEvents
<1>10. Ended'
  BY <1>1, <1>2, One, SameOne, EventsDiffer DEF Inv, Types, Phase, Ended, Waiting
<1>11. Cancelled'
  BY <1>1, <1>2, One, SameOne, EventsDiffer DEF Inv, Types, Phase, Cancelled, Itf, ButtonEvents
<1> QED
  BY <1>3, <1>4, <1>5, <1>6, <1>7, <1>8, <1>9, <1>10, <1>11 DEF Inv, Phase

LEMMA HearButtonInv == ASSUME HostWaits, Inv, HearButton PROVE Inv'
<1>1. /\ core1 = "button" /\ dialogs = 0 /\ toUsb = <<>>
      /\ \E e \in ButtonEvents : toCard = <<e>>
  BY One, SameOne, EventsDiffer DEF Inv, Types, Short, Phase, Quiet, Queued, Leaving, AtWork, AtEase, AtButton, Ended, Cancelled,
       Source, Waiting, ButtonEvents, HearButton
<1>2. /\ toCard' = <<>> /\ core1' = "end"
      /\ UNCHANGED <<thread, apduOf, running, toUsb, locked, dialogs, cancel, powered, asked, runs>>
  BY <1>1, One, Room DEF HearButton, button, ButtonEvents
<1>3. Types' /\ Short'
  BY <1>1, <1>2, EventsDiffer DEF Inv, Types, Short, Itf, ButtonEvents
<1>4. Quiet'
  BY <1>1, <1>2, One, SameOne, EventsDiffer DEF Inv, Types, Phase, Quiet, ButtonEvents
<1>5. Queued'
  BY <1>1, <1>2, One, SameOne, EventsDiffer DEF Inv, Types, Phase, Queued, Source, Waiting, Itf, ButtonEvents
<1>6. Leaving'
  BY <1>1, <1>2, One, SameOne, EventsDiffer DEF Inv, Types, Phase, Leaving, ButtonEvents
<1>7. AtWork'
  BY <1>1, <1>2, One, SameOne, EventsDiffer DEF Inv, Types, Phase, AtWork, Waiting
<1>8. AtEase'
  BY <1>1, <1>2, One, SameOne, EventsDiffer DEF Inv, Types, Phase, AtEase
<1>9. AtButton'
  BY <1>1, <1>2, One, SameOne, EventsDiffer DEF Inv, Types, Phase, AtButton, ButtonEvents
<1>10. Ended'
  BY <1>1, <1>2, One, SameOne, EventsDiffer DEF Inv, Types, Phase, Ended, Waiting
<1>11. Cancelled'
  BY <1>1, <1>2, One, SameOne, EventsDiffer DEF Inv, Types, Phase, Cancelled, Itf, ButtonEvents
<1> QED
  BY <1>3, <1>4, <1>5, <1>6, <1>7, <1>8, <1>9, <1>10, <1>11 DEF Inv, Phase

LEMMA FinishInv == ASSUME HostWaits, Inv, Finish PROVE Inv'
<1>1. /\ core1 \in {"run", "end"} /\ dialogs = 0
      /\ toCard = <<>> /\ toUsb = <<>>
      /\ locked = running /\ Waiting(running)
  BY One, SameOne, EventsDiffer DEF Inv, Types, Short, Phase, Quiet, Queued, Leaving, AtWork, AtEase, AtButton, Ended, Cancelled,
       Source, Waiting, ButtonEvents, Finish
<1>2. /\ toUsb' = <<Finished(running)>> /\ core1' = "idle"
      /\ UNCHANGED <<thread, apduOf, running, toCard, locked, dialogs, cancel, powered, asked, runs>>
  BY <1>1, One, Room DEF Finish, button
<1>3. Types' /\ Short'
  BY <1>1, <1>2, EventsDiffer DEF Inv, Types, Short, Itf, ButtonEvents
<1>4. Quiet'
  BY <1>1, <1>2, One, SameOne, EventsDiffer DEF Inv, Types, Phase, Quiet, ButtonEvents
<1>5. Queued'
  BY <1>1, <1>2, One, SameOne, EventsDiffer DEF Inv, Types, Phase, Queued, Source, Waiting, Itf, ButtonEvents
<1>6. Leaving'
  BY <1>1, <1>2, One, SameOne, EventsDiffer DEF Inv, Types, Phase, Leaving, ButtonEvents
<1>7. AtWork'
  BY <1>1, <1>2, One, SameOne, EventsDiffer DEF Inv, Types, Phase, AtWork, Waiting
<1>8. AtEase'
  BY <1>1, <1>2, One, SameOne, EventsDiffer DEF Inv, Types, Phase, AtEase
<1>9. AtButton'
  BY <1>1, <1>2, One, SameOne, EventsDiffer DEF Inv, Types, Phase, AtButton, ButtonEvents
<1>10. Ended'
  BY <1>1, <1>2, One, SameOne, EventsDiffer DEF Inv, Types, Phase, Ended, Waiting
<1>11. Cancelled'
  BY <1>1, <1>2, One, SameOne, EventsDiffer DEF Inv, Types, Phase, Cancelled, Itf, ButtonEvents
<1> QED
  BY <1>3, <1>4, <1>5, <1>6, <1>7, <1>8, <1>9, <1>10, <1>11 DEF Inv, Phase

-----------------------------------------------------------------------------
(* The theorems.                                                           *)

LEMMA StepInv == ASSUME HostWaits, Inv, [Next]_vars PROVE Inv'
<1>1. CASE HidCbor
  BY <1>1, HidCborInv
<1>2. CASE HidMsg
  BY <1>2, HidMsgInv
<1>3. CASE HidGetResponse
  BY <1>3, HidGetResponseInv
<1>4. CASE HidCancel
  BY <1>4, HidCancelInv
<1>5. CASE CcidPowerOn
  BY <1>5, CcidPowerOnInv
<1>6. CASE CcidPowerOff
  BY <1>6, CcidPowerOffInv
<1>7. CASE CcidXfr
  BY <1>7, CcidXfrInv
<1>8. CASE Answer
  BY <1>8, AnswerInv
<1>9. CASE OpenDialog
  BY <1>9, OpenDialogInv
<1>10. CASE CloseDialog
  BY <1>10, CloseDialogInv
<1>11. CASE Take
  BY <1>11, TakeInv
<1>12. CASE AskForButton
  BY <1>12, AskForButtonInv
<1>13. CASE HearButton
  BY <1>13, HearButtonInv
<1>14. CASE Finish
  BY <1>14, FinishInv
<1>15. CASE UNCHANGED vars
  <2>1. UNCHANGED <<thread, core1, apduOf, running, toCard, toUsb, locked>>
    BY <1>15 DEF vars, card, queues
  <2>2. UNCHANGED <<dialogs, cancel, powered, asked, runs>>
    BY <1>15 DEF vars, button
  <2>3. Types' /\ Short'
    BY <2>1, <2>2 DEF Inv, Types, Short
  <2>4. Phase'
    BY <2>1, <2>2 DEF Inv, Phase, Quiet, Queued, Leaving, AtWork, AtEase,
                      AtButton, Ended, Cancelled, Source, Waiting
  <2> QED
    BY <2>3, <2>4 DEF Inv
<1> QED
  BY <1>1, <1>2, <1>3, <1>4, <1>5, <1>6, <1>7, <1>8, <1>9, <1>10, <1>11, <1>12, <1>13, <1>14, <1>15 DEF Next, Packet, Core0, Core1

\* With a host that waits, a request and its dialogue are in one place at a
\* time, whatever the queues hold (usb.c, main.c, cbor.c, apdu.c).
THEOREM OnePlace == ASSUME HostWaits PROVE Spec => []Inv
<1>1. Init => Inv
  BY InitInv
<1>2. Inv /\ [Next]_vars => Inv'
  BY StepInv
<1> QED
  BY <1>1, <1>2, PTL DEF Spec

\* The variables keep their types, the queues their size (queue_init).
THEOREM TypeCorrect == ASSUME HostWaits PROVE Spec => []TypeOK
<1>1. Inv => TypeOK
  <2> SUFFICES ASSUME Inv PROVE TypeOK
    OBVIOUS
  <2>1. toCard \in Seq({Command, Exit, Pressed, TimedOut}) /\ Len(toCard) <= QSIZE
    BY LinkAssumption, ShortQueue DEF Inv, Short, ButtonEvents
  <2>2. toUsb \in Seq(ToUsbEvent) /\ Len(toUsb) <= QSIZE
    BY LinkAssumption, ShortQueue DEF Inv, Short
  <2>3. dialogs \in 0..DEPTH /\ runs \in [Itf -> 0..MaxRuns]
    BY LinkAssumption DEF Inv, Types, MaxRuns
  <2> QED
    BY <2>1, <2>2, <2>3 DEF Inv, Types, TypeOK
<1> QED
  BY <1>1, OnePlace, PTL

\* Core 1 takes up no request twice (the loops of cbor_thread and apdu_thread).
THEOREM NeverRunTwice == ASSUME HostWaits PROVE Spec => []RunsOnce
<1>1. Inv => RunsOnce
  BY DEF Inv, Types, RunsOnce
<1> QED
  BY <1>1, OnePlace, PTL

\* What waits to be answered is of the request of the interface that answers
\* (card_locked_itf).
THEOREM AnswerGoesToAsker == ASSUME HostWaits PROVE Spec => []AnswersAsker
<1>1. Inv => AnswersAsker
  <2> SUFFICES ASSUME Inv, NEW k \in 1..Len(toUsb), toUsb[k] # Press
               PROVE  toUsb[k].itf = locked /\ asked[locked] # "no"
    BY DEF AnswersAsker
  <2>1. PICK e \in ToUsbEvent : toUsb = <<e>>
    BY DEF Inv, Short
  <2>2. toUsb[k] = e
    BY <2>1
  <2>3. PICK i \in Itf : e = Finished(i)
    BY <2>2 DEF ToUsbEvent
  <2> QED
    BY <2>1, <2>2, <2>3, EventsDiffer DEF Inv, Phase, Ended, Waiting
<1> QED
  BY <1>1, OnePlace, PTL

\* wait_button is never called from within itself, and no event about the
\* button outlives its command (main.c, fido.c).
THEOREM NeverNested == ASSUME HostWaits PROVE Spec => []OneDialog
<1>1. Inv => OneDialog
  <2> SUFFICES ASSUME Inv PROVE OneDialog
    OBVIOUS
  <2>1. dialogs \in {0, 1} /\ (core1 \notin {"off", "idle", "run", "end"} => core1 = "button")
    BY DEF Inv, Types
  <2>2. dialogs = 1 => core1 = "button" /\ toUsb = <<>>
    BY <2>1 DEF Inv, Phase, Quiet, AtEase, AtButton
  <2>3. ASSUME core1 \in {"idle", "run"}, NEW k \in 1..Len(toCard)
        PROVE  toCard[k] \notin {Pressed, TimedOut}
    <3>1. PICK e \in {Command, Exit} \cup ButtonEvents : toCard = <<e>>
      BY DEF Inv, Short
    <3>2. toCard[k] = e
      BY <3>1
    <3>3. core1 = "idle"
      BY <2>3, <3>1 DEF Inv, Phase, AtEase
    <3> QED
      BY <3>1, <3>2, <3>3 DEF Inv, Phase, Quiet, ButtonEvents
  <2> QED
    BY <2>1, <2>2, <2>3 DEF OneDialog
<1> QED
  BY <1>1, OnePlace, PTL

\* No queue ever holds more than one event: nothing is lost in queue_try_add,
\* and no core blocks in queue_add_blocking.
THEOREM QueuesNeverFull == ASSUME HostWaits PROVE Spec => []QueuesSuffice
<1>1. Inv => QueuesSuffice
  BY One DEF Inv, Short, QueuesSuffice
<1> QED
  BY <1>1, OnePlace, PTL
-----------------------------------------------------------------------------
(* The way of a request implements Commands.  Beside Inv it needs that one *)
(* interface waits at most, and that runs tells a request that core 1 took *)
(* up from one that it did not.                                            *)

Alone == \A i, j \in Itf : Waiting(i) /\ Waiting(j) => i = j
Once == \A i \in Itf :
          Runs(i) \/ toUsb = <<Finished(i)>> \/ asked[i] = "stopped" => runs[i] = 1
Place == Inv /\ Alone /\ Once

Stages == [i \in Itf |-> Stage(i)]
Quit == {i \in Itf : asked[i] = "stopped"}

\* What tells the stages apart when the queues are short.
StageIs ==
  \A i \in Itf :
    /\ Runs(i) => Stage(i) = "taken" /\ asked[i] # "no" /\ toUsb # <<Finished(i)>>
    /\ toUsb = <<Finished(i)>> => Stage(i) = "done" /\ ~Runs(i) /\ asked[i] # "no"
    /\ asked[i] = "no" => Stage(i) = "free"
    /\ ~Runs(i) /\ toUsb # <<Finished(i)>> /\ asked[i] # "no"
         => Stage(i) = IF runs[i] = 0 THEN "asked" ELSE "dropped"

LEMMA OverIs ==
  ASSUME NEW q, q = <<>> \/ \E e \in ToUsbEvent : q = <<e>>, NEW i \in Itf
  PROVE  (\E k \in 1..Len(q) : q[k] = Finished(i)) <=> q = <<Finished(i)>>
<1>1. CASE q = <<>>
  BY <1>1
<1>2. CASE \E e \in ToUsbEvent : q = <<e>>
  <2>1. PICK e \in ToUsbEvent : q = <<e>>
    BY <1>2
  <2>2. Len(q) = 1 /\ q[1] = e
    BY <2>1
  <2>3. q = <<Finished(i)>> <=> e = Finished(i)
    BY <2>1, SameOne
  <2> QED BY <2>2, <2>3
<1> QED BY <1>1, <1>2

LEMMA StageKnown == Inv => StageIs
<1> SUFFICES ASSUME Inv, NEW i \in Itf
             PROVE  /\ Runs(i) => /\ Stage(i) = "taken" /\ asked[i] # "no"
                                  /\ toUsb # <<Finished(i)>>
                    /\ toUsb = <<Finished(i)>> =>
                         Stage(i) = "done" /\ ~Runs(i) /\ asked[i] # "no"
                    /\ asked[i] = "no" => Stage(i) = "free"
                    /\ ~Runs(i) /\ toUsb # <<Finished(i)>> /\ asked[i] # "no"
                         => Stage(i) = IF runs[i] = 0 THEN "asked" ELSE "dropped"
  BY DEF StageIs
<1>1. Over(i) <=> toUsb = <<Finished(i)>>
  BY OverIs DEF Over, Inv, Short
<1>2. Runs(i) => asked[i] # "no"
  BY DEF Inv, Phase, AtWork, Runs, Waiting
<1>3. toUsb = <<Finished(i)>> => ~Runs(i) /\ asked[i] # "no"
  BY DEF Inv, Phase, Ended, Runs, Waiting
<1> QED BY <1>1, <1>2, <1>3 DEF Stage

\* One request moves, the other stays.
LEMMA Moved ==
  ASSUME NEW c \in Itf, NEW s, Stage(c)' = s,
         \A i \in Itf \ {c} : Stage(i)' = Stage(i)
  PROVE  Stages' = [Stages EXCEPT ![c] = s] /\ Stages[c] = Stage(c)
BY DEF Stages

LEMMA Stayed ==
  ASSUME \A i \in Itf : Stage(i)' = Stage(i), asked' = asked
  PROVE  Stages' = Stages /\ Quit' = Quit
BY DEF Stages, Quit

\* Steps that move no request.
LEMMA Unmoved ==
  ASSUME Place, Inv', asked' = asked, runs' = runs,
         \A i \in Itf : /\ Runs(i)' = Runs(i)
                        /\ toUsb' = <<Finished(i)>> <=> toUsb = <<Finished(i)>>
  PROVE  Place' /\ Stages' = Stages /\ Quit' = Quit
<1>1. StageIs /\ StageIs'
  <2>1. Inv' => StageIs'
    BY StageKnown, PTL
  <2> QED BY <2>1, StageKnown DEF Place
<1>2. ASSUME NEW i \in Itf PROVE Stage(i)' = Stage(i)
  BY <1>1 DEF StageIs
<1>3. Alone' /\ Once'
  BY DEF Place, Alone, Once, Waiting
<1> QED BY <1>2, <1>3, Stayed DEF Place

\* A packet that asks: nothing else is under way when it is done.
LEMMA Asks ==
  ASSUME HostWaits, Place, Inv', NEW c \in Itf, MayAsk(c),
         asked' = [asked EXCEPT ![c] = "yes"], runs' = [runs EXCEPT ![c] = 0],
         \A i \in Itf : ~Runs(i)' /\ toUsb' # <<Finished(i)>>
  PROVE  Place' /\ Cmd!Next
<1>1. StageIs /\ StageIs'
  <2>1. Inv' => StageIs'
    BY StageKnown, PTL
  <2> QED BY <2>1, StageKnown DEF Place
<1>2. /\ \A i \in Itf \ {c} : asked[i] = "no"
      /\ asked[c] \in {"no", "stopped"}
  BY DEF MayAsk, WaitsFor, Itf
<1>3. asked \in [Itf -> {"no", "yes", "cancelled", "stopped"}] /\ runs \in [Itf -> 0..1]
  BY DEF Place, Inv, Types
<1>4. Stage(c)' = "asked" /\ \A i \in Itf \ {c} : Stage(i)' = "free" /\ Stage(i) = "free"
  BY <1>1, <1>2, <1>3 DEF StageIs
<1>5. Stages' = [Stages EXCEPT ![c] = "asked"] /\ Stages[c] = Stage(c)
  BY <1>4, Moved
<1>6. Quit' = Quit \ {c} /\ (Stage(c) = "free" \/ c \in Quit)
  BY <1>1, <1>2, <1>3 DEF Quit, StageIs
<1>7. Cmd!Ask(c)
  BY <1>4, <1>5, <1>6 DEF Cmd!Ask, Stages, Quit
<1>8. Alone' /\ Once'
  BY <1>2, <1>3 DEF Alone, Once, Waiting
<1> QED BY <1>7, <1>8 DEF Place, Cmd!Next

LEMMA HidAsks ==
  ASSUME HostWaits, Place, Inv', HidCbor \/ HidMsg
  PROVE  Place' /\ Cmd!Next
<1>1. /\ MayAsk("hid") /\ core1' = "idle" /\ toUsb' = <<>>
      /\ asked' = [asked EXCEPT !["hid"] = "yes"]
      /\ runs' = [runs EXCEPT !["hid"] = 0]
  BY DEF HidCbor, HidMsg, CardStart, HandOver
<1>2. \A i \in Itf : ~Runs(i)' /\ toUsb' # <<Finished(i)>>
  BY <1>1, One DEF Runs
<1> QED BY <1>1, <1>2, Asks DEF Itf

LEMMA CcidAsks ==
  ASSUME HostWaits, Place, Inv', CcidXfr
  PROVE  Place' /\ Cmd!Next
<1>1. /\ MayAsk("ccid") /\ UNCHANGED <<core1, running, toUsb>>
      /\ asked' = [asked EXCEPT !["ccid"] = "yes"]
      /\ runs' = [runs EXCEPT !["ccid"] = 0]
  BY DEF CcidXfr, HandOver
<1>2. \A i \in Itf : asked[i] = "no"
  BY <1>1 DEF MayAsk, WaitsFor, Itf
<1>3. StageIs
  BY StageKnown DEF Place
<1>4. \A i \in Itf : ~Runs(i)' /\ toUsb' # <<Finished(i)>>
  BY <1>1, <1>2, <1>3 DEF StageIs, Runs
<1> QED BY <1>1, <1>4, Asks DEF Itf

\* A step that kills what core 1 does: only a request that nobody waits for.
LEMMA Kills ==
  ASSUME Place, Inv', asked' = asked, runs' = runs,
         core1' = "idle", toUsb' = <<>>,
         asked["ccid"] = "no", asked["hid"] \in {"no", "stopped"}
  PROVE  Place' /\ (Cmd!Next \/ UNCHANGED Cmd!vars)
<1>1. StageIs /\ StageIs'
  <2>1. Inv' => StageIs'
    BY StageKnown, PTL
  <2> QED BY <2>1, StageKnown DEF Place
<1>2. \A i \in Itf : ~Runs(i)' /\ toUsb' # <<Finished(i)>>
  BY One DEF Runs
<1>3. Alone' /\ Once'
  BY <1>2 DEF Place, Alone, Once, Waiting
<1>4. "hid" \in Itf /\ "ccid" \in Itf /\ Itf = {"hid", "ccid"}
  BY DEF Itf
<1>5. Stage("ccid") = "free" /\ Stage("ccid")' = "free"
  BY <1>1, <1>4 DEF StageIs
<1>6. Quit' = Quit
  BY DEF Quit
<1>7. CASE asked["hid"] = "no"
  <2>1. Stage("hid") = "free" /\ Stage("hid")' = "free"
    BY <1>1, <1>4, <1>7 DEF StageIs
  <2>2. Stages' = Stages
    BY <1>4, <1>5, <2>1, Stayed
  <2> QED BY <1>3, <1>6, <2>2 DEF Place, Cmd!vars, Stages, Quit
<1>8. CASE asked["hid"] = "stopped"
  <2>1. runs["hid"] = 1
    BY <1>4, <1>8 DEF Place, Once
  <2>2. Stage("hid")' = "dropped" /\ Stage("hid") \in {"taken", "done", "dropped"}
    BY <1>1, <1>2, <1>4, <1>8, <2>1 DEF StageIs
  <2>3. Stages' = [Stages EXCEPT !["hid"] = "dropped"] /\ Stages["hid"] = Stage("hid")
    BY <1>4, <1>5, <2>2, Moved
  <2>4. "hid" \in Quit
    BY <1>4, <1>8 DEF Quit
  <2>5. CASE Stage("hid") = "dropped"
    <3>1. Stages' = Stages
      BY <2>3, <2>5 DEF Stages
    <3> QED BY <1>3, <1>6, <3>1 DEF Place, Cmd!vars, Stages, Quit
  <2>6. CASE Stage("hid") \in {"taken", "done"}
    <3>1. Cmd!Drop("hid")
      BY <1>6, <2>3, <2>4, <2>6 DEF Cmd!Drop, Cmd!Move, Stages, Quit
    <3> QED BY <1>3, <1>4, <3>1 DEF Place, Cmd!Next
  <2> QED BY <2>2, <2>5, <2>6
<1> QED BY <1>7, <1>8

LEMMA RestartKills ==
  ASSUME HostWaits, Place, Inv', HidGetResponse \/ CcidPowerOn
  PROVE  Place' /\ (Cmd!Next \/ UNCHANGED Cmd!vars)
<1>1. /\ MayAsk("hid") \/ MayAsk("ccid")
      /\ core1' = "idle" /\ toUsb' = <<>> /\ asked' = asked /\ runs' = runs
  BY DEF HidGetResponse, CcidPowerOn, CardStart
<1>2. asked["ccid"] = "no" /\ asked["hid"] \in {"no", "stopped"}
  BY <1>1 DEF MayAsk, WaitsFor
<1> QED BY <1>1, <1>2, Kills

\* A CANCEL while the dialogue is open is about the request that core 1 runs.
LEMMA CancelGivesUp ==
  ASSUME Place, Inv', HidCancel
  PROVE  Place' /\ (Cmd!Next \/ UNCHANGED Cmd!vars)
<1>1. /\ asked["hid"] = "yes" /\ UNCHANGED <<core1, running, toUsb, runs>>
      /\ asked' = [asked EXCEPT !["hid"] = IF dialogs > 0 THEN "stopped" ELSE "cancelled"]
  BY DEF HidCancel, card, queues
<1>2. "hid" \in Itf /\ asked \in [Itf -> {"no", "yes", "cancelled", "stopped"}]
  BY DEF Itf, Place, Inv, Types
<1>3. StageIs /\ StageIs'
  <2>1. Inv' => StageIs'
    BY StageKnown, PTL
  <2> QED BY <2>1, StageKnown DEF Place
<1>4. \A i \in Itf : /\ Runs(i)' = Runs(i)
                     /\ asked'[i] = "no" <=> asked[i] = "no"
                     /\ toUsb' = <<Finished(i)>> <=> toUsb = <<Finished(i)>>
  BY <1>1, <1>2 DEF Runs
<1>5. \A i \in Itf : Stage(i)' = Stage(i)
  BY <1>1, <1>3, <1>4 DEF StageIs
<1>6. Stages' = Stages /\ Alone'
  BY <1>4, <1>5 DEF Stages, Place, Alone, Waiting
<1>7. CASE dialogs = 0
  <2>1. Quit' = Quit
    BY <1>1, <1>2, <1>7 DEF Quit
  <2>2. Once'
    BY <1>1, <1>2, <1>4, <1>7 DEF Place, Once
  <2> QED BY <1>6, <2>1, <2>2 DEF Place, Cmd!vars, Stages, Quit
<1>8. CASE dialogs = 1
  <2>1. core1 = "button" /\ Waiting(running) /\ Waiting("hid") /\ running \in Itf
    BY <1>1, <1>8 DEF Place, Inv, Types, Phase, Quiet, AtEase, AtWork, Waiting
  <2>2. Runs("hid")
    BY <1>2, <2>1 DEF Place, Alone, Runs
  <2>3. Stage("hid") = "taken" /\ runs["hid"] = 1
    BY <1>2, <1>3, <2>2 DEF StageIs, Place, Once
  <2>4. Quit' = Quit \cup {"hid"}
    BY <1>1, <1>2, <1>8 DEF Quit
  <2>5. Once'
    BY <1>1, <1>2, <1>4, <2>3 DEF Place, Once
  <2>6. Cmd!GiveUp("hid")
    BY <1>2, <1>6, <2>3, <2>4 DEF Cmd!GiveUp, Stages, Quit
  <2> QED BY <1>2, <1>6, <2>5, <2>6 DEF Place, Cmd!Next
<1> QED BY <1>7, <1>8 DEF Place, Inv, Types

\* The dialogue, and the way off, move no request.
LEMMA DialogueMovesNothing ==
  ASSUME HostWaits, Place, Inv',
         \/ CcidPowerOff \/ OpenDialog \/ CloseDialog
         \/ AskForButton \/ HearButton \/ UNCHANGED vars
  PROVE  Place' /\ UNCHANGED Cmd!vars
<1>1. asked' = asked /\ runs' = runs /\ running' = running
  BY DEF CcidPowerOff, OpenDialog, CloseDialog, AskForButton, HearButton, vars, card
<1>2. \A i \in Itf : Runs(i)' = Runs(i)
  BY <1>1 DEF CcidPowerOff, OpenDialog, CloseDialog, AskForButton, HearButton, vars,
              card, Runs
<1>3. ASSUME NEW i \in Itf PROVE toUsb' = <<Finished(i)>> <=> toUsb = <<Finished(i)>>
  <2>1. CASE CcidPowerOff \/ CloseDialog \/ HearButton \/ UNCHANGED vars
    BY <2>1 DEF CcidPowerOff, CloseDialog, HearButton, vars, queues
  <2>2. CASE OpenDialog
    <3>1. toUsb = <<Press>> /\ toUsb' = <<>>
      BY <2>2, One DEF OpenDialog, Place, Inv, Short
    <3> QED BY <3>1, One, SameOne, EventsDiffer
  <2>3. CASE AskForButton
    <3>1. toUsb = <<>> /\ toUsb' = <<Press>>
      BY <2>3, Room DEF AskForButton, Place, Inv, Phase, AtEase
    <3> QED BY <3>1, One, SameOne, EventsDiffer
  <2> QED BY <2>1, <2>2, <2>3
<1>4. Place' /\ Stages' = Stages /\ Quit' = Quit
  BY <1>1, <1>2, <1>3, Unmoved
<1> QED BY <1>4 DEF Cmd!vars, Stages, Quit

LEMMA AnswerAnswers ==
  ASSUME Place, Inv', Answer
  PROVE  Place' /\ Cmd!Next
<1>1. PICK c \in Itf : toUsb = <<Finished(c)>>
  BY One DEF Answer, Place, Inv, Short, ToUsbEvent
<1>2. locked = c /\ core1 = "idle" /\ Waiting(c)
  BY <1>1 DEF Place, Inv, Phase, Ended
<1>3. /\ toUsb' = <<>> /\ asked' = [asked EXCEPT ![c] = "no"]
      /\ UNCHANGED <<core1, running, runs>>
  BY <1>1, <1>2, One DEF Answer, card
<1>4. asked \in [Itf -> {"no", "yes", "cancelled", "stopped"}]
  BY DEF Place, Inv, Types
<1>5. StageIs /\ StageIs'
  <2>1. Inv' => StageIs'
    BY StageKnown, PTL
  <2> QED BY <2>1, StageKnown DEF Place
<1>6. \A i \in Itf \ {c} : asked[i] = "no" /\ asked'[i] = "no"
  BY <1>2, <1>3, <1>4 DEF Place, Alone, Waiting
<1>7. Stage(c) = "done" /\ Stage(c)' = "free" /\ \A i \in Itf \ {c} : Stage(i)' = Stage(i)
  BY <1>1, <1>3, <1>4, <1>5, <1>6 DEF StageIs
<1>8. Stages' = [Stages EXCEPT ![c] = "free"] /\ Stages[c] = "done"
  BY <1>7, Moved
<1>9. Quit' = Quit \ {c}
  BY <1>3, <1>4 DEF Quit
<1>10. Cmd!Answer(c)
  BY <1>8, <1>9 DEF Cmd!Answer, Cmd!Move, Stages, Quit
<1>11. Alone' /\ Once'
  BY <1>2, <1>3, <1>4, <1>6, One DEF Alone, Once, Waiting, Runs
<1> QED BY <1>10, <1>11 DEF Place, Cmd!Next

LEMMA TakeTakes ==
  ASSUME Place, Inv', Take
  PROVE  Place' /\ (Cmd!Next \/ UNCHANGED Cmd!vars)
<1>1. core1 = "idle" /\ UNCHANGED <<toUsb, asked>> /\ toCard # <<>>
  BY DEF Take
<1>2. CASE Head(toCard) = Exit
  <2>1. core1' = "off" /\ UNCHANGED <<running, runs>>
    BY <1>2 DEF Take
  <2>2. \A i \in Itf : Runs(i)' = Runs(i)
    BY <1>1, <2>1 DEF Runs
  <2>3. Place' /\ Stages' = Stages /\ Quit' = Quit
    BY <1>1, <2>1, <2>2, Unmoved
  <2> QED BY <2>3 DEF Cmd!vars, Stages, Quit
<1>3. CASE Head(toCard) # Exit
  <2>1. toCard = <<Command>>
    BY <1>1, <1>3, One DEF Place, Inv, Short, Phase, Quiet
  <2>2. toUsb = <<>> /\ Waiting(Source) /\ runs[Source] = 0 /\ Source \in Itf
    BY <2>1 DEF Place, Inv, Phase, Queued, Types, Source, Itf
  <2>3. PICK c \in Itf : c = Source
    BY <2>2
  <2>4. /\ core1' = "run" /\ running' = c
        /\ runs' = [runs EXCEPT ![c] = IF runs[c] < MaxRuns THEN runs[c] + 1 ELSE runs[c]]
    BY <1>3, <2>3 DEF Take, Source
  <2>5. runs \in [Itf -> 0..1] /\ runs' = [runs EXCEPT ![c] = 1]
    BY <2>2, <2>3, <2>4 DEF Place, Inv, Types, MaxRuns
  <2>6. StageIs /\ StageIs'
    <3>1. Inv' => StageIs'
      BY StageKnown, PTL
    <3> QED BY <3>1, StageKnown DEF Place
  <2>7. /\ \A i \in Itf : ~Runs(i) /\ toUsb # <<Finished(i)>> /\ toUsb' # <<Finished(i)>>
        /\ Runs(c)' /\ \A i \in Itf \ {c} : ~Runs(i)' /\ runs'[i] = runs[i]
    BY <1>1, <2>2, <2>4, <2>5, One DEF Runs
  <2>8. Stage(c) = "asked" /\ Stage(c)' = "taken"
    BY <2>2, <2>3, <2>6, <2>7 DEF StageIs, Waiting
  <2>9. \A i \in Itf \ {c} : Stage(i)' = Stage(i)
    BY <1>1, <2>6, <2>7 DEF StageIs
  <2>10. Stages' = [Stages EXCEPT ![c] = "taken"] /\ Stages[c] = "asked"
    BY <2>8, <2>9, Moved
  <2>11. Quit' = Quit
    BY <1>1 DEF Quit
  <2>12. Cmd!Take(c)
    BY <2>10, <2>11 DEF Cmd!Take, Cmd!Move, Stages, Quit
  <2>13. Alone' /\ Once'
    BY <1>1, <2>5, <2>7 DEF Place, Alone, Once, Waiting
  <2> QED BY <2>12, <2>13 DEF Place, Cmd!Next
<1> QED BY <1>2, <1>3

LEMMA FinishEnds ==
  ASSUME Place, Inv', Finish
  PROVE  Place' /\ Cmd!Next
<1>1. /\ core1 \in {"run", "end"} /\ core1' = "idle"
      /\ UNCHANGED <<running, asked, runs>>
      /\ toUsb' = Append(toUsb, Finished(running))
  BY DEF Finish
<1>2. toUsb = <<>> /\ running \in Itf
  BY <1>1 DEF Place, Inv, Types, Phase, AtEase
<1>3. PICK c \in Itf : c = running
  BY <1>2
<1>4. /\ toUsb' = <<Finished(c)>>
      /\ \A i \in Itf \ {c} : toUsb' # <<Finished(i)>>
      /\ \A i \in Itf : toUsb # <<Finished(i)>>
  BY <1>1, <1>2, <1>3, One, SameOne, EventsDiffer
<1>5. StageIs /\ StageIs'
  <2>1. Inv' => StageIs'
    BY StageKnown, PTL
  <2> QED BY <2>1, StageKnown DEF Place
<1>6. Runs(c) /\ \A i \in Itf \ {c} : ~Runs(i) /\ ~Runs(i)'
  BY <1>1, <1>3 DEF Runs
<1>7. Stage(c) = "taken" /\ Stage(c)' = "done"
  BY <1>4, <1>5, <1>6 DEF StageIs
<1>8. \A i \in Itf \ {c} : Stage(i)' = Stage(i)
  BY <1>1, <1>4, <1>5, <1>6 DEF StageIs
<1>9. Stages' = [Stages EXCEPT ![c] = "done"] /\ Stages[c] = "taken"
  BY <1>7, <1>8, Moved
<1>10. Quit' = Quit
  BY <1>1 DEF Quit
<1>11. Cmd!End(c)
  BY <1>9, <1>10 DEF Cmd!End, Cmd!Move, Stages, Quit
<1>12. Alone' /\ Once'
  BY <1>1, <1>4, <1>6 DEF Place, Alone, Once, Waiting
<1> QED BY <1>11, <1>12 DEF Place, Cmd!Next

LEMMA CommandStep ==
  ASSUME HostWaits, Place, [Next]_vars
  PROVE  Place' /\ [Cmd!Next]_(Cmd!vars)
<1>1. Inv'
  BY StepInv DEF Place
<1>2. CASE HidCbor \/ HidMsg
  BY <1>1, <1>2, HidAsks
<1>3. CASE CcidXfr
  BY <1>1, <1>3, CcidAsks
<1>4. CASE HidGetResponse \/ CcidPowerOn
  BY <1>1, <1>4, RestartKills
<1>5. CASE HidCancel
  BY <1>1, <1>5, CancelGivesUp
<1>6. CASE \/ CcidPowerOff \/ OpenDialog \/ CloseDialog
           \/ AskForButton \/ HearButton \/ UNCHANGED vars
  BY <1>1, <1>6, DialogueMovesNothing
<1>7. CASE Answer
  BY <1>1, <1>7, AnswerAnswers
<1>8. CASE Take
  BY <1>1, <1>8, TakeTakes
<1>9. CASE Finish
  BY <1>1, <1>9, FinishEnds
<1> QED
  BY <1>2, <1>3, <1>4, <1>5, <1>6, <1>7, <1>8, <1>9 DEF Next, Packet, Core0, Core1

LEMMA CommandInit == Init => Place /\ Cmd!Init
<1> SUFFICES ASSUME Init PROVE Place /\ Cmd!Init
  OBVIOUS
<1>1. /\ core1 = "off" /\ toUsb = <<>> /\ asked = [i \in Itf |-> "no"]
  BY DEF Init
<1>2. Inv /\ StageIs
  BY InitInv, StageKnown
<1>3. Stages = [i \in Itf |-> "free"] /\ Quit = {}
  BY <1>1, <1>2 DEF Stages, Quit, StageIs
<1>4. Alone /\ Once
  BY <1>1, One DEF Alone, Once, Waiting, Runs
<1> QED BY <1>2, <1>3, <1>4 DEF Place, Cmd!Init, Stages, Quit

\* With hosts that wait, the queues, the threads and the button carry one request
\* at a time: taken up once, ended once, answered to who asked, and never started
\* again, for queues of any size (usb.c, cbor.c, apdu.c, main.c).
THEOREM LinkCarriesCommands == ASSUME HostWaits PROVE Spec => ImplementsCommands
<1>1. Place /\ [Next]_vars => Place' /\ [Cmd!Next]_(Cmd!vars)
  BY CommandStep
<1> QED
  BY <1>1, CommandInit, PTL DEF Spec, ImplementsCommands, Cmd!Spec
=============================================================================
