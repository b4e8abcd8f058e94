------------------------------ MODULE CtapHid ------------------------------
(***************************************************************************)
(* The CTAPHID layer (pico-keys-sdk usb/hid/hid.c and usb/usb.c) on core   *)
(* 0: messages arrive in frames on channels, are put together in           *)
(* msg_packet and are answered at once or handed to core 1.  INIT gives    *)
(* all clients one and the same channel (0x01000000, hid.c:363), and no    *)
(* frame is refused for a channel that nobody was given: clients share     *)
(* channels in any way.  A step is one call of usb_task.  The clients send *)
(* all the frames of a request before they read an answer, as python-fido2 *)
(* does.  The time is kept by what the code asks of it: whether the last   *)
(* command is less than 100 ms old (recent), whether the 500 ms of a       *)
(* message run (timer), whether a LOCK lasts (locked).                     *)
(***************************************************************************)
EXTENDS Integers, Sequences

CONSTANTS
  Clients,
  Channels,    \* the cids that clients use
  Broadcast,   \* CID_BROADCAST
  Zero,        \* the cid 0, which is no channel
  Requests,    \* what clients ask: see Request
  MaxParts,    \* frames of the longest message, CTAP_MAX_PACKET_SIZE
  MaxInbox,    \* bound: answers that wait for a client to read them
  Cancels,     \* clients send CANCEL while they wait for core 1
  Abandons,    \* a client may die, and another begin with INIT in its place
  Prompt       \* a client is never 500 ms late with its next frame

Commands == {"INIT", "WINK", "LOCK", "PING", "CBOR", "OTHER"}
TooLong == MaxParts + 1
Request == [cmd : Commands, n : 1..TooLong, on : {"own", "all", "none"}]

ASSUME HidAssumption ==
  /\ Broadcast \notin Channels /\ Zero \notin Channels
  /\ MaxParts \in Nat \ {0} /\ MaxInbox \in Nat \ {0}
  /\ Cancels \in BOOLEAN
  /\ Requests \subseteq Request
  /\ \A q \in Requests : q.cmd = "INIT" => q.n = 1     \* a nonce of 8 bytes
  /\ Abandons \in BOOLEAN /\ Prompt \in BOOLEAN

VARIABLES
  ctap_req,     \* channel of the frame at the head of rx_buffer
  stuck,        \* that frame was looked at and is still there
  msg_packet,   \* the message under way: its length in frames, the parts that
                \* came, and last_cmd and last_seq, which say nothing without it
  last_req,     \* channel of the last command
  recent, timer, locked,
  job,          \* the command core 1 runs, with the parts it was made of
  senders,      \* who has sent on its channel since the message began
  host,         \* the channel of each client, what it asks, how much is sent
  inbox         \* what waits for a client to read: the result of its request,
                \* or an answer to something else

message == <<msg_packet, last_req>>
device == <<ctap_req, stuck, message, recent, timer, locked, job>>
vars == <<device, senders, host, inbox>>

Channel == Channels \cup {Broadcast, Zero}
Part == [client : Clients, num : 0..1, i : 1..TooLong]
NoJob == [n |-> 0]
\* alone: nobody else sent on its channel meanwhile; state: see Overwritten.
Job == [n : 1..MaxParts, client : Clients, num : 0..1, parts : Seq(Part),
        alone : BOOLEAN, state : {"given", "parsed", "spoilt"}]
Idle == [cmd |-> "none", n |-> 0, on |-> "own"]
Packet == [len : 1..MaxParts, parts : Seq(Part), cmd : Commands, seq : 0..MaxParts]
NoMessage == [len |-> 0]

TypeOK ==
  /\ ctap_req \in Channel /\ last_req \in Channel
  /\ stuck \in BOOLEAN
  /\ msg_packet \in Packet \cup {NoMessage}
  /\ msg_packet # NoMessage => Len(msg_packet.parts) <= msg_packet.len
  /\ recent \in BOOLEAN /\ timer \in BOOLEAN /\ locked \in BOOLEAN
  /\ job \in Job \cup {NoJob}
  /\ job # NoJob => Len(job.parts) = job.n
  /\ senders \subseteq Clients
  /\ host \in [Clients -> [cid : Channels, req : Requests \cup {Idle},
                           sent : 0..TooLong, num : 0..1,
                           resync : BOOLEAN, cancelled : BOOLEAN]]
  /\ inbox \in [Clients -> Seq({"ok", "error", "other"})]

Init ==
  /\ ctap_req = Broadcast /\ last_req = Broadcast
  /\ stuck = FALSE
  /\ msg_packet = NoMessage
  /\ recent = FALSE /\ timer = FALSE /\ locked = FALSE
  /\ job = NoJob /\ senders = {}
  /\ \E cid \in [Clients -> Channels] :
       host = [c \in Clients |-> [cid |-> cid[c], req |-> Idle, sent |-> 0, num |-> 0,
                                 resync |-> TRUE, cancelled |-> FALSE]]
  /\ inbox = [c \in Clients |-> <<>>]
-----------------------------------------------------------------------------
(* Frames and answers.  A frame f carries the cid it is sent on, its       *)
(* command ("CONT" for a continuation), the length n of the message and    *)
(* its place i in it, and who sent it.                                     *)

CidOf(c, r) == CASE r.on = "own" -> host[c].cid
                 [] r.on = "all" -> Broadcast
                 [] r.on = "none" -> Zero

NextFrame(c) ==
  LET h == host[c]
  IN  [cid |-> CidOf(c, h.req), cmd |-> IF h.sent = 0 THEN h.req.cmd ELSE "CONT",
       n |-> h.req.n, i |-> h.sent + 1, client |-> c, num |-> h.num]

CancelFrame(c) == [cid |-> host[c].cid, cmd |-> "CANCEL", n |-> 1, i |-> 1,
                   client |-> c, num |-> host[c].num]

PartOf(f) == [client |-> f.client, num |-> f.num, i |-> f.i]

\* A client reads what is sent on the channel it asks on.
Hears(c, cid) == cid = CidOf(c, host[c].req)

Respond(cid, client, num, result) ==
  LET answer(c) == IF c = client /\ host[c].num = num /\ host[c].req # Idle
                   THEN result ELSE "other"
  IN  inbox' = [c \in Clients |-> IF Hears(c, cid) /\ Len(inbox[c]) < MaxInbox
                                  THEN Append(inbox[c], answer(c)) ELSE inbox[c]]

\* The frame is answered and gone; ctap_error and every immediate answer.
RespondTo(f, result) == /\ Respond(f.cid, f.client, f.num, result)
                        /\ timer' = FALSE
                        /\ stuck' = FALSE

Starts(f) == f.cmd # "CONT"
InTransaction == msg_packet.len > 0 /\ recent
\* Fault: a continuation belongs to whatever message is open.
MineOrAny(f) == f.cid # Broadcast

Mine(f) == last_req = f.cid
-----------------------------------------------------------------------------
(* driver_process_usb_packet_hid.                                          *)

LockedOut(f) == locked /\ ~Mine(f) /\ recent

\* Fault: an open message refuses the commands of its own channel only.
RefusedIfMine(f) ==
  \/ f.cid = Zero \/ (f.cid = Broadcast /\ f.cmd # "INIT")
  \/ LockedOut(f)
  \/ Starts(f) /\ f.n = TooLong
  \/ Starts(f) /\ InTransaction /\ Mine(f) /\ f.cmd # "INIT"
  \/ ~Starts(f) /\ msg_packet.len > 0 /\ msg_packet.seq # f.i - 2
  \/ ~Starts(f) /\ InTransaction /\ ~Mine(f)

\* Fault: the length is not compared with CTAP_MAX_PACKET_SIZE (hid.c:309).
RefusedAnyLength(f) ==
  \/ f.cid = Zero \/ (f.cid = Broadcast /\ f.cmd # "INIT")
  \/ LockedOut(f)
  \/ Starts(f) /\ InTransaction /\ f.cmd # "INIT"
  \/ ~Starts(f) /\ msg_packet.len > 0 /\ msg_packet.seq # f.i - 2
  \/ ~Starts(f) /\ InTransaction /\ ~Mine(f)

Refused(f) ==
  \/ f.cid = Zero \/ (f.cid = Broadcast /\ f.cmd # "INIT")
  \/ LockedOut(f)
  \/ Starts(f) /\ f.n = TooLong
  \/ Starts(f) /\ InTransaction /\ f.cmd # "INIT"
  \/ ~Starts(f) /\ msg_packet.len > 0 /\ msg_packet.seq # f.i - 2
  \/ ~Starts(f) /\ InTransaction /\ ~Mine(f)

\* ctap_error: the message under way stays as it is.
Refuse(f) == /\ Refused(f)
             /\ RespondTo(f, "error")
             /\ UNCHANGED <<message, recent, locked>>

\* A continuation of no message is not cleared from rx_buffer: from here on
\* it is the frame that every call of usb_task looks at.
Stray(f) == /\ ~Refused(f) /\ ~Starts(f)
            /\ msg_packet.len = 0
            /\ stuck' = TRUE
            /\ timer' = TRUE
            /\ UNCHANGED <<message, recent, locked, inbox>>

\* The continuation of another channel, 100 ms after the command.
Ignore(f) == /\ ~Refused(f) /\ ~Starts(f)
             /\ msg_packet.len > 0 /\ ~Mine(f)
             /\ timer' = TRUE
             /\ UNCHANGED <<stuck, message, recent, locked, inbox>>

TakeStart(f) == /\ ~Refused(f) /\ Starts(f)
                /\ last_req' = f.cid
                /\ recent' = TRUE

PacketStarted(f) ==
  IF f.n = 1 THEN NoMessage
  ELSE [len |-> f.n, parts |-> <<PartOf(f)>>, cmd |-> f.cmd, seq |-> 0]

\* INIT, WINK, UUID, VERSION, ADMIN, LOCK and CANCEL: done on the first frame.
\* INIT also rescans the flash (PageCache!Rescan), CANCEL sets cancel_button.
Immediate(f) ==
  /\ TakeStart(f)
  /\ f.cmd \in {"INIT", "WINK", "LOCK", "CANCEL"}
  /\ \/ /\ f.cmd \in {"WINK", "LOCK"}    \* of a wrong length, or over 10 s
        /\ RespondTo(f, "error")
        /\ msg_packet' = PacketStarted(f)
        /\ UNCHANGED locked
     \/ /\ f.cmd \in {"INIT", "CANCEL"} \/ f.n = 1
        /\ RespondTo(f, IF f.cmd = "CANCEL" THEN "error" ELSE "ok")
        /\ msg_packet' = NoMessage
        /\ locked' = (locked \/ f.cmd = "LOCK")

\* A frame in its turn, and what it makes of the message.  Parts beyond the
\* length are counted in seq, and nothing of them is copied.
TakeContinuation(f) == /\ ~Refused(f) /\ ~Starts(f) /\ Mine(f)
                       /\ msg_packet.len > 0
                       /\ UNCHANGED <<last_req, recent>>

TakePart(f) == \/ TakeStart(f) /\ f.cmd \in {"PING", "CBOR", "OTHER"}
               \/ TakeContinuation(f)

Complete(p) == p # NoMessage => Len(p.parts) = p.len
Appended(p, f) == [p EXCEPT !.seq = @ + 1,
                            !.parts = IF Complete(p) THEN @ ELSE Append(@, PartOf(f))]
PacketWith(f) == IF Starts(f) THEN PacketStarted(f) ELSE Appended(msg_packet, f)
CommandOf(f) == IF Starts(f) THEN f.cmd ELSE msg_packet.cmd
PartsWith(f) == IF PacketWith(f) = NoMessage THEN <<PartOf(f)>> ELSE PacketWith(f).parts

\* Fault: a message of an unknown command is forgotten when it is complete.
AccumulateOrForget(f) ==
  /\ TakePart(f)
  /\ PacketWith(f) # NoMessage
  /\ Complete(PacketWith(f)) => CommandOf(f) \notin {"PING", "CBOR"}
  /\ msg_packet' = IF Complete(PacketWith(f)) THEN NoMessage ELSE PacketWith(f)
  /\ timer' = ~Complete(PacketWith(f))
  /\ UNCHANGED <<stuck, locked, inbox>>

Accumulate(f) ==
  /\ TakePart(f)
  /\ PacketWith(f) # NoMessage
  /\ Complete(PacketWith(f)) => CommandOf(f) \notin {"PING", "CBOR"}
  /\ msg_packet' = PacketWith(f)
  /\ timer' = TRUE
  /\ UNCHANGED <<stuck, locked, inbox>>

InvalidCommand(f) ==
  /\ TakePart(f)
  /\ PacketWith(f) = NoMessage /\ f.cmd = "OTHER"
  /\ RespondTo(f, "error")
  /\ msg_packet' = NoMessage
  /\ UNCHANGED locked

Echo(f) ==
  /\ TakePart(f)
  /\ Complete(PacketWith(f)) /\ CommandOf(f) = "PING"
  /\ RespondTo(f, "ok")
  /\ msg_packet' = NoMessage
  /\ UNCHANGED locked

\* CBOR, MSG and the vendor commands: card_start kills the command that core 1
\* runs, if any, and the new one takes its place.
Dispatch(f) ==
  /\ TakePart(f)
  /\ Complete(PacketWith(f)) /\ CommandOf(f) = "CBOR"
  /\ job' = [n |-> Len(PartsWith(f)), client |-> f.client, num |-> f.num,
             parts |-> PartsWith(f), state |-> "given",
             alone |-> Starts(f) \/ senders \subseteq {f.client}]
  /\ msg_packet' = NoMessage
  /\ timer' = FALSE
  /\ UNCHANGED <<stuck, locked, inbox>>

\* Core 1 is handed a pointer (cbor.c:136): into rx_buffer, where every frame
\* comes to lie, or into msg_packet, where the next message begins.  Until it
\* has parsed its command, such a frame spoils it.
Overwritten(f) == job.n = 1 \/ (Starts(f) /\ ~Refused(f) /\ f.n > 1)
JobAfter(f) == IF job # NoJob /\ job.state = "given" /\ Overwritten(f)
               THEN [job EXCEPT !.state = "spoilt"] ELSE job

SendersAfter(f) == CASE Starts(f) /\ ~Refused(f) -> {f.client}
                     [] ~(Starts(f) /\ ~Refused(f)) /\ Mine(f) -> senders \cup {f.client}
                     [] OTHER -> senders

\* While a frame is stuck at the head, those behind it are never looked at.
Deliver(f) ==
  \/ stuck /\ UNCHANGED <<device, senders, inbox>>
  \/ /\ ~stuck
     /\ ctap_req' = f.cid
     /\ \/ /\ \/ Refuse(f) \/ Stray(f) \/ Ignore(f) \/ Immediate(f)
              \/ Accumulate(f) \/ InvalidCommand(f) \/ Echo(f)
           /\ job' = JobAfter(f)
        \/ Dispatch(f)
     /\ senders' = IF msg_packet' = NoMessage THEN {} ELSE SendersAfter(f)
-----------------------------------------------------------------------------
(* The rest of the device.                                                 *)

\* Fault: last_packet_time is not reset, and the timeout comes again.
TimeoutAgain ==
  /\ timer /\ ~stuck /\ ~recent /\ msg_packet # NoMessage
  /\ Respond(ctap_req, msg_packet.parts[1].client, msg_packet.parts[1].num, "error")
  /\ UNCHANGED <<ctap_req, stuck, message, recent, timer, locked, job, senders, host>>

\* driver_process_usb_nopacket_hid, 500 ms after the last frame.
Timeout ==
  /\ timer /\ ~stuck /\ ~recent
  /\ Prompt => \A c \in Clients : host[c].sent \in {0, host[c].req.n}
  /\ Respond(ctap_req, msg_packet.parts[1].client, msg_packet.parts[1].num, "error")
  /\ timer' = FALSE
  /\ msg_packet' = NoMessage
  /\ senders' = {}
  /\ UNCHANGED <<ctap_req, stuck, last_req, recent, locked, job, host>>

\* Core 1 reads its command (cbor_parse copies what it keeps).
Parse ==
  /\ job # NoJob /\ job.state = "given"
  /\ job' = [job EXCEPT !.state = "parsed"]
  /\ UNCHANGED <<ctap_req, stuck, message, recent, timer, locked, senders, host, inbox>>

\* driver_exec_finished_hid: the answer goes to the channel of the last frame.
\* What was asked is told by the command byte: INIT takes no other answer.
Finish ==
  /\ job # NoJob /\ job.state # "given"
  /\ Respond(ctap_req, job.client, job.num,
             IF host[job.client].req.cmd = "CBOR" THEN "ok" ELSE "other")
  /\ job' = NoJob
  /\ UNCHANGED <<ctap_req, stuck, message, recent, timer, locked, senders, host>>

Quiet ==
  /\ recent /\ recent' = FALSE
  /\ UNCHANGED <<ctap_req, stuck, message, timer, locked, job, senders, host, inbox>>
Unlock ==
  /\ locked /\ locked' = FALSE
  /\ UNCHANGED <<ctap_req, stuck, message, recent, timer, job, senders, host, inbox>>
-----------------------------------------------------------------------------
(* The clients.                                                            *)

Ask(c, r) ==
  /\ host[c].req = Idle
  /\ host[c].resync => r.cmd = "INIT"
  /\ host' = [host EXCEPT ![c].req = r, ![c].num = 1 - @]
  /\ UNCHANGED <<device, senders, inbox>>

Send(c) ==
  /\ host[c].sent < host[c].req.n
  /\ host' = [host EXCEPT ![c].sent = @ + 1]
  /\ Deliver(NextFrame(c))

Cancel(c) ==
  /\ host[c].req.cmd = "CBOR" /\ host[c].sent = host[c].req.n /\ inbox[c] = <<>>
  /\ Cancels /\ ~host[c].cancelled
  /\ host' = [host EXCEPT ![c].cancelled = TRUE]
  /\ Deliver(CancelFrame(c))

\* INIT must succeed before a client asks for anything else.
Take(c) ==
  /\ host[c].req # Idle /\ host[c].sent = host[c].req.n /\ inbox[c] # <<>>
  /\ host' = [host EXCEPT ![c].req = Idle, ![c].sent = 0, ![c].cancelled = FALSE,
                          ![c].resync = @ /\ Head(inbox[c]) # "ok"]
  /\ inbox' = [inbox EXCEPT ![c] = [i \in 1..(Len(@) - 1) |-> "other"]]
  /\ UNCHANGED <<device, senders>>

\* The program dies; the one after it opens the device anew.
Abandon(c) ==
  /\ Abandons /\ host[c].req # Idle
  /\ host' = [host EXCEPT ![c].req = Idle, ![c].sent = 0, ![c].cancelled = FALSE,
                          ![c].resync = TRUE]
  /\ inbox' = [inbox EXCEPT ![c] = <<>>]
  /\ UNCHANGED <<device, senders>>
-----------------------------------------------------------------------------
Device == Timeout \/ Parse \/ Finish \/ Quiet \/ Unlock
Client(c) == \/ \E r \in Requests : Ask(c, r)
             \/ Send(c) \/ Cancel(c) \/ Take(c) \/ Abandon(c)
Next == Device \/ \E c \in Clients : Client(c)
Spec == Init /\ [][Next]_vars

\* Core 0 polls for ever, a command of core 1 ends (button_timeout bounds its
\* one wait), and a client sends the rest of what it began and reads its answer.
Fairness == /\ WF_vars(Timeout) /\ WF_vars(Parse) /\ WF_vars(Finish) /\ WF_vars(Quiet)
            /\ \A c \in Clients : WF_vars(Send(c)) /\ WF_vars(Take(c))
FairSpec == Spec /\ Fairness
-----------------------------------------------------------------------------
(* Properties.                                                             *)

\* The parts of a command are in their places and of one channel, and they are
\* those of one request unless another client of that channel was sending, too:
\* whatever other channels send between them and whoever died half-way.
Reassembled ==
  job # NoJob /\ job.state # "spoilt" =>
    \A i \in 1..job.n :
      LET p == job.parts[i]
      IN  /\ p.i = i
          /\ host[p.client].cid = host[job.client].cid
          /\ job.alone => p = [client |-> job.client, num |-> job.num, i |-> i]

\* In the 100 ms after a message began, no frame of another channel touches it:
\* only INIT does (CTAP1_ERR_CHANNEL_BUSY, hid.c:315 and 349).
TransactionKept ==
  [][\A c \in Clients :
       /\ InTransaction
       /\ host'[c].sent = host[c].sent + 1
       /\ CidOf(c, host[c].req) # last_req /\ host[c].req.cmd # "INIT"
       => UNCHANGED message]_vars

\* With one client a request has one answer: what the client finds when it
\* reads is for the request it sent, and nothing of an older one is left.
AnswerIsMine ==
  \A c \in Clients : inbox[c] # <<>> =>
    Len(inbox[c]) = 1 /\ inbox[c][1] # "other" /\ job = NoJob

\* Every request is answered, be it with an error: a complete one, an unknown
\* one, one that is cut short by its timer.
EveryRequestAnswered ==
  \A c \in Clients : (host[c].req # Idle) ~> (host[c].req = Idle)

\* test_055_hid.py:50-53: an INIT, whatever went before, is answered.
InitAnswered ==
  \A c \in Clients : (host[c].req.cmd = "INIT") ~> (host[c].req.cmd # "INIT")
=============================================================================
