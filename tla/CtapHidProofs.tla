---------------------------- MODULE CtapHidProofs ----------------------------
(***************************************************************************)
(* Proofs, for any clients, channels and requests of any number of frames, *)
(* that the parts of what core 1 is given are in their places and of one   *)
(* channel, that they are of one request when one client sends on that     *)
(* channel, and that a message in its 100 ms is left alone by all others.  *)
(***************************************************************************)
EXTENDS CtapHid, TLAPS

\* Frames a client may send.
Frame == [cid : Channel, cmd : Commands \cup {"CONT", "CANCEL"}, n : 1..TooLong,
          i : 1..TooLong, client : Clients, num : 0..1]

\* A client sends the frames of what it asks, and begins with INIT.
HostInv ==
  \A c \in Clients :
    /\ host[c].req = Idle => host[c].sent = 0
    /\ host[c].resync => host[c].req = Idle \/ host[c].req.cmd = "INIT"

Greeted(c) == \E k \in 1..Len(inbox[c]) : inbox[c][k] = "ok"

\* The client of the message under way: it has sent what came and goes on with
\* the next part, or it died and the next one waits for the answer to an INIT.
Sends(c, p) ==
  \/ /\ host[c].req # Idle /\ host[c].req.on = "own"
     /\ host[c].num = p.parts[1].num
     /\ host[c].req.n = p.len
     /\ host[c].sent = Len(p.parts)
  \/ host[c].resync /\ ~Greeted(c)

\* A message that one client alone has sent.
Sole(p, c) ==
  /\ \A i \in 1..Len(p.parts) :
       p.parts[i] = [client |-> c, num |-> p.parts[1].num, i |-> i]
  /\ ~Complete(p) => Sends(c, p)

\* Parts come from the channel of the last command, in order; a message that is
\* complete and still there is of no command that would be carried out.
Placed(parts, x) ==
  \A i \in 1..Len(parts) : parts[i].i = i /\ host[parts[i].client].cid = x
Sound(p) ==
  /\ Len(p.parts) >= 1 /\ Placed(p.parts, last_req)
  /\ Complete(p) => p.cmd \notin {"PING", "CBOR"}
  /\ ~Complete(p) => Len(p.parts) = p.seq + 1
  /\ p.parts[1].client \in senders
  /\ senders = {p.parts[1].client} => Sole(p, p.parts[1].client)

MessageInv == ~stuck /\ msg_packet # NoMessage => Sound(msg_packet)

HidInv == TypeOK /\ HostInv /\ MessageInv /\ Reassembled
-----------------------------------------------------------------------------
(* Frames and messages.                                                    *)

DeviceTypes ==
  /\ ctap_req \in Channel /\ last_req \in Channel
  /\ stuck \in BOOLEAN
  /\ msg_packet \in Packet \cup {NoMessage}
  /\ msg_packet # NoMessage => Len(msg_packet.parts) <= msg_packet.len
  /\ recent \in BOOLEAN /\ timer \in BOOLEAN /\ locked \in BOOLEAN
  /\ job \in Job \cup {NoJob}
  /\ job # NoJob => Len(job.parts) = job.n
  /\ senders \subseteq Clients
HostTypes ==
  host \in [Clients -> [cid : Channels, req : Requests \cup {Idle},
                        sent : 0..TooLong, num : 0..1,
                        resync : BOOLEAN, cancelled : BOOLEAN]]
InboxTypes == inbox \in [Clients -> Seq({"ok", "error", "other"})]

LEMMA Types == TypeOK <=> DeviceTypes /\ HostTypes /\ InboxTypes
BY DEF TypeOK, DeviceTypes, HostTypes, InboxTypes

LEMMA TypesNext == TypeOK' <=> DeviceTypes' /\ HostTypes' /\ InboxTypes'
BY Types, PTL

LEMMA MessageThere ==
  ASSUME DeviceTypes
  PROVE  msg_packet # NoMessage <=> msg_packet.len > 0
<1>1. msg_packet \in Packet \/ msg_packet = NoMessage
  BY DEF DeviceTypes
<1> QED BY <1>1, HidAssumption DEF Packet, NoMessage

LEMMA RequestSent ==
  ASSUME HostTypes, NEW c \in Clients, host[c].sent < host[c].req.n
  PROVE  /\ host[c].req \in Requests /\ host[c].req # Idle
         /\ host[c].req.cmd \in Commands /\ host[c].req.n \in 1..TooLong
         /\ host[c].req.on \in {"own", "all", "none"}
         /\ host[c].sent \in 0..MaxParts
<1>1. host[c].req # Idle
  BY HidAssumption DEF HostTypes, Idle
<1>2. host[c].req \in Requests /\ host[c].req \in Request
  BY <1>1, HidAssumption DEF HostTypes
<1> QED BY <1>1, <1>2, HidAssumption DEF HostTypes, Request, TooLong

LEMMA NextFrameIsFrame ==
  ASSUME HostTypes, NEW c \in Clients, host[c].sent < host[c].req.n
  PROVE  NextFrame(c) \in Frame
<1>1. CidOf(c, host[c].req) \in Channel
  BY RequestSent DEF CidOf, Channel, HostTypes
<1>2. host[c].sent + 1 \in 1..TooLong /\ host[c].num \in 0..1
  BY RequestSent, HidAssumption DEF HostTypes, TooLong
<1> QED BY <1>1, <1>2, RequestSent DEF NextFrame, Frame

LEMMA CancelFrameIsFrame ==
  ASSUME HostTypes, NEW c \in Clients
  PROVE  CancelFrame(c) \in Frame
BY HidAssumption DEF CancelFrame, Frame, Channel, HostTypes, TooLong

LEMMA RespondTypes ==
  ASSUME InboxTypes, NEW cid, NEW client, NEW num,
         NEW result \in {"ok", "error", "other"}, Respond(cid, client, num, result)
  PROVE  InboxTypes'
BY DEF InboxTypes, Respond

LEMMA PartOfFrame == \A f \in Frame : PartOf(f) \in Part
BY DEF PartOf, Part, Frame

\* What a frame that is accepted makes of the message.
LEMMA PacketTypes ==
  ASSUME DeviceTypes, NEW f \in Frame, f.cmd # "CANCEL",
         \/ Starts(f) /\ f.n # TooLong
         \/ ~Starts(f) /\ msg_packet.len > 0 /\ msg_packet.seq = f.i - 2
  PROVE  /\ PacketWith(f) \in Packet \cup {NoMessage}
         /\ PacketWith(f) # NoMessage => Len(PacketWith(f).parts) <= PacketWith(f).len
         /\ PartsWith(f) \in Seq(Part) /\ Len(PartsWith(f)) <= MaxParts
<1> USE HidAssumption DEF TooLong
<1>1. PartOf(f) \in Part
  BY PartOfFrame
<1>2. /\ <<PartOf(f)>> \in Seq(Part) /\ Len(<<PartOf(f)>>) = 1
      /\ Len(<<PartOf(f)>>) <= MaxParts
  BY <1>1
<1>3. CASE Starts(f) /\ f.n = 1
  BY <1>2, <1>3 DEF PacketWith, PacketStarted, PartsWith
<1>4. CASE Starts(f) /\ f.n # 1
  <2>1. PacketWith(f) = [len |-> f.n, parts |-> <<PartOf(f)>>, cmd |-> f.cmd, seq |-> 0]
    BY <1>4 DEF PacketWith, PacketStarted
  <2>2. f.cmd \in Commands /\ f.n \in 1..MaxParts /\ f.n > 1
    <3>1. f.n \in 1..TooLong /\ f.n # TooLong /\ f.n # 1
      BY <1>4 DEF Frame
    <3>2. f.n \in 1..MaxParts /\ f.n > 1
      BY <3>1
    <3> QED BY <1>4, <3>2 DEF Frame, Starts
  <2>3. PacketWith(f) \in Packet
    BY <1>2, <2>1, <2>2 DEF Packet
  <2>4. PacketWith(f).parts = <<PartOf(f)>> /\ PacketWith(f).len = f.n
    BY <2>1
  <2>5. PartsWith(f) \in Seq(Part) /\ Len(PartsWith(f)) = 1
    BY <1>2, <2>4 DEF PartsWith
  <2> QED BY <1>2, <2>2, <2>3, <2>4, <2>5
<1>5. CASE ~Starts(f)
  <2>1. /\ msg_packet \in Packet /\ Len(msg_packet.parts) <= msg_packet.len
        /\ PacketWith(f) = Appended(msg_packet, f)
        /\ msg_packet.seq + 1 \in 0..MaxParts
    BY <1>5, MessageThere DEF DeviceTypes, PacketWith, Frame
  <2>2. CASE Complete(msg_packet)
    <3>1. PacketWith(f) = [msg_packet EXCEPT !.seq = @ + 1]
      BY <2>1, <2>2 DEF Appended, Packet
    <3>2. PacketWith(f) \in Packet /\ PacketWith(f).parts = msg_packet.parts
          /\ PacketWith(f).len = msg_packet.len
      BY <2>1, <3>1 DEF Packet
    <3>3. /\ msg_packet.parts \in Seq(Part) /\ Len(msg_packet.parts) \in Nat
          /\ msg_packet.len \in 1..MaxParts
      BY <2>1 DEF Packet
    <3>4. Len(msg_packet.parts) <= MaxParts
      BY <2>1, <3>3
    <3>5. PartsWith(f) \in {<<PartOf(f)>>, msg_packet.parts}
      BY <3>2 DEF PartsWith
    <3>6. PartsWith(f) \in Seq(Part) /\ Len(PartsWith(f)) <= MaxParts
      <4>1. CASE PartsWith(f) = <<PartOf(f)>>
        BY <1>2, <4>1
      <4>2. CASE PartsWith(f) = msg_packet.parts
        BY <3>3, <3>4, <4>2
      <4> QED BY <3>5, <4>1, <4>2
    <3> QED BY <2>1, <3>2, <3>6
  <2>3. CASE ~Complete(msg_packet)
    <3>1. PacketWith(f) = [msg_packet EXCEPT !.seq = @ + 1,
                                             !.parts = Append(@, PartOf(f))]
      BY <2>1, <2>3 DEF Appended
    <3>2. /\ Append(msg_packet.parts, PartOf(f)) \in Seq(Part)
          /\ Len(Append(msg_packet.parts, PartOf(f))) = Len(msg_packet.parts) + 1
      BY <1>1, <2>1 DEF Packet
    <3>3. Len(msg_packet.parts) + 1 <= msg_packet.len
      BY <2>1, <2>3 DEF Complete, Packet
    <3>4. PacketWith(f) \in Packet /\ PacketWith(f).parts = Append(msg_packet.parts, PartOf(f))
          /\ PacketWith(f).len = msg_packet.len
      BY <2>1, <3>1, <3>2 DEF Packet
    <3>5. msg_packet.len <= MaxParts /\ msg_packet.len \in Nat
      BY <2>1 DEF Packet
    <3>6. Len(msg_packet.parts) \in Nat
      BY <2>1 DEF Packet
    <3>7. Len(Append(msg_packet.parts, PartOf(f))) <= MaxParts
      BY <3>2, <3>3, <3>5, <3>6
    <3>8. PartsWith(f) \in {<<PartOf(f)>>, Append(msg_packet.parts, PartOf(f))}
      BY <3>4 DEF PartsWith
    <3>9. PartsWith(f) \in Seq(Part) /\ Len(PartsWith(f)) <= MaxParts
      <4>1. CASE PartsWith(f) = <<PartOf(f)>>
        BY <1>2, <4>1
      <4>2. CASE PartsWith(f) = Append(msg_packet.parts, PartOf(f))
        BY <3>2, <3>7, <4>2
      <4> QED BY <3>8, <4>1, <4>2
    <3>10. Len(PacketWith(f).parts) <= PacketWith(f).len
      BY <3>2, <3>3, <3>4
    <3> QED BY <3>4, <3>9, <3>10
  <2> QED BY <2>2, <2>3
<1> QED BY <1>3, <1>4, <1>5

\* A frame that is taken for its message is in its turn.
LEMMA InTurn ==
  ASSUME NEW f \in Frame, ~Refused(f)
  PROVE  /\ Starts(f) => f.n # TooLong
         /\ ~Starts(f) /\ msg_packet.len > 0 => msg_packet.seq = f.i - 2
BY DEF Refused
-----------------------------------------------------------------------------
(* Type correctness.                                                       *)

LEMMA DeliverTypes ==
  ASSUME DeviceTypes, InboxTypes, NEW f \in Frame, Deliver(f)
  PROVE  DeviceTypes' /\ InboxTypes'
<1> USE HidAssumption
<1>1. CASE stuck
  <2>1. UNCHANGED <<device, senders, inbox>>
    BY <1>1 DEF Deliver
  <2> QED BY <2>1 DEF DeviceTypes, InboxTypes, device, message
<1>2. CASE ~stuck
  <2> /\ f.cid \in Channel /\ f.client \in Clients
    BY DEF Frame
  <2>1. /\ ctap_req' = f.cid
        /\ \/ Refuse(f) \/ Stray(f) \/ Ignore(f) \/ Immediate(f) \/ Accumulate(f)
           \/ InvalidCommand(f) \/ Echo(f) \/ Dispatch(f)
        /\ job' = JobAfter(f) \/ Dispatch(f)
        /\ senders' \in {{}, SendersAfter(f)}
    BY <1>2 DEF Deliver
  <2>2. ASSUME TakePart(f)
        PROVE  /\ last_req' \in Channel /\ recent' \in BOOLEAN
               /\ PacketWith(f) \in Packet \cup {NoMessage}
               /\ PacketWith(f) # NoMessage =>
                    Len(PacketWith(f).parts) <= PacketWith(f).len
               /\ PartsWith(f) \in Seq(Part) /\ Len(PartsWith(f)) <= MaxParts
    <3>1. /\ last_req' \in Channel /\ recent' \in BOOLEAN
          /\ f.cmd # "CANCEL"
          /\ \/ Starts(f) /\ f.n # TooLong
             \/ ~Starts(f) /\ msg_packet.len > 0 /\ msg_packet.seq = f.i - 2
      BY <2>2, InTurn DEF TakePart, TakeStart, TakeContinuation, Starts, DeviceTypes
    <3> QED BY <3>1, PacketTypes
  <2>3. senders' \subseteq Clients
    BY <2>1 DEF SendersAfter, DeviceTypes
  <2>4. job' \in Job \cup {NoJob} /\ (job' # NoJob => Len(job'.parts) = job'.n)
    <3>1. CASE job' = JobAfter(f)
      <4>1. CASE job' = job
        BY <4>1 DEF DeviceTypes
      <4>2. CASE job # NoJob /\ job' = [job EXCEPT !.state = "spoilt"]
        <5>1. job \in Job /\ Len(job.parts) = job.n
          BY <4>2 DEF DeviceTypes
        <5>2. job' \in Job /\ job'.parts = job.parts /\ job'.n = job.n
          BY <4>2, <5>1 DEF Job
        <5> QED BY <5>1, <5>2
      <4> QED BY <3>1, <4>1, <4>2 DEF JobAfter
    <3>2. CASE Dispatch(f)
      <4>1. /\ PartsWith(f) \in Seq(Part) /\ Len(PartsWith(f)) <= MaxParts
            /\ f.num \in 0..1
        BY <2>2, <3>2 DEF Dispatch, Frame
      <4>2. Len(PartsWith(f)) \in 1..MaxParts
        <5>1. Len(PartsWith(f)) \in Nat /\ (PartsWith(f) = <<>> <=> Len(PartsWith(f)) = 0)
          BY <4>1
        <5>2. PartsWith(f) # <<>>
          <6>1. CASE PacketWith(f) = NoMessage
            <7>1. PartsWith(f) = <<PartOf(f)>>
              BY <6>1 DEF PartsWith
            <7> QED BY <7>1
          <6>2. CASE PacketWith(f) # NoMessage
            <7>1. /\ PacketWith(f) \in Packet /\ PartsWith(f) = PacketWith(f).parts
                  /\ Len(PartsWith(f)) = PacketWith(f).len
              BY <2>2, <3>2, <6>2 DEF PartsWith, Dispatch, Complete
            <7> QED BY <5>1, <7>1 DEF Packet
          <6> QED BY <6>1, <6>2
        <5> QED BY <4>1, <5>1, <5>2
      <4> DEFINE q == PartsWith(f)
                 a == Starts(f) \/ senders \subseteq {f.client}
      <4>3. /\ q \in Seq(Part) /\ Len(q) \in 1..MaxParts /\ f.num \in 0..1
            /\ a \in BOOLEAN /\ f.client \in Clients
            /\ job' = [n |-> Len(q), client |-> f.client, num |-> f.num, parts |-> q,
                       state |-> "given", alone |-> a]
        BY <3>2, <4>1, <4>2 DEF Dispatch
      <4> HIDE DEF q, a
      <4> QED BY <4>3 DEF Job
    <3> QED BY <2>1, <3>1, <3>2
  <2>5. CASE Refuse(f)
    <3>1. InboxTypes'
      BY <2>5, RespondTypes DEF Refuse, RespondTo
    <3> QED BY <2>1, <2>3, <2>4, <2>5, <3>1 DEF Refuse, RespondTo, message, DeviceTypes
  <2>6. CASE Stray(f) \/ Ignore(f)
    BY <2>1, <2>3, <2>4, <2>6 DEF Stray, Ignore, message, DeviceTypes, InboxTypes
  <2>7. CASE Immediate(f)
    <3>1. InboxTypes'
      BY <2>7, RespondTypes DEF Immediate, RespondTo
    <3>2. /\ stuck' = FALSE /\ timer' = FALSE /\ locked' \in BOOLEAN
          /\ last_req' = f.cid /\ recent' = TRUE
      BY <2>7 DEF Immediate, TakeStart, RespondTo, DeviceTypes
    <3>3. CASE msg_packet' = NoMessage
      BY <2>1, <2>3, <2>4, <3>1, <3>2, <3>3 DEF DeviceTypes
    <3>4. CASE msg_packet' = PacketStarted(f) /\ f.cmd \in {"WINK", "LOCK"}
      <4>1. /\ Starts(f) /\ f.cmd # "CANCEL" /\ f.n # TooLong
            /\ PacketWith(f) = PacketStarted(f)
        BY <2>7, <3>4, InTurn DEF Starts, PacketWith, Immediate, TakeStart
      <4>2. /\ msg_packet' \in Packet \cup {NoMessage}
            /\ msg_packet' # NoMessage => Len(msg_packet'.parts) <= msg_packet'.len
        BY <3>4, <4>1, PacketTypes
      <4> QED BY <2>1, <2>3, <2>4, <3>1, <3>2, <4>2 DEF DeviceTypes
    <3> QED BY <2>7, <3>3, <3>4 DEF Immediate
  <2>8. CASE Accumulate(f)
    BY <2>1, <2>2, <2>3, <2>4, <2>8 DEF Accumulate, DeviceTypes, InboxTypes
  <2>9. CASE InvalidCommand(f) \/ Echo(f)
    <3>1. InboxTypes'
      BY <2>9, RespondTypes DEF InvalidCommand, Echo, RespondTo
    <3> QED BY <2>1, <2>2, <2>3, <2>4, <2>9, <3>1
        DEF InvalidCommand, Echo, RespondTo, DeviceTypes
  <2>10. CASE Dispatch(f)
    BY <2>1, <2>2, <2>3, <2>4, <2>10 DEF Dispatch, DeviceTypes, InboxTypes
  <2> QED BY <2>1, <2>5, <2>6, <2>7, <2>8, <2>9, <2>10
<1> QED BY <1>1, <1>2 DEF DeviceTypes

\* The clients' own steps: what becomes of host.
HostRecord == [cid : Channels, req : Requests \cup {Idle}, sent : 0..TooLong,
               num : 0..1, resync : BOOLEAN, cancelled : BOOLEAN]
Idles(h) == h.req = Idle /\ h.sent = 0

LEMMA HostOf ==
  ASSUME HostTypes, NEW c \in Clients, NEW h \in HostRecord,
         host' = [host EXCEPT ![c] = h]
  PROVE  HostTypes' /\ host'[c] = h /\ \A d \in Clients : d # c => host'[d] = host[d]
BY DEF HostTypes, HostRecord

ChannelsStay == \A d \in Clients : host'[d].cid = host[d].cid

LEMMA HostOfAsk ==
  ASSUME HostTypes, NEW c \in Clients, NEW q \in Requests, Ask(c, q)
  PROVE  /\ HostTypes' /\ \A d \in Clients : d # c => host'[d] = host[d]
         /\ ChannelsStay
         /\ host[c].req = Idle /\ host'[c].req = q /\ host'[c].sent = host[c].sent
         /\ host'[c].resync = host[c].resync
         /\ host[c].resync => q.cmd = "INIT"
<1> DEFINE h == [host[c] EXCEPT !.req = q, !.num = 1 - host[c].num]
<1>1. /\ host' = [host EXCEPT ![c] = h]
      /\ host[c].req = Idle
      /\ host[c].resync => q.cmd = "INIT"
  BY DEF Ask, HostTypes
<1>2. host[c] \in HostRecord /\ 1 - host[c].num \in 0..1
  BY DEF HostTypes, HostRecord
<1>3. /\ h \in HostRecord /\ h.req = q /\ h.sent = host[c].sent
      /\ h.resync = host[c].resync /\ h.cid = host[c].cid
  BY <1>2 DEF HostRecord
<1> HIDE DEF h
<1>4. HostTypes' /\ host'[c] = h /\ \A d \in Clients : d # c => host'[d] = host[d]
  BY <1>1, <1>3, HostOf
<1> QED BY <1>1, <1>3, <1>4 DEF ChannelsStay

LEMMA HostOfSend ==
  ASSUME HostTypes, NEW c \in Clients, Send(c)
  PROVE  /\ HostTypes' /\ \A d \in Clients : d # c => host'[d] = host[d]
         /\ host'[c].sent = host[c].sent + 1 /\ host'[c].req = host[c].req
         /\ host'[c].num = host[c].num /\ host'[c].resync = host[c].resync
         /\ ChannelsStay
<1> DEFINE h == [host[c] EXCEPT !.sent = host[c].sent + 1]
<1>1. host' = [host EXCEPT ![c] = h]
  BY DEF Send, HostTypes
<1>2. host[c] \in HostRecord /\ host[c].sent + 1 \in 0..TooLong
  BY RequestSent, HidAssumption DEF Send, HostTypes, HostRecord, TooLong
<1>3. /\ h \in HostRecord /\ h.sent = host[c].sent + 1 /\ h.req = host[c].req
      /\ h.num = host[c].num /\ h.resync = host[c].resync /\ h.cid = host[c].cid
  BY <1>2 DEF HostRecord
<1> HIDE DEF h
<1>4. HostTypes' /\ host'[c] = h /\ \A d \in Clients : d # c => host'[d] = host[d]
  BY <1>1, <1>3, HostOf
<1> QED BY <1>3, <1>4 DEF ChannelsStay

LEMMA HostOfCancel ==
  ASSUME HostTypes, NEW c \in Clients, Cancel(c)
  PROVE  /\ HostTypes' /\ \A d \in Clients : d # c => host'[d] = host[d]
         /\ host'[c].sent = host[c].sent /\ host'[c].req = host[c].req
         /\ host'[c].num = host[c].num /\ host'[c].resync = host[c].resync
         /\ ChannelsStay
<1> DEFINE h == [host[c] EXCEPT !.cancelled = TRUE]
<1>1. host' = [host EXCEPT ![c] = h]
  BY DEF Cancel, HostTypes
<1>2. host[c] \in HostRecord
  BY DEF HostTypes, HostRecord
<1>3. /\ h \in HostRecord /\ h.sent = host[c].sent /\ h.req = host[c].req
      /\ h.num = host[c].num /\ h.resync = host[c].resync /\ h.cid = host[c].cid
  BY <1>2 DEF HostRecord
<1> HIDE DEF h
<1>4. HostTypes' /\ host'[c] = h /\ \A d \in Clients : d # c => host'[d] = host[d]
  BY <1>1, <1>3, HostOf
<1> QED BY <1>3, <1>4 DEF ChannelsStay

LEMMA HostOfEnd ==
  ASSUME HostTypes, NEW c \in Clients, Take(c) \/ Abandon(c)
  PROVE  /\ HostTypes' /\ \A d \in Clients : d # c => host'[d] = host[d]
         /\ Idles(host'[c]) /\ ChannelsStay
         /\ Abandon(c) => host'[c].resync
         /\ ~Abandon(c) => host'[c].resync = (host[c].resync /\ Head(inbox[c]) # "ok")
<1>1. host[c] \in HostRecord /\ 0 \in 0..TooLong
  BY HidAssumption DEF HostTypes, HostRecord, TooLong
<1>2. PICK z \in BOOLEAN :
        /\ host' = [host EXCEPT ![c] = [host[c] EXCEPT !.req = Idle, !.sent = 0,
                                          !.cancelled = FALSE, !.resync = z]]
        /\ Abandon(c) => z
        /\ ~Abandon(c) => z = (host[c].resync /\ Head(inbox[c]) # "ok")
  <2>1. CASE Abandon(c)
    <3>1. host' = [host EXCEPT ![c] = [host[c] EXCEPT !.req = Idle, !.sent = 0,
                                         !.cancelled = FALSE, !.resync = TRUE]]
      BY <2>1 DEF Abandon, HostTypes
    <3> QED BY <2>1, <3>1
  <2>2. CASE Take(c) /\ ~Abandon(c)
    <3>1. (host[c].resync /\ Head(inbox[c]) # "ok") \in BOOLEAN
      OBVIOUS
    <3>2. host' = [host EXCEPT ![c] = [host[c] EXCEPT !.req = Idle, !.sent = 0,
                     !.cancelled = FALSE, !.resync = host[c].resync /\ Head(inbox[c]) # "ok"]]
      BY <2>2 DEF Take, HostTypes
    <3> QED BY <2>2, <3>1, <3>2
  <2> QED BY <2>1, <2>2
<1> DEFINE h == [host[c] EXCEPT !.req = Idle, !.sent = 0,
                                !.cancelled = FALSE, !.resync = z]
<1>3. h \in HostRecord /\ Idles(h) /\ h.resync = z /\ h.cid = host[c].cid
  BY <1>1 DEF HostRecord, Idles
<1> HIDE DEF h
<1>4. HostTypes' /\ host'[c] = h /\ \A d \in Clients : d # c => host'[d] = host[d]
  BY <1>2, <1>3, HostOf DEF h
<1> QED BY <1>2, <1>3, <1>4 DEF ChannelsStay

LEMMA ClientTypes ==
  ASSUME HostTypes, NEW c \in Clients, Client(c)
  PROVE  /\ HostTypes' /\ ChannelsStay
         /\ \A d \in Clients : d # c => host'[d] = host[d]
<1>1. CASE \E q \in Requests : Ask(c, q)
  BY <1>1, HostOfAsk
<1>2. CASE Send(c)
  BY <1>2, HostOfSend
<1>3. CASE Cancel(c)
  BY <1>3, HostOfCancel
<1>4. CASE Take(c) \/ Abandon(c)
  BY <1>4, HostOfEnd
<1> QED BY <1>1, <1>2, <1>3, <1>4 DEF Client

BeginsWithInit(h) == /\ h.req = Idle => h.sent = 0
                     /\ h.resync => h.req = Idle \/ h.req.cmd = "INIT"

LEMMA HostInvKept ==
  ASSUME HostTypes, HostInv, NEW c \in Clients, Client(c)
  PROVE  HostInv'
<1> SUFFICES ASSUME NEW d \in Clients PROVE BeginsWithInit(host'[d])
  BY DEF HostInv, BeginsWithInit
<1>1. BeginsWithInit(host[d])
  BY DEF HostInv, BeginsWithInit
<1>2. CASE d # c
  BY <1>1, <1>2, ClientTypes
<1>3. CASE d = c
  <2>1. CASE \E q \in Requests : Ask(c, q)
    <3>1. PICK q \in Requests : Ask(c, q)
      BY <2>1
    <3>2. q # Idle
      BY HidAssumption DEF Request, Idle
    <3> QED BY <1>1, <1>3, <3>1, <3>2, HostOfAsk DEF BeginsWithInit
  <2>2. CASE Send(c)
    <3>1. host[c].req # Idle
      BY <2>2, RequestSent DEF Send
    <3> QED BY <1>1, <1>3, <2>2, <3>1, HostOfSend DEF BeginsWithInit
  <2>3. CASE Cancel(c)
    BY <1>1, <1>3, <2>3, HostOfCancel DEF BeginsWithInit
  <2>4. CASE Take(c) \/ Abandon(c)
    BY <1>3, <2>4, HostOfEnd DEF BeginsWithInit, Idles
  <2> QED BY <2>1, <2>2, <2>3, <2>4 DEF Client
<1> QED BY <1>2, <1>3

LEMMA TypesKept == TypeOK /\ [Next]_vars => TypeOK'
<1> SUFFICES ASSUME DeviceTypes, HostTypes, InboxTypes, [Next]_vars
             PROVE  DeviceTypes' /\ HostTypes' /\ InboxTypes'
  BY Types, TypesNext
<1>1. CASE Device
  <2>1. CASE Timeout
    <3>1. InboxTypes'
      BY <2>1, RespondTypes DEF Timeout
    <3> QED BY <2>1, <3>1 DEF Timeout, DeviceTypes, HostTypes
  <2>2. CASE Finish
    <3>1. InboxTypes'
      BY <2>2, RespondTypes DEF Finish
    <3> QED BY <2>2, <3>1 DEF Finish, message, DeviceTypes, HostTypes
  <2>4. CASE Parse
    <3>1. job' \in Job /\ Len(job'.parts) = job'.n
      <4>1. /\ job \in Job /\ job' = [job EXCEPT !.state = "parsed"]
            /\ Len(job.parts) = job.n
        BY <2>4 DEF Parse, DeviceTypes
      <4>2. job' \in Job /\ job'.parts = job.parts /\ job'.n = job.n
        BY <4>1 DEF Job
      <4> QED BY <4>1, <4>2
    <3> QED BY <2>4, <3>1 DEF Parse, message, DeviceTypes, HostTypes, InboxTypes
  <2>3. CASE Quiet \/ Unlock
    BY <2>3 DEF Quiet, Unlock, message, DeviceTypes, HostTypes, InboxTypes
  <2> QED BY <1>1, <2>1, <2>2, <2>3, <2>4 DEF Device
<1>2. ASSUME NEW c \in Clients, Client(c)
      PROVE  DeviceTypes' /\ HostTypes' /\ InboxTypes'
  <2>1. HostTypes'
    BY <1>2, ClientTypes
  <2>2. CASE Send(c)
    <3>1. Deliver(NextFrame(c)) /\ NextFrame(c) \in Frame
      BY <2>2, NextFrameIsFrame DEF Send
    <3> QED BY <2>1, <3>1, DeliverTypes
  <2>3. CASE Cancel(c)
    <3>1. Deliver(CancelFrame(c)) /\ CancelFrame(c) \in Frame
      BY <2>3, CancelFrameIsFrame DEF Cancel
    <3> QED BY <2>1, <3>1, DeliverTypes
  <2>4. CASE Take(c)
    <3>1. [i \in 1..(Len(inbox[c]) - 1) |-> "other"] \in Seq({"ok", "error", "other"})
      BY <2>4 DEF Take, InboxTypes
    <3> QED BY <2>1, <2>4, <3>1 DEF Take, device, message, DeviceTypes, InboxTypes
  <2>5. CASE Abandon(c)
    BY <2>1, <2>5 DEF Abandon, device, message, DeviceTypes, InboxTypes
  <2>6. CASE \E q \in Requests : Ask(c, q)
    BY <2>1, <2>6 DEF Ask, device, message, DeviceTypes, InboxTypes
  <2> QED BY <1>2, <2>1, <2>2, <2>3, <2>4, <2>5, <2>6 DEF Client
<1>3. CASE UNCHANGED vars
  BY <1>3 DEF vars, device, message, DeviceTypes, HostTypes, InboxTypes
<1> QED BY <1>1, <1>2, <1>3 DEF Next

LEMMA TypesInit == Init => TypeOK /\ HostInv
<1> SUFFICES ASSUME Init PROVE DeviceTypes /\ HostTypes /\ InboxTypes /\ HostInv
  BY Types
<1>1. Broadcast \in Channel /\ NoMessage \in Packet \cup {NoMessage}
  BY DEF Channel
<1>2. DeviceTypes
  BY <1>1 DEF Init, DeviceTypes
<1>3. HostTypes /\ HostInv
  BY HidAssumption DEF Init, HostTypes, HostInv, TooLong
<1>4. InboxTypes
  BY DEF Init, InboxTypes
<1> QED BY <1>2, <1>3, <1>4

\* Every variable keeps its type, for any clients, requests and inboxes.
THEOREM TypeCorrect == Spec => []TypeOK
<1> QED BY TypesInit, TypesKept, PTL DEF Spec
-----------------------------------------------------------------------------
(* A message under way is left to its channel.                             *)

\* In the 100 ms after a message began, whatever another channel sends but
\* INIT is refused and changes nothing of it.
THEOREM OthersLeaveItAlone == Spec => TransactionKept
<1>1. TypeOK /\ [Next]_vars =>
        [\A c \in Clients :
           /\ InTransaction
           /\ host'[c].sent = host[c].sent + 1
           /\ CidOf(c, host[c].req) # last_req /\ host[c].req.cmd # "INIT"
           => UNCHANGED message]_vars
  <2> SUFFICES ASSUME TypeOK, Next, NEW c \in Clients, InTransaction,
                      host'[c].sent = host[c].sent + 1,
                      CidOf(c, host[c].req) # last_req, host[c].req.cmd # "INIT"
               PROVE  UNCHANGED message
    OBVIOUS
  <2> DeviceTypes /\ HostTypes
    BY Types
  <2>1. host[c].sent \in Nat
    BY HidAssumption DEF HostTypes
  <2>2. ~Device
    BY <2>1 DEF Device, Timeout, Parse, Finish, Quiet, Unlock
  <2>3. PICK d \in Clients : Client(d)
    BY <2>2 DEF Next
  <2>4. d = c /\ Send(c)
    <3>1. d = c
      BY <2>1, <2>3, ClientTypes
    <3>2. ~Cancel(c) /\ ~Take(c) /\ ~Abandon(c)
      BY <2>1, HostOfCancel, HostOfEnd DEF Idles
    <3>3. \A q \in Requests : ~Ask(c, q)
      BY <2>1, HostOfAsk
    <3> QED BY <2>3, <3>1, <3>2, <3>3 DEF Client
  <2> DEFINE f == NextFrame(c)
  <2>5. f.cid = CidOf(c, host[c].req) /\ ~Mine(f) /\ f.cmd # "INIT"
    BY DEF NextFrame, Mine
  <2>6. Refused(f)
    BY <2>5 DEF Refused, InTransaction
  <2>7. Deliver(f)
    BY <2>4 DEF Send
  <2>8. CASE stuck
    BY <2>7, <2>8 DEF Deliver, device
  <2>9. CASE Refuse(f)
    BY <2>9 DEF Refuse
  <2> QED BY <2>6, <2>7, <2>8, <2>9 DEF Deliver, Stray, Ignore, Immediate, TakeStart,
      Accumulate, InvalidCommand, Echo, Dispatch, TakePart, TakeContinuation
<1> QED BY <1>1, TypeCorrect, PTL DEF Spec, TransactionKept
-----------------------------------------------------------------------------
(* What becomes of the parts.                                              *)

LEMMA NextFrameFacts ==
  ASSUME HostTypes, NEW c \in Clients, host[c].sent < host[c].req.n
  PROVE  LET f == NextFrame(c)
         IN  /\ f.client = c /\ f.num = host[c].num /\ f.n = host[c].req.n
             /\ f.i = host[c].sent + 1
             /\ Starts(f) <=> host[c].sent = 0
             /\ Starts(f) => f.cmd = host[c].req.cmd
             /\ f.cid \in Channels <=> host[c].req.on = "own"
             /\ host[c].req.on = "own" => f.cid = host[c].cid
             /\ PartOf(f) = [client |-> c, num |-> host[c].num, i |-> host[c].sent + 1]
<1>1. host[c].req.cmd \in Commands /\ host[c].req.on \in {"own", "all", "none"}
  BY RequestSent
<1>2. host[c].cid \in Channels
  BY DEF HostTypes
<1> QED BY <1>1, <1>2, HidAssumption DEF NextFrame, Starts, PartOf, CidOf, Commands

\* A client that begins anew sends INIT, which is one frame.
LEMMA BeginsAnew ==
  ASSUME HostTypes, HostInv, NEW c \in Clients, Send(c), host[c].resync
  PROVE  Starts(NextFrame(c)) /\ NextFrame(c).cmd = "INIT"
<1>1. host[c].sent < host[c].req.n
  BY DEF Send
<1>2. /\ host[c].req \in Requests /\ host[c].req.cmd = "INIT" /\ host[c].sent \in Nat
  BY <1>1, RequestSent, HidAssumption DEF HostInv
<1>3. host[c].sent = 0
  BY <1>1, <1>2, HidAssumption
<1> QED BY <1>1, <1>2, <1>3, NextFrameFacts

LEMMA PacketKept ==
  ASSUME DeviceTypes, msg_packet # NoMessage
  PROVE  /\ msg_packet \in Packet /\ msg_packet.parts \in Seq(Part)
         /\ Len(msg_packet.parts) \in Nat /\ msg_packet.len \in 1..MaxParts
         /\ \A i \in 1..Len(msg_packet.parts) : msg_packet.parts[i].client \in Clients
         /\ ~Complete(msg_packet) => Len(msg_packet.parts) < msg_packet.len
<1>1. msg_packet \in Packet /\ Len(msg_packet.parts) <= msg_packet.len
  BY DEF DeviceTypes
<1>2. msg_packet.parts \in Seq(Part) /\ msg_packet.len \in 1..MaxParts
  BY <1>1 DEF Packet
<1>3. \A i \in 1..Len(msg_packet.parts) : msg_packet.parts[i].client \in Clients
  <2> SUFFICES ASSUME NEW i \in 1..Len(msg_packet.parts)
               PROVE  msg_packet.parts[i].client \in Clients
    OBVIOUS
  <2>1. msg_packet.parts[i] \in Part
    BY <1>2
  <2> QED BY <2>1 DEF Part
<1>4. Len(msg_packet.parts) \in Nat /\ msg_packet.len \in Nat
  BY <1>2, HidAssumption
<1>5. ~Complete(msg_packet) => Len(msg_packet.parts) < msg_packet.len
  BY <1>1, <1>4 DEF Complete
<1> QED BY <1>1, <1>2, <1>3, <1>4, <1>5

\* The open message that a client is sending is never refused its next part.
LEMMA NextIsAccepted ==
  ASSUME DeviceTypes, HostTypes, MessageInv, ~stuck, msg_packet # NoMessage,
         ~Complete(msg_packet), NEW c \in Clients, msg_packet.parts[1].client = c,
         Send(c), host[c].req.on = "own", host[c].sent = Len(msg_packet.parts)
  PROVE  /\ ~Refused(NextFrame(c)) /\ Mine(NextFrame(c)) /\ ~Starts(NextFrame(c))
<1> DEFINE f == NextFrame(c)
<1>1. host[c].sent < host[c].req.n
  BY DEF Send
<1>2. Sound(msg_packet) /\ msg_packet \in Packet /\ Len(msg_packet.parts) \in Nat
  BY PacketKept DEF MessageInv
<1>3. last_req = host[c].cid /\ last_req \in Channels
  BY <1>2 DEF Sound, Placed, HostTypes
<1>4. f.cid = last_req /\ f.i = host[c].sent + 1 /\ ~Starts(f)
  BY <1>1, <1>2, <1>3, NextFrameFacts DEF Sound
<1>5. msg_packet.seq = f.i - 2
  BY <1>2, <1>4 DEF Sound, Packet
<1> QED BY <1>3, <1>4, <1>5, HidAssumption DEF Refused, LockedOut, Mine

\* A part in its turn: where it goes, and, when its client alone has sent,
\* that it is of the request the message was begun with.
LEMMA Continued ==
  ASSUME DeviceTypes, HostTypes, HostInv, MessageInv, ~stuck,
         NEW c \in Clients, Send(c), TakeContinuation(NextFrame(c))
  PROVE  LET f == NextFrame(c)
             p == PacketWith(f)
         IN  /\ msg_packet # NoMessage /\ p # NoMessage
             /\ p.cmd = msg_packet.cmd /\ p.len = msg_packet.len
             /\ p.parts \in Seq(Part) /\ Len(p.parts) >= 1
             /\ p.parts[1] = msg_packet.parts[1]
             /\ Placed(p.parts, last_req) /\ host[c].cid = last_req
             /\ Complete(msg_packet) => Complete(p) /\ p.cmd \notin {"PING", "CBOR"}
             /\ ~Complete(msg_packet) => Len(p.parts) = p.seq + 1
             /\ senders \subseteq {c} =>
                  \A i \in 1..Len(p.parts) :
                    p.parts[i] = [client |-> c, num |-> p.parts[1].num, i |-> i]
             /\ senders \subseteq {c} /\ ~Complete(msg_packet) =>
                  /\ host[c].req # Idle /\ host[c].req.on = "own"
                  /\ host[c].num = p.parts[1].num /\ host[c].req.n = p.len
                  /\ host[c].sent + 1 = Len(p.parts)
<1> DEFINE f == NextFrame(c)
<1> DEFINE m == msg_packet
<1>1. host[c].sent < host[c].req.n
  BY DEF Send
<1>2. ~Refused(f) /\ ~Starts(f) /\ last_req = f.cid /\ m.len > 0
  BY DEF TakeContinuation, Mine
<1>3. /\ m # NoMessage /\ m \in Packet /\ m.parts \in Seq(Part) /\ Len(m.parts) \in Nat
      /\ \A i \in 1..Len(m.parts) : m.parts[i].client \in Clients
  BY <1>2, MessageThere, PacketKept
<1>4. Sound(m)
  BY <1>3 DEF MessageInv
<1>5. last_req = host[c].cid
  <2>1. m.parts[1].client \in Clients /\ last_req = host[m.parts[1].client].cid
    BY <1>3, <1>4 DEF Sound, Placed
  <2>2. last_req \in Channels
    BY <2>1 DEF HostTypes
  <2> QED BY <1>1, <1>2, <2>2, NextFrameFacts
<1>6. PacketWith(f) = Appended(m, f)
  BY <1>2 DEF PacketWith
<1>7. senders \subseteq {c} => m.parts[1].client = c /\ Sole(m, c)
  BY <1>4 DEF Sound
<1>8. CASE Complete(m)
  <2>1. PacketWith(f) = [m EXCEPT !.seq = @ + 1]
    BY <1>3, <1>6, <1>8 DEF Appended, Packet
  <2>2. /\ PacketWith(f).parts = m.parts /\ PacketWith(f).len = m.len
        /\ PacketWith(f).cmd = m.cmd
    BY <1>3, <2>1 DEF Packet
  <2>3. PacketWith(f) # NoMessage
    BY <1>2, <2>2 DEF NoMessage
  <2>4. Complete(PacketWith(f))
    BY <1>3, <1>8, <2>2 DEF Complete
  <2> QED BY <1>3, <1>4, <1>5, <1>7, <1>8, <2>2, <2>3, <2>4 DEF Sound, Sole
<1>9. CASE ~Complete(m)
  <2>1. PacketWith(f) = [m EXCEPT !.seq = @ + 1, !.parts = Append(m.parts, PartOf(f))]
    BY <1>6, <1>9 DEF Appended
  <2>2. /\ PacketWith(f).parts = Append(m.parts, PartOf(f)) /\ PacketWith(f).len = m.len
        /\ PacketWith(f).cmd = m.cmd /\ PacketWith(f).seq = m.seq + 1
    BY <1>3, <2>1 DEF Packet
  <2>3. PacketWith(f) # NoMessage
    BY <1>2, <2>2 DEF NoMessage
  <2>4. host[c].sent # 0
    BY <1>1, <1>2, NextFrameFacts
  <2>5. f.i = Len(m.parts) + 1
    <3>1. m.seq = f.i - 2 /\ Len(m.parts) = m.seq + 1 /\ f \in Frame
      BY <1>1, <1>2, <1>4, <1>9, InTurn, NextFrameIsFrame DEF Sound
    <3> QED BY <1>3, <3>1, HidAssumption DEF Frame, Packet
  <2>6. PartOf(f) = [client |-> c, num |-> host[c].num, i |-> Len(m.parts) + 1]
    BY <1>1, <2>5, NextFrameFacts
  <2>7. PartOf(f) \in Part
    BY <1>1, NextFrameIsFrame, PartOfFrame
  <2> DEFINE q == Append(m.parts, PartOf(f))
  <2>8. /\ q \in Seq(Part) /\ Len(q) = Len(m.parts) + 1 /\ q[Len(m.parts) + 1] = PartOf(f)
        /\ \A i \in 1..Len(m.parts) : q[i] = m.parts[i]
        /\ Len(m.parts) >= 1 /\ q[1] = m.parts[1]
    BY <1>3, <1>4, <2>7 DEF Sound
  <2>9. Placed(q, last_req)
    <3> SUFFICES ASSUME NEW i \in 1..Len(q)
                 PROVE  q[i].i = i /\ host[q[i].client].cid = last_req
      BY DEF Placed
    <3>1. CASE i \in 1..Len(m.parts)
      BY <1>4, <2>8, <3>1 DEF Sound, Placed
    <3>2. CASE i = Len(m.parts) + 1
      BY <1>5, <2>6, <2>8, <3>2
    <3> QED BY <1>3, <2>8, <3>1, <3>2
  <2>10. ASSUME senders \subseteq {c}
         PROVE  /\ host[c].req # Idle /\ host[c].req.on = "own"
                /\ host[c].num = m.parts[1].num /\ host[c].req.n = m.len
                /\ host[c].sent = Len(m.parts)
                /\ \A i \in 1..Len(m.parts) :
                     m.parts[i] = [client |-> c, num |-> m.parts[1].num, i |-> i]
    <3>1. ~host[c].resync
      BY <1>2, BeginsAnew
    <3> QED BY <1>7, <1>9, <2>10, <3>1 DEF Sole, Sends
  <2>11. ASSUME senders \subseteq {c}, NEW i \in 1..Len(q)
         PROVE  q[i] = [client |-> c, num |-> q[1].num, i |-> i]
    <3>1. CASE i \in 1..Len(m.parts)
      BY <2>8, <2>10, <2>11, <3>1
    <3>2. CASE i = Len(m.parts) + 1
      BY <2>6, <2>8, <2>10, <2>11, <3>2
    <3> QED BY <1>3, <2>8, <2>11, <3>1, <3>2
  <2>12. Len(q) = PacketWith(f).seq + 1
    BY <1>3, <1>4, <1>9, <2>2, <2>8 DEF Sound, Packet
  <2> HIDE DEF q
  <2>13. PacketWith(f).parts = q
    BY <2>2 DEF q
  <2>14. senders \subseteq {c} => host[c].sent + 1 = Len(q) /\ host[c].num = q[1].num
    BY <2>8, <2>10
  <2>15. Len(q) >= 1
    BY <1>3, <2>8
  <2>16. senders \subseteq {c} => \A i \in 1..Len(q) :
           q[i] = [client |-> c, num |-> q[1].num, i |-> i]
    BY <2>11
  <2> QED BY <1>3, <1>5, <1>9, <2>2, <2>3, <2>8, <2>9, <2>10, <2>12, <2>13, <2>14,
             <2>15, <2>16
<1> QED BY <1>8, <1>9

\* An answer that is not "ok", or is another's, greets nobody.
LEMMA NoGreeting ==
  ASSUME InboxTypes, NEW cid, NEW client, NEW num, NEW result,
         Respond(cid, client, num, result), NEW c \in Clients, ~Greeted(c),
         c # client \/ result # "ok"
  PROVE  ~Greeted(c)'
<1>1. inbox[c] \in Seq({"ok", "error", "other"})
  BY DEF InboxTypes
<1> DEFINE x == IF c = client /\ host[c].num = num /\ host[c].req # Idle
                THEN result ELSE "other"
<1>2. x # "ok" /\ inbox'[c] \in {inbox[c], Append(inbox[c], x)}
  BY DEF Respond
<1> HIDE DEF x
<1>3. CASE inbox'[c] = inbox[c]
  BY <1>3 DEF Greeted
<1>4. CASE inbox'[c] = Append(inbox[c], x)
  <2>1. /\ Len(inbox'[c]) = Len(inbox[c]) + 1 /\ Len(inbox[c]) \in Nat
        /\ inbox'[c][Len(inbox[c]) + 1] = x
        /\ \A k \in 1..Len(inbox[c]) : inbox'[c][k] = inbox[c][k]
    BY <1>1, <1>4
  <2> QED BY <1>2, <2>1 DEF Greeted
<1> QED BY <1>2, <1>3, <1>4

\* What a frame makes its client and the others hear.
LEMMA Heard ==
  ASSUME NEW f \in Frame, Deliver(f)
  PROVE  \/ UNCHANGED inbox
         \/ \E result : /\ Respond(f.cid, f.client, f.num, result)
                        /\ Refuse(f) => result = "error"
<1>1. CASE Refuse(f)
  BY <1>1 DEF Refuse, RespondTo
<1>2. CASE ~Refuse(f)
  BY <1>2 DEF Deliver, Stray, Ignore, Immediate, Accumulate, InvalidCommand, Echo, Dispatch,
     RespondTo
<1> QED BY <1>1, <1>2

\* The sender of a message goes on with it, dies, or is replaced by one that
\* has yet to be answered its INIT: whatever clients do but its sending.
LEMMA SenderKept ==
  ASSUME DeviceTypes, HostTypes, InboxTypes, HostInv, msg_packet # NoMessage,
         ~Complete(msg_packet), NEW d \in Clients, Sends(d, msg_packet),
         UNCHANGED msg_packet, NEW c \in Clients, Client(c), ~(c = d /\ Send(c))
  PROVE  Sends(d, msg_packet)'
<1>0. inbox[d] \in Seq({"ok", "error", "other"})
  BY DEF InboxTypes
<1>1. CASE c # d
  <2>1. host'[d] = host[d]
    BY <1>1, ClientTypes
  <2>2. ~Greeted(d) => ~Greeted(d)'
    <3> SUFFICES ASSUME ~Greeted(d) PROVE ~Greeted(d)'
      OBVIOUS
    <3>1. ASSUME NEW f \in Frame, Deliver(f), f.client = c PROVE ~Greeted(d)'
      <4>1. CASE UNCHANGED inbox
        BY <4>1 DEF Greeted
      <4>2. CASE \E result : Respond(f.cid, f.client, f.num, result)
        BY <1>1, <3>1, <4>2, NoGreeting
      <4> QED BY <3>1, <4>1, <4>2, Heard
    <3>2. CASE Send(c)
      <4>1. NextFrame(c) \in Frame /\ Deliver(NextFrame(c)) /\ NextFrame(c).client = c
        BY <3>2, NextFrameIsFrame DEF Send, NextFrame
      <4> QED BY <3>1, <4>1
    <3>3. CASE Cancel(c)
      <4>1. /\ CancelFrame(c) \in Frame /\ Deliver(CancelFrame(c))
            /\ CancelFrame(c).client = c
        BY <3>3, CancelFrameIsFrame DEF Cancel, CancelFrame
      <4> QED BY <3>1, <4>1
    <3>4. CASE Take(c) \/ Abandon(c) \/ \E q \in Requests : Ask(c, q)
      <4>1. inbox'[d] = inbox[d]
        BY <1>1, <3>4 DEF Take, Abandon, Ask, InboxTypes
      <4> QED BY <4>1 DEF Greeted
    <3> QED BY <3>2, <3>3, <3>4 DEF Client
  <2> QED BY <2>1, <2>2 DEF Sends
<1>2. CASE c = d
  <2>1. CASE \E q \in Requests : Ask(c, q)
    <3>1. PICK q \in Requests : Ask(c, q)
      BY <2>1
    <3> QED BY <1>2, <3>1, HostOfAsk DEF Sends, Ask, Greeted
  <2>2. CASE Cancel(c)
    <3>1. /\ host[c].req.cmd = "CBOR" /\ host[c].sent = host[c].req.n
      BY <2>2 DEF Cancel
    <3>2. ~host[c].resync
      BY <3>1 DEF HostInv, Idle
    <3> QED BY <1>2, <3>1, <3>2, PacketKept DEF Sends
  <2>3. CASE Take(c) /\ ~Abandon(c)
    <3>1. host[c].req # Idle /\ host[c].sent = host[c].req.n /\ inbox[c] # <<>>
          /\ inbox' = [inbox EXCEPT ![c] = [i \in 1..(Len(@) - 1) |-> "other"]]
      BY <2>3 DEF Take
    <3>2. host[c].resync /\ ~Greeted(c)
      BY <1>2, <3>1, PacketKept DEF Sends
    <3>3. Head(inbox[c]) # "ok"
      <4>1. Len(inbox[c]) >= 1 /\ Head(inbox[c]) = inbox[c][1] /\ Len(inbox[c]) \in Nat
        BY <1>0, <1>2, <3>1
      <4> QED BY <3>2, <4>1 DEF Greeted
    <3>4. ~Greeted(c)'
      <4>1. inbox'[c] = [i \in 1..(Len(inbox[c]) - 1) |-> "other"]
        BY <3>1 DEF InboxTypes
      <4>2. Len(inbox[c]) \in Nat /\ Len(inbox[c]) >= 1
        BY <1>0, <1>2, <3>1
      <4>3. Len(inbox'[c]) = Len(inbox[c]) - 1
        BY <4>1, <4>2
      <4> QED BY <4>1, <4>3 DEF Greeted
    <3>5. host'[c].resync
      BY <2>3, <3>2, <3>3, HostOfEnd
    <3> QED BY <1>2, <3>4, <3>5 DEF Sends
  <2>4. CASE Abandon(c)
    <3>1. host'[c].resync
      BY <2>4, HostOfEnd
    <3>2. inbox'[c] = <<>>
      BY <2>4 DEF Abandon, InboxTypes
    <3>3. ~Greeted(c)'
      BY <3>2 DEF Greeted
    <3> QED BY <1>2, <3>1, <3>3 DEF Sends
  <2> QED BY <1>2, <2>1, <2>2, <2>3, <2>4 DEF Client
<1> QED BY <1>1, <1>2

\* The message stays as it is while its sender, if it sends alone, stays.
LEMMA MessageUntouched ==
  ASSUME DeviceTypes, HostTypes, MessageInv, ChannelsStay,
         UNCHANGED <<message, stuck>>, senders \subseteq senders',
         \A d \in Clients :
           /\ ~stuck /\ msg_packet # NoMessage /\ ~Complete(msg_packet)
           /\ msg_packet.parts[1].client = d /\ senders' = {d}
           /\ Sends(d, msg_packet)
           => Sends(d, msg_packet)'
  PROVE  MessageInv'
<1> SUFFICES ASSUME ~stuck, msg_packet # NoMessage
             PROVE  Sound(msg_packet)'
  BY DEF MessageInv, message
<1>1. Sound(msg_packet) /\ UNCHANGED <<msg_packet, last_req>>
  BY DEF MessageInv, message
<1>2. Placed(msg_packet.parts, last_req)'
  <2>1. \A i \in 1..Len(msg_packet.parts) : msg_packet.parts[i].client \in Clients
    BY PacketKept
  <2> QED BY <1>1, <2>1 DEF Sound, Placed, ChannelsStay
<1> DEFINE d == msg_packet.parts[1].client
<1>3. d \in Clients /\ d \in senders
  BY <1>1, PacketKept DEF Sound
<1>4. senders' = {d} => Sole(msg_packet, d)'
  <2> SUFFICES ASSUME senders' = {d} PROVE Sole(msg_packet, d)'
    OBVIOUS
  <2>1. Sole(msg_packet, d)
    BY <1>1, <1>3 DEF Sound
  <2>2. ~Complete(msg_packet) => Sends(d, msg_packet)'
    <3>1. PICK x \in Clients : x = d
      BY <1>3
    <3>2. ~Complete(msg_packet) => Sends(x, msg_packet)'
      BY <2>1, <3>1 DEF Sole
    <3> QED BY <1>1, <3>1, <3>2 DEF Sends, Greeted
  <2> QED BY <1>1, <2>1, <2>2 DEF Sole, Complete
<1> QED BY <1>1, <1>2, <1>3, <1>4 DEF Sound, Complete

\* The command of core 1 goes on, ends, is read or is spoilt.
JobGoesOn == \/ job' \in {job, NoJob}
             \/ /\ job # NoJob /\ job.state = "given"
                /\ \E z \in {"spoilt", "parsed"} : job' = [job EXCEPT !.state = z]

LEMMA JobAfterGoesOn == \A f : job' = JobAfter(f) => JobGoesOn
BY DEF JobAfter, JobGoesOn

LEMMA JobKept ==
  ASSUME DeviceTypes, ChannelsStay, Reassembled, JobGoesOn
  PROVE  Reassembled'
<1> SUFFICES ASSUME job' # NoJob, job'.state # "spoilt", NEW i \in 1..job'.n
             PROVE  /\ job'.parts[i].i = i
                    /\ host'[job'.parts[i].client].cid = host'[job'.client].cid
                    /\ job'.alone => job'.parts[i] =
                         [client |-> job'.client, num |-> job'.num, i |-> i]
  BY DEF Reassembled
<1>1. job \in Job /\ job # NoJob
  BY HidAssumption DEF JobGoesOn, DeviceTypes
<1>2. /\ job.state # "spoilt" /\ job'.n = job.n /\ job'.client = job.client
      /\ job'.num = job.num /\ job'.parts = job.parts /\ job'.alone = job.alone
  BY <1>1 DEF JobGoesOn, Job
<1>3. /\ job.parts[i].i = i
      /\ host[job.parts[i].client].cid = host[job.client].cid
      /\ job.alone => job.parts[i] = [client |-> job.client, num |-> job.num, i |-> i]
  BY <1>1, <1>2 DEF Reassembled
<1>4. job.parts[i].client \in Clients /\ job.client \in Clients
  <2>1. job.parts \in Seq(Part) /\ i \in 1..Len(job.parts)
    BY <1>1, <1>2 DEF DeviceTypes, Job
  <2>2. job.parts[i] \in Part
    BY <2>1
  <2> QED BY <1>1, <2>2 DEF Part, Job
<1>5. host'[job.parts[i].client].cid = host'[job.client].cid
  BY <1>3, <1>4 DEF ChannelsStay
<1> QED BY <1>2, <1>3, <1>5

\* The first frame of a message of several.
LEMMA Begun ==
  ASSUME HostTypes, NEW c \in Clients, Send(c), TakeStart(NextFrame(c)),
         NextFrame(c).cmd # "INIT", NextFrame(c).n > 1,
         msg_packet' = PacketStarted(NextFrame(c)), senders' = {c}
  PROVE  Sound(msg_packet)'
<1> DEFINE f == NextFrame(c)
<1>1. host[c].sent < host[c].req.n
  BY DEF Send
<1>2. ~Refused(f) /\ Starts(f) /\ last_req' = f.cid
  BY DEF TakeStart
<1>3. host[c].req.on = "own" /\ host[c].req # Idle /\ host[c].sent = 0
  <2>1. f.cid # Broadcast /\ f.cid # Zero
    BY <1>2 DEF Refused
  <2>2. host[c].req.on \in {"own", "all", "none"} /\ host[c].req # Idle
    BY <1>1, RequestSent
  <2> QED BY <1>1, <1>2, <2>1, <2>2, NextFrameFacts DEF NextFrame, CidOf
<1>4. /\ PartOf(f) = [client |-> c, num |-> host[c].num, i |-> 1] /\ f.n = host[c].req.n
      /\ f.cid = host[c].cid
  BY <1>1, <1>3, NextFrameFacts
<1>5. /\ msg_packet'.parts = <<PartOf(f)>> /\ msg_packet'.len = f.n /\ msg_packet'.seq = 0
      /\ msg_packet' # NoMessage
  BY DEF PacketStarted, NoMessage
<1>6. Len(msg_packet'.parts) = 1 /\ msg_packet'.parts[1] = PartOf(f)
  BY <1>5
<1>7. ~Complete(msg_packet)'
  BY <1>5, <1>6 DEF Complete
<1>8. /\ host'[c].req = host[c].req /\ host'[c].num = host[c].num
      /\ host'[c].sent = 1 /\ host'[c].cid = host[c].cid
  BY <1>3, HostOfSend DEF ChannelsStay
<1>9. Sends(c, msg_packet)'
  BY <1>3, <1>4, <1>5, <1>6, <1>8 DEF Sends
<1>10. Placed(msg_packet.parts, last_req)'
  BY <1>2, <1>4, <1>6, <1>8 DEF Placed
<1>11. Sole(msg_packet, c)'
  BY <1>4, <1>6, <1>9 DEF Sole
<1>12. msg_packet'.parts[1].client = c
  BY <1>4, <1>6
<1> QED BY <1>5, <1>6, <1>7, <1>10, <1>11, <1>12 DEF Sound

\* While a message goes on, nobody is forgotten who has sent beside it.
LEMMA SendersStay ==
  ASSUME NEW f, Deliver(f), ~stuck, Refused(f) \/ ~Starts(f), UNCHANGED message,
         msg_packet # NoMessage
  PROVE  senders \subseteq senders'
<1>1. SendersAfter(f) = IF Mine(f) THEN senders \cup {f.client} ELSE senders
  <2>1. CASE Mine(f)
    BY <2>1 DEF SendersAfter
  <2>2. CASE ~Mine(f)
    BY <2>2 DEF SendersAfter
  <2> QED BY <2>1, <2>2
<1>2. senders' = SendersAfter(f)
  BY DEF Deliver, message
<1> QED BY <1>1, <1>2

\* Refused frames and those that are passed over leave the sender its message.
LEMMA SendLeaves ==
  ASSUME TypeOK, HostInv, MessageInv, Reassembled, NEW c \in Clients, Send(c), ~stuck,
         Refuse(NextFrame(c)) \/ Ignore(NextFrame(c))
  PROVE  MessageInv'
<1> DEFINE f == NextFrame(c)
<1> DeviceTypes /\ HostTypes /\ InboxTypes
  BY Types
<1>1. Client(c) /\ ChannelsStay /\ Deliver(f)
  BY HostOfSend DEF Client, Send
<1>2. UNCHANGED message /\ (Refused(f) \/ ~Mine(f)) /\ stuck' = stuck
  BY DEF Refuse, Ignore, RespondTo, DeviceTypes
<1>3. senders \subseteq senders' \/ msg_packet = NoMessage
  <2>1. Refused(f) \/ ~Starts(f)
    BY DEF Refuse, Ignore
  <2> QED BY <1>1, <1>2, <2>1, SendersStay
<1>4. CASE msg_packet = NoMessage
  BY <1>2, <1>4 DEF MessageInv, message
<1>5. CASE msg_packet # NoMessage
  <2> SUFFICES ASSUME NEW d \in Clients, ~Complete(msg_packet),
                      msg_packet.parts[1].client = d, senders' = {d},
                      Sends(d, msg_packet)
               PROVE  Sends(d, msg_packet)'
    BY <1>1, <1>2, <1>3, <1>5, MessageUntouched
  <2>1. CASE c # d
    BY <1>1, <1>2, <1>5, <2>1, SenderKept DEF message
  <2>2. CASE c = d
    <3>1. host[c].resync /\ ~Greeted(c)
      BY <1>2, <1>5, <2>2, NextIsAccepted DEF Sends
    <3>2. Starts(f)
      BY <3>1, BeginsAnew
    <3>3. Refuse(f)
      BY <3>2 DEF Ignore
    <3>4. Respond(f.cid, f.client, f.num, "error")
      BY <3>3 DEF Refuse, RespondTo
    <3>5. ~Greeted(c)'
      BY <3>1, <3>4, NoGreeting
    <3>6. host'[c].resync
      BY <3>1, HostOfSend
    <3> QED BY <2>2, <3>5, <3>6 DEF Sends
  <2> QED BY <2>1, <2>2
<1> QED BY <1>4, <1>5

LEMMA SendKeeps ==
  ASSUME HidInv, NEW c \in Clients, Send(c)
  PROVE  MessageInv' /\ Reassembled'
<1> USE DEF HidInv
<1> DEFINE f == NextFrame(c)
<1> DeviceTypes /\ HostTypes /\ InboxTypes
  BY Types
<1>0. /\ host[c].sent < host[c].req.n /\ Deliver(f) /\ f \in Frame
      /\ ChannelsStay
  BY NextFrameIsFrame, HostOfSend DEF Send
<1>1. CASE stuck
  <2>1. UNCHANGED <<device, senders>>
    BY <1>0, <1>1 DEF Deliver
  <2>2. JobGoesOn
    BY <2>1 DEF device, JobGoesOn
  <2> QED BY <1>0, <1>1, <2>1, <2>2, JobKept DEF device, MessageInv
<1>2. ASSUME ~stuck, ~Dispatch(f) PROVE Reassembled'
  <2>1. job' = JobAfter(f)
    BY <1>0, <1>2 DEF Deliver
  <2> QED BY <1>0, <2>1, JobAfterGoesOn, JobKept
<1>3. CASE ~stuck /\ (Refuse(f) \/ Ignore(f))
  <2>1. ~Dispatch(f)
    BY <1>3 DEF Refuse, Ignore, Dispatch, TakePart, TakeStart, TakeContinuation
  <2> QED BY <1>2, <1>3, <2>1, SendLeaves
<1>4. CASE ~stuck /\ Stray(f)
  <2>1. ~Dispatch(f) /\ stuck'
    BY <1>4 DEF Stray, Dispatch, TakePart, TakeStart, TakeContinuation
  <2> QED BY <1>2, <1>4, <2>1 DEF MessageInv
<1>5. ASSUME ~stuck, TakeStart(f), msg_packet' = PacketStarted(f), f.cmd # "INIT", f.n > 1
      PROVE  MessageInv'
  <2>1. msg_packet' # NoMessage
    BY <1>5 DEF PacketStarted, NoMessage
  <2>2. senders' = SendersAfter(f) /\ f.client = c
    BY <1>0, <1>5, <2>1, NextFrameFacts DEF Deliver
  <2>3. senders' = {c}
    BY <1>5, <2>2 DEF SendersAfter, TakeStart
  <2> QED BY <1>5, <2>3, Begun DEF MessageInv
<1>6. CASE ~stuck /\ Immediate(f)
  <2>1. TakeStart(f) /\ ~Dispatch(f)
    BY <1>6 DEF Immediate, Dispatch, TakePart, TakeStart, TakeContinuation
  <2>2. CASE msg_packet' = NoMessage
    BY <1>2, <1>6, <2>1, <2>2 DEF MessageInv
  <2>3. CASE msg_packet' = PacketStarted(f) /\ f.cmd # "INIT" /\ f.n > 1
    BY <1>2, <1>5, <1>6, <2>1, <2>3
  <2>4. CASE msg_packet' = PacketStarted(f) /\ f.n = 1
    <3>1. msg_packet' = NoMessage
      BY <2>4 DEF PacketStarted
    <3> QED BY <2>2, <3>1
  <2>5. f.n = 1 \/ f.n > 1
    BY <1>0, HidAssumption DEF Frame, TooLong
  <2> QED BY <1>6, <2>2, <2>3, <2>4, <2>5 DEF Immediate
<1>7. CASE ~stuck /\ Accumulate(f)
  <2>1. /\ TakePart(f) /\ PacketWith(f) # NoMessage
        /\ Complete(PacketWith(f)) => CommandOf(f) \notin {"PING", "CBOR"}
        /\ msg_packet' = PacketWith(f) /\ stuck' = stuck
    BY <1>7 DEF Accumulate
  <2>2. CASE TakeStart(f)
    <3>1. /\ Starts(f) /\ PacketWith(f) = PacketStarted(f) /\ f.cmd # "INIT" /\ f.n # 1
          /\ msg_packet' = PacketStarted(f)
      BY <2>1, <2>2 DEF TakeStart, TakePart, TakeContinuation, PacketWith, PacketStarted
    <3>2. f.n > 1
      BY <1>0, <3>1, HidAssumption DEF Frame, TooLong
    <3>3. ~Dispatch(f)
      <4>1. Len(<<PartOf(f)>>) = 1
        OBVIOUS
      <4>2. PacketWith(f).parts = <<PartOf(f)>> /\ PacketWith(f).len = f.n
        BY <3>1 DEF PacketStarted
      <4> QED BY <2>1, <3>1, <4>1, <4>2 DEF Complete, Dispatch
    <3> QED BY <1>2, <1>5, <1>7, <2>2, <3>1, <3>2, <3>3
  <2>3. CASE TakeContinuation(f)
    <3> DEFINE p == PacketWith(f)
    <3>1. /\ p.cmd = msg_packet.cmd /\ p.len = msg_packet.len
          /\ p.parts \in Seq(Part) /\ Len(p.parts) >= 1
          /\ p.parts[1] = msg_packet.parts[1]
          /\ Placed(p.parts, last_req) /\ host[c].cid = last_req
          /\ Complete(msg_packet) => Complete(p) /\ p.cmd \notin {"PING", "CBOR"}
          /\ ~Complete(msg_packet) => Len(p.parts) = p.seq + 1
          /\ senders \subseteq {c} =>
               \A i \in 1..Len(p.parts) :
                 p.parts[i] = [client |-> c, num |-> p.parts[1].num, i |-> i]
          /\ senders \subseteq {c} /\ ~Complete(msg_packet) =>
               /\ host[c].req # Idle /\ host[c].req.on = "own"
               /\ host[c].num = p.parts[1].num /\ host[c].req.n = p.len
               /\ host[c].sent + 1 = Len(p.parts)
          /\ msg_packet # NoMessage
      BY <1>7, <2>3, Continued
    <3>2. /\ ~Starts(f) /\ last_req' = last_req /\ CommandOf(f) = p.cmd /\ Mine(f)
          /\ ~Dispatch(f)
      <4>1. ~Starts(f) /\ last_req' = last_req /\ Mine(f)
        BY <2>3 DEF TakeContinuation
      <4>2. CommandOf(f) = p.cmd
        BY <3>1, <4>1 DEF CommandOf
      <4> QED BY <2>1, <4>1, <4>2 DEF Dispatch
    <3>3. msg_packet' = p /\ p # NoMessage
      BY <2>1
    <3>4. senders' = senders \cup {c}
      <4>1. senders' = SendersAfter(f) /\ f.client = c
        BY <1>0, <1>7, <3>3, NextFrameFacts DEF Deliver
      <4> QED BY <3>2, <4>1 DEF SendersAfter
    <3>5. Complete(p) => p.cmd \notin {"PING", "CBOR"}
      BY <2>1, <3>2
    <3>6. Sound(msg_packet)
      BY <1>7, <3>1 DEF MessageInv
    <3> HIDE DEF p
    <3>7. Placed(msg_packet.parts, last_req)'
      <4>1. \A i \in 1..Len(p.parts) : p.parts[i].client \in Clients
        <5> SUFFICES ASSUME NEW i \in 1..Len(p.parts) PROVE p.parts[i].client \in Clients
          OBVIOUS
        <5>1. p.parts[i] \in Part
          BY <3>1
        <5> QED BY <5>1 DEF Part
      <4> QED BY <1>0, <3>1, <3>2, <3>3, <4>1 DEF Placed, ChannelsStay
    <3>8. ASSUME senders' = {p.parts[1].client} PROVE Sole(msg_packet, c)' /\ p.parts[1].client = c
      <4>1. p.parts[1].client = c /\ senders \subseteq {c}
        BY <3>4, <3>8
      <4>2. ~Complete(p) => Sends(c, msg_packet)'
        BY <3>1, <3>3, <4>1, HostOfSend DEF Sends
      <4>3. \A i \in 1..Len(p.parts) :
              p.parts[i] = [client |-> c, num |-> p.parts[1].num, i |-> i]
        BY <3>1, <4>1
      <4>4. Sole(msg_packet, c)'
        BY <3>3, <4>2, <4>3 DEF Sole, Complete
      <4> QED BY <4>1, <4>4
    <3>9. ~Complete(p) => Len(p.parts) = p.seq + 1
      BY <3>1
    <3>10. p.parts[1].client \in senders'
      BY <3>1, <3>4, <3>6 DEF Sound
    <3>11. Sound(msg_packet)'
      <4>1. msg_packet'.parts[1].client = p.parts[1].client
        BY <3>3
      <4>2. Len(msg_packet'.parts) >= 1 /\ msg_packet'.parts[1].client \in senders'
        BY <3>1, <3>3, <3>10
      <4>3. senders' = {msg_packet'.parts[1].client} =>
              Sole(msg_packet, msg_packet.parts[1].client)'
        BY <3>3, <3>8 DEF Sole, Complete, Sends, Greeted
      <4>4. /\ Complete(msg_packet)' => msg_packet'.cmd \notin {"PING", "CBOR"}
            /\ ~Complete(msg_packet)' => Len(msg_packet'.parts) = msg_packet'.seq + 1
        BY <3>3, <3>5, <3>9 DEF Complete
      <4> QED BY <3>7, <4>2, <4>3, <4>4 DEF Sound
    <3>12. MessageInv'
      BY <3>11 DEF MessageInv
    <3> QED BY <1>2, <1>7, <3>2, <3>12
  <2> QED BY <2>1, <2>2, <2>3 DEF TakePart
<1>8. CASE ~stuck /\ (InvalidCommand(f) \/ Echo(f))
  <2>1. msg_packet' = NoMessage /\ ~Dispatch(f)
    <3>1. CASE Echo(f)
      BY <3>1 DEF Echo, Dispatch
    <3>2. CASE InvalidCommand(f)
      <4>1. TakePart(f) /\ f.cmd = "OTHER"
        BY <3>2 DEF InvalidCommand
      <4>2. CommandOf(f) = "OTHER"
        BY <4>1 DEF CommandOf, Starts
      <4> QED BY <3>2, <4>2 DEF InvalidCommand, Dispatch
    <3> QED BY <1>8, <3>1, <3>2
  <2> QED BY <1>2, <1>8, <2>1 DEF MessageInv
<1>9. CASE ~stuck /\ Dispatch(f)
  <2> DEFINE q == PartsWith(f)
             a == Starts(f) \/ senders \subseteq {f.client}
  <2>1. /\ TakePart(f) /\ Complete(PacketWith(f)) /\ CommandOf(f) = "CBOR"
        /\ job' = [n |-> Len(q), client |-> f.client, num |-> f.num, parts |-> q,
                  state |-> "given", alone |-> a]
        /\ msg_packet' = NoMessage
    BY <1>9 DEF Dispatch
  <2>2. f.client = c /\ f.num = host[c].num
    BY <1>0, NextFrameFacts
  <2>3. \A i \in 1..Len(q) :
          /\ q[i].i = i /\ q[i].client \in Clients /\ host[q[i].client].cid = host[c].cid
          /\ a => q[i] = [client |-> c, num |-> host[c].num, i |-> i]
    <3>1. CASE TakeStart(f)
      <4>1. Starts(f)
        BY <3>1 DEF TakeStart
      <4>2. f.n = 1
        <5> SUFFICES ASSUME f.n # 1 PROVE FALSE
          OBVIOUS
        <5>1. PacketWith(f) =
                [len |-> f.n, parts |-> <<PartOf(f)>>, cmd |-> f.cmd, seq |-> 0]
          BY <4>1 DEF PacketWith, PacketStarted
        <5>2. PacketWith(f) # NoMessage /\ Len(PacketWith(f).parts) # PacketWith(f).len
          BY <5>1 DEF NoMessage
        <5> QED BY <2>1, <5>2 DEF Complete
      <4>3. q = <<PartOf(f)>>
        BY <4>1, <4>2 DEF PartsWith, PacketWith, PacketStarted
      <4>4. PartOf(f) = [client |-> c, num |-> host[c].num, i |-> 1]
        BY <1>0, <4>1, NextFrameFacts
      <4> HIDE DEF q
      <4> QED BY <4>3, <4>4
    <3>2. CASE TakeContinuation(f)
      <4> DEFINE p == PacketWith(f)
      <4>1. /\ p # NoMessage /\ p.cmd = msg_packet.cmd /\ p.parts \in Seq(Part)
            /\ Placed(p.parts, last_req) /\ host[c].cid = last_req
            /\ Complete(msg_packet) => p.cmd \notin {"PING", "CBOR"}
            /\ senders \subseteq {c} =>
                 \A i \in 1..Len(p.parts) :
                   p.parts[i] = [client |-> c, num |-> p.parts[1].num, i |-> i]
            /\ senders \subseteq {c} /\ ~Complete(msg_packet) =>
                 host[c].num = p.parts[1].num
        BY <1>9, <3>2, Continued
      <4>2. ~Starts(f) /\ ~Complete(msg_packet)
        BY <2>1, <3>2, <4>1 DEF TakeContinuation, CommandOf
      <4>3. q = p.parts /\ (a => senders \subseteq {c})
        BY <2>2, <4>1, <4>2 DEF PartsWith
      <4> HIDE DEF p, q, a
      <4>4. ASSUME NEW i \in 1..Len(q) PROVE q[i].client \in Clients
        <5>1. q[i] \in Part
          BY <4>1, <4>3
        <5> QED BY <5>1 DEF Part
      <4>5. ASSUME NEW i \in 1..Len(q) PROVE q[i].i = i /\ host[q[i].client].cid = host[c].cid
        BY <4>1, <4>3 DEF Placed
      <4>6. ASSUME NEW i \in 1..Len(q), a
            PROVE  q[i] = [client |-> c, num |-> host[c].num, i |-> i]
        BY <4>1, <4>2, <4>3, <4>6
      <4> QED BY <4>4, <4>5, <4>6
    <3> QED BY <2>1, <3>1, <3>2 DEF TakePart
  <2> HIDE DEF q, a
  <2>4. Reassembled'
    <3>1. /\ job'.n = Len(q) /\ job'.parts = q /\ job'.client = c /\ job'.num = host[c].num
          /\ job'.alone = a
      BY <2>1, <2>2
    <3> QED BY <1>0, <2>3, <3>1 DEF Reassembled, ChannelsStay
  <2> QED BY <2>1, <2>4 DEF MessageInv
<1> QED BY <1>0, <1>1, <1>3, <1>4, <1>6, <1>7, <1>8, <1>9 DEF Deliver

LEMMA CancelKeeps ==
  ASSUME HidInv, NEW c \in Clients, Cancel(c)
  PROVE  MessageInv' /\ Reassembled'
<1> USE DEF HidInv
<1> DEFINE f == CancelFrame(c)
<1> DeviceTypes /\ HostTypes /\ InboxTypes
  BY Types
<1>1. Deliver(f) /\ f.cmd = "CANCEL" /\ Client(c) /\ ChannelsStay
  BY HostOfCancel DEF Cancel, CancelFrame, Client
<1>2. ~Send(c)
  BY HostOfSend, HostOfCancel DEF HostTypes
<1>3. CASE stuck
  <2>1. UNCHANGED <<device, senders>>
    BY <1>1, <1>3 DEF Deliver
  <2>2. JobGoesOn
    BY <2>1 DEF device, JobGoesOn
  <2> QED BY <1>1, <1>3, <2>1, <2>2, JobKept DEF device, MessageInv
<1>4. ~TakePart(f)
  BY <1>1 DEF TakePart, TakeStart, TakeContinuation, Starts
<1>5. CASE ~stuck /\ Refuse(f)
  <2>1. UNCHANGED <<message, stuck>> /\ job' = JobAfter(f)
    BY <1>1, <1>4, <1>5 DEF Refuse, RespondTo, DeviceTypes, Deliver, Dispatch
  <2>2. senders \subseteq senders' \/ msg_packet = NoMessage
    BY <1>1, <1>5, <2>1, SendersStay DEF Refuse
  <2>3. MessageInv'
    <3>1. CASE msg_packet = NoMessage
      BY <2>1, <3>1 DEF MessageInv, message
    <3>2. CASE msg_packet # NoMessage
      <4> SUFFICES ASSUME NEW d \in Clients, ~Complete(msg_packet), Sends(d, msg_packet)
                   PROVE  Sends(d, msg_packet)'
        BY <1>1, <2>1, <2>2, <3>2, MessageUntouched
      <4> QED BY <1>1, <1>2, <2>1, <3>2, SenderKept DEF message
    <3> QED BY <3>1, <3>2
  <2> QED BY <1>1, <2>1, <2>3, JobAfterGoesOn, JobKept
<1>6. CASE ~stuck /\ Immediate(f)
  <2>1. msg_packet' = NoMessage /\ job' = JobAfter(f)
    BY <1>1, <1>4, <1>6 DEF Immediate, Deliver, Dispatch
  <2> QED BY <1>1, <2>1, JobAfterGoesOn, JobKept DEF MessageInv
<1> QED BY <1>1, <1>3, <1>4, <1>5, <1>6 DEF Deliver, Stray, Ignore, Starts, Accumulate,
    InvalidCommand, Echo, Dispatch

LEMMA HidInvKept == HidInv /\ [Next]_vars => HidInv'
<1> SUFFICES ASSUME HidInv, [Next]_vars PROVE HidInv'
  OBVIOUS
<1> TypeOK' /\ DeviceTypes /\ HostTypes /\ InboxTypes
  BY Types, TypesKept DEF HidInv
<1> USE DEF HidInv
<1>1. CASE Device
  <2>1. HostInv' /\ ChannelsStay
    BY <1>1 DEF Device, Timeout, Parse, Finish, Quiet, Unlock, HostInv, ChannelsStay
  <2>2. JobGoesOn
    BY <1>1 DEF Device, Timeout, Parse, Finish, Quiet, Unlock, JobGoesOn
  <2>3. MessageInv'
    <3>1. CASE Timeout
      BY <3>1 DEF Timeout, MessageInv
    <3>2. CASE Parse \/ Quiet \/ Unlock
      <4>1. UNCHANGED <<message, stuck, senders, host, inbox>>
        BY <3>2 DEF Parse, Quiet, Unlock
      <4>2. \A d \in Clients : Sends(d, msg_packet) => Sends(d, msg_packet)'
        BY <4>1 DEF Sends, Greeted, message
      <4> QED BY <2>1, <4>1, <4>2, MessageUntouched
    <3>3. CASE Finish
      <4>1. /\ UNCHANGED <<message, stuck, senders, host>>
            /\ Respond(ctap_req, job.client, job.num,
                       IF host[job.client].req.cmd = "CBOR" THEN "ok" ELSE "other")
        BY <3>3 DEF Finish
      <4>2. ASSUME NEW d \in Clients, Sends(d, msg_packet) PROVE Sends(d, msg_packet)'
        <5>1. CASE host[d].resync /\ ~Greeted(d)
          <6>1. host[d].req.cmd # "CBOR"
            BY <5>1 DEF HostInv, Idle
          <6>2. ~Greeted(d)'
            BY <4>1, <5>1, <6>1, NoGreeting
          <6> QED BY <4>1, <5>1, <6>2 DEF Sends
        <5>2. CASE ~(host[d].resync /\ ~Greeted(d))
          BY <4>1, <4>2, <5>2 DEF Sends, message
        <5> QED BY <5>1, <5>2
      <4> QED BY <2>1, <4>1, <4>2, MessageUntouched
    <3> QED BY <1>1, <3>1, <3>2, <3>3 DEF Device
  <2> QED BY <2>1, <2>2, <2>3, JobKept
<1>2. ASSUME NEW c \in Clients, Client(c) PROVE HidInv'
  <2>1. HostInv' /\ ChannelsStay
    BY <1>2, HostInvKept, ClientTypes
  <2>2. CASE Send(c)
    BY <2>1, <2>2, SendKeeps
  <2>3. CASE Cancel(c)
    BY <2>1, <2>3, CancelKeeps
  <2>4. CASE ~Send(c) /\ ~Cancel(c)
    <3>1. UNCHANGED <<device, senders>>
      BY <1>2, <2>4 DEF Client, Ask, Take, Abandon
    <3>2. JobGoesOn /\ UNCHANGED <<message, stuck, senders, msg_packet>>
      BY <3>1 DEF JobGoesOn, device, message
    <3>3. MessageInv'
      <4>1. ASSUME NEW d \in Clients, msg_packet # NoMessage, ~Complete(msg_packet),
                   Sends(d, msg_packet)
            PROVE  Sends(d, msg_packet)'
        BY <1>2, <2>4, <3>2, <4>1, SenderKept
      <4> QED BY <2>1, <3>2, <4>1, MessageUntouched
    <3> QED BY <2>1, <3>2, <3>3, JobKept
  <2> QED BY <2>2, <2>3, <2>4
<1>3. CASE UNCHANGED vars
  <2>1. UNCHANGED <<message, stuck, senders, host, inbox, job>>
    BY <1>3 DEF vars, device
  <2>2. \A d \in Clients : Sends(d, msg_packet) => Sends(d, msg_packet)'
    BY <2>1 DEF Sends, Greeted, message
  <2>3. HostInv' /\ ChannelsStay /\ JobGoesOn
    BY <2>1 DEF HostInv, ChannelsStay, JobGoesOn
  <2> QED BY <2>1, <2>2, <2>3, MessageUntouched, JobKept
<1> QED BY <1>1, <1>2, <1>3 DEF Next

\* Whatever channels the clients share, whoever dies half-way and whatever the
\* others send: the parts of a command that nothing spoilt are in their places
\* and of one channel, and of one request if its client alone has sent there.
THEOREM CommandsAreWhole == Spec => []Reassembled
<1>1. Init => HidInv
  BY TypesInit DEF Init, HidInv, MessageInv, Reassembled
<1>2. HidInv /\ [Next]_vars => HidInv'
  BY HidInvKept
<1>3. HidInv => Reassembled
  BY DEF HidInv
<1> QED BY <1>1, <1>2, <1>3, PTL DEF Spec
-----------------------------------------------------------------------------
(* One client that is never late, cancels nothing and does not die.        *)

OneClient ==
  /\ \A c, d \in Clients : c = d
  /\ ~Cancels /\ ~Abandons /\ Prompt
  /\ \A q \in Requests : /\ q.on = "own" /\ q.n # TooLong
                         /\ q.cmd \in {"INIT", "WINK", "LOCK"} => q.n = 1

\* Where its request is: not begun, being sent, with core 1, complete and of no
\* use until the timer ends it, or answered.
Asking(c) == /\ host[c].sent = 0
             /\ inbox[c] = <<>> /\ job = NoJob /\ msg_packet = NoMessage
OfRequest(p, c) == /\ p # NoMessage /\ p.cmd = host[c].req.cmd
                   /\ p.parts[1].client = c /\ p.parts[1].num = host[c].num
Sending(c) == /\ 0 < host[c].sent /\ host[c].sent < host[c].req.n
              /\ inbox[c] = <<>> /\ job = NoJob
              /\ OfRequest(msg_packet, c) /\ last_req = host[c].cid
              /\ msg_packet.len = host[c].req.n
              /\ msg_packet.seq + 1 = host[c].sent
              /\ Len(msg_packet.parts) = host[c].sent
Sent(c) == /\ host[c].req # Idle /\ host[c].req.on = "own"
           /\ host[c].sent = host[c].req.n
AtCore1(c) == /\ Sent(c) /\ inbox[c] = <<>> /\ msg_packet = NoMessage
              /\ job # NoJob /\ job.client = c /\ job.num = host[c].num
              /\ host[c].req.cmd = "CBOR" /\ ctap_req = host[c].cid
Lingering(c) == /\ Sent(c) /\ inbox[c] = <<>> /\ job = NoJob
                /\ OfRequest(msg_packet, c)
                /\ ctap_req = host[c].cid
Answered(c) == /\ Sent(c) /\ job = NoJob /\ msg_packet = NoMessage
               /\ inbox[c] \in {<<"ok">>, <<"error">>}
Somewhere(c) ==
  Asking(c) \/ Sending(c) \/ AtCore1(c) \/ Lingering(c) \/ Answered(c)

SoloInv ==
  /\ ~stuck
  /\ timer => msg_packet # NoMessage
  /\ \A c \in Clients : (locked => last_req = host[c].cid) /\ Somewhere(c)

LEMMA ResponseArrives ==
  ASSUME NEW c \in Clients, inbox[c] = <<>>, InboxTypes,
         host[c].req # Idle, host[c].req.on = "own",
         NEW result \in {"ok", "error"}, Respond(host[c].cid, c, host[c].num, result)
  PROVE  inbox'[c] = <<result>>
<1>1. Len(inbox[c]) = 0 /\ 0 < MaxInbox /\ Hears(c, host[c].cid)
  BY HidAssumption DEF Hears, CidOf
<1> QED BY <1>1 DEF Respond, InboxTypes

\* Nothing refuses or overlooks a frame of the only client.
LEMMA SoloAccepted ==
  ASSUME OneClient, TypeOK, SoloInv, NEW c \in Clients, Send(c)
  PROVE  LET f == NextFrame(c)
         IN  /\ ~Refused(f) /\ f.cid = host[c].cid
             /\ Starts(f) <=> host[c].sent = 0
             /\ Starts(f) => msg_packet = NoMessage /\ Asking(c)
             /\ ~Starts(f) => msg_packet.len > 0 /\ Mine(f) /\ Sending(c)
<1> DEFINE f == NextFrame(c)
<1> DeviceTypes /\ HostTypes
  BY Types
<1>1. host[c].sent < host[c].req.n
  BY DEF Send
<1>2. /\ host[c].req \in Requests /\ host[c].req # Idle /\ host[c].req.on = "own"
      /\ host[c].sent \in Nat /\ host[c].req.n \in Nat /\ host[c].req.n # TooLong
      /\ host[c].cid \in Channels
  BY <1>1, RequestSent, HidAssumption DEF OneClient, HostTypes
<1>3. /\ f.cid = host[c].cid /\ f.n # TooLong /\ f.i = host[c].sent + 1
      /\ Starts(f) <=> host[c].sent = 0
  BY <1>1, <1>2, NextFrameFacts
<1>4. ~LockedOut(f) /\ f.cid # Broadcast /\ f.cid # Zero
  BY <1>2, <1>3, HidAssumption DEF SoloInv, LockedOut, Mine
<1>5. Asking(c) \/ Sending(c)
  BY <1>1, <1>2 DEF SoloInv, Somewhere, AtCore1, Lingering, Answered, Sent
<1>6. CASE host[c].sent = 0
  <2>1. Asking(c) /\ msg_packet = NoMessage /\ msg_packet.len = 0
    BY <1>5, <1>6 DEF Asking, Sending, NoMessage
  <2> QED BY <1>3, <1>4, <1>6, <2>1 DEF Refused, InTransaction
<1>7. CASE host[c].sent # 0
  <2>1. Sending(c)
    BY <1>5, <1>7 DEF Asking
  <2>2. msg_packet.len > 0 /\ Mine(f) /\ msg_packet \in Packet
    BY <1>3, <2>1, MessageThere, PacketKept DEF Sending, OfRequest, Mine
  <2>3. msg_packet.seq = f.i - 2
    BY <1>2, <1>3, <2>1, <2>2, HidAssumption DEF Sending, Packet
  <2> QED BY <1>3, <1>4, <1>7, <2>1, <2>2, <2>3 DEF Refused
<1> QED BY <1>6, <1>7

\* What it made of a frame: the message goes on, ends, or is over at once.
SoloOutcome(c) ==
  \/ Answered(c)' /\ ~timer'
  \/ AtCore1(c)' /\ ~timer'
  \/ (Lingering(c) \/ Sending(c))'

LEMMA SoloSend ==
  ASSUME OneClient, TypeOK, SoloInv, NEW c \in Clients, Send(c)
  PROVE  /\ SoloOutcome(c) /\ ~stuck'
         /\ last_req' = host[c].cid
<1> DEFINE f == NextFrame(c)
<1> DeviceTypes /\ HostTypes /\ InboxTypes
  BY Types
<1>1. host[c].sent < host[c].req.n /\ Deliver(f) /\ f \in Frame /\ ~stuck
  BY NextFrameIsFrame DEF Send, SoloInv
<1>2. /\ ~Refused(f) /\ f.cid = host[c].cid
      /\ Starts(f) <=> host[c].sent = 0
      /\ Starts(f) => msg_packet = NoMessage /\ Asking(c)
      /\ ~Starts(f) => msg_packet.len > 0 /\ Mine(f) /\ Sending(c)
  BY SoloAccepted
<1>3. /\ f.client = c /\ f.num = host[c].num /\ f.n = host[c].req.n
      /\ Starts(f) => f.cmd = host[c].req.cmd
      /\ PartOf(f) = [client |-> c, num |-> host[c].num, i |-> host[c].sent + 1]
  BY <1>1, NextFrameFacts
<1>4. /\ host[c].req \in Requests /\ host[c].req # Idle /\ host[c].req.cmd \in Commands
      /\ host[c].sent \in Nat /\ host[c].req.n \in Nat \ {0} /\ host[c].req.on = "own"
  BY <1>1, RequestSent, HidAssumption DEF OneClient
<1>5. /\ host'[c].sent = host[c].sent + 1 /\ host'[c].req = host[c].req
      /\ host'[c].num = host[c].num /\ host'[c].cid = host[c].cid
  BY HostOfSend DEF ChannelsStay
<1>6. ctap_req' = host[c].cid /\ inbox[c] = <<>> /\ job = NoJob /\ NoJob = JobAfter(f)
  BY <1>1, <1>2 DEF Deliver, Asking, Sending, JobAfter
<1>7. ASSUME NEW result \in {"ok", "error"}, RespondTo(f, result)
      PROVE  inbox'[c] = <<result>> /\ ~timer' /\ ~stuck'
  BY <1>7, <1>2, <1>3, <1>4, <1>6, ResponseArrives DEF RespondTo, InboxTypes
<1>8. CASE Immediate(f)
  <2>1. /\ f.cmd # "CANCEL" /\ f.n = 1 /\ host[c].sent = 0 /\ last_req' = f.cid
        /\ f.cmd \in {"INIT", "WINK", "LOCK"}
    BY <1>2, <1>3, <1>4, <1>8 DEF Immediate, TakeStart, OneClient, Commands
  <2>2. /\ RespondTo(f, "ok") \/ RespondTo(f, "error")
        /\ msg_packet' = NoMessage
    BY <1>8, <2>1 DEF Immediate, PacketStarted
  <2>4. job' = NoJob
    BY <1>1, <1>6, <1>8, <2>1 DEF Deliver, Dispatch, CommandOf, TakeStart, Immediate
  <2>3. Answered(c)' /\ ~timer' /\ ~stuck'
    <3>1. inbox'[c] \in {<<"ok">>, <<"error">>} /\ ~timer' /\ ~stuck'
      BY <1>7, <2>2
    <3>2. Sent(c)'
      BY <1>3, <1>4, <1>5, <2>1 DEF Sent
    <3> QED BY <2>2, <2>4, <3>1, <3>2 DEF Answered
  <2> QED BY <1>2, <2>1, <2>3 DEF SoloOutcome
<1>9. ASSUME TakePart(f)
      PROVE  /\ last_req' = host[c].cid /\ CommandOf(f) = host[c].req.cmd
             /\ PacketWith(f) = NoMessage <=> (Starts(f) /\ f.n = 1)
             /\ PacketWith(f) # NoMessage =>
                  /\ PacketWith(f).parts[1].client = c
                  /\ PacketWith(f).parts[1].num = host[c].num
                  /\ PacketWith(f).len = f.n /\ PacketWith(f).cmd = host[c].req.cmd
                  /\ PacketWith(f).seq = host[c].sent
                  /\ Len(PacketWith(f).parts) = host[c].sent + 1
  <2>1. CASE Starts(f)
    <3>1. last_req' = host[c].cid /\ host[c].sent = 0 /\ CommandOf(f) = host[c].req.cmd
      BY <1>2, <1>3, <1>9, <2>1 DEF TakePart, TakeStart, TakeContinuation, CommandOf
    <3>2. PacketWith(f) = PacketStarted(f)
      BY <2>1 DEF PacketWith
    <3>3. CASE f.n = 1
      BY <2>1, <3>1, <3>2, <3>3 DEF PacketStarted
    <3>4. CASE f.n # 1
      <4>1. PacketWith(f) = [len |-> f.n, parts |-> <<PartOf(f)>>, cmd |-> f.cmd, seq |-> 0]
        BY <3>2, <3>4 DEF PacketStarted
      <4>2. PacketWith(f) # NoMessage /\ Len(PacketWith(f).parts) = 1
            /\ PacketWith(f).parts[1] = PartOf(f)
        BY <4>1 DEF NoMessage
      <4> QED BY <1>3, <2>1, <3>1, <3>4, <4>1, <4>2
    <3> QED BY <3>3, <3>4
  <2>2. CASE ~Starts(f)
    <3>1. last_req' = host[c].cid /\ Sending(c) /\ CommandOf(f) = host[c].req.cmd
      BY <1>2, <1>9, <2>2
      DEF TakePart, TakeStart, TakeContinuation, Sending, OfRequest, CommandOf
    <3>2. PacketWith(f) = Appended(msg_packet, f)
      BY <2>2 DEF PacketWith
    <3>3. /\ msg_packet # NoMessage /\ msg_packet \in Packet /\ msg_packet.len = f.n
          /\ msg_packet.parts \in Seq(Part) /\ Len(msg_packet.parts) = host[c].sent
          /\ ~Complete(msg_packet)
      BY <1>1, <1>3, <1>4, <3>1, PacketKept DEF Sending, OfRequest, Complete, Packet
    <3>4. PacketWith(f) = [msg_packet EXCEPT !.seq = @ + 1,
                             !.parts = Append(msg_packet.parts, PartOf(f))]
      BY <3>2, <3>3 DEF Appended
    <3>5. /\ PacketWith(f).parts = Append(msg_packet.parts, PartOf(f))
          /\ PacketWith(f).len = f.n /\ PacketWith(f).seq = host[c].sent
          /\ PacketWith(f).cmd = host[c].req.cmd
      BY <3>1, <3>3, <3>4 DEF Packet, Sending, OfRequest
    <3>6. PacketWith(f) # NoMessage
      BY <1>3, <1>4, <3>5 DEF NoMessage
    <3>7. /\ Len(PacketWith(f).parts) = host[c].sent + 1
          /\ PacketWith(f).parts[1] = msg_packet.parts[1]
      BY <1>4, <3>1, <3>3, <3>5 DEF Sending
    <3> QED BY <2>2, <3>1, <3>5, <3>6, <3>7 DEF Sending, OfRequest
  <2> QED BY <2>1, <2>2
<1>10. CASE Accumulate(f)
  <2>1. /\ TakePart(f) /\ PacketWith(f) # NoMessage /\ msg_packet' = PacketWith(f)
        /\ UNCHANGED <<stuck, inbox>>
    BY <1>10 DEF Accumulate
  <2>6. job' = NoJob
    BY <1>1, <1>6, <1>10, <2>1 DEF Deliver, Dispatch, Accumulate
  <2>2. OfRequest(msg_packet, c)'
    BY <1>5, <1>9, <2>1 DEF OfRequest
  <2>3. ASSUME host[c].sent + 1 = host[c].req.n PROVE Lingering(c)'
    BY <1>4, <1>5, <1>6, <2>1, <2>2, <2>3, <2>6 DEF Lingering, Sent
  <2>4. ASSUME host[c].sent + 1 # host[c].req.n PROVE Sending(c)'
    <3>1. host[c].sent + 1 < host[c].req.n
      BY <1>1, <1>4, <2>4
    <3> QED BY <1>3, <1>4, <1>5, <1>6, <1>9, <2>1, <2>2, <2>6, <3>1 DEF Sending
  <2>5. ~stuck' /\ last_req' = host[c].cid
    BY <1>1, <1>9, <2>1 DEF DeviceTypes
  <2> QED BY <2>3, <2>4, <2>5 DEF SoloOutcome
<1>11. ASSUME TakePart(f), PacketWith(f) = NoMessage \/ Complete(PacketWith(f))
       PROVE  Sent(c)'
  <2>1. CASE PacketWith(f) = NoMessage
    BY <1>2, <1>3, <1>4, <1>5, <1>9, <1>11, <2>1 DEF Sent
  <2>2. CASE PacketWith(f) # NoMessage
    BY <1>3, <1>4, <1>5, <1>9, <1>11, <2>2 DEF Complete, Sent
  <2> QED BY <2>1, <2>2
<1>12. CASE InvalidCommand(f) \/ Echo(f)
  <2>1. /\ TakePart(f)
        /\ PacketWith(f) = NoMessage \/ Complete(PacketWith(f))
        /\ RespondTo(f, "ok") \/ RespondTo(f, "error")
        /\ msg_packet' = NoMessage
    BY <1>12 DEF InvalidCommand, Echo
  <2>3. job' = NoJob
    <3>1. ~Dispatch(f)
      BY <1>12, <2>1 DEF InvalidCommand, Echo, Dispatch, CommandOf, Starts
    <3> QED BY <1>1, <1>6, <3>1 DEF Deliver
  <2>2. Answered(c)' /\ ~timer' /\ ~stuck'
    BY <1>7, <1>11, <2>1, <2>3 DEF Answered
  <2> QED BY <1>9, <2>1, <2>2 DEF SoloOutcome
<1>13. CASE Dispatch(f)
  <2>1. /\ TakePart(f) /\ Complete(PacketWith(f)) /\ msg_packet' = NoMessage
        /\ CommandOf(f) = "CBOR"
        /\ job'.client = f.client /\ job'.num = f.num /\ job'.state = "given"
        /\ timer' = FALSE /\ UNCHANGED <<stuck, inbox>>
    BY <1>13 DEF Dispatch
  <2>2. job' # NoJob /\ job'.client = c /\ job'.num = host[c].num
    <3>1. Len(PartsWith(f)) # 0
      <4>1. CASE PacketWith(f) = NoMessage
        <5>1. PartsWith(f) = <<PartOf(f)>>
          BY <4>1 DEF PartsWith
        <5> QED BY <5>1
      <4>2. CASE PacketWith(f) # NoMessage
        BY <1>4, <1>9, <2>1, <4>2 DEF PartsWith
      <4> QED BY <4>1, <4>2
    <3>2. job'.n = Len(PartsWith(f))
      BY <1>13 DEF Dispatch
    <3> QED BY <1>3, <2>1, <3>1, <3>2 DEF NoJob
  <2>3. AtCore1(c)'
    BY <1>5, <1>6, <1>9, <1>11, <2>1, <2>2 DEF AtCore1
  <2>4. ~stuck'
    BY <1>1, <2>1
  <2> QED BY <1>9, <2>1, <2>3, <2>4 DEF SoloOutcome
<1> QED BY <1>1, <1>2, <1>8, <1>10, <1>12, <1>13 DEF Deliver, Refuse, Stray, Ignore

LEMMA SoloKept == OneClient /\ TypeOK /\ SoloInv /\ [Next]_vars => SoloInv'
<1> SUFFICES ASSUME OneClient, TypeOK, SoloInv, [Next]_vars PROVE SoloInv'
  OBVIOUS
<1> DeviceTypes /\ HostTypes /\ InboxTypes
  BY Types
<1> USE DEF SoloInv
<1>1. ASSUME NEW c \in Clients, Client(c) PROVE SoloInv'
  <2>0. \A d \in Clients : d = c
    BY DEF OneClient
  <2>1. CASE Send(c)
    <3>1. SoloOutcome(c) /\ ~stuck' /\ last_req' = host[c].cid
          /\ host'[c].cid = host[c].cid
      BY <2>1, SoloSend, HostOfSend DEF ChannelsStay
    <3>2. Somewhere(c)' /\ (timer' => msg_packet' # NoMessage)
      <4>1. Lingering(c)' \/ Sending(c)' => msg_packet' # NoMessage
        BY DEF Lingering, Sending, OfRequest
      <4> QED BY <3>1, <4>1 DEF SoloOutcome, Somewhere
    <3> QED BY <2>0, <3>1, <3>2
  <2>2. CASE \E q \in Requests : Ask(c, q)
    <3>1. PICK q \in Requests : Ask(c, q)
      BY <2>2
    <3>2. host[c].req = Idle /\ host'[c].sent = host[c].sent /\ UNCHANGED <<device, inbox>>
          /\ host'[c].cid = host[c].cid
      BY <3>1, HostOfAsk DEF Ask, ChannelsStay
    <3>3. Asking(c)
      BY <3>2, HidAssumption DEF Somewhere, Sending, AtCore1, Lingering, Answered, Sent,
         Idle, HostTypes
    <3>4. Somewhere(c)'
      BY <3>2, <3>3 DEF Asking, Somewhere, device, message
    <3> QED BY <2>0, <3>2, <3>4 DEF device, message
  <2>3. CASE Cancel(c) \/ Abandon(c)
    BY <2>3 DEF Cancel, Abandon, OneClient
  <2>4. CASE Take(c)
    <3>1. host[c].sent = host[c].req.n /\ host[c].req # Idle /\ inbox[c] # <<>>
          /\ UNCHANGED device
          /\ inbox' = [inbox EXCEPT ![c] = [i \in 1..(Len(@) - 1) |-> "other"]]
      BY <2>4 DEF Take
    <3>2. Answered(c)
      BY <3>1 DEF Somewhere, Asking, Sending, AtCore1, Lingering
    <3>3. inbox'[c] = <<>>
      <4>1. Len(inbox[c]) = 1
        BY <3>2 DEF Answered
      <4> QED BY <3>1, <4>1 DEF InboxTypes
    <3>4. host'[c].sent = 0 /\ host'[c].cid = host[c].cid
      BY <2>4, HostOfEnd DEF Idles, ChannelsStay
    <3>5. Somewhere(c)'
      BY <3>1, <3>2, <3>3, <3>4 DEF Answered, Asking, Somewhere, device, message
    <3> QED BY <2>0, <3>1, <3>4, <3>5 DEF device, message
  <2> QED BY <1>1, <2>1, <2>2, <2>3, <2>4 DEF Client
<1>2. CASE Timeout
  <2> SUFFICES ASSUME NEW c \in Clients PROVE (locked => last_req = host[c].cid)' /\ Somewhere(c)'
    BY <1>2 DEF Timeout
  <2>1. /\ msg_packet # NoMessage /\ host[c].sent \in {0, host[c].req.n}
        /\ UNCHANGED <<host, ctap_req, job, last_req, locked>> /\ msg_packet' = NoMessage
        /\ Respond(ctap_req, msg_packet.parts[1].client, msg_packet.parts[1].num, "error")
    BY <1>2 DEF Timeout, OneClient
  <2>2. Lingering(c)
    BY <2>1, HidAssumption DEF Somewhere, Asking, Sending, AtCore1, Answered, HostTypes
  <2>3. inbox'[c] = <<"error">>
    BY <2>1, <2>2, ResponseArrives DEF Lingering, OfRequest, Sent, InboxTypes
  <2>4. Answered(c)'
    BY <2>1, <2>2, <2>3 DEF Lingering, Answered, Sent
  <2> QED BY <2>1, <2>4 DEF Somewhere
<1>3. CASE Finish
  <2> SUFFICES ASSUME NEW c \in Clients PROVE (locked => last_req = host[c].cid)' /\ Somewhere(c)'
    BY <1>3 DEF Finish, message
  <2>1. /\ job # NoJob /\ UNCHANGED <<host, message, locked>> /\ job' = NoJob
        /\ Respond(ctap_req, job.client, job.num,
                   IF host[job.client].req.cmd = "CBOR" THEN "ok" ELSE "other")
    BY <1>3 DEF Finish
  <2>2. AtCore1(c)
    BY <2>1 DEF Somewhere, Asking, Sending, Lingering, Answered
  <2>3. inbox'[c] = <<"ok">>
    BY <2>1, <2>2, ResponseArrives DEF AtCore1, Sent, InboxTypes
  <2>4. Answered(c)'
    BY <2>1, <2>2, <2>3 DEF AtCore1, Answered, Sent, message
  <2> QED BY <2>1, <2>4 DEF Somewhere, message
<1>5. CASE Parse
  <2>1. /\ UNCHANGED <<ctap_req, stuck, message, timer, locked, host, inbox>>
        /\ job # NoJob /\ job' = [job EXCEPT !.state = "parsed"]
    BY <1>5 DEF Parse
  <2>2. job \in Job
    BY <2>1 DEF DeviceTypes
  <2>3. job' # NoJob /\ job'.client = job.client /\ job'.num = job.num
    <3>1. job'.n = job.n /\ job.n # 0 /\ job'.client = job.client /\ job'.num = job.num
      BY <2>1, <2>2, HidAssumption DEF Job
    <3> QED BY <3>1 DEF NoJob
  <2> SUFFICES ASSUME NEW c \in Clients PROVE Somewhere(c)'
    BY <2>1 DEF message
  <2>4. AtCore1(c)
    BY <2>1 DEF Somewhere, Asking, Sending, Lingering, Answered
  <2> QED BY <2>1, <2>3, <2>4 DEF AtCore1, Sent, Somewhere, message
<1>4. CASE Quiet \/ Unlock \/ UNCHANGED vars
  <2>1. UNCHANGED <<ctap_req, stuck, msg_packet, last_req, timer, job, host, inbox>>
        /\ (locked' => locked)
    BY <1>4 DEF Quiet, Unlock, vars, device, message
  <2> QED BY <2>1 DEF Somewhere, Asking, Sending, OfRequest, AtCore1, Lingering,
          Answered, Sent
<1> QED BY <1>1, <1>2, <1>3, <1>4, <1>5 DEF Next, Device

\* A single client that keeps to the protocol finds one answer when it reads,
\* the one to its request, and none while its command still runs.
THEOREM AnswersAreMine == ASSUME OneClient PROVE Spec => []AnswerIsMine
<1>1. Init => SoloInv
  BY DEF Init, SoloInv, Somewhere, Asking
<1>2. TypeOK /\ SoloInv /\ [Next]_vars => SoloInv'
  BY SoloKept
<1>3. SoloInv => AnswerIsMine
  <2> SUFFICES ASSUME SoloInv, NEW c \in Clients, inbox[c] # <<>>
               PROVE  Len(inbox[c]) = 1 /\ inbox[c][1] # "other" /\ job = NoJob
    BY DEF AnswerIsMine
  <2>1. Answered(c)
    BY DEF SoloInv, Somewhere, Asking, Sending, AtCore1, Lingering
  <2> QED BY <2>1 DEF Answered
<1> QED BY <1>1, <1>2, <1>3, TypeCorrect, PTL DEF Spec
=============================================================================
