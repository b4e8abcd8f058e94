----------------------------- MODULE MCCtapHid -----------------------------
(* CtapHid with the requests the clients of a run make.                    *)
EXTENDS CtapHid, TLC
Symmetry == Permutations(Clients) \cup Permutations(Channels)
Ask1(cmd, n) == [cmd |-> cmd, n |-> n, on |-> "own"]
\* What a client that keeps to the protocol asks.
Polite == {Ask1("INIT", 1), Ask1("WINK", 1), Ask1("LOCK", 1), Ask1("PING", 1),
           Ask1("PING", 3), Ask1("CBOR", 1), Ask1("CBOR", 2), Ask1("OTHER", 1),
           Ask1("OTHER", 2)}
\* The kinds of message that differ when clients meet: INIT to all, as
\* python-fido2 begins, a command that lies in rx_buffer, one that lies in
\* msg_packet and one that is too long.
Mixed == {[cmd |-> "INIT", n |-> 1, on |-> "all"], Ask1("CBOR", 1), Ask1("CBOR", 3),
          Ask1("CBOR", 4)}
Plain == {Ask1("INIT", 1), Ask1("PING", 3)}
=============================================================================
