-------------------------------- MODULE Wire --------------------------------
(***************************************************************************)
(* Messages on their way: a peer serializes each into a linear buffer and  *)
(* writes it to its socket (flight_vars_server::write_message and the      *)
(* client's send_message), TCP carries the bytes in chunks of any size,    *)
(* and the other peer deserializes what its input buffer holds whenever a  *)
(* read completes, one message each time.  The input buffer is the stream  *)
(* of bytes RingBuffer implements.                                         *)
(*                                                                         *)
(* Three things may damage the stream, and history keeps track of them: a  *)
(* write that takes a part of a message (nothing writes the rest), a       *)
(* message received in two parts by the client (which sets no mark), and a *)
(* full input buffer (whose reads may throw, see RingBuffer).              *)
(***************************************************************************)
EXTENDS MessageCodec

CONSTANTS
  ToServer,     \* the messages a client sends
  ToClient,     \* the messages a server sends
  OutCapacity,  \* bytes of an output buffer
  InCapacity,   \* bytes of each side's input buffer, the server's larger
  MaxMessages   \* bound: messages sent

\* The programs make output buffers of 128 and 1024 bytes, and input buffers of
\* 1024 and 65536; the length of a string is written in 16 bits.
ASSUME WireAssumption ==
  /\ \A msg \in ToServer \cup ToClient : IsMessage(msg)
  /\ OutCapacity \in Nat /\ OutCapacity < 65536
  /\ InCapacity \in [server : Nat, client : Nat]
  /\ MaxMessages \in Nat

VARIABLES
  reader,   \* the side that reads: "server" or "client"
  sent,     \* history: the messages written, in order
  wire,     \* bytes written and not received
  unread,   \* the input buffer
  got,      \* history: the messages deserialized, in order
  open,     \* the reader goes on reading
  damage    \* history: what has damaged the stream

vars == <<reader, sent, wire, unread, got, open, damage>>

Init ==
  /\ reader \in {"server", "client"}
  /\ sent = <<>>
  /\ wire = <<>>
  /\ unread = <<>>
  /\ got = <<>>
  /\ open = TRUE
  /\ damage = {}

\* linear_buffer::write under stream::write_all: bytes that do not fit are an
\* end of file, and the message is not sent.
Fits(bytes) == Len(bytes) <= OutCapacity

\* How many bytes the socket takes of those the buffer offers: all, or less.
Taken(bytes) == {Len(bytes), Len(bytes) - 2}

write_message(msg) ==
  LET bytes == serialize(msg) IN
  /\ Len(sent) < MaxMessages
  /\ Fits(bytes)
  /\ sent' = Append(sent, msg)
  /\ \E n \in Taken(bytes) :
       /\ wire' = wire \o SubSeq(bytes, 1, n)
       /\ damage' = IF n < Len(bytes) THEN damage \cup {"short write"} ELSE damage
  /\ UNCHANGED <<reader, unread, got, open>>

\* What is in the input buffer when n more bytes have come.
Buffered(n) == unread \o SubSeq(wire, 1, n)

\* Mutant: the server sets no mark either.
KeptUnmarked(bytes, r) == r.rest

\* unmarshall(): the server's mark lets it read a message received in part
\* again; the client has consumed it.
Kept(bytes, r) == IF r.st = "eof" /\ reader = "server" THEN bytes ELSE r.rest

\* A read completes with n bytes, as many as there is room for at most.
on_read(n) ==
  LET bytes == Buffered(n)
      r     == deserialize(bytes)
  IN
  /\ open
  /\ n <= Len(wire) /\ Len(bytes) <= InCapacity[reader]
  /\ n > 0 \/ Len(unread) = InCapacity[reader]
  /\ wire' = SubSeq(wire, n + 1, Len(wire))
  /\ unread' = Kept(bytes, r)
  /\ got' = IF r.st = "ok" THEN got \o r.fields ELSE got
  /\ open' = (r.st = "eof" \/ (r.st = "ok" /\ r.fields[1].type # "END_SESSION"))
  /\ damage' = IF reader = "client" /\ r.st = "eof" THEN damage \cup {"split"} ELSE damage
  /\ UNCHANGED <<reader, sent>>

\* Reading from a full buffer, index_out_of_bounds may be thrown.
on_read_full(n) ==
  /\ open
  /\ n <= Len(wire) /\ Len(Buffered(n)) = InCapacity[reader]
  /\ open' = FALSE
  /\ damage' = damage \cup {"full"}
  /\ UNCHANGED <<reader, sent, wire, unread, got>>

Next ==
  \/ \E msg \in ToServer : reader = "server" /\ write_message(msg)
  \/ \E msg \in ToClient : reader = "client" /\ write_message(msg)
  \/ \E n \in 0..InCapacity.server : on_read(n)
  \/ \E n \in 0..InCapacity.server : on_read_full(n)

Spec == Init /\ [][Next]_vars

-----------------------------------------------------------------------------
\* Correctness.

(* However TCP cuts and joins the bytes, the messages a peer deserializes are
   the ones the other wrote, each once, in order, with every field as it was,
   and no reader gives up on a peer that keeps to the protocol: a message
   that is not all there is read again from its beginning.  The damages the
   code does not deal with are left out. *)
DecodedAsSent ==
  damage = {} =>
    /\ IsPrefix(got, sent)
    /\ open \/ \E i \in DOMAIN got : got[i].type = "END_SESSION"
=============================================================================
