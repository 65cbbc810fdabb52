----------------------------- MODULE RingBuffer -----------------------------
(***************************************************************************)
(* ring_stream_buffer_base over a fixed_buffer                             *)
(* (liboac/include/liboac/buffer/ring.inl), the buffer every FlightVars    *)
(* connection receives into: asio fills the chunks of it that are free,    *)
(* the deserializer reads messages out of it and, on the server, marks the *)
(* beginning of each so that a message that is not whole yet is read again *)
(* later.                                                                  *)
(*                                                                         *)
(* One action is one call.  An asynchronous receive is one action too: the *)
(* owner neither reads nor writes between offering the chunks and the      *)
(* completion that moves the index.  async_read_some_to, which would send  *)
(* out of a ring buffer, is left out: every connection sends out of a      *)
(* linear_buffer (server.h:62,88, connection_manager.h:74-75).             *)
(***************************************************************************)
EXTENDS Integers, Sequences

CONSTANTS
  Byte,      \* the values a byte may have
  Capacity,  \* capacity of the fixed_buffer
  MaxCall    \* bound: the longest read or write a caller asks for

ASSUME CapacityAssumption == Capacity \in Nat \ {0}
ASSUME MaxCallAssumption == MaxCall \in Nat

VARIABLES
  data,           \* _fixed_buffer's bytes
  read_index,     \* _read_index
  write_index,    \* _write_index
  bytes_written,  \* _bytes_written: the bytes that can be read
  mark,           \* _mark, or NoMark
  dist_from_mark, \* _dist_from_mark: the bytes read since the mark
  out             \* what the last read gave its caller

vars == <<data, read_index, write_index, bytes_written, mark, dist_from_mark,
          out>>

NoMark == -1
Slots == 0..(Capacity - 1)
\* Byte strings callers write and sockets receive.
Strings == UNION {[1..n -> Byte] : n \in 0..MaxCall}

AtMost(a, b) == IF a <= b THEN a ELSE b

\* Mutant: the index is not taken modulo the capacity.
SlotUnbounded(i) == i

\* i modulo the capacity, for the indexes the buffer ever adds up.
Slot(i) == IF i < Capacity THEN i ELSE i - Capacity

is_broken == read_index > write_index

\* Mutant: the bytes kept for the mark count as free.
available_ignoring_mark == Capacity - bytes_written

available_for_write == Capacity - bytes_written - dist_from_mark

-----------------------------------------------------------------------------
\* How the bytes of a call are laid out.

\* How far ahead of the write index a slot is.
Ahead(s) == IF s >= write_index THEN s - write_index
                                ELSE s + Capacity - write_index

\* The bytes after n of bs were stored from the write index on, going round.
Stored(bs, n) ==
  [s \in Slots |-> IF Ahead(s) < n THEN bs[Ahead(s) + 1] ELSE data[s]]

\* n bytes taken from the read index on, going round.
Taken(n) == [i \in 1..n |-> data[Slot(read_index + i - 1)]]

\* Mutants: an index goes back to 0 and the bytes after it do not count.
ReadIndexDropsRest(n) ==
  IF is_broken /\ n >= Capacity - read_index THEN 0 ELSE read_index + n
WriteIndexDropsRest(n) ==
  IF ~is_broken /\ n >= Capacity - write_index THEN 0 ELSE write_index + n

\* Where read() leaves the read index: it goes back to 0 only in a broken
\* buffer.
ReadIndexAfter(n) ==
  IF is_broken /\ n >= Capacity - read_index
  THEN n - (Capacity - read_index)
  ELSE read_index + n

\* Where write() leaves the write index: it goes back to 0 only in a buffer
\* that is not broken.
WriteIndexAfter(n) ==
  IF ~is_broken /\ n >= Capacity - write_index
  THEN n - (Capacity - write_index)
  ELSE write_index + n

inc_dist_from_mark(n) ==
  dist_from_mark' = IF mark = NoMark THEN dist_from_mark ELSE dist_from_mark + n

-----------------------------------------------------------------------------
\* The chunks handed to asio.

\* asio_mutable_buffers: the lengths of the two chunks a receive may fill.
FirstRoom ==
  AtMost(available_for_write,
         IF is_broken THEN read_index - write_index ELSE Capacity - write_index)
\* Mutant: only the chunk up to the end of the buffer is offered.
NoSecondRoom == 0

SecondRoom ==
  IF is_broken THEN 0 ELSE AtMost(available_for_write - FirstRoom, read_index)
Room == FirstRoom + SecondRoom

\* The slots of those chunks, in the order asio fills them.
RoomSlot(i) ==
  IF i <= FirstRoom THEN write_index + i - 1 ELSE i - FirstRoom - 1

-----------------------------------------------------------------------------
Init ==
  /\ data \in [Slots -> Byte]
  /\ read_index = 0
  /\ write_index = 0
  /\ bytes_written = 0
  /\ mark = NoMark
  /\ dist_from_mark = 0
  /\ out = <<>>

\* read() of n bytes leaves the fixed buffer: index_out_of_bounds is thrown.
OutOfBounds(n) == ~is_broken /\ read_index + n > Capacity

\* read: at most the bytes there are; nothing changes when it throws.
Read(count) ==
  LET n == AtMost(count, bytes_written) IN
    /\ ~OutOfBounds(n)
    /\ out' = Taken(n)
    /\ read_index' = ReadIndexAfter(n)
    /\ bytes_written' = bytes_written - n
    /\ inc_dist_from_mark(n)
    /\ UNCHANGED <<data, write_index, mark>>

\* write: at most the bytes there is room for.
Write(bs) ==
  LET n == AtMost(Len(bs), available_for_write) IN
    /\ data' = Stored(bs, n)
    /\ write_index' = WriteIndexAfter(n)
    /\ bytes_written' = bytes_written + n
    /\ UNCHANGED <<read_index, mark, dist_from_mark, out>>

set_mark ==
  /\ dist_from_mark = 0  \* unmarshall marks where nothing is kept
  /\ mark' = read_index
  /\ UNCHANGED <<data, read_index, write_index, bytes_written, dist_from_mark,
                 out>>

unset_mark ==
  /\ mark' = NoMark
  /\ dist_from_mark' = 0
  /\ UNCHANGED <<data, read_index, write_index, bytes_written, out>>

reset ==
  /\ mark # NoMark
  /\ bytes_written' = bytes_written + dist_from_mark
  /\ dist_from_mark' = 0
  /\ read_index' = mark
  /\ UNCHANGED <<data, write_index, mark, out>>

\* async_write_some_from: a receive fills a part of the chunks it was offered,
\* none of it only when they are empty.
Receive(bs) ==
  /\ Len(bs) <= Room
  /\ Len(bs) = 0 => Room = 0
  /\ data' = [s \in Slots |->
                IF \E i \in 1..Len(bs) : s = RoomSlot(i)
                THEN bs[CHOOSE i \in 1..Len(bs) : s = RoomSlot(i)]
                ELSE data[s]]
  /\ write_index' = Slot(write_index + Len(bs))
  /\ bytes_written' = bytes_written + Len(bs)
  /\ UNCHANGED <<read_index, mark, dist_from_mark, out>>

Next ==
  \/ \E count \in 1..MaxCall : Read(count)
  \/ \E bs \in Strings : Write(bs)
  \/ set_mark
  \/ unset_mark
  \/ reset
  \/ \E bs \in Strings : Receive(bs)

Spec == Init /\ [][Next]_vars

-----------------------------------------------------------------------------
TypeOK ==
  /\ data \in [Slots -> Byte]
  /\ read_index \in 0..Capacity
  /\ write_index \in 0..Capacity
  /\ bytes_written \in 0..Capacity
  /\ mark \in 0..Capacity \cup {NoMark}
  /\ dist_from_mark \in 0..Capacity
  /\ out \in UNION {[1..n -> Byte] : n \in 0..Capacity}

\* The bytes a later read must give, and those a reset gives back.
Unread == Taken(bytes_written)
Kept == IF mark = NoMark
        THEN <<>>
        ELSE [i \in 1..dist_from_mark |-> data[Slot(mark + i - 1)]]

\* The slots that hold them.
InUse ==
  {Slot(read_index + i) : i \in 0..(bytes_written - 1)}
    \cup {Slot(mark + i) : i \in 0..(dist_from_mark - 1)}

\* The chunks offered to asio (ring.inl:221-243) are filled with no bounds
\* check by the socket: they lie inside the buffer and hold no byte that is
\* still to be read, now or after a reset to the mark.
OffersOnlyFreeRoom ==
  \A i \in 1..Room : RoomSlot(i) \in Slots \ InUse

\* No room is hidden: a receive is offered every free byte.  asio answers an
\* empty offer at once with no bytes and no error, and the connection would
\* receive again and again with nothing changed.
OffersAllFreeRoom == Room = available_for_write

\* A read throws index_out_of_bounds (fixed.inl:133-140) in no other buffer
\* than a full one, which is_broken (ring.inl:196-201) takes for one that does
\* not go round.
ThrowsOnlyWhenFull ==
  \A n \in 1..bytes_written : OutOfBounds(n) => bytes_written = Capacity

\* The ring is a stream of bytes: what is read is what was written, in order,
\* through every way of going round the end of the buffer (ring.inl:27-91) and
\* every reset to the mark (ring.inl:121-146).
Stream == INSTANCE ByteStream WITH
  unread <- Unread, kept <- Kept, marked <- (mark # NoMark)

IsByteStream == Stream!Spec
=============================================================================
