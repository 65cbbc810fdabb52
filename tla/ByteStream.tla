----------------------------- MODULE ByteStream -----------------------------
(***************************************************************************)
(* What a stream buffer promises to the code that owns it                  *)
(* (liboac/include/liboac/buffer.h, concept StreamBuffer): bytes leave in  *)
(* the order they came in, none lost, none doubled and none invented; the  *)
(* bytes read since the mark can be had back; and never more than Capacity *)
(* bytes are held, those kept for the mark included.                       *)
(***************************************************************************)
EXTENDS Naturals, Sequences

CONSTANTS
  Byte,      \* the values a byte may have
  Capacity   \* how many bytes the buffer holds

VARIABLES
  unread,    \* the bytes that can be read, oldest first
  kept,      \* the bytes read since the mark, oldest first
  marked,    \* whether there is a mark
  out        \* what the last read gave

vars == <<unread, kept, marked, out>>

\* The byte strings that fit the buffer.
Chunk == UNION {[1..n -> Byte] : n \in 0..Capacity}

Init ==
  /\ unread = <<>>
  /\ kept = <<>>
  /\ marked = FALSE
  /\ out = <<>>

\* Some bytes come in: as many as there is room for, at most.
Accept ==
  \E bs \in Chunk :
    /\ Len(kept) + Len(unread) + Len(bs) <= Capacity
    /\ unread' = unread \o bs
    /\ UNCHANGED <<kept, marked, out>>

\* The n oldest bytes go out; a marked stream keeps them.
Deliver ==
  \E n \in 0..Len(unread) :
    /\ out' = SubSeq(unread, 1, n)
    /\ unread' = SubSeq(unread, n + 1, Len(unread))
    /\ kept' = IF marked THEN kept \o SubSeq(unread, 1, n) ELSE <<>>
    /\ UNCHANGED marked

Mark ==
  /\ kept = <<>>
  /\ marked' = TRUE
  /\ UNCHANGED <<unread, kept, out>>

Unmark ==
  /\ marked' = FALSE
  /\ kept' = <<>>
  /\ UNCHANGED <<unread, out>>

\* What was read since the mark is to be read again.
Rewind ==
  /\ marked
  /\ unread' = kept \o unread
  /\ kept' = <<>>
  /\ UNCHANGED <<marked, out>>

Next == Accept \/ Deliver \/ Mark \/ Unmark \/ Rewind

Spec == Init /\ [][Next]_vars
=============================================================================
