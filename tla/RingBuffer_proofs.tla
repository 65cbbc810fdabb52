-------------------------- MODULE RingBuffer_proofs --------------------------
(***************************************************************************)
(* Proofs about RingBuffer, for every capacity, every kind of byte and     *)
(* calls of any length.                                                    *)
(*                                                                         *)
(* The two indexes tell an empty buffer from a full one only together with *)
(* the count, and either may have come to rest at Capacity instead of 0:   *)
(* RingInv says in which ways they can be apart.                           *)
(***************************************************************************)
EXTENDS RingBuffer, SequenceTheorems, TLAPS

\* The write index is bytes_written ahead of the read index, going round once
\* at most or, from Capacity to 0 in a full buffer, twice.
WriteIndexAhead ==
  \/ write_index = read_index + bytes_written
  \/ write_index = read_index + bytes_written - Capacity
  \/ write_index = read_index + bytes_written - Capacity - Capacity

\* The read index is dist_from_mark ahead of the mark.
ReadIndexAhead ==
  IF mark = NoMark
  THEN dist_from_mark = 0
  ELSE \/ read_index = mark + dist_from_mark
       \/ read_index = mark + dist_from_mark - Capacity
       \/ read_index = mark + dist_from_mark - Capacity - Capacity

\* The write index rests at the very end only in a full buffer that is to be
\* read from there.
WriteIndexAtEnd ==
  write_index = Capacity => read_index = Capacity /\ bytes_written = Capacity

\* The part of the state the indexes are computed from.
IndexType ==
  /\ read_index \in 0..Capacity
  /\ write_index \in 0..Capacity
  /\ bytes_written \in Nat
  /\ dist_from_mark \in Nat
  /\ mark \in 0..Capacity \cup {NoMark}
  /\ bytes_written + dist_from_mark <= Capacity

IndexInv == IndexType /\ WriteIndexAhead /\ ReadIndexAhead /\ WriteIndexAtEnd

DataType ==
  /\ data \in [Slots -> Byte]
  /\ out \in UNION {[1..n -> Byte] : n \in 0..Capacity}

RingInv == IndexInv /\ DataType

-----------------------------------------------------------------------------
(* Byte strings.                                                           *)

LEMMA StringIsSeq ==
  ASSUME NEW bs \in Strings
  PROVE  bs \in Seq(Byte) /\ Len(bs) \in Nat /\ \A i \in 1..Len(bs) : bs[i] \in Byte
  <1>1. PICK n \in 0..MaxCall : bs \in [1..n -> Byte]
    BY DEF Strings
  <1>2. n \in Nat
    BY <1>1, MaxCallAssumption
  <1>3. bs \in Seq(Byte)
    BY <1>1, <1>2, SeqDef
  <1> QED
    BY <1>3, LenProperties, ElementOfSeq

LEMMA SlotType ==
  ASSUME NEW i \in 0..(2 * Capacity - 1)
  PROVE  Slot(i) \in Slots
  BY CapacityAssumption DEF Slot, Slots

LEMMA TakenType ==
  ASSUME RingInv, NEW n \in 0..bytes_written
  PROVE  Taken(n) \in [1..n -> Byte]
  <1>1. ASSUME NEW i \in 1..n
        PROVE  data[Slot(read_index + i - 1)] \in Byte
    <2>1. read_index + i - 1 \in 0..(2 * Capacity - 1)
      BY CapacityAssumption DEF RingInv, IndexInv, IndexType
    <2> QED
      BY <2>1, SlotType DEF RingInv, DataType
  <1> QED
    BY <1>1 DEF Taken

LEMMA StoredType ==
  ASSUME RingInv, NEW bs \in Strings, NEW n \in 0..Len(bs), n <= available_for_write
  PROVE  Stored(bs, n) \in [Slots -> Byte]
  <1>1. ASSUME NEW s \in Slots, Ahead(s) < n
        PROVE  bs[Ahead(s) + 1] \in Byte
    <2>1. Ahead(s) + 1 \in 1..n
      BY <1>1, CapacityAssumption
      DEF Ahead, Slots, RingInv, IndexInv, IndexType
    <2> QED
      BY <2>1, StringIsSeq
  <1> QED
    BY <1>1 DEF Stored, RingInv, DataType

-----------------------------------------------------------------------------
(* The room offered to a receive.                                          *)

\* The two chunks together are all the free room, in a state of RingInv.
LEMMA RoomIsAllThereIs ==
  ASSUME IndexInv
  PROVE  Room = available_for_write
  BY CapacityAssumption, SMTT(60)
  DEF Room, FirstRoom, SecondRoom, AtMost, is_broken, available_for_write,
      IndexInv, IndexType, WriteIndexAhead, ReadIndexAhead, WriteIndexAtEnd

\* The chunks are the slots that follow the write index, going round.
LEMMA RoomGoesRound ==
  ASSUME IndexInv, NEW i \in 1..Room
  PROVE  /\ RoomSlot(i) \in Slots
         /\ Ahead(RoomSlot(i)) = i - 1
  BY CapacityAssumption, SMTT(60)
  DEF Room, FirstRoom, SecondRoom, AtMost, is_broken, available_for_write,
      RoomSlot, Slots, Ahead,
      IndexInv, IndexType, WriteIndexAhead, ReadIndexAhead, WriteIndexAtEnd

\* No slot in use is among them.
LEMMA RoomIsFree ==
  ASSUME IndexInv, NEW i \in 1..Room
  PROVE  RoomSlot(i) \notin InUse
  <1>1. ASSUME NEW j \in 0..(bytes_written - 1)
        PROVE  RoomSlot(i) # Slot(read_index + j)
    BY <1>1, CapacityAssumption, SMTT(60)
    DEF Room, FirstRoom, SecondRoom, AtMost, is_broken, available_for_write,
        RoomSlot, Slot,
        IndexInv, IndexType, WriteIndexAhead, ReadIndexAhead, WriteIndexAtEnd
  <1>2. ASSUME NEW j \in 0..(dist_from_mark - 1)
        PROVE  RoomSlot(i) # Slot(mark + j)
    BY <1>2, CapacityAssumption, SMTT(60)
    DEF Room, FirstRoom, SecondRoom, AtMost, is_broken, available_for_write,
        RoomSlot, Slot, NoMark,
        IndexInv, IndexType, WriteIndexAhead, ReadIndexAhead, WriteIndexAtEnd
  <1> QED
    BY <1>1, <1>2 DEF InUse

-----------------------------------------------------------------------------
(* The invariant.                                                          *)

\* Filling the offered chunks is storing from the write index on.
LEMMA ReceiveStores ==
  ASSUME IndexInv, NEW bs \in Strings, Receive(bs)
  PROVE  data' = Stored(bs, Len(bs))
  <1>1. Len(bs) \in Nat /\ Len(bs) <= Room
    BY StringIsSeq DEF Receive
  <1>2. \A i \in 1..Len(bs) : i \in 1..Room
    <2>1. Room \in Int
      BY RoomIsAllThereIs, CapacityAssumption
      DEF available_for_write, IndexInv, IndexType
    <2> QED
      BY <1>1, <2>1
  <1>3. ASSUME NEW s \in Slots
        PROVE  data'[s] = Stored(bs, Len(bs))[s]
    <2>1. CASE \E i \in 1..Len(bs) : s = RoomSlot(i)
      <3> DEFINE j == CHOOSE i \in 1..Len(bs) : s = RoomSlot(i)
      <3>1. j \in 1..Len(bs) /\ s = RoomSlot(j)
        BY <2>1
      <3>2. Ahead(s) = j - 1
        BY <3>1, <1>2, RoomGoesRound
      <3>3. data'[s] = bs[j]
        BY <2>1 DEF Receive
      <3> HIDE DEF j
      <3>4. Ahead(s) < Len(bs) /\ Ahead(s) + 1 = j
        BY <3>1, <3>2, <1>1
      <3> QED
        BY <3>3, <3>4 DEF Stored
    <2>2. CASE ~(\E i \in 1..Len(bs) : s = RoomSlot(i))
      <3>1. ~(Ahead(s) < Len(bs))
        <4>1. SUFFICES ASSUME Ahead(s) < Len(bs) PROVE FALSE
          OBVIOUS
        <4>2. Ahead(s) + 1 \in 1..Len(bs)
          BY <4>1, <1>1, CapacityAssumption
          DEF Ahead, Slots, IndexInv, IndexType
        <4>3. Ahead(RoomSlot(Ahead(s) + 1)) = Ahead(s)
          <5>1. Ahead(s) \in Int
            BY CapacityAssumption DEF Ahead, Slots, IndexInv, IndexType
          <5> DEFINE k == Ahead(s) + 1
          <5>2. k \in 1..Room /\ k - 1 = Ahead(s)
            BY <4>2, <1>2, <5>1
          <5> HIDE DEF k
          <5>3. Ahead(RoomSlot(k)) = k - 1
            BY <5>2, RoomGoesRound
          <5> QED
            BY <5>2, <5>3 DEF k
        <4>4. RoomSlot(Ahead(s) + 1) \in Slots
          BY <4>2, <1>2, RoomGoesRound
        <4>5. RoomSlot(Ahead(s) + 1) = s
          BY <4>3, <4>4, CapacityAssumption
          DEF Ahead, Slots, IndexInv, IndexType
        <4> QED
          BY <4>2, <4>5, <2>2
      <3>2. data'[s] = data[s]
        BY <2>2 DEF Receive
      <3> QED
        BY <3>1, <3>2 DEF Stored
    <2> QED
      BY <2>1, <2>2
  <1> QED
    BY <1>3 DEF Receive, Stored

LEMMA ReadKeepsInv ==
  ASSUME RingInv, NEW count \in 1..MaxCall, Read(count)
  PROVE  RingInv'
  <1> DEFINE n == AtMost(count, bytes_written)
  <1>1. n \in 0..bytes_written /\ (bytes_written > 0 => n > 0)
    BY MaxCallAssumption DEF AtMost, RingInv, IndexInv, IndexType
  <1>2. /\ ~OutOfBounds(n)
        /\ out' = Taken(n)
        /\ read_index' = ReadIndexAfter(n)
        /\ bytes_written' = bytes_written - n
        /\ inc_dist_from_mark(n)
        /\ UNCHANGED <<data, write_index, mark>>
    BY DEF Read
  <1> HIDE DEF n
  <1>3. IndexInv'
    BY <1>1, <1>2, CapacityAssumption, SMTT(60)
    DEF RingInv, IndexInv, IndexType, WriteIndexAhead, ReadIndexAhead,
        WriteIndexAtEnd, OutOfBounds, ReadIndexAfter, is_broken,
        inc_dist_from_mark, NoMark
  <1>4. Taken(n) \in [1..n -> Byte] /\ n \in 0..Capacity
    BY <1>1, TakenType, CapacityAssumption DEF RingInv, IndexInv, IndexType
  <1>5. DataType'
    BY <1>2, <1>4 DEF RingInv, DataType
  <1> QED
    BY <1>3, <1>5 DEF RingInv

LEMMA WriteKeepsInv ==
  ASSUME RingInv, NEW bs \in Strings, Write(bs)
  PROVE  RingInv'
  <1> DEFINE n == AtMost(Len(bs), available_for_write)
  <1>1. /\ n \in 0..Len(bs)
        /\ n <= available_for_write
    BY StringIsSeq, CapacityAssumption
    DEF AtMost, available_for_write, RingInv, IndexInv, IndexType
  <1>2. /\ data' = Stored(bs, n)
        /\ write_index' = WriteIndexAfter(n)
        /\ bytes_written' = bytes_written + n
        /\ UNCHANGED <<read_index, mark, dist_from_mark, out>>
    BY DEF Write
  <1> HIDE DEF n
  <1>3. n \in Nat
    BY <1>1, StringIsSeq
  <1>4. IndexInv'
    BY <1>1, <1>2, <1>3, CapacityAssumption, SMTT(60)
    DEF RingInv, IndexInv, IndexType, WriteIndexAhead, ReadIndexAhead,
        WriteIndexAtEnd, WriteIndexAfter, is_broken, available_for_write, NoMark
  <1>5. DataType'
    BY <1>1, <1>2, StoredType DEF RingInv, DataType
  <1> QED
    BY <1>4, <1>5 DEF RingInv

LEMMA ReceiveKeepsInv ==
  ASSUME RingInv, NEW bs \in Strings, Receive(bs)
  PROVE  RingInv'
  <1>1. IndexInv
    BY DEF RingInv
  <1>2. Len(bs) \in 0..Len(bs) /\ Len(bs) <= available_for_write
    BY <1>1, StringIsSeq, RoomIsAllThereIs DEF Receive
  <1>3. data' = Stored(bs, Len(bs))
    BY <1>1, ReceiveStores
  <1>4. IndexInv'
    <2> DEFINE n == Len(bs)
    <2>1. /\ write_index' = Slot(write_index + n)
          /\ bytes_written' = bytes_written + n
          /\ UNCHANGED <<read_index, mark, dist_from_mark>>
          /\ n \in Nat
          /\ n <= available_for_write
      BY <1>2, StringIsSeq DEF Receive
    <2> HIDE DEF n
    <2>2. IndexType'
      BY <1>1, <2>1, CapacityAssumption
      DEF IndexInv, IndexType, WriteIndexAhead, WriteIndexAtEnd, Slot,
          available_for_write
    <2>3. WriteIndexAhead' /\ WriteIndexAtEnd'
      BY <1>1, <2>1, CapacityAssumption
      DEF IndexInv, IndexType, WriteIndexAhead, WriteIndexAtEnd, Slot,
          available_for_write
    <2>4. ReadIndexAhead'
      BY <1>1, <2>1 DEF IndexInv, ReadIndexAhead
    <2> QED
      BY <2>2, <2>3, <2>4 DEF IndexInv
  <1>5. DataType'
    BY <1>2, <1>3, StoredType DEF RingInv, DataType, Receive
  <1> QED
    BY <1>4, <1>5 DEF RingInv

LEMMA MarksKeepInv ==
  ASSUME RingInv, set_mark \/ unset_mark \/ reset
  PROVE  RingInv'
  <1>1. DataType'
    BY DEF RingInv, DataType, set_mark, unset_mark, reset
  <1>2. ASSUME set_mark PROVE IndexInv'
    BY <1>2, CapacityAssumption
    DEF RingInv, IndexInv, IndexType, WriteIndexAhead, ReadIndexAhead,
        WriteIndexAtEnd, set_mark, NoMark
  <1>3. ASSUME unset_mark PROVE IndexInv'
    BY <1>3, CapacityAssumption
    DEF RingInv, IndexInv, IndexType, WriteIndexAhead, ReadIndexAhead,
        WriteIndexAtEnd, unset_mark, NoMark
  <1>4. ASSUME reset PROVE IndexInv'
    <2>1. IndexType'
      BY <1>4, CapacityAssumption
      DEF RingInv, IndexInv, IndexType, reset, NoMark
    <2>2. ReadIndexAhead'
      BY <1>4, CapacityAssumption
      DEF RingInv, IndexInv, IndexType, ReadIndexAhead, reset, NoMark
    <2>3. WriteIndexAhead' /\ WriteIndexAtEnd'
      BY <1>4, CapacityAssumption
      DEF RingInv, IndexInv, IndexType, WriteIndexAhead, ReadIndexAhead,
          WriteIndexAtEnd, reset, NoMark
    <2> QED
      BY <2>1, <2>2, <2>3 DEF IndexInv
  <1> QED
    BY <1>1, <1>2, <1>3, <1>4 DEF RingInv

LEMMA InitRing == Init => RingInv
  BY CapacityAssumption
  DEF Init, RingInv, IndexInv, IndexType, DataType, WriteIndexAhead,
      ReadIndexAhead, WriteIndexAtEnd, NoMark

\* Every call keeps the indexes where they belong.
LEMMA StepRing == RingInv /\ [Next]_vars => RingInv'
  <1> SUFFICES ASSUME RingInv, [Next]_vars PROVE RingInv'
    OBVIOUS
  <1>1. CASE \E count \in 1..MaxCall : Read(count)
    BY <1>1, ReadKeepsInv
  <1>2. CASE \E bs \in Strings : Write(bs)
    BY <1>2, WriteKeepsInv
  <1>3. CASE set_mark \/ unset_mark \/ reset
    BY <1>3, MarksKeepInv
  <1>4. CASE \E bs \in Strings : Receive(bs)
    BY <1>4, ReceiveKeepsInv
  <1>5. CASE UNCHANGED vars
    BY <1>5
    DEF vars, RingInv, IndexInv, IndexType, DataType, WriteIndexAhead,
        ReadIndexAhead, WriteIndexAtEnd
  <1> QED
    BY <1>1, <1>2, <1>3, <1>4, <1>5 DEF Next

\* The indexes, the count and the distance from the mark stay consistent
\* (ring.inl:27-164).
THEOREM RingInvariant == Spec => []RingInv
  BY InitRing, StepRing, PTL DEF Spec

\* Type correctness.
THEOREM RingTypeCorrect == Spec => []TypeOK
  <1>1. RingInv => TypeOK
    BY CapacityAssumption DEF RingInv, IndexInv, IndexType, DataType, TypeOK
  <1> QED
    BY <1>1, RingInvariant, PTL

\* A socket never overwrites a byte that is still to be read, or kept for a
\* reset, and never writes outside the buffer (ring.inl:221-243).
THEOREM OffersOnlyFreeRoomAlways == Spec => []OffersOnlyFreeRoom
  <1>1. RingInv => OffersOnlyFreeRoom
    BY RoomGoesRound, RoomIsFree DEF RingInv, OffersOnlyFreeRoom
  <1> QED
    BY <1>1, RingInvariant, PTL

\* A receive is offered all the free room (ring.inl:221-243).
THEOREM OffersAllFreeRoomAlways == Spec => []OffersAllFreeRoom
  <1>1. RingInv => OffersAllFreeRoom
    BY RoomIsAllThereIs DEF RingInv, OffersAllFreeRoom
  <1> QED
    BY <1>1, RingInvariant, PTL

\* Only a full buffer refuses a read (ring.inl:53, fixed.inl:133-140).
THEOREM ThrowsOnlyWhenFullAlways == Spec => []ThrowsOnlyWhenFull
  <1>1. RingInv => ThrowsOnlyWhenFull
    BY CapacityAssumption, SMTT(60)
    DEF RingInv, IndexInv, IndexType, WriteIndexAhead, ThrowsOnlyWhenFull,
        OutOfBounds, is_broken
  <1> QED
    BY <1>1, RingInvariant, PTL

-----------------------------------------------------------------------------
(* Windows: the byte strings the slots hold, going round.                  *)

\* n bytes of d from index i on.
Window(d, i, n) == [k \in 1..n |-> d[Slot(i + k - 1)]]

\* Index j is k slots after index i, going round.
Follows(j, i, k) == \/ j = i + k
                    \/ j = i + k - Capacity
                    \/ j = i + k - Capacity - Capacity

LEMMA WindowIsSeq ==
  ASSUME NEW d \in [Slots -> Byte], NEW i \in 0..Capacity, NEW n \in 0..Capacity
  PROVE  /\ Window(d, i, n) \in Seq(Byte)
         /\ Len(Window(d, i, n)) = n
         /\ \A k \in 1..n : Window(d, i, n)[k] = d[Slot(i + k - 1)]
  <1>1. ASSUME NEW k \in 1..n
        PROVE  d[Slot(i + k - 1)] \in Byte
    <2>1. i + k - 1 \in 0..(2 * Capacity - 1)
      BY CapacityAssumption
    <2> QED
      BY <2>1, SlotType
  <1>2. n \in Nat
    BY CapacityAssumption
  <1>3. Window(d, i, n) \in [1..n -> Byte]
    BY <1>1 DEF Window
  <1>4. Window(d, i, n) \in Seq(Byte)
    BY <1>2, <1>3, SeqDef
  <1>5. DOMAIN Window(d, i, n) = 1..n
    BY <1>3
  <1>6. Len(Window(d, i, n)) = n
    BY <1>2, <1>4, <1>5, LenProperties
  <1> QED
    BY <1>4, <1>6 DEF Window

\* The first k bytes of a window, and the others.
LEMMA WindowSplits ==
  ASSUME NEW d \in [Slots -> Byte], NEW i \in 0..Capacity, NEW n \in 0..Capacity,
         NEW k \in 0..n, NEW j \in 0..Capacity, Follows(j, i, k)
  PROVE  /\ SubSeq(Window(d, i, n), 1, k) = Window(d, i, k)
         /\ SubSeq(Window(d, i, n), k + 1, n) = Window(d, j, n - k)
  <1> DEFINE W == Window(d, i, n)
             F == SubSeq(W, 1, k)
             R == SubSeq(W, k + 1, n)
  <1>1. k \in 0..Capacity /\ n - k \in 0..Capacity /\ k \in Int /\ n \in Int
    BY CapacityAssumption
  <1>2. W \in Seq(Byte) /\ Len(W) = n /\ \A m \in 1..n : W[m] = d[Slot(i + m - 1)]
    BY WindowIsSeq
  <1>3. \A m \in 1..n : W[m] \in Byte
    BY <1>2, ElementOfSeq
  <1>4. /\ Window(d, i, k) \in Seq(Byte)
        /\ Len(Window(d, i, k)) = k
        /\ \A m \in 1..k : Window(d, i, k)[m] = d[Slot(i + m - 1)]
    BY <1>1, WindowIsSeq
  <1>5. /\ Window(d, j, n - k) \in Seq(Byte)
        /\ Len(Window(d, j, n - k)) = n - k
        /\ \A m \in 1..(n - k) : Window(d, j, n - k)[m] = d[Slot(j + m - 1)]
    BY <1>1, WindowIsSeq
  <1> HIDE DEF W
  <1>6. /\ F \in Seq(Byte) /\ Len(F) = k
        /\ \A m \in 1..k : F[m] = W[m]
    <2>1. \A m \in 1..k : W[m] \in Byte
      BY <1>1, <1>3
    <2>2. /\ SubSeq(W, 1, k) \in Seq(Byte)
          /\ Len(SubSeq(W, 1, k)) = IF 1 <= k THEN k - 1 + 1 ELSE 0
          /\ \A m \in 1..(k - 1 + 1) : SubSeq(W, 1, k)[m] = W[1 + m - 1]
      BY <1>1, <2>1, SubSeqProperties
    <2> QED
      BY <1>1, <2>2
  <1>7. /\ R \in Seq(Byte) /\ Len(R) = n - k
        /\ \A m \in 1..(n - k) : R[m] = W[k + m]
    <2>1. k + 1 \in Int /\ \A m \in (k + 1)..n : W[m] \in Byte
      BY <1>1, <1>3
    <2>2. /\ SubSeq(W, k + 1, n) \in Seq(Byte)
          /\ Len(SubSeq(W, k + 1, n)) = IF k + 1 <= n THEN n - (k + 1) + 1 ELSE 0
          /\ \A m \in 1..(n - (k + 1) + 1) :
               SubSeq(W, k + 1, n)[m] = W[k + 1 + m - 1]
      BY <1>1, <2>1, SubSeqProperties
    <2> QED
      BY <1>1, <2>2
  <1> HIDE DEF F, R
  <1>8. F = Window(d, i, k)
    <2>1. ASSUME NEW m \in 1..k
          PROVE  F[m] = Window(d, i, k)[m]
      <3>1. m \in 1..n
        BY <1>1
      <3> QED
        BY <3>1, <1>2, <1>4, <1>6
    <2> QED
      BY <1>4, <1>6, <2>1, SeqEqual
  <1>9. R = Window(d, j, n - k)
    <2>1. ASSUME NEW m \in 1..(n - k)
          PROVE  R[m] = Window(d, j, n - k)[m]
      <3>1. W[k + m] = d[Slot(i + (k + m) - 1)]
        BY <1>1, <1>2
      <3>2. Slot(i + (k + m) - 1) = Slot(j + m - 1)
        BY CapacityAssumption DEF Follows, Slot
      <3> QED
        BY <1>5, <1>7, <3>1, <3>2
    <2> QED
      BY <1>5, <1>7, <2>1, SeqEqual
  <1> QED
    BY <1>8, <1>9 DEF F, R, W

\* Two windows that follow each other are one.
LEMMA WindowsJoin ==
  ASSUME NEW d \in [Slots -> Byte], NEW i \in 0..Capacity, NEW j \in 0..Capacity,
         NEW k \in 0..Capacity, NEW n \in 0..Capacity,
         k + n <= Capacity, Follows(j, i, k)
  PROVE  Window(d, i, k) \o Window(d, j, n) = Window(d, i, k + n)
  <1> DEFINE A == Window(d, i, k)
             B == Window(d, j, n)
             C == Window(d, i, k + n)
  <1>1. k + n \in 0..Capacity /\ k \in Nat /\ n \in Nat
    BY CapacityAssumption
  <1>2. /\ A \in Seq(Byte) /\ Len(A) = k
        /\ \A m \in 1..k : A[m] = d[Slot(i + m - 1)]
    BY WindowIsSeq
  <1>3. /\ B \in Seq(Byte) /\ Len(B) = n
        /\ \A m \in 1..n : B[m] = d[Slot(j + m - 1)]
    BY WindowIsSeq
  <1>4. /\ C \in Seq(Byte) /\ Len(C) = k + n
        /\ \A m \in 1..(k + n) : C[m] = d[Slot(i + m - 1)]
    BY <1>1, WindowIsSeq
  <1> HIDE DEF A, B, C
  <1>5. /\ A \o B \in Seq(Byte) /\ Len(A \o B) = k + n
        /\ \A m \in 1..(k + n) :
             (A \o B)[m] = IF m <= k THEN A[m] ELSE B[m - k]
    BY <1>2, <1>3, ConcatProperties
  <1>6. ASSUME NEW m \in 1..(k + n)
        PROVE  (A \o B)[m] = C[m]
    <2>1. CASE m <= k
      <3>1. m \in 1..k
        BY <1>1, <2>1
      <3>2. (A \o B)[m] = A[m]
        BY <1>5, <2>1
      <3> QED
        BY <1>2, <1>4, <3>1, <3>2
    <2>2. CASE m > k
      <3>1. m - k \in 1..n
        BY <1>1, <2>2
      <3>2. Slot(j + (m - k) - 1) = Slot(i + m - 1)
        BY <1>1, <2>2, CapacityAssumption DEF Follows, Slot
      <3>3. (A \o B)[m] = B[m - k]
        BY <1>1, <1>5, <2>2
      <3>4. B[m - k] = d[Slot(j + (m - k) - 1)]
        BY <1>3, <3>1
      <3>5. C[m] = d[Slot(i + m - 1)]
        BY <1>4
      <3> QED
        BY <3>2, <3>3, <3>4, <3>5
    <2>3. m \in Int /\ k \in Int
      BY <1>1
    <2>4. m <= k \/ m > k
      BY <2>3
    <2> QED
      BY <2>1, <2>2, <2>4
  <1>7. A \o B = C
    BY <1>4, <1>5, <1>6, SeqEqual
  <1> QED
    BY <1>7 DEF A, B, C

-----------------------------------------------------------------------------
(* The ring buffer implements a stream of bytes.                           *)

\* In a state of RingInv what is unread and what is kept are two windows,
\* the second one right before the first.
LEMMA Windows ==
  ASSUME RingInv
  PROVE  /\ Unread = Window(data, read_index, bytes_written)
         /\ Kept = IF mark = NoMark THEN <<>> ELSE Window(data, mark, dist_from_mark)
         /\ data \in [Slots -> Byte]
         /\ read_index \in 0..Capacity
         /\ bytes_written \in 0..Capacity
         /\ dist_from_mark \in 0..Capacity
         /\ bytes_written + dist_from_mark <= Capacity
         /\ mark = NoMark => dist_from_mark = 0
         /\ mark # NoMark => mark \in 0..Capacity
                             /\ Follows(read_index, mark, dist_from_mark)
  BY CapacityAssumption
  DEF Unread, Kept, Taken, Window, Follows, RingInv, DataType, IndexInv,
      IndexType, ReadIndexAhead

LEMMA EmptyWindow ==
  ASSUME NEW d \in [Slots -> Byte], NEW i \in 0..Capacity
  PROVE  Window(d, i, 0) = <<>>
  <1>1. 0 \in 0..Capacity
    BY CapacityAssumption
  <1>2. Window(d, i, 0) \in Seq(Byte) /\ Len(Window(d, i, 0)) = 0
    BY <1>1, WindowIsSeq
  <1> QED
    BY <1>2, EmptySeq

LEMMA KeptIsSeq ==
  ASSUME RingInv
  PROVE  /\ Kept \in Seq(Byte)
         /\ Len(Kept) = dist_from_mark
  <1>1. CASE mark = NoMark
    BY <1>1, Windows, EmptySeq
  <1>2. CASE mark # NoMark
    BY <1>2, Windows, WindowIsSeq
  <1> QED
    BY <1>1, <1>2

LEMMA UnreadIsSeq ==
  ASSUME RingInv
  PROVE  Unread \in Seq(Byte) /\ Len(Unread) = bytes_written
  BY Windows, WindowIsSeq

LEMMA InitStream == Init => Stream!Init
  <1> SUFFICES ASSUME Init PROVE Stream!Init
    OBVIOUS
  <1>1. RingInv
    BY InitRing
  <1>2. Unread = <<>>
    BY <1>1, Windows, EmptyWindow DEF Init
  <1> QED
    BY <1>2 DEF Init, Kept, Stream!Init

\* read() delivers: the bytes given and the bytes left are the two parts of
\* what was unread.
LEMMA ReadDelivers ==
  ASSUME RingInv, NEW count \in 1..MaxCall, Read(count)
  PROVE  Stream!Deliver
  <1> DEFINE n == AtMost(count, bytes_written)
  <1>1. n \in 0..bytes_written /\ n \in 0..Capacity /\ bytes_written - n \in 0..Capacity
    BY MaxCallAssumption, CapacityAssumption
    DEF AtMost, RingInv, IndexInv, IndexType
  <1>2. /\ ~OutOfBounds(n)
        /\ out' = Taken(n)
        /\ read_index' = ReadIndexAfter(n)
        /\ bytes_written' = bytes_written - n
        /\ inc_dist_from_mark(n)
        /\ UNCHANGED <<data, write_index, mark>>
    BY DEF Read
  <1> HIDE DEF n
  <1>3. RingInv'
    BY ReadKeepsInv
  <1>4. read_index' \in 0..Capacity
    BY <1>3 DEF RingInv, IndexInv, IndexType
  <1>5. Follows(read_index', read_index, n)
    BY <1>1, <1>2, CapacityAssumption
    DEF ReadIndexAfter, Follows, RingInv, IndexInv, IndexType
  <1>6. Unread' = Window(data, read_index', bytes_written - n)
    BY <1>2 DEF Unread, Taken, Window
  <1>7. /\ SubSeq(Unread, 1, n) = Window(data, read_index, n)
        /\ SubSeq(Unread, n + 1, bytes_written) = Unread'
    <2>1. /\ data \in [Slots -> Byte]
          /\ read_index \in 0..Capacity
          /\ bytes_written \in 0..Capacity
      BY Windows
    <2>2. /\ SubSeq(Window(data, read_index, bytes_written), 1, n)
               = Window(data, read_index, n)
          /\ SubSeq(Window(data, read_index, bytes_written), n + 1, bytes_written)
               = Window(data, read_index', bytes_written - n)
      BY <1>1, <1>4, <1>5, <2>1, WindowSplits
    <2>3. Unread = Window(data, read_index, bytes_written)
      BY Windows
    <2> QED
      BY <1>6, <2>2, <2>3
  <1>8. out' = SubSeq(Unread, 1, n)
    BY <1>2, <1>7 DEF Taken, Window
  <1>9. Kept' = IF mark # NoMark THEN Kept \o SubSeq(Unread, 1, n) ELSE <<>>
    <2>1. CASE mark = NoMark
      BY <1>2, <2>1 DEF Kept
    <2>2. CASE mark # NoMark
      <3>1. dist_from_mark' = dist_from_mark + n
        BY <1>2, <2>2 DEF inc_dist_from_mark
      <3>2. dist_from_mark + n <= Capacity
        BY <1>1, Windows, CapacityAssumption
      <3>3. Window(data, mark, dist_from_mark) \o Window(data, read_index, n)
              = Window(data, mark, dist_from_mark + n)
        <4>1. /\ data \in [Slots -> Byte]
              /\ mark \in 0..Capacity
              /\ read_index \in 0..Capacity
              /\ dist_from_mark \in 0..Capacity
              /\ Follows(read_index, mark, dist_from_mark)
          BY <2>2, Windows
        <4>2. n \in 0..Capacity
          BY <1>1
        <4> QED
          BY <3>2, <4>1, <4>2, WindowsJoin, SMTT(60)
      <3>4. Kept' = Window(data, mark, dist_from_mark + n)
        BY <1>2, <2>2, <3>1 DEF Kept, Window
      <3> QED
        BY <1>7, <2>2, <3>3, <3>4, Windows
    <2> QED
      BY <2>1, <2>2
  <1>10. n \in 0..Len(Unread) /\ Len(Unread) = bytes_written
    BY <1>1, UnreadIsSeq
  <1>11. (mark # NoMark)' = (mark # NoMark)
    BY <1>2
  <1> QED
    BY <1>7, <1>8, <1>9, <1>10, <1>11 DEF Stream!Deliver

\* The bytes from the write index on follow those that are unread.
LEMMA StoredJoins ==
  ASSUME RingInv, NEW d \in [Slots -> Byte], NEW n \in 0..Capacity,
         bytes_written + n <= Capacity
  PROVE  Window(d, read_index, bytes_written) \o Window(d, write_index, n)
           = Window(d, read_index, bytes_written + n)
  <1>1. /\ read_index \in 0..Capacity
        /\ write_index \in 0..Capacity
        /\ bytes_written \in 0..Capacity
    BY Windows DEF RingInv, IndexInv, IndexType
  <1>2. Follows(write_index, read_index, bytes_written)
    BY DEF Follows, RingInv, IndexInv, WriteIndexAhead
  <1> QED
    BY <1>1, <1>2, WindowsJoin

\* Bytes stored from the write index on join what is unread, and touch nothing
\* that is unread or kept.
LEMMA StoringAccepts ==
  ASSUME RingInv, NEW bs \in Strings, NEW n \in 0..Len(bs), n <= available_for_write,
         data' = Stored(bs, n),
         bytes_written' = bytes_written + n,
         UNCHANGED <<read_index, mark, dist_from_mark, out>>
  PROVE  Stream!Accept
  <1> DEFINE new == SubSeq(bs, 1, n)
             W == Window(data', write_index, n)
  <1>1. /\ n \in 0..Capacity /\ n \in Nat
        /\ bytes_written + n \in 0..Capacity
        /\ dist_from_mark + bytes_written + n <= Capacity
    BY StringIsSeq, CapacityAssumption
    DEF available_for_write, RingInv, IndexInv, IndexType
  <1>2. data' \in [Slots -> Byte]
    BY StoredType
  <1>3. /\ data \in [Slots -> Byte]
        /\ read_index \in 0..Capacity
        /\ write_index \in 0..Capacity
        /\ bytes_written \in 0..Capacity
        /\ dist_from_mark \in 0..Capacity
    BY Windows DEF RingInv, IndexInv, IndexType
  <1>4. new \in Seq(Byte) /\ Len(new) = n /\ \A i \in 1..n : new[i] = bs[i]
    <2>1. \A i \in 1..n : bs[i] \in Byte
      BY <1>1, StringIsSeq
    <2>2. /\ SubSeq(bs, 1, n) \in Seq(Byte)
          /\ Len(SubSeq(bs, 1, n)) = IF 1 <= n THEN n - 1 + 1 ELSE 0
          /\ \A i \in 1..(n - 1 + 1) : SubSeq(bs, 1, n)[i] = bs[1 + i - 1]
      BY <1>1, <2>1, SubSeqProperties
    <2> QED
      BY <1>1, <2>2
  <1>5. /\ W \in Seq(Byte) /\ Len(W) = n
        /\ \A i \in 1..n : W[i] = data'[Slot(write_index + i - 1)]
    BY <1>1, <1>2, <1>3, WindowIsSeq
  <1> HIDE DEF new, W
  <1>6. W = new
    <2>1. ASSUME NEW i \in 1..n
          PROVE  W[i] = new[i]
      <3> DEFINE s == Slot(write_index + i - 1)
      <3>1. s \in Slots
        BY <1>1, <1>3, CapacityAssumption, SlotType
      <3>2. Ahead(s) = i - 1
        BY <1>1, <1>3, CapacityAssumption DEF Ahead, Slot
      <3> HIDE DEF s
      <3>3. data'[s] = bs[i]
        BY <1>1, <3>1, <3>2 DEF Stored
      <3>4. W[i] = data'[s]
        BY <1>5 DEF s
      <3> QED
        BY <1>4, <3>3, <3>4
    <2> QED
      BY <1>4, <1>5, <2>1, SeqEqual
  <1>7. Window(data', read_index, bytes_written) = Unread
    <2>1. ASSUME NEW i \in 1..bytes_written
          PROVE  data'[Slot(read_index + i - 1)] = data[Slot(read_index + i - 1)]
      <3> DEFINE s == Slot(read_index + i - 1)
      <3>1. s \in Slots
        BY <1>3, CapacityAssumption, SlotType
      <3>2. ~(Ahead(s) < n)
        BY <1>1, CapacityAssumption
        DEF Ahead, Slot, RingInv, IndexInv, IndexType, WriteIndexAhead
      <3> HIDE DEF s
      <3>3. data'[s] = data[s]
        BY <3>1, <3>2 DEF Stored
      <3> QED
        BY <3>3 DEF s
    <2> QED
      BY <2>1 DEF Unread, Taken, Window
  <1>8. Kept' = Kept
    <2>1. CASE mark = NoMark
      BY <2>1 DEF Kept
    <2>2. CASE mark # NoMark
      <3>1. ASSUME NEW i \in 1..dist_from_mark
            PROVE  data'[Slot(mark + i - 1)] = data[Slot(mark + i - 1)]
        <4> DEFINE s == Slot(mark + i - 1)
        <4>1. mark \in 0..Capacity
          BY <2>2, Windows
        <4>2. s \in Slots
          BY <1>3, <4>1, CapacityAssumption, SlotType
        <4>3. ~(Ahead(s) < n)
          BY <1>1, <2>2, <4>1, CapacityAssumption, SMTT(60)
          DEF Ahead, Slot, RingInv, IndexInv, IndexType, WriteIndexAhead,
              ReadIndexAhead
        <4> HIDE DEF s
        <4>4. data'[s] = data[s]
          BY <4>2, <4>3 DEF Stored
        <4> QED
          BY <4>4 DEF s
      <3> QED
        BY <2>2, <3>1 DEF Kept
    <2> QED
      BY <2>1, <2>2
  <1>9. Unread' = Unread \o new
    <2>1. Window(data', read_index, bytes_written) \o Window(data', write_index, n)
            = Window(data', read_index, bytes_written + n)
      <3>1. bytes_written + n <= Capacity
        BY <1>1, CapacityAssumption
      <3> QED
        BY <1>1, <1>2, <3>1, StoredJoins
    <2>2. Unread' = Window(data', read_index, bytes_written + n)
      BY DEF Unread, Taken, Window
    <2> QED
      BY <1>6, <1>7, <2>1, <2>2 DEF W
  <1>10. /\ new \in Stream!Chunk
         /\ Len(Kept) + Len(Unread) + Len(new) <= Capacity
    <2>1. new \in [1..n -> Byte]
      BY <1>4, LenProperties
    <2>2. Len(Kept) = dist_from_mark /\ Len(Unread) = bytes_written
      BY KeptIsSeq, UnreadIsSeq
    <2> QED
      BY <1>1, <1>3, <1>4, <2>1, <2>2, CapacityAssumption DEF Stream!Chunk
  <1>11. (mark # NoMark)' = (mark # NoMark) /\ out' = out
    OBVIOUS
  <1> QED
    BY <1>8, <1>9, <1>10, <1>11 DEF Stream!Accept

LEMMA WriteAccepts ==
  ASSUME RingInv, NEW bs \in Strings, Write(bs)
  PROVE  Stream!Accept
  <1> DEFINE n == AtMost(Len(bs), available_for_write)
  <1>1. n \in 0..Len(bs) /\ n <= available_for_write
    BY StringIsSeq, CapacityAssumption
    DEF AtMost, available_for_write, RingInv, IndexInv, IndexType
  <1>2. /\ data' = Stored(bs, n)
        /\ bytes_written' = bytes_written + n
        /\ UNCHANGED <<read_index, mark, dist_from_mark, out>>
    BY DEF Write
  <1> HIDE DEF n
  <1> QED
    BY <1>1, <1>2, StoringAccepts

LEMMA ReceiveAccepts ==
  ASSUME RingInv, NEW bs \in Strings, Receive(bs)
  PROVE  Stream!Accept
  <1> DEFINE n == Len(bs)
  <1>1. IndexInv
    BY DEF RingInv
  <1>2. n \in 0..Len(bs) /\ n <= available_for_write
    BY <1>1, StringIsSeq, RoomIsAllThereIs DEF Receive
  <1>3. /\ data' = Stored(bs, n)
        /\ bytes_written' = bytes_written + n
        /\ UNCHANGED <<read_index, mark, dist_from_mark, out>>
    BY <1>1, ReceiveStores DEF Receive
  <1> HIDE DEF n
  <1> QED
    BY <1>2, <1>3, StoringAccepts

LEMMA SetMarkMarks ==
  ASSUME RingInv, set_mark
  PROVE  Stream!Mark
  <1>1. Kept = <<>>
    BY KeptIsSeq, EmptySeq DEF set_mark
  <1>2. mark' # NoMark
    BY CapacityAssumption DEF set_mark, NoMark, RingInv, IndexInv, IndexType
  <1>3. RingInv' /\ dist_from_mark' = 0
    BY MarksKeepInv DEF set_mark
  <1>4. Kept' = <<>>
    <2>1. Kept' = Window(data', mark', 0)
      BY <1>2, <1>3 DEF Kept, Window
    <2>2. data' \in [Slots -> Byte] /\ mark' \in 0..Capacity
      BY <1>2, <1>3 DEF RingInv, DataType, IndexInv, IndexType
    <2> QED
      BY <2>1, <2>2, EmptyWindow
  <1>5. Unread' = Unread /\ out' = out
    BY DEF set_mark, Unread, Taken
  <1> QED
    BY <1>1, <1>2, <1>4, <1>5 DEF Stream!Mark

LEMMA UnsetMarkUnmarks ==
  ASSUME RingInv, unset_mark
  PROVE  Stream!Unmark
  BY DEF unset_mark, Stream!Unmark, Unread, Taken, Kept

\* reset() takes the index back over what is kept, which is read again first.
LEMMA ResetRewinds ==
  ASSUME RingInv, reset
  PROVE  Stream!Rewind
  <1>1. /\ data \in [Slots -> Byte]
        /\ read_index \in 0..Capacity
        /\ bytes_written \in 0..Capacity
        /\ dist_from_mark \in 0..Capacity
        /\ dist_from_mark + bytes_written <= Capacity
        /\ mark \in 0..Capacity
        /\ Follows(read_index, mark, dist_from_mark)
    BY Windows, CapacityAssumption DEF reset
  <1>2. Window(data, mark, dist_from_mark) \o Window(data, read_index, bytes_written)
          = Window(data, mark, dist_from_mark + bytes_written)
    BY <1>1, WindowsJoin
  <1>3. Unread' = Window(data, mark, bytes_written + dist_from_mark)
    BY DEF reset, Unread, Taken, Window
  <1>4. bytes_written + dist_from_mark = dist_from_mark + bytes_written
    BY <1>1, CapacityAssumption
  <1>5. Unread' = Kept \o Unread
    BY <1>2, <1>3, <1>4, Windows DEF reset
  <1>6. Kept' = <<>>
    <2>1. Kept' = Window(data, mark, 0)
      BY DEF reset, Kept, Window
    <2> QED
      BY <1>1, <2>1, EmptyWindow
  <1> QED
    BY <1>5, <1>6 DEF reset, Stream!Rewind

\* The ring buffer is a stream of bytes: every call gives, keeps and takes back
\* what the stream would (ring.inl:27-164).
THEOREM RingIsByteStream == Spec => IsByteStream
  <1>1. Init => Stream!Init
    BY InitStream
  <1>2. RingInv /\ [Next]_vars => [Stream!Next]_(Stream!vars)
    <2> SUFFICES ASSUME RingInv, [Next]_vars
                 PROVE  [Stream!Next]_(Stream!vars)
      OBVIOUS
    <2>1. CASE \E count \in 1..MaxCall : Read(count)
      BY <2>1, ReadDelivers DEF Stream!Next
    <2>2. CASE \E bs \in Strings : Write(bs)
      BY <2>2, WriteAccepts DEF Stream!Next
    <2>3. CASE set_mark
      BY <2>3, SetMarkMarks DEF Stream!Next
    <2>4. CASE unset_mark
      BY <2>4, UnsetMarkUnmarks DEF Stream!Next
    <2>5. CASE reset
      BY <2>5, ResetRewinds DEF Stream!Next
    <2>6. CASE \E bs \in Strings : Receive(bs)
      BY <2>6, ReceiveAccepts DEF Stream!Next
    <2>7. CASE UNCHANGED vars
      BY <2>7 DEF vars, Stream!vars, Unread, Taken, Kept
    <2> QED
      BY <2>1, <2>2, <2>3, <2>4, <2>5, <2>6, <2>7 DEF Next
  <1> QED
    BY <1>1, <1>2, RingInvariant, PTL DEF Spec, IsByteStream, Stream!Spec
=============================================================================
