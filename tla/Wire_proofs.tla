----------------------------- MODULE Wire_proofs -----------------------------
(***************************************************************************)
(* Proofs about MessageCodec and Wire, for any messages, buffer sizes and  *)
(* bounds: what serialize() writes deserialize() reads, wherever the bytes *)
(* there are end, and so the messages of a stream come out as they went in *)
(* however TCP cuts it.                                                    *)
(***************************************************************************)
EXTENDS Wire, SequenceTheorems, TLAPS

-----------------------------------------------------------------------------
(* Bytes at a place of others: x is what a buffer holds, and t what should *)
(* be in it after the first n bytes, as far as x goes.                     *)

MeetsAt(x, n, t) == \A i \in 1..Len(t) : n + i <= Len(x) => x[n + i] = t[i]

\* What is after the first n.
From(x, n) == SubSeq(x, n + 1, Len(x))

LEMMA MeetsSplit ==
  ASSUME NEW x, NEW n \in Nat, NEW v \in Seq(Byte), NEW w \in Seq(Byte), MeetsAt(x, n, v \o w)
  PROVE  MeetsAt(x, n, v) /\ MeetsAt(x, n + Len(v), w)
  <1>1. /\ Len(v \o w) = Len(v) + Len(w)
        /\ \A i \in 1..Len(v) : (v \o w)[i] = v[i]
        /\ \A i \in 1..Len(w) : (v \o w)[Len(v) + i] = w[i]
    BY ConcatProperties
  <1>2. Len(v) \in Nat /\ Len(w) \in Nat
    BY LenProperties
  <1>3. MeetsAt(x, n, v)
    BY <1>1, <1>2 DEF MeetsAt
  <1>4. ASSUME NEW i \in 1..Len(w), (n + Len(v)) + i <= Len(x)
        PROVE  x[(n + Len(v)) + i] = w[i]
    <2>1. Len(v) + i \in 1..Len(v \o w) /\ n + (Len(v) + i) = (n + Len(v)) + i
      BY <1>1, <1>2
    <2> QED
      BY <2>1, <1>1, <1>4 DEF MeetsAt
  <1> QED
    BY <1>3, <1>4 DEF MeetsAt

LEMMA FromType ==
  ASSUME NEW x \in Seq(Byte), NEW n \in Nat, n <= Len(x)
  PROVE  /\ From(x, n) \in Seq(Byte)
         /\ Len(From(x, n)) = Len(x) - n
         /\ \A i \in 1..(Len(x) - n) : From(x, n)[i] = x[n + i]
  <1>1. Len(x) \in Nat /\ \A i \in 1..Len(x) : x[i] \in Byte
    BY LenProperties, ElementOfSeq
  <1>2. \A i \in (n + 1)..Len(x) : x[i] \in Byte
    BY <1>1
  <1>3. n + 1 \in Int /\ Len(x) \in Int
    BY <1>1
  <1>4. /\ SubSeq(x, n + 1, Len(x)) \in Seq(Byte)
        /\ Len(SubSeq(x, n + 1, Len(x))) =
             IF n + 1 <= Len(x) THEN Len(x) - (n + 1) + 1 ELSE 0
        /\ \A i \in 1..(Len(x) - (n + 1) + 1) : SubSeq(x, n + 1, Len(x))[i] = x[(n + 1) + i - 1]
    BY <1>2, <1>3, SubSeqProperties
  <1> QED
    BY <1>1, <1>4 DEF From

LEMMA FromFrom ==
  ASSUME NEW x \in Seq(Byte), NEW n \in Nat, NEW k \in Nat, n + k <= Len(x)
  PROVE  SubSeq(From(x, n), k + 1, Len(From(x, n))) = From(x, n + k)
  <1>1. /\ From(x, n) \in Seq(Byte) /\ Len(From(x, n)) = Len(x) - n
        /\ \A i \in 1..(Len(x) - n) : From(x, n)[i] = x[n + i]
        /\ Len(x) \in Nat
    <2>1. Len(x) \in Nat
      BY LenProperties
    <2>2. n <= Len(x)
      BY <2>1
    <2> QED
      BY <2>1, <2>2, FromType
  <1>2. /\ From(From(x, n), k) \in Seq(Byte)
        /\ Len(From(From(x, n), k)) = (Len(x) - n) - k
        /\ \A i \in 1..((Len(x) - n) - k) : From(From(x, n), k)[i] = From(x, n)[k + i]
    BY <1>1, FromType, SMTT(30)
  <1>3. /\ From(x, n + k) \in Seq(Byte)
        /\ Len(From(x, n + k)) = Len(x) - (n + k)
        /\ \A i \in 1..(Len(x) - (n + k)) : From(x, n + k)[i] = x[(n + k) + i]
    BY FromType
  <1>4. ASSUME NEW i \in 1..Len(From(x, n + k))
        PROVE  From(From(x, n), k)[i] = From(x, n + k)[i]
    <2>1. i \in 1..(Len(x) - (n + k)) /\ i \in 1..((Len(x) - n) - k)
      BY <1>1, <1>3
    <2>2. k + i \in 1..(Len(x) - n) /\ n + (k + i) = (n + k) + i
      BY <2>1, <1>1
    <2> QED
      BY <2>1, <2>2, <1>1, <1>2, <1>3
  <1>5. Len(From(From(x, n), k)) = Len(From(x, n + k))
    BY <1>1, <1>2, <1>3
  <1>6. From(From(x, n), k) = From(x, n + k)
    <2> DEFINE a == From(From(x, n), k)
               b == From(x, n + k)
    <2>1. a \in Seq(Byte) /\ b \in Seq(Byte) /\ Len(a) = Len(b) /\ \A i \in 1..Len(a) : a[i] = b[i]
      BY <1>2, <1>3, <1>4, <1>5
    <2> HIDE DEF a, b
    <2>2. a = b
      BY <2>1, SeqEqual
    <2> QED
      BY <2>2 DEF a, b
  <1> QED
    BY <1>6 DEF From

-----------------------------------------------------------------------------
(* A reading that has come to a place: the end of the bytes, or the fields *)
(* fs read and what should follow, t, in the bytes left.                   *)

Ready(s, x, n, t, fs) ==
  IF n > Len(x) THEN s.st = "eof"
  ELSE s = [st |-> "ok", rest |-> From(x, n), fields |-> fs] /\ MeetsAt(x, n, t)

LEMMA ReadAllReady ==
  ASSUME NEW x \in Seq(Byte), NEW n \in Nat, NEW w \in Seq(Byte), NEW t \in Seq(Byte), NEW fs, NEW s,
         Ready(s, x, n, w \o t, fs)
  PROVE  Ready(read_all(s, Len(w)), x, n + Len(w), t, Append(fs, w))
  <1>1. Len(x) \in Nat /\ Len(w) \in Nat
    BY LenProperties
  <1>2. CASE n > Len(x)
    BY <1>1, <1>2 DEF Ready, read_all
  <1>3. CASE n <= Len(x)
    <2>1. s = [st |-> "ok", rest |-> From(x, n), fields |-> fs] /\ MeetsAt(x, n, w \o t)
      BY <1>1, <1>3 DEF Ready
    <2>2. MeetsAt(x, n, w) /\ MeetsAt(x, n + Len(w), t)
      BY <2>1, MeetsSplit
    <2>3. /\ From(x, n) \in Seq(Byte)
          /\ Len(From(x, n)) = Len(x) - n
          /\ \A i \in 1..(Len(x) - n) : From(x, n)[i] = x[n + i]
      BY <1>3, FromType
    <2>4. CASE Len(x) - n < Len(w)
      <3>1. read_all(s, Len(w)).st = "eof"
        BY <2>1, <2>3, <2>4 DEF read_all
      <3> QED
        BY <3>1, <2>4, <1>1 DEF Ready
    <2>5. CASE Len(x) - n >= Len(w)
      <3>1. SubSeq(From(x, n), 1, Len(w)) = w
        <4> DEFINE y == From(x, n)
        <4>1. y \in Seq(Byte) /\ Len(y) = Len(x) - n /\ \A i \in 1..Len(w) : y[i] \in Byte /\ y[i] = w[i]
          <5>1. ASSUME NEW i \in 1..Len(w)
                PROVE  y[i] \in Byte /\ y[i] = w[i]
            <6>1. i \in 1..(Len(x) - n) /\ n + i <= Len(x)
              BY <1>1, <2>5
            <6>2. y[i] = w[i]
              BY <6>1, <2>2, <2>3 DEF MeetsAt
            <6> QED
              BY <6>2, ElementOfSeq
          <5> QED
            BY <5>1, <2>3
        <4> HIDE DEF y
        <4>2. /\ SubSeq(y, 1, Len(w)) \in Seq(Byte)
              /\ Len(SubSeq(y, 1, Len(w))) = IF 1 <= Len(w) THEN Len(w) - 1 + 1 ELSE 0
              /\ \A i \in 1..(Len(w) - 1 + 1) : SubSeq(y, 1, Len(w))[i] = y[1 + i - 1]
          <5>1. \A i \in 1..Len(w) : y[i] \in Byte
            BY <4>1
          <5> QED
            BY <5>1, <1>1, SubSeqProperties
        <4>3. /\ Len(SubSeq(y, 1, Len(w))) = Len(w)
              /\ \A i \in 1..Len(w) : SubSeq(y, 1, Len(w))[i] = w[i]
          BY <4>1, <4>2, <1>1
        <4>4. SubSeq(y, 1, Len(w)) = w
          BY <4>2, <4>3, SeqEqual
        <4> QED
          BY <4>4 DEF y
      <3>2. SubSeq(From(x, n), Len(w) + 1, Len(From(x, n))) = From(x, n + Len(w))
        <4>1. n + Len(w) <= Len(x)
          BY <1>1, <2>5
        <4> QED
          BY <4>1, <1>1, FromFrom
      <3>3. read_all(s, Len(w)) =
              [st |-> "ok", rest |-> From(x, n + Len(w)), fields |-> Append(fs, w)]
        <4>1. ~(Len(s.rest) < Len(w)) /\ s.st = "ok"
          BY <2>1, <2>3, <2>5, <1>1
        <4>2. read_all(s, Len(w)) =
                [s EXCEPT !.rest = SubSeq(@, Len(w) + 1, Len(@)),
                          !.fields = Append(@, SubSeq(s.rest, 1, Len(w)))]
          BY <4>1 DEF read_all
        <4> QED
          BY <4>2, <2>1, <3>1, <3>2
      <3> QED
        BY <3>3, <2>2, <2>5, <1>1 DEF Ready
    <2> QED
      BY <2>4, <2>5, <1>1
  <1> QED
    BY <1>1, <1>2, <1>3

-----------------------------------------------------------------------------
(* The last field, and the byte order.                                     *)

LEMMA LastOfAppend ==
  ASSUME NEW S, NEW fs \in Seq(S), NEW w \in S
  PROVE  /\ Append(fs, w) \in Seq(S)
         /\ Last(Append(fs, w)) = w
         /\ Front(Append(fs, w)) = fs
  <1> DEFINE a == Append(fs, w)
  <1>1. /\ a \in Seq(S)
        /\ Len(a) = Len(fs) + 1
        /\ \A i \in 1..Len(fs) : a[i] = fs[i]
        /\ a[Len(fs) + 1] = w
    BY AppendProperties
  <1>2. Len(fs) \in Nat /\ \A i \in 1..Len(fs) : fs[i] \in S
    BY LenProperties, ElementOfSeq
  <1> HIDE DEF a
  <1>3. Last(a) = w
    BY <1>1 DEF Last
  <1>4. Front(a) = fs
    <2>1. Front(a) = SubSeq(a, 1, Len(fs))
      BY <1>1, <1>2 DEF Front
    <2>2. \A i \in 1..Len(fs) : a[i] \in S
      BY <1>1, <1>2
    <2>3. /\ SubSeq(a, 1, Len(fs)) \in Seq(S)
          /\ Len(SubSeq(a, 1, Len(fs))) = IF 1 <= Len(fs) THEN Len(fs) - 1 + 1 ELSE 0
          /\ \A i \in 1..(Len(fs) - 1 + 1) : SubSeq(a, 1, Len(fs))[i] = a[1 + i - 1]
      BY <1>2, <2>2, SubSeqProperties
    <2>4. /\ Len(SubSeq(a, 1, Len(fs))) = Len(fs)
          /\ \A i \in 1..Len(fs) : SubSeq(a, 1, Len(fs))[i] = fs[i]
      BY <1>1, <1>2, <2>3
    <2>5. SubSeq(a, 1, Len(fs)) = fs
      BY <2>3, <2>4, SeqEqual
    <2> QED
      BY <2>1, <2>5
  <1>5. a \in Seq(S) /\ Last(a) = w /\ Front(a) = fs
    BY <1>1, <1>3, <1>4
  <1> QED
    BY <1>5 DEF a

LEMMA ReverseType ==
  ASSUME NEW f \in Seq(Byte)
  PROVE  /\ Reverse(f) \in Seq(Byte)
         /\ Len(Reverse(f)) = Len(f)
         /\ \A i \in 1..Len(f) : Reverse(f)[i] = f[(Len(f) - i) + 1]
  <1>1. Len(f) \in Nat /\ \A i \in 1..Len(f) : f[i] \in Byte
    BY LenProperties, ElementOfSeq
  <1>2. \A i \in 1..Len(f) : (Len(f) - i) + 1 \in 1..Len(f)
    BY <1>1
  <1>3. \A i \in 1..Len(f) : f[(Len(f) - i) + 1] \in Byte
    BY <1>1, <1>2
  <1>4. Reverse(f) = [i \in 1..Len(f) |-> f[(Len(f) - i) + 1]]
    BY DEF Reverse
  <1>5. Reverse(f) \in Seq(Byte)
    BY <1>1, <1>3, <1>4, IsASeq
  <1>6. DOMAIN Reverse(f) = 1..Len(f)
    BY <1>4
  <1>7. Len(Reverse(f)) = Len(f)
    BY <1>1, <1>5, <1>6, LenProperties
  <1> QED
    BY <1>4, <1>5, <1>7

\* A number that is turned twice is as it was.
LEMMA ReverseTwice ==
  ASSUME NEW f \in Seq(Byte)
  PROVE  Reverse(Reverse(f)) = f
  <1> DEFINE g == Reverse(f)
             h == Reverse(g)
  <1>1. /\ g \in Seq(Byte) /\ Len(g) = Len(f)
        /\ \A i \in 1..Len(f) : g[i] = f[(Len(f) - i) + 1]
    BY ReverseType
  <1>2. Len(f) \in Nat
    BY LenProperties
  <1> HIDE DEF g
  <1>3. /\ h \in Seq(Byte) /\ Len(h) = Len(g)
        /\ \A i \in 1..Len(g) : h[i] = g[(Len(g) - i) + 1]
    BY <1>1, ReverseType
  <1> HIDE DEF h
  <1>4. ASSUME NEW i \in 1..Len(f)
        PROVE  h[i] = f[i]
    <2>1. (Len(f) - i) + 1 \in 1..Len(f) /\ (Len(f) - ((Len(f) - i) + 1)) + 1 = i
      BY <1>2
    <2> QED
      BY <2>1, <1>1, <1>3
  <1>5. h = f
    BY <1>1, <1>3, <1>4, SeqEqual
  <1> QED
    BY <1>5 DEF g, h

\* A number is read as it was before it was turned to be written.
LEMMA ReadNumberReady ==
  ASSUME NEW x \in Seq(Byte), NEW n \in Nat, NEW f \in Seq(Byte), NEW t \in Seq(Byte),
         NEW fs \in Seq(Seq(Byte)), NEW s,
         Ready(s, x, n, native_to_big(f) \o t, fs)
  PROVE  Ready(read_number(s, Len(f)), x, n + Len(f), t, Append(fs, f))
  <1> DEFINE g == Reverse(f)
             a == read_all(s, Len(f))
  <1>1. g \in Seq(Byte) /\ Len(g) = Len(f) /\ Reverse(g) = f /\ Len(f) \in Nat
    BY ReverseType, ReverseTwice, LenProperties
  <1>2. Ready(s, x, n, g \o t, fs)
    BY DEF native_to_big
  <1> HIDE DEF g
  <1>3. Ready(a, x, n + Len(f), t, Append(fs, g))
    BY <1>1, <1>2, ReadAllReady
  <1>4. read_number(s, Len(f)) = Put(a, Reverse(Got(a)))
    BY DEF read_number
  <1> HIDE DEF a
  <1>5. CASE n + Len(f) > Len(x)
    <2>1. a.st = "eof"
      BY <1>3, <1>5 DEF Ready
    <2>2. read_number(s, Len(f)) = a
      BY <1>4, <2>1 DEF Put
    <2> QED
      BY <1>5, <2>1, <2>2 DEF Ready
  <1>6. CASE ~(n + Len(f) > Len(x))
    <2>1. /\ a = [st |-> "ok", rest |-> From(x, n + Len(f)), fields |-> Append(fs, g)]
          /\ MeetsAt(x, n + Len(f), t)
      BY <1>3, <1>6 DEF Ready
    <2>2. Last(Append(fs, g)) = g /\ Front(Append(fs, g)) = fs
      BY <1>1, LastOfAppend
    <2>3. Got(a) = g
      BY <2>1, <2>2 DEF Got
    <2>4. Put(a, f) = [st |-> "ok", rest |-> From(x, n + Len(f)), fields |-> Append(fs, f)]
      BY <2>1, <2>2 DEF Put
    <2>5. read_number(s, Len(f)) =
            [st |-> "ok", rest |-> From(x, n + Len(f)), fields |-> Append(fs, f)]
      BY <1>1, <1>4, <2>3, <2>4
    <2> QED
      BY <1>6, <2>1, <2>5 DEF Ready
  <1> QED
    BY <1>5, <1>6

LEMMA ReadNumberAt ==
  ASSUME NEW x \in Seq(Byte), NEW n \in Nat, NEW f \in Seq(Byte), NEW t \in Seq(Byte),
         NEW fs \in Seq(Seq(Byte)), NEW s, Len(f) = 2, NEW k, k = n + 2,
         Ready(s, x, n, native_to_big(f) \o t, fs)
  PROVE  Ready(read_number(s, 2), x, k, t, Append(fs, f))
  <1>1. Ready(read_number(s, Len(f)), x, n + Len(f), t, Append(fs, f))
    BY ReadNumberReady
  <1> QED
    BY <1>1

-----------------------------------------------------------------------------
(* Numbers of 16 bits, and strings.                                        *)

LEMMA Uint16Type ==
  ASSUME NEW k \in Nat
  PROVE  Uint16(k) \in Seq(Byte) /\ Len(Uint16(k)) = 2
  <1> DEFINE a == k % 256
             b == (k \div 256) % 256
  <1>1. k \div 256 \in Nat
    OBVIOUS
  <1>2. a \in Byte /\ b \in Byte
    BY <1>1 DEF Byte
  <1> HIDE DEF a, b
  <1>3. <<a, b>> \in Seq(Byte) /\ Len(<<a, b>>) = 2
    BY <1>2
  <1> QED
    BY <1>3 DEF Uint16, a, b

\* A length below 2^16 survives its two bytes.
LEMMA Uint16Number ==
  ASSUME NEW k \in Nat, k <= 65535
  PROVE  Number(Uint16(k)) = k
  <1>1. k \div 256 \in Nat /\ k \div 256 <= 255
    OBVIOUS
  <1>2. (k \div 256) % 256 = k \div 256
    BY <1>1
  <1>3. (k % 256) + 256 * (k \div 256) = k
    OBVIOUS
  <1>4. Number(Uint16(k)) = (k % 256) + 256 * ((k \div 256) % 256)
    BY DEF Number, Uint16
  <1> QED
    BY <1>2, <1>3, <1>4

LEMMA BytesAssociative ==
  ASSUME NEW u \in Seq(Byte), NEW v \in Seq(Byte), NEW w \in Seq(Byte)
  PROVE  (u \o v) \o w = u \o (v \o w)
  BY ConcatAssociative

LEMMA BytesJoined ==
  ASSUME NEW v \in Seq(Byte), NEW w \in Seq(Byte)
  PROVE  v \o w \in Seq(Byte) /\ Len(v \o w) = Len(v) + Len(w) /\ Len(v \o w) \in Nat
  BY ConcatProperties, LenProperties

LEMMA StringWritten ==
  ASSUME NEW f \in Seq(Byte)
  PROVE  write_string_value(f) \in Seq(Byte) /\ Len(write_string_value(f)) = 2 + Len(f)
  <1> DEFINE v == native_to_big(Uint16(Len(f)))
  <1>1. Len(f) \in Nat
    BY LenProperties
  <1>2. Uint16(Len(f)) \in Seq(Byte) /\ Len(Uint16(Len(f))) = 2
    BY <1>1, Uint16Type
  <1>3. v \in Seq(Byte) /\ Len(v) = 2
    BY <1>2, ReverseType DEF native_to_big
  <1> HIDE DEF v
  <1>4. v \o f \in Seq(Byte) /\ Len(v \o f) = 2 + Len(f)
    BY <1>3, BytesJoined
  <1> QED
    BY <1>4 DEF v, write_string_value

LEMMA StringReady ==
  ASSUME NEW x \in Seq(Byte), NEW n \in Nat, NEW f \in Seq(Byte), NEW t \in Seq(Byte),
         NEW fs \in Seq(Seq(Byte)), NEW s, Len(f) <= 65535,
         Ready(s, x, n, write_string_value(f) \o t, fs)
  PROVE  Ready(read_string_value(s), x, n + Len(write_string_value(f)), t, Append(fs, f))
  <1> DEFINE u == Uint16(Len(f))
             v == native_to_big(u)
             length == read_number(s, 2)
  <1>1. Len(f) \in Nat
    BY LenProperties
  <1>2. u \in Seq(Byte) /\ Len(u) = 2 /\ Number(u) = Len(f)
    BY <1>1, Uint16Type, Uint16Number
  <1>3. v \in Seq(Byte) /\ Len(v) = 2
    BY <1>2, ReverseType DEF native_to_big
  <1>4. write_string_value(f) = v \o f
    BY DEF write_string_value
  <1> HIDE DEF u
  <1> HIDE DEF v
  <1>5. Len(v \o f) = 2 + Len(f)
    BY <1>4, StringWritten
  <1>6. (v \o f) \o t = v \o (f \o t)
    BY <1>3, BytesAssociative, SMTT(30)
  <1>7. f \o t \in Seq(Byte)
    BY ConcatProperties
  <1>8. Ready(length, x, n + 2, f \o t, Append(fs, u))
    <2>1. Ready(s, x, n, v \o (f \o t), fs)
      BY <1>4, <1>6
    <2> DEFINE w == f \o t
    <2>2. w \in Seq(Byte) /\ Ready(s, x, n, native_to_big(u) \o w, fs)
      BY <1>7, <2>1 DEF v
    <2> HIDE DEF w
    <2>3. u \in Seq(Byte)
      BY <1>2
    <2>4. Ready(read_number(s, Len(u)), x, n + Len(u), w, Append(fs, u))
      BY <2>2, <2>3, ReadNumberReady
    <2> QED
      BY <1>2, <2>4 DEF w
  <1>9. read_string_value(s) =
          IF length.st = "ok" THEN read_all(Take(length), Number(Got(length))) ELSE length
    BY DEF read_string_value
  <1> HIDE DEF length
  <1>10. CASE n + 2 > Len(x)
    <2>1. length.st = "eof"
      BY <1>8, <1>10 DEF Ready
    <2>2. read_string_value(s) = length
      BY <1>9, <2>1
    <2>3. n + (2 + Len(f)) > Len(x)
      <3>1. Len(x) \in Nat
        BY LenProperties
      <3> QED
        BY <3>1, <1>1, <1>10
    <2> QED
      BY <1>1, <1>4, <1>5, <2>1, <2>2, <2>3 DEF Ready
  <1>11. CASE ~(n + 2 > Len(x))
    <2>1. /\ length = [st |-> "ok", rest |-> From(x, n + 2), fields |-> Append(fs, u)]
          /\ MeetsAt(x, n + 2, f \o t)
      BY <1>8, <1>11 DEF Ready
    <2>2. Last(Append(fs, u)) = u /\ Front(Append(fs, u)) = fs
      BY <1>2, LastOfAppend
    <2>3. Number(Got(length)) = Len(f)
      BY <1>2, <2>1, <2>2 DEF Got
    <2>4. Take(length) = [st |-> "ok", rest |-> From(x, n + 2), fields |-> fs]
      <3> DEFINE fields == Append(fs, u)
                 rest == From(x, n + 2)
      <3>1. length = [st |-> "ok", rest |-> rest, fields |-> fields] /\ Front(fields) = fs
        BY <2>1, <2>2
      <3> HIDE DEF fields, rest
      <3>2. Take(length) = [st |-> "ok", rest |-> rest, fields |-> fs]
        BY <3>1 DEF Take
      <3> QED
        BY <3>2 DEF rest
    <2>5. Ready(Take(length), x, n + 2, f \o t, fs)
      BY <1>11, <2>1, <2>4 DEF Ready
    <2>6. n + 2 \in Nat /\ (n + 2) + Len(f) = n + (2 + Len(f))
      BY <1>1
    <2>7. Ready(read_all(Take(length), Len(f)), x, (n + 2) + Len(f), t, Append(fs, f))
      BY <2>5, <2>6, ReadAllReady
    <2>8. read_string_value(s) = read_all(Take(length), Len(f))
      BY <1>9, <2>1, <2>3
    <2> QED
      BY <1>1, <1>4, <1>5, <2>6, <2>7, <2>8
  <1> QED
    BY <1>10, <1>11
-----------------------------------------------------------------------------
(* The value of an update, read by the type before it.                     *)

LEMMA Halves ==
  ASSUME NEW f \in Seq(Byte), Len(f) = 8
  PROVE  /\ SubSeq(f, 1, 4) \in Seq(Byte) /\ Len(SubSeq(f, 1, 4)) = 4
         /\ SubSeq(f, 5, 8) \in Seq(Byte) /\ Len(SubSeq(f, 5, 8)) = 4
         /\ SubSeq(f, 1, 4) \o SubSeq(f, 5, 8) = f
  <1>1. \A i \in 1..8 : f[i] \in Byte
    BY ElementOfSeq
  <1>2. SubSeq(f, 1, 4) \in Seq(Byte) /\ Len(SubSeq(f, 1, 4)) = 4
    <2>1. \A i \in 1..4 : f[i] \in Byte
      BY <1>1
    <2> QED
      BY <2>1, SubSeqProperties
  <1>3. SubSeq(f, 5, 8) \in Seq(Byte) /\ Len(SubSeq(f, 5, 8)) = 4
    <2>1. \A i \in 5..8 : f[i] \in Byte
      BY <1>1
    <2> QED
      BY <2>1, SubSeqProperties
  <1>4. SubSeq(f, 1, 4) \o SubSeq(f, 4 + 1, 8) = SubSeq(f, 1, 8)
    <2>1. 1 \in 1..(Len(f) + 1) /\ 4 \in (1 - 1)..Len(f) /\ 8 \in 4..Len(f)
      OBVIOUS
    <2> QED
      BY <2>1, ConcatAdjacentSubSeq
  <1>5. SubSeq(f, 1, 8) = f
    BY SubSeqFull
  <1>6. 4 + 1 = 5
    OBVIOUS
  <1> QED
    BY <1>2, <1>3, <1>4, <1>5, <1>6

LEMMA ValueWritten ==
  ASSUME NEW f \in Seq(Byte)
  PROVE  write_value(f) \in Seq(Byte) /\ Len(write_value(f)) = Len(f)
  <1>1. CASE Len(f) = 8
    <2> DEFINE a == SubSeq(f, 1, 4)
               b == SubSeq(f, 5, 8)
    <2>1. a \in Seq(Byte) /\ Len(a) = 4 /\ b \in Seq(Byte) /\ Len(b) = 4
      BY <1>1, Halves
    <2>2. write_value(f) = native_to_big(a) \o native_to_big(b)
      BY <1>1 DEF write_value
    <2> HIDE DEF a, b
    <2>3. /\ native_to_big(a) \in Seq(Byte) /\ Len(native_to_big(a)) = 4
          /\ native_to_big(b) \in Seq(Byte) /\ Len(native_to_big(b)) = 4
      BY <2>1, ReverseType DEF native_to_big
    <2> DEFINE v == native_to_big(a)
               w == native_to_big(b)
    <2>4. v \in Seq(Byte) /\ w \in Seq(Byte) /\ Len(v) = 4 /\ Len(w) = 4
      BY <2>3
    <2> HIDE DEF v, w
    <2>5. v \o w \in Seq(Byte) /\ Len(v \o w) = Len(v) + Len(w)
      BY <2>4, BytesJoined
    <2>6. v \o w \in Seq(Byte) /\ Len(v \o w) = 8
      BY <2>4, <2>5
    <2> QED
      BY <1>1, <2>2, <2>6 DEF v, w
  <1>2. CASE Len(f) # 8
    BY <1>2, ReverseType DEF write_value, native_to_big
  <1> QED
    BY <1>1, <1>2

LEMMA NumberValueReady ==
  ASSUME NEW x \in Seq(Byte), NEW n \in Nat, NEW f \in Seq(Byte), NEW t \in Seq(Byte),
         NEW fs \in Seq(Seq(Byte)), NEW s,
         NEW vtype \in {1, 2, 3, 4}, Len(f) = ValueSize[vtype],
         vtype = 1 => f \in {<< 0 >>, << 1 >>},
         Last(fs)[1] + 1 = vtype,
         Ready(s, x, n, write_value(f) \o t, fs)
  PROVE  Ready(read_value(s), x, n + Len(f), t, Append(fs, f))
  <1> DEFINE size == ValueSize[vtype]
             first == read_number(s, size)
             both == read_number(first, 4)
  <1>1. /\ size \in Nat /\ size # 8
        /\ vtype = 1 => size = 1
        /\ vtype \in DOMAIN ValueSize
    BY DEF ValueSize
  <1>2. write_value(f) = native_to_big(f)
    BY <1>1 DEF write_value
  <1>3. Ready(first, x, n + Len(f), t, Append(fs, f))
    <2>1. Ready(read_number(s, Len(f)), x, n + Len(f), t, Append(fs, f))
      BY <1>2, ReadNumberReady
    <2> QED
      BY <2>1
  <1>4. Len(x) \in Nat /\ Len(f) \in Nat
    BY LenProperties
  <1>5. CASE n > Len(x)
    <2>1. s.st = "eof"
      BY <1>5 DEF Ready
    <2>2. read_value(s) = s
      BY <2>1 DEF read_value
    <2> QED
      BY <1>4, <1>5, <2>1, <2>2 DEF Ready
  <1>6. CASE ~(n > Len(x))
    <2>1. s = [st |-> "ok", rest |-> From(x, n), fields |-> fs]
      BY <1>6 DEF Ready
    <2>2. Got(s)[1] + 1 = vtype
      BY <2>1 DEF Got
    <2>3. read_value(s) =
            IF vtype = 1 /\ first.st = "ok" THEN Put(first, IF Got(first)[1] > 0 THEN <<1>> ELSE <<0>>)
            ELSE first
      <3>1. s.st = "ok"
        BY <2>1
      <3> HIDE DEF first
      <3>2. size # 8 /\ vtype \in DOMAIN ValueSize
        BY <1>1
      <3> QED
        BY <2>2, <3>1, <3>2 DEF read_value, first
    <2> HIDE DEF first, size
    <2>4. ASSUME vtype = 1, first.st = "ok"
          PROVE  Put(first, IF Got(first)[1] > 0 THEN <<1>> ELSE <<0>>) = first
      <3>1. first = [st |-> "ok", rest |-> From(x, n + Len(f)), fields |-> Append(fs, f)]
        BY <1>3, <2>4 DEF Ready
      <3>2. Last(Append(fs, f)) = f /\ Front(Append(fs, f)) = fs
        BY LastOfAppend
      <3>3. Got(first) = f
        BY <3>1, <3>2 DEF Got
      <3>4. (IF Got(first)[1] > 0 THEN <<1>> ELSE <<0>>) = f
        <4>1. f = <<0>> \/ f = <<1>>
          BY <2>4
        <4>2. CASE f = <<0>>
          <5>1. ~(f[1] > 0)
            BY <4>2
          <5> QED
            BY <3>3, <4>2, <5>1
        <4>3. CASE f = <<1>>
          <5>1. f[1] > 0
            BY <4>3
          <5> QED
            BY <3>3, <4>3, <5>1
        <4> QED
          BY <4>1, <4>2, <4>3
      <3>5. Put(first, f) = [first EXCEPT !.fields = Append(Front(@), f)]
        BY <2>4 DEF Put
      <3>6. Put(first, f) = [st |-> "ok", rest |-> From(x, n + Len(f)), fields |-> Append(fs, f)]
        BY <3>1, <3>2, <3>5
      <3> QED
        BY <3>1, <3>4, <3>6
    <2>5. read_value(s) = first
      BY <2>3, <2>4
    <2> QED
      BY <1>3, <2>5
  <1> QED
    BY <1>5, <1>6

\* A float is two numbers.
LEMMA FloatReady ==
  ASSUME NEW x \in Seq(Byte), NEW n \in Nat, NEW f \in Seq(Byte), NEW t \in Seq(Byte),
         NEW fs \in Seq(Seq(Byte)), NEW s, Len(f) = 8,
         Last(fs)[1] + 1 = 5,
         Ready(s, x, n, write_value(f) \o t, fs)
  PROVE  Ready(read_value(s), x, n + Len(f), t, Append(fs, f))
  <1> DEFINE a == SubSeq(f, 1, 4)
             b == SubSeq(f, 5, 8)
             first == read_number(s, 4)
             both == read_number(first, 4)
             u == native_to_big(b) \o t
  <1>1. a \in Seq(Byte) /\ Len(a) = 4 /\ b \in Seq(Byte) /\ Len(b) = 4 /\ a \o b = f
    BY Halves
  <1>2. write_value(f) = native_to_big(a) \o native_to_big(b)
    BY DEF write_value
  <1> HIDE DEF a, b
  <1>3. native_to_big(a) \in Seq(Byte) /\ native_to_big(b) \in Seq(Byte)
    BY <1>1, ReverseType DEF native_to_big
  <1>4. u \in Seq(Byte)
    BY <1>3, BytesJoined
  <1>5. (native_to_big(a) \o native_to_big(b)) \o t = native_to_big(a) \o u
    <2> DEFINE v == native_to_big(a)
               w == native_to_big(b)
    <2>1. v \in Seq(Byte) /\ w \in Seq(Byte)
      BY <1>3
    <2> HIDE DEF v, w
    <2>2. (v \o w) \o t = v \o (w \o t)
      BY <2>1, BytesAssociative, SMTT(30)
    <2> QED
      BY <2>2 DEF v, w
  <1>6. Ready(s, x, n, native_to_big(a) \o u, fs)
    BY <1>2, <1>5
  <1> HIDE DEF u
  <1>7. Ready(first, x, n + 4, u, Append(fs, a))
    <2>1. Ready(read_number(s, Len(a)), x, n + Len(a), u, Append(fs, a))
      BY <1>1, <1>4, <1>6, ReadNumberReady
    <2> QED
      BY <1>1, <2>1
  <1> HIDE DEF first
  <1>8. Ready(both, x, (n + 4) + 4, t, Append(Append(fs, a), b))
    <2>1. n + 4 \in Nat /\ Append(fs, a) \in Seq(Seq(Byte))
      BY <1>1, LastOfAppend
    <2>2. Ready(first, x, n + 4, native_to_big(b) \o t, Append(fs, a))
      BY <1>7 DEF u
    <2>3. Ready(read_number(first, Len(b)), x, (n + 4) + Len(b), t, Append(Append(fs, a), b))
      BY <1>1, <2>1, <2>2, ReadNumberReady
    <2> QED
      BY <1>1, <2>3
  <1> HIDE DEF both
  <1>9. Len(x) \in Nat
    BY LenProperties
  <1>10. CASE n > Len(x)
    <2>1. s.st = "eof"
      BY <1>10 DEF Ready
    <2>2. read_value(s) = s
      BY <2>1 DEF read_value
    <2> QED
      BY <1>9, <1>10, <2>1, <2>2 DEF Ready
  <1>11. CASE ~(n > Len(x))
    <2>1. s = [st |-> "ok", rest |-> From(x, n), fields |-> fs]
      BY <1>11 DEF Ready
    <2>2. Got(s)[1] + 1 = 5
      BY <2>1 DEF Got
    <2>3. read_value(s) =
            IF both.st = "ok" THEN Put(Take(both), Got(first) \o Got(both)) ELSE both
      <3>1. 5 \in DOMAIN ValueSize /\ ValueSize[5] = 8 /\ s.st = "ok"
        BY <2>1 DEF ValueSize
      <3> QED
        BY <2>2, <3>1 DEF read_value, both, first
    <2>4. CASE (n + 4) + 4 > Len(x)
      <3>1. both.st = "eof"
        BY <1>8, <2>4 DEF Ready
      <3>2. read_value(s) = both /\ n + Len(f) > Len(x)
        BY <2>3, <2>4, <3>1, <1>9
      <3> QED
        BY <3>1, <3>2 DEF Ready
    <2>5. CASE ~((n + 4) + 4 > Len(x))
      <3>1. /\ both = [st |-> "ok", rest |-> From(x, (n + 4) + 4),
                       fields |-> Append(Append(fs, a), b)]
            /\ MeetsAt(x, (n + 4) + 4, t)
        BY <1>8, <2>5 DEF Ready
      <3>2. first = [st |-> "ok", rest |-> From(x, n + 4), fields |-> Append(fs, a)]
        BY <1>7, <1>9, <2>5 DEF Ready
      <3>3. /\ Append(fs, a) \in Seq(Seq(Byte))
            /\ Last(Append(fs, a)) = a /\ Front(Append(fs, a)) = fs
        BY <1>1, LastOfAppend
      <3>4. /\ Last(Append(Append(fs, a), b)) = b
            /\ Front(Append(Append(fs, a), b)) = Append(fs, a)
        BY <1>1, <3>3, LastOfAppend
      <3>5. Got(first) \o Got(both) = f
        BY <1>1, <3>1, <3>2, <3>3, <3>4 DEF Got
      <3>6. Take(both) = [st |-> "ok", rest |-> From(x, (n + 4) + 4), fields |-> Append(fs, a)]
        <4> DEFINE fa == Append(fs, a)
                   fb == Append(fa, b)
                   rest == From(x, (n + 4) + 4)
        <4>1. both = [st |-> "ok", rest |-> rest, fields |-> fb] /\ Front(fb) = fa
          BY <3>1, <3>4
        <4> HIDE DEF fa, fb, rest
        <4>2. Take(both) = [st |-> "ok", rest |-> rest, fields |-> fa]
          BY <4>1, SMTT(30) DEF Take
        <4> QED
          BY <4>2 DEF fa, rest
      <3>7. Put(Take(both), f) =
              [st |-> "ok", rest |-> From(x, (n + 4) + 4), fields |-> Append(fs, f)]
        <4> DEFINE fa == Append(fs, a)
                   taken == Take(both)
                   rest == From(x, (n + 4) + 4)
        <4>1. taken = [st |-> "ok", rest |-> rest, fields |-> fa] /\ Front(fa) = fs
          BY <3>3, <3>6
        <4> HIDE DEF fa, taken, rest
        <4>2. Put(taken, f) = [st |-> "ok", rest |-> rest, fields |-> Append(fs, f)]
          BY <4>1 DEF Put
        <4> QED
          BY <4>2 DEF taken, rest
      <3>8. read_value(s) = [st |-> "ok", rest |-> From(x, (n + 4) + 4), fields |-> Append(fs, f)]
        BY <2>3, <3>1, <3>5, <3>7
      <3>9. (n + 4) + 4 = n + Len(f)
        OBVIOUS
      <3> QED
        BY <2>5, <3>1, <3>8, <3>9 DEF Ready
    <2> QED
      BY <2>4, <2>5
  <1> QED
    BY <1>10, <1>11
-----------------------------------------------------------------------------
(* Types of message, their codes and their layouts.                        *)

Types == ToSet(MessageTypes)

LEMMA TypesListed ==
  ASSUME NEW type \in Types
  PROVE  \/ type = "BEGIN_SESSION"
         \/ type = "END_SESSION"
         \/ type = "SUBSCRIPTION_REQ"
         \/ type = "SUBSCRIPTION_REP"
         \/ type = "UNSUBSCRIPTION_REQ"
         \/ type = "UNSUBSCRIPTION_REP"
         \/ type = "VAR_UPDATE"
  BY DEF Types, ToSet, MessageTypes

\* Every type has a code of its own.
LEMMA CodeOfType ==
  ASSUME NEW type \in Types
  PROVE  \E i \in 1..7 : MessageTypes[i] = type /\ Code(type) = <<i - 1, 7>>
  <1>1. DOMAIN MessageTypes = 1..7
    BY DEF MessageTypes
  <1>2. \E i \in 1..7 : MessageTypes[i] = type
    BY <1>1 DEF Types, ToSet
  <1> DEFINE c == CHOOSE i \in DOMAIN MessageTypes : MessageTypes[i] = type
  <1>3. c \in 1..7 /\ MessageTypes[c] = type
    BY <1>1, <1>2
  <1>4. Code(type) = <<c - 1, 7>>
    BY DEF Code
  <1> HIDE DEF c
  <1> QED
    BY <1>3, <1>4

LEMMA CodeType ==
  ASSUME NEW type \in Types
  PROVE  Code(type) \in Seq(Byte) /\ Len(Code(type)) = 2
  <1>1. PICK i \in 1..7 : Code(type) = <<i - 1, 7>>
    BY CodeOfType
  <1>2. i - 1 \in Byte /\ 7 \in Byte
    BY DEF Byte
  <1>3. <<i - 1, 7>> \in Seq(Byte) /\ Len(<<i - 1, 7>>) = 2
    BY <1>2
  <1> QED
    BY <1>1, <1>3

LEMMA CodesDiffer ==
  ASSUME NEW t \in Types, NEW u \in Types, Code(t) = Code(u)
  PROVE  t = u
  <1>1. PICK i \in 1..7 : MessageTypes[i] = t /\ Code(t) = <<i - 1, 7>>
    BY CodeOfType
  <1>2. PICK j \in 1..7 : MessageTypes[j] = u /\ Code(u) = <<j - 1, 7>>
    BY CodeOfType
  <1>3. <<i - 1, 7>>[1] = <<j - 1, 7>>[1]
    BY <1>1, <1>2
  <1>4. i = j
    BY <1>3
  <1> QED
    BY <1>1, <1>2, <1>4

\* How a field is read is the counterpart of how it is written.
Matches(written, read) ==
  \/ written = "string" /\ read = "string"
  \/ written = "value" /\ read = "value"
  \/ written = "number" /\ read \in {"uint8", "uint16", "uint32"}

LEMMA LayoutsMatch ==
  ASSUME NEW type \in Types
  PROVE  \E k \in 1..5 :
           /\ DOMAIN WriteLayout[type] = 1..k
           /\ DOMAIN ReadLayout[type] = 1..k
           /\ Len(ReadLayout[type]) = k
           /\ \A i \in 1..k : Matches(WriteLayout[type][i], ReadLayout[type][i])
           /\ ReadLayout[type][1] # "value"
  <1>1. CASE type = "BEGIN_SESSION"
    <2>1. /\ WriteLayout[type] = <<"string", "number">>
          /\ ReadLayout[type] = <<"string", "uint16">>
      BY <1>1 DEF WriteLayout, ReadLayout
    <2> QED
      BY <2>1 DEF Matches
  <1>2. CASE type = "END_SESSION"
    <2>1. WriteLayout[type] = <<"string">> /\ ReadLayout[type] = <<"string">>
      BY <1>2 DEF WriteLayout, ReadLayout
    <2> QED
      BY <2>1 DEF Matches
  <1>3. CASE type = "SUBSCRIPTION_REQ"
    <2>1. /\ WriteLayout[type] = <<"string", "string">>
          /\ ReadLayout[type] = <<"string", "string">>
      BY <1>3 DEF WriteLayout, ReadLayout
    <2> QED
      BY <2>1 DEF Matches
  <1>4. CASE type = "SUBSCRIPTION_REP"
    <2>1. /\ WriteLayout[type] = <<"number", "string", "string", "number", "string">>
          /\ ReadLayout[type] = <<"uint8", "string", "string", "uint32", "string">>
      BY <1>4 DEF WriteLayout, ReadLayout
    <2> QED
      BY <2>1 DEF Matches
  <1>5. CASE type = "UNSUBSCRIPTION_REQ"
    <2>1. WriteLayout[type] = <<"number">> /\ ReadLayout[type] = <<"uint32">>
      BY <1>5 DEF WriteLayout, ReadLayout
    <2> QED
      BY <2>1 DEF Matches
  <1>6. CASE type = "UNSUBSCRIPTION_REP"
    <2>1. /\ WriteLayout[type] = <<"number", "number", "string">>
          /\ ReadLayout[type] = <<"uint8", "uint32", "string">>
      BY <1>6 DEF WriteLayout, ReadLayout
    <2> QED
      BY <2>1 DEF Matches
  <1>7. CASE type = "VAR_UPDATE"
    <2>1. /\ WriteLayout[type] = <<"number", "number", "value">>
          /\ ReadLayout[type] = <<"uint32", "uint8", "value">>
      BY <1>7 DEF WriteLayout, ReadLayout
    <2> QED
      BY <2>1 DEF Matches
  <1> QED
    BY <1>1, <1>2, <1>3, <1>4, <1>5, <1>6, <1>7, TypesListed

-----------------------------------------------------------------------------
(* Messages, field by field.                                               *)

\* The fields up to a place.
First(msg, i) == IF i < Len(msg.fields) THEN SubSeq(msg.fields, 1, i) ELSE msg.fields

LEMMA FirstFields ==
  ASSUME NEW fields \in Seq(Seq(Byte)), NEW i \in 1..Len(fields)
  PROVE  /\ SubSeq(fields, 1, i - 1) \in Seq(Seq(Byte))
         /\ Append(SubSeq(fields, 1, i - 1), fields[i]) = SubSeq(fields, 1, i)
         /\ i > 1 => Last(SubSeq(fields, 1, i - 1)) = fields[i - 1]
  <1> DEFINE a == SubSeq(fields, 1, i - 1)
             b == SubSeq(fields, 1, i)
             c == Append(a, fields[i])
  <1>1. Len(fields) \in Nat /\ \A j \in 1..Len(fields) : fields[j] \in Seq(Byte)
    BY LenProperties, ElementOfSeq
  <1>2. /\ a \in Seq(Seq(Byte)) /\ Len(a) = i - 1
        /\ \A j \in 1..(i - 1) : a[j] = fields[j]
    <2>1. \A j \in 1..(i - 1) : fields[j] \in Seq(Byte)
      BY <1>1
    <2>2. 1 \in Int /\ i - 1 \in Int
      BY <1>1
    <2>3. /\ a \in Seq(Seq(Byte))
          /\ Len(a) = IF 1 <= i - 1 THEN (i - 1) - 1 + 1 ELSE 0
          /\ \A j \in 1..((i - 1) - 1 + 1) : a[j] = fields[1 + j - 1]
      BY <2>1, <2>2, SubSeqProperties
    <2> HIDE DEF a
    <2> QED
      BY <1>1, <2>3, SMTT(30)
  <1>3. /\ b \in Seq(Seq(Byte)) /\ Len(b) = i
        /\ \A j \in 1..i : b[j] = fields[j]
    <2>1. \A j \in 1..i : fields[j] \in Seq(Byte)
      BY <1>1
    <2>2. 1 \in Int /\ i \in Int
      BY <1>1
    <2>3. /\ b \in Seq(Seq(Byte))
          /\ Len(b) = IF 1 <= i THEN i - 1 + 1 ELSE 0
          /\ \A j \in 1..(i - 1 + 1) : b[j] = fields[1 + j - 1]
      BY <2>1, <2>2, SubSeqProperties
    <2> HIDE DEF b
    <2> QED
      BY <1>1, <2>3
  <1> HIDE DEF a, b
  <1>4. /\ c \in Seq(Seq(Byte)) /\ Len(c) = Len(a) + 1
        /\ \A j \in 1..Len(a) : c[j] = a[j]
        /\ c[Len(a) + 1] = fields[i]
    BY <1>1, <1>2, AppendProperties
  <1> HIDE DEF c
  <1>5. ASSUME NEW j \in 1..Len(c)
        PROVE  c[j] = b[j]
    <2>1. Len(c) = i
      BY <1>1, <1>2, <1>4
    <2>2. CASE j = i
      BY <1>1, <1>2, <1>3, <1>4, <2>2
    <2>3. CASE j # i
      <3>1. j \in 1..(i - 1) /\ j \in 1..i
        BY <1>1, <2>1, <2>3
      <3> QED
        BY <1>2, <1>3, <1>4, <3>1
    <2> QED
      BY <2>2, <2>3
  <1>6. c = b
    <2>1. Len(c) = Len(b)
      BY <1>1, <1>2, <1>3, <1>4
    <2> QED
      BY <1>3, <1>4, <1>5, <2>1, SeqEqual
  <1>7. i > 1 => Last(a) = fields[i - 1]
    BY <1>1, <1>2 DEF Last
  <1> QED
    BY <1>2, <1>6, <1>7 DEF a, b, c

\* What is written of a field is bytes.
LEMMA FieldWritten ==
  ASSUME NEW msg, IsMessage(msg), NEW i \in 1..5
  PROVE  Field(msg, i) \in Seq(Byte) /\ Len(Field(msg, i)) \in Nat
  <1>1. PICK k \in 1..5 :
          /\ DOMAIN WriteLayout[msg.type] = 1..k
          /\ Len(ReadLayout[msg.type]) = k
          /\ \A j \in 1..k : Matches(WriteLayout[msg.type][j], ReadLayout[msg.type][j])
    BY LayoutsMatch DEF IsMessage, Types
  <1>2. msg.fields \in Seq(Seq(Byte)) /\ Len(msg.fields) = k
    BY <1>1 DEF IsMessage
  <1>3. CASE i \in 1..k
    <2> DEFINE f == msg.fields[i]
               kind == WriteLayout[msg.type][i]
    <2>1. f \in Seq(Byte)
      BY <1>2, <1>3, ElementOfSeq
    <2>2. Field(msg, i) = WriteField(kind, f)
      BY <1>1, <1>3 DEF Field
    <2>3. kind \in {"string", "number", "value"}
      BY <1>1, <1>3 DEF Matches
    <2> HIDE DEF f, kind
    <2>4. CASE kind = "string"
      <3>1. WriteField(kind, f) = write_string_value(f)
        BY <2>4 DEF WriteField
      <3> QED
        BY <2>1, <2>2, <3>1, StringWritten, LenProperties
    <2>5. CASE kind = "value"
      <3>1. WriteField(kind, f) = write_value(f)
        BY <2>5 DEF WriteField
      <3> QED
        BY <2>1, <2>2, <3>1, ValueWritten, LenProperties
    <2>6. CASE kind = "number"
      <3>1. WriteField(kind, f) = native_to_big(f)
        BY <2>6 DEF WriteField
      <3> QED
        BY <2>1, <2>2, <3>1, ReverseType, LenProperties DEF native_to_big
    <2> QED
      BY <2>3, <2>4, <2>5, <2>6
  <1>4. CASE i \notin 1..k
    <2>1. Field(msg, i) = <<>>
      BY <1>1, <1>4 DEF Field
    <2> QED
      BY <2>1
  <1> QED
    BY <1>3, <1>4
\* A value of a message is read by the type that the field before it names.
LEMMA ValueReady ==
  ASSUME NEW x \in Seq(Byte), NEW n \in Nat, NEW t \in Seq(Byte), NEW s,
         NEW fields \in Seq(Seq(Byte)), NEW i \in 2..Len(fields),
         HasField(fields, i, "value"),
         Ready(s, x, n, write_value(fields[i]) \o t, SubSeq(fields, 1, i - 1))
  PROVE  Ready(read_value(s), x, n + Len(write_value(fields[i])), t, SubSeq(fields, 1, i))
  <1> DEFINE f == fields[i]
             fs == SubSeq(fields, 1, i - 1)
             vtype == fields[i - 1][1] + 1
  <1>1. i \in 1..Len(fields) /\ i > 1 /\ i \in Int
    BY LenProperties
  <1>2. f \in Seq(Byte)
    BY <1>1, ElementOfSeq
  <1>3. /\ fs \in Seq(Seq(Byte))
        /\ Append(fs, f) = SubSeq(fields, 1, i)
        /\ Last(fs) = fields[i - 1]
    BY <1>1, FirstFields
  <1>4. /\ vtype \in DOMAIN ValueSize
        /\ Len(f) = ValueSize[vtype]
        /\ vtype = 1 => f \in {<<0>>, <<1>>}
    BY DEF HasField
  <1>5. Last(fs)[1] + 1 = vtype
    BY <1>3
  <1>6. vtype \in {1, 2, 3, 4, 5}
    <2>1. DOMAIN ValueSize = 1..5
      BY DEF ValueSize
    <2>2. vtype \in 1..5
      BY <1>4, <2>1
    <2> HIDE DEF vtype
    <2> QED
      BY <2>2
  <1>7. Ready(s, x, n, write_value(f) \o t, fs)
    OBVIOUS
  <1>8. Len(write_value(f)) = Len(f)
    BY <1>2, ValueWritten
  <1> HIDE DEF f, fs, vtype
  <1>9. Ready(read_value(s), x, n + Len(f), t, Append(fs, f))
    <2>1. CASE vtype = 5
      <3>1. Len(f) = 8
        BY <1>4, <2>1 DEF ValueSize
      <3>2. Last(fs)[1] + 1 = 5
        BY <1>5, <2>1
      <3> QED
        BY <1>2, <1>3, <1>7, <3>1, <3>2, FloatReady
    <2>2. CASE vtype # 5
      <3>1. vtype \in {1, 2, 3, 4}
        BY <1>6, <2>2
      <3> QED
        BY <1>2, <1>3, <1>4, <1>5, <1>7, <3>1, NumberValueReady
    <2> QED
      BY <2>1, <2>2
  <1> QED
    BY <1>3, <1>8, <1>9 DEF f

LEMMA MessageFields ==
  ASSUME NEW msg, IsMessage(msg)
  PROVE  /\ msg.type \in Types
         /\ msg.fields \in Seq(Seq(Byte))
         /\ Len(msg.fields) = Len(ReadLayout[msg.type])
  BY DEF IsMessage, Types

LEMMA FieldOfMessage ==
  ASSUME NEW msg, IsMessage(msg), NEW i \in DOMAIN ReadLayout[msg.type]
  PROVE  HasField(msg.fields, i, ReadLayout[msg.type][i])
  BY DEF IsMessage

\* Each field is read as it was written, and the place after it is come to.
LEMMA FieldReady ==
  ASSUME NEW msg, IsMessage(msg), NEW i \in 1..5, Len(Field(msg, i)) <= 65535,
         NEW x \in Seq(Byte), NEW n \in Nat, NEW t \in Seq(Byte), NEW s,
         Ready(s, x, n, Field(msg, i) \o t, First(msg, i - 1))
  PROVE  Ready(ReadFieldOf(s, msg.type, i), x, n + Len(Field(msg, i)), t, First(msg, i))
  <1> DEFINE fields == msg.fields
             written == WriteLayout[msg.type][i]
             kind == ReadLayout[msg.type][i]
             f == fields[i]
             fs == SubSeq(fields, 1, i - 1)
  <1>1. PICK k \in 1..5 :
          /\ DOMAIN WriteLayout[msg.type] = 1..k
          /\ DOMAIN ReadLayout[msg.type] = 1..k
          /\ Len(ReadLayout[msg.type]) = k
          /\ \A j \in 1..k : Matches(WriteLayout[msg.type][j], ReadLayout[msg.type][j])
          /\ ReadLayout[msg.type][1] # "value"
    <2>1. msg.type \in Types
      BY MessageFields
    <2> QED
      BY <2>1, LayoutsMatch, SMTT(30)
  <1>2. /\ fields \in Seq(Seq(Byte))
        /\ Len(fields) = k
        /\ i \in 1..k => HasField(fields, i, ReadLayout[msg.type][i])
    <2>1. msg.fields \in Seq(Seq(Byte)) /\ Len(msg.fields) = k
      BY <1>1, MessageFields
    <2>2. DOMAIN ReadLayout[msg.type] = 1..k
      BY <1>1
    <2>3. ASSUME i \in 1..k
          PROVE  HasField(msg.fields, i, ReadLayout[msg.type][i])
      BY <2>2, <2>3, FieldOfMessage
    <2> QED
      BY <2>1, <2>3
  <1> HIDE DEF fields
  <1>3. CASE i \in 1..k
    <2>1. f \in Seq(Byte)
      BY <1>2, <1>3, ElementOfSeq
    <2>2. /\ Field(msg, i) = WriteField(written, f)
          /\ ReadFieldOf(s, msg.type, i) = ReadField(s, kind)
      BY <1>1, <1>3 DEF Field, ReadFieldOf, fields
    <2>3. /\ Matches(written, kind)
          /\ HasField(fields, i, kind)
          /\ i = 1 => kind # "value"
      BY <1>1, <1>2, <1>3, SMTT(30)
    <2>4. First(msg, i - 1) = fs
      BY <1>2, <1>3 DEF First, fields
    <2>5. First(msg, i) = SubSeq(fields, 1, i)
      <3>1. CASE i < k
        BY <1>2, <3>1 DEF First, fields
      <3>2. CASE i = k
        BY <1>2, <3>2, SubSeqFull DEF First, fields
      <3> QED
        BY <1>3, <3>1, <3>2
    <2>6. fs \in Seq(Seq(Byte))
      BY <1>2, <1>3, FirstFields
    <2>7. Append(fs, f) = SubSeq(fields, 1, i)
      BY <1>2, <1>3, FirstFields
    <2> HIDE DEF written, kind, fs
    <2>8. Ready(s, x, n, WriteField(written, f) \o t, fs)
      BY <2>2, <2>4
    <2>9. Len(WriteField(written, f)) <= 65535
      BY <2>2
    <2> SUFFICES Ready(ReadField(s, kind), x, n + Len(WriteField(written, f)), t, Append(fs, f))
      BY <2>2, <2>5, <2>7
    <2>10. CASE kind = "string"
      <3>1. written = "string"
        BY <2>3, <2>10 DEF Matches
      <3>2. /\ WriteField(written, f) = write_string_value(f)
            /\ ReadField(s, kind) = read_string_value(s)
        BY <2>10, <3>1 DEF WriteField, ReadField
      <3> HIDE DEF f
      <3>3. Len(f) <= 65535
        <4>1. Len(write_string_value(f)) = 2 + Len(f) /\ Len(f) \in Nat
          BY <2>1, StringWritten, LenProperties
        <4> QED
          BY <2>9, <3>2, <4>1
      <3>4. Ready(s, x, n, write_string_value(f) \o t, fs)
        BY <2>8, <3>2
      <3>5. Ready(read_string_value(s), x, n + Len(write_string_value(f)), t, Append(fs, f))
        BY <2>1, <2>6, <3>3, <3>4, StringReady
      <3> QED
        BY <3>2, <3>5
    <2>11. CASE kind = "value"
      <3>1. written = "value"
        BY <2>3, <2>11 DEF Matches
      <3>2. /\ WriteField(written, f) = write_value(f)
            /\ ReadField(s, kind) = read_value(s)
        BY <2>11, <3>1 DEF WriteField, ReadField
      <3>3. i \in 2..Len(fields)
        BY <1>2, <1>3, <2>3, <2>11
      <3>4. HasField(fields, i, "value")
        BY <2>3, <2>11
      <3>5. Ready(s, x, n, write_value(fields[i]) \o t, SubSeq(fields, 1, i - 1))
        BY <2>8, <3>2 DEF fs
      <3>6. Ready(read_value(s), x, n + Len(write_value(fields[i])), t, SubSeq(fields, 1, i))
        <4>1. fields \in Seq(Seq(Byte))
          BY <1>2
        <4> QED
          BY <4>1, <3>3, <3>4, <3>5, ValueReady
      <3> QED
        BY <2>7, <3>2, <3>6
    <2>12. CASE kind \in {"uint8", "uint16", "uint32"}
      <3>1. written = "number"
        BY <2>3, <2>12 DEF Matches
      <3>2. WriteField(written, f) = native_to_big(f)
        BY <3>1 DEF WriteField
      <3>3. ReadField(s, kind) = read_number(s, Len(f))
        <4>1. CASE kind = "uint8"
          <5>1. HasField(fields, i, "uint8")
            BY <2>3, <4>1
          <5>2. Len(f) = 1
            BY <5>1 DEF HasField
          <5>3. ReadField(s, kind) = read_number(s, 1)
            BY <4>1 DEF ReadField
          <5> QED
            BY <5>2, <5>3
        <4>2. CASE kind = "uint16"
          <5>1. HasField(fields, i, "uint16")
            BY <2>3, <4>2
          <5>2. Len(f) = 2
            BY <5>1 DEF HasField
          <5>3. ReadField(s, kind) = read_number(s, 2)
            BY <4>2 DEF ReadField
          <5> QED
            BY <5>2, <5>3
        <4>3. CASE kind = "uint32"
          <5>1. HasField(fields, i, "uint32")
            BY <2>3, <4>3
          <5>2. Len(f) = 4
            BY <5>1 DEF HasField
          <5>3. ReadField(s, kind) = read_number(s, 4)
            BY <4>3 DEF ReadField
          <5> QED
            BY <5>2, <5>3
        <4> QED
          BY <2>12, <4>1, <4>2, <4>3
      <3> HIDE DEF f
      <3>4. Len(native_to_big(f)) = Len(f)
        BY <2>1, ReverseType DEF native_to_big
      <3>5. Ready(s, x, n, native_to_big(f) \o t, fs)
        BY <2>8, <3>2
      <3>6. Ready(read_number(s, Len(f)), x, n + Len(f), t, Append(fs, f))
        BY <2>1, <2>6, <3>5, ReadNumberReady
      <3> QED
        BY <3>2, <3>3, <3>4, <3>6
    <2> QED
      BY <2>3, <2>10, <2>11, <2>12 DEF Matches
  <1>4. CASE i \notin 1..k
    <2>1. Field(msg, i) = <<>> /\ ReadFieldOf(s, msg.type, i) = s
      BY <1>1, <1>4 DEF Field, ReadFieldOf
    <2>2. First(msg, i - 1) = fields /\ First(msg, i) = fields
      BY <1>2, <1>4 DEF First, fields
    <2>3. <<>> \o t = t /\ Len(<<>>) = 0
      BY ConcatEmptySeq
    <2>4. Ready(s, x, n, t, fields)
      BY <2>1, <2>2, <2>3
    <2>5. n + Len(Field(msg, i)) = n
      BY <2>1, <2>3
    <2> QED
      BY <2>1, <2>2, <2>4, <2>5
  <1> QED
    BY <1>3, <1>4
LEMMA FieldReadyAt ==
  ASSUME NEW msg, IsMessage(msg), NEW i \in 1..5, Len(Field(msg, i)) <= 65535,
         NEW x \in Seq(Byte), NEW n \in Nat, NEW t \in Seq(Byte), NEW s,
         NEW k, k = n + Len(Field(msg, i)), NEW q, q = ReadFieldOf(s, msg.type, i),
         Ready(s, x, n, Field(msg, i) \o t, First(msg, i - 1))
  PROVE  Ready(q, x, k, t, First(msg, i))
  BY FieldReady, SMTT(30)

-----------------------------------------------------------------------------
(* A message as a whole.                                                   *)

\* What follows the code of a message.
Contents(msg) ==
  Field(msg, 1) \o (Field(msg, 2) \o (Field(msg, 3) \o (Field(msg, 4)
    \o (Field(msg, 5) \o native_to_big(EndMark)))))

\* The bytes of a message are its code, then its fields, then the end mark.
LEMMA Serialized ==
  ASSUME NEW msg, IsMessage(msg)
  PROVE  LET a == native_to_big(Code(msg.type))
             b == Field(msg, 1)
             c == Field(msg, 2)
             d == Field(msg, 3)
             e == Field(msg, 4)
             f == Field(msg, 5)
             g == native_to_big(EndMark)
         IN  /\ a \in Seq(Byte) /\ b \in Seq(Byte) /\ c \in Seq(Byte) /\ d \in Seq(Byte)
             /\ e \in Seq(Byte) /\ f \in Seq(Byte) /\ g \in Seq(Byte)
             /\ f \o g \in Seq(Byte)
             /\ e \o (f \o g) \in Seq(Byte)
             /\ d \o (e \o (f \o g)) \in Seq(Byte)
             /\ c \o (d \o (e \o (f \o g))) \in Seq(Byte)
             /\ Contents(msg) \in Seq(Byte)
             /\ serialize(msg) = a \o Contents(msg)
             /\ serialize(msg) \in Seq(Byte)
             /\ Len(serialize(msg)) = 4 + Len(b) + Len(c) + Len(d) + Len(e) + Len(f)
             /\ Len(b) \in Nat /\ Len(c) \in Nat /\ Len(d) \in Nat /\ Len(e) \in Nat /\ Len(f) \in Nat
             /\ EndMark \in Seq(Byte) /\ Len(EndMark) = 2
             /\ Code(msg.type) \in Seq(Byte) /\ Len(Code(msg.type)) = 2
  <1> DEFINE a == native_to_big(Code(msg.type))
             b == Field(msg, 1)
             c == Field(msg, 2)
             d == Field(msg, 3)
             e == Field(msg, 4)
             f == Field(msg, 5)
             g == native_to_big(EndMark)
  <1>1. Code(msg.type) \in Seq(Byte) /\ Len(Code(msg.type)) = 2
    <2>1. msg.type \in Types
      BY MessageFields
    <2> QED
      BY <2>1, CodeType
  <1>2. EndMark \in Seq(Byte) /\ Len(EndMark) = 2
    BY Uint16Type DEF EndMark
  <1>3. a \in Seq(Byte) /\ Len(a) = 2
    BY <1>1, ReverseType DEF native_to_big
  <1>4. g \in Seq(Byte) /\ Len(g) = 2
    BY <1>2, ReverseType DEF native_to_big
  <1>5. 1 \in 1..5 /\ 2 \in 1..5 /\ 3 \in 1..5 /\ 4 \in 1..5 /\ 5 \in 1..5
    OBVIOUS
  <1>6. b \in Seq(Byte) /\ Len(b) \in Nat
    BY <1>5, FieldWritten
  <1>7. c \in Seq(Byte) /\ Len(c) \in Nat
    BY <1>5, FieldWritten
  <1>8. d \in Seq(Byte) /\ Len(d) \in Nat
    BY <1>5, FieldWritten
  <1>9. e \in Seq(Byte) /\ Len(e) \in Nat
    BY <1>5, FieldWritten
  <1>10. f \in Seq(Byte) /\ Len(f) \in Nat
    BY <1>5, FieldWritten
  <1>11. serialize(msg) = a \o b \o c \o d \o e \o f \o g
    BY DEF serialize
  <1> HIDE DEF a, b, c, d, e, f, g
  <1>12. /\ f \o g \in Seq(Byte)
         /\ e \o (f \o g) \in Seq(Byte)
         /\ d \o (e \o (f \o g)) \in Seq(Byte)
         /\ c \o (d \o (e \o (f \o g))) \in Seq(Byte)
         /\ b \o (c \o (d \o (e \o (f \o g)))) \in Seq(Byte)
         /\ serialize(msg) = a \o (b \o (c \o (d \o (e \o (f \o g)))))
         /\ serialize(msg) \in Seq(Byte)
         /\ Len(serialize(msg)) = Len(a) + Len(b) + Len(c) + Len(d) + Len(e) + Len(f) + Len(g)
    <2> DEFINE l2 == a \o b
               l3 == l2 \o c
               l4 == l3 \o d
               l5 == l4 \o e
               l6 == l5 \o f
               r6 == f \o g
               r5 == e \o r6
               r4 == d \o r5
               r3 == c \o r4
               r2 == b \o r3
    <2>1. l2 \in Seq(Byte) /\ Len(l2) = Len(a) + Len(b)
      BY <1>3, <1>6, BytesJoined
    <2> HIDE DEF l2
    <2>2. l3 \in Seq(Byte) /\ Len(l3) = Len(l2) + Len(c)
      BY <2>1, <1>7, BytesJoined
    <2> HIDE DEF l3
    <2>3. l4 \in Seq(Byte) /\ Len(l4) = Len(l3) + Len(d)
      BY <2>2, <1>8, BytesJoined
    <2> HIDE DEF l4
    <2>4. l5 \in Seq(Byte) /\ Len(l5) = Len(l4) + Len(e)
      BY <2>3, <1>9, BytesJoined
    <2> HIDE DEF l5
    <2>5. l6 \in Seq(Byte) /\ Len(l6) = Len(l5) + Len(f)
      BY <2>4, <1>10, BytesJoined
    <2> HIDE DEF l6
    <2>6. l6 \o g \in Seq(Byte) /\ Len(l6 \o g) = Len(l6) + Len(g)
      BY <2>5, <1>4, BytesJoined
    <2>7. r6 \in Seq(Byte)
      BY <1>10, <1>4, BytesJoined
    <2> HIDE DEF r6
    <2>8. r5 \in Seq(Byte)
      BY <1>9, <2>7, BytesJoined
    <2> HIDE DEF r5
    <2>9. r4 \in Seq(Byte)
      BY <1>8, <2>8, BytesJoined
    <2> HIDE DEF r4
    <2>10. r3 \in Seq(Byte)
      BY <1>7, <2>9, BytesJoined
    <2> HIDE DEF r3
    <2>11. r2 \in Seq(Byte)
      BY <1>6, <2>10, BytesJoined
    <2> HIDE DEF r2
    <2>12. l6 \o g = l5 \o r6
      <3>1. (l5 \o f) \o g = l5 \o (f \o g)
        <4>1. l5 \in Seq(Byte) /\ f \in Seq(Byte) /\ g \in Seq(Byte)
          BY <2>4, <1>10, <1>4
        <4> QED
          BY <4>1, BytesAssociative
      <3> QED
        BY <3>1 DEF l6, r6
    <2>13. l5 \o r6 = l4 \o r5
      <3>1. (l4 \o e) \o r6 = l4 \o (e \o r6)
        BY <2>3, <1>9, <2>7, BytesAssociative
      <3> QED
        BY <3>1 DEF l5, r5
    <2>14. l4 \o r5 = l3 \o r4
      <3>1. (l3 \o d) \o r5 = l3 \o (d \o r5)
        BY <2>2, <1>8, <2>8, BytesAssociative
      <3> QED
        BY <3>1 DEF l4, r4
    <2>15. l3 \o r4 = l2 \o r3
      <3>1. (l2 \o c) \o r4 = l2 \o (c \o r4)
        BY <2>1, <1>7, <2>9, BytesAssociative
      <3> QED
        BY <3>1 DEF l3, r3
    <2>16. l2 \o r3 = a \o r2
      <3>1. (a \o b) \o r3 = a \o (b \o r3)
        BY <1>3, <1>6, <2>10, BytesAssociative
      <3> QED
        BY <3>1 DEF l2, r2
    <2>17. l6 \o g = a \o r2
      BY <2>12, <2>13, <2>14, <2>15, <2>16
    <2>18. Len(l6 \o g) = Len(a) + Len(b) + Len(c) + Len(d) + Len(e) + Len(f) + Len(g)
      BY <2>1, <2>2, <2>3, <2>4, <2>5, <2>6
    <2>19. serialize(msg) = l6 \o g
      BY <1>11 DEF l2, l3, l4, l5, l6
    <2> QED
      BY <2>6, <2>7, <2>8, <2>9, <2>10, <2>11, <2>17, <2>18, <2>19 DEF r2, r3, r4, r5, r6
  <1>13. Len(serialize(msg)) = 4 + Len(b) + Len(c) + Len(d) + Len(e) + Len(f)
    BY <1>3, <1>4, <1>6, <1>7, <1>8, <1>9, <1>10, <1>12
  <1>14. Contents(msg) = b \o (c \o (d \o (e \o (f \o g))))
    BY DEF Contents, b, c, d, e, f, g
  <1> QED
    BY <1>14, <1>1, <1>2, <1>3, <1>4, <1>6, <1>7, <1>8, <1>9, <1>10, <1>12, <1>13
       DEF a, b, c, d, e, f, g
\* The five fields, one after the other.
LEMMA FieldsReady ==
  ASSUME NEW msg, IsMessage(msg), Len(serialize(msg)) <= 65535,
         NEW x \in Seq(Byte), NEW s,
         Ready(s, x, 2, Contents(msg), First(msg, 0))
  PROVE  Ready(ReadFields(s, msg.type), x, Len(serialize(msg)) - 2, native_to_big(EndMark),
               First(msg, 5))
  <1> DEFINE type == msg.type
             b == Field(msg, 1)
             c == Field(msg, 2)
             d == Field(msg, 3)
             e == Field(msg, 4)
             f == Field(msg, 5)
             g == native_to_big(EndMark)
             r6 == f \o g
             r5 == e \o r6
             r4 == d \o r5
             r3 == c \o r4
             s1 == ReadFieldOf(s, type, 1)
             s2 == ReadFieldOf(s1, type, 2)
             s3 == ReadFieldOf(s2, type, 3)
             s4 == ReadFieldOf(s3, type, 4)
             s5 == ReadFieldOf(s4, type, 5)
             n1 == 2 + Len(b)
             n2 == n1 + Len(c)
             n3 == n2 + Len(d)
             n4 == n3 + Len(e)
             n5 == n4 + Len(f)
  <1>1. g \in Seq(Byte) /\ r6 \in Seq(Byte) /\ r5 \in Seq(Byte) /\ r4 \in Seq(Byte) /\ r3 \in Seq(Byte)
    BY Serialized
  <1>2. Len(serialize(msg)) = 4 + Len(b) + Len(c) + Len(d) + Len(e) + Len(f)
    BY Serialized
  <1>3. Len(b) \in Nat /\ Len(c) \in Nat /\ Len(d) \in Nat /\ Len(e) \in Nat /\ Len(f) \in Nat
    BY Serialized
  <1>4. ReadFields(s, type) = s5
    BY DEF ReadFields
  <1>5. Ready(s, x, 2, b \o r3, First(msg, 0))
    BY DEF Contents
  <1> HIDE DEF r3
  <1>6. b = Field(msg, 1) /\ Len(b) <= 65535 /\ 1 \in 1..5 /\ 1 - 1 = 0 /\ 2 \in Nat
    BY <1>2, <1>3
  <1>7. c = Field(msg, 2) /\ Len(c) <= 65535 /\ 2 \in 1..5 /\ 2 - 1 = 1 /\ n1 \in Nat
    BY <1>2, <1>3
  <1>8. d = Field(msg, 3) /\ Len(d) <= 65535 /\ 3 \in 1..5 /\ 3 - 1 = 2 /\ n2 \in Nat
    BY <1>2, <1>3
  <1>9. e = Field(msg, 4) /\ Len(e) <= 65535 /\ 4 \in 1..5 /\ 4 - 1 = 3 /\ n3 \in Nat
    BY <1>2, <1>3
  <1>10. f = Field(msg, 5) /\ Len(f) <= 65535 /\ 5 \in 1..5 /\ 5 - 1 = 4 /\ n4 \in Nat
    BY <1>2, <1>3
  <1>11. n5 = Len(serialize(msg)) - 2
    BY <1>2, <1>3
  <1> HIDE DEF type, b, c, d, e, f, g, r4, r5, r6, s1, s2, s3, s4, s5, n1, n2, n3, n4, n5
  <1>12. Ready(s1, x, n1, r3, First(msg, 1))
    BY <1>1, <1>5, <1>6, FieldReady DEF type, s1, n1
  <1>13. Ready(s2, x, n2, r4, First(msg, 2))
    <2>1. Ready(s1, x, n1, c \o r4, First(msg, 1))
      BY <1>12 DEF r3
    <2>2. s2 = ReadFieldOf(s1, msg.type, 2) /\ n2 = n1 + Len(c) /\ 1 = 2 - 1
      BY DEF type, s2, n2
    <2>3. r4 \in Seq(Byte) /\ 2 \in 1..5 /\ n1 \in Nat
      BY <1>1, <1>7
    <2>4. c = Field(msg, 2) /\ Len(c) <= 65535
      BY <1>7
    <2> QED
      BY <2>1, <2>2, <2>3, <2>4, FieldReadyAt
  <1>14. Ready(s3, x, n3, r5, First(msg, 3))
    <2>1. Ready(s2, x, n2, d \o r5, First(msg, 2))
      BY <1>13 DEF r4
    <2>2. s3 = ReadFieldOf(s2, msg.type, 3) /\ n3 = n2 + Len(d) /\ 2 = 3 - 1
      BY DEF type, s3, n3
    <2>3. r5 \in Seq(Byte) /\ 3 \in 1..5 /\ n2 \in Nat
      BY <1>1, <1>8
    <2>4. d = Field(msg, 3) /\ Len(d) <= 65535
      BY <1>8
    <2> QED
      BY <2>1, <2>2, <2>3, <2>4, FieldReadyAt
  <1>15. Ready(s4, x, n4, r6, First(msg, 4))
    <2>1. Ready(s3, x, n3, e \o r6, First(msg, 3))
      BY <1>14 DEF r5
    <2>2. s4 = ReadFieldOf(s3, msg.type, 4) /\ n4 = n3 + Len(e) /\ 3 = 4 - 1
      BY DEF type, s4, n4
    <2>3. r6 \in Seq(Byte) /\ 4 \in 1..5 /\ n3 \in Nat
      BY <1>1, <1>9
    <2>4. e = Field(msg, 4) /\ Len(e) <= 65535
      BY <1>9
    <2> QED
      BY <2>1, <2>2, <2>3, <2>4, FieldReadyAt
  <1>16. Ready(s5, x, n5, g, First(msg, 5))
    <2>1. Ready(s4, x, n4, f \o g, First(msg, 4))
      BY <1>15 DEF r6
    <2>2. s5 = ReadFieldOf(s4, msg.type, 5) /\ n5 = n4 + Len(f) /\ 4 = 5 - 1
      BY DEF type, s5, n5
    <2>3. g \in Seq(Byte) /\ 5 \in 1..5 /\ n4 \in Nat
      BY <1>1, <1>10
    <2>4. f = Field(msg, 5) /\ Len(f) <= 65535
      BY <1>10
    <2> QED
      BY <2>1, <2>2, <2>3, <2>4, FieldReadyAt
  <1> QED
    BY <1>4, <1>11, <1>16 DEF type, g

\* deserialize() of bytes that begin with those of a message, as far as they
\* go, is the message and the bytes after it, or an end of file.
THEOREM DeserializeSerialized ==
  ASSUME NEW msg, IsMessage(msg), Len(serialize(msg)) <= 65535,
         NEW x \in Seq(Byte), MeetsAt(x, 0, serialize(msg))
  PROVE  /\ serialize(msg) \in Seq(Byte)
         /\ Len(serialize(msg)) > Len(x) => deserialize(x).st = "eof"
         /\ Len(serialize(msg)) <= Len(x) =>
              deserialize(x) = [st |-> "ok", rest |-> From(x, Len(serialize(msg))),
                                fields |-> <<msg>>]
  <1> DEFINE code == Code(msg.type)
             size == Len(serialize(msg))
             r2 == Contents(msg)
             begin == read_number(Reading(x), 2)
             type == CHOOSE t \in ToSet(MessageTypes) : Code(t) = Got(begin)
             body == ReadFields(Take(begin), type)
             end == read_number(body, 2)
  <1>1. /\ code \in Seq(Byte) /\ Len(code) = 2
        /\ EndMark \in Seq(Byte) /\ Len(EndMark) = 2
        /\ r2 \in Seq(Byte)
        /\ serialize(msg) \in Seq(Byte)
        /\ serialize(msg) = native_to_big(code) \o r2
    <2>1. code \in Seq(Byte) /\ Len(code) = 2
      BY Serialized
    <2>2. EndMark \in Seq(Byte) /\ Len(EndMark) = 2
      BY Serialized
    <2>3. r2 \in Seq(Byte)
      BY Serialized
    <2>4. serialize(msg) \in Seq(Byte)
      BY Serialized
    <2>5. serialize(msg) = native_to_big(code) \o r2
      BY Serialized, SMTT(30)
    <2> QED
      BY <2>1, <2>2, <2>3, <2>4, <2>5
  <1>2. size \in Nat /\ size >= 4
    <2>1. /\ size = 4 + Len(Field(msg, 1)) + Len(Field(msg, 2)) + Len(Field(msg, 3))
                      + Len(Field(msg, 4)) + Len(Field(msg, 5))
          /\ Len(Field(msg, 1)) \in Nat /\ Len(Field(msg, 2)) \in Nat /\ Len(Field(msg, 3)) \in Nat
          /\ Len(Field(msg, 4)) \in Nat /\ Len(Field(msg, 5)) \in Nat
      BY Serialized
    <2> QED
      BY <2>1
  <1>3. msg.type \in Types /\ msg.fields \in Seq(Seq(Byte)) /\ msg = Message(msg.type, msg.fields)
    BY DEF IsMessage, Types
  <1>4. Len(x) \in Nat
    BY LenProperties
  <1>5. First(msg, 0) = <<>> /\ First(msg, 5) = msg.fields
    <2>1. PICK k \in 1..5 : Len(ReadLayout[msg.type]) = k
      BY <1>3, LayoutsMatch
    <2>2. Len(msg.fields) = k
      BY <2>1, MessageFields
    <2>3. SubSeq(msg.fields, 1, 0) = <<>>
      BY SubSeqEmpty
    <2> QED
      BY <2>1, <2>2, <2>3 DEF First
  <1>6. deserialize(x) =
          IF begin.st # "ok" THEN begin
          ELSE IF \A t \in ToSet(MessageTypes) : Code(t) # Got(begin) THEN [begin EXCEPT !.st = "bad"]
          ELSE IF end.st # "ok" THEN end
          ELSE IF Got(end) # EndMark THEN [end EXCEPT !.st = "bad"]
          ELSE [end EXCEPT !.fields = <<Message(type, Front(@))>>]
    BY DEF deserialize
  <1> HIDE DEF code, r2, type, body, end
  <1>7. Ready(begin, x, 2, r2, <<code>>)
    <2>1. From(x, 0) = x
      <3>1. SubSeq(x, 1, Len(x)) = x
        BY SubSeqFull
      <3>2. 0 + 1 = 1
        OBVIOUS
      <3> QED
        BY <3>1, <3>2 DEF From
    <2> DEFINE none == <<>>
    <2>2. Ready(Reading(x), x, 0, native_to_big(code) \o r2, none)
      BY <1>1, <1>4, <2>1 DEF Ready, Reading
    <2>3. code \in Seq(Byte) /\ r2 \in Seq(Byte) /\ 0 \in Nat /\ Len(code) = 2
      BY <1>1
    <2>4. none \in Seq(Seq(Byte)) /\ 2 = 0 + 2
      OBVIOUS
    <2>5. Append(none, code) = <<code>>
      OBVIOUS
    <2> HIDE DEF none
    <2>6. Ready(begin, x, 2, r2, Append(none, code))
      BY <2>2, <2>3, <2>4, ReadNumberAt
    <2> QED
      BY <2>5, <2>6
  <1> HIDE DEF begin
  <1>8. CASE 2 > Len(x)
    <2>1. begin.st = "eof"
      BY <1>7, <1>8 DEF Ready
    <2>2. deserialize(x) = begin
      BY <1>6, <2>1
    <2> QED
      BY <1>1, <1>2, <1>4, <1>8, <2>1, <2>2
  <1>9. CASE ~(2 > Len(x))
    <2>1. begin = [st |-> "ok", rest |-> From(x, 2), fields |-> <<code>>] /\ MeetsAt(x, 2, r2)
      BY <1>7, <1>9 DEF Ready
    <2>2. Last(<<code>>) = code /\ Front(<<code>>) = <<>>
      <3> DEFINE none == <<>>
                 one == <<code>>
      <3>1. none \in Seq(Seq(Byte)) /\ Append(none, code) = one /\ code \in Seq(Byte)
        BY <1>1
      <3> HIDE DEF none, one
      <3>2. none \in Seq(Seq(Byte)) /\ code \in Seq(Byte)
        BY <3>1
      <3>3. Last(Append(none, code)) = code /\ Front(Append(none, code)) = none
        BY <3>2, LastOfAppend
      <3> QED
        BY <3>1, <3>3 DEF none, one
    <2>3. begin.st = "ok" /\ Got(begin) = code
      BY <2>1, <2>2 DEF Got
    <2>4. type = msg.type
      BY <1>3, <2>3, CodesDiffer DEF Types, code, type
    <2>5. ~(\A t \in ToSet(MessageTypes) : Code(t) # Got(begin))
      BY <1>3, <2>3 DEF Types, code
    <2>6. Take(begin) = [st |-> "ok", rest |-> From(x, 2), fields |-> <<>>]
      BY <2>1, <2>2 DEF Take
    <2>7. Ready(Take(begin), x, 2, r2, First(msg, 0))
      BY <1>5, <1>9, <2>1, <2>6 DEF Ready
    <2>8. Ready(body, x, size - 2, native_to_big(EndMark), msg.fields)
      <3>1. Ready(ReadFields(Take(begin), msg.type), x, size - 2, native_to_big(EndMark),
                  First(msg, 5))
        BY <2>7, FieldsReady DEF r2
      <3> QED
        BY <1>5, <2>4, <3>1 DEF body
    <2>9. deserialize(x) =
            IF end.st # "ok" THEN end
            ELSE IF Got(end) # EndMark THEN [end EXCEPT !.st = "bad"]
            ELSE [end EXCEPT !.fields = <<Message(msg.type, Front(@))>>]
      BY <1>6, <2>3, <2>4, <2>5
    <2>10. Ready(end, x, size, <<>>, Append(msg.fields, EndMark))
      <3>1. size - 2 \in Nat /\ (size - 2) + 2 = size
        BY <1>2
      <3>2. native_to_big(EndMark) \o <<>> = native_to_big(EndMark)
        <4>1. native_to_big(EndMark) \in Seq(Byte)
          BY <1>1, ReverseType DEF native_to_big
        <4> QED
          BY <4>1, ConcatEmptySeq
      <3>3. Ready(body, x, size - 2, native_to_big(EndMark) \o <<>>, msg.fields)
        BY <2>8, <3>2
      <3>4. EndMark \in Seq(Byte) /\ <<>> \in Seq(Byte) /\ msg.fields \in Seq(Seq(Byte))
        BY <1>1, <1>3
      <3> HIDE DEF size
      <3> DEFINE none == <<>>
                 before == size - 2
                 fields == msg.fields
      <3>5. /\ none \in Seq(Byte) /\ before \in Nat /\ size = before + 2
            /\ fields \in Seq(Seq(Byte)) /\ EndMark \in Seq(Byte) /\ Len(EndMark) = 2
            /\ Ready(body, x, before, native_to_big(EndMark) \o none, fields)
        BY <1>1, <3>1, <3>3, <3>4
      <3> HIDE DEF none, before, fields
      <3>6. Ready(read_number(body, 2), x, size, none, Append(fields, EndMark))
        BY <3>5, ReadNumberAt
      <3> QED
        BY <3>6 DEF end, none, fields
    <2>11. CASE size > Len(x)
      <3>1. end.st = "eof"
        BY <2>10, <2>11 DEF Ready
      <3>2. deserialize(x) = end
        BY <2>9, <3>1
      <3> QED
        BY <1>1, <1>2, <1>4, <2>11, <3>1, <3>2
    <2>12. CASE ~(size > Len(x))
      <3>1. end = [st |-> "ok", rest |-> From(x, size), fields |-> Append(msg.fields, EndMark)]
        BY <2>10, <2>12 DEF Ready
      <3>2. /\ Last(Append(msg.fields, EndMark)) = EndMark
            /\ Front(Append(msg.fields, EndMark)) = msg.fields
        BY <1>1, <1>3, LastOfAppend
      <3>3. end.st = "ok" /\ Got(end) = EndMark
        BY <3>1, <3>2 DEF Got
      <3>4. deserialize(x) = [end EXCEPT !.fields = <<Message(msg.type, Front(@))>>]
        BY <2>9, <3>3
      <3>5. deserialize(x) =
              [st |-> "ok", rest |-> From(x, size), fields |-> <<Message(msg.type, msg.fields)>>]
        <4> DEFINE fs == Append(msg.fields, EndMark)
                   rest == From(x, size)
                   m == Message(msg.type, msg.fields)
        <4>1. end = [st |-> "ok", rest |-> rest, fields |-> fs] /\ Front(fs) = msg.fields
          BY <3>1, <3>2
        <4> HIDE DEF fs, rest
        <4>2. [end EXCEPT !.fields = <<Message(msg.type, Front(@))>>] =
                [st |-> "ok", rest |-> rest, fields |-> <<m>>]
          BY <4>1
        <4> QED
          BY <3>4, <4>2 DEF rest
      <3> QED
        BY <1>1, <1>2, <1>3, <1>4, <2>12, <3>5
    <2> QED
      BY <2>11, <2>12
  <1> QED
    BY <1>8, <1>9
\* A message cannot begin with fewer bytes than those of its code.
LEMMA TooShort ==
  ASSUME NEW x \in Seq(Byte), Len(x) < 2
  PROVE  deserialize(x).st = "eof"
  <1> DEFINE begin == read_number(Reading(x), 2)
  <1>1. begin.st = "eof"
    <2> DEFINE a == read_all(Reading(x), 2)
    <2>1. a.st = "eof"
      BY DEF read_all, Reading
    <2>2. begin = Put(a, Reverse(Got(a)))
      BY DEF read_number
    <2> HIDE DEF a, begin
    <2> QED
      BY <2>1, <2>2 DEF Put
  <1>2. begin.st # "ok" => deserialize(x) = begin
    BY DEF deserialize
  <1> HIDE DEF begin
  <1> QED
    BY <1>1, <1>2

-----------------------------------------------------------------------------
(* The messages on their way: where each ends in the bytes x that are in   *)
(* the input buffer or not received yet.                                   *)

IsCut(cut, x, k, msgs) ==
  /\ cut \in [k..Len(msgs) -> Nat]
  /\ cut[k] = 0
  /\ cut[Len(msgs)] = Len(x)
  /\ \A i, j \in k..Len(msgs) : i <= j => cut[i] <= cut[j]
  /\ \A j \in (k + 1)..Len(msgs) :
       /\ cut[j] = cut[j - 1] + Len(serialize(msgs[j]))
       /\ MeetsAt(x, cut[j - 1], serialize(msgs[j]))

\* Messages that are written and arrive whole, and that lengths fit.
Written(msgs) ==
  \A j \in 1..Len(msgs) : /\ IsMessage(msgs[j])
                          /\ serialize(msgs[j]) \in Seq(Byte)
                          /\ Len(serialize(msgs[j])) <= 65535

\* One more at the end.
LEMMA CutWritten ==
  ASSUME NEW M, NEW msgs \in Seq(M), Written(msgs), NEW k \in 0..Len(msgs), NEW x \in Seq(Byte),
         NEW cut, IsCut(cut, x, k, msgs),
         NEW msg \in M, serialize(msg) \in Seq(Byte)
  PROVE  \E c : IsCut(c, x \o serialize(msg), k, Append(msgs, msg))
  <1> DEFINE b == serialize(msg)
             n == Len(msgs)
             y == x \o b
             more == Append(msgs, msg)
             c == [j \in k..(n + 1) |-> IF j <= n THEN cut[j] ELSE Len(x) + Len(b)]
  <1>1. n \in Nat /\ Len(x) \in Nat /\ Len(b) \in Nat /\ k \in Nat /\ k <= n
    BY LenProperties
  <1>2. /\ Len(y) = Len(x) + Len(b)
        /\ \A i \in 1..Len(x) : y[i] = x[i]
        /\ \A i \in 1..Len(b) : y[Len(x) + i] = b[i]
    <2>1. /\ Len(y) = Len(x) + Len(b)
          /\ \A i \in 1..Len(x) + Len(b) : y[i] = IF i <= Len(x) THEN x[i] ELSE b[i - Len(x)]
      BY ConcatProperties
    <2> HIDE DEF b, y
    <2>2. ASSUME NEW i \in 1..Len(x)
          PROVE  y[i] = x[i]
      <3>1. i \in 1..(Len(x) + Len(b)) /\ i <= Len(x)
        BY <1>1
      <3> QED
        BY <2>1, <3>1
    <2>3. ASSUME NEW i \in 1..Len(b)
          PROVE  y[Len(x) + i] = b[i]
      <3>1. /\ Len(x) + i \in 1..(Len(x) + Len(b))
            /\ ~(Len(x) + i <= Len(x))
            /\ (Len(x) + i) - Len(x) = i
        BY <1>1
      <3> QED
        BY <2>1, <3>1
    <2> QED
      BY <2>1, <2>2, <2>3
  <1>3. /\ Len(more) = n + 1
        /\ \A j \in 1..n : more[j] = msgs[j]
        /\ more[n + 1] = msg
    BY AppendProperties
  <1>4. /\ cut \in [k..n -> Nat]
        /\ cut[k] = 0
        /\ cut[n] = Len(x)
        /\ \A i, j \in k..n : i <= j => cut[i] <= cut[j]
    BY DEF IsCut
  <1>5. \A j \in (k + 1)..n : /\ cut[j] = cut[j - 1] + Len(serialize(msgs[j]))
                              /\ MeetsAt(x, cut[j - 1], serialize(msgs[j]))
    BY DEF IsCut
  <1> HIDE DEF b, y, more, n
  <1>6. /\ \A j \in k..n : c[j] = cut[j] /\ cut[j] \in Nat /\ cut[j] <= Len(x)
        /\ c[n + 1] = Len(x) + Len(b)
    BY <1>1, <1>4
  <1>7. c \in [k..Len(more) -> Nat]
    <2>1. \A j \in k..(n + 1) : (IF j <= n THEN cut[j] ELSE Len(x) + Len(b)) \in Nat
      BY <1>1, <1>4
    <2> QED
      BY <1>3, <2>1
  <1> HIDE DEF c
  <1>8. c[k] = 0 /\ c[Len(more)] = Len(y)
    BY <1>1, <1>2, <1>3, <1>4, <1>6
  <1>9. ASSUME NEW i \in k..Len(more), NEW j \in k..Len(more), i <= j
        PROVE  c[i] <= c[j]
    <2>1. CASE j <= n
      <3>1. i \in k..n /\ j \in k..n
        BY <1>1, <1>3, <1>9, <2>1
      <3> QED
        BY <1>4, <1>6, <1>9, <3>1
    <2>2. CASE ~(j <= n)
      <3>1. j = n + 1 /\ (i \in k..n \/ i = n + 1)
        BY <1>1, <1>3, <2>2
      <3> QED
        BY <1>1, <1>6, <3>1, SMTT(30)
    <2> QED
      BY <2>1, <2>2
  <1>10. ASSUME NEW j \in (k + 1)..Len(more)
         PROVE  /\ c[j] = c[j - 1] + Len(serialize(more[j]))
                /\ MeetsAt(y, c[j - 1], serialize(more[j]))
    <2>1. CASE j <= n
      <3> DEFINE s == serialize(msgs[j])
      <3>1. j \in (k + 1)..n /\ j \in k..n /\ j - 1 \in k..n /\ j \in 1..n
        BY <1>1, <1>3, <2>1
      <3>2. /\ more[j] = msgs[j] /\ c[j] = cut[j] /\ c[j - 1] = cut[j - 1]
            /\ cut[j] <= Len(x) /\ cut[j - 1] \in Nat
        BY <1>3, <1>6, <3>1
      <3>3. cut[j] = cut[j - 1] + Len(s) /\ MeetsAt(x, cut[j - 1], s) /\ Len(s) \in Nat
        BY <1>5, <3>1, LenProperties DEF Written, n
      <3> HIDE DEF s
      <3>4. ASSUME NEW i \in 1..Len(s)
            PROVE  y[cut[j - 1] + i] = s[i]
        <4>1. cut[j - 1] + i <= Len(x) /\ cut[j - 1] + i \in 1..Len(x)
          BY <1>1, <3>2, <3>3, SMTT(30)
        <4> QED
          BY <1>2, <3>3, <4>1 DEF MeetsAt
      <3> QED
        BY <3>2, <3>3, <3>4 DEF MeetsAt, s
    <2>2. CASE ~(j <= n)
      <3>1. j = n + 1 /\ n \in k..n
        BY <1>1, <1>3, <2>2
      <3>2. c[j - 1] = Len(x) /\ c[j] = Len(x) + Len(b) /\ serialize(more[j]) = b
        BY <1>1, <1>3, <1>4, <1>6, <3>1 DEF b
      <3>3. MeetsAt(y, Len(x), b)
        BY <1>2 DEF MeetsAt
      <3> QED
        BY <3>2, <3>3
    <2> QED
      BY <2>1, <2>2
  <1>11. IsCut(c, y, k, more)
    BY <1>7, <1>8, <1>9, <1>10 DEF IsCut
  <1> QED
    BY <1>11 DEF y, more, b

\* The first of them taken.
LEMMA CutRead ==
  ASSUME NEW M, NEW msgs \in Seq(M), Written(msgs), NEW k \in Nat, k < Len(msgs),
         NEW x \in Seq(Byte), NEW cut, IsCut(cut, x, k, msgs)
  PROVE  /\ MeetsAt(x, 0, serialize(msgs[k + 1]))
         /\ \E c : IsCut(c, From(x, Len(serialize(msgs[k + 1]))), k + 1, msgs)
  <1> DEFINE b == serialize(msgs[k + 1])
             n == Len(msgs)
             y == From(x, Len(b))
             c == [j \in (k + 1)..n |-> cut[j] - Len(b)]
  <1>1. n \in Nat /\ Len(x) \in Nat /\ k + 1 \in 1..n
    BY LenProperties
  <1>2. b \in Seq(Byte) /\ Len(b) \in Nat
    BY <1>1, LenProperties DEF Written
  <1>3. /\ cut \in [k..n -> Nat]
        /\ cut[k] = 0
        /\ cut[n] = Len(x)
        /\ \A i, j \in k..n : i <= j => cut[i] <= cut[j]
    BY DEF IsCut
  <1>4. \A j \in (k + 1)..n : /\ cut[j] = cut[j - 1] + Len(serialize(msgs[j]))
                              /\ MeetsAt(x, cut[j - 1], serialize(msgs[j]))
    BY DEF IsCut
  <1> HIDE DEF n
  <1>5. k + 1 \in (k + 1)..n /\ (k + 1) - 1 = k
    BY <1>1
  <1>6. cut[k + 1] = Len(b) /\ MeetsAt(x, 0, b)
    <2>1. cut[k + 1] = cut[k] + Len(b) /\ MeetsAt(x, cut[k], b)
      BY <1>4, <1>5
    <2> HIDE DEF b
    <2> QED
      BY <1>2, <1>3, <2>1
  <1> HIDE DEF b
  <1>7. ASSUME NEW j \in (k + 1)..n
        PROVE  cut[j] \in Nat /\ Len(b) <= cut[j] /\ cut[j] <= Len(x)
    <2>1. j \in k..n /\ k + 1 \in k..n /\ n \in k..n /\ k + 1 <= j /\ j <= n
      BY <1>1
    <2> QED
      BY <1>3, <1>6, <2>1
  <1>8. Len(b) <= Len(x)
    BY <1>1, <1>2, <1>5, <1>7
  <1>9. /\ Len(y) = Len(x) - Len(b)
        /\ \A i \in 1..(Len(x) - Len(b)) : y[i] = x[Len(b) + i]
    BY <1>2, <1>8, FromType
  <1> HIDE DEF y
  <1>10. \A j \in (k + 1)..n : c[j] = cut[j] - Len(b)
    OBVIOUS
  <1>11. c \in [(k + 1)..n -> Nat]
    <2>1. \A j \in (k + 1)..n : cut[j] - Len(b) \in Nat
      BY <1>2, <1>7
    <2> QED
      BY <2>1
  <1> HIDE DEF c
  <1>12. c[k + 1] = 0 /\ c[n] = Len(y)
    <2>1. n \in (k + 1)..n
      BY <1>1
    <2> QED
      BY <1>2, <1>3, <1>5, <1>6, <1>9, <1>10, <2>1
  <1>13. ASSUME NEW i \in (k + 1)..n, NEW j \in (k + 1)..n, i <= j
         PROVE  c[i] <= c[j]
    <2>1. cut[i] <= cut[j]
      BY <1>1, <1>3, <1>13
    <2> QED
      BY <1>2, <1>7, <1>10, <2>1
  <1>14. ASSUME NEW j \in ((k + 1) + 1)..n
         PROVE  /\ c[j] = c[j - 1] + Len(serialize(msgs[j]))
                /\ MeetsAt(y, c[j - 1], serialize(msgs[j]))
    <2> DEFINE s == serialize(msgs[j])
    <2>1. j \in (k + 1)..n /\ j - 1 \in (k + 1)..n /\ j \in 1..n
      BY <1>1
    <2>2. c[j] = cut[j] - Len(b) /\ c[j - 1] = cut[j - 1] - Len(b)
      BY <1>10, <2>1
    <2>3. cut[j] = cut[j - 1] + Len(s) /\ MeetsAt(x, cut[j - 1], s) /\ Len(s) \in Nat
      BY <1>4, <2>1, LenProperties DEF Written, n
    <2>4. cut[j - 1] \in Nat /\ Len(b) <= cut[j - 1] /\ cut[j] <= Len(x)
      BY <1>7, <2>1
    <2> HIDE DEF s
    <2>5. c[j] = c[j - 1] + Len(s)
      BY <1>2, <2>2, <2>3, <2>4
    <2>6. ASSUME NEW i \in 1..Len(s)
          PROVE  y[c[j - 1] + i] = s[i]
      <3>1. /\ c[j - 1] + i \in 1..(Len(x) - Len(b))
            /\ Len(b) + (c[j - 1] + i) = cut[j - 1] + i
            /\ cut[j - 1] + i <= Len(x)
        BY <1>1, <1>2, <2>2, <2>3, <2>4, SMTT(30)
      <3> QED
        BY <1>9, <2>3, <3>1 DEF MeetsAt
    <2> QED
      BY <2>5, <2>6 DEF MeetsAt, s
  <1>15. IsCut(c, y, k + 1, msgs)
    BY <1>11, <1>12, <1>13, <1>14 DEF IsCut, n
  <1> QED
    BY <1>6, <1>15 DEF y, b
-----------------------------------------------------------------------------
(* The inductive invariant.  As long as nothing has damaged the stream, the *)
(* messages deserialized are the first of those sent, and the bytes unread *)
(* and on their way are those of the others, one after the other.          *)

Messages == ToServer \cup ToClient

LEMMA MessagesAre ==
  ASSUME NEW msg \in Messages
  PROVE  IsMessage(msg)
  BY WireAssumption DEF Messages

LEMMA CapacitiesAre ==
  OutCapacity \in Nat /\ OutCapacity <= 65535 /\ InCapacity.server \in Nat
  <1>1. OutCapacity \in Nat /\ OutCapacity < 65536
    BY WireAssumption
  <1>2. InCapacity \in [server : Nat, client : Nat]
    BY WireAssumption
  <1> QED
    BY <1>1, <1>2

Stream == unread \o wire

StreamTypes ==
  /\ unread \in Seq(Byte)
  /\ wire \in Seq(Byte)
  /\ sent \in Seq(Messages)
  /\ got \in Seq(Messages)
  /\ reader \in {"server", "client"}

GotFirst ==
  /\ Len(got) <= Len(sent)
  /\ \A i \in 1..Len(got) : got[i] = sent[i]

RestComing == \E cut : IsCut(cut, Stream, Len(got), sent)

StillOpen == open \/ \E i \in DOMAIN got : got[i].type = "END_SESSION"

StreamInv ==
  damage = {} => StreamTypes /\ Written(sent) /\ GotFirst /\ RestComing /\ StillOpen

LEMMA StreamInit == Init => StreamInv
  <1> SUFFICES ASSUME Init PROVE StreamInv
    OBVIOUS
  <1>1. /\ sent = <<>> /\ wire = <<>> /\ unread = <<>> /\ got = <<>> /\ open
        /\ reader \in {"server", "client"}
    BY DEF Init
  <1>2. StreamTypes
    BY <1>1 DEF StreamTypes
  <1>3. Len(sent) = 0 /\ Len(got) = 0
    BY <1>1
  <1>4. Written(sent) /\ GotFirst
    BY <1>3 DEF Written, GotFirst
  <1>5. Len(Stream) = 0
    BY <1>1 DEF Stream
  <1>6. IsCut([j \in 0..0 |-> 0], Stream, Len(got), sent)
    <2> DEFINE cut == [j \in 0..0 |-> 0]
    <2>1. cut \in [0..0 -> Nat] /\ \A j \in 0..0 : cut[j] = 0
      OBVIOUS
    <2> HIDE DEF cut
    <2>2. IsCut(cut, Stream, Len(got), sent)
      BY <1>3, <1>5, <2>1 DEF IsCut
    <2> QED
      BY <2>2 DEF cut
  <1>7. RestComing
    BY <1>6 DEF RestComing
  <1> QED
    BY <1>1, <1>2, <1>4, <1>7 DEF StreamInv, StillOpen

\* A message that fits its buffer is written at the end of the stream.
LEMMA WriteKeepsStream ==
  ASSUME StreamInv, NEW msg \in Messages, write_message(msg)
  PROVE  StreamInv'
  <1> DEFINE bytes == serialize(msg)
  <1>1. PICK n \in Taken(bytes) :
          /\ wire' = wire \o SubSeq(bytes, 1, n)
          /\ damage' = IF n < Len(bytes) THEN damage \cup {"short write"} ELSE damage
    BY DEF write_message
  <1>2. /\ Fits(bytes)
        /\ sent' = Append(sent, msg)
        /\ UNCHANGED <<reader, unread, got, open>>
    BY DEF write_message
  <1>3. IsMessage(msg)
    BY MessagesAre
  <1>4. bytes \in Seq(Byte) /\ Len(bytes) \in Nat
    <2>1. bytes \in Seq(Byte)
      BY <1>3, Serialized
    <2> QED
      BY <2>1, LenProperties
  <1>5. Len(bytes) <= 65535
    BY <1>2, <1>4, CapacitiesAre DEF Fits
  <1> HIDE DEF bytes
  <1> SUFFICES ASSUME damage' = {}
               PROVE  StreamTypes' /\ Written(sent)' /\ GotFirst' /\ RestComing' /\ StillOpen'
    BY DEF StreamInv
  <1>6. n = Len(bytes) /\ damage = {}
    <2>1. ~(n < Len(bytes))
      BY <1>1
    <2>2. n = Len(bytes) \/ n = Len(bytes) - 2
      BY DEF Taken
    <2> QED
      BY <1>1, <1>4, <2>1, <2>2
  <1>7. StreamTypes /\ Written(sent) /\ GotFirst /\ RestComing /\ StillOpen
    BY <1>6 DEF StreamInv
  <1>8. /\ unread \in Seq(Byte) /\ wire \in Seq(Byte)
        /\ sent \in Seq(Messages) /\ got \in Seq(Messages)
        /\ reader \in {"server", "client"}
        /\ Len(sent) \in Nat /\ Len(got) \in Nat /\ Len(got) <= Len(sent)
    BY <1>7, LenProperties DEF StreamTypes, GotFirst
  <1>9. wire' = wire \o bytes
    BY <1>1, <1>4, <1>6, SubSeqFull
  <1>10. wire \o bytes \in Seq(Byte)
    BY <1>4, <1>8, BytesJoined
  <1>11. /\ Len(sent') = Len(sent) + 1
         /\ \A j \in 1..Len(sent) : sent'[j] = sent[j]
         /\ sent'[Len(sent) + 1] = msg
         /\ sent' \in Seq(Messages)
    BY <1>2, <1>8, AppendProperties
  <1>12. StreamTypes'
    BY <1>2, <1>8, <1>9, <1>10, <1>11 DEF StreamTypes
  <1>13. Written(sent)'
    <2>1. ASSUME NEW j \in 1..Len(sent')
          PROVE  /\ IsMessage(sent'[j]) /\ serialize(sent'[j]) \in Seq(Byte)
                 /\ Len(serialize(sent'[j])) <= 65535
      <3>1. j \in 1..Len(sent) \/ j = Len(sent) + 1
        BY <1>8, <1>11
      <3>2. CASE j \in 1..Len(sent)
        BY <1>7, <1>11, <3>2 DEF Written
      <3>3. CASE j = Len(sent) + 1
        <4>1. sent'[j] = msg
          BY <1>11, <3>3
        <4> QED
          BY <1>3, <1>4, <1>5, <4>1 DEF bytes
      <3> QED
        BY <3>1, <3>2, <3>3
    <2> QED
      BY <2>1 DEF Written
  <1>14. GotFirst'
    <2>1. got' = got
      BY <1>2
    <2>2. Len(got) <= Len(sent')
      BY <1>8, <1>11
    <2>3. ASSUME NEW i \in 1..Len(got)
          PROVE  got[i] = sent'[i]
      <3>1. i \in 1..Len(sent)
        BY <1>8
      <3> QED
        BY <1>7, <1>11, <3>1 DEF GotFirst
    <2> QED
      BY <2>1, <2>2, <2>3 DEF GotFirst
  <1>15. RestComing'
    <2>1. PICK cut : IsCut(cut, Stream, Len(got), sent)
      BY <1>7 DEF RestComing
    <2>2. Stream' = Stream \o bytes
      <3>1. (unread \o wire) \o bytes = unread \o (wire \o bytes)
        BY <1>4, <1>8, BytesAssociative
      <3> QED
        BY <1>2, <1>9, <3>1 DEF Stream
    <2>3. Stream \in Seq(Byte)
      BY <1>8, BytesJoined DEF Stream
    <2>4. \E c : IsCut(c, Stream \o serialize(msg), Len(got), Append(sent, msg))
      <3>1. Len(got) \in 0..Len(sent)
        BY <1>8
      <3>2. Written(sent) /\ serialize(msg) \in Seq(Byte) /\ sent \in Seq(Messages)
        BY <1>4, <1>7, <1>8 DEF bytes
      <3> QED
        BY <2>1, <2>3, <3>1, <3>2, CutWritten
    <2> QED
      BY <1>2, <2>2, <2>4 DEF RestComing, bytes
  <1>16. StillOpen'
    BY <1>2, <1>7 DEF StillOpen
  <1> QED
    BY <1>12, <1>13, <1>14, <1>15, <1>16
\* What a read moves from the wire to the input buffer stays in its place.
LEMMA ReadMoves ==
  ASSUME NEW u \in Seq(Byte), NEW w \in Seq(Byte), NEW n \in Nat, n <= Len(w)
  PROVE  LET x == u \o SubSeq(w, 1, n)
             rest == SubSeq(w, n + 1, Len(w))
         IN  x \in Seq(Byte) /\ rest \in Seq(Byte) /\ u \o w = x \o rest
  <1> DEFINE v == SubSeq(w, 1, n)
             rest == From(w, n)
  <1>1. Len(w) \in Nat /\ \A i \in 1..Len(w) : w[i] \in Byte
    BY LenProperties, ElementOfSeq
  <1>2. v \in Seq(Byte)
    <2>1. \A i \in 1..n : w[i] \in Byte
      BY <1>1
    <2> QED
      BY <2>1, SubSeqProperties
  <1>3. rest \in Seq(Byte)
    BY FromType
  <1>4. w = v \o rest
    <2>1. 1 \in 1..(Len(w) + 1) /\ n \in (1 - 1)..Len(w) /\ Len(w) \in n..Len(w)
      BY <1>1
    <2>2. SubSeq(w, 1, n) \o SubSeq(w, n + 1, Len(w)) = SubSeq(w, 1, Len(w))
      BY <2>1, ConcatAdjacentSubSeq
    <2>3. SubSeq(w, 1, Len(w)) = w
      BY SubSeqFull
    <2> QED
      BY <2>2, <2>3 DEF From
  <1> HIDE DEF v, rest
  <1>5. u \o v \in Seq(Byte) /\ u \o (v \o rest) = (u \o v) \o rest
    <2>1. u \o (v \o rest) = (u \o v) \o rest
      BY <1>2, <1>3, BytesAssociative
    <2> QED
      BY <1>2, <2>1, BytesJoined
  <1> QED
    BY <1>3, <1>4, <1>5 DEF v, rest, From

\* What the beginning of the stream meets, the bytes received of it meet, and
\* what is left when as many are read is the same.
LEMMA Beginning ==
  ASSUME NEW x \in Seq(Byte), NEW rest \in Seq(Byte), NEW b \in Seq(Byte),
         MeetsAt(x \o rest, 0, b)
  PROVE  /\ MeetsAt(x, 0, b)
         /\ Len(b) <= Len(x) =>
              /\ From(x, Len(b)) \in Seq(Byte)
              /\ From(x \o rest, Len(b)) = From(x, Len(b)) \o rest
              /\ Len(b) <= Len(x \o rest)
  <1> DEFINE y == x \o rest
             n == Len(b)
  <1>1. Len(x) \in Nat /\ Len(rest) \in Nat /\ n \in Nat
    BY LenProperties
  <1>2. /\ y \in Seq(Byte)
        /\ Len(y) = Len(x) + Len(rest)
        /\ \A i \in 1..Len(x) + Len(rest) : y[i] = IF i <= Len(x) THEN x[i] ELSE rest[i - Len(x)]
    BY ConcatProperties
  <1> HIDE DEF y, n
  <1>3. MeetsAt(x, 0, b)
    <2>1. ASSUME NEW i \in 1..Len(b), 0 + i <= Len(x)
          PROVE  x[0 + i] = b[i]
      <3>1. 0 + i = i /\ i \in 1..(Len(x) + Len(rest)) /\ i <= Len(x) /\ 0 + i <= Len(y)
        BY <1>1, <1>2, <2>1 DEF n
      <3>2. y[i] = b[i]
        BY <3>1 DEF MeetsAt, y
      <3> QED
        BY <1>2, <3>1, <3>2
    <2> QED
      BY <2>1 DEF MeetsAt
  <1>4. ASSUME n <= Len(x)
        PROVE  From(x, n) \in Seq(Byte) /\ From(y, n) = From(x, n) \o rest /\ n <= Len(y)
    <2> DEFINE f == From(x, n)
               g == From(y, n)
               h == f \o rest
    <2>1. n <= Len(y)
      BY <1>1, <1>2, <1>4
    <2>2. /\ f \in Seq(Byte) /\ Len(f) = Len(x) - n
          /\ \A i \in 1..(Len(x) - n) : f[i] = x[n + i]
      BY <1>1, <1>4, FromType
    <2>3. /\ g \in Seq(Byte) /\ Len(g) = Len(y) - n
          /\ \A i \in 1..(Len(y) - n) : g[i] = y[n + i]
      BY <1>1, <1>2, <2>1, FromType
    <2> HIDE DEF f, g
    <2>4. /\ h \in Seq(Byte)
          /\ Len(h) = Len(f) + Len(rest)
          /\ \A i \in 1..Len(f) + Len(rest) : h[i] = IF i <= Len(f) THEN f[i] ELSE rest[i - Len(f)]
      BY <2>2, ConcatProperties
    <2> HIDE DEF h
    <2>5. Len(g) = Len(h)
      BY <1>1, <1>2, <2>2, <2>3, <2>4
    <2>6. ASSUME NEW i \in 1..Len(g)
          PROVE  g[i] = h[i]
      <3>1. /\ i \in 1..(Len(y) - n) /\ i \in 1..(Len(f) + Len(rest))
            /\ n + i \in 1..(Len(x) + Len(rest))
        BY <1>1, <1>2, <2>2, <2>3
      <3>2. CASE i <= Len(f)
        <4>1. i \in 1..(Len(x) - n) /\ n + i <= Len(x)
          BY <1>1, <2>2, <3>1, <3>2
        <4> QED
          BY <1>2, <2>2, <2>3, <2>4, <3>1, <3>2, <4>1
      <3>3. CASE ~(i <= Len(f))
        <4>1. ~(n + i <= Len(x)) /\ (n + i) - Len(x) = i - Len(f)
          BY <1>1, <2>2, <3>1, <3>3
        <4> QED
          BY <1>2, <2>3, <2>4, <3>1, <3>3, <4>1
      <3> QED
        BY <3>2, <3>3
    <2>7. g = h
      BY <2>3, <2>4, <2>5, <2>6, SeqEqual
    <2> QED
      BY <2>1, <2>2, <2>7 DEF f, g, h
  <1> QED
    BY <1>3, <1>4 DEF y, n

\* A read finds the next message or the beginning of it, or nothing is left.
LEMMA ReadKeepsStream ==
  ASSUME StreamInv, NEW n \in Nat, on_read(n)
  PROVE  StreamInv'
  <1> DEFINE x == Buffered(n)
             rest == SubSeq(wire, n + 1, Len(wire))
             r == deserialize(x)
             k == Len(got)
  <1>1. /\ n <= Len(wire)
        /\ wire' = rest
        /\ unread' = Kept(x, r)
        /\ got' = IF r.st = "ok" THEN got \o r.fields ELSE got
        /\ open' = (r.st = "eof" \/ (r.st = "ok" /\ r.fields[1].type # "END_SESSION"))
        /\ damage' = IF reader = "client" /\ r.st = "eof" THEN damage \cup {"split"} ELSE damage
        /\ UNCHANGED <<reader, sent>>
    BY DEF on_read
  <1> SUFFICES ASSUME damage' = {}
               PROVE  StreamTypes' /\ Written(sent)' /\ GotFirst' /\ RestComing' /\ StillOpen'
    BY DEF StreamInv
  <1>2. damage = {} /\ ~(reader = "client" /\ r.st = "eof")
    BY <1>1
  <1>3. StreamTypes /\ Written(sent) /\ GotFirst /\ RestComing
    BY <1>2 DEF StreamInv
  <1>4. /\ unread \in Seq(Byte) /\ wire \in Seq(Byte)
        /\ sent \in Seq(Messages) /\ got \in Seq(Messages)
        /\ reader \in {"server", "client"}
    BY <1>3 DEF StreamTypes
  <1>5. Len(sent) \in Nat /\ k \in Nat /\ k <= Len(sent)
    BY <1>3, <1>4, LenProperties DEF GotFirst
  <1>6. x \in Seq(Byte) /\ rest \in Seq(Byte) /\ Stream = x \o rest
    BY <1>1, <1>4, ReadMoves DEF Buffered, Stream
  <1>7. PICK cut : IsCut(cut, Stream, k, sent)
    BY <1>3 DEF RestComing
  <1>8. Written(sent)'
    BY <1>1, <1>3 DEF Written
  <1> HIDE DEF x, rest, r
  <1>9. CASE r.st = "eof"
    <2>1. reader = "server"
      BY <1>2, <1>4, <1>9
    <2>2. unread' = x /\ got' = got /\ open'
      BY <1>1, <1>9, <2>1 DEF Kept
    <2>3. Stream' = Stream
      BY <1>1, <1>6, <2>2 DEF Stream
    <2>4. StreamTypes'
      BY <1>1, <1>4, <1>6, <2>2 DEF StreamTypes
    <2>5. GotFirst'
      BY <1>1, <1>3, <2>2 DEF GotFirst
    <2>6. RestComing'
      BY <1>1, <1>7, <2>2, <2>3 DEF RestComing
    <2> QED
      BY <1>8, <2>2, <2>4, <2>5, <2>6 DEF StillOpen
  <1>10. CASE r.st # "eof"
    <2>1. k < Len(sent)
      <3>1. SUFFICES ASSUME k = Len(sent)
                     PROVE  FALSE
        BY <1>5
      <3>2. Len(Stream) = 0
        BY <1>7, <3>1 DEF IsCut
      <3>3. Len(x \o rest) = Len(x) + Len(rest) /\ Len(x) \in Nat /\ Len(rest) \in Nat
        BY <1>6, BytesJoined, LenProperties
      <3>4. Len(x) < 2
        BY <1>6, <3>2, <3>3
      <3> QED
        BY <1>6, <1>10, <3>4, TooShort DEF r
    <2> DEFINE msg == sent[k + 1]
               b == serialize(msg)
    <2>2. k + 1 \in 1..Len(sent)
      BY <1>5, <2>1
    <2>3. IsMessage(msg) /\ b \in Seq(Byte) /\ Len(b) <= 65535 /\ msg \in Messages
      BY <1>3, <1>4, <2>2, ElementOfSeq DEF Written
    <2>4. MeetsAt(Stream, 0, b) /\ \E c : IsCut(c, From(Stream, Len(b)), k + 1, sent)
      <3>1. Stream \in Seq(Byte)
        BY <1>4, BytesJoined DEF Stream
      <3>2. sent \in Seq(Messages) /\ Written(sent) /\ k \in Nat
        BY <1>3, <1>4, <1>5
      <3> QED
        BY <1>7, <2>1, <3>1, <3>2, CutRead
    <2> HIDE DEF msg, b
    <2>5. /\ MeetsAt(x, 0, b)
          /\ Len(b) <= Len(x) => /\ From(x, Len(b)) \in Seq(Byte)
                                 /\ From(Stream, Len(b)) = From(x, Len(b)) \o rest
      <3>1. MeetsAt(x \o rest, 0, b)
        BY <1>6, <2>4
      <3> QED
        BY <1>6, <2>3, <3>1, Beginning
    <2>6. /\ Len(b) > Len(x) => r.st = "eof"
          /\ Len(b) <= Len(x) => r = [st |-> "ok", rest |-> From(x, Len(b)), fields |-> <<msg>>]
      BY <1>6, <2>3, <2>5, DeserializeSerialized DEF b, r
    <2>7. Len(b) <= Len(x)
      <3>1. Len(b) \in Nat /\ Len(x) \in Nat
        BY <1>6, <2>3, LenProperties
      <3> QED
        BY <1>10, <2>6, <3>1
    <2>8. r = [st |-> "ok", rest |-> From(x, Len(b)), fields |-> <<msg>>]
      BY <2>6, <2>7
    <2>9. /\ unread' = From(x, Len(b))
          /\ got' = got \o <<msg>>
          /\ open' = (msg.type # "END_SESSION")
      BY <1>1, <2>8 DEF Kept
    <2>10. got' = Append(got, msg)
      BY <1>4, <2>3, <2>9, AppendIsConcat
    <2>11. /\ got' \in Seq(Messages)
           /\ Len(got') = k + 1
           /\ \A i \in 1..k : got'[i] = got[i]
           /\ got'[k + 1] = msg
      BY <1>4, <2>3, <2>10, AppendProperties
    <2>12. StreamTypes'
      BY <1>1, <1>4, <1>6, <2>5, <2>7, <2>9, <2>11 DEF StreamTypes
    <2>13. GotFirst'
      <3>1. ASSUME NEW i \in 1..(k + 1)
            PROVE  got'[i] = sent[i]
        <4>1. i \in 1..k \/ i = k + 1
          BY <1>5
        <4>2. CASE i \in 1..k
          BY <1>3, <2>11, <4>2 DEF GotFirst
        <4>3. CASE i = k + 1
          BY <2>11, <4>3 DEF msg
        <4> QED
          BY <4>1, <4>2, <4>3
      <3>2. sent' = sent /\ k + 1 <= Len(sent)
        BY <1>1, <1>5, <2>1
      <3> QED
        BY <2>11, <3>1, <3>2 DEF GotFirst
    <2>14. RestComing'
      <3>1. Stream' = From(Stream, Len(b))
        BY <1>1, <2>5, <2>7, <2>9 DEF Stream
      <3> QED
        BY <1>1, <2>4, <2>11, <3>1 DEF RestComing
    <2>15. StillOpen'
      <3>1. k + 1 \in DOMAIN got'
        <4>1. DOMAIN got' = 1..(k + 1)
          BY <2>11, LenProperties
        <4> QED
          BY <1>5, <4>1
      <3> QED
        BY <2>9, <2>11, <3>1 DEF StillOpen
    <2> QED
      BY <1>8, <2>12, <2>13, <2>14, <2>15
  <1> QED
    BY <1>9, <1>10

LEMMA StreamNext == StreamInv /\ [Next]_vars => StreamInv'
  <1> SUFFICES ASSUME StreamInv, [Next]_vars
               PROVE  StreamInv'
    OBVIOUS
  <1>1. ASSUME NEW msg \in ToServer, write_message(msg)
        PROVE  StreamInv'
    BY <1>1, WriteKeepsStream DEF Messages
  <1>2. ASSUME NEW msg \in ToClient, write_message(msg)
        PROVE  StreamInv'
    BY <1>2, WriteKeepsStream DEF Messages
  <1>3. ASSUME NEW n \in 0..InCapacity.server, on_read(n)
        PROVE  StreamInv'
    <2>1. n \in Nat
      BY CapacitiesAre
    <2> QED
      BY <1>3, <2>1, ReadKeepsStream
  <1>4. ASSUME NEW n \in 0..InCapacity.server, on_read_full(n)
        PROVE  StreamInv'
    <2>1. damage' # {}
      BY <1>4 DEF on_read_full
    <2> QED
      BY <2>1 DEF StreamInv
  <1>5. CASE UNCHANGED vars
    BY <1>5 DEF vars, StreamInv, StreamTypes, Written, GotFirst, RestComing, Stream, StillOpen
  <1> QED
    BY <1>1, <1>2, <1>3, <1>4, <1>5 DEF Next

\* What the property of the streams rests on, in every reachable state.
THEOREM StreamInvariant == Spec => []StreamInv
  BY StreamInit, StreamNext, PTL DEF Spec

\* However TCP cuts and joins the bytes, the messages a peer deserializes are
\* the ones the other wrote, each once, in order, with every field as it was,
\* and no reader gives up on a peer that keeps to the protocol, as long as no
\* write is short, no client gets a message in parts and no buffer fills up.
THEOREM DecodedAsSentAlways == Spec => []DecodedAsSent
  <1>1. StreamInv => DecodedAsSent
    <2> SUFFICES ASSUME StreamInv, damage = {}
                 PROVE  /\ IsPrefix(got, sent)
                        /\ open \/ \E i \in DOMAIN got : got[i].type = "END_SESSION"
      BY DEF DecodedAsSent
    <2>1. /\ sent \in Seq(Messages) /\ got \in Seq(Messages)
          /\ Len(got) <= Len(sent)
          /\ \A i \in 1..Len(got) : got[i] = sent[i]
          /\ StillOpen
      BY DEF StreamInv, StreamTypes, GotFirst
    <2>2. /\ Len(got) \in Nat /\ Len(sent) \in Nat
          /\ \A i \in 1..Len(sent) : sent[i] \in Messages
      BY <2>1, LenProperties, ElementOfSeq
    <2>3. SubSeq(got, 1, Len(got)) = got
      BY <2>1, SubSeqFull
    <2>4. SubSeq(sent, 1, Len(got)) = got
      <3>1. \A i \in 1..Len(got) : sent[i] \in Messages
        BY <2>1, <2>2
      <3>2. /\ SubSeq(sent, 1, Len(got)) \in Seq(Messages)
            /\ Len(SubSeq(sent, 1, Len(got))) = IF 1 <= Len(got) THEN Len(got) - 1 + 1 ELSE 0
            /\ \A i \in 1..(Len(got) - 1 + 1) : SubSeq(sent, 1, Len(got))[i] = sent[1 + i - 1]
        BY <2>2, <3>1, SubSeqProperties
      <3> DEFINE p == SubSeq(sent, 1, Len(got))
      <3> HIDE DEF p
      <3>3. p \in Seq(Messages) /\ Len(p) = Len(got) /\ \A i \in 1..Len(got) : p[i] = got[i]
        BY <2>1, <2>2, <3>2 DEF p
      <3>4. p = got
        BY <2>1, <3>3, SeqEqual
      <3> QED
        BY <3>4 DEF p
    <2>5. IsPrefix(got, sent)
      BY <2>1, <2>3, <2>4 DEF IsPrefix
    <2> QED
      BY <2>1, <2>5 DEF StillOpen
  <1> QED
    BY <1>1, StreamInvariant, PTL
=============================================================================
