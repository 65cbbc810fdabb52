---------------------------- MODULE MessageCodec ----------------------------
(***************************************************************************)
(* The messages of the FlightVars protocol and their binary form           *)
(* (flightvars/include/flightvars/proto): what serialize() writes and what *)
(* deserialize() makes of the bytes it finds, complete or not.             *)
(*                                                                         *)
(* A number is the sequence of its bytes as the host keeps them, least     *)
(* significant first, and a string the sequence of its characters.  A      *)
(* FLOAT is its normalized significant and exponent; how frexp() breaks it *)
(* and the precision lost are left out, and it is positive: what is        *)
(* written of zero and of a negative one is undefined (binary.h:124).      *)
(***************************************************************************)
EXTENDS Naturals, Sequences, SequencesExt

\* message_type, variable_type: a value's place is its code.
MessageTypes == <<"BEGIN_SESSION", "END_SESSION", "SUBSCRIPTION_REQ", "SUBSCRIPTION_REP",
                  "UNSUBSCRIPTION_REQ", "UNSUBSCRIPTION_REP", "VAR_UPDATE">>
VariableTypes == <<"BOOLEAN", "BYTE", "WORD", "DWORD", "FLOAT">>

Uint16(n) == <<n % 256, (n \div 256) % 256>>
Number(bytes) == bytes[1] + 256 * bytes[2]

\* msg_type_to_code: 0x700 and the place of the type, from 0.
Code(type) == <<(CHOOSE i \in DOMAIN MessageTypes : MessageTypes[i] = type) - 1, 7>>
EndMark == Uint16(13 * 256 + 10)

\* How many bytes the value of a variable takes in its type.
ValueSize == <<1, 1, 2, 4, 8>>

\* A message, and one for each kind of variable value.
Message(type, fields) == [type |-> type, fields |-> fields]
VarUpdate(id, vtype, value) ==
  LET code == (CHOOSE i \in DOMAIN VariableTypes : VariableTypes[i] = vtype) - 1
  IN  Message("VAR_UPDATE", <<id, <<code>>, value>>)

Byte == 0..255

-----------------------------------------------------------------------------
\* Serializing.

native_to_big(number) == Reverse(number)

\* What each serialize_... writes between the type and the end mark.
WriteLayout ==
  [BEGIN_SESSION      |-> <<"string", "number">>,
   END_SESSION        |-> <<"string">>,
   SUBSCRIPTION_REQ   |-> <<"string", "string">>,
   SUBSCRIPTION_REP   |-> <<"number", "string", "string", "number", "string">>,
   UNSUBSCRIPTION_REQ |-> <<"number">>,
   UNSUBSCRIPTION_REP |-> <<"number", "number", "string">>,
   VAR_UPDATE         |-> <<"number", "number", "value">>]

write_string_value(string) == native_to_big(Uint16(Len(string))) \o string

\* The value of an update: a float is two numbers.
write_value(value) ==
  IF Len(value) = 8
  THEN native_to_big(SubSeq(value, 1, 4)) \o native_to_big(SubSeq(value, 5, 8))
  ELSE native_to_big(value)

WriteField(kind, field) ==
  CASE kind = "string" -> write_string_value(field)
    [] kind = "value"  -> write_value(field)
    [] OTHER           -> native_to_big(field)

\* The field at a place; no message has more than five.
Field(msg, i) ==
  LET layout == WriteLayout[msg.type]
  IN  IF i \in DOMAIN layout THEN WriteField(layout[i], msg.fields[i]) ELSE <<>>

serialize(msg) ==
  native_to_big(Code(msg.type))
    \o Field(msg, 1) \o Field(msg, 2) \o Field(msg, 3) \o Field(msg, 4) \o Field(msg, 5)
    \o native_to_big(EndMark)

-----------------------------------------------------------------------------
\* Deserializing: a reading in progress is the bytes left, the fields read
\* and "ok", "eof" (io::eof_error) or "bad" (protocol_exception).

Reading(bytes) == [st |-> "ok", rest |-> bytes, fields |-> <<>>]

\* stream::read_all: bytes there are too few of are consumed all the same.
read_all(r, n) ==
  IF r.st # "ok" THEN r
  ELSE IF Len(r.rest) < n THEN [r EXCEPT !.st = "eof", !.rest = <<>>]
  ELSE [r EXCEPT !.rest = SubSeq(@, n + 1, Len(@)),
                 !.fields = Append(@, SubSeq(r.rest, 1, n))]

\* What was read last, and the reading with that changed or taken out.
Got(r) == Last(r.fields)
Put(r, field) == IF r.st = "ok" THEN [r EXCEPT !.fields = Append(Front(@), field)] ELSE r
Take(r) == [r EXCEPT !.fields = Front(@)]

read_number(r, n) == LET s == read_all(r, n) IN Put(s, Reverse(Got(s)))

read_string_value(r) ==
  LET length == read_number(r, 2)
  IN  IF length.st = "ok" THEN read_all(Take(length), Number(Got(length))) ELSE length

\* The value follows its type.
read_value(r) ==
  LET vtype == Got(r)[1] + 1
      size  == ValueSize[vtype]
      first == read_number(r, IF size = 8 THEN 4 ELSE size)
      both  == read_number(first, 4)
  IN  IF r.st # "ok" THEN r
      ELSE IF vtype \notin DOMAIN ValueSize THEN [r EXCEPT !.st = "bad"]
      ELSE IF size = 8 THEN IF both.st = "ok" THEN Put(Take(both), Got(first) \o Got(both)) ELSE both
      ELSE IF vtype = 1 /\ first.st = "ok" THEN Put(first, IF Got(first)[1] > 0 THEN <<1>> ELSE <<0>>)
      ELSE first

ReadField(r, kind) ==
  CASE kind = "string" -> read_string_value(r)
    [] kind = "value"  -> read_value(r)
    [] kind = "uint8"  -> read_number(r, 1)
    [] kind = "uint16" -> read_number(r, 2)
    [] kind = "uint32" -> read_number(r, 4)

\* What each deserialize_..._contents reads.
ReadLayout ==
  [BEGIN_SESSION      |-> <<"string", "uint16">>,
   END_SESSION        |-> <<"string">>,
   SUBSCRIPTION_REQ   |-> <<"string", "string">>,
   SUBSCRIPTION_REP   |-> <<"uint8", "string", "string", "uint32", "string">>,
   UNSUBSCRIPTION_REQ |-> <<"uint32">>,
   UNSUBSCRIPTION_REP |-> <<"uint8", "uint32", "string">>,
   VAR_UPDATE         |-> <<"uint32", "uint8", "value">>]

\* The field at a place, of those the type of the message has.
ReadFieldOf(r, type, i) ==
  IF i \in DOMAIN ReadLayout[type] THEN ReadField(r, ReadLayout[type][i]) ELSE r

ReadFields(r, type) ==
  ReadFieldOf(ReadFieldOf(ReadFieldOf(ReadFieldOf(ReadFieldOf(
    r, type, 1), type, 2), type, 3), type, 4), type, 5)

\* The message at the beginning of the bytes, and the bytes after it.
deserialize(bytes) ==
  LET begin == read_number(Reading(bytes), 2)
      type  == CHOOSE t \in ToSet(MessageTypes) : Code(t) = Got(begin)
      end   == read_number(ReadFields(Take(begin), type), 2)
  IN  IF begin.st # "ok" THEN begin
      ELSE IF \A t \in ToSet(MessageTypes) : Code(t) # Got(begin) THEN [begin EXCEPT !.st = "bad"]
      ELSE IF end.st # "ok" THEN end
      ELSE IF Got(end) # EndMark THEN [end EXCEPT !.st = "bad"]
      ELSE [end EXCEPT !.fields = <<Message(type, Front(@))>>]

-----------------------------------------------------------------------------
\* The messages there are: a field of each kind its type has.  A boolean is 0
\* or 1, and the code before a value is that of its type.

HasField(fields, i, kind) ==
  CASE kind = "string" -> TRUE
    [] kind = "uint8"  -> Len(fields[i]) = 1
    [] kind = "uint16" -> Len(fields[i]) = 2
    [] kind = "uint32" -> Len(fields[i]) = 4
    [] kind = "value"  ->
         LET vtype == fields[i - 1][1] + 1 IN
         /\ vtype \in DOMAIN ValueSize
         /\ Len(fields[i]) = ValueSize[vtype]
         /\ vtype = 1 => fields[i] \in {<<0>>, <<1>>}

IsMessage(msg) ==
  /\ msg.type \in ToSet(MessageTypes)
  /\ msg.fields \in Seq(Seq(Byte))
  /\ msg = Message(msg.type, msg.fields)
  /\ Len(msg.fields) = Len(ReadLayout[msg.type])
  /\ \A i \in DOMAIN ReadLayout[msg.type] : HasField(msg.fields, i, ReadLayout[msg.type][i])
=============================================================================
