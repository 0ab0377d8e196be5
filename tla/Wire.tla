-------------------------------- MODULE Wire --------------------------------
(***************************************************************************)
(* The primitive types of the native protocol, encoded and decoded as      *)
(* src/src/LowLevel/ProtocolTypes does.                                    *)
(*                                                                         *)
(* A byte has Bits bits, so the limits of every length and integer are     *)
(* those of the code when Bits is 8 and come within reach of TLC when Bits *)
(* is small.  Encoding gives a sequence of bytes, or Thrown; decoding      *)
(* takes the bytes that are left and gives the value with the bytes left   *)
(* after it, or Refused.                                                   *)
(***************************************************************************)
EXTENDS Integers, Sequences, FiniteSets, SequencesExt

CONSTANT Bits                       \* of a byte

ASSUME BitsAssumption == Bits \in Nat \ {0}

Base == 2 ^ Bits

Thrown  == << -1 >>                 \* an EncodeException or LogicException
Refused == [ok |-> FALSE]           \* a DecodeException or LogicException
Took(v, rest) == [ok |-> TRUE, value |-> v, rest |-> rest]

\* The exceptions propagate: one part that throws, and the whole has thrown.
Cat(parts) == IF \E i \in DOMAIN parts : parts[i] = Thrown
              THEN Thrown ELSE FlattenSeq(parts)
Bind(r, Then(_, _)) == IF r.ok THEN Then(r.value, r.rest) ELSE Refused
Map(r, F(_)) == Bind(r, LAMBDA v, rest : Took(F(v), rest))

Drop(s, n) == SubSeq(s, n + 1, Len(s))

\* Seeded bug: nobody tests how much is left, and zeros are read past the end.
TakeAnyway(s, n) == Took([i \in 1..n |-> IF i \in DOMAIN s THEN s[i] ELSE 0], Drop(s, n))

\* The first n bytes as they are.
TakeBytes(s, n) == IF n > Len(s) THEN Refused ELSE Took(SubSeq(s, 1, n), Drop(s, n))

(* Integers *)

\* Truncated to k bytes, most significant first, two's complement.
RECURSIVE BigEndian(_, _)
BigEndian(k, v) == IF k = 0 THEN << >>
                   ELSE Append(BigEndian(k - 1, v \div Base), v % Base)

FromBigEndian(s, signed) ==
    LET first == IF signed /\ 2 * s[1] >= Base THEN s[1] - Base ELSE s[1]
    IN  FoldLeft(LAMBDA acc, b : acc * Base + b, first, Tail(s))

ReadInteger(t, s) ==
    Map(TakeBytes(s, t.width), LAMBDA b : FromBigEndian(b, t.signed))

Integer(width, signed) == [kind |-> "integer", width |-> width, signed |-> signed]
ProtocolByte  == Integer(1, FALSE)
ProtocolShort == Integer(2, FALSE)
ProtocolInt   == Integer(4, TRUE)
ProtocolLong  == Integer(8, TRUE)
ProtocolConsistency == ProtocolShort
ProtocolTimestamp   == ProtocolLong

\* A size_t narrowed to the type of a length or count, and read back.
Narrowed(t, n) == FromBigEndian(BigEndian(t.width, n), t.signed)

\* Seeded bug: a length written as it wraps.
NeverTooMany(t, n) == FALSE

TooMany(t, n) == Narrowed(t, n) # n

(* Sized strings: a length, then as many bytes.  A negative length stands  *)
(* for a state without bytes.                                              *)

Normal(b) == [state |-> 0, bytes |-> b]
NullString   == [state |-> -1, bytes |-> << >>]
NotSetString == [state |-> -2, bytes |-> << >>]

\* `states` are the negative lengths a decoder lets through, `others` what it
\* makes of any other: "null", or "throw".
SizedString(length, states, others, default) ==
    [kind |-> "string", length |-> length, states |-> states, others |-> others,
     default |-> default]
ProtocolString     == SizedString(ProtocolShort, {}, "throw", Normal(<< >>))
ProtocolShortBytes == SizedString(ProtocolShort, {}, "throw", Normal(<< >>))
ProtocolLongString == SizedString(ProtocolInt, {}, "throw", Normal(<< >>))
ProtocolBytes      == SizedString(ProtocolInt, {-1}, "null", NullString)
ProtocolValue      == SizedString(ProtocolInt, {-1, -2}, "throw", NotSetString)

EncodeSizedString(t, v) ==
    IF v.state # 0 THEN BigEndian(t.length.width, v.state)
    ELSE IF TooMany(t.length, Len(v.bytes)) THEN Thrown
    ELSE BigEndian(t.length.width, Len(v.bytes)) \o v.bytes

ReadSizedString(t, s) ==
    Bind(ReadInteger(t.length, s), LAMBDA n, rest :
        CASE n >= 0 -> Map(TakeBytes(rest, n), Normal)
          [] n < 0 /\ n \in t.states -> Took([state |-> n, bytes |-> << >>], rest)
          [] n < 0 /\ n \notin t.states ->
                IF t.others = "null" THEN Took(NullString, rest) ELSE Refused)

(* UUIDs and addresses *)

ProtocolUUID == [kind |-> "uuid"]
EncodeUUID(v) == BigEndian(8, v[1]) \o BigEndian(8, v[2])
ReadUUID(s) ==
    Bind(TakeBytes(s, 16), LAMBDA b, rest :
        Took(<<FromBigEndian(SubSeq(b, 1, 8), FALSE),
               FromBigEndian(SubSeq(b, 9, 16), FALSE)>>, rest))

ProtocolInetAddr == [kind |-> "inet_addr"]
EncodeInetAddr(v) == IF v = << >> THEN Thrown ELSE <<Len(v)>> \o v
ReadInetAddr(s) ==
    Bind(ReadInteger(ProtocolByte, s), LAMBDA n, rest :
        IF n \in {4, 16} THEN TakeBytes(rest, n) ELSE Refused)

\* The port is a 16 bit number in the program and an [int] on the wire.
ProtocolInet == [kind |-> "inet"]
EncodeInet(v) == Cat(<<EncodeInetAddr(v[1]), BigEndian(4, v[2])>>)
ReadInet(s) ==
    Bind(ReadInetAddr(s), LAMBDA addr, rest :
        Bind(ReadInteger(ProtocolInt, rest), LAMBDA port, rest2 :
            Took(<<addr, port % (Base ^ 2)>>, rest2)))

(* Variable length integers: the leading ones of the first byte count the  *)
(* bytes that follow.                                                      *)

\* ExtraBytesHeaders[n]: n ones, then zeros.
ExtraBytesHeader(n) == Base - 2 ^ (Bits - n)

SignificantBytes(v) == CHOOSE n \in 0..Bits : /\ v < Base ^ n
                                              /\ \A k \in 0..(n - 1) : v >= Base ^ k

\* Seeded bug: the header in a byte of its own.
HeaderApart(v) == LET n == SignificantBytes(v) IN <<ExtraBytesHeader(n)>> \o BigEndian(n, v)

\* The header goes into the first byte when the bits it takes there are clear.
EncodeUnsignedVint(v) ==
    LET n == SignificantBytes(v)
        b == BigEndian(n, v)
    IN  IF n = 0 THEN <<0>>
        ELSE IF b[1] >= 2 ^ (Bits - n) THEN <<ExtraBytesHeader(n)>> \o b
        ELSE <<b[1] + ExtraBytesHeader(n - 1)>> \o Tail(b)

LeadingOnes(b) == CHOOSE n \in 0..Bits : /\ b >= ExtraBytesHeader(n)
                                         /\ n < Bits => b < ExtraBytesHeader(n + 1)

ReadUnsignedVint(s) ==
    Bind(TakeBytes(s, 1), LAMBDA h, rest :
        LET extra == LeadingOnes(h[1])
        IN  Map(TakeBytes(rest, extra), LAMBDA b :
                FoldLeft(LAMBDA acc, c : acc * Base + c, h[1] - ExtraBytesHeader(extra), b)))

\* Zig-zag, in a word of Bits bytes.
ZigZag(v)   == IF v < 0 THEN -2 * v - 1 ELSE 2 * v
UnZigZag(u) == IF u % 2 = 1 THEN -((u + 1) \div 2) ELSE u \div 2

ProtocolUnsignedVint == [kind |-> "unsigned_vint"]
ProtocolVint         == [kind |-> "vint"]

(* Lists and maps: a count, then the elements one after the other. *)

ListOf(length, element) == [kind |-> "list", length |-> length, of |-> element]
MapOf(length, key, value) == [kind |-> "map", length |-> length, key |-> key, value |-> value]
ProtocolStringList == ListOf(ProtocolShort, ProtocolString)
ProtocolStringMap  == MapOf(ProtocolShort, ProtocolString, ProtocolString)
ProtocolStringMultiMap == MapOf(ProtocolShort, ProtocolString, ProtocolStringList)
ProtocolBytesMap   == MapOf(ProtocolShort, ProtocolString, ProtocolBytes)
ProtocolValueList  == ListOf(ProtocolShort, ProtocolValue)
ProtocolValueMap   == MapOf(ProtocolShort, ProtocolString, ProtocolValue)

RECURSIVE Encode(_, _)

EncodeList(t, v) ==
    IF TooMany(t.length, Len(v)) THEN Thrown
    ELSE Cat(<<BigEndian(t.length.width, Len(v))>> \o [i \in DOMAIN v |-> Encode(t.of, v[i])])

\* A map is a function.  Its entries come in the order of the hash table,
\* which nothing fixes.
EncodeMap(t, v) ==
    LET keys == SetToSeq(DOMAIN v)
    IN  IF TooMany(t.length, Len(keys)) THEN Thrown
        ELSE Cat(<<BigEndian(t.length.width, Len(keys))>> \o
                 [i \in DOMAIN keys |-> Cat(<<Encode(t.key, keys[i]),
                                              Encode(t.value, v[keys[i]])>>)])

Encode(t, v) ==
    CASE t.kind = "integer" -> BigEndian(t.width, v)
      [] t.kind = "string" -> EncodeSizedString(t, v)
      [] t.kind = "uuid" -> EncodeUUID(v)
      [] t.kind = "inet_addr" -> EncodeInetAddr(v)
      [] t.kind = "inet" -> EncodeInet(v)
      [] t.kind = "unsigned_vint" -> EncodeUnsignedVint(v)
      [] t.kind = "vint" -> EncodeUnsignedVint(ZigZag(v))
      [] t.kind = "list" -> EncodeList(t, v)
      [] t.kind = "map" -> EncodeMap(t, v)

RECURSIVE Read(_, _), ReadElements(_, _, _), ReadEntries(_, _, _)

ReadElements(t, n, s) ==
    IF n = 0 THEN Took(<< >>, s)
    ELSE Bind(Read(t, s), LAMBDA v, rest :
             Map(ReadElements(t, n - 1, rest), LAMBDA vs : <<v>> \o vs))

\* emplace keeps the entry that is there: the first of two equal keys wins.
ReadEntries(t, n, s) ==
    IF n = 0 THEN Took(<< >>, s)
    ELSE Bind(Read(t.key, s), LAMBDA k, rest :
             Bind(Read(t.value, rest), LAMBDA v, rest2 :
                 Map(ReadEntries(t, n - 1, rest2), LAMBDA m :
                     [x \in {k} \cup DOMAIN m |-> IF x = k THEN v ELSE m[x]])))

Read(t, s) ==
    CASE t.kind = "integer" -> ReadInteger(t, s)
      [] t.kind = "string" -> ReadSizedString(t, s)
      [] t.kind = "uuid" -> ReadUUID(s)
      [] t.kind = "inet_addr" -> ReadInetAddr(s)
      [] t.kind = "inet" -> ReadInet(s)
      [] t.kind = "unsigned_vint" -> ReadUnsignedVint(s)
      [] t.kind = "vint" -> Map(ReadUnsignedVint(s), UnZigZag)
      [] t.kind = "list" ->
             Bind(ReadInteger(t.length, s), LAMBDA n, rest : ReadElements(t.of, n, rest))
      [] t.kind = "map" ->
             Bind(ReadInteger(t.length, s), LAMBDA n, rest : ReadEntries(t, n, rest))
=============================================================================
