---------------------------- MODULE ColumnTypes ----------------------------
(***************************************************************************)
(* The column types a program binds to parameters and results              *)
(* (include/CQLDriver/Common/ColumnTypes), encoded and decoded as          *)
(* ColumnTrait does: a size, then a body, and a negative size for null.    *)
(*                                                                         *)
(* A C++ type is a descriptor, a record; those of local dates and times    *)
(* name the zone of the process, which C++ has in the environment (TZ).  A *)
(* value is                                                                *)
(*   a number or a sequence of bytes for the simple types,                 *)
(*   ticks of the system clock since the epoch (UTC) for dates and times,  *)
(*   <<scale, unscaled>> for a decimal, <<high, low>> for a UUID,          *)
(*   a sequence, set, function or tuple for collections, and               *)
(*   <<>> or <<value>> for a Nullable.                                     *)
(***************************************************************************)
EXTENDS Wire

CONSTANTS
    SecondsPerDay,         \* 86400
    NanoSecondsPerSecond,  \* clock ticks in a second
    MilliSecondsPerSecond, \* and how many milliseconds they are
    Zones,                 \* time zones a process may run in
    Offset,                \* of each: local standard time minus UTC, in seconds
    Summer,                \* the UTC seconds on which local time is ahead,
    SummerShift,           \* by so many seconds
    OverflowWraps          \* what the build makes of an int32 overflow: wrap,
                           \* or carry on in a wider register

ASSUME ColumnTypesAssumption ==
    /\ {SecondsPerDay, NanoSecondsPerSecond, MilliSecondsPerSecond} \subseteq Nat \ {0}
    /\ NanoSecondsPerSecond % MilliSecondsPerSecond = 0
    /\ Offset \in [Zones -> Int] /\ SummerShift \in Nat
    /\ DOMAIN Summer = Zones /\ \A z \in Zones : Summer[z] \subseteq Int
    /\ OverflowWraps \in BOOLEAN

(* C++ arithmetic *)

\* Division truncates towards zero, and % takes the sign of its left side.
Abs(n) == IF n < 0 THEN -n ELSE n
Quot(a, b) == IF (a < 0) = (b < 0) THEN Abs(a) \div Abs(b) ELSE -(Abs(a) \div Abs(b))
Rem(a, b)  == a - b * Quot(a, b)

Signed(width, v) ==
    LET u == v % Base ^ width IN IF 2 * u >= Base ^ width THEN u - Base ^ width ELSE u

(* The types *)

Number(width)  == [kind |-> "number", width |-> width]
TinyInt  == Number(1)
SmallInt == Number(2)
ColumnInt == Number(4)
BigInt   == Number(8)
Counter  == Number(8)
Boolean  == TinyInt     \* set from a bool, but any byte when decoded
Floating(width) == [kind |-> "floating", width |-> width]
Float    == Floating(4)
Double   == Floating(8)
Text     == [kind |-> "bytes"]
Ascii    == Text
Blob     == Text
MemRef   == Text
Date(zone) == [kind |-> "date", zone |-> zone]
Time(zone) == [kind |-> "time", zone |-> zone]
Timestamp == [kind |-> "timestamp"]
Decimal  == [kind |-> "decimal"]
VarInt   == [kind |-> "varint"]
UUID     == [kind |-> "uuid"]
TimeUUID == UUID
InetAddress == [kind |-> "inet"]
List(element)     == [kind |-> "list", of |-> element]
ColumnSet(element) == [kind |-> "set", of |-> element]
ColumnMap(key, value) == [kind |-> "map", key |-> key, value |-> value]
Tuple(fields)     == [kind |-> "tuple", fields |-> fields]
UDT(fields)       == [kind |-> "udt", fields |-> fields]
Nullable(type)    == [kind |-> "nullable", of |-> type]

\* What reset() leaves.
RECURSIVE Initial(_)
Initial(t) ==
    CASE t.kind \in {"number", "varint"} -> 0
      [] t.kind = "floating" -> [i \in 1..t.width |-> 0]
      [] t.kind \in {"bytes", "list", "map", "nullable"} -> << >>
      [] t.kind \in {"date", "timestamp"} -> 0
      [] t.kind = "time" -> -Offset[t.zone] * NanoSecondsPerSecond
      [] t.kind \in {"decimal", "uuid"} -> <<0, 0>>
      [] t.kind = "inet" -> <<0, 0, 0, 0>>
      [] t.kind = "set" -> {}
      [] t.kind \in {"tuple", "udt"} -> [i \in DOMAIN t.fields |-> Initial(t.fields[i])]

(* Dates and times *)

\* The time_t of a time point, local time of a UTC second (localtime_r then
\* timegm) and back (gmtime_r leaves tm_isdst zero, so mktime takes the local
\* time for standard time, in summer too).
ToTimeT(v) == Quot(v, NanoSecondsPerSecond)
LocalTime(z, utc) == utc + Offset[z] + (IF utc \in Summer[z] THEN SummerShift ELSE 0)

\* Seeded bug: the local time kept as it is.
FromUTC(z, utc) == utc * NanoSecondsPerSecond

FromLocal(z, local) == (local - Offset[z]) * NanoSecondsPerSecond

EpochBoundary == Base ^ 3 * (Base \div 2)
EncodeDate(z, v) == BigEndian(4, EpochBoundary + Quot(LocalTime(z, ToTimeT(v)), SecondsPerDay))
DecodeDate(z, b) ==
    LET days == Signed(4, FromBigEndian(b, FALSE) - EpochBoundary)
        seconds == days * SecondsPerDay                  \* of two int32
    IN  FromLocal(z, IF OverflowWraps THEN Signed(4, seconds) ELSE seconds)

\* Time since midnight, on the first day of the epoch.
SetTime(z, ticks) ==
    FromLocal(z, Quot(ticks, NanoSecondsPerSecond)) + Rem(ticks, NanoSecondsPerSecond)
TicksOfDay(z, v) == Rem(LocalTime(z, ToTimeT(v)), SecondsPerDay) * NanoSecondsPerSecond
                    + Rem(v, NanoSecondsPerSecond)

TicksPerMilliSecond == NanoSecondsPerSecond \div MilliSecondsPerSecond
EncodeTimestamp(v) == BigEndian(8, Quot(v, TicksPerMilliSecond))
DecodeTimestamp(b) == FromBigEndian(b, TRUE) * TicksPerMilliSecond

(* Numbers of any length *)

\* The longest run of leading bytes the next byte's sign bit repeats is left
\* out.
EncodeVarInt(v) ==
    LET b == BigEndian(8, v)
        Redundant(n) == \A i \in 1..n :
            \/ b[i] = 0 /\ 2 * b[i + 1] < Base
            \/ b[i] = Base - 1 /\ 2 * b[i + 1] >= Base
    IN  Drop(b, CHOOSE n \in 0..7 : Redundant(n) /\ (n < 7 => ~Redundant(n + 1)))

ReadVarInt(b) ==
    CASE Len(b) = 0 -> Took(0, << >>)
      [] Len(b) > 8 -> Refused
      [] Len(b) \in 1..8 -> Took(FromBigEndian(b, TRUE), << >>)

(* Decimals: unscaled * 10 ^ -scale.  powInteger gives an unsigned 64 bit   *)
(* number, which makes a division one of unsigned numbers.                 *)

Signed64(v) == Signed(8, v)
powInteger(n) == 10 ^ n
UnsignedQuot(a, b) == Signed64((a % Base ^ 8) \div b)

ScaleTo(d, scale) ==
    <<scale, IF d[1] > scale THEN UnsignedQuot(d[2], powInteger(d[1] - scale))
             ELSE Signed64(d[2] * powInteger(scale - d[1]))>>

\* The trailing zeros after the point go.
Strip(d) ==
    LET Zeros(n) == d[2] # 0 /\ n <= d[1] /\ d[2] % powInteger(n) = 0
        n == Max({0} \cup {k \in 1..d[1] : Zeros(k)})
    IN  <<d[1] - n, Quot(d[2], powInteger(n))>>

\* Seeded bug: each at the other's scale.
AlignedCrosswise(a, b) ==
    <<Signed64(a[2] * powInteger(Max({0, a[1] - b[1]}))),
      Signed64(b[2] * powInteger(Max({0, b[1] - a[1]})))>>

\* Both unscaled numbers at the larger scale.
Aligned(a, b) ==
    <<Signed64(a[2] * powInteger(Max({0, b[1] - a[1]}))),
      Signed64(b[2] * powInteger(Max({0, a[1] - b[1]})))>>
AddDecimals(a, b) == <<Max({a[1], b[1]}), Signed64(Aligned(a, b)[1] + Aligned(a, b)[2])>>
SubtractDecimals(a, b) == <<Max({a[1], b[1]}), Signed64(Aligned(a, b)[1] - Aligned(a, b)[2])>>
MultiplyDecimals(a, b) == <<a[1] + b[1], Signed64(a[2] * b[2])>>
DivideDecimals(a, b) ==
    <<a[1], Quot(IF b[1] < 0 THEN UnsignedQuot(a[2], powInteger(-b[1]))
                 ELSE Signed64(a[2] * powInteger(b[1])), b[2])>>
LessDecimal(a, b) == Aligned(a, b)[1] < Aligned(a, b)[2]
EqualDecimals(a, b) == Aligned(a, b)[1] = Aligned(a, b)[2]

(* Bodies and columns *)

RECURSIVE EncodeBody(_, _)

\* ColumnTrait::encode.  The size of the body is narrowed to an [int].
EncodeColumn(t, v) ==
    IF t.kind = "nullable" /\ v = << >> THEN BigEndian(4, -1)
    ELSE LET body == IF t.kind = "nullable" THEN EncodeBody(t.of, v[1]) ELSE EncodeBody(t, v)
         IN  BigEndian(4, Len(body)) \o body

EncodeEach(t, vs) == FlattenSeq([i \in DOMAIN vs |-> EncodeColumn(t, vs[i])])

\* The order of a set or map is that of its container.
EncodeBody(t, v) ==
    CASE t.kind = "number" -> BigEndian(t.width, v)
      [] t.kind = "floating" -> Reverse(v)   \* as the (little endian) host has it
      [] t.kind \in {"bytes", "inet"} -> v
      [] t.kind = "date" -> EncodeDate(t.zone, v)
      [] t.kind = "time" -> BigEndian(8, TicksOfDay(t.zone, v))
      [] t.kind = "timestamp" -> EncodeTimestamp(v)
      [] t.kind = "varint" -> EncodeVarInt(v)
      [] t.kind = "decimal" -> BigEndian(4, v[1]) \o EncodeVarInt(v[2])
      [] t.kind = "uuid" -> BigEndian(8, v[1]) \o BigEndian(8, v[2])
      [] t.kind = "list" -> BigEndian(4, Len(v)) \o EncodeEach(t.of, v)
      [] t.kind = "set" -> BigEndian(4, Cardinality(v)) \o EncodeEach(t.of, SetToSeq(v))
      [] t.kind = "map" ->
             BigEndian(4, Cardinality(DOMAIN v)) \o
             FlattenSeq([i \in 1..Cardinality(DOMAIN v) |->
                            LET k == SetToSeq(DOMAIN v)[i]
                            IN  EncodeColumn(t.key, k) \o EncodeColumn(t.value, v[k])])
      [] t.kind \in {"tuple", "udt"} ->
             FlattenSeq([i \in DOMAIN v |-> EncodeColumn(t.fields[i], v[i])])

RECURSIVE DecodeBody(_, _), DecodeItems(_, _), DecodeFields(_, _, _)

\* ColumnTrait::decode.  Whatever decodeBody leaves of the body is skipped.
DecodeColumn(t, s) ==
    Bind(ReadInteger(ProtocolInt, s), LAMBDA size, rest :
        CASE size >= 0 ->
                 Bind(TakeBytes(rest, size), LAMBDA body, after :
                     IF t.kind = "nullable"
                     THEN Bind(DecodeBody(t.of, body), LAMBDA v, left : Took(<<v>>, after))
                     ELSE Bind(DecodeBody(t, body), LAMBDA v, left : Took(v, after)))
          [] size < 0 /\ t.kind = "nullable" -> Took(<< >>, rest)
          [] size < 0 /\ t.kind # "nullable" -> Refused)

\* A fixed size body, empty for the initial value.
DecodeFixed(t, sizes, b, Value(_)) ==
    CASE b = << >> -> Took(Initial(t), << >>)
      [] Len(b) \in sizes -> Took(Value(b), << >>)
      [] b # << >> /\ Len(b) \notin sizes -> Refused

\* The columns of the types ts, one after the other.
DecodeItems(ts, s) ==
    IF ts = << >> THEN Took(<< >>, s)
    ELSE Bind(DecodeColumn(Head(ts), s), LAMBDA v, rest :
             Map(DecodeItems(Tail(ts), rest), LAMBDA vs : <<v>> \o vs))

\* The same for a UDT, which may have less values than fields.
DecodeFields(ts, i, s) ==
    IF i > Len(ts) THEN Took(<< >>, s)
    ELSE Bind(IF s = << >> THEN Took(Initial(ts[i]), s) ELSE DecodeColumn(ts[i], s),
              LAMBDA v, rest : Map(DecodeFields(ts, i + 1, rest), LAMBDA vs : <<v>> \o vs))

\* A collection: its size, then so many times the types of an item.
DecodeCollection(item, b, Value(_)) ==
    Bind(ReadInteger(ProtocolInt, b), LAMBDA n, rest :
        IF n < 0 THEN Refused
        ELSE Map(DecodeItems([i \in 1..(n * Len(item)) |-> item[1 + ((i - 1) % Len(item))]], rest),
                 Value))

\* emplace keeps the first of two equal keys.
MapOfPairs(kvs) ==
    LET first(k) == Min({i \in 1..(Len(kvs) \div 2) : kvs[2 * i - 1] = k})
    IN  [k \in {kvs[2 * i - 1] : i \in 1..(Len(kvs) \div 2)} |-> kvs[2 * first(k)]]

DecodeBody(t, b) ==
    CASE t.kind = "number" ->
             DecodeFixed(t, {t.width}, b, LAMBDA x : FromBigEndian(x, TRUE))
      [] t.kind = "floating" -> DecodeFixed(t, {t.width}, b, Reverse)
      [] t.kind = "bytes" -> Took(b, << >>)
      [] t.kind = "inet" -> DecodeFixed(t, {4, 16}, b, LAMBDA x : x)
      [] t.kind = "date" -> DecodeFixed(t, {4}, b, LAMBDA x : DecodeDate(t.zone, x))
      [] t.kind = "time" ->
             DecodeFixed(t, {8}, b, LAMBDA x : SetTime(t.zone, FromBigEndian(x, TRUE)))
      [] t.kind = "timestamp" -> DecodeFixed(t, {8}, b, DecodeTimestamp)
      [] t.kind = "varint" -> ReadVarInt(b)
      [] t.kind = "decimal" ->
             IF b = << >> THEN Took(Initial(t), << >>)
             ELSE IF Len(b) < 5 THEN Refused
             ELSE Map(ReadVarInt(Drop(b, 4)), LAMBDA unscaled :
                      <<FromBigEndian(SubSeq(b, 1, 4), TRUE), unscaled>>)
      [] t.kind = "uuid" -> DecodeFixed(t, {16}, b, LAMBDA x : ReadUUID(x).value)
      [] t.kind = "list" -> DecodeCollection(<<t.of>>, b, LAMBDA vs : vs)
      [] t.kind = "set" -> DecodeCollection(<<t.of>>, b, ToSet)
      [] t.kind = "map" -> DecodeCollection(<<t.key, t.value>>, b, MapOfPairs)
      [] t.kind = "tuple" -> DecodeItems(t.fields, b)
      [] t.kind = "udt" -> DecodeFields(t.fields, 1, b)
=============================================================================
