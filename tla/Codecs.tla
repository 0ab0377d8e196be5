------------------------------- MODULE Codecs -------------------------------
(***************************************************************************)
(* What one side encodes the other decodes: the protocol types, columns    *)
(* and metadata, over a transport that may hand over only the beginning of *)
(* what was written, or more than one item.                                *)
(*                                                                         *)
(* An item is a codec, a type for it and a value.  Decoders of metadata    *)
(* decode into an object that has decoded other metadata before, as those  *)
(* of a reused ResultMessage do.                                           *)
(***************************************************************************)
EXTENDS ColumnTypes, Metadata

CONSTANTS
    Items,      \* [codec, type, value]: what may be written
    Bodies,     \* [type, body]: column bodies another client may have written
    Decimals    \* operands of the arithmetic on decimals

VARIABLES
    phase,      \* of the exchange of an item
    item,       \* the item
    bytes,      \* what was written for it, or Thrown
    delivered,  \* what the decoder was given
    result,     \* what it made of it
    object      \* the metadata object it decoded into last

vars == <<phase, item, bytes, delivered, result, object>>

Nothing == [codec |-> "none"]

Write(i) ==
    CASE i.codec = "wire" -> Encode(i.type, i.value)
      [] i.codec = "column" -> EncodeColumn(i.type, i.value)
      [] i.codec = "option" -> EncodeOption(i.value)
      [] i.codec = "prepared" -> EncodePreparedMetadata(i.value)
      [] i.codec = "rows" -> EncodeRowsMetadata(i.value)

Parse(i, into, s) ==
    CASE i.codec = "wire" -> Read(i.type, s)
      [] i.codec = "column" -> DecodeColumn(i.type, s)
      [] i.codec = "option" -> ReadOption(s)
      [] i.codec = "prepared" -> ReadPreparedMetadata(into, s)
      [] i.codec = "rows" -> ReadRowsMetadata(into, s)

IsMetadata(i) == i.codec \in {"prepared", "rows"}
Fresh(i) == IF i.codec = "prepared" THEN NoPreparedMetadata ELSE NoRowsMetadata

Init ==
    /\ phase = "idle"
    /\ item = Nothing
    /\ bytes = << >> /\ delivered = << >>
    /\ result = Refused
    /\ object = Nothing

\* An item is written, by either side.
Put(i) ==
    /\ phase = "idle"
    /\ object # Nothing => i.codec = object.codec
    /\ phase' = "written"
    /\ item' = i
    /\ bytes' = Write(i)
    /\ UNCHANGED <<delivered, result, object>>

\* A column body of the server's.
PutBody(b) ==
    /\ phase = "idle" /\ object = Nothing
    /\ phase' = "written"
    /\ item' = [codec |-> "body", type |-> b.type]
    /\ bytes' = BigEndian(4, Len(b.body)) \o b.body
    /\ UNCHANGED <<delivered, result, object>>

\* Or a program does sums.
Calculate(a, b) ==
    /\ phase = "idle" /\ object = Nothing
    /\ phase' = "done"
    /\ item' = [codec |-> "decimals", a |-> a, b |-> b]
    /\ UNCHANGED <<bytes, delivered, result, object>>

\* All of it with the beginning of what follows, or only a part.
Deliver ==
    /\ phase = "written" /\ bytes # Thrown
    /\ phase' = "delivered"
    /\ \/ \E n \in 0..Len(bytes) : delivered' = SubSeq(bytes, 1, n)
       \/ \E next \in {0, Base - 1} : delivered' = Append(bytes, next)
    /\ UNCHANGED <<item, bytes, result, object>>

Take ==
    /\ phase = "delivered"
    /\ phase' = "taken"
    /\ result' = IF item.codec = "body" THEN DecodeColumn(item.type, delivered)
                 ELSE Parse(item, IF object = Nothing THEN Fresh(item) ELSE object.value, delivered)
    /\ UNCHANGED <<item, bytes, delivered, object>>

\* The object that has decoded metadata decodes another.
Reuse ==
    /\ phase = "taken" /\ IsMetadata(item) /\ result.ok
    /\ object = Nothing
    /\ phase' = "idle"
    /\ object' = [codec |-> item.codec,
                  value |-> IF item.codec = "rows" THEN ResetRowsMetadata(result.value)
                            ELSE NoPreparedMetadata]
    /\ item' = Nothing /\ bytes' = << >> /\ delivered' = << >> /\ result' = Refused

Next ==
    \/ \E i \in Items : Put(i)
    \/ \E b \in Bodies : PutBody(b)
    \/ \E a, b \in Decimals : Calculate(a, b)
    \/ Deliver
    \/ Take
    \/ Reuse

Spec == Init /\ [][Next]_vars

-----------------------------------------------------------------------------
(* Properties *)

Received == phase = "taken"
Complete == Received /\ Len(delivered) >= Len(bytes)

\* The second of local time an instant lies in, before the epoch too.
LocalSecond(z, v) == LocalTime(z, v \div NanoSecondsPerSecond)

\* What has to arrive of a value: a date loses the time of the day and a time
\* the date, a UDT written before fields were added has initial values there,
\* and metadata shows what its flags announce.
Shown(i) ==
    CASE i.codec = "column" /\ i.type.kind = "date" ->
             FromLocal(i.type.zone,
                       (LocalSecond(i.type.zone, i.value) \div SecondsPerDay) * SecondsPerDay)
      [] i.codec = "column" /\ i.type.kind = "time" ->
             SetTime(i.type.zone,
                     (LocalSecond(i.type.zone, i.value) % SecondsPerDay) * NanoSecondsPerSecond
                     + (i.value % NanoSecondsPerSecond))
      [] i.codec = "column" /\ i.type.kind = "udt" ->
             [n \in DOMAIN i.type.fields |-> IF n \in DOMAIN i.value THEN i.value[n]
                                             ELSE Initial(i.type.fields[n])]
      [] OTHER -> i.value

Named(m) == IF GlobalTableSpec \in m.flags THEN [n \in DOMAIN m.columns |->
                    <<m.globalKeySpace, m.globalTable, m.columns[n].name, m.columns[n].type>>]
            ELSE [n \in DOMAIN m.columns |->
                    <<m.columns[n].keySpace, m.columns[n].table, m.columns[n].name,
                      m.columns[n].type>>]

SameMetadata(codec, m, w) ==
    /\ m.flags = w.flags
    /\ codec = "prepared" => /\ m.partitionKeyIndexes = w.partitionKeyIndexes
                             /\ Named(m) = Named(w)
    /\ codec = "rows" => /\ m.columnsCount = w.columnsCount
                         /\ HasMorePages \in w.flags => m.pagingState = w.pagingState
                         /\ NoMetadata \notin w.flags => Named(m) = Named(w)

\* What was written arrives, whatever the decoder decoded before, and what
\* follows it is left to be decoded next: every encode and decode of
\* ProtocolTypes, ColumnTypes and the metadata, whose positions and sizes the
\* next decode depends on, and their length limits, which refuse a value
\* instead of writing a length that has wrapped around.  Of a date that is the
\* local date (Date::encodeBody), which holds of the instants since the local
\* epoch and of midnights before it (see Items).
DecodeInvertsEncode ==
    Complete /\ item.codec # "body" =>
        /\ result.ok
        /\ IF IsMetadata(item) THEN SameMetadata(item.codec, result.value, item.value)
           ELSE result.value = Shown(item)
        /\ result.rest = Drop(delivered, Len(bytes))

\* Half an item is never taken for a whole one: every decode tests what is
\* left before it takes it.
TruncationRefused == Received /\ Len(delivered) < Len(bytes) => ~result.ok

\* A column another client wrote and this program read and wrote back is the
\* same column: dates, times of the day, timestamps, numbers of either sign
\* (DateTimeBase keeps UTC, the column is local time), in any zone.  It holds of
\* dates but those in a summer before 1970, and of times of the day where the
\* first day of the epoch has no summer time (see Bodies).
BodiesComeBack ==
    Complete /\ item.codec = "body" =>
        /\ result.ok
        /\ EncodeColumn(item.type, result.value) = bytes

\* A [vint] takes the fewest bytes that can hold it, Bits - 1 bits in each
\* (VariableIntegerBase puts the header into the first byte when there is
\* room for it).
VintsShortest ==
    phase = "written" /\ item.codec = "wire" /\ item.type.kind = "unsigned_vint" =>
        \A n \in 1..Bits : Len(bytes) <= n <=> item.value < 2 ^ ((Bits - 1) * n)

\* Decimal arithmetic is arithmetic: sums, differences and orders are those of
\* the numbers at a common scale; a larger scale keeps the number, a smaller
\* one cuts digits off; stripping zeros changes nothing; a quotient has the
\* scale of the dividend (Decimal::scale, Decimal::strip, DecimalOperations).
\* Negative numbers are left out where an unsigned power of ten divides: in
\* scale and in a division by a number of negative scale.
DecimalsAreNumbers ==
    item.codec = "decimals" =>
        LET a == item.a
            b == item.b
            common == Max({d[1] : d \in Decimals})
            Number10(d) == d[2] * 10 ^ (common - d[1])
        IN  /\ Number10(AddDecimals(a, b)) = Number10(a) + Number10(b)
            /\ Number10(SubtractDecimals(a, b)) = Number10(a) - Number10(b)
            /\ LessDecimal(a, b) <=> Number10(a) < Number10(b)
            /\ EqualDecimals(a, b) <=> Number10(a) = Number10(b)
            /\ Number10(Strip(a)) = Number10(a)
            /\ b[1] >= a[1] => Number10(ScaleTo(a, b[1])) = Number10(a)
            /\ b[1] < a[1] /\ a[2] >= 0 =>
                   ScaleTo(a, b[1]) = <<b[1], a[2] \div 10 ^ (a[1] - b[1])>>
            /\ b[2] # 0 /\ b[1] >= 0 =>
                   DivideDecimals(MultiplyDecimals(a, b), b) = <<a[1] + b[1], a[2] * 10 ^ b[1]>>
            /\ b[2] # 0 /\ b[1] < 0 /\ a[2] >= 0 =>
                   DivideDecimals(a, b) = <<a[1], Quot(a[2], b[2] * 10 ^ (-b[1]))>>
=============================================================================
