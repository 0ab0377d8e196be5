------------------------------ MODULE MCCodecs ------------------------------
(***************************************************************************)
(* Codecs with bytes of three bits: a [short] counts to 63, an [int] from  *)
(* -2048 to 2047, and the eight bytes of a [long] are a TLC number.        *)
(***************************************************************************)
EXTENDS Codecs

Item(codec, type, value) == [codec |-> codec, type |-> type, value |-> value]

Ints(width) == LET top == Base ^ width \div 2
               IN  {-top, -top + 1, -129, -2, -1, 0, 1, 3, 4, 31, 32, top - 1} \cap (-top .. top - 1)
Nats(width) == {0, 1, 2, 3, 4, 7, 8, 30, 63, Base ^ width - 1} \cap (0 .. Base ^ width - 1)

Bytes(n) == [i \in 1..n |-> i % Base]
Words == {Normal(Bytes(n)) : n \in {0, 1, 3}}
a == Normal(<<1>>)
b == Normal(<<2, 1>>)

WireItems ==
    {Item("wire", ProtocolByte, v) : v \in Nats(1)} \cup
    {Item("wire", ProtocolShort, v) : v \in Nats(2)} \cup
    {Item("wire", ProtocolInt, v) : v \in Ints(4)} \cup
    {Item("wire", ProtocolLong, v) : v \in Ints(8)} \cup
    {Item("wire", ProtocolConsistency, v) : v \in 0..10} \cup
    {Item("wire", ProtocolTimestamp, v) : v \in {-1, 0, 100}} \cup
    {Item("wire", ProtocolString, v) : v \in Words \cup {Normal(Bytes(63)), Normal(Bytes(64))}} \cup
    {Item("wire", ProtocolShortBytes, v) : v \in Words} \cup
    {Item("wire", ProtocolLongString, v) : v \in Words \cup {Normal(Bytes(64))}} \cup
    {Item("wire", ProtocolBytes, v) : v \in Words \cup {NullString}} \cup
    {Item("wire", ProtocolValue, v) : v \in Words \cup {NullString, NotSetString}} \cup
    {Item("wire", ProtocolUUID, <<h, l>>) : h, l \in Nats(8)} \cup
    {Item("wire", ProtocolInetAddr, Bytes(4))} \cup
    {Item("wire", ProtocolInet, <<Bytes(4), p>>) : p \in Nats(2)} \cup
    {Item("wire", ProtocolUnsignedVint, v) : v \in 0 .. Base ^ Bits - 1} \cup
    {Item("wire", ProtocolVint, v) : v \in Ints(Bits)} \cup
    {Item("wire", ProtocolStringList, v) : v \in {<< >>, <<a>>, <<b, a, a>>, [i \in 1..64 |-> a]}} \cup
    {Item("wire", ProtocolStringMap, v) : v \in {<< >>} \cup [{a, b} -> {a, b}]} \cup
    {Item("wire", ProtocolStringMultiMap, v) : v \in [{a, b} -> {<< >>, <<b, a>>}]} \cup
    {Item("wire", ProtocolBytesMap, v) : v \in [{a} -> {NullString, b}]} \cup
    {Item("wire", ProtocolValueList, v) : v \in {<<NotSetString, a>>, <<NullString>>}} \cup
    {Item("wire", ProtocolValueMap, v) : v \in [{b} -> {NullString, a}]}

Pair == Tuple(<<ColumnInt, Text>>)
Entry == UDT(<<Nullable(SmallInt), Text, ColumnSet(TinyInt)>>)
NullInt == Nullable(SmallInt)

(* Dates and times of the day: of the instants and days tried those for     *)
(* which the properties hold.  The others are what the hazard of            *)
(* DateTimeBase::set, and the overflow in Date::decodeBody, are about.       *)

Instants == -200..200
SinceLocalEpoch(z) == {v \in Instants : LocalSecond(z, v) >= 0}
LocalMidnights(z) == {v \in Instants : /\ v % NanoSecondsPerSecond = 0
                                       /\ LocalSecond(z, v) % SecondsPerDay = 0}
KeptDates(z) == SinceLocalEpoch(z) \cup LocalMidnights(z)
TimesOfDay == 0 .. SecondsPerDay * NanoSecondsPerSecond - 1
ZonesWithPlainEpoch ==
    {z \in Zones : \A s \in 0 .. SecondsPerDay - 1 : s - Offset[z] \notin Summer[z]}

DateItems == UNION {{Item("column", Date(z), v) : v \in KeptDates(z)} : z \in Zones}
TimeItems == UNION {{Item("column", Time(z), v) :
                        v \in SinceLocalEpoch(z) \cup {SetTime(z, t) : t \in TimesOfDay}} :
                    z \in ZonesWithPlainEpoch}

ColumnItems ==
    {Item("column", TinyInt, v) : v \in Ints(1)} \cup
    {Item("column", SmallInt, v) : v \in Ints(2)} \cup
    {Item("column", ColumnInt, v) : v \in Ints(4)} \cup
    {Item("column", t, v) : t \in {BigInt, Counter, VarInt}, v \in Ints(8)} \cup
    {Item("column", Boolean, v) : v \in {0, 1}} \cup
    {Item("column", Float, Bytes(4)), Item("column", Double, Bytes(8))} \cup
    {Item("column", t, Bytes(n)) : t \in {Text, Ascii, Blob, MemRef}, n \in {0, 1, 3}} \cup
    DateItems \cup TimeItems \cup
    {Item("column", Timestamp, v * TicksPerMilliSecond) : v \in -20..20} \cup
    {Item("column", Decimal, <<s, u>>) : s \in Ints(4), u \in Ints(8)} \cup
    {Item("column", t, <<h, l>>) : t \in {UUID, TimeUUID}, h, l \in {0, 5, Base ^ 8 - 1}} \cup
    {Item("column", InetAddress, Bytes(n)) : n \in {4, 16}} \cup
    {Item("column", List(NullInt), v) : v \in {<< >>, <<<<1>>, << >>, <<1>>>>, <<<<-1>>>>}} \cup
    {Item("column", List(List(TinyInt)), v) : v \in {<<<<1>>, << >>>>, <<<<2, -1>>, <<0>>>>}} \cup
    {Item("column", ColumnSet(Text), v) : v \in SUBSET {<< >>, <<1>>, <<2, 1>>}} \cup
    {Item("column", ColumnMap(TinyInt, NullInt), v) : v \in [{1, 2} -> {<< >>, <<3>>}]} \cup
    {Item("column", Pair, v) : v \in {<<0, << >>>>, <<-1, <<2>>>>}} \cup
    {Item("column", Nullable(Pair), v) : v \in {<< >>, <<<<-1, <<2>>>>>>}} \cup
    {Item("column", Entry, v) : v \in {<< >>, <<<< >>>>, <<<<5>>, <<1>>>>, <<<<5>>, << >>, {1, 2}>>}}

Simple == Option(9)
Of(p) == SetPayload(Option(p.type), p)
Options ==
    {Simple, Of(CustomPayload(a)), Of(ElementPayload(ListType, Simple)),
     Of(ElementPayload(SetType, Of(ElementPayload(ListType, Simple)))),
     Of(MapPayload(Simple, Of(TuplePayload(<<Simple, Option(1)>>)))), Of(TuplePayload(<< >>)),
     Of(UDTPayload(a, b, <<<<a, Simple>>, <<b, Of(MapPayload(Simple, Simple))>>>>)),
     Option(ListType)}

Column1 == [keySpace |-> a, table |-> b, name |-> a, type |-> Simple]
Column2 == [keySpace |-> b, table |-> b, name |-> b, type |-> Of(ElementPayload(SetType, Simple))]
SomeColumns == {<< >>, <<Column1>>, <<Column2, Column1>>}

PreparedItems ==
    LET plain == {[NoPreparedMetadata EXCEPT !.columns = cs, !.partitionKeyIndexes = ks] :
                     cs \in SomeColumns, ks \in {<< >>, <<0, 2>>}}
    IN  plain \cup {SetGlobalTable(m, b, a) : m \in plain}

RowsItems ==
    LET counted == {[NoRowsMetadata EXCEPT !.columnsCount = 2]} \cup
                   {SetColumns(NoRowsMetadata, cs) : cs \in SomeColumns}
        paged == counted \cup {SetPagingState(m, s) : m \in counted, s \in {a, NullString}}
    IN  paged \cup {SetGlobalTable(m, b, a) : m \in paged}

MCItems == WireItems \cup ColumnItems \cup
           {Item("option", << >>, o) : o \in Options} \cup
           {Item("prepared", << >>, m) : m \in PreparedItems} \cup
           {Item("rows", << >>, m) : m \in RowsItems}

\* The days whose seconds fit an int32, and those of them in a summer before
\* the epoch.
AllDays == 0 .. Base ^ 4 - 1
DaysInRange == {n \in AllDays : LET s == (n - EpochBoundary) * SecondsPerDay IN Signed(4, s) = s}
DaysOfPastSummers(z) == {n \in 0 .. EpochBoundary - 1 :
                            (n - EpochBoundary) * SecondsPerDay - Offset[z] \in Summer[z]}
DateBodies(z, days) == {[type |-> Date(z), body |-> BigEndian(4, n)] : n \in days}
TimeBodies == {[type |-> Time(z), body |-> BigEndian(8, n)] :
                  z \in ZonesWithPlainEpoch, n \in TimesOfDay}
OtherBodies ==
    {[type |-> Timestamp, body |-> BigEndian(8, n)] : n \in -50..50} \cup
    {[type |-> Boolean, body |-> BigEndian(1, n)] : n \in 0 .. Base - 1} \cup
    {[type |-> VarInt, body |-> EncodeVarInt(n)] : n \in Ints(8)} \cup
    {[type |-> NullInt, body |-> BigEndian(2, n)] : n \in Ints(2)}

BodiesInRange == UNION {DateBodies(z, DaysInRange \ DaysOfPastSummers(z)) : z \in Zones}
                 \cup TimeBodies \cup OtherBodies
DateBodiesInRange == UNION {DateBodies(z, DaysInRange) : z \in Zones}
NoItems == {}

MCDecimals == {<<s, u>> : s \in -1..2, u \in {-120, -7, 0, 1, 30, 100, 119}}

\* On a short day, a zone two hours ahead of UTC in winter and three in the
\* summers, and zones that are two hours behind in winter and one in the
\* summers; in the south the epoch is in one.
ZoneOffsets == [east |-> 2, west |-> -2, south |-> -2]
Summers == [east |-> (20..60) \cup (-70..-20),
            west |-> (20..60) \cup (-70..-20),
            south |-> (-15..15) \cup (40..60) \cup (-70..-50)]
=============================================================================
