------------------------------ MODULE Metadata ------------------------------
(***************************************************************************)
(* The descriptions of columns in results: [option], a type with a payload *)
(* for the types that need one, the column specification, and the metadata *)
(* of rows and of prepared queries.                                        *)
(*                                                                         *)
(* The objects are reused, and a decode leaves alone the members the wire  *)
(* does not mention, so a decoder of a reused object takes the object it   *)
(* decodes into.                                                           *)
(***************************************************************************)
EXTENDS Wire

(* [option] *)

CustomType == 0
ListType   == 32
MapType    == 33
SetType    == 34
UDTType    == 48
TupleType  == 49
TypesWithPayload == {CustomType, ListType, MapType, SetType, UDTType, TupleType}

\* set(type); the type is set before the payload.
Option(type) == [type |-> type, payload |-> << >>]
NoOption == Option(CustomType)

EncodeOption(o) ==
    IF o.type \in TypesWithPayload /\ o.payload = << >> THEN Thrown
    ELSE BigEndian(2, o.type) \o o.payload

CustomPayload(name) == [type |-> CustomType, name |-> name]
ElementPayload(type, element) == [type |-> type, element |-> element]   \* list and set
MapPayload(key, value) == [type |-> MapType, key |-> key, value |-> value]
UDTPayload(keySpace, name, fields) ==
    [type |-> UDTType, keySpace |-> keySpace, name |-> name, fields |-> fields]
TuplePayload(types) == [type |-> TupleType, types |-> types]

EncodeUDTPayload(p) ==
    IF TooMany(ProtocolShort, Len(p.fields)) THEN Thrown
    ELSE Cat(<<Encode(ProtocolString, p.keySpace), Encode(ProtocolString, p.name),
               BigEndian(2, Len(p.fields))>> \o
             FlattenSeq([i \in DOMAIN p.fields |->
                 <<Encode(ProtocolString, p.fields[i][1]), EncodeOption(p.fields[i][2])>>]))

EncodeTuplePayload(p) ==
    IF TooMany(ProtocolShort, Len(p.types)) THEN Thrown
    ELSE Cat(<<BigEndian(2, Len(p.types))>> \o
             [i \in DOMAIN p.types |-> EncodeOption(p.types[i])])

EncodePayload(p) ==
    CASE p.type = CustomType -> Encode(ProtocolString, p.name)
      [] p.type \in {ListType, SetType} -> EncodeOption(p.element)
      [] p.type = MapType -> Cat(<<EncodeOption(p.key), EncodeOption(p.value)>>)
      [] p.type = UDTType -> EncodeUDTPayload(p)
      [] p.type = TupleType -> EncodeTuplePayload(p)

\* set...Payload: refused on an option of another type.
SetPayload(o, p) ==
    IF o.type # p.type THEN Thrown ELSE [o EXCEPT !.payload = EncodePayload(p)]

RECURSIVE ReadOption(_), ReadOptions(_, _), ReadFields(_, _)

ReadOptions(n, s) ==
    IF n = 0 THEN Took(<< >>, s)
    ELSE Bind(ReadOption(s), LAMBDA o, rest :
             Map(ReadOptions(n - 1, rest), LAMBDA os : <<o>> \o os))

ReadFields(n, s) ==
    IF n = 0 THEN Took(<< >>, s)
    ELSE Bind(Read(ProtocolString, s), LAMBDA name, rest :
             Bind(ReadOption(rest), LAMBDA o, rest2 :
                 Map(ReadFields(n - 1, rest2), LAMBDA fs : <<<<name, o>>>> \o fs)))

ReadUDTPayload(s) ==
    Bind(Read(ProtocolString, s), LAMBDA keySpace, rest :
        Bind(Read(ProtocolString, rest), LAMBDA name, rest2 :
            Bind(ReadInteger(ProtocolShort, rest2), LAMBDA n, rest3 :
                Map(ReadFields(n, rest3), LAMBDA fs : UDTPayload(keySpace, name, fs)))))

ReadTuplePayload(s) ==
    Bind(ReadInteger(ProtocolShort, s), LAMBDA n, rest : Map(ReadOptions(n, rest), TuplePayload))

ReadPayload(type, s) ==
    CASE type = CustomType -> Map(Read(ProtocolString, s), CustomPayload)
      [] type \in {ListType, SetType} ->
             Map(ReadOption(s), LAMBDA o : ElementPayload(type, o))
      [] type = MapType ->
             Bind(ReadOption(s), LAMBDA key, rest :
                 Map(ReadOption(rest), LAMBDA value : MapPayload(key, value)))
      [] type = UDTType -> ReadUDTPayload(s)
      [] type = TupleType -> ReadTuplePayload(s)

\* The payload is read into an object each kind of payload has once, and
\* encoded again from it.  A type nested in a type of its own kind overwrites
\* the object that is being read; those types are not described here.
ReadOption(s) ==
    Bind(ReadInteger(ProtocolShort, s), LAMBDA type, rest :
        IF type \notin TypesWithPayload THEN Took(Option(type), rest)
        ELSE Map(ReadPayload(type, rest), LAMBDA p : SetPayload(Option(type), p)))

\* get...Payload
GetPayload(o, type) == IF o.type # type THEN Refused ELSE ReadPayload(type, o.payload)

(* The specification of a column *)

EmptyString == Normal(<< >>)
NoColumn == [keySpace |-> EmptyString, table |-> EmptyString, name |-> EmptyString,
             type |-> NoOption]

EncodeColumnSpec(c, containsTableSpec) ==
    Cat((IF containsTableSpec
         THEN <<Encode(ProtocolString, c.keySpace), Encode(ProtocolString, c.table)>>
         ELSE << >>) \o
        <<Encode(ProtocolString, c.name), EncodeOption(c.type)>>)

\* Two strings, or what the object has.
ReadTableSpec(present, keySpace, table, s) ==
    IF ~present THEN Took(<<keySpace, table>>, s)
    ELSE Bind(Read(ProtocolString, s), LAMBDA k, rest :
             Map(Read(ProtocolString, rest), LAMBDA t : <<k, t>>))

ReadColumnSpec(old, containsTableSpec, s) ==
    Bind(ReadTableSpec(containsTableSpec, old.keySpace, old.table, s), LAMBDA spec, rest :
        Bind(Read(ProtocolString, rest), LAMBDA name, rest2 :
            Map(ReadOption(rest2), LAMBDA type :
                [keySpace |-> spec[1], table |-> spec[2], name |-> name, type |-> type])))

\* n of them, the first ones into the objects of `old`.
RECURSIVE ReadColumns(_, _, _, _)
ReadColumns(old, n, containsTableSpec, s) ==
    IF n = 0 THEN Took(<< >>, s)
    ELSE Bind(ReadColumnSpec(IF old = << >> THEN NoColumn ELSE Head(old), containsTableSpec, s),
              LAMBDA c, rest :
                  Map(ReadColumns(IF old = << >> THEN << >> ELSE Tail(old), n - 1,
                                  containsTableSpec, rest),
                      LAMBDA cs : <<c>> \o cs))

EncodeSpecAndColumns(m, global) ==
    Cat((IF global
         THEN <<Encode(ProtocolString, m.globalKeySpace), Encode(ProtocolString, m.globalTable)>>
         ELSE << >>) \o
        [i \in DOMAIN m.columns |-> EncodeColumnSpec(m.columns[i], ~global)])

(* Flags, as sets.  The bits of a flags number are all the program tests.   *)

GlobalTableSpec == 1
HasMorePages == 2
NoMetadata   == 4
EncodeFlags(flags) == FoldSet(LAMBDA f, acc : f + acc, 0, flags)
FlagsOf(n, all) == {f \in all : (n \div f) % 2 = 1}
RowsFlags == {GlobalTableSpec, HasMorePages, NoMetadata}

(* The metadata of a prepared query *)

NoPreparedMetadata ==
    [flags |-> {}, partitionKeyIndexes |-> << >>, globalKeySpace |-> EmptyString,
     globalTable |-> EmptyString, columns |-> << >>]

SetGlobalTable(m, keySpace, table) ==
    [m EXCEPT !.globalKeySpace = keySpace, !.globalTable = table,
              !.flags = @ \cup {GlobalTableSpec}]

EncodePreparedMetadata(m) ==
    IF TooMany(ProtocolInt, Len(m.columns)) \/ TooMany(ProtocolInt, Len(m.partitionKeyIndexes))
    THEN Thrown
    ELSE Cat(<<BigEndian(4, EncodeFlags(m.flags)), BigEndian(4, Len(m.columns)),
               BigEndian(4, Len(m.partitionKeyIndexes))>> \o
             [i \in DOMAIN m.partitionKeyIndexes |-> BigEndian(2, m.partitionKeyIndexes[i])] \o
             <<EncodeSpecAndColumns(m, GlobalTableSpec \in m.flags)>>)

ReadPreparedMetadata(old, s) ==
    Bind(ReadInteger(ProtocolInt, s), LAMBDA f, rest :
    Bind(ReadInteger(ProtocolInt, rest), LAMBDA columns, rest2 :
    Bind(ReadInteger(ProtocolInt, rest2), LAMBDA indexes, rest3 :
        LET flags == FlagsOf(f, {GlobalTableSpec})
            global == GlobalTableSpec \in flags
        IN  IF columns < 0 \/ indexes < 0 THEN Refused
            ELSE Bind(ReadElements(ProtocolShort, indexes, rest3), LAMBDA keys, rest4 :
                 Bind(ReadTableSpec(global, old.globalKeySpace, old.globalTable, rest4),
                      LAMBDA spec, rest5 :
                 Map(ReadColumns(<< >>, columns, ~global, rest5), LAMBDA cs :
                     [flags |-> flags, partitionKeyIndexes |-> keys,
                      globalKeySpace |-> spec[1], globalTable |-> spec[2], columns |-> cs]))))))

(* The metadata of rows *)

NoRowsMetadata ==
    [flags |-> {NoMetadata}, columnsCount |-> 0, pagingState |-> NullString,
     globalKeySpace |-> EmptyString, globalTable |-> EmptyString, columns |-> << >>]

\* reset(): the paging state, the names and the columns stay.
ResetRowsMetadata(m) == [m EXCEPT !.flags = {NoMetadata}, !.columnsCount = 0]

SetPagingState(m, state) ==
    [m EXCEPT !.pagingState = state, !.flags = @ \cup {HasMorePages}]

SetColumns(m, columns) ==
    [m EXCEPT !.columns = columns, !.columnsCount = Narrowed(ProtocolInt, Len(columns)),
              !.flags = @ \ {NoMetadata}]

EncodeRowsMetadata(m) ==
    Cat(<<BigEndian(4, EncodeFlags(m.flags)), BigEndian(4, m.columnsCount)>> \o
        (IF HasMorePages \in m.flags THEN <<Encode(ProtocolBytes, m.pagingState)>> ELSE << >>) \o
        (IF NoMetadata \in m.flags THEN << >>
         ELSE IF m.columnsCount # Len(m.columns) THEN <<Thrown>>
         ELSE <<EncodeSpecAndColumns(m, GlobalTableSpec \in m.flags)>>))

ReadRowsMetadata(old, s) ==
    Bind(ReadInteger(ProtocolInt, s), LAMBDA f, rest :
    Bind(ReadInteger(ProtocolInt, rest), LAMBDA count, rest2 :
        LET flags == FlagsOf(f, RowsFlags)
            global == GlobalTableSpec \in flags
        IN  Bind(IF HasMorePages \in flags THEN Read(ProtocolBytes, rest2)
                 ELSE Took(old.pagingState, rest2), LAMBDA state, rest3 :
            LET m == [old EXCEPT !.flags = flags, !.columnsCount = count, !.pagingState = state]
            IN  IF NoMetadata \in flags THEN Took(m, rest3)
                ELSE Bind(ReadTableSpec(global, m.globalKeySpace, m.globalTable, rest3),
                     LAMBDA spec, rest4 :
                         IF count < 0 THEN Refused
                         ELSE Map(ReadColumns(m.columns, count, ~global, rest4), LAMBDA cs :
                                  [m EXCEPT !.globalKeySpace = spec[1], !.globalTable = spec[2],
                                            !.columns = cs])))))
=============================================================================
