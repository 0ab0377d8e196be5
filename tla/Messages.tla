------------------------------ MODULE Messages ------------------------------
(***************************************************************************)
(* Commands, frames and messages: what a command holds, which of it goes   *)
(* into a request and under which flag, and what a response leaves in the  *)
(* object that decodes it.                                                 *)
(*                                                                         *)
(* An optional is <<>> or <<value>>.  A message is a record whose opCode   *)
(* is its name; the other fields are those of its class.                   *)
(***************************************************************************)
EXTENDS Metadata

(* Opcodes and frames *)

OpCode == [ERROR |-> 0, STARTUP |-> 1, READY |-> 2, AUTHENTICATE |-> 3, OPTIONS |-> 5,
           SUPPORTED |-> 6, QUERY |-> 7, RESULT |-> 8, PREPARE |-> 9, EXECUTE |-> 10,
           REGISTER |-> 11, EVENT |-> 12, BATCH |-> 13, AUTH_CHALLENGE |-> 14,
           AUTH_RESPONSE |-> 15, AUTH_SUCCESS |-> 16]
Responses == {"RESULT", "ERROR", "EVENT", "READY", "SUPPORTED", "AUTHENTICATE",
              "AUTH_SUCCESS", "AUTH_CHALLENGE"}

Version == 4
HeaderSize == 9
MaximumMessageBodySize == 256 * 1024 * 1024
Request  == 0                        \* directions
Response == 128
Compression   == 1                   \* flags
Tracing       == 2
CustomPayloadFlag == 4
Warning       == 8
HeaderFlags == {Compression, Tracing, CustomPayloadFlag, Warning}

\* A fresh header with its opcode.
Header(opCode, direction) ==
    [flags |-> {}, streamId |-> 0, opCode |-> OpCode[opCode], direction |-> direction,
     bodyLength |-> 0]

\* setStreamId throws on an id that does not fit.
StreamIdFits(id) == Narrowed(ProtocolShort, id) = id
SetStreamId(h, id) == [h EXCEPT !.streamId = id]

EncodeHeaderPre(h) ==
    <<Version + h.direction, EncodeFlags(h.flags)>> \o BigEndian(2, h.streamId) \o
    <<h.opCode>> \o BigEndian(4, h.bodyLength)

\* The length goes over the last bytes of the header.
EncodeHeaderPost(data) ==
    LET length == BigEndian(4, Len(data) - HeaderSize)
    IN  [i \in DOMAIN data |-> IF i \in (HeaderSize - 3) .. HeaderSize
                               THEN length[i - (HeaderSize - 4)] ELSE data[i]]

ReadHeader(s) ==
    Bind(TakeBytes(s, HeaderSize), LAMBDA b, rest :
        Took([flags |-> FlagsOf(b[2], HeaderFlags),
              streamId |-> FromBigEndian(SubSeq(b, 3, 4), FALSE),
              opCode |-> b[5],
              direction |-> IF b[1] >= Response THEN Response ELSE Request,
              bodyLength |-> FromBigEndian(SubSeq(b, 6, 9), TRUE)], rest))

(* LZ4 behind a length.  What the library makes of the bytes is external:   *)
(* something else, of another length.                                       *)

LZ4(b) == <<0>> \o Reverse(b)
UnLZ4(b) == IF b = << >> \/ b[1] # 0 THEN Refused ELSE Took(Reverse(Tail(b)), << >>)

Compress(b) == BigEndian(4, Len(b)) \o LZ4(b)

Decompress(b) ==
    IF Len(b) < 4 THEN Took(<< >>, << >>)
    ELSE LET size == FromBigEndian(SubSeq(b, 1, 4), FALSE)
         IN  IF size > MaximumMessageBodySize THEN Refused
             ELSE Bind(UnLZ4(Drop(b, 4)), LAMBDA out, rest :
                      IF Len(out) # size THEN Refused ELSE Took(out, << >>))

\* encodeMessage: the header with an empty length, the body, then the length.
EncodeMessage(h, body, compressed) ==
    LET pre == IF compressed THEN EncodeHeaderPre([h EXCEPT !.flags = @ \cup {Compression}])
               ELSE EncodeHeaderPre(h)
    IN  IF body = Thrown THEN Thrown
        ELSE EncodeHeaderPost(pre \o (IF compressed THEN Compress(body) ELSE body))

\* What comes before the body of a response and is thrown away.
Skip(present, t, s) ==
    IF present THEN Bind(Read(t, s), LAMBDA v, rest : Took(<< >>, rest)) ELSE Took(<< >>, s)

\* decodeMessage up to decodeBody: gives the body.
OpenBody(h, s, hasCompressor) ==
    Bind(Skip(Tracing \in h.flags, ProtocolUUID, s), LAMBDA v1, s1 :
    Bind(Skip(CustomPayloadFlag \in h.flags, ProtocolBytesMap, s1), LAMBDA v2, s2 :
    Bind(Skip(Warning \in h.flags, ProtocolStringList, s2), LAMBDA v3, s3 :
        IF Compression \notin h.flags THEN Took(s3, << >>)
        ELSE IF hasCompressor THEN Decompress(s3) ELSE Refused)))

(* Commands *)

NewCommand(query) ==
    [query |-> query, needPrepare |-> << >>, consistency |-> << >>, pageSize |-> << >>,
     pagingState |-> << >>, parameterCount |-> 0, parameters |-> << >>,
     serialConsistency |-> << >>, defaultTimestamp |-> << >>, maxRetries |-> 0]

\* addParameter: an encoded column.
AddParameter(c, column) ==
    [c EXCEPT !.parameters = @ \o column, !.parameterCount = @ + 1]

NewBatch ==
    [type |-> 0, consistency |-> << >>, queries |-> << >>, serialConsistency |-> << >>,
     defaultTimestamp |-> << >>, maxRetries |-> 0]

AddQuery(b, query) ==
    [b EXCEPT !.queries = Append(@, [query |-> query, needPrepare |-> << >>, sets |-> << >>])]

\* The operations on the last query, refused without one.
OnLastQuery(b, F(_)) ==
    IF b.queries = << >> THEN Thrown ELSE [b EXCEPT !.queries[Len(b.queries)] = F(@)]

PrepareLastQuery(b, value) == OnLastQuery(b, LAMBDA q : [q EXCEPT !.needPrepare = <<value>>])
OpenParameterSet(b) == OnLastQuery(b, LAMBDA q : [q EXCEPT !.sets = Append(@, <<0, << >>>>)])
AddBatchParameter(b, column) ==
    OnLastQuery(b, LAMBDA q :
        LET sets == IF q.sets = << >> THEN <<<<0, << >>>>>> ELSE q.sets
        IN  [q EXCEPT !.sets = [sets EXCEPT ![Len(sets)] = <<@[1] + 1, @[2] \o column>>]])

(* Query parameters *)

WithValues == 1
SkipMetadata == 2
WithPageSize == 4
WithPagingState == 8
WithSerialConsistency == 16
WithDefaultTimestamp  == 32
WithNamesForValue == 64
QueryFlags == {WithValues, SkipMetadata, WithPageSize, WithPagingState,
               WithSerialConsistency, WithDefaultTimestamp, WithNamesForValue}
BatchFlags == {WithSerialConsistency, WithDefaultTimestamp}

If(condition, flag) == IF condition THEN {flag} ELSE {}

\* setCommandRef: the flags for a command; those set before but for
\* SkipMetadata go.  A paging state goes with a page size only.
FlagsForCommand(flags, c) ==
    (flags \cap {SkipMetadata}) \cup
    If(c.parameterCount > 0, WithValues) \cup
    If(c.pageSize # << >>, WithPageSize) \cup
    If(c.pageSize # << >> /\ c.pagingState # << >>, WithPagingState) \cup
    If(c.serialConsistency # << >>, WithSerialConsistency) \cup
    If(c.defaultTimestamp # << >>, WithDefaultTimestamp)

FlagsForBatch(b) ==
    If(b.serialConsistency # << >>, WithSerialConsistency) \cup
    If(b.defaultTimestamp # << >>, WithDefaultTimestamp)

\* The parts announced by the flags, in the order of the flags.
Announced(flags, flag, bytes) == IF flag \in flags THEN <<bytes>> ELSE << >>

EncodeQueryParameters(flags, c) ==
    Cat(<<BigEndian(2, c.consistency[1]), <<EncodeFlags(flags)>>>> \o
        Announced(flags, WithValues,
            IF TooMany(ProtocolShort, c.parameterCount) THEN Thrown
            ELSE BigEndian(2, c.parameterCount) \o c.parameters) \o
        (IF WithPageSize \in flags THEN <<BigEndian(4, c.pageSize[1])>> ELSE << >>) \o
        Announced(flags, WithPagingState, BigEndian(4, Len(c.pagingState)) \o c.pagingState) \o
        (IF WithSerialConsistency \in flags THEN <<BigEndian(2, c.serialConsistency[1])>>
         ELSE << >>) \o
        (IF WithDefaultTimestamp \in flags THEN <<BigEndian(8, c.defaultTimestamp[1])>>
         ELSE << >>))

\* A part that is there when its flag is: an optional.
ReadOptional(present, t, s) ==
    IF present THEN Map(Read(t, s), LAMBDA v : <<v>>) ELSE Took(<< >>, s)

\* n parameters as they are: a size, and no bytes after one that is negative.
RECURSIVE ReadParameters(_, _)
ReadParameters(n, s) ==
    IF n = 0 THEN Took(<< >>, s)
    ELSE Bind(ReadInteger(ProtocolInt, s), LAMBDA size, rest :
         Bind(TakeBytes(rest, IF size <= 0 THEN 0 ELSE size), LAMBDA b, rest2 :
             Map(ReadParameters(n - 1, rest2), LAMBDA bs : BigEndian(4, size) \o b \o bs)))

ReadCounted(present, s) ==
    IF ~present THEN Took(<<0, << >>>>, s)
    ELSE Bind(ReadInteger(ProtocolShort, s), LAMBDA n, rest :
             Map(ReadParameters(n, rest), LAMBDA b : <<n, b>>))

\* decode, into a new command.
ReadQueryParameters(s) ==
    Bind(ReadInteger(ProtocolConsistency, s), LAMBDA consistency, s1 :
    Bind(ReadInteger(ProtocolByte, s1), LAMBDA f, s2 :
        LET flags == FlagsOf(f, QueryFlags)
        IN  IF {WithValues, WithNamesForValue} \subseteq flags THEN Refused ELSE
            Bind(ReadCounted(WithValues \in flags, s2), LAMBDA params, s3 :
            Bind(ReadOptional(WithPageSize \in flags, ProtocolInt, s3), LAMBDA size, s4 :
            Bind(ReadOptional(WithPagingState \in flags, ProtocolBytes, s4), LAMBDA state, s5 :
            Bind(ReadOptional(WithSerialConsistency \in flags, ProtocolConsistency, s5),
                 LAMBDA serial, s6 :
            Map(ReadOptional(WithDefaultTimestamp \in flags, ProtocolTimestamp, s6),
                LAMBDA timestamp :
                [flags |-> flags,
                 command |-> [NewCommand(<< >>) EXCEPT
                    !.consistency = <<consistency>>, !.parameterCount = params[1],
                    !.parameters = params[2], !.pageSize = size,
                    !.pagingState = IF state = << >> THEN << >> ELSE state[1].bytes,
                    !.serialConsistency = serial, !.defaultTimestamp = timestamp]])))))))

EncodeBatchParameters(flags, b) ==
    BigEndian(2, b.consistency[1]) \o <<EncodeFlags(flags)>> \o
    (IF WithSerialConsistency \in flags THEN BigEndian(2, b.serialConsistency[1]) ELSE << >>) \o
    (IF WithDefaultTimestamp \in flags THEN BigEndian(8, b.defaultTimestamp[1]) ELSE << >>)

ReadBatchParameters(s) ==
    Bind(ReadInteger(ProtocolConsistency, s), LAMBDA consistency, s1 :
    Bind(ReadInteger(ProtocolByte, s1), LAMBDA f, s2 :
        LET flags == FlagsOf(f, BatchFlags)
        IN  Bind(ReadOptional(WithSerialConsistency \in flags, ProtocolConsistency, s2),
                 LAMBDA serial, s3 :
            Map(ReadOptional(WithDefaultTimestamp \in flags, ProtocolTimestamp, s3),
                LAMBDA timestamp :
                [NewBatch EXCEPT !.consistency = <<consistency>>,
                                 !.serialConsistency = serial,
                                 !.defaultTimestamp = timestamp]))))

(* Requests.  One that has not been given a command has none.              *)

NoCommand == [valid |-> FALSE]

VersionKey     == Normal(<<86>>)     \* "CQL_VERSION", by its letter V
VersionValue   == Normal(<<51>>)     \* "3.0.0"
CompressionKey == Normal(<<67>>)     \* "COMPRESSION"
LZ4Name        == Normal(<<76>>)     \* "lz4"

\* reset() of each request class, which replaces the header too.
FreshRequest(opCode) ==
    LET m == [opCode |-> opCode, header |-> Header(opCode, Request)]
    IN  CASE opCode = "OPTIONS" -> m
          [] opCode = "STARTUP" -> m @@ [options |-> VersionKey :> VersionValue]
          [] opCode = "PREPARE" -> m @@ [query |-> EmptyString]
          [] opCode = "REGISTER" -> m @@ [events |-> << >>]
          [] opCode = "AUTH_RESPONSE" -> m @@ [token |-> NullString]
          [] opCode = "QUERY" -> m @@ [flags |-> {}, command |-> NoCommand]
          [] opCode = "EXECUTE" ->
                 m @@ [flags |-> {}, command |-> NoCommand, id |-> EmptyString]
          [] opCode = "BATCH" -> m @@ [flags |-> {}, command |-> NoCommand, ids |-> << >>]

\* emplace keeps the compression that is set; erase takes it away.
SetCompression(m, name) ==
    [m EXCEPT !.options = IF name = << >>
                          THEN [k \in DOMAIN @ \ {CompressionKey} |-> @[k]]
                          ELSE @ @@ (CompressionKey :> name[1])]

EncodeQuery(m, c) ==
    IF c = NoCommand THEN Thrown
    ELSE Cat(<<BigEndian(4, Len(c.query)), c.query, EncodeQueryParameters(m.flags, c)>>)

EncodeExecute(m, c) ==
    IF c = NoCommand THEN Thrown
    ELSE Cat(<<Encode(ProtocolShortBytes, m.id), EncodeQueryParameters(m.flags, c)>>)

\* getPreparedQueryId(i), which is empty for an index the message has no room for.
PreparedQueryId(m, i) == IF i \in DOMAIN m.ids THEN m.ids[i] ELSE << >>
SetPreparedQueryId(m, b, i, id) ==
    [m EXCEPT !.ids = [k \in DOMAIN b.queries |-> IF k = i THEN id ELSE PreparedQueryId(m, k)]]

\* A query is executed once for each of its parameter sets, or once.
Executions(q) == IF q.sets = << >> THEN <<<<0, << >>>>>> ELSE q.sets

EncodeBatchQuery(q, id) ==
    LET head == IF id = << >> THEN <<0>> \o BigEndian(4, Len(q.query)) \o q.query
                ELSE <<1>> \o BigEndian(2, Len(id)) \o id
    IN  Cat([i \in DOMAIN Executions(q) |->
                LET set == Executions(q)[i]
                IN  IF TooMany(ProtocolShort, set[1]) THEN Thrown
                    ELSE head \o BigEndian(2, set[1]) \o set[2]])

EncodeBatch(m, b) ==
    IF b = NoCommand THEN Thrown
    ELSE LET count == FoldSeq(LAMBDA q, n : n + Len(Executions(q)), 0, b.queries)
         IN  IF TooMany(ProtocolShort, count) THEN Thrown
             ELSE Cat(<<<<b.type>>, BigEndian(2, count)>> \o
                      [i \in DOMAIN b.queries |->
                          EncodeBatchQuery(b.queries[i], PreparedQueryId(m, i))] \o
                      <<EncodeBatchParameters(m.flags, b)>>)

\* encodeBody; `c` is the command the message refers to.
EncodeRequest(m, c) ==
    CASE m.opCode = "OPTIONS" -> << >>
      [] m.opCode = "STARTUP" -> Encode(ProtocolStringMap, m.options)
      [] m.opCode = "PREPARE" -> Encode(ProtocolLongString, m.query)
      [] m.opCode = "REGISTER" -> Encode(ProtocolStringList, m.events)
      [] m.opCode = "AUTH_RESPONSE" -> Encode(ProtocolBytes, m.token)
      [] m.opCode = "QUERY" -> EncodeQuery(m, c)
      [] m.opCode = "EXECUTE" -> EncodeExecute(m, c)
      [] m.opCode = "BATCH" -> EncodeBatch(m, c)

(* Responses *)

VoidKind == 1
RowsKind == 2
SetKeySpaceKind  == 3
PreparedKind     == 4
SchemaChangeKind == 5

\* A RESULT message but for its result set, see Reusable.
NewResult ==
    [kind |-> 0, rowsMetadata |-> NoRowsMetadata, rowsCount |-> 0,
     keySpace |-> EmptyString, id |-> EmptyString, preparedMetadata |-> NoPreparedMetadata,
     preparedRowsMetadata |-> NoRowsMetadata, changeType |-> EmptyString,
     changeTarget |-> EmptyString, changeOptions |-> << >>]

ResetResult(r) ==
    [NewResult EXCEPT !.rowsMetadata = ResetRowsMetadata(r.rowsMetadata),
                      !.preparedRowsMetadata = ResetRowsMetadata(r.preparedRowsMetadata)]

\* The constructor of a response class, and its reset().
NewResponse(opCode) ==
    CASE opCode = "RESULT" -> NewResult
      [] opCode = "ERROR" -> [code |-> 0, message |-> EmptyString, extra |-> << >>]
      [] opCode = "EVENT" -> [type |-> EmptyString, data |-> << >>]
      [] opCode = "READY" -> [ready |-> TRUE]
      [] opCode = "SUPPORTED" -> [options |-> << >>]
      [] opCode = "AUTHENTICATE" -> [class |-> EmptyString]
      [] opCode = "AUTH_SUCCESS" -> [token |-> NullString]
      [] opCode = "AUTH_CHALLENGE" -> [token |-> NullString]
ResetResponse(opCode, r) == IF opCode = "RESULT" THEN ResetResult(r) ELSE NewResponse(opCode)

ReadRows(r, s) ==
    Bind(ReadRowsMetadata(r.rowsMetadata, s), LAMBDA m, s1 :
        Map(ReadInteger(ProtocolInt, s1), LAMBDA n :
            [r EXCEPT !.rowsMetadata = m, !.rowsCount = n]))

ReadPrepared(r, s) ==
    Bind(Read(ProtocolShortBytes, s), LAMBDA id, s1 :
    Bind(ReadPreparedMetadata(r.preparedMetadata, s1), LAMBDA m, s2 :
        Map(ReadRowsMetadata(r.preparedRowsMetadata, s2), LAMBDA rows :
            [r EXCEPT !.id = id, !.preparedMetadata = m, !.preparedRowsMetadata = rows])))

ReadSchemaChange(r, s) ==
    Bind(Read(ProtocolString, s), LAMBDA type, s1 :
    Bind(Read(ProtocolString, s1), LAMBDA target, options :
        Took([r EXCEPT !.changeType = type, !.changeTarget = target,
                       !.changeOptions = options], << >>)))

\* The bytes left are those of the rows.
ReadResult(old, s) ==
    Bind(ReadInteger(ProtocolInt, s), LAMBDA kind, rest :
        LET r == [old EXCEPT !.kind = kind]
        IN  CASE kind = VoidKind -> Took(r, rest)
              [] kind = RowsKind -> ReadRows(r, rest)
              [] kind = SetKeySpaceKind ->
                     Map(Read(ProtocolString, rest), LAMBDA k : [r EXCEPT !.keySpace = k])
              [] kind = PreparedKind -> ReadPrepared(r, rest)
              [] kind = SchemaChangeKind -> ReadSchemaChange(r, rest)
              [] kind \notin VoidKind .. SchemaChangeKind -> Refused)

ReadError(s) ==
    Bind(ReadInteger(ProtocolInt, s), LAMBDA code, s1 :
    Bind(Read(ProtocolString, s1), LAMBDA message, extra :
        Took([code |-> code, message |-> message, extra |-> extra], << >>)))

ReadEvent(s) ==
    Bind(Read(ProtocolString, s), LAMBDA type, data :
        Took([type |-> type, data |-> data], << >>))

\* decodeBody, into an object that has been reset.
ReadResponse(opCode, r, s) ==
    CASE opCode = "RESULT" -> ReadResult(r, s)
      [] opCode = "ERROR" -> ReadError(s)
      [] opCode = "EVENT" -> ReadEvent(s)
      [] opCode = "READY" -> Took(r, s)
      [] opCode = "SUPPORTED" ->
             Map(Read(ProtocolStringMultiMap, s), LAMBDA v : [options |-> v])
      [] opCode = "AUTHENTICATE" -> Map(Read(ProtocolString, s), LAMBDA v : [class |-> v])
      [] opCode \in {"AUTH_SUCCESS", "AUTH_CHALLENGE"} ->
             Map(Read(ProtocolBytes, s), LAMBDA v : [token |-> v])

\* getCompressor: lz4 when the server offers it.
OffersLZ4(options) ==
    CompressionKey \in DOMAIN options /\ LZ4Name \in ToSet(options[CompressionKey])
=============================================================================
