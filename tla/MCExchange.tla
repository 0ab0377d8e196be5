----------------------------- MODULE MCExchange -----------------------------
(***************************************************************************)
(* Two clients.  The first one's connection compresses; it runs two        *)
(* commands one after the other, the second of which uses the objects of   *)
(* the first, or of the other client, again.                               *)
(***************************************************************************)
EXTENDS Exchange

Client == {1, 2}
First == {1}

Columns == <<ColumnInt, Nullable(Text)>>
Rows == <<<<1, <<<<7>>>>>>, <<2, << >>>>>>
EncodedRows(rows) ==
    FlattenSeq([i \in DOMAIN rows |-> FlattenSeq([k \in DOMAIN Columns |->
                                          EncodeColumn(Columns[k], rows[i][k])])])

(* Answers *)

Answer(opCode, body, content) ==
    [opCode |-> opCode, flags |-> {}, before |-> << >>, body |-> body, content |-> content,
     rows |-> << >>, cuts |-> {}]

Int4(n) == BigEndian(4, n)
Str(n) == Normal(<<n>>)
Shown(rows, m) == [rowsCount |-> Len(rows), columnsCount |-> m.columnsCount,
                   pagingState |-> IF HasMorePages \in m.flags THEN m.pagingState.bytes ELSE << >>]
RowsAnswer(m, rows) ==
    [Answer("RESULT", Int4(RowsKind) \o EncodeRowsMetadata(m) \o Int4(Len(rows)) \o
                      EncodedRows(rows), Shown(rows, m)) EXCEPT !.rows = rows]

TwoColumns == [NoRowsMetadata EXCEPT !.columnsCount = 2]
Described == SetGlobalTable(SetColumns(NoRowsMetadata,
                 <<[NoColumn EXCEPT !.name = Str(1), !.type = Option(9)],
                   [NoColumn EXCEPT !.name = Str(2), !.type = Option(13)]>>), Str(3), Str(4))

\* An answer that is cut has no paging state: see the hazard of
\* RowsMetadata::reset.
Plain == [RowsAnswer(TwoColumns, Rows) EXCEPT !.cuts = {2, 14, 20, 30}]
CutOnce == [Plain EXCEPT !.cuts = {20}]
Paged == RowsAnswer(SetPagingState(TwoColumns, Normal(<<5, 6>>)), <<Rows[2]>>)
Verbose == [RowsAnswer(Described, Rows) EXCEPT
                !.flags = {Tracing, CustomPayloadFlag, Warning},
                !.before = EncodeUUID(<<1, 2>>) \o
                           Encode(ProtocolBytesMap, Str(1) :> NullString) \o
                           Encode(ProtocolStringList, <<Str(8)>>)]
NoRows == Shown(<< >>, NoRowsMetadata)
Void == Answer("RESULT", Int4(VoidKind), NoRows)
Changed == Answer("RESULT", Int4(SchemaChangeKind) \o <<0, 1, 1, 0, 1, 2, 3>>, NoRows)
Failure == [Answer("ERROR", Int4(10) \o <<0, 1, 5, 9>>, NoRows) EXCEPT !.cuts = {5}]
Compressed(a) == [a EXCEPT !.flags = @ \cup {Compression}]

(* Commands *)

A == EncodeColumn(ColumnInt, 3)
B == EncodeColumn(Nullable(Text), << >>)

QueryJob(stream, settings, columns, ids, answers) ==
    [api |-> "query", stream |-> stream, query |-> <<stream>>, settings |-> settings,
     columns |-> columns, ids |-> ids, types |-> Columns, answers |-> answers]

Everything == [consistency |-> <<5>>, pageSize |-> <<2>>, pagingState |-> <<9>>,
               serialConsistency |-> <<8>>, defaultTimestamp |-> <<300>>]
Bare == [pageSize |-> <<3>>]
Half == [pagingState |-> <<9>>, needPrepare |-> <<TRUE>>, serialConsistency |-> <<9>>]

BatchQuery(query, prepare, sets) == [query |-> query, prepare |-> prepare, sets |-> sets]
BatchJob(stream, settings, queries, ids) ==
    [api |-> "batch", stream |-> stream, settings |-> settings, queries |-> queries, ids |-> ids,
     answers |-> {Void, Failure}]

BigBatch(stream) ==
    BatchJob(stream, [type |-> 1, serialConsistency |-> <<8>>, defaultTimestamp |-> <<1>>],
             <<BatchQuery(<<1>>, << >>, << >>), BatchQuery(<<2, 2>>, <<TRUE>>, <<<<A, B>>, <<B>>>>)>>,
             <<<< >>, <<6>>>>)
SmallBatch(stream) ==
    BatchJob(stream, [consistency |-> <<1>>], <<BatchQuery(<<3>>, << >>, <<<<A>>>>)>>, << >>)

\* Statements are executed the way queries are; their rows are not taken.
Statement(job) == [job EXCEPT !.api = "execute", !.answers = {Plain, Void}]

Big(stream, answers)   == QueryJob(stream, Everything, <<A, B>>, << >>, answers)
Small(stream, answers) == QueryJob(stream, Bare, << >>, << >>, answers)
Execute(stream, answers) == QueryJob(stream, Half, <<B>>, <<<<4, 4>>>>, answers)

(* What the driver asks for itself, with the answers it knows *)

AskJob(request, answers) ==
    [api |-> "ask", stream |-> 0, settings |-> << >>, request |-> request, answers |-> answers]

PreparedBody ==
    Int4(PreparedKind) \o <<0, 1, 9>> \o
    EncodePreparedMetadata([NoPreparedMetadata EXCEPT !.partitionKeyIndexes = <<0>>]) \o
    EncodeRowsMetadata(Described)

Asking ==
    <<AskJob(FreshRequest("OPTIONS"),
          {[Answer("SUPPORTED", Encode(ProtocolStringMultiMap, CompressionKey :> <<LZ4Name>>),
                   [options |-> CompressionKey :> <<LZ4Name>>]) EXCEPT !.cuts = {1, 6}]}),
      AskJob(SetCompression(FreshRequest("STARTUP"), <<LZ4Name>>),
          {Answer("READY", << >>, << >>),
           Answer("AUTHENTICATE", <<0, 1, 3>>, [class |-> Str(3)])}),
      AskJob([FreshRequest("AUTH_RESPONSE") EXCEPT !.token = Normal(<<0, 1, 0, 2>>)],
          {Answer("AUTH_SUCCESS", Int4(-1), [token |-> NullString]),
           Answer("AUTH_CHALLENGE", Int4(1) \o <<4>>, [token |-> Str(4)])}),
      AskJob([FreshRequest("PREPARE") EXCEPT !.query = Normal(<<5, 5>>)],
          {[Answer("RESULT", PreparedBody, [id |-> Str(9)]) EXCEPT !.cuts = {8}]}),
      AskJob([FreshRequest("REGISTER") EXCEPT !.events = <<Str(1), Str(2)>>],
          {Answer("EVENT", <<0, 1, 1, 7>>, [type |-> Str(1), data |-> <<7>>])}),
      AskJob(FreshRequest("OPTIONS"),
          {Answer("RESULT", Int4(SetKeySpaceKind) \o <<0, 1, 6>>, [keySpace |-> Str(6)]),
           Answer("RESULT", Int4(SchemaChangeKind) \o <<0, 1, 1, 0, 1, 2, 3>>,
                  [changeTarget |-> Str(2), changeOptions |-> <<3>>]),
           [Answer("ERROR", Int4(10) \o <<0, 1, 5, 9>>, << >>) EXCEPT !.cuts = {5}]})>>

Paging   == <<Big(1, {Paged, Failure}), Small(1, {Plain, Compressed(CutOnce)})>>
Preparing == <<Big(1, {Plain}), Execute(1, {Paged, Compressed(Verbose), Void})>>
Stating  == <<Statement(Small(1, {})), Execute(1, {Plain, Changed})>>
Batching == <<BigBatch(1), SmallBatch(1)>>

OtherQuery == <<Small(2, {CutOnce, Paged})>>
OtherExecute == <<Execute(2, {Verbose, Void})>>
OtherBatch == <<BigBatch(2)>>
OtherStatement == <<Statement(Big(2, {}))>>

\* What the two clients run side by side: commands of the same kind, and of
\* kinds that share only some of the free lists.
Together ==
    ({Paging} \X {OtherQuery, OtherBatch})
    \cup ({Preparing} \X {OtherExecute, OtherStatement})
    \cup ({Stating} \X {OtherExecute})
    \cup ({Batching} \X {OtherBatch, OtherStatement})

MCScripts == {1 :> t[1] @@ 2 :> t[2] : t \in Together} \cup {1 :> Asking @@ 2 :> << >>}

\* No result has a local date or time.
NoZone == [z \in {} |-> 0]
=============================================================================
