------------------------------ MODULE Exchange ------------------------------
(***************************************************************************)
(* Requests and responses end to end: clients of one thread share the free *)
(* lists of commands, messages and result sets (Reusable).  A client makes *)
(* a command, the session a message that refers to it, the connection a    *)
(* frame; the server reads the frame and answers; the answer is decoded    *)
(* into a message object somebody else may have used before, and its rows  *)
(* are filled into the client's variables.                                 *)
(*                                                                         *)
(* An object is an id of its type; the heap has its content, and Reusable  *)
(* says who owns it: a client, the free list, or a RESULT message, which   *)
(* owns a result set.                                                      *)
(***************************************************************************)
EXTENDS ColumnTypes, Messages

CONSTANTS
    Clients,
    Capacity,           \* of a free list
    Scripts,            \* what clients may do: [Clients -> Seq(job)]
    Compressing,        \* the clients whose connection has a compressor
    DefaultConsistency, \* of the session configuration
    PrepareAllQueries

ASSUME ExchangeAssumption ==
    /\ Capacity \in Nat
    /\ Compressing \subseteq Clients
    /\ PrepareAllQueries \in BOOLEAN

VARIABLES
    script,     \* the jobs each client has left, the present one first
    phase,      \* how far it is
    has,        \* the objects it owns, at most one of a type
    memory,     \* who owns what, see Reusable
    heap,       \* and what is in it, by type and address
    wire,       \* the frame on its connection
    seen,       \* the request the server has read
    answer,     \* and the answer it has given
    got         \* what the client has been given

vars == <<script, phase, has, memory, heap, wire, seen, answer, got>>

Types == {"COMMAND", "BATCH_COMMAND", "DATA"} \cup DOMAIN OpCode
Ids == 1 .. 2 * Cardinality(Clients) + Capacity
Nothing == [opCode |-> "none"]
Job(c) == Head(script[c])

-----------------------------------------------------------------------------
(* Reusable: the content of objects that are made and let go *)

Lists == INSTANCE Reusable WITH
            Client <- Clients, Simple <- Types \ {"RESULT", "DATA"}, Object <- Ids

NewData == [rowsCount |-> 0, columnsCount |-> 0, pagingState |-> << >>, left |-> << >>]

\* The content the constructor gives.
Constructed(t) ==
    CASE t = "COMMAND" -> NewCommand(<< >>)
      [] t = "BATCH_COMMAND" -> NewBatch
      [] t = "DATA" -> NewData
      [] t \in Responses -> NewResponse(t)
      [] t \in DOMAIN OpCode \ Responses -> FreshRequest(t)

\* freeResources does something for result sets only.
FreeResources(t, v) == IF t = "DATA" THEN [v EXCEPT !.left = << >>] ELSE v

\* The heap h when objects of type t have gone, in a RESULT those it owned:
\* m is the memory after it.
Deleted(h, m, t) ==
    LET Content(s, id) ==
            IF id \notin m.used[s] THEN Constructed(s)
            ELSE IF id \in ToSet(m.free[s]) THEN FreeResources(s, h[s][id]) ELSE h[s][id]
    IN  [s \in Types |-> IF s \in {t, "DATA"} THEN [id \in Ids |-> Content(s, id)] ELSE h[s]]

\* The object makeReusable takes, a new one at the lowest address, and what it
\* finds in it.  reset() is up to the caller.
Allocated(t) == Min(Lists!Available(memory, t))
Found(t) == heap[t][Allocated(t)]

\* The client c and what it owns, by type.
Own(c, t, id) == Lists!With(has[c], t, id)
Without(c, t) == Lists!Without(has[c], t)

Make(c, t, content) ==
    /\ memory' = Lists!Take(memory, t, Allocated(t))
    /\ heap' = [heap EXCEPT ![t][Allocated(t)] = content]
    /\ has' = [has EXCEPT ![c] = Own(c, t, Allocated(t))]

\* The owner c of an object with content v lets it go.
LetGo(c, t, v) ==
    /\ memory' = Lists!Release(memory, t, has[c][t])
    /\ heap' = Deleted([heap EXCEPT ![t][has[c][t]] = v], memory', t)
    /\ has' = [has EXCEPT ![c] = Without(c, t)]

-----------------------------------------------------------------------------
(* Commands.  A job says what the program sets; the rest is as reset()     *)
(* leaves it.                                                              *)

\* Seeded bug: a reset that forgets the paging state.
ResetButPaging(old, query) == [NewCommand(query) EXCEPT !.pagingState = old.pagingState]

ResetCommand(old, query) == NewCommand(query)

BuildCommand(old, job) ==
    job.settings @@ FoldLeft(AddParameter, ResetCommand(old, job.query), job.columns)

\* addQuery, prepareQuery, openParameterSet for every set but the first,
\* addParameters.
BuildQuery(b, q) ==
    FoldLeft(LAMBDA x, i : FoldLeft(AddBatchParameter, IF i = 1 THEN x ELSE OpenParameterSet(x),
                                    q.sets[i]),
             IF q.prepare = << >> THEN AddQuery(b, q.query)
             ELSE PrepareLastQuery(AddQuery(b, q.query), q.prepare[1]),
             [i \in DOMAIN q.sets |-> i])
BuildBatch(job) == job.settings @@ FoldLeft(BuildQuery, NewBatch, job.queries)

IsBatch(job) == job.api = "batch"
CommandType(job) == IF IsBatch(job) THEN "BATCH_COMMAND" ELSE "COMMAND"

\* setDefaultValues
WithDefaults(job, command) ==
    LET c == IF command.consistency # << >> THEN command
             ELSE [command EXCEPT !.consistency = <<DefaultConsistency>>]
        Prepare(q) == IF q.needPrepare # << >> THEN q
                      ELSE [q EXCEPT !.needPrepare = <<PrepareAllQueries>>]
    IN  IF IsBatch(job) THEN [c EXCEPT !.queries = [i \in DOMAIN @ |-> Prepare(@[i])]]
        ELSE Prepare(c)

\* The program makes a command and hands it to the session.
Call(c) ==
    /\ phase[c] = "idle" /\ script[c] # << >>
    /\ Job(c).api # "ask"
    /\ LET t == CommandType(Job(c))
           built == IF IsBatch(Job(c)) THEN BuildBatch(Job(c)) ELSE BuildCommand(Found(t), Job(c))
       IN  Make(c, t, WithDefaults(Job(c), built))
    /\ phase' = [phase EXCEPT ![c] = "called"]
    /\ UNCHANGED <<script, wire, seen, answer, got>>

-----------------------------------------------------------------------------
(* Requests *)

\* The message for a command: QUERY, or EXECUTE when the query is to be
\* prepared and the node has an id for it, or BATCH.
MessageFor(job, id, command) ==
    LET ref == [valid |-> TRUE, id |-> id]
    IN  CASE IsBatch(job) ->
                 FoldLeft(LAMBDA m, i : SetPreparedQueryId(m, command, i, job.ids[i]),
                          [FreshRequest("BATCH") EXCEPT !.command = ref,
                                                        !.flags = FlagsForBatch(command)],
                          [i \in DOMAIN job.ids |-> i])
          [] ~IsBatch(job) /\ ~command.needPrepare[1] ->
                 [FreshRequest("QUERY") EXCEPT !.command = ref,
                      !.flags = FlagsForCommand({SkipMetadata}, command)]
          [] ~IsBatch(job) /\ command.needPrepare[1] ->
                 [FreshRequest("EXECUTE") EXCEPT !.command = ref, !.id = Normal(job.ids[1]),
                      !.flags = FlagsForCommand({SkipMetadata}, command)]

MakeMessage(c, m) ==
    /\ Make(c, m.opCode, m)
    /\ phase' = [phase EXCEPT ![c] = "requested"]
    /\ UNCHANGED <<script, wire, seen, answer, got>>

MakeRequest(c) ==
    /\ phase[c] = "called"
    /\ LET t == CommandType(Job(c))
       IN  MakeMessage(c, MessageFor(Job(c), has[c][t], heap[t][has[c][t]]))

\* A request the driver itself sends, without a command.
Ask(c) ==
    /\ phase[c] = "idle" /\ script[c] # << >>
    /\ Job(c).api = "ask"
    /\ MakeMessage(c, Job(c).request)

MessageType(c) == CHOOSE t \in DOMAIN has[c] : t \in DOMAIN OpCode
Message(c) == heap[MessageType(c)][has[c][MessageType(c)]]

\* The command a message refers to, wherever it is.
Referred(m) ==
    IF "command" \notin DOMAIN m \/ ~m.command.valid THEN NoCommand
    ELSE heap[IF m.opCode = "BATCH" THEN "BATCH_COMMAND" ELSE "COMMAND"][m.command.id]

\* encodeMessage.  Its flag stays in the header of the message.
Send(c) ==
    /\ phase[c] = "requested"
    /\ LET m == Message(c)
           body == IF StreamIdFits(Job(c).stream) THEN EncodeRequest(m, Referred(m)) ELSE Thrown
           frame == EncodeMessage(SetStreamId(m.header, Job(c).stream), body, c \in Compressing)
       IN  /\ wire' = [wire EXCEPT ![c] = frame]
           /\ phase' = [phase EXCEPT ![c] = IF frame = Thrown THEN "unsent" ELSE "sending"]
    /\ UNCHANGED <<script, has, memory, heap, seen, answer, got>>

\* The send is over, or has failed, and the message goes.
Sent(c) ==
    /\ phase[c] \in {"sending", "unsent"}
    /\ LetGo(c, MessageType(c), Message(c))
    /\ phase' = [phase EXCEPT ![c] = IF phase[c] = "unsent" THEN "failed" ELSE "sent"]
    /\ UNCHANGED <<script, wire, seen, answer, got>>

-----------------------------------------------------------------------------
(* The server: reads the frame, by the codecs of the driver's tests where   *)
(* it has them, and answers with a whole body or the beginning of one.      *)

NameOf(code) == CHOOSE o \in DOMAIN OpCode : OpCode[o] = code

RECURSIVE ReadBatchQueries(_, _)
ReadBatchQueries(n, s) ==
    IF n = 0 THEN Took(<< >>, s)
    ELSE Bind(ReadInteger(ProtocolByte, s), LAMBDA kind, s1 :
         Bind(Read(IF kind = 0 THEN ProtocolLongString ELSE ProtocolShortBytes, s1),
              LAMBDA name, s2 :
         Bind(ReadCounted(TRUE, s2), LAMBDA params, s3 :
             Map(ReadBatchQueries(n - 1, s3),
                 LAMBDA qs : <<[kind |-> kind, name |-> name.bytes, params |-> params]>> \o qs))))

ReadRequest(opCode, s) ==
    CASE opCode = "OPTIONS" -> Took(<< >>, s)
      [] opCode = "STARTUP" -> Read(ProtocolStringMap, s)
      [] opCode = "PREPARE" -> Read(ProtocolLongString, s)
      [] opCode = "REGISTER" -> Read(ProtocolStringList, s)
      [] opCode = "AUTH_RESPONSE" -> Read(ProtocolBytes, s)
      [] opCode \in {"QUERY", "EXECUTE"} ->
             Bind(Read(IF opCode = "QUERY" THEN ProtocolLongString ELSE ProtocolShortBytes, s),
                  LAMBDA name, rest :
                      Map(ReadQueryParameters(rest), LAMBDA p : <<name.bytes, p>>))
      [] opCode = "BATCH" ->
             Bind(ReadInteger(ProtocolByte, s), LAMBDA type, s1 :
             Bind(ReadInteger(ProtocolShort, s1), LAMBDA n, s2 :
             Bind(ReadBatchQueries(n, s2), LAMBDA qs, s3 :
                 Map(ReadBatchParameters(s3), LAMBDA p : <<type, qs, p>>))))

ReadFrame(frame, compressed) ==
    LET h == ReadHeader(frame).value
        rest == ReadHeader(frame).rest
        body == OpenBody(h, rest, compressed).value
        opCode == NameOf(h.opCode)
    IN  [opCode |-> opCode, stream |-> h.streamId, direction |-> h.direction,
         whole |-> h.bodyLength = Len(rest), request |-> ReadRequest(opCode, body)]

\* The frame of an answer whose body is cut to n bytes.
AnswerFrame(a, n, stream) ==
    LET compressed == Compression \in a.flags
        body == SubSeq(a.body, 1, n)
        h == [Header(a.opCode, Response) EXCEPT !.flags = a.flags, !.streamId = stream]
    IN  EncodeHeaderPost(EncodeHeaderPre(h) \o a.before \o
                         (IF compressed THEN Compress(body) ELSE body))

Serve(c) ==
    /\ phase[c] = "sent"
    /\ seen' = [seen EXCEPT ![c] = ReadFrame(wire[c], c \in Compressing)]
    /\ \E a \in Job(c).answers : \E n \in a.cuts \cup {Len(a.body)} :
          /\ answer' = [answer EXCEPT ![c] = [a EXCEPT !.cuts = n]]
          /\ wire' = [wire EXCEPT ![c] = AnswerFrame(a, n, Job(c).stream)]
    /\ phase' = [phase EXCEPT ![c] = "answered"]
    /\ UNCHANGED <<script, has, memory, heap, got>>

-----------------------------------------------------------------------------
(* Responses *)

\* What a RESULT object is left with when its body does not decode.  Of the
\* members the next reset() leaves alone, the names and columns are written
\* before they are read; the paging state is not.
AfterRefusal(r, s) ==
    LET rest == Drop(s, 12)
        flags == FlagsOf(FromBigEndian(SubSeq(s, 5, 8), TRUE), RowsFlags)
        state == Read(ProtocolBytes, rest)
    IN  IF /\ Len(s) >= 12 /\ FromBigEndian(SubSeq(s, 1, 4), TRUE) = RowsKind
           /\ HasMorePages \in flags /\ state.ok
        THEN [r EXCEPT !.rowsMetadata.pagingState = state.value] ELSE r

\* Seeded bug: the paging state copied out of the message.
CopiedFrom(m) == m

\* The metadata of rows after std::move(getPagingState()).
MovedFrom(m) == [m EXCEPT !.pagingState.bytes = << >>]

DataOf(r, rest) ==
    [rowsCount |-> r.rowsCount, columnsCount |-> r.rowsMetadata.columnsCount,
     pagingState |-> r.rowsMetadata.pagingState.bytes, left |-> rest]

\* The receiver reads a header and makes the message, reset: a result set it
\* still owned goes.
ReceiveHeader(c) ==
    /\ phase[c] = "answered"
    /\ LET t == NameOf(ReadHeader(wire[c]).value.opCode)
           id == Allocated(t)
       IN  /\ memory' = Lists!Reset(Lists!Take(memory, t, id), t, id)
           /\ heap' = Deleted([heap EXCEPT ![t][id] = ResetResponse(t, @)], memory', "DATA")
           /\ has' = [has EXCEPT ![c] = Own(c, t, id)]
    /\ phase' = [phase EXCEPT ![c] = "decoding"]
    /\ UNCHANGED <<script, wire, seen, answer, got>>

\* The message object id is decoded into r; rows get a result set.
Decoded(t, id, r, rest) ==
    IF t = "RESULT" /\ r.kind = RowsKind
    THEN /\ memory' = [Lists!Take(memory, "DATA", Allocated("DATA")) EXCEPT
                          !.inner = Lists!With(@, id, Allocated("DATA"))]
         /\ heap' = [heap EXCEPT !["DATA"][Allocated("DATA")] = DataOf(r, rest),
                                 ![t][id] = [r EXCEPT !.rowsMetadata = MovedFrom(@)]]
    ELSE heap' = [heap EXCEPT ![t][id] = r] /\ UNCHANGED memory

\* r is what the decodeBody of the message object makes of the body.  One that
\* does not decode gives the object back and closes the connection.
DecodedBody(c, t, body, r) ==
    IF r.ok
    THEN /\ Decoded(t, has[c][t], r.value, r.rest)
         /\ phase' = [phase EXCEPT ![c] = "received"]
         /\ UNCHANGED has
    ELSE /\ LetGo(c, t, IF t = "RESULT" /\ body.ok THEN AfterRefusal(Message(c), body.value)
                        ELSE Message(c))
         /\ phase' = [phase EXCEPT ![c] = "failed"]

DecodeInto(c, t, body) ==
    DecodedBody(c, t, body, IF body.ok THEN ReadResponse(t, Message(c), body.value) ELSE Refused)

ReceiveBody(c) ==
    /\ phase[c] = "decoding"
    /\ LET h == ReadHeader(wire[c]).value
       IN  DecodeInto(c, MessageType(c), OpenBody(h, ReadHeader(wire[c]).rest, c \in Compressing))
    /\ wire' = [wire EXCEPT ![c] = << >>]
    /\ UNCHANGED <<script, seen, answer, got>>

\* Seeded bug: the result set copied, not moved.
StillHas(inner, id) == inner

WithoutResultSet(inner, id) == Lists!Without(inner, id)

\* Session::query takes the result set of rows, or an empty one.
TakeResultSet(c) ==
    /\ phase[c] = "received" /\ Job(c).api = "query" /\ MessageType(c) = "RESULT"
    /\ LET id == has[c]["RESULT"]
           rows == Message(c).kind = RowsKind
           data == IF rows THEN memory.inner[id] ELSE Allocated("DATA")
           m == IF rows THEN [memory EXCEPT !.inner = WithoutResultSet(@, id)]
                ELSE Lists!Take(memory, "DATA", data)
       IN  /\ memory' = Lists!Release(m, "RESULT", id)
           /\ heap' = Deleted(IF rows THEN heap ELSE [heap EXCEPT !["DATA"][data] = NewData],
                              memory', "RESULT")
           /\ has' = [has EXCEPT ![c] = Lists!Swap(@, data)]
    /\ phase' = [phase EXCEPT ![c] = "filling"]
    /\ UNCHANGED <<script, wire, seen, answer, got>>

\* The other calls look at the message and let it go, its result set with it.
TakeMessage(c) ==
    /\ phase[c] = "received" /\ ~(Job(c).api = "query" /\ MessageType(c) = "RESULT")
    /\ got' = [got EXCEPT ![c] = IF Job(c).api = "ask" THEN <<Message(c)>> ELSE @]
    /\ LetGo(c, MessageType(c), Message(c))
    /\ phase' = [phase EXCEPT ![c] = IF MessageType(c) = "ERROR" THEN "failed" ELSE "done"]
    /\ UNCHANGED <<script, wire, seen, answer>>

Data(c) == heap["DATA"][has[c]["DATA"]]

\* Seeded bug: every row from the same place.
StayThere(left, rest) == left

NextPlace(left, rest) == rest

\* ResultSet::fill, once a row.
Fill(c) ==
    /\ phase[c] = "filling"
    /\ Len(got[c]) < Data(c).rowsCount
    /\ LET row == DecodeItems(Job(c).types, Data(c).left)
       IN  IF row.ok
           THEN /\ got' = [got EXCEPT ![c] = Append(@, row.value)]
                /\ heap' = [heap EXCEPT !["DATA"][has[c]["DATA"]].left =
                                NextPlace(@, row.rest)]
                /\ UNCHANGED phase
           ELSE phase' = [phase EXCEPT ![c] = "failed"] /\ UNCHANGED <<got, heap>>
    /\ UNCHANGED <<script, has, memory, wire, seen, answer>>

FilledAll(c) ==
    /\ phase[c] = "filling"
    /\ Len(got[c]) = Data(c).rowsCount
    /\ phase' = [phase EXCEPT ![c] = "done"]
    /\ UNCHANGED <<script, has, memory, heap, wire, seen, answer, got>>

\* The program lets its result set go, and then its command.
LetResultSetGo(c) ==
    /\ phase[c] \in {"done", "failed"} /\ "DATA" \in DOMAIN has[c]
    /\ LetGo(c, "DATA", Data(c))
    /\ UNCHANGED <<script, phase, wire, seen, answer, got>>

Finish(c) ==
    /\ phase[c] \in {"done", "failed"} /\ "DATA" \notin DOMAIN has[c]
    /\ IF has[c] = << >> THEN UNCHANGED <<has, memory, heap>>
       ELSE LET t == CommandType(Job(c)) IN LetGo(c, t, heap[t][has[c][t]])
    /\ script' = [script EXCEPT ![c] = Tail(@)]
    /\ phase' = [phase EXCEPT ![c] = "idle"]
    /\ seen' = [seen EXCEPT ![c] = Nothing]
    /\ answer' = [answer EXCEPT ![c] = Nothing]
    /\ got' = [got EXCEPT ![c] = << >>]
    /\ wire' = [wire EXCEPT ![c] = << >>]

-----------------------------------------------------------------------------
Init ==
    /\ script \in Scripts
    /\ phase = [c \in Clients |-> "idle"]
    /\ has = [c \in Clients |-> << >>]
    /\ memory = [used |-> [t \in Types |-> {}], free |-> [t \in Types |-> << >>],
                 inner |-> << >>]
    /\ heap = [t \in Types |-> [id \in Ids |-> Constructed(t)]]
    /\ wire = [c \in Clients |-> << >>]
    /\ seen = [c \in Clients |-> Nothing]
    /\ answer = [c \in Clients |-> Nothing]
    /\ got = [c \in Clients |-> << >>]

ClientStep(c) == Call(c) \/ MakeRequest(c) \/ Ask(c) \/ TakeResultSet(c) \/ TakeMessage(c)
                 \/ Fill(c) \/ FilledAll(c) \/ LetResultSetGo(c) \/ Finish(c)
ConnectionStep(c) ==
    Send(c) \/ Sent(c) \/ Serve(c) \/ ReceiveHeader(c) \/ ReceiveBody(c)

Next == \E c \in Clients : ClientStep(c) \/ ConnectionStep(c)

Spec == Init /\ [][Next]_vars

-----------------------------------------------------------------------------
(* Properties *)

\* The values of a job, defaults included, as far as a request can say them.
Given(job, field, default) == IF field \in DOMAIN job.settings THEN job.settings[field] ELSE default
Parameters(columns) == <<Len(columns), FlattenSeq(columns)>>

SaysCommand(p, job) ==
    LET c == p.command
    IN  /\ SkipMetadata \in p.flags
        /\ c.consistency = Given(job, "consistency", <<DefaultConsistency>>)
        /\ <<c.parameterCount, c.parameters>> = Parameters(job.columns)
        /\ c.pageSize = Given(job, "pageSize", << >>)
        /\ c.pagingState = IF c.pageSize = << >> THEN << >> ELSE Given(job, "pagingState", << >>)
        /\ c.serialConsistency = Given(job, "serialConsistency", << >>)
        /\ c.defaultTimestamp = Given(job, "defaultTimestamp", << >>)

\* One entry for each parameter set of each query, in order.
BatchEntries(job) ==
    FlattenSeq([i \in DOMAIN job.queries |->
        LET q == job.queries[i]
            id == IF i \in DOMAIN job.ids THEN job.ids[i] ELSE << >>
            sets == IF q.sets = << >> THEN <<<< >>>> ELSE q.sets
        IN  [k \in DOMAIN sets |->
                [kind |-> IF id = << >> THEN 0 ELSE 1,
                 name |-> IF id = << >> THEN q.query ELSE id,
                 params |-> Parameters(sets[k])]]])

SaysBatch(v, job) ==
    /\ v[1] = Given(job, "type", 0)
    /\ v[2] = BatchEntries(job)
    /\ v[3].consistency = Given(job, "consistency", <<DefaultConsistency>>)
    /\ v[3].serialConsistency = Given(job, "serialConsistency", << >>)
    /\ v[3].defaultTimestamp = Given(job, "defaultTimestamp", << >>)

Says(s, job) ==
    CASE s.opCode = "QUERY" ->
             s.request.value[1] = job.query /\ SaysCommand(s.request.value[2], job)
      [] s.opCode = "EXECUTE" ->
             s.request.value[1] = job.ids[1] /\ SaysCommand(s.request.value[2], job)
      [] s.opCode = "BATCH" -> SaysBatch(s.request.value, job)
      [] s.opCode = "STARTUP" -> s.request.value = job.request.options
      [] s.opCode = "PREPARE" -> s.request.value = job.request.query
      [] s.opCode = "REGISTER" -> s.request.value = job.request.events
      [] s.opCode = "AUTH_RESPONSE" -> s.request.value = job.request.token
      [] s.opCode = "OPTIONS" -> TRUE

\* The server reads what the program has said in this command and nothing of
\* what the objects were used for before: every flag comes with its value, in
\* the order the server reads them, the header announces exactly the body, and
\* the session's defaults stand in for what the command leaves out
\* (setCommandRef, encodeBody, reset, encodeHeaderPost).
RequestSaysCommand ==
    \A c \in Clients : seen[c] # Nothing =>
        /\ seen[c].whole /\ seen[c].direction = Request
        /\ seen[c].stream = Job(c).stream
        /\ seen[c].request.ok /\ seen[c].request.rest = << >>
        /\ Says(seen[c], Job(c))

Whole(c) == answer[c].cuts = Len(answer[c].body)

\* A client is given the answer to its own request: the counts and the paging
\* state of its rows, none when there are none, whatever the message object
\* has been used for (ResultMessage::reset, which does not reset all of the
\* metadata, and ResultSetData::reset).  A whole answer is not refused.
AnswerArrives ==
    \A c \in Clients :
        /\ phase[c] = "filling" =>
               [f \in {"rowsCount", "columnsCount", "pagingState"} |-> Data(c)[f]]
               = answer[c].content
        /\ phase[c] = "done" /\ Job(c).api = "ask" /\ Whole(c) =>
               \A f \in DOMAIN answer[c].content : got[c][1][f] = answer[c].content[f]
        /\ phase[c] = "failed" /\ answer[c] # Nothing =>
               ~Whole(c) \/ answer[c].opCode = "ERROR"

\* The rows filled are those of the answer, in order, while other clients fill
\* theirs from result sets of the same free list; a row that is cut is never
\* made up (ResultSet::fill, the buffer moved into ResultSetData).
RowsFillInOrder ==
    \A c \in Clients : script[c] # << >> /\ Job(c).api = "query" =>
        /\ got[c] # << >> => IsPrefix(got[c], answer[c].rows)
        /\ phase[c] = "done" => got[c] = answer[c].rows

\* Every object in use has one owner, whatever the exchanges of the clients do
\* with messages half decoded, refused, and result sets moved (OneOwner of
\* Reusable).
OneOwner == Lists!OneOwner

\* Every step of an exchange makes, moves and lets go objects as Reusable
\* does: a moved Reusable, a message that is reset or refused, and a full free
\* list included.
KeepsLists == Lists!Spec
=============================================================================
