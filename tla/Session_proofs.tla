--------------------------- MODULE Session_proofs ---------------------------
(***************************************************************************)
(* Proofs about Session for any commands, queries, streams and retries.    *)
(***************************************************************************)
EXTENDS Session, FiniteSetTheorems, SequenceTheorems, TLAPS

-----------------------------------------------------------------------------
(* Types *)

LEMMA IndexFacts ==
    ASSUME NEW c \in Cmd
    PROVE  /\ Index(c) = 1 .. Len(Queries[c])
           /\ IsFiniteSet(Index(c))
           /\ Index(c) \subseteq Nat
           /\ \A i \in Index(c) : Queries[c][i] \in Query
           /\ NeedPrepare[c] \subseteq Index(c)
           /\ MaxRetries[c] \in Nat
<1>1. Queries[c] \in Seq(Query)
  BY SessionAssumption DEF SessionAssumption
<1>2. Index(c) = 1 .. Len(Queries[c]) /\ Len(Queries[c]) \in Nat
  BY <1>1 DEF Index
<1>3. IsFiniteSet(Index(c))
  BY <1>2, FS_Interval
<1>4. \A i \in Index(c) : Queries[c][i] \in Query
  BY <1>1 DEF Index
<1> QED
  BY <1>2, <1>3, <1>4, SessionAssumption DEF SessionAssumption

\* The queries still to be prepared are listed as a sequence of their indexes.
LEMMA IncreasingIsSeq ==
    ASSUME NEW c \in Cmd, NEW n \in Node, NEW p \in Increasing(Missing(c, n))
    PROVE  p \in Seq(Index(c))
<1> DEFINE S == Missing(c, n)
<1>1. S \subseteq Index(c)
  BY IndexFacts DEF Missing
<1>2. IsFiniteSet(S)
  BY <1>1, IndexFacts, FS_Subset
<1>3. Cardinality(S) \in Nat
  BY <1>2, FS_CardinalityType
<1>4. p \in [1 .. Cardinality(S) -> S]
  BY DEF Increasing
<1>5. p \in [1 .. Cardinality(S) -> Index(c)]
  BY <1>1, <1>4
<1> HIDE DEF S
<1> QED
  BY <1>3, <1>5, IsASeq

LEMMA InitTypes == Init => TypeOK
<1> SUFFICES ASSUME Init PROVE TypeOK
  OBVIOUS
<1>1. retries \in [Cmd -> Nat]
  BY SessionAssumption DEF Init, SessionAssumption
<1>2. \A c \in Cmd : ids[c] \in [Index(c) -> Query \cup {None}]
  BY DEF Init, NoIds
<1>3. DOMAIN ids = Cmd /\ DOMAIN order = Cmd
  BY DEF Init
<1>4. /\ \A c \in Cmd : order[c] \in Seq(Index(c))
      /\ results \in [Cmd -> Seq(Reply)]
      /\ requests \in [Stream -> Seq(Request)]
      /\ replies \in [Stream -> Seq(Reply)]
  BY DEF Init
<1> QED
  BY <1>1, <1>2, <1>3, <1>4 DEF Init, TypeOK, Phase, Exception

LEMMA CallTypes ==
    ASSUME TypeOK, NEW c \in Cmd, Call(c)
    PROVE  TypeOK'
<1>1. phase' \in [Cmd -> Phase]
  BY DEF TypeOK, Call, Phase
<1>2. error' \in [Cmd -> Exception]
  BY DEF TypeOK, Call, Exception
<1>3. attempts' \in [Cmd -> Nat]
  <2>1. attempts' = attempts \/ attempts' = [attempts EXCEPT ![c] = attempts[c] + 1]
    BY DEF Call
  <2>2. attempts \in [Cmd -> Nat]
    BY DEF TypeOK
  <2> QED
    BY <2>1, <2>2
<1>4. UNCHANGED <<stream, retries, unprepared, prepareVars, cache, serverVars, channelVars>>
  BY DEF Call
<1> QED
  BY <1>1, <1>2, <1>3, <1>4 DEF TypeOK, prepareVars, serverVars, channelVars

LEMMA GetConnectionTypes ==
    ASSUME TypeOK, NEW c \in Cmd, NEW s \in Stream, GetConnection(c, s)
    PROVE  TypeOK'
<1> DEFINE n == NodeOf[s]
<1>1. n \in Node
  BY SessionAssumption DEF SessionAssumption
<1>2. CachedIds(c, n) \in [Index(c) -> Query \cup {None}]
  BY <1>1, IndexFacts DEF TypeOK, CachedIds
<1>3. PICK missing \in Increasing(Missing(c, n)) :
         /\ order' = [order EXCEPT ![c] = missing]
         /\ phase' = [phase EXCEPT ![c] = IF missing = <<>> THEN "sending" ELSE "preparing"]
  BY DEF GetConnection
<1>4. missing \in Seq(Index(c))
  BY <1>1, <1>3, IncreasingIsSeq
<1>5. DOMAIN order' = Cmd /\ \A d \in Cmd : order'[d] \in Seq(Index(d))
  BY <1>3, <1>4 DEF TypeOK
<1>6. DOMAIN ids' = Cmd /\ \A d \in Cmd : ids'[d] \in [Index(d) -> Query \cup {None}]
  BY <1>2 DEF TypeOK, GetConnection
<1>7. phase' \in [Cmd -> Phase]
  BY <1>3 DEF TypeOK, Phase
<1>8. /\ open' \subseteq Stream
      /\ requests' \in [Stream -> Seq(Request)]
      /\ replies' \in [Stream -> Seq(Reply)]
  <2>1. CASE UNCHANGED channelVars
    BY <2>1 DEF TypeOK, channelVars
  <2>2. CASE /\ open' = open \cup {s}
             /\ requests' = [requests EXCEPT ![s] = <<>>]
             /\ replies' = [replies EXCEPT ![s] = <<>>]
    <3>1. <<>> \in Seq(Request) /\ <<>> \in Seq(Reply)
      OBVIOUS
    <3> QED
      BY <2>2, <3>1 DEF TypeOK
  <2> QED
    BY <2>1, <2>2 DEF GetConnection
<1>9. stream' \in [Cmd -> Stream \cup {None}]
  BY DEF TypeOK, GetConnection
<1>10. results' \in [Cmd -> Seq(Reply)]
  <2>1. results' = [results EXCEPT ![c] = <<>>] /\ <<>> \in Seq(Reply)
    BY DEF GetConnection
  <2> QED
    BY <2>1 DEF TypeOK
<1>11. sent' \in [Cmd -> Nat]
  BY DEF TypeOK, GetConnection
<1> QED
  BY <1>5, <1>6, <1>7, <1>8, <1>9, <1>10, <1>11
     DEF TypeOK, GetConnection, flowVars, serverVars

\* The attempts that end by an exception nobody handles.
LEMMA ThrowsTypes ==
    ASSUME TypeOK, NEW c \in Cmd, NoConnection(c) \/ SendFails(c) \/ WaitFails(c)
    PROVE  TypeOK'
<1>1. PICK exception \in {"unavailable", "network"} : Throws(c, exception)
  BY DEF NoConnection, SendFails, WaitFails
<1>2. phase' \in [Cmd -> Phase] /\ error' \in [Cmd -> Exception]
  BY <1>1 DEF TypeOK, Throws, Phase, Exception
<1>3. /\ UNCHANGED <<stream, attempts, prepareVars, cache, serverVars, channelVars>>
      /\ UNCHANGED <<retries, unprepared>>
  BY <1>1 DEF NoConnection, SendFails, WaitFails, Throws
<1> QED
  BY <1>2, <1>3 DEF TypeOK, prepareVars, serverVars, channelVars

LEMMA SendPrepareTypes ==
    ASSUME TypeOK, NEW c \in Cmd, SendPrepare(c), stream[c] \in Stream
    PROVE  TypeOK'
<1> DEFINE query == Queries[c][order[c][sent[c] + 1]]
           request == [kind |-> "PREPARE", cmd |-> c, uses |-> query]
<1>1. order[c] \in Seq(Index(c)) /\ sent[c] \in Nat /\ sent[c] < Len(order[c])
  BY DEF TypeOK, SendPrepare
<1>2. order[c][sent[c] + 1] \in Index(c)
  BY <1>1, ElementOfSeq
<1>3. query \in Query
  BY <1>2, IndexFacts
<1>4. request \in Request
  BY <1>3 DEF Request
<1>5. requests' = [requests EXCEPT ![stream[c]] = Append(requests[stream[c]], request)]
  BY DEF SendPrepare
<1> HIDE DEF request
<1>6. requests' \in [Stream -> Seq(Request)]
  BY <1>4, <1>5 DEF TypeOK
<1>7. sent' \in [Cmd -> Nat]
  BY DEF SendPrepare, TypeOK
<1> QED
  BY <1>6, <1>7 DEF TypeOK, SendPrepare, flowVars, serverVars

LEMMA ReceivePreparedTypes ==
    ASSUME TypeOK, NEW c \in Cmd, ReceivePrepared(c), stream[c] \in Stream
    PROVE  TypeOK'
<1> DEFINE queue == replies[stream[c]]
<1>1. queue \in Seq(Reply) /\ queue # <<>>
  BY DEF TypeOK, ReceivePrepared
<1>2. Head(queue) \in Reply /\ Tail(queue) \in Seq(Reply)
  BY <1>1
<1>3. /\ results' = [results EXCEPT ![c] = Append(results[c], Head(queue))]
      /\ replies' = [replies EXCEPT ![stream[c]] = Tail(queue)]
  BY DEF ReceivePrepared
<1> HIDE DEF queue
<1>4. results' \in [Cmd -> Seq(Reply)] /\ replies' \in [Stream -> Seq(Reply)]
  BY <1>2, <1>3 DEF TypeOK
<1> QED
  BY <1>4 DEF TypeOK, ReceivePrepared, flowVars, serverVars

LEMMA HandleErrorTypes ==
    ASSUME TypeOK, NEW c \in Cmd, stream[c] \in Stream, NEW kind, NEW known,
           known \in [Node -> [Query -> Query \cup {None}]],
           HandleErrorMessage(c, kind, known)
    PROVE  /\ cache' \in [Node -> [Query -> Query \cup {None}]]
           /\ unprepared' \in [Cmd -> {0, 1}]
           /\ retries' \in [Cmd -> Nat]
           /\ error' \in [Cmd -> Exception]
           /\ phase' \in [Cmd -> Phase]
<1> DEFINE again == PreparesAgain(c, kind)
           left == IF again THEN retries[c] + 1
                   ELSE IF ShouldRetryFor(kind) THEN retries[c] ELSE 0
           evicted == {Queries[c][i] : i \in NeedPrepare[c]}
           node == NodeOf[stream[c]]
<1>1. /\ cache' = IF again
                   THEN [known EXCEPT ![node] =
                           [q \in Query |-> IF q \in evicted THEN None ELSE known[node][q]]]
                   ELSE known
      /\ unprepared' = [unprepared EXCEPT ![c] = IF again THEN 1 ELSE unprepared[c]]
      /\ retries' = [retries EXCEPT ![c] = left]
      /\ error' = [error EXCEPT ![c] = Raised(left)]
      /\ phase' = [phase EXCEPT ![c] = "failed"]
  BY Zenon DEF HandleErrorMessage
<1>2. left \in Nat
  BY DEF TypeOK
<1>3. node \in Node
  BY SessionAssumption DEF SessionAssumption
<1>4. Raised(left) \in Exception
  BY DEF Raised, Exception
<1> HIDE DEF again, left, evicted, node
<1>5. cache' \in [Node -> [Query -> Query \cup {None}]]
  BY <1>1, <1>3
<1>6. unprepared' \in [Cmd -> {0, 1}]
  BY <1>1 DEF TypeOK
<1>7. retries' \in [Cmd -> Nat]
  BY <1>1, <1>2 DEF TypeOK
<1>8. error' \in [Cmd -> Exception]
  BY <1>1, <1>4 DEF TypeOK
<1>9. phase' \in [Cmd -> Phase]
  BY <1>1 DEF TypeOK, Phase
<1> QED
  BY <1>5, <1>6, <1>7, <1>8, <1>9

LEMMA HandleUnexpectedTypes ==
    ASSUME TypeOK, NEW c \in Cmd, HandleUnexpected(c)
    PROVE  /\ unprepared' \in [Cmd -> {0, 1}]
           /\ retries' \in [Cmd -> Nat]
           /\ error' \in [Cmd -> Exception]
           /\ phase' \in [Cmd -> Phase]
BY DEF TypeOK, HandleUnexpected, Exception, Phase

LEMMA NoResultsTypes ==
    ASSUME TypeOK, NEW c \in Cmd, NoResults(c)
    PROVE  /\ DOMAIN order' = Cmd /\ \A d \in Cmd : order'[d] \in Seq(Index(d))
           /\ sent' \in [Cmd -> Nat]
           /\ results' \in [Cmd -> Seq(Reply)]
<1>1. /\ order' = [order EXCEPT ![c] = <<>>]
      /\ sent' = [sent EXCEPT ![c] = 0]
      /\ results' = [results EXCEPT ![c] = <<>>]
  BY DEF NoResults
<1>2. <<>> \in Seq(Index(c)) /\ <<>> \in Seq(Reply)
  OBVIOUS
<1> QED
  BY <1>1, <1>2 DEF TypeOK

LEMMA HandlePreparedTypes ==
    ASSUME TypeOK, NEW c \in Cmd, HandlePrepared(c), stream[c] \in Stream
    PROVE  TypeOK'
<1> DEFINE node == NodeOf[stream[c]]
           bad == {k \in DOMAIN results[c] : Bad(c, k)}
           stored == {k \in DOMAIN results[c] :
                         \A j \in 1 .. k : results[c][j].kind = "Prepared"}
           For(q) == {k \in stored : Queries[c][QueryIndex(c, k)] = q}
           At(i) == {k \in stored : QueryIndex(c, k) = i}
           Id(k) == results[c][k].id
           known == [cache EXCEPT ![node] =
               [q \in Query |-> IF For(q) = {} THEN cache[node][q]
                                ELSE Id(CHOOSE k \in For(q) : TRUE)]]
           newIds == [i \in Index(c) |-> IF At(i) = {} THEN ids[c][i]
                                         ELSE Id(CHOOSE k \in At(i) : TRUE)]
<1>1. /\ ids' = [ids EXCEPT ![c] = newIds]
      /\ \/ /\ cache' = known
            /\ phase' = [phase EXCEPT ![c] = "sending"]
            /\ UNCHANGED <<retries, unprepared, error>>
         \/ \E k \in bad : HandleErrorMessage(c, results[c][k].kind, known)
         \/ HandleUnexpected(c) /\ cache' = known
      /\ NoResults(c)
      /\ UNCHANGED <<stream, attempts, serverVars, channelVars>>
  BY Zenon DEF HandlePrepared
<1>2. \A k \in DOMAIN results[c] : Id(k) \in Query \cup {None}
  <2>1. results[c] \in Seq(Reply)
    BY DEF TypeOK
  <2>2. \A k \in DOMAIN results[c] : results[c][k] \in Reply
    BY <2>1
  <2> QED
    BY <2>2 DEF Reply
<1>4. newIds \in [Index(c) -> Query \cup {None}]
  <2>1. \A i \in Index(c) : At(i) # {} => (CHOOSE k \in At(i) : TRUE) \in DOMAIN results[c]
    OBVIOUS
  <2>2. \A i \in Index(c) : ids[c][i] \in Query \cup {None}
    BY DEF TypeOK
  <2> HIDE DEF At, Id
  <2> QED
    BY <1>2, <2>1, <2>2
<1>5. known \in [Node -> [Query -> Query \cup {None}]]
  <2>1. \A q \in Query : For(q) # {} => (CHOOSE k \in For(q) : TRUE) \in DOMAIN results[c]
    OBVIOUS
  <2>2. node \in Node
    BY SessionAssumption DEF SessionAssumption
  <2>3. \A q \in Query : cache[node][q] \in Query \cup {None}
    BY <2>2 DEF TypeOK
  <2>4. cache \in [Node -> [Query -> Query \cup {None}]]
    BY DEF TypeOK
  <2> HIDE DEF For, Id, node
  <2>5. [q \in Query |-> IF For(q) = {} THEN cache[node][q]
                         ELSE Id(CHOOSE k \in For(q) : TRUE)]
           \in [Query -> Query \cup {None}]
    BY <1>2, <2>1, <2>3
  <2> QED
    BY <2>2, <2>4, <2>5
<1> HIDE DEF known, newIds
<1>6. /\ cache' \in [Node -> [Query -> Query \cup {None}]]
      /\ unprepared' \in [Cmd -> {0, 1}]
      /\ retries' \in [Cmd -> Nat]
      /\ error' \in [Cmd -> Exception]
      /\ phase' \in [Cmd -> Phase]
  <2>1. CASE /\ cache' = known
             /\ phase' = [phase EXCEPT ![c] = "sending"]
             /\ UNCHANGED <<retries, unprepared, error>>
    BY <2>1, <1>5 DEF TypeOK, Phase
  <2>2. CASE \E k \in bad : HandleErrorMessage(c, results[c][k].kind, known)
    BY <2>2, <1>5, HandleErrorTypes
  <2>3. CASE HandleUnexpected(c) /\ cache' = known
    BY <2>3, <1>5, HandleUnexpectedTypes
  <2> QED
    BY <1>1, <2>1, <2>2, <2>3
<1>7. DOMAIN ids' = Cmd /\ \A d \in Cmd : ids'[d] \in [Index(d) -> Query \cup {None}]
  BY <1>1, <1>4 DEF TypeOK
<1>8. /\ DOMAIN order' = Cmd /\ \A d \in Cmd : order'[d] \in Seq(Index(d))
      /\ sent' \in [Cmd -> Nat]
      /\ results' \in [Cmd -> Seq(Reply)]
  BY <1>1, NoResultsTypes
<1> QED
  BY <1>1, <1>6, <1>7, <1>8 DEF TypeOK, serverVars, channelVars

LEMMA SendCommandTypes ==
    ASSUME TypeOK, NEW c \in Cmd, SendCommand(c), stream[c] \in Stream
    PROVE  TypeOK'
<1> DEFINE used == {ids[c][i] : i \in Index(c)} \ {None}
           request == [kind |-> "RUN", cmd |-> c, uses |-> used]
<1>1. used \in SUBSET Query
  BY DEF TypeOK
<1>2. request \in Request
  BY <1>1 DEF Request
<1>3. requests' = [requests EXCEPT ![stream[c]] = Append(requests[stream[c]], request)]
  BY DEF SendCommand
<1> HIDE DEF request
<1>4. requests' \in [Stream -> Seq(Request)]
  BY <1>2, <1>3 DEF TypeOK
<1>5. phase' \in [Cmd -> Phase]
  BY DEF SendCommand, TypeOK, Phase
<1>6. NoIds(c) \in [Index(c) -> Query \cup {None}]
  BY DEF NoIds
<1>7. DOMAIN ids' = Cmd /\ \A d \in Cmd : ids'[d] \in [Index(d) -> Query \cup {None}]
  BY <1>6 DEF SendCommand, TypeOK
<1> QED
  BY <1>4, <1>5, <1>7 DEF TypeOK, SendCommand, flowVars, serverVars

LEMMA ReceiveResultTypes ==
    ASSUME TypeOK, NEW c \in Cmd, ReceiveResult(c), stream[c] \in Stream
    PROVE  TypeOK'
<1> DEFINE queue == replies[stream[c]]
<1>1. queue \in Seq(Reply) /\ queue # <<>>
  BY DEF TypeOK, ReceiveResult
<1>2. Tail(queue) \in Seq(Reply)
  BY <1>1
<1>3. replies' = [replies EXCEPT ![stream[c]] = Tail(queue)]
  BY DEF ReceiveResult
<1>4. replies' \in [Stream -> Seq(Reply)]
  BY <1>2, <1>3 DEF TypeOK
<1>5. /\ cache' \in [Node -> [Query -> Query \cup {None}]]
      /\ unprepared' \in [Cmd -> {0, 1}]
      /\ retries' \in [Cmd -> Nat]
      /\ error' \in [Cmd -> Exception]
      /\ phase' \in [Cmd -> Phase]
  <2>1. CASE /\ phase' = [phase EXCEPT ![c] = "succeeded"]
             /\ error' = [error EXCEPT ![c] = "none"]
             /\ UNCHANGED <<retries, unprepared, cache>>
    BY <2>1 DEF TypeOK, Phase, Exception
  <2>2. CASE HandleErrorMessage(c, Head(queue).kind, cache)
    <3>1. cache \in [Node -> [Query -> Query \cup {None}]]
      BY DEF TypeOK
    <3> QED
      BY <2>2, <3>1, HandleErrorTypes
  <2>3. CASE HandleUnexpected(c) /\ UNCHANGED cache
    <3>1. cache' \in [Node -> [Query -> Query \cup {None}]]
      BY <2>3 DEF TypeOK
    <3> QED
      BY <2>3, <3>1, HandleUnexpectedTypes
  <2> QED
    BY <2>1, <2>2, <2>3 DEF ReceiveResult
<1>6. UNCHANGED <<stream, attempts, prepareVars, serverVars, open, requests>>
  BY DEF ReceiveResult
<1> QED
  BY <1>4, <1>5, <1>6 DEF TypeOK, prepareVars, serverVars

LEMMA DeterminateTypes ==
    ASSUME TypeOK, NEW c \in Cmd, Determinate(c)
    PROVE  TypeOK'
<1>1. phase' \in [Cmd -> Phase]
  BY DEF Determinate, TypeOK, Phase
<1>2. retries' \in [Cmd -> Nat]
  <2>1. retries \in [Cmd -> Nat]
    BY DEF TypeOK
  <2> QED
    BY <2>1 DEF Determinate, MayRetry, RetriesAfterRetry
<1>3. UNCHANGED <<stream, unprepared, error, attempts, prepareVars, cache, serverVars,
                  channelVars>>
  BY DEF Determinate
<1> QED
  BY <1>1, <1>2, <1>3 DEF TypeOK, prepareVars, serverVars, channelVars

LEMMA FinallyTypes ==
    ASSUME TypeOK, NEW c \in Cmd, Finally(c)
    PROVE  TypeOK'
<1>1. phase' \in [Cmd -> Phase]
  BY DEF Finally, TypeOK, Phase
<1>2. attempts' \in [Cmd -> Nat]
  <2>1. attempts' = attempts \/ attempts' = [attempts EXCEPT ![c] = attempts[c] + 1]
    BY DEF Finally
  <2>2. attempts \in [Cmd -> Nat]
    BY DEF TypeOK
  <2> QED
    BY <2>1, <2>2
<1>3. NoIds(c) \in [Index(c) -> Query \cup {None}]
  BY DEF NoIds
<1>4. DOMAIN ids' = Cmd /\ \A d \in Cmd : ids'[d] \in [Index(d) -> Query \cup {None}]
  BY <1>3 DEF Finally, TypeOK
<1>5. /\ DOMAIN order' = Cmd /\ \A d \in Cmd : order'[d] \in Seq(Index(d))
      /\ sent' \in [Cmd -> Nat]
      /\ results' \in [Cmd -> Seq(Reply)]
  BY NoResultsTypes DEF Finally
<1>6. stream' \in [Cmd -> Stream \cup {None}]
  BY DEF Finally, TypeOK
<1>7. UNCHANGED <<retries, unprepared, error, cache, serverVars, channelVars>>
  BY DEF Finally
<1> QED
  BY <1>1, <1>2, <1>4, <1>5, <1>6, <1>7 DEF TypeOK, serverVars, channelVars

\* What ServerAnswers does to the stream, by the kind of the answer.
LEMMA ServerAnswersShape ==
    ASSUME TypeOK, NEW s \in Stream, ServerAnswers(s)
    PROVE  /\ requests[s] # <<>>
           /\ Head(requests[s]) \in Request
           /\ requests' = [requests EXCEPT ![s] = Tail(requests[s])]
           /\ \E reply \in Reply :
                 /\ Answer(NodeOf[s], Head(requests[s]), reply.kind)
                 /\ replies' = [replies EXCEPT ![s] = Append(replies[s], reply)]
           /\ UNCHANGED <<phase, stream, flowVars, prepareVars, cache, open>>
<1> DEFINE request == Head(requests[s])
           Made(kind) == [kind |-> kind, id |-> IF kind = "Prepared" THEN request.uses ELSE None]
<1>1. requests[s] \in Seq(Request) /\ requests[s] # <<>>
  BY DEF TypeOK, ServerAnswers
<1>2. request \in Request
  BY <1>1
<1>3. PICK kind \in {"Prepared", "Result", "Other"} \cup ErrorReply :
         /\ Answer(NodeOf[s], request, kind)
         /\ replies' = [replies EXCEPT ![s] = Append(replies[s], Made(kind))]
  BY DEF ServerAnswers
<1>4. Made(kind) \in Reply
  <2>1. CASE kind = "Prepared"
    <3>1. request.kind = "PREPARE"
      BY <1>3, <2>1 DEF Answer
    <3>2. request.uses \in Query
      BY <1>2, <3>1 DEF Request
    <3> QED
      BY <2>1, <3>2 DEF Reply
  <2>2. CASE kind # "Prepared"
    BY <2>2 DEF Reply
  <2> QED
    BY <2>1, <2>2
<1>5. Made(kind).kind = kind
  OBVIOUS
<1>6. /\ requests' = [requests EXCEPT ![s] = Tail(requests[s])]
      /\ UNCHANGED <<phase, stream, flowVars, prepareVars, cache, open>>
  BY DEF ServerAnswers
<1> HIDE DEF request, Made
<1>7. \E reply \in Reply :
         /\ Answer(NodeOf[s], request, reply.kind)
         /\ replies' = [replies EXCEPT ![s] = Append(replies[s], reply)]
  BY <1>3, <1>4, <1>5
<1> QED
  BY <1>1, <1>2, <1>6, <1>7 DEF request

LEMMA ServerAnswersTypes ==
    ASSUME TypeOK, NEW s \in Stream, ServerAnswers(s)
    PROVE  TypeOK'
<1> DEFINE request == Head(requests[s])
<1>1. PICK reply \in Reply :
         /\ Answer(NodeOf[s], request, reply.kind)
         /\ replies' = [replies EXCEPT ![s] = Append(replies[s], reply)]
  BY ServerAnswersShape
<1>2. replies' \in [Stream -> Seq(Reply)]
  BY <1>1 DEF TypeOK
<1>3. requests[s] \in Seq(Request) /\ Tail(requests[s]) \in Seq(Request)
  BY ServerAnswersShape DEF TypeOK
<1>4. requests' \in [Stream -> Seq(Request)]
  BY <1>3, ServerAnswersShape DEF TypeOK
<1>5. request \in Request /\ request.cmd \in Cmd
  BY ServerAnswersShape DEF Request
<1>6. NodeOf[s] \in Node
  BY SessionAssumption DEF SessionAssumption
<1>7. request.kind = "PREPARE" => request.uses \in Query
  BY <1>5 DEF Request
<1> HIDE DEF request
<1>8. prepared' \in [Node -> SUBSET Query]
  <2>1. \/ prepared' = prepared
        \/ /\ request.kind = "PREPARE"
           /\ prepared' = [prepared EXCEPT ![NodeOf[s]] =
                              prepared[NodeOf[s]] \cup {request.uses}]
    BY <1>1 DEF Answer, serverVars
  <2>2. prepared \in [Node -> SUBSET Query]
    BY DEF TypeOK
  <2> QED
    BY <1>6, <1>7, <2>1, <2>2
<1>9. executed' = executed \/ executed' = [executed EXCEPT ![request.cmd] = executed[request.cmd] + 1]
  BY <1>1 DEF Answer, serverVars
<1>10. executed' \in [Cmd -> Nat]
  <2>1. executed \in [Cmd -> Nat]
    BY DEF TypeOK
  <2> QED
    BY <1>5, <1>9, <2>1
<1>11. UNCHANGED <<phase, stream, flowVars, prepareVars, cache, open>>
  BY ServerAnswersShape
<1> QED
  BY <1>2, <1>4, <1>8, <1>10, <1>11 DEF TypeOK, flowVars, prepareVars

LEMMA ServerForgetsTypes ==
    ASSUME TypeOK, NEW n \in Node, NEW q \in Query, ServerForgets(n, q)
    PROVE  TypeOK'
<1>1. prepared' \in [Node -> SUBSET Query]
  BY DEF ServerForgets, TypeOK
<1>2. UNCHANGED <<phase, stream, flowVars, prepareVars, cache, executed, channelVars>>
  BY DEF ServerForgets
<1> QED
  BY <1>1, <1>2 DEF TypeOK, flowVars, prepareVars, channelVars

LEMMA ConnectionLostTypes ==
    ASSUME TypeOK, NEW s \in Stream, ConnectionLost(s)
    PROVE  TypeOK'
<1>1. PICK k \in 0 .. Len(replies[s]) : replies' = [replies EXCEPT ![s] = SubSeq(replies[s], 1, k)]
  BY DEF ConnectionLost
<1>2. replies[s] \in Seq(Reply)
  BY DEF TypeOK
<1>3. SubSeq(replies[s], 1, k) \in Seq(Reply)
  BY <1>2
<1>4. replies' \in [Stream -> Seq(Reply)]
  BY <1>1, <1>3 DEF TypeOK
<1>5. <<>> \in Seq(Request)
  OBVIOUS
<1>6. requests' \in [Stream -> Seq(Request)] /\ open' \subseteq Stream
  BY <1>5 DEF ConnectionLost, TypeOK
<1>7. UNCHANGED <<phase, stream, flowVars, prepareVars, cache, serverVars>>
  BY DEF ConnectionLost
<1> QED
  BY <1>4, <1>6, <1>7 DEF TypeOK, flowVars, prepareVars, serverVars

-----------------------------------------------------------------------------
(* The inductive invariant *)

\* A command holds a stream of its own while it uses it.
StreamsOwned ==
    /\ \A c \in Cmd : phase[c] \in {"preparing", "sending", "waiting"} => stream[c] \in Stream
    /\ \A c \in Cmd : phase[c] \in {"new", "acquiring", "done"} => stream[c] = None
    /\ \A c, d \in Cmd : c # d /\ stream[c] = stream[d] => stream[c] = None

Load(s) == Len(requests[s]) + Len(replies[s])

\* On the stream of an open connection are as many requests and responses as
\* its user waits for; a lost one has no requests.
ChannelsMatched ==
    /\ \A s \in open \ InUse : Load(s) = 0
    /\ \A c \in Cmd : stream[c] \in open => Load(stream[c]) = Outstanding(c)
    /\ \A s \in Stream \ open : requests[s] = <<>>
    /\ \A c \in Cmd : phase[c] = "waiting" => Load(stream[c]) <= 1

\* A QUERY, EXECUTE or BATCH on its way belongs to a command that waits there.
RunsAwaited ==
    \A s \in Stream : \A k \in 1 .. Len(requests[s]) :
        requests[s][k].kind = "RUN" =>
            phase[requests[s][k].cmd] = "waiting" /\ stream[requests[s][k].cmd] = s

\* The command may still be executed in this attempt, or has been refused.
MayExecute(c) ==
    \/ phase[c] \in {"acquiring", "preparing", "sending"}
    \/ /\ phase[c] = "waiting"
       /\ \/ requests[stream[c]] # <<>>
          \/ replies[stream[c]] # <<>> /\ Head(replies[stream[c]]).kind = "UnPrepared"

\* Every attempt executes the command, is refused as UNPREPARED, or neither.
ExecutionsCounted ==
    \A c \in Cmd :
        executed[c] + unprepared[c] + (IF MayExecute(c) THEN 1 ELSE 0) <= attempts[c]

\* Attempts made and retries left add up to what is allowed.
RetriesCounted ==
    \A c \in Cmd :
        attempts[c] + retries[c] + (IF phase[c] \in {"new", "retrying"} THEN 1 ELSE 0)
            <= MaxRetries[c] + 1 + unprepared[c]

Retryable == {"none", "retry", "network", "unavailable"}

\* Retries are left only after errors that allow one.
RetryableOnly ==
    \A c \in Cmd :
        /\ phase[c] \in {"new", "retrying"} => error[c] \in Retryable
        /\ phase[c] = "failed" /\ retries[c] > 0 => error[c] \in Retryable

IInv == /\ TypeOK /\ StreamsOwned /\ ChannelsMatched /\ RunsAwaited
        /\ ExecutionsCounted /\ RetriesCounted /\ RetryableOnly

LEMMA InvTypes ==
    ASSUME IInv
    PROVE  TypeOK
BY DEF IInv

LEMMA TypeStep ==
    ASSUME IInv, Next
    PROVE  TypeOK'
<1> USE InvTypes
<1>1. \A c \in Cmd : phase[c] \in {"preparing", "sending", "waiting"} => stream[c] \in Stream
  BY DEF IInv, StreamsOwned
<1>2. ASSUME NEW c \in Cmd, SendPrepare(c) PROVE TypeOK'
  BY <1>1, <1>2, SendPrepareTypes DEF SendPrepare
<1>3. ASSUME NEW c \in Cmd, ReceivePrepared(c) PROVE TypeOK'
  BY <1>1, <1>3, ReceivePreparedTypes DEF ReceivePrepared
<1>4. ASSUME NEW c \in Cmd, HandlePrepared(c) PROVE TypeOK'
  BY <1>1, <1>4, HandlePreparedTypes DEF HandlePrepared
<1>5. ASSUME NEW c \in Cmd, SendCommand(c) PROVE TypeOK'
  BY <1>1, <1>5, SendCommandTypes DEF SendCommand
<1>6. ASSUME NEW c \in Cmd, ReceiveResult(c) PROVE TypeOK'
  BY <1>1, <1>6, ReceiveResultTypes DEF ReceiveResult
<1> QED
  BY <1>2, <1>3, <1>4, <1>5, <1>6, CallTypes, GetConnectionTypes, ThrowsTypes,
     DeterminateTypes, FinallyTypes, ServerAnswersTypes, ServerForgetsTypes,
     ConnectionLostTypes DEF Next, CommandStep

-----------------------------------------------------------------------------
(* Streams are owned *)

\* What HandleErrorMessage, HandleUnexpected and Throws have in common.
LEMMA AttemptFails ==
    ASSUME NEW c \in Cmd,
           \/ \E kind, known : HandleErrorMessage(c, kind, known)
           \/ HandleUnexpected(c)
           \/ \E exception : Throws(c, exception)
    PROVE  phase' = [phase EXCEPT ![c] = "failed"]
BY DEF HandleErrorMessage, HandleUnexpected, Throws

\* Where a command goes in the steps that keep its stream.
LEMMA PhaseSteps ==
    ASSUME NEW c \in Cmd,
           \/ NoConnection(c) \/ SendFails(c) \/ WaitFails(c)
           \/ HandlePrepared(c) \/ SendCommand(c) \/ ReceiveResult(c) \/ Determinate(c)
    PROVE  /\ stream' = stream
           /\ \/ phase' = [phase EXCEPT ![c] = "failed"]
              \/ phase[c] = "preparing" /\ phase' = [phase EXCEPT ![c] = "sending"]
              \/ phase[c] = "sending" /\ phase' = [phase EXCEPT ![c] = "waiting"]
              \/ phase[c] = "waiting" /\ phase' = [phase EXCEPT ![c] = "succeeded"]
              \/ phase[c] = "failed" /\ phase' = [phase EXCEPT ![c] = "retrying"]
              \/ phase[c] = "failed" /\ phase' = [phase EXCEPT ![c] = "throwing"]
<1>1. CASE NoConnection(c) \/ SendFails(c) \/ WaitFails(c)
  BY <1>1, AttemptFails DEF NoConnection, SendFails, WaitFails
<1>2. CASE HandlePrepared(c)
  BY <1>2, AttemptFails DEF HandlePrepared
<1>3. CASE SendCommand(c)
  BY <1>3 DEF SendCommand
<1>4. CASE ReceiveResult(c)
  BY <1>4, AttemptFails DEF ReceiveResult
<1>5. CASE Determinate(c)
  BY <1>5 DEF Determinate
<1> QED
  BY <1>1, <1>2, <1>3, <1>4, <1>5

LEMMA OwnedStep ==
    ASSUME TypeOK, StreamsOwned, Next
    PROVE  StreamsOwned'
<1> USE DEF StreamsOwned
<1>t. phase \in [Cmd -> Phase] /\ stream \in [Cmd -> Stream \cup {None}] /\ None \notin Stream
  BY SessionAssumption DEF TypeOK, SessionAssumption
<1>1. ASSUME NEW c \in Cmd, Call(c) PROVE StreamsOwned'
  <2>1. /\ phase[c] = "new" /\ stream' = stream
        /\ \E x \in {"acquiring", "done"} : phase' = [phase EXCEPT ![c] = x]
    BY <1>1 DEF Call
  <2> QED
    BY <1>t, <2>1
<1>2. ASSUME NEW c \in Cmd, NEW s \in Stream, GetConnection(c, s) PROVE StreamsOwned'
  <2>1. /\ phase[c] = "acquiring" /\ stream' = [stream EXCEPT ![c] = s]
        /\ \E x \in {"preparing", "sending"} : phase' = [phase EXCEPT ![c] = x]
        /\ \A d \in Cmd : stream[d] # s
    BY <1>2 DEF GetConnection, InUse
  <2> QED
    BY <1>t, <2>1
<1>3. ASSUME NEW c \in Cmd,
             \/ NoConnection(c) \/ SendFails(c) \/ WaitFails(c)
             \/ HandlePrepared(c) \/ SendCommand(c) \/ ReceiveResult(c) \/ Determinate(c)
      PROVE  StreamsOwned'
  <2>1. /\ stream' = stream
        /\ \E x \in Phase \ {"new", "acquiring", "done"} :
              /\ phase' = [phase EXCEPT ![c] = x]
              /\ x \in {"preparing", "sending", "waiting"} =>
                    phase[c] \in {"preparing", "sending", "waiting"}
    BY <1>3, PhaseSteps DEF Phase
  <2> QED
    BY <1>t, <2>1
<1>4. ASSUME NEW c \in Cmd, Finally(c) PROVE StreamsOwned'
  <2>1. /\ stream' = [stream EXCEPT ![c] = None]
        /\ \E x \in {"acquiring", "done"} : phase' = [phase EXCEPT ![c] = x]
    BY <1>4 DEF Finally
  <2> QED
    BY <1>t, <2>1
<1>5. CASE UNCHANGED <<phase, stream>>
  BY <1>5
<1> QED
  BY <1>1, <1>2, <1>3, <1>4, <1>5
     DEF Next, CommandStep, SendPrepare, ReceivePrepared, ServerAnswers, ConnectionLost,
         ServerForgets

-----------------------------------------------------------------------------
(* Retries *)

\* An attempt fails: at most one retry is added, when the first UNPREPARED is
\* taken, and retries are left only after an error that allows one.
AttemptEnds(c) ==
    /\ phase' = [phase EXCEPT ![c] = "failed"]
    /\ \E left \in Nat, taken \in {0, 1}, e \in Exception :
          /\ retries' = [retries EXCEPT ![c] = left]
          /\ unprepared' = [unprepared EXCEPT ![c] = taken]
          /\ error' = [error EXCEPT ![c] = e]
          /\ left + unprepared[c] <= retries[c] + taken
          /\ left > 0 => e \in Retryable
          /\ taken = unprepared[c] \/ (taken = unprepared[c] + 1 /\ MayExecute(c))

LEMMA ErrorEnds ==
    ASSUME TypeOK, NEW c \in Cmd, NEW kind, NEW known, HandleErrorMessage(c, kind, known),
           kind = "UnPrepared" => MayExecute(c)
    PROVE  AttemptEnds(c)
<1> DEFINE again == PreparesAgain(c, kind)
           left == IF again THEN retries[c] + 1
                   ELSE IF ShouldRetryFor(kind) THEN retries[c] ELSE 0
           taken == IF again THEN 1 ELSE unprepared[c]
<1>1. /\ unprepared' = [unprepared EXCEPT ![c] = taken]
      /\ retries' = [retries EXCEPT ![c] = left]
      /\ error' = [error EXCEPT ![c] = Raised(left)]
      /\ phase' = [phase EXCEPT ![c] = "failed"]
  BY Zenon DEF HandleErrorMessage
<1>2. retries[c] \in Nat /\ unprepared[c] \in {0, 1}
  BY DEF TypeOK
<1>3. again => kind = "UnPrepared" /\ unprepared[c] = 0
  BY DEF PreparesAgain
<1> HIDE DEF again
<1>4. left \in Nat /\ taken \in {0, 1} /\ left + unprepared[c] <= retries[c] + taken
  BY <1>2, <1>3
<1>5. Raised(left) \in Exception /\ (left > 0 => Raised(left) \in Retryable)
  BY DEF Raised, Exception, Retryable
<1>6. taken = unprepared[c] \/ (taken = unprepared[c] + 1 /\ MayExecute(c))
  BY <1>3
<1> HIDE DEF left, taken
<1> QED
  BY <1>1, <1>4, <1>5, <1>6 DEF AttemptEnds

LEMMA UnexpectedEnds ==
    ASSUME TypeOK, NEW c \in Cmd, HandleUnexpected(c)
    PROVE  AttemptEnds(c)
<1> DEFINE taken == unprepared[c]
<1>1. retries[c] \in Nat /\ taken \in {0, 1} /\ unprepared = [unprepared EXCEPT ![c] = taken]
  BY DEF TypeOK
<1>2. 0 + unprepared[c] <= retries[c] + taken /\ "unexpected" \in Exception
  BY <1>1 DEF Exception
<1>3. /\ phase' = [phase EXCEPT ![c] = "failed"]
      /\ retries' = [retries EXCEPT ![c] = 0]
      /\ unprepared' = [unprepared EXCEPT ![c] = taken]
      /\ error' = [error EXCEPT ![c] = "unexpected"]
  BY <1>1 DEF HandleUnexpected
<1>4. taken = unprepared[c] /\ 0 \in Nat /\ ~(0 > 0)
  OBVIOUS
<1> HIDE DEF taken
<1> QED
  BY Zenon, <1>1, <1>2, <1>3, <1>4 DEF AttemptEnds

LEMMA ThrowEnds ==
    ASSUME TypeOK, NEW c \in Cmd, NEW exception \in {"unavailable", "network"},
           Throws(c, exception)
    PROVE  AttemptEnds(c)
<1> DEFINE taken == unprepared[c]
           left == retries[c]
<1>1. /\ left \in Nat /\ taken \in {0, 1}
      /\ unprepared = [unprepared EXCEPT ![c] = taken]
      /\ retries = [retries EXCEPT ![c] = left]
  BY DEF TypeOK
<1>2. left + unprepared[c] <= retries[c] + taken
  BY <1>1
<1>3. exception \in Exception /\ exception \in Retryable
  BY DEF Exception, Retryable
<1>4. /\ phase' = [phase EXCEPT ![c] = "failed"]
      /\ retries' = [retries EXCEPT ![c] = left]
      /\ unprepared' = [unprepared EXCEPT ![c] = taken]
      /\ error' = [error EXCEPT ![c] = exception]
  BY <1>1 DEF Throws
<1>5. taken = unprepared[c]
  OBVIOUS
<1> HIDE DEF taken, left
<1> QED
  BY Zenon, <1>1, <1>2, <1>3, <1>4, <1>5 DEF AttemptEnds

\* The command goes on without a retry, begins its next attempt, or is to retry.
GoesOn(c) ==
    /\ UNCHANGED <<retries, unprepared, attempts>>
    /\ \E x \in Phase \ {"new", "retrying", "failed"} : phase' = [phase EXCEPT ![c] = x]
    /\ \E e \in Exception : error' = [error EXCEPT ![c] = e]

Attempts(c) ==
    /\ phase[c] \in {"new", "retrying"}
    /\ phase' = [phase EXCEPT ![c] = "acquiring"]
    /\ attempts' = [attempts EXCEPT ![c] = attempts[c] + 1]
    /\ UNCHANGED <<retries, unprepared, error>>

Retries(c) ==
    /\ phase[c] = "failed" /\ retries[c] > 0
    /\ phase' = [phase EXCEPT ![c] = "retrying"]
    /\ retries' = [retries EXCEPT ![c] = retries[c] - 1]
    /\ UNCHANGED <<unprepared, attempts, error>>

LEMMA FlowSteps ==
    ASSUME TypeOK, NEW c \in Cmd, CommandStep(c)
    PROVE  \/ AttemptEnds(c) /\ UNCHANGED attempts
           \/ GoesOn(c)
           \/ Attempts(c)
           \/ Retries(c)
           \/ UNCHANGED <<phase, flowVars>>
<1>e. error[c] \in Exception /\ error = [error EXCEPT ![c] = error[c]]
  BY DEF TypeOK
<1>1. CASE Call(c)
  <2>1. CASE c \in Moved \/ Queries[c] = <<>>
    <3>1. \E e \in Exception : error' = [error EXCEPT ![c] = e]
      BY <1>1, <1>e, <2>1 DEF Call, Exception
    <3> QED
      BY <1>1, <2>1, <3>1 DEF Call, GoesOn, Phase
  <2>2. CASE ~(c \in Moved \/ Queries[c] = <<>>)
    BY <1>1, <2>2 DEF Call, Attempts
  <2> QED
    BY <2>1, <2>2
<1>2. CASE NoConnection(c) \/ SendFails(c) \/ WaitFails(c)
  BY <1>2, ThrowEnds DEF NoConnection, SendFails, WaitFails
<1>3. CASE SendPrepare(c) \/ ReceivePrepared(c)
  BY <1>3 DEF SendPrepare, ReceivePrepared
<1>4. CASE HandlePrepared(c)
  <2>1. MayExecute(c)
    BY <1>4 DEF HandlePrepared, MayExecute
  <2>2. UNCHANGED attempts
    BY <1>4 DEF HandlePrepared
  <2>3. \/ \E kind, known : HandleErrorMessage(c, kind, known)
        \/ HandleUnexpected(c)
        \/ /\ phase' = [phase EXCEPT ![c] = "sending"]
           /\ UNCHANGED <<retries, unprepared, error>>
    BY <1>4 DEF HandlePrepared
  <2>4. CASE \E kind, known : HandleErrorMessage(c, kind, known)
    BY <2>1, <2>2, <2>4, ErrorEnds
  <2>5. CASE HandleUnexpected(c)
    BY <2>2, <2>5, UnexpectedEnds
  <2>6. CASE /\ phase' = [phase EXCEPT ![c] = "sending"]
             /\ UNCHANGED <<retries, unprepared, error>>
    BY <1>e, <2>2, <2>6 DEF GoesOn, Phase
  <2> QED
    BY <2>3, <2>4, <2>5, <2>6
<1>5. CASE SendCommand(c)
  <2>1. phase' = [phase EXCEPT ![c] = "waiting"] /\ UNCHANGED flowVars
    BY <1>5 DEF SendCommand
  <2> QED
    BY <1>e, <2>1 DEF GoesOn, Phase, flowVars
<1>6. CASE ReceiveResult(c)
  <2> DEFINE kind == Head(replies[stream[c]]).kind
  <2>1. UNCHANGED attempts
    BY <1>6 DEF ReceiveResult
  <2>2. kind = "UnPrepared" => MayExecute(c)
    BY <1>6 DEF ReceiveResult, MayExecute
  <2>3. \/ HandleErrorMessage(c, kind, cache)
        \/ HandleUnexpected(c)
        \/ /\ phase' = [phase EXCEPT ![c] = "succeeded"]
           /\ error' = [error EXCEPT ![c] = "none"]
           /\ UNCHANGED <<retries, unprepared>>
    BY <1>6 DEF ReceiveResult
  <2> HIDE DEF kind
  <2>4. CASE HandleErrorMessage(c, kind, cache)
    BY <2>1, <2>2, <2>4, ErrorEnds
  <2>5. CASE HandleUnexpected(c)
    BY <2>1, <2>5, UnexpectedEnds
  <2>6. CASE /\ phase' = [phase EXCEPT ![c] = "succeeded"]
             /\ error' = [error EXCEPT ![c] = "none"]
             /\ UNCHANGED <<retries, unprepared>>
    BY <2>1, <2>6 DEF GoesOn, Phase, Exception
  <2> QED
    BY <2>3, <2>4, <2>5, <2>6
<1>7. CASE Determinate(c)
  <2>1. CASE MayRetry(c)
    BY <1>7, <2>1 DEF Determinate, MayRetry, RetriesAfterRetry, Retries
  <2>2. CASE ~MayRetry(c)
    BY <1>7, <1>e, <2>2 DEF Determinate, GoesOn, Phase
  <2> QED
    BY <2>1, <2>2
<1>8. CASE Finally(c)
  <2>1. UNCHANGED <<retries, unprepared, error>>
    BY <1>8 DEF Finally
  <2>2. CASE phase[c] = "retrying"
    BY <1>8, <2>1, <2>2 DEF Finally, Attempts
  <2>3. CASE phase[c] # "retrying"
    BY <1>8, <1>e, <2>1, <2>3 DEF Finally, GoesOn, Phase
  <2> QED
    BY <2>2, <2>3
<1>9. ASSUME NEW s \in Stream, GetConnection(c, s)
      PROVE  GoesOn(c)
  <2>1. /\ UNCHANGED flowVars
        /\ \E x \in {"sending", "preparing"} : phase' = [phase EXCEPT ![c] = x]
    BY <1>9 DEF GetConnection
  <2> QED
    BY <1>e, <2>1 DEF GoesOn, Phase, flowVars
<1> QED
  BY <1>1, <1>2, <1>3, <1>4, <1>5, <1>6, <1>7, <1>8, <1>9 DEF CommandStep

LEMMA RetriesStep ==
    ASSUME TypeOK, RetriesCounted, RetryableOnly, Next
    PROVE  RetriesCounted' /\ RetryableOnly'
<1>t. /\ phase \in [Cmd -> Phase] /\ retries \in [Cmd -> Nat]
      /\ unprepared \in [Cmd -> {0, 1}] /\ attempts \in [Cmd -> Nat]
      /\ error \in [Cmd -> Exception] /\ MaxRetries \in [Cmd -> Nat]
  BY SessionAssumption DEF TypeOK, SessionAssumption
<1>1. CASE UNCHANGED <<phase, flowVars>>
  BY <1>1 DEF RetriesCounted, RetryableOnly, flowVars
<1>2. ASSUME NEW c \in Cmd, AttemptEnds(c), UNCHANGED attempts
      PROVE  RetriesCounted' /\ RetryableOnly'
  <2>1. PICK left \in Nat, taken \in {0, 1}, e \in Exception :
           /\ retries' = [retries EXCEPT ![c] = left]
           /\ unprepared' = [unprepared EXCEPT ![c] = taken]
           /\ error' = [error EXCEPT ![c] = e]
           /\ left + unprepared[c] <= retries[c] + taken
           /\ left > 0 => e \in Retryable
    BY <1>2 DEF AttemptEnds
  <2>2. phase' = [phase EXCEPT ![c] = "failed"] /\ attempts' = attempts
    BY <1>2 DEF AttemptEnds
  <2>3. RetriesCounted'
    BY <1>t, <2>1, <2>2 DEF RetriesCounted
  <2>4. RetryableOnly'
    BY <1>t, <2>1, <2>2 DEF RetryableOnly
  <2> QED
    BY <2>3, <2>4
<1>3. ASSUME NEW c \in Cmd, GoesOn(c)
      PROVE  RetriesCounted' /\ RetryableOnly'
  BY <1>t, <1>3 DEF GoesOn, RetriesCounted, RetryableOnly
<1>4. ASSUME NEW c \in Cmd, Attempts(c)
      PROVE  RetriesCounted' /\ RetryableOnly'
  BY <1>t, <1>4 DEF Attempts, RetriesCounted, RetryableOnly
<1>5. ASSUME NEW c \in Cmd, Retries(c)
      PROVE  RetriesCounted' /\ RetryableOnly'
  BY <1>t, <1>5 DEF Retries, RetriesCounted, RetryableOnly
<1>6. ASSUME NEW c \in Cmd, CommandStep(c)
      PROVE  RetriesCounted' /\ RetryableOnly'
  BY <1>1, <1>2, <1>3, <1>4, <1>5, <1>6, FlowSteps
<1>7. CASE \E s \in Stream : ServerAnswers(s) \/ ConnectionLost(s)
  BY <1>1, <1>7 DEF ServerAnswers, ConnectionLost
<1>8. CASE \E n \in Node, q \in Query : ServerForgets(n, q)
  BY <1>1, <1>8 DEF ServerForgets
<1> QED
  BY <1>6, <1>7, <1>8 DEF Next

\* An attempt begins in RetryFlow::determinate, with retries left, or in the call.
LEMMA AttemptsOnlyAfterRetryable ==
    ASSUME TypeOK, RetryableOnly, [Next]_vars
    PROVE  \A c \in Cmd : attempts'[c] # attempts[c] => error[c] \in Retryable
<1> SUFFICES ASSUME NEW d \in Cmd, attempts'[d] # attempts[d]
             PROVE  error[d] \in Retryable
  OBVIOUS
<1>1. attempts' # attempts
  OBVIOUS
<1>2. PICK c \in Cmd : CommandStep(c)
  BY <1>1 DEF Next, ServerAnswers, ConnectionLost, ServerForgets, vars, flowVars
<1>3. Attempts(c)
  BY <1>1, <1>2, FlowSteps DEF GoesOn, Retries, flowVars
<1>4. c = d
  BY <1>3 DEF Attempts, TypeOK
<1> QED
  BY <1>3, <1>4 DEF Attempts, RetryableOnly

-----------------------------------------------------------------------------
(* Requests and responses match *)

LEMMA LoadFacts ==
    ASSUME TypeOK, NEW s \in Stream
    PROVE  /\ Len(requests[s]) \in Nat /\ Len(replies[s]) \in Nat /\ Load(s) \in Nat
           /\ requests[s] = <<>> <=> Len(requests[s]) = 0
           /\ replies[s] = <<>> <=> Len(replies[s]) = 0
<1>1. requests[s] \in Seq(Request) /\ replies[s] \in Seq(Reply)
  BY DEF TypeOK
<1>2. Len(requests[s]) \in Nat /\ Len(replies[s]) \in Nat
  BY <1>1
<1>3. \A m, k \in Nat : m + k \in Nat
  OBVIOUS
<1>4. Load(s) \in Nat
  BY Zenon, <1>2, <1>3 DEF Load
<1>5. (requests[s] = <<>>) <=> (Len(requests[s]) = 0)
  BY <1>1
<1>6. (replies[s] = <<>>) <=> (Len(replies[s]) = 0)
  BY <1>1
<1> QED
  BY <1>2, <1>4, <1>5, <1>6

\* A step of a command that keeps its stream.
LEMMA ChannelsKept ==
    ASSUME TypeOK, StreamsOwned, ChannelsMatched, NEW c \in Cmd,
           UNCHANGED <<stream, open>>,
           \A s \in Stream \ {stream[c]} :
              Load(s)' = Load(s) /\ (requests[s] = <<>> => requests'[s] = <<>>),
           \A d \in Cmd \ {c} : phase'[d] = phase[d] /\ Outstanding(d)' = Outstanding(d),
           stream[c] \in open => Load(stream[c])' = Outstanding(c)',
           stream[c] \in Stream \ open => requests'[stream[c]] = <<>>,
           phase'[c] = "waiting" => stream[c] \in Stream /\ Load(stream[c])' <= 1
    PROVE  ChannelsMatched'
<1> DEFINE NewLoad(s) == Len(requests'[s]) + Len(replies'[s])
<1>t. open \subseteq Stream /\ None \notin Stream /\ \A d \in Cmd : stream[d] \in Stream \cup {None}
  BY SessionAssumption DEF TypeOK, SessionAssumption
<1>1. \A d \in Cmd \ {c} : stream[d] \in Stream => stream[d] # stream[c]
  BY <1>t DEF StreamsOwned
<1>2. \A s \in open \ InUse : NewLoad(s) = 0
  BY <1>t DEF ChannelsMatched, InUse, Load
<1>3. \A d \in Cmd : stream[d] \in open => NewLoad(stream[d]) = Outstanding(d)'
  BY <1>t, <1>1 DEF ChannelsMatched, Load
<1>4. \A s \in Stream \ open : requests'[s] = <<>>
  BY DEF ChannelsMatched
<1>5. \A d \in Cmd : phase'[d] = "waiting" => NewLoad(stream[d]) <= 1
  BY <1>t, <1>1 DEF ChannelsMatched, StreamsOwned, Load
<1>6. InUse' = InUse
  BY DEF InUse
<1> QED
  BY <1>2, <1>3, <1>4, <1>5, <1>6 DEF ChannelsMatched, Load

\* One request or response more or less on a stream.
LEMMA LoadSteps ==
    ASSUME TypeOK, NEW s \in Stream
    PROVE  /\ \A request \in Request :
                 requests' = [requests EXCEPT ![s] = Append(requests[s], request)]
                 /\ replies' = replies
                 => Load(s)' = Load(s) + 1
           /\ replies[s] # <<>> /\ replies' = [replies EXCEPT ![s] = Tail(replies[s])]
              /\ requests' = requests
              => Load(s) > 0 /\ Load(s)' = Load(s) - 1
<1> DEFINE m == Len(requests[s])
           k == Len(replies[s])
           M == Len(requests'[s])
           K == Len(replies'[s])
<1>1. requests[s] \in Seq(Request) /\ replies[s] \in Seq(Reply)
  BY DEF TypeOK
<1>2. m \in Nat /\ k \in Nat
  BY <1>1
<1>3. Load(s) = m + k /\ Load(s)' = M + K
  BY DEF Load
<1>4. ASSUME NEW request \in Request,
             requests' = [requests EXCEPT ![s] = Append(requests[s], request)],
             replies' = replies
      PROVE  M = m + 1 /\ K = k
  <2>1. requests'[s] = Append(requests[s], request)
    BY <1>4 DEF TypeOK
  <2> QED
    BY <1>1, <1>4, <2>1
<1>5. ASSUME replies[s] # <<>>, replies' = [replies EXCEPT ![s] = Tail(replies[s])],
             requests' = requests
      PROVE  M = m /\ K = k - 1 /\ k > 0
  <2>1. replies'[s] = Tail(replies[s])
    BY <1>5 DEF TypeOK
  <2>2. Len(Tail(replies[s])) = Len(replies[s]) - 1 /\ Len(replies[s]) > 0
    BY <1>1, <1>5, EmptySeq
  <2> QED
    BY <1>5, <2>1, <2>2
<1> HIDE DEF m, k, M, K
<1>6. ASSUME NEW request \in Request,
             requests' = [requests EXCEPT ![s] = Append(requests[s], request)],
             replies' = replies
      PROVE  Load(s)' = Load(s) + 1
  <2>1. M = m + 1 /\ K = k
    BY <1>4, <1>6
  <2> QED
    BY <1>2, <1>3, <2>1
<1>7. ASSUME replies[s] # <<>>, replies' = [replies EXCEPT ![s] = Tail(replies[s])],
             requests' = requests
      PROVE  Load(s) > 0 /\ Load(s)' = Load(s) - 1
  <2>1. M = m /\ K = k - 1 /\ k > 0
    BY <1>5, <1>7
  <2> QED
    BY <1>2, <1>3, <2>1
<1> QED
  BY <1>6, <1>7

LEMMA SendPrepareChannels ==
    ASSUME TypeOK, StreamsOwned, ChannelsMatched, NEW c \in Cmd, SendPrepare(c)
    PROVE  ChannelsMatched'
<1> DEFINE request == [kind |-> "PREPARE", cmd |-> c, uses |-> Queries[c][order[c][sent[c] + 1]]]
<1>1. /\ stream[c] \in Stream /\ stream[c] \in open /\ phase[c] = "preparing"
      /\ UNCHANGED <<phase, stream, results, open, replies>>
      /\ sent' = [sent EXCEPT ![c] = sent[c] + 1]
      /\ requests' = [requests EXCEPT ![stream[c]] = Append(requests[stream[c]], request)]
  BY DEF SendPrepare, TypeOK, prepareVars
<1>2. request \in Request
  <2>1. order[c] \in Seq(Index(c)) /\ sent[c] \in Nat /\ sent[c] < Len(order[c])
    BY DEF TypeOK, SendPrepare
  <2>2. order[c][sent[c] + 1] \in Index(c)
    BY <2>1, ElementOfSeq
  <2> QED
    BY <2>2, IndexFacts DEF Request
<1> HIDE DEF request
<1>3. Load(stream[c])' = Load(stream[c]) + 1
  BY <1>1, <1>2, LoadSteps
<1>4. Load(stream[c]) = sent[c] - Len(results[c])
  BY <1>1 DEF ChannelsMatched, Outstanding
<1>5. sent[c] \in Nat /\ Len(results[c]) \in Nat /\ sent \in [Cmd -> Nat]
  BY DEF TypeOK
<1>6. Outstanding(c)' = sent[c] + 1 - Len(results[c])
  BY <1>1, <1>5 DEF Outstanding
<1>7. Load(stream[c])' = Outstanding(c)'
  BY <1>3, <1>4, <1>5, <1>6
<1>8. \A s \in Stream \ {stream[c]} : Load(s)' = Load(s) /\ requests'[s] = requests[s]
  BY <1>1 DEF Load, TypeOK
<1>9. \A d \in Cmd \ {c} : phase'[d] = phase[d] /\ Outstanding(d)' = Outstanding(d)
  BY <1>1, <1>5 DEF Outstanding
<1> QED
  BY <1>1, <1>7, <1>8, <1>9, ChannelsKept

LEMMA SendCommandChannels ==
    ASSUME TypeOK, StreamsOwned, ChannelsMatched, NEW c \in Cmd, SendCommand(c)
    PROVE  ChannelsMatched'
<1> DEFINE request == [kind |-> "RUN", cmd |-> c, uses |-> {ids[c][i] : i \in Index(c)} \ {None}]
<1>1. /\ stream[c] \in Stream /\ stream[c] \in open /\ phase[c] = "sending"
      /\ UNCHANGED <<stream, sent, results, open, replies>>
      /\ phase' = [phase EXCEPT ![c] = "waiting"]
      /\ requests' = [requests EXCEPT ![stream[c]] = Append(requests[stream[c]], request)]
  BY DEF SendCommand, TypeOK
<1>2. request \in Request
  BY DEF Request, TypeOK
<1> HIDE DEF request
<1>3. Load(stream[c])' = Load(stream[c]) + 1
  BY <1>1, <1>2, LoadSteps
<1>4. Load(stream[c]) = 0
  BY <1>1 DEF ChannelsMatched, Outstanding
<1>5. phase \in [Cmd -> Phase]
  BY DEF TypeOK
<1>6. phase'[c] = "waiting" /\ Outstanding(c)' = 1
  BY <1>1, <1>5 DEF Outstanding
<1>7. Load(stream[c])' = 1
  BY <1>3, <1>4
<1>8. \A s \in Stream \ {stream[c]} : Load(s)' = Load(s) /\ requests'[s] = requests[s]
  BY <1>1 DEF Load, TypeOK
<1>9. \A d \in Cmd \ {c} : phase'[d] = phase[d] /\ Outstanding(d)' = Outstanding(d)
  BY <1>1, <1>5 DEF Outstanding
<1> QED
  BY <1>1, <1>6, <1>7, <1>8, <1>9, ChannelsKept

LEMMA ReceivePreparedChannels ==
    ASSUME TypeOK, StreamsOwned, ChannelsMatched, NEW c \in Cmd, ReceivePrepared(c)
    PROVE  ChannelsMatched'
<1>1. /\ phase[c] = "preparing" /\ replies[stream[c]] # <<>>
      /\ UNCHANGED <<phase, stream, sent, open, requests>>
      /\ results' = [results EXCEPT ![c] = Append(results[c], Head(replies[stream[c]]))]
      /\ replies' = [replies EXCEPT ![stream[c]] = Tail(replies[stream[c]])]
  BY DEF ReceivePrepared
<1>2. stream[c] \in Stream
  BY <1>1 DEF StreamsOwned
<1>3. Load(stream[c])' = Load(stream[c]) - 1
  BY <1>1, <1>2, LoadSteps
<1>4. stream[c] \in open => Load(stream[c]) = sent[c] - Len(results[c])
  BY <1>1 DEF ChannelsMatched, Outstanding
<1>5. /\ replies[stream[c]] \in Seq(Reply) /\ results[c] \in Seq(Reply)
      /\ results \in [Cmd -> Seq(Reply)]
  BY <1>2 DEF TypeOK
<1>6. results'[c] = Append(results[c], Head(replies[stream[c]]))
  BY <1>1, <1>5
<1>7. Len(results'[c]) = Len(results[c]) + 1 /\ Len(results[c]) \in Nat /\ sent[c] \in Nat
  BY <1>1, <1>5, <1>6 DEF TypeOK
<1>8. stream[c] \in open => Load(stream[c])' = Outstanding(c)'
  <2>1. Outstanding(c)' = sent[c] - Len(results'[c])
    BY <1>1 DEF Outstanding
  <2> QED
    BY <1>3, <1>4, <1>7, <2>1
<1>9. \A s \in Stream \ {stream[c]} : Load(s)' = Load(s)
  BY <1>1 DEF Load, TypeOK
<1>10. \A d \in Cmd \ {c} : Outstanding(d)' = Outstanding(d)
  BY <1>1, <1>5 DEF Outstanding
<1> QED
  BY <1>1, <1>2, <1>8, <1>9, <1>10, ChannelsKept DEF ChannelsMatched

LEMMA ReceiveResultChannels ==
    ASSUME TypeOK, StreamsOwned, ChannelsMatched, NEW c \in Cmd, ReceiveResult(c)
    PROVE  ChannelsMatched'
<1>1. /\ phase[c] = "waiting" /\ replies[stream[c]] # <<>>
      /\ UNCHANGED <<stream, sent, results, open, requests>>
      /\ replies' = [replies EXCEPT ![stream[c]] = Tail(replies[stream[c]])]
  BY DEF ReceiveResult, prepareVars
<1>2. \E x \in {"succeeded", "failed"} : phase' = [phase EXCEPT ![c] = x]
  BY AttemptFails DEF ReceiveResult
<1>3. stream[c] \in Stream
  BY <1>1 DEF StreamsOwned
<1>4. Load(stream[c])' = Load(stream[c]) - 1
  BY <1>1, <1>3, LoadSteps
<1>5. stream[c] \in open => Load(stream[c]) = 1
  BY <1>1 DEF ChannelsMatched, Outstanding
<1>6. phase'[c] \in {"succeeded", "failed"} /\ \A d \in Cmd \ {c} : phase'[d] = phase[d]
  BY <1>2 DEF TypeOK
<1>7. Outstanding(c)' = 0
  BY <1>6 DEF Outstanding
<1>8. \A s \in Stream \ {stream[c]} : Load(s)' = Load(s)
  BY <1>1 DEF Load, TypeOK
<1>9. \A d \in Cmd \ {c} : Outstanding(d)' = Outstanding(d)
  BY <1>1, <1>6 DEF Outstanding
<1> QED
  BY <1>1, <1>4, <1>5, <1>6, <1>7, <1>8, <1>9, ChannelsKept DEF ChannelsMatched

\* Steps of a command that touch no stream and leave nothing outstanding.
LEMMA SettledChannels ==
    ASSUME TypeOK, StreamsOwned, ChannelsMatched, NEW c \in Cmd,
           \/ Call(c) \/ NoConnection(c) \/ SendFails(c) \/ WaitFails(c)
           \/ HandlePrepared(c) \/ Determinate(c)
    PROVE  ChannelsMatched'
<1>1. UNCHANGED <<stream, channelVars>>
  BY DEF Call, NoConnection, SendFails, WaitFails, HandlePrepared, Determinate
<1>2. \E x \in {"acquiring", "done", "failed", "sending", "retrying", "throwing"} :
         phase' = [phase EXCEPT ![c] = x]
  BY AttemptFails DEF Call, NoConnection, SendFails, WaitFails, HandlePrepared, Determinate
<1>3. stream[c] \in open => Outstanding(c) = 0
  <2>1. CASE Call(c) \/ NoConnection(c) \/ Determinate(c)
    BY <2>1 DEF Call, NoConnection, Determinate, Outstanding
  <2>2. CASE SendFails(c) \/ WaitFails(c)
    BY <2>2 DEF SendFails, WaitFails
  <2>3. CASE HandlePrepared(c)
    <3>1. phase[c] = "preparing" /\ sent[c] = Len(results[c])
      BY <2>3 DEF HandlePrepared, AllReceived
    <3>2. sent[c] \in Nat
      BY DEF TypeOK
    <3> QED
      BY <3>1, <3>2 DEF Outstanding
  <2> QED
    BY <2>1, <2>2, <2>3
<1>4. /\ phase'[c] \in {"acquiring", "done", "failed", "sending", "retrying", "throwing"}
      /\ \A d \in Cmd \ {c} : phase'[d] = phase[d]
  BY <1>2 DEF TypeOK
<1>5. Outstanding(c)' = 0
  BY <1>4 DEF Outstanding
<1>6. \A d \in Cmd \ {c} : sent'[d] = sent[d] /\ results'[d] = results[d]
  BY DEF Call, NoConnection, SendFails, WaitFails, HandlePrepared, Determinate,
         prepareVars, NoResults, TypeOK
<1>7. \A d \in Cmd \ {c} : Outstanding(d)' = Outstanding(d)
  BY <1>4, <1>6 DEF Outstanding
<1>8. \A s \in Stream : Load(s)' = Load(s) /\ requests'[s] = requests[s]
  BY <1>1 DEF Load, channelVars
<1>9. stream[c] \in open => Load(stream[c])' = 0
  <2>1. stream[c] \in open => Load(stream[c]) = 0
    BY <1>3 DEF ChannelsMatched
  <2> QED
    BY <1>1, <1>8, <2>1 DEF TypeOK
<1> QED
  BY <1>1, <1>4, <1>5, <1>7, <1>8, <1>9, ChannelsKept DEF ChannelsMatched, channelVars

LEMMA FinallyChannels ==
    ASSUME TypeOK, StreamsOwned, ChannelsMatched, NEW c \in Cmd, Finally(c)
    PROVE  ChannelsMatched'
<1> DEFINE old == stream[c]
           NewLoad(s) == Len(requests'[s]) + Len(replies'[s])
<1>1. /\ phase[c] \in {"retrying", "succeeded", "throwing"}
      /\ stream' = [stream EXCEPT ![c] = None]
      /\ sent' = [sent EXCEPT ![c] = 0]
      /\ results' = [results EXCEPT ![c] = <<>>]
      /\ UNCHANGED <<open, requests, replies>>
      /\ \E x \in {"acquiring", "done"} : phase' = [phase EXCEPT ![c] = x]
  BY DEF Finally, NoResults, channelVars
<1>t. /\ phase \in [Cmd -> Phase] /\ stream \in [Cmd -> Stream \cup {None}]
      /\ sent \in [Cmd -> Nat] /\ results \in [Cmd -> Seq(Reply)]
      /\ open \subseteq Stream /\ None \notin Stream
  BY SessionAssumption DEF TypeOK, SessionAssumption
<1>2. \A s \in Stream : NewLoad(s) = Load(s)
  BY <1>1 DEF Load
<1>3. old \in open => Load(old) = 0
  BY <1>1 DEF ChannelsMatched, Outstanding
<1>4. \A d \in Cmd \ {c} : /\ phase'[d] = phase[d] /\ stream'[d] = stream[d]
                           /\ sent'[d] = sent[d] /\ results'[d] = results[d]
  BY <1>1, <1>t
<1>5. stream'[c] = None /\ phase'[c] \in {"acquiring", "done"}
  BY <1>1, <1>t
<1>6. \A s \in open \ InUse' : NewLoad(s) = 0
  <2>1. ASSUME NEW s \in open, s \notin InUse' PROVE Load(s) = 0
    <3>1. s = old \/ s \notin InUse
      BY <1>4, <1>t, <2>1 DEF InUse
    <3> QED
      BY <1>3, <2>1, <3>1 DEF ChannelsMatched
  <2> QED
    BY <1>2, <1>t, <2>1
<1>7. \A d \in Cmd : stream'[d] \in open => NewLoad(stream'[d]) = Outstanding(d)'
  <2>1. ASSUME NEW d \in Cmd \ {c}, stream[d] \in open PROVE Load(stream[d]) = Outstanding(d)'
    BY <1>4, <2>1 DEF ChannelsMatched, Outstanding
  <2> HIDE DEF NewLoad
  <2> QED
    BY <1>2, <1>4, <1>5, <1>t, <2>1
<1>8. \A d \in Cmd : phase'[d] = "waiting" => NewLoad(stream'[d]) <= 1
  <2>1. ASSUME NEW d \in Cmd \ {c}, phase[d] = "waiting"
        PROVE  stream[d] \in Stream /\ Load(stream[d]) <= 1
    BY <2>1 DEF ChannelsMatched, StreamsOwned
  <2> HIDE DEF NewLoad
  <2> QED
    BY <1>2, <1>4, <1>5, <2>1
<1>9. \A s \in Stream \ open : requests'[s] = <<>>
  BY <1>1 DEF ChannelsMatched
<1> QED
  BY <1>1, <1>6, <1>7, <1>8, <1>9 DEF ChannelsMatched, Load

LEMMA GetConnectionChannels ==
    ASSUME TypeOK, StreamsOwned, ChannelsMatched,
           NEW c \in Cmd, NEW s \in Stream, GetConnection(c, s)
    PROVE  ChannelsMatched'
<1> DEFINE NewLoad(r) == Len(requests'[r]) + Len(replies'[r])
<1>1. /\ phase[c] = "acquiring" /\ s \notin InUse
      /\ stream' = [stream EXCEPT ![c] = s]
      /\ sent' = [sent EXCEPT ![c] = 0]
      /\ results' = [results EXCEPT ![c] = <<>>]
      /\ \E x \in {"preparing", "sending"} : phase' = [phase EXCEPT ![c] = x]
  BY DEF GetConnection
<1>t. /\ phase \in [Cmd -> Phase] /\ stream \in [Cmd -> Stream \cup {None}]
      /\ sent \in [Cmd -> Nat] /\ results \in [Cmd -> Seq(Reply)]
      /\ requests \in [Stream -> Seq(Request)] /\ replies \in [Stream -> Seq(Reply)]
      /\ open \subseteq Stream /\ None \notin Stream
  BY SessionAssumption DEF TypeOK, SessionAssumption
<1>2. /\ open \subseteq open' /\ open' \subseteq open \cup {s}
      /\ \A r \in Stream \ {s} : requests'[r] = requests[r] /\ replies'[r] = replies[r]
      /\ s \in Stream \ open' => requests'[s] = requests[s]
  BY <1>t DEF GetConnection, channelVars
<1>3. s \in open' => NewLoad(s) = 0
  <2>1. CASE UNCHANGED channelVars
    BY <1>1, <2>1 DEF channelVars, ChannelsMatched, Load
  <2>2. CASE requests' = [requests EXCEPT ![s] = <<>>] /\ replies' = [replies EXCEPT ![s] = <<>>]
    <3>1. requests'[s] = <<>> /\ replies'[s] = <<>>
      BY <1>t, <2>2
    <3> QED
      BY <3>1, EmptySeq
  <2> QED
    BY <2>1, <2>2 DEF GetConnection
<1>4. \A r \in Stream \ {s} : NewLoad(r) = Load(r)
  BY <1>2 DEF Load
<1>5. \A d \in Cmd \ {c} : /\ phase'[d] = phase[d] /\ stream'[d] = stream[d] /\ stream[d] # s
                           /\ sent'[d] = sent[d] /\ results'[d] = results[d]
  BY <1>1, <1>t DEF InUse
<1>6. stream'[c] = s /\ phase'[c] \in {"preparing", "sending"} /\ Outstanding(c)' = 0
  <2>1. sent'[c] = 0 /\ results'[c] = <<>> /\ phase'[c] \in {"preparing", "sending"}
    BY <1>1, <1>t
  <2>2. Len(results'[c]) = 0
    BY <2>1, EmptySeq
  <2> QED
    BY <1>1, <1>t, <2>1, <2>2 DEF Outstanding
<1> HIDE DEF NewLoad
<1>7. \A r \in open' \ InUse' : NewLoad(r) = 0
  <2>1. ASSUME NEW r \in open', r \notin InUse' PROVE NewLoad(r) = 0
    <3>1. stream[c] = None /\ r \in Stream
      BY <1>1, <1>2, <1>t, <2>1 DEF StreamsOwned
    <3>2. r # s /\ r \notin InUse
      BY <1>5, <1>6, <1>t, <2>1, <3>1 DEF InUse
    <3>3. r \in open \ InUse /\ r \in Stream \ {s}
      BY <1>2, <1>t, <2>1, <3>2
    <3>4. Load(r) = 0
      BY <3>3 DEF ChannelsMatched
    <3> QED
      BY <1>4, <3>3, <3>4
  <2> QED
    BY <2>1
<1>8. \A d \in Cmd : stream'[d] \in open' => NewLoad(stream'[d]) = Outstanding(d)'
  <2>1. ASSUME NEW d \in Cmd \ {c}, stream'[d] \in open'
        PROVE  NewLoad(stream'[d]) = Outstanding(d)'
    <3>1. stream'[d] = stream[d] /\ stream[d] \in open /\ stream[d] \in Stream \ {s}
      BY <1>2, <1>5, <1>t, <2>1
    <3>2. Load(stream[d]) = Outstanding(d)'
      BY <1>5, <3>1 DEF ChannelsMatched, Outstanding
    <3>3. NewLoad(stream[d]) = Load(stream[d])
      BY <1>4, <3>1
    <3> QED
      BY <3>1, <3>2, <3>3
  <2>2. stream'[c] \in open' => NewLoad(stream'[c]) = Outstanding(c)'
    BY <1>3, <1>6
  <2> QED
    BY <2>1, <2>2
<1>9. \A d \in Cmd : phase'[d] = "waiting" => NewLoad(stream'[d]) <= 1
  <2>1. ASSUME NEW d \in Cmd \ {c}, phase[d] = "waiting"
        PROVE  stream[d] \in Stream /\ Load(stream[d]) <= 1
    BY <2>1 DEF ChannelsMatched, StreamsOwned
  <2> QED
    BY <1>4, <1>5, <1>6, <2>1
<1>10. \A r \in Stream \ open' : requests'[r] = <<>>
  BY <1>2 DEF ChannelsMatched
<1> QED
  BY <1>7, <1>8, <1>9, <1>10 DEF ChannelsMatched, Load, NewLoad

LEMMA ServerAnswersChannels ==
    ASSUME TypeOK, StreamsOwned, ChannelsMatched, NEW s \in Stream, ServerAnswers(s)
    PROVE  ChannelsMatched'
<1>1. /\ requests[s] \in Seq(Request) /\ requests[s] # <<>> /\ replies[s] \in Seq(Reply)
      /\ requests' = [requests EXCEPT ![s] = Tail(requests[s])]
      /\ \E reply \in Reply : replies' = [replies EXCEPT ![s] = Append(replies[s], reply)]
      /\ UNCHANGED <<phase, stream, sent, results, open>>
  BY ServerAnswersShape DEF TypeOK, prepareVars
<1>2. /\ requests'[s] = Tail(requests[s])
      /\ \E reply \in Reply : replies'[s] = Append(replies[s], reply)
  BY <1>1 DEF TypeOK
<1>3. /\ Len(requests'[s]) = Len(requests[s]) - 1 /\ Len(requests[s]) \in Nat
      /\ Len(replies'[s]) = Len(replies[s]) + 1 /\ Len(replies[s]) \in Nat
  <2>1. PICK reply \in Reply : replies'[s] = Append(replies[s], reply)
    BY <1>2
  <2>2. Len(Append(replies[s], reply)) = Len(replies[s]) + 1 /\ Len(replies[s]) \in Nat
    BY <1>1
  <2>3. Len(Tail(requests[s])) = Len(requests[s]) - 1 /\ Len(requests[s]) \in Nat
    BY <1>1, EmptySeq
  <2> QED
    BY <1>2, <2>1, <2>2, <2>3
<1>4. \A m, k \in Nat : (m - 1) + (k + 1) = m + k
  OBVIOUS
<1>5. Len(requests'[s]) + Len(replies'[s]) = Len(requests[s]) + Len(replies[s])
  BY <1>3, <1>4
<1>6. \A r \in Stream \ {s} : requests'[r] = requests[r] /\ replies'[r] = replies[r]
  BY <1>1 DEF TypeOK
<1>7. \A r \in Stream : Len(requests'[r]) + Len(replies'[r]) = Load(r)
  BY <1>5, <1>6 DEF Load
<1>8. \A c \in Cmd : Outstanding(c)' = Outstanding(c)
  BY <1>1 DEF Outstanding
<1>9. \A r \in Stream \ open : requests'[r] = <<>>
  BY <1>1, <1>6 DEF ChannelsMatched
<1>t. open \subseteq Stream
  BY DEF TypeOK
<1> DEFINE NewLoad(r) == Len(requests'[r]) + Len(replies'[r])
<1>10. \A r \in Stream : NewLoad(r) = Load(r)
  BY <1>7
<1> HIDE DEF NewLoad
<1>11. \A r \in open \ InUse : NewLoad(r) = 0
  BY <1>10, <1>t DEF ChannelsMatched
<1>12. \A c \in Cmd : stream[c] \in open => NewLoad(stream[c]) = Outstanding(c)'
  BY <1>8, <1>10, <1>t DEF ChannelsMatched
<1>13. \A c \in Cmd : phase[c] = "waiting" => NewLoad(stream[c]) <= 1
  BY <1>10 DEF ChannelsMatched, StreamsOwned
<1> QED
  BY <1>1, <1>9, <1>11, <1>12, <1>13 DEF ChannelsMatched, Load, NewLoad, InUse

LEMMA ConnectionLostChannels ==
    ASSUME TypeOK, StreamsOwned, ChannelsMatched, NEW s \in Stream, ConnectionLost(s)
    PROVE  ChannelsMatched'
<1> DEFINE NewLoad(r) == Len(requests'[r]) + Len(replies'[r])
<1>1. /\ s \in InUse /\ open' = open \ {s}
      /\ requests' = [requests EXCEPT ![s] = <<>>]
      /\ UNCHANGED <<phase, stream, sent, results>>
  BY DEF ConnectionLost, prepareVars
<1>2. PICK k \in 0 .. Len(replies[s]) : replies' = [replies EXCEPT ![s] = SubSeq(replies[s], 1, k)]
  BY DEF ConnectionLost
<1>t. open \subseteq Stream /\ requests \in [Stream -> Seq(Request)] /\ replies \in [Stream -> Seq(Reply)]
  BY DEF TypeOK
<1>3. \A r \in Stream \ {s} : requests'[r] = requests[r] /\ NewLoad(r) = Load(r)
  BY <1>1, <1>2, <1>t DEF Load
<1>4. requests'[s] = <<>> /\ replies'[s] = SubSeq(replies[s], 1, k)
  BY <1>1, <1>2, <1>t
<1>5. NewLoad(s) <= Load(s)
  <2>1. Len(requests'[s]) = 0
    BY <1>4, EmptySeq
  <2>2. Len(replies'[s]) = k /\ k <= Len(replies[s])
    BY <1>4, <1>t
  <2>3. Len(requests[s]) \in Nat /\ Len(replies[s]) \in Nat
    BY LoadFacts
  <2>4. \A m, l \in Nat : k <= l => 0 + k <= m + l
    OBVIOUS
  <2>5. NewLoad(s) = 0 + k
    BY Zenon, <2>1, <2>2
  <2>6. 0 + k <= Len(requests[s]) + Len(replies[s])
    BY <2>2, <2>3, <2>4
  <2> QED
    BY Zenon, <2>5, <2>6 DEF Load
<1>6. NewLoad(s) \in Int /\ Load(s) \in Int
  <2>1. Len(requests'[s]) = 0 /\ Len(replies'[s]) = k
    BY <1>4, <1>t, EmptySeq
  <2> QED
    BY <2>1, LoadFacts
<1>7. \A c \in Cmd : Outstanding(c)' = Outstanding(c)
  BY <1>1 DEF Outstanding
<1> HIDE DEF NewLoad
<1>8. \A r \in open' \ InUse : NewLoad(r) = 0
  BY <1>1, <1>3, <1>t DEF ChannelsMatched
<1>9. \A c \in Cmd : stream[c] \in open' => NewLoad(stream[c]) = Outstanding(c)'
  BY <1>1, <1>3, <1>7, <1>t DEF ChannelsMatched
<1>10. \A c \in Cmd : phase[c] = "waiting" => NewLoad(stream[c]) <= 1
  <2>1. ASSUME NEW c \in Cmd, phase[c] = "waiting"
        PROVE  stream[c] \in Stream /\ Load(stream[c]) <= 1
    BY <2>1 DEF ChannelsMatched, StreamsOwned
  <2> QED
    BY <1>3, <1>5, <1>6, <2>1
<1>11. \A r \in Stream \ open' : requests'[r] = <<>>
  BY <1>1, <1>3, <1>4 DEF ChannelsMatched
<1> QED
  BY <1>1, <1>8, <1>9, <1>10, <1>11 DEF ChannelsMatched, Load, NewLoad, InUse

LEMMA ChannelsStep ==
    ASSUME TypeOK, StreamsOwned, ChannelsMatched, Next
    PROVE  ChannelsMatched'
<1>1. ASSUME NEW c \in Cmd, CommandStep(c) PROVE ChannelsMatched'
  BY <1>1, SettledChannels, SendPrepareChannels, ReceivePreparedChannels,
     SendCommandChannels, ReceiveResultChannels, FinallyChannels, GetConnectionChannels
     DEF CommandStep
<1>2. ASSUME NEW n \in Node, NEW q \in Query, ServerForgets(n, q) PROVE ChannelsMatched'
  BY <1>2 DEF ServerForgets, ChannelsMatched, Load, Outstanding, InUse, prepareVars, channelVars
<1> QED
  BY <1>1, <1>2, ServerAnswersChannels, ConnectionLostChannels DEF Next

-----------------------------------------------------------------------------
(* Executions *)

\* No QUERY, EXECUTE or BATCH of the command is on its way.
NoRunOf(c) ==
    \A s \in Stream : \A k \in 1 .. Len(requests[s]) :
        requests[s][k].kind = "RUN" => requests[s][k].cmd # c

LEMMA NoRun ==
    ASSUME TypeOK, RunsAwaited, NEW c \in Cmd,
           phase[c] # "waiting" \/ requests[stream[c]] = <<>>
    PROVE  NoRunOf(c)
<1> SUFFICES ASSUME NEW s \in Stream, NEW k \in 1 .. Len(requests[s]),
                    requests[s][k].kind = "RUN", requests[s][k].cmd = c
             PROVE  FALSE
  BY DEF NoRunOf
<1>1. phase[c] = "waiting" /\ stream[c] = s
  BY DEF RunsAwaited
<1>2. requests[s] = <<>>
  BY <1>1
<1>3. Len(requests[s]) = 0
  BY <1>2, EmptySeq
<1> QED
  BY <1>3

\* A command that is about to receive a response has no request on its way.
LEMMA OneAtATime ==
    ASSUME TypeOK, StreamsOwned, ChannelsMatched,
           NEW c \in Cmd, phase[c] = "waiting", replies[stream[c]] # <<>>
    PROVE  requests[stream[c]] = <<>>
<1>1. stream[c] \in Stream /\ Load(stream[c]) <= 1
  BY DEF StreamsOwned, ChannelsMatched
<1>2. /\ Len(replies[stream[c]]) \in Nat /\ Len(replies[stream[c]]) # 0
      /\ Len(requests[stream[c]]) \in Nat
  BY <1>1, LoadFacts
<1>3. \A m, k \in Nat : k # 0 /\ m + k <= 1 => m = 0
  OBVIOUS
<1>4. Len(requests[stream[c]]) + Len(replies[stream[c]]) <= 1
  BY Zenon, <1>1 DEF Load
<1>5. Len(requests[stream[c]]) = 0
  BY <1>2, <1>3, <1>4
<1> QED
  BY <1>1, <1>5, LoadFacts

\* A step of a command with no run on its way, or that keeps its phase and
\* stream: runs are only added by a command that then waits for the answer.
LEMMA RunsKept ==
    ASSUME TypeOK, RunsAwaited, NEW c \in Cmd,
           NoRunOf(c) \/ UNCHANGED <<phase, stream>>,
           \A d \in Cmd \ {c} : phase'[d] = phase[d] /\ stream'[d] = stream[d],
           \A s \in Stream : requests'[s] \in {requests[s], <<>>}
    PROVE  RunsAwaited'
<1> SUFFICES ASSUME NEW s \in Stream, NEW k \in 1 .. Len(requests'[s]),
                    requests'[s][k].kind = "RUN"
             PROVE  /\ phase'[requests'[s][k].cmd] = "waiting"
                    /\ stream'[requests'[s][k].cmd] = s
  BY DEF RunsAwaited
<1>1. requests'[s] = requests[s]
  <2>1. CASE requests'[s] = <<>>
    <3>1. Len(requests'[s]) = 0
      BY <2>1, EmptySeq
    <3> QED
      BY <3>1
  <2> QED
    BY <2>1
<1>2. requests[s] \in Seq(Request) /\ k \in 1 .. Len(requests[s])
  BY <1>1 DEF TypeOK
<1>3. requests[s][k] \in Request
  BY <1>2
<1>4. requests[s][k].cmd \in Cmd
  BY <1>3 DEF Request
<1>5. phase[requests[s][k].cmd] = "waiting" /\ stream[requests[s][k].cmd] = s
  BY <1>1, <1>2 DEF RunsAwaited
<1>6. NoRunOf(c) => requests[s][k].cmd # c
  BY <1>1, <1>2 DEF NoRunOf
<1> QED
  BY <1>1, <1>4, <1>5, <1>6

LEMMA RunsAwaitedByCommand ==
    ASSUME TypeOK, StreamsOwned, ChannelsMatched, RunsAwaited,
           NEW c \in Cmd, CommandStep(c), ~SendPrepare(c), ~SendCommand(c)
    PROVE  RunsAwaited'
<1>t. phase \in [Cmd -> Phase] /\ stream \in [Cmd -> Stream \cup {None}]
      /\ requests \in [Stream -> Seq(Request)]
  BY DEF TypeOK
<1>1. CASE \/ Call(c) \/ NoConnection(c) \/ SendFails(c)
           \/ HandlePrepared(c) \/ Determinate(c) \/ Finally(c)
  <2>1. phase[c] # "waiting"
    BY <1>1 DEF Call, NoConnection, SendFails, HandlePrepared, Determinate, Finally
  <2>2. requests' = requests
    BY <1>1 DEF Call, NoConnection, SendFails, HandlePrepared, Determinate, Finally, channelVars
  <2>3. \A d \in Cmd \ {c} : phase'[d] = phase[d] /\ stream'[d] = stream[d]
    <3>1. CASE Call(c)
      BY <1>t, <3>1 DEF Call
    <3>2. CASE Finally(c)
      BY <1>t, <3>2 DEF Finally
    <3>3. CASE NoConnection(c) \/ SendFails(c) \/ HandlePrepared(c) \/ Determinate(c)
      BY <1>t, <3>3, PhaseSteps
    <3> QED
      BY <1>1, <3>1, <3>2, <3>3
  <2> QED
    BY <2>1, <2>2, <2>3, NoRun, RunsKept
<1>2. CASE WaitFails(c) \/ ReceiveResult(c)
  <2>1. phase[c] # "waiting" \/ requests[stream[c]] = <<>>
    <3>1. CASE WaitFails(c)
      BY <3>1 DEF WaitFails, ChannelsMatched, StreamsOwned
    <3>2. CASE ReceiveResult(c)
      BY <3>2, OneAtATime DEF ReceiveResult
    <3> QED
      BY <1>2, <3>1, <3>2
  <2>2. requests' = requests
    BY <1>2 DEF WaitFails, ReceiveResult, channelVars
  <2>3. \A d \in Cmd \ {c} : phase'[d] = phase[d] /\ stream'[d] = stream[d]
    BY <1>2, <1>t, PhaseSteps
  <2> QED
    BY <2>1, <2>2, <2>3, NoRun, RunsKept
<1>3. CASE ReceivePrepared(c)
  BY <1>3, RunsKept DEF ReceivePrepared
<1>4. ASSUME NEW s \in Stream, GetConnection(c, s) PROVE RunsAwaited'
  <2>1. phase[c] # "waiting"
    BY <1>4 DEF GetConnection
  <2>2. \A r \in Stream : requests'[r] \in {requests[r], <<>>}
    BY <1>4, <1>t DEF GetConnection, channelVars
  <2>3. \A d \in Cmd \ {c} : phase'[d] = phase[d] /\ stream'[d] = stream[d]
    BY <1>4, <1>t DEF GetConnection
  <2> QED
    BY <2>1, <2>2, <2>3, NoRun, RunsKept
<1> QED
  BY <1>1, <1>2, <1>3, <1>4 DEF CommandStep

\* One request is added to a stream; a run is awaited there.
LEMMA RunsAppended ==
    ASSUME TypeOK, RunsAwaited, NEW c \in Cmd, NEW s \in Stream, NEW request \in Request,
           requests' = [requests EXCEPT ![s] = Append(requests[s], request)],
           NoRunOf(c) \/ UNCHANGED <<phase, stream>>,
           \A d \in Cmd \ {c} : phase'[d] = phase[d] /\ stream'[d] = stream[d],
           request.kind = "RUN" =>
              phase'[request.cmd] = "waiting" /\ stream'[request.cmd] = s
    PROVE  RunsAwaited'
<1> SUFFICES ASSUME NEW r \in Stream, NEW k \in 1 .. Len(requests'[r]),
                    requests'[r][k].kind = "RUN"
             PROVE  /\ phase'[requests'[r][k].cmd] = "waiting"
                    /\ stream'[requests'[r][k].cmd] = r
  BY DEF RunsAwaited
<1>1. requests[r] \in Seq(Request) /\ requests \in [Stream -> Seq(Request)]
  BY DEF TypeOK
<1>2. CASE k \in 1 .. Len(requests[r]) /\ requests'[r][k] = requests[r][k]
  <2>1. requests[r][k] \in Request
    BY <1>1, <1>2
  <2>2. requests[r][k].cmd \in Cmd
    BY <2>1 DEF Request
  <2>3. phase[requests[r][k].cmd] = "waiting" /\ stream[requests[r][k].cmd] = r
    BY <1>2 DEF RunsAwaited
  <2>4. NoRunOf(c) => requests[r][k].cmd # c
    BY <1>2 DEF NoRunOf
  <2> QED
    BY <1>2, <2>2, <2>3, <2>4
<1>3. CASE r = s /\ requests'[r][k] = request
  BY <1>3
<1>4. \/ k \in 1 .. Len(requests[r]) /\ requests'[r][k] = requests[r][k]
      \/ r = s /\ requests'[r][k] = request
  <2>1. CASE r # s
    BY <1>1, <2>1
  <2>2. CASE r = s
    <3>1. requests'[r] = Append(requests[r], request)
      BY <1>1, <2>2
    <3>2. /\ Len(requests'[r]) = Len(requests[r]) + 1 /\ Len(requests[r]) \in Nat
          /\ \A j \in 1 .. Len(requests[r]) : requests'[r][j] = requests[r][j]
          /\ requests'[r][Len(requests[r]) + 1] = request
      BY <1>1, <3>1, AppendProperties
    <3> QED
      BY <2>2, <3>2
  <2> QED
    BY <2>1, <2>2
<1> QED
  BY <1>2, <1>3, <1>4

LEMMA RunsAwaitedStep ==
    ASSUME TypeOK, StreamsOwned, ChannelsMatched, RunsAwaited, Next
    PROVE  RunsAwaited'
<1>t. phase \in [Cmd -> Phase] /\ requests \in [Stream -> Seq(Request)]
  BY DEF TypeOK
<1>1. ASSUME NEW c \in Cmd, SendPrepare(c) PROVE RunsAwaited'
  <2> DEFINE request == [kind |-> "PREPARE", cmd |-> c, uses |-> Queries[c][order[c][sent[c] + 1]]]
  <2>1. /\ stream[c] \in Stream /\ UNCHANGED <<phase, stream>>
        /\ requests' = [requests EXCEPT ![stream[c]] = Append(requests[stream[c]], request)]
    BY <1>1 DEF SendPrepare, TypeOK
  <2>2. order[c] \in Seq(Index(c)) /\ sent[c] \in Nat /\ sent[c] < Len(order[c])
    BY <1>1 DEF TypeOK, SendPrepare
  <2>3. order[c][sent[c] + 1] \in Index(c)
    BY <2>2, ElementOfSeq
  <2>4. request \in Request
    BY <2>3, IndexFacts DEF Request
  <2> QED
    BY <2>1, <2>4, RunsAppended
<1>2. ASSUME NEW c \in Cmd, SendCommand(c) PROVE RunsAwaited'
  <2> DEFINE request == [kind |-> "RUN", cmd |-> c, uses |-> {ids[c][i] : i \in Index(c)} \ {None}]
  <2>1. /\ stream[c] \in Stream /\ phase[c] = "sending" /\ UNCHANGED stream
        /\ phase' = [phase EXCEPT ![c] = "waiting"]
        /\ requests' = [requests EXCEPT ![stream[c]] = Append(requests[stream[c]], request)]
    BY <1>2 DEF SendCommand, TypeOK
  <2>2. request \in Request
    BY DEF Request, TypeOK
  <2>3. NoRunOf(c)
    BY <2>1, NoRun
  <2> QED
    BY <1>t, <2>1, <2>2, <2>3, RunsAppended
<1>3. ASSUME NEW s \in Stream, ServerAnswers(s) PROVE RunsAwaited'
  <2>1. /\ requests[s] \in Seq(Request) /\ requests[s] # <<>>
        /\ requests' = [requests EXCEPT ![s] = Tail(requests[s])]
        /\ UNCHANGED <<phase, stream>>
    BY <1>3, <1>t, ServerAnswersShape
  <2>2. /\ Len(requests'[s]) = Len(requests[s]) - 1 /\ Len(requests[s]) \in Nat
        /\ \A k \in 1 .. Len(requests'[s]) : requests'[s][k] = requests[s][k + 1]
    BY <1>t, <2>1, HeadTailProperties
  <2>3. ASSUME NEW r \in Stream, NEW k \in 1 .. Len(requests'[r])
        PROVE  \E j \in 1 .. Len(requests[r]) : requests'[r][k] = requests[r][j]
    <3>1. CASE r = s
      <4>1. k + 1 \in 1 .. Len(requests[s]) /\ requests'[s][k] = requests[s][k + 1]
        BY <2>2, <2>3, <3>1
      <4> QED
        BY <3>1, <4>1
    <3>2. CASE r # s
      <4>1. requests'[r] = requests[r]
        BY <1>t, <2>1, <3>2
      <4> QED
        BY <4>1
    <3> QED
      BY <3>1, <3>2
  <2>4. ASSUME NEW r \in Stream, NEW k \in 1 .. Len(requests'[r]),
               requests'[r][k].kind = "RUN"
        PROVE  /\ phase'[requests'[r][k].cmd] = "waiting"
               /\ stream'[requests'[r][k].cmd] = r
    <3>1. PICK j \in 1 .. Len(requests[r]) : requests'[r][k] = requests[r][j]
      BY <2>3
    <3>2. phase[requests[r][j].cmd] = "waiting" /\ stream[requests[r][j].cmd] = r
      BY <2>4, <3>1 DEF RunsAwaited
    <3> QED
      BY <2>1, <3>1, <3>2
  <2> QED
    BY <2>4 DEF RunsAwaited
<1>4. ASSUME NEW s \in Stream, ConnectionLost(s) PROVE RunsAwaited'
  <2>1. UNCHANGED <<phase, stream>> /\ requests' = [requests EXCEPT ![s] = <<>>]
    BY <1>4 DEF ConnectionLost
  <2>2. \A r \in Stream : Len(requests'[r]) = 0 \/ requests'[r] = requests[r]
    BY <1>t, <2>1, EmptySeq
  <2> QED
    BY <2>1, <2>2 DEF RunsAwaited
<1>5. ASSUME NEW n \in Node, NEW q \in Query, ServerForgets(n, q) PROVE RunsAwaited'
  BY <1>5 DEF ServerForgets, RunsAwaited, channelVars
<1> QED
  BY <1>1, <1>2, <1>3, <1>4, <1>5, RunsAwaitedByCommand DEF Next, CommandStep

\* A step of one command leaves the others and their streams alone.
LEMMA OthersKept ==
    ASSUME TypeOK, StreamsOwned, NEW c \in Cmd, CommandStep(c), NEW d \in Cmd \ {c}
    PROVE  /\ phase'[d] = phase[d] /\ stream'[d] = stream[d]
           /\ stream[d] \in Stream => /\ requests'[stream[d]] = requests[stream[d]]
                                      /\ replies'[stream[d]] = replies[stream[d]]
<1>t. /\ phase \in [Cmd -> Phase] /\ stream \in [Cmd -> Stream \cup {None}]
      /\ requests \in [Stream -> Seq(Request)] /\ replies \in [Stream -> Seq(Reply)]
      /\ None \notin Stream
  BY SessionAssumption DEF TypeOK, SessionAssumption
<1>1. stream[d] \in Stream => stream[d] # stream[c]
  BY <1>t DEF StreamsOwned
<1>2. CASE Call(c)
  BY <1>2, <1>t DEF Call, channelVars
<1>3. CASE Finally(c)
  BY <1>3, <1>t DEF Finally, channelVars
<1>4. CASE NoConnection(c) \/ SendFails(c) \/ WaitFails(c) \/ HandlePrepared(c) \/ Determinate(c)
  <2>1. UNCHANGED channelVars
    BY <1>4 DEF NoConnection, SendFails, WaitFails, HandlePrepared, Determinate
  <2> QED
    BY <1>4, <1>t, <2>1, PhaseSteps DEF channelVars
<1>5. CASE SendPrepare(c) \/ ReceivePrepared(c)
  BY <1>1, <1>5, <1>t DEF SendPrepare, ReceivePrepared
<1>6. CASE SendCommand(c)
  BY <1>1, <1>6, <1>t DEF SendCommand
<1>7. CASE ReceiveResult(c)
  <2>1. requests' = requests /\ replies' = [replies EXCEPT ![stream[c]] = Tail(replies[stream[c]])]
    BY <1>7 DEF ReceiveResult
  <2> QED
    BY <1>1, <1>7, <1>t, <2>1, PhaseSteps
<1>8. ASSUME NEW s \in Stream, GetConnection(c, s)
      PROVE  /\ phase'[d] = phase[d] /\ stream'[d] = stream[d]
             /\ stream[d] \in Stream => /\ requests'[stream[d]] = requests[stream[d]]
                                        /\ replies'[stream[d]] = replies[stream[d]]
  <2>1. stream[d] # s
    BY <1>8 DEF GetConnection, InUse
  <2> QED
    BY <1>8, <1>t, <2>1 DEF GetConnection, channelVars
<1> QED
  BY <1>2, <1>3, <1>4, <1>5, <1>6, <1>7, <1>8 DEF CommandStep

LEMMA ChancesOfCommand ==
    ASSUME TypeOK, StreamsOwned, NEW c \in Cmd, CommandStep(c)
    PROVE  /\ \A d \in Cmd \ {c} : MayExecute(d)' = MayExecute(d)
           /\ MayExecute(c)' => MayExecute(c) \/ phase[c] \in {"new", "retrying"}
<1>1. ASSUME NEW d \in Cmd \ {c} PROVE MayExecute(d)' = MayExecute(d)
  <2>1. phase[d] = "waiting" => stream[d] \in Stream
    BY DEF StreamsOwned
  <2> QED
    BY <2>1, OthersKept DEF MayExecute
<1>2. phase[c] \in {"new", "retrying", "acquiring", "preparing", "sending"}
         => MayExecute(c) \/ phase[c] \in {"new", "retrying"}
  BY DEF MayExecute
<1>3. phase[c] \notin {"new", "retrying", "acquiring", "preparing", "sending"} => ~MayExecute(c)'
  <2> SUFFICES ASSUME phase[c] \notin {"new", "retrying", "acquiring", "preparing", "sending"}
               PROVE  phase'[c] \in {"succeeded", "failed", "retrying", "throwing", "done"}
    BY DEF MayExecute
  <2>1. CASE Finally(c)
    BY <2>1 DEF Finally, TypeOK
  <2>2. CASE WaitFails(c) \/ ReceiveResult(c) \/ Determinate(c)
    BY <2>2, PhaseSteps DEF TypeOK
  <2>3. ~ \/ Call(c) \/ NoConnection(c) \/ SendFails(c) \/ SendPrepare(c) \/ ReceivePrepared(c)
          \/ HandlePrepared(c) \/ SendCommand(c) \/ \E s \in Stream : GetConnection(c, s)
    BY DEF Call, NoConnection, SendFails, SendPrepare, ReceivePrepared, HandlePrepared,
           SendCommand, GetConnection
  <2> QED
    BY <2>1, <2>2, <2>3 DEF CommandStep
<1> QED
  BY <1>1, <1>2, <1>3

LEMMA ExecutionsOfCommand ==
    ASSUME TypeOK, StreamsOwned, ExecutionsCounted, NEW c \in Cmd, CommandStep(c)
    PROVE  ExecutionsCounted'
<1> DEFINE Chance(d) == IF MayExecute(d) THEN 1 ELSE 0
           NewChance(d) == IF MayExecute(d)' THEN 1 ELSE 0
<1>t. /\ unprepared \in [Cmd -> {0, 1}] /\ attempts \in [Cmd -> Nat]
      /\ executed \in [Cmd -> Nat] /\ phase \in [Cmd -> Phase]
  BY DEF TypeOK
<1>1. executed' = executed
  BY DEF CommandStep, Call, NoConnection, SendFails, WaitFails, SendPrepare, ReceivePrepared,
         HandlePrepared, SendCommand, ReceiveResult, Determinate, Finally, GetConnection,
         serverVars
<1>2. \A d \in Cmd : executed[d] + unprepared[d] + Chance(d) <= attempts[d]
  BY DEF ExecutionsCounted
<1>3. \A d \in Cmd \ {c} : NewChance(d) = Chance(d)
  BY ChancesOfCommand
<1>4. /\ NewChance(c) > Chance(c) => phase[c] \in {"new", "retrying"}
      /\ Chance(c) \in {0, 1} /\ NewChance(c) \in {0, 1}
      /\ phase[c] \in {"new", "retrying"} => Chance(c) = 0
      /\ phase'[c] \in {"failed", "retrying", "done"} => NewChance(c) = 0
  BY ChancesOfCommand DEF MayExecute
<1>5. phase[c] \in {"new", "retrying"} => attempts'[c] = attempts[c] + 1 \/ phase'[c] = "done"
  <2>1. ASSUME phase[c] \in {"new", "retrying"} PROVE Call(c) \/ Finally(c)
    BY <2>1 DEF CommandStep, NoConnection, SendFails, WaitFails, SendPrepare, ReceivePrepared,
         HandlePrepared, SendCommand, ReceiveResult, Determinate, GetConnection
  <2> QED
    BY <1>t, <2>1 DEF Call, Finally
<1>6. /\ \A d \in Cmd \ {c} : attempts'[d] = attempts[d] /\ unprepared'[d] = unprepared[d]
      /\ attempts'[c] \in {attempts[c], attempts[c] + 1}
      /\ \/ unprepared'[c] = unprepared[c]
         \/ /\ unprepared'[c] = unprepared[c] + 1
            /\ Chance(c) = 1 /\ phase'[c] = "failed"
  <2>1. CASE AttemptEnds(c) /\ UNCHANGED attempts
    <3>1. PICK taken \in {0, 1} :
             /\ unprepared' = [unprepared EXCEPT ![c] = taken]
             /\ taken = unprepared[c] \/ (taken = unprepared[c] + 1 /\ MayExecute(c))
      BY <2>1 DEF AttemptEnds
    <3>2. phase'[c] = "failed"
      BY <1>t, <2>1 DEF AttemptEnds
    <3> QED
      BY <1>t, <2>1, <3>1, <3>2
  <2>2. CASE GoesOn(c) \/ Retries(c) \/ UNCHANGED <<phase, flowVars>>
    BY <2>2 DEF GoesOn, Retries, flowVars
  <2>3. CASE Attempts(c)
    BY <1>t, <2>3 DEF Attempts
  <2> QED
    BY <2>1, <2>2, <2>3, FlowSteps
<1> HIDE DEF Chance, NewChance
<1>7. ASSUME NEW d \in Cmd \ {c}
      PROVE  executed[d] + unprepared'[d] + NewChance(d) <= attempts'[d]
  BY <1>2, <1>3, <1>6
<1>8. executed[c] + unprepared'[c] + NewChance(c) <= attempts'[c]
  BY <1>2, <1>4, <1>5, <1>6, <1>t
<1>9. \A d \in Cmd : executed'[d] + unprepared'[d] + NewChance(d) <= attempts'[d]
  BY <1>1, <1>7, <1>8
<1> QED
  BY <1>9 DEF ExecutionsCounted, NewChance

\* A server that executes a command answers it, and not with UNPREPARED.
LEMMA ExecutionsOfServer ==
    ASSUME TypeOK, StreamsOwned, ChannelsMatched, RunsAwaited, ExecutionsCounted,
           NEW s \in Stream, ServerAnswers(s)
    PROVE  ExecutionsCounted'
<1> DEFINE request == Head(requests[s])
<1>1. PICK reply \in Reply :
         /\ Answer(NodeOf[s], request, reply.kind)
         /\ replies' = [replies EXCEPT ![s] = Append(replies[s], reply)]
  BY ServerAnswersShape
<1>2. /\ requests[s] \in Seq(Request) /\ requests[s] # <<>> /\ request \in Request
      /\ requests' = [requests EXCEPT ![s] = Tail(requests[s])]
      /\ UNCHANGED <<phase, stream, unprepared, attempts>>
  BY ServerAnswersShape DEF TypeOK, flowVars
<1>t. /\ unprepared \in [Cmd -> {0, 1}] /\ attempts \in [Cmd -> Nat]
      /\ executed \in [Cmd -> Nat] /\ phase \in [Cmd -> Phase]
      /\ requests \in [Stream -> Seq(Request)] /\ replies \in [Stream -> Seq(Reply)]
  BY DEF TypeOK
<1>n. \A d \in Cmd : executed[d] \in Nat /\ unprepared[d] \in Nat /\ attempts[d] \in Nat
  BY <1>t
<1>3. \A d \in Cmd : MayExecute(d)' => MayExecute(d)
  <2>1. ASSUME NEW d \in Cmd, phase[d] = "waiting", stream[d] # s, MayExecute(d)'
        PROVE  MayExecute(d)
    <3>1. stream[d] \in Stream
      BY <2>1 DEF StreamsOwned
    <3>2. requests'[stream[d]] = requests[stream[d]] /\ replies'[stream[d]] = replies[stream[d]]
      BY <1>1, <1>2, <1>t, <2>1, <3>1
    <3> QED
      BY <1>2, <2>1, <3>2 DEF MayExecute
  <2>2. ASSUME NEW d \in Cmd, phase[d] = "waiting", stream[d] = s
        PROVE  MayExecute(d)
    BY <1>2, <2>2 DEF MayExecute
  <2>3. ASSUME NEW d \in Cmd, phase[d] # "waiting", MayExecute(d)'
        PROVE  MayExecute(d)
    BY <1>2, <2>3 DEF MayExecute
  <2> QED
    BY <2>1, <2>2, <2>3
<1>4. CASE executed' = executed
  <2> DEFINE Chance(d) == IF MayExecute(d) THEN 1 ELSE 0
             NewChance(d) == IF MayExecute(d)' THEN 1 ELSE 0
  <2>1. \A d \in Cmd : NewChance(d) <= Chance(d) /\ NewChance(d) \in {0, 1} /\ Chance(d) \in {0, 1}
    BY <1>3
  <2>2. \A d \in Cmd : executed[d] + unprepared[d] + Chance(d) <= attempts[d]
    BY DEF ExecutionsCounted
  <2> HIDE DEF Chance, NewChance
  <2>3. \A d \in Cmd : executed'[d] + unprepared'[d] + NewChance(d) <= attempts'[d]
    BY <1>2, <1>4, <1>n, <2>1, <2>2
  <2> QED
    BY <2>3 DEF ExecutionsCounted, NewChance
<1>5. CASE executed' # executed
  <2>2. request.cmd \in Cmd
    BY <1>2 DEF Request
  <2>c. PICK c \in Cmd : c = request.cmd
    BY <2>2
  <2>1. /\ request.kind = "RUN" /\ reply.kind \in {"Result", "ServerError"}
        /\ executed' = [executed EXCEPT ![c] = executed[c] + 1]
    BY <1>1, <1>5, <2>c DEF Answer, serverVars
  <2>3. phase[c] = "waiting" /\ stream[c] = s
    <3>1. 1 \in 1 .. Len(requests[s]) /\ requests[s][1] = request
      BY <1>2, EmptySeq
    <3> QED
      BY <2>1, <2>c, <3>1 DEF RunsAwaited
  <2>4. replies[s] = <<>>
    BY <1>2, <2>3, OneAtATime
  <2>5. requests'[s] = <<>> /\ replies'[s] = <<reply>>
    <3>1. Load(s) <= 1
      BY <2>3 DEF ChannelsMatched
    <3>2. Len(requests[s]) \in Nat /\ Len(requests[s]) > 0 /\ Len(replies[s]) = 0
      BY <1>2, <2>4, EmptySeq
    <3>3. \A m, k \in Nat : m > 0 /\ k = 0 /\ m + k <= 1 => m = 1
      OBVIOUS
    <3>4. Len(requests[s]) + Len(replies[s]) <= 1
      BY Zenon, <3>1 DEF Load
    <3>5. Len(requests[s]) = 1
      <4> DEFINE m == Len(requests[s])
                 k == Len(replies[s])
      <4>1. m \in Nat /\ m > 0 /\ k = 0 /\ m + k <= 1
        BY <3>2, <3>4
      <4> HIDE DEF m, k
      <4>2. m = 1
        BY <3>3, <4>1
      <4> QED
        BY <4>2 DEF m
    <3>6. requests'[s] = Tail(requests[s]) /\ replies'[s] = Append(replies[s], reply)
      BY <1>1, <1>2, <1>t
    <3>7. Tail(requests[s]) \in Seq(Request) /\ Len(Tail(requests[s])) = 0
      BY <1>2, <3>5, HeadTailProperties
    <3>8. Tail(requests[s]) = <<>>
      BY <3>7, EmptySeq
    <3>9. Append(<<>>, reply) = <<reply>>
      OBVIOUS
    <3> QED
      BY <2>4, <3>6, <3>8, <3>9
  <2>6. ~MayExecute(c)'
    <3>1. phase'[c] = "waiting" /\ stream'[c] = s
      BY <1>2, <2>3
    <3>2. Head(replies'[s]) = reply
      BY <2>5
    <3>3. reply.kind # "UnPrepared"
      BY <2>1
    <3> QED
      BY <2>5, <3>1, <3>2, <3>3 DEF MayExecute
  <2>7. MayExecute(c)
    BY <1>2, <2>3 DEF MayExecute
  <2> DEFINE Chance(d) == IF MayExecute(d) THEN 1 ELSE 0
             NewChance(d) == IF MayExecute(d)' THEN 1 ELSE 0
  <2>8. /\ \A d \in Cmd : NewChance(d) <= Chance(d) /\ NewChance(d) \in {0, 1} /\ Chance(d) \in {0, 1}
        /\ NewChance(c) = 0 /\ Chance(c) = 1
    BY <1>3, <2>6, <2>7
  <2>9. \A d \in Cmd : executed[d] + unprepared[d] + Chance(d) <= attempts[d]
    BY DEF ExecutionsCounted
  <2> HIDE DEF Chance, NewChance
  <2>10. executed'[c] = executed[c] + 1 /\ \A d \in Cmd \ {c} : executed'[d] = executed[d]
    BY <1>t, <2>1
  <2>11. \A d \in Cmd : executed'[d] + unprepared'[d] + NewChance(d) <= attempts'[d]
    <3>1. ASSUME NEW d \in Cmd \ {c}
          PROVE  executed'[d] + unprepared'[d] + NewChance(d) <= attempts'[d]
      <4>1. /\ executed'[d] = executed[d] /\ unprepared'[d] = unprepared[d]
            /\ attempts'[d] = attempts[d] /\ NewChance(d) <= Chance(d)
            /\ NewChance(d) \in {0, 1} /\ Chance(d) \in {0, 1}
        BY <1>2, <2>8, <2>10
      <4>2. executed[d] \in Nat /\ unprepared[d] \in Nat /\ attempts[d] \in Nat
        BY <1>n
      <4>3. executed[d] + unprepared[d] + Chance(d) <= attempts[d]
        BY <2>9
      <4> QED
        BY <4>1, <4>2, <4>3
    <3>2. executed'[c] + unprepared'[c] + NewChance(c) <= attempts'[c]
      BY <1>2, <1>n, <2>8, <2>9, <2>10
    <3> QED
      BY <3>1, <3>2
  <2> QED
    BY <2>11 DEF ExecutionsCounted, NewChance
<1> QED
  BY <1>4, <1>5

LEMMA ExecutionsOtherwise ==
    ASSUME TypeOK, StreamsOwned, ExecutionsCounted,
           \/ \E s \in Stream : ConnectionLost(s)
           \/ \E n \in Node, q \in Query : ServerForgets(n, q)
    PROVE  ExecutionsCounted'
<1>t. /\ unprepared \in [Cmd -> {0, 1}] /\ attempts \in [Cmd -> Nat]
      /\ executed \in [Cmd -> Nat]
      /\ requests \in [Stream -> Seq(Request)] /\ replies \in [Stream -> Seq(Reply)]
  BY DEF TypeOK
<1>1. UNCHANGED <<phase, stream, unprepared, attempts, executed>>
  BY DEF ConnectionLost, ServerForgets, flowVars, serverVars
<1>2. \A d \in Cmd : MayExecute(d)' => MayExecute(d)
  <2>1. ASSUME NEW s \in Stream, ConnectionLost(s), NEW d \in Cmd, MayExecute(d)'
        PROVE  MayExecute(d)
    <3>1. requests'[s] = <<>>
      BY <1>t, <2>1 DEF ConnectionLost
    <3>2. PICK k \in 0 .. Len(replies[s]) : replies' = [replies EXCEPT ![s] = SubSeq(replies[s], 1, k)]
      BY <2>1 DEF ConnectionLost
    <3>3. replies'[s] # <<>> => replies[s] # <<>> /\ Head(replies'[s]) = Head(replies[s])
      <4>1. replies[s] \in Seq(Reply) /\ replies'[s] = SubSeq(replies[s], 1, k)
        BY <1>t, <3>2
      <4>2. CASE k = 0
        BY <4>1, <4>2
      <4>3. CASE k > 0
        <5>1. Len(replies'[s]) = k /\ replies'[s][1] = replies[s][1]
          BY <4>1, <4>3
        <5>2. replies[s] # <<>>
          BY <3>2, <4>3, EmptySeq
        <5> QED
          BY <4>1, <5>1, <5>2
      <4> QED
        BY <4>2, <4>3
    <3>4. \A r \in Stream \ {s} : requests'[r] = requests[r] /\ replies'[r] = replies[r]
      BY <1>t, <2>1, <3>2 DEF ConnectionLost
    <3>5. phase[d] = "waiting" => stream[d] \in Stream
      BY DEF StreamsOwned
    <3> QED
      BY <1>1, <2>1, <3>1, <3>3, <3>4, <3>5 DEF MayExecute
  <2>2. ASSUME NEW n \in Node, NEW q \in Query, ServerForgets(n, q), NEW d \in Cmd, MayExecute(d)'
        PROVE  MayExecute(d)
    BY <2>2 DEF ServerForgets, MayExecute, channelVars
  <2> QED
    BY <2>1, <2>2
<1> DEFINE Chance(d) == IF MayExecute(d) THEN 1 ELSE 0
           NewChance(d) == IF MayExecute(d)' THEN 1 ELSE 0
<1>3. \A d \in Cmd : NewChance(d) <= Chance(d) /\ NewChance(d) \in {0, 1} /\ Chance(d) \in {0, 1}
  BY <1>2
<1>4. \A d \in Cmd : executed[d] + unprepared[d] + Chance(d) <= attempts[d]
  BY DEF ExecutionsCounted
<1>5. \A d \in Cmd : executed[d] \in Nat /\ unprepared[d] \in {0, 1} /\ attempts[d] \in Nat
  BY DEF TypeOK
<1> HIDE DEF Chance, NewChance
<1>6. \A d \in Cmd : executed'[d] + unprepared'[d] + NewChance(d) <= attempts'[d]
  BY <1>1, <1>3, <1>4, <1>5
<1> QED
  BY <1>6 DEF ExecutionsCounted, NewChance

LEMMA ExecutionsStep ==
    ASSUME IInv, Next
    PROVE  ExecutionsCounted'
BY ExecutionsOfCommand, ExecutionsOfServer, ExecutionsOtherwise DEF IInv, Next

-----------------------------------------------------------------------------
(* The invariant is inductive *)

LEMMA InitInv == Init => IInv
<1> SUFFICES ASSUME Init PROVE IInv
  OBVIOUS
<1>1. TypeOK
  BY InitTypes
<1>2. StreamsOwned
  BY DEF Init, StreamsOwned
<1>3. ChannelsMatched
  <2>1. \A c \in Cmd : stream[c] = None /\ phase[c] = "new"
    BY DEF Init
  <2>2. open = {} /\ \A s \in Stream : requests[s] = <<>>
    BY DEF Init
  <2> QED
    BY <2>1, <2>2 DEF ChannelsMatched
<1>4. RunsAwaited
  <2>1. \A s \in Stream : Len(requests[s]) = 0
    BY EmptySeq DEF Init
  <2> QED
    BY <2>1 DEF RunsAwaited
<1>5. ExecutionsCounted
  BY DEF Init, ExecutionsCounted, MayExecute
<1>6. RetriesCounted
  BY SessionAssumption DEF Init, RetriesCounted, SessionAssumption
<1>7. RetryableOnly
  BY DEF Init, RetryableOnly, Retryable
<1> QED
  BY <1>1, <1>2, <1>3, <1>4, <1>5, <1>6, <1>7 DEF IInv

LEMMA StepInv == IInv /\ [Next]_vars => IInv'
<1> SUFFICES ASSUME IInv, [Next]_vars PROVE IInv'
  OBVIOUS
<1>1. CASE Next
  <2>1. TypeOK'
    BY <1>1, TypeStep
  <2>2. StreamsOwned' /\ ChannelsMatched' /\ RunsAwaited'
    BY <1>1, OwnedStep, ChannelsStep, RunsAwaitedStep DEF IInv
  <2>3. ExecutionsCounted'
    BY <1>1, ExecutionsStep
  <2>4. RetriesCounted' /\ RetryableOnly'
    BY <1>1, RetriesStep DEF IInv
  <2> QED
    BY <2>1, <2>2, <2>3, <2>4 DEF IInv
<1>2. CASE UNCHANGED vars
  <2>1. TypeOK'
    BY <1>2 DEF IInv, TypeOK, vars, flowVars, prepareVars, serverVars, channelVars
  <2>2. StreamsOwned' /\ ChannelsMatched' /\ RunsAwaited'
    BY <1>2 DEF IInv, StreamsOwned, ChannelsMatched, RunsAwaited, Load, Outstanding, InUse,
         vars, flowVars, prepareVars, serverVars, channelVars
  <2>3. ExecutionsCounted' /\ RetriesCounted' /\ RetryableOnly'
    BY <1>2 DEF IInv, ExecutionsCounted, RetriesCounted, RetryableOnly, MayExecute,
         vars, flowVars, prepareVars, serverVars, channelVars
  <2> QED
    BY <2>1, <2>2, <2>3 DEF IInv
<1> QED
  BY <1>1, <1>2

THEOREM Invariance == Spec => []IInv
BY InitInv, StepInv, PTL DEF Spec

-----------------------------------------------------------------------------
(* The theorems *)

\* Types: unprepared never counts beyond the one extra try, and maxRetries_, a
\* size_t that RetryFlow::determinate decrements, never falls below zero.
THEOREM TypeCorrect == Spec => []TypeOK
BY Invariance, InvTypes, PTL

\* RetryFlow makes no more attempts than maxRetries_ allows, and one for the
\* first UNPREPARED.
THEOREM RetriesAreBounded == Spec => []RetriesBounded
<1>1. IInv => RetriesBounded
  <2> SUFFICES ASSUME IInv, NEW c \in Cmd
               PROVE  attempts[c] <= MaxRetries[c] + 1 + unprepared[c]
    BY DEF RetriesBounded
  <2>1. /\ attempts[c] \in Nat /\ retries[c] \in Nat /\ unprepared[c] \in {0, 1}
        /\ MaxRetries[c] \in Nat
    BY IndexFacts DEF IInv, TypeOK
  <2>2. attempts[c] + retries[c] + (IF phase[c] \in {"new", "retrying"} THEN 1 ELSE 0)
           <= MaxRetries[c] + 1 + unprepared[c]
    BY DEF IInv, RetriesCounted
  <2> QED
    BY <2>1, <2>2
<1> QED
  BY <1>1, Invariance, PTL

\* The attempt that an UNPREPARED error ends has executed nothing, so the try
\* handleErrorMessage adds for it never repeats a command.
THEOREM ExecutionsAreBounded == Spec => []ExecutionsBounded
<1>1. IInv => ExecutionsBounded
  <2> SUFFICES ASSUME IInv, NEW c \in Cmd
               PROVE  executed[c] <= MaxRetries[c] + 1
    BY DEF ExecutionsBounded
  <2>1. /\ attempts[c] \in Nat /\ retries[c] \in Nat /\ unprepared[c] \in {0, 1}
        /\ executed[c] \in Nat /\ MaxRetries[c] \in Nat
    BY IndexFacts DEF IInv, TypeOK
  <2>2. attempts[c] + retries[c] + (IF phase[c] \in {"new", "retrying"} THEN 1 ELSE 0)
           <= MaxRetries[c] + 1 + unprepared[c]
    BY DEF IInv, RetriesCounted
  <2>3. executed[c] + unprepared[c] + (IF MayExecute(c) THEN 1 ELSE 0) <= attempts[c]
    BY DEF IInv, ExecutionsCounted
  <2> QED
    BY <2>1, <2>2, <2>3
<1> QED
  BY <1>1, Invariance, PTL

\* prepareQueries reads as many responses as it has sent PREPAREs, and query,
\* execute and batchExecute the one response to the command, before the finally
\* block returns the stream: nothing is left on it for the next command.
THEOREM StreamsAreReturnedClean == Spec => []StreamReturnedClean
<1>1. IInv => StreamReturnedClean
  <2> SUFFICES ASSUME IInv, NEW s \in open \ InUse
               PROVE  requests[s] = <<>> /\ replies[s] = <<>>
    BY DEF StreamReturnedClean
  <2>1. TypeOK /\ s \in Stream /\ Load(s) = 0
    BY DEF IInv, TypeOK, ChannelsMatched
  <2>2. /\ Len(requests[s]) \in Nat /\ Len(replies[s]) \in Nat
        /\ Len(requests[s]) + Len(replies[s]) = 0
    BY <2>1, LoadFacts DEF Load
  <2>3. \A m, k \in Nat : m + k = 0 => m = 0 /\ k = 0
    OBVIOUS
  <2>4. Len(requests[s]) = 0 /\ Len(replies[s]) = 0
    BY <2>2, <2>3
  <2> QED
    BY <2>1, <2>4, LoadFacts
<1> QED
  BY <1>1, Invariance, PTL

\* After a user error or a response it did not expect RetryFlow makes no more
\* attempts, because handleErrorMessage and handleUnexpectMessage zero maxRetries_.
THEOREM FinalErrors == Spec => FinalErrorsAreFinal
<1>1. IInv /\ [Next]_vars =>
         [\A c \in Cmd : attempts'[c] # attempts[c] =>
             error[c] \in {"none", "retry", "network", "unavailable"}]_vars
  BY AttemptsOnlyAfterRetryable DEF IInv, Retryable
<1> QED
  BY <1>1, Invariance, PTL DEF Spec, FinalErrorsAreFinal
=============================================================================
