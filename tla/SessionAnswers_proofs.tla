----------------------- MODULE SessionAnswers_proofs -----------------------
(***************************************************************************)
(* Proofs about the answers a command takes for its own, for any commands, *)
(* queries and streams: the ids it stores are those of its queries, and a  *)
(* RESULT it reports is the result of its own execution.  At the end, that *)
(* the session implements Channels.                                        *)
(***************************************************************************)
EXTENDS Session_proofs, WellFoundedInduction

-----------------------------------------------------------------------------
(* Responses in the order of their requests *)

\* The first n of the queries asked are sent; got responses are read, those
\* in rep are received, and the rest, in req, are still to be answered.
InOrder(asked, n, got, rep, req) ==
    /\ got + Len(rep) + Len(req) <= n
    /\ \A k \in 1 .. Len(rep) : rep[k].kind = "Prepared" => rep[k].id = asked[got + k]
    /\ \A k \in 1 .. Len(req) :
          req[k].kind = "PREPARE" /\ req[k].uses = asked[got + Len(rep) + k]

\* Another PREPARE is sent.
LEMMA SendInOrder ==
    ASSUME NEW asked, NEW n \in Nat, NEW got \in Nat,
           NEW rep \in Seq(Reply), NEW req \in Seq(Request), NEW r \in Request,
           InOrder(asked, n, got, rep, req), got + Len(rep) + Len(req) = n,
           r.kind = "PREPARE", r.uses = asked[n + 1]
    PROVE  InOrder(asked, n + 1, got, rep, Append(req, r))
<1> DEFINE new == Append(req, r)
<1>1. Len(rep) \in Nat /\ Len(req) \in Nat /\ Len(new) = Len(req) + 1
  OBVIOUS
<1>2. \A k \in 1 .. Len(new) : new[k] = IF k = Len(req) + 1 THEN r ELSE req[k]
  OBVIOUS
<1> HIDE DEF new
<1>3. ASSUME NEW k \in 1 .. Len(new)
      PROVE  new[k].kind = "PREPARE" /\ new[k].uses = asked[got + Len(rep) + k]
  <2>1. CASE k = Len(req) + 1
    <3>1. new[k] = r
      BY <1>2, <1>3, <2>1
    <3>2. got + Len(rep) + k = n + 1
      BY <1>1, <2>1
    <3> QED
      BY <3>1, <3>2
  <2>2. CASE k # Len(req) + 1
    <3>1. k \in 1 .. Len(req) /\ new[k] = req[k]
      BY <1>1, <1>2, <1>3, <2>2
    <3> QED
      BY <3>1 DEF InOrder
  <2> QED
    BY <2>1, <2>2
<1>4. got + Len(rep) + Len(new) <= n + 1
  BY <1>1
<1> QED
  BY <1>3, <1>4 DEF InOrder, new

\* The next response is read.
LEMMA ReceiveInOrder ==
    ASSUME NEW asked, NEW n \in Nat, NEW got \in Nat,
           NEW rep \in Seq(Reply), NEW req \in Seq(Request),
           InOrder(asked, n, got, rep, req), rep # <<>>
    PROVE  /\ InOrder(asked, n, got + 1, Tail(rep), req)
           /\ got + 1 <= n
           /\ Head(rep).kind = "Prepared" => Head(rep).id = asked[got + 1]
<1> DEFINE new == Tail(rep)
<1>1. /\ Len(rep) \in Nat \ {0} /\ Len(req) \in Nat /\ Len(new) = Len(rep) - 1
      /\ Head(rep) = rep[1]
  BY EmptySeq
<1>2. \A k \in 1 .. Len(rep) - 1 : new[k] = rep[k + 1]
  BY HeadTailProperties
<1> HIDE DEF new
<1>3. ASSUME NEW k \in 1 .. Len(new), new[k].kind = "Prepared"
      PROVE  new[k].id = asked[got + 1 + k]
  <2>1. k \in 1 .. Len(rep) - 1 /\ k + 1 \in 1 .. Len(rep)
    BY <1>1, <1>3
  <2>2. new[k] = rep[k + 1]
    BY <1>2, <2>1
  <2>3. got + (k + 1) = got + 1 + k
    BY <2>1
  <2> QED
    BY <1>3, <2>1, <2>2, <2>3 DEF InOrder
<1>4. ASSUME NEW k \in 1 .. Len(req)
      PROVE  req[k].kind = "PREPARE" /\ req[k].uses = asked[got + 1 + Len(new) + k]
  <2>1. got + 1 + Len(new) + k = got + Len(rep) + k
    BY <1>1
  <2> QED
    BY <2>1 DEF InOrder
<1>5. got + 1 + Len(new) + Len(req) <= n /\ got + 1 <= n
  BY <1>1 DEF InOrder
<1>6. Head(rep).kind = "Prepared" => Head(rep).id = asked[got + 1]
  <2>1. 1 \in 1 .. Len(rep)
    BY <1>1
  <2> QED
    BY <1>1, <2>1 DEF InOrder
<1> QED
  BY <1>3, <1>4, <1>5, <1>6 DEF InOrder, new

\* The server answers the next request.
LEMMA AnswerInOrder ==
    ASSUME NEW asked, NEW n \in Nat, NEW got \in Nat,
           NEW rep \in Seq(Reply), NEW req \in Seq(Request), NEW a \in Reply,
           InOrder(asked, n, got, rep, req), req # <<>>,
           a.kind = "Prepared" => a.id = Head(req).uses
    PROVE  InOrder(asked, n, got, Append(rep, a), Tail(req))
<1> DEFINE new == Append(rep, a)
           left == Tail(req)
<1>1. /\ Len(rep) \in Nat /\ Len(req) \in Nat \ {0}
      /\ Len(new) = Len(rep) + 1 /\ Len(left) = Len(req) - 1 /\ Head(req) = req[1]
  BY EmptySeq
<1>2. /\ \A k \in 1 .. Len(new) : new[k] = IF k = Len(rep) + 1 THEN a ELSE rep[k]
      /\ \A k \in 1 .. Len(left) : left[k] = req[k + 1]
  OBVIOUS
<1>3. Head(req).uses = asked[got + Len(rep) + 1]
  <2>1. 1 \in 1 .. Len(req)
    BY <1>1
  <2> QED
    BY <1>1, <2>1 DEF InOrder
<1> HIDE DEF new, left
<1>4. ASSUME NEW k \in 1 .. Len(new), new[k].kind = "Prepared"
      PROVE  new[k].id = asked[got + k]
  <2>1. CASE k = Len(rep) + 1
    <3>1. new[k] = a /\ got + k = got + Len(rep) + 1
      BY <1>1, <1>2, <1>4, <2>1
    <3> QED
      BY <1>3, <1>4, <3>1
  <2>2. CASE k # Len(rep) + 1
    <3>1. k \in 1 .. Len(rep) /\ new[k] = rep[k]
      BY <1>1, <1>2, <1>4, <2>2
    <3> QED
      BY <1>4, <3>1 DEF InOrder
  <2> QED
    BY <2>1, <2>2
<1>5. ASSUME NEW k \in 1 .. Len(left)
      PROVE  left[k].kind = "PREPARE" /\ left[k].uses = asked[got + Len(new) + k]
  <2>1. left[k] = req[k + 1] /\ k + 1 \in 1 .. Len(req)
        /\ got + Len(rep) + (k + 1) = got + Len(new) + k
    BY <1>1, <1>2, <1>5
  <2> QED
    BY <2>1 DEF InOrder
<1>6. got + Len(new) + Len(left) <= n
  BY <1>1 DEF InOrder
<1> QED
  BY <1>4, <1>5, <1>6 DEF InOrder, new, left

\* The connection is lost, and some of the responses received are left.
LEMMA LostInOrder ==
    ASSUME NEW asked, NEW n \in Nat, NEW got \in Nat,
           NEW rep \in Seq(Reply), NEW req \in Seq(Request), NEW m \in 0 .. Len(rep),
           InOrder(asked, n, got, rep, req)
    PROVE  InOrder(asked, n, got, SubSeq(rep, 1, m), <<>>)
<1> DEFINE new == SubSeq(rep, 1, m)
<1>1. /\ Len(rep) \in Nat /\ Len(req) \in Nat /\ Len(new) = m
      /\ \A k \in 1 .. m : new[k] = rep[k]
  OBVIOUS
<1> HIDE DEF new
<1>2. \A k \in 1 .. Len(new) : new[k].kind = "Prepared" => new[k].id = asked[got + k]
  BY <1>1 DEF InOrder
<1>3. got + Len(new) + Len(<<>>) <= n /\ Len(<<>>) = 0
  BY <1>1 DEF InOrder
<1> QED
  BY <1>2, <1>3 DEF InOrder, new

-----------------------------------------------------------------------------
(* The inductive invariant of the prepared ids *)

\* The queries of the attempt's PREPAREs, in their order.
Asked(c) == [k \in 1 .. Len(order[c]) |-> Queries[c][order[c][k]]]

\* PREPAREs are listed for every query that needs an id and has none yet.
Listed(c) ==
    /\ order[c] # <<>>
    /\ \A k \in 1 .. Len(order[c]) : order[c][k] \in NeedPrepare[c]
    /\ \A i \in Index(c) :
          \/ i \in NeedPrepare[c] /\ ids[c][i] = Queries[c][i]
          \/ /\ ids[c][i] = None
             /\ i \in NeedPrepare[c] => \E k \in 1 .. Len(order[c]) : order[c][k] = i

\* The k-th response is to the k-th PREPARE.
ResultsMatch(c) ==
    /\ sent[c] <= Len(order[c]) /\ Len(results[c]) <= sent[c]
    /\ \A k \in 1 .. Len(results[c]) :
          results[c][k].kind = "Prepared" => results[c][k].id = Asked(c)[k]

\* So will those be that are on the stream, once the command uses it.
Pipelined(c) ==
    sent[c] > 0 => InOrder(Asked(c), sent[c], Len(results[c]),
                           replies[stream[c]], requests[stream[c]])

Matched(c) == Listed(c) /\ ResultsMatch(c) /\ Pipelined(c)

PreparesMatched == \A c \in Cmd : phase[c] = "preparing" => Matched(c)

CacheRight == \A n \in Node, q \in Query : cache[n][q] \in {None, q}

IdsComplete(c) ==
    \A i \in Index(c) : ids[c][i] = IF i \in NeedPrepare[c] THEN Queries[c][i] ELSE None

MessagesComplete == \A c \in Cmd : phase[c] = "sending" => IdsComplete(c)

IdsInv == CacheRight /\ PreparesMatched /\ MessagesComplete

\* handleErrorMessage raises an exception, and only ever evicts ids.
LEMMA ErrorShape ==
    ASSUME NEW c \in Cmd, NEW kind, NEW known, HandleErrorMessage(c, kind, known)
    PROVE  /\ \E e \in {"retry", "response"} : error' = [error EXCEPT ![c] = e]
           /\ \/ cache' = known
              \/ \E evicted : cache' =
                    [known EXCEPT ![NodeOf[stream[c]]] =
                        [q \in Query |-> IF q \in evicted THEN None
                                         ELSE known[NodeOf[stream[c]]][q]]]
<1> DEFINE again == PreparesAgain(c, kind)
           left == IF again THEN retries[c] + 1
                   ELSE IF ShouldRetryFor(kind) THEN retries[c] ELSE 0
           evicted == {Queries[c][i] : i \in NeedPrepare[c]}
           node == NodeOf[stream[c]]
<1>1. /\ cache' = IF again
                   THEN [known EXCEPT ![node] =
                           [q \in Query |-> IF q \in evicted THEN None ELSE known[node][q]]]
                   ELSE known
      /\ error' = [error EXCEPT ![c] = Raised(left)]
  BY Zenon DEF HandleErrorMessage
<1>2. Raised(left) \in {"retry", "response"}
  BY DEF Raised
<1> HIDE DEF again, left, evicted
<1> QED
  BY <1>1, <1>2

\* The ways an attempt ends without a result: always by an exception.
LEMMA AttemptFailsByError ==
    ASSUME NEW c \in Cmd,
           \/ \E kind, known : HandleErrorMessage(c, kind, known)
           \/ HandleUnexpected(c)
           \/ Throws(c, "network") \/ Throws(c, "unavailable")
    PROVE  \E e \in Exception \ {"none"} : error' = [error EXCEPT ![c] = e]
<1>1. CASE \E kind, known : HandleErrorMessage(c, kind, known)
  BY <1>1, ErrorShape DEF Exception
<1>2. CASE HandleUnexpected(c)
  BY <1>2 DEF HandleUnexpected, Exception
<1>3. CASE Throws(c, "network") \/ Throws(c, "unavailable")
  BY <1>3 DEF Throws, Exception
<1> QED
  BY <1>1, <1>2, <1>3

\* A step of one command leaves the ids and answers of the others alone.
LEMMA OthersKeepAnswers ==
    ASSUME TypeOK, NEW c \in Cmd, CommandStep(c), NEW d \in Cmd \ {c}
    PROVE  /\ order'[d] = order[d] /\ sent'[d] = sent[d]
           /\ results'[d] = results[d] /\ ids'[d] = ids[d]
           /\ error'[d] = error[d] /\ attempts'[d] = attempts[d]
<1>t. /\ DOMAIN order = Cmd /\ DOMAIN ids = Cmd /\ sent \in [Cmd -> Nat]
      /\ results \in [Cmd -> Seq(Reply)] /\ error \in [Cmd -> Exception]
      /\ attempts \in [Cmd -> Nat]
  BY DEF TypeOK
<1>1. CASE Call(c)
  BY <1>1, <1>t DEF Call, prepareVars
<1>2. CASE NoConnection(c) \/ SendFails(c) \/ WaitFails(c)
  <2>1. UNCHANGED <<attempts, prepareVars>>
    BY <1>2 DEF NoConnection, SendFails, WaitFails
  <2>2. \E e : error' = [error EXCEPT ![c] = e]
    BY <1>2 DEF NoConnection, SendFails, WaitFails, Throws
  <2> QED
    BY <1>t, <2>1, <2>2 DEF prepareVars
<1>3. CASE SendPrepare(c)
  BY <1>3, <1>t DEF SendPrepare, flowVars
<1>4. CASE ReceivePrepared(c)
  BY <1>4, <1>t DEF ReceivePrepared, flowVars
<1>5. CASE HandlePrepared(c)
  <2>1. UNCHANGED error \/ \E e : error' = [error EXCEPT ![c] = e]
    BY <1>5, AttemptFailsByError DEF HandlePrepared
  <2>2. NoResults(c) /\ UNCHANGED attempts /\ \E x : ids' = [ids EXCEPT ![c] = x]
    BY <1>5, Zenon DEF HandlePrepared
  <2> QED
    BY <1>t, <2>1, <2>2 DEF NoResults
<1>6. CASE SendCommand(c)
  BY <1>6, <1>t DEF SendCommand, flowVars
<1>7. CASE ReceiveResult(c)
  <2>1. \E e : error' = [error EXCEPT ![c] = e]
    BY <1>7, AttemptFailsByError DEF ReceiveResult
  <2>2. UNCHANGED <<attempts, prepareVars>>
    BY <1>7 DEF ReceiveResult
  <2> QED
    BY <1>t, <2>1, <2>2 DEF prepareVars
<1>8. CASE Determinate(c)
  BY <1>8, <1>t DEF Determinate, prepareVars
<1>9. CASE Finally(c)
  BY <1>9, <1>t DEF Finally, NoResults
<1>10. ASSUME NEW s \in Stream, GetConnection(c, s)
       PROVE  /\ order'[d] = order[d] /\ sent'[d] = sent[d]
              /\ results'[d] = results[d] /\ ids'[d] = ids[d]
              /\ error'[d] = error[d] /\ attempts'[d] = attempts[d]
  BY <1>10, <1>t DEF GetConnection, flowVars
<1> QED
  BY <1>1, <1>2, <1>3, <1>4, <1>5, <1>6, <1>7, <1>8, <1>9, <1>10 DEF CommandStep

\* The order a command sends its PREPAREs in names every missing query.
LEMMA IncreasingIsOnto ==
    ASSUME NEW S, IsFiniteSet(S), NEW p \in Increasing(S), NEW x \in S,
           S \subseteq Nat
    PROVE  \E k \in 1 .. Len(p) : p[k] = x
<1> DEFINE n == Cardinality(S)
<1>1. n \in Nat
  BY FS_CardinalityType
<1>2. p \in [1 .. n -> S] /\ \A i, j \in 1 .. n : i < j => p[i] < p[j]
  BY DEF Increasing
<1>3. Len(p) = n
  BY <1>1, <1>2
<1>4. SUFFICES ASSUME \A k \in 1 .. n : p[k] # x PROVE FALSE
  BY <1>3
<1>5. p \in [1 .. n -> S \ {x}]
  BY <1>2, <1>4
<1>6. IsFiniteSet(S \ {x}) /\ Cardinality(S \ {x}) = n - 1
  BY FS_RemoveElement
<1>7. IsFiniteSet(1 .. n) /\ Cardinality(1 .. n) = n
  BY <1>1, FS_Interval
<1> HIDE DEF n
<1>8. Cardinality(S \ {x}) < Cardinality(1 .. n)
  BY <1>1, <1>6, <1>7
<1>9. \E i, j \in 1 .. n : i # j /\ p[i] = p[j]
  <2> DEFINE D == 1 .. n
             T == S \ {x}
  <2>1. IsFiniteSet(D) /\ IsFiniteSet(T) /\ Cardinality(T) < Cardinality(D) /\ p \in [D -> T]
    BY <1>5, <1>6, <1>7, <1>8
  <2> HIDE DEF D, T
  <2>2. \E i, j \in D : i # j /\ p[i] = p[j]
    BY <2>1, FS_PigeonHole, Zenon
  <2> QED
    BY <2>2 DEF D
<1>10. \A i, j \in 1 .. n : i # j => p[i] # p[j]
  <2>1. ASSUME NEW i \in 1 .. n, NEW j \in 1 .. n, i # j PROVE p[i] # p[j]
    <3>1. i < j \/ j < i
      BY <2>1, <1>1
    <3>2. p[i] \in Nat /\ p[j] \in Nat /\ (p[i] < p[j] \/ p[j] < p[i])
      BY <1>2, <2>1, <3>1
    <3> QED
      BY <3>2
  <2> QED
    BY <2>1
<1> QED
  BY <1>9, <1>10

-----------------------------------------------------------------------------
(* Steps of a command that prepares *)

\* A new attempt lists the queries that have no id in the cache, all of them.
LEMMA GetConnectionMatches ==
    ASSUME TypeOK, CacheRight, NEW c \in Cmd, NEW s \in Stream, GetConnection(c, s)
    PROVE  /\ phase'[c] = "preparing" => Matched(c)'
           /\ phase'[c] = "sending" => IdsComplete(c)'
<1> DEFINE n == NodeOf[s]
<1>1. PICK missing \in Increasing(Missing(c, n)) :
         /\ order' = [order EXCEPT ![c] = missing]
         /\ phase' = [phase EXCEPT ![c] = IF missing = <<>> THEN "sending" ELSE "preparing"]
  BY DEF GetConnection
<1>2. /\ order'[c] = missing /\ sent'[c] = 0 /\ results'[c] = <<>>
      /\ phase'[c] = IF missing = <<>> THEN "sending" ELSE "preparing"
      /\ ids'[c] = CachedIds(c, n)
  BY <1>1 DEF GetConnection, TypeOK
<1>3. n \in Node /\ \A q \in Query : cache[n][q] \in {None, q}
  BY SessionAssumption DEF SessionAssumption, CacheRight
<1> HIDE DEF n
<1>4. missing \in Seq(Index(c))
  BY <1>3, IncreasingIsSeq
<1>5. /\ Missing(c, n) \subseteq NeedPrepare[c]
      /\ Missing(c, n) \subseteq Nat /\ IsFiniteSet(Missing(c, n))
  BY IndexFacts, FS_Subset DEF Missing
<1>6. Len(missing) \in Nat /\ \A k \in 1 .. Len(missing) : missing[k] \in Missing(c, n)
  <2>1. missing \in [1 .. Cardinality(Missing(c, n)) -> Missing(c, n)]
    BY DEF Increasing
  <2>2. Len(missing) \in Nat /\ DOMAIN missing = 1 .. Len(missing)
    BY <1>4
  <2> QED
    BY <2>1, <2>2
<1>7. \A i \in Missing(c, n) : \E k \in 1 .. Len(missing) : missing[k] = i
  BY <1>5, IncreasingIsOnto
<1>8. \A i \in Index(c) :
         \/ i \in NeedPrepare[c] /\ i \notin Missing(c, n) /\ ids'[c][i] = Queries[c][i]
         \/ /\ ids'[c][i] = None
            /\ i \in NeedPrepare[c] => i \in Missing(c, n)
  BY <1>2, <1>3, IndexFacts DEF CachedIds, Missing
<1>9. ASSUME missing # <<>> PROVE Matched(c)'
  <2>1. Listed(c)'
    BY <1>2, <1>5, <1>6, <1>7, <1>8, <1>9 DEF Listed, Index
  <2>2. ResultsMatch(c)' /\ Pipelined(c)'
    BY <1>2, <1>6 DEF ResultsMatch, Pipelined
  <2> QED
    BY <2>1, <2>2 DEF Matched
<1>10. ASSUME missing = <<>> PROVE IdsComplete(c)'
  <2>1. Len(missing) = 0
    BY <1>10
  <2>2. \A i \in Index(c) : i \notin Missing(c, n)
    BY <1>7, <2>1
  <2>3. \A i \in Index(c) : ids'[c][i] = IF i \in NeedPrepare[c] THEN Queries[c][i] ELSE None
    BY <1>8, <2>2
  <2> QED
    BY <2>3 DEF IdsComplete, Index
<1> QED
  BY <1>2, <1>9, <1>10

\* The next PREPARE is for the next query of the order.
LEMMA SendPrepareMatches ==
    ASSUME TypeOK, StreamsOwned, ChannelsMatched, NEW c \in Cmd, SendPrepare(c), Matched(c)
    PROVE  Matched(c)'
<1>1. PICK s \in Stream : s = stream[c] /\ s \in open
  BY DEF SendPrepare, TypeOK
<1>2. PICK n \in Nat, o \in Seq(Index(c)) : n = sent[c] /\ o = order[c]
  BY DEF TypeOK
<1>3. PICK got \in Nat : got = Len(results[c])
  BY DEF TypeOK
<1>4. PICK rep \in Seq(Reply), req \in Seq(Request) : rep = replies[s] /\ req = requests[s]
  BY DEF TypeOK
<1>5. PICK r : r = [kind |-> "PREPARE", cmd |-> c, uses |-> Queries[c][o[n + 1]]]
  OBVIOUS
<1>6. PICK asked : asked = Asked(c)
  OBVIOUS
<1>7. n < Len(o) /\ phase[c] = "preparing"
  BY <1>2 DEF SendPrepare
<1>8. r.kind = "PREPARE" /\ r.uses = asked[n + 1] /\ r \in Request
  <2>1. n + 1 \in 1 .. Len(o) /\ o[n + 1] \in Index(c)
    BY <1>2, <1>7, ElementOfSeq
  <2>2. asked[n + 1] = Queries[c][o[n + 1]]
    BY <1>2, <1>6, <2>1 DEF Asked
  <2> QED
    BY <1>5, <2>1, <2>2, IndexFacts DEF Request
<1>9. got + Len(rep) + Len(req) = n /\ got <= n
  <2>1. Len(req) + Len(rep) = n - got
    BY <1>1, <1>2, <1>3, <1>4, <1>7 DEF ChannelsMatched, Outstanding, Load
  <2>2. Len(rep) \in Nat /\ Len(req) \in Nat
    OBVIOUS
  <2> QED
    BY <2>1, <2>2
<1>10. InOrder(asked, n, got, rep, req)
  <2>1. CASE n > 0
    BY <2>1, <1>1, <1>2, <1>3, <1>4, <1>6 DEF Matched, Pipelined
  <2>2. CASE n = 0
    <3>1. /\ Len(rep) \in Nat /\ Len(req) \in Nat
      OBVIOUS
    <3>2. Len(rep) = 0 /\ Len(req) = 0
      BY <1>9, <2>2, <3>1
    <3> QED
      BY <1>9, <3>2 DEF InOrder
  <2> QED
    BY <2>1, <2>2
<1>11. InOrder(asked, n + 1, got, rep, Append(req, r))
  BY <1>8, <1>9, <1>10, SendInOrder
<1>12. /\ sent'[c] = n + 1 /\ requests'[s] = Append(req, r) /\ replies'[s] = rep
       /\ stream'[c] = s /\ order' = order /\ results' = results /\ ids' = ids
  <2>1. requests' = [requests EXCEPT ![s] = Append(req, r)]
    BY <1>1, <1>2, <1>4, <1>5 DEF SendPrepare
  <2> QED
    BY <2>1, <1>1, <1>2, <1>4 DEF SendPrepare, TypeOK
<1>13. Asked(c)' = asked
  BY <1>6, <1>12 DEF Asked
<1>14. Listed(c)'
  BY <1>12 DEF Matched, Listed, Index
<1>15. ResultsMatch(c)'
  <2>1. sent'[c] <= Len(order'[c]) /\ Len(results'[c]) <= sent'[c]
    BY <1>2, <1>3, <1>7, <1>9, <1>12
  <2> QED
    BY <2>1, <1>6, <1>12, <1>13 DEF Matched, ResultsMatch
<1>16. Pipelined(c)'
  BY <1>3, <1>11, <1>12, <1>13 DEF Pipelined
<1> QED
  BY <1>14, <1>15, <1>16 DEF Matched

\* A response is matched with the PREPARE of its position.
LEMMA ReceivePreparedMatches ==
    ASSUME TypeOK, StreamsOwned, NEW c \in Cmd, ReceivePrepared(c), Matched(c)
    PROVE  Matched(c)'
<1>1. PICK s \in Stream : s = stream[c]
  BY DEF ReceivePrepared, StreamsOwned
<1>2. PICK n \in Nat, o \in Seq(Index(c)) : n = sent[c] /\ o = order[c]
  BY DEF TypeOK
<1>3. PICK res \in Seq(Reply) : res = results[c]
  BY DEF TypeOK
<1>4. PICK rep \in Seq(Reply), req \in Seq(Request) : rep = replies[s] /\ req = requests[s]
  BY DEF TypeOK
<1>5. PICK asked : asked = Asked(c)
  OBVIOUS
<1>6. n = Len(o) /\ rep # <<>> /\ n > 0
  <2>1. o # <<>>
    BY <1>2 DEF Matched, Listed
  <2>2. Len(o) \in Nat /\ Len(o) # 0
    BY <2>1
  <2> QED
    BY <2>2, <1>1, <1>2, <1>4 DEF ReceivePrepared
<1>7. InOrder(asked, n, Len(res), rep, req)
  BY <1>1, <1>2, <1>3, <1>4, <1>5, <1>6 DEF Matched, Pipelined
<1>8. PICK h \in Reply, more \in Seq(Reply) : h = Head(rep) /\ more = Tail(rep)
  <2>1. Head(rep) \in Reply /\ Tail(rep) \in Seq(Reply)
    BY <1>6
  <2> QED
    BY <2>1
<1>9. /\ InOrder(asked, n, Len(res) + 1, more, req)
      /\ Len(res) + 1 <= n
      /\ h.kind = "Prepared" => h.id = asked[Len(res) + 1]
  <2>1. PICK got \in Nat : got = Len(res)
    OBVIOUS
  <2>2. /\ InOrder(asked, n, got + 1, Tail(rep), req)
        /\ got + 1 <= n
        /\ Head(rep).kind = "Prepared" => Head(rep).id = asked[got + 1]
    <3>1. InOrder(asked, n, got, rep, req) /\ rep # <<>>
      BY <2>1, <1>6, <1>7
    <3>2. InOrder(asked, n, got + 1, Tail(rep), req)
      BY <3>1, ReceiveInOrder
    <3>3. got + 1 <= n
      BY <3>1, ReceiveInOrder
    <3>4. Head(rep).kind = "Prepared" => Head(rep).id = asked[got + 1]
      BY <3>1, ReceiveInOrder
    <3> QED
      BY <3>2, <3>3, <3>4
  <2> QED
    BY <2>1, <2>2, <1>8
<1>10. PICK new \in Seq(Reply) : new = Append(res, h)
  <2>1. Append(res, h) \in Seq(Reply)
    OBVIOUS
  <2> QED
    BY <2>1
<1>11. /\ results'[c] = new /\ replies'[s] = more
       /\ requests'[s] = req /\ stream'[c] = s /\ order' = order /\ sent' = sent /\ ids' = ids
  <2>1. /\ results' = [results EXCEPT ![c] = new]
        /\ replies' = [replies EXCEPT ![s] = more]
    BY <1>1, <1>3, <1>4, <1>8, <1>10 DEF ReceivePrepared
  <2> QED
    BY <2>1, <1>1, <1>4 DEF ReceivePrepared, TypeOK
<1>12. Asked(c)' = asked
  BY <1>5, <1>11 DEF Asked
<1>13. /\ Len(new) = Len(res) + 1 /\ Len(res) \in Nat
       /\ \A k \in 1 .. Len(new) : new[k] = IF k = Len(res) + 1 THEN h ELSE res[k]
  BY <1>10
<1>14. Listed(c)'
  BY <1>11 DEF Matched, Listed, Index
<1>15. ResultsMatch(c)'
  <2>1. \A k \in 1 .. Len(res) : res[k].kind = "Prepared" => res[k].id = asked[k]
    BY <1>3, <1>5 DEF Matched, ResultsMatch
  <2>2. \A k \in 1 .. Len(new) : new[k].kind = "Prepared" => new[k].id = asked[k]
    <3> SUFFICES ASSUME NEW k \in 1 .. Len(new), new[k].kind = "Prepared"
                 PROVE  new[k].id = asked[k]
      OBVIOUS
    <3>1. k = Len(res) + 1 \/ k \in 1 .. Len(res)
      BY <1>13
    <3> QED
      BY <3>1, <2>1, <1>9, <1>13
  <2>3. sent'[c] = n /\ Len(order'[c]) = n
    BY <1>2, <1>6, <1>11
  <2>4. sent'[c] <= Len(order'[c]) /\ Len(results'[c]) <= sent'[c]
    BY <2>3, <1>9, <1>11, <1>13
  <2> QED
    BY <2>2, <2>4, <1>11, <1>12 DEF ResultsMatch
<1>16. Pipelined(c)'
  BY <1>2, <1>9, <1>11, <1>12, <1>13 DEF Pipelined
<1> QED
  BY <1>14, <1>15, <1>16 DEF Matched

\* A non-empty set of positions has a least one.
LEMMA LeastExists ==
    ASSUME NEW S, S \subseteq Nat, S # {}
    PROVE  \E n \in S : \A m \in S : n <= m
<1>1. PICK n \in S : \A m \in S : ~(<<m, n>> \in OpToRel(<, Nat))
  BY NatLessThanWellFounded, WFMin
<1>2. \A m \in S : ~(m < n)
  BY <1>1 DEF OpToRel
<1> QED
  BY <1>2

\* Without a bad response all are prepared ids.
LEMMA NoneBadAllPrepared ==
    ASSUME TypeOK, NEW c \in Cmd, \A k \in DOMAIN results[c] : ~Bad(c, k)
    PROVE  \A k \in DOMAIN results[c] : results[c][k].kind = "Prepared"
<1> DEFINE S == {k \in DOMAIN results[c] : results[c][k].kind # "Prepared"}
<1> SUFFICES ASSUME S # {} PROVE FALSE
  OBVIOUS
<1>1. results[c] \in Seq(Reply)
  BY DEF TypeOK
<1>2. DOMAIN results[c] = 1 .. Len(results[c]) /\ Len(results[c]) \in Nat
  BY <1>1
<1>3. PICK k \in S : \A m \in S : k <= m
  <2>1. S \subseteq Nat /\ S # {}
    BY <1>2
  <2> HIDE DEF S
  <2> QED
    BY <2>1, LeastExists
<1>4. \A j \in 1 .. k - 1 : results[c][j].kind = "Prepared"
  BY <1>2, <1>3
<1> QED
  BY <1>3, <1>4 DEF Bad

\* Evicting ids puts none in the cache.
LEMMA ErrorKeepsCacheRight ==
    ASSUME NEW c \in Cmd, stream[c] \in Stream, NEW kind, NEW known,
           known \in [Node -> [Query -> Query \cup {None}]],
           \A n \in Node, q \in Query : known[n][q] \in {None, q},
           HandleErrorMessage(c, kind, known)
    PROVE  CacheRight'
<1> DEFINE node == NodeOf[stream[c]]
<1>1. node \in Node
  BY SessionAssumption DEF SessionAssumption
<1>2. CASE cache' = known
  BY <1>2 DEF CacheRight
<1>3. ASSUME NEW evicted,
             cache' = [known EXCEPT ![node] =
                          [q \in Query |-> IF q \in evicted THEN None ELSE known[node][q]]]
      PROVE  CacheRight'
  <2> HIDE DEF node
  <2>1. \A n \in Node, q \in Query : cache'[n][q] \in {None, known[n][q]}
    BY <1>1, <1>3
  <2> QED
    BY <2>1 DEF CacheRight
<1>4. \/ cache' = known
      \/ \E evicted : cache' = [known EXCEPT ![node] =
            [q \in Query |-> IF q \in evicted THEN None ELSE known[node][q]]]
  BY ErrorShape, Zenon
<1> HIDE DEF node
<1> QED
  BY <1>2, <1>3, <1>4, Zenon

\* The stored responses give each query its own id: in the cache, and in the
\* message, which is complete when no response is bad.
LEMMA HandlePreparedMatches ==
    ASSUME TypeOK, StreamsOwned, CacheRight, NEW c \in Cmd, HandlePrepared(c), Matched(c)
    PROVE  /\ CacheRight'
           /\ (phase'[c] = "sending" /\ IdsComplete(c)') \/ phase'[c] = "failed"
<1> DEFINE node == NodeOf[stream[c]]
           bad == {k \in DOMAIN results[c] : Bad(c, k)}
           stored == {k \in DOMAIN results[c] :
                         \A j \in 1 .. k : results[c][j].kind = "Prepared"}
           For(q) == {k \in stored : Queries[c][QueryIndex(c, k)] = q}
           At(i) == {k \in stored : QueryIndex(c, k) = i}
           Id(k) == results[c][k].id
           known == [cache EXCEPT ![node] =
               [q \in Query |-> IF For(q) = {} THEN cache[node][q]
                                ELSE Id(CHOOSE k \in For(q) : TRUE)]]
           newIds == [i \in Index(c) |-> IF At(i) = {} THEN ids[c][i]
                                         ELSE Id(CHOOSE k \in At(i) : TRUE)]
<1>1. /\ ids' = [ids EXCEPT ![c] = newIds]
      /\ \/ /\ bad = {}
            /\ cache' = known
            /\ phase' = [phase EXCEPT ![c] = "sending"]
            /\ UNCHANGED <<retries, unprepared, error>>
         \/ \E k \in bad : HandleErrorMessage(c, results[c][k].kind, known)
         \/ HandleUnexpected(c) /\ cache' = known
  BY Zenon DEF HandlePrepared
<1>2. /\ phase[c] = "preparing" /\ Len(results[c]) = Len(order[c])
  BY DEF HandlePrepared, AllReceived
<1>3. stream[c] \in Stream /\ node \in Node
  BY <1>2, SessionAssumption DEF StreamsOwned, SessionAssumption
<1>4. /\ DOMAIN results[c] = 1 .. Len(results[c]) /\ Len(results[c]) \in Nat
      /\ cache \in [Node -> [Query -> Query \cup {None}]]
  <2>1. results[c] \in Seq(Reply)
    BY DEF TypeOK
  <2>2. cache \in [Node -> [Query -> Query \cup {None}]]
    BY DEF TypeOK
  <2> QED
    BY <2>1, <2>2
<1>5. \A k \in stored : Id(k) = Queries[c][QueryIndex(c, k)]
  <2> SUFFICES ASSUME NEW k \in stored PROVE Id(k) = Queries[c][QueryIndex(c, k)]
    OBVIOUS
  <2>1. k \in 1 .. Len(results[c]) /\ results[c][k].kind = "Prepared"
    BY <1>4
  <2>2. results[c][k].id = Asked(c)[k]
    BY <2>1 DEF Matched, ResultsMatch
  <2>3. Asked(c)[k] = Queries[c][order[c][k]]
    BY <1>2, <2>1 DEF Asked
  <2> QED
    BY <2>2, <2>3 DEF QueryIndex
<1>6. \A q \in Query : For(q) # {} => Id(CHOOSE k \in For(q) : TRUE) = q
  <2>1. \A q \in Query : For(q) # {} => (CHOOSE k \in For(q) : TRUE) \in For(q)
    OBVIOUS
  <2>2. \A q : \A k \in For(q) : Id(k) = q
    BY <1>5
  <2> HIDE DEF For, Id
  <2> QED
    BY <2>1, <2>2
<1>7. /\ known \in [Node -> [Query -> Query \cup {None}]]
      /\ \A n \in Node, q \in Query : known[n][q] \in {None, q}
  <2> DEFINE row == [q \in Query |-> IF For(q) = {} THEN cache[node][q]
                                     ELSE Id(CHOOSE k \in For(q) : TRUE)]
  <2> HIDE DEF For, Id, node
  <2>1. \A n \in Node, q \in Query : cache[n][q] \in {None, q}
    BY DEF CacheRight
  <2>2. \A q \in Query : row[q] \in {None, q}
    BY <1>3, <1>6, <2>1
  <2>3. row \in [Query -> Query \cup {None}]
    <3>1. \A q \in Query : row[q] \in Query \cup {None}
      BY <2>2
    <3> QED
      BY <3>1
  <2> HIDE DEF row
  <2>4. [cache EXCEPT ![node] = row] \in [Node -> [Query -> Query \cup {None}]]
    BY <1>3, <1>4, <2>3
  <2>5. \A n \in Node, q \in Query : [cache EXCEPT ![node] = row][n][q] \in {None, q}
    BY <1>3, <1>4, <2>1, <2>2
  <2> QED
    BY <2>4, <2>5 DEF row
<1>8. CacheRight'
  <2> HIDE DEF known
  <2>1. CASE cache' = known
    BY <2>1, <1>7 DEF CacheRight
  <2>2. ASSUME NEW k \in bad, HandleErrorMessage(c, results[c][k].kind, known)
        PROVE  CacheRight'
    BY <2>2, <1>3, <1>7, ErrorKeepsCacheRight
  <2> HIDE DEF bad
  <2> QED
    BY <1>1, <2>1, <2>2
<1>9. ASSUME bad = {} PROVE IdsComplete(c)'
  <2>1. stored = 1 .. Len(order[c])
    <3>1. \A k \in DOMAIN results[c] : results[c][k].kind = "Prepared"
      BY <1>9, NoneBadAllPrepared
    <3> QED
      BY <3>1, <1>2, <1>4
  <2>2. ASSUME NEW i \in Index(c)
        PROVE  newIds[i] = IF i \in NeedPrepare[c] THEN Queries[c][i] ELSE None
    <3>1. CASE At(i) = {}
      <4>1. newIds[i] = ids[c][i]
        BY <3>1
      <4>2. \A k \in 1 .. Len(order[c]) : order[c][k] # i
        BY <2>1, <3>1 DEF QueryIndex
      <4> QED
        BY <4>1, <4>2 DEF Matched, Listed
    <3>2. CASE At(i) # {}
      <4>1. PICK k \in At(i) : newIds[i] = Id(k)
        BY <3>2
      <4>2. k \in stored /\ order[c][k] = i
        BY <4>1 DEF QueryIndex
      <4>3. i \in NeedPrepare[c] /\ Id(k) = Queries[c][i]
        BY <2>1, <4>2, <1>5 DEF QueryIndex, Matched, Listed
      <4> QED
        BY <4>1, <4>3
    <3> QED
      BY <3>1, <3>2
  <2>3. ids'[c] = newIds
    BY <1>1 DEF TypeOK
  <2> HIDE DEF newIds
  <2> QED
    BY <2>2, <2>3 DEF IdsComplete, Index
<1>10. (phase'[c] = "sending" /\ bad = {}) \/ phase'[c] = "failed"
  <2> HIDE DEF bad, known
  <2>1. phase \in [Cmd -> Phase]
    BY DEF TypeOK
  <2> QED
    BY <2>1, <1>1, AttemptFails
<1> QED
  BY <1>8, <1>9, <1>10

-----------------------------------------------------------------------------
(* The ids are right *)

\* The steps of a command that neither prepares nor is about to send.
LEMMA OtherPhases ==
    ASSUME TypeOK, NEW c \in Cmd,
           \/ Call(c) \/ NoConnection(c) \/ SendFails(c) \/ WaitFails(c)
           \/ SendCommand(c) \/ ReceiveResult(c) \/ Determinate(c) \/ Finally(c)
    PROVE  phase'[c] \notin {"preparing", "sending"}
<1>t. phase \in [Cmd -> Phase]
  BY DEF TypeOK
<1>1. CASE Call(c)
  BY <1>1, <1>t DEF Call
<1>2. CASE NoConnection(c) \/ SendFails(c) \/ WaitFails(c)
  BY <1>2, <1>t, AttemptFails DEF NoConnection, SendFails, WaitFails
<1>3. CASE SendCommand(c)
  BY <1>3, <1>t DEF SendCommand
<1>4. CASE ReceiveResult(c)
  BY <1>4, <1>t, AttemptFails DEF ReceiveResult
<1>5. CASE Determinate(c)
  BY <1>5, <1>t DEF Determinate
<1>6. CASE Finally(c)
  BY <1>6, <1>t DEF Finally
<1> QED
  BY <1>1, <1>2, <1>3, <1>4, <1>5, <1>6

LEMMA CacheOfCommand ==
    ASSUME TypeOK, StreamsOwned, IdsInv, NEW c \in Cmd, CommandStep(c)
    PROVE  CacheRight'
<1>1. CASE cache' = cache
  BY <1>1 DEF IdsInv, CacheRight
<1>2. CASE HandlePrepared(c)
  BY <1>2, HandlePreparedMatches DEF IdsInv, PreparesMatched, HandlePrepared
<1>3. ASSUME NEW kind, HandleErrorMessage(c, kind, cache), phase[c] = "waiting"
      PROVE  CacheRight'
  <2>1. cache \in [Node -> [Query -> Query \cup {None}]] /\ stream[c] \in Stream
    BY <1>3 DEF TypeOK, StreamsOwned
  <2>2. \A n \in Node, q \in Query : cache[n][q] \in {None, q}
    BY DEF IdsInv, CacheRight
  <2> QED
    BY <1>3, <2>1, <2>2, ErrorKeepsCacheRight
<1>4. \/ cache' = cache \/ HandlePrepared(c)
      \/ \E kind : HandleErrorMessage(c, kind, cache) /\ phase[c] = "waiting"
  BY DEF CommandStep, Call, NoConnection, SendFails, WaitFails, SendPrepare, ReceivePrepared,
         SendCommand, ReceiveResult, Determinate, Finally, GetConnection
<1> QED
  BY <1>1, <1>2, <1>3, <1>4

LEMMA IdsOfCommand ==
    ASSUME TypeOK, StreamsOwned, ChannelsMatched, IdsInv, NEW c \in Cmd, CommandStep(c)
    PROVE  IdsInv'
<1>1. CacheRight'
  BY CacheOfCommand
<1>2. ASSUME NEW d \in Cmd \ {c}
      PROVE  /\ phase'[d] = "preparing" => Matched(d)'
             /\ phase'[d] = "sending" => IdsComplete(d)'
  <2>1. /\ phase'[d] = phase[d] /\ stream'[d] = stream[d]
        /\ stream[d] \in Stream => /\ requests'[stream[d]] = requests[stream[d]]
                                   /\ replies'[stream[d]] = replies[stream[d]]
        /\ order'[d] = order[d] /\ sent'[d] = sent[d]
        /\ results'[d] = results[d] /\ ids'[d] = ids[d]
    BY OthersKept, OthersKeepAnswers
  <2>2. ASSUME phase[d] = "preparing" PROVE Matched(d)'
    <3>1. Matched(d) /\ stream[d] \in Stream
      BY <2>2 DEF IdsInv, PreparesMatched, StreamsOwned
    <3>2. Asked(d)' = Asked(d)
      BY <2>1 DEF Asked
    <3>3. Listed(d)'
      BY <2>1, <3>1 DEF Matched, Listed, Index
    <3>4. ResultsMatch(d)'
      BY <2>1, <3>1, <3>2 DEF Matched, ResultsMatch
    <3>5. Pipelined(d)'
      BY <2>1, <3>1, <3>2 DEF Matched, Pipelined
    <3> QED
      BY <3>3, <3>4, <3>5 DEF Matched
  <2>3. ASSUME phase[d] = "sending" PROVE IdsComplete(d)'
    BY <2>1, <2>3 DEF IdsInv, MessagesComplete, IdsComplete, Index
  <2> QED
    BY <2>1, <2>2, <2>3
<1>3. /\ phase'[c] = "preparing" => Matched(c)'
      /\ phase'[c] = "sending" => IdsComplete(c)'
  <2>1. phase[c] = "preparing" => Matched(c)
    BY DEF IdsInv, PreparesMatched
  <2>2. CASE SendPrepare(c)
    <3>1. phase[c] = "preparing" /\ phase' = phase
      BY <2>2 DEF SendPrepare
    <3> QED
      BY <2>1, <2>2, <3>1, SendPrepareMatches
  <2>3. CASE ReceivePrepared(c)
    <3>1. phase[c] = "preparing" /\ phase' = phase
      BY <2>3 DEF ReceivePrepared
    <3> QED
      BY <2>1, <2>3, <3>1, ReceivePreparedMatches
  <2>4. CASE HandlePrepared(c)
    <3>1. phase[c] = "preparing" /\ CacheRight
      BY <2>4 DEF HandlePrepared, IdsInv
    <3> QED
      BY <2>1, <2>4, <3>1, HandlePreparedMatches
  <2>5. ASSUME NEW s \in Stream, GetConnection(c, s)
        PROVE  /\ phase'[c] = "preparing" => Matched(c)'
               /\ phase'[c] = "sending" => IdsComplete(c)'
    BY <2>5, GetConnectionMatches DEF IdsInv
  <2>6. CASE \/ Call(c) \/ NoConnection(c) \/ SendFails(c) \/ WaitFails(c)
             \/ SendCommand(c) \/ ReceiveResult(c) \/ Determinate(c) \/ Finally(c)
    BY <2>6, OtherPhases
  <2> QED
    BY <2>2, <2>3, <2>4, <2>5, <2>6 DEF CommandStep
<1>4. PreparesMatched' /\ MessagesComplete'
  BY <1>2, <1>3 DEF PreparesMatched, MessagesComplete
<1> QED
  BY <1>1, <1>4 DEF IdsInv

\* A prepared id is the one of the request it answers.
LEMMA AnswerShape ==
    ASSUME TypeOK, NEW s \in Stream, ServerAnswers(s)
    PROVE  \E reply \in Reply :
              /\ Answer(NodeOf[s], Head(requests[s]), reply.kind)
              /\ replies' = [replies EXCEPT ![s] = Append(replies[s], reply)]
              /\ reply.kind = "Prepared" => reply.id = Head(requests[s]).uses
<1>1. PICK kind \in {"Prepared", "Result", "Other"} \cup ErrorReply :
         /\ Answer(NodeOf[s], Head(requests[s]), kind)
         /\ replies' = [replies EXCEPT ![s] =
               Append(replies[s], [kind |-> kind,
                                   id |-> IF kind = "Prepared" THEN Head(requests[s]).uses
                                          ELSE None])]
  BY DEF ServerAnswers
<1>2. PICK r : r = [kind |-> kind,
                    id |-> IF kind = "Prepared" THEN Head(requests[s]).uses ELSE None]
  OBVIOUS
<1>3. r.kind = kind /\ (kind = "Prepared" => r.id = Head(requests[s]).uses)
  BY <1>2
<1>4. r \in Reply
  <2>1. Head(requests[s]) \in Request
    BY ServerAnswersShape
  <2>2. kind = "Prepared" => Head(requests[s]).kind = "PREPARE"
    BY <1>1 DEF Answer
  <2>3. kind = "Prepared" => Head(requests[s]).uses \in Query
    BY <2>1, <2>2 DEF Request
  <2> QED
    BY <1>2, <2>3 DEF Reply
<1> QED
  BY <1>1, <1>2, <1>3, <1>4

\* What servers and the network do to the stream of a command that prepares.
LEMMA IdsOfChannel ==
    ASSUME TypeOK, StreamsOwned, IdsInv, NEW s \in Stream,
           ServerAnswers(s) \/ ConnectionLost(s)
    PROVE  IdsInv'
<1>1. UNCHANGED <<phase, stream, prepareVars, cache>>
  BY ServerAnswersShape DEF ConnectionLost
<1>2. CacheRight' /\ MessagesComplete'
  <2>1. cache' = cache /\ phase' = phase /\ ids' = ids
    BY <1>1 DEF prepareVars
  <2> QED
    BY <2>1 DEF IdsInv, CacheRight, MessagesComplete, IdsComplete, Index
<1>3. PreparesMatched'
  <2> SUFFICES ASSUME NEW c \in Cmd, phase'[c] = "preparing" PROVE Matched(c)'
    BY DEF PreparesMatched
  <2>1. /\ phase[c] = "preparing" /\ stream' = stream
        /\ order' = order /\ sent' = sent /\ results' = results /\ ids' = ids
    BY <1>1 DEF prepareVars
  <2>2. Matched(c) /\ stream[c] \in Stream
    BY <2>1 DEF IdsInv, PreparesMatched, StreamsOwned
  <2>3. Asked(c)' = Asked(c) /\ Listed(c)'
    BY <2>1, <2>2 DEF Asked, Matched, Listed, Index
  <2>4. ResultsMatch(c)'
    BY <2>1, <2>2, <2>3 DEF Matched, ResultsMatch
  <2>5. Pipelined(c)'
    <3>1. PICK n \in Nat, got \in Nat : n = sent[c] /\ got = Len(results[c])
      BY DEF TypeOK
    <3>2. PICK asked : asked = Asked(c)
      OBVIOUS
    <3>3. PICK t \in Stream : t = stream[c]
      BY <2>2
    <3>4. PICK rep \in Seq(Reply), req \in Seq(Request) : rep = replies[t] /\ req = requests[t]
      BY DEF TypeOK
    <3>5. n > 0 => InOrder(asked, n, got, rep, req)
      BY <2>2, <3>1, <3>2, <3>3, <3>4 DEF Matched, Pipelined
    <3>6. n > 0 => InOrder(asked, n, got, replies'[t], requests'[t])
      <4> SUFFICES ASSUME n > 0 PROVE InOrder(asked, n, got, replies'[t], requests'[t])
        OBVIOUS
      <4>1. CASE ServerAnswers(s) /\ t = s
        <5>1. PICK reply \in Reply :
                 /\ replies' = [replies EXCEPT ![s] = Append(replies[s], reply)]
                 /\ reply.kind = "Prepared" => reply.id = Head(requests[s]).uses
          BY <4>1, AnswerShape
        <5>2. /\ requests[s] # <<>>
              /\ requests' = [requests EXCEPT ![s] = Tail(requests[s])]
          BY <4>1, ServerAnswersShape
        <5>3. req # <<>> /\ (reply.kind = "Prepared" => reply.id = Head(req).uses)
          BY <3>4, <4>1, <5>1, <5>2
        <5>4. replies'[t] = Append(rep, reply) /\ requests'[t] = Tail(req)
          BY <3>4, <4>1, <5>1, <5>2 DEF TypeOK
        <5>5. InOrder(asked, n, got, Append(rep, reply), Tail(req))
          BY <3>5, <5>3, AnswerInOrder
        <5> QED
          BY <5>4, <5>5
      <4>2. CASE ConnectionLost(s) /\ t = s
        <5>1. PICK m \in 0 .. Len(replies[s]) :
                 /\ replies' = [replies EXCEPT ![s] = SubSeq(replies[s], 1, m)]
                 /\ requests' = [requests EXCEPT ![s] = <<>>]
          BY <4>2 DEF ConnectionLost
        <5>2. /\ replies'[t] = SubSeq(rep, 1, m) /\ requests'[t] = <<>>
              /\ m \in 0 .. Len(rep)
          BY <3>4, <4>2, <5>1 DEF TypeOK
        <5>3. InOrder(asked, n, got, SubSeq(rep, 1, m), <<>>)
          BY <3>5, <5>2, LostInOrder
        <5> QED
          BY <5>2, <5>3
      <4>3. CASE t # s
        <5>1. replies'[t] = rep /\ requests'[t] = req
          BY <3>4, <4>3, ServerAnswersShape DEF ConnectionLost, TypeOK
        <5> QED
          BY <3>5, <5>1
      <4> QED
        BY <4>1, <4>2, <4>3
    <3>7. /\ sent'[c] = n /\ Len(results'[c]) = got /\ stream'[c] = t /\ Asked(c)' = asked
      BY <2>1, <2>3, <3>1, <3>2, <3>3
    <3> QED
      BY <3>6, <3>7 DEF Pipelined
  <2> QED
    BY <2>3, <2>4, <2>5 DEF Matched
<1> QED
  BY <1>2, <1>3 DEF IdsInv

LEMMA IdsOtherwise ==
    ASSUME IdsInv, UNCHANGED <<phase, stream, prepareVars, cache, requests, replies>>
    PROVE  IdsInv'
<1>1. \A c \in Cmd : Matched(c)' = Matched(c)
  BY DEF Matched, Listed, ResultsMatch, Pipelined, Asked, Index, prepareVars
<1>2. \A c \in Cmd : IdsComplete(c)' = IdsComplete(c)
  BY DEF IdsComplete, Index, prepareVars
<1> QED
  BY <1>1, <1>2 DEF IdsInv, CacheRight, PreparesMatched, MessagesComplete

LEMMA IdsInit == Init => IdsInv
<1> SUFFICES ASSUME Init PROVE IdsInv
  OBVIOUS
<1>1. \A c \in Cmd : phase[c] = "new"
  BY DEF Init
<1>2. CacheRight
  BY DEF Init, CacheRight
<1> QED
  BY <1>1, <1>2 DEF IdsInv, PreparesMatched, MessagesComplete

LEMMA IdsStep == IInv /\ IdsInv /\ [Next]_vars => IdsInv'
<1> SUFFICES ASSUME IInv, IdsInv, [Next]_vars PROVE IdsInv'
  OBVIOUS
<1>1. TypeOK /\ StreamsOwned /\ ChannelsMatched
  BY DEF IInv
<1>2. ASSUME NEW c \in Cmd, CommandStep(c) PROVE IdsInv'
  BY <1>1, <1>2, IdsOfCommand
<1>3. ASSUME NEW s \in Stream, ServerAnswers(s) \/ ConnectionLost(s) PROVE IdsInv'
  BY <1>1, <1>3, IdsOfChannel
<1>4. ASSUME NEW n \in Node, NEW q \in Query, ServerForgets(n, q) PROVE IdsInv'
  <2>1. UNCHANGED <<phase, stream, prepareVars, cache, requests, replies>>
    BY <1>4 DEF ServerForgets, channelVars
  <2> QED
    BY <2>1, IdsOtherwise
<1>5. CASE UNCHANGED vars
  <2>1. UNCHANGED <<phase, stream, prepareVars, cache, requests, replies>>
    BY <1>5 DEF vars, channelVars
  <2> QED
    BY <2>1, IdsOtherwise
<1> QED
  BY <1>2, <1>3, <1>4, <1>5 DEF Next

\* Responses of pipelined PREPAREs are matched to queries by their order alone,
\* and prepareQueries stores each id in the cache and in the message for its own
\* query; no EXECUTE or BATCH is made without the id of a query that needs one.
THEOREM IdsAreRight == Spec => []RightIds
<1>1. IdsInv => RightIds
  BY DEF IdsInv, CacheRight, MessagesComplete, IdsComplete, RightIds
<1>2. Init /\ [][Next]_vars => [](IInv /\ IdsInv)
  BY InitInv, StepInv, IdsInit, IdsStep, PTL
<1> QED
  BY <1>1, <1>2, PTL DEF Spec

-----------------------------------------------------------------------------
(* Success means executed *)

\* What is on the stream of a waiting command: its own QUERY, EXECUTE or BATCH,
\* or the answer to it, which is a RESULT only if it has been executed.
OwnAnswer(c) ==
    /\ \A k \in 1 .. Len(requests[stream[c]]) :
          requests[stream[c]][k].kind = "RUN" /\ requests[stream[c]][k].cmd = c
    /\ \A k \in 1 .. Len(replies[stream[c]]) :
          /\ replies[stream[c]][k].kind # "Prepared"
          /\ replies[stream[c]][k].kind = "Result" => executed[c] > 0

AnswersOwned == \A c \in Cmd : phase[c] = "waiting" => OwnAnswer(c)

\* How an attempt ended is remembered until the command is done.
Outcome(c) ==
    /\ phase[c] = "new" => attempts[c] = 0
    /\ phase[c] \in {"failed", "throwing"} => error[c] # "none"
    /\ phase[c] = "succeeded" => executed[c] > 0
    /\ phase[c] = "done" /\ error[c] = "none" /\ attempts[c] > 0 => executed[c] > 0

AnswersInv == AnswersOwned /\ \A c \in Cmd : Outcome(c)

LEMMA CommandsDoNotExecute ==
    ASSUME NEW c \in Cmd, CommandStep(c)
    PROVE  executed' = executed
BY DEF CommandStep, Call, NoConnection, SendFails, WaitFails, SendPrepare, ReceivePrepared,
       HandlePrepared, SendCommand, ReceiveResult, Determinate, Finally, GetConnection,
       serverVars

\* The command is sent on a stream with nothing on it.
LEMMA SendCommandOwned ==
    ASSUME TypeOK, StreamsOwned, ChannelsMatched, NEW c \in Cmd, SendCommand(c)
    PROVE  OwnAnswer(c)' /\ phase'[c] = "waiting"
<1>1. PICK s \in Stream : s = stream[c] /\ s \in open /\ phase[c] = "sending"
  BY DEF SendCommand, TypeOK
<1>2. requests[s] = <<>> /\ replies[s] = <<>>
  <2>1. Load(s) = 0
    BY <1>1 DEF ChannelsMatched, Outstanding
  <2>2. /\ Len(requests[s]) \in Nat /\ Len(replies[s]) \in Nat
        /\ Len(requests[s]) + Len(replies[s]) = 0
    BY <2>1, LoadFacts DEF Load
  <2>3. \A m, k \in Nat : m + k = 0 => m = 0 /\ k = 0
    OBVIOUS
  <2>4. Len(requests[s]) = 0 /\ Len(replies[s]) = 0
    BY <2>2, <2>3
  <2> QED
    BY <2>4, LoadFacts
<1>3. PICK r \in Request :
         /\ r.kind = "RUN" /\ r.cmd = c
         /\ requests' = [requests EXCEPT ![s] = Append(requests[s], r)]
  <2>1. [kind |-> "RUN", cmd |-> c, uses |-> {ids[c][i] : i \in Index(c)} \ {None}] \in Request
    BY DEF Request, TypeOK
  <2> QED
    BY <1>1, <2>1 DEF SendCommand
<1>4. requests'[s] = <<r>> /\ replies'[s] = <<>> /\ stream'[c] = s
  <2>1. requests'[s] = Append(<<>>, r)
    BY <1>2, <1>3 DEF TypeOK
  <2> QED
    BY <2>1, <1>1, <1>2 DEF SendCommand
<1>5. Len(requests'[s]) = 1 /\ requests'[s][1] = r /\ Len(replies'[s]) = 0
  BY <1>4
<1>6. phase'[c] = "waiting"
  BY DEF SendCommand, TypeOK
<1> QED
  BY <1>3, <1>4, <1>5, <1>6 DEF OwnAnswer

\* Only a RESULT to the command itself is taken for success.
LEMMA ReceiveResultOutcome ==
    ASSUME TypeOK, StreamsOwned, NEW c \in Cmd, OwnAnswer(c), ReceiveResult(c)
    PROVE  \/ phase'[c] = "succeeded" /\ executed[c] > 0
           \/ phase'[c] = "failed" /\ error'[c] # "none"
<1>1. PICK s \in Stream : s = stream[c]
  BY DEF ReceiveResult, StreamsOwned
<1>2. PICK rep \in Seq(Reply) : rep = replies[s] /\ rep # <<>>
  BY <1>1 DEF TypeOK, ReceiveResult
<1>3. 1 \in 1 .. Len(rep) /\ Head(rep) = rep[1]
  BY <1>2, EmptySeq
<1>4. Head(rep).kind # "Prepared" /\ (Head(rep).kind = "Result" => executed[c] > 0)
  BY <1>1, <1>2, <1>3 DEF OwnAnswer
<1>5. \/ Head(rep).kind \in {"Result", "Prepared"} /\ phase' = [phase EXCEPT ![c] = "succeeded"]
      \/ HandleErrorMessage(c, Head(rep).kind, cache)
      \/ HandleUnexpected(c)
  BY <1>1, <1>2, Zenon DEF ReceiveResult
<1>6. /\ phase \in [Cmd -> Phase] /\ error \in [Cmd -> Exception]
  BY DEF TypeOK
<1> QED
  BY <1>4, <1>5, <1>6, AttemptFails, AttemptFailsByError

\* How the steps of a command change what is said of its outcome.
LEMMA OutcomeOfCommand ==
    ASSUME TypeOK, StreamsOwned, NEW c \in Cmd, CommandStep(c), Outcome(c),
           phase[c] = "waiting" => OwnAnswer(c)
    PROVE  Outcome(c)'
<1>t. /\ phase \in [Cmd -> Phase] /\ error \in [Cmd -> Exception]
      /\ attempts \in [Cmd -> Nat]
  BY DEF TypeOK
<1>e. executed' = executed
  BY CommandsDoNotExecute
<1>1. CASE Call(c)
  BY <1>1, <1>t, <1>e DEF Call, Outcome
<1>2. CASE NoConnection(c) \/ SendFails(c) \/ WaitFails(c)
  <2>1. phase'[c] = "failed" /\ error'[c] # "none"
    <3>1. Throws(c, "network") \/ Throws(c, "unavailable")
      BY <1>2 DEF NoConnection, SendFails, WaitFails
    <3> QED
      BY <3>1, <1>t, AttemptFails, AttemptFailsByError
  <2> QED
    BY <2>1 DEF Outcome
<1>3. CASE SendPrepare(c) \/ ReceivePrepared(c)
  <2>1. phase' = phase /\ phase[c] = "preparing"
    BY <1>3 DEF SendPrepare, ReceivePrepared
  <2> QED
    BY <2>1 DEF Outcome
<1>4. CASE HandlePrepared(c)
  <2>1. phase' = [phase EXCEPT ![c] = "sending"]
        \/ \/ \E kind, known : HandleErrorMessage(c, kind, known)
           \/ HandleUnexpected(c)
    BY <1>4, Zenon DEF HandlePrepared
  <2>2. phase'[c] = "sending" \/ (phase'[c] = "failed" /\ error'[c] # "none")
    BY <2>1, <1>t, AttemptFails, AttemptFailsByError
  <2> QED
    BY <2>2 DEF Outcome
<1>5. CASE SendCommand(c)
  BY <1>5, <1>t DEF SendCommand, Outcome
<1>6. CASE ReceiveResult(c)
  <2>1. OwnAnswer(c)
    BY <1>6 DEF ReceiveResult
  <2> QED
    BY <1>6, <1>e, <2>1, ReceiveResultOutcome DEF Outcome
<1>7. CASE Determinate(c)
  <2>1. phase[c] = "failed" /\ error' = error /\ phase'[c] \in {"retrying", "throwing"}
    BY <1>7, <1>t DEF Determinate
  <2> QED
    BY <2>1 DEF Outcome
<1>8. CASE Finally(c)
  <2>1. /\ error' = error
        /\ \/ phase'[c] = "acquiring"
           \/ phase[c] \in {"succeeded", "throwing"} /\ phase'[c] = "done"
    BY <1>8, <1>t DEF Finally
  <2> QED
    BY <2>1, <1>e DEF Outcome
<1>9. ASSUME NEW s \in Stream, GetConnection(c, s) PROVE Outcome(c)'
  <2>1. phase'[c] \in {"sending", "preparing"}
    BY <1>9, <1>t DEF GetConnection
  <2> QED
    BY <2>1 DEF Outcome
<1> QED
  BY <1>1, <1>2, <1>3, <1>4, <1>5, <1>6, <1>7, <1>8, <1>9 DEF CommandStep

\* A command comes to wait by sending its request, and in no other way.
LEMMA WaitsAfterSending ==
    ASSUME TypeOK, NEW c \in Cmd, CommandStep(c), phase'[c] = "waiting"
    PROVE  SendCommand(c)
<1>t. phase \in [Cmd -> Phase]
  BY DEF TypeOK
<1>1. ASSUME Call(c) PROVE FALSE
  BY <1>1, <1>t DEF Call
<1>2. ASSUME \/ NoConnection(c) \/ SendFails(c) \/ WaitFails(c) \/ HandlePrepared(c)
             \/ ReceiveResult(c) \/ Determinate(c)
      PROVE  SendCommand(c)
  <2>1. phase'[c] # "waiting" \/ phase[c] = "sending"
    BY <1>2, <1>t, PhaseSteps
  <2>2. phase[c] = "sending" => SendFails(c)
    BY <1>2 DEF NoConnection, WaitFails, HandlePrepared, ReceiveResult, Determinate
  <2>3. SendFails(c) => phase'[c] = "failed"
    BY <1>t, AttemptFails DEF SendFails
  <2> QED
    BY <2>1, <2>2, <2>3
<1>3. ASSUME SendPrepare(c) \/ ReceivePrepared(c) PROVE FALSE
  BY <1>3 DEF SendPrepare, ReceivePrepared
<1>4. ASSUME Finally(c) PROVE FALSE
  BY <1>4, <1>t DEF Finally
<1>5. ASSUME NEW s \in Stream, GetConnection(c, s) PROVE FALSE
  BY <1>5, <1>t DEF GetConnection
<1> QED
  BY <1>1, <1>2, <1>3, <1>4, <1>5 DEF CommandStep

LEMMA AnswersOfCommand ==
    ASSUME TypeOK, StreamsOwned, ChannelsMatched, AnswersInv, NEW c \in Cmd, CommandStep(c)
    PROVE  AnswersInv'
<1>e. executed' = executed
  BY CommandsDoNotExecute
<1>1. ASSUME NEW d \in Cmd \ {c}
      PROVE  Outcome(d)' /\ (phase'[d] = "waiting" => OwnAnswer(d)')
  <2>1. /\ phase'[d] = phase[d] /\ stream'[d] = stream[d]
        /\ stream[d] \in Stream => /\ requests'[stream[d]] = requests[stream[d]]
                                   /\ replies'[stream[d]] = replies[stream[d]]
        /\ error'[d] = error[d] /\ attempts'[d] = attempts[d]
    BY OthersKept, OthersKeepAnswers
  <2>2. Outcome(d)'
    BY <1>e, <2>1 DEF AnswersInv, Outcome
  <2>3. ASSUME phase[d] = "waiting" PROVE OwnAnswer(d)'
    <3>1. OwnAnswer(d) /\ stream[d] \in Stream
      BY <2>3 DEF AnswersInv, AnswersOwned, StreamsOwned
    <3> QED
      BY <1>e, <2>1, <3>1 DEF OwnAnswer
  <2> QED
    BY <2>1, <2>2, <2>3
<1>2. Outcome(c)'
  BY OutcomeOfCommand DEF AnswersInv, AnswersOwned
<1>3. phase'[c] = "waiting" => OwnAnswer(c)'
  BY WaitsAfterSending, SendCommandOwned
<1> QED
  BY <1>1, <1>2, <1>3 DEF AnswersInv, AnswersOwned

\* A server executes the request it answers with a RESULT.
LEMMA AnswersOfServer ==
    ASSUME TypeOK, StreamsOwned, AnswersInv, NEW s \in Stream, ServerAnswers(s)
    PROVE  AnswersInv'
<1>1. PICK reply \in Reply :
         /\ Answer(NodeOf[s], Head(requests[s]), reply.kind)
         /\ replies' = [replies EXCEPT ![s] = Append(replies[s], reply)]
  BY AnswerShape
<1>2. /\ requests[s] # <<>> /\ Head(requests[s]) \in Request
      /\ requests' = [requests EXCEPT ![s] = Tail(requests[s])]
      /\ UNCHANGED <<phase, stream, error, attempts>>
  BY ServerAnswersShape DEF flowVars
<1>3. PICK r \in Request : r = Head(requests[s])
  BY <1>2
<1>4. \A d \in Cmd : executed[d] > 0 => executed'[d] > 0
  <2>1. executed \in [Cmd -> Nat] /\ r.cmd \in Cmd
    BY <1>3 DEF TypeOK, Request
  <2>2. executed' = executed \/ executed' = [executed EXCEPT ![r.cmd] = executed[r.cmd] + 1]
    BY <1>1, <1>3 DEF Answer, serverVars
  <2> QED
    BY <2>1, <2>2
<1>5. ASSUME NEW d \in Cmd PROVE Outcome(d)'
  BY <1>2, <1>4 DEF AnswersInv, Outcome
<1>6. ASSUME NEW d \in Cmd, phase'[d] = "waiting" PROVE OwnAnswer(d)'
  <2>1. OwnAnswer(d) /\ stream[d] \in Stream /\ stream' = stream
    BY <1>2, <1>6 DEF AnswersInv, AnswersOwned, StreamsOwned
  <2>2. CASE stream[d] # s
    <3>1. replies'[stream[d]] = replies[stream[d]] /\ requests'[stream[d]] = requests[stream[d]]
      BY <1>1, <1>2, <2>1, <2>2 DEF TypeOK
    <3> QED
      BY <1>4, <2>1, <3>1 DEF OwnAnswer
  <2>3. CASE stream[d] = s
    <3>1. PICK rep \in Seq(Reply), req \in Seq(Request) : rep = replies[s] /\ req = requests[s]
      BY DEF TypeOK
    <3>2. Len(req) \in Nat \ {0} /\ r = req[1]
      BY <1>2, <1>3, <3>1, EmptySeq
    <3>3. r.kind = "RUN" /\ r.cmd = d
      <4>1. 1 \in 1 .. Len(req)
        BY <3>2
      <4> QED
        BY <2>1, <2>3, <3>1, <3>2, <4>1 DEF OwnAnswer
    <3>4. reply.kind # "Prepared" /\ (reply.kind = "Result" => executed'[d] > 0)
      <4>1. reply.kind # "Prepared"
        BY <1>1, <1>3, <3>3 DEF Answer
      <4>2. reply.kind = "Result" => executed' = [executed EXCEPT ![d] = executed[d] + 1]
        BY <1>1, <1>3, <3>3 DEF Answer
      <4>3. executed \in [Cmd -> Nat]
        BY DEF TypeOK
      <4> QED
        BY <4>1, <4>2, <4>3
    <3>5. replies'[s] = Append(rep, reply) /\ requests'[s] = Tail(req)
      BY <1>1, <1>2, <3>1 DEF TypeOK
    <3>6. PICK newRep, newReq : newRep = replies'[s] /\ newReq = requests'[s]
      OBVIOUS
    <3>7. /\ Len(newRep) = Len(rep) + 1 /\ Len(rep) \in Nat
          /\ \A k \in 1 .. Len(newRep) : newRep[k] = IF k = Len(rep) + 1 THEN reply ELSE rep[k]
      BY <3>5, <3>6
    <3>8. /\ Len(newReq) = Len(req) - 1
          /\ \A k \in 1 .. Len(req) - 1 : newReq[k] = req[k + 1]
      BY <1>2, <3>1, <3>5, <3>6, HeadTailProperties
    <3>9. \A k \in 1 .. Len(newReq) : newReq[k].kind = "RUN" /\ newReq[k].cmd = d
      <4>1. \A k \in 1 .. Len(req) : req[k].kind = "RUN" /\ req[k].cmd = d
        BY <2>1, <2>3, <3>1 DEF OwnAnswer
      <4> QED
        BY <3>2, <3>8, <4>1
    <3>10. \A k \in 1 .. Len(newRep) :
              newRep[k].kind # "Prepared" /\ (newRep[k].kind = "Result" => executed'[d] > 0)
      <4>1. \A k \in 1 .. Len(rep) :
               rep[k].kind # "Prepared" /\ (rep[k].kind = "Result" => executed'[d] > 0)
        BY <1>4, <2>1, <2>3, <3>1 DEF OwnAnswer
      <4> QED
        BY <3>4, <3>7, <4>1
    <3> QED
      BY <2>1, <2>3, <3>6, <3>9, <3>10 DEF OwnAnswer
  <2> QED
    BY <2>2, <2>3
<1> QED
  BY <1>2, <1>5, <1>6 DEF AnswersInv, AnswersOwned

LEMMA AnswersOfLoss ==
    ASSUME TypeOK, StreamsOwned, AnswersInv, NEW s \in Stream, ConnectionLost(s)
    PROVE  AnswersInv'
<1>1. PICK m \in 0 .. Len(replies[s]) :
         /\ replies' = [replies EXCEPT ![s] = SubSeq(replies[s], 1, m)]
         /\ requests' = [requests EXCEPT ![s] = <<>>]
  BY DEF ConnectionLost
<1>2. UNCHANGED <<phase, stream, error, attempts, executed>>
  BY DEF ConnectionLost, flowVars, serverVars
<1>3. ASSUME NEW d \in Cmd PROVE Outcome(d)'
  BY <1>2 DEF AnswersInv, Outcome
<1>4. ASSUME NEW d \in Cmd, phase'[d] = "waiting" PROVE OwnAnswer(d)'
  <2>1. OwnAnswer(d) /\ stream[d] \in Stream /\ stream' = stream /\ executed' = executed
    BY <1>2, <1>4 DEF AnswersInv, AnswersOwned, StreamsOwned
  <2>2. CASE stream[d] # s
    <3>1. replies'[stream[d]] = replies[stream[d]] /\ requests'[stream[d]] = requests[stream[d]]
      BY <1>1, <2>1, <2>2 DEF TypeOK
    <3> QED
      BY <2>1, <3>1 DEF OwnAnswer
  <2>3. CASE stream[d] = s
    <3>1. PICK rep \in Seq(Reply) : rep = replies[s]
      BY DEF TypeOK
    <3>2. replies'[s] = SubSeq(rep, 1, m) /\ requests'[s] = <<>> /\ m \in 0 .. Len(rep)
      BY <1>1, <3>1 DEF TypeOK
    <3>3. PICK new : new = replies'[s]
      OBVIOUS
    <3>4. Len(new) = m /\ \A k \in 1 .. m : new[k] = rep[k]
      BY <3>2, <3>3
    <3>5. \A k \in 1 .. Len(new) :
             new[k].kind # "Prepared" /\ (new[k].kind = "Result" => executed[d] > 0)
      <4>1. \A k \in 1 .. Len(rep) :
               rep[k].kind # "Prepared" /\ (rep[k].kind = "Result" => executed[d] > 0)
        BY <2>1, <2>3, <3>1 DEF OwnAnswer
      <4>2. Len(rep) \in Nat /\ m \in Nat /\ m <= Len(rep)
        BY <3>2
      <4> QED
        BY <3>4, <4>1, <4>2
    <3>6. Len(requests'[s]) = 0
      BY <3>2
    <3> QED
      BY <2>1, <2>3, <3>3, <3>5, <3>6 DEF OwnAnswer
  <2> QED
    BY <2>2, <2>3
<1> QED
  BY <1>2, <1>3, <1>4 DEF AnswersInv, AnswersOwned

LEMMA AnswersInit == Init => AnswersInv
<1> SUFFICES ASSUME Init PROVE AnswersInv
  OBVIOUS
<1>1. \A c \in Cmd : phase[c] = "new" /\ attempts[c] = 0
  BY DEF Init
<1> QED
  BY <1>1 DEF AnswersInv, AnswersOwned, Outcome

LEMMA AnswersStep == IInv /\ AnswersInv /\ [Next]_vars => AnswersInv'
<1> SUFFICES ASSUME IInv, AnswersInv, [Next]_vars PROVE AnswersInv'
  OBVIOUS
<1>1. TypeOK /\ StreamsOwned /\ ChannelsMatched
  BY DEF IInv
<1>2. ASSUME NEW c \in Cmd, CommandStep(c) PROVE AnswersInv'
  BY <1>1, <1>2, AnswersOfCommand
<1>3. ASSUME NEW s \in Stream, ServerAnswers(s) \/ ConnectionLost(s) PROVE AnswersInv'
  BY <1>1, <1>3, AnswersOfServer, AnswersOfLoss
<1>4. CASE UNCHANGED <<phase, stream, error, attempts, executed, requests, replies>>
  BY <1>4 DEF AnswersInv, AnswersOwned, OwnAnswer, Outcome
<1>5. ASSUME NEW n \in Node, NEW q \in Query, ServerForgets(n, q) PROVE AnswersInv'
  BY <1>4, <1>5 DEF ServerForgets, flowVars, channelVars
<1>6. CASE UNCHANGED vars
  BY <1>4, <1>6 DEF vars, flowVars, serverVars, channelVars
<1> QED
  BY <1>2, <1>3, <1>5, <1>6 DEF Next

\* The RESULT that query, execute and batchExecute report is the answer to the
\* command itself, whichever of its attempts has got it, and never that to a
\* PREPARE or to another command.
THEOREM SuccessIsExecution == Spec => []SuccessMeansExecuted
<1>1. AnswersInv => SuccessMeansExecuted
  BY DEF AnswersInv, Outcome, SuccessMeansExecuted
<1>2. Init /\ [][Next]_vars => [](IInv /\ AnswersInv)
  BY InitInv, StepInv, AnswersInit, AnswersStep, PTL
<1> QED
  BY <1>1, <1>2, PTL DEF Spec

-----------------------------------------------------------------------------
(* The refinement of Channels: the mapping, stream by stream *)

\* A stream is mapped by the one command that holds it.
LEMMA BarsOfHolder ==
    ASSUME StreamsOwned, NEW c \in Cmd, NEW s \in Stream, stream[c] = s
    PROVE  /\ userBar[s] = IF LostConnection(c) THEN "failed" ELSE "using"
           /\ owedBar[s] = Outstanding(c)
<1>1. Holders(s) = {c}
  BY SessionAssumption DEF Holders, StreamsOwned, SessionAssumption
<1>2. (CHOOSE d \in Holders(s) : TRUE) = c
  BY <1>1
<1> QED
  BY <1>1, <1>2 DEF userBar, owedBar

LEMMA BarsOfNextHolder ==
    ASSUME StreamsOwned', NEW c \in Cmd, NEW s \in Stream, stream'[c] = s
    PROVE  /\ userBar'[s] = IF LostConnection(c)' THEN "failed" ELSE "using"
           /\ owedBar'[s] = Outstanding(c)'
<1>1. Holders(s)' = {c}
  BY SessionAssumption DEF Holders, StreamsOwned, SessionAssumption
<1>2. (CHOOSE d \in Holders(s)' : TRUE) = c
  BY <1>1
<1> QED
  BY <1>1, <1>2 DEF userBar, owedBar

LEMMA BarsOfNobody ==
    ASSUME NEW s \in Stream
    PROVE  /\ (\A d \in Cmd : stream[d] # s) => userBar[s] = "free" /\ owedBar[s] = 0
           /\ (\A d \in Cmd : stream'[d] # s) => userBar'[s] = "free" /\ owedBar'[s] = 0
BY DEF Holders, userBar, owedBar

\* What a command has met and waits for is its own affair.
LEMMA OthersUnseen ==
    ASSUME TypeOK, StreamsOwned, StreamsOwned', NEW c \in Cmd, CommandStep(c),
           NEW s \in Stream, stream[c] # s, stream'[c] # s
    PROVE  userBar'[s] = userBar[s] /\ owedBar'[s] = owedBar[s]
<1>1. \A d \in Cmd \ {c} : stream'[d] = stream[d]
  BY OthersKept
<1>2. CASE \A d \in Cmd : stream[d] # s
  BY <1>1, <1>2, BarsOfNobody
<1>3. ASSUME NEW d \in Cmd, stream[d] = s
      PROVE  userBar'[s] = userBar[s] /\ owedBar'[s] = owedBar[s]
  <2>1. d \in Cmd \ {c}
    BY <1>3
  <2>2. /\ phase'[d] = phase[d] /\ stream'[d] = s /\ error'[d] = error[d]
        /\ sent'[d] = sent[d] /\ results'[d] = results[d]
    BY <1>3, <2>1, OthersKept, OthersKeepAnswers
  <2>3. (LostConnection(d)' <=> LostConnection(d)) /\ Outstanding(d)' = Outstanding(d)
    BY <2>2 DEF LostConnection, Outstanding
  <2> QED
    BY <1>3, <2>2, <2>3, BarsOfHolder, BarsOfNextHolder
<1> QED
  BY <1>2, <1>3

\* Functions are told apart by their values (userBar and its like).
LEMMA OneDiffers ==
    ASSUME NEW S, NEW f, NEW g, NEW x \in S,
           f = [s \in S |-> f[s]], g = [s \in S |-> g[s]], \A s \in S \ {x} : g[s] = f[s]
    PROVE  g = [f EXCEPT ![x] = g[x]]
OBVIOUS

LEMMA NoneDiffers ==
    ASSUME NEW S, NEW f, NEW g,
           f = [s \in S |-> f[s]], g = [s \in S |-> g[s]], \A s \in S : g[s] = f[s]
    PROVE  g = f
OBVIOUS

LEMMA BarFunctions ==
    /\ userBar = [s \in Stream |-> userBar[s]] /\ userBar' = [s \in Stream |-> userBar'[s]]
    /\ owedBar = [s \in Stream |-> owedBar[s]] /\ owedBar' = [s \in Stream |-> owedBar'[s]]
    /\ requestsBar = [s \in Stream |-> requestsBar[s]]
    /\ requestsBar' = [s \in Stream |-> requestsBar'[s]]
    /\ repliesBar = [s \in Stream |-> repliesBar[s]]
    /\ repliesBar' = [s \in Stream |-> repliesBar'[s]]
<1>1. userBar = [s \in Stream |-> userBar[s]] /\ userBar' = [s \in Stream |-> userBar'[s]]
  BY Zenon DEF userBar
<1>2. owedBar = [s \in Stream |-> owedBar[s]] /\ owedBar' = [s \in Stream |-> owedBar'[s]]
  BY DEF owedBar
<1>3. /\ requestsBar = [s \in Stream |-> requestsBar[s]]
      /\ requestsBar' = [s \in Stream |-> requestsBar'[s]]
  BY DEF requestsBar
<1>4. /\ repliesBar = [s \in Stream |-> repliesBar[s]]
      /\ repliesBar' = [s \in Stream |-> repliesBar'[s]]
  BY DEF repliesBar
<1> QED
  BY <1>1, <1>2, <1>3, <1>4

\* A step of the command that holds stream s and keeps it.
LEMMA HolderSteps ==
    ASSUME TypeOK, StreamsOwned, StreamsOwned', NEW c \in Cmd, CommandStep(c),
           NEW s \in Stream, stream[c] = s, stream'[c] = s
    PROVE  /\ userBar' = [userBar EXCEPT ![s] = IF LostConnection(c)' THEN "failed" ELSE "using"]
           /\ owedBar' = [owedBar EXCEPT ![s] = Outstanding(c)']
<1>1. \A r \in Stream \ {s} : userBar'[r] = userBar[r] /\ owedBar'[r] = owedBar[r]
  BY OthersUnseen
<1>2. userBar' = [userBar EXCEPT ![s] = userBar'[s]]
  BY <1>1, BarFunctions, OneDiffers
<1>3. owedBar' = [owedBar EXCEPT ![s] = owedBar'[s]]
  BY <1>1, BarFunctions, OneDiffers
<1> QED
  BY <1>2, <1>3, BarsOfNextHolder

\* A step of a command in which it keeps its stream, if any, and all it owes.
LEMMA HolderUnseen ==
    ASSUME TypeOK, StreamsOwned, StreamsOwned', NEW c \in Cmd, CommandStep(c),
           stream'[c] = stream[c],
           stream[c] \in Stream => /\ LostConnection(c)' <=> LostConnection(c)
                                   /\ Outstanding(c)' = Outstanding(c)
    PROVE  userBar' = userBar /\ owedBar' = owedBar
<1>1. \A s \in Stream : userBar'[s] = userBar[s] /\ owedBar'[s] = owedBar[s]
  <2>1. ASSUME NEW s \in Stream, stream[c] = s
        PROVE  userBar'[s] = userBar[s] /\ owedBar'[s] = owedBar[s]
    BY <2>1, BarsOfHolder, BarsOfNextHolder
  <2> QED
    BY <2>1, OthersUnseen
<1> QED
  BY <1>1, BarFunctions, NoneDiffers

LEMMA LengthsUnseen ==
    /\ UNCHANGED requests => UNCHANGED requestsBar
    /\ UNCHANGED replies => UNCHANGED repliesBar
BY DEF requestsBar, repliesBar

-----------------------------------------------------------------------------
(* The steps of the commands as steps of users of streams *)

LEMMA GetConnectionTakes ==
    ASSUME TypeOK, StreamsOwned, StreamsOwned', NEW c \in Cmd, NEW s \in Stream,
           GetConnection(c, s)
    PROVE  Users!Take(s)
<1>1. /\ stream' = [stream EXCEPT ![c] = s] /\ stream \in [Cmd -> Stream \cup {None}]
      /\ \A d \in Cmd : stream[d] # s
      /\ CommandStep(c)
  BY DEF TypeOK, GetConnection, InUse, CommandStep
<1>2. stream[c] \notin Stream
  BY SessionAssumption DEF GetConnection, StreamsOwned, SessionAssumption
<1>3. /\ \E x \in {"sending", "preparing"} : phase' = [phase EXCEPT ![c] = x]
      /\ sent' = [sent EXCEPT ![c] = 0] /\ results' = [results EXCEPT ![c] = <<>>]
  BY DEF GetConnection
<1>4. phase'[c] \in {"sending", "preparing"} /\ sent'[c] = 0 /\ Len(results'[c]) = 0
  BY <1>3 DEF TypeOK
<1>5. ~LostConnection(c)' /\ Outstanding(c)' = 0
  BY <1>4 DEF LostConnection, Outstanding
<1>6. \A r \in Stream \ {s} : userBar'[r] = userBar[r] /\ owedBar'[r] = owedBar[r]
  BY <1>1, <1>2, OthersUnseen DEF TypeOK
<1>7. userBar[s] = "free" /\ owedBar[s] = 0 /\ userBar'[s] = "using" /\ owedBar'[s] = 0
  BY <1>1, <1>5, BarsOfNobody, BarsOfNextHolder DEF TypeOK
<1>8. userBar' = [userBar EXCEPT ![s] = "using"]
  BY <1>6, <1>7, BarFunctions, OneDiffers
<1>9. owedBar' = owedBar
  BY <1>6, <1>7, BarFunctions, NoneDiffers
<1>10. CASE UNCHANGED channelVars
  BY <1>7, <1>8, <1>9, <1>10, LengthsUnseen DEF Users!Take, channelVars
<1>11. CASE /\ s \notin open /\ open' = open \cup {s}
            /\ requests' = [requests EXCEPT ![s] = <<>>]
            /\ replies' = [replies EXCEPT ![s] = <<>>]
  <2>1. requestsBar' = [requestsBar EXCEPT ![s] = 0]
    BY <1>11 DEF requestsBar, TypeOK
  <2>2. repliesBar' = [repliesBar EXCEPT ![s] = 0]
    BY <1>11 DEF repliesBar, TypeOK
  <2> QED
    BY <1>7, <1>8, <1>9, <1>11, <2>1, <2>2 DEF Users!Take
<1> QED
  BY <1>10, <1>11 DEF GetConnection

\* finally: a command that holds no stream has none to give back.
LEMMA FinallyGives ==
    ASSUME TypeOK, StreamsOwned, StreamsOwned', NEW c \in Cmd, Finally(c)
    PROVE  UNCHANGED Users!vars \/ \E s \in Stream : Users!Give(s)
<1>1. /\ stream' = [stream EXCEPT ![c] = None] /\ stream \in [Cmd -> Stream \cup {None}]
      /\ phase[c] \in {"retrying", "succeeded", "throwing"}
      /\ UNCHANGED channelVars /\ CommandStep(c)
  BY DEF TypeOK, Finally, CommandStep
<1>2. None \notin Stream /\ stream'[c] = None
  BY <1>1, SessionAssumption DEF SessionAssumption
<1>3. UNCHANGED <<open, requestsBar, repliesBar>>
  BY <1>1, LengthsUnseen DEF channelVars
<1>4. \A s \in Stream : s # stream[c] => userBar'[s] = userBar[s] /\ owedBar'[s] = owedBar[s]
  BY <1>1, <1>2, OthersUnseen
<1>5. CASE stream[c] \notin Stream
  BY <1>3, <1>4, <1>5, BarFunctions, NoneDiffers DEF Users!vars
<1>6. CASE stream[c] \in Stream
  <2>1. PICK s \in Stream : s = stream[c]
    BY <1>6
  <2>2. /\ userBar[s] = IF LostConnection(c) THEN "failed" ELSE "using"
        /\ owedBar[s] = 0
    BY <1>1, <2>1, BarsOfHolder DEF Outstanding
  <2>3. \A d \in Cmd : stream'[d] # s
    BY <1>1, <1>2, <2>1 DEF StreamsOwned
  <2>4. userBar'[s] = "free" /\ owedBar'[s] = 0
    BY <2>3, BarsOfNobody
  <2>5. userBar' = [userBar EXCEPT ![s] = "free"]
    BY <1>4, <2>1, <2>4, BarFunctions, OneDiffers
  <2>6. owedBar' = owedBar
    BY <1>4, <2>1, <2>2, <2>4, BarFunctions, NoneDiffers
  <2> QED
    BY <1>3, <2>2, <2>5, <2>6 DEF Users!Give
<1> QED
  BY <1>5, <1>6

\* A request more, of the command that holds the stream.
LEMMA RequestSent ==
    ASSUME TypeOK, StreamsOwned, StreamsOwned', NEW c \in Cmd, CommandStep(c),
           NEW s \in Stream, stream[c] = s, stream' = stream, s \in open,
           UNCHANGED <<open, replies>>, ~LostConnection(c), ~LostConnection(c)',
           Outstanding(c)' = Outstanding(c) + 1,
           NEW request, requests' = [requests EXCEPT ![s] = Append(requests[s], request)]
    PROVE  Users!Send(s)
<1>1. userBar[s] = "using" /\ owedBar[s] = Outstanding(c)
  BY BarsOfHolder
<1>2. userBar' = [userBar EXCEPT ![s] = "using"] /\ owedBar' = [owedBar EXCEPT ![s] = @ + 1]
  BY <1>1, HolderSteps
<1>3. userBar' = userBar
  BY <1>1, <1>2, BarFunctions
<1>4. requestsBar' = [requestsBar EXCEPT ![s] = @ + 1]
  <2>1. \A r \in Stream : requestsBar[r] = Len(requests[r]) /\ requestsBar'[r] = Len(requests'[r])
    BY DEF requestsBar
  <2>2. Len(requests'[s]) = Len(requests[s]) + 1
    BY DEF TypeOK
  <2>3. \A r \in Stream \ {s} : requests'[r] = requests[r]
    BY DEF TypeOK
  <2>4. \A r \in Stream \ {s} : requestsBar'[r] = requestsBar[r]
    BY <2>1, <2>3
  <2>5. requestsBar'[s] = requestsBar[s] + 1
    BY <2>1, <2>2
  <2>6. requestsBar' = [requestsBar EXCEPT ![s] = requestsBar'[s]]
    BY <2>4, BarFunctions, OneDiffers
  <2> QED
    BY <2>5, <2>6
<1> QED
  BY <1>1, <1>2, <1>3, <1>4, LengthsUnseen DEF Users!Send

LEMMA SendPrepareSends ==
    ASSUME TypeOK, StreamsOwned, StreamsOwned', IdsInv, NEW c \in Cmd, SendPrepare(c)
    PROVE  \E s \in Stream : Users!Send(s)
<1>1. PICK s \in Stream : s = stream[c] /\ s \in open /\ phase[c] = "preparing"
  BY DEF SendPrepare, StreamsOwned
<1>2. /\ sent' = [sent EXCEPT ![c] = @ + 1] /\ CommandStep(c)
      /\ UNCHANGED <<phase, stream, error, results, open, replies>>
      /\ \E request : requests' = [requests EXCEPT ![s] = Append(requests[s], request)]
  BY <1>1 DEF SendPrepare, CommandStep, flowVars
<1>3. sent[c] \in Nat /\ sent'[c] = sent[c] + 1 /\ Len(results[c]) \in Nat
  BY <1>2 DEF TypeOK
<1>4. ~LostConnection(c) /\ ~LostConnection(c)' /\ Outstanding(c)' = Outstanding(c) + 1
  BY <1>1, <1>2, <1>3 DEF LostConnection, Outstanding
<1> QED
  BY <1>1, <1>2, <1>4, RequestSent

LEMMA SendCommandSends ==
    ASSUME TypeOK, StreamsOwned, StreamsOwned', NEW c \in Cmd, SendCommand(c)
    PROVE  \E s \in Stream : Users!Send(s)
<1>1. PICK s \in Stream : s = stream[c] /\ s \in open /\ phase[c] = "sending"
  BY DEF SendCommand, StreamsOwned
<1>2. /\ phase' = [phase EXCEPT ![c] = "waiting"] /\ CommandStep(c)
      /\ UNCHANGED <<stream, open, replies>>
      /\ \E request : requests' = [requests EXCEPT ![s] = Append(requests[s], request)]
  BY <1>1 DEF SendCommand, CommandStep
<1>3. phase'[c] = "waiting"
  BY <1>2 DEF TypeOK
<1>4. ~LostConnection(c) /\ ~LostConnection(c)' /\ Outstanding(c)' = Outstanding(c) + 1
  BY <1>1, <1>3 DEF LostConnection, Outstanding
<1> QED
  BY <1>1, <1>2, <1>4, RequestSent

\* A response less, of the command that holds the stream and waits for it.
LEMMA ReplyTaken ==
    ASSUME TypeOK, StreamsOwned, StreamsOwned', NEW c \in Cmd, CommandStep(c),
           NEW s \in Stream, stream[c] = s, stream' = stream,
           UNCHANGED <<open, requests>>, ~LostConnection(c), ~LostConnection(c)',
           Outstanding(c)' = Outstanding(c) - 1, Outstanding(c) > 0,
           replies[s] # <<>>, replies' = [replies EXCEPT ![s] = Tail(replies[s])]
    PROVE  Users!Read(s)
<1>1. userBar[s] = "using" /\ owedBar[s] = Outstanding(c)
  BY BarsOfHolder
<1>2. userBar' = [userBar EXCEPT ![s] = "using"] /\ owedBar' = [owedBar EXCEPT ![s] = @ - 1]
  BY <1>1, HolderSteps
<1>3. userBar' = userBar
  BY <1>1, <1>2, BarFunctions
<1>4. \A r \in Stream : repliesBar[r] = Len(replies[r]) /\ repliesBar'[r] = Len(replies'[r])
  BY DEF repliesBar
<1>5. replies[s] \in Seq(Reply) /\ Len(replies[s]) > 0 /\ Len(replies'[s]) = Len(replies[s]) - 1
  BY DEF TypeOK
<1>6. \A r \in Stream \ {s} : replies'[r] = replies[r]
  BY DEF TypeOK
<1>7. repliesBar' = [repliesBar EXCEPT ![s] = repliesBar'[s]]
  <2>1. \A r \in Stream \ {s} : repliesBar'[r] = repliesBar[r]
    BY <1>4, <1>6
  <2> QED
    BY <2>1, BarFunctions, OneDiffers
<1>8. repliesBar[s] > 0 /\ repliesBar' = [repliesBar EXCEPT ![s] = @ - 1]
  BY <1>4, <1>5, <1>7
<1> QED
  BY <1>1, <1>2, <1>3, <1>8, LengthsUnseen DEF Users!Read

LEMMA ReceivePreparedReads ==
    ASSUME TypeOK, StreamsOwned, StreamsOwned', IdsInv, NEW c \in Cmd, ReceivePrepared(c)
    PROVE  \E s \in Stream : Users!Read(s)
<1>1. PICK s \in Stream : s = stream[c] /\ phase[c] = "preparing"
  BY DEF ReceivePrepared, StreamsOwned
<1>2. /\ results' = [results EXCEPT ![c] = Append(@, Head(replies[s]))] /\ CommandStep(c)
      /\ replies[s] # <<>> /\ replies' = [replies EXCEPT ![s] = Tail(replies[s])]
      /\ UNCHANGED <<phase, stream, error, sent, open, requests>>
      /\ sent[c] = Len(order[c]) /\ Len(results[c]) # Len(order[c])
  BY <1>1 DEF ReceivePrepared, AllReceived, CommandStep, flowVars
<1>3. /\ sent[c] \in Nat /\ Len(results[c]) \in Nat /\ Len(results'[c]) = Len(results[c]) + 1
      /\ Len(results[c]) < sent[c]
  <2>1. Len(results[c]) <= sent[c]
    BY <1>1 DEF IdsInv, PreparesMatched, Matched, ResultsMatch
  <2>2. sent[c] \in Nat /\ results[c] \in Seq(Reply) /\ results'[c] = Append(results[c], Head(replies[s]))
    BY <1>2 DEF TypeOK
  <2>3. Len(results[c]) \in Nat /\ Len(results'[c]) = Len(results[c]) + 1
    BY <2>2
  <2> QED
    BY <1>2, <2>1, <2>2, <2>3
<1>4. /\ ~LostConnection(c) /\ ~LostConnection(c)'
      /\ Outstanding(c)' = Outstanding(c) - 1 /\ Outstanding(c) > 0
  <2>1. /\ Outstanding(c) = sent[c] - Len(results[c])
        /\ Outstanding(c)' = sent[c] - Len(results'[c])
    BY <1>1, <1>2 DEF Outstanding
  <2>2. Outstanding(c)' = Outstanding(c) - 1 /\ Outstanding(c) > 0
    BY <1>3, <2>1
  <2> QED
    BY <1>1, <1>2, <2>2 DEF LostConnection
<1> QED
  BY <1>1, <1>2, <1>4, ReplyTaken

\* An error in a response is never one of the connection.
LEMMA AnswersLoseNothing ==
    ASSUME TypeOK, NEW c \in Cmd,
           (\E kind, known : HandleErrorMessage(c, kind, known)) \/ HandleUnexpected(c)
    PROVE  phase'[c] = "failed" /\ ~LostConnection(c)' /\ Outstanding(c)' = 0
<1>1. phase' = [phase EXCEPT ![c] = "failed"]
  BY AttemptFails
<1>2. \E e \in {"retry", "response", "unexpected"} : error' = [error EXCEPT ![c] = e]
  BY ErrorShape DEF HandleUnexpected
<1> QED
  BY <1>1, <1>2 DEF TypeOK, LostConnection, Outstanding

LEMMA ReceiveResultReads ==
    ASSUME TypeOK, StreamsOwned, StreamsOwned', NEW c \in Cmd, ReceiveResult(c)
    PROVE  \E s \in Stream : Users!Read(s)
<1>1. PICK s \in Stream : s = stream[c] /\ phase[c] = "waiting"
  BY DEF ReceiveResult, StreamsOwned
<1>2. /\ replies[s] # <<>> /\ replies' = [replies EXCEPT ![s] = Tail(replies[s])]
      /\ UNCHANGED <<stream, open, requests>> /\ CommandStep(c)
  BY <1>1 DEF ReceiveResult, CommandStep
<1>3. ~LostConnection(c)' /\ Outstanding(c)' = 0
  <2>1. CASE phase' = [phase EXCEPT ![c] = "succeeded"]
    BY <2>1 DEF TypeOK, LostConnection, Outstanding
  <2> QED
    BY <2>1, AnswersLoseNothing DEF ReceiveResult
<1>4. ~LostConnection(c) /\ Outstanding(c) = 1
  BY <1>1 DEF LostConnection, Outstanding
<1>5. Outstanding(c)' = Outstanding(c) - 1 /\ Outstanding(c) > 0
  BY <1>3, <1>4
<1> QED
  BY <1>1, <1>2, <1>3, <1>4, <1>5, ReplyTaken

LEMMA LossIsMet ==
    ASSUME TypeOK, StreamsOwned, StreamsOwned', NEW c \in Cmd, SendFails(c) \/ WaitFails(c)
    PROVE  \E s \in Stream : Users!Meet(s)
<1>1. PICK s \in Stream : s = stream[c] /\ s \notin open
  BY DEF SendFails, WaitFails, StreamsOwned
<1>2. /\ phase[c] \in {"preparing", "sending", "waiting"}
      /\ UNCHANGED <<stream, channelVars>> /\ Throws(c, "network") /\ CommandStep(c)
  BY DEF SendFails, WaitFails, CommandStep
<1>3. phase'[c] = "failed" /\ error'[c] = "network"
  BY <1>2 DEF Throws, TypeOK
<1>4. ~LostConnection(c) /\ LostConnection(c)' /\ Outstanding(c)' = 0
  BY <1>2, <1>3 DEF LostConnection, Outstanding
<1>5. userBar[s] = "using"
  BY <1>1, <1>4, BarsOfHolder
<1>6. userBar' = [userBar EXCEPT ![s] = "failed"] /\ owedBar' = [owedBar EXCEPT ![s] = 0]
  BY <1>1, <1>2, <1>4, HolderSteps
<1>7. /\ userBar' = [r \in Stream |-> IF r \in {s} THEN "failed" ELSE userBar[r]]
      /\ owedBar' = [r \in Stream |-> IF r \in {s} THEN 0 ELSE owedBar[r]]
  BY <1>6, BarFunctions
<1> QED
  BY <1>1, <1>2, <1>5, <1>7, LengthsUnseen DEF Users!Meet, Users!Fail, channelVars

\* Steps a stream does not notice.
LEMMA CommandUnseen ==
    ASSUME TypeOK, StreamsOwned, StreamsOwned', NEW c \in Cmd,
           Call(c) \/ NoConnection(c) \/ HandlePrepared(c) \/ Determinate(c)
    PROVE  UNCHANGED Users!vars
<1>1. stream' = stream /\ UNCHANGED channelVars /\ CommandStep(c)
  BY DEF Call, NoConnection, HandlePrepared, Determinate, CommandStep
<1>2. ASSUME stream[c] \in Stream
      PROVE  (LostConnection(c)' <=> LostConnection(c)) /\ Outstanding(c)' = Outstanding(c)
  <2>1. phase[c] \notin {"new", "acquiring"}
    BY <1>2, SessionAssumption DEF StreamsOwned, SessionAssumption
  <2>2. CASE HandlePrepared(c)
    <3>1. phase[c] = "preparing" /\ sent[c] = Len(order[c]) /\ Len(results[c]) = Len(order[c])
      BY <2>2 DEF HandlePrepared, AllReceived
    <3>2. Outstanding(c) = 0 /\ ~LostConnection(c)
      BY <3>1 DEF Outstanding, LostConnection, TypeOK
    <3>3. CASE phase' = [phase EXCEPT ![c] = "sending"]
      BY <3>2, <3>3 DEF TypeOK, Outstanding, LostConnection
    <3> QED
      BY <2>2, <3>2, <3>3, AnswersLoseNothing DEF HandlePrepared
  <2>3. CASE Determinate(c)
    <3>1. /\ phase[c] = "failed" /\ error' = error
          /\ \E x \in {"retrying", "throwing"} : phase' = [phase EXCEPT ![c] = x]
      BY <2>3 DEF Determinate
    <3> QED
      BY <3>1 DEF TypeOK, Outstanding, LostConnection
  <2> QED
    BY <2>1, <2>2, <2>3 DEF Call, NoConnection
<1> QED
  BY <1>1, <1>2, HolderUnseen, LengthsUnseen DEF Users!vars, channelVars

-----------------------------------------------------------------------------
(* The steps of servers and connections *)

\* Who holds a stream, and what it waits for, is up to the commands.
LEMMA HoldersUnseen ==
    ASSUME UNCHANGED <<phase, stream, error, sent, results>>
    PROVE  userBar' = userBar /\ owedBar' = owedBar
<1>1. \A c \in Cmd : (LostConnection(c)' <=> LostConnection(c)) /\ Outstanding(c)' = Outstanding(c)
  BY DEF LostConnection, Outstanding
<1>2. \A s \in Stream : Holders(s)' = Holders(s) /\ Holders(s) \subseteq Cmd
  BY DEF Holders
<1>3. \A s \in Stream : owedBar'[s] = owedBar[s]
  <2>1. ASSUME NEW s \in Stream, Holders(s) # {}
        PROVE  (CHOOSE c \in Holders(s) : TRUE) \in Cmd
    BY <1>2, <2>1
  <2> QED
    BY <1>1, <1>2, <2>1 DEF owedBar
<1>4. userBar' = userBar
  BY <1>1, <1>2 DEF userBar
<1> QED
  BY <1>3, <1>4, BarFunctions, NoneDiffers

LEMMA ServerAnswersAnswers ==
    ASSUME TypeOK, NEW s \in Stream, ServerAnswers(s)
    PROVE  Users!Answer(s)
<1>1. PICK reply \in Reply :
         /\ requests[s] # <<>> /\ requests' = [requests EXCEPT ![s] = Tail(requests[s])]
         /\ replies' = [replies EXCEPT ![s] = Append(replies[s], reply)]
         /\ UNCHANGED <<phase, stream, error, sent, results, open>>
  BY ServerAnswersShape DEF flowVars, prepareVars
<1>2. /\ requests[s] \in Seq(Request) /\ replies[s] \in Seq(Reply)
      /\ \A r \in Stream : /\ requestsBar[r] = Len(requests[r]) /\ requestsBar'[r] = Len(requests'[r])
                           /\ repliesBar[r] = Len(replies[r]) /\ repliesBar'[r] = Len(replies'[r])
  BY DEF TypeOK, requestsBar, repliesBar
<1>3. /\ Len(requests[s]) > 0 /\ Len(requests'[s]) = Len(requests[s]) - 1
      /\ Len(replies'[s]) = Len(replies[s]) + 1
  BY <1>1, <1>2 DEF TypeOK
<1>4. \A r \in Stream \ {s} : requests'[r] = requests[r] /\ replies'[r] = replies[r]
  BY <1>1 DEF TypeOK
<1>5. /\ requestsBar' = [requestsBar EXCEPT ![s] = requestsBar'[s]]
      /\ repliesBar' = [repliesBar EXCEPT ![s] = repliesBar'[s]]
  <2>1. \A r \in Stream \ {s} : requestsBar'[r] = requestsBar[r] /\ repliesBar'[r] = repliesBar[r]
    BY <1>2, <1>4
  <2> QED
    BY <2>1, BarFunctions, OneDiffers
<1>6. /\ requestsBar' = [requestsBar EXCEPT ![s] = @ - 1]
      /\ repliesBar' = [repliesBar EXCEPT ![s] = @ + 1]
      /\ requestsBar[s] > 0
  BY <1>2, <1>3, <1>5
<1> QED
  BY <1>1, <1>6, HoldersUnseen DEF Users!Answer

LEMMA ConnectionLostLoses ==
    ASSUME TypeOK, NEW s \in Stream, ConnectionLost(s)
    PROVE  Users!Lose({s})
<1>1. PICK k \in 0 .. Len(replies[s]) :
         /\ open' = open \ {s} /\ requests' = [requests EXCEPT ![s] = <<>>]
         /\ replies' = [replies EXCEPT ![s] = SubSeq(replies[s], 1, k)]
         /\ UNCHANGED <<phase, stream, error, sent, results>>
  BY DEF ConnectionLost, flowVars, prepareVars
<1>2. requestsBar' = [r \in Stream |-> IF r \in {s} THEN 0 ELSE requestsBar[r]]
  BY <1>1 DEF requestsBar, TypeOK
<1>3. replies \in [Stream -> Seq(Reply)] /\ k \in Nat /\ k <= Len(replies[s])
  BY LoadFacts DEF TypeOK
<1>4. \A r \in Stream : repliesBar'[r] = IF r = s THEN k ELSE Len(replies[r])
  BY <1>1, <1>3 DEF repliesBar
<1>5. /\ repliesBar' \in [Stream -> Nat]
      /\ \A r \in Stream : /\ repliesBar'[r] <= repliesBar[r]
                           /\ r \notin {s} => repliesBar'[r] = repliesBar[r]
  BY <1>3, <1>4, BarFunctions, LoadFacts DEF repliesBar
<1>6. Users!Fail({})
  BY <1>1, HoldersUnseen, BarFunctions DEF Users!Fail
<1> QED
  BY <1>1, <1>2, <1>5, <1>6 DEF Users!Lose

LEMMA AllUnseen == UNCHANGED vars => UNCHANGED Users!vars
BY HoldersUnseen, LengthsUnseen DEF vars, flowVars, prepareVars, channelVars, Users!vars

LEMMA InitChannels == Init => Users!Init
<1> SUFFICES ASSUME Init PROVE Users!Init
  OBVIOUS
<1>1. \A s \in Stream : \A c \in Cmd : stream[c] # s
  BY SessionAssumption DEF Init, SessionAssumption
<1>2. /\ userBar \in [Stream -> {"free", "using"}]
      /\ owedBar = [s \in Stream |-> 0]
  BY <1>1, BarsOfNobody, BarFunctions
<1>3. requestsBar = [s \in Stream |-> 0] /\ repliesBar = [s \in Stream |-> 0]
  BY DEF Init, requestsBar, repliesBar
<1>4. open \in SUBSET Stream
  BY DEF Init
<1> QED
  BY <1>2, <1>3, <1>4 DEF Users!Init

LEMMA CommandKeepsChannels ==
    ASSUME TypeOK, StreamsOwned, StreamsOwned', IdsInv, NEW c \in Cmd, CommandStep(c)
    PROVE  Users!Next \/ UNCHANGED Users!vars
<1>1. CASE \E s \in Stream : GetConnection(c, s)
  BY <1>1, GetConnectionTakes DEF Users!Next
<1>2. CASE Finally(c)
  BY <1>2, FinallyGives DEF Users!Next
<1>3. CASE SendPrepare(c) \/ SendCommand(c)
  BY <1>3, SendPrepareSends, SendCommandSends DEF Users!Next
<1>4. CASE ReceivePrepared(c) \/ ReceiveResult(c)
  BY <1>4, ReceivePreparedReads, ReceiveResultReads DEF Users!Next
<1>5. CASE SendFails(c) \/ WaitFails(c)
  BY <1>5, LossIsMet DEF Users!Next
<1>6. CASE Call(c) \/ NoConnection(c) \/ HandlePrepared(c) \/ Determinate(c)
  BY <1>6, CommandUnseen
<1> QED
  BY <1>1, <1>2, <1>3, <1>4, <1>5, <1>6 DEF CommandStep

LEMMA NextChannels == IInv /\ IdsInv /\ [Next]_vars => [Users!Next]_(Users!vars)
<1> SUFFICES ASSUME IInv, IdsInv, [Next]_vars
             PROVE  Users!Next \/ UNCHANGED Users!vars
  OBVIOUS
<1>1. TypeOK /\ StreamsOwned
  BY DEF IInv
<1>2. ASSUME NEW c \in Cmd, CommandStep(c)
      PROVE  Users!Next \/ UNCHANGED Users!vars
  <2>1. StreamsOwned'
    BY <1>1, <1>2, OwnedStep DEF Next
  <2> QED
    BY <1>1, <1>2, <2>1, CommandKeepsChannels
<1>3. ASSUME NEW s \in Stream, ServerAnswers(s) \/ ConnectionLost(s)
      PROVE  Users!Next
  <2>1. Users!Answer(s) \/ Users!Lose({s})
    BY <1>1, <1>3, ServerAnswersAnswers, ConnectionLostLoses
  <2>2. {s} \in SUBSET Stream
    OBVIOUS
  <2> QED
    BY <2>1, <2>2 DEF Users!Next
<1>4. ASSUME NEW n \in Node, NEW q \in Query, ServerForgets(n, q)
      PROVE  UNCHANGED Users!vars
  BY <1>4, HoldersUnseen, LengthsUnseen
  DEF ServerForgets, flowVars, prepareVars, channelVars, Users!vars
<1>5. CASE UNCHANGED vars
  BY <1>5, AllUnseen
<1> QED
  BY <1>2, <1>3, <1>4, <1>5 DEF Next

\* The commands use streams as a connection promises to serve them, and need no
\* more than that: one user at a time, responses to its own requests and in
\* their number, an error only with the connection (prepareQueries,
\* waitNextMessage, finally).  Connection is proved to implement the same
\* Channels, so what the session assumes of a connection is what there is.
THEOREM SessionKeepsChannels == Spec => KeepsChannels
<1>1. Init /\ [][Next]_vars => [](IInv /\ IdsInv)
  BY InitInv, StepInv, IdsInit, IdsStep, PTL
<1> QED
  BY <1>1, InitChannels, NextChannels, PTL DEF Spec, KeepsChannels, Users!Spec

\* No command finds a response to another one on its stream, whatever attempts
\* end early, retry or meet a lost connection, and also on a connection that is
\* lost nobody reads a response more than it has asked for.
THEOREM CommandsGetTheirOwn == Spec => [](Users!AnswersOwn /\ Users!FreeIsClean)
BY SessionKeepsChannels, Users!AnswersAreOwn DEF KeepsChannels
=============================================================================
