------------------------- MODULE Connection_proofs -------------------------
(***************************************************************************)
(* Proofs about a connection for any number of streams, size of the        *)
(* received queues, length of the pipelines and settings.  IInv concerns   *)
(* the streams, the chain of sends and the receiver, HInv the handshake.   *)
(* At the end, that the connection implements Channels, and that no stream *)
(* id is lost.                                                             *)
(***************************************************************************)
EXTENDS Connection, FiniteSetTheorems, SequenceTheorems, TLAPS

-----------------------------------------------------------------------------
(* The inductive invariant *)

\* The types, by the part of the connection that keeps them.
ReadyTypes ==
    /\ config \in Configs
    /\ stage \in Request \cup {"connect", "done", "failed"}
    /\ reply \in {"none", "SUPPORTED lz4", "SUPPORTED", "READY", "AUTHENTICATE",
                  "AUTHENTICATE other", "AUTH_SUCCESS", "SET_KEYSPACE", "ERROR"}
    /\ isReady \in BOOLEAN /\ compressor \in BOOLEAN
UserTypes ==
    /\ user \in [Stream -> UserState] /\ owed \in [Stream -> 0 .. MaxPipeline]
    /\ freeStreamIds \in Seq(UserStream)
SendTypes ==
    /\ sendQueue \in Seq(Stream) /\ sendPhase \in {"queued", "putting", "flushing"}
    /\ chainFailed \in BOOLEAN /\ open \in BOOLEAN
ReceiveTypes ==
    /\ receivingPromiseCount \in Nat /\ received \in [Stream -> 0 .. MaxPendingMessages]
    /\ receiver \in {"off", "reading", "got"} /\ frame \in Frame /\ failing \in Nat
Peers == [at : {"new", "authenticating", "ready"}, compression : BOOLEAN, keySpace : BOOLEAN]
PeerTypes == server \in [Stream -> Nat] /\ wire \in Seq(Frame) /\ peer \in Peers

\* The connection stands or is about to be made; nothing reopens a closed one.
Live == open \/ stage = "connect"

\* The chain of sends holds exactly the users that are sending, each once.
SendersQueued ==
    /\ \A i, j \in DOMAIN sendQueue : sendQueue[i] = sendQueue[j] => i = j
    /\ \A s \in Stream : user[s] = "sending" <=> \E i \in DOMAIN sendQueue : sendQueue[i] = s
    /\ sendPhase # "queued" => sendQueue # <<>>

\* The ids to be opened are those of streams nobody uses, each once.
IdsFree ==
    /\ \A i, j \in DOMAIN freeStreamIds : freeStreamIds[i] = freeStreamIds[j] => i = j
    /\ \A i \in DOMAIN freeStreamIds : user[freeStreamIds[i]] = "free"

\* A user asks for no more than it may, and waits for what it has asked for.
OwedBounds ==
    \A s \in Stream : /\ user[s] = "sending" => owed[s] < MaxPipeline
                      /\ user[s] = "waiting" => owed[s] > 0

\* A connection that stands has one receiver, running or failed, for as long
\* as somebody waits.
OneReceiver ==
    /\ Waiting # {} => receiver # "off" \/ failing > 0
    /\ Live => /\ Waiting = {} => receiver = "off" /\ failing = 0
               /\ receiver # "off" => failing = 0

Healthy == Live => ~chainFailed /\ \A s \in Stream : user[s] # "failed"

Matched == Live => \A s \in Stream : InFlight(s) = Requested(s)

\* Before the socket is connected nobody does anything.
Unstarted ==
    stage = "connect" =>
        /\ ~open /\ receiver = "off" /\ failing = 0 /\ sendQueue = <<>>
        /\ \A s \in Stream : owed[s] = 0 /\ user[s] = IF s = 0 THEN "idle" ELSE "free"

IInv ==
    /\ ReadyTypes /\ UserTypes /\ SendTypes /\ ReceiveTypes /\ PeerTypes
    /\ SendersQueued /\ IdsFree /\ OwedBounds /\ WaitersCounted
    /\ OneReceiver /\ Healthy /\ Matched /\ Unstarted

\* ready() has one request at a time, the one of its stage; the server has
\* none once the connection is closed.
Asks ==
    /\ \A s \in Stream : server[s] > 0 => open
    /\ server[0] > 0 => reply = "none"
    /\ server[0] > 0 \/ reply # "none" \/ user[0] = "sending" => stage \in Request
    /\ user[0] = "sending" => owed[0] = 0
    /\ user[0] = "sending" /\ (sendPhase = "queued" \/ Head(sendQueue) # 0) => reply = "none"
    /\ owed[0] <= 1

\* Until ready() is over nobody else uses the connection, so that a close is
\* always an error of its own send or wait.
Alone ==
    stage \in Request => /\ \A s \in UserStream : user[s] = "free"
                         /\ ~open => user[0] = "failed"

\* What the server takes an open connection for, by what it has been asked and
\* has answered.
Known(at, keySpace) ==
    peer.at = at /\ peer.keySpace = keySpace /\ peer.compression = compressor

Handshake ==
    /\ stage \in {"connect", "OPTIONS"} => peer.at = "new" /\ peer.keySpace = FALSE
    /\ open =>
        /\ stage = "STARTUP" => peer.keySpace = FALSE
        /\ stage = "STARTUP" /\ reply = "none" => peer.at = "new"
        /\ stage = "STARTUP" /\ reply # "none" => peer.compression = compressor
        /\ stage = "STARTUP" /\ reply = "READY" => peer.at = "ready"
        /\ stage = "STARTUP" /\ reply = "AUTHENTICATE" => peer.at = "authenticating"
        /\ stage = "AUTH_RESPONSE" =>
               /\ Known(IF reply = "AUTH_SUCCESS" THEN "ready" ELSE "authenticating", FALSE)
               /\ config.password
        /\ stage = "QUERY" => Known("ready", reply = "SET_KEYSPACE") /\ config.keySpace = TRUE
        /\ stage = "done" => Known("ready", config.keySpace)
        /\ stage # "failed"

Ended == isReady = (open /\ stage = "done")

HInv == Asks /\ Alone /\ Handshake /\ Ended

-----------------------------------------------------------------------------
(* Counting *)

LEMMA StreamFacts ==
    /\ IsFiniteSet(Stream) /\ Stream \subseteq Nat /\ 0 \in Stream
    /\ UserStream \subseteq Stream /\ BadFrame \notin Stream
<1>1. MaxStreams \in Nat /\ MaxStreams >= 2
  BY ConnectionAssumption DEF ConnectionAssumption
<1>2. IsFiniteSet(0 .. MaxStreams - 1)
  BY <1>1, FS_Interval
<1> QED
  BY <1>1, <1>2 DEF Stream, UserStream, BadFrame

LEMMA WaitingFinite == IsFiniteSet(Waiting) /\ Cardinality(Waiting) \in Nat
<1>1. IsFiniteSet(Waiting)
  BY StreamFacts, FS_Subset DEF Waiting
<1> QED
  BY <1>1, FS_CardinalityType

LEMMA TimesType ==
    ASSUME NEW s, NEW w \in Seq(Frame)
    PROVE  Times(s, w) \in Nat
<1>1. IsFiniteSet(1 .. Len(w)) /\ DOMAIN w = 1 .. Len(w)
  BY FS_Interval
<1>2. IsFiniteSet({i \in DOMAIN w : w[i] = s})
  BY <1>1, FS_Subset
<1> QED
  BY <1>2, FS_CardinalityType DEF Times

LEMMA TimesEmpty == ASSUME NEW s PROVE Times(s, <<>>) = 0
<1>1. {i \in DOMAIN <<>> : <<>>[i] = s} = {}
  OBVIOUS
<1> QED
  BY <1>1, FS_EmptySet DEF Times

LEMMA TimesAppend ==
    ASSUME NEW s, NEW w \in Seq(Frame), NEW x \in Frame
    PROVE  Times(s, Append(w, x)) = Times(s, w) + (IF x = s THEN 1 ELSE 0)
<1> DEFINE A == {i \in DOMAIN w : w[i] = s}
           v == Append(w, x)
           B == {i \in DOMAIN v : v[i] = s}
<1>1. /\ DOMAIN w = 1 .. Len(w) /\ Len(w) \in Nat /\ IsFiniteSet(1 .. Len(w))
      /\ DOMAIN v = 1 .. Len(w) + 1
      /\ \A i \in 1 .. Len(w) : v[i] = w[i]
      /\ v[Len(w) + 1] = x
  BY FS_Interval
<1>2. IsFiniteSet(A) /\ Cardinality(A) \in Nat
  BY <1>1, FS_Subset, FS_CardinalityType
<1>3. Len(w) + 1 \notin A
  BY <1>1
<1>4. B = IF x = s THEN A \cup {Len(w) + 1} ELSE A
  BY <1>1
<1>5. x = s => Cardinality(B) = Cardinality(A) + 1
  BY <1>2, <1>3, <1>4, FS_AddElement
<1>6. x # s => Cardinality(B) = Cardinality(A)
  BY <1>4
<1> HIDE DEF A, B
<1>7. Cardinality(B) = Cardinality(A) + (IF x = s THEN 1 ELSE 0)
  BY <1>2, <1>5, <1>6
<1> QED
  BY <1>7 DEF Times, A, B

LEMMA TimesTail ==
    ASSUME NEW s, NEW w \in Seq(Frame), w # <<>>
    PROVE  Times(s, w) = Times(s, Tail(w)) + (IF Head(w) = s THEN 1 ELSE 0)
<1> DEFINE v == Tail(w)
           A == {i \in DOMAIN v : v[i] = s}
           C == {i \in DOMAIN w \ {1} : w[i] = s}
           B == {i \in DOMAIN w : w[i] = s}
           f == [i \in A |-> i + 1]
<1>1. /\ DOMAIN w = 1 .. Len(w) /\ Len(w) \in Nat /\ Len(w) > 0
      /\ v \in Seq(Frame) /\ Len(v) = Len(w) - 1
      /\ DOMAIN v = 1 .. Len(w) - 1
      /\ \A i \in 1 .. Len(w) - 1 : v[i] = w[i + 1]
      /\ Head(w) = w[1]
  OBVIOUS
<1>2. IsFiniteSet(A) /\ Cardinality(A) \in Nat
  <2>1. IsFiniteSet(1 .. Len(w) - 1) /\ A \subseteq 1 .. Len(w) - 1
    BY <1>1, FS_Interval
  <2> QED
    BY <2>1, FS_Subset, FS_CardinalityType
<1>3. f \in Bijection(A, C)
  <2>1. f \in [A -> C]
    BY <1>1
  <2>2. \A i, j \in A : f[i] = f[j] => i = j
    BY <1>1
  <2>3. \A k \in C : k - 1 \in A /\ f[k - 1] = k
    BY <1>1
  <2> HIDE DEF A, C, f
  <2> QED
    BY <2>1, <2>2, <2>3 DEF Bijection, Injection, Surjection, IsInjective
<1>4. Cardinality(C) = Cardinality(A) /\ IsFiniteSet(C)
  BY <1>2, <1>3, FS_Bijection DEF ExistsBijection
<1>5. 1 \notin C /\ B = IF Head(w) = s THEN C \cup {1} ELSE C
  BY <1>1
<1>6. Head(w) = s => Cardinality(B) = Cardinality(C) + 1
  BY <1>4, <1>5, FS_AddElement
<1> HIDE DEF A, B, C, f
<1>7. Cardinality(B) = Cardinality(A) + (IF Head(w) = s THEN 1 ELSE 0)
  BY <1>2, <1>4, <1>5, <1>6
<1> QED
  BY <1>7 DEF Times, A, B

-----------------------------------------------------------------------------
(* Init *)

LEMMA InitIInv == Init => IInv
<1> SUFFICES ASSUME Init PROVE IInv
  OBVIOUS
<1>1. /\ MaxStreams \in Nat /\ MaxStreams >= 2 /\ MaxPendingMessages \in Nat \ {0}
      /\ MaxPipeline \in Nat \ {0}
  BY ConnectionAssumption DEF ConnectionAssumption
<1>2. /\ freeStreamIds \in [1 .. MaxStreams - 1 -> UserStream]
      /\ DOMAIN freeStreamIds = 1 .. MaxStreams - 1
      /\ \A i \in 1 .. MaxStreams - 1 : freeStreamIds[i] = MaxStreams - i
  BY <1>1 DEF Init, UserStream, Stream
<1>3. freeStreamIds \in Seq(UserStream)
  BY <1>1, <1>2, IsASeq
<1>4. ReadyTypes /\ UserTypes /\ SendTypes /\ ReceiveTypes /\ PeerTypes
  <2>1. user \in [Stream -> UserState]
    BY DEF Init, UserState
  <2>2. owed \in [Stream -> 0 .. MaxPipeline] /\ received \in [Stream -> 0 .. MaxPendingMessages]
        /\ server \in [Stream -> Nat]
    BY <1>1 DEF Init
  <2>3. peer \in Peers
    BY DEF Init, NewPeer, Peers
  <2>4. frame \in Frame /\ sendQueue \in Seq(Stream) /\ wire \in Seq(Frame)
    BY DEF Init, Frame
  <2>5. receivingPromiseCount \in Nat /\ failing \in Nat
    BY DEF Init
  <2> QED
    BY <1>3, <2>1, <2>2, <2>3, <2>4, <2>5
    DEF Init, ReadyTypes, UserTypes, SendTypes, ReceiveTypes, PeerTypes
<1>5. IdsFree
  <2>1. \A i \in 1 .. MaxStreams - 1 : freeStreamIds[i] \in UserStream
    BY <1>2
  <2> QED
    BY <1>1, <1>2, <2>1 DEF Init, IdsFree, UserStream
<1>6. Waiting = {}
  BY DEF Init, Waiting
<1>7. Matched
  <2>1. \A s \in Stream : InFlight(s) = 0
    BY TimesEmpty DEF Init, InFlight
  <2>2. \A s \in Stream : Requested(s) = 0
    BY DEF Init, Requested
  <2> QED
    BY <2>1, <2>2 DEF Matched
<1>8. SendersQueued /\ OwedBounds /\ WaitersCounted /\ OneReceiver /\ Healthy /\ Unstarted
  BY <1>6, FS_EmptySet DEF Init, SendersQueued, OwedBounds, WaitersCounted, OneReceiver, Healthy,
     Unstarted
<1> QED
  BY <1>4, <1>5, <1>7, <1>8 DEF IInv

-----------------------------------------------------------------------------
(* close *)

\* A closed connection keeps nothing that could go wrong.
LEMMA CloseFacts ==
    ASSUME NEW states \in [Stream -> UserState], NEW errors \in Nat,
           NEW loop \in {"off", "reading", "got"},
           Close(states, errors, loop), stage' # "connect"
    PROVE  /\ open' \in BOOLEAN /\ isReady' \in BOOLEAN /\ compressor' \in BOOLEAN
           /\ user' \in [Stream -> UserState]
           /\ \A s \in Stream :
                 user'[s] = IF states[s] = "waiting" THEN "failed" ELSE states[s]
           /\ receivingPromiseCount' \in Nat /\ failing' \in Nat
           /\ receiver' \in {"off", "reading", "got"}
           /\ server' \in [Stream -> Nat] /\ wire' \in Seq(Frame)
           /\ peer' \in Peers
           /\ WaitersCounted' /\ OneReceiver' /\ Healthy' /\ Matched' /\ Unstarted'
<1>1. user' \in [Stream -> UserState]
  BY DEF Close, UserState
<1>2. \A s \in Stream : user'[s] = IF states[s] = "waiting" THEN "failed" ELSE states[s]
  BY DEF Close
<1>3. Waiting' = {}
  BY <1>2 DEF Waiting
<1>4. ~Live'
  BY DEF Close, Live
<1>5. WaitersCounted'
  BY <1>3, FS_EmptySet DEF WaitersCounted, Close
<1>6. OneReceiver' /\ Healthy' /\ Matched' /\ Unstarted'
  BY <1>3, <1>4 DEF OneReceiver, Healthy, Matched, Unstarted
<1>7. peer' \in Peers
  BY DEF Close, NewPeer, Peers
<1>8. failing' \in Nat /\ receiver' \in {"off", "reading", "got"}
  BY DEF Close
<1>9. server' \in [Stream -> Nat] /\ wire' \in Seq(Frame) /\ receivingPromiseCount' \in Nat
  BY DEF Close
<1> QED
  BY <1>1, <1>2, <1>5, <1>6, <1>7, <1>8, <1>9 DEF Close

-----------------------------------------------------------------------------
(* Types of what a step leaves alone *)

LEMMA TypesFrame ==
    ASSUME IInv
    PROVE  /\ UNCHANGED readyVars => ReadyTypes'
           /\ UNCHANGED <<user, owed, freeStreamIds>> => UserTypes'
           /\ UNCHANGED <<open, sendVars>> => SendTypes'
           /\ UNCHANGED receiveVars => ReceiveTypes'
           /\ UNCHANGED peerVars => PeerTypes'
<1>1. UNCHANGED readyVars => ReadyTypes'
  BY DEF IInv, ReadyTypes, readyVars
<1>2. UNCHANGED <<user, owed, freeStreamIds>> => UserTypes'
  BY DEF IInv, UserTypes
<1>3. UNCHANGED <<open, sendVars>> => SendTypes'
  BY DEF IInv, SendTypes, sendVars
<1>4. UNCHANGED receiveVars => ReceiveTypes'
  BY DEF IInv, ReceiveTypes, receiveVars
<1>5. UNCHANGED peerVars => PeerTypes'
  BY DEF IInv, PeerTypes, peerVars
<1> QED
  BY <1>1, <1>2, <1>3, <1>4, <1>5

LEMMA IdsAreStreams ==
    ASSUME IInv
    PROVE  \A i \in DOMAIN freeStreamIds : freeStreamIds[i] \in Stream
<1>1. freeStreamIds \in Seq(UserStream)
  BY DEF IInv, UserTypes
<1>2. \A i \in DOMAIN freeStreamIds : freeStreamIds[i] \in UserStream
  BY <1>1
<1> QED
  BY <1>2, StreamFacts

\* The parts of InFlight are numbers.
LEMMA InFlightFacts ==
    ASSUME IInv, NEW s \in Stream
    PROVE  server[s] \in Nat /\ Times(s, wire) \in Nat /\ received[s] \in Nat /\ owed[s] \in Nat
<1>1. wire \in Seq(Frame) /\ server \in [Stream -> Nat]
  BY DEF IInv, PeerTypes
<1>2. received \in [Stream -> 0 .. MaxPendingMessages] /\ owed \in [Stream -> 0 .. MaxPipeline]
  BY DEF IInv, ReceiveTypes, UserTypes
<1>3. Times(s, wire) \in Nat
  BY <1>1, TimesType
<1> QED
  BY <1>1, <1>2, <1>3, ConnectionAssumption DEF ConnectionAssumption

-----------------------------------------------------------------------------
(* Streams *)

LEMMA OpenStreamStep == ASSUME IInv, OpenStream PROVE IInv'
<1> DEFINE last == Len(freeStreamIds)
           x == freeStreamIds[last]
<1>1. /\ user \in [Stream -> UserState] /\ freeStreamIds \in Seq(UserStream)
      /\ last \in Nat /\ last \in DOMAIN freeStreamIds /\ DOMAIN freeStreamIds = 1 .. last
      /\ freeStreamIds # <<>>
  BY DEF IInv, UserTypes, SendTypes, OpenStream
<1>2. /\ user' = [user EXCEPT ![x] = "idle"]
      /\ freeStreamIds' = SubSeq(freeStreamIds, 1, last - 1)
      /\ UNCHANGED <<readyVars, open, owed, sendVars, receiveVars, peerVars>>
  BY DEF OpenStream
<1>3. x \in Stream /\ x \in UserStream /\ user[x] = "free"
  BY <1>1, StreamFacts DEF IInv, IdsFree
<1>4. /\ freeStreamIds' \in Seq(UserStream) /\ DOMAIN freeStreamIds' = 1 .. last - 1
      /\ \A i \in 1 .. last - 1 : freeStreamIds'[i] = freeStreamIds[i]
  BY <1>1, <1>2
<1> HIDE DEF x, last
<1>5. user' \in [Stream -> UserState]
  BY <1>1, <1>2 DEF UserState
<1>6. ReadyTypes' /\ UserTypes' /\ SendTypes' /\ ReceiveTypes' /\ PeerTypes'
  BY <1>2, <1>4, <1>5, TypesFrame DEF IInv, UserTypes
<1>7. IdsFree'
  BY <1>1, <1>2, <1>4 DEF IInv, IdsFree, x, last
<1>8. Waiting' = Waiting
  BY <1>1, <1>2, <1>3 DEF Waiting
<1>9. \A s \in Stream : /\ user'[s] = "sending" <=> user[s] = "sending"
                        /\ user'[s] = "waiting" <=> user[s] = "waiting"
                        /\ user'[s] = "failed" <=> user[s] = "failed"
  BY <1>1, <1>2, <1>3
<1>10. stage' = stage /\ stage = "done"
  BY DEF OpenStream, readyVars
<1>11. SendersQueued' /\ OwedBounds'
  BY <1>2, <1>9 DEF IInv, SendersQueued, OwedBounds, sendVars
<1>12. WaitersCounted' /\ OneReceiver' /\ Healthy' /\ Unstarted'
  BY <1>2, <1>8, <1>9, <1>10
  DEF IInv, WaitersCounted, OneReceiver, Healthy, Unstarted, Live, sendVars, receiveVars
<1>13. Matched'
  BY <1>2, <1>10
  DEF IInv, Matched, Live, InFlight, Requested, sendVars, receiveVars, peerVars
<1> QED
  BY <1>6, <1>7, <1>11, <1>12, <1>13 DEF IInv

LEMMA ReleaseStreamStep == ASSUME IInv, NEW r \in UserStream, ReleaseStream(r) PROVE IInv'
<1>1. /\ user \in [Stream -> UserState] /\ owed \in [Stream -> 0 .. MaxPipeline]
      /\ freeStreamIds \in Seq(UserStream) /\ r \in Stream
  BY StreamFacts DEF IInv, UserTypes, SendTypes
<1>2. /\ user' = [user EXCEPT ![r] = "free"] /\ owed' = [owed EXCEPT ![r] = 0]
      /\ freeStreamIds' = Append(freeStreamIds, r)
      /\ UNCHANGED <<readyVars, open, sendVars, receiveVars, peerVars>>
      /\ user[r] \in {"idle", "failed"} /\ (user[r] = "idle" => owed[r] = 0)
  BY DEF ReleaseStream, IsDone
<1>3. /\ freeStreamIds' \in Seq(UserStream)
      /\ DOMAIN freeStreamIds' = 1 .. Len(freeStreamIds) + 1
      /\ DOMAIN freeStreamIds = 1 .. Len(freeStreamIds) /\ Len(freeStreamIds) \in Nat
      /\ \A i \in 1 .. Len(freeStreamIds) : freeStreamIds'[i] = freeStreamIds[i]
      /\ freeStreamIds'[Len(freeStreamIds) + 1] = r
  BY <1>1, <1>2
<1>4. user' \in [Stream -> UserState] /\ owed' \in [Stream -> 0 .. MaxPipeline]
  BY <1>1, <1>2, ConnectionAssumption DEF UserState, ConnectionAssumption
<1>5. ReadyTypes' /\ UserTypes' /\ SendTypes' /\ ReceiveTypes' /\ PeerTypes'
  BY <1>2, <1>3, <1>4, TypesFrame DEF UserTypes
<1>6. \A i \in DOMAIN freeStreamIds : freeStreamIds[i] # r /\ freeStreamIds[i] \in Stream
  BY <1>1, <1>2, StreamFacts DEF IInv, IdsFree
<1>7. IdsFree'
  BY <1>1, <1>2, <1>3, <1>6 DEF IInv, IdsFree
<1>8. \A s \in Stream : /\ user'[s] = "sending" <=> user[s] = "sending"
                        /\ user'[s] = "waiting" <=> user[s] = "waiting"
                        /\ user'[s] = "failed" => user[s] = "failed"
                        /\ s # r => user'[s] = user[s] /\ owed'[s] = owed[s]
  BY <1>1, <1>2
<1>9. Waiting' = Waiting
  BY <1>8 DEF Waiting
<1>10. stage' = stage /\ stage # "connect"
  <2>1. stage # "connect"
    BY <1>1, <1>2, StreamFacts DEF IInv, Unstarted, UserStream
  <2> QED
    BY <1>2, <2>1 DEF readyVars
<1>11. SendersQueued' /\ OwedBounds'
  BY <1>2, <1>8 DEF IInv, SendersQueued, OwedBounds, sendVars
<1>12. WaitersCounted' /\ OneReceiver' /\ Healthy' /\ Unstarted'
  BY <1>2, <1>8, <1>9, <1>10
  DEF IInv, WaitersCounted, OneReceiver, Healthy, Unstarted, Live, sendVars, receiveVars
<1>13. Matched'
  <2>1. Live' => Live /\ owed' = owed
    BY <1>1, <1>2, <1>10 DEF IInv, Healthy, Live
  <2> QED
    BY <1>2, <2>1
    DEF IInv, Matched, InFlight, Requested, sendVars, receiveVars, peerVars
<1> QED
  BY <1>5, <1>7, <1>11, <1>12, <1>13 DEF IInv

-----------------------------------------------------------------------------
(* sendMessage *)

LEMMA SendMessageStep == ASSUME IInv, NEW r \in Stream, SendMessage(r) PROVE IInv'
<1> DEFINE n == Len(sendQueue)
<1>1. /\ user \in [Stream -> UserState] /\ owed \in [Stream -> 0 .. MaxPipeline]
      /\ sendQueue \in Seq(Stream) /\ n \in Nat /\ DOMAIN sendQueue = 1 .. n
      /\ \A i \in 1 .. n : sendQueue[i] \in Stream
  BY DEF IInv, UserTypes, SendTypes
<1>2. /\ user' = [user EXCEPT ![r] = "sending"] /\ sendQueue' = Append(sendQueue, r)
      /\ UNCHANGED <<readyVars, open, freeStreamIds, owed, sendPhase, chainFailed, receiveVars,
                     peerVars>>
      /\ user[r] = "idle" /\ MaySend(r)
  BY DEF SendMessage, MaySend
<1>3. /\ sendQueue' \in Seq(Stream) /\ DOMAIN sendQueue' = 1 .. n + 1
      /\ \A i \in 1 .. n : sendQueue'[i] = sendQueue[i]
      /\ sendQueue'[n + 1] = r
      /\ sendQueue # <<>> => Head(sendQueue') = Head(sendQueue)
      /\ sendQueue' # <<>>
  BY <1>1, <1>2
<1> HIDE DEF n
<1>4. user' \in [Stream -> UserState]
  BY <1>1, <1>2 DEF UserState
<1>5. ReadyTypes' /\ UserTypes' /\ SendTypes' /\ ReceiveTypes' /\ PeerTypes'
  <2>1. UserTypes'
    BY <1>2, <1>4 DEF IInv, UserTypes
  <2>2. SendTypes'
    BY <1>2, <1>3 DEF IInv, SendTypes
  <2> QED
    BY <1>2, <2>1, <2>2, TypesFrame
<1>6. \A s \in Stream : /\ user'[s] = "waiting" <=> user[s] = "waiting"
                        /\ user'[s] = "failed" <=> user[s] = "failed"
                        /\ user'[s] = "free" <=> user[s] = "free"
                        /\ user'[s] = "sending" <=> s = r \/ user[s] = "sending"
  BY <1>1, <1>2
<1>7. \A i \in 1 .. n : sendQueue[i] # r
  BY <1>1, <1>2 DEF IInv, SendersQueued
<1>8. SendersQueued'
  <2>1. \A i, j \in DOMAIN sendQueue' : sendQueue'[i] = sendQueue'[j] => i = j
    <3>1. \A i, j \in 1 .. n : sendQueue[i] = sendQueue[j] => i = j
      BY <1>1 DEF IInv, SendersQueued
    <3>2. \A i \in 1 .. n + 1 : i = n + 1 \/ i \in 1 .. n
      BY <1>1
    <3> QED
      BY <1>3, <1>7, <3>1, <3>2
  <2>2. ASSUME NEW s \in Stream
        PROVE  user'[s] = "sending" <=> \E i \in DOMAIN sendQueue' : sendQueue'[i] = s
    <3>1. (\E i \in DOMAIN sendQueue' : sendQueue'[i] = s)
              <=> s = r \/ (\E i \in DOMAIN sendQueue : sendQueue[i] = s)
      <4>1. ASSUME NEW i \in 1 .. n + 1, sendQueue'[i] = s
            PROVE  s = r \/ \E k \in 1 .. n : sendQueue[k] = s
        <5>1. i = n + 1 \/ i \in 1 .. n
          BY <1>1
        <5> QED
          BY <1>3, <4>1, <5>1
      <4>2. n + 1 \in 1 .. n + 1 /\ 1 .. n \subseteq 1 .. n + 1
        BY <1>1
      <4> QED
        BY <1>1, <1>3, <4>1, <4>2
    <3> QED
      BY <1>6, <3>1 DEF IInv, SendersQueued
  <2> QED
    BY <1>3, <2>1, <2>2 DEF SendersQueued
<1>9. stage' = stage /\ stage # "connect"
  <2>1. r = 0 => stage # "connect"
    BY <1>2 DEF MaySend, Request
  <2>2. r # 0 => stage # "connect"
    BY <1>1, <1>2 DEF IInv, Unstarted
  <2> QED
    BY <1>2, <2>1, <2>2 DEF readyVars
<1>10. OwedBounds'
  <2>1. owed[r] < MaxPipeline
    <3>1. r = 0 => owed[r] = 0
      BY <1>2 DEF MaySend
    <3>2. r # 0 => owed[r] < MaxPipeline
      BY <1>2 DEF MaySend
    <3> QED
      BY <3>1, <3>2, ConnectionAssumption DEF ConnectionAssumption
  <2> QED
    BY <1>2, <1>6, <2>1 DEF IInv, OwedBounds
<1>11. IdsFree'
  <2>1. \A i \in DOMAIN freeStreamIds : freeStreamIds[i] \in Stream
    BY IdsAreStreams
  <2> QED
    BY <1>2, <1>6, <2>1 DEF IInv, IdsFree
<1>12. Waiting' = Waiting
  BY <1>6 DEF Waiting
<1>13. WaitersCounted' /\ OneReceiver' /\ Healthy' /\ Unstarted'
  BY <1>2, <1>6, <1>9, <1>12
  DEF IInv, WaitersCounted, OneReceiver, Healthy, Unstarted, Live, receiveVars
<1>14. Matched'
  <2>1. \A s \in Stream : Requested(s)' = Requested(s)
    BY <1>2, <1>3 DEF Requested, IInv, SendersQueued
  <2>2. \A s \in Stream : InFlight(s)' = InFlight(s)
    BY <1>2 DEF InFlight, receiveVars, peerVars
  <2> QED
    BY <1>2, <1>9, <2>1, <2>2 DEF IInv, Matched, Live
<1> QED
  BY <1>5, <1>8, <1>10, <1>11, <1>13, <1>14 DEF IInv

\* The head of the chain, and what is left when it goes.
LEMMA HeadAndTail ==
    ASSUME IInv, sendQueue # <<>>
    PROVE  /\ Head(sendQueue) \in Stream /\ user[Head(sendQueue)] = "sending"
           /\ Tail(sendQueue) \in Seq(Stream)
           /\ \A i, j \in DOMAIN Tail(sendQueue) :
                 Tail(sendQueue)[i] = Tail(sendQueue)[j] => i = j
           /\ \A s \in Stream :
                 (\E i \in DOMAIN Tail(sendQueue) : Tail(sendQueue)[i] = s)
                 <=> user[s] = "sending" /\ s # Head(sendQueue)
<1> DEFINE n == Len(sendQueue)
           t == Tail(sendQueue)
           h == Head(sendQueue)
<1>1. sendQueue \in Seq(Stream)
  BY DEF IInv, SendTypes
<1>2. /\ n \in Nat /\ n > 0 /\ DOMAIN sendQueue = 1 .. n
      /\ \A i \in 1 .. n : sendQueue[i] \in Stream
      /\ h = sendQueue[1] /\ t \in Seq(Stream) /\ DOMAIN t = 1 .. n - 1
      /\ \A i \in 1 .. n - 1 : t[i] = sendQueue[i + 1]
  BY <1>1
<1> HIDE DEF n, t, h
<1>3. /\ \A i, j \in 1 .. n : sendQueue[i] = sendQueue[j] => i = j
      /\ \A s \in Stream : user[s] = "sending" <=> \E i \in 1 .. n : sendQueue[i] = s
  BY <1>2 DEF IInv, SendersQueued
<1>4. h \in Stream /\ user[h] = "sending"
  BY <1>2, <1>3
<1>5. \A i, j \in 1 .. n - 1 : t[i] = t[j] => i = j
  BY <1>2, <1>3
<1>6. ASSUME NEW s \in Stream, NEW i \in 1 .. n - 1, t[i] = s
      PROVE  user[s] = "sending" /\ s # h
  <2>1. i + 1 \in 1 .. n /\ 1 \in 1 .. n /\ i + 1 # 1
    BY <1>2
  <2> QED
    BY <1>2, <1>3, <1>6, <2>1
<1>7. ASSUME NEW s \in Stream, user[s] = "sending", s # h
      PROVE  \E i \in 1 .. n - 1 : t[i] = s
  <2>1. PICK k \in 1 .. n : sendQueue[k] = s
    BY <1>3, <1>7
  <2>2. k # 1
    BY <1>2, <1>7, <2>1
  <2>3. k - 1 \in 1 .. n - 1 /\ (k - 1) + 1 = k
    BY <1>2, <2>2
  <2> QED
    BY <1>2, <2>1, <2>3
<1>8. \A s \in Stream : (\E i \in 1 .. n - 1 : t[i] = s) <=> user[s] = "sending" /\ s # h
  BY <1>6, <1>7
<1> QED
  BY <1>2, <1>4, <1>5, <1>8 DEF t, h

LEMMA PutStep == ASSUME IInv, Put PROVE IInv'
<1> DEFINE h == Head(sendQueue)
<1>1. h \in Stream /\ server \in [Stream -> Nat] /\ owed \in [Stream -> 0 .. MaxPipeline]
  BY HeadAndTail DEF IInv, UserTypes, PeerTypes, Put
<1>2. /\ server' = [server EXCEPT ![h] = @ + 1] /\ sendPhase = "queued" /\ sendPhase' = "putting"
      /\ UNCHANGED <<readyVars, open, freeStreamIds, user, owed, sendQueue, chainFailed,
                     receiveVars, wire, peer>>
      /\ sendQueue # <<>> /\ open
  BY DEF Put
<1> HIDE DEF h
<1>3. ReadyTypes' /\ UserTypes' /\ SendTypes' /\ ReceiveTypes' /\ PeerTypes'
  <2>1. SendTypes'
    BY <1>2 DEF IInv, SendTypes
  <2>2. PeerTypes'
    BY <1>1, <1>2 DEF IInv, PeerTypes
  <2> QED
    BY <1>2, <2>1, <2>2, TypesFrame
<1>4. SendersQueued' /\ IdsFree' /\ OwedBounds'
  BY <1>2 DEF IInv, SendersQueued, IdsFree, OwedBounds
<1>5. Waiting' = Waiting
  BY <1>2 DEF Waiting
<1>6. WaitersCounted' /\ OneReceiver' /\ Healthy' /\ Unstarted'
  BY <1>2, <1>5
  DEF IInv, WaitersCounted, OneReceiver, Healthy, Unstarted, Live, readyVars, receiveVars
<1>7. Matched'
  <2>3. ASSUME NEW s \in Stream
        PROVE  InFlight(s)' = InFlight(s) + (IF s = h THEN 1 ELSE 0)
    <3>1. server'[s] = server[s] + (IF s = h THEN 1 ELSE 0)
      BY <1>1, <1>2, InFlightFacts
    <3>2. UNCHANGED <<wire, received, receiver, frame>>
      BY <1>2 DEF receiveVars
    <3> QED
      BY <3>1, <3>2, InFlightFacts DEF InFlight
  <2>4. \A s \in Stream : Requested(s)' = Requested(s) + (IF s = h THEN 1 ELSE 0)
    BY <1>1, <1>2 DEF Requested, h
  <2> QED
    BY <1>2, <2>3, <2>4 DEF IInv, Matched, Live
<1> QED
  BY <1>3, <1>4, <1>6, <1>7 DEF IInv

LEMMA FlushStep == ASSUME IInv, Flush PROVE IInv'
<1>1. /\ sendPhase = "putting" /\ sendPhase' = "flushing"
      /\ UNCHANGED <<readyVars, open, freeStreamIds, user, owed, sendQueue, chainFailed,
                     receiveVars, peerVars>>
  BY DEF Flush
<1>2. ReadyTypes' /\ UserTypes' /\ SendTypes' /\ ReceiveTypes' /\ PeerTypes'
  <2>1. SendTypes'
    BY <1>1 DEF IInv, SendTypes
  <2> QED
    BY <1>1, <2>1, TypesFrame
<1>3. SendersQueued' /\ IdsFree' /\ OwedBounds'
  BY <1>1 DEF IInv, SendersQueued, IdsFree, OwedBounds
<1>4. Waiting' = Waiting
  BY <1>1 DEF Waiting
<1>5. WaitersCounted' /\ OneReceiver' /\ Healthy' /\ Unstarted'
  BY <1>1, <1>4
  DEF IInv, WaitersCounted, OneReceiver, Healthy, Unstarted, Live, readyVars, receiveVars
<1>6. Matched'
  BY <1>1 DEF IInv, Matched, Live, InFlight, Requested, readyVars, receiveVars, peerVars
<1> QED
  BY <1>2, <1>3, <1>5, <1>6 DEF IInv

LEMMA SendSucceedsStep == ASSUME IInv, SendSucceeds PROVE IInv'
<1> DEFINE h == Head(sendQueue)
<1>1. /\ user \in [Stream -> UserState] /\ owed \in [Stream -> 0 .. MaxPipeline]
      /\ sendQueue # <<>> /\ sendPhase = "flushing"
  BY DEF IInv, UserTypes, SendersQueued, SendSucceeds
<1>2. /\ h \in Stream /\ user[h] = "sending" /\ owed[h] < MaxPipeline
  BY <1>1, HeadAndTail DEF IInv, OwedBounds
<1>3. /\ user' = [user EXCEPT ![h] = "idle"] /\ owed' = [owed EXCEPT ![h] = @ + 1]
      /\ sendQueue' = Tail(sendQueue) /\ sendPhase' = "queued"
      /\ UNCHANGED <<readyVars, open, freeStreamIds, chainFailed, receiveVars, peerVars>>
  BY DEF SendSucceeds
<1>4. /\ sendQueue' \in Seq(Stream)
      /\ \A i, j \in DOMAIN sendQueue' : sendQueue'[i] = sendQueue'[j] => i = j
      /\ \A s \in Stream : (\E i \in DOMAIN sendQueue' : sendQueue'[i] = s)
                           <=> user[s] = "sending" /\ s # h
  BY <1>1, <1>3, HeadAndTail
<1>5. \A s \in Stream : Requested(s) = owed[s] + (IF h = s THEN 1 ELSE 0)
  BY <1>1 DEF Requested
<1> HIDE DEF h
<1>6. user' \in [Stream -> UserState] /\ owed' \in [Stream -> 0 .. MaxPipeline]
  <2>1. user' \in [Stream -> UserState]
    BY <1>1, <1>3 DEF UserState
  <2>2. owed[h] + 1 \in 0 .. MaxPipeline
    BY <1>1, <1>2, ConnectionAssumption DEF ConnectionAssumption
  <2> QED
    BY <1>1, <1>3, <2>1, <2>2
<1>7. ReadyTypes' /\ UserTypes' /\ SendTypes' /\ ReceiveTypes' /\ PeerTypes'
  <2>1. UserTypes'
    BY <1>3, <1>6 DEF IInv, UserTypes
  <2>2. SendTypes'
    BY <1>3, <1>4 DEF IInv, SendTypes
  <2> QED
    BY <1>3, <2>1, <2>2, TypesFrame
<1>8. \A s \in Stream : /\ user'[s] = "sending" <=> user[s] = "sending" /\ s # h
                        /\ user'[s] = "waiting" <=> user[s] = "waiting"
                        /\ user'[s] = "failed" <=> user[s] = "failed"
                        /\ user'[s] = "free" <=> user[s] = "free"
                        /\ s # h => owed'[s] = owed[s]
                        /\ s = h => owed'[s] = owed[s] + 1 /\ user'[s] = "idle"
  BY <1>1, <1>2, <1>3
<1>9. SendersQueued'
  BY <1>3, <1>4, <1>8 DEF SendersQueued
<1>10. IdsFree'
  <2>1. \A i \in DOMAIN freeStreamIds : freeStreamIds[i] \in Stream
    BY IdsAreStreams
  <2> QED
    BY <1>3, <1>8, <2>1 DEF IInv, IdsFree
<1>11. OwedBounds'
  BY <1>8 DEF IInv, OwedBounds
<1>12. Waiting' = Waiting
  BY <1>8 DEF Waiting
<1>13. stage' = stage /\ stage # "connect"
  BY <1>1, <1>3 DEF IInv, Unstarted, readyVars
<1>14. WaitersCounted' /\ OneReceiver' /\ Healthy' /\ Unstarted'
  BY <1>3, <1>8, <1>12, <1>13
  DEF IInv, WaitersCounted, OneReceiver, Healthy, Unstarted, Live, receiveVars
<1>15. Matched'
  <2>1. \A s \in Stream : InFlight(s)' = InFlight(s)
    BY <1>3 DEF InFlight, receiveVars, peerVars
  <2>2. \A s \in Stream : Requested(s)' = Requested(s)
    BY <1>1, <1>3, <1>5, <1>8 DEF Requested
  <2> QED
    BY <1>3, <1>13, <2>1, <2>2 DEF IInv, Matched, Live
<1> QED
  BY <1>7, <1>9, <1>10, <1>11, <1>14, <1>15 DEF IInv

LEMMA SendFailsStep == ASSUME IInv, SendFails PROVE IInv'
<1> DEFINE h == Head(sendQueue)
           states == [user EXCEPT ![h] = "failed"]
<1>1. /\ user \in [Stream -> UserState] /\ sendQueue # <<>> /\ h \in Stream
      /\ user[h] = "sending"
  BY HeadAndTail DEF IInv, UserTypes, SendFails
<1>2. stage' = stage /\ stage # "connect"
  BY <1>1 DEF SendFails, IInv, Unstarted
<1>3. states \in [Stream -> UserState] /\ failing \in Nat /\ receiver \in {"off", "reading", "got"}
  BY <1>1 DEF IInv, ReceiveTypes, UserState
<1>4. Close(states, failing, receiver)
  BY DEF SendFails, FailAndClose
<1>5. /\ sendQueue' = Tail(sendQueue) /\ sendPhase' = "queued" /\ chainFailed' = TRUE
      /\ UNCHANGED <<config, stage, reply, freeStreamIds, owed, received, frame>>
  BY DEF SendFails, NextSends
<1>6. /\ sendQueue' \in Seq(Stream)
      /\ \A i, j \in DOMAIN sendQueue' : sendQueue'[i] = sendQueue'[j] => i = j
      /\ \A s \in Stream : (\E i \in DOMAIN sendQueue' : sendQueue'[i] = s)
                           <=> user[s] = "sending" /\ s # h
  BY <1>1, <1>5, HeadAndTail
<1>7. \A s \in Stream : states[s] = IF s = h THEN "failed" ELSE user[s]
  BY <1>1
<1> HIDE DEF h, states
<1>8. /\ open' \in BOOLEAN /\ isReady' \in BOOLEAN /\ compressor' \in BOOLEAN
      /\ user' \in [Stream -> UserState]
      /\ \A s \in Stream : user'[s] = IF states[s] = "waiting" THEN "failed" ELSE states[s]
      /\ receivingPromiseCount' \in Nat /\ failing' \in Nat
      /\ receiver' \in {"off", "reading", "got"} /\ PeerTypes'
      /\ WaitersCounted' /\ OneReceiver' /\ Healthy' /\ Matched' /\ Unstarted'
  BY <1>2, <1>3, <1>4, CloseFacts DEF PeerTypes
<1>9. \A s \in Stream : /\ user'[s] = "sending" <=> user[s] = "sending" /\ s # h
                        /\ user'[s] # "waiting"
                        /\ user'[s] = "free" <=> user[s] = "free"
  BY <1>1, <1>7, <1>8
<1>10. ReadyTypes' /\ UserTypes' /\ SendTypes' /\ ReceiveTypes'
  <2>1. ReadyTypes'
    BY <1>5, <1>8 DEF IInv, ReadyTypes
  <2>2. UserTypes'
    BY <1>5, <1>8 DEF IInv, UserTypes
  <2>3. SendTypes'
    BY <1>5, <1>6, <1>8 DEF SendTypes
  <2>4. ReceiveTypes'
    BY <1>5, <1>8 DEF IInv, ReceiveTypes
  <2> QED
    BY <2>1, <2>2, <2>3, <2>4
<1>11. SendersQueued'
  BY <1>5, <1>6, <1>9 DEF SendersQueued
<1>12. IdsFree'
  <2>1. \A i \in DOMAIN freeStreamIds : freeStreamIds[i] \in Stream
    BY IdsAreStreams
  <2> QED
    BY <1>5, <1>9, <2>1 DEF IInv, IdsFree
<1>13. OwedBounds'
  BY <1>5, <1>9 DEF IInv, OwedBounds
<1> QED
  BY <1>8, <1>10, <1>11, <1>12, <1>13 DEF IInv

-----------------------------------------------------------------------------
(* waitNextMessage *)

LEMMA TakeReceivedStep == ASSUME IInv, NEW r \in Stream, TakeReceived(r) PROVE IInv'
<1>1. /\ owed \in [Stream -> 0 .. MaxPipeline]
      /\ received \in [Stream -> 0 .. MaxPendingMessages]
      /\ MaxPipeline \in Nat /\ MaxPendingMessages \in Nat
  BY ConnectionAssumption DEF IInv, UserTypes, ReceiveTypes, ConnectionAssumption
<1>2. /\ received' = [received EXCEPT ![r] = @ - 1] /\ owed' = [owed EXCEPT ![r] = @ - 1]
      /\ received[r] > 0 /\ owed[r] > 0 /\ user[r] = "idle"
      /\ UNCHANGED <<readyVars, open, freeStreamIds, user, sendVars, receivingPromiseCount,
                     receiver, frame, failing, peerVars>>
  BY DEF TakeReceived, MayWait
<1>3. owed[r] - 1 \in 0 .. MaxPipeline /\ received[r] - 1 \in 0 .. MaxPendingMessages
  BY <1>1, <1>2
<1>4. /\ owed' \in [Stream -> 0 .. MaxPipeline]
      /\ received' \in [Stream -> 0 .. MaxPendingMessages]
  BY <1>1, <1>2, <1>3
<1>5. ReadyTypes' /\ UserTypes' /\ SendTypes' /\ ReceiveTypes' /\ PeerTypes'
  <2>1. UserTypes'
    BY <1>2, <1>4 DEF IInv, UserTypes
  <2>2. ReceiveTypes'
    BY <1>2, <1>4 DEF IInv, ReceiveTypes
  <2> QED
    BY <1>2, <2>1, <2>2, TypesFrame
<1>6. \A s \in Stream : s # r => owed'[s] = owed[s] /\ received'[s] = received[s]
  BY <1>1, <1>2
<1>7. owed'[r] = owed[r] - 1 /\ received'[r] = received[r] - 1
  BY <1>1, <1>2
<1>8. SendersQueued' /\ IdsFree'
  BY <1>2 DEF IInv, SendersQueued, IdsFree, sendVars
<1>9. OwedBounds'
  BY <1>2, <1>6 DEF IInv, OwedBounds
<1>10. Waiting' = Waiting
  BY <1>2 DEF Waiting
<1>11. stage' = stage /\ stage # "connect"
  BY <1>2, InFlightFacts DEF IInv, Unstarted, readyVars
<1>12. WaitersCounted' /\ OneReceiver' /\ Healthy' /\ Unstarted'
  BY <1>2, <1>10, <1>11
  DEF IInv, WaitersCounted, OneReceiver, Healthy, Unstarted, Live, sendVars
<1>13. Matched'
  <2>1. ASSUME NEW s \in Stream
        PROVE  /\ InFlight(s)' = InFlight(s) - (IF s = r THEN 1 ELSE 0)
               /\ Requested(s)' = Requested(s) - (IF s = r THEN 1 ELSE 0)
    <3>1. UNCHANGED <<server, wire, receiver, frame, sendPhase, sendQueue>>
      BY <1>2 DEF peerVars, sendVars
    <3> QED
      BY <1>6, <1>7, <3>1, InFlightFacts DEF InFlight, Requested
  <2> QED
    BY <1>2, <1>11, <2>1 DEF IInv, Matched, Live
<1> QED
  BY <1>5, <1>8, <1>9, <1>12, <1>13 DEF IInv

LEMMA WaitNextMessageStep == ASSUME IInv, NEW r \in Stream, WaitNextMessage(r) PROVE IInv'
<1>1. /\ user \in [Stream -> UserState] /\ receivingPromiseCount \in Nat /\ failing \in Nat
      /\ receiver \in {"off", "reading", "got"}
  BY DEF IInv, UserTypes, ReceiveTypes
<1>2. /\ user' = [user EXCEPT ![r] = "waiting"] /\ user[r] = "idle" /\ owed[r] > 0
      /\ receivingPromiseCount' = receivingPromiseCount + 1
      /\ IF receivingPromiseCount = 0 THEN StartReceiver ELSE UNCHANGED <<receiver, failing>>
      /\ UNCHANGED <<readyVars, open, freeStreamIds, owed, sendVars, received, frame, peerVars>>
  BY DEF WaitNextMessage, MayWait
<1>3. user' \in [Stream -> UserState]
  BY <1>1, <1>2 DEF UserState
<1>4. receiver' \in {"off", "reading", "got"} /\ failing' \in Nat
  BY <1>1, <1>2 DEF StartReceiver
<1>5. ReadyTypes' /\ UserTypes' /\ SendTypes' /\ ReceiveTypes' /\ PeerTypes'
  <2>1. UserTypes'
    BY <1>2, <1>3 DEF IInv, UserTypes
  <2>2. ReceiveTypes'
    BY <1>1, <1>2, <1>4 DEF IInv, ReceiveTypes
  <2> QED
    BY <1>2, <2>1, <2>2, TypesFrame
<1>6. \A s \in Stream : /\ user'[s] = "sending" <=> user[s] = "sending"
                        /\ user'[s] = "waiting" <=> s = r \/ user[s] = "waiting"
                        /\ user'[s] = "failed" <=> user[s] = "failed"
                        /\ user'[s] = "free" <=> user[s] = "free"
  BY <1>1, <1>2
<1>7. Waiting' = Waiting \cup {r} /\ r \notin Waiting
  BY <1>2, <1>6 DEF Waiting
<1>8. SendersQueued' /\ OwedBounds'
  BY <1>2, <1>6 DEF IInv, SendersQueued, OwedBounds, sendVars
<1>9. IdsFree'
  BY <1>2, <1>6, IdsAreStreams DEF IInv, IdsFree
<1>10. Cardinality(Waiting') = Cardinality(Waiting) + 1
  BY <1>7, WaitingFinite, FS_AddElement
<1>11. WaitersCounted'
  BY <1>2, <1>10 DEF IInv, WaitersCounted
<1>12. stage' = stage /\ stage # "connect"
  BY <1>2, InFlightFacts DEF IInv, Unstarted, readyVars
<1>13. (receivingPromiseCount = 0) <=> (Waiting = {})
  BY WaitingFinite, FS_EmptySet DEF IInv, WaitersCounted
<1>14. OneReceiver' /\ Healthy' /\ Unstarted'
  <2>1. CASE Waiting = {}
    <3>1. StartReceiver
      BY <1>2, <1>13, <2>1
    <3>2. Live => receiver = "off" /\ failing = 0
      BY <2>1 DEF IInv, OneReceiver
    <3>3. OneReceiver'
      BY <1>1, <1>2, <1>7, <1>12, <3>1, <3>2 DEF StartReceiver, OneReceiver, Live
    <3> QED
      BY <1>2, <1>6, <1>12, <3>3 DEF IInv, Healthy, Unstarted, Live, sendVars
  <2>2. CASE Waiting # {}
    <3>1. UNCHANGED <<receiver, failing>>
      BY <1>2, <1>13, <2>2
    <3> QED
      BY <1>2, <1>6, <1>7, <1>12, <2>2, <3>1
      DEF IInv, OneReceiver, Healthy, Unstarted, Live, sendVars
  <2> QED
    BY <2>1, <2>2
<1>15. Matched'
  <2>1. SUFFICES ASSUME Live' PROVE \A s \in Stream : InFlight(s)' = Requested(s)'
    BY DEF Matched
  <2>2. Live
    BY <1>2, <1>12, <2>1 DEF Live
  <2>3. receiver' = "got" <=> receiver = "got"
    <3>1. CASE Waiting = {}
      BY <1>2, <1>13, <2>2, <3>1 DEF IInv, OneReceiver, StartReceiver
    <3>2. CASE Waiting # {}
      BY <1>2, <1>13, <3>2
    <3> QED
      BY <3>1, <3>2
  <2> QED
    BY <1>2, <2>2, <2>3 DEF IInv, Matched, InFlight, Requested, sendVars, peerVars
<1> QED
  BY <1>5, <1>8, <1>9, <1>11, <1>14, <1>15 DEF IInv

LEMMA ReadFrameStep == ASSUME IInv, ReadFrame PROVE IInv'
<1>1. wire \in Seq(Frame) /\ wire # <<>> /\ receiver = "reading"
  BY DEF IInv, PeerTypes, ReadFrame
<1>2. /\ receiver' = "got" /\ frame' = Head(wire) /\ wire' = Tail(wire)
      /\ UNCHANGED <<readyVars, open, freeStreamIds, user, owed, sendVars, receivingPromiseCount,
                     received, failing, server, peer>>
  BY DEF ReadFrame
<1>3. Head(wire) \in Frame /\ Tail(wire) \in Seq(Frame)
  BY <1>1
<1>4. ReadyTypes' /\ UserTypes' /\ SendTypes' /\ ReceiveTypes' /\ PeerTypes'
  <2>1. PeerTypes'
    BY <1>2, <1>3 DEF IInv, PeerTypes
  <2>2. ReceiveTypes'
    BY <1>2, <1>3 DEF IInv, ReceiveTypes
  <2> QED
    BY <1>2, <2>1, <2>2, TypesFrame
<1>5. SendersQueued' /\ IdsFree' /\ OwedBounds'
  BY <1>2 DEF IInv, SendersQueued, IdsFree, OwedBounds, sendVars
<1>6. Waiting' = Waiting
  BY <1>2 DEF Waiting
<1>7. stage' = stage /\ stage # "connect"
  BY <1>1, <1>2 DEF IInv, Unstarted, readyVars
<1>8. WaitersCounted' /\ OneReceiver' /\ Healthy' /\ Unstarted'
  BY <1>1, <1>2, <1>6, <1>7
  DEF IInv, WaitersCounted, OneReceiver, Healthy, Unstarted, Live, sendVars
<1>9. Matched'
  <2>1. ASSUME NEW s \in Stream PROVE InFlight(s)' = InFlight(s)
    <3>1. Times(s, wire) = Times(s, wire') + (IF Head(wire) = s THEN 1 ELSE 0)
      BY <1>1, <1>2, TimesTail
    <3>2. Times(s, wire') \in Nat
      BY <1>2, <1>3, TimesType
    <3>3. InFlight(s) = server[s] + Times(s, wire) + received[s]
      BY <1>1, InFlightFacts DEF InFlight
    <3>4. InFlight(s)' = server[s] + Times(s, wire') + received[s]
                         + (IF Head(wire) = s THEN 1 ELSE 0)
      BY <1>2, Zenon DEF InFlight
    <3>5. server[s] \in Nat /\ received[s] \in Nat
      BY InFlightFacts
    <3> QED
      BY <3>1, <3>2, <3>3, <3>4, <3>5
  <2>2. \A s \in Stream : Requested(s)' = Requested(s)
    BY <1>2 DEF Requested, sendVars
  <2> QED
    BY <1>2, <1>7, <2>1, <2>2 DEF IInv, Matched, Live
<1> QED
  BY <1>4, <1>5, <1>8, <1>9 DEF IInv

LEMMA ReadFailsStep == ASSUME IInv, ReadFails PROVE IInv'
<1>1. /\ receiver = "reading" /\ receiver' = "off" /\ failing' = failing + 1 /\ failing \in Nat
      /\ UNCHANGED <<readyVars, open, freeStreamIds, user, owed, sendVars, receivingPromiseCount,
                     received, frame, peerVars>>
  BY DEF ReadFails, IInv, ReceiveTypes
<1>2. ReadyTypes' /\ UserTypes' /\ SendTypes' /\ ReceiveTypes' /\ PeerTypes'
  <2>1. ReceiveTypes'
    BY <1>1 DEF IInv, ReceiveTypes
  <2> QED
    BY <1>1, <2>1, TypesFrame
<1>3. SendersQueued' /\ IdsFree' /\ OwedBounds'
  BY <1>1 DEF IInv, SendersQueued, IdsFree, OwedBounds, sendVars
<1>4. Waiting' = Waiting
  BY <1>1 DEF Waiting
<1>5. stage' = stage /\ stage # "connect"
  BY <1>1 DEF IInv, Unstarted, readyVars
<1>6. WaitersCounted' /\ OneReceiver' /\ Healthy' /\ Unstarted'
  BY <1>1, <1>4, <1>5
  DEF IInv, WaitersCounted, OneReceiver, Healthy, Unstarted, Live, sendVars
<1>7. Matched'
  BY <1>1, <1>5 DEF IInv, Matched, Live, InFlight, Requested, sendVars, peerVars
<1> QED
  BY <1>2, <1>3, <1>6, <1>7 DEF IInv

\* A close on its own: what handle_exception and a full queue do.
LEMMA CloseStep ==
    ASSUME IInv, NEW errors \in Nat, NEW loop \in {"off", "reading", "got"},
           Close(user, errors, loop), stage' # "connect",
           UNCHANGED <<config, freeStreamIds, owed, sendVars, received>>,
           frame' \in Frame, stage' \in Request \cup {"connect", "done", "failed"},
           reply' = reply \/ reply' = "none"
    PROVE  IInv'
<1>1. user \in [Stream -> UserState]
  BY DEF IInv, UserTypes
<1>2. /\ open' \in BOOLEAN /\ isReady' \in BOOLEAN /\ compressor' \in BOOLEAN
      /\ user' \in [Stream -> UserState]
      /\ \A s \in Stream : user'[s] = IF user[s] = "waiting" THEN "failed" ELSE user[s]
      /\ receivingPromiseCount' \in Nat /\ failing' \in Nat
      /\ receiver' \in {"off", "reading", "got"} /\ PeerTypes'
      /\ WaitersCounted' /\ OneReceiver' /\ Healthy' /\ Matched' /\ Unstarted'
  BY <1>1, CloseFacts DEF PeerTypes
<1>3. \A s \in Stream : /\ user'[s] = "sending" <=> user[s] = "sending"
                        /\ user'[s] # "waiting"
                        /\ user'[s] = "free" <=> user[s] = "free"
  BY <1>2
<1>4. ReadyTypes' /\ UserTypes' /\ SendTypes' /\ ReceiveTypes'
  <2>1. ReadyTypes'
    BY <1>2 DEF IInv, ReadyTypes
  <2>2. UserTypes'
    BY <1>2 DEF IInv, UserTypes
  <2>3. SendTypes'
    BY <1>2 DEF IInv, SendTypes, sendVars
  <2>4. ReceiveTypes'
    BY <1>2 DEF IInv, ReceiveTypes
  <2> QED
    BY <2>1, <2>2, <2>3, <2>4
<1>5. SendersQueued'
  BY <1>3 DEF IInv, SendersQueued, sendVars
<1>6. IdsFree' /\ OwedBounds'
  BY <1>3, IdsAreStreams DEF IInv, IdsFree, OwedBounds
<1> QED
  BY <1>2, <1>4, <1>5, <1>6 DEF IInv

LEMMA ReceiverFailsStep == ASSUME IInv, ReceiverFails PROVE IInv'
<1>1. /\ Close(user, failing - 1, receiver) /\ failing > 0
      /\ UNCHANGED <<config, stage, reply, freeStreamIds, owed, sendVars, received, frame>>
  BY DEF ReceiverFails
<1>2. failing - 1 \in Nat /\ receiver \in {"off", "reading", "got"} /\ frame' \in Frame
  BY <1>1 DEF IInv, ReceiveTypes
<1>3. stage # "connect"
  <2>1. failing # 0
    BY <1>1, <1>2
  <2> QED
    BY <2>1 DEF IInv, Unstarted
<1>4. stage' = stage /\ stage \in Request \cup {"connect", "done", "failed"}
  BY <1>1 DEF IInv, ReadyTypes
<1> QED
  BY <1>1, <1>2, <1>3, <1>4, CloseStep

LEMMA GotFacts ==
    ASSUME IInv, receiver = "got"
    PROVE  stage # "connect" /\ (open => failing = 0)
<1>1. stage # "connect"
  BY DEF IInv, Unstarted
<1> QED
  BY <1>1 DEF IInv, OneReceiver, Live

LEMMA ReadOnFacts ==
    ASSUME IInv, receiver = "got", NEW count \in Nat, ReadOn(count)
    PROVE  /\ frame' = BadFrame /\ frame' \in Frame
           /\ receiver' \in {"off", "reading"} /\ failing' \in Nat
           /\ count = 0 => receiver' = "off" /\ failing' = failing
           /\ count # 0 => receiver' # "off" \/ failing' > 0
           /\ open => failing' = 0
<1>1. failing \in Nat /\ (open => failing = 0)
  BY GotFacts DEF IInv, ReceiveTypes
<1>2. frame' = BadFrame /\ frame' \in Frame
  BY DEF ReadOn, Frame
<1>3. CASE count = 0
  BY <1>1, <1>2, <1>3 DEF ReadOn
<1>4. CASE count # 0 /\ open
  BY <1>1, <1>2, <1>4 DEF ReadOn
<1>5. CASE count # 0 /\ ~open
  BY <1>1, <1>2, <1>5 DEF ReadOn
<1>6. open \in BOOLEAN
  BY DEF IInv, SendTypes
<1> QED
  BY <1>3, <1>4, <1>5, <1>6

LEMMA DeliverToWaiterStep == ASSUME IInv, DeliverToWaiter PROVE IInv'
<1>1. /\ user \in [Stream -> UserState] /\ owed \in [Stream -> 0 .. MaxPipeline]
      /\ receivingPromiseCount \in Nat /\ received \in [Stream -> 0 .. MaxPendingMessages]
  BY DEF IInv, UserTypes, ReceiveTypes
<1>2. /\ receiver = "got" /\ frame \in Waiting
      /\ user' = [user EXCEPT ![frame] = "idle"] /\ owed' = [owed EXCEPT ![frame] = @ - 1]
      /\ receivingPromiseCount' = receivingPromiseCount - 1
      /\ ReadOn(receivingPromiseCount')
      /\ UNCHANGED <<readyVars, open, freeStreamIds, sendVars, received, peerVars>>
  BY DEF DeliverToWaiter, CountAfterDelivery
<1>3. frame \in Stream /\ user[frame] = "waiting" /\ owed[frame] > 0
  BY <1>2 DEF Waiting, IInv, OwedBounds
<1>4. \A s \in Stream : /\ user'[s] = "sending" <=> user[s] = "sending"
                        /\ user'[s] = "waiting" <=> user[s] = "waiting" /\ s # frame
                        /\ user'[s] = "failed" <=> user[s] = "failed"
                        /\ user'[s] = "free" <=> user[s] = "free"
                        /\ s # frame => owed'[s] = owed[s]
                        /\ s = frame => owed'[s] = owed[s] - 1
  BY <1>1, <1>2, <1>3
<1>5. Waiting' = Waiting \ {frame}
  BY <1>4 DEF Waiting
<1>6. Cardinality(Waiting') = Cardinality(Waiting) - 1 /\ IsFiniteSet(Waiting')
  BY <1>2, <1>5, WaitingFinite, FS_RemoveElement
<1>7. WaitersCounted' /\ receivingPromiseCount' \in Nat
      /\ (receivingPromiseCount' = 0 <=> Waiting' = {})
  <2>1. receivingPromiseCount' = Cardinality(Waiting')
    BY <1>2, <1>6 DEF IInv, WaitersCounted
  <2>2. Cardinality(Waiting') \in Nat /\ (Cardinality(Waiting') = 0 <=> Waiting' = {})
    BY <1>6, FS_CardinalityType, FS_EmptySet
  <2> QED
    BY <2>1, <2>2 DEF WaitersCounted
<1>8. /\ frame' \in Frame /\ receiver' \in {"off", "reading"} /\ failing' \in Nat
      /\ receivingPromiseCount' = 0 => receiver' = "off" /\ failing' = failing
      /\ receivingPromiseCount' # 0 => receiver' # "off" \/ failing' > 0
      /\ open => failing' = 0
  BY <1>2, <1>7, ReadOnFacts
<1>9. stage' = stage /\ stage # "connect" /\ open' = open
  BY <1>2, GotFacts DEF readyVars
<1>10. ReadyTypes' /\ UserTypes' /\ SendTypes' /\ ReceiveTypes' /\ PeerTypes'
  <2>1. user' \in [Stream -> UserState]
    BY <1>1, <1>2 DEF UserState
  <2>2. owed[frame] - 1 \in 0 .. MaxPipeline
    BY <1>1, <1>3, ConnectionAssumption DEF ConnectionAssumption
  <2>3. owed' \in [Stream -> 0 .. MaxPipeline]
    BY <1>1, <1>2, <2>2
  <2>4. UserTypes'
    BY <1>2, <2>1, <2>3 DEF IInv, UserTypes
  <2>5. ReceiveTypes'
    BY <1>1, <1>2, <1>7, <1>8 DEF ReceiveTypes
  <2> QED
    BY <1>2, <2>4, <2>5, TypesFrame
<1>11. SendersQueued'
  BY <1>2, <1>4 DEF IInv, SendersQueued, sendVars
<1>12. IdsFree'
  BY <1>2, <1>4, IdsAreStreams DEF IInv, IdsFree
<1>13. OwedBounds'
  BY <1>3, <1>4 DEF IInv, OwedBounds
<1>14. OneReceiver'
  BY <1>7, <1>8, <1>9 DEF OneReceiver, Live
<1>15. Healthy' /\ Unstarted'
  BY <1>2, <1>4, <1>9 DEF IInv, Healthy, Unstarted, Live, sendVars
<1>16. Matched'
  <2>1. ASSUME NEW s \in Stream
        PROVE  InFlight(s)' = InFlight(s) - (IF s = frame THEN 1 ELSE 0)
    <3>1. InFlight(s) = server[s] + Times(s, wire) + received[s]
                        + (IF s = frame THEN 1 ELSE 0)
      BY <1>2, Zenon DEF InFlight
    <3>2. InFlight(s)' = server[s] + Times(s, wire) + received[s] + 0
      BY <1>2, <1>8 DEF InFlight, peerVars
    <3> QED
      BY <3>1, <3>2, InFlightFacts
  <2>2. ASSUME NEW s \in Stream
        PROVE  Requested(s)' = Requested(s) - (IF s = frame THEN 1 ELSE 0)
    <3>1. UNCHANGED <<sendPhase, sendQueue>>
      BY <1>2 DEF sendVars
    <3> QED
      BY <1>4, <3>1, InFlightFacts DEF Requested
  <2> QED
    BY <1>9, <2>1, <2>2 DEF IInv, Matched, Live
<1> QED
  BY <1>7, <1>10, <1>11, <1>12, <1>13, <1>14, <1>15, <1>16 DEF IInv

LEMMA DeliverToQueueStep == ASSUME IInv, DeliverToQueue PROVE IInv'
<1>1. /\ receivingPromiseCount \in Nat /\ received \in [Stream -> 0 .. MaxPendingMessages]
      /\ MaxPendingMessages \in Nat
  BY ConnectionAssumption DEF IInv, ReceiveTypes, ConnectionAssumption
<1>2. /\ receiver = "got" /\ frame \in Stream /\ received[frame] < MaxPendingMessages
      /\ received' = [received EXCEPT ![frame] = @ + 1]
      /\ ReadOn(receivingPromiseCount)
      /\ UNCHANGED <<readyVars, open, freeStreamIds, user, owed, sendVars,
                     receivingPromiseCount, peerVars>>
  BY DEF DeliverToQueue, HasRoom
<1>3. /\ frame' \in Frame /\ receiver' \in {"off", "reading"} /\ failing' \in Nat
      /\ receivingPromiseCount = 0 => receiver' = "off" /\ failing' = failing
      /\ receivingPromiseCount # 0 => receiver' # "off" \/ failing' > 0
      /\ open => failing' = 0
  BY <1>1, <1>2, ReadOnFacts
<1>4. stage' = stage /\ stage # "connect" /\ open' = open
  BY <1>2, GotFacts DEF readyVars
<1>5. ReadyTypes' /\ UserTypes' /\ SendTypes' /\ ReceiveTypes' /\ PeerTypes'
  <2>1. received[frame] + 1 \in 0 .. MaxPendingMessages
    BY <1>1, <1>2
  <2>2. received' \in [Stream -> 0 .. MaxPendingMessages]
    BY <1>1, <1>2, <2>1
  <2>3. ReceiveTypes'
    BY <1>1, <1>2, <1>3, <2>2 DEF ReceiveTypes
  <2> QED
    BY <1>2, <2>3, TypesFrame
<1>6. SendersQueued' /\ IdsFree' /\ OwedBounds'
  BY <1>2 DEF IInv, SendersQueued, IdsFree, OwedBounds, sendVars
<1>7. Waiting' = Waiting /\ (receivingPromiseCount = 0 <=> Waiting = {})
  BY <1>2, WaitingFinite, FS_EmptySet DEF Waiting, IInv, WaitersCounted
<1>8. WaitersCounted' /\ OneReceiver'
  BY <1>2, <1>3, <1>4, <1>7 DEF IInv, WaitersCounted, OneReceiver, Live
<1>9. Healthy' /\ Unstarted'
  BY <1>2, <1>4 DEF IInv, Healthy, Unstarted, Live, sendVars
<1>10. Matched'
  <2>1. ASSUME NEW s \in Stream PROVE InFlight(s)' = InFlight(s)
    <3>1. InFlight(s) = server[s] + Times(s, wire) + received[s]
                        + (IF frame = s THEN 1 ELSE 0)
      BY <1>2, Zenon DEF InFlight
    <3>2. InFlight(s)' = server[s] + Times(s, wire) + received'[s] + 0
      BY <1>2, <1>3 DEF InFlight, peerVars
    <3>3. received'[s] = received[s] + (IF frame = s THEN 1 ELSE 0)
      BY <1>1, <1>2, InFlightFacts
    <3> QED
      BY <3>1, <3>2, <3>3, InFlightFacts
  <2>2. \A s \in Stream : Requested(s)' = Requested(s)
    BY <1>2 DEF Requested, sendVars
  <2> QED
    BY <1>4, <2>1, <2>2 DEF IInv, Matched, Live
<1> QED
  BY <1>5, <1>6, <1>8, <1>9, <1>10 DEF IInv

LEMMA DecodeFailsStep == ASSUME IInv, DecodeFails PROVE IInv'
<1>1. /\ receiver = "got" /\ frame = BadFrame /\ receiver' = "off" /\ failing' = failing + 1
      /\ failing \in Nat
      /\ UNCHANGED <<readyVars, open, freeStreamIds, user, owed, sendVars, receivingPromiseCount,
                     received, frame, peerVars>>
  BY DEF DecodeFails, IInv, ReceiveTypes
<1>2. ReadyTypes' /\ UserTypes' /\ SendTypes' /\ ReceiveTypes' /\ PeerTypes'
  <2>1. ReceiveTypes'
    BY <1>1 DEF IInv, ReceiveTypes
  <2> QED
    BY <1>1, <2>1, TypesFrame
<1>3. SendersQueued' /\ IdsFree' /\ OwedBounds'
  BY <1>1 DEF IInv, SendersQueued, IdsFree, OwedBounds, sendVars
<1>4. Waiting' = Waiting
  BY <1>1 DEF Waiting
<1>5. stage' = stage /\ stage # "connect"
  BY <1>1, GotFacts DEF readyVars
<1>6. WaitersCounted' /\ OneReceiver' /\ Healthy' /\ Unstarted'
  BY <1>1, <1>4, <1>5
  DEF IInv, WaitersCounted, OneReceiver, Healthy, Unstarted, Live, sendVars
<1>7. Matched'
  <2>1. ASSUME NEW s \in Stream PROVE InFlight(s)' = InFlight(s)
    <3>1. frame # s
      BY <1>1, StreamFacts
    <3> QED
      BY <1>1, <3>1 DEF InFlight, peerVars
  <2>2. \A s \in Stream : Requested(s)' = Requested(s)
    BY <1>1 DEF Requested, sendVars
  <2> QED
    BY <1>1, <1>5, <2>1, <2>2 DEF IInv, Matched, Live
<1> QED
  BY <1>2, <1>3, <1>6, <1>7 DEF IInv

LEMMA DeliveryFailsStep == ASSUME IInv, DeliveryFails PROVE IInv'
<1>1. /\ Close(user, failing, "off") /\ frame' = BadFrame /\ receiver = "got"
      /\ UNCHANGED <<config, stage, reply, freeStreamIds, owed, sendVars, received>>
  BY DEF DeliveryFails
<1>2. failing \in Nat /\ frame' \in Frame
  BY <1>1 DEF IInv, ReceiveTypes, Frame
<1>3. stage' = stage /\ stage # "connect" /\ stage \in Request \cup {"connect", "done", "failed"}
  BY <1>1, GotFacts DEF IInv, ReadyTypes
<1> QED
  BY <1>1, <1>2, <1>3, CloseStep

-----------------------------------------------------------------------------
(* ready() and the server: the connection *)

LEMMA ConnectStep == ASSUME IInv, Connect PROVE IInv'
<1>1. /\ stage = "connect" /\ stage' = "OPTIONS" /\ open' = TRUE
      /\ UNCHANGED <<config, reply, isReady, compressor, freeStreamIds, user, owed, sendVars,
                     receiveVars, peerVars>>
  BY DEF Connect
<1>2. ReadyTypes' /\ UserTypes' /\ SendTypes' /\ ReceiveTypes' /\ PeerTypes'
  <2>1. ReadyTypes'
    BY <1>1 DEF IInv, ReadyTypes, Request
  <2>2. SendTypes'
    BY <1>1 DEF IInv, SendTypes, sendVars
  <2> QED
    BY <1>1, <2>1, <2>2, TypesFrame
<1>3. SendersQueued' /\ IdsFree' /\ OwedBounds'
  BY <1>1 DEF IInv, SendersQueued, IdsFree, OwedBounds, sendVars
<1>4. Waiting' = Waiting
  BY <1>1 DEF Waiting
<1>5. WaitersCounted' /\ OneReceiver' /\ Healthy' /\ Unstarted'
  BY <1>1, <1>4
  DEF IInv, WaitersCounted, OneReceiver, Healthy, Unstarted, Live, sendVars, receiveVars
<1>6. Matched'
  BY <1>1 DEF IInv, Matched, Live, InFlight, Requested, sendVars, receiveVars, peerVars
<1> QED
  BY <1>2, <1>3, <1>5, <1>6 DEF IInv

LEMMA NextStageType ==
    ASSUME stage \in Request, IInv
    PROVE  NextStage \in {"STARTUP", "AUTH_RESPONSE", "QUERY", "done"}
<1>1. CASE stage = "OPTIONS"
  BY <1>1 DEF NextStage
<1>2. CASE stage = "QUERY"
  BY <1>2 DEF NextStage
<1>3. CASE stage = "STARTUP" /\ config.password
  BY <1>3 DEF NextStage
<1>4. CASE stage = "STARTUP" /\ ~config.password
  BY <1>4 DEF NextStage
<1>5. CASE stage = "AUTH_RESPONSE"
  BY <1>5 DEF NextStage
<1>6. stage = "OPTIONS" \/ stage = "QUERY" \/ stage = "STARTUP" \/ stage = "AUTH_RESPONSE"
  BY DEF Request
<1> QED
  BY <1>1, <1>2, <1>3, <1>4, <1>5, <1>6, Zenon

LEMMA ReplyAcceptedStep == ASSUME IInv, Asks, ReplyAccepted PROVE IInv'
<1>1. /\ stage \in Request /\ stage' = NextStage /\ reply' = "none"
      /\ isReady' = (stage' = "done")
      /\ compressor' = IF stage = "OPTIONS" THEN config.compress /\ reply = "SUPPORTED lz4"
                       ELSE compressor
      /\ UNCHANGED <<config, open, freeStreamIds, user, owed, sendVars, receiveVars, peerVars>>
  BY DEF ReplyAccepted, Replied, Asks
<1>2. stage' \in {"STARTUP", "AUTH_RESPONSE", "QUERY", "done"}
  BY <1>1, NextStageType
<1>3. ReadyTypes' /\ UserTypes' /\ SendTypes' /\ ReceiveTypes' /\ PeerTypes'
  <2>1. config \in Configs /\ compressor \in BOOLEAN
    BY DEF IInv, ReadyTypes
  <2>2. config.compress \in BOOLEAN
    BY <2>1, ConnectionAssumption DEF Configs, ConnectionAssumption
  <2>3. compressor' \in BOOLEAN /\ isReady' \in BOOLEAN
    BY <1>1, <2>1, <2>2
  <2>4. ReadyTypes'
    BY <1>1, <1>2, <2>1, <2>3 DEF ReadyTypes, Request
  <2> QED
    BY <1>1, <2>4, TypesFrame
<1>4. SendersQueued' /\ IdsFree' /\ OwedBounds'
  BY <1>1 DEF IInv, SendersQueued, IdsFree, OwedBounds, sendVars
<1>5. Waiting' = Waiting
  BY <1>1 DEF Waiting
<1>6. (Live' => Live) /\ Unstarted'
  BY <1>1, <1>2 DEF Live, Unstarted
<1>7. WaitersCounted' /\ OneReceiver' /\ Healthy'
  BY <1>1, <1>5, <1>6
  DEF IInv, WaitersCounted, OneReceiver, Healthy, sendVars, receiveVars
<1>8. Matched'
  BY <1>1, <1>6 DEF IInv, Matched, InFlight, Requested, sendVars, receiveVars, peerVars
<1> QED
  BY <1>3, <1>4, <1>6, <1>7, <1>8 DEF IInv

LEMMA ReadyFailsStep == ASSUME IInv, ReadyFails PROVE IInv'
<1>1. /\ Close(user, failing, receiver) /\ stage' = "failed" /\ reply' = "none"
      /\ UNCHANGED <<config, freeStreamIds, owed, sendVars, received, frame>>
  BY DEF ReadyFails
<1>2. failing \in Nat /\ receiver \in {"off", "reading", "got"} /\ frame' \in Frame
  BY <1>1 DEF IInv, ReceiveTypes
<1>3. stage' # "connect" /\ stage' \in Request \cup {"connect", "done", "failed"}
  BY <1>1 DEF Request
<1> QED
  BY <1>1, <1>2, <1>3, CloseStep

\* An answer goes from the server to the wire; what it says is another matter.
LEMMA AnswerStep ==
    ASSUME IInv, NEW r \in Stream, Answer(r), ReadyTypes', peer' \in Peers
    PROVE  IInv'
<1>1. server \in [Stream -> Nat] /\ wire \in Seq(Frame) /\ r \in Frame
  BY DEF IInv, PeerTypes, Frame
<1>2. /\ server[r] > 0 /\ server' = [server EXCEPT ![r] = @ - 1] /\ wire' = Append(wire, r)
      /\ UNCHANGED <<config, stage, isReady, compressor, open, freeStreamIds, user, owed,
                     sendVars, receiveVars>>
  BY DEF Answer
<1>3. ReadyTypes' /\ UserTypes' /\ SendTypes' /\ ReceiveTypes' /\ PeerTypes'
  <2>1. server[r] - 1 \in Nat
    BY <1>1, <1>2
  <2>2. server' \in [Stream -> Nat] /\ wire' \in Seq(Frame)
    BY <1>1, <1>2, <2>1
  <2>3. PeerTypes'
    BY <2>2 DEF PeerTypes
  <2> QED
    BY <1>2, <2>3, TypesFrame
<1>4. SendersQueued' /\ IdsFree' /\ OwedBounds'
  BY <1>2 DEF IInv, SendersQueued, IdsFree, OwedBounds, sendVars
<1>5. Waiting' = Waiting
  BY <1>2 DEF Waiting
<1>6. WaitersCounted' /\ OneReceiver' /\ Healthy' /\ Unstarted'
  BY <1>2, <1>5
  DEF IInv, WaitersCounted, OneReceiver, Healthy, Unstarted, Live, sendVars, receiveVars
<1>7. Matched'
  <2>1. ASSUME NEW s \in Stream PROVE InFlight(s)' = InFlight(s)
    <3>1. server'[s] = server[s] - (IF r = s THEN 1 ELSE 0)
      BY <1>1, <1>2, InFlightFacts
    <3>2. Times(s, wire') = Times(s, wire) + (IF r = s THEN 1 ELSE 0)
      BY <1>1, <1>2, TimesAppend
    <3>3. UNCHANGED <<received, receiver, frame>>
      BY <1>2 DEF receiveVars
    <3> QED
      BY <3>1, <3>2, <3>3, InFlightFacts DEF InFlight
  <2>2. \A s \in Stream : Requested(s)' = Requested(s)
    BY <1>2 DEF Requested, sendVars
  <2> QED
    BY <1>2, <2>1, <2>2 DEF IInv, Matched, Live
<1> QED
  BY <1>3, <1>4, <1>6, <1>7 DEF IInv

LEMMA ServerAnswersStep == ASSUME IInv, NEW r \in Stream, ServerAnswers(r) PROVE IInv'
<1>1. Answer(r) /\ reply' = reply /\ peer' = peer
  BY DEF ServerAnswers
<1>2. ReadyTypes' /\ peer' \in Peers
  BY <1>1 DEF Answer, IInv, ReadyTypes, PeerTypes
<1> QED
  BY <1>1, <1>2, AnswerStep

LEMMA AnswersType ==
    ASSUME stage \in Request
    PROVE  /\ stage = "OPTIONS" => Answers[stage] = {"SUPPORTED lz4", "SUPPORTED", "ERROR"}
           /\ stage = "STARTUP" =>
                  Answers[stage] = {"READY", "AUTHENTICATE", "AUTHENTICATE other", "ERROR"}
           /\ stage = "AUTH_RESPONSE" => Answers[stage] = {"AUTH_SUCCESS", "ERROR"}
           /\ stage = "QUERY" => Answers[stage] = {"SET_KEYSPACE", "ERROR"}
<1>1. Answers["OPTIONS"] = {"SUPPORTED lz4", "SUPPORTED", "ERROR"}
  BY DEF Answers
<1>2. Answers["STARTUP"] = {"READY", "AUTHENTICATE", "AUTHENTICATE other", "ERROR"}
  BY DEF Answers
<1>3. Answers["AUTH_RESPONSE"] = {"AUTH_SUCCESS", "ERROR"}
  BY DEF Answers
<1>4. Answers["QUERY"] = {"SET_KEYSPACE", "ERROR"}
  BY DEF Answers
<1> QED
  BY <1>1, <1>2, <1>3, <1>4, Zenon

\* What an answer to ready() says of the server.
LEMMA ServerAnswersReadyFacts ==
    ASSUME IInv, Asks, ServerAnswersReady
    PROVE  /\ stage \in Request /\ reply = "none" /\ open /\ Answer(0)
           /\ stage = "OPTIONS" => reply' \in {"SUPPORTED lz4", "SUPPORTED", "ERROR"}
           /\ stage = "STARTUP" =>
                  reply' \in {"READY", "AUTHENTICATE", "AUTHENTICATE other", "ERROR"}
           /\ stage = "AUTH_RESPONSE" => reply' \in {"AUTH_SUCCESS", "ERROR"}
           /\ stage = "QUERY" => reply' \in {"SET_KEYSPACE", "ERROR"}
           /\ peer' \in Peers
           /\ reply' \in {"READY", "AUTH_SUCCESS"} => peer'.at = "ready"
           /\ reply' \in {"AUTHENTICATE", "AUTHENTICATE other"} => peer'.at = "authenticating"
           /\ reply' \notin {"READY", "AUTH_SUCCESS", "AUTHENTICATE", "AUTHENTICATE other"}
                  => peer'.at = peer.at
           /\ peer'.compression = IF stage = "STARTUP" THEN compressor ELSE peer.compression
           /\ peer'.keySpace = (reply' = "SET_KEYSPACE")
<1>1. Answer(0) /\ server[0] > 0 /\ reply' \in Answers[stage]
  BY DEF ServerAnswersReady, Answer
<1>2. stage \in Request /\ reply = "none" /\ open
  BY <1>1, StreamFacts DEF Asks
<1>3. peer \in Peers /\ compressor \in BOOLEAN
  BY DEF IInv, PeerTypes, ReadyTypes
<1> DEFINE at == CASE reply' \in {"READY", "AUTH_SUCCESS"} -> "ready"
                   [] reply' \in {"AUTHENTICATE", "AUTHENTICATE other"} -> "authenticating"
                   [] OTHER -> peer.at
           compression == IF stage = "STARTUP" THEN compressor ELSE peer.compression
           keySpace == reply' = "SET_KEYSPACE"
<1>4. peer' = [at |-> at, compression |-> compression, keySpace |-> keySpace]
  BY DEF ServerAnswersReady, Announced
<1>5. /\ reply' \in {"READY", "AUTH_SUCCESS"} => at = "ready"
      /\ reply' \in {"AUTHENTICATE", "AUTHENTICATE other"} => at = "authenticating"
      /\ reply' \notin {"READY", "AUTH_SUCCESS", "AUTHENTICATE", "AUTHENTICATE other"}
             => at = peer.at
  OBVIOUS
<1>6. at \in {"new", "authenticating", "ready"}
  BY <1>3, <1>5 DEF Peers
<1>7. compression \in BOOLEAN /\ keySpace \in BOOLEAN
  BY <1>3 DEF Peers
<1>8. compression = IF stage = "STARTUP" THEN compressor ELSE peer.compression
  OBVIOUS
<1>9. keySpace = (reply' = "SET_KEYSPACE")
  OBVIOUS
<1> HIDE DEF at, compression, keySpace
<1>10. peer' \in Peers /\ peer'.at = at /\ peer'.compression = compression
       /\ peer'.keySpace = keySpace
  BY <1>4, <1>6, <1>7 DEF Peers
<1> QED
  BY <1>1, <1>2, <1>5, <1>8, <1>9, <1>10, AnswersType

LEMMA ServerAnswersReadyStep == ASSUME IInv, Asks, ServerAnswersReady PROVE IInv'
<1>1. Answer(0) /\ peer' \in Peers /\ stage \in Request
  BY ServerAnswersReadyFacts
<1>2. reply' \in {"SUPPORTED lz4", "SUPPORTED", "READY", "AUTHENTICATE", "AUTHENTICATE other",
                  "AUTH_SUCCESS", "SET_KEYSPACE", "ERROR"}
  BY <1>1, ServerAnswersReadyFacts DEF Request
<1>3. ReadyTypes'
  BY <1>1, <1>2 DEF Answer, IInv, ReadyTypes
<1> QED
  BY <1>1, <1>3, AnswerStep, StreamFacts

LEMMA ServerSendsBadFrameStep == ASSUME IInv, ServerSendsBadFrame PROVE IInv'
<1>1. wire \in Seq(Frame) /\ BadFrame \in Frame
  BY DEF IInv, PeerTypes, Frame
<1>2. /\ wire' = Append(wire, BadFrame)
      /\ UNCHANGED <<readyVars, open, freeStreamIds, user, owed, sendVars, receiveVars, server,
                     peer>>
  BY DEF ServerSendsBadFrame
<1>3. ReadyTypes' /\ UserTypes' /\ SendTypes' /\ ReceiveTypes' /\ PeerTypes'
  <2>1. PeerTypes'
    BY <1>1, <1>2 DEF IInv, PeerTypes
  <2> QED
    BY <1>2, <2>1, TypesFrame
<1>4. SendersQueued' /\ IdsFree' /\ OwedBounds'
  BY <1>2 DEF IInv, SendersQueued, IdsFree, OwedBounds, sendVars
<1>5. Waiting' = Waiting
  BY <1>2 DEF Waiting
<1>6. WaitersCounted' /\ OneReceiver' /\ Healthy' /\ Unstarted'
  BY <1>2, <1>5
  DEF IInv, WaitersCounted, OneReceiver, Healthy, Unstarted, Live, sendVars, receiveVars, readyVars
<1>7. Matched'
  <2>1. ASSUME NEW s \in Stream PROVE InFlight(s)' = InFlight(s)
    <3>1. Times(s, wire') = Times(s, wire) + 0
      BY <1>1, <1>2, TimesAppend, StreamFacts
    <3>2. UNCHANGED <<server, received, receiver, frame>>
      BY <1>2 DEF receiveVars
    <3> QED
      BY <3>1, <3>2, InFlightFacts DEF InFlight
  <2>2. \A s \in Stream : Requested(s)' = Requested(s)
    BY <1>2 DEF Requested, sendVars
  <2> QED
    BY <1>2, <2>1, <2>2 DEF IInv, Matched, Live, readyVars
<1> QED
  BY <1>3, <1>4, <1>6, <1>7 DEF IInv

LEMMA StutterStep == ASSUME IInv, UNCHANGED vars PROVE IInv'
<1>1. UNCHANGED <<readyVars, open, freeStreamIds, user, owed, sendVars, receiveVars, peerVars>>
  BY DEF vars
<1>2. ReadyTypes' /\ UserTypes' /\ SendTypes' /\ ReceiveTypes' /\ PeerTypes'
  BY <1>1, TypesFrame
<1>3. SendersQueued' /\ IdsFree' /\ OwedBounds'
  BY <1>1 DEF IInv, SendersQueued, IdsFree, OwedBounds, sendVars
<1>4. Waiting' = Waiting
  BY <1>1 DEF Waiting
<1>5. WaitersCounted' /\ OneReceiver' /\ Healthy' /\ Unstarted'
  BY <1>1, <1>4
  DEF IInv, WaitersCounted, OneReceiver, Healthy, Unstarted, Live, sendVars, receiveVars, readyVars
<1>6. Matched'
  BY <1>1
  DEF IInv, Matched, Live, InFlight, Requested, sendVars, receiveVars, peerVars, readyVars
<1> QED
  BY <1>2, <1>3, <1>5, <1>6 DEF IInv

LEMMA IInvStep == ASSUME IInv, Asks, [Next]_vars PROVE IInv'
<1>1. CASE OpenStream
  BY <1>1, OpenStreamStep
<1>2. ASSUME NEW s \in UserStream, ReleaseStream(s) PROVE IInv'
  BY <1>2, ReleaseStreamStep
<1>3. ASSUME NEW s \in Stream, UserStep(s) \/ ServerAnswers(s) PROVE IInv'
  BY <1>3, SendMessageStep, TakeReceivedStep, WaitNextMessageStep, ServerAnswersStep DEF UserStep
<1>4. CASE ReadyStep
  BY <1>4, ConnectStep, ReplyAcceptedStep, ReadyFailsStep DEF ReadyStep
<1>5. CASE SendStep
  BY <1>5, PutStep, FlushStep, SendSucceedsStep, SendFailsStep DEF SendStep
<1>6. CASE ReceiveStep
  BY <1>6, ReadFrameStep, ReadFailsStep, ReceiverFailsStep, DeliverToWaiterStep,
     DeliverToQueueStep, DecodeFailsStep, DeliveryFailsStep DEF ReceiveStep, Deliver
<1>7. CASE ServerAnswersReady \/ ServerSendsBadFrame
  BY <1>7, ServerAnswersReadyStep, ServerSendsBadFrameStep
<1>8. CASE UNCHANGED vars
  BY <1>8, StutterStep
<1> QED
  BY <1>1, <1>2, <1>3, <1>4, <1>5, <1>6, <1>7, <1>8 DEF Next

-----------------------------------------------------------------------------
(* The handshake *)

LEMMA InitHInv == Init => HInv
<1> SUFFICES ASSUME Init PROVE HInv
  OBVIOUS
<1>1. 0 \in Stream
  BY StreamFacts
<1>2. Asks
  BY <1>1 DEF Init, Asks
<1>3. Alone /\ Handshake /\ Ended
  BY DEF Init, Alone, Handshake, Ended, Request, NewPeer
<1> QED
  BY <1>2, <1>3 DEF HInv

\* Steps that leave ready(), the socket and the server's view alone.
LEMMA HandshakeFrame ==
    ASSUME HInv, UNCHANGED <<readyVars, open, peer>>
    PROVE  Handshake' /\ Ended'
BY DEF HInv, Handshake, Ended, Known, readyVars

LEMMA OthersFree ==
    ASSUME HInv, stage \in Request, NEW s \in Stream, user[s] # "free"
    PROVE  s = 0
BY DEF HInv, Alone, UserStream

\* A close that is an error of ready() as long as ready() is not over.
LEMMA ClosedHInv ==
    ASSUME IInv, HInv, NEW states, NEW errors, NEW loop,
           Close(states, errors, loop), UNCHANGED <<config, stage, reply, owed>>,
           user'[0] = "sending" => user[0] = "sending",
           user'[0] = "sending" /\ (sendPhase' = "queued" \/ Head(sendQueue') # 0)
               => sendPhase = "queued" \/ Head(sendQueue) # 0,
           \A s \in UserStream : user[s] = "free" => user'[s] = "free",
           stage \in Request => user'[0] = "failed"
    PROVE  HInv'
<1>1. /\ open' = FALSE /\ isReady' = FALSE /\ server' = [s \in Stream |-> 0]
      /\ peer' = NewPeer
  BY DEF Close
<1>2. server'[0] = 0 /\ \A s \in Stream : server'[s] = 0
  BY <1>1, StreamFacts
<1>3. Asks'
  BY <1>1, <1>2 DEF HInv, Asks
<1>4. Alone'
  BY DEF HInv, Alone
<1>5. Handshake' /\ Ended'
  BY <1>1 DEF Handshake, Ended, NewPeer
<1> QED
  BY <1>3, <1>4, <1>5 DEF HInv

\* While ready() is not over an open connection has at most one request of
\* stream zero under way, and a reader or a failed one only for its wait.
LEMMA WaitingIsReady ==
    ASSUME IInv, HInv, stage \in Request, receiver # "off" \/ failing > 0
    PROVE  user[0] \in {"waiting", "failed"}
<1>1. CASE ~open
  BY <1>1 DEF HInv, Alone
<1>2. CASE open
  <2>1. Waiting # {}
    BY <1>2, StreamFacts DEF IInv, OneReceiver, Live, ReceiveTypes
  <2>2. PICK s \in Stream : user[s] = "waiting"
    BY <2>1 DEF Waiting
  <2> QED
    BY <2>2, OthersFree
<1> QED
  BY <1>1, <1>2

LEMMA RequestedZero ==
    ASSUME IInv, HInv, open
    PROVE  /\ server[0] <= 1
           /\ owed[0] = 0 /\ user[0] # "sending" => server[0] = 0
           /\ user[0] = "sending" /\ (sendPhase = "queued" \/ Head(sendQueue) # 0)
                  => server[0] = 0
<1>1. 0 \in Stream
  BY StreamFacts
<1>2. server[0] \in Nat /\ Times(0, wire) \in Nat /\ received[0] \in Nat /\ owed[0] \in Nat
  BY <1>1, InFlightFacts
<1>3. InFlight(0) = Requested(0)
  BY <1>1 DEF IInv, Matched, Live
<1>4. server[0] <= InFlight(0)
  BY <1>2 DEF InFlight
<1>5. sendPhase # "queued" /\ Head(sendQueue) = 0 => user[0] = "sending"
  BY HeadAndTail DEF IInv, SendersQueued
<1>6. owed[0] <= 1 /\ (user[0] = "sending" => owed[0] = 0)
  BY DEF HInv, Asks
<1> QED
  BY <1>2, <1>3, <1>4, <1>5, <1>6 DEF Requested

LEMMA OpenStreamHandshake == ASSUME IInv, HInv, OpenStream PROVE HInv'
<1>1. /\ stage = "done" /\ freeStreamIds # <<>> /\ freeStreamIds \in Seq(UserStream)
      /\ user' = [user EXCEPT ![freeStreamIds[Len(freeStreamIds)]] = "idle"]
      /\ UNCHANGED <<readyVars, open, owed, sendVars, receiveVars, peerVars>>
  BY DEF OpenStream, IInv, UserTypes
<1>2. freeStreamIds[Len(freeStreamIds)] # 0
  BY <1>1 DEF UserStream
<1>3. user'[0] = user[0]
  BY <1>1, <1>2, StreamFacts DEF IInv, UserTypes
<1>4. Asks'
  BY <1>1, <1>3 DEF HInv, Asks, readyVars, sendVars, peerVars
<1>5. Alone'
  BY <1>1 DEF Alone, readyVars, Request
<1> QED
  BY <1>1, <1>4, <1>5, HandshakeFrame DEF HInv, peerVars

LEMMA ReleaseStreamHandshake ==
    ASSUME IInv, HInv, NEW r \in UserStream, ReleaseStream(r) PROVE HInv'
<1>1. /\ user' = [user EXCEPT ![r] = "free"] /\ owed' = [owed EXCEPT ![r] = 0] /\ r # 0
      /\ UNCHANGED <<readyVars, open, sendVars, receiveVars, peerVars>>
      /\ user \in [Stream -> UserState] /\ owed \in [Stream -> 0 .. MaxPipeline]
  BY DEF ReleaseStream, UserStream, IInv, UserTypes
<1>2. /\ user'[0] = user[0] /\ owed'[0] = owed[0]
      /\ \A s \in UserStream : user[s] = "free" => user'[s] = "free"
  BY <1>1, StreamFacts
<1>3. Asks'
  BY <1>1, <1>2 DEF HInv, Asks, readyVars, sendVars, peerVars
<1>4. Alone'
  BY <1>1, <1>2 DEF HInv, Alone, readyVars
<1> QED
  BY <1>1, <1>3, <1>4, HandshakeFrame DEF HInv, peerVars

LEMMA SendMessageHandshake ==
    ASSUME IInv, HInv, NEW r \in Stream, SendMessage(r) PROVE HInv'
<1>1. /\ user' = [user EXCEPT ![r] = "sending"] /\ user[r] = "idle" /\ MaySend(r)
      /\ UNCHANGED <<readyVars, open, freeStreamIds, owed, sendPhase, chainFailed, receiveVars,
                     peerVars>>
      /\ user \in [Stream -> UserState]
  BY DEF SendMessage, MaySend, IInv, UserTypes
<1>2. /\ r # 0 => stage \notin Request /\ user'[0] = user[0]
      /\ r = 0 => /\ stage \in Request /\ owed[0] = 0 /\ reply = "none" /\ open
                  /\ \A s \in UserStream : user'[s] = user[s]
  <2>1. r # 0 => stage \notin Request /\ user'[0] = user[0]
    BY <1>1, OthersFree, StreamFacts
  <2>2. r = 0 => stage \in Request /\ owed[0] = 0 /\ reply = "none"
    BY <1>1 DEF MaySend
  <2>3. r = 0 => open
    BY <1>1, <2>2 DEF HInv, Alone
  <2>4. r = 0 => \A s \in UserStream : user'[s] = user[s]
    BY <1>1, StreamFacts DEF UserStream
  <2> QED
    BY <2>1, <2>2, <2>3, <2>4
<1>3. Asks'
  BY <1>1, <1>2 DEF HInv, Asks, readyVars, peerVars
<1>4. Alone'
  BY <1>1, <1>2 DEF HInv, Alone, readyVars
<1> QED
  BY <1>1, <1>3, <1>4, HandshakeFrame DEF HInv, peerVars

LEMMA TakeReceivedHandshake ==
    ASSUME IInv, HInv, NEW r \in Stream, TakeReceived(r) PROVE HInv'
<1>1. /\ owed' = [owed EXCEPT ![r] = @ - 1] /\ user[r] = "idle"
      /\ UNCHANGED <<readyVars, open, freeStreamIds, user, sendVars, receivingPromiseCount,
                     receiver, frame, failing, peerVars>>
      /\ owed \in [Stream -> 0 .. MaxPipeline]
  BY DEF TakeReceived, MayWait, IInv, UserTypes
<1>2. owed'[0] = owed[0] \/ (owed'[0] = owed[0] - 1 /\ user[0] = "idle")
  BY <1>1, StreamFacts
<1>3. owed'[0] <= 1 /\ (user[0] = "sending" => owed'[0] = 0)
  BY <1>2, StreamFacts, InFlightFacts DEF HInv, Asks
<1>4. Asks' /\ Alone'
  BY <1>1, <1>3 DEF HInv, Asks, Alone, readyVars, sendVars, peerVars
<1> QED
  BY <1>1, <1>4, HandshakeFrame DEF HInv, peerVars

LEMMA WaitNextMessageHandshake ==
    ASSUME IInv, HInv, NEW r \in Stream, WaitNextMessage(r) PROVE HInv'
<1>1. /\ user' = [user EXCEPT ![r] = "waiting"] /\ user[r] = "idle"
      /\ UNCHANGED <<readyVars, open, freeStreamIds, owed, sendVars, received, frame, peerVars>>
      /\ user \in [Stream -> UserState]
  BY DEF WaitNextMessage, MayWait, IInv, UserTypes
<1>2. /\ user'[0] = "sending" => user[0] = "sending"
      /\ user[0] = "failed" => user'[0] = "failed"
      /\ \A s \in UserStream : user[s] = "free" => user'[s] = "free"
  BY <1>1, StreamFacts
<1>3. Asks'
  BY <1>1, <1>2 DEF HInv, Asks, readyVars, sendVars, peerVars
<1>4. Alone'
  BY <1>1, <1>2 DEF HInv, Alone, readyVars
<1> QED
  BY <1>1, <1>3, <1>4, HandshakeFrame DEF HInv, peerVars

LEMMA PutHandshake == ASSUME IInv, HInv, Put PROVE HInv'
<1> DEFINE h == Head(sendQueue)
<1>1. /\ sendPhase = "queued" /\ sendPhase' = "putting" /\ open /\ sendQueue' = sendQueue
      /\ server' = [server EXCEPT ![h] = @ + 1] /\ server \in [Stream -> Nat]
      /\ UNCHANGED <<readyVars, open, user, owed, peer>> /\ sendQueue # <<>>
  BY DEF Put, IInv, PeerTypes
<1>2. h \in Stream /\ user[h] = "sending"
  BY <1>1, HeadAndTail
<1>3. h = 0 => reply = "none" /\ stage \in Request
  BY <1>1, <1>2 DEF HInv, Asks
<1>4. h # 0 => server'[0] = server[0]
  BY <1>1, StreamFacts
<1>5. Asks'
  BY <1>1, <1>3, <1>4 DEF HInv, Asks, readyVars
<1>6. Alone'
  BY <1>1 DEF HInv, Alone, readyVars
<1> QED
  BY <1>1, <1>5, <1>6, HandshakeFrame DEF HInv

LEMMA FlushHandshake == ASSUME IInv, HInv, Flush PROVE HInv'
<1>1. /\ sendPhase = "putting" /\ sendPhase' = "flushing"
      /\ UNCHANGED <<readyVars, open, freeStreamIds, user, owed, sendQueue, chainFailed,
                     receiveVars, peerVars>>
  BY DEF Flush
<1>2. Asks' /\ Alone'
  BY <1>1 DEF HInv, Asks, Alone, readyVars, peerVars
<1> QED
  BY <1>1, <1>2, HandshakeFrame DEF HInv, peerVars

LEMMA SendSucceedsHandshake == ASSUME IInv, HInv, SendSucceeds PROVE HInv'
<1> DEFINE h == Head(sendQueue)
<1>1. /\ user' = [user EXCEPT ![h] = "idle"] /\ owed' = [owed EXCEPT ![h] = @ + 1]
      /\ UNCHANGED <<readyVars, open, freeStreamIds, chainFailed, receiveVars, peerVars>>
      /\ user \in [Stream -> UserState] /\ owed \in [Stream -> 0 .. MaxPipeline]
      /\ sendQueue # <<>>
  BY DEF SendSucceeds, IInv, UserTypes, SendersQueued
<1>2. h \in Stream /\ user[h] = "sending"
  BY <1>1, HeadAndTail
<1> HIDE DEF h
<1>3. h = 0 => /\ user'[0] = "idle" /\ owed'[0] = 1 /\ stage \in Request /\ open
               /\ \A s \in UserStream : user'[s] = user[s]
  <2>1. h = 0 => owed[0] = 0 /\ stage \in Request
    BY <1>2 DEF HInv, Asks
  <2>2. h = 0 => user'[0] = "idle" /\ owed'[0] = 1
    BY <1>1, <2>1, StreamFacts
  <2>3. h = 0 => open
    BY <1>2, <2>1 DEF HInv, Alone
  <2>4. h = 0 => \A s \in UserStream : user'[s] = user[s]
    BY <1>1, StreamFacts DEF UserStream
  <2> QED
    BY <2>1, <2>2, <2>3, <2>4
<1>4. h # 0 => user'[0] = user[0] /\ owed'[0] = owed[0] /\ stage \notin Request
  BY <1>1, <1>2, OthersFree, StreamFacts
<1>5. Asks'
  BY <1>1, <1>3, <1>4 DEF HInv, Asks, readyVars, peerVars
<1>6. Alone'
  BY <1>1, <1>3, <1>4 DEF HInv, Alone, readyVars
<1> QED
  BY <1>1, <1>5, <1>6, HandshakeFrame DEF HInv, peerVars

LEMMA SendFailsHandshake == ASSUME IInv, HInv, SendFails PROVE HInv'
<1> DEFINE h == Head(sendQueue)
           states == [user EXCEPT ![h] = "failed"]
<1>1. /\ user \in [Stream -> UserState] /\ h \in Stream /\ user[h] = "sending"
  BY HeadAndTail DEF IInv, UserTypes, SendFails
<1>2. /\ Close(states, failing, receiver)
      /\ UNCHANGED <<config, stage, reply, owed>> /\ sendPhase' = "queued"
  BY DEF SendFails, FailAndClose
<1>3. \A s \in Stream : user'[s] = IF states[s] = "waiting" THEN "failed" ELSE states[s]
  BY <1>2 DEF Close
<1>4. \A s \in Stream : states[s] = IF s = h THEN "failed" ELSE user[s]
  BY <1>1
<1>5. stage \in Request => h = 0
  BY <1>1, OthersFree
<1> HIDE DEF states
<1>6. /\ user'[0] = "sending" => user[0] = "sending" /\ h # 0
      /\ \A s \in UserStream : user[s] = "free" => user'[s] = "free"
      /\ stage \in Request => user'[0] = "failed"
  BY <1>1, <1>3, <1>4, <1>5, StreamFacts
<1> QED
  BY <1>2, <1>6, ClosedHInv

\* Steps of the receiver and the wire that are nothing to ready().
LEMMA QuietHandshake ==
    ASSUME HInv, UNCHANGED <<readyVars, open, user, owed, sendVars, server, peer>>
    PROVE  HInv'
<1>1. Asks' /\ Alone'
  BY DEF HInv, Asks, Alone, readyVars, sendVars
<1> QED
  BY <1>1, HandshakeFrame DEF HInv

LEMMA DeliverToWaiterHandshake == ASSUME IInv, HInv, DeliverToWaiter PROVE HInv'
<1>1. /\ user' = [user EXCEPT ![frame] = "idle"] /\ owed' = [owed EXCEPT ![frame] = @ - 1]
      /\ UNCHANGED <<readyVars, open, freeStreamIds, sendVars, received, peerVars>>
      /\ user \in [Stream -> UserState] /\ owed \in [Stream -> 0 .. MaxPipeline]
      /\ frame \in Stream /\ user[frame] = "waiting"
  BY DEF DeliverToWaiter, IInv, UserTypes, Waiting
<1>2. /\ frame = 0 => user'[0] = "idle" /\ owed'[0] = owed[0] - 1
      /\ frame # 0 => user'[0] = user[0] /\ owed'[0] = owed[0]
      /\ \A s \in UserStream : user[s] = "free" => user'[s] = "free"
  BY <1>1, StreamFacts
<1>3. /\ owed'[0] <= 1
      /\ user'[0] = "sending" => user[0] = "sending" /\ owed'[0] = owed[0]
      /\ user[0] = "failed" => user'[0] = "failed"
  BY <1>1, <1>2, StreamFacts, InFlightFacts DEF HInv, Asks
<1>4. Asks'
  BY <1>1, <1>3 DEF HInv, Asks, readyVars, sendVars, peerVars
<1>5. Alone'
  BY <1>1, <1>2, <1>3 DEF HInv, Alone, readyVars
<1> QED
  BY <1>1, <1>4, <1>5, HandshakeFrame DEF HInv, peerVars

\* handle_exception of the receiver, and the close of a delivery.
LEMMA ReceiverClosesHandshake ==
    ASSUME IInv, HInv, NEW errors, NEW loop, Close(user, errors, loop),
           receiver # "off" \/ failing > 0,
           UNCHANGED <<config, stage, reply, owed, sendVars>>
    PROVE  HInv'
<1>1. \A s \in Stream : user'[s] = IF user[s] = "waiting" THEN "failed" ELSE user[s]
  BY DEF Close
<1>2. stage \in Request => user'[0] = "failed"
  BY <1>1, WaitingIsReady, StreamFacts
<1>3. /\ user'[0] = "sending" => user[0] = "sending"
      /\ \A s \in UserStream : user[s] = "free" => user'[s] = "free"
  BY <1>1, StreamFacts
<1> QED
  BY <1>2, <1>3, ClosedHInv DEF sendVars

LEMMA ReceiveHandshake == ASSUME IInv, HInv, ReceiveStep PROVE HInv'
<1>1. CASE ReadFrame
  BY <1>1, QuietHandshake DEF ReadFrame
<1>2. CASE ReadFails
  BY <1>2, QuietHandshake DEF ReadFails, peerVars
<1>3. CASE ReceiverFails
  BY <1>3, ReceiverClosesHandshake DEF ReceiverFails
<1>4. CASE DeliverToWaiter
  BY <1>4, DeliverToWaiterHandshake
<1>5. CASE DeliverToQueue
  BY <1>5, QuietHandshake DEF DeliverToQueue, peerVars
<1>6. CASE DecodeFails
  BY <1>6, QuietHandshake DEF DecodeFails, peerVars
<1>7. CASE DeliveryFails
  BY <1>7, ReceiverClosesHandshake DEF DeliveryFails
<1> QED
  BY <1>1, <1>2, <1>3, <1>4, <1>5, <1>6, <1>7 DEF ReceiveStep, Deliver

LEMMA ConnectHandshake == ASSUME IInv, HInv, Connect PROVE HInv'
<1>1. /\ stage = "connect" /\ stage' = "OPTIONS" /\ open' = TRUE
      /\ UNCHANGED <<config, reply, isReady, compressor, freeStreamIds, user, owed, sendVars,
                     receiveVars, peerVars>>
  BY DEF Connect
<1>2. ~open /\ (\A s \in UserStream : user[s] = "free")
  BY <1>1, StreamFacts DEF IInv, Unstarted, UserStream
<1>3. Asks'
  BY <1>1 DEF HInv, Asks, sendVars, peerVars, Request
<1>4. Alone'
  BY <1>1, <1>2 DEF Alone
<1>5. Handshake' /\ Ended'
  BY <1>1, <1>2 DEF HInv, Handshake, Ended, peerVars
<1> QED
  BY <1>3, <1>4, <1>5 DEF HInv

LEMMA ReplyAcceptedHandshake == ASSUME IInv, HInv, ReplyAccepted PROVE HInv'
<1>1. /\ user[0] = "idle" /\ owed[0] = 0 /\ reply # "none" /\ reply \in AcceptedReplies
      /\ stage \in Request
      /\ compressor' = IF stage = "OPTIONS" THEN config.compress /\ reply = "SUPPORTED lz4"
                       ELSE compressor
      /\ stage' = NextStage /\ isReady' = (stage' = "done") /\ reply' = "none"
      /\ UNCHANGED <<config, open, freeStreamIds, user, owed, sendVars, receiveVars, peerVars>>
  BY DEF ReplyAccepted, Replied, HInv, Asks
<1>2. open
  BY <1>1 DEF HInv, Alone
<1>3. server[0] = 0
  BY <1>1, <1>2, RequestedZero
<1>4. stage' \in {"STARTUP", "AUTH_RESPONSE", "QUERY", "done"}
  BY <1>1, NextStageType
<1>5. Asks'
  BY <1>1, <1>3 DEF HInv, Asks, sendVars, peerVars
<1>6. Alone'
  BY <1>1, <1>2 DEF HInv, Alone
<1>7. Ended'
  BY <1>1, <1>2, Zenon DEF Ended
<1>8. config.password \in BOOLEAN /\ config.keySpace \in BOOLEAN
  <2>1. config \in Configs
    BY DEF IInv, ReadyTypes
  <2> QED
    BY <2>1, ConnectionAssumption DEF Configs, ConnectionAssumption
<1>9. stage = "OPTIONS" \/ stage = "QUERY" \/ stage = "STARTUP" \/ stage = "AUTH_RESPONSE"
  BY <1>1 DEF Request
<1>10. UNCHANGED <<peer, config, open>>
  BY <1>1 DEF peerVars
<1>11. CASE stage = "OPTIONS"
  <2>1. stage' = "STARTUP"
    BY <1>1, <1>11 DEF NextStage
  <2>2. peer.at = "new" /\ peer.keySpace = FALSE
    BY <1>11 DEF HInv, Handshake
  <2> QED
    BY <1>1, <1>5, <1>6, <1>7, <1>10, <2>1, <2>2 DEF HInv, Handshake
<1>12. CASE stage = "STARTUP" /\ config.password
  <2>1. stage' = "AUTH_RESPONSE" /\ compressor' = compressor
    BY <1>1, <1>12 DEF NextStage
  <2>2. reply = "AUTHENTICATE"
    BY <1>1, <1>12 DEF AcceptedReplies, Authenticated
  <2>3. peer.at = "authenticating" /\ peer.keySpace = FALSE /\ peer.compression = compressor
    BY <1>2, <1>12, <2>2 DEF HInv, Handshake
  <2> QED
    BY <1>1, <1>5, <1>6, <1>7, <1>10, <1>12, <2>1, <2>3 DEF HInv, Handshake, Known
<1>13. CASE stage = "AUTH_RESPONSE" \/ (stage = "STARTUP" /\ ~config.password)
  <2>1. stage' = (IF config.keySpace THEN "QUERY" ELSE "done") /\ compressor' = compressor
    BY <1>1, <1>13 DEF NextStage
  <2>2. peer.at = "ready" /\ peer.keySpace = FALSE /\ peer.compression = compressor
    <3>1. CASE stage = "AUTH_RESPONSE"
      <4>1. reply = "AUTH_SUCCESS"
        <5>1. config.password
          BY <1>2, <3>1 DEF HInv, Handshake
        <5> QED
          BY <1>1, <3>1, <5>1 DEF AcceptedReplies, Authenticated
      <4> QED
        BY <1>2, <3>1, <4>1 DEF HInv, Handshake, Known
    <3>2. CASE stage = "STARTUP" /\ ~config.password
      <4>1. reply = "READY"
        BY <1>1, <3>2 DEF AcceptedReplies, AllowedAll
      <4> QED
        BY <1>2, <3>2, <4>1 DEF HInv, Handshake
    <3> QED
      BY <1>13, <3>1, <3>2
  <2>3. CASE config.keySpace
    BY <1>1, <1>5, <1>6, <1>7, <1>8, <1>10, <2>1, <2>2, <2>3 DEF HInv, Handshake, Known
  <2>4. CASE ~config.keySpace
    BY <1>1, <1>5, <1>6, <1>7, <1>8, <1>10, <2>1, <2>2, <2>4 DEF HInv, Handshake, Known
  <2> QED
    BY <2>3, <2>4
<1>14. CASE stage = "QUERY"
  <2>1. stage' = "done" /\ compressor' = compressor
    BY <1>1, <1>14 DEF NextStage
  <2>2. reply = "SET_KEYSPACE"
    BY <1>1, <1>14 DEF AcceptedReplies
  <2>3. /\ peer.at = "ready" /\ peer.keySpace = TRUE /\ peer.compression = compressor
        /\ config.keySpace = TRUE
    BY <1>2, <1>14, <2>2 DEF HInv, Handshake, Known
  <2> QED
    BY <1>1, <1>5, <1>6, <1>7, <1>10, <2>1, <2>3 DEF HInv, Handshake, Known
<1> QED
  BY <1>9, <1>11, <1>12, <1>13, <1>14, Zenon

LEMMA ReadyFailsHandshake == ASSUME IInv, HInv, ReadyFails PROVE HInv'
<1>1. /\ Close(user, failing, receiver) /\ stage' = "failed" /\ reply' = "none"
      /\ UNCHANGED <<config, freeStreamIds, owed, sendVars, received, frame>>
      /\ stage = "connect" \/ user[0] = "failed" \/ user[0] = "idle"
  BY DEF ReadyFails, Replied
<1>2. /\ open' = FALSE /\ isReady' = FALSE /\ server' = [s \in Stream |-> 0]
      /\ \A s \in Stream : user'[s] = IF user[s] = "waiting" THEN "failed" ELSE user[s]
  BY <1>1 DEF Close
<1>3. user[0] # "sending"
  BY <1>1, StreamFacts DEF IInv, Unstarted
<1>4. user'[0] # "sending" /\ server'[0] = 0 /\ \A s \in Stream : server'[s] = 0
  BY <1>2, <1>3, StreamFacts
<1>5. Asks'
  BY <1>1, <1>4 DEF HInv, Asks
<1>6. Alone' /\ Handshake' /\ Ended'
  BY <1>1, <1>2 DEF Alone, Handshake, Ended, Request
<1> QED
  BY <1>5, <1>6 DEF HInv

LEMMA ServerAnswersHandshake ==
    ASSUME IInv, HInv, NEW r \in Stream, ServerAnswers(r) PROVE HInv'
<1>1. /\ r # 0 /\ server[r] > 0 /\ server' = [server EXCEPT ![r] = @ - 1]
      /\ UNCHANGED <<config, stage, isReady, compressor, open, freeStreamIds, user, owed,
                     sendVars, receiveVars>>
      /\ reply' = reply /\ peer' = peer /\ server \in [Stream -> Nat]
  BY DEF ServerAnswers, Answer, IInv, PeerTypes
<1>2. server'[0] = server[0] /\ (\A s \in Stream : server'[s] > 0 => server[s] > 0)
  BY <1>1, StreamFacts
<1>3. Asks' /\ Alone'
  BY <1>1, <1>2 DEF HInv, Asks, Alone, sendVars
<1> QED
  BY <1>1, <1>3, HandshakeFrame DEF HInv, readyVars

LEMMA ServerAnswersReadyHandshake == ASSUME IInv, HInv, ServerAnswersReady PROVE HInv'
<1>1. stage \in Request /\ reply = "none" /\ open /\ Answer(0)
  BY ServerAnswersReadyFacts DEF HInv
<1>2. /\ server[0] > 0 /\ server' = [server EXCEPT ![0] = @ - 1]
      /\ UNCHANGED <<config, stage, isReady, compressor, open, freeStreamIds, user, owed,
                     sendVars, receiveVars>>
      /\ server \in [Stream -> Nat]
  BY <1>1 DEF Answer, IInv, PeerTypes
<1>3. server'[0] = 0
  BY <1>1, <1>2, RequestedZero, StreamFacts
<1>4. ~(user[0] = "sending" /\ (sendPhase = "queued" \/ Head(sendQueue) # 0))
  BY <1>1, <1>2, RequestedZero
<1>5. Asks'
  BY <1>1, <1>2, <1>3, <1>4 DEF HInv, Asks, sendVars
<1>6. Alone'
  BY <1>2 DEF HInv, Alone
<1>7. Ended'
  BY <1>2 DEF HInv, Ended
<1>8. stage = "OPTIONS" \/ stage = "QUERY" \/ stage = "STARTUP" \/ stage = "AUTH_RESPONSE"
  BY <1>1 DEF Request
<1>9. CASE stage = "OPTIONS"
  <2>1. reply' \in {"SUPPORTED lz4", "SUPPORTED", "ERROR"}
    BY <1>9, ServerAnswersReadyFacts DEF HInv
  <2>2. peer'.at = peer.at /\ peer'.keySpace = FALSE
    BY <2>1, ServerAnswersReadyFacts DEF HInv
  <2> QED
    BY <1>2, <1>5, <1>6, <1>7, <1>9, <2>2 DEF HInv, Handshake
<1>10. CASE stage = "STARTUP"
  <2>1. reply' \in {"READY", "AUTHENTICATE", "AUTHENTICATE other", "ERROR"}
    BY <1>10, ServerAnswersReadyFacts DEF HInv
  <2>2. /\ peer'.compression = compressor /\ peer'.keySpace = FALSE
        /\ reply' = "READY" => peer'.at = "ready"
        /\ reply' = "AUTHENTICATE" => peer'.at = "authenticating"
    BY <1>10, <2>1, ServerAnswersReadyFacts DEF HInv
  <2> QED
    BY <1>2, <1>5, <1>6, <1>7, <1>10, <2>1, <2>2 DEF HInv, Handshake
<1>11. CASE stage = "AUTH_RESPONSE"
  <2>1. reply' \in {"AUTH_SUCCESS", "ERROR"}
    BY <1>11, ServerAnswersReadyFacts DEF HInv
  <2>2. peer.at = "authenticating" /\ peer.compression = compressor
    BY <1>1, <1>11 DEF HInv, Handshake, Known
  <2>3. /\ peer'.compression = compressor /\ peer'.keySpace = FALSE
        /\ peer'.at = IF reply' = "AUTH_SUCCESS" THEN "ready" ELSE "authenticating"
    BY <1>11, <2>1, <2>2, ServerAnswersReadyFacts DEF HInv
  <2> QED
    BY <1>2, <1>5, <1>6, <1>7, <1>11, <2>3 DEF HInv, Handshake, Known
<1>12. CASE stage = "QUERY"
  <2>1. reply' \in {"SET_KEYSPACE", "ERROR"}
    BY <1>12, ServerAnswersReadyFacts DEF HInv
  <2>2. peer.at = "ready" /\ peer.compression = compressor /\ config.keySpace = TRUE
    BY <1>1, <1>12 DEF HInv, Handshake, Known
  <2>3. /\ peer'.compression = compressor /\ peer'.keySpace = (reply' = "SET_KEYSPACE")
        /\ peer'.at = "ready"
    BY <1>12, <2>1, <2>2, ServerAnswersReadyFacts DEF HInv
  <2> QED
    BY <1>2, <1>5, <1>6, <1>7, <1>12, <2>2, <2>3 DEF HInv, Handshake, Known
<1> QED
  BY <1>8, <1>9, <1>10, <1>11, <1>12

LEMMA HInvStep == ASSUME IInv, HInv, [Next]_vars PROVE HInv'
<1>1. CASE OpenStream
  BY <1>1, OpenStreamHandshake
<1>2. ASSUME NEW s \in UserStream, ReleaseStream(s) PROVE HInv'
  BY <1>2, ReleaseStreamHandshake
<1>3. ASSUME NEW s \in Stream, UserStep(s) \/ ServerAnswers(s) PROVE HInv'
  BY <1>3, SendMessageHandshake, TakeReceivedHandshake, WaitNextMessageHandshake,
     ServerAnswersHandshake DEF UserStep
<1>4. CASE ReadyStep
  BY <1>4, ConnectHandshake, ReplyAcceptedHandshake, ReadyFailsHandshake DEF ReadyStep
<1>5. CASE SendStep
  BY <1>5, PutHandshake, FlushHandshake, SendSucceedsHandshake, SendFailsHandshake DEF SendStep
<1>6. CASE ReceiveStep
  BY <1>6, ReceiveHandshake
<1>7. CASE ServerAnswersReady
  BY <1>7, ServerAnswersReadyHandshake
<1>8. CASE ServerSendsBadFrame
  BY <1>8, QuietHandshake DEF ServerSendsBadFrame
<1>9. CASE UNCHANGED vars
  BY <1>9, QuietHandshake DEF vars, peerVars
<1> QED
  BY <1>1, <1>2, <1>3, <1>4, <1>5, <1>6, <1>7, <1>8, <1>9 DEF Next

-----------------------------------------------------------------------------
(* Theorems *)

LEMMA Invariant == Spec => [](IInv /\ HInv)
<1>1. Init => IInv /\ HInv
  BY InitIInv, InitHInv
<1>2. IInv /\ HInv /\ [Next]_vars => (IInv /\ HInv)'
  <2>1. HInv => Asks
    BY DEF HInv
  <2> QED
    BY <2>1, IInvStep, HInvStep
<1> QED
  BY <1>1, <1>2, PTL DEF Spec

\* Every variable of a connection keeps its type whatever users, server and
\* network do; a received queue never grows past maxPendingMessages and no user
\* has more unanswered requests than it may have.
THEOREM TypeCorrect == Spec => []TypeOK
<1>1. IInv => TypeOK
  BY DEF IInv, ReadyTypes, UserTypes, SendTypes, ReceiveTypes, PeerTypes, Peers, TypeOK
<1> QED
  BY <1>1, Invariant, PTL

\* However sends, waits, deliveries and closes are interleaved, an open
\* connection has as many responses on the way to each stream as the user of
\* the stream has asked for, so the next user of a stream id that
\* ConnectionStream gives back never gets an old response.
THEOREM ResponsesAreMatched == Spec => []ResponsesMatched
<1>1. IInv => ResponsesMatched
  BY DEF IInv, Matched, Live, ResponsesMatched
<1> QED
  BY <1>1, Invariant, PTL

\* receivingPromiseCount_ is the number of the registered promises: the error
\* "incorrect receiving promise count" of the receiver is never reached.
THEOREM WaitersAreCounted == Spec => []WaitersCounted
<1>1. IInv => WaitersCounted
  BY DEF IInv
<1> QED
  BY <1>1, Invariant, PTL

\* Nobody is left in waitNextMessage without a receiver, or the error of one,
\* to come; and the receiver of an open connection never reads for nobody.
THEOREM ReceiverRuns == Spec => []ReceiverRunsForWaiters
<1>1. IInv => ReceiverRunsForWaiters
  BY DEF IInv, OneReceiver, Live, ReceiverRunsForWaiters
<1> QED
  BY <1>1, Invariant, PTL

\* A connection whose chain of sendingFuture_ has failed is closed.
THEOREM PoisonedConnectionsAreClosed == Spec => []NoPoisonedConnection
<1>1. IInv => NoPoisonedConnection
  BY DEF IInv, Healthy, Live, NoPoisonedConnection
<1> QED
  BY <1>1, Invariant, PTL

\* The close for a full received queue is the fault of the user of that stream
\* alone: it has more requests unanswered than the queue holds.
THEOREM FullQueueIsOwnFault == Spec => []QueueHoldsPipeline
<1>1. IInv => QueueHoldsPipeline
  <2> SUFFICES ASSUME IInv, open, receiver = "got", QueueFull
               PROVE  Requested(frame) > MaxPendingMessages
    BY DEF QueueHoldsPipeline
  <2>1. frame \in Stream /\ ~(received[frame] < MaxPendingMessages)
    BY DEF QueueFull, HasRoom
  <2>2. /\ server[frame] \in Nat /\ Times(frame, wire) \in Nat /\ received[frame] \in Nat
        /\ MaxPendingMessages \in Nat
    BY <2>1, InFlightFacts, ConnectionAssumption DEF ConnectionAssumption
  <2>3. InFlight(frame) = server[frame] + Times(frame, wire) + received[frame] + 1
    BY DEF InFlight
  <2>4. InFlight(frame) = Requested(frame)
    BY <2>1 DEF IInv, Matched, Live
  <2> QED
    BY <2>1, <2>2, <2>3, <2>4
<1> QED
  BY <1>1, Invariant, PTL

\* For every configuration and whatever the server answers, isReady_ means that
\* the server too has the connection for authenticated and in the keyspace, and
\* from STARTUP on the two never differ on compression.
THEOREM BothSidesAgree == Spec => []SidesAgree
<1>1. IInv /\ HInv => SidesAgree
  <2> SUFFICES ASSUME IInv, HInv PROVE SidesAgree
    OBVIOUS
  <2>1. isReady => open /\ peer.at = "ready" /\ peer.keySpace = config.keySpace
    BY DEF HInv, Ended, Handshake, Known
  <2>2. ASSUME open, peer.at # "new" PROVE peer.compression = compressor
    <3>1. stage \in Request \cup {"connect", "done", "failed"}
      BY DEF IInv, ReadyTypes
    <3>2. stage \notin {"connect", "OPTIONS", "failed"}
      BY <2>2 DEF HInv, Handshake
    <3> QED
      BY <2>2, <3>1, <3>2 DEF HInv, Handshake, Known, Request
  <2> QED
    BY <2>1, <2>2 DEF SidesAgree
<1> QED
  BY <1>1, Invariant, PTL

-----------------------------------------------------------------------------
(* The refinement of Channels *)

\* What is left to say of the streams nobody uses.
FreeOwesNothing == \A s \in Stream : user[s] = "free" => owed[s] = 0

LEMMA InitFreeOwes == Init => FreeOwesNothing
BY DEF Init, FreeOwesNothing

\* A close frees nobody.
LEMMA CloseFreesNobody ==
    ASSUME NEW states \in [Stream -> UserState], NEW errors, NEW loop,
           Close(states, errors, loop)
    PROVE  \A s \in Stream : user'[s] = "free" <=> states[s] = "free"
BY DEF Close

LEMMA FreeOwesStep == ASSUME IInv, FreeOwesNothing, [Next]_vars PROVE FreeOwesNothing'
<1>1. user \in [Stream -> UserState] /\ owed \in [Stream -> 0 .. MaxPipeline]
  BY DEF IInv, UserTypes
<1>2. ASSUME UNCHANGED owed, \A s \in Stream : user'[s] = "free" => user[s] = "free"
      PROVE  FreeOwesNothing'
  BY <1>2 DEF FreeOwesNothing
<1>3. CASE OpenStream
  <2>1. owed' = owed /\ \A s \in Stream : user'[s] = "free" => user[s] = "free"
    BY <1>1, <1>3 DEF OpenStream
  <2> QED
    BY <1>2, <2>1
<1>4. ASSUME NEW r \in UserStream, ReleaseStream(r) PROVE FreeOwesNothing'
  BY <1>1, <1>4 DEF ReleaseStream, FreeOwesNothing
<1>5. ASSUME NEW r \in Stream, UserStep(r) PROVE FreeOwesNothing'
  <2>1. CASE SendMessage(r)
    BY <1>1, <1>2, <2>1 DEF SendMessage
  <2>2. CASE TakeReceived(r)
    BY <1>1, <2>2 DEF TakeReceived, MayWait, FreeOwesNothing
  <2>3. CASE WaitNextMessage(r)
    BY <1>1, <1>2, <2>3 DEF WaitNextMessage
  <2> QED
    BY <1>5, <2>1, <2>2, <2>3 DEF UserStep
<1>6. CASE SendSucceeds
  <2>1. sendQueue # <<>>
    BY <1>6 DEF IInv, SendersQueued, SendSucceeds
  <2>2. Head(sendQueue) \in Stream
    BY <2>1, HeadAndTail
  <2> QED
    BY <1>1, <1>6, <2>2 DEF SendSucceeds, FreeOwesNothing
<1>7. CASE SendFails
  <2>1. Head(sendQueue) \in Stream
    BY <1>7, HeadAndTail DEF SendFails
  <2>2. [user EXCEPT ![Head(sendQueue)] = "failed"] \in [Stream -> UserState]
    BY <1>1 DEF UserState
  <2>3. \A s \in Stream : user'[s] = "free" => user[s] = "free"
    BY <1>1, <1>7, <2>1, <2>2, CloseFreesNobody DEF SendFails, FailAndClose
  <2> QED
    BY <1>2, <1>7, <2>3 DEF SendFails
<1>8. CASE ReceiverFails \/ DeliveryFails \/ ReadyFails
  BY <1>1, <1>2, <1>8, CloseFreesNobody DEF ReceiverFails, DeliveryFails, ReadyFails
<1>9. CASE DeliverToWaiter
  BY <1>1, <1>9 DEF DeliverToWaiter, Waiting, FreeOwesNothing
<1>10. CASE \/ Put \/ Flush \/ ReadFrame \/ ReadFails \/ DeliverToQueue \/ DecodeFails
            \/ Connect \/ ReplyAccepted \/ ServerSendsBadFrame \/ UNCHANGED vars
            \/ (\E r \in Stream : Answer(r))
  BY <1>1, <1>2, <1>10
  DEF Put, Flush, ReadFrame, ReadFails, DeliverToQueue, DecodeFails, Connect, ReplyAccepted,
      ServerSendsBadFrame, vars, Answer
<1> QED
  BY <1>3, <1>4, <1>5, <1>6, <1>7, <1>8, <1>9, <1>10, StreamFacts
  DEF Next, ReadyStep, SendStep, ReceiveStep, Deliver, ServerAnswers, ServerAnswersReady

-----------------------------------------------------------------------------
(* The mapping, stream by stream *)

LEMMA BarTypes ==
    ASSUME IInv
    PROVE  /\ userBar \in [Stream -> {"free", "using", "failed"}]
           /\ owedBar \in [Stream -> Nat] /\ requestsBar \in [Stream -> Nat]
           /\ repliesBar \in [Stream -> Nat]
<1>1. userBar \in [Stream -> {"free", "using", "failed"}]
  BY DEF userBar
<1>2. \A s \in Stream : Requested(s) \in Nat
  BY InFlightFacts DEF Requested
<1>3. owedBar \in [Stream -> Nat]
  BY <1>2 DEF owedBar
<1>4. requestsBar \in [Stream -> Nat]
  BY InFlightFacts DEF requestsBar
<1>5. repliesBar \in [Stream -> Nat]
  BY InFlightFacts DEF repliesBar
<1> QED
  BY <1>1, <1>3, <1>4, <1>5

\* Two functions on S that differ at x at most.
LEMMA ExceptAt ==
    ASSUME NEW S, NEW f, NEW g, NEW x \in S,
           f = [s \in S |-> f[s]], g = [s \in S |-> g[s]], \A s \in S \ {x} : g[s] = f[s]
    PROVE  g = [f EXCEPT ![x] = g[x]]
OBVIOUS

LEMMA SameEverywhere ==
    ASSUME NEW S, NEW f, NEW g,
           f = [s \in S |-> f[s]], g = [s \in S |-> g[s]], \A s \in S : g[s] = f[s]
    PROVE  g = f
OBVIOUS

LEMMA BarFunctions ==
    /\ owedBar = [s \in Stream |-> owedBar[s]] /\ owedBar' = [s \in Stream |-> owedBar'[s]]
    /\ requestsBar = [s \in Stream |-> requestsBar[s]]
    /\ requestsBar' = [s \in Stream |-> requestsBar'[s]]
    /\ repliesBar = [s \in Stream |-> repliesBar[s]]
    /\ repliesBar' = [s \in Stream |-> repliesBar'[s]]
<1>1. owedBar = [s \in Stream |-> owedBar[s]] /\ owedBar' = [s \in Stream |-> owedBar'[s]]
  BY DEF owedBar
<1>2. /\ requestsBar = [s \in Stream |-> requestsBar[s]]
      /\ requestsBar' = [s \in Stream |-> requestsBar'[s]]
  BY DEF requestsBar
<1>3. /\ repliesBar = [s \in Stream |-> repliesBar[s]]
      /\ repliesBar' = [s \in Stream |-> repliesBar'[s]]
  BY DEF repliesBar
<1> QED
  BY <1>1, <1>2, <1>3

\* A step of the chain or of a user that nobody sees.
LEMMA UserUnseen ==
    ASSUME \A s \in Stream : /\ user[s] = "free" <=> user'[s] = "free"
                             /\ user[s] = "failed" <=> user'[s] = "failed"
    PROVE  userBar' = userBar
BY DEF userBar

LEMMA OwedUnseen ==
    ASSUME \A s \in Stream : /\ user[s] = "free" <=> user'[s] = "free"
                             /\ user[s] = "failed" <=> user'[s] = "failed"
                             /\ Requested(s)' = Requested(s)
    PROVE  owedBar' = owedBar
BY DEF owedBar

LEMMA RequestsUnseen ==
    UNCHANGED <<server, wire>> => UNCHANGED requestsBar
BY DEF requestsBar

LEMMA RepliesUnseen ==
    UNCHANGED <<received, receiver, frame>> => UNCHANGED repliesBar
BY DEF repliesBar

LEMMA OpenUnseen == UNCHANGED <<open, stage>> => UNCHANGED openBar
BY DEF openBar

-----------------------------------------------------------------------------
(* The steps of a connection as steps of its channels *)

LEMMA OpenStreamTakes ==
    ASSUME IInv, FreeOwesNothing, OpenStream
    PROVE  \E s \in Stream : Users!Take(s)
<1> DEFINE x == freeStreamIds[Len(freeStreamIds)]
<1>1. /\ user \in [Stream -> UserState] /\ user' = [user EXCEPT ![x] = "idle"]
      /\ UNCHANGED <<readyVars, open, owed, sendVars, receiveVars, peerVars>>
  BY DEF OpenStream, IInv, UserTypes
<1>2. x \in Stream /\ user[x] = "free"
  <2>1. Len(freeStreamIds) \in DOMAIN freeStreamIds
    BY DEF OpenStream, IInv, UserTypes
  <2> QED
    BY <2>1, IdsAreStreams DEF IInv, IdsFree
<1> HIDE DEF x
<1>3. sendPhase = "queued" \/ Head(sendQueue) # x
  BY <1>2, HeadAndTail DEF IInv, SendersQueued
<1>4. \A s \in Stream : Requested(s)' = Requested(s)
  BY <1>1 DEF Requested, sendVars
<1>5. userBar[x] = "free" /\ userBar' = [userBar EXCEPT ![x] = "using"]
  BY <1>1, <1>2 DEF userBar
<1>6. owedBar' = owedBar
  <2>1. Requested(x) = 0
    BY <1>2, <1>3, InFlightFacts DEF Requested, FreeOwesNothing
  <2>2. \A s \in Stream : owedBar'[s] = owedBar[s]
    BY <1>1, <1>2, <1>4, <2>1 DEF owedBar
  <2> QED
    BY <2>2, BarFunctions, SameEverywhere
<1>7. UNCHANGED <<openBar, requestsBar, repliesBar>>
  BY <1>1, OpenUnseen, RequestsUnseen, RepliesUnseen DEF readyVars, receiveVars, peerVars
<1> QED
  BY <1>2, <1>5, <1>6, <1>7 DEF Users!Take

LEMMA ReleaseStreamGives ==
    ASSUME IInv, NEW r \in UserStream, ReleaseStream(r)
    PROVE  Users!Give(r)
<1>1. /\ user \in [Stream -> UserState] /\ user' = [user EXCEPT ![r] = "free"]
      /\ owed \in [Stream -> 0 .. MaxPipeline] /\ owed' = [owed EXCEPT ![r] = 0]
      /\ user[r] = "failed" \/ (user[r] = "idle" /\ owed[r] = 0)
      /\ UNCHANGED <<readyVars, open, sendVars, receiveVars, peerVars>> /\ r \in Stream
  BY StreamFacts DEF ReleaseStream, IsDone, IInv, UserTypes
<1>2. sendPhase = "queued" \/ Head(sendQueue) # r
  BY <1>1, HeadAndTail DEF IInv, SendersQueued
<1>3. user[r] = "idle" => Requested(r) = 0
  BY <1>1, <1>2 DEF Requested
<1>4. /\ userBar[r] = "failed" \/ (userBar[r] = "using" /\ owedBar[r] = 0)
      /\ userBar' = [userBar EXCEPT ![r] = "free"] /\ owedBar[r] = 0
  BY <1>1, <1>3 DEF userBar, owedBar
<1>5. owedBar' = owedBar
  <2>1. \A s \in Stream : s # r => Requested(s)' = Requested(s) /\ user'[s] = user[s]
    BY <1>1 DEF Requested, sendVars
  <2>2. user'[r] = "free"
    BY <1>1
  <2>3. \A s \in Stream : owedBar'[s] = owedBar[s]
    BY <1>4, <2>1, <2>2 DEF owedBar
  <2> QED
    BY <2>3, BarFunctions, SameEverywhere
<1>6. UNCHANGED <<openBar, requestsBar, repliesBar>>
  BY <1>1, OpenUnseen, RequestsUnseen, RepliesUnseen DEF readyVars, receiveVars, peerVars
<1> QED
  BY <1>4, <1>5, <1>6 DEF Users!Give

LEMMA SendMessageUnseen ==
    ASSUME IInv, NEW r \in Stream, SendMessage(r)
    PROVE  UNCHANGED Users!vars
<1>1. /\ user \in [Stream -> UserState] /\ user' = [user EXCEPT ![r] = "sending"]
      /\ user[r] = "idle" /\ sendQueue' = Append(sendQueue, r) /\ sendQueue \in Seq(Stream)
      /\ UNCHANGED <<readyVars, open, owed, sendPhase, receiveVars, peerVars>>
  BY DEF SendMessage, MaySend, IInv, UserTypes, SendTypes
<1>2. sendQueue # <<>> => Head(sendQueue') = Head(sendQueue)
  BY <1>1
<1>3. \A s \in Stream : Requested(s)' = Requested(s)
  BY <1>1, <1>2 DEF Requested, IInv, SendersQueued
<1>4. \A s \in Stream : /\ user[s] = "free" <=> user'[s] = "free"
                        /\ user[s] = "failed" <=> user'[s] = "failed"
  BY <1>1
<1>5. UNCHANGED <<openBar, requestsBar, repliesBar>>
  BY <1>1, OpenUnseen, RequestsUnseen, RepliesUnseen DEF readyVars, receiveVars, peerVars
<1> QED
  BY <1>3, <1>4, <1>5, UserUnseen, OwedUnseen DEF Users!vars

LEMMA PutSends ==
    ASSUME IInv, Put
    PROVE  \E s \in Stream : Users!Send(s)
<1> DEFINE h == Head(sendQueue)
<1>1. /\ sendQueue # <<>> /\ sendPhase = "queued" /\ sendPhase' = "putting" /\ open
      /\ server' = [server EXCEPT ![h] = @ + 1] /\ server \in [Stream -> Nat]
      /\ UNCHANGED <<readyVars, open, user, owed, sendQueue, receiveVars, wire>>
  BY DEF Put, IInv, PeerTypes
<1>2. h \in Stream /\ user[h] = "sending"
  BY <1>1, HeadAndTail
<1>3. \A s \in Stream : /\ Requested(s) = owed[s] /\ owed[s] \in Nat
                        /\ Requested(s)' = owed[s] + (IF s = h THEN 1 ELSE 0)
  BY <1>1, InFlightFacts DEF Requested
<1> HIDE DEF h
<1>4. userBar[h] = "using" /\ h \in openBar
  BY <1>1, <1>2 DEF userBar, openBar
<1>5. owedBar' = [owedBar EXCEPT ![h] = @ + 1]
  <2>1. \A s \in Stream : owedBar'[s] = owedBar[s] + (IF s = h THEN 1 ELSE 0)
    BY <1>1, <1>2, <1>3 DEF owedBar
  <2> QED
    BY <1>2, <2>1, BarFunctions, BarTypes, ExceptAt
<1>6. requestsBar' = [requestsBar EXCEPT ![h] = @ + 1]
  <2>1. \A s \in Stream : requestsBar'[s] = requestsBar[s] + (IF s = h THEN 1 ELSE 0)
    BY <1>1, <1>2, InFlightFacts DEF requestsBar
  <2> QED
    BY <1>2, <2>1, BarFunctions, BarTypes, ExceptAt
<1>7. UNCHANGED <<openBar, userBar, repliesBar>>
  BY <1>1, OpenUnseen, UserUnseen, RepliesUnseen DEF readyVars, receiveVars
<1> QED
  BY <1>2, <1>4, <1>5, <1>6, <1>7 DEF Users!Send

LEMMA FlushUnseen == ASSUME IInv, Flush PROVE UNCHANGED Users!vars
<1>1. /\ sendPhase = "putting" /\ sendPhase' = "flushing"
      /\ UNCHANGED <<readyVars, open, user, owed, sendQueue, receiveVars, peerVars>>
  BY DEF Flush
<1>2. \A s \in Stream : Requested(s)' = Requested(s)
  BY <1>1 DEF Requested
<1> QED
  BY <1>1, <1>2, UserUnseen, OwedUnseen, OpenUnseen, RequestsUnseen, RepliesUnseen
  DEF Users!vars, readyVars, receiveVars, peerVars

LEMMA SendSucceedsUnseen == ASSUME IInv, SendSucceeds PROVE UNCHANGED Users!vars
<1> DEFINE h == Head(sendQueue)
<1>1. /\ sendPhase = "flushing" /\ sendQueue # <<>> /\ sendPhase' = "queued"
      /\ user' = [user EXCEPT ![h] = "idle"] /\ owed' = [owed EXCEPT ![h] = @ + 1]
      /\ user \in [Stream -> UserState] /\ owed \in [Stream -> 0 .. MaxPipeline]
      /\ UNCHANGED <<readyVars, open, receiveVars, peerVars>>
  BY DEF SendSucceeds, IInv, UserTypes, SendersQueued
<1>2. h \in Stream /\ user[h] = "sending"
  BY <1>1, HeadAndTail
<1>3. \A s \in Stream : Requested(s) = owed[s] + (IF s = h THEN 1 ELSE 0)
  BY <1>1 DEF Requested
<1> HIDE DEF h
<1>4. \A s \in Stream : Requested(s)' = Requested(s)
  BY <1>1, <1>2, <1>3, InFlightFacts DEF Requested
<1>5. \A s \in Stream : /\ user[s] = "free" <=> user'[s] = "free"
                        /\ user[s] = "failed" <=> user'[s] = "failed"
  BY <1>1, <1>2
<1> QED
  BY <1>1, <1>4, <1>5, UserUnseen, OwedUnseen, OpenUnseen, RequestsUnseen, RepliesUnseen
  DEF Users!vars, readyVars, receiveVars, peerVars

LEMMA TakeReceivedReads ==
    ASSUME IInv, NEW r \in Stream, TakeReceived(r)
    PROVE  Users!Read(r)
<1>1. /\ user[r] = "idle" /\ owed[r] > 0 /\ received[r] > 0
      /\ received' = [received EXCEPT ![r] = @ - 1] /\ owed' = [owed EXCEPT ![r] = @ - 1]
      /\ owed \in [Stream -> 0 .. MaxPipeline] /\ received \in [Stream -> 0 .. MaxPendingMessages]
      /\ UNCHANGED <<readyVars, open, user, sendVars, receiver, frame, peerVars>>
  BY DEF TakeReceived, MayWait, IInv, UserTypes, ReceiveTypes
<1>2. /\ owed[r] \in Nat /\ received[r] \in Nat
      /\ \A s \in Stream : /\ owed'[s] = owed[s] - (IF s = r THEN 1 ELSE 0)
                           /\ received'[s] = received[s] - (IF s = r THEN 1 ELSE 0)
  BY <1>1, InFlightFacts
<1>3. /\ Requested(r) >= owed[r] /\ Requested(r) \in Nat
      /\ \A s \in Stream : Requested(s)' = Requested(s) - (IF s = r THEN 1 ELSE 0)
  BY <1>1, <1>2, InFlightFacts DEF Requested, sendVars
<1>4. userBar[r] = "using" /\ owedBar[r] > 0 /\ repliesBar[r] > 0
  BY <1>1, <1>2, <1>3 DEF userBar, owedBar, repliesBar
<1>5. owedBar' = [owedBar EXCEPT ![r] = @ - 1]
  <2>1. \A s \in Stream : owedBar'[s] = owedBar[s] - (IF s = r THEN 1 ELSE 0)
    BY <1>1, <1>3, BarTypes DEF owedBar
  <2> QED
    BY <2>1, BarFunctions, BarTypes, ExceptAt
<1>6. repliesBar' = [repliesBar EXCEPT ![r] = @ - 1]
  <2>1. \A s \in Stream : repliesBar'[s] = repliesBar[s] - (IF s = r THEN 1 ELSE 0)
    BY <1>1, <1>2, InFlightFacts DEF repliesBar
  <2> QED
    BY <2>1, BarFunctions, BarTypes, ExceptAt
<1>7. UNCHANGED <<openBar, userBar, requestsBar>>
  BY <1>1, OpenUnseen, UserUnseen, RequestsUnseen DEF readyVars, peerVars
<1> QED
  BY <1>4, <1>5, <1>6, <1>7 DEF Users!Read

LEMMA WaitNextMessageUnseen ==
    ASSUME IInv, NEW r \in Stream, WaitNextMessage(r)
    PROVE  UNCHANGED Users!vars
<1>1. /\ user \in [Stream -> UserState] /\ user' = [user EXCEPT ![r] = "waiting"]
      /\ user[r] = "idle" /\ receiver' \in {receiver, "reading"}
      /\ UNCHANGED <<readyVars, open, owed, sendVars, received, frame, peerVars>>
  BY DEF WaitNextMessage, MayWait, StartReceiver, IInv, UserTypes
<1>2. \A s \in Stream : /\ user[s] = "free" <=> user'[s] = "free"
                        /\ user[s] = "failed" <=> user'[s] = "failed"
                        /\ Requested(s)' = Requested(s)
  BY <1>1 DEF Requested, sendVars
<1>3. repliesBar' = repliesBar
  <2>1. CASE receiver = "got"
    <3>1. receiver' = receiver
      <4>1. receivingPromiseCount = 0 => Waiting = {}
        BY WaitingFinite, FS_EmptySet DEF IInv, WaitersCounted
      <4>2. receivingPromiseCount = 0 => ~open
        BY <2>1, <4>1 DEF IInv, OneReceiver, Live
      <4> QED
        BY <4>2 DEF WaitNextMessage, StartReceiver
    <3> QED
      BY <1>1, <3>1, RepliesUnseen
  <2>2. CASE receiver # "got"
    <3>1. receiver' # "got"
      BY <1>1, <2>2
    <3> QED
      BY <1>1, <2>2, <3>1 DEF repliesBar
  <2> QED
    BY <2>1, <2>2
<1> QED
  BY <1>1, <1>2, <1>3, UserUnseen, OwedUnseen, OpenUnseen, RequestsUnseen
  DEF Users!vars, readyVars, peerVars

\* A frame with a stream id is an answer to that stream, another one nothing.
LEMMA ReadFrameAnswers ==
    ASSUME IInv, ReadFrame
    PROVE  (\E s \in Stream : Users!Answer(s)) \/ UNCHANGED Users!vars
<1> DEFINE h == Head(wire)
<1>1. /\ wire \in Seq(Frame) /\ wire # <<>> /\ h \in Frame /\ Tail(wire) \in Seq(Frame)
      /\ receiver = "reading" /\ receiver' = "got" /\ frame' = h /\ wire' = Tail(wire)
      /\ UNCHANGED <<readyVars, open, user, owed, sendVars, received, server>>
  BY DEF ReadFrame, IInv, PeerTypes
<1>2. \A s \in Stream : /\ Times(s, wire) = Times(s, wire') + (IF h = s THEN 1 ELSE 0)
                        /\ Times(s, wire') \in Nat
  BY <1>1, TimesTail, TimesType
<1> HIDE DEF h
<1>3. \A s \in Stream :
         /\ requestsBar[s] = requestsBar'[s] + (IF s = h THEN 1 ELSE 0)
         /\ requestsBar'[s] \in Nat
  BY <1>1, <1>2, InFlightFacts DEF requestsBar
<1>4. \A s \in Stream : repliesBar'[s] = repliesBar[s] + (IF s = h THEN 1 ELSE 0)
  BY <1>1, InFlightFacts DEF repliesBar
<1>5. UNCHANGED <<openBar, userBar, owedBar>>
  BY <1>1, OpenUnseen, UserUnseen, OwedUnseen DEF Requested, readyVars, sendVars
<1>6. CASE h \in Stream
  <2>1. requestsBar[h] > 0 /\ requestsBar' = [requestsBar EXCEPT ![h] = @ - 1]
    BY <1>3, <1>6, BarFunctions, ExceptAt
  <2>2. repliesBar' = [repliesBar EXCEPT ![h] = @ + 1]
    BY <1>4, <1>6, BarFunctions, BarTypes, ExceptAt
  <2> QED
    BY <1>5, <1>6, <2>1, <2>2 DEF Users!Answer
<1>7. CASE h \notin Stream
  <2>1. requestsBar' = requestsBar
    BY <1>3, <1>7, BarFunctions, SameEverywhere
  <2>2. repliesBar' = repliesBar
    BY <1>4, <1>7, BarFunctions, BarTypes, SameEverywhere
  <2> QED
    BY <1>5, <2>1, <2>2 DEF Users!vars
<1> QED
  BY <1>6, <1>7

LEMMA ReadFailsUnseen == ASSUME IInv, ReadFails PROVE UNCHANGED Users!vars
<1>1. /\ receiver = "reading" /\ receiver' = "off"
      /\ UNCHANGED <<readyVars, open, user, owed, sendVars, received, frame, peerVars>>
  BY DEF ReadFails
<1>2. repliesBar' = repliesBar
  BY <1>1 DEF repliesBar
<1> QED
  BY <1>1, <1>2, UserUnseen, OwedUnseen, OpenUnseen, RequestsUnseen
  DEF Users!vars, Requested, readyVars, sendVars, peerVars

LEMMA DeliverToWaiterReads ==
    ASSUME IInv, DeliverToWaiter
    PROVE  \E s \in Stream : Users!Read(s)
<1>1. /\ receiver = "got" /\ frame \in Stream /\ user[frame] = "waiting" /\ owed[frame] > 0
      /\ user' = [user EXCEPT ![frame] = "idle"] /\ owed' = [owed EXCEPT ![frame] = @ - 1]
      /\ user \in [Stream -> UserState] /\ owed \in [Stream -> 0 .. MaxPipeline]
      /\ frame' = BadFrame
      /\ UNCHANGED <<readyVars, open, sendVars, received, peerVars>>
  BY DEF DeliverToWaiter, ReadOn, Waiting, IInv, UserTypes, OwedBounds
<1>2. \A s \in Stream : owed'[s] = owed[s] - (IF s = frame THEN 1 ELSE 0)
  BY <1>1, InFlightFacts
<1>3. /\ Requested(frame) >= owed[frame] /\ Requested(frame) \in Nat
      /\ \A s \in Stream : Requested(s)' = Requested(s) - (IF s = frame THEN 1 ELSE 0)
  BY <1>1, <1>2, InFlightFacts DEF Requested, sendVars
<1>4. \A s \in Stream : repliesBar'[s] = repliesBar[s] - (IF s = frame THEN 1 ELSE 0)
  BY <1>1, StreamFacts, InFlightFacts DEF repliesBar
<1>5. userBar[frame] = "using" /\ owedBar[frame] > 0 /\ repliesBar[frame] > 0
  BY <1>1, <1>3, InFlightFacts DEF userBar, owedBar, repliesBar
<1>6. \A s \in Stream : owedBar'[s] = owedBar[s] - (IF s = frame THEN 1 ELSE 0)
  BY <1>1, <1>3, BarTypes DEF owedBar
<1>7. /\ owedBar' = [owedBar EXCEPT ![frame] = @ - 1]
      /\ repliesBar' = [repliesBar EXCEPT ![frame] = @ - 1]
  <2>1. owedBar'[frame] = owedBar[frame] - 1 /\ repliesBar'[frame] = repliesBar[frame] - 1
    BY <1>1, <1>4, <1>6
  <2>2. \A s \in Stream \ {frame} : owedBar'[s] = owedBar[s] /\ repliesBar'[s] = repliesBar[s]
    BY <1>4, <1>6, BarTypes
  <2>3. owedBar' = [owedBar EXCEPT ![frame] = owedBar'[frame]]
    BY <1>1, <2>2, BarFunctions, ExceptAt
  <2>4. repliesBar' = [repliesBar EXCEPT ![frame] = repliesBar'[frame]]
    BY <1>1, <2>2, BarFunctions, ExceptAt
  <2> QED
    BY <2>1, <2>3, <2>4
<1>8. userBar' = userBar
  <2>1. \A s \in Stream : /\ user[s] = "free" <=> user'[s] = "free"
                          /\ user[s] = "failed" <=> user'[s] = "failed"
    BY <1>1
  <2> QED
    BY <2>1, UserUnseen
<1> QED
  BY <1>1, <1>5, <1>7, <1>8, OpenUnseen, RequestsUnseen DEF Users!Read, readyVars, peerVars

LEMMA DeliverToQueueUnseen == ASSUME IInv, DeliverToQueue PROVE UNCHANGED Users!vars
<1>1. /\ receiver = "got" /\ frame \in Stream /\ frame' = BadFrame
      /\ received' = [received EXCEPT ![frame] = @ + 1]
      /\ received \in [Stream -> 0 .. MaxPendingMessages]
      /\ UNCHANGED <<readyVars, open, user, owed, sendVars, peerVars>>
  BY DEF DeliverToQueue, ReadOn, IInv, ReceiveTypes
<1>2. \A s \in Stream : received'[s] = received[s] + (IF s = frame THEN 1 ELSE 0)
  BY <1>1, InFlightFacts
<1>3. \A s \in Stream : repliesBar'[s] = repliesBar[s]
  BY <1>1, <1>2, StreamFacts, InFlightFacts DEF repliesBar
<1>4. repliesBar' = repliesBar
  BY <1>3, BarFunctions, SameEverywhere
<1> QED
  BY <1>1, <1>4, UserUnseen, OwedUnseen, OpenUnseen, RequestsUnseen
  DEF Users!vars, Requested, readyVars, sendVars, peerVars

LEMMA DecodeFailsUnseen == ASSUME IInv, DecodeFails PROVE UNCHANGED Users!vars
<1>1. /\ receiver = "got" /\ frame = BadFrame /\ receiver' = "off"
      /\ UNCHANGED <<readyVars, open, user, owed, sendVars, received, frame, peerVars>>
  BY DEF DecodeFails
<1>2. repliesBar' = repliesBar
  BY <1>1, StreamFacts DEF repliesBar
<1> QED
  BY <1>1, <1>2, UserUnseen, OwedUnseen, OpenUnseen, RequestsUnseen
  DEF Users!vars, Requested, readyVars, sendVars, peerVars

\* Whoever closes, the users it fails are those that wait and, in `states`, one
\* whose own send has failed.
LEMMA ClosedLoses ==
    ASSUME IInv, NEW states \in [Stream -> UserState], NEW errors,
           NEW loop \in {"off", "reading", "got"},
           Close(states, errors, loop), stage' # "connect",
           \A s \in Stream : states[s] = user[s] \/ (states[s] = "failed" /\ user[s] = "sending"),
           \A s \in Stream : states[s] # "failed" => Requested(s)' = Requested(s),
           UNCHANGED received, loop = "got" => receiver = "got", frame' \in {frame, BadFrame}
    PROVE  Users!Lose(Stream)
<1> DEFINE F == {s \in Stream : user[s] \notin {"free", "failed"} /\ user'[s] = "failed"}
<1>1. \A s \in Stream : user'[s] = IF states[s] = "waiting" THEN "failed" ELSE states[s]
  BY DEF Close
<1>2. \A s \in Stream : /\ user'[s] = "free" <=> user[s] = "free"
                        /\ user[s] = "failed" => user'[s] = "failed"
                        /\ user'[s] # "failed" => states[s] # "failed"
  BY <1>1
<1>3. openBar' = openBar \ Stream
  BY DEF Close, openBar
<1>4. requestsBar' = [s \in Stream |-> IF s \in Stream THEN 0 ELSE requestsBar[s]]
  <2>1. wire' = <<>> /\ server' = [s \in Stream |-> 0]
    BY DEF Close
  <2>2. \A s \in Stream : requestsBar'[s] = 0
    BY <2>1, TimesEmpty DEF requestsBar
  <2> QED
    BY <2>2, BarFunctions
<1>5. repliesBar' \in [Stream -> Nat] /\ \A s \in Stream : repliesBar'[s] <= repliesBar[s]
  <2>1. receiver' = "got" => receiver = "got"
    BY DEF Close
  <2>2. \A s \in Stream : /\ received[s] \in Nat
                          /\ receiver' = "got" /\ frame' = s => receiver = "got" /\ frame = s
    BY <2>1, StreamFacts, InFlightFacts
  <2> QED
    BY <2>2 DEF repliesBar
<1>6. \A s \in F : userBar[s] = "using"
  BY DEF userBar
<1>7. userBar' = [s \in Stream |-> IF s \in F THEN "failed" ELSE userBar[s]]
  <2>1. \A s \in Stream : (IF user'[s] \in {"free", "failed"} THEN user'[s] ELSE "using")
                          = IF s \in F THEN "failed" ELSE userBar[s]
    BY <1>2 DEF userBar
  <2> QED
    BY <2>1 DEF userBar
<1>8. owedBar' = [s \in Stream |-> IF s \in F THEN 0 ELSE owedBar[s]]
  <2>1. \A s \in Stream : (IF user'[s] \in {"free", "failed"} THEN 0 ELSE Requested(s)')
                          = IF s \in F THEN 0 ELSE owedBar[s]
    BY <1>2 DEF owedBar
  <2> QED
    BY <2>1 DEF owedBar
<1>9. F \in SUBSET Stream /\ Users!Fail(F)
  BY <1>6, <1>7, <1>8 DEF Users!Fail
<1> QED
  BY <1>3, <1>4, <1>5, <1>9 DEF Users!Lose

LEMMA SendFailsLoses == ASSUME IInv, SendFails PROVE Users!Lose(Stream)
<1> DEFINE h == Head(sendQueue)
           states == [user EXCEPT ![h] = "failed"]
<1>1. /\ sendQueue # <<>> /\ Close(states, failing, receiver)
      /\ sendQueue' = Tail(sendQueue) /\ sendPhase' = "queued"
      /\ UNCHANGED <<stage, owed, received, frame>>
      /\ user \in [Stream -> UserState] /\ receiver \in {"off", "reading", "got"}
  BY DEF SendFails, FailAndClose, NextSends, IInv, UserTypes, ReceiveTypes
<1>2. h \in Stream /\ user[h] = "sending"
  BY <1>1, HeadAndTail
<1>3. stage' # "connect"
  BY <1>1 DEF IInv, Unstarted
<1>4. states \in [Stream -> UserState]
  BY <1>1 DEF UserState
<1>5. \A s \in Stream : states[s] = IF s = h THEN "failed" ELSE user[s]
  BY <1>1
<1>6. \A s \in Stream : states[s] # "failed" => Requested(s)' = Requested(s)
  BY <1>1, <1>5 DEF Requested
<1> HIDE DEF h, states
<1>7. \A s \in Stream : states[s] = user[s] \/ (states[s] = "failed" /\ user[s] = "sending")
  BY <1>2, <1>5
<1> QED
  BY <1>1, <1>3, <1>4, <1>6, <1>7, ClosedLoses

LEMMA OthersLose ==
    ASSUME IInv, ReceiverFails \/ DeliveryFails \/ ReadyFails
    PROVE  Users!Lose(Stream)
<1>1. /\ user \in [Stream -> UserState] /\ receiver \in {"off", "reading", "got"}
      /\ failing \in Nat
  BY DEF IInv, UserTypes, ReceiveTypes
<1>2. UNCHANGED <<owed, sendVars, received>> /\ frame' \in {frame, BadFrame}
  BY DEF ReceiverFails, DeliveryFails, ReadyFails
<1>3. \A s \in Stream : Requested(s)' = Requested(s)
  BY <1>2 DEF Requested, sendVars
<1>4. stage' # "connect"
  BY <1>1 DEF IInv, Unstarted, ReceiverFails, DeliveryFails, ReadyFails
<1>5. \/ Close(user, failing - 1, receiver)
      \/ Close(user, failing, "off") /\ receiver = "got"
      \/ Close(user, failing, receiver)
  BY DEF ReceiverFails, DeliveryFails, ReadyFails
<1> QED
  BY <1>1, <1>2, <1>3, <1>4, <1>5, ClosedLoses

LEMMA ConnectUnseen == ASSUME Connect PROVE UNCHANGED Users!vars
<1>1. /\ stage = "connect" /\ open'
      /\ UNCHANGED <<user, owed, sendVars, receiveVars, peerVars>>
  BY DEF Connect
<1>2. openBar' = openBar
  BY <1>1 DEF openBar
<1> QED
  BY <1>1, <1>2, UserUnseen, OwedUnseen, RequestsUnseen, RepliesUnseen
  DEF Users!vars, Requested, sendVars, receiveVars, peerVars

LEMMA ReplyAcceptedUnseen == ASSUME IInv, Asks, ReplyAccepted PROVE UNCHANGED Users!vars
<1>1. UNCHANGED <<open, user, owed, sendVars, receiveVars, peerVars>>
  BY DEF ReplyAccepted
<1>2. stage # "connect"
  BY DEF ReplyAccepted, Replied, Asks, Request
<1>3. stage' # "connect"
  BY DEF ReplyAccepted, NextStage
<1>4. openBar' = openBar
  BY <1>1, <1>2, <1>3 DEF openBar
<1> QED
  BY <1>1, <1>4, UserUnseen, OwedUnseen, RequestsUnseen, RepliesUnseen
  DEF Users!vars, Requested, sendVars, receiveVars, peerVars

\* The server's answer is on the wire; it is an answer when it has been read.
LEMMA AnswerUnseen ==
    ASSUME IInv, NEW r \in Stream, Answer(r)
    PROVE  UNCHANGED Users!vars
<1>1. /\ server[r] > 0 /\ server' = [server EXCEPT ![r] = @ - 1] /\ wire' = Append(wire, r)
      /\ server \in [Stream -> Nat] /\ wire \in Seq(Frame) /\ r \in Frame
      /\ UNCHANGED <<stage, open, user, owed, sendVars, receiveVars>>
  BY DEF Answer, IInv, PeerTypes, Frame
<1>2. \A s \in Stream : /\ server'[s] = server[s] - (IF r = s THEN 1 ELSE 0)
                        /\ Times(s, wire') = Times(s, wire) + (IF r = s THEN 1 ELSE 0)
  BY <1>1, TimesAppend, InFlightFacts
<1>3. \A s \in Stream : requestsBar'[s] = requestsBar[s]
  BY <1>2, InFlightFacts DEF requestsBar
<1>4. requestsBar' = requestsBar
  BY <1>3, BarFunctions, SameEverywhere
<1> QED
  BY <1>1, <1>4, UserUnseen, OwedUnseen, OpenUnseen, RepliesUnseen
  DEF Users!vars, Requested, sendVars, receiveVars

LEMMA BadFrameUnseen == ASSUME IInv, ServerSendsBadFrame PROVE UNCHANGED Users!vars
<1>1. /\ wire' = Append(wire, BadFrame) /\ wire \in Seq(Frame) /\ BadFrame \in Frame
      /\ UNCHANGED <<readyVars, open, user, owed, sendVars, receiveVars, server>>
  BY DEF ServerSendsBadFrame, IInv, PeerTypes, Frame
<1>2. \A s \in Stream : Times(s, wire') = Times(s, wire)
  BY <1>1, TimesAppend, TimesType, StreamFacts
<1>3. \A s \in Stream : requestsBar'[s] = requestsBar[s]
  BY <1>1, <1>2 DEF requestsBar
<1>4. requestsBar' = requestsBar
  BY <1>3, BarFunctions, SameEverywhere
<1> QED
  BY <1>1, <1>4, UserUnseen, OwedUnseen, OpenUnseen, RepliesUnseen
  DEF Users!vars, Requested, readyVars, sendVars, receiveVars

LEMMA AllUnseen == UNCHANGED vars => UNCHANGED Users!vars
BY UserUnseen, OwedUnseen, OpenUnseen, RequestsUnseen, RepliesUnseen
DEF vars, Users!vars, Requested, readyVars, sendVars, receiveVars, peerVars

LEMMA InitChannels == Init => Users!Init
<1> SUFFICES ASSUME Init PROVE Users!Init
  OBVIOUS
<1>1. \A s \in Stream : user[s] = IF s = 0 THEN "idle" ELSE "free"
  BY DEF Init
<1>2. openBar \in SUBSET Stream /\ userBar \in [Stream -> {"free", "using"}]
  BY <1>1 DEF openBar, userBar
<1>3. \A s \in Stream : Requested(s) = 0 /\ Times(s, wire) = 0
  BY TimesEmpty DEF Init, Requested
<1>4. owedBar = [s \in Stream |-> 0] /\ requestsBar = [s \in Stream |-> 0]
  BY <1>3 DEF Init, owedBar, requestsBar
<1>5. repliesBar = [s \in Stream |-> 0]
  BY DEF Init, repliesBar
<1> QED
  BY <1>2, <1>4, <1>5 DEF Users!Init

LEMMA NextChannels ==
    ASSUME IInv, HInv, FreeOwesNothing, [Next]_vars
    PROVE  [Users!Next]_(Users!vars)
<1>1. CASE OpenStream
  BY <1>1, OpenStreamTakes DEF Users!Next
<1>2. ASSUME NEW r \in UserStream, ReleaseStream(r) PROVE Users!Next
  BY <1>2, ReleaseStreamGives, StreamFacts DEF Users!Next
<1>3. ASSUME NEW r \in Stream, UserStep(r) \/ ServerAnswers(r)
      PROVE  [Users!Next]_(Users!vars)
  BY <1>3, SendMessageUnseen, TakeReceivedReads, WaitNextMessageUnseen, AnswerUnseen
  DEF UserStep, ServerAnswers, Users!Next
<1>4. CASE SendStep
  BY <1>4, PutSends, FlushUnseen, SendSucceedsUnseen, SendFailsLoses DEF SendStep, Users!Next
<1>5. CASE ReceiveStep \/ ReadyFails
  BY <1>5, ReadFrameAnswers, ReadFailsUnseen, DeliverToWaiterReads, DeliverToQueueUnseen,
     DecodeFailsUnseen, OthersLose DEF ReceiveStep, Deliver, Users!Next
<1>6. CASE Connect \/ ReplyAccepted \/ ServerAnswersReady \/ ServerSendsBadFrame
  BY <1>6, ConnectUnseen, ReplyAcceptedUnseen, AnswerUnseen, BadFrameUnseen, StreamFacts
  DEF ServerAnswersReady, HInv
<1>7. CASE UNCHANGED vars
  BY <1>7, AllUnseen
<1> QED
  BY <1>1, <1>2, <1>3, <1>4, <1>5, <1>6, <1>7 DEF Next, ReadyStep

\* A connection implements what its users rely on: however sends, the receiver,
\* closes and late frames are interleaved, each stream is to its user a channel
\* that carries its own requests and responses, and nobody gets an error before
\* the connection is closed (sendMessage, waitNextMessage, close).
THEOREM ConnectionKeepsChannels == Spec => KeepsChannels
<1>1. Init => Users!Init /\ FreeOwesNothing
  BY InitChannels, InitFreeOwes
<1>2. IInv /\ HInv /\ FreeOwesNothing /\ [Next]_vars
          => FreeOwesNothing' /\ [Users!Next]_(Users!vars)
  BY NextChannels, FreeOwesStep
<1> QED
  BY <1>1, <1>2, Invariant, PTL DEF Spec, KeepsChannels, Users!Spec

\* No user of a connection gets a response to a request of somebody else, nor
\* one more than it has asked for: not on an open connection, and, beyond what
\* ResponsesMatched says, not from the queues and the frame a closed one leaves.
THEOREM UsersGetTheirOwn == Spec => [](Users!AnswersOwn /\ Users!FreeIsClean)
BY ConnectionKeepsChannels, Users!AnswersAreOwn DEF KeepsChannels

-----------------------------------------------------------------------------
(* No stream id is lost *)

\* The id of every stream that nobody uses is there to be opened.
IdsListed ==
    \A s \in UserStream : user[s] = "free" => \E i \in DOMAIN freeStreamIds : freeStreamIds[i] = s

\* Only openStream and the close of a stream touch the ids and who is free.
LEMMA OthersFreeNobody ==
    ASSUME IInv, [Next]_vars
    PROVE  \/ OpenStream \/ \E r \in UserStream : ReleaseStream(r)
           \/ freeStreamIds' = freeStreamIds /\ \A s \in Stream : user'[s] = "free" <=> user[s] = "free"
<1> DEFINE Same == /\ freeStreamIds' = freeStreamIds
                   /\ \A s \in Stream : user'[s] = "free" <=> user[s] = "free"
<1>1. user \in [Stream -> UserState]
  BY DEF IInv, UserTypes
<1>2. ASSUME NEW r \in Stream, UserStep(r) PROVE Same
  BY <1>1, <1>2 DEF UserStep, SendMessage, MaySend, TakeReceived, WaitNextMessage, MayWait
<1>3. ASSUME SendSucceeds PROVE Same
  <2>1. sendQueue # <<>>
    BY <1>3 DEF IInv, SendersQueued, SendSucceeds
  <2> QED
    BY <1>1, <1>3, <2>1, HeadAndTail DEF SendSucceeds
<1>4. ASSUME SendFails PROVE Same
  <2>1. Head(sendQueue) \in Stream /\ user[Head(sendQueue)] = "sending"
    BY <1>4, HeadAndTail DEF SendFails
  <2>2. [user EXCEPT ![Head(sendQueue)] = "failed"] \in [Stream -> UserState]
    BY <1>1 DEF UserState
  <2> QED
    BY <1>1, <1>4, <2>1, <2>2, CloseFreesNobody DEF SendFails, FailAndClose
<1>5. ASSUME ReceiverFails \/ DeliveryFails \/ ReadyFails PROVE Same
  BY <1>1, <1>5, CloseFreesNobody DEF ReceiverFails, DeliveryFails, ReadyFails
<1>6. ASSUME DeliverToWaiter PROVE Same
  BY <1>1, <1>6 DEF DeliverToWaiter, Waiting
<1>7. ASSUME \/ Put \/ Flush \/ ReadFrame \/ ReadFails \/ DeliverToQueue \/ DecodeFails
             \/ Connect \/ ReplyAccepted \/ ServerSendsBadFrame \/ UNCHANGED vars
             \/ \E r \in Stream : Answer(r)
      PROVE  Same
  BY <1>7 DEF Put, Flush, ReadFrame, ReadFails, DeliverToQueue, DecodeFails, Connect,
      ReplyAccepted, ServerSendsBadFrame, vars, Answer
<1> HIDE DEF Same
<1>8. OpenStream \/ (\E r \in UserStream : ReleaseStream(r)) \/ Same
  BY <1>2, <1>3, <1>4, <1>5, <1>6, <1>7, StreamFacts
  DEF Next, ReadyStep, SendStep, ReceiveStep, Deliver, ServerAnswers, ServerAnswersReady
<1> QED
  BY <1>8 DEF Same

LEMMA IdsListedInit == Init => IdsListed
<1> SUFFICES ASSUME Init, NEW s \in UserStream
             PROVE  \E i \in DOMAIN freeStreamIds : freeStreamIds[i] = s
  BY DEF IdsListed
<1>1. freeStreamIds = [i \in 1 .. MaxStreams - 1 |-> MaxStreams - i]
  BY DEF Init
<1>2. s \in 1 .. MaxStreams - 1 /\ MaxStreams \in Nat
  BY ConnectionAssumption DEF ConnectionAssumption, UserStream, Stream
<1>3. MaxStreams - s \in 1 .. MaxStreams - 1 /\ MaxStreams - (MaxStreams - s) = s
  BY <1>2
<1> QED
  BY <1>1, <1>3

LEMMA IdsListedStep == ASSUME IInv, IdsListed, [Next]_vars PROVE IdsListed'
<1>1. user \in [Stream -> UserState] /\ freeStreamIds \in Seq(UserStream) /\ UserStream \subseteq Stream
  BY StreamFacts DEF IInv, UserTypes
<1>2. CASE OpenStream
  <2> DEFINE last == Len(freeStreamIds)
  <2>1. /\ last \in DOMAIN freeStreamIds /\ freeStreamIds[last] \in Stream
        /\ user' = [user EXCEPT ![freeStreamIds[last]] = "idle"]
        /\ freeStreamIds' = SubSeq(freeStreamIds, 1, last - 1)
    BY <1>1, <1>2 DEF OpenStream
  <2>2. \A i \in DOMAIN freeStreamIds : i # last =>
           i \in DOMAIN freeStreamIds' /\ freeStreamIds'[i] = freeStreamIds[i]
    BY <1>1, <2>1
  <2>3. ASSUME NEW s \in UserStream, user'[s] = "free"
        PROVE  user[s] = "free" /\ s # freeStreamIds[last]
    BY <1>1, <2>1, <2>3
  <2> HIDE DEF last
  <2> QED
    BY <2>2, <2>3 DEF IdsListed
<1>3. ASSUME NEW r \in UserStream, ReleaseStream(r) PROVE IdsListed'
  <2>1. user' = [user EXCEPT ![r] = "free"] /\ freeStreamIds' = Append(freeStreamIds, r)
    BY <1>3 DEF ReleaseStream
  <2>2. /\ Len(freeStreamIds) + 1 \in DOMAIN freeStreamIds'
        /\ freeStreamIds'[Len(freeStreamIds) + 1] = r
    BY <1>1, <2>1
  <2>3. \A i \in DOMAIN freeStreamIds :
           i \in DOMAIN freeStreamIds' /\ freeStreamIds'[i] = freeStreamIds[i]
    BY <1>1, <2>1
  <2>4. \A s \in UserStream : user'[s] = "free" => s = r \/ user[s] = "free"
    BY <1>1, <2>1
  <2> QED
    BY <2>2, <2>3, <2>4 DEF IdsListed
<1>4. CASE freeStreamIds' = freeStreamIds /\ \A s \in Stream : user'[s] = "free" <=> user[s] = "free"
  BY <1>1, <1>4 DEF IdsListed
<1> QED
  BY <1>2, <1>3, <1>4, OthersFreeNobody

\* getFreeStreamsCount, by which the pool chooses a connection and drops idle
\* ones, is the number of streams nobody uses: no id is lost or given back
\* twice, whatever fails between openStream and the close of the stream.
THEOREM FreeStreamsAreCounted ==
    Spec => [](Len(freeStreamIds) = Cardinality({s \in UserStream : user[s] = "free"}))
<1>1. IInv /\ IdsListed => Len(freeStreamIds) = Cardinality({s \in UserStream : user[s] = "free"})
  <2> SUFFICES ASSUME IInv, IdsListed
               PROVE  Len(freeStreamIds) = Cardinality({s \in UserStream : user[s] = "free"})
    OBVIOUS
  <2> DEFINE F == {s \in UserStream : user[s] = "free"}
             n == Len(freeStreamIds)
  <2>1. freeStreamIds \in Seq(UserStream)
    BY DEF IInv, UserTypes
  <2>2. n \in Nat /\ DOMAIN freeStreamIds = 1 .. n /\ freeStreamIds \in [1 .. n -> UserStream]
    BY <2>1
  <2>3. freeStreamIds \in [1 .. n -> F]
    BY <2>2 DEF IInv, IdsFree
  <2>4. /\ \A i, j \in 1 .. n : freeStreamIds[i] = freeStreamIds[j] => i = j
        /\ \A s \in F : \E i \in 1 .. n : freeStreamIds[i] = s
    BY <2>2 DEF IInv, IdsFree, IdsListed
  <2> HIDE DEF F, n
  <2>5. freeStreamIds \in Bijection(1 .. n, F)
    BY <2>3, <2>4 DEF Bijection, Injection, Surjection, IsInjective
  <2>6. n = Cardinality(F)
    BY <2>2, <2>5, FS_CountingElements DEF ExistsBijection
  <2> QED
    BY <2>6 DEF F, n
<1>2. Init => IdsListed
  BY IdsListedInit
<1>3. IInv /\ HInv /\ IdsListed /\ [Next]_vars => IdsListed'
  BY IdsListedStep
<1> QED
  BY <1>1, <1>2, <1>3, Invariant, PTL DEF Spec
=============================================================================
