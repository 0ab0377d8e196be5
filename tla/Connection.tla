----------------------------- MODULE Connection -----------------------------
(***************************************************************************)
(* One connection: many streams share a socket.  The users of the streams  *)
(* send requests, one write at a time in call order, and wait for the      *)
(* responses; a receiver runs only while somebody waits and hands every    *)
(* frame to the waiter of its stream or to its queue.                      *)
(*                                                                         *)
(* The user of stream zero is ready(), which connects and agrees with the  *)
(* server on compression, who the client is and the keyspace.  Any other   *)
(* user is a command of the session and owns a stream until it has all the *)
(* responses it asked for or an error.  It may send several requests       *)
(* before it waits (prepareQueries), each after the previous one is sent.  *)
(* Frames are represented by their stream: which request of the stream a   *)
(* response answers is the order of the stream, which the server keeps.    *)
(* Stream zero has one request at a time, the one `stage` names.           *)
(***************************************************************************)
EXTENDS Naturals, Sequences, FiniteSets

CONSTANTS
    MaxStreams,          \* stream zero included, which the handshake owns
    MaxPendingMessages,  \* capacity of the received queue of a stream
    MaxPipeline,         \* bound on the unanswered requests of one user
    UseCompression, Password, KeySpace   \* the settings that may occur

ASSUME ConnectionAssumption ==
    /\ MaxStreams \in Nat /\ MaxStreams >= 2          \* setMaxStreams
    /\ MaxPendingMessages \in Nat \ {0}               \* setMaxPendingMessages
    /\ MaxPipeline \in Nat \ {0}
    /\ \A setting \in {UseCompression, Password, KeySpace} : setting \subseteq BOOLEAN

VARIABLES
    config,         \* [compress, password, keySpace]: whether each is configured
    stage,          \* how far ready() is: the request it makes next or has made
    reply,          \* the answer to it, once the server has given one
    isReady,        \* isReady_
    compressor,     \* compressor_ is set
    peer,           \* what the server takes the connection for
    open,           \* socket_ is connected
    freeStreamIds,  \* freeStreamIds_, the last one is opened next
    user,           \* what the user of each stream is doing
    owed,           \* per stream, requests sent whose response it has not got
    sendQueue,      \* streams whose send is not over, in the order of the calls
    sendPhase,      \* how far the first of them is
    chainFailed,    \* the last sendingFuture_ has failed or will
    receivingPromiseCount,  \* receivingPromiseCount_
    received,       \* per stream, the size of its received queue
    receiver,       \* the receiver loop
    frame,          \* the frame it has read, if any
    failing,        \* receivers whose read has failed, error not handled yet
    server,         \* per stream, requests the server has not answered
    wire            \* response frames on their way

sendVars == <<sendQueue, sendPhase, chainFailed>>
receiveVars == <<receivingPromiseCount, received, receiver, frame, failing>>
readyVars == <<config, stage, reply, isReady, compressor>>
peerVars == <<server, wire, peer>>
vars == <<readyVars, open, freeStreamIds, user, owed, sendVars, receiveVars, peerVars>>

Stream == 0 .. MaxStreams - 1
UserStream == Stream \ {0}

\* A frame that cannot be used: its body is too large or does not decode, or
\* its stream id is out of range.
BadFrame == MaxStreams
Frame == Stream \cup {BadFrame}

UserState == {"free", "idle", "sending", "waiting", "failed"}

Waiting == {s \in Stream : user[s] = "waiting"}

Configs == [compress : UseCompression, password : Password, keySpace : KeySpace]
Request == {"OPTIONS", "STARTUP", "AUTH_RESPONSE", "QUERY"}
NewPeer == [at |-> "new", compression |-> FALSE, keySpace |-> FALSE]

TypeOK ==
    /\ config \in Configs
    /\ stage \in Request \cup {"connect", "done", "failed"}
    /\ reply \in {"none", "SUPPORTED lz4", "SUPPORTED", "READY", "AUTHENTICATE",
                  "AUTHENTICATE other", "AUTH_SUCCESS", "SET_KEYSPACE", "ERROR"}
    /\ isReady \in BOOLEAN /\ compressor \in BOOLEAN
    /\ peer \in [at : {"new", "authenticating", "ready"}, compression : BOOLEAN,
                 keySpace : BOOLEAN]
    /\ open \in BOOLEAN
    /\ freeStreamIds \in Seq(UserStream)
    /\ user \in [Stream -> UserState]
    /\ owed \in [Stream -> 0 .. MaxPipeline]
    /\ sendQueue \in Seq(Stream)
    /\ sendPhase \in {"queued", "putting", "flushing"}
    /\ chainFailed \in BOOLEAN
    /\ receivingPromiseCount \in Nat
    /\ received \in [Stream -> 0 .. MaxPendingMessages]
    /\ receiver \in {"off", "reading", "got"}
    /\ frame \in Frame
    /\ failing \in Nat
    /\ server \in [Stream -> Nat]
    /\ wire \in Seq(Frame)

-----------------------------------------------------------------------------
(* close *)

\* Seeded bug: the registered waiters not told.
CloseInSilence(states, errors, loop) ==
    /\ open' = FALSE /\ isReady' = FALSE /\ compressor' = FALSE
    /\ user' = states
    /\ receivingPromiseCount' = 0
    /\ receiver' = IF loop = "reading" THEN "off" ELSE loop
    /\ failing' = IF loop = "reading" THEN errors + 1 ELSE errors
    /\ server' = [s \in Stream |-> 0] /\ wire' = <<>> /\ peer' = NewPeer

\* The socket goes, and with it what was on the way; every registered waiter
\* gets an error, and a read in progress fails.  `states`, `errors` and `loop`
\* are the users, the failed receivers and the receiver as the caller leaves
\* them.  A frame that has been read is still handled.
Close(states, errors, loop) ==
    /\ open' = FALSE /\ isReady' = FALSE /\ compressor' = FALSE
    /\ user' = [s \in Stream |-> IF states[s] = "waiting" THEN "failed" ELSE states[s]]
    /\ receivingPromiseCount' = 0
    /\ receiver' = IF loop = "reading" THEN "off" ELSE loop
    /\ failing' = IF loop = "reading" THEN errors + 1 ELSE errors
    /\ server' = [s \in Stream |-> 0]
    /\ wire' = <<>>
    /\ peer' = NewPeer

-----------------------------------------------------------------------------
(* Streams: openStream and ConnectionStream::close *)

\* The pool hands a connection out once it is ready.
OpenStream ==
    /\ stage = "done"
    /\ freeStreamIds # <<>>
    /\ LET last == Len(freeStreamIds)
       IN  /\ user' = [user EXCEPT ![freeStreamIds[last]] = "idle"]
           /\ freeStreamIds' = SubSeq(freeStreamIds, 1, last - 1)
    /\ UNCHANGED <<readyVars, open, owed, sendVars, receiveVars, peerVars>>

\* Seeded bug: a stream given back with responses outstanding.
AnyTime(s) == user[s] \in {"idle", "failed"}

\* When the session gives a stream back: all responses there, or an error.
IsDone(s) == user[s] = "failed" \/ (user[s] = "idle" /\ owed[s] = 0)

ReleaseStream(s) ==
    /\ IsDone(s)
    /\ user' = [user EXCEPT ![s] = "free"]
    /\ owed' = [owed EXCEPT ![s] = 0]
    /\ freeStreamIds' = Append(freeStreamIds, s)
    /\ UNCHANGED <<readyVars, open, sendVars, receiveVars, peerVars>>

-----------------------------------------------------------------------------
(* sendMessage *)

\* ready() sends the request of its stage; a command, as many as it has.
MaySend(s) ==
    /\ user[s] = "idle"
    /\ IF s = 0 THEN stage \in Request /\ owed[0] = 0 /\ reply = "none"
                ELSE owed[s] < MaxPipeline

\* The call: the message waits for the previous sendingFuture_.
SendMessage(s) ==
    /\ MaySend(s)
    /\ user' = [user EXCEPT ![s] = "sending"]
    /\ sendQueue' = Append(sendQueue, s)
    /\ UNCHANGED <<readyVars, open, freeStreamIds, owed, sendPhase, chainFailed, receiveVars, peerVars>>

\* Its turn: encode into the shared buffer and put it.  From here on the bytes
\* may reach the server, which may answer before the send is over.
Put ==
    /\ sendQueue # <<>>
    /\ sendPhase = "queued"
    /\ open /\ ~chainFailed
    /\ sendPhase' = "putting"
    /\ server' = [server EXCEPT ![Head(sendQueue)] = @ + 1]
    /\ UNCHANGED <<readyVars, open, freeStreamIds, user, owed, sendQueue, chainFailed, receiveVars,
                   wire, peer>>

Flush ==
    /\ sendPhase = "putting"
    /\ open
    /\ sendPhase' = "flushing"
    /\ UNCHANGED <<readyVars, open, freeStreamIds, user, owed, sendQueue, chainFailed, receiveVars, peerVars>>

\* The flush completes (it may do so after a close): the next send may start.
SendSucceeds ==
    /\ sendPhase = "flushing"
    /\ LET s == Head(sendQueue)
       IN  /\ user' = [user EXCEPT ![s] = "idle"]
           /\ owed' = [owed EXCEPT ![s] = @ + 1]
    /\ sendQueue' = Tail(sendQueue)
    /\ sendPhase' = "queued"
    /\ UNCHANGED <<readyVars, open, freeStreamIds, chainFailed, receiveVars, peerVars>>

\* Seeded bug: a failed send that leaves the connection open.
FailWithoutClose(states) ==
    /\ user' = states
    /\ UNCHANGED <<isReady, compressor, open, receivingPromiseCount, receiver, failing, peerVars>>

FailAndClose(states) == Close(states, failing, receiver)

\* Seeded bug: sendingPromise not resolved, so the later sends wait for ever.
NobodyNext == <<>>

NextSends == Tail(sendQueue)

\* The previous send has failed, encoding or put or flush fails, or the socket
\* is gone: the error goes to the caller and to the next send, and the
\* connection is closed.
SendFails ==
    /\ sendQueue # <<>>
    /\ FailAndClose([user EXCEPT ![Head(sendQueue)] = "failed"])
    /\ chainFailed' = TRUE
    /\ sendQueue' = NextSends
    /\ sendPhase' = "queued"
    /\ UNCHANGED <<config, stage, reply, freeStreamIds, owed, received, frame>>

-----------------------------------------------------------------------------
(* waitNextMessage *)

MayWait(s) == user[s] = "idle" /\ owed[s] > 0

\* The response is already in the received queue.
TakeReceived(s) ==
    /\ MayWait(s)
    /\ received[s] > 0
    /\ received' = [received EXCEPT ![s] = @ - 1]
    /\ owed' = [owed EXCEPT ![s] = @ - 1]
    /\ UNCHANGED <<readyVars, open, freeStreamIds, user, sendVars, receivingPromiseCount,
                   receiver, frame, failing, peerVars>>

\* A receiver starts with a read, which fails at once without a socket.
StartReceiver ==
    IF open THEN receiver' = "reading" /\ UNCHANGED failing
            ELSE failing' = failing + 1 /\ UNCHANGED receiver

\* Register a promise; the first one to wait starts the receiver.
WaitNextMessage(s) ==
    /\ MayWait(s)
    /\ received[s] = 0
    /\ user' = [user EXCEPT ![s] = "waiting"]
    /\ receivingPromiseCount' = receivingPromiseCount + 1
    /\ IF receivingPromiseCount = 0 THEN StartReceiver ELSE UNCHANGED <<receiver, failing>>
    /\ UNCHANGED <<readyVars, open, freeStreamIds, owed, sendVars, received, frame, peerVars>>

\* Header and body of the next frame have been read.
ReadFrame ==
    /\ receiver = "reading"
    /\ wire # <<>>
    /\ receiver' = "got"
    /\ frame' = Head(wire)
    /\ wire' = Tail(wire)
    /\ UNCHANGED <<readyVars, open, freeStreamIds, user, owed, sendVars, receivingPromiseCount,
                   received, failing, server, peer>>

\* The read fails: the peer has closed, or the network is down.
ReadFails ==
    /\ receiver = "reading"
    /\ receiver' = "off"
    /\ failing' = failing + 1
    /\ UNCHANGED <<readyVars, open, freeStreamIds, user, owed, sendVars, receivingPromiseCount,
                   received, frame, peerVars>>

\* handle_exception of a receiver.
ReceiverFails ==
    /\ failing > 0
    /\ Close(user, failing - 1, receiver)
    /\ UNCHANGED <<config, stage, reply, freeStreamIds, owed, sendVars, received, frame>>

\* Seeded bug: the loop goes on with nobody waiting.
AlwaysReadOn(count) ==
    /\ frame' = BadFrame
    /\ receiver' = "reading" /\ UNCHANGED failing

\* After a frame: stop if nobody waits any more, otherwise read the next one.
ReadOn(count) ==
    /\ frame' = BadFrame
    /\ CASE count = 0         -> receiver' = "off" /\ UNCHANGED failing
         [] count # 0 /\ open  -> receiver' = "reading" /\ UNCHANGED failing
         [] count # 0 /\ ~open -> receiver' = "off" /\ failing' = failing + 1

\* Seeded bug: the count left as it was.
SameCount == receivingPromiseCount

CountAfterDelivery == receivingPromiseCount - 1

\* The frame belongs to a registered waiter.  (The check that the count is not
\* zero here is unreachable: WaitersCounted.)
DeliverToWaiter ==
    /\ receiver = "got"
    /\ frame \in Waiting
    /\ user' = [user EXCEPT ![frame] = "idle"]
    /\ owed' = [owed EXCEPT ![frame] = @ - 1]
    /\ receivingPromiseCount' = CountAfterDelivery
    /\ ReadOn(receivingPromiseCount')
    /\ UNCHANGED <<readyVars, open, freeStreamIds, sendVars, received, peerVars>>

\* Seeded bugs: the bound of the queue off by one, either way.
RoomForOneMore(s) == received[s] <= MaxPendingMessages
RoomForOneLess(s) == received[s] < MaxPendingMessages - 1

\* The received queue of the stream takes another message.
HasRoom(s) == received[s] < MaxPendingMessages

\* Nobody waits on its stream: keep it.
DeliverToQueue ==
    /\ receiver = "got"
    /\ frame \in Stream \ Waiting
    /\ HasRoom(frame)
    /\ received' = [received EXCEPT ![frame] = @ + 1]
    /\ ReadOn(receivingPromiseCount)
    /\ UNCHANGED <<readyVars, open, freeStreamIds, user, owed, sendVars, receivingPromiseCount, peerVars>>

\* The frame does not decode: handle_exception will close the connection.
DecodeFails ==
    /\ receiver = "got"
    /\ frame = BadFrame
    /\ receiver' = "off"
    /\ failing' = failing + 1
    /\ UNCHANGED <<readyVars, open, freeStreamIds, user, owed, sendVars, receivingPromiseCount,
                   received, frame, peerVars>>

QueueFull == frame \in Stream \ Waiting /\ ~HasRoom(frame)

\* The stream id is out of range or the queue of the stream is full: close
\* and stop.
DeliveryFails ==
    /\ receiver = "got"
    /\ frame = BadFrame \/ QueueFull
    /\ Close(user, failing, "off")
    /\ frame' = BadFrame
    /\ UNCHANGED <<config, stage, reply, freeStreamIds, owed, sendVars, received>>

-----------------------------------------------------------------------------
(* ready() and the authenticators *)

\* The address is known or resolved, and the socket connected.
Connect ==
    /\ stage = "connect"
    /\ open' = TRUE
    /\ stage' = "OPTIONS"
    /\ UNCHANGED <<config, reply, isReady, compressor, freeStreamIds, user, owed, sendVars,
                   receiveVars, peerVars>>

\* The compression STARTUP asks for.  Seeded bug: the one configured.
Configured == config.compress
Announced == compressor

\* What the two authenticators go on with.
Authenticated ==
    CASE stage = "STARTUP" -> {"AUTHENTICATE"}
      [] stage = "AUTH_RESPONSE" -> {"AUTH_SUCCESS"}
AllowedAll == {"READY"}

AcceptedReplies ==
    CASE stage = "OPTIONS" -> {"SUPPORTED lz4", "SUPPORTED"}
      [] stage \in {"STARTUP", "AUTH_RESPONSE"} ->
             IF config.password THEN Authenticated ELSE AllowedAll
      [] stage = "QUERY" -> {"SET_KEYSPACE"}

NextStage ==
    CASE stage = "OPTIONS" -> "STARTUP"
      [] stage = "STARTUP" /\ config.password -> "AUTH_RESPONSE"
      [] stage = "QUERY" -> "done"
      [] OTHER -> IF config.keySpace THEN "QUERY" ELSE "done"

\* The response to the request of the stage has been given to ready().
Replied == user[0] = "idle" /\ owed[0] = 0 /\ reply # "none"

\* The last reply and isReady_ are one chain of continuations that nothing
\* else can enter.
ReplyAccepted ==
    /\ Replied /\ reply \in AcceptedReplies
    /\ compressor' = IF stage = "OPTIONS" THEN config.compress /\ reply = "SUPPORTED lz4"
                     ELSE compressor
    /\ stage' = NextStage
    /\ isReady' = (stage' = "done")
    /\ reply' = "none"
    /\ UNCHANGED <<config, open, freeStreamIds, user, owed, sendVars, receiveVars, peerVars>>

\* handle_exception: the address does not resolve, the server is not reached,
\* a send or a wait has failed, or the reply is not the one expected.
ReadyFails ==
    /\ \/ stage = "connect"
       \/ stage \in Request /\ user[0] = "failed"
       \/ Replied /\ reply \notin AcceptedReplies
    /\ Close(user, failing, receiver)
    /\ stage' = "failed"
    /\ reply' = "none"
    /\ UNCHANGED <<config, freeStreamIds, owed, sendVars, received, frame>>

-----------------------------------------------------------------------------
(* The server: answers the requests of a stream in order, and those of      *)
(* different streams in any order.                                          *)

Answer(s) ==
    /\ server[s] > 0
    /\ server' = [server EXCEPT ![s] = @ - 1]
    /\ wire' = Append(wire, s)
    /\ UNCHANGED <<config, stage, isReady, compressor, open, freeStreamIds, user, owed,
                   sendVars, receiveVars>>

ServerAnswers(s) == s # 0 /\ Answer(s) /\ UNCHANGED <<reply, peer>>

\* What a server may say to a request of ready(), and what it does then.
Answers ==
    [OPTIONS |-> {"SUPPORTED lz4", "SUPPORTED", "ERROR"},
     STARTUP |-> {"READY", "AUTHENTICATE", "AUTHENTICATE other", "ERROR"},
     AUTH_RESPONSE |-> {"AUTH_SUCCESS", "ERROR"},
     QUERY |-> {"SET_KEYSPACE", "ERROR"}]

ServerAnswersReady ==
    /\ Answer(0)
    /\ reply' \in Answers[stage]
    /\ peer' = [at |-> CASE reply' \in {"READY", "AUTH_SUCCESS"} -> "ready"
                        [] reply' \in {"AUTHENTICATE", "AUTHENTICATE other"} -> "authenticating"
                        [] OTHER -> peer.at,
                compression |-> IF stage = "STARTUP" THEN Announced ELSE peer.compression,
                keySpace |-> reply' = "SET_KEYSPACE"]

ServerSendsBadFrame ==
    /\ open
    /\ BadFrame \notin {wire[i] : i \in DOMAIN wire}
    /\ wire' = Append(wire, BadFrame)
    /\ UNCHANGED <<readyVars, open, freeStreamIds, user, owed, sendVars, receiveVars,
                   server, peer>>

-----------------------------------------------------------------------------
\* The constructor; ready() has stream zero.
Init ==
    /\ config \in Configs
    /\ stage = "connect" /\ reply = "none"
    /\ isReady = FALSE /\ compressor = FALSE
    /\ peer = NewPeer
    /\ open = FALSE
    /\ freeStreamIds = [i \in 1 .. MaxStreams - 1 |-> MaxStreams - i]
    /\ user = [s \in Stream |-> IF s = 0 THEN "idle" ELSE "free"]
    /\ owed = [s \in Stream |-> 0]
    /\ sendQueue = <<>> /\ sendPhase = "queued" /\ chainFailed = FALSE
    /\ receivingPromiseCount = 0
    /\ received = [s \in Stream |-> 0]
    /\ receiver = "off" /\ frame = BadFrame /\ failing = 0
    /\ server = [s \in Stream |-> 0]
    /\ wire = <<>>

UserStep(s) == SendMessage(s) \/ TakeReceived(s) \/ WaitNextMessage(s)
ReadyStep == Connect \/ ReplyAccepted \/ ReadyFails

SendStep == Put \/ Flush \/ SendSucceeds \/ SendFails

Deliver == DeliverToWaiter \/ DeliverToQueue \/ DecodeFails \/ DeliveryFails
ReceiveStep == ReadFrame \/ ReadFails \/ ReceiverFails \/ Deliver

Next ==
    \/ OpenStream
    \/ \E s \in UserStream : ReleaseStream(s)
    \/ \E s \in Stream : UserStep(s) \/ ServerAnswers(s)
    \/ ReadyStep
    \/ SendStep \/ ReceiveStep
    \/ ServerAnswersReady \/ ServerSendsBadFrame

Spec == Init /\ [][Next]_vars

\* The reactor runs what is due, ready() goes on when it can, and the server
\* answers what it has got while the connection stands (otherwise the read
\* fails).
Fairness ==
    /\ WF_vars(SendStep)
    /\ WF_vars(ReadFrame \/ ReadFails) /\ WF_vars(Deliver) /\ WF_vars(ReceiverFails)
    /\ WF_vars(ReadyStep) /\ WF_vars(UserStep(0))
    /\ WF_vars(ServerAnswersReady) /\ \A s \in Stream : WF_vars(ServerAnswers(s))

FairSpec == Spec /\ Fairness

-----------------------------------------------------------------------------
(* Properties *)

Times(s, frames) == Cardinality({i \in DOMAIN frames : frames[i] = s})

\* Requests of a stream that are with the server or whose response is on its
\* way to the user.
InFlight(s) ==
    server[s] + Times(s, wire) + received[s]
        + (IF receiver = "got" /\ frame = s THEN 1 ELSE 0)

\* Requests of a stream the server may have got: those whose send is over, and
\* the one being written.
Requested(s) ==
    owed[s] + (IF sendPhase # "queued" /\ Head(sendQueue) = s THEN 1 ELSE 0)

\* The receiver neither loses nor invents nor misroutes a response: while the
\* connection stands, each stream has exactly as many responses coming as its
\* present user has asked for.  So nothing is in flight on a free stream, and
\* the next user of its id never gets a response to somebody else's request.
ResponsesMatched == open => \A s \in Stream : InFlight(s) = Requested(s)

\* What the users see of the connection: it stands until it is closed, and
\* their requests are either without a response or with one that waits for
\* them, in the received queue or in the hands of the receiver.
openBar == IF open \/ stage = "connect" THEN Stream ELSE {}
userBar == [s \in Stream |-> IF user[s] \in {"free", "failed"} THEN user[s] ELSE "using"]
owedBar == [s \in Stream |-> IF user[s] \in {"free", "failed"} THEN 0 ELSE Requested(s)]
requestsBar == [s \in Stream |-> server[s] + Times(s, wire)]
repliesBar ==
    [s \in Stream |-> received[s] + (IF receiver = "got" /\ frame = s THEN 1 ELSE 0)]

Users == INSTANCE Channels WITH
    open <- openBar, user <- userBar, owed <- owedBar,
    requests <- requestsBar, replies <- repliesBar

\* Sharing a socket, a chain of sends and a receiver does not show: every
\* stream is a channel of its own, whose user gets the responses to its own
\* requests and an error only when the connection is lost (sendMessage,
\* waitNextMessage, close).
KeepsChannels == Users!Spec

\* receivingPromiseCount_ counts the registered waiters through deliveries,
\* closes and late frames, so the check "incorrect receiving promise count,
\* should be logic error" is unreachable.
WaitersCounted == receivingPromiseCount = Cardinality(Waiting)

\* Nobody waits without a receiver that will deliver to it or fail it, on an
\* open connection and on a closed one; and the receiver of an open connection
\* stops with the last waiter, so the next one can start its own.
ReceiverRunsForWaiters ==
    /\ Waiting # {} => receiver # "off" \/ failing > 0
    /\ open /\ Waiting = {} => receiver = "off" /\ failing = 0

\* Once a send has failed every later one fails with it; such a connection is
\* never left open, where the pool would go on handing it out.
NoPoisonedConnection == chainFailed => ~open

\* "notice the max pending messages setting": a connection is closed because a
\* received queue is full only if the user of that stream has more requests
\* unanswered than the queue holds, never on account of other streams or of a
\* former user.
QueueHoldsPipeline ==
    open /\ receiver = "got" /\ QueueFull => Requested(frame) > MaxPendingMessages

\* A connection says it is ready only when it is connected to a server that
\* has taken it for ready too, in the keyspace configured, and both have the
\* same idea of compression, from STARTUP on: a body compressed by one side
\* would be refused by the other (ready, close, encodeMessage).
SidesAgree ==
    /\ isReady => open /\ peer.at = "ready" /\ peer.keySpace = config.keySpace
    /\ open /\ peer.at # "new" => peer.compression = compressor

\* ready() ends, whatever the server says or fails to do in between.
ReadyEnds == <>(stage \in {"done", "failed"})

\* Every wait ends with a response or an error.
EveryWaitEnds ==
    \A s \in Stream : user[s] = "waiting" ~> user[s] # "waiting"

\* Every send ends, the sends queued behind a failing one included.
EverySendEnds ==
    \A s \in Stream : user[s] = "sending" ~> user[s] # "sending"
=============================================================================
