------------------------------ MODULE Channels ------------------------------
(***************************************************************************)
(* What a connection promises to those who use its streams, whatever they  *)
(* share: a stream has one user at a time, and on a connection that stands *)
(* it carries what this user has asked for and nothing else.  A user fails *)
(* only with its connection, and what it reads after that was still asked  *)
(* for by itself.                                                          *)
(*                                                                         *)
(* A connection implements this with its chain of sends and its receiver   *)
(* (Connection), and the session relies on no more (Session).              *)
(***************************************************************************)
EXTENDS Naturals, TLAPS

CONSTANT Stream

VARIABLES
    open,       \* the streams whose connection stands, or is to be made
    user,       \* per stream: nobody, somebody, somebody who has got an error
    owed,       \* responses the user has asked for and not got
    requests,   \* requests the receiver has no response to
    replies     \* responses received that nobody has read

vars == <<open, user, owed, requests, replies>>

-----------------------------------------------------------------------------
\* A stream is taken: of a connection the pool has, which may be lost already,
\* or of a new one.
Take(s) ==
    /\ user[s] = "free"
    /\ user' = [user EXCEPT ![s] = "using"]
    /\ UNCHANGED owed
    /\ \/ UNCHANGED <<open, requests, replies>>
       \/ /\ s \notin open
          /\ open' = open \cup {s}
          /\ requests' = [requests EXCEPT ![s] = 0]
          /\ replies' = [replies EXCEPT ![s] = 0]

\* It is given back after an error, or with all responses read.
Give(s) ==
    /\ user[s] = "failed" \/ (user[s] = "using" /\ owed[s] = 0)
    /\ user' = [user EXCEPT ![s] = "free"]
    /\ UNCHANGED <<open, owed, requests, replies>>

Send(s) ==
    /\ user[s] = "using" /\ s \in open
    /\ owed' = [owed EXCEPT ![s] = @ + 1]
    /\ requests' = [requests EXCEPT ![s] = @ + 1]
    /\ UNCHANGED <<open, user, replies>>

\* A response to the stream comes in.
Answer(s) ==
    /\ requests[s] > 0
    /\ requests' = [requests EXCEPT ![s] = @ - 1]
    /\ replies' = [replies EXCEPT ![s] = @ + 1]
    /\ UNCHANGED <<open, user, owed>>

Read(s) ==
    /\ user[s] = "using" /\ owed[s] > 0
    /\ replies[s] > 0
    /\ owed' = [owed EXCEPT ![s] = @ - 1]
    /\ replies' = [replies EXCEPT ![s] = @ - 1]
    /\ UNCHANGED <<open, user, requests>>

\* The users F get an error.
Fail(F) ==
    /\ \A s \in F : user[s] = "using"
    /\ user' = [s \in Stream |-> IF s \in F THEN "failed" ELSE user[s]]
    /\ owed' = [s \in Stream |-> IF s \in F THEN 0 ELSE owed[s]]

\* Connections are lost, of streams S: those who wait get an error with it.
\* Responses that have come in may still be read.
Lose(S) ==
    /\ open' = open \ S
    /\ requests' = [s \in Stream |-> IF s \in S THEN 0 ELSE requests[s]]
    /\ replies' \in [Stream -> Nat]
    /\ \A s \in Stream : replies'[s] <= replies[s] /\ (s \notin S => replies'[s] = replies[s])
    /\ \E F \in SUBSET S : Fail(F)

\* A user meets a lost connection.
Meet(s) ==
    /\ s \notin open
    /\ Fail({s})
    /\ UNCHANGED <<open, requests, replies>>

Init ==
    /\ open \in SUBSET Stream
    /\ user \in [Stream -> {"free", "using"}]
    /\ owed = [s \in Stream |-> 0]
    /\ requests = [s \in Stream |-> 0]
    /\ replies = [s \in Stream |-> 0]

Next ==
    \/ \E S \in SUBSET Stream : Lose(S)
    \/ \E s \in Stream : Take(s) \/ Give(s) \/ Send(s) \/ Answer(s) \/ Read(s) \/ Meet(s)

Spec == Init /\ [][Next]_vars

-----------------------------------------------------------------------------
(* Properties *)

TypeOK ==
    /\ open \subseteq Stream
    /\ user \in [Stream -> {"free", "using", "failed"}]
    /\ owed \in [Stream -> Nat] /\ requests \in [Stream -> Nat] /\ replies \in [Stream -> Nat]

\* All that is on a stream was asked for by its present user, on an open
\* connection, where nobody has failed, and on a lost one as long as the user
\* expects anything (openStream, waitNextMessage, close).
AnswersOwn ==
    /\ \A s \in open : requests[s] + replies[s] = owed[s] /\ user[s] # "failed"
    /\ \A s \in Stream : owed[s] > 0 => /\ user[s] = "using"
                                        /\ requests[s] + replies[s] <= owed[s]

\* So the next user of a stream of an open connection finds nothing on it.
FreeIsClean == \A s \in open : user[s] = "free" => requests[s] = 0 /\ replies[s] = 0

-----------------------------------------------------------------------------
(* Proofs: AnswersOwn is inductive with the types. *)

LEMMA InitInv == Init => TypeOK /\ AnswersOwn
BY DEF Init, TypeOK, AnswersOwn

LEMMA TakeInv ==
    ASSUME TypeOK, AnswersOwn, NEW s \in Stream, Take(s)
    PROVE  TypeOK' /\ AnswersOwn'
BY DEF TypeOK, AnswersOwn, Take

LEMMA OneStreamInv ==
    ASSUME TypeOK, AnswersOwn, NEW s \in Stream, Give(s) \/ Send(s) \/ Answer(s) \/ Read(s)
    PROVE  TypeOK' /\ AnswersOwn'
<1>1. CASE Give(s)
  BY <1>1 DEF TypeOK, AnswersOwn, Give
<1>2. CASE Send(s)
  BY <1>2 DEF TypeOK, AnswersOwn, Send
<1>3. CASE Answer(s)
  BY <1>3 DEF TypeOK, AnswersOwn, Answer
<1>4. CASE Read(s)
  BY <1>4 DEF TypeOK, AnswersOwn, Read
<1> QED BY <1>1, <1>2, <1>3, <1>4

LEMMA LossInv ==
    ASSUME TypeOK, AnswersOwn,
           (\E S \in SUBSET Stream : Lose(S)) \/ (\E s \in Stream : Meet(s))
    PROVE  TypeOK' /\ AnswersOwn'
<1>1. CASE \E S \in SUBSET Stream : Lose(S)
  <2>1. PICK S \in SUBSET Stream : Lose(S)
    BY <1>1
  <2>2. PICK F \in SUBSET S : Fail(F)
    BY <2>1 DEF Lose
  <2>3. TypeOK'
    BY <2>1, <2>2 DEF TypeOK, Lose, Fail
  <2>4. \A s \in open' : requests'[s] + replies'[s] = owed'[s] /\ user'[s] # "failed"
    BY <2>1, <2>2 DEF TypeOK, AnswersOwn, Lose, Fail
  <2>5. ASSUME NEW s \in Stream, owed'[s] > 0
        PROVE  user'[s] = "using" /\ requests'[s] + replies'[s] <= owed'[s]
    <3>1. s \notin F /\ user'[s] = user[s] /\ owed'[s] = owed[s]
      BY <2>2, <2>5 DEF Fail
    <3>2. user[s] = "using" /\ requests[s] + replies[s] <= owed[s]
      BY <2>5, <3>1 DEF AnswersOwn
    <3>3. requests'[s] + replies'[s] <= requests[s] + replies[s]
      BY <2>1 DEF TypeOK, Lose
    <3>4. /\ requests[s] + replies[s] \in Nat /\ requests'[s] + replies'[s] \in Nat
          /\ owed[s] \in Nat
      BY <2>3 DEF TypeOK
    <3> QED BY <3>1, <3>2, <3>3, <3>4
  <2> QED BY <2>3, <2>4, <2>5 DEF AnswersOwn
<1>2. CASE \E s \in Stream : Meet(s)
  BY <1>2 DEF TypeOK, AnswersOwn, Meet, Fail
<1> QED BY <1>1, <1>2

LEMMA NextInv == TypeOK /\ AnswersOwn /\ [Next]_vars => TypeOK' /\ AnswersOwn'
<1> SUFFICES ASSUME TypeOK, AnswersOwn, [Next]_vars
             PROVE  TypeOK' /\ AnswersOwn'
  OBVIOUS
<1>1. CASE UNCHANGED vars
  BY <1>1 DEF TypeOK, AnswersOwn, vars
<1>2. CASE Next
  BY <1>2, TakeInv, OneStreamInv, LossInv DEF Next
<1> QED BY <1>1, <1>2

\* What a user of a stream reads was asked for by itself, before a loss of the
\* connection and after it, and no stream of an open connection is handed to
\* the next user with anything on it (openStream, waitNextMessage, close).
THEOREM AnswersAreOwn == Spec => [](AnswersOwn /\ FreeIsClean)
<1>1. TypeOK /\ AnswersOwn => FreeIsClean
  BY DEF TypeOK, AnswersOwn, FreeIsClean
<1> QED BY InitInv, NextInv, <1>1, PTL DEF Spec
=============================================================================
