------------------------------ MODULE Reusable ------------------------------
(***************************************************************************)
(* Who owns an object of the free lists of one thread (Reusable.hpp): the  *)
(* commands, messages and result sets that clients and their connections   *)
(* make and let go, whatever is in them.  An object is an address and has  *)
(* a type; each type has its free list.  A RESULT message may own a result *)
(* set, in the free list too: freeResources does nothing for a message,    *)
(* and only the reset() of the next makeReusable lets the result set go.   *)
(***************************************************************************)
EXTENDS Naturals, Sequences

CONSTANTS
    Client,     \* a client with its connection
    Simple,     \* the types whose objects own no others
    Object,     \* addresses
    Capacity    \* of a free list

VARIABLES
    memory,     \* [used, free, inner]: by type, the addresses in use and the
                \* free list; the result set of each RESULT that owns one
    has         \* the objects a client owns, at most one of a type

vars == <<memory, has>>

Type == Simple \cup {"RESULT", "DATA"}

Without(f, x) == [y \in DOMAIN f \ {x} |-> f[y]]
With(f, x, v) == [y \in DOMAIN f \cup {x} |-> IF y = x THEN v ELSE f[y]]

-----------------------------------------------------------------------------
\* Seeded bug: the last of the array is not the last place.
PutPastTheEnd(m, t, id) ==
    IF Len(m.free[t]) <= Capacity
    THEN [m EXCEPT !.free[t] = Append(@, id)]
    ELSE [m EXCEPT !.used[t] = @ \ {id}]

\* The deleter: to the free list, or destroyed when that is full.
Put(m, t, id) ==
    IF Len(m.free[t]) < Capacity
    THEN [m EXCEPT !.free[t] = Append(@, id)]
    ELSE [m EXCEPT !.used[t] = @ \ {id}]

\* The result set of a RESULT goes, if it has one.
Empty(m, id) ==
    IF id \in DOMAIN m.inner
    THEN Put([m EXCEPT !.inner = Without(@, id)], "DATA", m.inner[id])
    ELSE m

\* A Reusable is destroyed; with an object that is destroyed goes what it owns.
Release(m, t, id) ==
    IF t = "RESULT" /\ ~(Len(m.free[t]) < Capacity)
    THEN Put(Empty(m, id), t, id)
    ELSE Put(m, t, id)

\* makeReusable: the last of the free list, or a new object, and its reset().
Available(m, t) ==
    IF m.free[t] # <<>> THEN {m.free[t][Len(m.free[t])]} ELSE Object \ m.used[t]

Take(m, t, id) ==
    IF m.free[t] # <<>>
    THEN [m EXCEPT !.free[t] = SubSeq(@, 1, Len(@) - 1)]
    ELSE [m EXCEPT !.used[t] = @ \cup {id}]

Reset(m, t, id) == IF t = "RESULT" THEN Empty(m, id) ELSE m

-----------------------------------------------------------------------------
Owns(c, t) == t \in DOMAIN has[c]

\* A command, a message or a result set is made.
Make(c, t) ==
    /\ ~Owns(c, t)
    /\ \E id \in Available(memory, t) :
          /\ has' = [has EXCEPT ![c] = With(@, t, id)]
          /\ memory' = Reset(Take(memory, t, id), t, id)

LetGo(c, t) ==
    /\ Owns(c, t)
    /\ has' = [has EXCEPT ![c] = Without(@, t)]
    /\ memory' = Release(memory, t, has[c][t])

\* decodeBody: rows get a result set, which the message owns.
FillRows(c) ==
    /\ Owns(c, "RESULT") /\ has[c]["RESULT"] \notin DOMAIN memory.inner
    /\ UNCHANGED has
    /\ \E id \in Available(memory, "DATA") :
          memory' = [Take(memory, "DATA", id) EXCEPT
                        !.inner = With(@, has[c]["RESULT"], id)]

Swap(f, v) == With(Without(f, "RESULT"), "DATA", v)

\* query() moves the result set out of the message, which then goes.
TakeResultSet(c) ==
    /\ Owns(c, "RESULT") /\ ~Owns(c, "DATA")
    /\ LET id == has[c]["RESULT"]
       IN  /\ id \in DOMAIN memory.inner
           /\ has' = [has EXCEPT ![c] = Swap(@, memory.inner[id])]
           /\ memory' = Release([memory EXCEPT !.inner = Without(@, id)], "RESULT", id)

\* Or makes an empty one when the message has none.
MakeEmptyResultSet(c) ==
    /\ Owns(c, "RESULT") /\ ~Owns(c, "DATA")
    /\ LET id == has[c]["RESULT"]
       IN  /\ id \notin DOMAIN memory.inner
           /\ \E data \in Available(memory, "DATA") :
                 /\ has' = [has EXCEPT ![c] = Swap(@, data)]
                 /\ memory' = Release(Take(memory, "DATA", data), "RESULT", id)

Init ==
    /\ memory = [used |-> [t \in Type |-> {}], free |-> [t \in Type |-> <<>>],
                 inner |-> [r \in {} |-> r]]
    /\ has = [c \in Client |-> [t \in {} |-> t]]

Next ==
    \E c \in Client :
        \/ \E t \in Type : Make(c, t) \/ LetGo(c, t)
        \/ FillRows(c) \/ TakeResultSet(c) \/ MakeEmptyResultSet(c)

Spec == Init /\ [][Next]_vars

-----------------------------------------------------------------------------
(* Properties *)

Free(t) == {memory.free[t][i] : i \in DOMAIN memory.free[t]}
Held(t) == {has[c][t] : c \in {d \in Client : Owns(d, t)}}
Inside(t) == IF t = "DATA" THEN {memory.inner[r] : r \in DOMAIN memory.inner} ELSE {}

Distinct(f) == \A x, y \in DOMAIN f : f[x] = f[y] => x = y

\* Every object in use has one owner, the free lists and the messages that own
\* result sets included: makeReusable never hands out an object twice, a moved
\* Reusable is not released twice, none is lost, and no free list outgrows its
\* array (Reusable, the messages' reset()).
OneOwner ==
    /\ \A t \in Type :
          /\ memory.used[t] = Free(t) \cup Held(t) \cup Inside(t)
          /\ Free(t) \cap Held(t) = {}
          /\ (Free(t) \cup Held(t)) \cap Inside(t) = {}
          /\ Distinct(memory.free[t])
          /\ \A c, d \in Client :
                Owns(c, t) /\ Owns(d, t) /\ has[c][t] = has[d][t] => c = d
          /\ Len(memory.free[t]) <= Capacity
    /\ Distinct(memory.inner)
    /\ DOMAIN memory.inner \subseteq memory.used["RESULT"]
=============================================================================
