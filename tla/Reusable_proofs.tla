--------------------------- MODULE Reusable_proofs ---------------------------
(***************************************************************************)
(* Proofs about Reusable: for any clients, types, addresses and capacity   *)
(* of the free lists, every object in use has exactly one owner.           *)
(***************************************************************************)
EXTENDS Reusable, SequenceTheorems, TLAPS

Values(f) == {f[x] : x \in DOMAIN f}
Partial(S) == UNION {[R -> Object] : R \in SUBSET S}

-----------------------------------------------------------------------------
(* One type: the objects in use, those in its free list, those held by     *)
(* clients and those inside messages.                                      *)

Shared(used, free, held, inside) ==
    /\ used = Values(free) \cup held \cup inside
    /\ Values(free) \cap held = {}
    /\ (Values(free) \cup held) \cap inside = {}
    /\ Distinct(free)
    /\ Len(free) <= Capacity

LEMMA AppendValues ==
    ASSUME NEW s \in Seq(Object), NEW id \in Object, id \notin Values(s), Distinct(s)
    PROVE  Values(Append(s, id)) = Values(s) \cup {id} /\ Distinct(Append(s, id))
<1> DEFINE new == Append(s, id)
<1>1. /\ Len(s) \in Nat /\ DOMAIN s = 1 .. Len(s) /\ DOMAIN new = 1 .. Len(s) + 1
      /\ \A i \in 1 .. Len(s) : new[i] = s[i]
      /\ new[Len(s) + 1] = id
  OBVIOUS
<1> HIDE DEF new
<1>2. \A i \in 1 .. Len(s) + 1 : i \in 1 .. Len(s) \/ i = Len(s) + 1
  BY <1>1
<1>3. \A i \in 1 .. Len(s) : i \in 1 .. Len(s) + 1
  BY <1>1
<1>4. Len(s) + 1 \in 1 .. Len(s) + 1
  BY <1>1
<1>5. Values(new) = Values(s) \cup {id}
  BY <1>1, <1>2, <1>3, <1>4, Zenon DEF Values
<1>6. Distinct(new)
  <2> SUFFICES ASSUME NEW x \in DOMAIN new, NEW y \in DOMAIN new, new[x] = new[y] PROVE x = y
    BY DEF Distinct
  <2>1. CASE x \in 1 .. Len(s) /\ y \in 1 .. Len(s)
    BY <1>1, <2>1 DEF Distinct
  <2>2. CASE x \in 1 .. Len(s) /\ y = Len(s) + 1
    BY <1>1, <2>2 DEF Values
  <2>3. CASE x = Len(s) + 1 /\ y \in 1 .. Len(s)
    BY <1>1, <2>3 DEF Values
  <2> QED
    BY <1>1, <1>2, <2>1, <2>2, <2>3
<1> QED
  BY <1>5, <1>6 DEF new

Front(s) == SubSeq(s, 1, Len(s) - 1)

LEMMA FrontValues ==
    ASSUME NEW s \in Seq(Object), s # <<>>, Distinct(s)
    PROVE  /\ Front(s) \in Seq(Object) /\ Len(Front(s)) = Len(s) - 1
           /\ s[Len(s)] \in Values(s)
           /\ Values(Front(s)) = Values(s) \ {s[Len(s)]} /\ Distinct(Front(s))
<1> DEFINE n == Len(s)
           new == Front(s)
<1>1. n \in Nat \ {0} /\ DOMAIN s = 1 .. n
  BY EmptySeq
<1>2. new \in Seq(Object) /\ Len(new) = n - 1 /\ \A i \in 1 .. n - 1 : new[i] = s[i]
  BY <1>1, SubSeqProperties DEF Front
<1>3. DOMAIN new = 1 .. n - 1
  BY <1>2
<1> HIDE DEF n, new
<1>4. n \in 1 .. n /\ \A i \in 1 .. n : i \in 1 .. n - 1 <=> i # n
  BY <1>1
<1>5. \A i \in 1 .. n - 1 : i \in 1 .. n /\ i # n
  BY <1>1
<1>6. Distinct(new)
  BY <1>1, <1>2, <1>3, <1>5 DEF Distinct
<1>7. Values(new) = Values(s) \ {s[n]}
  <2>1. ASSUME NEW x \in Values(new) PROVE x \in Values(s) /\ x # s[n]
    <3>1. PICK i \in 1 .. n - 1 : x = s[i]
      BY <1>2, <1>3, <2>1 DEF Values
    <3> QED
      BY <1>1, <1>4, <1>5, <3>1 DEF Values, Distinct
  <2>2. ASSUME NEW x \in Values(s), x # s[n] PROVE x \in Values(new)
    <3>1. PICK i \in 1 .. n : x = s[i]
      BY <1>1 DEF Values
    <3>2. i \in 1 .. n - 1
      BY <1>4, <2>2, <3>1
    <3> QED
      BY <1>2, <1>3, <3>1, <3>2 DEF Values
  <2> QED
    BY <2>1, <2>2
<1> QED
  BY <1>1, <1>2, <1>4, <1>6, <1>7 DEF n, new, Values

-----------------------------------------------------------------------------
(* The memory, when clients hold the objects H[t] of type t *)

Inner(m, t) == IF t = "DATA" THEN Values(m.inner) ELSE {}

Memory == [used : [Type -> SUBSET Object], free : [Type -> Seq(Object)],
           inner : Partial(Object)]
Holding == [Type -> SUBSET Object]

EachShared(m, H) == \A t \in Type : Shared(m.used[t], m.free[t], H[t], Inner(m, t))

Sound(m, H) ==
    /\ m \in Memory
    /\ EachShared(m, H)
    /\ Distinct(m.inner)
    /\ DOMAIN m.inner \subseteq m.used["RESULT"]

Plus(H, t, id) == [H EXCEPT ![t] = @ \cup {id}]
Minus(H, t, id) == [H EXCEPT ![t] = @ \ {id}]

LEMMA PlusMinus ==
    ASSUME NEW H \in Holding, NEW t \in Type, NEW id \in Object
    PROVE  /\ Plus(H, t, id) \in Holding /\ Minus(H, t, id) \in Holding
           /\ \A s \in Type : s # t => Plus(H, t, id)[s] = H[s] /\ Minus(H, t, id)[s] = H[s]
           /\ Plus(H, t, id)[t] = H[t] \cup {id} /\ Minus(H, t, id)[t] = H[t] \ {id}
           /\ id \notin H[t] => Minus(Plus(H, t, id), t, id) = H
BY DEF Plus, Minus, Holding

\* Only type t changes.
Elsewhere(m, H, new, K, t) ==
    /\ new.inner = m.inner
    /\ \A u \in Type : u # t => /\ new.used[u] = m.used[u] /\ new.free[u] = m.free[u]
                               /\ K[u] = H[u]

LEMMA OtherTypes ==
    ASSUME NEW m, NEW H, NEW new, NEW K, NEW t, EachShared(m, H), Elsewhere(m, H, new, K, t),
           Shared(new.used[t], new.free[t], K[t], Inner(m, t))
    PROVE  EachShared(new, K)
<1> SUFFICES ASSUME NEW u \in Type
             PROVE  Shared(new.used[u], new.free[u], K[u], Inner(new, u))
  BY DEF EachShared
<1>1. Inner(new, u) = Inner(m, u)
  BY DEF Inner, Elsewhere
<1>2. CASE u = t
  BY <1>1, <1>2
<1>3. CASE u # t
  BY <1>1, <1>3 DEF EachShared, Elsewhere
<1> QED
  BY <1>2, <1>3

\* makeReusable takes an object nobody holds.
LEMMA TakeSound ==
    ASSUME NEW m, NEW H \in Holding, Sound(m, H), Capacity \in Nat,
           NEW t \in Type, NEW id \in Available(m, t)
    PROVE  /\ id \in Object /\ id \notin H[t] /\ id \notin Inner(m, t)
           /\ Take(m, t, id).inner = m.inner
           /\ m.used["RESULT"] \subseteq Take(m, t, id).used["RESULT"]
           /\ Sound(Take(m, t, id), Plus(H, t, id))
<1> DEFINE new == Take(m, t, id)
           s == m.free[t]
<1>1. /\ m \in Memory /\ s \in Seq(Object) /\ Len(s) \in Nat
      /\ Shared(m.used[t], s, H[t], Inner(m, t))
  BY DEF Sound, EachShared, Memory
<1>2. CASE s # <<>>
  <2>1. /\ new = [m EXCEPT !.free[t] = Front(s)] /\ id = s[Len(s)]
    BY <1>2 DEF Take, Available, Front
  <2>2. /\ Front(s) \in Seq(Object) /\ Len(Front(s)) = Len(s) - 1
        /\ id \in Values(s) /\ Values(Front(s)) = Values(s) \ {id} /\ Distinct(Front(s))
    BY <1>1, <1>2, <2>1, FrontValues DEF Shared
  <2> HIDE DEF s
  <2>3. id \in Object /\ id \notin H[t] /\ id \notin Inner(m, t)
    <3>1. id \in m.used[t] /\ m.used[t] \subseteq Object
      BY <1>1, <2>2 DEF Shared, Memory
    <3> QED
      BY <1>1, <2>2, <3>1 DEF Shared
  <2>4. /\ new \in Memory /\ new.used = m.used /\ new.inner = m.inner
        /\ new.free[t] = Front(s) /\ \A u \in Type : u # t => new.free[u] = m.free[u]
    BY <1>1, <2>1, <2>2 DEF Memory
  <2> HIDE DEF new
  <2>5. Shared(new.used[t], new.free[t], H[t] \cup {id}, Inner(new, t))
    <3>1. Len(new.free[t]) <= Capacity
      BY <1>1, <2>2, <2>4 DEF Shared
    <3> QED
      BY <1>1, <2>2, <2>3, <2>4, <3>1 DEF Shared, Inner
  <2>6. EachShared(new, Plus(H, t, id))
    <3>1. Elsewhere(m, H, new, Plus(H, t, id), t)
      BY <2>3, <2>4, <2>5, PlusMinus DEF Elsewhere
    <3>2. Plus(H, t, id)[t] = H[t] \cup {id}
      BY <2>3, <2>4, <2>5, PlusMinus
    <3>3. Shared(new.used[t], new.free[t], Plus(H, t, id)[t], Inner(m, t))
      <4>1. Inner(new, t) = Inner(m, t)
        BY <2>3, <2>4, <2>5 DEF Inner
      <4> QED
        BY <2>3, <2>4, <2>5, <3>2, <4>1
    <3> QED
      BY <3>1, <3>3, OtherTypes DEF Sound
  <2>7. Sound(new, Plus(H, t, id))
    BY <2>4, <2>6 DEF Sound
  <2> QED
    BY <2>3, <2>4, <2>7 DEF new
<1>3. CASE s = <<>>
  <2>1. /\ new = [m EXCEPT !.used[t] = @ \cup {id}] /\ id \in Object /\ id \notin m.used[t]
    BY <1>3 DEF Take, Available
  <2>2. /\ new \in Memory /\ new.free = m.free /\ new.inner = m.inner
        /\ new.used[t] = m.used[t] \cup {id} /\ \A u \in Type : u # t => new.used[u] = m.used[u]
    <3>1. new = [m EXCEPT !.used[t] = @ \cup {id}] /\ m \in Memory /\ id \in Object
      BY <1>1, <2>1
    <3> HIDE DEF new, s
    <3> QED
      BY <3>1 DEF Memory
  <2> HIDE DEF new, s
  <2>3. id \notin H[t] /\ id \notin Inner(m, t) /\ id \notin Values(m.free[t])
    BY <1>1, <2>1 DEF Shared, s
  <2>4. Shared(new.used[t], new.free[t], H[t] \cup {id}, Inner(new, t))
    BY <1>1, <2>2, <2>3 DEF Shared, Inner, s
  <2>5. EachShared(new, Plus(H, t, id))
    <3>1. Elsewhere(m, H, new, Plus(H, t, id), t)
      BY <2>1, <2>2, <2>4, PlusMinus DEF Elsewhere
    <3>2. Plus(H, t, id)[t] = H[t] \cup {id}
      BY <2>1, <2>2, <2>4, PlusMinus
    <3>3. Shared(new.used[t], new.free[t], Plus(H, t, id)[t], Inner(m, t))
      <4>1. Inner(new, t) = Inner(m, t)
        BY <2>1, <2>2, <2>4 DEF Inner
      <4> QED
        BY <2>1, <2>2, <2>4, <3>2, <4>1
    <3> QED
      BY <3>1, <3>3, OtherTypes DEF Sound
  <2>6. m.used["RESULT"] \subseteq new.used["RESULT"]
    BY <2>2 DEF Type
  <2>7. Sound(new, Plus(H, t, id))
    BY <2>2, <2>5, <2>6 DEF Sound
  <2> QED
    BY <2>1, <2>2, <2>3, <2>6, <2>7 DEF new
<1> QED
  BY <1>2, <1>3

\* The deleter frees or destroys an object that its only owner gives up.
LEMMA PutSound ==
    ASSUME NEW m, NEW H \in Holding, Sound(m, H), Capacity \in Nat,
           NEW t \in Type, NEW id \in H[t],
           t = "RESULT" => Len(m.free[t]) < Capacity \/ id \notin DOMAIN m.inner
    PROVE  /\ Sound(Put(m, t, id), Minus(H, t, id))
           /\ Put(m, t, id).inner = m.inner
           /\ t # "RESULT" => /\ Put(m, t, id).free["RESULT"] = m.free["RESULT"]
                              /\ Put(m, t, id).used["RESULT"] = m.used["RESULT"]
<1> DEFINE new == Put(m, t, id)
           s == m.free[t]
<1>1. /\ m \in Memory /\ s \in Seq(Object) /\ Len(s) \in Nat
      /\ Shared(m.used[t], s, H[t], Inner(m, t)) /\ id \in Object
  BY DEF Sound, EachShared, Memory, Holding
<1>2. "RESULT" \in Type
  BY DEF Type
<1>3. id \notin Values(s) /\ id \notin Inner(m, t) /\ id \in m.used[t] /\ Distinct(s)
  BY <1>1 DEF Shared
<1>4. CASE Len(s) < Capacity
  <2>1. new = [m EXCEPT !.free[t] = Append(s, id)]
    BY <1>4 DEF Put
  <2>2. /\ Append(s, id) \in Seq(Object) /\ Len(Append(s, id)) = Len(s) + 1
        /\ Values(Append(s, id)) = Values(s) \cup {id} /\ Distinct(Append(s, id))
    BY <1>1, <1>3, AppendValues
  <2> HIDE DEF s
  <2>3. /\ new \in Memory /\ new.used = m.used /\ new.inner = m.inner
        /\ new.free[t] = Append(s, id) /\ \A u \in Type : u # t => new.free[u] = m.free[u]
    BY <1>1, <2>1, <2>2 DEF Memory
  <2> HIDE DEF new
  <2>4. Shared(new.used[t], new.free[t], H[t] \ {id}, Inner(new, t))
    <3>1. Len(new.free[t]) <= Capacity
      BY <1>1, <1>4, <2>2, <2>3
    <3> QED
      BY <1>1, <1>3, <2>2, <2>3, <3>1 DEF Shared, Inner
  <2>5. EachShared(new, Minus(H, t, id))
    <3>1. Elsewhere(m, H, new, Minus(H, t, id), t)
      BY <1>1, <2>3, <2>4, PlusMinus DEF Elsewhere
    <3>2. Minus(H, t, id)[t] = H[t] \ {id}
      BY <1>1, <2>3, <2>4, PlusMinus
    <3>3. Shared(new.used[t], new.free[t], Minus(H, t, id)[t], Inner(m, t))
      <4>1. Inner(new, t) = Inner(m, t)
        BY <1>1, <2>3, <2>4 DEF Inner
      <4> QED
        BY <1>1, <2>3, <2>4, <3>2, <4>1
    <3> QED
      BY <3>1, <3>3, OtherTypes DEF Sound
  <2>6. Sound(new, Minus(H, t, id))
    BY <2>3, <2>5 DEF Sound
  <2> QED
    BY <1>2, <2>3, <2>6 DEF new
<1>5. CASE ~(Len(s) < Capacity)
  <2>1. new = [m EXCEPT !.used[t] = @ \ {id}]
    BY <1>5 DEF Put
  <2>2. /\ new \in Memory /\ new.free = m.free /\ new.inner = m.inner
        /\ new.used[t] = m.used[t] \ {id} /\ \A u \in Type : u # t => new.used[u] = m.used[u]
    BY <1>1, <2>1 DEF Memory
  <2> HIDE DEF new
  <2>3. Shared(new.used[t], new.free[t], H[t] \ {id}, Inner(new, t))
    BY <1>1, <1>3, <2>2 DEF Shared, Inner
  <2>4. EachShared(new, Minus(H, t, id))
    <3>1. Elsewhere(m, H, new, Minus(H, t, id), t)
      BY <1>1, <2>2, <2>3, PlusMinus DEF Elsewhere
    <3>2. Minus(H, t, id)[t] = H[t] \ {id}
      BY <1>1, <2>2, <2>3, PlusMinus
    <3>3. Shared(new.used[t], new.free[t], Minus(H, t, id)[t], Inner(m, t))
      <4>1. Inner(new, t) = Inner(m, t)
        BY <1>1, <2>2, <2>3 DEF Inner
      <4> QED
        BY <1>1, <2>2, <2>3, <3>2, <4>1
    <3> QED
      BY <3>1, <3>3, OtherTypes DEF Sound
  <2>5. DOMAIN new.inner \subseteq new.used["RESULT"]
    BY <1>2, <1>5, <2>2 DEF Sound
  <2>6. Sound(new, Minus(H, t, id))
    BY <2>2, <2>4, <2>5 DEF Sound
  <2> QED
    BY <1>2, <2>2, <2>6 DEF new
<1> QED
  BY <1>4, <1>5

-----------------------------------------------------------------------------
(* Partial functions *)

LEMMA WithoutFacts ==
    ASSUME NEW f, NEW x
    PROVE  /\ DOMAIN Without(f, x) = DOMAIN f \ {x}
           /\ \A y \in DOMAIN f \ {x} : Without(f, x)[y] = f[y]
BY DEF Without

LEMMA WithFacts ==
    ASSUME NEW f, NEW x, NEW v
    PROVE  /\ DOMAIN With(f, x, v) = DOMAIN f \cup {x}
           /\ With(f, x, v)[x] = v
           /\ \A y \in DOMAIN f : y # x => With(f, x, v)[y] = f[y]
BY DEF With

LEMMA PartialWithout ==
    ASSUME NEW S, NEW f \in Partial(S), NEW x
    PROVE  Without(f, x) \in Partial(S)
<1>1. DOMAIN f \in SUBSET S /\ f \in [DOMAIN f -> Object]
  BY DEF Partial
<1>2. Without(f, x) \in [DOMAIN f \ {x} -> Object]
  BY <1>1 DEF Without
<1>3. DOMAIN f \ {x} \in SUBSET S
  BY <1>1
<1> QED
  BY <1>2, <1>3 DEF Partial

LEMMA PartialWith ==
    ASSUME NEW S, NEW f \in Partial(S), NEW x \in S, NEW v \in Object
    PROVE  With(f, x, v) \in Partial(S)
<1>1. DOMAIN f \in SUBSET S /\ f \in [DOMAIN f -> Object]
  BY DEF Partial
<1>2. With(f, x, v) \in [DOMAIN f \cup {x} -> Object]
  BY <1>1 DEF With
<1>3. DOMAIN f \cup {x} \in SUBSET S
  BY <1>1
<1> QED
  BY <1>2, <1>3 DEF Partial

-----------------------------------------------------------------------------
(* Result sets inside messages *)

\* A result set moved out of a message is held by who moves it, and nobody
\* else.
LEMMA DetachSound ==
    ASSUME NEW m, NEW H \in Holding, Sound(m, H), NEW r \in DOMAIN m.inner
    PROVE  /\ m.inner[r] \in Object /\ m.inner[r] \notin H["DATA"]
           /\ Sound([m EXCEPT !.inner = Without(@, r)], Plus(H, "DATA", m.inner[r]))
<1> DEFINE d == m.inner[r]
           f == Without(m.inner, r)
           new == [m EXCEPT !.inner = f]
           K == Plus(H, "DATA", d)
<1>1. /\ m \in Memory /\ m.inner \in Partial(Object) /\ Distinct(m.inner)
      /\ DOMAIN m.inner \subseteq m.used["RESULT"]
      /\ "DATA" \in Type /\ "RESULT" \in Type
  BY DEF Sound, Memory, Type
<1>2. d \in Object
  BY <1>1 DEF Partial
<1>3. /\ f \in Partial(Object) /\ DOMAIN f = DOMAIN m.inner \ {r}
      /\ \A y \in DOMAIN f : f[y] = m.inner[y]
  BY <1>1, WithoutFacts, PartialWithout
<1>4. Values(f) = Values(m.inner) \ {d}
  BY <1>1, <1>3 DEF Values, Distinct
<1>5. d \in Values(m.inner)
  BY DEF Values
<1> HIDE DEF f
<1>6. /\ new \in Memory /\ new.used = m.used /\ new.free = m.free /\ new.inner = f
  BY <1>1, <1>3 DEF Memory
<1>7. /\ K["DATA"] = H["DATA"] \cup {d}
      /\ \A t \in Type : t # "DATA" => K[t] = H[t]
  BY <1>1, <1>2, PlusMinus
<1> HIDE DEF new, K, d
<1>8. Shared(m.used["DATA"], m.free["DATA"], H["DATA"], Values(m.inner))
  BY <1>1 DEF Sound, EachShared, Inner
<1>9. d \notin H["DATA"]
  BY <1>5, <1>8 DEF Shared
<1>10. EachShared(new, K)
  <2> SUFFICES ASSUME NEW t \in Type PROVE Shared(new.used[t], new.free[t], K[t], Inner(new, t))
    BY DEF EachShared
  <2>1. CASE t = "DATA"
    <3>1. Shared(m.used["DATA"], m.free["DATA"], H["DATA"] \cup {d}, Values(f))
      BY <1>4, <1>5, <1>8 DEF Shared
    <3>2. Inner(new, t) = Values(f)
      BY <1>6, <2>1 DEF Inner
    <3> QED
      BY <1>6, <1>7, <2>1, <3>1, <3>2
  <2>2. CASE t # "DATA"
    <3>1. Shared(m.used[t], m.free[t], H[t], Inner(m, t))
      BY DEF Sound, EachShared
    <3>2. Inner(new, t) = Inner(m, t)
      BY <2>2 DEF Inner
    <3> QED
      BY <1>6, <1>7, <2>2, <3>1, <3>2
  <2> QED
    BY <2>1, <2>2
<1>11. Distinct(f) /\ DOMAIN f \subseteq m.used["RESULT"]
  BY <1>1, <1>3 DEF Distinct
<1>12. Sound(new, K)
  BY <1>6, <1>10, <1>11 DEF Sound
<1> QED
  BY <1>2, <1>9, <1>12 DEF new, K, d, f

\* A message comes to own a result set that was made for it.
LEMMA AttachSound ==
    ASSUME NEW m, NEW H \in Holding, Sound(m, H), NEW d \in H["DATA"],
           NEW r \in m.used["RESULT"], r \notin DOMAIN m.inner
    PROVE  Sound([m EXCEPT !.inner = With(@, r, d)], Minus(H, "DATA", d))
<1> DEFINE f == With(m.inner, r, d)
           new == [m EXCEPT !.inner = f]
           K == Minus(H, "DATA", d)
<1>1. /\ m \in Memory /\ m.inner \in Partial(Object) /\ Distinct(m.inner)
      /\ DOMAIN m.inner \subseteq m.used["RESULT"]
      /\ "DATA" \in Type /\ "RESULT" \in Type
  BY DEF Sound, Memory, Type
<1>2. d \in Object /\ r \in Object
  BY <1>1 DEF Holding, Memory
<1>3. /\ f \in Partial(Object) /\ DOMAIN f = DOMAIN m.inner \cup {r} /\ f[r] = d
      /\ \A y \in DOMAIN m.inner : f[y] = m.inner[y]
  <2>1. \A y \in DOMAIN m.inner : y # r
    OBVIOUS
  <2>2. f \in Partial(Object)
    BY <1>1, <1>2, PartialWith
  <2>3. /\ DOMAIN f = DOMAIN m.inner \cup {r} /\ f[r] = d
        /\ \A y \in DOMAIN m.inner : y # r => f[y] = m.inner[y]
    BY DEF With
  <2> QED
    BY <2>1, <2>2, <2>3
<1> HIDE DEF f
<1>4. Values(f) = Values(m.inner) \cup {d}
  BY <1>3 DEF Values
<1>5. Shared(m.used["DATA"], m.free["DATA"], H["DATA"], Values(m.inner))
  BY <1>1 DEF Sound, EachShared, Inner
<1>6. d \notin Values(m.inner)
  BY <1>5 DEF Shared
<1>7. Distinct(f)
  BY <1>1, <1>3, <1>6 DEF Distinct, Values
<1>8. /\ new \in Memory /\ new.used = m.used /\ new.free = m.free /\ new.inner = f
  BY <1>1, <1>3 DEF Memory
<1>9. /\ K["DATA"] = H["DATA"] \ {d}
      /\ \A t \in Type : t # "DATA" => K[t] = H[t]
  BY <1>1, <1>2, PlusMinus
<1> HIDE DEF new, K
<1>10. EachShared(new, K)
  <2> SUFFICES ASSUME NEW t \in Type PROVE Shared(new.used[t], new.free[t], K[t], Inner(new, t))
    BY DEF EachShared
  <2>1. CASE t = "DATA"
    <3>1. Shared(m.used["DATA"], m.free["DATA"], H["DATA"] \ {d}, Values(f))
      BY <1>4, <1>5, <1>6 DEF Shared
    <3>2. Inner(new, t) = Values(f)
      BY <1>8, <2>1 DEF Inner
    <3> QED
      BY <1>8, <1>9, <2>1, <3>1, <3>2
  <2>2. CASE t # "DATA"
    <3>1. Shared(m.used[t], m.free[t], H[t], Inner(m, t))
      BY DEF Sound, EachShared
    <3>2. Inner(new, t) = Inner(m, t)
      BY <2>2 DEF Inner
    <3> QED
      BY <1>8, <1>9, <2>2, <3>1, <3>2
  <2> QED
    BY <2>1, <2>2
<1>11. DOMAIN f \subseteq m.used["RESULT"]
  BY <1>1, <1>3
<1>12. Sound(new, K)
  BY <1>7, <1>8, <1>10, <1>11 DEF Sound
<1> QED
  BY <1>12 DEF new, K, f

\* A message that lets its result set go keeps its own place.
LEMMA EmptySound ==
    ASSUME NEW m, NEW H \in Holding, Sound(m, H), Capacity \in Nat, NEW r
    PROVE  /\ Sound(Empty(m, r), H)
           /\ r \notin DOMAIN Empty(m, r).inner
           /\ Empty(m, r).free["RESULT"] = m.free["RESULT"]
<1>1. CASE r \notin DOMAIN m.inner
  BY <1>1 DEF Empty
<1>2. CASE r \in DOMAIN m.inner
  <2> DEFINE d == m.inner[r]
             m1 == [m EXCEPT !.inner = Without(@, r)]
             K == Plus(H, "DATA", d)
  <2>1. /\ d \in Object /\ d \notin H["DATA"] /\ Sound(m1, K)
    BY <1>2, DetachSound
  <2>2. "DATA" \in Type /\ m \in Memory /\ m.inner \in Partial(Object)
    BY DEF Type, Sound, Memory
  <2>3. K \in Holding /\ d \in K["DATA"] /\ Minus(K, "DATA", d) = H
    BY <2>1, <2>2, PlusMinus
  <2>4. m1.free = m.free /\ m1.inner = Without(m.inner, r)
    BY <2>2 DEF Memory
  <2>5. r \notin DOMAIN Without(m.inner, r)
    BY DEF Without
  <2>6. Empty(m, r) = Put(m1, "DATA", d)
    BY <1>2 DEF Empty
  <2> HIDE DEF m1, K, d
  <2>7. /\ Sound(Put(m1, "DATA", d), Minus(K, "DATA", d))
        /\ Put(m1, "DATA", d).inner = m1.inner
        /\ Put(m1, "DATA", d).free["RESULT"] = m1.free["RESULT"]
    BY <2>1, <2>2, <2>3, PutSound
  <2> QED
    BY <2>3, <2>4, <2>5, <2>6, <2>7
<1> QED
  BY <1>1, <1>2

\* A Reusable that is destroyed takes its object, and a result set inside an
\* object that is destroyed, back to where they belong.
LEMMA ReleaseSound ==
    ASSUME NEW m, NEW H \in Holding, Sound(m, H), Capacity \in Nat,
           NEW t \in Type, NEW id \in H[t]
    PROVE  Sound(Release(m, t, id), Minus(H, t, id))
<1>1. CASE t = "RESULT" /\ ~(Len(m.free[t]) < Capacity)
  <2>1. Release(m, t, id) = Put(Empty(m, id), t, id)
    BY <1>1 DEF Release
  <2>2. Sound(Empty(m, id), H) /\ id \notin DOMAIN Empty(m, id).inner
    BY EmptySound
  <2> QED
    BY <2>1, <2>2, PutSound
<1>2. CASE ~(t = "RESULT" /\ ~(Len(m.free[t]) < Capacity))
  <2>1. Release(m, t, id) = Put(m, t, id)
    BY <1>2 DEF Release
  <2> QED
    BY <1>2, <2>1, PutSound
<1> QED
  BY <1>1, <1>2

LEMMA ResetSound ==
    ASSUME NEW m, NEW H \in Holding, Sound(m, H), Capacity \in Nat, NEW t, NEW id
    PROVE  Sound(Reset(m, t, id), H)
BY EmptySound DEF Reset

-----------------------------------------------------------------------------
(* What clients hold *)

Owners == [Client -> Partial(Type)]

HeldOf(f) == [t \in Type |-> {f[c][t] : c \in {d \in Client : t \in DOMAIN f[d]}}]

\* No object has two clients for owners.
Apart(f) ==
    \A t \in Type : \A c, d \in Client :
        t \in DOMAIN f[c] /\ t \in DOMAIN f[d] /\ f[c][t] = f[d][t] => c = d

LEMMA HeldBy ==
    ASSUME NEW f \in Owners
    PROVE  /\ HeldOf(f) \in Holding
           /\ \A t \in Type : \A x :
                 x \in HeldOf(f)[t] <=> \E c \in Client : t \in DOMAIN f[c] /\ x = f[c][t]
<1>1. ASSUME NEW c \in Client, NEW t \in DOMAIN f[c] PROVE f[c][t] \in Object
  <2>1. f[c] \in Partial(Type)
    BY DEF Owners
  <2> QED
    BY <2>1 DEF Partial
<1>2. \A t \in Type : HeldOf(f)[t] = {f[c][t] : c \in {d \in Client : t \in DOMAIN f[d]}}
  BY DEF HeldOf
<1>3. \A t \in Type : HeldOf(f)[t] \subseteq Object
  BY <1>1, <1>2
<1>4. HeldOf(f) \in Holding
  BY <1>3 DEF HeldOf, Holding
<1> QED
  BY <1>2, <1>4

LEMMA EqualHoldings ==
    ASSUME NEW H \in Holding, NEW K \in Holding,
           \A t \in Type : \A x : x \in H[t] <=> x \in K[t]
    PROVE  H = K
<1>1. \A t \in Type : H[t] = K[t]
  OBVIOUS
<1> QED
  BY <1>1 DEF Holding

Given(f, c, t, id) == [f EXCEPT ![c] = With(@, t, id)]
Lost(f, c, t) == [f EXCEPT ![c] = Without(@, t)]

\* A client is given an object nobody held.
LEMMA GiveHeld ==
    ASSUME NEW f \in Owners, Apart(f), NEW c \in Client, NEW t \in Type, NEW id \in Object,
           t \notin DOMAIN f[c], id \notin HeldOf(f)[t]
    PROVE  /\ Given(f, c, t, id) \in Owners /\ Apart(Given(f, c, t, id))
           /\ HeldOf(Given(f, c, t, id)) = Plus(HeldOf(f), t, id)
<1> DEFINE new == Given(f, c, t, id)
           H == HeldOf(f)
<1>1. f[c] \in Partial(Type)
  BY DEF Owners
<1>2. new \in Owners
  <2>1. With(f[c], t, id) \in Partial(Type)
    BY <1>1, PartialWith
  <2> QED
    BY <2>1 DEF Owners, Given
<1>3. /\ DOMAIN new[c] = DOMAIN f[c] \cup {t} /\ new[c][t] = id
      /\ \A u \in DOMAIN f[c] : u # t => new[c][u] = f[c][u]
      /\ \A d \in Client : d # c => new[d] = f[d]
  <2>1. new[c] = With(f[c], t, id) /\ \A d \in Client : d # c => new[d] = f[d]
    BY DEF Owners, Given
  <2> QED
    BY <2>1 DEF With
<1>4. H \in Holding /\ HeldOf(new) \in Holding /\ Plus(H, t, id) \in Holding
  BY <1>2, HeldBy, PlusMinus
<1> HIDE DEF new
<1>5. \A u \in DOMAIN f[c] : u # t
  OBVIOUS
<1>6. Apart(new)
  <2> SUFFICES ASSUME NEW u \in Type, NEW d \in Client, NEW e \in Client,
                      u \in DOMAIN new[d], u \in DOMAIN new[e], new[d][u] = new[e][u], d # e
               PROVE  FALSE
    BY DEF Apart
  <2>1. CASE d # c /\ e # c
    BY <1>3, <2>1 DEF Apart
  <2>2. ASSUME NEW a \in Client, a # c, u \in DOMAIN new[a], u \in DOMAIN new[c],
               new[c][u] = new[a][u]
        PROVE  FALSE
    <3>1. new[a] = f[a]
      BY <1>3, <2>2
    <3>2. CASE u = t
      BY <1>3, <2>2, <3>1, <3>2, HeldBy
    <3>3. CASE u # t
      <4>1. u \in DOMAIN f[c] /\ new[c][u] = f[c][u]
        BY <1>3, <2>2, <3>3
      <4> QED
        BY <2>2, <3>1, <4>1 DEF Apart
    <3> QED
      BY <3>2, <3>3
  <2> QED
    BY <2>1, <2>2
<1>7. ASSUME NEW u \in Type, NEW x PROVE x \in HeldOf(new)[u] <=> x \in Plus(H, t, id)[u]
  <2>1. x \in HeldOf(new)[u] <=> \E d \in Client : u \in DOMAIN new[d] /\ x = new[d][u]
    BY ONLY u \in Type, <1>2, HeldBy
  <2>2. x \in H[u] <=> \E d \in Client : u \in DOMAIN f[d] /\ x = f[d][u]
    BY HeldBy
  <2>3. Plus(H, t, id)[u] = IF u = t THEN H[t] \cup {id} ELSE H[u]
    BY <1>4 DEF Plus, Holding
  <2> HIDE DEF H
  <2>4. CASE u # t
    BY <1>3, <2>1, <2>2, <2>3, <2>4
  <2>5. CASE u = t
    BY <1>3, <2>1, <2>2, <2>3, <2>5
  <2> QED
    BY <2>4, <2>5
<1>8. HeldOf(new) = Plus(H, t, id)
  BY <1>4, <1>7, EqualHoldings
<1> QED
  BY <1>2, <1>6, <1>8 DEF new

\* A client gives up an object.
LEMMA LoseHeld ==
    ASSUME NEW f \in Owners, Apart(f), NEW c \in Client, NEW t \in Type, t \in DOMAIN f[c]
    PROVE  /\ f[c][t] \in HeldOf(f)[t] /\ f[c][t] \in Object
           /\ Lost(f, c, t) \in Owners /\ Apart(Lost(f, c, t))
           /\ DOMAIN Lost(f, c, t)[c] = DOMAIN f[c] \ {t}
           /\ HeldOf(Lost(f, c, t)) = Minus(HeldOf(f), t, f[c][t])
<1> DEFINE new == Lost(f, c, t)
           H == HeldOf(f)
           id == f[c][t]
<1>1. f[c] \in Partial(Type) /\ id \in H[t] /\ H \in Holding
  BY HeldBy DEF Owners
<1>2. id \in Object
  BY <1>1 DEF Holding
<1>3. new \in Owners
  <2>1. Without(f[c], t) \in Partial(Type)
    BY <1>1, PartialWithout
  <2> QED
    BY <2>1 DEF Owners, Lost
<1>4. /\ DOMAIN new[c] = DOMAIN f[c] \ {t}
      /\ \A u \in DOMAIN f[c] : u # t => new[c][u] = f[c][u]
      /\ \A d \in Client : d # c => new[d] = f[d]
  <2>1. new[c] = Without(f[c], t) /\ \A d \in Client : d # c => new[d] = f[d]
    BY DEF Owners, Lost
  <2> QED
    BY <2>1 DEF Without
<1>5. HeldOf(new) \in Holding /\ Minus(H, t, id) \in Holding
  BY <1>1, <1>2, <1>3, HeldBy, PlusMinus
<1> HIDE DEF new
<1>6. \A d \in Client : \A u \in DOMAIN new[d] : u \in DOMAIN f[d] /\ new[d][u] = f[d][u]
  BY <1>4
<1>7. Apart(new)
  BY <1>6 DEF Apart
<1>8. ASSUME NEW u \in Type, NEW x PROVE x \in HeldOf(new)[u] <=> x \in Minus(H, t, id)[u]
  <2>1. x \in HeldOf(new)[u] <=> \E d \in Client : u \in DOMAIN new[d] /\ x = new[d][u]
    BY ONLY u \in Type, <1>3, HeldBy
  <2>2. x \in H[u] <=> \E d \in Client : u \in DOMAIN f[d] /\ x = f[d][u]
    BY HeldBy
  <2>3. Minus(H, t, id)[u] = IF u = t THEN H[t] \ {id} ELSE H[u]
    BY <1>1 DEF Minus, Holding
  <2> HIDE DEF H
  <2>4. CASE u # t
    BY <1>4, <2>1, <2>2, <2>3, <2>4
  <2>5. CASE u = t
    <3>1. \A d \in Client : t \in DOMAIN f[d] /\ f[d][t] = id => d = c
      BY DEF Apart
    <3> QED
      BY <1>4, <2>1, <2>2, <2>3, <2>5, <3>1
  <2> QED
    BY <2>4, <2>5
<1>9. HeldOf(new) = Minus(H, t, id)
  BY <1>1, <1>5, <1>8, EqualHoldings
<1> QED
  BY <1>1, <1>2, <1>3, <1>4, <1>7, <1>9 DEF new

-----------------------------------------------------------------------------
(* The invariant *)

IInv == has \in Owners /\ Apart(has) /\ Sound(memory, HeldOf(has))

LEMMA MakeStep ==
    ASSUME IInv, Capacity \in Nat, NEW c \in Client, NEW t \in Type, Make(c, t)
    PROVE  IInv'
<1> DEFINE H == HeldOf(has)
<1>1. H \in Holding /\ Sound(memory, H)
  BY HeldBy DEF IInv
<1>2. PICK id \in Available(memory, t) :
          /\ memory' = Reset(Take(memory, t, id), t, id)
          /\ has' = [has EXCEPT ![c] = With(@, t, id)]
  BY DEF Make
<1>3. /\ id \in Object /\ id \notin H[t] /\ Sound(Take(memory, t, id), Plus(H, t, id))
  BY <1>1, TakeSound
<1>4. has' \in Owners /\ Apart(has') /\ HeldOf(has') = Plus(H, t, id)
  <2>1. has \in Owners /\ Apart(has) /\ t \notin DOMAIN has[c]
    BY DEF IInv, Make, Owns
  <2>2. has' = Given(has, c, t, id)
    BY <1>2 DEF Given
  <2> QED
    BY <1>3, <2>1, <2>2, GiveHeld
<1>5. Plus(H, t, id) \in Holding
  BY <1>1, <1>3, PlusMinus
<1> HIDE DEF H
<1>6. Sound(memory', Plus(H, t, id))
  BY <1>2, <1>3, <1>5, ResetSound
<1> QED
  BY <1>4, <1>6 DEF IInv

LEMMA LetGoStep ==
    ASSUME IInv, Capacity \in Nat, NEW c \in Client, NEW t \in Type, LetGo(c, t)
    PROVE  IInv'
<1> DEFINE H == HeldOf(has)
           id == has[c][t]
<1>1. H \in Holding /\ Sound(memory, H)
  BY HeldBy DEF IInv
<1>2. /\ id \in H[t] /\ has' \in Owners /\ Apart(has') /\ HeldOf(has') = Minus(H, t, id)
  <2>1. has \in Owners /\ Apart(has) /\ t \in DOMAIN has[c]
    BY DEF IInv, LetGo, Owns
  <2>2. has' = Lost(has, c, t)
    BY DEF LetGo, Lost
  <2> QED
    BY <2>1, <2>2, LoseHeld
<1>3. memory' = Release(memory, t, id)
  BY DEF LetGo
<1> HIDE DEF H, id
<1>4. Sound(memory', Minus(H, t, id))
  BY <1>1, <1>2, <1>3, ReleaseSound
<1> QED
  BY <1>2, <1>4 DEF IInv

LEMMA FillRowsStep ==
    ASSUME IInv, Capacity \in Nat, NEW c \in Client, FillRows(c)
    PROVE  IInv'
<1> DEFINE H == HeldOf(has)
           r == has[c]["RESULT"]
<1>1. H \in Holding /\ Sound(memory, H) /\ "DATA" \in Type /\ "RESULT" \in Type
  BY HeldBy DEF IInv, Type
<1>2. r \in H["RESULT"] /\ r \notin DOMAIN memory.inner
  BY <1>1, HeldBy DEF IInv, FillRows, Owns
<1>3. PICK d \in Available(memory, "DATA") :
          memory' = [Take(memory, "DATA", d) EXCEPT !.inner = With(@, r, d)]
  BY DEF FillRows
<1> DEFINE m == Take(memory, "DATA", d)
           K == Plus(H, "DATA", d)
<1> HIDE DEF H, r
<1>4. /\ d \in Object /\ d \notin H["DATA"] /\ Sound(m, K) /\ m.inner = memory.inner
      /\ memory.used["RESULT"] \subseteq m.used["RESULT"]
  BY <1>1, TakeSound
<1>5. K \in Holding /\ d \in K["DATA"] /\ Minus(K, "DATA", d) = H
  BY <1>1, <1>4, PlusMinus
<1>6. r \in m.used["RESULT"]
  <2>1. Shared(memory.used["RESULT"], memory.free["RESULT"], H["RESULT"], Inner(memory, "RESULT"))
    BY <1>1 DEF Sound, EachShared
  <2> QED
    BY <1>2, <1>4, <2>1 DEF Shared
<1> HIDE DEF m, K
<1>7. r \notin DOMAIN m.inner
  BY <1>2, <1>4
<1>8. Sound([m EXCEPT !.inner = With(@, r, d)], Minus(K, "DATA", d))
  BY <1>4, <1>5, <1>6, <1>7, AttachSound
<1>9. Sound(memory', H)
  BY <1>3, <1>5, <1>8 DEF m
<1> QED
  BY <1>9 DEF IInv, FillRows, H

Swapped(f, c, d) == [f EXCEPT ![c] = Swap(@, d)]

\* A client has a result set in place of its message.
LEMMA SwapHeld ==
    ASSUME NEW f \in Owners, Apart(f), NEW c \in Client, NEW d \in Object,
           "RESULT" \in DOMAIN f[c], "DATA" \notin DOMAIN f[c], d \notin HeldOf(f)["DATA"]
    PROVE  /\ Swapped(f, c, d) \in Owners /\ Apart(Swapped(f, c, d))
           /\ HeldOf(Swapped(f, c, d)) =
                  Minus(Plus(HeldOf(f), "DATA", d), "RESULT", f[c]["RESULT"])
<1> DEFINE H == HeldOf(f)
           r == f[c]["RESULT"]
           g == Lost(f, c, "RESULT")
<1>1. "DATA" \in Type /\ "RESULT" \in Type /\ H \in Holding
  BY HeldBy DEF Type
<1>2. /\ r \in H["RESULT"] /\ r \in Object /\ g \in Owners /\ Apart(g)
      /\ DOMAIN g[c] = DOMAIN f[c] \ {"RESULT"} /\ HeldOf(g) = Minus(H, "RESULT", r)
  BY <1>1, LoseHeld
<1>3. Minus(H, "RESULT", r)["DATA"] = H["DATA"]
  BY <1>1 DEF Minus, Holding
<1>4. Swapped(f, c, d) = Given(g, c, "DATA", d)
  BY DEF Swapped, Swap, Given, Lost, Owners
<1> HIDE DEF g
<1>5. "DATA" \notin DOMAIN g[c] /\ d \notin HeldOf(g)["DATA"]
  BY <1>2, <1>3
<1>6. /\ Given(g, c, "DATA", d) \in Owners /\ Apart(Given(g, c, "DATA", d))
      /\ HeldOf(Given(g, c, "DATA", d)) = Plus(HeldOf(g), "DATA", d)
  BY <1>1, <1>2, <1>5, GiveHeld
<1>7. Plus(Minus(H, "RESULT", r), "DATA", d) = Minus(Plus(H, "DATA", d), "RESULT", r)
  BY <1>1 DEF Plus, Minus, Holding
<1> QED
  BY <1>2, <1>4, <1>6, <1>7

LEMMA TakeResultSetStep ==
    ASSUME IInv, Capacity \in Nat, NEW c \in Client, TakeResultSet(c)
    PROVE  IInv'
<1> DEFINE H == HeldOf(has)
           r == has[c]["RESULT"]
           d == memory.inner[r]
           m == [memory EXCEPT !.inner = Without(@, r)]
           K == Plus(H, "DATA", d)
<1>1. H \in Holding /\ Sound(memory, H) /\ "DATA" \in Type /\ "RESULT" \in Type
  BY HeldBy DEF IInv, Type
<1>2. /\ has \in Owners /\ Apart(has) /\ "RESULT" \in DOMAIN has[c] /\ "DATA" \notin DOMAIN has[c]
      /\ r \in DOMAIN memory.inner
  BY DEF IInv, TakeResultSet, Owns
<1>3. memory' = Release(m, "RESULT", r) /\ has' = Swapped(has, c, d)
  BY DEF TakeResultSet, Swapped
<1>4. r \in H["RESULT"]
  BY <1>1, <1>2, HeldBy
<1> HIDE DEF H, r
<1>5. d \in Object /\ d \notin H["DATA"] /\ Sound(m, K)
  BY <1>1, <1>2, DetachSound
<1> HIDE DEF d, m
<1>6. K \in Holding /\ r \in K["RESULT"]
  BY <1>1, <1>4, <1>5, PlusMinus
<1> HIDE DEF K
<1>7. Sound(memory', Minus(K, "RESULT", r))
  BY <1>1, <1>3, <1>5, <1>6, ReleaseSound
<1>8. has' \in Owners /\ Apart(has') /\ HeldOf(has') = Minus(K, "RESULT", r)
  BY <1>2, <1>3, <1>5, SwapHeld DEF H, K, r
<1> QED
  BY <1>7, <1>8 DEF IInv

LEMMA MakeEmptyResultSetStep ==
    ASSUME IInv, Capacity \in Nat, NEW c \in Client, MakeEmptyResultSet(c)
    PROVE  IInv'
<1> DEFINE H == HeldOf(has)
           r == has[c]["RESULT"]
<1>1. H \in Holding /\ Sound(memory, H) /\ "DATA" \in Type /\ "RESULT" \in Type
  BY HeldBy DEF IInv, Type
<1>2. /\ has \in Owners /\ Apart(has) /\ "RESULT" \in DOMAIN has[c] /\ "DATA" \notin DOMAIN has[c]
  BY DEF IInv, MakeEmptyResultSet, Owns
<1>3. PICK d \in Available(memory, "DATA") :
          /\ memory' = Release(Take(memory, "DATA", d), "RESULT", r)
          /\ has' = Swapped(has, c, d)
  BY DEF MakeEmptyResultSet, Swapped
<1>4. r \in H["RESULT"]
  BY <1>1, <1>2, HeldBy
<1> DEFINE m == Take(memory, "DATA", d)
           K == Plus(H, "DATA", d)
<1> HIDE DEF H, r
<1>5. d \in Object /\ d \notin H["DATA"] /\ Sound(m, K)
  BY <1>1, TakeSound
<1> HIDE DEF m
<1>6. K \in Holding /\ r \in K["RESULT"]
  BY <1>1, <1>4, <1>5, PlusMinus
<1> HIDE DEF K
<1>7. Sound(memory', Minus(K, "RESULT", r))
  BY <1>1, <1>3, <1>5, <1>6, ReleaseSound DEF m
<1>8. has' \in Owners /\ Apart(has') /\ HeldOf(has') = Minus(K, "RESULT", r)
  BY <1>2, <1>3, <1>5, SwapHeld DEF H, K, r
<1> QED
  BY <1>7, <1>8 DEF IInv

LEMMA InitInv == Init /\ Capacity \in Nat => IInv
<1> SUFFICES ASSUME Init, Capacity \in Nat PROVE IInv
  OBVIOUS
<1> DEFINE none == [x \in {} |-> x]
           H == HeldOf(has)
<1>1. \A S : none \in Partial(S) /\ DOMAIN none = {}
  <2>1. none \in [{} -> Object]
    OBVIOUS
  <2> QED
    BY <2>1 DEF Partial
<1>2. /\ memory.used = [t \in Type |-> {}] /\ memory.free = [t \in Type |-> <<>>]
      /\ memory.inner = none /\ has = [c \in Client |-> none]
      /\ memory = [used |-> memory.used, free |-> memory.free, inner |-> memory.inner]
  BY DEF Init
<1> HIDE DEF none
<1>3. has \in Owners /\ Apart(has)
  BY <1>1, <1>2 DEF Owners, Apart
<1>4. memory \in Memory
  <2>1. memory.used \in [Type -> SUBSET Object] /\ memory.free \in [Type -> Seq(Object)]
    BY <1>2
  <2>2. memory.inner \in Partial(Object)
    BY <1>1, <1>2
  <2> QED
    BY <1>2, <2>1, <2>2 DEF Memory
<1>5. \A t \in Type : H[t] = {}
  BY <1>1, <1>2 DEF HeldOf
<1>6. Values(<<>>) = {} /\ Values(none) = {} /\ Len(<<>>) = 0 /\ Distinct(<<>>) /\ Distinct(none)
  BY <1>1 DEF Values, Distinct
<1> HIDE DEF H
<1>7. EachShared(memory, H)
  <2> SUFFICES ASSUME NEW t \in Type PROVE Shared(memory.used[t], memory.free[t], H[t], Inner(memory, t))
    BY DEF EachShared
  <2>1. memory.used[t] = {} /\ memory.free[t] = <<>> /\ H[t] = {} /\ Inner(memory, t) = {}
    BY <1>2, <1>5, <1>6 DEF Inner
  <2>2. Shared({}, <<>>, {}, {})
    BY <1>6 DEF Shared
  <2> QED
    BY <2>1, <2>2
<1>8. Sound(memory, H)
  BY <1>1, <1>2, <1>4, <1>6, <1>7 DEF Sound
<1> QED
  BY <1>3, <1>8 DEF IInv, H

LEMMA StepInv == IInv /\ [Next]_vars /\ Capacity \in Nat => IInv'
<1> SUFFICES ASSUME IInv, [Next]_vars, Capacity \in Nat PROVE IInv'
  OBVIOUS
<1>1. CASE UNCHANGED vars
  BY <1>1 DEF vars, IInv
<1>2. CASE Next
  BY <1>2, MakeStep, LetGoStep, FillRowsStep, TakeResultSetStep, MakeEmptyResultSetStep DEF Next
<1> QED
  BY <1>1, <1>2

LEMMA InvOneOwner == IInv => OneOwner
<1> SUFFICES ASSUME IInv PROVE OneOwner
  OBVIOUS
<1> DEFINE H == HeldOf(has)
<1>1. Sound(memory, H) /\ Apart(has)
  BY DEF IInv
<1>2. ASSUME NEW t \in Type
      PROVE  /\ memory.used[t] = Free(t) \cup Held(t) \cup Inside(t)
             /\ Free(t) \cap Held(t) = {}
             /\ (Free(t) \cup Held(t)) \cap Inside(t) = {}
             /\ Distinct(memory.free[t]) /\ Len(memory.free[t]) <= Capacity
  <2>1. Free(t) = Values(memory.free[t]) /\ Held(t) = H[t] /\ Inside(t) = Inner(memory, t)
    BY DEF Free, Held, Inside, Values, Inner, HeldOf, Owns
  <2>2. Shared(memory.used[t], memory.free[t], H[t], Inner(memory, t))
    BY <1>1 DEF Sound, EachShared
  <2> HIDE DEF H
  <2> QED
    BY <2>1, <2>2 DEF Shared
<1>3. Distinct(memory.inner) /\ DOMAIN memory.inner \subseteq memory.used["RESULT"]
  BY <1>1 DEF Sound
<1> QED
  BY <1>1, <1>2, <1>3 DEF OneOwner, Apart, Owns

\* makeReusable, the deleter, moves and the reset() of messages leave every
\* object in use one owner and lose none, for any clients, types, addresses and
\* any capacity of the free lists, zero included.
THEOREM ObjectsHaveOneOwner == Capacity \in Nat => (Spec => []OneOwner)
<1> SUFFICES ASSUME Capacity \in Nat PROVE Spec => []OneOwner
  OBVIOUS
<1>1. Init => IInv
  BY InitInv
<1>2. IInv /\ [Next]_vars => IInv'
  BY StepInv
<1> QED
  BY <1>1, <1>2, InvOneOwner, PTL DEF Spec
=============================================================================
