---------------------------- MODULE MQueueProofs ----------------------------
(***************************************************************************)
(* Proofs about the message queues and the list they are made of.  First   *)
(* LinkedList: the links and the count are right between operations.  Then *)
(* MQueue, for which an operation on a list is one step: the limit of a    *)
(* channel, names, owners, and that what the kernel takes for an answer is *)
(* one.                                                                    *)
(***************************************************************************)
EXTENDS MQueue, LinkedList, FiniteSetTheorems, SequenceTheorems, NaturalsInduction,
        WellFoundedInduction, TLAPS
-----------------------------------------------------------------------------
(* LinkedList: the invariant, in parts *)

\* The list as one value, with whether a store went astray.
Now == [head |-> head, foot |-> foot, count |-> count, next |-> next, prev |-> prev,
        stray |-> mishaps \cap {"stray"}]

\* What an expression means to a user with node n, position p and the node b
\* before it, when the list is L...
Meaning(L, n, p, b, e) ==
  CASE e = "0" -> NULL
    [] e = "n" -> n
    [] e = "head" -> L.head
    [] e = "foot" -> L.foot
    [] e = "n.next" -> L.next[n]
    [] e = "n.prev" -> L.prev[n]
    [] e = "pos" -> p
    [] e = "before" -> b

\* ... what one store makes of the list...
Effect(L, n, p, b, s) ==
  LET d == Meaning(L, n, p, b, s[2]) IN
  CASE s[1] = "head" -> [L EXCEPT !.head = d]
    [] s[1] = "foot" -> [L EXCEPT !.foot = d]
    [] s[1] = "count" -> [L EXCEPT !.count = L.count + s[2]]
    [] s[1] = "next" -> IF d = NULL THEN [L EXCEPT !.stray = {"stray"}]
                        ELSE [L EXCEPT !.next = [L.next EXCEPT ![d] = Meaning(L, n, p, b, s[3])]]
    [] s[1] = "prev" -> IF d = NULL THEN [L EXCEPT !.stray = {"stray"}]
                        ELSE [L EXCEPT !.prev = [L.prev EXCEPT ![d] = Meaning(L, n, p, b, s[3])]]

\* ... the i-th of t, if there is one...
Ith(L, n, p, b, t, i) == IF i <= Len(t) THEN Effect(L, n, p, b, t[i]) ELSE L

\* ... and all of them: an operation makes five at most.
Result(L, n, p, b, t) ==
  LET I(M, i) == Ith(M, n, p, b, t, i) IN I(I(I(I(I(L, 1), 2), 3), 4), 5)

Ordered(A, S) ==
  /\ \A x \in S : <<x, x>> \notin A
  /\ \A x, y \in S : x # y => <<x, y>> \in A \/ <<y, x>> \in A
  /\ \A x, y, z \in S : <<x, y>> \in A /\ <<y, z>> \in A => <<x, z>> \in A

Chain(A, S, L) ==
  /\ IsFirst(A, L.head, S) /\ IsLast(A, L.foot, S)
  /\ \A n \in S : /\ IsFirst(A, L.next[n], Behind(A, n, S))
                  /\ IsLast(A, L.prev[n], Before(A, n, S))

\* y is the first member of S behind x, or the last one before it, or NULL.
Follows(A, x, y, S) ==
  \/ y = NULL /\ \A m \in S : <<x, m>> \notin A
  \/ y \in S /\ <<x, y>> \in A /\ \A m \in S : <<x, m>> \in A => m = y \/ <<y, m>> \in A
Precedes(A, x, y, S) ==
  \/ y = NULL /\ \A m \in S : <<m, x>> \notin A
  \/ y \in S /\ <<y, x>> \in A /\ \A m \in S : <<m, x>> \in A => m = y \/ <<m, y>> \in A

\* h is the first member of S, f is the last one, or they are NULL.
Starts(A, h, S) == (h = NULL /\ S = {}) \/ (h \in S /\ \A m \in S : m = h \/ <<h, m>> \in A)
Ends(A, f, S) == (f = NULL /\ S = {}) \/ (f \in S /\ \A m \in S : m = f \/ <<m, f>> \in A)

\* L is a list of S in the order A, and has its count, if nothing was inserted.
Fit(A, S, L, M) ==
  /\ Ordered(A, S) /\ Chain(A, S, L)
  /\ L.stray = {} /\ ("inserted" \notin M => L.count = Cardinality(S))

\* The list when user a will be done with its stores, and what is in it then: the
\* nodes of a walk are taken out one by one.
Future(a) == Result(Now, node[a], pos[a], before[a], todo[a])
Holding(a) == listed \cup (walk[a] \ {NULL})

\* A walk that is at n, which may have been taken out, has the nodes w before it.
March(A, S, L, w, n) ==
  w # {} => /\ NULL \in w /\ n \in Nodes
            /\ Follows(A, n, L.next[n], S)
            /\ \A m \in w \ {NULL} : <<n, m>> \in A

Going(a) ==
  /\ Fit(ahead, Holding(a), Future(a), mishaps)
  /\ March(ahead, Holding(a), Future(a), walk[a], node[a])
  /\ walk[a] \cap listed = {}

Alone == \A a, b \in Users : Busy(a) /\ Busy(b) => a = b
Sane == \A a \in Users : Len(todo[a]) <= 5 /\ (todo[a] # <<>> => node[a] \in Nodes)

\* One user at a time works on the list, which is fit when it is done.
Shape ==
  /\ Alone
  /\ Quiet => Fit(ahead, listed, Now, mishaps)
  /\ \A a \in Users : Busy(a) => Going(a)

ListInv == ListTypeOK /\ Sane /\ (Plain => Shape)

Nodes0 == Nodes \cup {NULL}
Lists == [head : Nodes0, foot : Nodes0, count : Int, next : [Nodes -> Nodes0],
          prev : [Nodes -> Nodes0], stray : SUBSET {"stray"}]

ListOf(h, f, c, nx, pv, st) ==
  [head |-> h, foot |-> f, count |-> c, next |-> nx, prev |-> pv, stray |-> st]

-----------------------------------------------------------------------------
(* LinkedList: the stores of an operation *)

\* A store is of one of these kinds.
LEMMA StoreKinds ==
  ASSUME NEW s \in Stores
  PROVE  \/ s[1] = "head" /\ s[2] \in Fields
         \/ s[1] = "foot" /\ s[2] \in Fields
         \/ s[1] = "count" /\ s[2] \in Int
         \/ s[1] = "next" /\ s[2] \in Fields /\ s[3] \in Fields
         \/ s[1] = "prev" /\ s[2] \in Fields /\ s[3] \in Fields
BY DEF Stores

\* An expression means a node or NULL.
LEMMA MeaningType ==
  ASSUME NEW L \in Lists, NEW n \in Nodes, NEW p \in Nodes0, NEW b \in Nodes0, NEW e \in Fields
  PROVE  Meaning(L, n, p, b, e) \in Nodes0
<1>1. NULL \in Nodes0 /\ n \in Nodes0 /\ L.head \in Nodes0 /\ L.foot \in Nodes0
      /\ L.next[n] \in Nodes0 /\ L.prev[n] \in Nodes0
  BY DEF Lists, Nodes0
<1> QED BY <1>1 DEF Meaning, Fields

\* The effect of a store, by its kind.
LEMMA EffectKinds ==
  ASSUME NEW L \in Lists, NEW n, NEW p, NEW b, NEW s \in Stores
  PROVE  LET d == Meaning(L, n, p, b, s[2])
             v == Meaning(L, n, p, b, s[3])
             E == Effect(L, n, p, b, s) IN
         /\ s[1] = "head" => E = [L EXCEPT !.head = d]
         /\ s[1] = "foot" => E = [L EXCEPT !.foot = d]
         /\ s[1] = "count" => E = [L EXCEPT !.count = L.count + s[2]]
         /\ s[1] \in {"next", "prev"} /\ d = NULL => E = [L EXCEPT !.stray = {"stray"}]
         /\ s[1] = "next" /\ d # NULL => E = [L EXCEPT !.next = [L.next EXCEPT ![d] = v]]
         /\ s[1] = "prev" /\ d # NULL => E = [L EXCEPT !.prev = [L.prev EXCEPT ![d] = v]]
<1> DEFINE d == Meaning(L, n, p, b, s[2])
           v == Meaning(L, n, p, b, s[3])
           E == Effect(L, n, p, b, s)
<1>1. ASSUME s[1] = "head" PROVE E = [L EXCEPT !.head = d]
  BY <1>1 DEF Effect
<1>2. ASSUME s[1] = "foot" PROVE E = [L EXCEPT !.foot = d]
  BY <1>2 DEF Effect
<1>3. ASSUME s[1] = "count" PROVE E = [L EXCEPT !.count = L.count + s[2]]
  BY <1>3 DEF Effect
<1>4. ASSUME s[1] = "next" PROVE E = IF d = NULL THEN [L EXCEPT !.stray = {"stray"}]
                           ELSE [L EXCEPT !.next = [L.next EXCEPT ![d] = v]]
  BY <1>4 DEF Effect
<1>5. ASSUME s[1] = "prev" PROVE E = IF d = NULL THEN [L EXCEPT !.stray = {"stray"}]
                           ELSE [L EXCEPT !.prev = [L.prev EXCEPT ![d] = v]]
  BY <1>5 DEF Effect
<1> HIDE DEF d, v, E
<1>6. /\ s[1] \in {"next", "prev"} /\ d = NULL => E = [L EXCEPT !.stray = {"stray"}]
      /\ s[1] = "next" /\ d # NULL => E = [L EXCEPT !.next = [L.next EXCEPT ![d] = v]]
      /\ s[1] = "prev" /\ d # NULL => E = [L EXCEPT !.prev = [L.prev EXCEPT ![d] = v]]
  BY <1>4, <1>5
<1> QED BY <1>1, <1>2, <1>3, <1>6 DEF d, v, E

\* The effect of a store, field by field.
LEMMA EffectFields ==
  ASSUME NEW h, NEW f, NEW c, NEW nx, NEW pv, NEW st, NEW L, NEW n, NEW p, NEW b, NEW s \in Stores,
         L \in Lists, L = ListOf(h, f, c, nx, pv, st),
         NEW d, d = Meaning(L, n, p, b, s[2]), NEW v, v = Meaning(L, n, p, b, s[3])
  PROVE  /\ s[1] = "head" => Effect(L, n, p, b, s) = ListOf(d, f, c, nx, pv, st)
         /\ s[1] = "foot" => Effect(L, n, p, b, s) = ListOf(h, d, c, nx, pv, st)
         /\ s[1] = "count" => Effect(L, n, p, b, s) = ListOf(h, f, c + s[2], nx, pv, st)
         /\ s[1] \in {"next", "prev"} /\ d = NULL =>
              Effect(L, n, p, b, s) = ListOf(h, f, c, nx, pv, {"stray"})
         /\ s[1] = "next" /\ d # NULL =>
              Effect(L, n, p, b, s) = ListOf(h, f, c, [nx EXCEPT ![d] = v], pv, st)
         /\ s[1] = "prev" /\ d # NULL =>
              Effect(L, n, p, b, s) = ListOf(h, f, c, nx, [pv EXCEPT ![d] = v], st)
<1> USE DEF ListOf
<1>0. L.count = c /\ L.next = nx /\ L.prev = pv
  OBVIOUS
<1>1. CASE s[1] = "head"
  <2>1. Effect(L, n, p, b, s) = [L EXCEPT !.head = d]
    BY <1>1, EffectKinds
  <2> QED BY <1>1, <2>1
<1>2. CASE s[1] = "foot"
  <2>1. Effect(L, n, p, b, s) = [L EXCEPT !.foot = d]
    BY <1>2, EffectKinds
  <2> QED BY <1>2, <2>1
<1>3. CASE s[1] = "count"
  <2>1. Effect(L, n, p, b, s) = [L EXCEPT !.count = L.count + s[2]]
    BY <1>3, EffectKinds
  <2> QED BY <1>0, <1>3, <2>1
<1>4. CASE s[1] \in {"next", "prev"} /\ d = NULL
  <2>1. Effect(L, n, p, b, s) = [L EXCEPT !.stray = {"stray"}]
    BY <1>4, EffectKinds
  <2> QED BY <1>4, <2>1
<1>5. CASE s[1] = "next" /\ d # NULL
  <2>1. Effect(L, n, p, b, s) = [L EXCEPT !.next = [L.next EXCEPT ![d] = v]]
    BY <1>5, EffectKinds
  <2> QED BY <1>0, <1>5, <2>1
<1>6. CASE s[1] = "prev" /\ d # NULL
  <2>1. Effect(L, n, p, b, s) = [L EXCEPT !.prev = [L.prev EXCEPT ![d] = v]]
    BY <1>6, EffectKinds
  <2> QED BY <1>0, <1>6, <2>1
<1> QED BY <1>1, <1>2, <1>3, <1>4, <1>5, <1>6

\* A store leaves a list a list, and does not undo that one went astray.
LEMMA EffectType ==
  ASSUME NEW L \in Lists, NEW n \in Nodes, NEW p \in Nodes0, NEW b \in Nodes0, NEW s \in Stores
  PROVE  /\ Effect(L, n, p, b, s) \in Lists
         /\ Effect(L, n, p, b, s).stray = {} => L.stray = {}
<1> DEFINE d == Meaning(L, n, p, b, s[2])
           v == Meaning(L, n, p, b, s[3])
           E == Effect(L, n, p, b, s)
<1>0. DOMAIN L = {"head", "foot", "count", "next", "prev", "stray"}
  BY DEF Lists
<1>1. CASE s[1] = "head" /\ s[2] \in Fields
  <2>1. d \in Nodes0
    BY <1>1, MeaningType
  <2>2. E = [L EXCEPT !.head = d]
    BY <1>1 DEF Effect
  <2> HIDE DEF d, E
  <2>3. E \in Lists /\ E.stray = L.stray
    BY <2>1, <2>2 DEF Lists
  <2> QED BY <2>3 DEF E
<1>2. CASE s[1] = "foot" /\ s[2] \in Fields
  <2>1. d \in Nodes0
    BY <1>2, MeaningType
  <2>2. E = [L EXCEPT !.foot = d]
    BY <1>2 DEF Effect
  <2> HIDE DEF d, E
  <2>3. E \in Lists /\ E.stray = L.stray
    BY <2>1, <2>2 DEF Lists
  <2> QED BY <2>3 DEF E
<1>3. CASE s[1] = "count" /\ s[2] \in Int
  <2>2. E = [L EXCEPT !.count = L.count + s[2]]
    BY <1>3 DEF Effect
  <2> HIDE DEF d, E
  <2>3. E \in Lists /\ E.stray = L.stray
    BY <1>3, <2>2 DEF Lists
  <2> QED BY <2>3 DEF E
<1>4. CASE s[1] = "next" /\ s[2] \in Fields /\ s[3] \in Fields
  <2>1. d \in Nodes0 /\ v \in Nodes0
    BY <1>4, MeaningType
  <2>2. E = IF d = NULL THEN [L EXCEPT !.stray = {"stray"}]
            ELSE [L EXCEPT !.next = [L.next EXCEPT ![d] = v]]
    BY <1>4 DEF Effect
  <2> HIDE DEF d, v, E
  <2>3. E \in Lists /\ (E.stray = {} => L.stray = {})
    BY <2>1, <2>2 DEF Lists, Nodes0
  <2> QED BY <2>3 DEF E
<1>5. CASE s[1] = "prev" /\ s[2] \in Fields /\ s[3] \in Fields
  <2>1. d \in Nodes0 /\ v \in Nodes0
    BY <1>5, MeaningType
  <2>2. E = IF d = NULL THEN [L EXCEPT !.stray = {"stray"}]
            ELSE [L EXCEPT !.prev = [L.prev EXCEPT ![d] = v]]
    BY <1>5 DEF Effect
  <2> HIDE DEF d, v, E
  <2>3. E \in Lists /\ (E.stray = {} => L.stray = {})
    BY <2>1, <2>2 DEF Lists, Nodes0
  <2> QED BY <2>3 DEF E
<1> QED BY <1>1, <1>2, <1>3, <1>4, <1>5, StoreKinds

\* No store, no effect.
LEMMA ResultNone == ASSUME NEW L, NEW n, NEW p, NEW b PROVE Result(L, n, p, b, <<>>) = L
BY DEF Result, Ith

\* The effect of all stores is that of the first, and then of the others.
LEMMA ResultTail ==
  ASSUME NEW L, NEW n, NEW p, NEW b, NEW t \in Seq(Stores), t # <<>>, Len(t) <= 5
  PROVE  Result(L, n, p, b, t) = Result(Effect(L, n, p, b, t[1]), n, p, b, Tail(t))
<1> DEFINE u == Tail(t)
<1>1. Len(t) \in 1 .. 5
  <2>1. Len(t) \in Nat \ {0}
    BY EmptySeq, Zenon
  <2>2. \A k \in Nat \ {0} : k <= 5 => k \in 1 .. 5
    OBVIOUS
  <2> QED BY <2>1, <2>2, Zenon
<1>2. Len(u) = Len(t) - 1
  OBVIOUS
<1>3. \A i \in 1 .. Len(t) - 1 : u[i] = t[i + 1]
  OBVIOUS
<1> HIDE DEF u
<1>4. ASSUME NEW M
      PROVE  /\ Ith(M, n, p, b, t, 1) = Effect(M, n, p, b, t[1])
             /\ Ith(M, n, p, b, t, 2) = Ith(M, n, p, b, u, 1)
             /\ Ith(M, n, p, b, t, 3) = Ith(M, n, p, b, u, 2)
             /\ Ith(M, n, p, b, t, 4) = Ith(M, n, p, b, u, 3)
             /\ Ith(M, n, p, b, t, 5) = Ith(M, n, p, b, u, 4)
             /\ Ith(M, n, p, b, u, 5) = M
  <2>1. 2 <= Len(t) => u[1] = t[2]
    BY <1>1, <1>3
  <2>2. 3 <= Len(t) => u[2] = t[3]
    BY <1>1, <1>3
  <2>3. 4 <= Len(t) => u[3] = t[4]
    BY <1>1, <1>3
  <2>4. 5 <= Len(t) => u[4] = t[5]
    BY <1>1, <1>3
  <2> QED BY <1>1, <1>2, <2>1, <2>2, <2>3, <2>4 DEF Ith
<1> QED BY <1>4 DEF Result, u

\* The stores of an operation leave a list a list.
LEMMA ResultType ==
  ASSUME NEW L \in Lists, NEW n \in Nodes, NEW p \in Nodes0, NEW b \in Nodes0,
         NEW t \in Seq(Stores)
  PROVE  /\ Result(L, n, p, b, t) \in Lists
         /\ Result(L, n, p, b, t).stray = {} => L.stray = {}
<1>1. ASSUME NEW M \in Lists, NEW i \in 1 .. 5
      PROVE  /\ Ith(M, n, p, b, t, i) \in Lists
             /\ Ith(M, n, p, b, t, i).stray = {} => M.stray = {}
  <2>1. CASE i <= Len(t)
    <3>1. t[i] \in Stores
      BY <2>1
    <3> QED BY <2>1, <3>1, EffectType DEF Ith
  <2> QED BY <2>1 DEF Ith
<1> DEFINE L1 == Ith(L, n, p, b, t, 1)
           L2 == Ith(L1, n, p, b, t, 2)
           L3 == Ith(L2, n, p, b, t, 3)
           L4 == Ith(L3, n, p, b, t, 4)
           L5 == Ith(L4, n, p, b, t, 5)
<1>2. L1 \in Lists /\ (L1.stray = {} => L.stray = {})
  BY <1>1
<1> HIDE DEF L1
<1>3. L2 \in Lists /\ (L2.stray = {} => L1.stray = {})
  BY <1>1, <1>2
<1> HIDE DEF L2
<1>4. L3 \in Lists /\ (L3.stray = {} => L2.stray = {})
  BY <1>1, <1>3
<1> HIDE DEF L3
<1>5. L4 \in Lists /\ (L4.stray = {} => L3.stray = {})
  BY <1>1, <1>4
<1> HIDE DEF L4
<1>6. L5 \in Lists /\ (L5.stray = {} => L4.stray = {})
  BY <1>1, <1>5
<1> HIDE DEF L5
<1>7. Result(L, n, p, b, t) = L5
  BY DEF Result, L1, L2, L3, L4, L5
<1> QED BY <1>2, <1>3, <1>4, <1>5, <1>6, <1>7
\* What an expression means, one by one.
LEMMA Meanings ==
  ASSUME NEW L, NEW n, NEW p, NEW b
  PROVE  /\ Meaning(L, n, p, b, "0") = NULL
         /\ Meaning(L, n, p, b, "n") = n
         /\ Meaning(L, n, p, b, "head") = L.head
         /\ Meaning(L, n, p, b, "foot") = L.foot
         /\ Meaning(L, n, p, b, "n.next") = L.next[n]
         /\ Meaning(L, n, p, b, "n.prev") = L.prev[n]
         /\ Meaning(L, n, p, b, "pos") = p
         /\ Meaning(L, n, p, b, "before") = b
BY DEF Meaning

\* What a store changes, and what it leaves alone.
LEMMA SetHead ==
  ASSUME NEW L \in Lists, NEW n, NEW p, NEW b, NEW e
  PROVE  LET E == Effect(L, n, p, b, <<"head", e>>) IN
         /\ E.head = Meaning(L, n, p, b, e)
         /\ E.foot = L.foot /\ E.count = L.count
         /\ E.next = L.next /\ E.prev = L.prev /\ E.stray = L.stray
<1>1. Effect(L, n, p, b, <<"head", e>>) = [L EXCEPT !.head = Meaning(L, n, p, b, e)]
  BY DEF Effect
<1> QED BY <1>1 DEF Lists

LEMMA SetFoot ==
  ASSUME NEW L \in Lists, NEW n, NEW p, NEW b, NEW e
  PROVE  LET E == Effect(L, n, p, b, <<"foot", e>>) IN
         /\ E.foot = Meaning(L, n, p, b, e)
         /\ E.head = L.head /\ E.count = L.count
         /\ E.next = L.next /\ E.prev = L.prev /\ E.stray = L.stray
<1>1. Effect(L, n, p, b, <<"foot", e>>) = [L EXCEPT !.foot = Meaning(L, n, p, b, e)]
  BY DEF Effect
<1> QED BY <1>1 DEF Lists

LEMMA SetCount ==
  ASSUME NEW L \in Lists, NEW n, NEW p, NEW b, NEW e
  PROVE  LET E == Effect(L, n, p, b, <<"count", e>>) IN
         /\ E.count = L.count + e
         /\ E.head = L.head /\ E.foot = L.foot
         /\ E.next = L.next /\ E.prev = L.prev /\ E.stray = L.stray
<1>1. Effect(L, n, p, b, <<"count", e>>) = [L EXCEPT !.count = L.count + e]
  BY DEF Effect
<1> QED BY <1>1 DEF Lists

LEMMA SetNext ==
  ASSUME NEW L \in Lists, NEW n, NEW p, NEW b, NEW e, NEW f, Meaning(L, n, p, b, e) # NULL
  PROVE  LET E == Effect(L, n, p, b, <<"next", e, f>>) IN
         /\ E.next = [L.next EXCEPT ![Meaning(L, n, p, b, e)] = Meaning(L, n, p, b, f)]
         /\ E.head = L.head /\ E.foot = L.foot
         /\ E.count = L.count /\ E.prev = L.prev /\ E.stray = L.stray
<1> DEFINE d == Meaning(L, n, p, b, e)
           v == Meaning(L, n, p, b, f)
<1>1. Effect(L, n, p, b, <<"next", e, f>>) = [L EXCEPT !.next = [L.next EXCEPT ![d] = v]]
  BY DEF Effect
<1> HIDE DEF d, v
<1>2. LET E == Effect(L, n, p, b, <<"next", e, f>>) IN
      /\ E.next = [L.next EXCEPT ![d] = v] /\ E.head = L.head /\ E.foot = L.foot
      /\ E.count = L.count /\ E.prev = L.prev /\ E.stray = L.stray
  BY <1>1 DEF Lists
<1> QED BY <1>2 DEF d, v

LEMMA SetPrev ==
  ASSUME NEW L \in Lists, NEW n, NEW p, NEW b, NEW e, NEW f, Meaning(L, n, p, b, e) # NULL
  PROVE  LET E == Effect(L, n, p, b, <<"prev", e, f>>) IN
         /\ E.prev = [L.prev EXCEPT ![Meaning(L, n, p, b, e)] = Meaning(L, n, p, b, f)]
         /\ E.head = L.head /\ E.foot = L.foot
         /\ E.count = L.count /\ E.next = L.next /\ E.stray = L.stray
<1> DEFINE d == Meaning(L, n, p, b, e)
           v == Meaning(L, n, p, b, f)
<1>1. Effect(L, n, p, b, <<"prev", e, f>>) = [L EXCEPT !.prev = [L.prev EXCEPT ![d] = v]]
  BY DEF Effect
<1> HIDE DEF d, v
<1>2. LET E == Effect(L, n, p, b, <<"prev", e, f>>) IN
      /\ E.prev = [L.prev EXCEPT ![d] = v] /\ E.head = L.head /\ E.foot = L.foot
      /\ E.count = L.count /\ E.next = L.next /\ E.stray = L.stray
  BY <1>1 DEF Lists
<1> QED BY <1>2 DEF d, v

LEMMA ResultThree ==
  ASSUME NEW L, NEW n, NEW p, NEW b, NEW t, Len(t) = 3
  PROVE  LET E(M, i) == Effect(M, n, p, b, t[i]) IN
         Result(L, n, p, b, t) = E(E(E(L, 1), 2), 3)
BY DEF Result, Ith

LEMMA ResultFour ==
  ASSUME NEW L, NEW n, NEW p, NEW b, NEW t, Len(t) = 4
  PROVE  LET E(M, i) == Effect(M, n, p, b, t[i]) IN
         Result(L, n, p, b, t) = E(E(E(E(L, 1), 2), 3), 4)
BY DEF Result, Ith

LEMMA ResultFive ==
  ASSUME NEW L, NEW n, NEW p, NEW b, NEW t, Len(t) = 5
  PROVE  LET E(M, i) == Effect(M, n, p, b, t[i]) IN
         Result(L, n, p, b, t) = E(E(E(E(E(L, 1), 2), 3), 4), 5)
BY DEF Result, Ith

\* An empty list gets its first node.
LEMMA AddToEmptyResult ==
  ASSUME NEW L \in Lists, NEW n \in Nodes, NEW p \in Nodes0, NEW b \in Nodes0
  PROVE  LET R == Result(L, n, p, b, AddToEmpty) IN
         /\ R.head = n /\ R.foot = n
         /\ R.count = L.count + 1 /\ R.stray = L.stray
         /\ R.next = [L.next EXCEPT ![n] = NULL]
         /\ R.prev = [L.prev EXCEPT ![n] = NULL]
<1> DEFINE P == AddToEmpty
           L1 == Effect(L, n, p, b, P[1])
           L2 == Effect(L1, n, p, b, P[2])
           L3 == Effect(L2, n, p, b, P[3])
           L4 == Effect(L3, n, p, b, P[4])
           L5 == Effect(L4, n, p, b, P[5])
<1>1. P \in Seq(Stores) /\ Len(P) = 5
  BY DEF AddToEmpty, Stores, Fields
<1>2. /\ P[1] = <<"head", "n">>
      /\ P[2] = <<"foot", "n">>
      /\ P[3] = <<"prev", "n", "0">>
      /\ P[4] = <<"next", "n", "0">>
      /\ P[5] = <<"count", 1>>
  BY DEF AddToEmpty
<1> HIDE DEF P
<1>3. \A i \in 1 .. 5 : P[i] \in Stores
  BY <1>1, ElementOfSeq
<1>4. NULL \notin Nodes
  BY DEF Nodes, NULL
<1>5. Result(L, n, p, b, P) = L5
  BY <1>1, ResultFive
<1>6. /\ L1 \in Lists /\ L1.head = n
      /\ L1.foot = L.foot /\ L1.count = L.count /\ L1.next = L.next
      /\ L1.prev = L.prev /\ L1.stray = L.stray
  <2>1. L1 \in Lists
    BY <1>3, EffectType
  <2>2. L1 = Effect(L, n, p, b, <<"head", "n">>)
    BY <1>2
  <2> HIDE DEF L1
  <2> QED BY <2>1, <2>2, SetHead, Meanings
<1> HIDE DEF L1
<1>7. /\ L2 \in Lists /\ L2.foot = n
      /\ L2.head = L1.head /\ L2.count = L1.count /\ L2.next = L1.next
      /\ L2.prev = L1.prev /\ L2.stray = L1.stray
  <2>1. L2 \in Lists
    BY <1>6, <1>3, EffectType
  <2>2. L2 = Effect(L1, n, p, b, <<"foot", "n">>)
    BY <1>2
  <2> HIDE DEF L2
  <2> QED BY <2>1, <2>2, <1>6, SetFoot, Meanings
<1> HIDE DEF L2
<1>8. /\ L3 \in Lists /\ L3.prev = [L2.prev EXCEPT ![n] = NULL]
      /\ L3.head = L2.head /\ L3.foot = L2.foot /\ L3.count = L2.count
      /\ L3.next = L2.next /\ L3.stray = L2.stray
  <2>1. L3 \in Lists
    BY <1>7, <1>3, EffectType
  <2>2. Meaning(L2, n, p, b, "n") \in Nodes
    BY <1>6, <1>7, Meanings
  <2>3. L3 = Effect(L2, n, p, b, <<"prev", "n", "0">>)
    BY <1>2
  <2>4. Meaning(L2, n, p, b, "n") # NULL
    BY <1>4, <2>2
  <2>5. Meaning(L2, n, p, b, "n") = n /\ Meaning(L2, n, p, b, "0") = NULL
    BY Meanings
  <2> HIDE DEF L3
  <2> QED BY <2>1, <2>3, <2>4, <2>5, <1>7, SetPrev
<1> HIDE DEF L3
<1>9. /\ L4 \in Lists /\ L4.next = [L3.next EXCEPT ![n] = NULL]
      /\ L4.head = L3.head /\ L4.foot = L3.foot /\ L4.count = L3.count
      /\ L4.prev = L3.prev /\ L4.stray = L3.stray
  <2>1. L4 \in Lists
    BY <1>8, <1>3, EffectType
  <2>2. Meaning(L3, n, p, b, "n") \in Nodes
    BY <1>6, <1>7, <1>8, Meanings
  <2>3. L4 = Effect(L3, n, p, b, <<"next", "n", "0">>)
    BY <1>2
  <2>4. Meaning(L3, n, p, b, "n") # NULL
    BY <1>4, <2>2
  <2>5. Meaning(L3, n, p, b, "n") = n /\ Meaning(L3, n, p, b, "0") = NULL
    BY Meanings
  <2> HIDE DEF L4
  <2> QED BY <2>1, <2>3, <2>4, <2>5, <1>8, SetNext
<1> HIDE DEF L4
<1>10. /\ L5 \in Lists /\ L5.count = L4.count + 1
      /\ L5.head = L4.head /\ L5.foot = L4.foot /\ L5.next = L4.next
      /\ L5.prev = L4.prev /\ L5.stray = L4.stray
  <2>1. L5 \in Lists
    BY <1>9, <1>3, EffectType
  <2>2. L5 = Effect(L4, n, p, b, <<"count", 1>>)
    BY <1>2
  <2> HIDE DEF L5
  <2> QED BY <2>1, <2>2, <1>9, SetCount, Meanings
<1> HIDE DEF L5
<1>11. /\ L5.head = n /\ L5.foot = n
      /\ L5.count = L.count + 1 /\ L5.stray = L.stray
      /\ L5.next = [L.next EXCEPT ![n] = NULL]
      /\ L5.prev = [L.prev EXCEPT ![n] = NULL]
  BY <1>6, <1>7, <1>8, <1>9, <1>10 DEF Lists
<1> QED BY <1>5, <1>11 DEF P

\* A node is appended.
LEMMA AddToFootResult ==
  ASSUME NEW L \in Lists, NEW n \in Nodes, NEW p \in Nodes0, NEW b \in Nodes0,
         L.foot \in Nodes
  PROVE  LET R == Result(L, n, p, b, AddToFoot) IN
         /\ R.head = L.head /\ R.foot = n
         /\ R.count = L.count + 1 /\ R.stray = L.stray
         /\ R.next = [[L.next EXCEPT ![L.foot] = n] EXCEPT ![n] = NULL]
         /\ R.prev = [L.prev EXCEPT ![n] = L.foot]
<1> DEFINE P == AddToFoot
           L1 == Effect(L, n, p, b, P[1])
           L2 == Effect(L1, n, p, b, P[2])
           L3 == Effect(L2, n, p, b, P[3])
           L4 == Effect(L3, n, p, b, P[4])
           L5 == Effect(L4, n, p, b, P[5])
<1>1. P \in Seq(Stores) /\ Len(P) = 5
  BY DEF AddToFoot, Stores, Fields
<1>2. /\ P[1] = <<"next", "foot", "n">>
      /\ P[2] = <<"prev", "n", "foot">>
      /\ P[3] = <<"next", "n", "0">>
      /\ P[4] = <<"foot", "n">>
      /\ P[5] = <<"count", 1>>
  BY DEF AddToFoot
<1> HIDE DEF P
<1>3. \A i \in 1 .. 5 : P[i] \in Stores
  BY <1>1, ElementOfSeq
<1>4. NULL \notin Nodes
  BY DEF Nodes, NULL
<1>5. Result(L, n, p, b, P) = L5
  BY <1>1, ResultFive
<1>6. /\ L1 \in Lists /\ L1.next = [L.next EXCEPT ![L.foot] = n]
      /\ L1.head = L.head /\ L1.foot = L.foot /\ L1.count = L.count
      /\ L1.prev = L.prev /\ L1.stray = L.stray
  <2>1. L1 \in Lists
    BY <1>3, EffectType
  <2>2. Meaning(L, n, p, b, "foot") \in Nodes
    BY Meanings
  <2>3. L1 = Effect(L, n, p, b, <<"next", "foot", "n">>)
    BY <1>2
  <2>4. Meaning(L, n, p, b, "foot") # NULL
    BY <1>4, <2>2
  <2>5. Meaning(L, n, p, b, "foot") = L.foot /\ Meaning(L, n, p, b, "n") = n
    BY Meanings
  <2> HIDE DEF L1
  <2> QED BY <2>1, <2>3, <2>4, <2>5, SetNext
<1> HIDE DEF L1
<1>7. /\ L2 \in Lists /\ L2.prev = [L1.prev EXCEPT ![n] = L1.foot]
      /\ L2.head = L1.head /\ L2.foot = L1.foot /\ L2.count = L1.count
      /\ L2.next = L1.next /\ L2.stray = L1.stray
  <2>1. L2 \in Lists
    BY <1>6, <1>3, EffectType
  <2>2. Meaning(L1, n, p, b, "n") \in Nodes
    BY <1>6, Meanings
  <2>3. L2 = Effect(L1, n, p, b, <<"prev", "n", "foot">>)
    BY <1>2
  <2>4. Meaning(L1, n, p, b, "n") # NULL
    BY <1>4, <2>2
  <2>5. Meaning(L1, n, p, b, "n") = n /\ Meaning(L1, n, p, b, "foot") = L1.foot
    BY Meanings
  <2> HIDE DEF L2
  <2> QED BY <2>1, <2>3, <2>4, <2>5, <1>6, SetPrev
<1> HIDE DEF L2
<1>8. /\ L3 \in Lists /\ L3.next = [L2.next EXCEPT ![n] = NULL]
      /\ L3.head = L2.head /\ L3.foot = L2.foot /\ L3.count = L2.count
      /\ L3.prev = L2.prev /\ L3.stray = L2.stray
  <2>1. L3 \in Lists
    BY <1>7, <1>3, EffectType
  <2>2. Meaning(L2, n, p, b, "n") \in Nodes
    BY <1>6, <1>7, Meanings
  <2>3. L3 = Effect(L2, n, p, b, <<"next", "n", "0">>)
    BY <1>2
  <2>4. Meaning(L2, n, p, b, "n") # NULL
    BY <1>4, <2>2
  <2>5. Meaning(L2, n, p, b, "n") = n /\ Meaning(L2, n, p, b, "0") = NULL
    BY Meanings
  <2> HIDE DEF L3
  <2> QED BY <2>1, <2>3, <2>4, <2>5, <1>7, SetNext
<1> HIDE DEF L3
<1>9. /\ L4 \in Lists /\ L4.foot = n
      /\ L4.head = L3.head /\ L4.count = L3.count /\ L4.next = L3.next
      /\ L4.prev = L3.prev /\ L4.stray = L3.stray
  <2>1. L4 \in Lists
    BY <1>8, <1>3, EffectType
  <2>2. L4 = Effect(L3, n, p, b, <<"foot", "n">>)
    BY <1>2
  <2> HIDE DEF L4
  <2> QED BY <2>1, <2>2, <1>8, SetFoot, Meanings
<1> HIDE DEF L4
<1>10. /\ L5 \in Lists /\ L5.count = L4.count + 1
      /\ L5.head = L4.head /\ L5.foot = L4.foot /\ L5.next = L4.next
      /\ L5.prev = L4.prev /\ L5.stray = L4.stray
  <2>1. L5 \in Lists
    BY <1>9, <1>3, EffectType
  <2>2. L5 = Effect(L4, n, p, b, <<"count", 1>>)
    BY <1>2
  <2> HIDE DEF L5
  <2> QED BY <2>1, <2>2, <1>9, SetCount, Meanings
<1> HIDE DEF L5
<1>11. /\ L5.head = L.head /\ L5.foot = n
      /\ L5.count = L.count + 1 /\ L5.stray = L.stray
      /\ L5.next = [[L.next EXCEPT ![L.foot] = n] EXCEPT ![n] = NULL]
      /\ L5.prev = [L.prev EXCEPT ![n] = L.foot]
  BY <1>6, <1>7, <1>8, <1>9, <1>10 DEF Lists
<1> QED BY <1>5, <1>11 DEF P

\* The only node is removed.
LEMMA RemoveOnlyResult ==
  ASSUME NEW L \in Lists, NEW n \in Nodes, NEW p \in Nodes0, NEW b \in Nodes0
  PROVE  LET R == Result(L, n, p, b, RemoveOnly) IN
         /\ R.head = NULL /\ R.foot = NULL
         /\ R.count = L.count - 1 /\ R.stray = L.stray
         /\ R.next = L.next
         /\ R.prev = L.prev
<1> DEFINE P == RemoveOnly
           L1 == Effect(L, n, p, b, P[1])
           L2 == Effect(L1, n, p, b, P[2])
           L3 == Effect(L2, n, p, b, P[3])
<1>1. P \in Seq(Stores) /\ Len(P) = 3
  BY DEF RemoveOnly, Stores, Fields
<1>2. /\ P[1] = <<"head", "0">>
      /\ P[2] = <<"foot", "0">>
      /\ P[3] = <<"count", -1>>
  BY DEF RemoveOnly
<1> HIDE DEF P
<1>3. \A i \in 1 .. 3 : P[i] \in Stores
  BY <1>1, ElementOfSeq
<1>4. NULL \notin Nodes
  BY DEF Nodes, NULL
<1>5. Result(L, n, p, b, P) = L3
  BY <1>1, ResultThree
<1>6. /\ L1 \in Lists /\ L1.head = NULL
      /\ L1.foot = L.foot /\ L1.count = L.count /\ L1.next = L.next
      /\ L1.prev = L.prev /\ L1.stray = L.stray
  <2>1. L1 \in Lists
    BY <1>3, EffectType
  <2>2. L1 = Effect(L, n, p, b, <<"head", "0">>)
    BY <1>2
  <2> HIDE DEF L1
  <2> QED BY <2>1, <2>2, SetHead, Meanings
<1> HIDE DEF L1
<1>7. /\ L2 \in Lists /\ L2.foot = NULL
      /\ L2.head = L1.head /\ L2.count = L1.count /\ L2.next = L1.next
      /\ L2.prev = L1.prev /\ L2.stray = L1.stray
  <2>1. L2 \in Lists
    BY <1>6, <1>3, EffectType
  <2>2. L2 = Effect(L1, n, p, b, <<"foot", "0">>)
    BY <1>2
  <2> HIDE DEF L2
  <2> QED BY <2>1, <2>2, <1>6, SetFoot, Meanings
<1> HIDE DEF L2
<1>8. /\ L3 \in Lists /\ L3.count = L2.count + (-1)
      /\ L3.head = L2.head /\ L3.foot = L2.foot /\ L3.next = L2.next
      /\ L3.prev = L2.prev /\ L3.stray = L2.stray
  <2>1. L3 \in Lists
    BY <1>7, <1>3, EffectType
  <2>2. L3 = Effect(L2, n, p, b, <<"count", -1>>)
    BY <1>2
  <2> HIDE DEF L3
  <2> QED BY <2>1, <2>2, <1>7, SetCount, Meanings
<1> HIDE DEF L3
<1>9. /\ L3.head = NULL /\ L3.foot = NULL
      /\ L3.count = L.count - 1 /\ L3.stray = L.stray
      /\ L3.next = L.next
      /\ L3.prev = L.prev
  BY <1>6, <1>7, <1>8 DEF Lists
<1> QED BY <1>5, <1>9 DEF P

\* The first node is removed.
LEMMA RemoveHeadResult ==
  ASSUME NEW L \in Lists, NEW n \in Nodes, NEW p \in Nodes0, NEW b \in Nodes0,
         L.next[n] \in Nodes
  PROVE  LET R == Result(L, n, p, b, RemoveHead) IN
         /\ R.head = L.next[n] /\ R.foot = L.foot
         /\ R.count = L.count - 1 /\ R.stray = L.stray
         /\ R.next = L.next
         /\ R.prev = [L.prev EXCEPT ![L.next[n]] = NULL]
<1> DEFINE P == RemoveHead
           L1 == Effect(L, n, p, b, P[1])
           L2 == Effect(L1, n, p, b, P[2])
           L3 == Effect(L2, n, p, b, P[3])
<1>1. P \in Seq(Stores) /\ Len(P) = 3
  BY DEF RemoveHead, Stores, Fields
<1>2. /\ P[1] = <<"prev", "n.next", "0">>
      /\ P[2] = <<"head", "n.next">>
      /\ P[3] = <<"count", -1>>
  BY DEF RemoveHead
<1> HIDE DEF P
<1>3. \A i \in 1 .. 3 : P[i] \in Stores
  BY <1>1, ElementOfSeq
<1>4. NULL \notin Nodes
  BY DEF Nodes, NULL
<1>5. Result(L, n, p, b, P) = L3
  BY <1>1, ResultThree
<1>6. /\ L1 \in Lists /\ L1.prev = [L.prev EXCEPT ![L.next[n]] = NULL]
      /\ L1.head = L.head /\ L1.foot = L.foot /\ L1.count = L.count
      /\ L1.next = L.next /\ L1.stray = L.stray
  <2>1. L1 \in Lists
    BY <1>3, EffectType
  <2>2. Meaning(L, n, p, b, "n.next") \in Nodes
    BY Meanings DEF Lists
  <2>3. L1 = Effect(L, n, p, b, <<"prev", "n.next", "0">>)
    BY <1>2
  <2>4. Meaning(L, n, p, b, "n.next") # NULL
    BY <1>4, <2>2
  <2>5. Meaning(L, n, p, b, "n.next") = L.next[n] /\ Meaning(L, n, p, b, "0") = NULL
    BY Meanings
  <2> HIDE DEF L1
  <2> QED BY <2>1, <2>3, <2>4, <2>5, SetPrev
<1> HIDE DEF L1
<1>7. /\ L2 \in Lists /\ L2.head = L1.next[n]
      /\ L2.foot = L1.foot /\ L2.count = L1.count /\ L2.next = L1.next
      /\ L2.prev = L1.prev /\ L2.stray = L1.stray
  <2>1. L2 \in Lists
    BY <1>6, <1>3, EffectType
  <2>2. L2 = Effect(L1, n, p, b, <<"head", "n.next">>)
    BY <1>2
  <2> HIDE DEF L2
  <2> QED BY <2>1, <2>2, <1>6, SetHead, Meanings
<1> HIDE DEF L2
<1>8. /\ L3 \in Lists /\ L3.count = L2.count + (-1)
      /\ L3.head = L2.head /\ L3.foot = L2.foot /\ L3.next = L2.next
      /\ L3.prev = L2.prev /\ L3.stray = L2.stray
  <2>1. L3 \in Lists
    BY <1>7, <1>3, EffectType
  <2>2. L3 = Effect(L2, n, p, b, <<"count", -1>>)
    BY <1>2
  <2> HIDE DEF L3
  <2> QED BY <2>1, <2>2, <1>7, SetCount, Meanings
<1> HIDE DEF L3
<1>9. /\ L3.head = L.next[n] /\ L3.foot = L.foot
      /\ L3.count = L.count - 1 /\ L3.stray = L.stray
      /\ L3.next = L.next
      /\ L3.prev = [L.prev EXCEPT ![L.next[n]] = NULL]
  BY <1>6, <1>7, <1>8 DEF Lists
<1> QED BY <1>5, <1>9 DEF P

\* The last node is removed.
LEMMA RemoveFootResult ==
  ASSUME NEW L \in Lists, NEW n \in Nodes, NEW p \in Nodes0, NEW b \in Nodes0,
         L.prev[n] \in Nodes
  PROVE  LET R == Result(L, n, p, b, RemoveFoot) IN
         /\ R.head = L.head /\ R.foot = L.prev[n]
         /\ R.count = L.count - 1 /\ R.stray = L.stray
         /\ R.next = [L.next EXCEPT ![L.prev[n]] = NULL]
         /\ R.prev = L.prev
<1> DEFINE P == RemoveFoot
           L1 == Effect(L, n, p, b, P[1])
           L2 == Effect(L1, n, p, b, P[2])
           L3 == Effect(L2, n, p, b, P[3])
<1>1. P \in Seq(Stores) /\ Len(P) = 3
  BY DEF RemoveFoot, Stores, Fields
<1>2. /\ P[1] = <<"next", "n.prev", "0">>
      /\ P[2] = <<"foot", "n.prev">>
      /\ P[3] = <<"count", -1>>
  BY DEF RemoveFoot
<1> HIDE DEF P
<1>3. \A i \in 1 .. 3 : P[i] \in Stores
  BY <1>1, ElementOfSeq
<1>4. NULL \notin Nodes
  BY DEF Nodes, NULL
<1>5. Result(L, n, p, b, P) = L3
  BY <1>1, ResultThree
<1>6. /\ L1 \in Lists /\ L1.next = [L.next EXCEPT ![L.prev[n]] = NULL]
      /\ L1.head = L.head /\ L1.foot = L.foot /\ L1.count = L.count
      /\ L1.prev = L.prev /\ L1.stray = L.stray
  <2>1. L1 \in Lists
    BY <1>3, EffectType
  <2>2. Meaning(L, n, p, b, "n.prev") \in Nodes
    BY Meanings DEF Lists
  <2>3. L1 = Effect(L, n, p, b, <<"next", "n.prev", "0">>)
    BY <1>2
  <2>4. Meaning(L, n, p, b, "n.prev") # NULL
    BY <1>4, <2>2
  <2>5. Meaning(L, n, p, b, "n.prev") = L.prev[n] /\ Meaning(L, n, p, b, "0") = NULL
    BY Meanings
  <2> HIDE DEF L1
  <2> QED BY <2>1, <2>3, <2>4, <2>5, SetNext
<1> HIDE DEF L1
<1>7. /\ L2 \in Lists /\ L2.foot = L1.prev[n]
      /\ L2.head = L1.head /\ L2.count = L1.count /\ L2.next = L1.next
      /\ L2.prev = L1.prev /\ L2.stray = L1.stray
  <2>1. L2 \in Lists
    BY <1>6, <1>3, EffectType
  <2>2. L2 = Effect(L1, n, p, b, <<"foot", "n.prev">>)
    BY <1>2
  <2> HIDE DEF L2
  <2> QED BY <2>1, <2>2, <1>6, SetFoot, Meanings
<1> HIDE DEF L2
<1>8. /\ L3 \in Lists /\ L3.count = L2.count + (-1)
      /\ L3.head = L2.head /\ L3.foot = L2.foot /\ L3.next = L2.next
      /\ L3.prev = L2.prev /\ L3.stray = L2.stray
  <2>1. L3 \in Lists
    BY <1>7, <1>3, EffectType
  <2>2. L3 = Effect(L2, n, p, b, <<"count", -1>>)
    BY <1>2
  <2> HIDE DEF L3
  <2> QED BY <2>1, <2>2, <1>7, SetCount, Meanings
<1> HIDE DEF L3
<1>9. /\ L3.head = L.head /\ L3.foot = L.prev[n]
      /\ L3.count = L.count - 1 /\ L3.stray = L.stray
      /\ L3.next = [L.next EXCEPT ![L.prev[n]] = NULL]
      /\ L3.prev = L.prev
  BY <1>6, <1>7, <1>8 DEF Lists
<1> QED BY <1>5, <1>9 DEF P

\* A node between two others is removed.
LEMMA RemoveMiddleResult ==
  ASSUME NEW L \in Lists, NEW n \in Nodes, NEW p \in Nodes0, NEW b \in Nodes0,
         L.next[n] \in Nodes,
         L.prev[n] \in Nodes,
         L.prev[n] # n
  PROVE  LET R == Result(L, n, p, b, RemoveMiddle) IN
         /\ R.head = L.head /\ R.foot = L.foot
         /\ R.count = L.count - 1 /\ R.stray = L.stray
         /\ R.next = [L.next EXCEPT ![L.prev[n]] = L.next[n]]
         /\ R.prev = [L.prev EXCEPT ![L.next[n]] = L.prev[n]]
<1> DEFINE P == RemoveMiddle
           L1 == Effect(L, n, p, b, P[1])
           L2 == Effect(L1, n, p, b, P[2])
           L3 == Effect(L2, n, p, b, P[3])
<1>1. P \in Seq(Stores) /\ Len(P) = 3
  BY DEF RemoveMiddle, Stores, Fields
<1>2. /\ P[1] = <<"next", "n.prev", "n.next">>
      /\ P[2] = <<"prev", "n.next", "n.prev">>
      /\ P[3] = <<"count", -1>>
  BY DEF RemoveMiddle
<1> HIDE DEF P
<1>3. \A i \in 1 .. 3 : P[i] \in Stores
  BY <1>1, ElementOfSeq
<1>4. NULL \notin Nodes
  BY DEF Nodes, NULL
<1>5. Result(L, n, p, b, P) = L3
  BY <1>1, ResultThree
<1>6. /\ L1 \in Lists /\ L1.next = [L.next EXCEPT ![L.prev[n]] = L.next[n]]
      /\ L1.head = L.head /\ L1.foot = L.foot /\ L1.count = L.count
      /\ L1.prev = L.prev /\ L1.stray = L.stray
  <2>1. L1 \in Lists
    BY <1>3, EffectType
  <2>2. Meaning(L, n, p, b, "n.prev") \in Nodes
    BY Meanings DEF Lists
  <2>3. L1 = Effect(L, n, p, b, <<"next", "n.prev", "n.next">>)
    BY <1>2
  <2>4. Meaning(L, n, p, b, "n.prev") # NULL
    BY <1>4, <2>2
  <2>5. Meaning(L, n, p, b, "n.prev") = L.prev[n] /\ Meaning(L, n, p, b, "n.next") = L.next[n]
    BY Meanings
  <2> HIDE DEF L1
  <2> QED BY <2>1, <2>3, <2>4, <2>5, SetNext
<1> HIDE DEF L1
<1>7. /\ L2 \in Lists /\ L2.prev = [L1.prev EXCEPT ![L1.next[n]] = L1.prev[n]]
      /\ L2.head = L1.head /\ L2.foot = L1.foot /\ L2.count = L1.count
      /\ L2.next = L1.next /\ L2.stray = L1.stray
  <2>1. L2 \in Lists
    BY <1>6, <1>3, EffectType
  <2>2. Meaning(L1, n, p, b, "n.next") \in Nodes
    BY <1>6, Meanings DEF Lists
  <2>3. L2 = Effect(L1, n, p, b, <<"prev", "n.next", "n.prev">>)
    BY <1>2
  <2>4. Meaning(L1, n, p, b, "n.next") # NULL
    BY <1>4, <2>2
  <2>5. Meaning(L1, n, p, b, "n.next") = L1.next[n] /\ Meaning(L1, n, p, b, "n.prev") = L1.prev[n]
    BY Meanings
  <2> HIDE DEF L2
  <2> QED BY <2>1, <2>3, <2>4, <2>5, <1>6, SetPrev
<1> HIDE DEF L2
<1>8. /\ L3 \in Lists /\ L3.count = L2.count + (-1)
      /\ L3.head = L2.head /\ L3.foot = L2.foot /\ L3.next = L2.next
      /\ L3.prev = L2.prev /\ L3.stray = L2.stray
  <2>1. L3 \in Lists
    BY <1>7, <1>3, EffectType
  <2>2. L3 = Effect(L2, n, p, b, <<"count", -1>>)
    BY <1>2
  <2> HIDE DEF L3
  <2> QED BY <2>1, <2>2, <1>7, SetCount, Meanings
<1> HIDE DEF L3
<1>9. /\ L3.head = L.head /\ L3.foot = L.foot
      /\ L3.count = L.count - 1 /\ L3.stray = L.stray
      /\ L3.next = [L.next EXCEPT ![L.prev[n]] = L.next[n]]
      /\ L3.prev = [L.prev EXCEPT ![L.next[n]] = L.prev[n]]
  BY <1>6, <1>7, <1>8 DEF Lists
<1> QED BY <1>5, <1>9 DEF P

\* A node is inserted before p.
LEMMA InsertResult ==
  ASSUME NEW L \in Lists, NEW n \in Nodes, NEW p \in Nodes0, NEW b \in Nodes0,
         p \in Nodes,
         b \in Nodes
  PROVE  LET R == Result(L, n, p, b, Insert) IN
         /\ R.head = L.head /\ R.foot = L.foot
         /\ R.count = L.count /\ R.stray = L.stray
         /\ R.next = [[L.next EXCEPT ![n] = p] EXCEPT ![b] = n]
         /\ R.prev = [[L.prev EXCEPT ![p] = n] EXCEPT ![n] = b]
<1> DEFINE P == Insert
           L1 == Effect(L, n, p, b, P[1])
           L2 == Effect(L1, n, p, b, P[2])
           L3 == Effect(L2, n, p, b, P[3])
           L4 == Effect(L3, n, p, b, P[4])
<1>1. P \in Seq(Stores) /\ Len(P) = 4
  BY DEF Insert, Stores, Fields
<1>2. /\ P[1] = <<"next", "n", "pos">>
      /\ P[2] = <<"prev", "pos", "n">>
      /\ P[3] = <<"prev", "n", "before">>
      /\ P[4] = <<"next", "before", "n">>
  BY DEF Insert
<1> HIDE DEF P
<1>3. \A i \in 1 .. 4 : P[i] \in Stores
  BY <1>1, ElementOfSeq
<1>4. NULL \notin Nodes
  BY DEF Nodes, NULL
<1>5. Result(L, n, p, b, P) = L4
  BY <1>1, ResultFour
<1>6. /\ L1 \in Lists /\ L1.next = [L.next EXCEPT ![n] = p]
      /\ L1.head = L.head /\ L1.foot = L.foot /\ L1.count = L.count
      /\ L1.prev = L.prev /\ L1.stray = L.stray
  <2>1. L1 \in Lists
    BY <1>3, EffectType
  <2>2. Meaning(L, n, p, b, "n") \in Nodes
    BY Meanings
  <2>3. L1 = Effect(L, n, p, b, <<"next", "n", "pos">>)
    BY <1>2
  <2>4. Meaning(L, n, p, b, "n") # NULL
    BY <1>4, <2>2
  <2>5. Meaning(L, n, p, b, "n") = n /\ Meaning(L, n, p, b, "pos") = p
    BY Meanings
  <2> HIDE DEF L1
  <2> QED BY <2>1, <2>3, <2>4, <2>5, SetNext
<1> HIDE DEF L1
<1>7. /\ L2 \in Lists /\ L2.prev = [L1.prev EXCEPT ![p] = n]
      /\ L2.head = L1.head /\ L2.foot = L1.foot /\ L2.count = L1.count
      /\ L2.next = L1.next /\ L2.stray = L1.stray
  <2>1. L2 \in Lists
    BY <1>6, <1>3, EffectType
  <2>2. Meaning(L1, n, p, b, "pos") \in Nodes
    BY <1>6, Meanings
  <2>3. L2 = Effect(L1, n, p, b, <<"prev", "pos", "n">>)
    BY <1>2
  <2>4. Meaning(L1, n, p, b, "pos") # NULL
    BY <1>4, <2>2
  <2>5. Meaning(L1, n, p, b, "pos") = p /\ Meaning(L1, n, p, b, "n") = n
    BY Meanings
  <2> HIDE DEF L2
  <2> QED BY <2>1, <2>3, <2>4, <2>5, <1>6, SetPrev
<1> HIDE DEF L2
<1>8. /\ L3 \in Lists /\ L3.prev = [L2.prev EXCEPT ![n] = b]
      /\ L3.head = L2.head /\ L3.foot = L2.foot /\ L3.count = L2.count
      /\ L3.next = L2.next /\ L3.stray = L2.stray
  <2>1. L3 \in Lists
    BY <1>7, <1>3, EffectType
  <2>2. Meaning(L2, n, p, b, "n") \in Nodes
    BY <1>6, <1>7, Meanings
  <2>3. L3 = Effect(L2, n, p, b, <<"prev", "n", "before">>)
    BY <1>2
  <2>4. Meaning(L2, n, p, b, "n") # NULL
    BY <1>4, <2>2
  <2>5. Meaning(L2, n, p, b, "n") = n /\ Meaning(L2, n, p, b, "before") = b
    BY Meanings
  <2> HIDE DEF L3
  <2> QED BY <2>1, <2>3, <2>4, <2>5, <1>7, SetPrev
<1> HIDE DEF L3
<1>9. /\ L4 \in Lists /\ L4.next = [L3.next EXCEPT ![b] = n]
      /\ L4.head = L3.head /\ L4.foot = L3.foot /\ L4.count = L3.count
      /\ L4.prev = L3.prev /\ L4.stray = L3.stray
  <2>1. L4 \in Lists
    BY <1>8, <1>3, EffectType
  <2>2. Meaning(L3, n, p, b, "before") \in Nodes
    BY <1>6, <1>7, <1>8, Meanings
  <2>3. L4 = Effect(L3, n, p, b, <<"next", "before", "n">>)
    BY <1>2
  <2>4. Meaning(L3, n, p, b, "before") # NULL
    BY <1>4, <2>2
  <2>5. Meaning(L3, n, p, b, "before") = b /\ Meaning(L3, n, p, b, "n") = n
    BY Meanings
  <2> HIDE DEF L4
  <2> QED BY <2>1, <2>3, <2>4, <2>5, <1>8, SetNext
<1> HIDE DEF L4
<1>10. /\ L4.head = L.head /\ L4.foot = L.foot
      /\ L4.count = L.count /\ L4.stray = L.stray
      /\ L4.next = [[L.next EXCEPT ![n] = p] EXCEPT ![b] = n]
      /\ L4.prev = [[L.prev EXCEPT ![p] = n] EXCEPT ![n] = b]
  BY <1>6, <1>7, <1>8, <1>9 DEF Lists
<1> QED BY <1>5, <1>10 DEF P

-----------------------------------------------------------------------------
(* LinkedList: links, element by element *)

Links(A, S, h, f, nx, pv) ==
  /\ Starts(A, h, S) /\ Ends(A, f, S)
  /\ \A x \in S : Follows(A, x, nx[x], S) /\ Precedes(A, x, pv[x], S)

LEMMA FirstBehind ==
  ASSUME NEW A, NEW S, NULL \notin S, NEW x, NEW y
  PROVE  IsFirst(A, y, Behind(A, x, S)) <=> Follows(A, x, y, S)
<1>1. CASE Behind(A, x, S) = {}
  <2>1. \A m \in S : <<x, m>> \notin A
    BY <1>1 DEF Behind
  <2> QED BY <1>1, <2>1 DEF IsFirst, Follows
<1>2. CASE Behind(A, x, S) # {}
  <2>1. PICK m \in S : <<x, m>> \in A
    BY <1>2 DEF Behind
  <2> QED BY <1>2, <2>1 DEF IsFirst, Follows, Behind
<1> QED BY <1>1, <1>2

LEMMA LastBefore ==
  ASSUME NEW A, NEW S, NULL \notin S, NEW x, NEW y
  PROVE  IsLast(A, y, Before(A, x, S)) <=> Precedes(A, x, y, S)
<1>1. CASE Before(A, x, S) = {}
  <2>1. \A m \in S : <<m, x>> \notin A
    BY <1>1 DEF Before
  <2> QED BY <1>1, <2>1 DEF IsLast, Precedes
<1>2. CASE Before(A, x, S) # {}
  <2>1. PICK m \in S : <<m, x>> \in A
    BY <1>2 DEF Before
  <2> QED BY <1>2, <2>1 DEF IsLast, Precedes, Before
<1> QED BY <1>1, <1>2

LEMMA NoNull == ASSUME NEW S, S \subseteq Nodes PROVE NULL \notin S
BY DEF Nodes, NULL

LEMMA ChainLinks ==
  ASSUME NEW A, NEW S, S \subseteq Nodes, NEW L
  PROVE  Chain(A, S, L) <=> Links(A, S, L.head, L.foot, L.next, L.prev)
<1>1. NULL \notin S
  BY NoNull
<1>2. IsFirst(A, L.head, S) <=> Starts(A, L.head, S)
  BY <1>1 DEF IsFirst, Starts
<1>3. IsLast(A, L.foot, S) <=> Ends(A, L.foot, S)
  BY <1>1 DEF IsLast, Ends
<1>4. \A x \in S : /\ IsFirst(A, L.next[x], Behind(A, x, S)) <=> Follows(A, x, L.next[x], S)
                   /\ IsLast(A, L.prev[x], Before(A, x, S)) <=> Precedes(A, x, L.prev[x], S)
  BY <1>1, FirstBehind, LastBefore
<1> QED BY <1>2, <1>3, <1>4 DEF Chain, Links

\* A part of what is ordered is ordered.
LEMMA OrderedPart ==
  ASSUME NEW A, NEW S, NEW T, T \subseteq S, Ordered(A, S)
  PROVE  Ordered(A, T)
BY DEF Ordered

\* B is the order A of S, with n behind all, or next before p.
Appended(A, B, S, n) ==
  /\ \A x, y \in S : <<x, y>> \in B <=> <<x, y>> \in A
  /\ \A x \in S : <<x, n>> \in B /\ <<n, x>> \notin B
  /\ <<n, n>> \notin B
Inserted(A, B, S, n, p) ==
  /\ \A x, y \in S : <<x, y>> \in B <=> <<x, y>> \in A
  /\ \A x \in S : <<x, n>> \in B <=> <<x, p>> \in A
  /\ \A x \in S : <<n, x>> \in B <=> x = p \/ <<p, x>> \in A
  /\ <<n, n>> \notin B

LEMMA OrderedAppend ==
  ASSUME NEW A, NEW S, NEW n, n \notin S, Ordered(A, S), NEW B,
         B = (A \cap (S \X S)) \cup (S \X {n})
  PROVE  Ordered(B, S \cup {n}) /\ Appended(A, B, S, n)
<1>1. /\ \A x, y \in S : <<x, y>> \in B <=> <<x, y>> \in A
      /\ \A x \in S : <<x, n>> \in B /\ <<n, x>> \notin B
      /\ <<n, n>> \notin B
  OBVIOUS
<1>2. Ordered(B, S \cup {n})
  BY <1>1 DEF Ordered
<1> QED BY <1>1, <1>2 DEF Appended

LEMMA OrderedInsert ==
  ASSUME NEW A, NEW S, NEW n, n \notin S, NEW p \in S, Ordered(A, S), NEW B,
         B = (A \cap (S \X S)) \cup (Before(A, p, S) \X {n})
                               \cup ({n} \X ({p} \cup Behind(A, p, S)))
  PROVE  Ordered(B, S \cup {n}) /\ Inserted(A, B, S, n, p)
<1>1. /\ \A x, y \in S : <<x, y>> \in B <=> <<x, y>> \in A
      /\ \A x \in S : <<x, n>> \in B <=> <<x, p>> \in A
      /\ \A x \in S : <<n, x>> \in B <=> x = p \/ <<p, x>> \in A
      /\ <<n, n>> \notin B
  BY DEF Before, Behind
<1>2. Ordered(B, S \cup {n})
  <2>1. \A x, y, z \in S \cup {n} : <<x, y>> \in B /\ <<y, z>> \in B => <<x, z>> \in B
    BY <1>1 DEF Ordered
  <2> QED BY <1>1, <2>1 DEF Ordered
<1> QED BY <1>1, <1>2 DEF Inserted

\* A first node.
LEMMA LinksFirst ==
  ASSUME NEW B, NEW n, <<n, n>> \notin B, NEW nx, NEW pv, nx[n] = NULL, pv[n] = NULL
  PROVE  Links(B, {n}, n, n, nx, pv)
BY DEF Links, Starts, Ends, Follows, Precedes

\* A node at the end.
LEMMA LinksAppend ==
  ASSUME NEW A, NEW S, S \subseteq Nodes, S # {}, NEW n \in Nodes, n \notin S, Ordered(A, S),
         NEW h, NEW f, NEW nx \in [Nodes -> Nodes0], NEW pv \in [Nodes -> Nodes0],
         Links(A, S, h, f, nx, pv), NEW B, Appended(A, B, S, n)
  PROVE  Links(B, S \cup {n}, h, n, [[nx EXCEPT ![f] = n] EXCEPT ![n] = NULL],
               [pv EXCEPT ![n] = f])
<1> DEFINE ny == [[nx EXCEPT ![f] = n] EXCEPT ![n] = NULL]
           pw == [pv EXCEPT ![n] = f]
           T == S \cup {n}
<1> USE DEF Appended
<1>1. f \in S /\ f # n /\ \A m \in S : m = f \/ <<m, f>> \in A
  BY DEF Links, Ends
<1>2. \A m \in S : <<f, m>> \notin A
  BY <1>1 DEF Ordered
<1>3. ny[n] = NULL /\ ny[f] = n /\ \A x \in S \ {f} : ny[x] = nx[x]
  BY <1>1
<1>4. pw[n] = f /\ \A x \in S : pw[x] = pv[x]
  BY <1>1
<1>5. \A x \in S : Follows(A, x, nx[x], S) /\ Precedes(A, x, pv[x], S)
  BY DEF Links
<1>6. Starts(B, h, T) /\ Ends(B, n, T)
  BY <1>1 DEF Links, Starts, Ends
<1> HIDE DEF ny, pw
<1>7. ASSUME NEW x \in T
      PROVE  Follows(B, x, ny[x], T)
  <2>1. CASE x = n
    BY <1>3, <2>1 DEF Follows
  <2>2. CASE x = f
    BY <1>1, <1>2, <1>3, <2>2 DEF Follows
  <2>3. CASE x \in S \ {f}
    <3>1. ny[x] \in S /\ <<x, ny[x]>> \in A
          /\ \A m \in S : <<x, m>> \in A => m = ny[x] \/ <<ny[x], m>> \in A
      BY <1>1, <1>3, <1>5, <2>3 DEF Follows
    <3> QED BY <2>3, <3>1 DEF Follows
  <2> QED BY <2>1, <2>2, <2>3
<1>8. ASSUME NEW x \in T
      PROVE  Precedes(B, x, pw[x], T)
  <2>1. CASE x = n
    BY <1>1, <1>4, <2>1 DEF Precedes
  <2>2. CASE x \in S
    BY <1>4, <1>5, <2>2 DEF Precedes
  <2> QED BY <2>1, <2>2
<1> QED BY <1>6, <1>7, <1>8 DEF Links, ny, pw

\* What the links of a member n are, by where it is.
Placed(A, S, h, f, nx, pv, n) ==
  /\ h \in S /\ f \in S
  /\ h = n => \A m \in S : <<m, n>> \notin A
  /\ f = n => \A m \in S : <<n, m>> \notin A
  /\ h = n => pv[n] = NULL
  /\ f = n => nx[n] = NULL
  /\ h # n => pv[n] \in S /\ <<pv[n], n>> \in A /\ pv[n] # n
  /\ f # n => nx[n] \in S /\ <<n, nx[n]>> \in A /\ nx[n] # n
  /\ h = n /\ f = n => S = {n}

LEMMA Place ==
  ASSUME NEW A, NEW S, S \subseteq Nodes, NEW n \in S, Ordered(A, S),
         NEW h, NEW f, NEW nx, NEW pv, Links(A, S, h, f, nx, pv)
  PROVE  Placed(A, S, h, f, nx, pv, n)
<1>1. /\ h \in S /\ f \in S
      /\ \A m \in S : m = h \/ <<h, m>> \in A
      /\ \A m \in S : m = f \/ <<m, f>> \in A
  BY DEF Links, Starts, Ends
<1>2. Follows(A, n, nx[n], S) /\ Precedes(A, n, pv[n], S)
  BY DEF Links
<1>3. h = n => \A m \in S : <<m, n>> \notin A
  BY <1>1 DEF Ordered
<1>4. f = n => \A m \in S : <<n, m>> \notin A
  BY <1>1 DEF Ordered
<1>5. /\ h = n => pv[n] = NULL
      /\ h # n => pv[n] \in S /\ <<pv[n], n>> \in A
  BY <1>1, <1>2, <1>3 DEF Precedes
<1>6. /\ f = n => nx[n] = NULL
      /\ f # n => nx[n] \in S /\ <<n, nx[n]>> \in A
  BY <1>1, <1>2, <1>4 DEF Follows
<1>7. <<n, n>> \notin A
  BY DEF Ordered
<1>8. ASSUME h = n, f = n, NEW m \in S
      PROVE  m = n
  BY <1>1, <1>4, <1>8
<1> QED BY <1>1, <1>3, <1>4, <1>5, <1>6, <1>7, <1>8 DEF Placed

\* The nodes whose links led to n.
LEMMA Neighbours ==
  ASSUME NEW A, NEW S, S \subseteq Nodes, NEW n \in S, Ordered(A, S),
         NEW h, NEW f, NEW nx, NEW pv, Links(A, S, h, f, nx, pv), NEW x \in S, x # n
  PROVE  /\ nx[x] = n => h # n /\ pv[n] = x
         /\ pv[x] = n => f # n /\ nx[n] = x
<1>1. n # NULL /\ NULL \notin S
  BY NoNull
<1>0. Placed(A, S, h, f, nx, pv, n)
  BY Place
<1>2. ASSUME nx[x] = n
      PROVE  h # n /\ pv[n] = x
  <2>1. <<x, n>> \in A /\ \A m \in S : <<x, m>> \in A => m = n \/ <<n, m>> \in A
    BY <1>1, <1>2 DEF Links, Follows
  <2>2. h # n
    BY <1>0, <2>1 DEF Placed
  <2>3. Precedes(A, n, pv[n], S) /\ pv[n] \in S /\ <<pv[n], n>> \in A
    BY <1>0, <2>2 DEF Links, Placed
  <2>4. x = pv[n] \/ <<x, pv[n]>> \in A
    BY <1>1, <2>1, <2>3 DEF Precedes
  <2>5. <<x, pv[n]>> \notin A
    BY <2>1, <2>3 DEF Ordered
  <2> QED BY <2>2, <2>4, <2>5
<1>3. ASSUME pv[x] = n
      PROVE  f # n /\ nx[n] = x
  <2>1. <<n, x>> \in A /\ \A m \in S : <<m, x>> \in A => m = n \/ <<m, n>> \in A
    BY <1>1, <1>3 DEF Links, Precedes
  <2>2. f # n
    BY <1>0, <2>1 DEF Placed
  <2>3. Follows(A, n, nx[n], S) /\ nx[n] \in S /\ <<n, nx[n]>> \in A
    BY <1>0, <2>2 DEF Links, Placed
  <2>4. x = nx[n] \/ <<nx[n], x>> \in A
    BY <1>1, <2>1, <2>3 DEF Follows
  <2>5. <<nx[n], x>> \notin A
    BY <2>1, <2>3 DEF Ordered
  <2> QED BY <2>2, <2>4, <2>5
<1> QED BY <1>2, <1>3

\* Links that pass over n...
Passing(S, n, h, f, nx, pv, g, e, ny, pw) ==
  /\ g = (IF h = n THEN nx[n] ELSE h) /\ e = (IF f = n THEN pv[n] ELSE f)
  /\ \A x \in S \ {n} : ny[x] = IF nx[x] = n THEN nx[n] ELSE nx[x]
  /\ \A x \in S \ {n} : pw[x] = IF pv[x] = n THEN pv[n] ELSE pv[x]

\* ... are right without it.
LEMMA PassOver ==
  ASSUME NEW A, NEW S, S \subseteq Nodes, NEW n \in S, Ordered(A, S),
         NEW h, NEW f, NEW nx, NEW pv, Links(A, S, h, f, nx, pv),
         NEW g, NEW e, NEW ny, NEW pw, Passing(S, n, h, f, nx, pv, g, e, ny, pw)
  PROVE  Links(A, S \ {n}, g, e, ny, pw)
<1> DEFINE T == S \ {n}
<1> USE DEF Passing
<1>0. NULL \notin S /\ n # NULL /\ Placed(A, S, h, f, nx, pv, n)
  BY NoNull, Place
<1>1. /\ \A x \in S : Follows(A, x, nx[x], S) /\ Precedes(A, x, pv[x], S)
      /\ Starts(A, h, S) /\ Ends(A, f, S)
  BY DEF Links
<1>2. <<n, n>> \notin A
  BY DEF Ordered
<1>3. Starts(A, g, T)
  <2>1. CASE h # n
    BY <1>1, <2>1 DEF Starts
  <2>2. CASE h = n /\ f = n
    <3>1. S = {n} /\ nx[n] = NULL
      BY <1>0, <2>2 DEF Placed
    <3> QED BY <2>2, <3>1 DEF Starts
  <2>3. CASE h = n /\ f # n
    <3>1. nx[n] \in T /\ Follows(A, n, nx[n], S)
      BY <1>0, <1>1, <2>3 DEF Placed
    <3>2. \A m \in S : m = n \/ <<n, m>> \in A
      BY <1>0, <1>1, <2>3 DEF Starts
    <3> QED BY <1>0, <2>3, <3>1, <3>2 DEF Starts, Follows
  <2> QED BY <2>1, <2>2, <2>3
<1>4. Ends(A, e, T)
  <2>1. CASE f # n
    BY <1>1, <2>1 DEF Ends
  <2>2. CASE h = n /\ f = n
    <3>1. S = {n} /\ pv[n] = NULL
      BY <1>0, <2>2 DEF Placed
    <3> QED BY <2>2, <3>1 DEF Ends
  <2>3. CASE f = n /\ h # n
    <3>1. pv[n] \in T /\ Precedes(A, n, pv[n], S)
      BY <1>0, <1>1, <2>3 DEF Placed
    <3>2. \A m \in S : m = n \/ <<m, n>> \in A
      BY <1>0, <1>1, <2>3 DEF Ends
    <3> QED BY <1>0, <2>3, <3>1, <3>2 DEF Ends, Precedes
  <2> QED BY <2>1, <2>2, <2>3
<1>5. ASSUME NEW x \in T
      PROVE  Follows(A, x, ny[x], T)
  <2>1. CASE nx[x] # n
    BY <1>1, <2>1 DEF Follows
  <2>2. CASE nx[x] = n
    <3>1. ny[x] = nx[n] /\ Follows(A, n, nx[n], S)
      BY <1>1, <2>2
    <3>2. <<x, n>> \in A /\ \A m \in S : <<x, m>> \in A => m = n \/ <<n, m>> \in A
      BY <1>0, <1>1, <2>2 DEF Follows
    <3>3. CASE nx[n] = NULL
      <4>1. \A m \in S : <<n, m>> \notin A
        BY <1>0, <3>1, <3>3 DEF Follows
      <4> QED BY <3>1, <3>2, <3>3, <4>1 DEF Follows
    <3>4. CASE nx[n] # NULL
      <4>1. nx[n] \in S /\ <<n, nx[n]>> \in A
            /\ \A m \in S : <<n, m>> \in A => m = nx[n] \/ <<nx[n], m>> \in A
        BY <3>1, <3>4 DEF Follows
      <4>2. nx[n] \in T /\ <<x, nx[n]>> \in A
        BY <1>2, <3>2, <4>1 DEF Ordered
      <4> QED BY <3>1, <3>2, <4>1, <4>2 DEF Follows
    <3> QED BY <3>3, <3>4
  <2> QED BY <2>1, <2>2
<1>6. ASSUME NEW x \in T
      PROVE  Precedes(A, x, pw[x], T)
  <2>1. CASE pv[x] # n
    BY <1>1, <2>1 DEF Precedes
  <2>2. CASE pv[x] = n
    <3>1. pw[x] = pv[n] /\ Precedes(A, n, pv[n], S)
      BY <1>1, <2>2
    <3>2. <<n, x>> \in A /\ \A m \in S : <<m, x>> \in A => m = n \/ <<m, n>> \in A
      BY <1>0, <1>1, <2>2 DEF Precedes
    <3>3. CASE pv[n] = NULL
      <4>1. \A m \in S : <<m, n>> \notin A
        BY <1>0, <3>1, <3>3 DEF Precedes
      <4> QED BY <3>1, <3>2, <3>3, <4>1 DEF Precedes
    <3>4. CASE pv[n] # NULL
      <4>1. pv[n] \in S /\ <<pv[n], n>> \in A
            /\ \A m \in S : <<m, n>> \in A => m = pv[n] \/ <<m, pv[n]>> \in A
        BY <3>1, <3>4 DEF Precedes
      <4>2. pv[n] \in T /\ <<pv[n], x>> \in A
        BY <1>2, <3>2, <4>1 DEF Ordered
      <4> QED BY <3>1, <3>2, <4>1, <4>2 DEF Precedes
    <3> QED BY <3>3, <3>4
  <2> QED BY <2>1, <2>2
<1> QED BY <1>3, <1>4, <1>5, <1>6 DEF Links

\* A node before p, which is not the first.
LEMMA LinksInsert ==
  ASSUME NEW A, NEW S, S \subseteq Nodes, NEW n \in Nodes, n \notin S, NEW p \in S, Ordered(A, S),
         NEW h, NEW f, NEW nx \in [Nodes -> Nodes0], NEW pv \in [Nodes -> Nodes0],
         Links(A, S, h, f, nx, pv), h # p, NEW B, Ordered(B, S \cup {n}),
         Inserted(A, B, S, n, p)
  PROVE  Links(B, S \cup {n}, h, f, [[nx EXCEPT ![n] = p] EXCEPT ![pv[p]] = n],
               [[pv EXCEPT ![p] = n] EXCEPT ![n] = pv[p]])
<1> DEFINE b == pv[p]
           ny == [[nx EXCEPT ![n] = p] EXCEPT ![b] = n]
           pw == [[pv EXCEPT ![p] = n] EXCEPT ![n] = b]
           T == S \cup {n}
<1> USE DEF Inserted
<1>0. NULL \notin S
  BY NoNull
<1>1. b \in S /\ <<b, p>> \in A /\ b # p
  <2>1. Placed(A, S, h, f, nx, pv, p)
    BY Place
  <2> QED BY <2>1 DEF Placed
<1>2. \A m \in S : <<m, p>> \in A => m = b \/ <<m, b>> \in A
  BY <1>0, <1>1 DEF Links, Precedes
<1>3. \A x \in S : Follows(A, x, nx[x], S) /\ Precedes(A, x, pv[x], S)
  BY DEF Links
<1> HIDE DEF b
<1>4. ny[n] = p /\ ny[b] = n /\ \A x \in S \ {b} : ny[x] = nx[x]
  BY <1>1
<1>5. pw[n] = b /\ pw[p] = n /\ \A x \in S \ {p} : pw[x] = pv[x]
  BY <1>1
<1>6. Starts(B, h, T) /\ Ends(B, f, T)
  <2>1. h \in S /\ f \in S /\ <<h, p>> \in A /\ (f = p \/ <<p, f>> \in A)
        /\ \A m \in S : (m = h \/ <<h, m>> \in A) /\ (m = f \/ <<m, f>> \in A)
    BY <1>0 DEF Links, Starts, Ends
  <2> QED BY <2>1 DEF Starts, Ends
<1> HIDE DEF ny, pw
<1>7. ASSUME NEW x \in T
      PROVE  Follows(B, x, ny[x], T)
  <2>1. CASE x = n
    BY <1>4, <2>1 DEF Follows
  <2>2. CASE x = b
    <3>1. \A m \in S : <<b, m>> \in A => m = p \/ <<p, m>> \in A
      <4>1. SUFFICES ASSUME NEW m \in S, <<b, m>> \in A, m # p
                     PROVE  <<p, m>> \in A
        OBVIOUS
      <4>2. <<m, b>> \notin A /\ m # b
        BY <1>1, <4>1 DEF Ordered
      <4> QED BY <1>2, <4>1, <4>2 DEF Ordered
    <3> QED BY <1>1, <1>4, <2>2, <3>1 DEF Follows
  <2>3. CASE x \in S \ {b}
    <3>1. ny[x] = nx[x] /\ Follows(A, x, nx[x], S)
      BY <1>3, <1>4, <2>3
    <3>2. CASE nx[x] = NULL /\ \A m \in S : <<x, m>> \notin A
      BY <2>3, <3>1, <3>2 DEF Follows
    <3>3. CASE /\ nx[x] \in S /\ <<x, nx[x]>> \in A
               /\ \A m \in S : <<x, m>> \in A => m = nx[x] \/ <<nx[x], m>> \in A
      <4>1. <<x, p>> \in A => <<nx[x], p>> \in A
        <5>1. SUFFICES ASSUME <<x, p>> \in A
                       PROVE  <<nx[x], p>> \in A
          OBVIOUS
        <5>2. <<x, b>> \in A
          BY <1>2, <2>3, <5>1
        <5>3. b = nx[x] \/ <<nx[x], b>> \in A
          BY <1>1, <3>3, <5>2
        <5> QED BY <1>1, <3>3, <5>3 DEF Ordered
      <4> QED BY <2>3, <3>1, <3>3, <4>1 DEF Follows
    <3> QED BY <3>1, <3>2, <3>3 DEF Follows
  <2> QED BY <2>1, <2>2, <2>3
<1>8. ASSUME NEW x \in T
      PROVE  Precedes(B, x, pw[x], T)
  <2>1. CASE x = n
    BY <1>1, <1>2, <1>5, <2>1 DEF Precedes
  <2>2. CASE x = p
    BY <1>5, <2>2 DEF Precedes
  <2>3. CASE x \in S \ {p}
    <3>1. pw[x] = pv[x] /\ Precedes(A, x, pv[x], S)
      BY <1>3, <1>5, <2>3
    <3>2. CASE pv[x] = NULL /\ \A m \in S : <<m, x>> \notin A
      BY <2>3, <3>1, <3>2 DEF Precedes
    <3>3. CASE /\ pv[x] \in S /\ <<pv[x], x>> \in A
               /\ \A m \in S : <<m, x>> \in A => m = pv[x] \/ <<m, pv[x]>> \in A
      <4>1. <<p, x>> \in A => p = pv[x] \/ <<p, pv[x]>> \in A
        BY <3>3
      <4> QED BY <2>3, <3>1, <3>3, <4>1 DEF Precedes
    <3> QED BY <3>1, <3>2, <3>3 DEF Precedes
  <2> QED BY <2>1, <2>2, <2>3
<1> QED BY <1>6, <1>7, <1>8 DEF Links, b, ny, pw

\* The link from one node to another, and the link back.
LEMMA LinkedBack ==
  ASSUME NEW A, NEW S, S \subseteq Nodes, NEW n \in S, Ordered(A, S),
         NEW h, NEW f, NEW nx, NEW pv, Links(A, S, h, f, nx, pv), NEW x \in S, x # n
  PROVE  /\ nx[x] = n <=> h # n /\ pv[n] = x
         /\ pv[x] = n <=> f # n /\ nx[n] = x
<1>1. /\ nx[x] = n => h # n /\ pv[n] = x
      /\ pv[x] = n => f # n /\ nx[n] = x
  BY Neighbours
<1>2. /\ pv[n] = x => nx[x] = n
      /\ nx[n] = x => pv[x] = n
  BY Neighbours
<1> QED BY <1>1, <1>2
-----------------------------------------------------------------------------
(* LinkedList: operations *)

\* Which branch remove_node takes for the node n of the list L, and add_node.
Removal(L, n) ==
  IF L.head = n /\ L.foot = n THEN RemoveOnly
  ELSE IF L.head = n THEN RemoveHead
  ELSE IF L.foot = n THEN RemoveFoot
  ELSE RemoveMiddle
Addition(L) == IF L.head = NULL /\ L.foot = NULL THEN AddToEmpty ELSE AddToFoot

LEMMA Programs ==
  /\ AddToEmpty \in Seq(Stores) /\ Len(AddToEmpty) <= 5
  /\ AddToFoot \in Seq(Stores) /\ Len(AddToFoot) <= 5
  /\ RemoveOnly \in Seq(Stores) /\ Len(RemoveOnly) <= 5
  /\ RemoveHead \in Seq(Stores) /\ Len(RemoveHead) <= 5
  /\ RemoveFoot \in Seq(Stores) /\ Len(RemoveFoot) <= 5
  /\ RemoveMiddle \in Seq(Stores) /\ Len(RemoveMiddle) <= 5
  /\ Unshift \in Seq(Stores) /\ Len(Unshift) <= 5
  /\ Insert \in Seq(Stores) /\ Len(Insert) <= 5
  /\ <<>> \in Seq(Stores) /\ Len(<<>>) <= 5
<1>1. AddToEmpty \in Seq(Stores) /\ Len(AddToEmpty) <= 5
  BY DEF AddToEmpty, Stores, Fields
<1>2. AddToFoot \in Seq(Stores) /\ Len(AddToFoot) <= 5
  BY DEF AddToFoot, Stores, Fields
<1>3. RemoveOnly \in Seq(Stores) /\ Len(RemoveOnly) <= 5
  BY DEF RemoveOnly, Stores, Fields
<1>4. RemoveHead \in Seq(Stores) /\ Len(RemoveHead) <= 5
  BY DEF RemoveHead, Stores, Fields
<1>5. RemoveFoot \in Seq(Stores) /\ Len(RemoveFoot) <= 5
  BY DEF RemoveFoot, Stores, Fields
<1>6. RemoveMiddle \in Seq(Stores) /\ Len(RemoveMiddle) <= 5
  BY DEF RemoveMiddle, Stores, Fields
<1>7. Unshift \in Seq(Stores) /\ Len(Unshift) <= 5
  BY DEF Unshift, Stores, Fields
<1>8. Insert \in Seq(Stores) /\ Len(Insert) <= 5
  BY DEF Insert, Stores, Fields
<1> QED BY <1>1, <1>2, <1>3, <1>4, <1>5, <1>6, <1>7, <1>8

LEMMA Sizes ==
  ASSUME NEW S, S \subseteq Nodes
  PROVE  /\ Cardinality(S) \in Nat
         /\ \A n \in S : Cardinality(S \ {n}) = Cardinality(S) - 1
         /\ \A n : n \notin S => Cardinality(S \cup {n}) = Cardinality(S) + 1
<1>1. IsFiniteSet(S)
  <2>1. IsFiniteSet(Nodes)
    BY FS_Interval, ListAssumption DEF Nodes
  <2> QED BY <2>1, FS_Subset
<1>2. Cardinality(S) \in Nat
  BY <1>1, FS_CardinalityType
<1>3. \A n \in S : Cardinality(S \ {n}) = Cardinality(S) - 1
  BY <1>1, FS_RemoveElement
<1>4. \A n : n \notin S => Cardinality(S \cup {n}) = Cardinality(S) + 1
  BY <1>1, FS_AddElement
<1> QED BY <1>2, <1>3, <1>4

\* remove_node takes n out of a list that is fit.
LEMMA RemoveFit ==
  ASSUME NEW A, NEW S, S \subseteq Nodes, NEW L \in Lists, NEW M, Fit(A, S, L, M),
         NEW n \in S, NEW p \in Nodes0, NEW b \in Nodes0
  PROVE  /\ Fit(A, S \ {n}, Result(L, n, p, b, Removal(L, n)), M)
         /\ Result(L, n, p, b, Removal(L, n)).next[n] = L.next[n]
<1> DEFINE R == Result(L, n, p, b, Removal(L, n))
           h == L.head
           f == L.foot
           nx == L.next
           pv == L.prev
<1>1. Ordered(A, S) /\ Links(A, S, h, f, nx, pv) /\ L.stray = {}
      /\ ("inserted" \notin M => L.count = Cardinality(S))
  BY ChainLinks DEF Fit
<1>2. Placed(A, S, h, f, nx, pv, n)
  BY <1>1, Place
<1>3. \A x \in S \ {n} : /\ nx[x] = n <=> h # n /\ pv[n] = x
                         /\ pv[x] = n <=> f # n /\ nx[n] = x
  BY <1>1, LinkedBack
<1>4. /\ nx \in [Nodes -> Nodes0] /\ pv \in [Nodes -> Nodes0] /\ n \in Nodes
      /\ L.count \in Int /\ NULL \notin Nodes
  BY NoNull DEF Lists
<1>0. n \in Nodes /\ L.stray = {}
  BY <1>1
<1>5. /\ Passing(S, n, h, f, nx, pv, R.head, R.foot, R.next, R.prev)
      /\ R.count = L.count - 1 /\ R.stray = {} /\ R.next[n] = nx[n]
  <2> USE DEF Passing
  <2>1. CASE h = n /\ f = n
    <3>1. R = Result(L, n, p, b, RemoveOnly)
      BY <2>1 DEF Removal
    <3> HIDE DEF R
    <3>2. /\ R.head = NULL /\ R.foot = NULL /\ R.count = L.count - 1 /\ R.stray = {}
          /\ R.next = nx /\ R.prev = pv
      BY <1>0, <3>1, RemoveOnlyResult
    <3> HIDE DEF h, f, nx, pv
    <3> QED BY <1>2, <2>1, <3>2 DEF Placed
  <2>2. CASE h = n /\ f # n
    <3>1. R = Result(L, n, p, b, RemoveHead)
      BY <2>2 DEF Removal
    <3>0. nx[n] \in Nodes
      BY <1>2, <2>2 DEF Placed
    <3> HIDE DEF R
    <3>2. /\ R.head = nx[n] /\ R.foot = f /\ R.count = L.count - 1 /\ R.stray = {}
          /\ R.next = nx /\ R.prev = [pv EXCEPT ![nx[n]] = NULL]
      BY <1>0, <3>0, <3>1, RemoveHeadResult
    <3> HIDE DEF h, f, nx, pv
    <3>3. pv[n] = NULL /\ \A x \in S \ {n} : nx[x] # n
      BY <1>2, <1>3, <2>2 DEF Placed
    <3>4. \A x \in S \ {n} : R.prev[x] = IF pv[x] = n THEN NULL ELSE pv[x]
      BY <1>3, <1>4, <2>2, <3>0, <3>2
    <3> QED BY <1>2, <2>2, <3>2, <3>3, <3>4
  <2>3. CASE h # n /\ f = n
    <3>1. R = Result(L, n, p, b, RemoveFoot)
      BY <2>3 DEF Removal
    <3>0. pv[n] \in Nodes /\ pv[n] # n
      BY <1>2, <2>3 DEF Placed
    <3> HIDE DEF R
    <3>2. /\ R.head = h /\ R.foot = pv[n] /\ R.count = L.count - 1 /\ R.stray = {}
          /\ R.next = [nx EXCEPT ![pv[n]] = NULL] /\ R.prev = pv
      BY <1>0, <3>0, <3>1, RemoveFootResult
    <3> HIDE DEF h, f, nx, pv
    <3>3. nx[n] = NULL /\ \A x \in S \ {n} : pv[x] # n
      BY <1>2, <1>3, <2>3 DEF Placed
    <3>4. \A x \in S \ {n} : R.next[x] = IF nx[x] = n THEN NULL ELSE nx[x]
      BY <1>3, <1>4, <2>3, <3>0, <3>2
    <3>5. R.next[n] = nx[n]
      BY <1>4, <3>0, <3>2
    <3> QED BY <1>2, <2>3, <3>2, <3>3, <3>4, <3>5
  <2>4. CASE h # n /\ f # n
    <3>1. R = Result(L, n, p, b, RemoveMiddle)
      BY <2>4 DEF Removal
    <3>0. pv[n] \in Nodes /\ pv[n] # n /\ nx[n] \in Nodes
      BY <1>2, <2>4 DEF Placed
    <3> HIDE DEF R
    <3>2. /\ R.head = h /\ R.foot = f /\ R.count = L.count - 1 /\ R.stray = {}
          /\ R.next = [nx EXCEPT ![pv[n]] = nx[n]] /\ R.prev = [pv EXCEPT ![nx[n]] = pv[n]]
      BY <1>0, <3>0, <3>1, RemoveMiddleResult
    <3> HIDE DEF h, f, nx, pv
    <3>3. \A x \in S \ {n} : R.prev[x] = IF pv[x] = n THEN pv[n] ELSE pv[x]
      BY <1>3, <1>4, <2>4, <3>0, <3>2
    <3>4. \A x \in S \ {n} : R.next[x] = IF nx[x] = n THEN nx[n] ELSE nx[x]
      BY <1>3, <1>4, <2>4, <3>0, <3>2
    <3>5. R.next[n] = nx[n]
      BY <1>4, <3>0, <3>2
    <3> QED BY <2>4, <3>2, <3>3, <3>4, <3>5
  <2> QED BY <2>1, <2>2, <2>3, <2>4
<1> HIDE DEF R, h, f, nx, pv
<1>6. Links(A, S \ {n}, R.head, R.foot, R.next, R.prev)
  BY <1>1, <1>5, PassOver
<1>7. Chain(A, S \ {n}, R)
  BY <1>6, ChainLinks
<1>8. Ordered(A, S \ {n})
  BY <1>1, OrderedPart
<1>9. "inserted" \notin M => R.count = Cardinality(S \ {n})
  BY <1>1, <1>5, Sizes
<1>10. Fit(A, S \ {n}, R, M) /\ R.next[n] = nx[n]
  BY <1>5, <1>7, <1>8, <1>9 DEF Fit
<1> QED BY <1>10 DEF R, nx

\* add_node appends n to a list that is fit.
LEMMA AddFit ==
  ASSUME NEW A, NEW S, S \subseteq Nodes, NEW L \in Lists, NEW M, Fit(A, S, L, M),
         NEW n \in Nodes, n \notin S, NEW p \in Nodes0, NEW b \in Nodes0,
         NEW B, B = (A \cap (S \X S)) \cup (S \X {n})
  PROVE  Fit(B, S \cup {n}, Result(L, n, p, b, Addition(L)), M)
<1> DEFINE R == Result(L, n, p, b, Addition(L))
           h == L.head
           f == L.foot
           nx == L.next
           pv == L.prev
<1>1. Ordered(A, S) /\ Links(A, S, h, f, nx, pv) /\ L.stray = {}
      /\ ("inserted" \notin M => L.count = Cardinality(S))
  BY ChainLinks DEF Fit
<1>2. Ordered(B, S \cup {n}) /\ Appended(A, B, S, n)
  BY <1>1, OrderedAppend
<1>3. /\ nx \in [Nodes -> Nodes0] /\ pv \in [Nodes -> Nodes0]
      /\ L.count \in Int /\ NULL \notin S
  BY NoNull DEF Lists
<1>4. Links(B, S \cup {n}, R.head, R.foot, R.next, R.prev) /\ R.count = L.count + 1 /\ R.stray = {}
  <2>1. CASE S = {}
    <3>1. h = NULL /\ f = NULL
      BY <1>1, <2>1 DEF Links, Starts, Ends
    <3>2. R = Result(L, n, p, b, AddToEmpty)
      BY <3>1 DEF Addition
    <3>3. /\ R.head = n /\ R.foot = n /\ R.count = L.count + 1 /\ R.stray = {}
          /\ R.next = [nx EXCEPT ![n] = NULL] /\ R.prev = [pv EXCEPT ![n] = NULL]
      BY <1>1, <3>2, AddToEmptyResult
    <3> HIDE DEF R, h, f, nx, pv
    <3>4. R.next[n] = NULL /\ R.prev[n] = NULL
      BY <1>3, <3>3
    <3>5. Links(B, {n}, n, n, R.next, R.prev)
      BY <1>2, <3>4, LinksFirst DEF Appended
    <3> QED BY <2>1, <3>3, <3>5
  <2>2. CASE S # {}
    <3>1. f \in S
      BY <1>1, <2>2 DEF Links, Ends
    <3>2. R = Result(L, n, p, b, AddToFoot)
      BY <1>3, <3>1 DEF Addition
    <3>3. /\ R.head = h /\ R.foot = n /\ R.count = L.count + 1 /\ R.stray = {}
          /\ R.next = [[nx EXCEPT ![f] = n] EXCEPT ![n] = NULL] /\ R.prev = [pv EXCEPT ![n] = f]
      BY <1>1, <3>1, <3>2, AddToFootResult
    <3> HIDE DEF R, h, f, nx, pv
    <3>4. Links(B, S \cup {n}, h, n, [[nx EXCEPT ![f] = n] EXCEPT ![n] = NULL],
                [pv EXCEPT ![n] = f])
      BY <1>1, <1>2, <1>3, <2>2, LinksAppend
    <3> QED BY <3>3, <3>4
  <2> QED BY <2>1, <2>2
<1> HIDE DEF R, h, f, nx, pv
<1>5. Chain(B, S \cup {n}, R)
  <2>1. S \cup {n} \subseteq Nodes
    OBVIOUS
  <2> QED BY <1>4, <2>1, ChainLinks
<1>6. "inserted" \notin M => R.count = Cardinality(S \cup {n})
  BY <1>1, <1>4, Sizes
<1>7. Fit(B, S \cup {n}, R, M)
  BY <1>2, <1>4, <1>5, <1>6 DEF Fit
<1> QED BY <1>7 DEF R

\* insert_node puts n before p, which is not the first, and does not count it.
LEMMA InsertFit ==
  ASSUME NEW A, NEW S, S \subseteq Nodes, NEW L \in Lists, NEW M, Fit(A, S, L, M),
         NEW n \in Nodes, n \notin S, NEW p \in S, p # L.head,
         NEW B, B = (A \cap (S \X S)) \cup (Before(A, p, S) \X {n})
                                      \cup ({n} \X ({p} \cup Behind(A, p, S))),
         NEW N, "inserted" \in N
  PROVE  Fit(B, S \cup {n}, Result(L, n, p, L.prev[p], Insert), N)
<1> DEFINE R == Result(L, n, p, L.prev[p], Insert)
           h == L.head
           f == L.foot
           nx == L.next
           pv == L.prev
<1>1. Ordered(A, S) /\ Links(A, S, h, f, nx, pv) /\ L.stray = {}
  BY ChainLinks DEF Fit
<1>2. Ordered(B, S \cup {n}) /\ Inserted(A, B, S, n, p)
  BY <1>1, OrderedInsert
<1>3. /\ nx \in [Nodes -> Nodes0] /\ pv \in [Nodes -> Nodes0]
  BY DEF Lists
<1>4. pv[p] \in Nodes /\ p \in Nodes /\ p \in Nodes0 /\ pv[p] \in Nodes0
  <2>1. Placed(A, S, h, f, nx, pv, p)
    BY <1>1, Place
  <2> QED BY <2>1 DEF Placed, Nodes0
<1>5. /\ R.head = h /\ R.foot = f /\ R.stray = {}
      /\ R.next = [[nx EXCEPT ![n] = p] EXCEPT ![pv[p]] = n]
      /\ R.prev = [[pv EXCEPT ![p] = n] EXCEPT ![n] = pv[p]]
  BY <1>1, <1>4, InsertResult
<1> HIDE DEF R, nx, pv, f
<1>6. Links(B, S \cup {n}, h, f, [[nx EXCEPT ![n] = p] EXCEPT ![pv[p]] = n],
            [[pv EXCEPT ![p] = n] EXCEPT ![n] = pv[p]])
  BY <1>1, <1>2, <1>3, LinksInsert
<1>7. Chain(B, S \cup {n}, R)
  <2>1. S \cup {n} \subseteq Nodes
    OBVIOUS
  <2>2. Links(B, S \cup {n}, R.head, R.foot, R.next, R.prev)
    BY <1>5, <1>6
  <2> QED BY <2>1, <2>2, ChainLinks
<1>8. Fit(B, S \cup {n}, R, N)
  BY <1>2, <1>5, <1>7 DEF Fit
<1> QED BY <1>8 DEF R
-----------------------------------------------------------------------------
(* LinkedList: types *)

LEMMA NowType == ASSUME ListTypeOK PROVE Now \in Lists
BY DEF ListTypeOK, Now, Lists, Nodes0

\* A store has the effect it should.
LEMMA StoreNow ==
  ASSUME ListTypeOK, NEW a \in Users, Store(a)
  PROVE  /\ todo[a] \in Seq(Stores) /\ todo[a] # <<>> /\ todo[a][1] \in Stores
         /\ Now' = Effect(Now, node[a], pos[a], before[a], todo[a][1])
<1> DEFINE s == todo[a][1]
           E == Effect(Now, node[a], pos[a], before[a], s)
           d == Meaning(Now, node[a], pos[a], before[a], s[2])
           v == Meaning(Now, node[a], pos[a], before[a], s[3])
           st == mishaps \cap {"stray"}
<1>1. todo[a] \in Seq(Stores) /\ todo[a] # <<>>
  BY DEF ListTypeOK, Store
<1>2. s \in Stores
  <2>1. Len(todo[a]) \in Nat \ {0}
    BY <1>1, EmptySeq, Zenon
  <2>2. 1 \in 1 .. Len(todo[a])
    BY <2>1
  <2> QED BY <1>1, <2>2, ElementOfSeq
<1>3. \A e \in Fields : Value(a, e) = Meaning(Now, node[a], pos[a], before[a], e)
  BY DEF Value, Meaning, Now, Fields
<1> HIDE DEF s
<1>4. /\ IF Stray(a, s) THEN UNCHANGED list
         ELSE IF s[1] \in {"next", "prev"} THEN StoreNode(a, s) ELSE StoreList(a, s)
      /\ mishaps' = mishaps \cup (IF Stray(a, s) THEN {"stray"} ELSE {})
  BY DEF Store, s
<1>5. Now' = ListOf(head', foot', count', next', prev', mishaps' \cap {"stray"})
  BY DEF Now, ListOf
<1>6. Now = ListOf(head, foot, count, next, prev, st)
  BY DEF Now, ListOf
<1>7. /\ s[1] \in {"head", "foot", "count"} => ~Stray(a, s)
      /\ s[1] \in {"head", "foot", "next", "prev"} => s[2] \in Fields /\ Value(a, s[2]) = d
      /\ s[1] \in {"next", "prev"} => Value(a, s[3]) = v /\ (Stray(a, s) <=> d = NULL)
      /\ s[1] \in {"head", "foot", "count", "next", "prev"}
  BY <1>2, <1>3, StoreKinds DEF Stray
<1> HIDE DEF E, d, v, st
<1>8. E = Now'
  <2>1. CASE s[1] = "head"
    <3>1. E = ListOf(d, foot, count, next, prev, st)
      BY <1>2, <1>6, <2>1, NowType, EffectFields DEF E, d, v, ListOf
    <3>2. head' = d /\ UNCHANGED <<foot, count, next, prev>> /\ mishaps' = mishaps
      BY <1>4, <1>7, <2>1 DEF StoreList
    <3>3. mishaps' \cap {"stray"} = st
      BY <3>2 DEF st
    <3> QED BY <1>5, <3>1, <3>2, <3>3
  <2>2. CASE s[1] = "foot"
    <3>1. E = ListOf(head, d, count, next, prev, st)
      BY <1>2, <1>6, <2>2, NowType, EffectFields DEF E, d, v, ListOf
    <3>2. foot' = d /\ UNCHANGED <<head, count, next, prev>> /\ mishaps' = mishaps
      BY <1>4, <1>7, <2>2 DEF StoreList
    <3>3. mishaps' \cap {"stray"} = st
      BY <3>2 DEF st
    <3> QED BY <1>5, <3>1, <3>2, <3>3
  <2>3. CASE s[1] = "count"
    <3>1. E = ListOf(head, foot, count + s[2], next, prev, st)
      BY <1>2, <1>6, <2>3, NowType, EffectFields DEF E, d, v, ListOf
    <3>2. count' = count + s[2] /\ UNCHANGED <<head, foot, next, prev>> /\ mishaps' = mishaps
      BY <1>4, <1>7, <2>3 DEF StoreList
    <3>3. mishaps' \cap {"stray"} = st
      BY <3>2 DEF st
    <3> QED BY <1>5, <3>1, <3>2, <3>3
  <2>4. CASE s[1] \in {"next", "prev"} /\ d = NULL
    <3>1. E = ListOf(head, foot, count, next, prev, {"stray"})
      BY <1>2, <1>6, <2>4, NowType, EffectFields DEF E, d, v, ListOf
    <3>2. UNCHANGED <<head, foot, count, next, prev>> /\ mishaps' = mishaps \cup {"stray"}
      BY <1>4, <1>7, <2>4 DEF list
    <3>3. mishaps' \cap {"stray"} = {"stray"}
      BY <3>2
    <3> QED BY <1>5, <3>1, <3>2, <3>3
  <2>5. CASE s[1] = "next" /\ d # NULL
    <3>1. E = ListOf(head, foot, count, [next EXCEPT ![d] = v], prev, st)
      BY <1>2, <1>6, <2>5, NowType, EffectFields DEF E, d, v, ListOf
    <3>2. next' = [next EXCEPT ![d] = v] /\ UNCHANGED <<head, foot, count, prev>> /\ mishaps' = mishaps
      BY <1>4, <1>7, <2>5 DEF StoreNode
    <3>3. mishaps' \cap {"stray"} = st
      BY <3>2 DEF st
    <3> QED BY <1>5, <3>1, <3>2, <3>3
  <2>6. CASE s[1] = "prev" /\ d # NULL
    <3>1. E = ListOf(head, foot, count, next, [prev EXCEPT ![d] = v], st)
      BY <1>2, <1>6, <2>6, NowType, EffectFields DEF E, d, v, ListOf
    <3>2. prev' = [prev EXCEPT ![d] = v] /\ UNCHANGED <<head, foot, count, next>> /\ mishaps' = mishaps
      BY <1>4, <1>7, <2>6 DEF StoreNode
    <3>3. mishaps' \cap {"stray"} = st
      BY <3>2 DEF st
    <3> QED BY <1>5, <3>1, <3>2, <3>3
  <2> QED BY <1>7, <2>1, <2>2, <2>3, <2>4, <2>5, <2>6
<1> QED BY <1>1, <1>2, <1>8 DEF s, E

LEMMA StoreTyped ==
  ASSUME ListTypeOK, Sane, NEW a \in Users, Store(a)
  PROVE  ListTypeOK' /\ Sane'
<1>1. /\ node[a] \in Nodes /\ pos[a] \in Nodes0 /\ before[a] \in Nodes0
      /\ todo[a] \in Seq(Stores) /\ todo[a] # <<>> /\ Len(todo[a]) <= 5
  BY StoreNow DEF ListTypeOK, Sane, Nodes0
<1>2. Now' \in Lists
  BY <1>1, StoreNow, NowType, EffectType
<1>3. /\ head' \in Nodes0 /\ foot' \in Nodes0 /\ count' \in Int
      /\ next' \in [Nodes -> Nodes0] /\ prev' \in [Nodes -> Nodes0]
  BY <1>2 DEF Now, Lists
<1>4. Tail(todo[a]) \in Seq(Stores) /\ Len(Tail(todo[a])) <= 5
  BY <1>1
<1>5. todo' = [todo EXCEPT ![a] = Tail(todo[a])] /\ UNCHANGED <<listed, node, pos, before, walk, ahead>>
      /\ mishaps' \subseteq mishaps \cup {"stray"}
  BY DEF Store
<1>6. todo \in [Users -> Seq(Stores)]
  BY DEF ListTypeOK
<1>7. todo' \in [Users -> Seq(Stores)] /\ Sane'
  BY <1>1, <1>4, <1>5, <1>6 DEF Sane
<1> QED BY <1>3, <1>5, <1>7 DEF ListTypeOK, Nodes0

\* An operation begins with a node and a program.
LEMMA BeginTyped ==
  ASSUME ListTypeOK, Sane, NEW a \in Users, NEW n \in Nodes0, NEW P \in Seq(Stores), Len(P) <= 5,
         P # <<>> => n \in Nodes, Begin(a, n, P)
  PROVE  /\ node' \in [Users -> Nodes0] /\ todo' \in [Users -> Seq(Stores)] /\ Sane'
         /\ node'[a] = n /\ todo'[a] = P
         /\ \A b \in Users \ {a} : node'[b] = node[b] /\ todo'[b] = todo[b]
<1>1. node \in [Users -> Nodes0] /\ todo \in [Users -> Seq(Stores)]
  BY DEF ListTypeOK, Nodes0
<1> QED BY <1>1 DEF Begin, Sane

LEMMA ProgramTypes ==
  /\ AddProgram \in Seq(Stores) /\ Len(AddProgram) <= 5 /\ AddProgram = Addition(Now)
  /\ UnshiftProgram \in Seq(Stores) /\ Len(UnshiftProgram) <= 5
  /\ \A n : /\ RemoveProgram(n) \in Seq(Stores) /\ Len(RemoveProgram(n)) <= 5
            /\ RemoveProgram(n) = Removal(Now, n)
<1>1. AddProgram \in Seq(Stores) /\ Len(AddProgram) <= 5
  BY Programs DEF AddProgram
<1>2. UnshiftProgram \in Seq(Stores) /\ Len(UnshiftProgram) <= 5
  BY Programs DEF UnshiftProgram
<1>3. ASSUME NEW n
      PROVE  RemoveProgram(n) \in Seq(Stores) /\ Len(RemoveProgram(n)) <= 5
  BY Programs DEF RemoveProgram
<1>4. Now.head = head /\ Now.foot = foot
  BY DEF Now
<1>5. AddProgram = Addition(Now) /\ \A n : RemoveProgram(n) = Removal(Now, n)
  BY <1>4 DEF AddProgram, Addition, RemoveProgram, Removal
<1> QED BY <1>1, <1>2, <1>3, <1>5

\* Every step keeps the types.
LEMMA ListTypeStep ==
  ASSUME ListTypeOK, Sane, [ListNext]_listVars
  PROVE  ListTypeOK' /\ Sane'
<1>0. CASE UNCHANGED listVars
  BY <1>0 DEF listVars, list, ListTypeOK, Sane
<1> SUFFICES ASSUME ListNext PROVE ListTypeOK' /\ Sane'
  BY <1>0
<1> PICK a \in Users :
      \/ Store(a) \/ Walk(a)
      \/ \E n \in Nodes : add_node(a, n) \/ unshift_node(a, n) \/ remove_node(a, n)
      \/ shift_node(a) \/ pop_node(a)
      \/ \E n, p \in Nodes : insert_node(a, p, n)
      \/ \E N \in SUBSET Nodes : sweep(a, N)
  BY DEF ListNext
<1>1. CASE Store(a)
  BY <1>1, StoreTyped
<1>2. CASE Walk(a)
  <2> DEFINE n == Following(node[a])
  <2>1. n \in Nodes0
    BY <1>2 DEF Walk, Following, ListTypeOK, Nodes0
  <2>2. node' \in [Users -> Nodes0] /\ todo' \in [Users -> Seq(Stores)] /\ Sane'
    <3>1. CASE n = NULL
      BY <1>2, <2>1, <3>1, BeginTyped, Programs DEF Walk
    <3>2. CASE n # NULL
      <4>1. n \in Nodes
        BY <2>1, <3>2 DEF Nodes0
      <4>2. PICK P \in Seq(Stores) : Len(P) <= 5 /\ Begin(a, n, P)
        BY <1>2, <3>2, ProgramTypes, Programs DEF Walk
      <4> QED BY <2>1, <4>1, <4>2, BeginTyped
    <3> QED BY <3>1, <3>2
  <2>3. walk' \in [Users -> SUBSET (Nodes \cup {NULL})]
    BY <1>2 DEF Walk, ListTypeOK
  <2> QED BY <1>2, <2>2, <2>3 DEF Walk, ListTypeOK, Nodes0, list
<1>3. ASSUME NEW n \in Nodes, add_node(a, n)
      PROVE  ListTypeOK' /\ Sane'
  <2>1. node' \in [Users -> Nodes0] /\ todo' \in [Users -> Seq(Stores)] /\ Sane'
    BY <1>3, BeginTyped, ProgramTypes DEF add_node, Nodes0
  <2>2. ahead' \subseteq Nodes \X Nodes
    BY <1>3 DEF add_node, Kept, ListTypeOK
  <2>3. mishaps' \subseteq {"torn", "unshifted", "inserted", "stray"}
    BY <1>3 DEF add_node, Torn, ListTypeOK
  <2> QED BY <1>3, <2>1, <2>2, <2>3 DEF add_node, ListTypeOK, Nodes0, list
<1>4. ASSUME NEW n \in Nodes, unshift_node(a, n)
      PROVE  ListTypeOK' /\ Sane'
  <2>1. node' \in [Users -> Nodes0] /\ todo' \in [Users -> Seq(Stores)] /\ Sane'
    BY <1>4, BeginTyped, ProgramTypes DEF unshift_node, Nodes0
  <2>2. ahead' \subseteq Nodes \X Nodes
    BY <1>4 DEF unshift_node, Kept, ListTypeOK
  <2>3. mishaps' \subseteq {"torn", "unshifted", "inserted", "stray"}
    BY <1>4 DEF unshift_node, Torn, ListTypeOK
  <2> QED BY <1>4, <2>1, <2>2, <2>3 DEF unshift_node, ListTypeOK, Nodes0, list
<1>5. ASSUME NEW n, remove_node(a, n)
      PROVE  ListTypeOK' /\ Sane'
  <2>0. n \in Nodes /\ n \in Nodes0
    BY <1>5 DEF remove_node, ListTypeOK, Nodes0
  <2>1. node' \in [Users -> Nodes0] /\ todo' \in [Users -> Seq(Stores)] /\ Sane'
    <3>1. RemoveProgram(n) \in Seq(Stores) /\ Len(RemoveProgram(n)) <= 5 /\ Begin(a, n, RemoveProgram(n))
      BY <1>5, ProgramTypes DEF remove_node
    <3> QED BY <2>0, <3>1, BeginTyped
  <2>3. mishaps' \subseteq {"torn", "unshifted", "inserted", "stray"}
    BY <1>5 DEF remove_node, Torn, ListTypeOK
  <2> QED BY <1>5, <2>1, <2>3 DEF remove_node, ListTypeOK, Nodes0, list
<1>6. ASSUME NEW n \in Nodes, NEW p \in Nodes, insert_node(a, p, n)
      PROVE  ListTypeOK' /\ Sane'
  <2>1. node' \in [Users -> Nodes0] /\ todo' \in [Users -> Seq(Stores)] /\ Sane'
    BY <1>6, BeginTyped, Programs DEF insert_node, Nodes0
  <2>2. ahead' \subseteq Nodes \X Nodes
    BY <1>6 DEF insert_node, Kept, Before, Behind, ListTypeOK
  <2>3. mishaps' \subseteq {"torn", "unshifted", "inserted", "stray"}
    BY <1>6 DEF insert_node, Torn, ListTypeOK
  <2>4. /\ pos' \in [Users -> Nodes \cup {NULL}] /\ before' \in [Users -> Nodes \cup {NULL}]
        /\ listed' \subseteq Nodes
    BY <1>6 DEF insert_node, ListTypeOK
  <2> QED BY <1>6, <2>1, <2>2, <2>3, <2>4 DEF insert_node, ListTypeOK, Nodes0, list
<1>7. ASSUME NEW N \in SUBSET Nodes, sweep(a, N)
      PROVE  ListTypeOK' /\ Sane'
  <2>0. head \in Nodes /\ head \in Nodes0
    BY <1>7 DEF sweep, ListTypeOK, Nodes0
  <2>1. node' \in [Users -> Nodes0] /\ todo' \in [Users -> Seq(Stores)] /\ Sane'
    <3>1. PICK P \in Seq(Stores) : Len(P) <= 5 /\ Begin(a, head, P)
      BY <1>7, ProgramTypes, Programs DEF sweep
    <3> QED BY <2>0, <3>1, BeginTyped
  <2>2. walk' \in [Users -> SUBSET (Nodes \cup {NULL})]
    BY <1>7 DEF sweep, ListTypeOK
  <2>3. mishaps' \subseteq {"torn", "unshifted", "inserted", "stray"}
    BY <1>7 DEF sweep, Torn, ListTypeOK
  <2> QED BY <1>7, <2>1, <2>2, <2>3 DEF sweep, ListTypeOK, Nodes0, list
<1> QED BY <1>1, <1>2, <1>3, <1>4, <1>5, <1>6, <1>7 DEF shift_node, pop_node
-----------------------------------------------------------------------------
(* LinkedList: steps *)

\* More may have been inserted.
LEMMA FitLater ==
  ASSUME NEW A, NEW S, NEW L, NEW M, NEW N, Fit(A, S, L, M), M \subseteq N
  PROVE  Fit(A, S, L, N)
BY DEF Fit

\* If no other user is at work after a step, it is enough to look at one.
LEMMA Closing ==
  ASSUME NEW a \in Users, \A b \in Users \ {a} : ~Busy(b)', Going(a)'
  PROVE  Shape'
<1>1. Alone'
  BY DEF Alone
<1>2. ASSUME Quiet' PROVE Fit(ahead, listed, Now, mishaps)'
  <2>1. todo'[a] = <<>> /\ walk'[a] = {}
    BY <1>2 DEF Quiet, Busy
  <2>2. Future(a)' = Now'
    BY <2>1, ResultNone DEF Future
  <2>3. Holding(a)' = listed'
    BY <2>1 DEF Holding
  <2> QED BY <2>2, <2>3 DEF Going
<1>3. \A b \in Users : Busy(b)' => Going(b)'
  OBVIOUS
<1> QED BY <1>1, <1>2, <1>3 DEF Shape

\* No store has gone astray.
LEMMA ShapeNoStray ==
  ASSUME ListTypeOK, Sane, Shape
  PROVE  "stray" \notin mishaps
<1>1. Now.stray = {}
  <2>1. CASE Quiet
    BY <2>1 DEF Shape, Fit
  <2>2. CASE ~Quiet
    <3>1. PICK a \in Users : Busy(a)
      BY <2>2 DEF Quiet
    <3>2. Future(a).stray = {}
      BY <3>1 DEF Shape, Going, Fit
    <3>3. CASE todo[a] = <<>>
      BY <3>2, <3>3, ResultNone DEF Future
    <3>4. CASE todo[a] # <<>>
      <4>1. node[a] \in Nodes /\ pos[a] \in Nodes0 /\ before[a] \in Nodes0 /\ todo[a] \in Seq(Stores)
        BY <3>4 DEF Sane, ListTypeOK, Nodes0
      <4> QED BY <3>2, <4>1, NowType, ResultType DEF Future
    <3> QED BY <3>3, <3>4
  <2> QED BY <2>1, <2>2
<1>2. mishaps \cap {"stray"} = {}
  BY <1>1 DEF Now
<1> QED BY <1>2

\* An operation that begins, and does not overlap another, finds a list that is
\* fit, and is the only one at work.
LEMMA Opening ==
  ASSUME ListTypeOK, Plain => Shape, NEW a \in Users, ~Busy(a), NEW X, "stray" \notin X,
         mishaps' = mishaps \cup Torn(a) \cup X, Plain', UNCHANGED list,
         \A b \in Users \ {a} : todo'[b] = todo[b] /\ walk'[b] = walk[b]
  PROVE  /\ Now' = Now /\ Fit(ahead, listed, Now, mishaps) /\ Quiet /\ mishaps' = mishaps \cup X
         /\ \A b \in Users \ {a} : ~Busy(b)'
<1>1. Plain /\ Torn(a) = {}
  BY DEF Plain, Torn
<1>2. \A b \in Users \ {a} : ~Busy(b)
  BY <1>1 DEF Torn
<1>3. Quiet
  BY <1>2 DEF Quiet
<1>4. Fit(ahead, listed, Now, mishaps)
  BY <1>1, <1>3 DEF Shape
<1>5. mishaps' = mishaps \cup X
  BY <1>1
<1>6. mishaps' \cap {"stray"} = mishaps \cap {"stray"}
  BY <1>5
<1>7. Now' = Now
  BY <1>6 DEF Now, list
<1>8. \A b \in Users \ {a} : ~Busy(b)'
  BY <1>2 DEF Busy
<1> QED BY <1>3, <1>4, <1>5, <1>7, <1>8

\* What a user without a walk has to show.
LEMMA ClosingOnce ==
  ASSUME NEW a \in Users, \A b \in Users \ {a} : ~Busy(b)', walk'[a] = {},
         Fit(ahead', listed', Result(Now', node'[a], pos'[a], before'[a], todo'[a]), mishaps')
  PROVE  Shape'
<1>1. Holding(a)' = listed' /\ Future(a)' = Result(Now', node'[a], pos'[a], before'[a], todo'[a])
  BY DEF Holding, Future
<1>2. Going(a)'
  BY <1>1 DEF Going, March
<1> QED BY <1>2, Closing

LEMMA RemoveShape ==
  ASSUME ListTypeOK, Sane, Plain => Shape, Plain', NEW a \in Users, NEW n, remove_node(a, n)
  PROVE  Shape'
<1>1. n \in listed /\ n \in Nodes /\ n \in Nodes0 /\ ~Busy(a) /\ walk[a] = {} /\ listed \subseteq Nodes
  BY DEF remove_node, ListTypeOK, Nodes0, Busy
<1>2. /\ node'[a] = n /\ todo'[a] = RemoveProgram(n)
      /\ \A b \in Users \ {a} : node'[b] = node[b] /\ todo'[b] = todo[b]
  BY <1>1, BeginTyped, ProgramTypes DEF remove_node
<1>3. /\ Now' = Now /\ Fit(ahead, listed, Now, mishaps) /\ mishaps' = mishaps
      /\ \A b \in Users \ {a} : ~Busy(b)'
  <2>1. mishaps' = mishaps \cup Torn(a) \cup {} /\ UNCHANGED <<list, walk>>
    BY DEF remove_node
  <2> QED BY <1>1, <1>2, <2>1, Opening
<1>4. pos[a] \in Nodes0 /\ before[a] \in Nodes0
  BY DEF ListTypeOK, Nodes0
<1>5. Fit(ahead, listed \ {n}, Result(Now, n, pos[a], before[a], Removal(Now, n)), mishaps)
  BY <1>1, <1>3, <1>4, NowType, RemoveFit
<1>6. /\ ahead' = ahead /\ listed' = listed \ {n} /\ walk'[a] = {}
      /\ pos' = pos /\ before' = before /\ todo'[a] = Removal(Now, n)
  BY <1>1, <1>2, ProgramTypes DEF remove_node
<1> QED BY <1>2, <1>3, <1>5, <1>6, ClosingOnce

LEMMA AddShape ==
  ASSUME ListTypeOK, Sane, Plain => Shape, Plain', NEW a \in Users, NEW n \in Nodes, add_node(a, n)
  PROVE  Shape'
<1>1. n \notin listed /\ n \in Nodes0 /\ ~Busy(a) /\ walk[a] = {} /\ listed \subseteq Nodes
  BY DEF add_node, Free, ListTypeOK, Nodes0, Busy
<1>2. /\ node'[a] = n /\ todo'[a] = AddProgram
      /\ \A b \in Users \ {a} : node'[b] = node[b] /\ todo'[b] = todo[b]
  BY <1>1, BeginTyped, ProgramTypes DEF add_node
<1>3. /\ Now' = Now /\ Fit(ahead, listed, Now, mishaps) /\ mishaps' = mishaps
      /\ \A b \in Users \ {a} : ~Busy(b)'
  <2>1. mishaps' = mishaps \cup Torn(a) \cup {} /\ UNCHANGED <<list, walk>>
    BY DEF add_node
  <2> QED BY <1>1, <1>2, <2>1, Opening
<1>4. pos[a] \in Nodes0 /\ before[a] \in Nodes0
  BY DEF ListTypeOK, Nodes0
<1>5. ahead' = (ahead \cap (listed \X listed)) \cup (listed \X {n})
  BY DEF add_node, Kept
<1>6. Fit(ahead', listed \cup {n}, Result(Now, n, pos[a], before[a], Addition(Now)), mishaps)
  BY <1>1, <1>3, <1>4, <1>5, NowType, AddFit
<1>7. /\ listed' = listed \cup {n} /\ walk'[a] = {}
      /\ pos' = pos /\ before' = before /\ todo'[a] = Addition(Now)
  BY <1>1, <1>2, ProgramTypes DEF add_node
<1> QED BY <1>2, <1>3, <1>6, <1>7, ClosingOnce

\* unshift_node, for an empty list.
LEMMA UnshiftShape ==
  ASSUME ListTypeOK, Sane, Plain => Shape, Plain', NEW a \in Users, NEW n \in Nodes,
         unshift_node(a, n)
  PROVE  Shape'
<1>1. n \notin listed /\ n \in Nodes0 /\ ~Busy(a) /\ walk[a] = {} /\ listed \subseteq Nodes
  BY DEF unshift_node, Free, ListTypeOK, Nodes0, Busy
<1>2. /\ node'[a] = n /\ todo'[a] = UnshiftProgram
      /\ \A b \in Users \ {a} : node'[b] = node[b] /\ todo'[b] = todo[b]
  BY <1>1, BeginTyped, ProgramTypes DEF unshift_node
<1>3. UnshiftProgram # Unshift
  BY DEF unshift_node, Plain
<1>4. head = NULL /\ foot = NULL /\ UnshiftProgram = AddToEmpty
  BY <1>3 DEF UnshiftProgram
<1>5. /\ Now' = Now /\ Fit(ahead, listed, Now, mishaps) /\ mishaps' = mishaps
      /\ \A b \in Users \ {a} : ~Busy(b)'
  <2>1. mishaps' = mishaps \cup Torn(a) \cup {} /\ UNCHANGED <<list, walk>>
    BY <1>3 DEF unshift_node
  <2> QED BY <1>1, <1>2, <2>1, Opening
<1>6. pos[a] \in Nodes0 /\ before[a] \in Nodes0
  BY DEF ListTypeOK, Nodes0
<1>7. Now.head = NULL /\ Now.foot = NULL
  BY <1>4 DEF Now
<1>8. listed = {}
  BY <1>1, <1>5, <1>7, NoNull DEF Fit, Chain, IsFirst
<1>9. ahead' = (ahead \cap (listed \X listed)) \cup (listed \X {n})
  BY <1>8 DEF unshift_node, Kept
<1>10. Fit(ahead', listed \cup {n}, Result(Now, n, pos[a], before[a], Addition(Now)), mishaps)
  BY <1>1, <1>5, <1>6, <1>9, NowType, AddFit
<1>11. Addition(Now) = AddToEmpty
  BY <1>7 DEF Addition
<1>12. /\ listed' = listed \cup {n} /\ walk'[a] = {}
       /\ pos' = pos /\ before' = before /\ todo'[a] = Addition(Now)
  BY <1>1, <1>2, <1>4, <1>11 DEF unshift_node
<1> QED BY <1>2, <1>5, <1>10, <1>12, ClosingOnce

LEMMA InsertShape ==
  ASSUME ListTypeOK, Sane, Plain => Shape, Plain', NEW a \in Users, NEW n \in Nodes, NEW p \in Nodes,
         insert_node(a, p, n)
  PROVE  Shape'
<1>1. /\ n \notin listed /\ n \in Nodes0 /\ ~Busy(a) /\ walk[a] = {} /\ listed \subseteq Nodes
      /\ p \in listed /\ p # head
  BY DEF insert_node, Free, ListTypeOK, Nodes0, Busy
<1>2. /\ node'[a] = n /\ todo'[a] = Insert
      /\ \A b \in Users \ {a} : node'[b] = node[b] /\ todo'[b] = todo[b]
  BY <1>1, BeginTyped, Programs DEF insert_node
<1>3. /\ Now' = Now /\ Fit(ahead, listed, Now, mishaps) /\ mishaps' = mishaps \cup {"inserted"}
      /\ \A b \in Users \ {a} : ~Busy(b)'
  <2>1. mishaps' = mishaps \cup Torn(a) \cup {"inserted"} /\ UNCHANGED <<list, walk>>
    BY DEF insert_node
  <2> QED BY <1>1, <1>2, <2>1, Opening
<1>4. Now.head = head /\ Now.prev = prev
  BY DEF Now
<1>5. ahead' = (ahead \cap (listed \X listed)) \cup (Before(ahead, p, listed) \X {n})
                 \cup ({n} \X ({p} \cup Behind(ahead, p, listed)))
  BY DEF insert_node, Kept
<1>6. Fit(ahead', listed \cup {n}, Result(Now, n, p, prev[p], Insert), mishaps')
  <2>1. "inserted" \in mishaps' /\ p # Now.head
    BY <1>1, <1>3, <1>4
  <2>2. Fit(ahead', listed \cup {n}, Result(Now, n, p, Now.prev[p], Insert), mishaps')
    BY <1>1, <1>3, <1>5, <2>1, NowType, InsertFit
  <2> QED BY <1>4, <2>2
<1>7. pos \in [Users -> Nodes \cup {NULL}] /\ before \in [Users -> Nodes \cup {NULL}]
  BY DEF ListTypeOK
<1>8. listed' = listed \cup {n} /\ walk'[a] = {} /\ pos'[a] = p /\ before'[a] = prev[p]
  BY <1>1, <1>7 DEF insert_node
<1> QED BY <1>2, <1>3, <1>6, <1>8, ClosingOnce

LEMMA StoreShape ==
  ASSUME ListTypeOK, Sane, Plain => Shape, Plain', NEW a \in Users, Store(a)
  PROVE  Shape'
<1>1. /\ todo[a] \in Seq(Stores) /\ todo[a] # <<>> /\ Len(todo[a]) <= 5
      /\ Now' = Effect(Now, node[a], pos[a], before[a], todo[a][1])
  BY StoreNow DEF Sane
<1>2. /\ todo' = [todo EXCEPT ![a] = Tail(todo[a])] /\ mishaps \subseteq mishaps'
      /\ UNCHANGED <<listed, node, pos, before, walk, ahead>>
  BY DEF Store
<1>3. Plain /\ Busy(a)
  BY <1>1, <1>2 DEF Plain, Busy
<1>4. Going(a) /\ \A b \in Users \ {a} : ~Busy(b)
  BY <1>3 DEF Shape, Alone
<1>5. todo'[a] = Tail(todo[a]) /\ \A b \in Users \ {a} : todo'[b] = todo[b]
  BY <1>2 DEF ListTypeOK
<1>6. Future(a)' = Future(a)
  <2>1. Future(a)' = Result(Now', node[a], pos[a], before[a], Tail(todo[a]))
    BY <1>2, <1>5 DEF Future
  <2> QED BY <1>1, <2>1, ResultTail DEF Future
<1>7. Holding(a)' = Holding(a)
  BY <1>2 DEF Holding
<1>8. Fit(ahead, Holding(a), Future(a), mishaps')
  BY <1>2, <1>4, FitLater DEF Going
<1>9. Going(a)'
  BY <1>2, <1>4, <1>6, <1>7, <1>8 DEF Going
<1>10. \A b \in Users \ {a} : ~Busy(b)'
  BY <1>2, <1>4, <1>5 DEF Busy
<1> QED BY <1>9, <1>10, Closing

\* A walk over the list L of S that has come to n, with w ahead of it: n is taken
\* out if it is in w.
LEMMA MarchOn ==
  ASSUME NEW A, NEW S, S \subseteq Nodes, NEW L \in Lists, NEW M, Fit(A, S, L, M), NEW n \in S,
         NEW p \in Nodes0, NEW b \in Nodes0, NEW w, NULL \in w,
         \A m \in w \ {NULL} : m = n \/ <<n, m>> \in A
  PROVE  /\ n \notin w => March(A, S, L, w \ {n}, n)
         /\ n \in w => LET R == Result(L, n, p, b, Removal(L, n)) IN
              Fit(A, S \ {n}, R, M) /\ March(A, S \ {n}, R, w \ {n}, n)
<1> DEFINE R == Result(L, n, p, b, Removal(L, n))
<1>1. Links(A, S, L.head, L.foot, L.next, L.prev) /\ <<n, n>> \notin A
  BY ChainLinks DEF Fit, Ordered
<1>2. Follows(A, n, L.next[n], S)
  BY <1>1 DEF Links
<1>3. Follows(A, n, L.next[n], S \ {n})
  BY <1>1, <1>2 DEF Follows
<1>4. n # NULL /\ n \in Nodes
  BY NoNull
<1>5. March(A, S, L, w \ {n}, n)
  BY <1>2, <1>4 DEF March
<1>6. Fit(A, S \ {n}, R, M) /\ R.next[n] = L.next[n]
  BY RemoveFit
<1> HIDE DEF R
<1>7. March(A, S \ {n}, R, w \ {n}, n)
  BY <1>3, <1>4, <1>6 DEF March
<1> QED BY <1>5, <1>6, <1>7 DEF R

LEMMA WalkShape ==
  ASSUME ListTypeOK, Sane, Plain => Shape, Plain', NEW a \in Users, Walk(a)
  PROVE  Shape'
<1> DEFINE n == next[node[a]]
           C == Holding(a)
           w == walk[a]
<1>1. /\ w # {} /\ todo[a] = <<>> /\ UNCHANGED <<list, listed, pos, before, ahead, mishaps>>
      /\ w \subseteq Nodes \cup {NULL} /\ listed \subseteq Nodes /\ NULL \notin Nodes
      /\ pos[a] \in Nodes0 /\ before[a] \in Nodes0
  BY NoNull DEF Walk, ListTypeOK, Nodes0
<1>2. Plain /\ Busy(a)
  BY <1>1 DEF Plain, Busy
<1>3. Going(a) /\ \A b \in Users \ {a} : ~Busy(b)
  BY <1>2 DEF Shape, Alone
<1>4. Future(a) = Now /\ Now.next = next
  BY <1>1, ResultNone DEF Future, Now
<1>5. Now' = Now
  BY <1>1 DEF Now, list
<1>6. /\ Fit(ahead, C, Now, mishaps) /\ NULL \in w /\ node[a] \in Nodes /\ w \cap listed = {}
      /\ Follows(ahead, node[a], n, C) /\ \A m \in w \ {NULL} : <<node[a], m>> \in ahead
  BY <1>1, <1>3, <1>4 DEF Going, March
<1>7. C = listed \cup (w \ {NULL}) /\ C \subseteq Nodes
  BY <1>1 DEF Holding
<1>8. n \in Nodes0
  BY <1>6 DEF ListTypeOK, Nodes0
<1>9. CASE n = NULL
  <2>1. walk' = [walk EXCEPT ![a] = {}] /\ Begin(a, NULL, <<>>)
    BY <1>9 DEF Walk, Following
  <2>2. w = {NULL}
    BY <1>1, <1>6, <1>7, <1>9 DEF Follows
  <2>3. C = listed
    BY <1>7, <2>2
  <2>4. walk'[a] = {} /\ \A b \in Users \ {a} : walk'[b] = walk[b]
    BY <2>1 DEF ListTypeOK
  <2>5. todo'[a] = <<>> /\ \A b \in Users \ {a} : todo'[b] = todo[b]
    BY <2>1, BeginTyped, Programs DEF Nodes0
  <2>6. Result(Now', node'[a], pos'[a], before'[a], todo'[a]) = Now
    BY <1>5, <2>5, ResultNone
  <2>7. Fit(ahead', listed', Now, mishaps')
    BY <1>1, <1>6, <2>3
  <2>8. \A b \in Users \ {a} : ~Busy(b)'
    BY <1>3, <2>4, <2>5 DEF Busy
  <2> QED BY <2>4, <2>6, <2>7, <2>8, ClosingOnce
<1>10. CASE n # NULL
  <2> DEFINE P == IF n \in w THEN RemoveProgram(n) ELSE <<>>
  <2>1. walk' = [walk EXCEPT ![a] = w \ {n}] /\ Begin(a, n, P)
    BY <1>10 DEF Walk, Following
  <2>2. n \in C /\ n \in Nodes /\ n \in Nodes0
        /\ \A m \in C : <<node[a], m>> \in ahead => m = n \/ <<n, m>> \in ahead
    BY <1>6, <1>7, <1>8, <1>10 DEF Follows
  <2>3. \A m \in w \ {NULL} : m = n \/ <<n, m>> \in ahead
    BY <1>6, <1>7, <2>2
  <2>4. walk'[a] = w \ {n} /\ \A b \in Users \ {a} : walk'[b] = walk[b]
    BY <2>1 DEF ListTypeOK
  <2>5. P \in Seq(Stores) /\ Len(P) <= 5
    BY ProgramTypes, Programs
  <2>6. node'[a] = n /\ todo'[a] = P /\ \A b \in Users \ {a} : todo'[b] = todo[b]
    BY <2>1, <2>2, <2>5, BeginTyped
  <2>7. \A b \in Users \ {a} : ~Busy(b)'
    BY <1>3, <2>4, <2>6 DEF Busy
  <2>8. walk'[a] \cap listed' = {}
    BY <1>1, <1>6, <2>4
  <2>9. Future(a)' = Result(Now, n, pos[a], before[a], P)
    BY <1>1, <1>5, <2>6 DEF Future
  <2>10. CASE n \notin w
    <3>1. Future(a)' = Now
      BY <2>9, <2>10, ResultNone
    <3>2. Holding(a)' = C
      BY <1>1, <1>7, <2>4, <2>10 DEF Holding
    <3>3. March(ahead, C, Now, w \ {n}, n)
      BY <1>1, <1>6, <1>7, <2>2, <2>3, <2>10, NowType, MarchOn
    <3> HIDE DEF C
    <3>4. Going(a)'
      BY <1>1, <1>6, <2>4, <2>6, <2>8, <3>1, <3>2, <3>3 DEF Going
    <3> QED BY <2>7, <3>4, Closing
  <2>11. CASE n \in w
    <3> DEFINE R == Result(Now, n, pos[a], before[a], Removal(Now, n))
    <3>1. Future(a)' = R
      BY <2>9, <2>11, ProgramTypes
    <3>2. Holding(a)' = C \ {n}
      BY <1>1, <1>6, <1>7, <2>4, <2>11 DEF Holding
    <3>3. Fit(ahead, C \ {n}, R, mishaps) /\ March(ahead, C \ {n}, R, w \ {n}, n)
      BY <1>1, <1>6, <1>7, <2>2, <2>3, <2>11, NowType, MarchOn
    <3> HIDE DEF C, R
    <3>4. Going(a)'
      BY <1>1, <2>4, <2>6, <2>8, <3>1, <3>2, <3>3 DEF Going
    <3> QED BY <2>7, <3>4, Closing
  <2> QED BY <2>10, <2>11
<1> QED BY <1>9, <1>10

LEMMA SweepShape ==
  ASSUME ListTypeOK, Sane, Plain => Shape, Plain', NEW a \in Users, NEW N \in SUBSET Nodes, sweep(a, N)
  PROVE  Shape'
<1> DEFINE n == head
           w == {NULL} \cup N
           P == IF n \in N THEN RemoveProgram(n) ELSE <<>>
<1>1. /\ ~Busy(a) /\ n # NULL /\ N \subseteq listed /\ UNCHANGED <<list, pos, before, ahead>>
      /\ listed \subseteq Nodes /\ NULL \notin Nodes /\ n \in Nodes /\ n \in Nodes0
      /\ pos[a] \in Nodes0 /\ before[a] \in Nodes0
  BY NoNull DEF sweep, ListTypeOK, Nodes0
<1>2. /\ walk' = [walk EXCEPT ![a] = w \ {n}] /\ Begin(a, n, P) /\ listed' = listed \ N
      /\ mishaps' = mishaps \cup Torn(a) \cup {}
  BY DEF sweep
<1>3. walk'[a] = w \ {n} /\ \A b \in Users \ {a} : walk'[b] = walk[b]
  BY <1>2 DEF ListTypeOK
<1>4. P \in Seq(Stores) /\ Len(P) <= 5
  BY ProgramTypes, Programs
<1>5. node'[a] = n /\ todo'[a] = P /\ \A b \in Users \ {a} : todo'[b] = todo[b]
  BY <1>1, <1>2, <1>4, BeginTyped
<1>6. /\ Now' = Now /\ Fit(ahead, listed, Now, mishaps) /\ mishaps' = mishaps
      /\ \A b \in Users \ {a} : ~Busy(b)'
  <2>1. /\ ~Busy(a) /\ UNCHANGED list /\ mishaps' = mishaps \cup Torn(a) \cup {}
        /\ \A b \in Users \ {a} : todo'[b] = todo[b] /\ walk'[b] = walk[b]
    BY <1>1, <1>2, <1>3, <1>5
  <2>2. /\ Now' = Now /\ Fit(ahead, listed, Now, mishaps) /\ mishaps' = mishaps \cup {}
        /\ \A b \in Users \ {a} : ~Busy(b)'
    BY <2>1, Opening, Zenon
  <2> QED BY <2>2
<1>7. n \in listed /\ \A m \in w \ {NULL} : m = n \/ <<n, m>> \in ahead
  <2>1. IsFirst(ahead, head, listed)
    BY <1>6 DEF Fit, Chain, Now
  <2> QED BY <1>1, <2>1 DEF IsFirst
<1>8. walk'[a] \cap listed' = {}
  BY <1>1, <1>2, <1>3
<1>9. Future(a)' = Result(Now, n, pos[a], before[a], P)
  BY <1>1, <1>5, <1>6 DEF Future
<1>10. CASE n \notin N
  <2>1. Future(a)' = Now
    BY <1>9, <1>10, ResultNone
  <2>2. Holding(a)' = listed
    BY <1>1, <1>2, <1>3, <1>10 DEF Holding
  <2>3. March(ahead, listed, Now, w \ {n}, n)
    BY <1>1, <1>6, <1>7, <1>10, NowType, MarchOn
  <2>4. Going(a)'
    BY <1>1, <1>3, <1>5, <1>6, <1>8, <2>1, <2>2, <2>3 DEF Going
  <2> QED BY <1>6, <2>4, Closing
<1>11. CASE n \in N
  <2> DEFINE R == Result(Now, n, pos[a], before[a], Removal(Now, n))
  <2>1. Future(a)' = R
    BY <1>9, <1>11, ProgramTypes
  <2>2. Holding(a)' = listed \ {n}
    BY <1>1, <1>2, <1>3, <1>11 DEF Holding
  <2>3. Fit(ahead, listed \ {n}, R, mishaps) /\ March(ahead, listed \ {n}, R, w \ {n}, n)
    BY <1>1, <1>6, <1>7, <1>11, NowType, MarchOn
  <2> HIDE DEF R
  <2>4. Going(a)'
    BY <1>1, <1>3, <1>5, <1>6, <1>8, <2>1, <2>2, <2>3 DEF Going
  <2> QED BY <1>6, <2>4, Closing
<1> QED BY <1>10, <1>11
-----------------------------------------------------------------------------
(* LinkedList: the invariant *)

LEMMA ListBegins == ASSUME ListInit PROVE ListInv
<1>1. ListTypeOK
  BY DEF ListInit, ListTypeOK
<1>2. Sane
  BY DEF ListInit, Sane
<1>3. \A a \in Users : ~Busy(a)
  BY DEF ListInit, Busy
<1>4. Fit(ahead, listed, Now, mishaps)
  <2>1. /\ Now.head = NULL /\ Now.foot = NULL /\ Now.count = 0 /\ Now.stray = {}
        /\ ahead = {} /\ listed = {}
    BY DEF ListInit, Now
  <2>2. Cardinality({}) = 0
    BY FS_EmptySet
  <2> QED BY <2>1, <2>2 DEF Fit, Ordered, Chain, IsFirst, IsLast
<1> QED BY <1>1, <1>2, <1>3, <1>4 DEF ListInv, Shape, Alone, Quiet

LEMMA ListSteps == ASSUME ListInv, [ListNext]_listVars PROVE ListInv'
<1>1. ListTypeOK' /\ Sane'
  BY ListTypeStep DEF ListInv
<1>2. ASSUME Plain' PROVE Shape'
  <2> USE <1>2 DEF ListInv
  <2>0. CASE UNCHANGED listVars
    <3>1. Plain /\ Shape
      BY <2>0 DEF listVars, Plain
    <3> QED BY <2>0, <3>1 DEF listVars, list, Shape, Alone, Quiet, Busy, Going, Fit, Future, Holding, Now
  <2> SUFFICES ASSUME ListNext PROVE Shape'
    BY <2>0
  <2> PICK a \in Users :
        \/ Store(a) \/ Walk(a)
        \/ \E n \in Nodes : add_node(a, n) \/ unshift_node(a, n) \/ remove_node(a, n)
        \/ shift_node(a) \/ pop_node(a)
        \/ \E n, p \in Nodes : insert_node(a, p, n)
        \/ \E N \in SUBSET Nodes : sweep(a, N)
    BY DEF ListNext
  <2>1. CASE Store(a)
    BY <2>1, StoreShape
  <2>2. CASE Walk(a)
    BY <2>2, WalkShape
  <2>3. CASE \E n \in Nodes : add_node(a, n)
    BY <2>3, AddShape
  <2>4. CASE \E n \in Nodes : unshift_node(a, n)
    BY <2>4, UnshiftShape
  <2>5. CASE \E n : remove_node(a, n)
    BY <2>5, RemoveShape
  <2>6. CASE \E n, p \in Nodes : insert_node(a, p, n)
    BY <2>6, InsertShape
  <2>7. CASE \E N \in SUBSET Nodes : sweep(a, N)
    BY <2>7, SweepShape
  <2> QED BY <2>1, <2>2, <2>3, <2>4, <2>5, <2>6, <2>7 DEF shift_node, pop_node
<1> QED BY <1>1, <1>2 DEF ListInv

\* Whatever the users of the list do, and however their stores interleave, the
\* types hold, and as long as no two operations overlapped and no node was
\* unshifted, the stores of the one under way lead to a fit list (linked_list.c:
\* 70-304, mqueue.c:253-269).
THEOREM ListInvariant == ListSpec => []ListInv
<1>1. ListInit => ListInv
  BY ListBegins
<1>2. ListInv /\ [ListNext]_listVars => ListInv'
  BY ListSteps
<1> QED BY <1>1, <1>2, PTL DEF ListSpec

\* The links, the count and what each user is about to store have their types,
\* also while operations overlap (linked_list.c:70-304).
THEOREM ListTypes == ListSpec => []ListTypeOK
<1>1. ListInv => ListTypeOK
  BY DEF ListInv
<1> QED BY <1>1, ListInvariant, PTL

\* No store goes through NULL: the node after a head that is not the foot, before
\* a foot that is not the head, and on both sides of any other exists, though the
\* code does not look (linked_list.c:110, 115, 120), unless operations overlapped
\* or a node was unshifted.
THEOREM ListNoStray == ListSpec => []NoStray
<1>1. ListInv => NoStray
  BY ShapeNoStray DEF ListInv, NoStray
<1> QED BY <1>1, ListInvariant, PTL

\* Between operations the list holds what it should in the order it should (the
\* branches of add_node, remove_node and insert_node, linked_list.c:76-125,
\* 295-299, and the walk of _MqPopMessageWithTaskID), unless operations overlapped
\* or a node was unshifted: for any number of users and nodes.
THEOREM ListRepresents == ListSpec => []Represents
<1>1. ASSUME ListInv PROVE Represents
  <2>1. ASSUME Quiet, Plain PROVE Chain(ahead, listed, Now)
    BY <1>1, <2>1 DEF ListInv, Shape, Fit
  <2> QED BY <2>1 DEF Represents, Chain, Now
<1>2. ListInv => Represents
  BY <1>1
<1> QED BY <1>2, ListInvariant, PTL

\* Between operations count (linked_list.c:91, 124), by which a channel is full
\* or empty, is the number of nodes in the list, unless operations overlapped, or
\* a node was unshifted or inserted.
THEOREM ListCounted == ListSpec => []Counted
<1>1. ASSUME ListInv PROVE Counted
  <2>1. ASSUME Quiet, Plain PROVE Fit(ahead, listed, Now, mishaps)
    BY <1>1, <2>1 DEF ListInv, Shape
  <2> QED BY <2>1 DEF Counted, Fit, Now
<1>2. ListInv => Counted
  BY <1>1
<1> QED BY <1>2, ListInvariant, PTL
-----------------------------------------------------------------------------
(* MQueue: the invariant, in parts *)

OpType == [pc : {"idle", "new", "name", "record", "unlink", "add", "serve", "wait"},
           q : Queues \cup {NULL}, w : Ways, m : Messages,
           n : Names \cup {GARBAGE}, late : BOOLEAN]

\* The queues of the list have been made, and only those have names.
Listed == mqueues \subseteq 1 .. made /\ \A q \in Queues : q > made => name[q] = GARBAGE

\* A task has what its next step needs...
Ready(t) ==
  /\ op[t].pc # "wait"
  /\ op[t].pc \in {"new", "name"} => op[t].n \in Names
  /\ op[t].pc = "name" => op[t].q \in 1 .. made
  /\ op[t].pc \in {"name", "record", "unlink", "add", "serve"} => op[t].q \in Queues

\* ... and so has the kernel.
KernelReady ==
  /\ op[KERNEL].pc \in {"idle", "add", "wait"}
  /\ op[KERNEL].pc \in {"add", "wait"} => mqueue \in Queues
  /\ op[KERNEL].pc = "add" =>
       /\ op[KERNEL].q = mqueue /\ op[KERNEL].w = "out"
       /\ op[KERNEL].m.no = asked /\ op[KERNEL].m.tid = KERNEL

Held == Listed /\ KernelReady /\ \A t \in Tasks : Ready(t)

TypeInv == TypeOK /\ Held

\* Whoever adds to a channel has room for it, unless another has added since.
Room ==
  "crowded" \notin odd =>
    /\ \A q \in Queues, w \in Ways : Len(chan[q][w]) <= MAX_MESSAGE_COUNT
    /\ \A a \in Actors : op[a].pc = "add" /\ op[a].late = FALSE =>
         Len(chan[op[a].q][op[a].w]) < MAX_MESSAGE_COUNT

\* Whoever makes a queue has a name that no other has, unless another has given
\* it since.
Distinct ==
  "twins" \notin odd =>
    /\ \A p, q \in mqueues : name[p] = name[q] /\ name[p] \in Names => p = q
    /\ \A t \in Tasks : op[t].pc \in {"new", "name"} /\ op[t].late = FALSE =>
         \A q \in mqueues : name[q] # op[t].n

\* t has a request of the kernel, or an answer to it.
Pending(t) == op[t].pc \in {"serve", "add"} /\ op[t].m.tid = KERNEL /\ op[t].m.reply = TRUE

\* Until the kernel gives up, or a program is a client too, the channels hold
\* requests of the kernel and answers to it.  One that is to be answered is in
\* one place only, and the kernel waits for it.
Answering ==
  odd \cap {"gaveup", "shared"} = {} =>
    /\ \A q \in Queues, w \in Ways : \A i \in DOMAIN chan[q][w] :
         /\ chan[q][w][i].tid = KERNEL
         /\ w = "in" => chan[q][w][i].reply = TRUE
         /\ chan[q][w][i].reply = TRUE =>
              /\ op[KERNEL].pc = "wait" /\ chan[q][w][i].no = asked
              /\ \A t \in Tasks : ~Pending(t)
              /\ \A p \in Queues, v \in Ways : \A j \in DOMAIN chan[p][v] :
                   chan[p][v][j].reply = TRUE => p = q /\ v = w /\ j = i
    /\ \A t \in Tasks :
         /\ op[t].pc = "serve" => op[t].m.tid = KERNEL
         /\ op[t].pc = "add" /\ op[t].m.tid = KERNEL => op[t].m.reply = TRUE
         /\ Pending(t) => /\ op[KERNEL].pc = "wait" /\ op[t].m.no = asked
                          /\ \A u \in Tasks : Pending(u) => u = t
    /\ answer[2].no = answer[1]

IInv == TypeInv /\ Room /\ Distinct /\ OwnedUnlessKilled /\ Answering
-----------------------------------------------------------------------------
(* Operators *)

LEMMA Least == ASSUME NEW S \in SUBSET Nat, S # {} PROVE \E i \in S : \A j \in S : i <= j
<1>1. PICK i \in S : \A j \in S : <<j, i>> \notin OpToRel(<, Nat)
  BY NatLessThanWellFounded, WFMin
<1>2. \A j \in S : ~(j < i)
  BY <1>1 DEF OpToRel
<1> QED BY <1>2

\* MqGetPtrByName returns a queue of the list, of that name, or else there is
\* none.
LEMMA Looked ==
  ASSUME TypeOK, NEW n
  PROVE  /\ MqGetPtrByName(n) # NULL => /\ MqGetPtrByName(n) \in mqueues
                                        /\ MqGetPtrByName(n) \in Queues
                                        /\ name[MqGetPtrByName(n)] = n
         /\ MqGetPtrByName(n) = NULL => \A q \in mqueues : name[q] # n
<1>1. Named(n) \subseteq mqueues /\ mqueues \subseteq Queues
  BY DEF Named, TypeOK
<1>2. Named(n) \subseteq Nat /\ NULL \notin Named(n)
  <2>1. Queues \subseteq Nat /\ NULL \notin Queues
    BY DEF Queues, NULL
  <2> QED BY <1>1, <2>1
<1>3. CASE Named(n) = {}
  BY <1>3 DEF MqGetPtrByName, Named
<1>4. CASE Named(n) # {}
  <2>1. MqGetPtrByName(n) \in Named(n)
    <3>1. \E q \in Named(n) : \A p \in Named(n) : q <= p
      BY <1>2, <1>4, Least
    <3> QED BY <1>4, <3>1 DEF MqGetPtrByName
  <2> QED BY <1>1, <1>2, <2>1 DEF Named
<1> QED BY <1>3, <1>4

\* How many members of a set are at most i.
LEMMA CountUpTo ==
  ASSUME NEW S, IsFiniteSet(S), S \subseteq Nat, NEW i \in Nat
  PROVE  LET Up(k) == {j \in S : j <= k} IN
         /\ Cardinality(Up(i)) \in Nat
         /\ i + 1 \in S => Cardinality(Up(i + 1)) = Cardinality(Up(i)) + 1
         /\ i + 1 \notin S => Cardinality(Up(i + 1)) = Cardinality(Up(i))
<1> DEFINE Up(k) == {j \in S : j <= k}
<1>1. Up(i) \subseteq S
  OBVIOUS
<1>2. IsFiniteSet(Up(i))
  BY <1>1, FS_Subset
<1>3. Cardinality(Up(i)) \in Nat
  BY <1>2, FS_CardinalityType
<1>4. ASSUME i + 1 \in S PROVE Cardinality(Up(i + 1)) = Cardinality(Up(i)) + 1
  <2>1. \A j \in S : j <= i + 1 <=> j <= i \/ j = i + 1
    OBVIOUS
  <2>2. Up(i + 1) = Up(i) \cup {i + 1}
    BY <1>4, <2>1, Zenon
  <2>3. i + 1 \notin Up(i)
    OBVIOUS
  <2> HIDE DEF Up
  <2> QED BY <1>2, <2>2, <2>3, FS_AddElement
<1>5. ASSUME i + 1 \notin S PROVE Up(i + 1) = Up(i)
  <2>1. \A j \in S : j <= i + 1 <=> j <= i
    BY <1>5
  <2> QED BY <2>1, Zenon
<1> HIDE DEF Up
<1>6. i + 1 \notin S => Cardinality(Up(i + 1)) = Cardinality(Up(i))
  BY <1>5
<1> QED BY <1>3, <1>4, <1>6 DEF Up

\* The k-th member of a set of numbers.
LEMMA Ranked ==
  ASSUME NEW n \in Nat, NEW S \in SUBSET (1 .. n), NEW k \in 1 .. Cardinality(S)
  PROVE  \E i \in S : Cardinality({j \in S : j <= i}) = k
<1> DEFINE c == [i \in Nat |-> Cardinality({j \in S : j <= i})]
           I == {i \in Nat : k <= c[i]}
<1>1. IsFiniteSet(S) /\ S \subseteq Nat
  <2>1. IsFiniteSet(1 .. n) /\ S \subseteq 1 .. n
    BY FS_Interval
  <2>2. IsFiniteSet(S)
    BY <2>1, FS_Subset
  <2>3. 1 .. n \subseteq Nat
    OBVIOUS
  <2> QED BY <2>1, <2>2, <2>3
<1>2. Cardinality(S) \in Nat
  BY <1>1, FS_CardinalityType
<1>3. k \in Nat /\ 1 <= k /\ k <= Cardinality(S)
  BY <1>2
<1>4. ASSUME NEW i \in Nat
      PROVE  /\ c[i] \in Nat
             /\ i + 1 \in S => c[i + 1] = c[i] + 1
             /\ i + 1 \notin S => c[i + 1] = c[i]
  <2>1. c[i] = Cardinality({j \in S : j <= i}) /\ c[i + 1] = Cardinality({j \in S : j <= i + 1})
    OBVIOUS
  <2> HIDE DEF c
  <2> QED BY <1>1, <2>1, CountUpTo
<1>5. c[0] = 0
  <2>1. \A j \in S : ~(j <= 0)
    BY SMT
  <2>2. {j \in S : j <= 0} = {}
    BY <2>1, Zenon
  <2> QED BY <2>2, FS_EmptySet
<1>6. c[n] = Cardinality(S)
  <2>1. \A j \in S : j <= n
    BY SMT
  <2>2. {j \in S : j <= n} = S
    BY <2>1, Zenon
  <2> QED BY <2>2
<1>7. \A i \in Nat : c[i] = Cardinality({j \in S : j <= i})
  OBVIOUS
<1> HIDE DEF c
<1>8. I \in SUBSET Nat /\ I # {}
  BY <1>3, <1>6
<1>9. PICK i \in I : \A j \in I : i <= j
  <2> HIDE DEF I
  <2> QED BY <1>8, Least
<1>10. i \in Nat /\ k <= c[i] /\ i # 0
  BY <1>3, <1>5
<1>11. i - 1 \in Nat /\ (i - 1) + 1 = i
  BY <1>10
<1>12. c[i - 1] < k
  <2>1. i - 1 \notin I
    BY <1>9, <1>10, <1>11
  <2> QED BY <1>3, <1>4, <1>11, <2>1
<1>13. /\ c[i - 1] \in Nat
       /\ i \in S => c[i] = c[i - 1] + 1
       /\ i \notin S => c[i] = c[i - 1]
  BY <1>4, <1>11
<1>14. i \in S /\ c[i] = k
  BY <1>3, <1>10, <1>12, <1>13
<1> QED BY <1>7, <1>10, <1>14

\* What is left of a channel is messages of it, and all of it if none is for t.
LEMMA Rest ==
  ASSUME TypeOK, NEW q \in Queues, NEW t
  PROVE  LET s == chan[q]["in"]
             r == MqPopMessageWithTaskID(q, t) IN
         /\ r \in Seq(Messages) /\ Len(r) <= Len(s)
         /\ (\A i \in DOMAIN s : s[i].tid # t) => r = s
<1> DEFINE s == chan[q]["in"]
           n == Len(s)
           rest == {i \in DOMAIN s : s[i].tid # t}
           At(k) == CHOOSE i \in rest : Cardinality({j \in rest : j <= i}) = k
           r == [k \in 1 .. Cardinality(rest) |-> s[At(k)]]
<1>1. s \in Seq(Messages) /\ n \in Nat /\ DOMAIN s = 1 .. n
  <2>1. s \in Seq(Messages)
    BY DEF TypeOK, Ways
  <2> QED BY <2>1
<1>2. MqPopMessageWithTaskID(q, t) = r
  BY DEF MqPopMessageWithTaskID
<1> HIDE DEF s
<1>3. rest \in SUBSET (1 .. n)
  BY <1>1
<1> HIDE DEF n
<1>4. IsFiniteSet(1 .. n) /\ Cardinality(1 .. n) = n
  BY <1>1, FS_Interval
<1>5. Cardinality(rest) \in Nat /\ Cardinality(rest) <= n
  BY <1>1, <1>3, <1>4, FS_Subset, FS_CardinalityType
<1>6. ASSUME NEW k \in 1 .. Cardinality(rest) PROVE s[At(k)] \in Messages
  <2>1. \E i \in rest : Cardinality({j \in rest : j <= i}) = k
    <3> HIDE DEF rest
    <3> QED BY <1>1, <1>3, Ranked
  <2>2. At(k) \in rest
    BY <2>1
  <2>3. At(k) \in DOMAIN s
    BY <2>2
  <2> HIDE DEF At, rest
  <2> QED BY <1>1, <2>3
<1>7. r \in Seq(Messages) /\ Len(r) = Cardinality(rest)
  <2> HIDE DEF At, rest
  <2> QED BY <1>5, <1>6
<1>8. ASSUME \A i \in DOMAIN s : s[i].tid # t PROVE r = s
  <2>1. rest = 1 .. n
    BY <1>1, <1>8
  <2>2. ASSUME NEW k \in 1 .. n PROVE At(k) = k
    <3>1. ASSUME NEW i \in 1 .. n PROVE Cardinality({j \in rest : j <= i}) = i
      <4>1. {j \in rest : j <= i} = 1 .. i
        BY <1>1, <2>1
      <4>2. Cardinality(1 .. i) = i
        BY <1>1, FS_Interval
      <4> QED BY <4>1, <4>2
    <3> HIDE DEF rest
    <3> QED BY <2>1, <3>1
  <2> HIDE DEF At, rest
  <2>3. r = [k \in 1 .. n |-> s[k]]
    BY <1>4, <2>1, <2>2
  <2>4. s = [k \in 1 .. n |-> s[k]]
    BY <1>1
  <2> QED BY <2>3, <2>4
<1> HIDE DEF r, rest
<1> QED BY <1>2, <1>5, <1>7, <1>8 DEF s, n
-----------------------------------------------------------------------------
(* Types *)

LEMMA Constants ==
  /\ KERNEL \in Actors /\ Tasks \subseteq Actors /\ Queues \subseteq Nat /\ NULL \notin Queues
  /\ GARBAGE \notin Names /\ \A t \in Tasks : t # KERNEL
  /\ {"in", "out"} \subseteq Ways
  BY MQueueAssumption DEF Actors, Queues, NULL, Ways

LEMMA IdleType ==
  /\ Idle \in OpType /\ Idle.pc = "idle" /\ Idle.q = NULL /\ Idle.late = FALSE
  /\ NoMessage \in Messages
<1>1. NoMessage \in Messages
  BY Constants, MQueueAssumption DEF NoMessage, Messages
<1> QED BY <1>1, Constants DEF Idle, OpType

\* The others are where they were; some may have been overtaken.
Others(a) ==
  \A b \in Actors : b # a =>
    /\ op'[b].pc = op[b].pc /\ op'[b].q = op[b].q /\ op'[b].w = op[b].w
    /\ op'[b].m = op[b].m /\ op'[b].n = op[b].n
    /\ op[b].late = TRUE => op'[b].late = TRUE

LEMMA Overtaken ==
  ASSUME NEW r \in OpType
  PROVE  LET s == [r EXCEPT !.late = TRUE] IN
         /\ s \in OpType /\ s.pc = r.pc /\ s.q = r.q /\ s.w = r.w /\ s.m = r.m /\ s.n = r.n
         /\ s.late = TRUE
  BY DEF OpType

\* a goes on to r.
LEMMA Moved ==
  ASSUME TypeOK, NEW a \in Actors, NEW r \in OpType, Become(a, r)
  PROVE  op' \in [Actors -> OpType] /\ op'[a] = r /\ Others(a)
<1>1. op \in [Actors -> OpType]
  BY DEF TypeOK, OpType
<1> QED BY <1>1 DEF Become, Others

\* A step of the task t leaves the others with what they need.
LEMMA TaskHeld ==
  ASSUME TypeInv, NEW t \in Tasks, Others(t), made' \in Nat, made <= made',
         mqueue' = mqueue, asked' = asked, Listed', Ready(t)'
  PROVE  Held'
<1>1. KernelReady'
  BY Constants DEF TypeInv, Held, KernelReady, Others
<1>2. ASSUME NEW u \in Tasks, u # t PROVE Ready(u)'
  <2>1. made \in Nat
    BY MQueueAssumption DEF TypeInv, TypeOK
  <2> QED BY <1>2, <2>1, Constants DEF TypeInv, Held, Ready, Others
<1> QED BY <1>1, <1>2 DEF Held

\* So does a step of the kernel.
LEMMA KernelHeld ==
  ASSUME TypeInv, Others(KERNEL), made' = made, Listed', KernelReady'
  PROVE  Held'
<1>1. ASSUME NEW u \in Tasks PROVE Ready(u)'
  BY <1>1, Constants DEF TypeInv, Held, Ready, Others
<1> QED BY <1>1 DEF Held

\* A step of t that leaves the list of queues, their names and the kernel alone.
LEMMA TaskTypes ==
  ASSUME TypeInv, NEW t \in Tasks, op' \in [Actors -> OpType], Others(t),
         UNCHANGED <<made, name, kernel>>, mqueues' \subseteq mqueues,
         chan' \in [Queues -> [Ways -> Seq(Messages)]],
         alive' \subseteq Tasks, mqueue_ids' \in [Tasks -> SUBSET Queues],
         odd' \subseteq odd \cup {"crowded", "shared", "nomemory", "full", "gaveup", "unowned"},
         Ready(t)'
  PROVE  TypeInv'
<1>1. TypeOK'
  BY DEF TypeInv, TypeOK, OpType, kernel
<1>2. Listed'
  BY DEF TypeInv, Held, Listed
<1>3. made \in Nat /\ made' = made /\ mqueue' = mqueue /\ asked' = asked
  BY MQueueAssumption DEF TypeInv, TypeOK, kernel
<1>4. made <= made'
  BY <1>3
<1> QED BY <1>1, <1>2, <1>3, <1>4, TaskHeld DEF TypeInv
-----------------------------------------------------------------------------
(* What a step must not do *)

\* A step of a that adds nothing to a channel.
LEMMA RoomKept ==
  ASSUME TypeInv, Room, NEW a \in Actors, Others(a), odd \subseteq odd',
         \A q \in Queues, w \in Ways : Len(chan'[q][w]) \in Nat /\ Len(chan'[q][w]) <= Len(chan[q][w]),
         op'[a].pc = "add" /\ op'[a].late = FALSE /\ "crowded" \notin odd' =>
           Len(chan'[op'[a].q][op'[a].w]) < MAX_MESSAGE_COUNT
  PROVE  Room'
<1> SUFFICES ASSUME "crowded" \notin odd' PROVE Room'
  BY DEF Room
<1>0. MAX_MESSAGE_COUNT \in Nat
  BY MQueueAssumption
<1>1. ASSUME NEW q \in Queues, NEW w \in Ways PROVE Len(chan[q][w]) \in Nat
  BY DEF TypeInv, TypeOK
<1>2. ASSUME NEW q \in Queues, NEW w \in Ways PROVE Len(chan'[q][w]) <= MAX_MESSAGE_COUNT
  BY <1>0, <1>1 DEF Room
<1>3. ASSUME NEW b \in Actors, b # a, op'[b].pc = "add", op'[b].late = FALSE
      PROVE  Len(chan'[op'[b].q][op'[b].w]) < MAX_MESSAGE_COUNT
  <2>1. op[b].pc = "add" /\ op'[b].q = op[b].q /\ op'[b].w = op[b].w
    BY <1>3 DEF Others
  <2>2. op[b].late = FALSE /\ op[b].w \in Ways
    BY <1>3 DEF Others, TypeInv, TypeOK
  <2>3. op[b].q \in Queues
    BY <2>1 DEF TypeInv, Held, Ready, KernelReady, Actors
  <2>4. Len(chan[op[b].q][op[b].w]) < MAX_MESSAGE_COUNT
    BY <2>1, <2>2 DEF Room
  <2> QED BY <1>0, <1>1, <2>1, <2>2, <2>3, <2>4
<1> QED BY <1>2, <1>3 DEF Room

\* A step of a that makes and names no queue.
LEMMA DistinctKept ==
  ASSUME Distinct, NEW a \in Actors, Others(a), odd \subseteq odd', mqueues' \subseteq mqueues, name' = name,
         op \in [Actors -> OpType], op' \in [Actors -> OpType],
         op'[a].pc \in {"new", "name"} /\ op'[a].late = FALSE =>
           \A q \in mqueues : name[q] # op'[a].n
  PROVE  Distinct'
<1> SUFFICES ASSUME "twins" \notin odd' PROVE Distinct'
  BY DEF Distinct
<1>1. \A p, q \in mqueues' : name'[p] = name'[q] /\ name'[p] \in Names => p = q
  BY DEF Distinct
<1>2. ASSUME NEW t \in Tasks, op'[t].pc \in {"new", "name"}, op'[t].late = FALSE
      PROVE  \A q \in mqueues' : name'[q] # op'[t].n
  <2>1. CASE t = a
    BY <1>2, <2>1
  <2>2. CASE t # a
    <3>1. op[t].pc \in {"new", "name"} /\ op[t].late = FALSE /\ op'[t].n = op[t].n
      BY <1>2, <2>2, Constants DEF Others, OpType
    <3> QED BY <3>1 DEF Distinct
  <2> QED BY <2>1, <2>2
<1> QED BY <1>1, <1>2 DEF Distinct

\* A step of a that neither makes a queue nor forgets one it is making.
LEMMA OwnedKept ==
  ASSUME OwnedUnlessKilled, NEW a \in Actors, Others(a), odd \subseteq odd', mqueues' \subseteq mqueues,
         alive \subseteq Tasks, alive \subseteq alive', \A t \in Tasks : mqueue_ids[t] \subseteq mqueue_ids'[t],
         op[a].pc \notin {"name", "record"}
  PROVE  OwnedUnlessKilled'
<1> SUFFICES ASSUME "unowned" \notin odd', NEW q \in mqueues'
             PROVE  \E t \in alive' : \/ q \in mqueue_ids'[t]
                                      \/ op'[t].pc \in {"name", "record"} /\ op'[t].q = q
  BY DEF OwnedUnlessKilled
<1>1. PICK t \in alive : q \in mqueue_ids[t] \/ (op[t].pc \in {"name", "record"} /\ op[t].q = q)
  BY DEF OwnedUnlessKilled
<1> QED BY <1>1, Constants DEF Others

\* A step of a that at most empties channels, and neither begins nor ends a wait
\* of the kernel.
LEMMA AnsweringKept ==
  ASSUME Answering, NEW a \in Actors, Others(a), odd \subseteq odd', answer' = answer,
         asked' = asked \/ op[KERNEL].pc # "wait",
         op[KERNEL].pc = "wait" <=> op'[KERNEL].pc = "wait",
         \A q \in Queues, w \in Ways : chan'[q][w] = chan[q][w] \/ chan'[q][w] = <<>>,
         a \in Tasks => /\ op'[a].pc = "serve" => op'[a].m.tid = KERNEL
                        /\ op'[a].pc = "add" /\ op'[a].m.tid = KERNEL => op'[a].m.reply = TRUE
                        /\ Pending(a)' => Pending(a) /\ op'[a].m = op[a].m
  PROVE  Answering'
<1> SUFFICES ASSUME odd' \cap {"gaveup", "shared"} = {} PROVE Answering'
  BY DEF Answering
<1>0. odd \cap {"gaveup", "shared"} = {}
  OBVIOUS
<1>1. ASSUME NEW t \in Tasks, Pending(t)' PROVE Pending(t) /\ op'[t].m = op[t].m
  BY <1>1, Constants DEF Others, Pending
<1>2. ASSUME NEW t \in Tasks
      PROVE  /\ op'[t].pc = "serve" => op'[t].m.tid = KERNEL
             /\ op'[t].pc = "add" /\ op'[t].m.tid = KERNEL => op'[t].m.reply = TRUE
             /\ Pending(t)' => /\ op'[KERNEL].pc = "wait" /\ op'[t].m.no = asked'
                               /\ \A u \in Tasks : Pending(u)' => u = t
  <2>1. /\ op'[t].pc = "serve" => op'[t].m.tid = KERNEL
        /\ op'[t].pc = "add" /\ op'[t].m.tid = KERNEL => op'[t].m.reply = TRUE
    BY <1>0, Constants DEF Others, Answering
  <2> QED BY <1>0, <1>1, <2>1 DEF Answering
<1>3. ASSUME NEW q \in Queues, NEW w \in Ways, NEW i \in DOMAIN chan'[q][w]
      PROVE  i \in DOMAIN chan[q][w] /\ chan'[q][w][i] = chan[q][w][i]
  <2>1. DOMAIN <<>> = {}
    OBVIOUS
  <2> QED BY <1>3, <2>1
<1>4. ASSUME NEW q \in Queues, NEW w \in Ways, NEW i \in DOMAIN chan'[q][w]
      PROVE  /\ chan'[q][w][i].tid = KERNEL
             /\ w = "in" => chan'[q][w][i].reply = TRUE
             /\ chan'[q][w][i].reply = TRUE =>
                  /\ op'[KERNEL].pc = "wait" /\ chan'[q][w][i].no = asked'
                  /\ \A t \in Tasks : ~Pending(t)'
                  /\ \A p \in Queues, v \in Ways : \A j \in DOMAIN chan'[p][v] :
                       chan'[p][v][j].reply = TRUE => p = q /\ v = w /\ j = i
  <2>1. i \in DOMAIN chan[q][w] /\ chan'[q][w][i] = chan[q][w][i]
    BY <1>3
  <2>2. /\ chan'[q][w][i].tid = KERNEL
        /\ w = "in" => chan'[q][w][i].reply = TRUE
    BY <1>0, <2>1 DEF Answering
  <2>3. ASSUME chan'[q][w][i].reply = TRUE
        PROVE  op'[KERNEL].pc = "wait" /\ chan'[q][w][i].no = asked' /\ \A t \in Tasks : ~Pending(t)'
    <3>1. /\ op[KERNEL].pc = "wait" /\ chan[q][w][i].no = asked /\ \A t \in Tasks : ~Pending(t)
      BY <1>0, <2>1, <2>3 DEF Answering
    <3> QED BY <1>1, <2>1, <3>1
  <2>4. ASSUME chan'[q][w][i].reply = TRUE, NEW p \in Queues, NEW v \in Ways, NEW j \in DOMAIN chan'[p][v],
               chan'[p][v][j].reply = TRUE
        PROVE  p = q /\ v = w /\ j = i
    <3>1. j \in DOMAIN chan[p][v] /\ chan'[p][v][j] = chan[p][v][j]
      BY <1>3
    <3> QED BY <1>0, <2>1, <2>4, <3>1 DEF Answering
  <2> QED BY <2>2, <2>3, <2>4
<1>5. answer'[2].no = answer'[1]
  BY <1>0 DEF Answering
<1> QED BY <1>2, <1>4, <1>5 DEF Answering
-----------------------------------------------------------------------------
(* Steps *)

\* The types that the steps start from.
LEMMA Types ==
  ASSUME IInv
  PROVE  /\ TypeInv /\ TypeOK /\ Held /\ Room /\ Distinct /\ OwnedUnlessKilled /\ Answering
         /\ op \in [Actors -> OpType] /\ alive \subseteq Tasks
         /\ chan \in [Queues -> [Ways -> Seq(Messages)]]
         /\ mqueue_ids \in [Tasks -> SUBSET Queues] /\ made \in 0 .. MaxQueues /\ asked \in 0 .. MaxRequests
  BY DEF IInv, TypeInv, TypeOK, OpType

\* A step of a that at most empties channels.
LEMMA Shrinks ==
  ASSUME IInv, chan' \in [Queues -> [Ways -> Seq(Messages)]],
         \A q \in Queues, w \in Ways : chan'[q][w] = chan[q][w] \/ chan'[q][w] = <<>>
  PROVE  \A q \in Queues, w \in Ways : Len(chan'[q][w]) \in Nat /\ Len(chan'[q][w]) <= Len(chan[q][w])
<1> TAKE q \in Queues, w \in Ways
<1>1. chan'[q][w] \in Seq(Messages) /\ chan[q][w] \in Seq(Messages)
  BY Types
<1>2. Len(chan'[q][w]) \in Nat /\ Len(chan[q][w]) \in Nat /\ Len(<<>>) = 0
  BY <1>1
<1>3. CASE chan'[q][w] = chan[q][w]
  BY <1>2, <1>3
<1>4. CASE chan'[q][w] = <<>>
  BY <1>2, <1>4
<1> QED BY <1>3, <1>4

\* A step of t that moves it on to r, and at most empties channels and takes
\* queues out of the list.
LEMMA TaskKeeps ==
  ASSUME IInv, NEW t \in Tasks, NEW r \in OpType, Become(t, r),
         UNCHANGED <<made, name, alive, mqueue_ids, kernel>>,
         odd \subseteq odd', odd' \subseteq odd \cup {"nomemory", "full"},
         mqueues' \subseteq mqueues, chan' \in [Queues -> [Ways -> Seq(Messages)]],
         \A q \in Queues, w \in Ways : chan'[q][w] = chan[q][w] \/ chan'[q][w] = <<>>,
         op[t].pc \notin {"name", "record"}, r.pc # "wait",
         r.pc \in {"new", "name"} => r.n \in Names /\ \A q \in mqueues : name[q] # r.n,
         r.pc \notin {"name", "serve"}, r.pc \in {"record", "unlink", "add"} => r.q \in Queues,
         r.pc = "add" /\ "crowded" \notin odd => Len(chan'[r.q][r.w]) < MAX_MESSAGE_COUNT,
         r.pc = "add" /\ r.m.tid = KERNEL => r.m.reply = TRUE /\ Pending(t) /\ r.m = op[t].m
  PROVE  IInv'
<1>1. op' \in [Actors -> OpType] /\ op'[t] = r /\ Others(t) /\ t \in Actors
  BY Types, Moved, Constants
<1>2. TypeInv'
  <2>1. Ready(t)'
    BY <1>1 DEF Ready
  <2>2. alive' \subseteq Tasks /\ mqueue_ids' \in [Tasks -> SUBSET Queues]
    BY Types
  <2> QED BY <1>1, <2>1, <2>2, Types, TaskTypes
<1>3. Room'
  BY <1>1, Types, Shrinks, RoomKept
<1>4. Distinct'
  BY <1>1, Types, DistinctKept
<1>5. OwnedUnlessKilled'
  BY <1>1, Types, OwnedKept
<1>6. Answering'
  <2>1. Pending(t)' => Pending(t) /\ op'[t].m = op[t].m
    BY <1>1 DEF Pending
  <2>2. op'[KERNEL].pc = op[KERNEL].pc
    BY <1>1, Constants DEF Others
  <2>3. asked' = asked /\ answer' = answer
    BY DEF kernel
  <2> QED BY <1>1, <2>1, <2>2, <2>3, Types, AnsweringKept
<1> QED BY <1>2, <1>3, <1>4, <1>5, <1>6 DEF IInv

\* A step of t that ends what it was doing.
LEMMA TaskStops ==
  ASSUME IInv, NEW t \in Tasks, Become(t, Idle), op[t].pc \notin {"name", "record"},
         UNCHANGED <<made, name, chan, alive, mqueue_ids, kernel>>, mqueues' \subseteq mqueues,
         odd \subseteq odd', odd' \subseteq odd \cup {"nomemory", "full"}
  PROVE  IInv'
<1>1. Idle \in OpType /\ Idle.pc = "idle"
  BY IdleType
<1>2. chan' \in [Queues -> [Ways -> Seq(Messages)]] /\ \A q \in Queues, w \in Ways : chan'[q][w] = chan[q][w]
  BY Types
<1> QED BY <1>1, <1>2, TaskKeeps

\* t has found room for m.
LEMMA BeginAddKeeps ==
  ASSUME IInv, NEW t \in Tasks, NEW q \in Queues, NEW w \in Ways, NEW m \in Messages,
         BeginAdd(t, q, w, m), op[t].pc \notin {"name", "record"},
         UNCHANGED <<queues, alive, mqueue_ids, kernel, odd>>,
         m.tid = KERNEL => m.reply = TRUE /\ Pending(t) /\ m = op[t].m
  PROVE  IInv'
<1> DEFINE r == [Idle EXCEPT !.pc = "add", !.q = q, !.w = w, !.m = m]
<1>1. r \in OpType /\ r.pc = "add" /\ r.q = q /\ r.w = w /\ r.m = m /\ r.late = FALSE
  BY IdleType DEF OpType
<1>2. Become(t, r) /\ ~Full(q, w)
  BY DEF BeginAdd
<1> HIDE DEF r
<1>3. "crowded" \notin odd => Len(chan'[q][w]) < MAX_MESSAGE_COUNT
  <2>1. Len(chan[q][w]) \in Nat /\ chan' = chan /\ MAX_MESSAGE_COUNT \in Nat
    BY Types, MQueueAssumption DEF queues
  <2> QED BY <1>2, <2>1, Types DEF Room, Full
<1>4. chan' \in [Queues -> [Ways -> Seq(Messages)]] /\ \A p \in Queues, v \in Ways : chan'[p][v] = chan[p][v]
  BY Types DEF queues
<1>5. UNCHANGED <<mqueues, made, name, alive, mqueue_ids, kernel, odd>>
  BY DEF queues
<1> QED BY <1>1, <1>2, <1>3, <1>4, <1>5, TaskKeeps

LEMMA CreateKeeps == ASSUME IInv, NEW t \in Tasks, NEW n \in Names, Create(t, n) PROVE IInv'
<1> DEFINE r == [Idle EXCEPT !.pc = "new", !.n = n]
<1>1. r \in OpType /\ r.pc = "new" /\ r.n = n
  BY IdleType DEF OpType
<1>2. Become(t, r) /\ UNCHANGED <<queues, alive, mqueue_ids, kernel, odd>> /\ op[t].pc = "idle"
  BY IdleType DEF Create
<1>3. \A q \in mqueues : name[q] # n
  BY Types, Looked DEF Create
<1> HIDE DEF r
<1>4. chan' \in [Queues -> [Ways -> Seq(Messages)]] /\ \A p \in Queues, v \in Ways : chan'[p][v] = chan[p][v]
  BY <1>2, Types DEF queues
<1>5. UNCHANGED <<mqueues, made, name, alive, mqueue_ids, kernel, odd>>
  BY <1>2 DEF queues
<1> QED BY <1>1, <1>2, <1>3, <1>4, <1>5, TaskKeeps

LEMMA NewFailsKeeps == ASSUME IInv, NEW t \in Tasks, NewFails(t) PROVE IInv'
  BY TaskStops DEF NewFails, queues

LEMMA AddFailsKeeps == ASSUME IInv, NEW t \in Tasks, AddFails(t) PROVE IInv'
  BY TaskStops DEF AddFails, queues

LEMMA UnlinkKeeps == ASSUME IInv, NEW t \in Tasks, Unlink(t) PROVE IInv'
  BY TaskStops DEF Unlink

LEMMA C_PushKeeps == ASSUME IInv, NEW t \in Tasks, NEW n \in Names, C_Push(t, n) PROVE IInv'
<1> DEFINE q == MqGetPtrByName(n)
           m == [tid |-> t, reply |-> TRUE, no |-> 0]
<1>1. q \in Queues
  BY Types, Looked DEF C_Push
<1>2. m \in Messages /\ m.tid # KERNEL
  BY Constants, MQueueAssumption DEF Messages
<1>3. BeginAdd(t, q, "out", m) /\ UNCHANGED <<queues, alive, mqueue_ids, kernel, odd>> /\ op[t].pc = "idle"
  BY IdleType DEF C_Push
<1> HIDE DEF q, m
<1> QED BY <1>1, <1>2, <1>3, Constants, BeginAddKeeps

\* A step that has nothing to do with messages.
LEMMA AnsweringSame ==
  ASSUME IInv, UNCHANGED <<chan, op, asked, answer, odd>> PROVE Answering'
<1>1. Others(KERNEL) /\ KERNEL \in Actors /\ KERNEL \notin Tasks
  BY Constants DEF Others
<1> QED BY <1>1, Types, AnsweringKept

LEMMA DeleteKeeps == ASSUME IInv, NEW t \in Tasks, NEW q \in Queues, Delete(t, q) PROVE IInv'
<1> DEFINE r == [Idle EXCEPT !.pc = "unlink", !.q = q]
<1>1. r \in OpType /\ r.pc = "unlink" /\ r.q = q
  BY IdleType DEF OpType
<1>2. Become(t, r) /\ UNCHANGED <<mqueues, made, name, alive, mqueue_ids, kernel, odd>> /\ op[t].pc = "idle"
  BY IdleType DEF Delete
<1> HIDE DEF r
<1>3. chan' = [chan EXCEPT ![q] = [w \in Ways |-> <<>>]]
  BY DEF Delete
<1>4. /\ chan' \in [Queues -> [Ways -> Seq(Messages)]]
      /\ \A p \in Queues, v \in Ways : chan'[p][v] = chan[p][v] \/ chan'[p][v] = <<>>
  <2>1. [w \in Ways |-> <<>>] \in [Ways -> Seq(Messages)]
    OBVIOUS
  <2> QED BY <1>3, <2>1, Types
<1> QED BY <1>1, <1>2, <1>4, TaskKeeps

LEMMA S_PushKeeps == ASSUME IInv, NEW t \in Tasks, S_Push(t) PROVE IInv'
<1>1. /\ op[t].pc = "serve" /\ UNCHANGED <<queues, alive, mqueue_ids, kernel>>
      /\ op[t] \in OpType /\ op[t].q \in Queues /\ op[t].m \in Messages
  BY Types, Constants DEF S_Push, Held, Ready, OpType
<1>2. CASE Become(t, Idle) /\ odd' = odd
  BY <1>1, <1>2, TaskStops DEF queues
<1>3. CASE Refused(t, op[t].q, "in")
  BY <1>1, <1>3, TaskStops DEF queues, Refused
<1>4. CASE Answers(op[t].m) /\ BeginAdd(t, op[t].q, "in", op[t].m) /\ odd' = odd
  <2>1. op[t].m.reply = TRUE
    BY <1>1, <1>4 DEF Answers, Messages
  <2>2. op[t].m.tid = KERNEL => Pending(t)
    BY <1>1, <2>1 DEF Pending
  <2> QED BY <1>1, <1>4, <2>1, <2>2, Constants, BeginAddKeeps
<1> QED BY <1>2, <1>3, <1>4 DEF S_Push

LEMMA C_PopKeeps == ASSUME IInv, NEW t \in Tasks, NEW n \in Names, C_Pop(t, n) PROVE IInv'
<1> DEFINE q == MqGetPtrByName(n)
           s == MqPopMessageWithTaskID(q, t)
<1>1. q \in Queues /\ t \in Actors
  BY Types, Looked, Constants DEF C_Pop
<1>2. chan' = [chan EXCEPT ![q]["in"] = s]
  BY DEF C_Pop
<1>3. UNCHANGED <<mqueues, made, name, alive, mqueue_ids, op, kernel, odd>>
  BY DEF C_Pop
<1> HIDE DEF q
<1>4. /\ s \in Seq(Messages) /\ Len(s) <= Len(chan[q]["in"])
      /\ (\A i \in DOMAIN chan[q]["in"] : chan[q]["in"][i].tid # t) => s = chan[q]["in"]
  BY <1>1, Types, Rest
<1> HIDE DEF s
<1>5. /\ chan' \in [Queues -> [Ways -> Seq(Messages)]]
      /\ \A p \in Queues, v \in Ways : chan'[p][v] = IF p = q /\ v = "in" THEN s ELSE chan[p][v]
  BY <1>1, <1>2, <1>4, Types, Constants
<1>6. Others(t) /\ op' \in [Actors -> OpType] /\ odd' = odd
  BY <1>3, Types DEF Others
<1>7. TypeInv'
  <2>1. Ready(t)'
    BY <1>3, Types DEF Held, Ready
  <2>2. alive' \subseteq Tasks /\ mqueue_ids' \in [Tasks -> SUBSET Queues]
    BY <1>3, Types
  <2>3. UNCHANGED <<made, name, kernel>> /\ mqueues' \subseteq mqueues
    BY <1>3
  <2> QED BY <1>5, <1>6, <2>1, <2>2, <2>3, Types, TaskTypes
<1>8. Room'
  <2>1. ASSUME NEW p \in Queues, NEW v \in Ways
        PROVE  Len(chan'[p][v]) \in Nat /\ Len(chan'[p][v]) <= Len(chan[p][v])
    <3>1. chan'[p][v] \in Seq(Messages) /\ chan[p][v] \in Seq(Messages)
      BY <1>5, Types
    <3> QED BY <1>4, <1>5, <3>1
  <2>2. op'[t].pc # "add"
    BY <1>3, IdleType DEF C_Pop
  <2> QED BY <1>1, <1>6, <2>1, <2>2, Types, RoomKept
<1>9. Distinct'
  BY <1>3, Types DEF Distinct
<1>10. OwnedUnlessKilled'
  BY <1>3, Types DEF OwnedUnlessKilled
<1>11. Answering'
  <2>1. CASE odd \cap {"gaveup", "shared"} # {}
    BY <1>3, <2>1 DEF Answering
  <2>2. CASE odd \cap {"gaveup", "shared"} = {}
    <3>1. \A i \in DOMAIN chan[q]["in"] : chan[q]["in"][i].tid # t
      <4>1. "in" \in Ways /\ t # KERNEL /\ Answering
        BY Types, Constants
      <4> QED BY <1>1, <2>2, <4>1 DEF Answering
    <3>2. chan' = chan
      BY <1>1, <1>2, <1>4, <3>1, Types, Constants
    <3> QED BY <1>3, <3>2, Types, AnsweringSame DEF kernel
  <2> QED BY <2>1, <2>2
<1> QED BY <1>7, <1>8, <1>9, <1>10, <1>11 DEF IInv

LEMMA StartKeeps == ASSUME IInv, NEW t \in Tasks, Start(t) PROVE IInv'
<1>1. UNCHANGED <<queues, mqueue_ids, op, kernel, odd>> /\ alive' = alive \cup {t}
  BY DEF Start
<1>2. TypeInv'
  BY <1>1, Types DEF TypeInv, TypeOK, Held, Listed, Ready, KernelReady, queues, kernel
<1>3. Room' /\ Distinct'
  BY <1>1, Types DEF Room, Distinct, queues
<1>4. OwnedUnlessKilled'
  BY <1>1, Types DEF OwnedUnlessKilled, queues
<1>5. Answering'
  BY <1>1, Types, AnsweringSame DEF queues, kernel
<1> QED BY <1>2, <1>3, <1>4, <1>5 DEF IInv

LEMMA NewAddKeeps == ASSUME IInv, NEW t \in alive, NewAdd(t) PROVE IInv'
<1> DEFINE r == [op[t] EXCEPT !.pc = "name", !.q = made + 1]
<1>0. t \in Tasks /\ t \in Actors /\ t # KERNEL
  BY Types, Constants
<1>1. made \in Nat /\ made + 1 \in Queues /\ made + 1 \in 0 .. MaxQueues
  BY Types, MQueueAssumption DEF NewAdd, Queues
<1>2. /\ r \in OpType /\ r.pc = "name" /\ r.q = made + 1 /\ r.n = op[t].n /\ r.late = op[t].late
      /\ op[t].pc = "new" /\ op[t] \in OpType
  BY <1>0, <1>1, Types DEF OpType, NewAdd
<1>3. /\ Become(t, r) /\ mqueues' = mqueues \cup {made + 1} /\ made' = made + 1
      /\ UNCHANGED <<name, chan, alive, mqueue_ids, kernel, odd>>
  BY DEF NewAdd
<1> HIDE DEF r
<1>4. op' \in [Actors -> OpType] /\ op'[t] = r /\ Others(t)
  BY <1>0, <1>2, <1>3, Types, Moved
<1>5. TypeInv'
  <2>1. TypeOK'
    BY <1>1, <1>3, <1>4, Types DEF TypeOK, OpType, kernel
  <2>2. Listed'
    <3>1. mqueues \subseteq 1 .. made /\ \A q \in Queues : q > made => name[q] = GARBAGE
      BY Types DEF Held, Listed
    <3>2. 1 .. made \subseteq 1 .. made + 1 /\ made + 1 \in 1 .. made + 1
      BY <1>1
    <3>3. \A q \in Queues : q > made + 1 => q > made
      BY <1>1, Constants
    <3> QED BY <1>3, <3>1, <3>2, <3>3 DEF Listed
  <2>3. Ready(t)'
    <3>1. op[t].n \in Names
      BY <1>0, <1>2, Types DEF Held, Ready
    <3>2. made + 1 \in 1 .. made'
      BY <1>1, <1>3
    <3> QED BY <1>1, <1>2, <1>4, <3>1, <3>2 DEF Ready
  <2>4. made' \in Nat /\ made <= made' /\ mqueue' = mqueue /\ asked' = asked
    BY <1>1, <1>3 DEF kernel
  <2> QED BY <1>0, <1>4, <2>1, <2>2, <2>3, <2>4, Types, TaskHeld DEF TypeInv
<1>6. Room'
  <2>1. \A q \in Queues, w \in Ways : Len(chan'[q][w]) \in Nat /\ Len(chan'[q][w]) <= Len(chan[q][w])
    BY <1>3, Types, Shrinks
  <2> QED BY <1>0, <1>2, <1>3, <1>4, <2>1, Types, RoomKept
<1>7. Distinct'
  <2> SUFFICES ASSUME "twins" \notin odd' PROVE Distinct'
    BY DEF Distinct
  <2>0. Distinct /\ "twins" \notin odd /\ name' = name
    BY <1>3, Types
  <2>1. name[made + 1] = GARBAGE
    <3>1. made + 1 > made
      BY <1>1
    <3> QED BY <1>1, <3>1, Types DEF Held, Listed
  <2>2. \A p, q \in mqueues' : name[p] = name[q] /\ name[p] \in Names => p = q
    BY <1>3, <2>0, <2>1, Constants DEF Distinct
  <2>3. ASSUME NEW u \in Tasks, op'[u].pc \in {"new", "name"}, op'[u].late = FALSE
        PROVE  \A q \in mqueues' : name[q] # op'[u].n
    <3>1. op[u].pc \in {"new", "name"} /\ op[u].late = FALSE /\ op'[u].n = op[u].n
      <4>1. CASE u = t
        BY <1>2, <1>4, <2>3, <4>1
      <4>2. CASE u # t
        BY <1>4, <2>3, <4>2, Types, Constants DEF Others, OpType
      <4> QED BY <4>1, <4>2
    <3>2. op[u].n \in Names
      BY <3>1, Types DEF Held, Ready
    <3> QED BY <1>3, <2>0, <2>1, <3>1, <3>2, Constants DEF Distinct
  <2> QED BY <2>0, <2>2, <2>3 DEF Distinct
<1>8. OwnedUnlessKilled'
  <2> SUFFICES ASSUME "unowned" \notin odd', NEW q \in mqueues'
               PROVE  \E u \in alive' : \/ q \in mqueue_ids'[u]
                                        \/ op'[u].pc \in {"name", "record"} /\ op'[u].q = q
    BY DEF OwnedUnlessKilled
  <2>1. CASE q = made + 1
    BY <1>2, <1>3, <1>4, <2>1
  <2>2. CASE q \in mqueues
    <3>1. PICK u \in alive : q \in mqueue_ids[u] \/ (op[u].pc \in {"name", "record"} /\ op[u].q = q)
      BY <1>3, <2>2, Types DEF OwnedUnlessKilled
    <3>2. CASE u = t
      BY <1>2, <1>3, <3>1, <3>2
    <3>3. CASE u # t
      BY <1>3, <1>4, <3>1, <3>3, Types, Constants DEF Others
    <3> QED BY <3>2, <3>3
  <2> QED BY <1>3, <2>1, <2>2
<1>9. Answering'
  <2>1. op'[KERNEL].pc = op[KERNEL].pc /\ ~Pending(t)'
    BY <1>0, <1>2, <1>4, Constants DEF Others, Pending
  <2>2. asked' = asked /\ answer' = answer /\ odd' = odd /\ chan' = chan
    BY <1>3 DEF kernel
  <2> QED BY <1>0, <1>2, <1>4, <2>1, <2>2, Types, AnsweringKept
<1> QED BY <1>5, <1>6, <1>7, <1>8, <1>9 DEF IInv

LEMMA NewNameKeeps == ASSUME IInv, NEW t \in alive, NewName(t) PROVE IInv'
<1> DEFINE q == op[t].q
           n == op[t].n
<1>0. t \in Tasks /\ t \in Actors /\ t # KERNEL
  BY Types, Constants
<1>1. /\ op[t] \in OpType /\ op[t].pc = "name" /\ n \in Names /\ q \in Queues /\ q \in 1 .. made
      /\ made \in Nat
  BY <1>0, Types, MQueueAssumption DEF NewName, Held, Ready
<1>2. /\ name' = [name EXCEPT ![q] = n] /\ odd' = odd \cup (IF op[t].late THEN {"twins"} ELSE {})
      /\ UNCHANGED <<mqueues, made, chan, alive, mqueue_ids, kernel>>
  BY DEF NewName
<1>3. op'[t] = [op[t] EXCEPT !.pc = "record"]
  BY <1>0 DEF NewName
<1>4. ASSUME NEW u \in Actors, u # t
      PROVE  op'[u] = IF op[u].pc \in {"new", "name"} /\ op[u].n = n THEN [op[u] EXCEPT !.late = TRUE] ELSE op[u]
  BY <1>4 DEF NewName
<1> HIDE DEF q, n
<1>5. op'[t] \in OpType /\ op'[t].pc = "record" /\ op'[t].q = q
  BY <1>1, <1>3 DEF OpType, q
<1>6. ASSUME NEW u \in Actors, u # t
      PROVE  /\ op'[u] \in OpType
             /\ op'[u].pc = op[u].pc /\ op'[u].q = op[u].q /\ op'[u].w = op[u].w
             /\ op'[u].m = op[u].m /\ op'[u].n = op[u].n
             /\ op[u].late = TRUE => op'[u].late = TRUE
             /\ op[u].pc \in {"new", "name"} /\ op[u].n = n => op'[u].late = TRUE
  <2>1. op[u] \in OpType
    BY <1>6, Types
  <2>2. CASE op[u].pc \in {"new", "name"} /\ op[u].n = n
    BY <1>4, <1>6, <2>1, <2>2, Overtaken
  <2>3. CASE ~(op[u].pc \in {"new", "name"} /\ op[u].n = n)
    BY <1>4, <1>6, <2>1, <2>3
  <2> QED BY <2>2, <2>3
<1>7. op' \in [Actors -> OpType] /\ Others(t)
  <2>1. Others(t)
    BY <1>6 DEF Others
  <2>2. op' = [u \in Actors |-> op'[u]]
    BY DEF NewName
  <2>3. \A u \in Actors : op'[u] \in OpType
    BY <1>5, <1>6
  <2>4. op' \in [Actors -> OpType]
    BY <2>2, <2>3
  <2> QED BY <2>1, <2>4
<1>8. TypeInv'
  <2>1. TypeOK'
    <3>1. name' \in [Queues -> Names \cup {GARBAGE}]
      BY <1>1, <1>2, Types DEF TypeOK
    <3> QED BY <1>2, <1>7, <3>1, Types DEF TypeOK, OpType, kernel
  <2>2. Listed'
    <3>1. \A p \in Queues : p > made => p # q /\ name'[p] = name[p]
      BY <1>1, <1>2, Types DEF TypeOK
    <3> QED BY <1>2, <3>1, Types DEF Held, Listed
  <2>3. Ready(t)'
    BY <1>1, <1>5 DEF Ready
  <2>4. made' \in Nat /\ made <= made' /\ mqueue' = mqueue /\ asked' = asked
    BY <1>1, <1>2 DEF kernel
  <2> QED BY <1>0, <1>7, <2>1, <2>2, <2>3, <2>4, Types, TaskHeld DEF TypeInv
<1>9. Room'
  <2>1. \A p \in Queues, w \in Ways : Len(chan'[p][w]) \in Nat /\ Len(chan'[p][w]) <= Len(chan[p][w])
    BY <1>2, Types, Shrinks
  <2> QED BY <1>0, <1>2, <1>5, <1>7, <2>1, Types, RoomKept
<1>10. Distinct'
  <2> SUFFICES ASSUME "twins" \notin odd' PROVE Distinct'
    BY DEF Distinct
  <2>0. Distinct /\ "twins" \notin odd /\ op[t].late = FALSE
    BY <1>1, <1>2, Types DEF OpType
  <2>1. \A p \in mqueues : name[p] # n
    BY <1>0, <1>1, <2>0 DEF Distinct, n
  <2>2. \A p \in mqueues : name'[p] = IF p = q THEN n ELSE name[p]
    BY <1>1, <1>2, Types DEF TypeOK
  <2>3. \A p, s \in mqueues' : name'[p] = name'[s] /\ name'[p] \in Names => p = s
    BY <1>2, <2>0, <2>1, <2>2 DEF Distinct
  <2>4. ASSUME NEW u \in Tasks, op'[u].pc \in {"new", "name"}, op'[u].late = FALSE
        PROVE  \A p \in mqueues' : name'[p] # op'[u].n
    <3>1. u # t /\ u \in Actors
      BY <1>5, <2>4, Constants
    <3>2. op[u].pc \in {"new", "name"} /\ op[u].late = FALSE /\ op'[u].n = op[u].n /\ op[u].n # n
      BY <1>6, <2>4, <3>1, Types DEF OpType
    <3> QED BY <1>2, <2>0, <2>2, <3>2 DEF Distinct
  <2> QED BY <2>3, <2>4 DEF Distinct
<1>11. OwnedUnlessKilled'
  <2> SUFFICES ASSUME "unowned" \notin odd', NEW p \in mqueues'
               PROVE  \E u \in alive' : \/ p \in mqueue_ids'[u]
                                        \/ op'[u].pc \in {"name", "record"} /\ op'[u].q = p
    BY DEF OwnedUnlessKilled
  <2>1. PICK u \in alive : p \in mqueue_ids[u] \/ (op[u].pc \in {"name", "record"} /\ op[u].q = p)
    BY <1>2, Types DEF OwnedUnlessKilled
  <2>2. CASE u = t
    BY <1>2, <1>5, <2>1, <2>2 DEF q
  <2>3. CASE u # t
    BY <1>2, <1>6, <2>1, <2>3, Types, Constants
  <2> QED BY <2>2, <2>3
<1>12. Answering'
  <2>1. op'[KERNEL].pc = op[KERNEL].pc /\ ~Pending(t)'
    BY <1>0, <1>5, <1>7, Constants DEF Others, Pending
  <2>2. asked' = asked /\ answer' = answer /\ odd \subseteq odd' /\ chan' = chan
    BY <1>2 DEF kernel
  <2> QED BY <1>0, <1>5, <1>7, <2>1, <2>2, Types, AnsweringKept
<1> QED BY <1>8, <1>9, <1>10, <1>11, <1>12 DEF IInv

LEMMA RecordKeeps == ASSUME IInv, NEW t \in alive, Record(t) PROVE IInv'
<1>0. t \in Tasks /\ t \in Actors /\ t # KERNEL
  BY Types, Constants
<1>1. /\ mqueue_ids' = [mqueue_ids EXCEPT ![t] = @ \cup {op[t].q}] /\ Become(t, Idle) /\ op[t].pc = "record"
      /\ UNCHANGED <<queues, alive, kernel, odd>>
  BY DEF Record
<1>2. op[t].q \in Queues
  BY <1>0, <1>1, Types DEF Held, Ready
<1>3. op' \in [Actors -> OpType] /\ op'[t] = Idle /\ Others(t) /\ Idle.pc = "idle"
  BY <1>0, <1>1, Types, Moved, IdleType
<1>4. /\ mqueue_ids' \in [Tasks -> SUBSET Queues] /\ op[t].q \in mqueue_ids'[t]
      /\ \A u \in Tasks : mqueue_ids[u] \subseteq mqueue_ids'[u]
  BY <1>0, <1>1, <1>2, Types
<1>5. UNCHANGED <<mqueues, made, name, chan, alive, kernel, odd>>
  BY <1>1 DEF queues
<1>6. TypeInv'
  <2>1. Ready(t)'
    BY <1>3 DEF Ready
  <2>2. alive' \subseteq Tasks /\ chan' \in [Queues -> [Ways -> Seq(Messages)]] /\ mqueues' \subseteq mqueues
    BY <1>5, Types
  <2> QED BY <1>0, <1>3, <1>4, <1>5, <2>1, <2>2, Types, TaskTypes
<1>7. Room'
  <2>1. \A p \in Queues, w \in Ways : Len(chan'[p][w]) \in Nat /\ Len(chan'[p][w]) <= Len(chan[p][w])
    BY <1>5, Types, Shrinks
  <2> QED BY <1>0, <1>3, <1>5, <2>1, Types, RoomKept
<1>8. Distinct'
  BY <1>0, <1>3, <1>5, Types, DistinctKept
<1>9. OwnedUnlessKilled'
  <2> SUFFICES ASSUME "unowned" \notin odd', NEW p \in mqueues'
               PROVE  \E u \in alive' : \/ p \in mqueue_ids'[u]
                                        \/ op'[u].pc \in {"name", "record"} /\ op'[u].q = p
    BY DEF OwnedUnlessKilled
  <2>1. PICK u \in alive : p \in mqueue_ids[u] \/ (op[u].pc \in {"name", "record"} /\ op[u].q = p)
    BY <1>5, Types DEF OwnedUnlessKilled
  <2>2. CASE u = t
    BY <1>4, <1>5, <2>1, <2>2, Types
  <2>3. CASE u # t
    BY <1>3, <1>4, <1>5, <2>1, <2>3, Types, Constants DEF Others
  <2> QED BY <2>2, <2>3
<1>10. Answering'
  <2>1. op'[KERNEL].pc = op[KERNEL].pc /\ ~Pending(t)'
    BY <1>0, <1>3, Constants DEF Others, Pending
  <2>2. asked' = asked /\ answer' = answer /\ odd' = odd /\ chan' = chan
    BY <1>5 DEF kernel
  <2> QED BY <1>0, <1>3, <2>1, <2>2, Types, AnsweringKept
<1> QED BY <1>6, <1>7, <1>8, <1>9, <1>10 DEF IInv

LEMMA KillKeeps == ASSUME IInv, NEW t \in Tasks, Kill(t) PROVE IInv'
<1>0. t \in Actors /\ t # KERNEL
  BY Constants
<1>1. /\ alive' = alive \ {t} /\ mqueues' = mqueues \ mqueue_ids[t]
      /\ chan' = [q \in Queues |-> IF q \in mqueue_ids[t] THEN [w \in Ways |-> <<>>] ELSE chan[q]]
      /\ mqueue_ids' = [mqueue_ids EXCEPT ![t] = {}]
      /\ odd' = odd \cup (IF op[t].pc \in {"name", "record"} THEN {"unowned"} ELSE {})
      /\ Become(t, Idle) /\ UNCHANGED <<made, name, kernel>>
  BY DEF Kill, Owns
<1>2. op' \in [Actors -> OpType] /\ op'[t] = Idle /\ Others(t) /\ Idle.pc = "idle"
  BY <1>0, <1>1, Types, Moved, IdleType
<1>3. /\ chan' \in [Queues -> [Ways -> Seq(Messages)]]
      /\ \A q \in Queues, w \in Ways : chan'[q][w] = chan[q][w] \/ chan'[q][w] = <<>>
  <2>1. [w \in Ways |-> <<>>] \in [Ways -> Seq(Messages)]
    OBVIOUS
  <2> QED BY <1>1, <2>1, Types
<1>4. TypeInv'
  <2>1. Ready(t)'
    BY <1>2 DEF Ready
  <2>2. /\ alive' \subseteq Tasks /\ mqueue_ids' \in [Tasks -> SUBSET Queues] /\ mqueues' \subseteq mqueues
        /\ odd' \subseteq odd \cup {"unowned"}
    BY <1>1, Types
  <2> QED BY <1>1, <1>2, <1>3, <2>1, <2>2, Types, TaskTypes
<1>5. odd \subseteq odd' /\ mqueues' \subseteq mqueues /\ name' = name
  BY <1>1
<1>6. Room'
  BY <1>0, <1>2, <1>3, <1>5, Types, Shrinks, RoomKept
<1>7. Distinct'
  BY <1>0, <1>2, <1>5, Types, DistinctKept
<1>8. OwnedUnlessKilled'
  <2> SUFFICES ASSUME "unowned" \notin odd', NEW p \in mqueues'
               PROVE  \E u \in alive' : \/ p \in mqueue_ids'[u]
                                        \/ op'[u].pc \in {"name", "record"} /\ op'[u].q = p
    BY DEF OwnedUnlessKilled
  <2>1. PICK u \in alive : p \in mqueue_ids[u] \/ (op[u].pc \in {"name", "record"} /\ op[u].q = p)
    BY <1>5, Types DEF OwnedUnlessKilled
  <2>2. u # t
    BY <1>1, <2>1
  <2>3. u \in alive' /\ u \in Tasks /\ u \in Actors
    BY <1>1, <2>1, <2>2, Types, Constants
  <2>4. mqueue_ids'[u] = mqueue_ids[u] /\ op'[u].pc = op[u].pc /\ op'[u].q = op[u].q
    BY <1>1, <1>2, <2>2, <2>3, Types DEF Others
  <2> QED BY <2>1, <2>3, <2>4
<1>9. Answering'
  <2>1. op'[KERNEL].pc = op[KERNEL].pc /\ ~Pending(t)'
    BY <1>0, <1>2, Constants DEF Others, Pending
  <2>2. asked' = asked /\ answer' = answer
    BY <1>1 DEF kernel
  <2> QED BY <1>0, <1>2, <1>3, <1>5, <2>1, <2>2, Types, AnsweringKept
<1> QED BY <1>4, <1>6, <1>7, <1>8, <1>9 DEF IInv
-----------------------------------------------------------------------------
(* Messages on their way *)

\* The service t takes the first message of the channel.
LEMMA S_PopKeeps == ASSUME IInv, NEW t \in Tasks, NEW q \in Queues, S_Pop(t, q) PROVE IInv'
<1> DEFINE s == chan[q]["out"]
           r == [Idle EXCEPT !.pc = "serve", !.q = q, !.m = Head(s)]
<1>0. t \in Actors /\ t # KERNEL /\ "out" \in Ways
  BY Constants
<1>1. s \in Seq(Messages) /\ s # <<>> /\ op[t].pc = "idle"
  BY <1>0, Types, IdleType DEF S_Pop
<1>2. Head(s) \in Messages /\ Tail(s) \in Seq(Messages) /\ Head(s) = s[1] /\ 1 \in DOMAIN s
  BY <1>1
<1>3. r \in OpType /\ r.pc = "serve" /\ r.q = q /\ r.m = s[1]
  BY <1>2, IdleType DEF OpType
<1>4. /\ Become(t, r) /\ UNCHANGED <<mqueues, made, name, alive, mqueue_ids, kernel, odd>>
      /\ chan' = [chan EXCEPT ![q]["out"] = Tail(s)]
  BY DEF S_Pop
<1> HIDE DEF r, s
<1>5. op' \in [Actors -> OpType] /\ op'[t] = r /\ Others(t)
  BY <1>0, <1>3, <1>4, Types, Moved
<1>6. /\ chan' \in [Queues -> [Ways -> Seq(Messages)]]
      /\ \A p \in Queues, v \in Ways : chan'[p][v] = IF p = q /\ v = "out" THEN Tail(s) ELSE chan[p][v]
  BY <1>0, <1>2, <1>4, Types
<1>7. TypeInv'
  <2>1. Ready(t)'
    BY <1>3, <1>5 DEF Ready
  <2>2. /\ alive' \subseteq Tasks /\ mqueue_ids' \in [Tasks -> SUBSET Queues] /\ mqueues' \subseteq mqueues
        /\ odd' = odd
    BY <1>4, Types
  <2> QED BY <1>4, <1>5, <1>6, <2>1, <2>2, Types, TaskTypes
<1>8. Room'
  <2>1. ASSUME NEW p \in Queues, NEW v \in Ways
        PROVE  Len(chan'[p][v]) \in Nat /\ Len(chan'[p][v]) <= Len(chan[p][v])
    <3>1. CASE p = q /\ v = "out"
      <4>1. Len(s) \in Nat /\ Len(Tail(s)) = Len(s) - 1 /\ Len(Tail(s)) \in Nat
        BY <1>1, <1>2
      <4>2. chan'[p][v] = Tail(s) /\ chan[p][v] = s
        BY <1>6, <3>1 DEF s
      <4>3. Len(s) - 1 <= Len(s)
        BY <4>1
      <4> QED BY <4>1, <4>2, <4>3
    <3>2. CASE ~(p = q /\ v = "out")
      <4>1. chan'[p][v] = chan[p][v] /\ chan[p][v] \in Seq(Messages)
        BY <1>6, <3>2, Types
      <4> QED BY <4>1
    <3> QED BY <3>1, <3>2
  <2>2. odd \subseteq odd'
    BY <1>4
  <2> QED BY <1>0, <1>3, <1>5, <2>1, <2>2, Types, RoomKept
<1>9. Distinct'
  BY <1>0, <1>3, <1>4, <1>5, Types, DistinctKept
<1>10. OwnedUnlessKilled'
  BY <1>0, <1>1, <1>4, <1>5, Types, OwnedKept
<1>11. Answering'
  <2> SUFFICES ASSUME odd \cap {"gaveup", "shared"} = {} PROVE Answering'
    BY <1>4 DEF Answering
  <2>0. Answering /\ asked' = asked /\ answer' = answer /\ op'[KERNEL].pc = op[KERNEL].pc
    BY <1>0, <1>4, <1>5, Types, Constants DEF kernel, Others
  <2>1. ASSUME NEW u \in Tasks, u # t PROVE (Pending(u)' <=> Pending(u)) /\ op'[u].m = op[u].m
                                            /\ op'[u].pc = op[u].pc
    BY <1>5, <2>1, Constants DEF Others, Pending
  <2>2. ~Pending(t) /\ s[1].tid = KERNEL
    BY <1>0, <1>1, <1>2, <2>0 DEF Pending, Answering, s
  <2>3. Pending(t)' <=> s[1].reply = TRUE
    BY <1>3, <1>5, <2>2 DEF Pending
  \* Each message that is in a channel afterwards was in it before, and was
  \* not the one that was taken.
  <2>4. ASSUME NEW p \in Queues, NEW v \in Ways, NEW i \in DOMAIN chan'[p][v]
        PROVE  \E k \in DOMAIN chan[p][v] :
                 /\ chan'[p][v][i] = chan[p][v][k]
                 /\ p = q /\ v = "out" => k = i + 1 /\ k # 1 /\ i \in Nat
                 /\ ~(p = q /\ v = "out") => k = i
    <3>1. CASE p = q /\ v = "out"
      <4>1. chan'[p][v] = Tail(s) /\ chan[p][v] = s
        BY <1>6, <3>1 DEF s
      <4>2. i \in 1 .. Len(s) - 1 /\ Tail(s)[i] = s[i + 1] /\ i + 1 \in DOMAIN s /\ i + 1 # 1 /\ i \in Nat
        BY <1>1, <2>4, <4>1
      <4> QED BY <3>1, <4>1, <4>2
    <3>2. CASE ~(p = q /\ v = "out")
      BY <1>6, <2>4, <3>2
    <3> QED BY <3>1, <3>2
  <2>5. ASSUME NEW p \in Queues, NEW v \in Ways, NEW i \in DOMAIN chan'[p][v]
        PROVE  /\ chan'[p][v][i].tid = KERNEL
               /\ v = "in" => chan'[p][v][i].reply = TRUE
               /\ chan'[p][v][i].reply = TRUE =>
                    /\ op'[KERNEL].pc = "wait" /\ chan'[p][v][i].no = asked'
                    /\ \A u \in Tasks : ~Pending(u)'
                    /\ \A x \in Queues, y \in Ways : \A j \in DOMAIN chan'[x][y] :
                         chan'[x][y][j].reply = TRUE => x = p /\ y = v /\ j = i
    <3>1. PICK k \in DOMAIN chan[p][v] :
                 /\ chan'[p][v][i] = chan[p][v][k]
                 /\ p = q /\ v = "out" => k = i + 1 /\ k # 1 /\ i \in Nat
                 /\ ~(p = q /\ v = "out") => k = i
      BY <2>4
    <3>2. chan[p][v][k].tid = KERNEL /\ (v = "in" => chan[p][v][k].reply = TRUE)
      BY <2>0 DEF Answering
    <3>3. ASSUME chan[p][v][k].reply = TRUE
          PROVE  op'[KERNEL].pc = "wait" /\ chan'[p][v][i].no = asked' /\ \A u \in Tasks : ~Pending(u)'
      <4>1. op[KERNEL].pc = "wait" /\ chan[p][v][k].no = asked /\ \A u \in Tasks : ~Pending(u)
        BY <2>0, <3>3 DEF Answering
      <4>2. s[1].reply # TRUE
        <5>1. ASSUME s[1].reply = TRUE PROVE q = p /\ "out" = v /\ 1 = k
          BY <1>0, <1>2, <2>0, <3>3, <5>1 DEF Answering, s
        <5> QED BY <3>1, <5>1
      <4> QED BY <2>0, <2>1, <2>3, <3>1, <4>1, <4>2
    <3>4. ASSUME chan[p][v][k].reply = TRUE, NEW x \in Queues, NEW y \in Ways, NEW j \in DOMAIN chan'[x][y],
                 chan'[x][y][j].reply = TRUE
          PROVE  x = p /\ y = v /\ j = i
      <4>1. PICK l \in DOMAIN chan[x][y] :
                 /\ chan'[x][y][j] = chan[x][y][l]
                 /\ x = q /\ y = "out" => l = j + 1 /\ l # 1 /\ j \in Nat
                 /\ ~(x = q /\ y = "out") => l = j
        BY <2>4
      <4>2. x = p /\ y = v /\ l = k
        BY <2>0, <3>4, <4>1 DEF Answering
      <4> QED BY <3>1, <4>1, <4>2
    <3> QED BY <3>1, <3>2, <3>3, <3>4
  <2>6. ASSUME NEW u \in Tasks
        PROVE  /\ op'[u].pc = "serve" => op'[u].m.tid = KERNEL
               /\ op'[u].pc = "add" /\ op'[u].m.tid = KERNEL => op'[u].m.reply = TRUE
               /\ Pending(u)' => /\ op'[KERNEL].pc = "wait" /\ op'[u].m.no = asked'
                                 /\ \A w \in Tasks : Pending(w)' => w = u
    <3>1. s[1].reply = TRUE => op[KERNEL].pc = "wait" /\ s[1].no = asked /\ \A w \in Tasks : ~Pending(w)
      BY <1>0, <1>2, <2>0 DEF Answering, s
    <3>2. CASE u = t
      BY <1>3, <1>5, <2>0, <2>1, <2>2, <2>3, <3>1, <3>2
    <3>3. CASE u # t
      BY <2>0, <2>1, <2>3, <3>1, <3>3 DEF Answering
    <3> QED BY <3>2, <3>3
  <2>7. answer'[2].no = answer'[1]
    BY <2>0 DEF Answering
  <2> QED BY <2>5, <2>6, <2>7 DEF Answering
<1> QED BY <1>7, <1>8, <1>9, <1>10, <1>11 DEF IInv

\* a appends its message to the channel.
LEMMA AddKeeps == ASSUME IInv, NEW a \in Actors, Add(a) PROVE IInv'
<1> DEFINE q == op[a].q
           w == op[a].w
           m == op[a].m
           s == chan[q][w]
<1>1. op[a].pc = "add" /\ op[a] \in OpType /\ w \in Ways /\ m \in Messages
  BY Types DEF Add, OpType
<1>2. q \in Queues
  BY <1>1, Types DEF Held, Ready, KernelReady, Actors
<1>3. s \in Seq(Messages) /\ Len(s) \in Nat
  BY <1>1, <1>2, Types
<1>4. /\ chan' = [chan EXCEPT ![q][w] = Append(s, m)]
      /\ odd' = odd \cup (IF op[a].late THEN {"crowded"} ELSE {}) \cup (IF m.tid # KERNEL THEN {"shared"} ELSE {})
      /\ UNCHANGED <<mqueues, made, name, alive, mqueue_ids, kernel>>
  BY <1>1, <1>2, Types DEF Add
<1>5. op'[a] = After(a) /\ op' = [b \in Actors |-> op'[b]]
  BY DEF Add
<1>6. ASSUME NEW b \in Actors, b # a
      PROVE  op'[b] = IF op[b].pc = "add" /\ op[b].q = q /\ op[b].w = w THEN [op[b] EXCEPT !.late = TRUE] ELSE op[b]
  BY <1>6 DEF Add
<1> HIDE DEF q, w, m, s
<1>7. /\ op'[a] \in OpType /\ op'[a].pc \in {"idle", "wait"}
      /\ op'[a].pc = "wait" <=> a = KERNEL /\ m.reply = TRUE
  <2>1. m.reply \in BOOLEAN
    BY <1>1 DEF Messages
  <2>2. [Idle EXCEPT !.pc = "wait"] \in OpType /\ [Idle EXCEPT !.pc = "wait"].pc = "wait"
    BY IdleType DEF OpType
  <2> QED BY <1>5, <2>1, <2>2, IdleType DEF After, m
<1>8. ASSUME NEW b \in Actors, b # a
      PROVE  /\ op'[b] \in OpType
             /\ op'[b].pc = op[b].pc /\ op'[b].q = op[b].q /\ op'[b].w = op[b].w
             /\ op'[b].m = op[b].m /\ op'[b].n = op[b].n
             /\ op[b].late = TRUE => op'[b].late = TRUE
             /\ op[b].pc = "add" /\ op[b].q = q /\ op[b].w = w => op'[b].late = TRUE
  <2>1. op[b] \in OpType
    BY <1>8, Types
  <2>2. CASE op[b].pc = "add" /\ op[b].q = q /\ op[b].w = w
    BY <1>6, <1>8, <2>1, <2>2, Overtaken
  <2>3. CASE ~(op[b].pc = "add" /\ op[b].q = q /\ op[b].w = w)
    BY <1>6, <1>8, <2>1, <2>3
  <2> QED BY <2>2, <2>3
<1>9. op' \in [Actors -> OpType] /\ Others(a)
  <2>1. Others(a)
    BY <1>8 DEF Others
  <2>2. \A b \in Actors : op'[b] \in OpType
    BY <1>7, <1>8
  <2>3. op' \in [Actors -> OpType]
    BY <1>5, <2>2
  <2> QED BY <2>1, <2>3
<1>10. /\ chan' \in [Queues -> [Ways -> Seq(Messages)]]
       /\ \A p \in Queues, v \in Ways : chan'[p][v] = IF p = q /\ v = w THEN Append(s, m) ELSE chan[p][v]
  <2>1. Append(s, m) \in Seq(Messages)
    BY <1>1, <1>3
  <2> QED BY <1>1, <1>2, <1>4, <2>1, Types
<1>11. TypeInv'
  <2>1. TypeOK'
    BY <1>4, <1>9, <1>10, Types DEF TypeOK, OpType, kernel
  <2>2. Listed'
    BY <1>4, Types DEF Held, Listed
  <2>3. made \in Nat /\ made' \in Nat /\ made' = made /\ made <= made' /\ mqueue' = mqueue /\ asked' = asked
    BY <1>4, Types, MQueueAssumption DEF kernel
  <2>4. CASE a = KERNEL
    <3>1. KernelReady'
      BY <1>1, <1>7, <2>3, <2>4, Types DEF Held, KernelReady
    <3> QED BY <1>9, <2>1, <2>2, <2>3, <2>4, <3>1, Types, KernelHeld DEF TypeInv
  <2>5. CASE a \in Tasks
    <3>1. Ready(a)'
      BY <1>7, <2>5, Constants DEF Ready
    <3> QED BY <1>9, <2>1, <2>2, <2>3, <2>5, <3>1, Types, TaskHeld DEF TypeInv
  <2> QED BY <2>4, <2>5 DEF Actors
<1>12. Room'
  <2> SUFFICES ASSUME "crowded" \notin odd' PROVE Room'
    BY DEF Room
  <2>0. Room /\ "crowded" \notin odd /\ op[a].late = FALSE /\ MAX_MESSAGE_COUNT \in Nat
    BY <1>1, <1>4, Types, MQueueAssumption DEF OpType
  <2>1. Len(s) < MAX_MESSAGE_COUNT /\ Len(Append(s, m)) = Len(s) + 1
    BY <1>1, <1>3, <2>0 DEF Room, q, w, s
  <2>2. ASSUME NEW p \in Queues, NEW v \in Ways PROVE Len(chan'[p][v]) <= MAX_MESSAGE_COUNT
    <3>1. CASE p = q /\ v = w
      <4>1. chan'[p][v] = Append(s, m)
        BY <1>10, <3>1
      <4>2. Len(s) + 1 <= MAX_MESSAGE_COUNT
        BY <1>3, <2>0, <2>1
      <4> QED BY <2>1, <4>1, <4>2
    <3>2. CASE ~(p = q /\ v = w)
      BY <1>10, <2>0, <3>2 DEF Room
    <3> QED BY <3>1, <3>2
  <2>3. ASSUME NEW b \in Actors, op'[b].pc = "add", op'[b].late = FALSE
        PROVE  Len(chan'[op'[b].q][op'[b].w]) < MAX_MESSAGE_COUNT
    <3>1. b # a
      BY <1>7, <2>3
    <3>2. /\ op[b].pc = "add" /\ op[b].late = FALSE /\ op'[b].q = op[b].q /\ op'[b].w = op[b].w
          /\ ~(op[b].q = q /\ op[b].w = w)
      BY <1>8, <2>3, <3>1, Types DEF OpType
    <3>3. op[b].q \in Queues /\ op[b].w \in Ways
      BY <3>2, Types DEF Held, Ready, KernelReady, Actors, OpType
    <3> QED BY <1>10, <2>0, <3>2, <3>3 DEF Room
  <2> QED BY <2>2, <2>3 DEF Room
<1>13. odd \subseteq odd' /\ mqueues' = mqueues /\ name' = name /\ alive' = alive /\ mqueue_ids' = mqueue_ids
  BY <1>4
<1>14. Distinct'
  BY <1>7, <1>9, <1>13, Types, DistinctKept
<1>15. OwnedUnlessKilled'
  BY <1>1, <1>9, <1>13, Types, OwnedKept
<1>16. Answering'
  <2> SUFFICES ASSUME odd' \cap {"gaveup", "shared"} = {} PROVE Answering'
    BY DEF Answering
  <2>0. /\ Answering /\ odd \cap {"gaveup", "shared"} = {} /\ asked' = asked /\ answer' = answer
        /\ m.tid = KERNEL
    BY <1>4, Types DEF kernel
  \* Nothing to be answered is in a channel, and nobody else has it.
  <2>1. /\ a = KERNEL => op[KERNEL].pc # "wait" /\ m.no = asked /\ w = "out"
        /\ a \in Tasks => op[KERNEL].pc = "wait" /\ m.no = asked /\ Pending(a) /\ m.reply = TRUE
    <3>1. CASE a = KERNEL
      BY <1>1, <3>1, Types, Constants DEF Held, KernelReady, m, w
    <3>2. CASE a \in Tasks
      <4>1. Pending(a) /\ m.reply = TRUE
        BY <1>1, <2>0, <3>2 DEF Answering, Pending, m
      <4> QED BY <2>0, <3>2, <4>1, Constants DEF Answering, m
    <3> QED BY <3>1, <3>2 DEF Actors
  <2>2. \A p \in Queues, v \in Ways : \A i \in DOMAIN chan[p][v] : chan[p][v][i].reply # TRUE
    BY <2>0, <2>1 DEF Answering, Actors
  <2>3. ASSUME NEW u \in Tasks PROVE ~Pending(u)'
    <3>1. CASE u = a
      BY <1>7, <3>1 DEF Pending
    <3>2. CASE u # a
      <4>1. Pending(u)' <=> Pending(u)
        BY <1>8, <3>2, Constants DEF Pending
      <4> QED BY <2>0, <2>1, <3>2, <4>1 DEF Answering, Actors
    <3> QED BY <3>1, <3>2
  <2>4. m.reply = TRUE => op'[KERNEL].pc = "wait"
    <3>1. CASE a = KERNEL
      BY <1>7, <3>1
    <3>2. CASE a \in Tasks
      BY <1>8, <2>1, <3>2, Constants
    <3> QED BY <3>1, <3>2 DEF Actors
  <2>5. ASSUME NEW p \in Queues, NEW v \in Ways, NEW i \in DOMAIN chan'[p][v]
        PROVE  \/ p = q /\ v = w /\ i = Len(s) + 1 /\ chan'[p][v][i] = m
               \/ i \in DOMAIN chan[p][v] /\ chan'[p][v][i] = chan[p][v][i]
    <3>1. CASE p = q /\ v = w
      <4>1. chan'[p][v] = Append(s, m) /\ chan[p][v] = s
        BY <1>10, <3>1 DEF s
      <4>2. i \in 1 .. Len(s) + 1 /\ Append(s, m)[Len(s) + 1] = m
        BY <1>1, <1>3, <2>5, <4>1
      <4>3. i # Len(s) + 1 => i \in DOMAIN s /\ Append(s, m)[i] = s[i]
        BY <1>1, <1>3, <4>2
      <4> QED BY <3>1, <4>1, <4>2, <4>3
    <3>2. CASE ~(p = q /\ v = w)
      BY <1>10, <2>5, <3>2
    <3> QED BY <3>1, <3>2
  <2>6. ASSUME NEW p \in Queues, NEW v \in Ways, NEW i \in DOMAIN chan'[p][v]
        PROVE  /\ chan'[p][v][i].tid = KERNEL
               /\ v = "in" => chan'[p][v][i].reply = TRUE
               /\ chan'[p][v][i].reply = TRUE =>
                    /\ op'[KERNEL].pc = "wait" /\ chan'[p][v][i].no = asked'
                    /\ \A u \in Tasks : ~Pending(u)'
                    /\ \A x \in Queues, y \in Ways : \A j \in DOMAIN chan'[x][y] :
                         chan'[x][y][j].reply = TRUE => x = p /\ y = v /\ j = i
    <3>0. ASSUME NEW x \in Queues, NEW y \in Ways, NEW j \in DOMAIN chan'[x][y], chan'[x][y][j].reply = TRUE
          PROVE  x = q /\ y = w /\ j = Len(s) + 1 /\ chan'[x][y][j] = m
      <4>1. \/ x = q /\ y = w /\ j = Len(s) + 1 /\ chan'[x][y][j] = m
            \/ j \in DOMAIN chan[x][y] /\ chan'[x][y][j] = chan[x][y][j]
        BY <2>5
      <4>2. ~(j \in DOMAIN chan[x][y] /\ chan'[x][y][j] = chan[x][y][j])
        BY <2>2, <3>0
      <4> QED BY <4>1, <4>2
    <3>1. CASE p = q /\ v = w /\ i = Len(s) + 1 /\ chan'[p][v][i] = m
      <4>1. v = "in" => m.reply = TRUE
        BY <2>1, <3>1 DEF Actors
      <4>2. m.no = asked
        BY <2>1 DEF Actors
      <4> QED BY <2>0, <2>3, <2>4, <3>0, <3>1, <4>1, <4>2
    <3>2. CASE i \in DOMAIN chan[p][v] /\ chan'[p][v][i] = chan[p][v][i]
      <4>1. chan[p][v][i].tid = KERNEL /\ (v = "in" => chan[p][v][i].reply = TRUE)
        BY <2>0, <3>2 DEF Answering
      <4> QED BY <2>2, <3>2, <4>1
    <3> QED BY <2>5, <3>1, <3>2
  <2>7. ASSUME NEW u \in Tasks
        PROVE  /\ op'[u].pc = "serve" => op'[u].m.tid = KERNEL
               /\ op'[u].pc = "add" /\ op'[u].m.tid = KERNEL => op'[u].m.reply = TRUE
    <3>1. CASE u = a
      BY <1>7, <3>1
    <3>2. CASE u # a
      BY <1>8, <2>0, <3>2, Constants DEF Answering
    <3> QED BY <3>1, <3>2
  <2>8. answer'[2].no = answer'[1]
    BY <2>0 DEF Answering
  <2> QED BY <2>3, <2>6, <2>7, <2>8 DEF Answering
<1> QED BY <1>11, <1>12, <1>14, <1>15, <1>16 DEF IInv

\* A step of the kernel that adds nothing to a channel and does not take an
\* answer.
LEMMA KernelKeeps ==
  ASSUME IInv, NEW r \in OpType, Become(KERNEL, r), UNCHANGED <<queues, alive, mqueue_ids, answer>>,
         mqueue' \in Queues \cup {NULL}, asked' \in 0 .. MaxRequests,
         odd \subseteq odd', odd' \subseteq odd \cup {"nomemory", "full", "gaveup"},
         r.pc \in {"idle", "add"},
         r.pc = "add" => /\ mqueue' \in Queues /\ r.q = mqueue' /\ r.w = "out"
                         /\ r.m.no = asked' /\ r.m.tid = KERNEL,
         r.pc = "add" /\ "crowded" \notin odd => Len(chan[r.q][r.w]) < MAX_MESSAGE_COUNT,
         op[KERNEL].pc # "wait" \/ "gaveup" \in odd'
  PROVE  IInv'
<1>1. op' \in [Actors -> OpType] /\ op'[KERNEL] = r /\ Others(KERNEL) /\ KERNEL \in Actors
  BY Types, Moved, Constants
<1>2. /\ mqueues' = mqueues /\ made' = made /\ name' = name /\ chan' = chan
      /\ alive' = alive /\ mqueue_ids' = mqueue_ids /\ answer' = answer
  BY DEF queues
<1>3. TypeInv'
  <2>1. TypeOK'
    BY <1>1, <1>2, Types DEF TypeOK, OpType
  <2>2. Listed'
    BY <1>2, Types DEF Held, Listed
  <2>3. KernelReady'
    BY <1>1 DEF KernelReady
  <2> QED BY <1>1, <1>2, <2>1, <2>2, <2>3, Types, KernelHeld DEF TypeInv
<1>4. Room'
  <2>1. \A q \in Queues, w \in Ways : chan'[q][w] = chan[q][w] \/ chan'[q][w] = <<>>
    BY <1>2
  <2>2. \A q \in Queues, w \in Ways : Len(chan'[q][w]) \in Nat /\ Len(chan'[q][w]) <= Len(chan[q][w])
    BY <1>2, <2>1, Types, Shrinks
  <2> QED BY <1>1, <1>2, <2>2, Types, RoomKept
<1>5. Distinct'
  BY <1>1, <1>2, Types, DistinctKept
<1>6. OwnedUnlessKilled'
  BY <1>1, <1>2, Types, OwnedKept DEF Held, KernelReady
<1>7. Answering'
  <2>1. CASE "gaveup" \in odd'
    BY <2>1 DEF Answering
  <2>2. CASE op[KERNEL].pc # "wait"
    <3>1. \A q \in Queues, w \in Ways : chan'[q][w] = chan[q][w] \/ chan'[q][w] = <<>>
      BY <1>2
    <3>2. KERNEL \notin Tasks
      BY Constants
    <3> QED BY <1>1, <1>2, <2>2, <3>1, <3>2, Types, AnsweringKept
  <2> QED BY <2>1, <2>2
<1> QED BY <1>3, <1>4, <1>5, <1>6, <1>7 DEF IInv

LEMMA K_FindKeeps == ASSUME IInv, K_Find PROVE IInv'
<1>1. Become(KERNEL, Idle)
  BY Types DEF K_Find, Become
<1>2. mqueue' \in Queues \cup {NULL}
  BY Types, Looked DEF K_Find
<1>3. op[KERNEL].pc # "wait"
  BY IdleType DEF K_Find
<1> QED BY <1>1, <1>2, <1>3, Types, IdleType, KernelKeeps DEF K_Find

LEMMA K_AskKeeps == ASSUME IInv, NEW r \in BOOLEAN, K_Ask(r) PROVE IInv'
<1> DEFINE m == [tid |-> KERNEL, reply |-> r, no |-> asked + 1]
           new == [Idle EXCEPT !.pc = "add", !.q = mqueue, !.w = "out", !.m = m]
<1>1. asked + 1 \in 0 .. MaxRequests /\ asked' = asked + 1 /\ mqueue' = mqueue /\ mqueue \in Queues
  <2>1. mqueue \in Queues
    BY Types DEF K_Ask, TypeOK
  <2> QED BY <2>1, Types, MQueueAssumption DEF K_Ask
<1>2. op[KERNEL].pc # "wait"
  BY IdleType DEF K_Ask
<1>3. CASE Refused(KERNEL, mqueue, "out")
  <2>1. Become(KERNEL, Idle) /\ odd' = odd \cup {"full"}
    BY <1>3 DEF Refused
  <2>2. mqueue' \in Queues \cup {NULL}
    BY <1>1
  <2> QED BY <1>1, <1>2, <2>1, <2>2, IdleType, KernelKeeps DEF K_Ask
<1>4. CASE BeginAdd(KERNEL, mqueue, "out", m) /\ odd' = odd
  <2>1. m \in Messages
    BY <1>1, Constants DEF Messages
  <2>2. /\ new \in OpType /\ new.pc = "add" /\ new.q = mqueue /\ new.w = "out" /\ new.m = m
    <3> HIDE DEF m
    <3> QED BY <1>1, <2>1, IdleType, Constants DEF OpType
  <2>3. m.no = asked' /\ m.tid = KERNEL
    BY <1>1
  <2>4. Become(KERNEL, new) /\ ~Full(mqueue, "out")
    BY <1>4 DEF BeginAdd
  <2>5. ASSUME "crowded" \notin odd PROVE Len(chan[mqueue]["out"]) < MAX_MESSAGE_COUNT
    <3>1. Len(chan[mqueue]["out"]) \in Nat
      BY <1>1, Types, Constants
    <3>2. Len(chan[mqueue]["out"]) <= MAX_MESSAGE_COUNT
      BY <1>1, <2>5, Types, Constants DEF Room
    <3> QED BY <2>4, <3>1, <3>2, MQueueAssumption DEF Full
  <2> HIDE DEF new, m
  <2> QED BY <1>1, <1>2, <1>4, <2>2, <2>3, <2>4, <2>5, KernelKeeps DEF K_Ask
<1> QED BY <1>3, <1>4 DEF K_Ask

LEMMA KernelAddFailsKeeps == ASSUME IInv, AddFails(KERNEL) PROVE IInv'
<1>1. op[KERNEL].pc # "wait"
  BY DEF AddFails
<1>2. mqueue' \in Queues \cup {NULL} /\ asked' \in 0 .. MaxRequests /\ answer' = answer
  BY Types DEF AddFails, kernel, TypeOK
<1> QED BY <1>1, <1>2, IdleType, KernelKeeps DEF AddFails

LEMMA K_GiveUpKeeps == ASSUME IInv, K_GiveUp PROVE IInv'
<1>1. mqueue' \in Queues \cup {NULL} /\ asked' \in 0 .. MaxRequests /\ answer' = answer
  BY Types DEF K_GiveUp, kernel, TypeOK
<1> QED BY <1>1, IdleType, KernelKeeps DEF K_GiveUp

\* The kernel takes the first message of the channel to it: there is no other.
LEMMA K_TakeKeeps == ASSUME IInv, K_Take PROVE IInv'
<1> DEFINE s == chan[mqueue]["in"]
<1>0. KERNEL \in Actors /\ KERNEL \notin Tasks /\ "in" \in Ways
  BY Constants
<1>1. mqueue \in Queues /\ op[KERNEL].pc = "wait"
  BY Types DEF K_Take, Held, KernelReady
<1>2. s \in Seq(Messages) /\ s # <<>>
  BY <1>0, <1>1, Types DEF K_Take
<1>3. Head(s) \in Messages /\ Tail(s) \in Seq(Messages) /\ Head(s) = s[1] /\ 1 \in DOMAIN s
  BY <1>2
<1>4. /\ Become(KERNEL, Idle) /\ answer' = <<asked, Head(s)>>
      /\ chan' = [chan EXCEPT ![mqueue]["in"] = Tail(s)]
      /\ mqueues' = mqueues /\ made' = made /\ name' = name /\ alive' = alive
      /\ mqueue_ids' = mqueue_ids /\ mqueue' = mqueue /\ asked' = asked /\ odd' = odd
  BY DEF K_Take
<1> HIDE DEF s
<1>5. op' \in [Actors -> OpType] /\ op'[KERNEL] = Idle /\ Others(KERNEL)
  BY <1>0, <1>4, IdleType, Types, Moved
<1>6. /\ chan' \in [Queues -> [Ways -> Seq(Messages)]]
      /\ \A p \in Queues, v \in Ways : chan'[p][v] = IF p = mqueue /\ v = "in" THEN Tail(s) ELSE chan[p][v]
  BY <1>0, <1>1, <1>3, <1>4, Types
<1>7. TypeInv'
  <2>1. answer' \in (0 .. MaxRequests) \X Messages
    BY <1>3, <1>4, Types
  <2>2. TypeOK'
    BY <1>4, <1>5, <1>6, <2>1, Types DEF TypeOK, OpType
  <2>3. Listed'
    BY <1>4, Types DEF Held, Listed
  <2>4. KernelReady'
    BY <1>5, IdleType DEF KernelReady
  <2> QED BY <1>4, <1>5, <2>2, <2>3, <2>4, Types, KernelHeld DEF TypeInv
<1>8. Room'
  <2>1. ASSUME NEW p \in Queues, NEW v \in Ways
        PROVE  Len(chan'[p][v]) \in Nat /\ Len(chan'[p][v]) <= Len(chan[p][v])
    <3>1. CASE p = mqueue /\ v = "in"
      <4>1. Len(s) \in Nat /\ Len(Tail(s)) = Len(s) - 1 /\ Len(Tail(s)) \in Nat
        BY <1>2, <1>3
      <4>2. chan'[p][v] = Tail(s) /\ chan[p][v] = s
        BY <1>6, <3>1 DEF s
      <4>3. Len(s) - 1 <= Len(s)
        BY <4>1
      <4> QED BY <4>1, <4>2, <4>3
    <3>2. CASE ~(p = mqueue /\ v = "in")
      <4>1. chan'[p][v] = chan[p][v] /\ chan[p][v] \in Seq(Messages)
        BY <1>6, <3>2, Types
      <4> QED BY <4>1
    <3> QED BY <3>1, <3>2
  <2>2. odd \subseteq odd' /\ op'[KERNEL].pc # "add"
    BY <1>4, <1>5, IdleType
  <2> QED BY <1>0, <2>1, <2>2, <1>5, Types, RoomKept
<1>9. Distinct'
  <2>1. op'[KERNEL].pc \notin {"new", "name"}
    BY <1>5, IdleType
  <2> QED BY <1>0, <1>4, <1>5, <2>1, Types, DistinctKept
<1>10. OwnedUnlessKilled'
  BY <1>0, <1>1, <1>4, <1>5, Types, OwnedKept
<1>11. Answering'
  <2> SUFFICES ASSUME odd \cap {"gaveup", "shared"} = {} PROVE Answering'
    BY <1>4 DEF Answering
  <2>0. Answering
    BY Types
  <2>1. s[1].reply = TRUE
    BY <1>0, <1>1, <1>3, <2>0 DEF Answering, s
  <2>2. /\ s[1].no = asked /\ \A t \in Tasks : ~Pending(t)
        /\ \A p \in Queues, v \in Ways : \A j \in DOMAIN chan[p][v] :
             chan[p][v][j].reply = TRUE => p = mqueue /\ v = "in" /\ j = 1
    BY <1>0, <1>1, <1>3, <2>0, <2>1 DEF Answering, s
  <2>3. ASSUME NEW t \in Tasks
        PROVE  /\ ~Pending(t)'
               /\ op'[t].pc = "serve" => op'[t].m.tid = KERNEL
               /\ op'[t].pc = "add" /\ op'[t].m.tid = KERNEL => op'[t].m.reply = TRUE
    <3>1. op'[t].pc = op[t].pc /\ op'[t].m = op[t].m
      BY <1>0, <1>5, Constants DEF Others
    <3>2. ~Pending(t)'
      BY <2>2, <3>1 DEF Pending
    <3> QED BY <2>0, <3>1, <3>2 DEF Answering
  <2>4. ASSUME NEW p \in Queues, NEW v \in Ways, NEW i \in DOMAIN chan'[p][v]
        PROVE  /\ chan'[p][v][i].tid = KERNEL /\ chan'[p][v][i].reply # TRUE
               /\ v # "in"
    <3>1. PICK k \in DOMAIN chan[p][v] :
            chan'[p][v][i] = chan[p][v][k] /\ (p = mqueue /\ v = "in" => k # 1)
      <4>1. CASE p = mqueue /\ v = "in"
        <5>1. chan'[p][v] = Tail(s) /\ chan[p][v] = s
          BY <1>6, <4>1 DEF s
        <5>2. Tail(s)[i] = s[i + 1] /\ i + 1 \in DOMAIN s /\ i + 1 # 1
          BY <1>2, <2>4, <5>1
        <5> QED BY <5>1, <5>2
      <4>2. CASE ~(p = mqueue /\ v = "in")
        BY <1>6, <2>4, <4>2
      <4> QED BY <4>1, <4>2
    <3>2. chan[p][v][k].reply # TRUE
      BY <2>2, <3>1
    <3>3. chan[p][v][k].tid = KERNEL /\ (v = "in" => chan[p][v][k].reply = TRUE)
      BY <2>0 DEF Answering
    <3> QED BY <3>1, <3>2, <3>3
  <2>5. answer'[2].no = answer'[1]
    BY <1>3, <1>4, <2>2
  <2> QED BY <2>3, <2>4, <2>5 DEF Answering
<1> QED BY <1>7, <1>8, <1>9, <1>10, <1>11 DEF IInv
-----------------------------------------------------------------------------
(* Invariants *)

LEMMA InitIInv == Init => IInv
<1> SUFFICES ASSUME Init PROVE IInv
  OBVIOUS
<1>1. \A a \in Actors : op[a] = Idle
  BY DEF Init
<1>2. \A q \in Queues, w \in Ways : chan[q][w] = <<>> /\ DOMAIN chan[q][w] = {} /\ Len(chan[q][w]) = 0
  BY DEF Init
<1>3. TypeOK
  <2>1. op \in [Actors -> OpType]
    BY IdleType DEF Init
  <2>2. chan \in [Queues -> [Ways -> Seq(Messages)]]
    BY DEF Init
  <2>3. 0 \in 0 .. MaxQueues /\ 0 \in 0 .. MaxRequests
    BY MQueueAssumption
  <2> QED BY <2>1, <2>2, <2>3, IdleType DEF Init, TypeOK, OpType
<1>4. Held
  <2>1. Listed
    BY DEF Init, Listed
  <2> QED BY <1>1, <2>1, Constants, IdleType DEF Held, KernelReady, Ready
<1>5. Room
  BY <1>1, <1>2, IdleType, MQueueAssumption DEF Room
<1>6. Distinct
  BY <1>1, Constants, IdleType DEF Init, Distinct
<1>7. OwnedUnlessKilled
  BY DEF Init, OwnedUnlessKilled
<1>8. Answering
  <2>1. answer[2].no = answer[1]
    BY DEF Init, NoMessage
  <2>2. \A t \in Tasks : op[t].pc = "idle"
    BY <1>1, Constants, IdleType
  <2> QED BY <1>2, <2>1, <2>2 DEF Answering, Pending
<1> QED BY <1>3, <1>4, <1>5, <1>6, <1>7, <1>8 DEF IInv, TypeInv

LEMMA StepKeeps == ASSUME IInv, NEW t \in alive, Step(t) PROVE IInv'
<1>1. t \in Tasks /\ t \in Actors
  BY Types, Constants
<1>2. ASSUME NEW n \in Names, Create(t, n) \/ C_Push(t, n) \/ C_Pop(t, n) PROVE IInv'
  BY <1>1, <1>2, CreateKeeps, C_PushKeeps, C_PopKeeps
<1>3. CASE NewFails(t) \/ NewAdd(t) \/ NewName(t) \/ Record(t)
  BY <1>1, <1>3, NewFailsKeeps, NewAddKeeps, NewNameKeeps, RecordKeeps
<1>4. ASSUME NEW q \in Queues, Delete(t, q) \/ S_Pop(t, q) PROVE IInv'
  BY <1>1, <1>4, DeleteKeeps, S_PopKeeps
<1>5. CASE Unlink(t) \/ AddFails(t) \/ S_Push(t) \/ Add(t)
  BY <1>1, <1>5, UnlinkKeeps, AddFailsKeeps, S_PushKeeps, AddKeeps
<1> QED BY <1>2, <1>3, <1>4, <1>5 DEF Step, Service

LEMMA KernelStepKeeps == ASSUME IInv, Kernel PROVE IInv'
<1>1. ASSUME NEW r \in BOOLEAN, K_Ask(r) PROVE IInv'
  BY <1>1, K_AskKeeps
<1>2. CASE Add(KERNEL)
  BY <1>2, AddKeeps, Constants
<1> QED BY <1>1, <1>2, K_FindKeeps, K_TakeKeeps, K_GiveUpKeeps, KernelAddFailsKeeps DEF Kernel

LEMMA Inductive == IInv /\ [Next]_vars => IInv'
<1> SUFFICES ASSUME IInv, [Next]_vars PROVE IInv'
  OBVIOUS
<1>1. ASSUME NEW t \in alive, Step(t) PROVE IInv'
  BY <1>1, StepKeeps
<1>2. CASE Kernel
  BY <1>2, KernelStepKeeps
<1>3. ASSUME NEW t \in Tasks, Start(t) \/ Kill(t) PROVE IInv'
  BY <1>3, StartKeeps, KillKeeps
<1>4. CASE UNCHANGED vars
  <2>1. UNCHANGED <<mqueues, made, name, chan, alive, mqueue_ids, op, mqueue, asked, answer, odd>>
    BY <1>4 DEF vars, queues, kernel
  <2>2. TypeOK'
    BY <2>1 DEF IInv, TypeInv, TypeOK
  <2>3. Held'
    BY <2>1 DEF IInv, TypeInv, Held, Listed, KernelReady, Ready
  <2>4. Room' /\ Distinct' /\ OwnedUnlessKilled'
    BY <2>1 DEF IInv, Room, Distinct, OwnedUnlessKilled
  <2>5. Answering'
    BY <2>1 DEF IInv, Answering, Pending
  <2> QED BY <2>2, <2>3, <2>4, <2>5 DEF IInv, TypeInv
<1> QED BY <1>1, <1>2, <1>3, <1>4 DEF Next
-----------------------------------------------------------------------------
(* Theorems *)

\* The lists, the tables and what each task and the kernel holds have their
\* types, whatever is made, killed, added and taken meanwhile.
THEOREM TypeCorrect == Spec => []TypeOK
<1>1. IInv => TypeOK
  BY Types
<1> QED BY <1>1, InitIInv, Inductive, PTL DEF Spec

\* No channel ever holds more than MAX_MESSAGE_COUNT messages (the test of
\* _MqAddMessage), unless a message was added between another's test and its
\* addition: for any number of tasks and queues.
THEOREM Limited == Spec => []LimitUnlessCrowded
<1>1. IInv => LimitUnlessCrowded
  BY Types DEF Room, LimitUnlessCrowded
<1> QED BY <1>1, InitIInv, Inductive, PTL DEF Spec

\* No two queues of the list have the same name (the test of MqNew), unless two
\* tasks made queues of one name at the same time.
THEOREM OneName == Spec => []OneNameUnlessTwins
<1>1. IInv => OneNameUnlessTwins
  BY Types DEF Distinct, OneNameUnlessTwins
<1> QED BY <1>1, InitIInv, Inductive, PTL DEF Spec

\* Each queue of the list is one that the kill of a living task will free
\* (_TskmgrKillTask), unless a task was killed while it made a queue.
THEOREM Owned == Spec => []OwnedUnlessKilled
<1>1. IInv => OwnedUnlessKilled
  BY Types
<1> QED BY <1>1, InitIInv, Inductive, PTL DEF Spec

\* What the kernel takes from the channel for the answer to a request
\* (pci_get_device, pci_write_to_file) is the answer to that request, and not
\* to an earlier one, whatever services and kills do, unless it gave up waiting
\* before or a program is a client too.
THEOREM Answered == Spec => []AnswerFits
<1>1. IInv => AnswerFits
  BY Types DEF Answering, AnswerFits
<1> QED BY <1>1, InitIInv, Inductive, PTL DEF Spec
=============================================================================
