---------------------------- MODULE MemoryProofs ----------------------------
(***************************************************************************)
(* The proof that the memory manager, in a history without an exceptional  *)
(* event, never hands out overlapping memory (Exclusive), finds the blocks *)
(* it handed out (Findable), puts them where they were asked for (Placed), *)
(* loses no address, counts right and never runs round in a ring.          *)
(*                                                                         *)
(* Exclusive is about the blocks callers hold; the induction is about the  *)
(* descriptors.  The searches return descriptors of the right table only   *)
(* because the two chains are closed (WellLinked), they find every one     *)
(* because the chains are in one piece (Reached), and a descriptor found   *)
(* describes its owner's block only because blocks in use are disjoint and *)
(* not empty (Apart, Ranges).                                              *)
(***************************************************************************)
EXTENDS Memory, FiniteSetTheorems, TLAPS

Members(table) == {d \in table : inuse[d] = 1}

\* Following nx from the head of l comes to every descriptor of M: no part of M is
\* a ring on its own, which the links alone would allow.
Reached(M, l, nx) ==
  \A S \in SUBSET M :
    ( /\ l.head # NULL => l.head \in S
      /\ \A x \in S : nx[x] # NULL => nx[x] \in S ) => S = M

\* The chain of l, restricted to the descriptors of M: closed, doubly linked,
\* ending exactly at the head and at the foot, and in one piece.
WellLinked(M, l, pv, nx) ==
  /\ l.head = NULL <=> l.foot = NULL
  /\ l.head # NULL => l.head \in M /\ l.foot \in M
  /\ \A d \in M : pv[d] # NULL => pv[d] \in M /\ nx[pv[d]] = d
  /\ \A d \in M : nx[d] # NULL => nx[d] \in M /\ pv[nx[d]] = d
  /\ \A d \in M : pv[d] = NULL <=> d = l.head
  /\ \A d \in M : nx[d] = NULL <=> d = l.foot
  /\ Reached(M, l, nx)

Links == [Desc -> Pointer]

\* The two tables are disjoint, MBDT has a first descriptor, and NULL is not a
\* descriptor (MBDT and UMBDT of memory.c are separate arrays).
LEMMA DescFacts ==
  /\ NULL \notin Desc
  /\ MBDT \cap UMBDT = {}
  /\ MBDT \subseteq Desc /\ UMBDT \subseteq Desc
  /\ 1 \in MBDT
BY MemoryAssumption DEF NULL, Desc, MBDT, UMBDT

Appended(M, l, pv, nx, d) ==
  LET app == AppendMBD(l, pv, nx, d)
  IN /\ app.ok
     /\ app.list \in List /\ app.prev \in Links /\ app.next \in Links
     /\ WellLinked(M \cup {d}, app.list, app.prev, app.next)
     /\ \A e \in Desc \ (M \cup {d}) :
          app.prev[e] = pv[e] /\ app.next[e] = nx[e]

Removed(M, l, pv, nx, d) ==
  LET rem == RemoveMBD(l, pv, nx, d)
  IN /\ rem.list \in List /\ rem.prev \in Links /\ rem.next \in Links
     /\ WellLinked(M \ {d}, rem.list, rem.prev, rem.next)
     /\ \A e \in Desc \ M : rem.prev[e] = pv[e] /\ rem.next[e] = nx[e]

\* _MemAppendMBD keeps the chain it appends to well linked.
LEMMA AppendOK ==
  ASSUME NEW M \in SUBSET Desc, NEW l \in List, NEW pv \in Links, NEW nx \in Links,
         NEW d \in Desc \ M, WellLinked(M, l, pv, nx)
  PROVE  Appended(M, l, pv, nx, d)
<1> DEFINE app == AppendMBD(l, pv, nx, d)
<1> USE DescFacts DEF List, Links, Pointer, WellLinked
<1>1. CASE l.head = NULL /\ l.foot = NULL
  <2>1. app = [ok |-> TRUE, list |-> [head |-> d, foot |-> d],
               prev |-> [pv EXCEPT ![d] = NULL], next |-> [nx EXCEPT ![d] = NULL]]
    BY <1>1 DEF AppendMBD
  <2>2. M = {}
    <3>1. {} \in SUBSET M
      OBVIOUS
    <3> QED BY <1>1, <3>1 DEF Reached
  <2>3. Reached(M \cup {d}, app.list, app.next)
    BY <2>1, <2>2 DEF Reached
  <2> QED BY <2>1, <2>2, <2>3 DEF Appended
<1>2. CASE l.head # NULL /\ l.foot # NULL
  <2>1. app = [ok |-> TRUE, list |-> [l EXCEPT !.foot = d],
               prev |-> [pv EXCEPT ![d] = l.foot],
               next |-> [nx EXCEPT ![l.foot] = d, ![d] = NULL]]
    BY <1>2 DEF AppendMBD
  <2>2. Reached(M \cup {d}, app.list, app.next)
    <3> SUFFICES ASSUME NEW S \in SUBSET (M \cup {d}), l.head \in S,
                        \A x \in S : app.next[x] # NULL => app.next[x] \in S
                 PROVE  S = M \cup {d}
      BY <1>2, <2>1 DEF Reached
    <3>1. S \ {d} \in SUBSET M /\ l.head \in S \ {d}
      BY <1>2
    <3>2. ASSUME NEW x \in S \ {d}, nx[x] # NULL PROVE nx[x] \in S \ {d}
      <4>1. x \in M /\ x # l.foot /\ nx[x] \in M
        BY <1>2, <3>2
      <4>2. app.next[x] = nx[x]
        BY <2>1, <4>1
      <4> QED BY <3>2, <4>1, <4>2
    <3>3. S \ {d} = M
      BY <3>1, <3>2 DEF Reached
    <3>4. app.next[l.foot] = d /\ l.foot \in S
      BY <1>2, <2>1, <3>3
    <3> QED BY <3>3, <3>4
  <2> QED BY <1>2, <2>1, <2>2 DEF Appended
<1> QED BY <1>1, <1>2

\* _MemRemoveMBD keeps the rest of the chain well linked.
LEMMA RemoveOK ==
  ASSUME NEW M \in SUBSET Desc, NEW l \in List, NEW pv \in Links, NEW nx \in Links,
         NEW d \in M, WellLinked(M, l, pv, nx)
  PROVE  Removed(M, l, pv, nx, d)
<1> DEFINE rem == RemoveMBD(l, pv, nx, d)
<1> USE DescFacts DEF List, Links, Pointer, WellLinked, Put
<1>1. CASE l.head = d /\ l.foot = d
  <2>1. M = {d}
    <3>1. {d} \in SUBSET M
      OBVIOUS
    <3>2. nx[d] = NULL
      BY <1>1
    <3>3. Reached(M, l, nx) /\ l.head \in {d}
      BY <1>1
    <3> QED BY <3>1, <3>2, <3>3, Zenon DEF Reached
  <2>2. Reached(M \ {d}, rem.list, rem.next)
    BY <2>1 DEF Reached
  <2> QED BY <1>1, <2>1, <2>2 DEF RemoveMBD, Removed
<1>2. CASE l.head = d /\ l.foot # d
  <2>1. rem = [list |-> [l EXCEPT !.head = nx[d]],
               prev |-> Put(pv, nx[d], NULL), next |-> nx]
    BY <1>2 DEF RemoveMBD
  <2>2. Reached(M \ {d}, rem.list, rem.next)
    <3> SUFFICES ASSUME NEW S \in SUBSET (M \ {d}), nx[d] \in S,
                        \A x \in S : nx[x] # NULL => nx[x] \in S
                 PROVE  S = M \ {d}
      BY <1>2, <2>1 DEF Reached
    <3>1. S \cup {d} \in SUBSET M
      OBVIOUS
    <3>2. \A x \in S \cup {d} : nx[x] # NULL => nx[x] \in S \cup {d}
      OBVIOUS
    <3>3. Reached(M, l, nx) /\ l.head \in S \cup {d}
      BY <1>2
    <3>4. S \cup {d} = M
      BY <3>1, <3>2, <3>3, Zenon DEF Reached
    <3> QED BY <3>4
  <2> QED BY <1>2, <2>1, <2>2 DEF Removed
<1>3. CASE l.head # d /\ l.foot = d
  <2>1. rem = [list |-> [l EXCEPT !.foot = pv[d]],
               prev |-> pv, next |-> Put(nx, pv[d], NULL)]
    BY <1>3 DEF RemoveMBD
  <2>2. pv[d] \in M /\ nx[pv[d]] = d
    BY <1>3
  <2>3. Reached(M \ {d}, rem.list, rem.next)
    <3> SUFFICES ASSUME NEW S \in SUBSET (M \ {d}), l.head \in S,
                        \A x \in S : rem.next[x] # NULL => rem.next[x] \in S
                 PROVE  S = M \ {d}
      BY <1>3, <2>1 DEF Reached
    <3>1. \A x \in S : x # pv[d] => rem.next[x] = nx[x]
      BY <2>1, <2>2
    <3>2. S \cup {d} \in SUBSET M
      OBVIOUS
    <3>3. \A x \in S \cup {d} : nx[x] # NULL => nx[x] \in S \cup {d}
      BY <1>3, <2>2, <3>1
    <3>4. Reached(M, l, nx) /\ l.head \in S \cup {d}
      OBVIOUS
    <3>5. S \cup {d} = M
      BY <3>2, <3>3, <3>4, Zenon DEF Reached
    <3> QED BY <3>5
  <2> QED BY <1>3, <2>1, <2>2, <2>3 DEF Removed
<1>4. CASE l.head # d /\ l.foot # d
  <2>1. rem = [list |-> l, prev |-> Put(pv, nx[d], pv[d]),
               next |-> Put(nx, pv[d], nx[d])]
    BY <1>4 DEF RemoveMBD
  <2>2. pv[d] \in M /\ nx[pv[d]] = d /\ nx[d] \in M
    BY <1>4
  <2>3. Reached(M \ {d}, rem.list, rem.next)
    <3> SUFFICES ASSUME NEW S \in SUBSET (M \ {d}), l.head # NULL => l.head \in S,
                        \A x \in S : rem.next[x] # NULL => rem.next[x] \in S
                 PROVE  S = M \ {d}
      BY <1>4, <2>1 DEF Reached
    <3>1. \A x \in S : x # pv[d] => rem.next[x] = nx[x]
      BY <2>1, <2>2
    <3>2. rem.next[pv[d]] = nx[d]
      BY <2>1, <2>2
    <3>3. CASE pv[d] \in S
      <4>1. nx[d] \in S
        BY <2>2, <3>2, <3>3
      <4>2. S \cup {d} \in SUBSET M
        OBVIOUS
      <4>3. \A x \in S \cup {d} : nx[x] # NULL => nx[x] \in S \cup {d}
        BY <2>2, <3>1, <4>1
      <4>4. Reached(M, l, nx) /\ (l.head # NULL => l.head \in S \cup {d})
        OBVIOUS
      <4>5. S \cup {d} = M
        BY <4>2, <4>3, <4>4, Zenon DEF Reached
      <4> QED BY <4>5
    <3>4. CASE pv[d] \notin S
      <4>1. \A x \in S : nx[x] # NULL => nx[x] \in S
        BY <3>1, <3>4
      <4>2. S = M
        BY <4>1 DEF Reached
      <4> QED BY <4>2
    <3> QED BY <3>3, <3>4
  <2> QED BY <1>4, <2>1, <2>2, <2>3 DEF Removed
<1> QED BY <1>1, <1>2, <1>3, <1>4

\* A chain does not notice writes to descriptors outside it.
LEMMA Frame ==
  ASSUME NEW M \in SUBSET Desc, NEW l \in List,
         NEW pv, NEW nx, NEW pv2, NEW nx2, WellLinked(M, l, pv, nx),
         \A e \in M : pv2[e] = pv[e] /\ nx2[e] = nx[e]
  PROVE  WellLinked(M, l, pv2, nx2)
<1>1. Reached(M, l, nx2)
  BY DEF WellLinked, Reached
<1> QED BY <1>1, DescFacts DEF WellLinked, List

\* A search along a well linked chain finds members of it that satisfy the
\* condition searched for.
LEMMA FoundInList ==
  ASSUME NEW M \in SUBSET Desc, NEW from, NEW link, NEW Hit,
         from # NULL => from \in M,
         \A x \in M : link[x] # NULL => link[x] \in M
  PROVE  Found(from, link, Hit) \subseteq M \cap Hit
BY DEF Found, Visited

\* A search along a chain from its head misses nothing: it stops at a member
\* that satisfies the condition if there is one, and comes to an end anyway.
LEMMA SearchForward ==
  ASSUME NEW M \in SUBSET Desc, NEW l \in List, NEW pv, NEW nx, NEW Hit,
         WellLinked(M, l, pv, nx)
  PROVE  /\ M \cap Hit # {} => Found(l.head, nx, Hit) # {}
         /\ Ends(l.head, nx, Hit)
<1> DEFINE V == Visited(l.head, nx, Hit)
<1>1. V \in SUBSET M
  BY DEF Visited, WellLinked
<1>2. l.head # NULL => l.head \in V
  BY DEF Visited, WellLinked
<1>3. ASSUME NEW x \in V, x \notin Hit, nx[x] # NULL PROVE nx[x] \in V
  <2>1. nx[x] \in Desc
    BY <1>1, <1>3 DEF WellLinked
  <2> QED BY <1>3, <2>1 DEF Visited
<1> HIDE DEF V
<1>4. CASE V \cap Hit # {}
  BY <1>4 DEF Found, Ends, V
<1>5. CASE V \cap Hit = {}
  <2>1. \A x \in V : nx[x] # NULL => nx[x] \in V
    BY <1>3, <1>5
  <2>2. V = M
    BY <1>1, <1>2, <2>1 DEF WellLinked, Reached
  <2>3. l.head = NULL \/ (l.foot \in V /\ nx[l.foot] = NULL)
    BY <2>2 DEF WellLinked
  <2> QED BY <1>5, <2>2, <2>3 DEF Ends, V
<1> QED BY <1>4, <1>5

\* The chain is in one piece backwards too, so the search of _MemAllocWithStart,
\* which begins at the foot, comes to an end.
LEMMA SearchBackward ==
  ASSUME NEW M \in SUBSET Desc, NEW l \in List, NEW pv, NEW nx, NEW Hit,
         WellLinked(M, l, pv, nx)
  PROVE  Ends(l.foot, pv, Hit)
<1> DEFINE V == Visited(l.foot, pv, Hit)
<1>1. V \in SUBSET M
  BY DEF Visited, WellLinked
<1>2. l.foot # NULL => l.foot \in V
  BY DEF Visited, WellLinked
<1>3. ASSUME NEW x \in V, x \notin Hit, pv[x] # NULL PROVE pv[x] \in V
  <2>1. pv[x] \in Desc
    BY <1>1, <1>3 DEF WellLinked
  <2> QED BY <1>3, <2>1 DEF Visited
<1> HIDE DEF V
<1>4. CASE V \cap Hit # {} \/ l.foot = NULL
  BY <1>4 DEF Ends, V
<1>5. CASE V \cap Hit = {} /\ l.foot # NULL
  <2>1. \A x \in M \ V : nx[x] # NULL => nx[x] \in M \ V
    BY DescFacts, <1>1, <1>3, <1>5 DEF WellLinked
  <2>2. M \ V # M
    BY <1>1, <1>2, <1>5
  <2>3. l.head \notin M \ V
    <3>1. M \ V \in SUBSET M
      OBVIOUS
    <3> QED BY <2>1, <2>2, <3>1 DEF WellLinked, Reached
  <2>4. l.head \in V /\ pv[l.head] = NULL
    BY <1>5, <2>3 DEF WellLinked
  <2> QED BY <2>4 DEF Ends, V
<1> QED BY <1>4, <1>5

\* Arithmetic in 32 bits leaves a uint32 as it is.
LEMMA ModSmall ==
  ASSUME NEW a \in Uint32 PROVE a % WORD = a
BY MemoryAssumption DEF Uint32

\* The result of arithmetic in 32 bits is a uint32.
LEMMA ModUint32 ==
  ASSUME NEW a \in Int PROVE a % WORD \in Uint32
BY MemoryAssumption DEF Uint32

\* MemAlign4KB returns a uint32, even where rounding up overflows.
LEMMA AlignUint32 ==
  ASSUME NEW n \in Uint32 PROVE MemAlign4KB(n) \in Uint32
<1>1. n % PAGE \in Int
  BY MemoryAssumption DEF Uint32
<1>2. n + (PAGE - (n % PAGE)) \in Int
  BY <1>1, MemoryAssumption DEF Uint32
<1> QED BY <1>2, ModUint32 DEF MemAlign4KB

\* The multiples of p, by remainder and by quotient.
LEMMA Multiple ==
  ASSUME NEW p \in Nat \ {0}, NEW a \in Int
  PROVE  a % p = 0 <=> \E k \in Int : a = k * p
<1>1. ASSUME a % p = 0 PROVE \E k \in Int : a = k * p
  BY <1>1
<1>2. ASSUME NEW k \in Int, a = k * p PROVE a % p = 0
  BY <1>2
<1> QED BY <1>1, <1>2

\* Sums and differences of multiples are multiples.
LEMMA SumOfMultiples ==
  ASSUME NEW p \in Nat \ {0}, NEW a \in Int, NEW b \in Int, a % p = 0, b % p = 0
  PROVE  (a + b) % p = 0 /\ (a - b) % p = 0
<1>1. PICK k \in Int : a = k * p
  BY Multiple
<1>2. PICK j \in Int : b = j * p
  BY Multiple
<1>3. a + b = (k + j) * p /\ a - b = (k - j) * p
  BY <1>1, <1>2
<1>4. k + j \in Int /\ k - j \in Int /\ a + b \in Int /\ a - b \in Int
  OBVIOUS
<1> QED BY <1>3, <1>4, Multiple

\* What is left of a multiple when a multiple is taken away is one.
LEMMA Difference ==
  ASSUME NEW p \in Nat \ {0}, NEW a \in Int, NEW b \in Int, a % p = 0, (a - b) % p = 0
  PROVE  b % p = 0
<1>1. PICK k \in Int : a = k * p
  BY Multiple
<1>2. PICK j \in Int : a - b = j * p
  BY Multiple
<1>3. b = (k - j) * p /\ k - j \in Int
  BY <1>1, <1>2
<1> QED BY <1>3, Multiple

\* Arithmetic modulo w takes multiples of p to multiples of p when w is one.
LEMMA ModMultiple ==
  ASSUME NEW p \in Nat \ {0}, NEW w \in Nat \ {0}, NEW a \in Int, a % p = 0, w % p = 0
  PROVE  (a % w) % p = 0
<1> DEFINE q == a \div w
           r == a % w
<1>1. q \in Int /\ r \in Int /\ a = q * w + r
  OBVIOUS
<1> HIDE DEF q, r
<1>2. PICK j \in Int : w = j * p
  BY Multiple
<1>3. a - r = (q * j) * p /\ q * j \in Int /\ a - r \in Int
  BY <1>1, <1>2
<1>4. (a - r) % p = 0
  BY <1>3, Multiple
<1>5. r % p = 0
  BY <1>1, <1>4, Difference
<1> QED BY <1>5 DEF r

\* MemAlign4KB returns whole pages, even where rounding up overflows.
LEMMA AlignWhole ==
  ASSUME NEW n \in Uint32, WORD % PAGE = 0 PROVE MemAlign4KB(n) % PAGE = 0
<1> USE MemoryAssumption
<1> DEFINE q == n \div PAGE
           r == n % PAGE
<1>1. n \in Int /\ q \in Int /\ r \in Int /\ n = q * PAGE + r
  BY DEF Uint32
<1>2. CASE r = 0
  BY <1>2 DEF MemAlign4KB
<1>3. CASE r # 0
  <2> HIDE DEF q, r
  <2> DEFINE up == n + (PAGE - r)
  <2>1. up = (q + 1) * PAGE /\ q + 1 \in Int /\ up \in Int
    BY <1>1
  <2> HIDE DEF up
  <2>2. up % PAGE = 0
    BY <2>1, Multiple
  <2>3. WORD \in Nat \ {0}
    OBVIOUS
  <2>4. (up % WORD) % PAGE = 0
    BY <2>1, <2>2, <2>3, ModMultiple
  <2> QED BY <1>3, <2>4 DEF up, r, MemAlign4KB
<1> QED BY <1>2, <1>3
-----------------------------------------------------------------------------
Ranges ==
  \A d \in Desc : inuse[d] = 1 => /\ length[d] > 0
                                  /\ ALLOC_START_ADDRESS <= start[d]
                                  /\ start[d] + length[d] <= MEMORY_SIZE
Apart ==
  \A d, e \in Desc : inuse[d] = 1 /\ inuse[e] = 1 /\ d # e
                     => Disjoint(start[d], length[d], start[e], length[e])
Owned ==
  \A b \in live : \E u \in UMBDT : /\ inuse[u] = 1
                                   /\ start[u] = b.start /\ length[u] = b.length
OneOwner == \A a, b \in live : a.start = b.start => a = b

\* Every address of the allocatable memory lies in some block in use.
Covered ==
  \A a \in ALLOC_START_ADDRESS .. MEMORY_SIZE - 1 :
    \E d \in Desc : inuse[d] = 1 /\ start[d] <= a /\ a < start[d] + length[d]
Wanted == \A b \in live : b.want <= b.start

\* The memory begins and ends at a page boundary, and so do 32 bits.  Two of the
\* three are constants of the code; get_memory_size counts kilobytes and 64 KB
\* units that the BIOS reports (kfuncs.c:33), and nothing in the code rounds
\* them to pages.
WholePages ==
  ALLOC_START_ADDRESS % PAGE = 0 /\ MEMORY_SIZE % PAGE = 0 /\ WORD % PAGE = 0
Whole ==
  WholePages => \A d \in Desc :
    inuse[d] = 1 => start[d] % PAGE = 0 /\ length[d] % PAGE = 0
FreeChain == WellLinked(Members(MBDT), mbdt, prev, next)
UsedChain == WellLinked(Members(UMBDT), umbdt, prev, next)

\* The inductive invariant.
Blocks == Ranges /\ Apart /\ Owned /\ OneOwner /\ Covered /\ Wanted /\ Whole
Structure == Blocks /\ FreeChain /\ UsedChain
IInv == TypeOK /\ (odd = {} => Structure)

\* MemInit establishes the inductive invariant.
LEMMA InitIInv == Init => IInv
<1> SUFFICES ASSUME Init PROVE IInv OBVIOUS
<1> USE DescFacts, MemoryAssumption
<1>1. TypeOK
  BY DEF Init, TypeOK, Uint32, Pointer, List, Block, NULL
<1>2. Ranges
  BY DEF Init, Ranges
<1>3. Apart
  BY DEF Init, Apart
<1>4. Owned /\ OneOwner
  BY DEF Init, Owned, OneOwner
<1>5. FreeChain
  BY DEF Init, FreeChain, WellLinked, Reached, Members, NULL
<1>6. UsedChain
  BY DEF Init, UsedChain, WellLinked, Reached, Members
<1>7. Covered
  BY DEF Init, Covered
<1>8. Whole
  <2>1. ASSUME WholePages PROVE (MEMORY_SIZE - ALLOC_START_ADDRESS) % PAGE = 0
    <3>1. /\ PAGE \in Nat \ {0} /\ MEMORY_SIZE \in Int /\ ALLOC_START_ADDRESS \in Int
          /\ MEMORY_SIZE % PAGE = 0 /\ ALLOC_START_ADDRESS % PAGE = 0
      BY <2>1 DEF WholePages
    <3> QED BY <3>1, SumOfMultiples, Zenon
  <2> QED BY <2>1 DEF Init, Whole, WholePages
<1>9. Wanted
  BY DEF Init, Wanted
<1> QED BY <1>1, <1>2, <1>3, <1>4, <1>5, <1>6, <1>7, <1>8, <1>9
        DEF IInv, Structure, Blocks

\* The inductive invariant implies that live blocks are exclusive.
LEMMA IInvExclusive == IInv => Exclusive
<1> SUFFICES ASSUME TypeOK, Structure PROVE NoOverlap /\ InMemory
  BY DEF IInv, Exclusive
<1> USE DescFacts
<1>1. InMemory
  BY DEF Structure, Blocks, Ranges, Owned, InMemory
<1>2. ASSUME NEW a \in live, NEW b \in live, a # b
      PROVE  Disjoint(a.start, a.length, b.start, b.length)
  <2>1. PICK u \in UMBDT : inuse[u] = 1 /\ start[u] = a.start /\ length[u] = a.length
    BY DEF Structure, Blocks, Owned
  <2>2. PICK v \in UMBDT : inuse[v] = 1 /\ start[v] = b.start /\ length[v] = b.length
    BY DEF Structure, Blocks, Owned
  <2>3. u # v
    BY <1>2, <2>1, <2>2 DEF Structure, Blocks, OneOwner
  <2> QED BY <2>1, <2>2, <2>3 DEF Structure, Blocks, Apart
<1>3. ASSUME NEW a \in live, NEW d \in MBDT, inuse[d] = 1
      PROVE  Disjoint(a.start, a.length, start[d], length[d])
  <2>1. PICK u \in UMBDT : inuse[u] = 1 /\ start[u] = a.start /\ length[u] = a.length
    BY DEF Structure, Blocks, Owned
  <2> QED BY <1>3, <2>1 DEF Structure, Blocks, Apart
<1> QED BY <1>1, <1>2, <1>3 DEF NoOverlap
-----------------------------------------------------------------------------
(* Types, in ordinary and in exceptional histories. *)

\* _MemAppendMBD keeps the types of the list and of the links, whatever the
\* state of the list.
LEMMA AppendType ==
  ASSUME NEW l \in List, NEW pv \in Links, NEW nx \in Links, NEW d \in Desc
  PROVE  LET app == AppendMBD(l, pv, nx, d)
         IN /\ app.list \in List /\ app.prev \in Links /\ app.next \in Links
            /\ app.ok \in BOOLEAN
BY DescFacts DEF AppendMBD, List, Links, Pointer

\* _MemRemoveMBD does too.
LEMMA RemoveType ==
  ASSUME NEW l \in List, NEW pv \in Links, NEW nx \in Links, NEW d \in Desc
  PROVE  LET rem == RemoveMBD(l, pv, nx, d)
         IN rem.list \in List /\ rem.prev \in Links /\ rem.next \in Links
BY DescFacts DEF RemoveMBD, Put, List, Links, Pointer

\* A search of _MemAllocWithStart or _MemFree finds descriptors that satisfy
\* the condition searched for.
LEMMA FoundType ==
  ASSUME NEW from, NEW link, NEW Hit
  PROVE  Found(from, link, Hit) \subseteq Desc \cap Hit
BY DEF Found, Visited

\* Cutting a block from the end of a free block keeps the types.
LEMMA AllocFromEndType ==
  ASSUME TypeOK, NEW m_start \in Uint32, NEW len \in Uint32,
         AllocFromEnd(m_start, len)
  PROVE  TypeOK'
<1> DEFINE F == Found(mbdt.foot, prev, Takes(m_start, len))
<1> USE DEF Links
<1>1. PICK d \in F, u \in UnusedMBD(UMBDT) : AllocFromEnd(m_start, len)!(d, u)
  BY DEF AllocFromEnd
<1>2. d \in Desc /\ u \in Desc
  BY FoundType, DescFacts DEF UnusedMBD
<1> DEFINE app == AppendMBD(umbdt, prev, next, u)
<1>3. app.list \in List /\ app.prev \in Links /\ app.next \in Links
  BY <1>2, AppendType DEF TypeOK
<1>4. (start[d] + length[d] - len) % WORD \in Uint32 /\ (length[d] - len) % WORD \in Uint32
  <2>1. start[d] \in Int /\ length[d] \in Int /\ len \in Int
    BY <1>2 DEF TypeOK, Uint32
  <2> QED BY <2>1, ModUint32
<1>5. inuse' \in [Desc -> {0, 1}] /\ start' \in [Desc -> Uint32]
      /\ length' \in [Desc -> Uint32]
  BY <1>1, <1>2, <1>4 DEF TypeOK
<1>6. used' \in Int
  BY <1>1 DEF TypeOK, Uint32
<1>7. live' \subseteq Block
  BY <1>1, <1>4 DEF TypeOK, Block
<1>8. odd' \subseteq {"zero", "wrap", "stale"}
  BY <1>1 DEF TypeOK
<1> HIDE DEF app
<1>9. prev' \in [Desc -> Pointer] /\ next' \in [Desc -> Pointer]
      /\ mbdt' \in List /\ umbdt' \in List
  BY <1>1, <1>3 DEF TypeOK, app
<1> QED BY <1>5, <1>6, <1>7, <1>8, <1>9 DEF TypeOK

\* Cutting a block from the start of a free block keeps the types.
LEMMA AllocFromStartType ==
  ASSUME TypeOK, NEW m_start \in Uint32, NEW len \in Uint32,
         AllocFromStart(m_start, len)
  PROVE  TypeOK'
<1> DEFINE F == Found(mbdt.foot, prev, Takes(m_start, len))
<1> USE DEF Links
<1>1. PICK d \in F, u \in UnusedMBD(UMBDT) : AllocFromStart(m_start, len)!(d, u)
  BY DEF AllocFromStart
<1>2. d \in Desc /\ u \in Desc
  BY FoundType, DescFacts DEF UnusedMBD
<1> DEFINE rem == IF length[d] = len THEN RemoveMBD(mbdt, prev, next, d)
                  ELSE [list |-> mbdt, prev |-> prev, next |-> next]
           app == AppendMBD(umbdt, rem.prev, rem.next, u)
<1>3. rem.list \in List /\ rem.prev \in Links /\ rem.next \in Links
  BY <1>2, RemoveType DEF TypeOK
<1> HIDE DEF rem
<1>4. app.list \in List /\ app.prev \in Links /\ app.next \in Links
  BY <1>2, <1>3, AppendType DEF TypeOK
<1>5. (start[d] + len) % WORD \in Uint32 /\ length[d] - len \in Uint32
  <2>1. start[d] \in Int /\ length[d] \in Uint32 /\ len \in Uint32
    BY <1>2 DEF TypeOK, Uint32
  <2>2. len <= length[d]
    BY <1>1 DEF TakesStart
  <2>3. (start[d] + len) \in Int
    BY <2>1 DEF Uint32
  <2>4. (start[d] + len) % WORD \in Uint32
    BY <2>3, ModUint32
  <2>5. length[d] - len \in Uint32
    BY <2>1, <2>2, MemoryAssumption DEF Uint32
  <2> QED BY <2>4, <2>5
<1>6. inuse' \in [Desc -> {0, 1}] /\ start' \in [Desc -> Uint32]
      /\ length' \in [Desc -> Uint32]
  BY <1>1, <1>2, <1>5 DEF TypeOK
<1>7. used' \in Int
  BY <1>1 DEF TypeOK, Uint32
<1>8. live' \subseteq Block
  BY <1>1, <1>2 DEF TypeOK, Block
<1>9. odd' \subseteq {"zero", "wrap", "stale"}
  BY <1>1 DEF TypeOK
<1>10. prev' \in [Desc -> Pointer] /\ next' \in [Desc -> Pointer]
      /\ mbdt' \in List /\ umbdt' \in List
  BY <1>1, <1>3, <1>4 DEF TypeOK, rem
<1> QED BY <1>6, <1>7, <1>8, <1>9, <1>10 DEF TypeOK

\* _MemFree keeps the types, on either of its ways to release a block.
LEMMA FreeSucceedsType ==
  ASSUME TypeOK, NEW b, FreeSucceeds(b)
  PROVE  TypeOK'
<1> USE DEF Links
<1>1. PICK u \in BlockAt(b.start), n \in UnusedMBD(MBDT) : FreeSucceeds(b)!(u, n)
  BY DEF FreeSucceeds
<1>2. u \in Desc /\ n \in Desc
  BY FoundType, DescFacts DEF UnusedMBD, BlockAt
<1> DEFINE pv == [prev EXCEPT ![n] = prev[u]]
           nx == [next EXCEPT ![n] = next[u]]
           rem == RemoveMBD(umbdt, pv, nx, u)
<1>3. pv \in Links /\ nx \in Links
  BY <1>2 DEF TypeOK
<1>4. rem.list \in List /\ rem.prev \in Links /\ rem.next \in Links
  BY <1>2, <1>3, RemoveType DEF TypeOK
<1>5. umbdt' = rem.list /\ used' \in Int /\ live' \subseteq Block
  BY <1>1, <1>2 DEF TypeOK, Uint32
<1> HIDE DEF rem
<1>6. CASE ReleaseMerged(u, n, rem.prev, rem.next)
  <2>1. PICK d \in Found(mbdt.head, rem.next, Touches(start[u], length[u])) :
          ReleaseMerged(u, n, rem.prev, rem.next)!(d)
    BY <1>6 DEF ReleaseMerged
  <2>2. d \in Desc
    BY FoundType
  <2>3. (length[d] + length[u]) % WORD \in Uint32
    <3>1. length[d] + length[u] \in Int
      BY <1>2, <2>2 DEF TypeOK, Uint32
    <3> QED BY <3>1, ModUint32
  <2> QED BY <1>2, <1>4, <1>5, <2>1, <2>2, <2>3 DEF TypeOK
<1>7. CASE ReleaseAppended(u, n, rem.prev, rem.next)
  <2>1. inuse' \in [Desc -> {0, 1}] /\ start' \in [Desc -> Uint32]
        /\ length' \in [Desc -> Uint32]
    BY <1>2, <1>7 DEF ReleaseAppended, TypeOK
  <2>2. CASE FreeIntoEmpty(n, rem.prev, rem.next)
    <3>1. mbdt' \in List
      BY <1>2, <2>2 DEF FreeIntoEmpty, List, Pointer
    <3> QED BY <1>4, <1>5, <2>1, <2>2, <3>1 DEF FreeIntoEmpty, TypeOK
  <2>3. CASE ~FreeIntoEmpty(n, rem.prev, rem.next)
    <3> DEFINE app == AppendMBD(mbdt, rem.prev, rem.next, n)
    <3>1. app.list \in List /\ app.prev \in Links /\ app.next \in Links
      BY <1>2, <1>4, AppendType DEF TypeOK
    <3>2. mbdt' = app.list /\ prev' = app.prev /\ next' = app.next /\ odd' = odd
      BY <1>7, <2>3 DEF ReleaseAppended
    <3> HIDE DEF app
    <3> QED BY <1>4, <1>5, <2>1, <3>1, <3>2 DEF TypeOK
  <2> QED BY <2>2, <2>3
<1> QED BY <1>1, <1>6, <1>7 DEF rem

\* Every operation of memory.c keeps the types.
LEMMA NextType == TypeOK /\ [Next]_vars => TypeOK'
<1> SUFFICES ASSUME TypeOK, [Next]_vars PROVE TypeOK' OBVIOUS
<1>1. CASE UNCHANGED vars
  BY <1>1 DEF vars, TypeOK
<1>2. ASSUME NEW m_start \in STARTS, NEW n \in LENGTHS,
             MemAllocWithStart(m_start, n)
      PROVE  TypeOK'
  <2>1. m_start \in Uint32 /\ MemAlign4KB(n) \in Uint32
    BY AlignUint32, MemoryAssumption DEF Uint32
  <2>2. CASE AllocFails(m_start, MemAlign4KB(n))
    BY <2>2 DEF AllocFails, vars, TypeOK
  <2> QED BY <1>2, <2>1, <2>2, AllocFromEndType, AllocFromStartType
          DEF MemAllocWithStart
<1>3. ASSUME NEW b, MemFree(b) PROVE TypeOK'
  <2>1. CASE FreeFails(b)
    BY <2>1 DEF FreeFails, fields, TypeOK
  <2> QED BY <1>3, <2>1, FreeSucceedsType DEF MemFree
<1> QED BY <1>1, <1>2, <1>3 DEF Next
-----------------------------------------------------------------------------
(* The sum of the lengths in a table. *)

\* What a descriptor adds to the sum.
Weight(d) == IF inuse[d] = 1 THEN length[d] ELSE 0

\* l bytes go from a free descriptor to an allocated one (or, if l < 0, back), and
\* into the counter.
Transfer ==
  \E d \in MBDT, u \in UMBDT, l \in Int :
    /\ Weight(d)' = Weight(d) - l /\ Weight(u)' = Weight(u) + l /\ used' = used + l
    /\ \A e \in Desc \ {d, u} : Weight(e)' = Weight(e)

Bytes(T, w) == UNION {{d} \X (1 .. w[d]) : d \in T}

\* A table has a sum of lengths, and one descriptor adds its length to it.
LEMMA SumSplit ==
  ASSUME NEW T, IsFiniteSet(T), NEW w, \A e \in T : w[e] \in Uint32, NEW d \in T
  PROVE  /\ Cardinality(Bytes(T \ {d}, w)) \in Nat
         /\ Cardinality(Bytes(T, w)) = Cardinality(Bytes(T \ {d}, w)) + w[d]
<1> DEFINE R == Bytes(T \ {d}, w)
           D == {d} \X (1 .. w[d])
<1>1. w[d] \in Nat
  BY DEF Uint32
<1>2. IsFiniteSet(1 .. w[d]) /\ Cardinality(1 .. w[d]) = w[d]
  BY <1>1, FS_Interval
<1>3. IsFiniteSet({d}) /\ Cardinality({d}) = 1
  BY FS_Singleton
<1>4. IsFiniteSet(D) /\ Cardinality(D) = w[d]
  BY <1>1, <1>2, <1>3, FS_Product
<1>5. IsFiniteSet(R)
  <2>1. IsFiniteSet(1 .. WORD)
    BY FS_Interval, MemoryAssumption
  <2>2. IsFiniteSet(T \X (1 .. WORD))
    BY <2>1, FS_Product
  <2>3. R \subseteq T \X (1 .. WORD)
    BY MemoryAssumption DEF Bytes, Uint32
  <2> QED BY <2>2, <2>3, FS_Subset
<1>6. Bytes(T, w) = R \cup D
  BY DEF Bytes
<1>7. R \cap D = {}
  BY DEF Bytes
<1>8. Cardinality(R \cap D) = 0
  BY <1>7, FS_EmptySet
<1>9. Cardinality(R) \in Nat
  BY <1>5, FS_CardinalityType
<1> HIDE DEF R, D
<1>10. Cardinality(R \cup D) = Cardinality(R) + Cardinality(D) - Cardinality(R \cap D)
  BY <1>4, <1>5, FS_Union
<1>11. Cardinality(Bytes(T, w)) = Cardinality(R) + w[d]
  BY <1>1, <1>4, <1>6, <1>8, <1>9, <1>10
<1> QED BY <1>9, <1>11 DEF R

\* When one descriptor of a table changes, so does the sum, by as much.
LEMMA SumChange ==
  ASSUME NEW T, IsFiniteSet(T), NEW w, NEW x, \A e \in T : w[e] \in Uint32 /\ x[e] \in Uint32,
         NEW d \in T, \A e \in T \ {d} : x[e] = w[e]
  PROVE  Cardinality(Bytes(T, x)) = Cardinality(Bytes(T, w)) + x[d] - w[d]
<1>1. Bytes(T \ {d}, x) = Bytes(T \ {d}, w)
  BY DEF Bytes
<1>2. /\ Cardinality(Bytes(T \ {d}, w)) \in Nat
      /\ Cardinality(Bytes(T, w)) = Cardinality(Bytes(T \ {d}, w)) + w[d]
  BY SumSplit
<1>3. Cardinality(Bytes(T, x)) = Cardinality(Bytes(T \ {d}, x)) + x[d]
  BY SumSplit
<1>4. w[d] \in Nat /\ x[d] \in Nat
  BY DEF Uint32
<1> QED BY <1>1, <1>2, <1>3, <1>4

\* The sums of the code are sums of weights.
Weighed ==
  \A T \in SUBSET Desc : LengthsIn(T) = Cardinality(Bytes(T, [e \in Desc |-> Weight(e)]))

LEMMA SumOfWeights == Weighed
<1> USE DEF Weighed
<1> TAKE T \in SUBSET Desc
<1> DEFINE w == [e \in Desc |-> Weight(e)]
<1>1. \A d \in T : w[d] = IF inuse[d] = 1 THEN length[d] ELSE 0
  BY DEF Weight
<1>2. Bytes(T, w) = UNION {{d} \X (1 .. length[d]) : d \in {e \in T : inuse[e] = 1}}
  <2> HIDE DEF w
  <2>1. ASSUME NEW z \in Bytes(T, w)
        PROVE  z \in UNION {{d} \X (1 .. length[d]) : d \in {e \in T : inuse[e] = 1}}
    <3>1. PICK d \in T : z \in {d} \X (1 .. w[d])
      BY <2>1 DEF Bytes
    <3>2. inuse[d] = 1 /\ w[d] = length[d]
      BY <1>1, <3>1
    <3> QED BY <3>1, <3>2
  <2>2. ASSUME NEW d \in T, inuse[d] = 1 PROVE {d} \X (1 .. length[d]) \subseteq Bytes(T, w)
    BY <1>1, <2>2 DEF Bytes
  <2> QED BY <2>1, <2>2
<1> QED BY <1>2 DEF LengthsIn

\* The counter is right, and the two tables add up to the memory.
Tallied ==
  /\ LengthsIn(MBDT) \in Nat /\ LengthsIn(UMBDT) \in Nat
  /\ LengthsIn(MBDT) + LengthsIn(UMBDT) = MEMORY_SIZE - ALLOC_START_ADDRESS
  /\ used = ALLOC_START_ADDRESS + LengthsIn(UMBDT)

LEMMA TablesFinite == IsFiniteSet(MBDT) /\ IsFiniteSet(UMBDT)
BY MemoryAssumption, FS_Interval DEF MBDT, UMBDT

\* The sums follow what a transfer does.
LEMMA TransferTallied ==
  ASSUME TypeOK, TypeOK', Tallied, Transfer
  PROVE  Tallied'
<1> DEFINE w == [e \in Desc |-> Weight(e)]
           x == [e \in Desc |-> Weight(e)']
<1> USE DescFacts
<1>1. PICK d \in MBDT, u \in UMBDT, l \in Int :
        /\ Weight(d)' = Weight(d) - l /\ Weight(u)' = Weight(u) + l /\ used' = used + l
        /\ \A e \in Desc \ {d, u} : Weight(e)' = Weight(e)
  BY DEF Transfer
<1>2. \A e \in Desc : Weight(e) \in Uint32 /\ Weight(e)' \in Uint32
  BY MemoryAssumption DEF TypeOK, Weight, Uint32
<1>3. \A e \in Desc : w[e] \in Uint32 /\ x[e] \in Uint32
  BY <1>2
<1>4. /\ \A e \in MBDT \ {d} : x[e] = w[e]
      /\ \A e \in UMBDT \ {u} : x[e] = w[e]
      /\ x[d] = w[d] - l /\ x[u] = w[u] + l
  BY <1>1
<1>5. /\ LengthsIn(MBDT) = Cardinality(Bytes(MBDT, w))
      /\ LengthsIn(UMBDT) = Cardinality(Bytes(UMBDT, w))
  BY SumOfWeights DEF Weighed
<1>6. /\ LengthsIn(MBDT)' = Cardinality(Bytes(MBDT, x))
      /\ LengthsIn(UMBDT)' = Cardinality(Bytes(UMBDT, x))
  <2>1. Weighed'
    BY SumOfWeights, PTL
  <2> QED BY <2>1 DEF Weighed
<1> HIDE DEF w, x
<1>7. /\ Cardinality(Bytes(MBDT, x)) = Cardinality(Bytes(MBDT, w)) + x[d] - w[d]
      /\ Cardinality(Bytes(UMBDT, x)) = Cardinality(Bytes(UMBDT, w)) + x[u] - w[u]
  BY <1>3, <1>4, TablesFinite, SumChange
<1>8. /\ Cardinality(Bytes(MBDT, x)) \in Nat /\ Cardinality(Bytes(UMBDT, x)) \in Nat
  <2>1. /\ Cardinality(Bytes(MBDT \ {d}, x)) \in Nat
        /\ Cardinality(Bytes(MBDT, x)) = Cardinality(Bytes(MBDT \ {d}, x)) + x[d]
    BY <1>3, TablesFinite, SumSplit
  <2>2. /\ Cardinality(Bytes(UMBDT \ {u}, x)) \in Nat
        /\ Cardinality(Bytes(UMBDT, x)) = Cardinality(Bytes(UMBDT \ {u}, x)) + x[u]
    BY <1>3, TablesFinite, SumSplit
  <2>3. x[d] \in Nat /\ x[u] \in Nat
    BY <1>3 DEF Uint32
  <2> QED BY <2>1, <2>2, <2>3
<1>9. w[d] \in Nat /\ w[u] \in Nat
  BY <1>3 DEF Uint32
<1> QED BY <1>1, <1>4, <1>5, <1>6, <1>7, <1>8, <1>9, MemoryAssumption DEF Tallied
-----------------------------------------------------------------------------
(* The structure, in ordinary histories. *)

\* A descriptor found on the free chain is a free block in use.
LEMMA FoundFree ==
  ASSUME FreeChain, TypeOK, NEW Hit
  PROVE  /\ Found(mbdt.foot, prev, Hit) \subseteq Members(MBDT) \cap Hit
         /\ Found(mbdt.head, next, Hit) \subseteq Members(MBDT) \cap Hit
<1>1. Members(MBDT) \in SUBSET Desc
  BY DescFacts DEF Members
<1>2. /\ mbdt.head # NULL => mbdt.head \in Members(MBDT)
      /\ mbdt.foot # NULL => mbdt.foot \in Members(MBDT)
      /\ \A x \in Members(MBDT) : prev[x] # NULL => prev[x] \in Members(MBDT)
      /\ \A x \in Members(MBDT) : next[x] # NULL => next[x] \in Members(MBDT)
  BY DEF FreeChain, WellLinked
<1> QED BY <1>1, <1>2, FoundInList

\* The search of _MemFree finds descriptors of allocated blocks with the
\* address searched for.
LEMMA FoundUsed ==
  ASSUME UsedChain, TypeOK, NEW p
  PROVE  BlockAt(p) \subseteq Members(UMBDT) \cap {d \in Desc : start[d] = p}
<1>1. Members(UMBDT) \in SUBSET Desc
  BY DescFacts DEF Members
<1> QED BY <1>1, FoundInList DEF UsedChain, WellLinked, BlockAt

\* A new block cut out of a free block, whichever end it is cut from.
Cut(d, u, s, l, w) ==
  /\ d \in MBDT /\ inuse[d] = 1 /\ u \in UMBDT /\ inuse[u] = 0
  /\ s \in Nat /\ l \in Nat /\ l > 0
  /\ start[d] <= s /\ s + l <= start[d] + length[d]
  /\ start'[u] = s /\ length'[u] = l /\ inuse'[u] = 1
  /\ inuse'[d] = 1 => /\ start'[d] \in Nat /\ length'[d] \in Nat
                      /\ length'[d] > 0 /\ start[d] <= start'[d]
                      /\ start'[d] + length'[d] <= start[d] + length[d]
                      /\ Disjoint(start'[d], length'[d], s, l)
  /\ \A a \in start[d] .. start[d] + length[d] - 1 :
       \/ s <= a /\ a < s + l
       \/ inuse'[d] = 1 /\ start'[d] <= a /\ a < start'[d] + length'[d]
  /\ w <= s
  /\ WholePages => /\ s % PAGE = 0 /\ l % PAGE = 0
                   /\ start'[d] % PAGE = 0 /\ length'[d] % PAGE = 0
  /\ \A e \in Desc \ {d, u} : /\ inuse'[e] = inuse[e]
                              /\ start'[e] = start[e] /\ length'[e] = length[e]
  /\ live' = live \cup {[start |-> s, length |-> l, want |-> w]}

\* Cutting a new block out of a free block keeps all blocks within the memory
\* and apart, every live block described by exactly one descriptor, every address
\* in a block, and blocks at page boundaries.
LEMMA CutBlock ==
  ASSUME TypeOK, Blocks,
         NEW d, NEW u, NEW s, NEW l, NEW w, Cut(d, u, s, l, w)
  PROVE  Blocks'
<1> USE DescFacts, MemoryAssumption DEF Cut, Blocks
<1>1. \A e \in Desc : start[e] \in Nat /\ length[e] \in Nat
  BY DEF TypeOK, Uint32
<1>2. Ranges'
  BY <1>1 DEF Ranges
<1>3. \A e \in Desc \ {d, u} : inuse[e] = 1 => Disjoint(start[e], length[e], s, l)
  BY <1>1 DEF Apart, Disjoint
<1>4. Apart'
  BY <1>1, <1>3 DEF Apart, Disjoint
<1>5. Owned'
  BY DEF Owned
<1>6. \A b \in live : b.start # s
  <2> SUFFICES ASSUME NEW b \in live, b.start = s PROVE FALSE OBVIOUS
  <2>1. PICK v \in UMBDT : inuse[v] = 1 /\ start[v] = b.start
    BY DEF Owned
  <2>2. Disjoint(start[v], length[v], s, l) /\ length[v] > 0
    BY <1>3, <2>1 DEF Ranges
  <2> QED BY <1>1, <2>1, <2>2 DEF Disjoint
<1>7. OneOwner'
  BY <1>6 DEF OneOwner
<1>8. Covered'
  <2> SUFFICES ASSUME NEW a \in ALLOC_START_ADDRESS .. MEMORY_SIZE - 1
               PROVE  \E e \in Desc : /\ inuse'[e] = 1 /\ start'[e] <= a
                                      /\ a < start'[e] + length'[e]
    BY DEF Covered
  <2>1. PICK e \in Desc : inuse[e] = 1 /\ start[e] <= a /\ a < start[e] + length[e]
    BY DEF Covered
  <2>2. CASE e = d
    <3>1. a \in start[d] .. start[d] + length[d] - 1
      BY <1>1, <2>1, <2>2
    <3> QED BY <3>1
  <2>3. CASE e # d
    BY <2>1, <2>3
  <2> QED BY <2>2, <2>3
<1>9. Wanted'
  BY DEF Wanted
<1>10. Whole'
  BY DEF Whole
<1> QED BY <1>2, <1>4, <1>5, <1>7, <1>8, <1>9, <1>10

\* _MemAllocWithStart keeps the tables and lists in order when it cuts a block
\* from the end of a free block.
LEMMA AllocFromEndStructure ==
  ASSUME TypeOK, Structure, NEW m_start \in Uint32, NEW len \in Uint32,
         WORD % PAGE = 0 => len % PAGE = 0,
         AllocFromEnd(m_start, len), odd' = {}
  PROVE  Structure' /\ Transfer
<1> DEFINE F == Found(mbdt.foot, prev, Takes(m_start, len))
<1> USE DescFacts
<1>1. PICK d \in F, u \in UnusedMBD(UMBDT) : AllocFromEnd(m_start, len)!(d, u)
  BY DEF AllocFromEnd
<1>2. d \in MBDT /\ inuse[d] = 1 /\ u \in UMBDT /\ inuse[u] = 0
  BY FoundFree DEF Structure, UnusedMBD, Members
<1>3. len # 0 /\ m_start + len < WORD
  <2>1. ~(len = 0) /\ ~(m_start + len >= WORD)
    BY <1>1
  <2> QED BY <2>1, MemoryAssumption DEF Uint32
<1> DEFINE address == (start[d] + length[d] - len) % WORD
           app == AppendMBD(umbdt, prev, next, u)
<1>4. /\ start[d] \in Nat /\ length[d] \in Nat /\ len \in Nat /\ m_start \in Nat
      /\ start[d] + length[d] <= MEMORY_SIZE
  BY <1>2 DEF TypeOK, Structure, Blocks, Ranges, Uint32
<1>5. start[d] + length[d] \in Uint32 /\ m_start + len \in Uint32
  BY <1>3, <1>4, MemoryAssumption DEF Uint32
<1>6. start[d] < m_start /\ m_start + len < start[d] + length[d]
  <2>1. start[d] < m_start /\ (m_start + len) % WORD < End(d)
    BY <1>1 DEF TakesEnd
  <2>2. (m_start + len) % WORD = m_start + len /\ End(d) = start[d] + length[d]
    BY <1>5, ModSmall DEF End
  <2> QED BY <2>1, <2>2
<1>7. start[d] + length[d] - len \in Uint32 /\ length[d] - len \in Uint32
  BY <1>4, <1>5, <1>6, MemoryAssumption DEF Uint32
<1>8. address = start[d] + length[d] - len /\ (length[d] - len) % WORD = length[d] - len
  BY <1>7, ModSmall
<1>9. /\ app.ok /\ umbdt' = app.list /\ prev' = app.prev /\ next' = app.next
      /\ WellLinked(Members(UMBDT) \cup {u}, app.list, app.prev, app.next)
      /\ \A e \in Desc \ (Members(UMBDT) \cup {u}) :
           app.prev[e] = prev[e] /\ app.next[e] = next[e]
  <2>1. Members(UMBDT) \in SUBSET Desc /\ u \in Desc \ Members(UMBDT)
    BY <1>2 DEF Members
  <2>2. WellLinked(Members(UMBDT), umbdt, prev, next)
    BY DEF Structure, UsedChain
  <2>3. umbdt \in List /\ prev \in Links /\ next \in Links
    BY DEF TypeOK, Links
  <2>4. umbdt' = app.list /\ prev' = app.prev /\ next' = app.next
    BY <1>1
  <2>5. Appended(Members(UMBDT), umbdt, prev, next, u)
    BY <2>1, <2>2, <2>3, AppendOK
  <2> QED BY <2>4, <2>5 DEF Appended
<1> HIDE DEF app
<1>10. /\ start'[u] = address /\ length'[u] = len /\ inuse'[u] = 1
       /\ start'[d] = start[d] /\ length'[d] = length[d] - len /\ inuse'[d] = 1
       /\ \A e \in Desc \ {d, u} : /\ inuse'[e] = inuse[e] /\ start'[e] = start[e]
                                   /\ length'[e] = length[e]
  BY <1>1, <1>2, <1>8 DEF TypeOK
<1>11. live' = live \cup {[start |-> address, length |-> len, want |-> m_start]}
  BY <1>1, <1>9 DEF app
<1>12. Blocks'
  <2>1. /\ address \in Nat /\ len > 0 /\ start[d] <= address
        /\ address + len <= start[d] + length[d]
        /\ length'[d] > 0 /\ length'[d] \in Nat /\ start'[d] \in Nat
        /\ start[d] <= start'[d] /\ start'[d] + length'[d] <= start[d] + length[d]
        /\ Disjoint(start'[d], length'[d], address, len)
    BY <1>3, <1>4, <1>6, <1>8, <1>10 DEF Disjoint
  <2>2. \A a \in start[d] .. start[d] + length[d] - 1 :
          \/ address <= a /\ a < address + len
          \/ start'[d] <= a /\ a < start'[d] + length'[d]
    BY <1>4, <1>8, <1>10
  <2>3. m_start <= address
    BY <1>4, <1>6, <1>8
  <2>4. ASSUME WholePages
        PROVE  /\ address % PAGE = 0 /\ len % PAGE = 0
               /\ start'[d] % PAGE = 0 /\ length'[d] % PAGE = 0
    <3>1. start[d] % PAGE = 0 /\ length[d] % PAGE = 0 /\ len % PAGE = 0
      BY <1>2, <2>4 DEF Structure, Blocks, Whole, WholePages
    <3>2. (length[d] - len) % PAGE = 0 /\ (start[d] + length[d]) % PAGE = 0
      BY <1>4, <3>1, SumOfMultiples, MemoryAssumption
    <3>3. (start[d] + length[d] - len) % PAGE = 0
      BY <1>4, <3>1, <3>2, SumOfMultiples, MemoryAssumption
    <3> QED BY <1>8, <1>10, <3>1, <3>2, <3>3
  <2>5. Cut(d, u, address, len, m_start)
    BY <1>2, <1>4, <1>10, <1>11, <2>1, <2>2, <2>3, <2>4 DEF Cut
  <2> QED BY <2>5, CutBlock DEF Structure
<1>13. Members(UMBDT)' = Members(UMBDT) \cup {u} /\ Members(MBDT)' = Members(MBDT)
  BY <1>2, <1>10 DEF Members
<1>14. UsedChain'
  BY <1>9, <1>13 DEF UsedChain
<1>15. FreeChain'
  <2>1. Members(MBDT) \in SUBSET Desc \ (Members(UMBDT) \cup {u})
    BY <1>2 DEF Members
  <2>2. WellLinked(Members(MBDT), mbdt, prev, next)
    BY DEF Structure, FreeChain
  <2>3. WellLinked(Members(MBDT), mbdt, prev', next')
    BY <1>9, <2>1, <2>2, Frame DEF TypeOK
  <2> QED BY <1>1, <1>13, <2>3 DEF FreeChain
<1>16. used' = used + len
  BY <1>1, <1>9 DEF app
<1>17. Transfer
  BY <1>2, <1>4, <1>10, <1>16 DEF Transfer, Weight
<1> QED BY <1>12, <1>14, <1>15, <1>17 DEF Structure

\* _MemAllocWithStart keeps the tables and lists in order when it cuts a block
\* from the start of a free block, or takes it whole.
LEMMA AllocFromStartStructure ==
  ASSUME TypeOK, Structure, NEW m_start \in Uint32, NEW len \in Uint32,
         WORD % PAGE = 0 => len % PAGE = 0,
         AllocFromStart(m_start, len), odd' = {}
  PROVE  Structure' /\ Transfer
<1> DEFINE F == Found(mbdt.foot, prev, Takes(m_start, len))
<1> USE DescFacts
<1>1. PICK d \in F, u \in UnusedMBD(UMBDT) : AllocFromStart(m_start, len)!(d, u)
  BY DEF AllocFromStart
<1>2. d \in MBDT /\ inuse[d] = 1 /\ u \in UMBDT /\ inuse[u] = 0
  BY FoundFree DEF Structure, UnusedMBD, Members
<1>3. len # 0
  BY <1>1
<1> DEFINE gone == length[d] = len
           rem == IF gone THEN RemoveMBD(mbdt, prev, next, d)
                  ELSE [list |-> mbdt, prev |-> prev, next |-> next]
           app == AppendMBD(umbdt, rem.prev, rem.next, u)
           M == IF gone THEN Members(MBDT) \ {d} ELSE Members(MBDT)
<1>4. /\ start[d] \in Nat /\ length[d] \in Nat /\ len \in Nat /\ len <= length[d]
      /\ start[d] + length[d] <= MEMORY_SIZE
  BY <1>1, <1>2 DEF TypeOK, Structure, Blocks, Ranges, Uint32, TakesStart
<1>5. (start[d] + len) % WORD = start[d] + len
  <2>1. start[d] + len \in Uint32
    BY <1>4, MemoryAssumption DEF Uint32
  <2> QED BY <2>1, ModSmall
<1>6. Members(MBDT) \in SUBSET Desc /\ Members(UMBDT) \in SUBSET Desc
      /\ Members(MBDT) \cap Members(UMBDT) = {} /\ d \in Members(MBDT)
      /\ u \in Desc \ Members(UMBDT) /\ u \notin Members(MBDT)
  BY <1>2 DEF Members
<1>7. WellLinked(Members(MBDT), mbdt, prev, next)
      /\ WellLinked(Members(UMBDT), umbdt, prev, next)
  BY DEF Structure, UsedChain, FreeChain
<1>8. /\ rem.list \in List /\ rem.prev \in Links /\ rem.next \in Links
      /\ WellLinked(M, rem.list, rem.prev, rem.next)
      /\ \A e \in Desc \ Members(MBDT) : rem.prev[e] = prev[e] /\ rem.next[e] = next[e]
  <2>1. prev \in Links /\ next \in Links /\ mbdt \in List
    BY DEF TypeOK, Links
  <2>2. CASE gone
    <3>1. rem = RemoveMBD(mbdt, prev, next, d) /\ M = Members(MBDT) \ {d}
      BY <2>2
    <3>2. Removed(Members(MBDT), mbdt, prev, next, d)
      BY <2>1, <1>6, <1>7, RemoveOK
    <3> QED BY <3>1, <3>2 DEF Removed
  <2>3. CASE ~gone
    BY <2>1, <2>3, <1>7
  <2> QED BY <2>2, <2>3
<1> HIDE DEF rem
<1>9. WellLinked(Members(UMBDT), umbdt, rem.prev, rem.next)
  <2>1. \A e \in Members(UMBDT) : rem.prev[e] = prev[e] /\ rem.next[e] = next[e]
    BY <1>6, <1>8
  <2> QED BY <1>6, <1>7, <2>1, Frame DEF TypeOK
<1>10. /\ app.ok
       /\ WellLinked(Members(UMBDT) \cup {u}, app.list, app.prev, app.next)
       /\ \A e \in Desc \ (Members(UMBDT) \cup {u}) :
            app.prev[e] = rem.prev[e] /\ app.next[e] = rem.next[e]
  <2>1. umbdt \in List
    BY DEF TypeOK
  <2>2. Appended(Members(UMBDT), umbdt, rem.prev, rem.next, u)
    BY <1>6, <1>8, <1>9, <2>1, AppendOK
  <2> QED BY <2>2 DEF Appended
<1>11. mbdt' = rem.list /\ umbdt' = app.list /\ prev' = app.prev /\ next' = app.next
       /\ (app.ok => live' = live \cup
             {[start |-> start[d], length |-> len, want |-> m_start]})
       /\ (app.ok => used' = used + len)
  BY <1>1 DEF rem
<1> HIDE DEF app
<1>12. /\ start'[u] = start[d] /\ length'[u] = len /\ inuse'[u] = 1
       /\ start'[d] = start[d] + len /\ length'[d] = length[d] - len
       /\ inuse'[d] = IF gone THEN 0 ELSE 1
       /\ \A e \in Desc \ {d, u} : /\ inuse'[e] = inuse[e] /\ start'[e] = start[e]
                                   /\ length'[e] = length[e]
  BY <1>1, <1>2, <1>5 DEF TypeOK
<1>13. Blocks'
  <2>1. /\ len > 0 /\ start[d] + len <= start[d] + length[d]
        /\ inuse'[d] = 1 => 
              /\ length'[d] > 0 /\ length'[d] \in Nat /\ start'[d] \in Nat
              /\ start[d] <= start'[d] /\ start'[d] + length'[d] <= start[d] + length[d]
              /\ Disjoint(start'[d], length'[d], start[d], len)
    BY <1>3, <1>4, <1>12 DEF Disjoint
  <2>2. \A a \in start[d] .. start[d] + length[d] - 1 :
          \/ start[d] <= a /\ a < start[d] + len
          \/ inuse'[d] = 1 /\ start'[d] <= a /\ a < start'[d] + length'[d]
    BY <1>4, <1>12
  <2>3. m_start <= start[d]
    BY <1>1 DEF TakesStart
  <2>4. ASSUME WholePages
        PROVE  /\ start[d] % PAGE = 0 /\ len % PAGE = 0
               /\ start'[d] % PAGE = 0 /\ length'[d] % PAGE = 0
    <3>1. start[d] % PAGE = 0 /\ length[d] % PAGE = 0 /\ len % PAGE = 0
      BY <1>2, <2>4 DEF Structure, Blocks, Whole, WholePages
    <3>2. (length[d] - len) % PAGE = 0 /\ (start[d] + len) % PAGE = 0
      BY <1>4, <3>1, SumOfMultiples, MemoryAssumption
    <3> QED BY <1>12, <3>1, <3>2
  <2>5. Cut(d, u, start[d], len, m_start)
    BY <1>2, <1>4, <1>10, <1>11, <1>12, <2>1, <2>2, <2>3, <2>4 DEF Cut
  <2> QED BY <2>5, CutBlock DEF Structure
<1>14. Members(UMBDT)' = Members(UMBDT) \cup {u} /\ Members(MBDT)' = M
  BY <1>2, <1>12 DEF Members
<1>15. UsedChain'
  BY <1>10, <1>11, <1>14 DEF UsedChain
<1>16. FreeChain'
  <2>1. M \in SUBSET Desc /\ \A e \in M : prev'[e] = rem.prev[e] /\ next'[e] = rem.next[e]
    BY <1>6, <1>10, <1>11
  <2>2. WellLinked(M, rem.list, prev', next')
    BY <1>8, <2>1, Frame
  <2> QED BY <1>11, <1>14, <2>2 DEF FreeChain
<1>17. Transfer
  BY <1>2, <1>4, <1>10, <1>11, <1>12 DEF Transfer, Weight
<1> QED BY <1>13, <1>15, <1>16, <1>17 DEF Structure

\* A block given back: u leaves, and either d grows by it or n takes its place.
Grown(u, d) ==
  /\ d \in MBDT /\ inuse[d] = 1
  /\ inuse'[d] = 1 /\ length'[d] = length[d] + length[u]
  /\ \/ start[u] + length[u] = start[d] /\ start'[d] = start[u]
     \/ start[d] + length[d] = start[u] /\ start'[d] = start[d]
  /\ \A e \in Desc \ {d, u} : inuse'[e] = inuse[e]
  /\ \A e \in Desc \ {d, u} : inuse[e] = 1 => /\ start'[e] = start[e]
                                              /\ length'[e] = length[e]

Replaced(u, n) ==
  /\ n \in MBDT /\ inuse[n] = 0
  /\ inuse'[n] = 1 /\ start'[n] = start[u] /\ length'[n] = length[u]
  /\ \A e \in Desc \ {n, u} : /\ inuse'[e] = inuse[e]
                              /\ start'[e] = start[e] /\ length'[e] = length[e]

\* Releasing a block to a free neighbour, or into a descriptor of its own, keeps
\* all blocks within the memory and apart, and the other live blocks described.
LEMMA GiveBack ==
  ASSUME TypeOK, Blocks, NEW b \in live,
         NEW u \in UMBDT, inuse[u] = 1, start[u] = b.start, inuse'[u] = 0,
         live' = live \ {b},
         NEW d, Grown(u, d) \/ Replaced(u, d)
  PROVE  Blocks'
<1> USE DescFacts DEF Blocks
<1>1. \A e \in Desc : start[e] \in Nat /\ length[e] \in Nat
  BY DEF TypeOK, Uint32
<1>2. OneOwner'
  BY DEF OneOwner
<1>3. Owned'
  <2> SUFFICES ASSUME NEW a \in live, a # b
               PROVE  \E v \in UMBDT : /\ inuse'[v] = 1
                                       /\ start'[v] = a.start /\ length'[v] = a.length
    BY DEF Owned
  <2>1. PICK v \in UMBDT : inuse[v] = 1 /\ start[v] = a.start /\ length[v] = a.length
    BY DEF Owned
  <2>2. v # u /\ v # d
    BY <2>1 DEF OneOwner, Grown, Replaced
  <2> QED BY <2>1, <2>2 DEF Grown, Replaced
<1>4. Wanted'
  BY DEF Wanted
<1>5. CASE Grown(u, d)
  <2> USE <1>1, <1>5, MemoryAssumption DEF Grown
  <2>1. Ranges'
    BY DEF Ranges
  <2>2. ASSUME NEW e \in Desc \ {d, u}, inuse[e] = 1
        PROVE  Disjoint(start'[d], length'[d], start[e], length[e])
    <3>1. Disjoint(start[d], length[d], start[e], length[e])
          /\ Disjoint(start[u], length[u], start[e], length[e])
      BY <2>2 DEF Apart
    <3>2. length[d] > 0 /\ length[u] > 0 /\ length[e] > 0
      BY <2>2 DEF Ranges
    <3> QED BY <3>1, <3>2 DEF Disjoint
  <2>3. Apart'
    BY <2>2 DEF Apart, Disjoint
  <2>4. Covered'
    <3> SUFFICES ASSUME NEW a \in ALLOC_START_ADDRESS .. MEMORY_SIZE - 1
                 PROVE  \E e \in Desc : /\ inuse'[e] = 1 /\ start'[e] <= a
                                        /\ a < start'[e] + length'[e]
      BY DEF Covered
    <3>1. PICK e \in Desc : inuse[e] = 1 /\ start[e] <= a /\ a < start[e] + length[e]
      BY DEF Covered
    <3>2. CASE e \in {d, u}
      BY <3>1, <3>2
    <3>3. CASE e \notin {d, u}
      BY <3>1, <3>3
    <3> QED BY <3>2, <3>3
  <2>5. Whole'
    <3> SUFFICES ASSUME WholePages
                 PROVE  start'[d] % PAGE = 0 /\ length'[d] % PAGE = 0
      BY DEF Whole
    <3>1. /\ start[d] % PAGE = 0 /\ length[d] % PAGE = 0
          /\ start[u] % PAGE = 0 /\ length[u] % PAGE = 0
      BY DEF Whole
    <3>2. (length[d] + length[u]) % PAGE = 0
      BY <3>1, SumOfMultiples
    <3> QED BY <3>1, <3>2
  <2> QED BY <1>2, <1>3, <1>4, <2>1, <2>3, <2>4, <2>5
<1>6. CASE Replaced(u, d)
  <2> USE <1>6 DEF Replaced
  <2>1. Ranges'
    BY DEF Ranges
  <2>2. Apart'
    BY DEF Apart, Disjoint
  <2>3. Covered'
    BY DEF Covered
  <2>4. Whole'
    BY DEF Whole
  <2> QED BY <1>2, <1>3, <1>4, <2>1, <2>2, <2>3, <2>4
<1> QED BY <1>5, <1>6

\* _MemFree keeps the tables and lists in order on each of its three ways to
\* release a block.
LEMMA FreeSucceedsStructure ==
  ASSUME TypeOK, Structure, NEW b \in live \cup {NoBlock}, FreeSucceeds(b), odd' = {}
  PROVE  Structure' /\ Transfer
<1> USE DescFacts
<1>1. PICK u \in BlockAt(b.start), n \in UnusedMBD(MBDT) : FreeSucceeds(b)!(u, n)
  BY DEF FreeSucceeds
<1>2. /\ u \in UMBDT /\ inuse[u] = 1 /\ start[u] = b.start
      /\ n \in MBDT /\ inuse[n] = 0
  BY FoundUsed DEF Structure, UnusedMBD, Members
<1>3. b \in live
  <2>1. start[u] >= ALLOC_START_ADDRESS
    BY <1>2 DEF Structure, Blocks, Ranges
  <2> QED BY <1>2, <2>1, MemoryAssumption DEF NoBlock, NULL
<1> DEFINE MF == Members(MBDT)
           MU == Members(UMBDT)
           pv == [prev EXCEPT ![n] = prev[u]]
           nx == [next EXCEPT ![n] = next[u]]
           rem == RemoveMBD(umbdt, pv, nx, u)
<1>4. /\ MF \in SUBSET Desc /\ MU \in SUBSET Desc /\ MF \cap MU = {}
      /\ u \in MU /\ n \in Desc /\ n \notin MF /\ n \notin MU /\ u \notin MF
  BY <1>2 DEF Members
<1>5. pv \in Links /\ nx \in Links /\ umbdt \in List /\ mbdt \in List
      /\ \A e \in Desc \ {n} : pv[e] = prev[e] /\ nx[e] = next[e]
  BY <1>2 DEF TypeOK, Links
<1>6. WellLinked(MU, umbdt, pv, nx) /\ WellLinked(MF, mbdt, pv, nx)
  <2>1. WellLinked(MU, umbdt, prev, next) /\ WellLinked(MF, mbdt, prev, next)
    BY DEF Structure, FreeChain, UsedChain
  <2>2. /\ \A e \in MU : pv[e] = prev[e] /\ nx[e] = next[e]
        /\ \A e \in MF : pv[e] = prev[e] /\ nx[e] = next[e]
    BY <1>4, <1>5
  <2> HIDE DEF MF, MU, pv, nx
  <2> QED BY <1>4, <1>5, <2>1, <2>2, Frame
<1>7. Removed(MU, umbdt, pv, nx, u)
  <2> HIDE DEF MF, MU, pv, nx
  <2> QED BY <1>4, <1>5, <1>6, RemoveOK
<1>8. /\ rem.list \in List /\ rem.prev \in Links /\ rem.next \in Links
      /\ WellLinked(MU \ {u}, rem.list, rem.prev, rem.next)
      /\ \A e \in Desc \ MU : rem.prev[e] = pv[e] /\ rem.next[e] = nx[e]
  <2> HIDE DEF MU, pv, nx
  <2> QED BY <1>7 DEF Removed
<1>9. WellLinked(MF, mbdt, rem.prev, rem.next)
  <2>1. \A e \in MF : rem.prev[e] = pv[e] /\ rem.next[e] = nx[e]
    BY <1>4, <1>8
  <2> HIDE DEF MF, MU, pv, nx, rem
  <2> QED BY <1>4, <1>5, <1>6, <2>1, Frame
<1>10. /\ umbdt' = rem.list /\ live' = live \ {b}
       /\ \/ ReleaseMerged(u, n, rem.prev, rem.next)
          \/ ReleaseAppended(u, n, rem.prev, rem.next)
  BY <1>1
<1> HIDE DEF MF, MU, pv, nx, rem
<1>11. start[u] \in Nat /\ length[u] \in Nat /\ start[u] + length[u] <= MEMORY_SIZE
  BY <1>2 DEF TypeOK, Uint32, Structure, Blocks, Ranges
<1>12. used' = used - length[u]
  <2>1. mbdt.head = NULL <=> mbdt.foot = NULL
    BY <1>9 DEF WellLinked
  <2>2. Sound(mbdt) \/ Empty(mbdt)
    BY <2>1 DEF Sound, Empty
  <2> QED BY <1>1, <2>2
<1>13. used' = used + (0 - length[u])
  BY <1>11, <1>12 DEF TypeOK
<1>14. CASE ReleaseMerged(u, n, rem.prev, rem.next)
  <2>1. PICK d \in Found(mbdt.head, rem.next, Touches(start[u], length[u])) :
          ReleaseMerged(u, n, rem.prev, rem.next)!(d)
    BY <1>14 DEF ReleaseMerged
  <2>2. d \in MF /\ d \in Touches(start[u], length[u])
    BY <1>4, <1>9, FoundInList DEF WellLinked
  <2>3. d \in MBDT /\ inuse[d] = 1 /\ d # u /\ d # n
    BY <1>4, <2>2 DEF MF, Members
  <2>4. start[d] \in Nat /\ length[d] \in Nat /\ start[d] + length[d] <= MEMORY_SIZE
    BY <2>3 DEF TypeOK, Uint32, Structure, Blocks, Ranges
  <2>5. /\ (start[u] + length[u]) % WORD = start[u] + length[u]
        /\ (start[d] + length[d]) % WORD = start[d] + length[d]
    <3>1. start[u] + length[u] \in Uint32 /\ start[d] + length[d] \in Uint32
      BY <1>11, <2>4, MemoryAssumption DEF Uint32
    <3> QED BY <3>1, ModSmall
  <2>6. start[u] + length[u] = start[d] \/ start[d] + length[d] = start[u]
    BY <2>2, <2>5 DEF Touches, End
  <2>7. (length[d] + length[u]) % WORD = length[d] + length[u]
    <3>1. length[d] + length[u] \in Uint32
      BY <1>11, <2>4, <2>6, MemoryAssumption DEF Uint32
    <3> QED BY <3>1, ModSmall
  <2>8. Grown(u, d) /\ inuse'[u] = 0
    BY <1>2, <2>1, <2>3, <2>5, <2>6, <2>7 DEF Grown, TypeOK
  <2>9. Blocks'
    BY <1>2, <1>3, <1>10, <2>8, GiveBack DEF Structure
  <2>10. Members(MBDT)' = MF /\ Members(UMBDT)' = MU \ {u}
    BY <1>2, <2>8 DEF MF, MU, Members, Grown
  <2>11. mbdt' = mbdt /\ prev' = rem.prev /\ next' = rem.next
    BY <2>1
  <2>12. FreeChain' /\ UsedChain'
    BY <1>8, <1>9, <1>10, <2>10, <2>11 DEF FreeChain, UsedChain
  <2>13. Transfer
    <3>1. /\ Weight(d)' = Weight(d) - (0 - length[u]) /\ Weight(u)' = Weight(u) + (0 - length[u])
          /\ 0 - length[u] \in Int
      BY <1>2, <1>11, <2>3, <2>4, <2>8 DEF Weight, Grown
    <3>2. \A e \in Desc \ {d, u} : Weight(e)' = Weight(e)
      BY <2>8 DEF Weight, Grown, TypeOK
    <3> QED BY <1>2, <1>13, <2>3, <3>1, <3>2 DEF Transfer
  <2> QED BY <2>9, <2>12, <2>13 DEF Structure
<1>15. CASE ReleaseAppended(u, n, rem.prev, rem.next)
  <2>1. Replaced(u, n) /\ inuse'[u] = 0
    BY <1>2, <1>15 DEF ReleaseAppended, Replaced, TypeOK
  <2>2. Blocks'
    BY <1>2, <1>3, <1>10, <2>1, GiveBack DEF Structure
  <2>3. Members(MBDT)' = MF \cup {n} /\ Members(UMBDT)' = MU \ {u}
    BY <1>2, <2>1 DEF MF, MU, Members, Replaced
  <2>4. Transfer
    <3>1. /\ Weight(n)' = Weight(n) - (0 - length[u]) /\ Weight(u)' = Weight(u) + (0 - length[u])
          /\ 0 - length[u] \in Int
      BY <1>2, <1>11, <2>1 DEF Weight, Replaced
    <3>2. \A e \in Desc \ {n, u} : Weight(e)' = Weight(e)
      BY <2>1 DEF Weight, Replaced, TypeOK
    <3> QED BY <1>2, <1>13, <3>1, <3>2 DEF Transfer
  <2>5. CASE FreeIntoEmpty(n, rem.prev, rem.next)
    <3>1. /\ mbdt.head = NULL /\ mbdt.foot = NULL
          /\ mbdt' = [head |-> n, foot |-> n]
          /\ prev' = rem.prev /\ next' = rem.next
      BY <2>5 DEF FreeIntoEmpty, Empty
    <3>2. rem.prev[n] = NULL /\ rem.next[n] = NULL
      BY <2>5 DEF FreeIntoEmpty
    <3>3. WellLinked(MF \cup {n}, mbdt', rem.prev, rem.next)
      <4>1. MF = {}
        <5>1. {} \in SUBSET MF
          OBVIOUS
        <5>2. Reached(MF, mbdt, rem.next)
          BY <1>9 DEF WellLinked
        <5> QED BY <3>1, <5>1, <5>2 DEF Reached
      <4>2. Reached(MF \cup {n}, mbdt', rem.next)
        BY <1>4, <3>1, <4>1 DEF Reached
      <4> QED BY <1>4, <3>1, <3>2, <4>1, <4>2 DEF WellLinked
    <3>4. FreeChain' /\ UsedChain'
      BY <1>8, <1>10, <2>3, <3>1, <3>3 DEF FreeChain, UsedChain
    <3> QED BY <2>2, <2>4, <3>4 DEF Structure
  <2>6. CASE ~FreeIntoEmpty(n, rem.prev, rem.next)
    <3> DEFINE app == AppendMBD(mbdt, rem.prev, rem.next, n)
    <3>1. mbdt' = app.list /\ prev' = app.prev /\ next' = app.next
      BY <1>15, <2>6 DEF ReleaseAppended
    <3>2. Appended(MF, mbdt, rem.prev, rem.next, n)
      BY <1>4, <1>5, <1>8, <1>9, AppendOK
    <3>3. /\ WellLinked(MF \cup {n}, app.list, app.prev, app.next)
          /\ \A e \in Desc \ (MF \cup {n}) :
               app.prev[e] = rem.prev[e] /\ app.next[e] = rem.next[e]
      BY <3>2 DEF Appended
    <3>4. WellLinked(MU \ {u}, rem.list, app.prev, app.next)
      <4>1. \A e \in MU \ {u} : app.prev[e] = rem.prev[e] /\ app.next[e] = rem.next[e]
        BY <1>4, <3>3
      <4>2. MU \ {u} \in SUBSET Desc
        BY <1>4
      <4> HIDE DEF app
      <4> QED BY <1>8, <4>1, <4>2, Frame
    <3>5. FreeChain' /\ UsedChain'
      BY <1>10, <2>3, <3>1, <3>3, <3>4 DEF FreeChain, UsedChain
    <3> QED BY <2>2, <2>4, <3>5 DEF Structure
  <2> QED BY <2>5, <2>6
<1> QED BY <1>10, <1>14, <1>15
-----------------------------------------------------------------------------
\* An exceptional event is never forgotten.
LEMMA OddGrows == [Next]_vars => odd \subseteq odd'
<1> SUFFICES ASSUME [Next]_vars PROVE odd \subseteq odd' OBVIOUS
<1>1. CASE UNCHANGED vars
  BY <1>1 DEF vars
<1>2. ASSUME NEW m_start, NEW n, MemAllocWithStart(m_start, n)
      PROVE  odd \subseteq odd'
  <2>1. CASE AllocFails(m_start, MemAlign4KB(n))
    BY <2>1 DEF AllocFails, vars
  <2>2. CASE AllocFromEnd(m_start, MemAlign4KB(n))
    BY <2>2 DEF AllocFromEnd
  <2>3. CASE AllocFromStart(m_start, MemAlign4KB(n))
    BY <2>3 DEF AllocFromStart
  <2> QED BY <1>2, <2>1, <2>2, <2>3 DEF MemAllocWithStart
<1>3. ASSUME NEW b, MemFree(b) PROVE odd \subseteq odd'
  <2>1. CASE FreeFails(b)
    BY <2>1 DEF FreeFails
  <2>2. ASSUME NEW u, NEW n, NEW pv, NEW nx,
               ReleaseMerged(u, n, pv, nx) \/ ReleaseAppended(u, n, pv, nx)
        PROVE  odd \subseteq odd'
    BY <2>2 DEF ReleaseMerged, ReleaseAppended, FreeIntoEmpty
  <2>3. CASE FreeSucceeds(b)
    BY <2>2, <2>3 DEF FreeSucceeds
  <2> QED BY <1>3, <2>1, <2>3 DEF MemFree
<1> QED BY <1>1, <1>2, <1>3 DEF Next

\* Every operation of memory.c preserves the inductive invariant.
LEMMA NextIInv == IInv /\ [Next]_vars => IInv'
<1> SUFFICES ASSUME IInv, [Next]_vars PROVE IInv' OBVIOUS
<1>1. TypeOK'
  BY NextType DEF IInv
<1>2. SUFFICES ASSUME odd' = {} PROVE Structure'
  BY <1>1 DEF IInv
<1>3. odd = {}
  BY <1>2, OddGrows
<1>4. TypeOK /\ Structure
  BY <1>3 DEF IInv
<1>5. CASE UNCHANGED vars
  BY <1>4, <1>5 DEF vars, Structure, Blocks, Ranges, Apart, Owned, OneOwner,
                    Covered, Wanted, Whole, FreeChain, UsedChain, Members
<1>6. ASSUME NEW m_start \in STARTS, NEW n \in LENGTHS,
             MemAllocWithStart(m_start, n)
      PROVE  Structure'
  <2>1. m_start \in Uint32 /\ MemAlign4KB(n) \in Uint32 /\ n \in Uint32
    BY AlignUint32, MemoryAssumption DEF Uint32
  <2>2. CASE AllocFails(m_start, MemAlign4KB(n))
    BY <1>5, <2>2 DEF AllocFails
  <2>3. WORD % PAGE = 0 => MemAlign4KB(n) % PAGE = 0
    BY <2>1, AlignWhole
  <2> QED BY <1>2, <1>4, <1>6, <2>1, <2>2, <2>3, AllocFromEndStructure,
             AllocFromStartStructure DEF MemAllocWithStart
<1>7. ASSUME NEW b \in live \cup {NoBlock}, MemFree(b) PROVE Structure'
  <2>1. CASE FreeFails(b)
    BY <1>4, <2>1 DEF FreeFails, fields, Structure, Blocks, Ranges, Apart, Owned,
                      OneOwner, Covered, Wanted, Whole, FreeChain, UsedChain, Members
  <2> QED BY <1>2, <1>4, <1>7, <2>1, FreeSucceedsStructure DEF MemFree
<1> QED BY <1>5, <1>6, <1>7 DEF Next

\* So it does the sums.
LEMMA NextTallied == IInv /\ (odd = {} => Tallied) /\ [Next]_vars => (odd' = {} => Tallied')
<1> SUFFICES ASSUME IInv, odd = {} => Tallied, [Next]_vars, odd' = {} PROVE Tallied'
  OBVIOUS
<1>1. odd = {}
  BY OddGrows
<1>2. TypeOK /\ Structure /\ Tallied
  BY <1>1 DEF IInv
<1>3. TypeOK'
  BY <1>2, NextType
<1>4. CASE UNCHANGED <<fields, used>>
  BY <1>2, <1>4 DEF fields, Tallied, LengthsIn
<1>5. CASE Transfer
  BY <1>2, <1>3, <1>5, TransferTallied
<1>6. CASE UNCHANGED vars
  BY <1>4, <1>6 DEF vars, fields
<1>7. ASSUME NEW m_start \in STARTS, NEW n \in LENGTHS,
             MemAllocWithStart(m_start, n)
      PROVE  Tallied'
  <2>1. m_start \in Uint32 /\ MemAlign4KB(n) \in Uint32 /\ n \in Uint32
    BY AlignUint32, MemoryAssumption DEF Uint32
  <2>2. CASE AllocFails(m_start, MemAlign4KB(n))
    BY <1>6, <2>2 DEF AllocFails
  <2>3. WORD % PAGE = 0 => MemAlign4KB(n) % PAGE = 0
    BY <2>1, AlignWhole
  <2> QED BY <1>2, <1>5, <1>7, <2>1, <2>2, <2>3, AllocFromEndStructure,
             AllocFromStartStructure DEF MemAllocWithStart
<1>8. ASSUME NEW b \in live \cup {NoBlock}, MemFree(b) PROVE Tallied'
  <2>1. CASE FreeFails(b)
    BY <1>4, <2>1 DEF FreeFails
  <2> QED BY <1>2, <1>5, <1>8, <2>1, FreeSucceedsStructure DEF MemFree
<1> QED BY <1>6, <1>7, <1>8 DEF Next

\* At the start nothing is allocated, and the first block is all of the memory.
LEMMA InitTallied == Init => Tallied
<1> SUFFICES ASSUME Init PROVE Tallied OBVIOUS
<1> USE DescFacts, MemoryAssumption
<1> DEFINE L == MEMORY_SIZE - ALLOC_START_ADDRESS
<1>1. UNION {{d} \X (1 .. length[d]) : d \in {e \in UMBDT : inuse[e] = 1}} = {}
  BY DEF Init
<1>2. UNION {{d} \X (1 .. length[d]) : d \in {e \in MBDT : inuse[e] = 1}} = {1} \X (1 .. L)
  <2>1. {e \in MBDT : inuse[e] = 1} = {1}
    BY DEF Init
  <2>2. length[1] = L
    BY DEF Init
  <2> QED BY <2>1, <2>2
<1>3. LengthsIn(UMBDT) = 0
  BY <1>1, FS_EmptySet DEF LengthsIn
<1>4. IsFiniteSet(1 .. L) /\ Cardinality(1 .. L) = L
  BY FS_Interval
<1>5. IsFiniteSet({1}) /\ Cardinality({1}) = 1
  BY FS_Singleton
<1>6. Cardinality({1} \X (1 .. L)) = L
  <2>1. Cardinality({1} \X (1 .. L)) = 1 * L
    BY <1>4, <1>5, FS_Product
  <2> QED BY <2>1
<1>7. LengthsIn(MBDT) = L
  BY <1>2, <1>6 DEF LengthsIn
<1> QED BY <1>3, <1>7 DEF Tallied, Init

\* The variables keep their types: no descriptor link leaves the two tables and
\* no address or length leaves 32 bits, in exceptional histories too.
THEOREM TypeCorrect == Spec => []TypeOK
<1>1. Init => TypeOK
  BY InitIInv DEF IInv
<1> QED BY <1>1, NextType, PTL DEF Spec

\* Memory handed out by MemAlloc and MemAllocWithStart is exclusive, for every
\* size of the memory, of the tables and of the requests.
THEOREM MemoryExclusive == Spec => []Exclusive
<1>1. Spec => []IInv
  BY InitIInv, NextIInv, PTL DEF Spec
<1> QED BY <1>1, IInvExclusive, PTL

\* In ordinary histories no search of memory.c runs round in a ring, which with
\* interrupts disabled would stop the machine: neither the one of
\* _MemAllocWithStart for a free block nor that of _MemFree for an allocated
\* block or for a free neighbour, whatever they look for.
SearchesEnd ==
  odd = {} => \A Hit \in SUBSET Desc : /\ Ends(mbdt.foot, prev, Hit)
                                       /\ Ends(mbdt.head, next, Hit)
                                       /\ Ends(umbdt.head, next, Hit)

\* The descriptor of a live block is on the chain that MemFree searches, and no
\* other block on it begins at the same address.
LEMMA IInvFindable == IInv => Findable /\ SearchesEnd
<1> SUFFICES ASSUME TypeOK, Structure
             PROVE  /\ \A b \in live :
                         /\ BlockAt(b.start) # {}
                         /\ \A d \in BlockAt(b.start) : length[d] = b.length
                    /\ SearchesEnd
  BY DEF IInv, Findable, SearchesEnd
<1> USE DescFacts
<1>1. Members(UMBDT) \in SUBSET Desc /\ Members(MBDT) \in SUBSET Desc
  BY DEF Members
<1>2. /\ WellLinked(Members(UMBDT), umbdt, prev, next)
      /\ WellLinked(Members(MBDT), mbdt, prev, next)
  BY DEF Structure, UsedChain, FreeChain
<1>3. umbdt \in List /\ mbdt \in List
  BY DEF TypeOK
<1>4. SearchesEnd
  BY <1>1, <1>2, <1>3, SearchForward, SearchBackward DEF SearchesEnd
<1>5. ASSUME NEW b \in live
      PROVE  /\ BlockAt(b.start) # {}
             /\ \A d \in BlockAt(b.start) : length[d] = b.length
  <2> DEFINE Hit == {d \in Desc : start[d] = b.start}
  <2>1. PICK u \in UMBDT : inuse[u] = 1 /\ start[u] = b.start /\ length[u] = b.length
    BY DEF Structure, Blocks, Owned
  <2>2. u \in Members(UMBDT) \cap Hit
    BY <2>1 DEF Members
  <2>3. BlockAt(b.start) # {}
    BY <1>1, <1>2, <1>3, <2>2, SearchForward DEF BlockAt
  <2>4. ASSUME NEW d \in BlockAt(b.start) PROVE d = u
    <3>1. d \in Desc /\ inuse[d] = 1 /\ start[d] = b.start
      BY FoundUsed DEF Structure, Members
    <3>2. length[d] > 0 /\ length[u] > 0
      BY <2>1, <3>1 DEF Structure, Blocks, Ranges
    <3>3. d # u => Disjoint(start[d], length[d], start[u], length[u])
      BY <2>1, <3>1 DEF Structure, Blocks, Apart
    <3>4. start[d] \in Nat /\ length[d] \in Nat /\ length[u] \in Nat
      BY <3>1 DEF TypeOK, Uint32
    <3> QED BY <2>1, <3>1, <3>2, <3>3, <3>4 DEF Disjoint
  <2> QED BY <2>1, <2>3, <2>4
<1> QED BY <1>4, <1>5

\* MemFree and MemGetBlockSise find the descriptor of every live block, with its
\* length, for every size of the memory, of the tables and of the requests.
THEOREM MemoryFindable == Spec => []Findable
<1>1. Spec => []IInv
  BY InitIInv, NextIInv, PTL DEF Spec
<1> QED BY <1>1, IInvFindable, PTL

\* The loops of the memory manager come to an end.
THEOREM MemorySearchesEnd == Spec => []SearchesEnd
<1>1. Spec => []IInv
  BY InitIInv, NextIInv, PTL DEF Spec
<1> QED BY <1>1, IInvFindable, PTL

\* In ordinary histories no address is lost or counted twice by splitting and
\* merging blocks, leaks included: every address of the allocatable memory lies
\* in the block of exactly one descriptor of the two tables.
NothingLost ==
  odd = {} => \A a \in ALLOC_START_ADDRESS .. MEMORY_SIZE - 1 :
    LET Holds(d) == inuse[d] = 1 /\ start[d] <= a /\ a < start[d] + length[d]
    IN /\ \E d \in Desc : Holds(d)
       /\ \A d, e \in Desc : Holds(d) /\ Holds(e) => d = e

\* The inductive invariant says where the blocks are, and that none is missing.
LEMMA IInvPlaced == IInv => (WholePages => Placed) /\ NothingLost
<1> SUFFICES ASSUME IInv, odd = {}
             PROVE  /\ WholePages => Placed
                    /\ NothingLost
  BY DEF Placed, NothingLost
<1> USE DescFacts
<1>1. TypeOK /\ Structure
  BY DEF IInv
<1>2. ASSUME WholePages, NEW b \in live
      PROVE  b.start >= b.want /\ b.start % PAGE = 0 /\ b.length % PAGE = 0
  <2>1. PICK u \in UMBDT : inuse[u] = 1 /\ start[u] = b.start /\ length[u] = b.length
    BY <1>1 DEF Structure, Blocks, Owned
  <2>2. b.start % PAGE = 0 /\ b.length % PAGE = 0
    BY <1>1, <1>2, <2>1 DEF Structure, Blocks, Whole
  <2>3. b.want <= b.start /\ b.want \in Nat /\ b.start \in Nat
    BY <1>1 DEF Structure, Blocks, Wanted, TypeOK, Block, Uint32
  <2> QED BY <2>2, <2>3
<1>3. \A a \in ALLOC_START_ADDRESS .. MEMORY_SIZE - 1 :
        \E d \in Desc : inuse[d] = 1 /\ start[d] <= a /\ a < start[d] + length[d]
  BY <1>1 DEF Structure, Blocks, Covered
<1>4. ASSUME NEW a \in ALLOC_START_ADDRESS .. MEMORY_SIZE - 1,
             NEW d \in Desc, NEW e \in Desc, d # e, inuse[d] = 1, inuse[e] = 1,
             start[d] <= a, a < start[d] + length[d],
             start[e] <= a, a < start[e] + length[e]
      PROVE  FALSE
  <2>1. Disjoint(start[d], length[d], start[e], length[e])
    BY <1>1, <1>4 DEF Structure, Blocks, Apart
  <2>2. /\ start[d] \in Nat /\ length[d] \in Nat /\ start[e] \in Nat
        /\ length[e] \in Nat /\ a \in Int
    BY <1>1, MemoryAssumption DEF TypeOK, Uint32
  <2> QED BY <1>4, <2>1, <2>2 DEF Disjoint
<1> QED BY <1>2, <1>3, <1>4 DEF Placed, NothingLost

\* A block begins at or after the address its caller asked for, and it begins
\* and ends at page boundaries if the memory the BIOS reports does.
THEOREM MemoryPlaced == ASSUME WholePages PROVE Spec => []Placed
<1>1. Spec => []IInv
  BY InitIInv, NextIInv, PTL DEF Spec
<1>2. IInv => Placed
  BY WholePages, IInvPlaced
<1> QED BY <1>1, <1>2, PTL

\* Splitting and merging never loses an address or puts it into two blocks.
THEOREM MemoryNothingLost == Spec => []NothingLost
<1>1. Spec => []IInv
  BY InitIInv, NextIInv, PTL DEF Spec
<1>2. IInv => NothingLost
  BY IInvPlaced
<1> QED BY <1>1, <1>2, PTL

\* The two tables add up to the memory, and the counter behind MemGetUsedLength is
\* what the table of allocated blocks adds up to, whatever was split, merged or
\* leaked (memory.c:244-290, 355, 381, 522).
THEOREM MemoryAccounting == Spec => []Accounting
<1> DEFINE AInv == IInv /\ (odd = {} => Tallied)
<1>1. Init => AInv
  BY InitIInv, InitTallied
<1>2. AInv /\ [Next]_vars => AInv'
  BY NextIInv, NextTallied
<1>3. AInv => Accounting
  BY MemoryAssumption DEF Accounting, MemGetMBDTableInfo, MemGetUsedMBDTableInfo, Tallied
<1> HIDE DEF AInv
<1> QED BY <1>1, <1>2, <1>3, PTL DEF Spec

\* An allocation adds to the live blocks at most one block, of the length asked
\* for rounded up, and MemFree takes away at most the block it was called with.
LEMMA LiveSteps ==
  ASSUME [Next]_vars
  PROVE  \/ live' = live
         \/ \E n \in LENGTHS : \E s, w :
              live' = live \cup {[start |-> s, length |-> MemAlign4KB(n), want |-> w]}
         \/ \E b \in live : live' = live \ {b}
<1>1. CASE UNCHANGED vars
  BY <1>1 DEF vars
<1>2. ASSUME NEW m_start \in STARTS, NEW n \in LENGTHS, MemAllocWithStart(m_start, n)
      PROVE  \/ live' = live
             \/ \E s, w : live' = live \cup
                  {[start |-> s, length |-> MemAlign4KB(n), want |-> w]}
  <2>1. CASE AllocFails(m_start, MemAlign4KB(n))
    BY <2>1 DEF AllocFails, vars
  <2>2. CASE AllocFromEnd(m_start, MemAlign4KB(n))
    BY <2>2 DEF AllocFromEnd
  <2>3. CASE AllocFromStart(m_start, MemAlign4KB(n))
    BY <2>3 DEF AllocFromStart
  <2> QED BY <1>2, <2>1, <2>2, <2>3 DEF MemAllocWithStart
<1>3. ASSUME NEW b \in live \cup {NoBlock}, MemFree(b)
      PROVE  live' = live \/ \E c \in live : live' = live \ {c}
  <2>1. live' = live \ {b}
    BY <1>3 DEF MemFree, FreeFails, FreeSucceeds
  <2>2. CASE b \in live
    BY <2>1, <2>2
  <2>3. CASE b \notin live
    BY <2>1, <2>3
  <2> QED BY <2>2, <2>3
<1> QED BY <1>1, <1>2, <1>3 DEF Next

\* Every step that leaves the live blocks exclusive is one that Allocator allows,
\* or changes nothing that Allocator speaks of.
LEMMA StepImplements ==
  Exclusive' /\ [Next]_vars => [Promised!Next]_<<live, odd # {}>>
<1> SUFFICES ASSUME Exclusive', [Next]_vars
             PROVE  Promised!Next \/ UNCHANGED <<live, odd # {}>>
  OBVIOUS
<1>1. CASE odd' # {}
  BY <1>1 DEF Promised!Next, Promised!Break
<1>2. CASE odd' = {}
  <2>1. odd = {}
    BY <1>2, OddGrows
  <2>2. NoOverlap' /\ InMemory'
    BY <1>2 DEF Exclusive
  <2>3. CASE live' = live
    BY <1>2, <2>1, <2>3
  <2>4. ASSUME NEW n \in LENGTHS, NEW s, NEW w,
               live' = live \cup {[start |-> s, length |-> MemAlign4KB(n), want |-> w]}
        PROVE  Promised!Next \/ UNCHANGED <<live, odd # {}>>
    <3> DEFINE b == [start |-> s, length |-> MemAlign4KB(n), want |-> w]
    <3>1. CASE b \in live
      BY <1>2, <2>1, <2>4, <3>1
    <3>2. CASE b \notin live
      <4>1. b \in live' /\ b \in live' \ live
        BY <2>4, <3>2
      <4>2. Promised!Fits(b)
        BY <2>2, <4>1 DEF InMemory, Promised!Fits
      <4>3. \A a \in live : Promised!Apart(a, b)
        BY <2>2, <2>4, <3>2, <4>1 DEF NoOverlap, Disjoint, Promised!Apart
      <4>4. b.length \in {MemAlign4KB(k) : k \in LENGTHS}
        OBVIOUS
      <4>5. Promised!Allocate(b)
        BY <1>2, <2>1, <2>4, <4>2, <4>3, <4>4 DEF Promised!Allocate
      <4> QED BY <4>1, <4>5 DEF Promised!Next
    <3> QED BY <3>1, <3>2
  <2>5. ASSUME NEW b \in live, live' = live \ {b} PROVE Promised!Next
    BY <1>2, <2>1, <2>5 DEF Promised!Next, Promised!Release
  <2> QED BY <2>3, <2>4, <2>5, LiveSteps
<1> QED BY <1>1, <1>2

\* The memory manager implements Allocator, for every size of the memory, of the
\* tables and of the requests.
THEOREM MemoryImplements == Spec => Implements
<1>1. Init => Promised!Init
  BY DEF Init, Promised!Init
<1> QED BY <1>1, MemoryExclusive, StepImplements, PTL DEF Spec, Implements, Promised!Spec
=============================================================================
