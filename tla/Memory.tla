------------------------------- MODULE Memory -------------------------------
(***************************************************************************)
(* The physical memory manager, kernel/memory.c.                           *)
(*                                                                         *)
(* Two tables of block descriptors (struct MemoryBlockDescriptor) hold the *)
(* free blocks (MBDT) and the allocated blocks (UMBDT).  The descriptors   *)
(* in use in a table are chained in a doubly linked list with a head and a *)
(* foot.  A descriptor is a number, its fields are the functions inuse,    *)
(* start, length, prev and next; NULL is 0.  Addresses and lengths are     *)
(* uint32 values, that is, numbers modulo WORD.                            *)
(*                                                                         *)
(* Every public operation runs between lock() and unlock(), which disable  *)
(* interrupts, so an operation is one step.                                *)
(***************************************************************************)
EXTENDS Integers, FiniteSets, Pointers

CONSTANTS
  WORD,                 \* one more than the largest uint32
  PAGE,                 \* KB(4)
  ALLOC_START_ADDRESS,  \* the first allocatable address
  MEMORY_SIZE,          \* get_memory_size()
  MBD_COUNT,            \* descriptors in MBDT
  UMBD_COUNT,           \* descriptors in UMBDT
  LENGTHS,              \* the lengths callers ask for
  STARTS                \* the m_start arguments of MemAllocWithStart

\* The tables have the same size (memory.h), which _MemAllocWithStart relies on
\* where it searches UMBDT for MBD_COUNT descriptors (memory.c:362).
ASSUME MemoryAssumption ==
  /\ WORD \in Nat /\ PAGE \in Nat \ {0}
  /\ ALLOC_START_ADDRESS \in Nat \ {0}
  /\ MEMORY_SIZE \in Nat
  /\ ALLOC_START_ADDRESS < MEMORY_SIZE /\ MEMORY_SIZE < WORD
  /\ MBD_COUNT \in Nat \ {0} /\ UMBD_COUNT = MBD_COUNT
  /\ LENGTHS \subseteq 0 .. WORD - 1
  /\ STARTS \subseteq 0 .. WORD - 1

MBDT == 1 .. MBD_COUNT
UMBDT == MBD_COUNT + 1 .. MBD_COUNT + UMBD_COUNT
Desc == MBDT \cup UMBDT
Uint32 == 0 .. WORD - 1

VARIABLES
  inuse, start, length, prev, next,  \* the fields of the descriptors
  mbdt,                              \* [head, foot] of the free list
  umbdt,                             \* [head, foot] of the allocated list
  used,                              \* the counter of bytes in use
  live,   \* what the callers hold: [start, length, want], want being m_start
  odd     \* which of the three exceptional events have happened so far:
          \* "zero", a block of length 0 was allocated; "wrap", m_start + length
          \* was computed modulo 2^32; "stale", a block was freed into the empty
          \* free list with the links it had in the other list

fields == <<inuse, start, length, prev, next>>
vars == <<inuse, start, length, prev, next, mbdt, umbdt, used, live, odd>>
-----------------------------------------------------------------------------
(* Helpers *)

\* (mutant) MemAlign4KB in more than 32 bits.
MemAlign4KB_Wide(n) == IF n % PAGE = 0 THEN n ELSE n + (PAGE - (n % PAGE))

\* MemAlign4KB: round up to a page, in 32 bits.
MemAlign4KB(n) ==
  IF n % PAGE = 0 THEN n ELSE (n + (PAGE - (n % PAGE))) % WORD

\* One past the last address of a descriptor's block, in 32 bits.
End(d) == (start[d] + length[d]) % WORD

\* (mutant) _MemGetUnusedMBD without its test of used.
UnusedMBD_Any(table) == {d \in table : \A e \in table : d <= e}

\* What _MemGetUnusedMBD may return: the first unused descriptor of a table.
UnusedMBD(table) ==
  {d \in table : inuse[d] = 0 /\ \A e \in table : inuse[e] = 0 => d <= e}

\* The descriptors a search visits that begins at `from`, follows `link` and
\* stops at the first descriptor of Hit: the least set closed under that walk.
Visited(from, link, Hit) ==
  {d \in Desc : \A S \in SUBSET Desc :
      ( /\ from # NULL => from \in S
        /\ \A x \in S : x \notin Hit /\ link[x] # NULL => link[x] \in S )
      => d \in S}

\* Where that search stops: at most one descriptor, none if it runs off the end.
Found(from, link, Hit) == Visited(from, link, Hit) \cap Hit

\* A search comes to an end unless the chain has been tied into a ring.
Ends(from, link, Hit) ==
  \/ from = NULL
  \/ \E d \in Visited(from, link, Hit) : d \in Hit \/ link[d] = NULL

\* The write p->field = v.  A write through NULL goes to physical address 0,
\* which no descriptor occupies.
Put(f, p, v) == IF p = NULL THEN f ELSE [f EXCEPT ![p] = v]

\* _MemAppendMBD on the list l, given the links pv and nx.
AppendMBD(l, pv, nx, d) ==
  IF l.head = NULL /\ l.foot = NULL
  THEN [ok |-> TRUE, list |-> [head |-> d, foot |-> d],
        prev |-> [pv EXCEPT ![d] = NULL], next |-> [nx EXCEPT ![d] = NULL]]
  ELSE IF l.head # NULL /\ l.foot # NULL
  THEN [ok |-> TRUE, list |-> [l EXCEPT !.foot = d],
        prev |-> [pv EXCEPT ![d] = l.foot],
        next |-> [nx EXCEPT ![l.foot] = d, ![d] = NULL]]
  ELSE [ok |-> FALSE, list |-> l, prev |-> pv, next |-> nx]

\* (mutant) _MemRemoveMBD that forgets to move the foot back.
RemoveMBD_KeepFoot(l, pv, nx, d) ==
  IF l.head = d /\ l.foot = d
  THEN [list |-> [head |-> NULL, foot |-> NULL], prev |-> pv, next |-> nx]
  ELSE IF l.head = d
  THEN [list |-> [l EXCEPT !.head = nx[d]],
        prev |-> Put(pv, nx[d], NULL), next |-> nx]
  ELSE [list |-> l,
        prev |-> Put(pv, nx[d], pv[d]), next |-> Put(nx, pv[d], nx[d])]

\* _MemRemoveMBD: the four cases of d being the head and the foot or not.
RemoveMBD(l, pv, nx, d) ==
  IF l.head = d /\ l.foot = d
  THEN [list |-> [head |-> NULL, foot |-> NULL], prev |-> pv, next |-> nx]
  ELSE IF l.head = d
  THEN [list |-> [l EXCEPT !.head = nx[d]],
        prev |-> Put(pv, nx[d], NULL), next |-> nx]
  ELSE IF l.foot = d
  THEN [list |-> [l EXCEPT !.foot = pv[d]],
        prev |-> pv, next |-> Put(nx, pv[d], NULL)]
  ELSE [list |-> l,
        prev |-> Put(pv, nx[d], pv[d]), next |-> Put(nx, pv[d], nx[d])]
-----------------------------------------------------------------------------
(* MemInit: one free block from ALLOC_START_ADDRESS to the end of memory. *)
Init ==
  /\ inuse = [d \in Desc |-> IF d = 1 THEN 1 ELSE 0]
  /\ start = [d \in Desc |-> IF d = 1 THEN ALLOC_START_ADDRESS ELSE 0]
  /\ length = [d \in Desc |->
                 IF d = 1 THEN MEMORY_SIZE - ALLOC_START_ADDRESS ELSE 0]
  /\ prev = [d \in Desc |-> NULL]
  /\ next = [d \in Desc |-> NULL]
  /\ mbdt = [head |-> 1, foot |-> 1]
  /\ umbdt = [head |-> NULL, foot |-> NULL]
  /\ used = ALLOC_START_ADDRESS
  /\ live = {}
  /\ odd = {}

\* (mutants) TakesStart without one of its two comparisons.
TakesStart_AnyLength(d, m_start, len) == m_start <= start[d]
TakesStart_AnyStart(d, m_start, len) == len <= length[d]

\* (mutant) TakesEnd without its comparison of the ends.
TakesEnd_AnyLength(d, m_start, len) == start[d] < m_start

\* The two conditions under which _MemAllocWithStart takes block d.
TakesEnd(d, m_start, len) ==
  start[d] < m_start /\ (m_start + len) % WORD < End(d)
TakesStart(d, m_start, len) ==
  m_start <= start[d] /\ len <= length[d]
Takes(m_start, len) ==
  {d \in Desc : TakesEnd(d, m_start, len) \/ TakesStart(d, m_start, len)}

\* No free block is found, or there is no descriptor for the new block.
AllocFails(m_start, len) ==
  /\ \/ Found(mbdt.foot, prev, Takes(m_start, len)) = {}
     \/ UnusedMBD(UMBDT) = {}
  /\ UNCHANGED vars

\* The new block u is cut from the end of the free block d.
AllocFromEnd(m_start, len) ==
  \E d \in Found(mbdt.foot, prev, Takes(m_start, len)), u \in UnusedMBD(UMBDT) :
    LET address == (start[d] + length[d] - len) % WORD
        app == AppendMBD(umbdt, prev, next, u)
    IN /\ TakesEnd(d, m_start, len)
       /\ inuse' = [inuse EXCEPT ![u] = 1]
       /\ start' = [start EXCEPT ![u] = address]
       /\ length' = [length EXCEPT ![u] = len,
                                   ![d] = (length[d] - len) % WORD]
       /\ umbdt' = app.list /\ prev' = app.prev /\ next' = app.next
       /\ live' = IF app.ok
                  THEN live \cup
                       {[start |-> address, length |-> len, want |-> m_start]}
                  ELSE live
       /\ used' = IF app.ok THEN used + len ELSE used
       /\ odd' = odd \cup {o \in {"zero", "wrap"} :
                           \/ o = "zero" /\ len = 0
                           \/ o = "wrap" /\ m_start + len >= WORD}
       /\ UNCHANGED mbdt

\* The new block u is cut from the start of the free block d; a free block
\* that is used up leaves the free list.
AllocFromStart(m_start, len) ==
  \E d \in Found(mbdt.foot, prev, Takes(m_start, len)), u \in UnusedMBD(UMBDT) :
    LET gone == length[d] = len
        rem == IF gone THEN RemoveMBD(mbdt, prev, next, d)
               ELSE [list |-> mbdt, prev |-> prev, next |-> next]
        app == AppendMBD(umbdt, rem.prev, rem.next, u)
    IN /\ TakesStart(d, m_start, len)
       /\ inuse' = IF gone THEN [inuse EXCEPT ![u] = 1, ![d] = 0]
                   ELSE [inuse EXCEPT ![u] = 1]
       /\ start' = [start EXCEPT ![u] = start[d],
                                 ![d] = (start[d] + len) % WORD]
       /\ length' = [length EXCEPT ![u] = len, ![d] = length[d] - len]
       /\ mbdt' = rem.list
       /\ umbdt' = app.list /\ prev' = app.prev /\ next' = app.next
       /\ live' = IF app.ok
                  THEN live \cup
                       {[start |-> start[d], length |-> len, want |-> m_start]}
                  ELSE live
       /\ used' = IF app.ok THEN used + len ELSE used
       /\ odd' = odd \cup {o \in {"zero"} : len = 0}

\* MemAllocWithStart; MemAlloc is the case m_start = ALLOC_START_ADDRESS.
MemAllocWithStart(m_start, n) ==
  LET len == MemAlign4KB(n)
  IN /\ Ends(mbdt.foot, prev, Takes(m_start, len))
     /\ \/ AllocFails(m_start, len)
        \/ AllocFromEnd(m_start, len)
        \/ AllocFromStart(m_start, len)

\* _MemGetBlockSise and the search of _MemFree: the first allocated
\* descriptor, from the head of the list, that begins at the address p.
BlockAt(p) == Found(umbdt.head, next, {d \in Desc : start[d] = p})

\* A list is sound when it has both a head and a foot; with only one of them
\* _MemAppendMBD and _MemFree give up half way.
Sound(l) == l.head # NULL /\ l.foot # NULL
Empty(l) == l.head = NULL /\ l.foot = NULL

\* What _MemFree makes of the new free descriptor n, a copy of umbd, when the
\* free list is empty: the list's only member, with the links it was copied
\* with.
FreeIntoEmpty(n, pv, nx) ==
  /\ Empty(mbdt)
  /\ mbdt' = [head |-> n, foot |-> n]
  /\ prev' = pv /\ next' = nx
  /\ odd' = odd \cup {o \in {"stale"} : pv[n] # NULL \/ nx[n] # NULL}

\* The first free block, from the head of the list, that the block [s, s + l)
\* touches.
Touches(s, l) == {d \in Desc : (s + l) % WORD = start[d] \/ End(d) = s}

\* The block u goes back to the free list: merged with the first block it
\* touches, or else appended through the new descriptor n.
ReleaseMerged(u, n, pv, nx) ==
  \E d \in Found(mbdt.head, nx, Touches(start[u], length[u])) :
    /\ Sound(mbdt)
    /\ inuse' = [inuse EXCEPT ![u] = 0]
    /\ start' = IF (start[u] + length[u]) % WORD = start[d]
                THEN [start EXCEPT ![n] = start[u], ![d] = start[u]]
                ELSE [start EXCEPT ![n] = start[u]]
    /\ length' = [length EXCEPT ![n] = length[u],
                                ![d] = (length[d] + length[u]) % WORD]
    /\ prev' = pv /\ next' = nx
    /\ UNCHANGED <<mbdt, odd>>

ReleaseAppended(u, n, pv, nx) ==
  /\ inuse' = [inuse EXCEPT ![u] = 0, ![n] = 1]
  /\ start' = [start EXCEPT ![n] = start[u]]
  /\ length' = [length EXCEPT ![n] = length[u]]
  /\ \/ FreeIntoEmpty(n, pv, nx)
     \/ LET app == AppendMBD(mbdt, pv, nx, n)
        IN /\ Sound(mbdt) => Found(mbdt.head, nx, Touches(start[u], length[u])) = {}
           /\ ~Empty(mbdt)
           /\ mbdt' = app.list /\ prev' = app.prev /\ next' = app.next
           /\ UNCHANGED odd

\* The argument of MemFree(NULL).
NoBlock == [start |-> NULL, length |-> 0, want |-> 0]

\* MemFree returns FALSE: no allocated block has the address, or no free
\* descriptor is left; the callers ignore the result.
FreeFails(b) ==
  /\ BlockAt(b.start) = {} \/ UnusedMBD(MBDT) = {}
  /\ live' = live \ {b}
  /\ UNCHANGED <<fields, mbdt, umbdt, used, odd>>

\* The whole descriptor, links included, is copied to n before u is removed
\* from the list of allocated blocks.
FreeSucceeds(b) ==
  \E u \in BlockAt(b.start), n \in UnusedMBD(MBDT) :
    LET rem == RemoveMBD(umbdt, [prev EXCEPT ![n] = prev[u]],
                         [next EXCEPT ![n] = next[u]], u)
    IN /\ Sound(mbdt) =>
            Ends(mbdt.head, rem.next, Touches(start[u], length[u]))
       /\ \/ ReleaseMerged(u, n, rem.prev, rem.next)
          \/ ReleaseAppended(u, n, rem.prev, rem.next)
       /\ umbdt' = rem.list
       /\ used' = IF Sound(mbdt) \/ Empty(mbdt) THEN used - length[u] ELSE used
       /\ live' = live \ {b}

\* MemFree, called by the owner of b (or with NULL).
MemFree(b) ==
  /\ Ends(umbdt.head, next, {d \in Desc : start[d] = b.start})
  /\ FreeFails(b) \/ FreeSucceeds(b)

Next ==
  \/ \E m_start \in STARTS, n \in LENGTHS : MemAllocWithStart(m_start, n)
  \/ \E b \in live \cup {NoBlock} : MemFree(b)

Spec == Init /\ [][Next]_vars
-----------------------------------------------------------------------------
(* Properties *)

Disjoint(s1, l1, s2, l2) == s1 + l1 <= s2 \/ s2 + l2 <= s1

Pointer == Desc \cup {NULL}
List == [head : Pointer, foot : Pointer]
Block == [start : Uint32, length : Uint32, want : Uint32]

\* The variables have the types of the C declarations.
TypeOK ==
  /\ inuse \in [Desc -> {0, 1}]
  /\ start \in [Desc -> Uint32] /\ length \in [Desc -> Uint32]
  /\ prev \in [Desc -> Pointer] /\ next \in [Desc -> Pointer]
  /\ mbdt \in List /\ umbdt \in List
  /\ used \in Int
  /\ live \subseteq Block
  /\ odd \subseteq {"zero", "wrap", "stale"}

\* Two live blocks never share an address, and none shares one with a block
\* that MBDT offers for allocation.
NoOverlap ==
  /\ \A a, b \in live : a # b => Disjoint(a.start, a.length, b.start, b.length)
  /\ \A a \in live, d \in MBDT :
       inuse[d] = 1 => Disjoint(a.start, a.length, start[d], length[d])

\* Every live block lies between ALLOC_START_ADDRESS and the end of memory.
InMemory ==
  \A b \in live : /\ ALLOC_START_ADDRESS <= b.start
                  /\ b.start + b.length <= MEMORY_SIZE

\* What MemAlloc and MemAllocWithStart return belongs to its caller alone
\* until MemFree and lies in the allocatable memory, in every history without
\* one of the three exceptional events (odd).
Exclusive == odd = {} => NoOverlap /\ InMemory

\* In ordinary histories the block MemAllocWithStart returns begins at or after
\* the address asked for (memory.c:317), and block and length are whole pages,
\* which the code does not compute but derives from all its own results having
\* been so (memory.c:333).
Placed ==
  odd = {} => \A b \in live : /\ b.start >= b.want
                              /\ b.start % PAGE = 0 /\ b.length % PAGE = 0

\* MemFree and MemGetBlockSise find the descriptor of every live block, with
\* the length it was allocated with, however the list has been relinked.
Findable ==
  odd = {} => \A b \in live : /\ BlockAt(b.start) # {}
                              /\ \A d \in BlockAt(b.start) : length[d] = b.length

\* The sum of the lengths of a table's blocks: as many as there are pairs of a
\* block and one of its bytes.
LengthsIn(table) ==
  Cardinality(UNION {{d} \X (1 .. length[d]) : d \in {e \in table : inuse[e] = 1}})

\* MemGetMBDTableInfo's m_size, MemGetUsedMBDTableInfo's m_size.
MemGetMBDTableInfo == LengthsIn(MBDT)
MemGetUsedMBDTableInfo == ALLOC_START_ADDRESS + LengthsIn(UMBDT)

\* No byte is lost or counted twice by splitting and merging blocks, leaks
\* included: the two tables always add up to the memory, and the counter behind
\* MemGetUsedLength says what the table of allocated blocks says.
Accounting ==
  odd = {} => /\ MemGetMBDTableInfo + MemGetUsedMBDTableInfo = MEMORY_SIZE
              /\ used = MemGetUsedMBDTableInfo

Promised == INSTANCE Allocator WITH
  Lowest <- ALLOC_START_ADDRESS, Highest <- MEMORY_SIZE,
  Sizes <- {MemAlign4KB(n) : n \in LENGTHS},
  blocks <- live, broken <- odd # {}

\* The memory manager keeps the promise of Allocator: MemAlloc and
\* MemAllocWithStart hand out one block of the length asked for, rounded up,
\* that nobody else has, MemFree takes back the one it is called with, and no
\* other block comes or goes.
Implements == Promised!Spec
=============================================================================
