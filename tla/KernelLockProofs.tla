-------------------------- MODULE KernelLockProofs --------------------------
(* Proofs about KernelLock. *)
EXTENDS KernelLock, FiniteSetTheorems, TLAPS

\* The calls of lock() that are yet to be undone, one pair for each: the sum of
\* a function over the actors, as the size of a set.
Pairs(f) == {x \in Actors \X (1 .. MaxDepth) : x[2] <= f[x[1]]}

Calls == [a \in Actors |-> Held(a)]

\* lock_level counts all of them, as long as no update of it was lost.  It may
\* count more: an actor may be killed before it undoes what it did.
Counts == "lost" \notin odd => Cardinality(Pairs(Calls)) <= lock_level

\* depth and target go with the place where an actor is.
Nested ==
  \A a \in Actors : /\ pc[a] \in {"in", "open"} <=> depth[a] > 0
                    /\ pc[a] = "open" => target[a] \in Slots

\* As long as nothing odd happens nobody but the actor on the CPU is anywhere
\* under the lock, lock_level is what it has to undo, and whoever has loaded
\* lock_level found it at 0.
Alone ==
  odd = {} =>
    /\ \A a \in Actors : pc[a] = "loaded" => reg[a] = 0
    /\ \A a \in Actors : a # cpu => Held(a) = 0
    /\ lock_level = Held(cpu)
    /\ pc[cpu] \in {"user", "body", "loaded", "raised", "spin"} => flag

IInv == TypeOK /\ Nested /\ Counts /\ MutualExclusion /\ Alone
-----------------------------------------------------------------------------
(* The size of a sum *)

LEMMA ActorsFinite == IsFiniteSet(Actors)
<1>1. IsFiniteSet(Slots)
  BY LockAssumption, FS_Interval DEF Slots
<1> QED BY <1>1, FS_AddElement DEF Actors

LEMMA PairsFinite == \A f : IsFiniteSet(Pairs(f)) /\ Cardinality(Pairs(f)) \in Nat
<1> TAKE f
<1>1. IsFiniteSet(1 .. MaxDepth)
  BY LockAssumption, FS_Interval
<1>2. IsFiniteSet(Actors \X (1 .. MaxDepth))
  BY <1>1, ActorsFinite, FS_Product
<1>3. Pairs(f) \in SUBSET (Actors \X (1 .. MaxDepth))
  BY DEF Pairs
<1> QED BY <1>2, <1>3, FS_Subset, FS_CardinalityType

\* One more call of a.
LEMMA Grows ==
  ASSUME NEW f \in [Actors -> 0 .. MaxDepth], NEW a \in Actors, f[a] < MaxDepth
  PROVE  Cardinality(Pairs([f EXCEPT ![a] = f[a] + 1])) = Cardinality(Pairs(f)) + 1
<1> DEFINE g == [f EXCEPT ![a] = f[a] + 1]
           x == <<a, f[a] + 1>>
<1>1. f[a] \in 0 .. MaxDepth /\ f[a] + 1 \in 1 .. MaxDepth
  BY LockAssumption
<1>2. ASSUME NEW b \in Actors, NEW i \in 1 .. MaxDepth
      PROVE  i <= g[b] <=> (i <= f[b] \/ <<b, i>> = x)
  BY <1>1
<1>3. x \notin Pairs(f)
  BY <1>1 DEF Pairs
<1> HIDE DEF g
<1>4. Pairs(g) = Pairs(f) \cup {x}
  <2>1. x \in Actors \X (1 .. MaxDepth)
    BY <1>1
  <2> QED BY <1>2, <2>1 DEF Pairs
<1> QED BY <1>3, <1>4, PairsFinite, FS_AddElement DEF g

\* No more calls of anybody.
LEMMA Fewer ==
  ASSUME NEW f \in [Actors -> 0 .. MaxDepth], NEW g \in [Actors -> 0 .. MaxDepth],
         \A b \in Actors : g[b] <= f[b]
  PROVE  Cardinality(Pairs(g)) <= Cardinality(Pairs(f))
<1>1. Pairs(g) \subseteq Pairs(f)
  <2> SUFFICES ASSUME NEW b \in Actors, NEW i \in 1 .. MaxDepth, i <= g[b] PROVE i <= f[b]
    BY DEF Pairs
  <2>1. f[b] \in 0 .. MaxDepth /\ g[b] \in 0 .. MaxDepth /\ g[b] <= f[b]
    OBVIOUS
  <2> QED BY <2>1, LockAssumption
<1> QED BY <1>1, PairsFinite, FS_Subset

\* One call less of a.
LEMMA Shrinks ==
  ASSUME NEW f \in [Actors -> 0 .. MaxDepth], NEW a \in Actors, f[a] > 0
  PROVE  Cardinality(Pairs([f EXCEPT ![a] = f[a] - 1])) = Cardinality(Pairs(f)) - 1
<1> DEFINE g == [f EXCEPT ![a] = f[a] - 1]
<1>0. f[a] \in 0 .. MaxDepth
  OBVIOUS
<1>1. g \in [Actors -> 0 .. MaxDepth] /\ g[a] < MaxDepth /\ f[a] \in Nat /\ g[a] = f[a] - 1
  <2>1. f[a] - 1 \in 0 .. MaxDepth /\ f[a] - 1 < MaxDepth /\ f[a] \in Nat
    BY <1>0, LockAssumption
  <2> QED BY <2>1
<1>2. [g EXCEPT ![a] = g[a] + 1] = f
  <2>1. g[a] + 1 = f[a] /\ \A b \in Actors : b # a => g[b] = f[b]
    BY <1>1
  <2> HIDE DEF g
  <2>2. \A b \in Actors : [g EXCEPT ![a] = g[a] + 1][b] = f[b]
    BY <1>1, <2>1
  <2> QED BY <1>1, <2>2
<1> HIDE DEF g
<1>3. Cardinality(Pairs(f)) = Cardinality(Pairs(g)) + 1
  BY <1>1, <1>2, Grows
<1> QED BY <1>3, PairsFinite DEF g

\* The calls of one actor are no more than those of all.
LEMMA OneOfAll ==
  ASSUME NEW f \in [Actors -> 0 .. MaxDepth], NEW a \in Actors
  PROVE  f[a] <= Cardinality(Pairs(f))
<1> DEFINE g == [i \in 1 .. f[a] |-> <<a, i>>]
<1>1. f[a] \in 0 .. MaxDepth /\ f[a] \in Int
  BY LockAssumption
<1>2. g \in Injection(1 .. f[a], Pairs(f))
  <2>1. \A i \in 1 .. f[a] : <<a, i>> \in Pairs(f)
    BY <1>1, LockAssumption DEF Pairs
  <2> QED BY <2>1 DEF Injection, IsInjective
<1>3. Cardinality(1 .. f[a]) = f[a]
  BY <1>1, FS_Interval
<1> QED BY <1>2, <1>3, PairsFinite, FS_Injection
-----------------------------------------------------------------------------
(* Steps *)

LEMMA CallsType ==
  ASSUME TypeOK, Nested
  PROVE  Calls \in [Actors -> 0 .. MaxDepth] /\ \A a \in Actors : Held(a) \in 0 .. MaxDepth
  BY LockAssumption DEF TypeOK, Nested, Calls, Held

LEMMA InitIInv == Init => IInv
<1> SUFFICES ASSUME Init PROVE IInv
  OBVIOUS
<1>1. TypeOK /\ Nested /\ MutualExclusion
  <2>1. Kernel \in Actors /\ 0 \in 0 .. MaxDepth
    BY LockAssumption DEF Actors
  <2>2. depth = [a \in Actors |-> 0] /\ depth \in [Actors -> 0 .. MaxDepth]
    BY <2>1 DEF Init
  <2>3. pc \in [Actors -> {"user", "body", "loaded", "raised", "in", "open", "spin", "dead"}]
        /\ \A a \in Actors : pc[a] \in {"user", "body"}
    BY DEF Init
  <2>4. target \in [Actors -> Actors] /\ reg \in [Actors -> Int]
    BY <2>1 DEF Init
  <2>5. TypeOK
    BY <2>1, <2>2, <2>3, <2>4 DEF Init, TypeOK
  <2> QED BY <2>2, <2>3, <2>5 DEF Nested, MutualExclusion
<1>2. \A a \in Actors : Held(a) = 0
  BY DEF Init, Held
<1>3. Pairs(Calls) = {}
  BY <1>2 DEF Pairs, Calls
<1>4. Counts
  BY <1>3, FS_EmptySet DEF Init, Counts
<1>5. Alone
  BY <1>2 DEF Init, Alone, Actors
<1> QED BY <1>1, <1>4, <1>5 DEF IInv

\* lock_level is raised with a call, and lowered with its undoing.
LEMMA CallMade ==
  ASSUME IInv, odd \subseteq odd', NEW a \in Actors, Held(a) < MaxDepth, lock_level' = lock_level + 1,
         \A b \in Actors : Held(b)' = IF b = a THEN Held(a) + 1 ELSE Held(b)
  PROVE  Counts'
<1> SUFFICES ASSUME "lost" \notin odd' PROVE Counts'
  BY DEF Counts
<1>1. Calls \in [Actors -> 0 .. MaxDepth] /\ Calls[a] = Held(a)
  BY CallsType DEF IInv, Calls
<1>2. Calls' = [Calls EXCEPT ![a] = Calls[a] + 1]
  BY DEF Calls
<1>3. Cardinality(Pairs(Calls')) = Cardinality(Pairs(Calls)) + 1
  BY <1>1, <1>2, Grows
<1>4. Cardinality(Pairs(Calls)) <= lock_level /\ lock_level \in Nat
  BY DEF IInv, TypeOK, Counts
<1>5. Cardinality(Pairs(Calls')) <= lock_level'
  BY <1>3, <1>4, PairsFinite DEF Counts
<1> QED BY <1>5 DEF Counts, Pairs

LEMMA CallUndone ==
  ASSUME IInv, odd \subseteq odd', NEW a \in Actors, Held(a) > 0, lock_level' = lock_level - 1,
         \A b \in Actors : Held(b)' = IF b = a THEN Held(a) - 1 ELSE Held(b)
  PROVE  Counts'
<1> SUFFICES ASSUME "lost" \notin odd' PROVE Counts'
  BY DEF Counts
<1>1. Calls \in [Actors -> 0 .. MaxDepth] /\ Calls[a] = Held(a)
  BY CallsType DEF IInv, Calls
<1>2. Calls' = [Calls EXCEPT ![a] = Calls[a] - 1]
  BY DEF Calls
<1>3. Cardinality(Pairs(Calls')) = Cardinality(Pairs(Calls)) - 1
  BY <1>1, <1>2, Shrinks
<1>4. Cardinality(Pairs(Calls)) <= lock_level /\ lock_level \in Nat
  BY DEF IInv, TypeOK, Counts
<1>5. Cardinality(Pairs(Calls')) <= lock_level'
  BY <1>3, <1>4, PairsFinite DEF Counts
<1> QED BY <1>5 DEF Counts, Pairs

LEMMA CallsDropped ==
  ASSUME IInv, odd \subseteq odd', TypeOK', Nested', lock_level' = lock_level,
         \A b \in Actors : Held(b)' <= Held(b)
  PROVE  Counts'
<1> SUFFICES ASSUME "lost" \notin odd' PROVE Counts'
  BY DEF Counts
<1>1. Calls \in [Actors -> 0 .. MaxDepth] /\ Calls' \in [Actors -> 0 .. MaxDepth]
  <2>1. Calls \in [Actors -> 0 .. MaxDepth]
    BY CallsType DEF IInv
  <2>2. \A b \in Actors : Held(b)' \in 0 .. MaxDepth
    BY LockAssumption DEF TypeOK, Nested, Held
  <2> QED BY <2>1, <2>2 DEF Calls
<1>2. \A b \in Actors : Calls'[b] <= Calls[b]
  BY DEF Calls
<1>3. Cardinality(Pairs(Calls')) <= Cardinality(Pairs(Calls))
  BY <1>1, <1>2, Fewer
<1>4. Cardinality(Pairs(Calls)) <= lock_level /\ lock_level \in Nat
  BY DEF IInv, TypeOK, Counts
<1>5. Cardinality(Pairs(Calls')) <= lock_level'
  BY <1>3, <1>4, PairsFinite DEF Counts
<1> QED BY <1>5 DEF Counts, Pairs

\* unlock() finds lock_level at what the actor has to undo, or more.
LEMMA Covered ==
  ASSUME IInv, "lost" \notin odd, NEW a \in Actors
  PROVE  lock_level >= Held(a)
<1>1. Calls \in [Actors -> 0 .. MaxDepth] /\ Calls[a] = Held(a) /\ Held(a) \in Nat
  BY CallsType, LockAssumption DEF IInv, Calls
<1>2. Held(a) <= Cardinality(Pairs(Calls))
  BY <1>1, OneOfAll
<1> QED BY <1>1, <1>2, PairsFinite DEF IInv, Counts, TypeOK

Places == {"user", "body", "loaded", "raised", "in", "open", "spin", "dead"}

\* What the steps of the actor on the CPU start from.
LEMMA Facts ==
  ASSUME IInv
  PROVE  /\ lock_level \in Int /\ ("lost" \notin odd => lock_level >= 0)
         /\ reg \in [Actors -> Int] /\ flag \in BOOLEAN /\ cpu \in Actors /\ used \subseteq Slots
         /\ pc \in [Actors -> Places] /\ depth \in [Actors -> 0 .. MaxDepth]
         /\ target \in [Actors -> Actors] /\ odd \subseteq {"slipped", "lost", "leaked"}
         /\ \A a \in Actors : depth[a] \in Nat /\ depth[a] <= MaxDepth
         /\ Nested /\ MutualExclusion /\ Alone
  BY LockAssumption DEF IInv, TypeOK, Places

LEMMA LoadKeeps == ASSUME IInv, Load(cpu) PROVE IInv'
<1> USE Facts DEF Load, Goto, Places
<1>1. TypeOK' /\ Nested'
  BY DEF TypeOK, Nested
<1>2. \A b \in Actors : Held(b)' = Held(b)
  BY DEF Held, Nested
<1>3. Counts'
  BY <1>1, <1>2, CallsType, LockAssumption, CallsDropped DEF IInv
<1>4. MutualExclusion'
  BY DEF MutualExclusion
<1>5. odd = {} => lock_level = 0
  BY DEF Alone, Held, Nested
<1>6. Alone'
  BY <1>2, <1>5 DEF Alone
<1> QED BY <1>1, <1>3, <1>4, <1>6 DEF IInv

\* Unless it is lost, the update counts the call.
LEMMA RaiseKeeps == ASSUME IInv, Raise(cpu) PROVE IInv'
<1> USE Facts DEF Raise, Raised, Goto, Places
<1>0. "lost" \notin odd' => "lost" \notin odd /\ lock_level' = lock_level + 1
  OBVIOUS
<1>1. TypeOK' /\ Nested'
  BY <1>0 DEF TypeOK, Nested
<1>2. Held(cpu) = 0 /\ \A b \in Actors : Held(b)' = IF b = cpu THEN 1 ELSE Held(b)
  BY DEF Held, Nested
<1>3. Counts'
  <2> SUFFICES ASSUME "lost" \notin odd' PROVE Counts'
    BY DEF Counts
  <2> QED BY <1>0, <1>2, LockAssumption, CallMade
<1>4. MutualExclusion'
  BY DEF MutualExclusion
<1>5. Alone'
  BY <1>2 DEF Alone
<1> QED BY <1>1, <1>3, <1>4, <1>5 DEF IInv

LEMMA CliKeeps == ASSUME IInv, Cli(cpu) PROVE IInv'
<1> USE Facts DEF Cli, Goto, Places
<1>1. TypeOK' /\ Nested'
  <2>1. 1 \in 0 .. MaxDepth
    BY LockAssumption
  <2>2. TypeOK'
    BY <2>1 DEF TypeOK
  <2>3. Nested'
    BY DEF Nested
  <2> QED BY <2>2, <2>3
<1>2. \A b \in Actors : Held(b)' = Held(b)
  BY DEF Held, Nested
<1>3. Counts'
  BY <1>1, <1>2, CallsType, LockAssumption, CallsDropped DEF IInv
<1>4. MutualExclusion'
  BY DEF MutualExclusion
<1>5. Alone'
  BY <1>2 DEF Alone
<1> QED BY <1>1, <1>3, <1>4, <1>5 DEF IInv

LEMMA LockAgainKeeps == ASSUME IInv, LockAgain(cpu) PROVE IInv'
<1> USE Facts DEF LockAgain, Places
<1>1. TypeOK' /\ Nested'
  BY LockAssumption DEF TypeOK, Nested
<1>2. Held(cpu) = depth[cpu] /\ \A b \in Actors : Held(b)' = IF b = cpu THEN Held(cpu) + 1 ELSE Held(b)
  BY DEF Held, Nested
<1>3. Counts'
  BY <1>2, CallMade
<1>4. MutualExclusion'
  BY DEF MutualExclusion
<1>5. Alone'
  BY <1>2 DEF Alone
<1> QED BY <1>1, <1>3, <1>4, <1>5 DEF IInv

\* Interrupts stay disabled while there is more to undo, since lock_level is no
\* less than that.
LEMMA UnlockKeeps == ASSUME IInv, Unlock(cpu) PROVE IInv'
<1> USE Facts DEF Unlock, Goto, Places
<1>1. /\ Held(cpu) = depth[cpu] /\ depth[cpu] > 0 /\ pc[cpu] = "in"
      /\ \A b \in Actors : Held(b)' = IF b = cpu THEN Held(cpu) - 1 ELSE Held(b)
  BY DEF Held, Nested
<1>2. "lost" \notin odd => lock_level >= depth[cpu]
  BY <1>1, Covered
<1>3. "lost" \notin odd => lock_level' = lock_level - 1 /\ flag' = (flag \/ lock_level - 1 = 0)
  BY <1>1, <1>2 DEF FlagAfter
<1>4. depth[cpu] - 1 \in 0 .. MaxDepth
  BY <1>1, LockAssumption
<1>5. TypeOK'
  <2>1. lock_level' \in Int
    OBVIOUS
  <2>3. flag' \in BOOLEAN
    <3>1. CASE lock_level = 0
      BY <3>1
    <3>2. CASE lock_level # 0
      <4>1. flag' = FlagAfter(lock_level - 1)
        BY <3>2
      <4> QED BY <4>1, Zenon DEF FlagAfter
    <3> QED BY <3>1, <3>2
  <2>2. "lost" \notin odd' => lock_level' >= 0
    BY <1>1, <1>2, <1>3
  <2> QED BY <1>4, <2>1, <2>2, <2>3 DEF TypeOK
<1>6. Nested'
  BY <1>1, <1>4 DEF Nested
<1>7. Counts'
  <2> SUFFICES ASSUME "lost" \notin odd' PROVE Counts'
    BY DEF Counts
  <2> QED BY <1>1, <1>3, CallUndone
<1>8. MutualExclusion'
  <2> SUFFICES ASSUME "lost" \notin odd', NEW b \in Actors, pc'[b] = "in" PROVE cpu' = b /\ ~flag'
    BY DEF MutualExclusion
  <2>1. b = cpu /\ depth[cpu] > 1 /\ ~flag
    BY <1>1 DEF MutualExclusion
  <2> QED BY <1>1, <1>2, <1>3, <2>1
<1>9. Alone'
  <2> SUFFICES ASSUME odd' = {} PROVE Alone'
    BY DEF Alone
  <2>1. (\A b \in Actors : b # cpu => Held(b) = 0) /\ lock_level = Held(cpu)
    BY DEF Alone
  <2>2. (\A b \in Actors : b # cpu' => Held(b)' = 0) /\ lock_level' = Held(cpu)'
    BY <1>1, <1>3, <2>1
  <2>4. \A b \in Actors : pc'[b] = "loaded" => reg'[b] = 0
    BY <1>1 DEF Alone
  <2>3. pc'[cpu'] \in {"user", "body", "loaded", "raised", "spin"} => flag'
    <3>1. pc'[cpu'] = IF depth[cpu] > 1 THEN "in" ELSE "body"
      OBVIOUS
    <3>2. CASE depth[cpu] > 1
      BY <3>1, <3>2
    <3>3. CASE ~(depth[cpu] > 1)
      <4>1. lock_level - 1 = 0
        BY <1>1, <2>1, <3>3
      <4> QED BY <1>3, <4>1
    <3> QED BY <3>2, <3>3
  <2> QED BY <2>2, <2>3, <2>4 DEF Alone, Held
<1> QED BY <1>5, <1>6, <1>7, <1>8, <1>9 DEF IInv

LEMMA OpenKeeps == ASSUME IInv, NEW t \in Slots, Open(cpu, t) PROVE IInv'
<1> USE Facts DEF Open, Goto, Places
<1>1. TypeOK' /\ Nested'
  BY DEF TypeOK, Nested, Actors
<1>2. \A b \in Actors : Held(b)' = Held(b)
  BY DEF Held, Nested
<1>3. Counts'
  BY <1>1, <1>2, CallsType, LockAssumption, CallsDropped DEF IInv
<1>4. MutualExclusion'
  BY DEF MutualExclusion
<1>5. Alone'
  BY <1>2 DEF Alone
<1> QED BY <1>1, <1>3, <1>4, <1>5 DEF IInv

\* A kill drops the calls of its victim; without a slip there are none.
LEMMA CloseKeeps == ASSUME IInv, Close(cpu) PROVE IInv'
<1> DEFINE t == target[cpu]
<1> USE Facts DEF Places
<1>0. /\ t \in Slots /\ t \in Actors /\ pc[cpu] = "open" /\ flag' = FALSE
      /\ target' = [target EXCEPT ![cpu] = Kernel] /\ UNCHANGED <<lock_level, cpu, reg>>
      /\ Kernel \in Actors /\ depth[cpu] > 0
  BY DEF Close, Closed, Nested, Actors
<1>1. ASSUME used' = used \ {t}, pc' = [[pc EXCEPT ![t] = "dead"] EXCEPT ![cpu] = "in"],
             depth' = [depth EXCEPT ![t] = IF t = cpu THEN depth[cpu] ELSE 0],
             odd' = odd \cup (IF t # cpu /\ Held(t) > 0 THEN {"leaked"} ELSE {})
      PROVE  IInv'
  <2>1. \A b \in Actors : /\ pc'[b] = IF b = cpu THEN "in" ELSE IF b = t THEN "dead" ELSE pc[b]
                          /\ depth'[b] = IF b = t /\ t # cpu THEN 0 ELSE depth[b]
                          /\ target'[b] = IF b = cpu THEN Kernel ELSE target[b]
    BY <1>0, <1>1
  <2>2. TypeOK'
    <3>1. 0 \in 0 .. MaxDepth
      BY LockAssumption
    <3>2. depth' \in [Actors -> 0 .. MaxDepth]
      BY <1>1, <3>1
    <3>3. pc' \in [Actors -> Places] /\ target' \in [Actors -> Actors]
      BY <1>0, <1>1
    <3>4. odd' \subseteq {"slipped", "lost", "leaked"}
      BY <1>1
    <3> QED BY <1>0, <1>1, <3>2, <3>3, <3>4 DEF TypeOK
  <2>3. Nested'
    BY <1>0, <2>1 DEF Nested
  <2>4. \A b \in Actors : Held(b)' = IF b = t /\ t # cpu THEN 0 ELSE Held(b)
    BY <1>0, <2>1 DEF Held
  <2>5. Counts'
    <3>1. \A b \in Actors : Held(b) \in Nat
      BY CallsType, LockAssumption DEF IInv
    <3>2. \A b \in Actors : Held(b)' <= Held(b)
      BY <2>4, <3>1
    <3>3. odd \subseteq odd'
      BY <1>1
    <3> QED BY <1>0, <2>2, <2>3, <3>2, <3>3, CallsDropped
  <2>6. MutualExclusion'
    BY <1>0, <1>1, <2>1 DEF MutualExclusion
  <2>7. Alone'
    <3> SUFFICES ASSUME odd' = {} PROVE Alone'
      BY DEF Alone
    <3>1. (\A b \in Actors : b # cpu => Held(b) = 0) /\ lock_level = Held(cpu)
      BY <1>1 DEF Alone
    <3>2. (\A b \in Actors : b # cpu' => Held(b)' = 0) /\ lock_level' = Held(cpu)'
      BY <1>0, <2>4, <3>1
    <3>3. pc'[cpu'] = "in"
      BY <1>0, <2>1
    <3>4. \A b \in Actors : pc'[b] = "loaded" => reg'[b] = 0
      BY <1>0, <1>1, <2>1 DEF Alone
    <3> QED BY <3>2, <3>3, <3>4 DEF Alone, Held
  <2> QED BY <2>2, <2>3, <2>5, <2>6, <2>7 DEF IInv
<1>2. ASSUME pc' = [pc EXCEPT ![cpu] = "in"], UNCHANGED <<used, depth, odd>>
      PROVE  IInv'
  <2>1. TypeOK'
    BY <1>0, <1>2 DEF TypeOK
  <2>2. Nested'
    BY <1>0, <1>2 DEF Nested
  <2>3. \A b \in Actors : Held(b)' = Held(b)
    BY <1>0, <1>2 DEF Held
  <2>4. Counts'
    BY <1>0, <1>2, <2>1, <2>2, <2>3, CallsType, LockAssumption, CallsDropped DEF IInv
  <2>5. MutualExclusion'
    BY <1>0, <1>2 DEF MutualExclusion
  <2>6. Alone'
    BY <1>0, <1>2, <2>3 DEF Alone
  <2> QED BY <2>1, <2>2, <2>4, <2>5, <2>6 DEF IInv
<1> QED BY <1>1, <1>2 DEF Close, Goto

\* A step that enters or leaves no lock, with interrupts enabled.
LEMMA OutsideKeeps ==
  ASSUME IInv, pc[cpu] \in {"user", "body"}, flag' \in BOOLEAN, odd = {} => flag',
         NEW p \in {"user", "body"}, pc' = [pc EXCEPT ![cpu] = p],
         UNCHANGED <<lock_level, cpu, used, reg, depth, target, odd>>
  PROVE  IInv'
<1> USE Facts DEF Places
<1>1. TypeOK' /\ Nested'
  BY DEF TypeOK, Nested
<1>2. \A b \in Actors : Held(b)' = Held(b)
  BY DEF Held
<1>3. Counts'
  BY <1>1, <1>2, CallsType, LockAssumption, CallsDropped DEF IInv
<1>4. MutualExclusion'
  BY DEF MutualExclusion
<1>5. Alone'
  BY <1>2 DEF Alone
<1> QED BY <1>1, <1>3, <1>4, <1>5 DEF IInv

\* The faulting task is gone with its calls of lock(); if it had none, interrupts
\* are enabled in the handler.
LEMMA ExceptionKeeps == ASSUME IInv, Exception(cpu) PROVE IInv'
<1> USE Facts DEF Exception, Goto, Places
<1>1. TypeOK' /\ Nested'
  <2>1. 0 \in 0 .. MaxDepth
    BY LockAssumption
  <2>2. TypeOK'
    BY <2>1 DEF TypeOK
  <2>3. Nested'
    BY DEF Nested
  <2> QED BY <2>2, <2>3
<1>2. \A b \in Actors : Held(b)' = IF b = cpu THEN 0 ELSE Held(b)
  BY DEF Held
<1>3. Counts'
  <2>1. \A b \in Actors : Held(b) \in Nat
    BY CallsType, LockAssumption DEF IInv
  <2>2. \A b \in Actors : Held(b)' <= Held(b)
    BY <1>2, <2>1
  <2> QED BY <1>1, <2>2, CallsDropped
<1>4. MutualExclusion'
  BY DEF MutualExclusion
<1>5. Alone'
  <2> SUFFICES ASSUME odd' = {} PROVE Alone'
    BY DEF Alone
  <2>0. Held(cpu) \in Nat
    BY CallsType, LockAssumption DEF IInv
  <2>1. odd = {} /\ Held(cpu) \in Nat /\ ~(Held(cpu) > 0)
    <3>1. odd = {} /\ (IF Held(cpu) > 0 THEN {"leaked"} ELSE {}) = {}
      BY Zenon DEF Exception
    <3> QED BY <2>0, <3>1
  <2>2. lock_level = 0 /\ (\A b \in Actors : Held(b) = 0) /\ Held(cpu)' = 0
    BY <1>2, <2>1 DEF Alone
  <2>3. \A b \in Actors : pc'[b] = "loaded" => reg'[b] = 0
    BY <2>1 DEF Alone
  <2>4. flag' /\ lock_level' = Held(cpu)' /\ \A b \in Actors : Held(b)' = 0
    BY <1>2, <2>2
  <2> QED BY <2>3, <2>4 DEF Alone, Held
<1> QED BY <1>1, <1>3, <1>4, <1>5 DEF IInv

\* The timer interrupt resumes somebody else: with interrupts enabled nobody is
\* under the lock, and without a slip nobody is about to be.
LEMMA TimerKeeps == ASSUME IInv, NEW b \in Actors, Timer(b) PROVE IInv'
<1> USE Facts DEF Places
<1>0. flag /\ flag' = flag /\ cpu' = b /\ lock_level' = lock_level /\ UNCHANGED <<used, reg, target>>
      /\ odd' = odd \cup (IF lock_level > 0 THEN {"slipped"} ELSE {})
  BY DEF Timer
<1>1. \A c \in Actors : \/ pc'[c] = pc[c] /\ depth'[c] = depth[c]
                        \/ pc'[c] = "dead" /\ depth'[c] = 0
  BY DEF Timer
<1>2. TypeOK'
  BY <1>0, LockAssumption DEF Timer, TypeOK
<1>3. Nested'
  BY <1>0, <1>1 DEF Nested
<1>4. \A c \in Actors : Held(c) \in Nat
  BY CallsType, LockAssumption DEF IInv
<1>5. \A c \in Actors : Held(c)' = Held(c) \/ Held(c)' = 0
  BY <1>1 DEF Held
<1>6. Counts'
  BY <1>0, <1>2, <1>3, <1>4, <1>5, CallsDropped
<1>7. MutualExclusion'
  BY <1>0, <1>1 DEF MutualExclusion
<1>8. Alone'
  <2> SUFFICES ASSUME odd' = {} PROVE Alone'
    BY DEF Alone
  <2>1. odd = {} /\ lock_level \in Nat /\ ~(lock_level > 0) /\ lock_level = 0 /\ \A c \in Actors : c # cpu => Held(c) = 0
    BY <1>0 DEF Alone
  <2>2. \A c \in Actors : Held(c) = 0
    BY <1>0, <2>1 DEF Alone
  <2>3. \A c \in Actors : Held(c)' = 0
    BY <1>5, <2>2
  <2>4. lock_level' = Held(cpu)'
    BY <1>0, <2>1, <2>3 DEF Held
  <2>5. \A c \in Actors : pc'[c] = "loaded" => reg'[c] = 0
    BY <1>0, <1>1, <2>1 DEF Alone
  <2> QED BY <1>0, <2>3, <2>4, <2>5 DEF Alone
<1> QED BY <1>2, <1>3, <1>6, <1>7, <1>8 DEF IInv

LEMMA NextKeeps == IInv /\ [Next]_vars => IInv'
<1> SUFFICES ASSUME IInv, [Next]_vars PROVE IInv'
  OBVIOUS
<1>1. CASE Step(cpu)
  <2>1. ASSUME SystemCall(cpu) \/ Return(cpu) PROVE IInv'
    BY <2>1, OutsideKeeps DEF SystemCall, Return, Goto
  <2> QED BY <1>1, <2>1, LoadKeeps, RaiseKeeps, CliKeeps, LockAgainKeeps, UnlockKeeps, OpenKeeps, CloseKeeps,
             ExceptionKeeps DEF Step
<1>2. CASE \E b \in Actors : Timer(b)
  BY <1>2, TimerKeeps
<1>3. CASE UNCHANGED vars
  <2>1. \A b \in Actors : Held(b)' = Held(b)
    BY <1>3 DEF vars, Held
  <2>2. Calls' = Calls
    BY <2>1 DEF Calls
  <2> QED BY <1>3, <2>1, <2>2 DEF vars, IInv, TypeOK, Nested, Counts, MutualExclusion, Alone, Pairs, Held
<1> QED BY <1>1, <1>2, <1>3 DEF Next
-----------------------------------------------------------------------------
(* Theorems *)

\* IInv holds in every reachable state.
THEOREM Inductive == Spec => []IInv
  BY InitIInv, NextKeeps, PTL DEF Spec

\* For any number of tasks and any nesting, lock_level (lock.h) does not fall
\* below 0 unless an update of it was lost, and the actors keep their places.
THEOREM TypeCorrect == Spec => []TypeOK
<1>1. IInv => TypeOK
  BY DEF IInv
<1> QED BY <1>1, Inductive, PTL

\* For any number of tasks and any nesting, at most one actor is under the lock
\* of lock() (lock.c:28), with interrupts disabled, even when interrupts came
\* between lock_level++ and cli, unless an update of lock_level was lost.
THEOREM LockExcludes == Spec => []MutualExclusion
<1>1. IInv => MutualExclusion
  BY DEF IInv
<1> QED BY <1>1, Inductive, PTL

\* For any number of tasks and any nesting, unlock() never finds lock_level below
\* what its caller has to undo, and so never reports an invalid call (lock.h),
\* unless an update of lock_level was lost.
THEOREM UnlockValid == Spec => []NoInvalidUnlock
<1>1. IInv => NoInvalidUnlock
  BY Covered DEF NoInvalidUnlock
<1> QED BY <1>1, Inductive, PTL

\* For any number of tasks, interrupts are enabled in the body of a system call
\* and in a handler that waits (kernel.c:2015, 2251), as long as no interrupt
\* came while lock_level was raised and no task died under the lock.
THEOREM InterruptsEnabled == Spec => []EnabledUnlessSlipped
<1>1. IInv => EnabledUnlessSlipped
  BY DEF IInv, Alone, EnabledUnlessSlipped, Enabled
<1> QED BY <1>1, Inductive, PTL
=============================================================================
