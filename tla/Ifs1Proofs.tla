----------------------------- MODULE Ifs1Proofs -----------------------------
(***************************************************************************)
(* Proofs about Ifs1: types, the block allocation table, and what holds of *)
(* files, locks and directory as long as nothing of odd has happened; and  *)
(* about Session, of which the same disk is the memory.                    *)
(***************************************************************************)
EXTENDS Ifs1, Session, FiniteSetTheorems, NaturalsInduction, WellFoundedInduction, TLAPS

\* An operation has what its next step needs: a block, an open file, and
\* a place in the file for the block that it allocates, or of the block that it
\* frees.
Holding(t) ==
  /\ op[t].pc \in {"shift", "set", "enter", "unuse", "read", "clear", "rename", "lock"} => op[t].id \in Blocks
  /\ op[t].pc \in {"take", "shift", "set", "save"} => op[t].what \in {"create", "write", "append"}
  /\ op[t].pc \in {"take", "shift", "set"} /\ op[t].what # "create" => op[t].todo # <<>>
  /\ op[t].pc = "save" => op[t].what # "create"
  /\ op[t].pc \in {"free", "forget"} => op[t].what = "write" /\ Holds(fptr[t].block) # {}
  /\ op[t].what \in {"write", "append"} => fptr[t].id \in Blocks
  /\ fptr[t] # NoFile => fptr[t].id \in Blocks

\* The table holds free blocks, as long as the tasks are in it one by one...
TableFree == "table" \notin odd => \A b \in bat : ~disk[b].used

\* ... and whatever may be written to the disk as a used block is not in it,
\* but for the block that t is about to take.
Outside(t) ==
  "table" \notin odd =>
    /\ op[t].pc = "set" => op[t].id \notin bat
    /\ op[t].pc = "shift" => op[t].id \in bat /\ \A u \in Tasks : op[u].pc = "shift" => u = t
    /\ op[t].pc \in {"lock", "rename"} /\ op[t].block.used => op[t].id \notin bat
    /\ fptr[t].block.used => fptr[t].id \notin bat

IInv ==
  /\ TypeOK
  /\ \A t \in Tasks : Holding(t) /\ Outside(t)
  /\ BatFree
-----------------------------------------------------------------------------
(* Types *)

\* A set of numbers has a first one.
LEMMA FirstNat == ASSUME NEW S \in SUBSET Nat, S # {} PROVE First(S) \in S
<1>1. \E b \in S : \A c \in S : b <= c
  <2>1. PICK b \in S : \A c \in S : <<c, b>> \notin OpToRel(<, Nat)
    BY NatLessThanWellFounded, WFMin
  <2>2. \A c \in S : ~(c < b)
    BY <2>1 DEF OpToRel
  <2> QED BY <2>2
<1> QED BY <1>1 DEF First

LEMMA FirstIn == ASSUME NEW S \in SUBSET Blocks, S # {} PROVE First(S) \in S
<1>1. S \in SUBSET Nat
  BY Ifs1Assumption DEF Blocks
<1> QED BY <1>1, FirstNat

LEMMA Constant ==
  /\ INVALID_BLOCK_ID \in Ids /\ INVALID_BLOCK_ID \notin Blocks /\ Blocks \subseteq Ids
  /\ 0 \in 0 .. FileSize
  BY Ifs1Assumption DEF INVALID_BLOCK_ID, Ids, Blocks

LEMMA NoBlocksType == NoBlocks \in [Indexes -> Ids]
  BY Constant DEF NoBlocks

LEMMA NewType == NewData \in RawBlock /\ \A n \in Names : NewFile(n) \in RawBlock
  BY Constant, NoBlocksType DEF NewData, NewFile, RawBlock

LEMMA IdleType ==
  /\ Idle \in Operation /\ NoFile \in [id : Ids, block : RawBlock]
  /\ Idle.pc = "idle" /\ Idle.what = NONE /\ NoFile.id \notin Blocks
<1>1. NoDir \in DirBlock
  BY Constant DEF NoDir, DirBlock
<1>2. <<>> \in Seq(Indexes)
  OBVIOUS
<1> QED BY <1>1, <1>2, Constant, NewType DEF Idle, Operation, NoFile

\* What GoOn makes of an operation.
LEMMA GoOnType ==
  ASSUME NEW r \in Operation
  PROVE  /\ GoOn(r) \in Operation /\ GoOn(r).what = r.what
         /\ GoOn(r).pc \in {"save", "take"} /\ (GoOn(r).pc = "take" => GoOn(r).todo # <<>>)
         /\ GoOn(r).block = r.block
<1>1. CASE r.todo = <<>>
  BY <1>1 DEF GoOn, Operation
<1>2. CASE r.todo # <<>>
  BY <1>2 DEF GoOn, Operation
<1> QED BY <1>1, <1>2

\* The table, as it is filled, holds free blocks.
LEMMA FilledFree == \A d : FilledBAT(d) \subseteq {b \in Blocks : ~d[b].used}
  BY DEF FilledBAT
-----------------------------------------------------------------------------
(* Steps *)

FileType == [id : Ids, block : RawBlock]
Events == {"scanned", "lost", "stale", "changed", "renamed", "dead", "cut", "torn", "table", "unheld"}

\* Events are recorded, and none is forgotten.
Grows == odd \subseteq odd' /\ odd' \subseteq Events

LEMMA InitIInv == Init => IInv
<1> SUFFICES ASSUME Init PROVE IInv
  OBVIOUS
<1>1. disk \in [Blocks -> RawBlock]
  <2>1. [NewData EXCEPT !.used = FALSE] \in RawBlock
    BY NewType DEF RawBlock
  <2> QED BY <2>1 DEF Init
<1>2. bat \subseteq Blocks /\ \A b \in bat : ~disk[b].used
  BY FilledFree DEF Init
<1>3. dir \in DirBlock
  BY Constant DEF Init, NoDir, DirBlock
<1>4. TypeOK
  <2>1. fptr \in [Tasks -> [id : Ids, block : RawBlock]]
    BY IdleType DEF Init
  <2>2. op \in [Tasks -> Operation]
    BY IdleType DEF Init
  <2>3. odd = {}
    BY DEF Init
  <2> QED BY <1>1, <1>2, <1>3, <2>1, <2>2, <2>3 DEF TypeOK
<1>5. \A t \in Tasks : op[t] = Idle /\ fptr[t] = NoFile
  BY DEF Init
<1>6. \A t \in Tasks : Holding(t) /\ Outside(t)
  BY <1>2, <1>5, IdleType, Ifs1Assumption DEF Holding, Outside
<1>7. BatFree
  BY <1>2, <1>5, IdleType DEF BatFree
<1> QED BY <1>4, <1>6, <1>7 DEF IInv

\* A step of t keeps the invariant if it adds nothing to the table, writes no
\* block of it as used, leaves the others where they are, and leaves t with what
\* its next step needs and with a block that is its own.
LEMMA Preserved ==
  ASSUME IInv, NEW t \in Tasks,
         disk' \in [Blocks -> RawBlock], dir' \in DirBlock, bat' \subseteq bat,
         fptr' \in [Tasks -> FileType], op' \in [Tasks -> Operation],
         Grows, TableFree',
         \A u \in Tasks : u # t => /\ fptr'[u] = fptr[u]
                                  /\ op'[u].pc = op[u].pc /\ op'[u].what = op[u].what
                                  /\ op'[u].id = op[u].id /\ op'[u].block = op[u].block
                                  /\ op'[u].todo = op[u].todo,
         bat' = bat \/ "table" \in odd' \/ op[t].pc = "shift",
         Holding(t)', Outside(t)',
         "table" \notin odd' /\ op'[t].pc = "set" =>
           \A u \in Tasks : u # t /\ op[u].pc = "set" => op[u].id # op'[t].id \/ bat' = {}
  PROVE  IInv'
<1>0. "table" \notin odd' => "table" \notin odd
  BY DEF Grows
<1>1. TypeOK'
  BY DEF IInv, TypeOK, FileType, Events, Grows
<1>2. \A u \in Tasks : Holding(u)' /\ Outside(u)'
  <2> SUFFICES ASSUME NEW u \in Tasks, u # t PROVE Holding(u)' /\ Outside(u)'
    OBVIOUS
  <2>1. Holding(u) /\ Outside(u) /\ Outside(t)
    BY DEF IInv
  <2>2. Holding(u)'
    BY <2>1 DEF Holding
  <2>3. Outside(u)'
    <3> SUFFICES ASSUME "table" \notin odd' PROVE Outside(u)'
      BY DEF Outside
    <3>1. ASSUME op[u].pc = "shift"
          PROVE  op[u].id \in bat' /\ \A v \in Tasks : op'[v].pc = "shift" => v = u
      <4>1. op[t].pc # "shift" /\ op'[t].pc # "shift"
        BY <1>0, <2>1, <3>1 DEF Outside
      <4> QED BY <1>0, <2>1, <3>1, <4>1 DEF Outside
    <3> QED BY <1>0, <2>1, <3>1 DEF Outside
  <2> QED BY <2>2, <2>3
<1>3. BatFree'
  <2> SUFFICES ASSUME "table" \notin odd' PROVE BatFree'
    BY DEF BatFree
  <2>0. \A b \in bat' : ~disk'[b].used
    BY DEF TableFree
  <2>1. \A u \in Tasks : op'[u].pc = "set" => op'[u].id \notin bat'
    BY <1>2 DEF Outside
  <2>2. ASSUME NEW u \in Tasks, NEW v \in Tasks,
               op'[u].pc = "set", op'[v].pc = "set", op'[u].id = op'[v].id
        PROVE  u = v \/ bat' = {}
    <3>1. CASE u # t /\ v # t
      BY <1>0, <3>1, <2>2 DEF IInv, BatFree
    <3>2. CASE u = t \/ v = t
      BY <3>2, <2>2
    <3> QED BY <3>1, <3>2
  <2> QED BY <2>0, <2>1, <2>2 DEF BatFree
<1> QED BY <1>1, <1>2, <1>3 DEF IInv

\* The types that the steps start from.
LEMMA Types ==
  ASSUME IInv, NEW t \in Tasks
  PROVE  /\ disk \in [Blocks -> RawBlock] /\ dir \in DirBlock /\ bat \subseteq Blocks
         /\ fptr \in [Tasks -> FileType] /\ op \in [Tasks -> Operation]
         /\ op[t] \in Operation /\ fptr[t] \in FileType
         /\ fptr[t].block \in RawBlock /\ op[t].block \in RawBlock
         /\ odd \subseteq Events
         /\ TableFree
  BY DEF IInv, TypeOK, BatFree, TableFree, FileType, Operation, Events

\* A task that does nothing holds nothing.
LEMMA IdleHolds ==
  ASSUME NEW t \in Tasks, op'[t] = Idle,
         fptr'[t] # NoFile => fptr'[t].id \in Blocks,
         "table" \notin odd' /\ fptr'[t].block.used => fptr'[t].id \notin bat'
  PROVE  Holding(t)' /\ Outside(t)' /\ op'[t].pc # "set"
  BY IdleType, Ifs1Assumption DEF Holding, Outside

\* An operation begins: it changes nothing but what t is doing.
LEMMA Begins ==
  ASSUME IInv, NEW t \in Tasks, NEW r \in Operation, Become(t, r),
         UNCHANGED <<disk, dir, bat, fptr>>, Grows,
         Holding(t)', Outside(t)', r.pc # "set"
  PROVE  IInv'
<1>1. op' = [op EXCEPT ![t] = r] /\ op'[t] = r /\ op' \in [Tasks -> Operation]
  BY Types DEF Become
<1>2. \A u \in Tasks : u # t => op'[u] = op[u]
  BY <1>1, Types
<1>3. /\ disk' \in [Blocks -> RawBlock] /\ dir' \in DirBlock /\ bat' = bat
      /\ fptr' \in [Tasks -> FileType]
      /\ \A u \in Tasks : fptr'[u] = fptr[u]
  BY Types
<1>4. TableFree'
  BY Types DEF TableFree, Grows
<1> QED BY <1>1, <1>2, <1>3, <1>4, Preserved

\* An operation that does not record an event.
LEMMA Unrecorded ==
  ASSUME IInv, NEW t \in Tasks, UNCHANGED odd PROVE Grows
  BY Types DEF Grows

LEMMA CreateKeeps ==
  ASSUME IInv, NEW t \in Tasks, NEW n \in Names, CreateFile(t, n) PROVE IInv'
<1> DEFINE r == [Idle EXCEPT !.pc = "take", !.what = "create", !.block = NewFile(n), !.dir = dir]
<1>1. r \in Operation /\ r.pc = "take" /\ r.what = "create"
  BY IdleType, NewType, Types DEF Operation
<1>2. Become(t, r) /\ UNCHANGED <<disk, dir, bat, fptr, odd>>
  BY DEF CreateFile
<1>3. op'[t] = r
  BY <1>2, Types DEF Become
<1>4. Holding(t) /\ Outside(t)
  BY DEF IInv
<1>5. Holding(t)' /\ Outside(t)'
  BY <1>1, <1>2, <1>3, <1>4 DEF Holding, Outside
<1> HIDE DEF r
<1> QED BY <1>1, <1>2, <1>5, Unrecorded, Begins

\* What a path leads to is the block of a file.
LEMMA ParsedBlock ==
  ASSUME IInv, NEW n, ParsePath(n) # INVALID_BLOCK_ID
  PROVE  ParsePath(n) \in Blocks /\ disk[ParsePath(n)].type = "file"
<1> DEFINE hits == Entered(n)
           e == CHOOSE e \in hits : \A f \in hits : e <= f
<1>1. hits # {} /\ ParsePath(n) = dir[e]
  BY DEF ParsePath, INVALID_BLOCK_ID
<1>2. hits \subseteq Nat /\ hits \subseteq Entries
  BY Ifs1Assumption DEF Entered, Entries
<1>3. \E b \in hits : \A c \in hits : b <= c
  <2> HIDE DEF hits
  <2>1. PICK b \in hits : \A c \in hits : <<c, b>> \notin OpToRel(<, Nat)
    BY <1>1, <1>2, NatLessThanWellFounded, WFMin
  <2>2. \A c \in hits : ~(c < b)
    BY <1>2, <2>1 DEF OpToRel
  <2> QED BY <1>2, <2>2
<1>4. e \in hits
  BY <1>3
<1>5. dir \in DirBlock
  BY DEF IInv, TypeOK
<1>6. ParsePath(n) \in Blocks
  BY <1>1, <1>2, <1>4, <1>5 DEF DirBlock, Ids
<1>7. disk[dir[e]].type = "file"
  BY <1>4 DEF Entered
<1> QED BY <1>1, <1>6, <1>7

LEMMA DeleteKeeps ==
  ASSUME IInv, NEW t \in Tasks, NEW n \in Names, DeleteFile(t, n) PROVE IInv'
<1> DEFINE b == ParsePath(n)
           r == [Idle EXCEPT !.pc = "unuse", !.what = "delete", !.id = b, !.block = disk[b]]
<1>0. b \in Blocks
  BY ParsedBlock DEF DeleteFile
<1>1. r \in Operation /\ r.pc = "unuse" /\ r.what = "delete" /\ r.id = b
  BY <1>0, IdleType, Constant, Types DEF Operation
<1>2. Become(t, r) /\ UNCHANGED <<disk, dir, bat, fptr, odd>>
  BY DEF DeleteFile
<1>3. op'[t] = r
  BY <1>2, Types DEF Become
<1>4. Holding(t) /\ Outside(t)
  BY DEF IInv
<1> HIDE DEF b
<1>5. Holding(t)' /\ Outside(t)'
  BY <1>0, <1>1, <1>2, <1>3, <1>4 DEF Holding, Outside
<1> HIDE DEF r
<1> QED BY <1>1, <1>2, <1>5, Unrecorded, Begins

LEMMA OpenKeeps ==
  ASSUME IInv, NEW t \in Tasks, NEW n \in Names, OpenFile(t, n) PROVE IInv'
<1> DEFINE b == ParsePath(n)
           r == [Idle EXCEPT !.pc = "lock", !.what = "open", !.id = b, !.block = disk[b]]
<1>0. b \in Blocks
  BY ParsedBlock DEF OpenFile
<1>1. r \in Operation /\ r.pc = "lock" /\ r.what = "open" /\ r.id = b /\ r.block = disk[b]
  BY <1>0, IdleType, Constant, Types DEF Operation
<1>2. Become(t, r) /\ UNCHANGED <<disk, dir, bat, fptr, odd>>
  BY DEF OpenFile
<1>3. op'[t] = r
  BY <1>2, Types DEF Become
<1>4. Holding(t) /\ Outside(t)
  BY DEF IInv
<1>5. "table" \notin odd /\ disk[b].used => b \notin bat
  BY Types DEF TableFree
<1> HIDE DEF b
<1>6. Holding(t)' /\ Outside(t)'
  BY <1>0, <1>1, <1>2, <1>3, <1>4, <1>5 DEF Holding, Outside
<1> HIDE DEF r
<1> QED BY <1>1, <1>2, <1>6, Unrecorded, Begins

LEMMA AppendKeeps ==
  ASSUME IInv, NEW t \in Tasks, AppendFile(t) PROVE IInv'
<1> DEFINE n == fptr[t].block.length + 1
           q == [Idle EXCEPT !.what = "append", !.todo = <<n>>, !.length = n]
           r == GoOn(q)
<1>0. n \in Indexes /\ n \in 0 .. FileSize
  BY Types, Ifs1Assumption DEF AppendFile, RawBlock, Indexes
<1> HIDE DEF n
<1>1. q \in Operation /\ q.what = "append"
  <2>1. <<n>> \in Seq(Indexes)
    BY <1>0
  <2> QED BY <1>0, <2>1, IdleType DEF Operation
<1>2. Become(t, r) /\ UNCHANGED <<disk, dir, bat, fptr, odd>> /\ fptr[t] # NoFile
  BY DEF AppendFile, n
<1> HIDE DEF q
<1>3. /\ r \in Operation /\ r.what = "append"
      /\ r.pc \in {"save", "take"} /\ (r.pc = "take" => r.todo # <<>>)
  BY <1>1, GoOnType
<1> HIDE DEF r
<1>4. op'[t] = r
  BY <1>2, Types DEF Become
<1>5. Holding(t) /\ Outside(t)
  BY DEF IInv
<1>6. Holding(t)' /\ Outside(t)'
  BY <1>2, <1>3, <1>4, <1>5 DEF Holding, Outside
<1> QED BY <1>2, <1>3, <1>6, Unrecorded, Begins

\* t goes on to the next block of its file, if there is one.
LEMMA TailGoesOn ==
  ASSUME IInv, NEW t \in Tasks, op[t].todo # <<>>, op[t].what \in {"write", "append"}
  PROVE  LET r == GoOn([op[t] EXCEPT !.todo = Tail(@)]) IN
         /\ r \in Operation /\ r.what = op[t].what /\ r.pc \in {"save", "take"}
         /\ r.pc = "take" => r.todo # <<>>
<1> DEFINE q == [op[t] EXCEPT !.todo = Tail(@)]
<1>1. op[t].todo \in Seq(Indexes) /\ op[t] \in Operation
  BY Types DEF Operation
<1>2. Tail(op[t].todo) \in Seq(Indexes)
  BY <1>1
<1>3. q \in Operation /\ q.what = op[t].what
  BY <1>1, <1>2 DEF Operation
<1> HIDE DEF q
<1>4. /\ GoOn(q) \in Operation /\ GoOn(q).what = q.what
      /\ GoOn(q).pc \in {"save", "take"} /\ (GoOn(q).pc = "take" => GoOn(q).todo # <<>>)
  BY <1>3, GoOnType
<1> QED BY <1>3, <1>4 DEF q

\* t has been given a block, that is not in the table and is nobody else's.
LEMMA FoundKeeps ==
  ASSUME IInv, NEW t \in Tasks, NEW b \in Blocks, op[t].pc \in {"take", "shift"}, Found(t, b),
         bat' \subseteq bat, bat' = bat \/ op[t].pc = "shift", Grows,
         "table" \notin odd' =>
           b \notin bat' /\ \A u \in Tasks : u # t /\ op[u].pc = "set" => op[u].id # b \/ bat' = {}
  PROVE  IInv'
<1> DEFINE r == [op[t] EXCEPT !.pc = "set", !.id = b]
<1>1. r \in Operation /\ r.pc = "set" /\ r.id = b /\ r.what = op[t].what /\ r.todo = op[t].todo
  BY Types, Constant DEF Operation
<1> HIDE DEF r
<1>2. op' = [op EXCEPT ![t] = r] /\ UNCHANGED <<disk, dir, fptr>>
  BY DEF Found, Become, r
<1>3. op' \in [Tasks -> Operation] /\ op'[t] = r /\ \A u \in Tasks : u # t => op'[u] = op[u]
  BY <1>1, <1>2, Types
<1>4. Holding(t) /\ Outside(t)
  BY DEF IInv
<1>5. Holding(t)' /\ Outside(t)'
  BY <1>1, <1>2, <1>3, <1>4 DEF Holding, Outside, Grows
<1>6. /\ disk' \in [Blocks -> RawBlock] /\ dir' \in DirBlock
      /\ fptr' \in [Tasks -> FileType]
      /\ \A u \in Tasks : fptr'[u] = fptr[u]
  BY <1>2, Types
<1>7. TableFree'
  BY <1>2, Types DEF TableFree, Grows
<1> QED BY <1>1, <1>3, <1>5, <1>6, <1>7, Preserved

LEMMA AddFailsKeeps ==
  ASSUME IInv, NEW t \in Tasks, op[t].pc \in {"take", "shift"}, AddFails(t), Grows,
         bat' \subseteq bat, bat' = bat \/ op[t].pc = "shift"
  PROVE  IInv'
<1>1. Holding(t) /\ Outside(t)
  BY DEF IInv
<1>2. UNCHANGED <<disk, dir, fptr>>
  BY DEF AddFails
<1>3. TableFree'
  BY <1>2, Types DEF TableFree, Grows
<1>4. ASSUME NEW r \in Operation, Become(t, r), Holding(t)', Outside(t)', r.pc # "set" PROVE IInv'
  <2>1. op' \in [Tasks -> Operation] /\ op'[t] = r /\ \A u \in Tasks : u # t => op'[u] = op[u]
    BY <1>4, Types DEF Become
  <2> QED BY <1>2, <1>3, <1>4, <2>1, Types, Preserved
<1>5. CASE op[t].what = "write"
  <2> DEFINE r == GoOn([op[t] EXCEPT !.todo = Tail(@)])
  <2>1. op[t].todo # <<>>
    BY <1>1, <1>5 DEF Holding
  <2>2. /\ r \in Operation /\ r.what = op[t].what /\ r.pc \in {"save", "take"}
        /\ r.pc = "take" => r.todo # <<>>
    BY <2>1, <1>5, TailGoesOn
  <2>3. Become(t, r)
    BY <1>5 DEF AddFails
  <2> HIDE DEF r
  <2>4. op'[t] = r
    BY <2>3, Types DEF Become
  <2>5. Holding(t)' /\ Outside(t)'
    BY <1>1, <1>2, <1>5, <2>2, <2>4 DEF Holding, Outside, Grows
  <2> QED BY <1>4, <2>2, <2>3, <2>5
<1>6. CASE op[t].what # "write"
  <2>1. Become(t, Idle)
    BY <1>6 DEF AddFails
  <2>2. op'[t] = Idle
    BY <2>1, Types DEF Become
  <2>3. Holding(t)' /\ Outside(t)'
    BY <1>1, <1>2, <2>2, IdleHolds DEF Holding, Outside, Grows
  <2> QED BY <1>4, <2>1, <2>3, IdleType
<1> QED BY <1>5, <1>6

\* Who looks at the head of the table is alone with it, or that is recorded...
LEMMA TakeFromBATKeeps ==
  ASSUME IInv, NEW t \in Tasks, TakeFromBAT(t) PROVE IInv'
<1> DEFINE b == First(bat)
           r == [op[t] EXCEPT !.pc = "shift", !.id = b]
<1>1. bat \subseteq Blocks /\ bat # {} /\ op[t].pc = "take" /\ UNCHANGED <<disk, dir, bat, fptr>>
  BY Types DEF TakeFromBAT
<1>2. b \in bat /\ b \in Blocks
  BY <1>1, FirstIn
<1>3. Become(t, r) /\ Grows /\ ("table" \notin odd' => \A u \in Tasks \ {t} : op[u].pc # "shift")
  BY Types DEF TakeFromBAT, Grows, Events
<1> HIDE DEF b
<1>4. /\ r \in Operation /\ r.pc = "shift" /\ r.id = b /\ r.what = op[t].what /\ r.todo = op[t].todo
  BY <1>2, Types, Constant DEF Operation
<1> HIDE DEF r
<1>5. op'[t] = r /\ \A u \in Tasks : u # t => op'[u] = op[u]
  BY <1>3, Types DEF Become
<1>6. Holding(t) /\ Outside(t)
  BY DEF IInv
<1>7. Holding(t)'
  BY <1>1, <1>2, <1>4, <1>5, <1>6 DEF Holding
<1>8. Outside(t)'
  BY <1>1, <1>2, <1>3, <1>4, <1>5, <1>6 DEF Outside, Grows
<1> QED BY <1>1, <1>3, <1>4, <1>7, <1>8, Begins

\* ... and takes a block that is free, and given to nobody.
LEMMA ShiftKeeps ==
  ASSUME IInv, NEW t \in Tasks, Shift(t) PROVE IInv'
<1> DEFINE b == op[t].id
<1>1. op[t].pc = "shift" /\ bat' = bat \ {b} /\ odd' = odd /\ Grows
  BY Unrecorded DEF Shift, Shifted
<1>2. b \in Blocks /\ ("table" \notin odd => b \in bat)
  BY <1>1 DEF IInv, Holding, Outside
<1>3. "table" \notin odd => \A u \in Tasks : u # t /\ op[u].pc = "set" => op[u].id # b
  BY <1>2 DEF IInv, BatFree
<1>4. AddFails(t) \/ Found(t, b)
  BY DEF Shift, Taken
<1> HIDE DEF b
<1>5. CASE AddFails(t)
  BY <1>1, <1>5, AddFailsKeeps
<1>6. CASE Found(t, b)
  BY <1>1, <1>2, <1>3, <1>6, FoundKeeps
<1> QED BY <1>4, <1>5, <1>6

LEMMA ShiftOtherKeeps ==
  ASSUME IInv, NEW t \in Tasks, ShiftOther(t) PROVE IInv'
<1>1. op[t].pc = "shift" /\ bat' = bat /\ "table" \in odd' /\ Grows
  BY Types DEF ShiftOther, Grows, Events
<1>2. AddFails(t) \/ \E b \in Blocks : Found(t, b)
  BY DEF ShiftOther, Taken
<1>3. CASE AddFails(t)
  BY <1>1, <1>3, AddFailsKeeps
<1>4. ASSUME NEW b \in Blocks, Found(t, b) PROVE IInv'
  BY <1>1, <1>4, FoundKeeps
<1> QED BY <1>2, <1>3, <1>4

LEMMA ShiftedByOtherKeeps ==
  ASSUME IInv, NEW t \in Tasks, ShiftedByOther(t) PROVE IInv'
<1>1. /\ bat' \subseteq bat /\ "table" \in odd' /\ Grows /\ UNCHANGED <<disk, dir, fptr, op>>
  BY Types DEF ShiftedByOther, Grows, Events, Shifted
<1>2. Holding(t)
  BY DEF IInv
<1>3. Holding(t)' /\ Outside(t)' /\ TableFree'
  BY <1>1, <1>2 DEF Holding, Outside, TableFree
<1> QED BY <1>1, <1>3, Types, Preserved

LEMMA TakeByScanKeeps ==
  ASSUME IInv, NEW t \in Tasks, TakeByScan(t) PROVE IInv'
<1>1. bat = {} /\ bat' = {} /\ Grows /\ op[t].pc = "take"
  BY Unrecorded DEF TakeByScan
<1>2. CASE Free = {}
  BY <1>1, <1>2, AddFailsKeeps DEF TakeByScan
<1>3. CASE Free # {}
  <2> DEFINE b == First(Free)
  <2>1. b \in Blocks
    BY <1>3, FirstIn DEF Free
  <2>2. Found(t, b)
    BY <1>3 DEF TakeByScan
  <2> HIDE DEF b
  <2> QED BY <1>1, <2>1, <2>2, FoundKeeps
<1> QED BY <1>2, <1>3

\* A block that is not in the table may be written in any way.
LEMMA WriteKeepsFree ==
  ASSUME IInv, NEW b \in Blocks, NEW r \in RawBlock, disk' = [disk EXCEPT ![b] = r], bat' = bat, Grows,
         "table" \notin odd /\ r.used => b \notin bat
  PROVE  disk' \in [Blocks -> RawBlock] /\ TableFree'
<1>1. /\ disk \in [Blocks -> RawBlock] /\ bat \subseteq Blocks
      /\ "table" \notin odd => \A c \in bat : ~disk[c].used
  BY DEF IInv, TypeOK, BatFree
<1> QED BY <1>1 DEF TableFree, Grows

LEMMA SetBlockKeeps ==
  ASSUME IInv, NEW t \in Tasks, SetBlock(t) PROVE IInv'
<1> DEFINE b == op[t].id
<1>1. Holding(t) /\ Outside(t)
  BY DEF IInv
<1>2. /\ b \in Blocks /\ ("table" \notin odd => b \notin bat)
      /\ op[t].pc = "set" /\ op[t].what \in {"create", "write", "append"}
  BY <1>1 DEF SetBlock, Holding, Outside
<1>3. UNCHANGED <<dir, bat>> /\ Grows /\ disk' = [disk EXCEPT ![b] = op[t].block]
  BY Types DEF SetBlock, Grows, Events
<1>4. disk' \in [Blocks -> RawBlock] /\ TableFree'
  BY <1>2, <1>3, Types, WriteKeepsFree
<1>5. CASE op[t].what = "create"
  <2> DEFINE r == [op[t] EXCEPT !.pc = "enter"]
  <2>1. r \in Operation /\ r.pc = "enter" /\ r.id = b /\ r.what = "create"
    BY <1>5, Types DEF Operation
  <2>2. op' = [op EXCEPT ![t] = r] /\ UNCHANGED fptr
    BY <1>5 DEF SetBlock, Become
  <2> HIDE DEF r
  <2>3. op' \in [Tasks -> Operation] /\ op'[t] = r /\ \A u \in Tasks : u # t => op'[u] = op[u]
    BY <2>1, <2>2, Types
  <2>4. Holding(t)' /\ Outside(t)'
    BY <1>1, <1>2, <1>3, <2>1, <2>2, <2>3 DEF Holding, Outside, Grows
  <2> QED BY <1>3, <1>4, <2>1, <2>2, <2>3, <2>4, Types, Preserved
<1>6. CASE op[t].what # "create"
  <2> DEFINE r == GoOn([op[t] EXCEPT !.todo = Tail(@)])
             i == Head(op[t].todo)
             p == [fptr[t] EXCEPT !.block.blockids[i] = b]
  <2>1. op[t].todo # <<>> /\ op[t].what \in {"write", "append"} /\ fptr[t].id \in Blocks
    BY <1>1, <1>2, <1>6 DEF Holding
  <2>2. /\ r \in Operation /\ r.what = op[t].what /\ r.pc \in {"save", "take"}
        /\ r.pc = "take" => r.todo # <<>>
    BY <2>1, TailGoesOn
  <2>3. op' = [op EXCEPT ![t] = r] /\ fptr' = [fptr EXCEPT ![t].block.blockids[i] = b]
    BY <1>6 DEF SetBlock, Become
  <2> HIDE DEF r
  <2>4. op' \in [Tasks -> Operation] /\ op'[t] = r /\ \A u \in Tasks : u # t => op'[u] = op[u]
    BY <2>2, <2>3, Types
  <2>5. p \in FileType /\ p.id = fptr[t].id /\ p.block.used = fptr[t].block.used
    <3>1. fptr[t].block.blockids \in [Indexes -> Ids] /\ fptr[t].block \in RawBlock /\ fptr[t] \in FileType
      BY Types DEF RawBlock
    <3>2. [fptr[t].block.blockids EXCEPT ![i] = b] \in [Indexes -> Ids]
      BY <3>1, <1>2, Constant
    <3>3. [fptr[t].block EXCEPT !.blockids[i] = b] \in RawBlock
      BY <3>1, <3>2 DEF RawBlock
    <3> QED BY <3>1, <3>3 DEF FileType, RawBlock
  <2>6. fptr' = [fptr EXCEPT ![t] = p]
    BY <2>3, Types
  <2> HIDE DEF p
  <2>7. fptr' \in [Tasks -> FileType] /\ fptr'[t] = p /\ \A u \in Tasks : u # t => fptr'[u] = fptr[u]
    BY <2>5, <2>6, Types
  <2>8. Holding(t)' /\ Outside(t)'
    BY <1>1, <1>3, <2>1, <2>2, <2>4, <2>5, <2>7 DEF Holding, Outside, Grows
  <2> QED BY <1>3, <1>4, <2>2, <2>4, <2>7, <2>8, Types, Preserved
<1> QED BY <1>5, <1>6

\* Writing the directory leaves the others where they are.
LEMMA WrittenKeeps ==
  ASSUME IInv, NEW t \in Tasks, dir' \in DirBlock, Written(t), UNCHANGED <<disk, bat, fptr>>
  PROVE  IInv'
<1>1. \A u \in Tasks : [op[u] EXCEPT !.late = TRUE] \in Operation
  BY Types DEF Operation
<1>2. op' \in [Tasks -> Operation] /\ op'[t] = Idle
  BY <1>1, Types, IdleType DEF Written
<1>3. \A u \in Tasks : u # t => op'[u] = op[u] \/ op'[u] = [op[u] EXCEPT !.late = TRUE]
  BY DEF Written
<1>4. \A u \in Tasks : u # t => /\ op'[u].pc = op[u].pc /\ op'[u].what = op[u].what
                                /\ op'[u].id = op[u].id /\ op'[u].block = op[u].block
                                /\ op'[u].todo = op[u].todo
  BY <1>3, Types DEF Operation
<1>5. Holding(t) /\ Outside(t)
  BY DEF IInv
<1>6. Grows
  BY Types DEF Written, Grows, Events
<1>7. Holding(t)' /\ Outside(t)' /\ op'[t].pc # "set"
  BY <1>2, <1>5, <1>6, IdleHolds DEF Holding, Outside, Grows
<1>8. TableFree'
  BY <1>6, Types DEF TableFree, Grows
<1> QED BY <1>2, <1>4, <1>6, <1>7, <1>8, Types, Preserved

LEMMA EnterKeeps ==
  ASSUME IInv, NEW t \in Tasks, Enter(t) PROVE IInv'
<1> DEFINE d == op[t].dir
           free == {e \in Entries : d[e] = INVALID_BLOCK_ID}
<1>1. d \in DirBlock
  BY Types DEF Operation
<1>2. Holding(t) /\ Outside(t) /\ op[t].id \in Blocks /\ UNCHANGED <<disk, bat, fptr>>
  BY DEF IInv, Holding, Enter
<1>3. CASE UNCHANGED dir /\ Become(t, Idle) /\ odd' = odd \cup {"lost"}
  <2>1. op' \in [Tasks -> Operation] /\ op'[t] = Idle /\ \A u \in Tasks : u # t => op'[u] = op[u]
    BY <1>3, Types, IdleType DEF Become
  <2>2. Grows
    BY <1>3, Types DEF Grows, Events
  <2>3. Holding(t)' /\ Outside(t)' /\ op'[t].pc # "set"
    BY <1>2, <2>1, <2>2, IdleHolds DEF Holding, Outside, Grows
  <2>4. Idle \in Operation
    BY IdleType
  <2> QED BY <1>2, <1>3, <2>1, <2>2, <2>3, <2>4, Begins
<1>4. CASE (\E e \in free : dir' = [d EXCEPT ![e] = op[t].id]) /\ Written(t)
  <2>1. dir' \in DirBlock
    BY <1>1, <1>2, <1>4, Constant DEF DirBlock
  <2> QED BY <1>2, <1>4, <2>1, WrittenKeeps
<1> QED BY <1>3, <1>4 DEF Enter

LEMMA ClearEntryKeeps ==
  ASSUME IInv, NEW t \in Tasks, ClearEntry(t) PROVE IInv'
<1>1. op[t].dir \in DirBlock
  BY Types DEF Operation
<1>2. dir' \in DirBlock
  BY <1>1, Constant DEF ClearEntry, DirBlock
<1> QED BY <1>2, WrittenKeeps DEF ClearEntry

LEMMA WriteListKeeps ==
  ASSUME IInv, NEW t \in Tasks, WriteList(t) PROVE IInv'
<1>1. op[t].dir \in DirBlock
  BY Types DEF Operation
<1> QED BY <1>1, WrittenKeeps DEF WriteList

LEMMA UnuseKeeps ==
  ASSUME IInv, NEW t \in Tasks, Unuse(t) PROVE IInv'
<1> DEFINE b == op[t].id
           r == [Idle EXCEPT !.pc = "read", !.what = "delete", !.id = b]
           w == [op[t].block EXCEPT !.used = FALSE]
<1>1. Holding(t) /\ Outside(t) /\ b \in Blocks
  BY DEF IInv, Holding, Unuse
<1>2. r \in Operation /\ r.pc = "read" /\ r.id = b /\ r.what = "delete"
  BY <1>1, IdleType, Constant DEF Operation
<1>3. w \in RawBlock /\ ~w.used
  BY Types DEF RawBlock
<1>4. /\ op' = [op EXCEPT ![t] = r] /\ disk' = [disk EXCEPT ![b] = w]
      /\ UNCHANGED <<dir, bat, fptr>> /\ Grows
  BY Types DEF Unuse, Become, Grows, Events
<1> HIDE DEF r, w
<1>5. op' \in [Tasks -> Operation] /\ op'[t] = r /\ \A u \in Tasks : u # t => op'[u] = op[u]
  BY <1>2, <1>4, Types
<1>6. disk' \in [Blocks -> RawBlock] /\ TableFree'
  BY <1>1, <1>3, <1>4, WriteKeepsFree
<1>7. Holding(t)' /\ Outside(t)'
  BY <1>1, <1>2, <1>4, <1>5 DEF Holding, Outside, Grows
<1> QED BY <1>2, <1>4, <1>5, <1>6, <1>7, Types, Preserved

LEMMA ReadDirKeeps ==
  ASSUME IInv, NEW t \in Tasks, ReadDir(t) PROVE IInv'
<1> DEFINE r == [op[t] EXCEPT !.pc = "clear", !.dir = dir, !.late = FALSE]
<1>1. Holding(t) /\ Outside(t) /\ op[t].id \in Blocks
  BY DEF IInv, Holding, ReadDir
<1>2. r \in Operation /\ r.pc = "clear" /\ r.id = op[t].id /\ r.what = op[t].what
  BY Types DEF Operation
<1>3. op' = [op EXCEPT ![t] = r] /\ UNCHANGED <<disk, dir, bat, fptr, odd>>
  BY DEF ReadDir, Become
<1> HIDE DEF r
<1>4. op'[t] = r
  BY <1>2, <1>3, Types
<1>5. Holding(t)' /\ Outside(t)'
  BY <1>1, <1>2, <1>3, <1>4 DEF Holding, Outside
<1> QED BY <1>2, <1>3, <1>5, Unrecorded, Begins DEF Become

\* What a task has open and may write is not in the table, so that neither
\* saving nor closing it spoils the table.
LEMMA LockKeeps ==
  ASSUME IInv, NEW t \in Tasks, LockFile(t) PROVE IInv'
<1> DEFINE b == op[t].id
           w == [op[t].block EXCEPT !.lock = TRUE]
           p == [id |-> b, block |-> w]
           r == [Idle EXCEPT !.pc = "opened", !.what = "open"]
<1>1. Holding(t) /\ Outside(t) /\ b \in Blocks /\ ("table" \notin odd /\ op[t].block.used => b \notin bat)
  BY DEF IInv, Holding, Outside, LockFile
<1>2. w \in RawBlock /\ w.used = op[t].block.used
  BY Types DEF RawBlock
<1>3. /\ op' = [op EXCEPT ![t] = r] /\ disk' = [disk EXCEPT ![b] = w]
      /\ fptr' = [fptr EXCEPT ![t] = p] /\ UNCHANGED <<dir, bat>>
  BY DEF LockFile, Become
<1>4. Grows
  BY Types DEF LockFile, Grows, Events
<1> HIDE DEF w
<1>5. p \in FileType /\ p.id = b /\ p.block = w
  BY <1>1, <1>2, Constant DEF FileType
<1>0. r \in Operation /\ r.pc = "opened" /\ r.what = "open"
  BY IdleType DEF Operation
<1> HIDE DEF p, r
<1>6. op' \in [Tasks -> Operation] /\ op'[t] = r /\ \A u \in Tasks : u # t => op'[u] = op[u]
  BY <1>0, <1>3, Types
<1>7. fptr' \in [Tasks -> FileType] /\ fptr'[t] = p /\ \A u \in Tasks : u # t => fptr'[u] = fptr[u]
  BY <1>3, <1>5, Types
<1>8. disk' \in [Blocks -> RawBlock] /\ TableFree'
  BY <1>1, <1>2, <1>3, <1>4, WriteKeepsFree
<1>9. Holding(t)' /\ Outside(t)' /\ op'[t].pc # "set"
  BY <1>0, <1>1, <1>2, <1>3, <1>4, <1>5, <1>6, <1>7 DEF Holding, Outside, Grows
<1> QED BY <1>3, <1>4, <1>6, <1>7, <1>8, <1>9, Types, Preserved

LEMMA RecordKeeps ==
  ASSUME IInv, NEW t \in Tasks, Record(t) PROVE IInv'
<1>1. Become(t, Idle) /\ UNCHANGED <<disk, dir, bat, fptr, odd>> /\ op'[t] = Idle
  BY Types DEF Record, Become
<1>2. Holding(t) /\ Outside(t)
  BY DEF IInv
<1>3. Holding(t)' /\ Outside(t)'
  BY <1>1, <1>2, IdleHolds DEF Holding, Outside
<1> QED BY <1>1, <1>3, IdleType, Unrecorded, Begins

\* What FreeOn makes of an operation.
LEMMA FreeOnType ==
  ASSUME NEW r \in Operation, NEW f
  PROVE  /\ FreeOn(f, r) \in Operation /\ FreeOn(f, r).what = r.what
         /\ FreeOn(f, r).pc \in {"free", "save", "take"} /\ FreeOn(f, r).block = r.block
         /\ (FreeOn(f, r).pc = "take" => FreeOn(f, r).todo # <<>>)
         /\ (FreeOn(f, r).pc = "free" => Holds(f) # {})
<1>1. CASE Holds(f) = {}
  BY <1>1, GoOnType DEF FreeOn
<1>2. CASE Holds(f) # {}
  BY <1>2 DEF FreeOn, Operation
<1> QED BY <1>1, <1>2

\* The first block of a file.
LEMMA FirstBlock ==
  ASSUME NEW f \in RawBlock, Holds(f) # {}
  PROVE  LET i == First(Holds(f)) IN
         /\ i \in Indexes /\ f.blockids[i] # INVALID_BLOCK_ID /\ f.blockids[i] \in Blocks
         /\ Without(f) \in RawBlock
         /\ Without(f) = [f EXCEPT !.blockids[i] = INVALID_BLOCK_ID]
<1> DEFINE i == First(Holds(f))
<1>1. Holds(f) \in SUBSET Nat
  BY Ifs1Assumption DEF Holds, Indexes
<1>2. i \in Holds(f)
  BY <1>1, FirstNat
<1> HIDE DEF i
<1>3. i \in Indexes /\ f.blockids[i] # INVALID_BLOCK_ID
  BY <1>2 DEF Holds
<1>4. f.blockids \in [Indexes -> Ids]
  BY DEF RawBlock
<1>5. f.blockids[i] \in Blocks
  BY <1>3, <1>4 DEF Ids
<1>6. [f.blockids EXCEPT ![i] = INVALID_BLOCK_ID] \in [Indexes -> Ids]
  BY <1>4, Constant
<1>7. [f EXCEPT !.blockids[i] = INVALID_BLOCK_ID] \in RawBlock
  BY <1>6 DEF RawBlock
<1> QED BY <1>3, <1>5, <1>7 DEF Without, i

LEMMA WriteKeeps ==
  ASSUME IInv, NEW t \in Tasks, NEW n \in 0 .. FileSize, WriteFile(t, n) PROVE IInv'
<1> DEFINE todo == [i \in 1 .. n |-> i]
           q == [Idle EXCEPT !.what = "write", !.todo = todo, !.length = n]
           r == FreeOn(fptr[t].block, q)
<1>1. Holding(t) /\ Outside(t) /\ fptr[t] # NoFile
  BY DEF IInv, WriteFile
<1>2. q \in Operation /\ q.what = "write"
  <2>1. todo \in Seq(Indexes)
    BY Ifs1Assumption DEF Indexes
  <2> QED BY <2>1, IdleType DEF Operation
<1>3. Become(t, r) /\ UNCHANGED <<disk, dir, bat, fptr, odd>>
  BY DEF WriteFile
<1> HIDE DEF q
<1>4. /\ r \in Operation /\ r.what = "write" /\ r.pc \in {"free", "save", "take"}
      /\ (r.pc = "take" => r.todo # <<>>) /\ (r.pc = "free" => Holds(fptr[t].block) # {})
  BY <1>2, FreeOnType
<1> HIDE DEF r
<1>5. op'[t] = r
  BY <1>3, Types DEF Become
<1>6. Holding(t)' /\ Outside(t)'
  BY <1>1, <1>3, <1>4, <1>5 DEF Holding, Outside
<1> QED BY <1>3, <1>4, <1>6, Unrecorded, Begins

LEMMA FreeBlockKeeps ==
  ASSUME IInv, NEW t \in Tasks, FreeBlock(t) PROVE IInv'
<1> DEFINE f == fptr[t].block
           x == f.blockids[First(Holds(f))]
           r == [op[t] EXCEPT !.pc = "forget"]
           w == [NewData EXCEPT !.used = FALSE]
<1>1. Holding(t) /\ Outside(t) /\ op[t].pc = "free"
  BY DEF IInv, FreeBlock
<1>2. x \in Blocks
  BY <1>1, FirstBlock, Types DEF Holding
<1>3. /\ op' = [op EXCEPT ![t] = r] /\ disk' = [disk EXCEPT ![x] = w] /\ UNCHANGED <<dir, bat, fptr, odd>>
  BY DEF FreeBlock, Become
<1>4. r \in Operation /\ r.pc = "forget" /\ r.what = op[t].what
  BY Types DEF Operation
<1>5. w \in RawBlock /\ ~w.used
  BY NewType DEF RawBlock
<1> HIDE DEF r, w, x
<1>6. op' \in [Tasks -> Operation] /\ op'[t] = r /\ \A u \in Tasks : u # t => op'[u] = op[u]
  BY <1>3, <1>4, Types
<1>7. Grows
  BY <1>3, Unrecorded
<1>8. disk' \in [Blocks -> RawBlock] /\ TableFree'
  BY <1>2, <1>3, <1>5, <1>7, WriteKeepsFree
<1>9. Holding(t)' /\ Outside(t)'
  BY <1>1, <1>3, <1>4, <1>6 DEF Holding, Outside
<1> QED BY <1>3, <1>4, <1>6, <1>7, <1>8, <1>9, Types, Preserved

LEMMA ForgetKeeps ==
  ASSUME IInv, NEW t \in Tasks, Forget(t) PROVE IInv'
<1> DEFINE f == Without(fptr[t].block)
           p == [fptr[t] EXCEPT !.block = f]
           r == FreeOn(f, op[t])
<1>1. Holding(t) /\ Outside(t) /\ op[t].pc = "forget" /\ op[t].what = "write"
  BY DEF IInv, Forget, Holding
<1>2. f \in RawBlock /\ f.used = fptr[t].block.used
  <2>1. fptr[t].block \in RawBlock /\ Holds(fptr[t].block) # {}
    BY <1>1, Types DEF Holding
  <2> QED BY <2>1, FirstBlock DEF RawBlock
<1>3. fptr' = [fptr EXCEPT ![t] = p] /\ Become(t, r) /\ UNCHANGED <<disk, dir, bat, odd>>
  BY Types DEF Forget
<1> HIDE DEF f
<1>4. /\ r \in Operation /\ r.what = "write" /\ r.pc \in {"free", "save", "take"}
      /\ (r.pc = "take" => r.todo # <<>>) /\ (r.pc = "free" => Holds(f) # {})
  BY <1>1, Types, FreeOnType
<1> HIDE DEF r
<1>5. p \in FileType /\ p.id = fptr[t].id /\ p.block = f
  BY <1>2, Types DEF FileType
<1> HIDE DEF p
<1>6. op' \in [Tasks -> Operation] /\ op'[t] = r /\ \A u \in Tasks : u # t => op'[u] = op[u]
  BY <1>3, <1>4, Types DEF Become
<1>7. fptr' \in [Tasks -> FileType] /\ fptr'[t] = p /\ \A u \in Tasks : u # t => fptr'[u] = fptr[u]
  BY <1>3, <1>5, Types
<1>8. Holding(t)' /\ Outside(t)'
  BY <1>1, <1>2, <1>3, <1>4, <1>5, <1>6, <1>7 DEF Holding, Outside
<1>9. Grows /\ TableFree'
  BY <1>3, Unrecorded, Types DEF TableFree
<1> QED BY <1>3, <1>4, <1>6, <1>7, <1>8, <1>9, Types, Preserved

LEMMA SaveKeeps ==
  ASSUME IInv, NEW t \in Tasks, Save(t) PROVE IInv'
<1> DEFINE w == [fptr[t].block EXCEPT !.length = op[t].length]
           p == [fptr[t] EXCEPT !.block = w]
<1>1. /\ Holding(t) /\ Outside(t) /\ fptr[t].id \in Blocks
      /\ ("table" \notin odd /\ fptr[t].block.used => fptr[t].id \notin bat)
  BY DEF IInv, Holding, Outside, Save
<1>2. w \in RawBlock /\ w.used = fptr[t].block.used
  <2>1. op[t].length \in 0 .. FileSize
    BY Types DEF Operation
  <2>2. fptr[t].block \in RawBlock
    BY Types
  <2> QED BY <2>1, <2>2 DEF RawBlock
<1>3. /\ op' = [op EXCEPT ![t] = Idle] /\ disk' = [disk EXCEPT ![fptr[t].id] = w]
      /\ fptr' = [fptr EXCEPT ![t] = p] /\ UNCHANGED <<dir, bat, odd>>
  BY Types DEF Save, Become
<1> HIDE DEF w
<1>4. p \in FileType /\ p.id = fptr[t].id /\ p.block = w
  BY <1>2, Types DEF FileType
<1> HIDE DEF p
<1>5. op' \in [Tasks -> Operation] /\ op'[t] = Idle /\ \A u \in Tasks : u # t => op'[u] = op[u]
  BY <1>3, IdleType, Types
<1>6. fptr' \in [Tasks -> FileType] /\ fptr'[t] = p /\ \A u \in Tasks : u # t => fptr'[u] = fptr[u]
  BY <1>3, <1>4, Types
<1>7. disk' \in [Blocks -> RawBlock] /\ TableFree'
  BY <1>1, <1>2, <1>3, Unrecorded, WriteKeepsFree
<1>8. Holding(t)' /\ Outside(t)' /\ op'[t].pc # "set"
  BY <1>1, <1>2, <1>3, <1>4, <1>5, <1>6, IdleHolds
<1> QED BY <1>3, <1>5, <1>6, <1>7, <1>8, Types, Unrecorded, Preserved

\* Closing a file, by its task or because that is killed.
LEMMA EndKeeps ==
  ASSUME IInv, NEW t \in Tasks, disk' = Closed(t), fptr' = [fptr EXCEPT ![t] = NoFile],
         Become(t, Idle), UNCHANGED <<dir, bat>>, Grows
  PROVE  IInv'
<1> DEFINE w == [fptr[t].block EXCEPT !.lock = FALSE]
<1>1. Holding(t) /\ Outside(t)
  BY DEF IInv
<1>2. w \in RawBlock /\ w.used = fptr[t].block.used
  BY Types DEF RawBlock
<1>3. disk' \in [Blocks -> RawBlock] /\ TableFree'
  <2>1. CASE fptr[t] = NoFile
    BY <2>1, Types DEF Closed, TableFree, Grows
  <2>2. CASE fptr[t] # NoFile
    <3>1. fptr[t].id \in Blocks /\ ("table" \notin odd /\ w.used => fptr[t].id \notin bat)
      BY <1>1, <1>2, <2>2 DEF Holding, Outside
    <3>2. disk' = [disk EXCEPT ![fptr[t].id] = w]
      BY <2>2 DEF Closed
    <3> HIDE DEF w
    <3> QED BY <1>2, <3>1, <3>2, WriteKeepsFree
  <2> QED BY <2>1, <2>2
<1>4. op' \in [Tasks -> Operation] /\ op'[t] = Idle /\ \A u \in Tasks : u # t => op'[u] = op[u]
  BY IdleType, Types DEF Become
<1>5. fptr' \in [Tasks -> FileType] /\ fptr'[t] = NoFile /\ \A u \in Tasks : u # t => fptr'[u] = fptr[u]
  BY IdleType, Types DEF FileType
<1>6. NoFile.id \notin bat'
  BY IdleType, Types
<1>7. Holding(t)' /\ Outside(t)' /\ op'[t].pc # "set"
  BY <1>4, <1>5, <1>6, IdleHolds
<1> QED BY <1>3, <1>4, <1>5, <1>7, Types, Preserved

LEMMA CloseFileKeeps ==
  ASSUME IInv, NEW t \in Tasks, CloseFile(t) PROVE IInv'
<1> DEFINE r == [Idle EXCEPT !.pc = "closing", !.what = "close"]
<1>1. Become(t, r) /\ UNCHANGED <<disk, dir, bat, fptr, odd>>
  BY DEF CloseFile
<1>2. r \in Operation /\ r.pc = "closing" /\ r.what = "close"
  BY IdleType DEF Operation
<1> HIDE DEF r
<1>3. op'[t] = r
  BY <1>1, Types DEF Become
<1>4. Holding(t) /\ Outside(t)
  BY DEF IInv
<1>5. Holding(t)' /\ Outside(t)'
  BY <1>1, <1>2, <1>3, <1>4 DEF Holding, Outside
<1> QED BY <1>1, <1>2, <1>5, Unrecorded, Begins

LEMMA WriteClosedKeeps ==
  ASSUME IInv, NEW t \in Tasks, WriteClosed(t) PROVE IInv'
  BY Unrecorded, EndKeeps DEF WriteClosed

\* A file that is in no task's table is left as it is.
LEMMA KillKeeps ==
  ASSUME IInv, NEW t \in Tasks, Kill(t) PROVE IInv'
<1>1. Grows
  BY Types DEF Kill, LeftBy, Grows, Events
<1>2. Become(t, Idle) /\ UNCHANGED <<dir, bat>> /\ fptr' = [fptr EXCEPT ![t] = NoFile]
  BY DEF Kill
<1>3. CASE disk' = Closed(t)
  BY <1>1, <1>2, <1>3, EndKeeps
<1>4. CASE disk' = disk
  <2>1. op' \in [Tasks -> Operation] /\ op'[t] = Idle /\ \A u \in Tasks : u # t => op'[u] = op[u]
    BY <1>2, IdleType, Types DEF Become
  <2>2. fptr' \in [Tasks -> FileType] /\ fptr'[t] = NoFile /\ \A u \in Tasks : u # t => fptr'[u] = fptr[u]
    BY <1>2, IdleType, Types DEF FileType
  <2>3. NoFile.id \notin bat' /\ TableFree'
    BY <1>1, <1>2, <1>4, IdleType, Types DEF TableFree, Grows
  <2>4. Holding(t)' /\ Outside(t)' /\ op'[t].pc # "set"
    BY <2>1, <2>2, <2>3, IdleHolds
  <2> QED BY <1>1, <1>2, <1>4, <2>1, <2>2, <2>3, <2>4, Types, Preserved
<1> QED BY <1>3, <1>4 DEF Kill

LEMMA RenameFileKeeps ==
  ASSUME IInv, NEW t \in Tasks, NEW n \in Names, NEW m \in Names, RenameFile(t, n, m) PROVE IInv'
<1> DEFINE b == ParsePath(n)
           w == [disk[b] EXCEPT !.name = m]
           r == [Idle EXCEPT !.pc = "rename", !.what = "rename", !.id = b, !.block = w]
<1>0. b \in Blocks
  BY ParsedBlock DEF RenameFile
<1>1. disk[b] \in RawBlock /\ w \in RawBlock /\ w.used = disk[b].used
  BY <1>0, Types DEF RawBlock
<1>2. Become(t, r) /\ UNCHANGED <<disk, dir, bat, fptr, odd>>
  BY DEF RenameFile
<1> HIDE DEF b, w
<1>3. r \in Operation /\ r.pc = "rename" /\ r.what = "rename" /\ r.id = b /\ r.block = w
  BY <1>0, <1>1, IdleType, Constant DEF Operation
<1> HIDE DEF r
<1>4. op'[t] = r
  BY <1>2, Types DEF Become
<1>5. Holding(t) /\ Outside(t)
  BY DEF IInv
<1>6. "table" \notin odd /\ w.used => b \notin bat
  BY <1>1, Types DEF TableFree
<1>7. Holding(t)' /\ Outside(t)'
  BY <1>0, <1>2, <1>3, <1>4, <1>5, <1>6 DEF Holding, Outside
<1> QED BY <1>2, <1>3, <1>7, Unrecorded, Begins

LEMMA RenameKeeps ==
  ASSUME IInv, NEW t \in Tasks, Rename(t) PROVE IInv'
<1> DEFINE b == op[t].id
<1>1. /\ Holding(t) /\ Outside(t) /\ b \in Blocks
      /\ ("table" \notin odd /\ op[t].block.used => b \notin bat)
  BY DEF IInv, Holding, Outside, Rename
<1>2. Grows
  BY Types DEF Rename, Grows, Events
<1>3. op' = [op EXCEPT ![t] = Idle] /\ disk' = [disk EXCEPT ![b] = op[t].block] /\ UNCHANGED <<dir, bat, fptr>>
  BY DEF Rename, Become
<1>4. op' \in [Tasks -> Operation] /\ op'[t] = Idle /\ \A u \in Tasks : u # t => op'[u] = op[u]
  BY <1>3, IdleType, Types
<1>5. disk' \in [Blocks -> RawBlock] /\ TableFree'
  BY <1>1, <1>2, <1>3, Types, WriteKeepsFree
<1>6. Holding(t)' /\ Outside(t)' /\ op'[t].pc # "set"
  BY <1>1, <1>2, <1>3, <1>4, IdleHolds DEF Holding, Outside, Grows
<1> QED BY <1>2, <1>3, <1>4, <1>5, <1>6, Types, Preserved

LEMMA ListDirKeeps ==
  ASSUME IInv, NEW t \in Tasks, NEW k \in Entries, ListDir(t, k) PROVE IInv'
<1> DEFINE kept == {e \in Entries : e > k \/ (dir[e] # INVALID_BLOCK_ID /\ disk[dir[e]].used)}
           d == [e \in Entries |-> IF e \in kept THEN dir[e] ELSE INVALID_BLOCK_ID]
           r == [Idle EXCEPT !.pc = "list", !.what = "list", !.dir = d]
<1>1. Become(t, r) /\ UNCHANGED <<disk, dir, bat, fptr, odd>>
  BY DEF ListDir
<1> HIDE DEF kept
<1>2. d \in DirBlock
  BY Types, Constant DEF DirBlock
<1> HIDE DEF d
<1>3. r \in Operation /\ r.pc = "list" /\ r.what = "list"
  BY <1>2, IdleType DEF Operation
<1> HIDE DEF r
<1>4. op'[t] = r
  BY <1>1, Types DEF Become
<1>5. Holding(t) /\ Outside(t)
  BY DEF IInv
<1>6. Holding(t)' /\ Outside(t)'
  BY <1>1, <1>3, <1>4, <1>5 DEF Holding, Outside
<1> QED BY <1>1, <1>3, <1>6, Unrecorded, Begins

LEMMA DropEntryKeeps ==
  ASSUME IInv, NEW t \in Tasks, NEW e \in Entries, DropEntry(t, e) PROVE IInv'
<1> DEFINE r == [op[t] EXCEPT !.dir[e] = INVALID_BLOCK_ID]
<1>1. Become(t, r) /\ UNCHANGED <<disk, dir, bat, fptr, odd>> /\ op[t].pc = "list"
  BY DEF DropEntry
<1>2. op[t] \in Operation
  BY Types
<1>3. r \in Operation /\ r.pc = "list" /\ r.id = op[t].id /\ r.what = op[t].what
  <2>1. r.dir \in DirBlock
    BY <1>2, Constant DEF Operation, DirBlock
  <2> QED BY <1>1, <1>2, <2>1 DEF Operation
<1> HIDE DEF r
<1>4. op'[t] = r
  BY <1>1, Types DEF Become
<1>5. Holding(t) /\ Outside(t)
  BY DEF IInv
<1>6. Holding(t)' /\ Outside(t)'
  BY <1>1, <1>3, <1>4, <1>5 DEF Holding, Outside
<1> QED BY <1>1, <1>3, <1>6, Unrecorded, Begins

LEMMA RestartKeeps ==
  ASSUME IInv, Restart PROVE IInv'
<1>1. disk' \in [Blocks -> RawBlock]
  <2>0. disk \in [Blocks -> RawBlock]
    BY DEF IInv, TypeOK
  <2>1. \A b \in Blocks : [disk[b] EXCEPT !.lock = FALSE] \in RawBlock
    BY <2>0 DEF RawBlock
  <2> QED BY <2>0, <2>1 DEF Restart, Repaired
<1>2. bat' \subseteq Blocks /\ \A b \in bat' : ~disk'[b].used
  BY FilledFree DEF Restart
<1>3. \A t \in Tasks : op'[t] = Idle /\ fptr'[t] = NoFile
  BY DEF Restart
<1>4. op' \in [Tasks -> Operation] /\ fptr' \in [Tasks -> FileType]
  BY IdleType DEF Restart, FileType
<1>5. odd' \subseteq Events /\ dir' \in DirBlock
  BY DEF IInv, TypeOK, Restart, Events
<1>6. TypeOK'
  BY <1>1, <1>2, <1>4, <1>5 DEF TypeOK, FileType, Events
<1>7. \A t \in Tasks : Holding(t)' /\ Outside(t)'
  BY <1>2, <1>3, IdleType, Ifs1Assumption DEF Holding, Outside
<1>8. BatFree'
  BY <1>2, <1>3, IdleType DEF BatFree
<1> QED BY <1>6, <1>7, <1>8 DEF IInv

LEMMA StepKeeps ==
  ASSUME IInv, NEW t \in Tasks, Step(t) PROVE IInv'
  BY CreateKeeps, DeleteKeeps, OpenKeeps, RenameFileKeeps, ListDirKeeps, DropEntryKeeps, TakeFromBATKeeps,
     ShiftKeeps, ShiftOtherKeeps, ShiftedByOtherKeeps, TakeByScanKeeps, SetBlockKeeps, EnterKeeps, UnuseKeeps,
     ReadDirKeeps, ClearEntryKeeps, RenameKeeps, WriteListKeeps, LockKeeps, RecordKeeps, WriteKeeps,
     FreeBlockKeeps, ForgetKeeps, AppendKeeps, SaveKeeps, CloseFileKeeps, WriteClosedKeeps, KillKeeps DEF Step

LEMMA NextKeeps == IInv /\ [Next]_vars => IInv'
<1> SUFFICES ASSUME IInv, [Next]_vars PROVE IInv'
  OBVIOUS
<1>1. CASE Next
  BY <1>1, RestartKeeps, StepKeeps DEF Next
<1>2. CASE UNCHANGED vars
  BY <1>2 DEF vars, IInv, TypeOK, Holding, Outside, BatFree
<1> QED BY <1>1, <1>2
-----------------------------------------------------------------------------
(* Ordinary histories *)

\* What an operation has read and is about to write.
Prepared(t) ==
  /\ op[t].what = "create" =>
       /\ op[t].pc \in {"take", "shift", "set", "enter"}
       /\ \E n \in Names : op[t].block = NewFile(n)
  /\ op[t].what \in {"write", "append"} =>
       op[t].pc \in {"free", "forget", "take", "shift", "set", "save"} /\ op[t].block = NewData
  /\ op[t].pc = "enter" => op[t].what = "create"
  /\ op[t].pc \in {"unuse", "read", "clear"} => op[t].what = "delete"
  /\ op[t].pc = "list" => op[t].what = "list"
  /\ op[t].pc = "rename" => op[t].block.used /\ op[t].block.type = "file"
  /\ op[t].pc = "unuse" => op[t].block.used /\ ~op[t].block.lock /\ op[t].block.type = "file"
  /\ op[t].pc = "lock" => ~op[t].block.lock /\ op[t].block.type = "file" /\ fptr[t] = NoFile

\* A file that t has open is a file, locked, and t alone has it open.
Opened(t) ==
  fptr[t] # NoFile =>
    LET f == fptr[t].block
        b == fptr[t].id IN
    /\ b \in Files /\ disk[b].lock /\ disk[b].name = f.name
    /\ f.used /\ f.type = "file" /\ f.lock
    /\ \A u \in Tasks : fptr[u].id = b => u = t

\* A file is locked only if somebody has it open.
LocksOpen == \A b \in Files : disk[b].lock => \E t \in Tasks : fptr[t].id = b

\* t has made a file that has no entry yet, and nobody else has.
Entering(t) ==
  op[t].pc = "enter" =>
    /\ op[t].id \in Files /\ disk[op[t].id].name = op[t].block.name
    /\ \A e \in Entries : dir[e] # op[t].id
    /\ \A u \in Tasks : op[u].pc = "enter" /\ op[u].id = op[t].id => u = t

\* t has deleted a file, and nobody else has, nor made another in its block.
Deleting(t) ==
  op[t].pc \in {"read", "clear"} =>
    /\ ~disk[op[t].id].used
    /\ \A u \in Tasks : op[u].pc \in {"read", "clear"} /\ op[u].id = op[t].id => u = t

\* A copy of the directory is out of date only if it is known to be, and until
\* then a listing drops no file's entry, and no file has the name that t creates.
InTime(t) ==
  ~op[t].late =>
    /\ op[t].what = "create" \/ op[t].pc = "clear" => op[t].dir = dir
    /\ op[t].pc = "list" =>
         \A e \in Entries : op[t].dir[e] = dir[e] \/ (op[t].dir[e] = INVALID_BLOCK_ID /\ dir[e] \notin Files)
    /\ op[t].what = "create" =>
         \A e \in Entries : dir[e] \in Files => disk[dir[e]].name # op[t].block.name

\* The directory and the files, with the operations that are between them.
Listed ==
  /\ \A e \in Entries : dir[e] # INVALID_BLOCK_ID =>
       dir[e] \in Files \/ \E t \in Tasks : op[t].pc \in {"read", "clear"} /\ op[t].id = dir[e]
  /\ \A e, f \in Entries : dir[e] # INVALID_BLOCK_ID /\ dir[e] = dir[f] => e = f
  /\ \A e, f \in Entries :
       dir[e] \in Files /\ dir[f] \in Files /\ disk[dir[e]].name = disk[dir[f]].name => e = f
  /\ \A b \in Files : (\E e \in Entries : dir[e] = b)
                      \/ \E t \in Tasks : op[t].pc = "enter" /\ op[t].id = b

\* t has freed the i-th block of its file, which still names it.
Dropping(t, i) == op[t].pc = "forget" /\ i = First(Holds(fptr[t].block))

\* The file b has x as its i-th block: in the copy of the task that has it open,
\* or on the disk, unless it is just being written from the start.
Claims(b, i, x) ==
  /\ b \in Files /\ x # INVALID_BLOCK_ID
  /\ \/ \E t \in Tasks : fptr[t].id = b /\ fptr[t].block.blockids[i] = x /\ ~Dropping(t, i)
     \/ /\ disk[b].blockids[i] = x
        /\ \A t \in Tasks : fptr[t].id = b => op[t].what # "write"

\* No block is claimed twice, and none that is claimed is free.
Claimed ==
  \A b \in Blocks, i \in Indexes, x \in Blocks : Claims(b, i, x) =>
    /\ disk[x].used /\ disk[x].type = "data"
    /\ \A c \in Blocks, j \in Indexes : Claims(c, j, x) => b = c /\ i = j

DirPart == Listed /\ \A t \in Tasks : Entering(t) /\ Deleting(t) /\ InTime(t)
FilePart == LocksOpen /\ Claimed /\ \A t \in Tasks : Prepared(t) /\ Opened(t)

\* A step of t that leaves the directory, and which blocks are files of which
\* name, as they are, and neither begins nor ends with an entry missing.
LEMMA SameFiles ==
  ASSUME IInv, DirPart, NEW t \in Tasks, dir' = dir, Files' = Files,
         \A b \in Files : disk'[b].name = disk[b].name,
         \A b \in Blocks : ~disk[b].used /\ (\E u \in Tasks : op[u].pc \in {"read", "clear"} /\ op[u].id = b)
                          => ~disk'[b].used,
         \A u \in Tasks : u # t => op'[u] = op[u],
         op[t].pc # "enter", op'[t].pc # "enter",
         op'[t].pc \in {"read", "clear"} <=> op[t].pc \in {"read", "clear"},
         op[t].pc \in {"read", "clear"} => op'[t].id = op[t].id,
         InTime(t)'
  PROVE  DirPart'
<1>1. ASSUME NEW u \in Tasks PROVE Entering(u)'
  BY DEF DirPart, Entering
<1>2. ASSUME NEW u \in Tasks PROVE Deleting(u)'
  <2>1. op[u].pc \in {"read", "clear"} => op[u].id \in Blocks
    BY DEF IInv, Holding
  <2> QED BY <2>1 DEF DirPart, Deleting
<1>3. ASSUME NEW u \in Tasks PROVE InTime(u)'
  BY DEF DirPart, InTime
<1>4. Listed'
  BY DEF DirPart, Listed
<1> QED BY <1>1, <1>2, <1>3, <1>4 DEF DirPart

\* A step of t that writes neither files nor copies of them.
LEMMA SameBlocks ==
  ASSUME FilePart, NEW t \in Tasks, disk' = disk, fptr' = fptr,
         \A u \in Tasks : u # t => /\ op'[u].pc = op[u].pc /\ op'[u].what = op[u].what
                                  /\ op'[u].block = op[u].block,
         op[t].what = "write" => op'[t].what = "write", op[t].pc # "forget",
         Prepared(t)'
  PROVE  FilePart'
<1>0. Files' = Files
  BY DEF Files
<1>1. ASSUME NEW u \in Tasks PROVE Prepared(u)'
  BY DEF FilePart, Prepared
<1>2. ASSUME NEW u \in Tasks PROVE Opened(u)'
  BY <1>0 DEF FilePart, Opened
<1>3. LocksOpen'
  BY <1>0 DEF FilePart, LocksOpen
<1>4. ASSUME NEW b, NEW i, NEW x, Claims(b, i, x)' PROVE Claims(b, i, x)
  BY <1>0, <1>4 DEF Claims, Dropping
<1>5. Claimed'
  BY <1>4 DEF FilePart, Claimed
<1> QED BY <1>1, <1>2, <1>3, <1>5 DEF FilePart

\* A step that only moves t on in its operation.
LEMMA Moves ==
  ASSUME IInv, DirPart, FilePart, NEW t \in Tasks, NEW r, Become(t, r),
         UNCHANGED <<disk, dir, fptr>>,
         op[t].pc \notin {"enter", "forget"}, r.pc # "enter",
         r.pc \in {"read", "clear"} <=> op[t].pc \in {"read", "clear"},
         op[t].pc \in {"read", "clear"} => r.id = op[t].id,
         op[t].what = "write" => r.what = "write",
         Prepared(t)', InTime(t)'
  PROVE  DirPart' /\ FilePart'
<1>1. op'[t] = r /\ \A u \in Tasks : u # t => op'[u] = op[u]
  BY Types DEF Become
<1>2. Files' = Files
  BY DEF Files
<1> QED BY <1>1, <1>2, SameFiles, SameBlocks

\* A task that does nothing has prepared nothing.
LEMMA IdlePrepared ==
  ASSUME NEW t \in Tasks, op'[t] = Idle PROVE Prepared(t)' /\ InTime(t)'
<1>1. op'[t].pc = "idle" /\ op'[t].what \notin {"create", "delete", "rename", "list", "open", "write", "append", "close"}
  BY IdleType, Ifs1Assumption
<1> QED BY <1>1 DEF Prepared, InTime

LEMMA CreateOrder ==
  ASSUME IInv, DirPart, FilePart, NEW t \in Tasks, NEW n \in Names, CreateFile(t, n)
  PROVE  DirPart' /\ FilePart'
<1> DEFINE r == [Idle EXCEPT !.pc = "take", !.what = "create", !.block = NewFile(n), !.dir = dir]
<1>1. /\ r.pc = "take" /\ r.what = "create" /\ r.block = NewFile(n) /\ r.dir = dir
  BY DEF Idle
<1>2. Become(t, r) /\ UNCHANGED <<disk, dir, fptr>> /\ op[t] = Idle
  BY DEF CreateFile
<1> HIDE DEF r
<1>3. op'[t] = r /\ op[t].pc = "idle" /\ op[t].what # "write"
  BY <1>2, Types, IdleType, Ifs1Assumption DEF Become
<1>4. Prepared(t)'
  BY <1>1, <1>3 DEF Prepared
<1>5. NewFile(n).name = n
  BY DEF NewFile
<1>6. Files' = Files
  BY <1>2 DEF Files
<1>7. ASSUME NEW e \in Entries, dir[e] \in Files PROVE disk[dir[e]].name # n
  <2>1. dir[e] \in Blocks /\ disk[dir[e]].used /\ disk[dir[e]].type = "file"
    BY <1>7 DEF Files
  <2>2. dir[e] # INVALID_BLOCK_ID
    BY <2>1, Constant
  <2> QED BY <2>1, <2>2 DEF CreateFile, FileExists, Entered
<1>8. InTime(t)'
  BY <1>1, <1>2, <1>3, <1>5, <1>6, <1>7 DEF InTime
<1> QED BY <1>1, <1>2, <1>3, <1>4, <1>8, Moves

LEMMA DeleteOrder ==
  ASSUME IInv, DirPart, FilePart, NEW t \in Tasks, NEW n \in Names, DeleteFile(t, n)
  PROVE  DirPart' /\ FilePart'
<1> DEFINE b == ParsePath(n)
           r == [Idle EXCEPT !.pc = "unuse", !.what = "delete", !.id = b, !.block = disk[b]]
<1>1. r.pc = "unuse" /\ r.what = "delete" /\ r.block = disk[b]
  BY DEF Idle
<1>2. /\ Become(t, r) /\ UNCHANGED <<disk, dir, fptr>> /\ op[t] = Idle
      /\ disk[b].used /\ ~disk[b].lock /\ disk[b].type = "file"
  BY ParsedBlock DEF DeleteFile, Deletable
<1> HIDE DEF r, b
<1>3. op'[t] = r /\ op[t].pc = "idle" /\ op[t].what # "write"
  BY <1>2, Types, IdleType, Ifs1Assumption DEF Become
<1>4. Prepared(t)' /\ InTime(t)'
  BY <1>1, <1>2, <1>3 DEF Prepared, InTime
<1> QED BY <1>1, <1>2, <1>3, <1>4, Moves

LEMMA OpenOrder ==
  ASSUME IInv, DirPart, FilePart, NEW t \in Tasks, NEW n \in Names, OpenFile(t, n)
  PROVE  DirPart' /\ FilePart'
<1> DEFINE b == ParsePath(n)
           r == [Idle EXCEPT !.pc = "lock", !.what = "open", !.id = b, !.block = disk[b]]
<1>1. r.pc = "lock" /\ r.what = "open" /\ r.block = disk[b]
  BY DEF Idle
<1>2. /\ Become(t, r) /\ UNCHANGED <<disk, dir, fptr>> /\ op[t] = Idle
      /\ ~disk[b].lock /\ disk[b].type = "file" /\ fptr[t] = NoFile
  BY ParsedBlock DEF OpenFile, Openable
<1> HIDE DEF r, b
<1>3. op'[t] = r /\ op[t].pc = "idle" /\ op[t].what # "write"
  BY <1>2, Types, IdleType, Ifs1Assumption DEF Become
<1>4. Prepared(t)' /\ InTime(t)'
  BY <1>1, <1>2, <1>3 DEF Prepared, InTime
<1> QED BY <1>1, <1>2, <1>3, <1>4, Moves

LEMMA AppendOrder ==
  ASSUME IInv, DirPart, FilePart, NEW t \in Tasks, AppendFile(t)
  PROVE  DirPart' /\ FilePart'
<1> DEFINE n == fptr[t].block.length + 1
           q == [Idle EXCEPT !.what = "append", !.todo = <<n>>, !.length = n]
           r == GoOn(q)
<1>0. n \in Indexes /\ n \in 0 .. FileSize
  BY Types, Ifs1Assumption DEF AppendFile, RawBlock, Indexes
<1> HIDE DEF n
<1>1. q \in Operation /\ q.what = "append" /\ q.block = NewData
  <2>1. <<n>> \in Seq(Indexes)
    BY <1>0
  <2>2. Idle.block = NewData
    BY DEF Idle
  <2> QED BY <1>0, <2>1, <2>2, IdleType DEF Operation
<1>2. Become(t, r) /\ UNCHANGED <<disk, dir, fptr>> /\ op[t] = Idle
  BY DEF AppendFile, n
<1> HIDE DEF q
<1>3. r.what = "append" /\ r.pc \in {"save", "take"} /\ r.block = NewData
  BY <1>1, GoOnType
<1> HIDE DEF r
<1>4. op'[t] = r /\ op[t].pc = "idle" /\ op[t].what # "write"
  BY <1>2, Types, IdleType, Ifs1Assumption DEF Become
<1>5. Prepared(t)' /\ InTime(t)'
  BY <1>3, <1>4 DEF Prepared, InTime
<1> QED BY <1>2, <1>3, <1>4, <1>5, Moves

LEMMA FoundOrder ==
  ASSUME IInv, DirPart, FilePart, NEW t \in Tasks, NEW b, op[t].pc \in {"take", "shift"}, Found(t, b)
  PROVE  DirPart' /\ FilePart'
<1> DEFINE r == [op[t] EXCEPT !.pc = "set", !.id = b]
<1>1. /\ r.pc = "set" /\ r.what = op[t].what /\ r.block = op[t].block
      /\ r.dir = op[t].dir /\ r.late = op[t].late
  BY Types DEF Operation
<1>2. Become(t, r) /\ UNCHANGED <<disk, dir, fptr>>
  BY DEF Found
<1> HIDE DEF r
<1>3. op'[t] = r /\ Files' = Files
  BY <1>2, Types DEF Become, Files
<1>4. Prepared(t)'
  BY <1>1, <1>2, <1>3 DEF FilePart, Prepared
<1>5. InTime(t)'
  BY <1>1, <1>2, <1>3 DEF DirPart, InTime
<1> QED BY <1>1, <1>2, <1>4, <1>5, Moves

LEMMA AddFailsOrder ==
  ASSUME IInv, DirPart, FilePart, NEW t \in Tasks, op[t].pc \in {"take", "shift"}, AddFails(t)
  PROVE  DirPart' /\ FilePart'
<1>0. UNCHANGED <<disk, dir, fptr>>
  BY DEF AddFails
<1>1. CASE op[t].what = "write"
  <2> DEFINE q == [op[t] EXCEPT !.todo = Tail(@)]
             r == GoOn(q)
  <2>1. q \in Operation /\ q.what = "write" /\ q.block = NewData
    <3>1. op[t].todo # <<>> /\ op[t].block = NewData /\ op[t] \in Operation
      BY <1>1, Types DEF IInv, Holding, FilePart, Prepared
    <3>2. Tail(op[t].todo) \in Seq(Indexes)
      BY <3>1 DEF Operation
    <3> QED BY <1>1, <3>1, <3>2 DEF Operation
  <2>2. Become(t, r)
    BY <1>1 DEF AddFails
  <2> HIDE DEF q
  <2>3. r.what = "write" /\ r.pc \in {"save", "take"} /\ r.block = NewData
    BY <2>1, GoOnType
  <2> HIDE DEF r
  <2>4. op'[t] = r
    BY <2>2, Types DEF Become
  <2>5. Prepared(t)' /\ InTime(t)'
    BY <2>3, <2>4 DEF Prepared, InTime
  <2> QED BY <1>0, <2>2, <2>3, <2>5, Moves
<1>2. CASE op[t].what # "write"
  <2>1. Become(t, Idle)
    BY <1>2 DEF AddFails
  <2>2. op'[t] = Idle /\ Idle.pc = "idle"
    BY <2>1, Types, IdleType DEF Become
  <2> QED BY <1>0, <1>2, <2>1, <2>2, IdlePrepared, Moves
<1> QED BY <1>1, <1>2

LEMMA TakeOrder ==
  ASSUME IInv, DirPart, FilePart, NEW t \in Tasks, Shift(t) \/ ShiftOther(t) \/ TakeByScan(t)
  PROVE  DirPart' /\ FilePart'
<1>1. op[t].pc \in {"take", "shift"} /\ (AddFails(t) \/ \E b : Found(t, b))
  BY DEF Shift, ShiftOther, Taken, TakeByScan
<1> QED BY <1>1, FoundOrder, AddFailsOrder

LEMMA TakeFromBATOrder ==
  ASSUME IInv, DirPart, FilePart, NEW t \in Tasks, TakeFromBAT(t)
  PROVE  DirPart' /\ FilePart'
<1> DEFINE r == [op[t] EXCEPT !.pc = "shift", !.id = First(bat)]
<1>1. /\ r.pc = "shift" /\ r.what = op[t].what /\ r.block = op[t].block
      /\ r.dir = op[t].dir /\ r.late = op[t].late
  BY Types DEF Operation
<1>2. Become(t, r) /\ UNCHANGED <<disk, dir, fptr>> /\ op[t].pc = "take"
  BY DEF TakeFromBAT
<1> HIDE DEF r
<1>3. op'[t] = r /\ Files' = Files
  BY <1>2, Types DEF Become, Files
<1>4. Prepared(t)'
  BY <1>1, <1>2, <1>3 DEF FilePart, Prepared
<1>5. InTime(t)'
  BY <1>1, <1>2, <1>3 DEF DirPart, InTime
<1> QED BY <1>1, <1>2, <1>4, <1>5, Moves

LEMMA ReadDirOrder ==
  ASSUME IInv, DirPart, FilePart, NEW t \in Tasks, ReadDir(t)
  PROVE  DirPart' /\ FilePart'
<1> DEFINE r == [op[t] EXCEPT !.pc = "clear", !.dir = dir, !.late = FALSE]
<1>1. r.pc = "clear" /\ r.id = op[t].id /\ r.what = op[t].what /\ r.dir = dir
  BY Types DEF Operation
<1>2. Become(t, r) /\ UNCHANGED <<disk, dir, fptr>> /\ op[t].pc = "read"
  BY DEF ReadDir
<1> HIDE DEF r
<1>3. op'[t] = r /\ op[t].what = "delete"
  BY <1>2, Types DEF Become, FilePart, Prepared
<1>4. Prepared(t)' /\ InTime(t)'
  BY <1>1, <1>2, <1>3 DEF Prepared, InTime
<1> QED BY <1>1, <1>2, <1>3, <1>4, Moves

\* What writing the directory makes of the operations, if it was not out of date.
LEMMA WrittenOps ==
  ASSUME IInv, FilePart, NEW t \in Tasks, Written(t), odd' = {}
  PROVE  /\ ~op[t].late /\ op'[t] = Idle /\ op'[t].pc = "idle"
         /\ \A u \in Tasks : u # t => /\ op'[u].pc = op[u].pc /\ op'[u].what = op[u].what
                                     /\ op'[u].id = op[u].id /\ op'[u].block = op[u].block
                                     /\ (dir' = dir => op'[u] = op[u])
                                     /\ (dir' # dir /\ op[u].what \in {"create", "delete", "list"}
                                          => op'[u].late = TRUE)
<1>1. ~op[t].late /\ op'[t] = Idle /\ op'[t].pc = "idle"
  BY IdleType DEF Written
<1>2. ASSUME NEW u \in Tasks, u # t
      PROVE  /\ op'[u].pc = op[u].pc /\ op'[u].what = op[u].what
             /\ op'[u].id = op[u].id /\ op'[u].block = op[u].block
             /\ (dir' = dir => op'[u] = op[u])
             /\ (dir' # dir /\ op[u].what \in {"create", "delete", "list"} => op'[u].late = TRUE)
  <2>1. op[u] \in Operation
    BY Types
  <2>2. op'[u] = IF op[u].what \in {"create", "delete", "list"} /\ dir' # dir
                 THEN [op[u] EXCEPT !.late = TRUE] ELSE op[u]
    BY <1>2 DEF Written
  <2> QED BY <2>1, <2>2 DEF Operation
<1> QED BY <1>1, <1>2

LEMMA WrittenInTime ==
  ASSUME IInv, DirPart, FilePart, NEW t \in Tasks, Written(t), odd' = {}, disk' = disk, NEW u \in Tasks
  PROVE  InTime(u)'
<1>1. CASE u = t
  BY <1>1, WrittenOps, IdlePrepared
<1>2. CASE u # t /\ dir' # dir
  <2>1. /\ op'[u].pc = op[u].pc /\ op'[u].what = op[u].what
        /\ (op[u].what \in {"create", "delete", "list"} => op'[u].late = TRUE)
    BY <1>2, WrittenOps
  <2> QED BY <2>1 DEF InTime, FilePart, Prepared
<1>3. CASE u # t /\ dir' = dir
  <2>1. op'[u] = op[u] /\ Files' = Files
    BY <1>3, WrittenOps DEF Files
  <2> QED BY <1>3, <2>1 DEF InTime, DirPart
<1> QED BY <1>1, <1>2, <1>3

LEMMA EnterOrder ==
  ASSUME IInv, DirPart, FilePart, NEW t \in Tasks, Enter(t), odd' = {}
  PROVE  DirPart' /\ FilePart'
<1> DEFINE b == op[t].id
           W(u) == /\ op'[u].pc = op[u].pc /\ op'[u].what = op[u].what
                   /\ op'[u].id = op[u].id /\ op'[u].block = op[u].block
<1>1. PICK e \in Entries : /\ op[t].dir[e] = INVALID_BLOCK_ID
                           /\ dir' = [op[t].dir EXCEPT ![e] = b] /\ Written(t)
  BY DEF Enter
<1>2. /\ op[t].pc = "enter" /\ UNCHANGED <<disk, fptr>> /\ Files' = Files
      /\ op[t].what = "create" /\ b \in Blocks
  <2>1. op[t].pc = "enter" /\ UNCHANGED <<disk, fptr>>
    BY DEF Enter
  <2>2. Holding(t) /\ Prepared(t)
    BY DEF FilePart, IInv
  <2> QED BY <2>1, <2>2 DEF Holding, Prepared, Files
<1>3. /\ ~op[t].late /\ op'[t].pc = "idle" /\ \A u \in Tasks : u # t => W(u)
      /\ op'[t] = Idle
  BY <1>1, WrittenOps
<1>4. op[t].dir = dir /\ dir \in DirBlock
  BY <1>2, <1>3, Types DEF DirPart, InTime
<1>5. dir[e] = INVALID_BLOCK_ID /\ dir'[e] = b /\ \A f \in Entries : f # e => dir'[f] = dir[f]
  BY <1>1, <1>4 DEF DirBlock
<1>6. /\ b \in Files /\ disk[b].name = op[t].block.name
      /\ \A f \in Entries : dir[f] # b
      /\ \A u \in Tasks : op[u].pc = "enter" /\ op[u].id = b => u = t
      /\ \A f \in Entries : dir[f] \in Files => disk[dir[f]].name # disk[b].name
  BY <1>2, <1>3 DEF DirPart, Entering, InTime
<1>7. INVALID_BLOCK_ID \notin Files
  BY Constant DEF Files
<1>8. ASSUME NEW u \in Tasks PROVE Entering(u)' /\ Deleting(u)'
  <2>1. Holding(u) /\ Entering(u) /\ Deleting(u)
    BY DEF IInv, DirPart
  <2>2. CASE u = t
    BY <1>3, <2>2 DEF Entering, Deleting
  <2>3. CASE u # t
    <3>1. Entering(u)'
      BY <1>2, <1>3, <1>5, <1>6, <2>1, <2>3 DEF Entering
    <3>2. Deleting(u)'
      <4>1. SUFFICES ASSUME op[u].pc \in {"read", "clear"} PROVE Deleting(u)'
        BY <1>3, <2>3 DEF Deleting
      <4>2. op[u].id # INVALID_BLOCK_ID
        BY <2>1, <4>1, Constant DEF Holding
      <4> QED BY <1>2, <1>3, <1>5, <2>1, <2>3, <4>1, <4>2 DEF Deleting
    <3> QED BY <3>1, <3>2
  <2> QED BY <2>2, <2>3
<1>9. Listed'
  <2>1. Listed
    BY DEF DirPart
  <2>2. ASSUME NEW f \in Entries, dir'[f] # INVALID_BLOCK_ID
        PROVE  \/ dir'[f] \in Files'
               \/ \E u \in Tasks : op'[u].pc \in {"read", "clear"} /\ op'[u].id = dir'[f]
    <3>1. CASE f = e
      BY <1>2, <1>5, <1>6, <3>1
    <3>2. CASE f # e
      BY <1>2, <1>3, <1>5, <2>1, <2>2, <3>2 DEF Listed
    <3> QED BY <3>1, <3>2
  <2>3. \A f, g \in Entries : dir'[f] # INVALID_BLOCK_ID /\ dir'[f] = dir'[g] => f = g
    BY <1>5, <1>6, <2>1 DEF Listed
  <2>4. \A f, g \in Entries :
          dir'[f] \in Files' /\ dir'[g] \in Files' /\ disk'[dir'[f]].name = disk'[dir'[g]].name => f = g
    BY <1>2, <1>5, <1>6, <2>1 DEF Listed
  <2>5. ASSUME NEW c \in Files'
        PROVE  (\E f \in Entries : dir'[f] = c) \/ \E u \in Tasks : op'[u].pc = "enter" /\ op'[u].id = c
    BY <1>2, <1>3, <1>5, <1>7, <2>1 DEF Listed
  <2> QED BY <2>2, <2>3, <2>4, <2>5 DEF Listed
<1>10. Prepared(t)'
  BY <1>3, IdlePrepared
<1>11. \A u \in Tasks : InTime(u)'
  BY <1>1, <1>2, WrittenInTime
<1> QED BY <1>2, <1>3, <1>8, <1>9, <1>10, <1>11, SameBlocks DEF DirPart

LEMMA ClearEntryOrder ==
  ASSUME IInv, DirPart, FilePart, NEW t \in Tasks, ClearEntry(t), odd' = {}
  PROVE  DirPart' /\ FilePart'
<1> DEFINE b == op[t].id
           W(u) == /\ op'[u].pc = op[u].pc /\ op'[u].what = op[u].what
                   /\ op'[u].id = op[u].id /\ op'[u].block = op[u].block
<1>1. /\ op[t].pc = "clear" /\ Written(t) /\ UNCHANGED <<disk, fptr>> /\ Files' = Files
      /\ op[t].what = "delete" /\ b \in Blocks
  <2>1. op[t].pc = "clear" /\ Written(t) /\ UNCHANGED <<disk, fptr>>
    BY DEF ClearEntry
  <2>2. Holding(t) /\ Prepared(t)
    BY DEF FilePart, IInv
  <2> QED BY <2>1, <2>2 DEF Holding, Prepared, Files
<1>2. /\ ~op[t].late /\ op'[t].pc = "idle" /\ \A u \in Tasks : u # t => W(u)
      /\ op'[t] = Idle
  BY <1>1, WrittenOps
<1>3. op[t].dir = dir /\ dir \in DirBlock
  BY <1>1, <1>2, Types DEF DirPart, InTime
<1>4. /\ ~disk[b].used /\ b # INVALID_BLOCK_ID /\ b \notin Files
      /\ \A u \in Tasks : op[u].pc \in {"read", "clear"} /\ op[u].id = b => u = t
  BY <1>1, Constant DEF DirPart, Deleting, Files
<1>5. \A f \in Entries : dir'[f] = IF dir[f] = b THEN INVALID_BLOCK_ID ELSE dir[f]
  <2>1. \A f, g \in Entries : dir[f] = b /\ dir[g] = b => f = g
    BY <1>4 DEF DirPart, Listed
  <2>2. \A f \in Entries : f <= f
    BY Ifs1Assumption DEF Entries
  <2> QED BY <1>3, <2>1, <2>2 DEF ClearEntry
<1>6. INVALID_BLOCK_ID \notin Files
  BY Constant DEF Files
<1>7. ASSUME NEW u \in Tasks PROVE Entering(u)' /\ Deleting(u)'
  <2>1. Holding(u) /\ Entering(u) /\ Deleting(u)
    BY DEF IInv, DirPart
  <2>2. CASE u = t
    BY <1>2, <2>2 DEF Entering, Deleting
  <2>3. CASE u # t
    <3>1. Entering(u)'
      BY <1>1, <1>2, <1>5, <1>6, <2>1, <2>3 DEF Entering
    <3>2. Deleting(u)'
      BY <1>1, <1>2, <1>4, <1>5, <2>1, <2>3 DEF Deleting
    <3> QED BY <3>1, <3>2
  <2> QED BY <2>2, <2>3
<1>8. Listed'
  <2>1. Listed
    BY DEF DirPart
  <2>2. ASSUME NEW f \in Entries, dir'[f] # INVALID_BLOCK_ID
        PROVE  \/ dir'[f] \in Files'
               \/ \E u \in Tasks : op'[u].pc \in {"read", "clear"} /\ op'[u].id = dir'[f]
    BY <1>1, <1>2, <1>5, <2>1, <2>2 DEF Listed
  <2>3. \A f, g \in Entries : dir'[f] # INVALID_BLOCK_ID /\ dir'[f] = dir'[g] => f = g
    BY <1>5, <2>1 DEF Listed
  <2>4. \A f, g \in Entries :
          dir'[f] \in Files' /\ dir'[g] \in Files' /\ disk'[dir'[f]].name = disk'[dir'[g]].name => f = g
    BY <1>1, <1>5, <1>6, <2>1 DEF Listed
  <2>5. ASSUME NEW c \in Files'
        PROVE  (\E f \in Entries : dir'[f] = c) \/ \E u \in Tasks : op'[u].pc = "enter" /\ op'[u].id = c
    BY <1>1, <1>2, <1>4, <1>5, <2>1 DEF Listed
  <2> QED BY <2>2, <2>3, <2>4, <2>5 DEF Listed
<1>9. Prepared(t)'
  BY <1>2, IdlePrepared
<1>10. \A u \in Tasks : InTime(u)'
  BY <1>1, WrittenInTime
<1> QED BY <1>1, <1>2, <1>7, <1>8, <1>9, <1>10, SameBlocks DEF DirPart

\* A listing that is in time only drops entries of files that are being deleted.
LEMMA WriteListOrder ==
  ASSUME IInv, DirPart, FilePart, NEW t \in Tasks, WriteList(t), odd' = {}
  PROVE  DirPart' /\ FilePart'
<1> DEFINE W(u) == /\ op'[u].pc = op[u].pc /\ op'[u].what = op[u].what
                   /\ op'[u].id = op[u].id /\ op'[u].block = op[u].block
<1>1. /\ op[t].pc = "list" /\ Written(t) /\ UNCHANGED <<disk, fptr>> /\ Files' = Files
      /\ dir' = op[t].dir /\ op[t].what = "list"
  BY DEF WriteList, Files, FilePart, Prepared
<1>2. /\ ~op[t].late /\ op'[t].pc = "idle" /\ \A u \in Tasks : u # t => W(u)
      /\ op'[t] = Idle
  BY <1>1, WrittenOps
<1>3. \A f \in Entries : dir'[f] = dir[f] \/ (dir'[f] = INVALID_BLOCK_ID /\ dir[f] \notin Files)
  BY <1>1, <1>2 DEF DirPart, InTime
<1>4. INVALID_BLOCK_ID \notin Files
  BY Constant DEF Files
<1>5. ASSUME NEW u \in Tasks PROVE Entering(u)' /\ Deleting(u)'
  <2>1. Holding(u) /\ Entering(u) /\ Deleting(u)
    BY DEF IInv, DirPart
  <2>2. CASE u = t
    BY <1>2, <2>2 DEF Entering, Deleting
  <2>3. CASE u # t
    <3>1. Entering(u)'
      BY <1>1, <1>2, <1>3, <1>4, <2>1, <2>3 DEF Entering
    <3>2. Deleting(u)'
      BY <1>1, <1>2, <2>1, <2>3 DEF Deleting
    <3> QED BY <3>1, <3>2
  <2> QED BY <2>2, <2>3
<1>6. Listed'
  <2>1. Listed
    BY DEF DirPart
  <2>2. ASSUME NEW f \in Entries, dir'[f] # INVALID_BLOCK_ID
        PROVE  \/ dir'[f] \in Files'
               \/ \E u \in Tasks : op'[u].pc \in {"read", "clear"} /\ op'[u].id = dir'[f]
    BY <1>1, <1>2, <1>3, <2>1, <2>2 DEF Listed
  <2>3. \A f, g \in Entries : dir'[f] # INVALID_BLOCK_ID /\ dir'[f] = dir'[g] => f = g
    BY <1>3, <2>1 DEF Listed
  <2>4. \A f, g \in Entries :
          dir'[f] \in Files' /\ dir'[g] \in Files' /\ disk'[dir'[f]].name = disk'[dir'[g]].name => f = g
    BY <1>1, <1>3, <1>4, <2>1 DEF Listed
  <2>5. ASSUME NEW c \in Files'
        PROVE  (\E f \in Entries : dir'[f] = c) \/ \E u \in Tasks : op'[u].pc = "enter" /\ op'[u].id = c
    BY <1>1, <1>2, <1>3, <2>1 DEF Listed
  <2> QED BY <2>2, <2>3, <2>4, <2>5 DEF Listed
<1>7. Prepared(t)'
  BY <1>2, IdlePrepared
<1>8. \A u \in Tasks : InTime(u)'
  BY <1>1, WrittenInTime
<1> QED BY <1>1, <1>2, <1>5, <1>6, <1>7, <1>8, SameBlocks DEF DirPart

\* Who has a file open has not none, and it is a file.
LEMMA OpenIsFile ==
  ASSUME FilePart, NEW t \in Tasks, fptr[t].id \in Blocks
  PROVE  fptr[t] # NoFile /\ fptr[t].id \in Files
<1>1. fptr[t] # NoFile
  BY IdleType
<1> QED BY <1>1 DEF FilePart, Opened

\* A free block that no entry has becomes a file...
LEMMA SetFileOrder ==
  ASSUME IInv, DirPart, FilePart, NEW t \in Tasks, SetBlock(t), odd' = {}, op[t].what = "create"
  PROVE  DirPart' /\ FilePart'
<1> DEFINE b == op[t].id
           r == [op[t] EXCEPT !.pc = "enter"]
           w == op[t].block
<1>1. /\ op[t].pc = "set" /\ op' = [op EXCEPT ![t] = r] /\ UNCHANGED <<fptr, dir>>
      /\ disk' = [disk EXCEPT ![b] = w]
      /\ ~disk[b].used /\ \A e \in Entries : dir[e] # b
      /\ \A u \in Tasks : op[u].pc \in {"read", "clear"} => op[u].id # b
  BY DEF SetBlock, Become
<1>2. b \in Blocks
  BY <1>1 DEF IInv, Holding
<1>3. /\ r.pc = "enter" /\ r.id = b /\ r.what = "create" /\ r.block = w
      /\ r.late = op[t].late /\ r.dir = op[t].dir
  BY Types DEF Operation
<1>4. w.used /\ w.type = "file" /\ ~w.lock /\ w.blockids = NoBlocks
      /\ \E n \in Names : w = NewFile(n)
  <2>1. PICK n \in Names : w = NewFile(n)
    BY DEF FilePart, Prepared
  <2>2. /\ NewFile(n).used = TRUE /\ NewFile(n).type = "file" /\ NewFile(n).lock = FALSE
        /\ NewFile(n).blockids = NoBlocks
    BY DEF NewFile
  <2> QED BY <2>1, <2>2
<1> HIDE DEF r, w
<1>5. op'[t] = r /\ \A u \in Tasks : u # t => op'[u] = op[u]
  BY <1>1, Types
<1>6. disk'[b] = w /\ \A c \in Blocks : c # b => disk'[c] = disk[c]
  BY <1>1, <1>2, Types
<1>7. Files' = Files \cup {b} /\ b \notin Files /\ Files \subseteq Blocks
  BY <1>1, <1>2, <1>4, <1>6 DEF Files
<1>8. \A u \in Tasks : fptr[u].id # b
  BY <1>2, <1>7, OpenIsFile
<1>9. ASSUME NEW u \in Tasks PROVE Prepared(u)' /\ Opened(u)'
  <2>1. Prepared(u)'
    BY <1>1, <1>3, <1>4, <1>5 DEF FilePart, Prepared
  <2>2. Opened(u)'
    BY <1>1, <1>6, <1>7, <1>8 DEF FilePart, Opened
  <2> QED BY <2>1, <2>2
<1>10. LocksOpen'
  BY <1>1, <1>4, <1>6, <1>7 DEF FilePart, LocksOpen
<1>11. Claimed'
  <2>1. ASSUME NEW c \in Blocks, NEW i \in Indexes, NEW x \in Blocks, Claims(c, i, x)'
        PROVE  Claims(c, i, x)
    <3>1. c # b
      <4>1. NoBlocks[i] = INVALID_BLOCK_ID
        BY DEF NoBlocks
      <4> QED BY <1>1, <1>4, <1>6, <1>8, <2>1, <4>1 DEF Claims, Dropping
    <3> QED BY <1>1, <1>3, <1>5, <1>6, <1>7, <2>1, <3>1 DEF Claims, Dropping
  <2>2. \A x \in Blocks : disk[x].used => disk'[x] = disk[x]
    BY <1>1, <1>6
  <2> QED BY <2>1, <2>2 DEF FilePart, Claimed
<1>12. ASSUME NEW u \in Tasks PROVE Entering(u)' /\ Deleting(u)' /\ InTime(u)'
  <2>0. Entering(u) /\ Deleting(u) /\ InTime(u) /\ Holding(u)
    BY DEF DirPart, IInv
  <2>1. \A v \in Tasks : v # t /\ op[v].pc = "enter" => op[v].id # b
    BY <1>7 DEF DirPart, Entering
  <2>2. Entering(u)'
    BY <1>1, <1>3, <1>5, <1>6, <1>7, <2>0, <2>1 DEF Entering
  <2>3. Deleting(u)'
    BY <1>1, <1>3, <1>5, <1>6, <2>0 DEF Deleting, Holding
  <2>4. \A e \in Entries : dir[e] \in Files' => dir[e] \in Files /\ disk'[dir[e]] = disk[dir[e]]
    BY <1>1, <1>6, <1>7
  <2>5. /\ op'[u].late = op[u].late /\ op'[u].what = op[u].what /\ op'[u].dir = op[u].dir
        /\ op'[u].block = op[u].block /\ (op'[u].pc = "clear" => op[u].pc = "clear")
        /\ (op'[u].pc = "list" => op[u].pc = "list") /\ dir' = dir
    BY <1>1, <1>3, <1>5 DEF w
  <2>6. InTime(u)'
    BY <1>1, <1>7, <2>0, <2>4, <2>5 DEF InTime
  <2> QED BY <2>2, <2>3, <2>6
<1>13. Listed'
  <2>1. Listed
    BY DEF DirPart
  <2>2. ASSUME NEW f \in Entries, dir'[f] # INVALID_BLOCK_ID
        PROVE  \/ dir'[f] \in Files'
               \/ \E u \in Tasks : op'[u].pc \in {"read", "clear"} /\ op'[u].id = dir'[f]
    BY <1>1, <1>5, <1>7, <2>1, <2>2 DEF Listed
  <2>3. \A f, g \in Entries : dir'[f] # INVALID_BLOCK_ID /\ dir'[f] = dir'[g] => f = g
    BY <1>1, <2>1 DEF Listed
  <2>4. \A f, g \in Entries :
          dir'[f] \in Files' /\ dir'[g] \in Files' /\ disk'[dir'[f]].name = disk'[dir'[g]].name => f = g
    BY <1>1, <1>6, <1>7, <2>1 DEF Listed
  <2>5. ASSUME NEW c \in Files'
        PROVE  (\E f \in Entries : dir'[f] = c) \/ \E u \in Tasks : op'[u].pc = "enter" /\ op'[u].id = c
    BY <1>1, <1>3, <1>5, <1>7, <2>1 DEF Listed
  <2> QED BY <2>2, <2>3, <2>4, <2>5 DEF Listed
<1> QED BY <1>9, <1>10, <1>11, <1>12, <1>13 DEF DirPart, FilePart

\* ... or a block of the file that t has open.
LEMMA SetDataOrder ==
  ASSUME IInv, DirPart, FilePart, NEW t \in Tasks, SetBlock(t), odd' = {}, op[t].what # "create"
  PROVE  DirPart' /\ FilePart'
<1> DEFINE b == op[t].id
           q == [op[t] EXCEPT !.todo = Tail(@)]
           r == GoOn(q)
           i == Head(op[t].todo)
           f == fptr[t].id
           g == [fptr[t].block EXCEPT !.blockids[i] = b]
           w == op[t].block
<1>1. /\ op[t].pc = "set" /\ op' = [op EXCEPT ![t] = r] /\ UNCHANGED dir
      /\ disk' = [disk EXCEPT ![b] = w]
      /\ fptr' = [fptr EXCEPT ![t].block.blockids[i] = b]
      /\ ~disk[b].used /\ \A e \in Entries : dir[e] # b
      /\ \A u \in Tasks : op[u].pc \in {"read", "clear"} => op[u].id # b
  BY DEF SetBlock, Become
<1>2. b \in Blocks /\ op[t].what \in {"write", "append"} /\ f \in Blocks /\ op[t].todo # <<>>
  <2>1. Holding(t)
    BY DEF IInv
  <2> QED BY <1>1, <2>1 DEF Holding
<1>3. w = NewData /\ w.used /\ w.type = "data"
  <2>1. w = NewData
    BY <1>2 DEF FilePart, Prepared
  <2>2. NewData.used = TRUE /\ NewData.type = "data"
    BY DEF NewData
  <2> QED BY <2>1, <2>2
<1>4. r.what = op[t].what /\ r.pc \in {"save", "take"} /\ r.block = NewData
  <2>1. Tail(op[t].todo) \in Seq(Indexes) /\ op[t] \in Operation
    BY <1>2, Types DEF Operation
  <2>2. q \in Operation /\ q.what = op[t].what /\ q.block = NewData
    BY <1>3, <2>1 DEF Operation
  <2> HIDE DEF q
  <2> QED BY <2>2, GoOnType
<1> HIDE DEF r, w
<1>5. op'[t] = r /\ \A u \in Tasks : u # t => op'[u] = op[u]
  BY <1>1, Types
<1>6. disk'[b] = w /\ \A c \in Blocks : c # b => disk'[c] = disk[c]
  BY <1>1, <1>2, Types
<1>7. Files' = Files /\ b \notin Files /\ Files \subseteq Blocks
  BY <1>1, <1>2, <1>3, <1>6 DEF Files
<1>8. /\ fptr'[t].id = f /\ fptr'[t].block = g
      /\ \A u \in Tasks : u # t => fptr'[u] = fptr[u]
  BY <1>1, Types DEF FileType
<1>9. /\ g.used = fptr[t].block.used /\ g.type = fptr[t].block.type
      /\ g.lock = fptr[t].block.lock /\ g.name = fptr[t].block.name
      /\ \A j \in Indexes : g.blockids[j] = IF j = i THEN b ELSE fptr[t].block.blockids[j]
  BY Types DEF RawBlock
<1> HIDE DEF g
<1>10. f \in Files /\ fptr[t] # NoFile /\ b # f
  BY <1>2, <1>7, OpenIsFile
<1>11. ASSUME NEW u \in Tasks PROVE Prepared(u)' /\ Opened(u)'
  <2>1. Prepared(u)'
    BY <1>2, <1>4, <1>5, <1>8 DEF FilePart, Prepared
  <2>2. CASE u = t
    BY <1>6, <1>7, <1>8, <1>9, <1>10, <2>1, <2>2 DEF FilePart, Opened
  <2>3. CASE u # t
    BY <1>6, <1>7, <1>8, <1>10, <2>1, <2>3 DEF FilePart, Opened
  <2> QED BY <2>1, <2>2, <2>3
<1>12. LocksOpen'
  BY <1>6, <1>7, <1>8 DEF FilePart, LocksOpen
<1>13. Claimed'
  <2>1. ASSUME NEW c \in Blocks, NEW j \in Indexes, NEW x \in Blocks, Claims(c, j, x)'
        PROVE  Claims(c, j, x) \/ (c = f /\ j = i /\ x = b)
    BY <1>1, <1>4, <1>5, <1>6, <1>7, <1>8, <1>9, <2>1 DEF Claims, Dropping
  <2>2. \A c \in Blocks, j \in Indexes : ~Claims(c, j, b)
    BY <1>1, <1>2 DEF FilePart, Claimed
  <2>3. \A x \in Blocks : disk[x].used => disk'[x] = disk[x]
    BY <1>1, <1>6
  <2> QED BY <1>3, <1>6, <2>1, <2>2, <2>3 DEF FilePart, Claimed
<1>14. DirPart'
  <2>1. InTime(t)'
    BY <1>2, <1>4, <1>5 DEF InTime
  <2> QED BY <1>1, <1>4, <1>5, <1>6, <1>7, <2>1, SameFiles
<1> QED BY <1>11, <1>12, <1>13, <1>14 DEF FilePart

\* A task that is not at work on the directory ends its operation, or has opened
\* a file.
Leaves(t, r) ==
  /\ op[t].pc \notin {"enter", "read", "clear"}
  /\ r = Idle \/ (r.pc = "opened" /\ r.what = "open")

\* A file's block is written as a file of the same name, and t is done.
LEMMA Rewritten ==
  ASSUME IInv, DirPart, NEW t \in Tasks, NEW b \in Files, NEW w, NEW r,
         disk' = [disk EXCEPT ![b] = w], w.used = TRUE, w.type = "file", w.name = disk[b].name,
         dir' = dir, Become(t, r), Leaves(t, r)
  PROVE  /\ DirPart' /\ Files' = Files /\ b \in Blocks
         /\ op'[t] = r /\ \A u \in Tasks : u # t => op'[u] = op[u]
         /\ disk'[b] = w /\ \A c \in Blocks : c # b => disk'[c] = disk[c]
<1>1. op'[t] = r /\ \A u \in Tasks : u # t => op'[u] = op[u]
  BY Types DEF Become
<1>2. b \in Blocks /\ disk[b].used /\ disk[b].type = "file"
  BY DEF Files
<1>3. disk'[b] = w /\ \A c \in Blocks : c # b => disk'[c] = disk[c]
  BY <1>2, Types
<1>4. Files' = Files /\ Files \subseteq Blocks
  BY <1>2, <1>3 DEF Files
<1>5. op'[t].pc \in {"idle", "opened"} /\ InTime(t)'
  BY <1>1, IdleType, IdlePrepared DEF InTime, Leaves
<1>6. DirPart'
  BY <1>1, <1>2, <1>3, <1>4, <1>5, SameFiles DEF Leaves
<1> QED BY <1>1, <1>2, <1>3, <1>4, <1>6

\* Blocks that are claimed are data, so that writing a file leaves them.
LEMMA StillClaimed ==
  ASSUME FilePart, NEW b \in Files,
         \A c \in Blocks : c # b => disk'[c] = disk[c],
         \A c \in Blocks, i \in Indexes, x \in Blocks : Claims(c, i, x)' => Claims(c, i, x)
  PROVE  Claimed'
<1>1. \A x \in Blocks : disk[x].type = "data" => disk'[x] = disk[x]
  BY DEF Files
<1> QED BY <1>1 DEF FilePart, Claimed

LEMMA LockOrder ==
  ASSUME IInv, DirPart, FilePart, NEW t \in Tasks, LockFile(t), odd' = {}
  PROVE  DirPart' /\ FilePart'
<1> DEFINE b == op[t].id
           w == [op[t].block EXCEPT !.lock = TRUE]
           p == [id |-> b, block |-> w]
           r == [Idle EXCEPT !.pc = "opened", !.what = "open"]
<1>0. r.pc = "opened" /\ r.what = "open"
  BY DEF Idle
<1>1. /\ op[t].pc = "lock" /\ Become(t, r) /\ UNCHANGED dir
      /\ disk' = [disk EXCEPT ![b] = w] /\ fptr' = [fptr EXCEPT ![t] = p]
      /\ disk[b] = op[t].block /\ disk[b].used
  BY DEF LockFile
<1>2. b \in Blocks /\ ~disk[b].lock /\ disk[b].type = "file" /\ fptr[t] = NoFile
  <2>1. Holding(t) /\ Prepared(t)
    BY DEF IInv, FilePart
  <2> QED BY <1>1, <2>1 DEF Holding, Prepared
<1>3. b \in Files
  BY <1>1, <1>2 DEF Files
<1>4. /\ w.used = TRUE /\ w.type = "file" /\ w.name = disk[b].name /\ w.lock = TRUE
      /\ w.blockids = disk[b].blockids
  BY <1>1, <1>2, Types DEF RawBlock
<1>5. p.id = b /\ p.block = w
  OBVIOUS
<1> HIDE DEF w, p, b, r
<1>6. /\ DirPart' /\ Files' = Files /\ b \in Blocks
      /\ op'[t] = r /\ \A u \in Tasks : u # t => op'[u] = op[u]
      /\ disk'[b] = w /\ \A c \in Blocks : c # b => disk'[c] = disk[c]
  <2>1. dir' = dir
    BY <1>1
  <2>2. disk' = [disk EXCEPT ![b] = w] /\ Become(t, r)
    BY <1>1
  <2>3. Leaves(t, r)
    BY <1>0, <1>1 DEF Leaves
  <2>4. w.used = TRUE /\ w.type = "file" /\ w.name = disk[b].name
    BY <1>4
  <2> QED BY <1>3, <2>1, <2>2, <2>3, <2>4, Rewritten, Zenon
<1>7. fptr'[t] = p /\ \A u \in Tasks : u # t => fptr'[u] = fptr[u]
  BY <1>1, Types
<1>8. \A u \in Tasks : fptr[u].id # b
  <2> SUFFICES ASSUME NEW u \in Tasks, fptr[u].id = b PROVE FALSE
    OBVIOUS
  <2>1. Opened(u) /\ fptr[u] # NoFile
    BY <1>2, OpenIsFile DEF FilePart
  <2> QED BY <1>2, <2>1 DEF Opened
<1>9. fptr[t].id \notin Blocks
  BY <1>2, IdleType
<1>10. p # NoFile /\ Files \subseteq Blocks
  BY <1>2, <1>5, IdleType DEF Files
<1>11. ASSUME NEW u \in Tasks PROVE Prepared(u)' /\ Opened(u)'
  <2>1. CASE u = t
    <3>1. Prepared(u)'
      BY <1>0, <1>6, <2>1 DEF Prepared
    <3>2. Opened(u)'
      BY <1>3, <1>4, <1>5, <1>6, <1>7, <1>8, <2>1 DEF Opened
    <3> QED BY <3>1, <3>2
  <2>2. CASE u # t
    <3>1. Prepared(u)'
      BY <1>6, <1>7, <2>2 DEF FilePart, Prepared
    <3>2. Opened(u)'
      <4>1. SUFFICES ASSUME fptr[u] # NoFile PROVE Opened(u)'
        BY <1>7, <2>2 DEF Opened
      <4>2. Opened(u) /\ fptr[u].id # b
        BY <1>8 DEF FilePart
      <4> QED BY <1>5, <1>6, <1>7, <1>10, <2>2, <4>1, <4>2 DEF Opened
    <3> QED BY <3>1, <3>2
  <2> QED BY <2>1, <2>2
<1>12. LocksOpen'
  <2> SUFFICES ASSUME NEW c \in Files, disk'[c].lock PROVE \E u \in Tasks : fptr'[u].id = c
    BY <1>6 DEF LocksOpen
  <2>1. CASE c = b
    BY <1>5, <1>7, <2>1
  <2>2. CASE c # b
    <3>1. PICK u \in Tasks : fptr[u].id = c
      BY <1>6, <1>10, <2>2 DEF FilePart, LocksOpen
    <3> QED BY <1>7, <1>9, <1>10, <3>1
  <2> QED BY <2>1, <2>2
<1>13. ASSUME NEW c \in Blocks, NEW i \in Indexes, NEW x \in Blocks, Claims(c, i, x)'
       PROVE  Claims(c, i, x)
  <2>1. CASE c = b
    BY <1>3, <1>4, <1>5, <1>6, <1>7, <1>8, <1>13, <2>1 DEF Claims, Dropping
  <2>2. CASE c # b
    BY <1>5, <1>6, <1>7, <1>9, <1>13, <2>2 DEF Claims, Dropping
  <2> QED BY <2>1, <2>2
<1>14. Claimed'
  BY <1>3, <1>6, <1>13, StillClaimed
<1> QED BY <1>6, <1>11, <1>12, <1>14 DEF FilePart

LEMMA SaveOrder ==
  ASSUME IInv, DirPart, FilePart, NEW t \in Tasks, Save(t)
  PROVE  DirPart' /\ FilePart'
<1> DEFINE b == fptr[t].id
           f == fptr[t].block
           w == [f EXCEPT !.length = op[t].length]
           p == [fptr[t] EXCEPT !.block = w]
<1>1. /\ op[t].pc = "save" /\ Become(t, Idle) /\ UNCHANGED dir
      /\ disk' = [disk EXCEPT ![b] = w] /\ fptr' = [fptr EXCEPT ![t].block = w]
  BY DEF Save
<1>2. b \in Blocks
  <2>1. Holding(t)
    BY DEF IInv
  <2> QED BY <1>1, <2>1 DEF Holding
<1>3. fptr[t] # NoFile /\ b \in Files /\ Opened(t)
  BY <1>2, OpenIsFile DEF FilePart
<1>4. /\ w.used = f.used /\ w.type = f.type /\ w.name = f.name /\ w.lock = f.lock
      /\ w.blockids = f.blockids
  BY Types DEF RawBlock
<1>5. p.id = b /\ p.block = w
  BY Types DEF FileType
<1>6. w.used = TRUE /\ w.type = "file" /\ w.name = disk[b].name /\ w.lock = TRUE
  <2>1. f.used \in BOOLEAN /\ f.lock \in BOOLEAN
    BY Types DEF RawBlock
  <2> QED BY <1>3, <1>4, <2>1 DEF Opened
<1>7. fptr'[t] = p /\ \A u \in Tasks : u # t => fptr'[u] = fptr[u]
  BY <1>1, Types
<1> HIDE DEF w, p, f, b
<1>8. /\ DirPart' /\ Files' = Files /\ b \in Blocks
      /\ op'[t] = Idle /\ \A u \in Tasks : u # t => op'[u] = op[u]
      /\ disk'[b] = w /\ \A c \in Blocks : c # b => disk'[c] = disk[c]
  <2>1. dir' = dir
    BY <1>1
  <2>2. disk' = [disk EXCEPT ![b] = w] /\ Become(t, Idle)
    BY <1>1
  <2>3. Leaves(t, Idle)
    BY <1>1 DEF Leaves
  <2>4. w.used = TRUE /\ w.type = "file" /\ w.name = disk[b].name
    BY <1>6
  <2> QED BY <1>3, <2>1, <2>2, <2>3, <2>4, Rewritten, Zenon
<1>9. Files \subseteq Blocks /\ \A u \in Tasks : fptr'[u].id = fptr[u].id
  BY <1>5, <1>7 DEF Files, b
<1>10. ASSUME NEW u \in Tasks PROVE Prepared(u)' /\ Opened(u)'
  <2>1. CASE u = t
    <3>1. Prepared(u)'
      BY <1>8, <2>1, IdlePrepared
    <3>2. Opened(u)'
      BY <1>3, <1>5, <1>6, <1>7, <1>8, <1>9, <2>1 DEF Opened, b
    <3> QED BY <3>1, <3>2
  <2>2. CASE u # t
    <3>1. Prepared(u)'
      BY <1>7, <1>8, <2>2 DEF FilePart, Prepared
    <3>2. Opened(u)'
      <4>1. SUFFICES ASSUME fptr[u] # NoFile PROVE Opened(u)'
        BY <1>7, <2>2 DEF Opened
      <4>2. Opened(u) /\ fptr[u].id # b
        BY <1>3, <2>2 DEF FilePart, Opened, b
      <4> QED BY <1>7, <1>8, <1>9, <2>2, <4>1, <4>2 DEF Opened
    <3> QED BY <3>1, <3>2
  <2> QED BY <2>1, <2>2
<1>11. LocksOpen'
  <2> SUFFICES ASSUME NEW c \in Files, disk'[c].lock PROVE \E u \in Tasks : fptr[u].id = c
    BY <1>8, <1>9 DEF LocksOpen
  <2>1. CASE c = b
    BY <2>1 DEF b
  <2>2. CASE c # b
    BY <1>8, <1>9, <2>2 DEF FilePart, LocksOpen
  <2> QED BY <2>1, <2>2
<1>12. ASSUME NEW c \in Blocks, NEW i \in Indexes, NEW x \in Blocks, Claims(c, i, x)'
       PROVE  Claims(c, i, x)
  <2>1. CASE c = b
    <3>1. f.blockids[i] = x \/ \E u \in Tasks : fptr[u].id = b /\ u # t
      BY <1>4, <1>5, <1>7, <1>8, <1>9, <1>12, <2>1 DEF Claims, Dropping
    <3>2. f.blockids[i] = x /\ x # INVALID_BLOCK_ID
      BY <1>3, <1>12, <3>1 DEF Opened, Claims, b
    <3> QED BY <1>1, <1>3, <2>1, <3>2 DEF Claims, Dropping, f, b
  <2>2. CASE c # b
    BY <1>5, <1>7, <1>8, <1>9, <1>12, <2>2 DEF Claims, Dropping, b
  <2> QED BY <2>1, <2>2
<1>13. Claimed'
  BY <1>3, <1>8, <1>12, StillClaimed
<1> QED BY <1>8, <1>10, <1>11, <1>13 DEF FilePart

\* Closing a file, by its task or because that is killed, between two operations
\* or in one that leaves no entry missing.
LEMMA EndOrder ==
  ASSUME IInv, DirPart, FilePart, NEW t \in Tasks, disk' = Closed(t),
         fptr' = [fptr EXCEPT ![t] = NoFile], Become(t, Idle), dir' = dir,
         op[t].pc \notin {"enter", "read", "clear", "forget"}
  PROVE  DirPart' /\ FilePart'
<1>0. op'[t] = Idle /\ Idle.pc = "idle"
  BY Types, IdleType DEF Become
<1>1. CASE fptr[t] = NoFile
  <2>1. disk' = disk /\ fptr' = fptr
    BY <1>1, Types DEF Closed
  <2>2. op[t].what # "write"
    <3>1. Holding(t) /\ fptr[t].id \notin Blocks
      BY <1>1, IdleType DEF IInv
    <3> QED BY <3>1 DEF Holding
  <2> QED BY <1>0, <2>1, <2>2, IdlePrepared, Moves
<1>2. CASE fptr[t] # NoFile
  <2> DEFINE b == fptr[t].id
             f == fptr[t].block
             w == [f EXCEPT !.lock = FALSE]
  <2>1. disk' = [disk EXCEPT ![b] = w]
    BY <1>2 DEF Closed
  <2>2. Opened(t) /\ b \in Files
    BY <1>2 DEF FilePart, Opened
  <2>3. /\ w.used = TRUE /\ w.type = "file" /\ w.name = disk[b].name /\ w.lock = FALSE
        /\ w.blockids = f.blockids
    <3>1. /\ w.used = f.used /\ w.type = f.type /\ w.name = f.name /\ w.lock = FALSE
          /\ w.blockids = f.blockids /\ f.used \in BOOLEAN
      BY Types DEF RawBlock
    <3> QED BY <1>2, <2>2, <3>1 DEF Opened
  <2>4. fptr'[t] = NoFile /\ \A u \in Tasks : u # t => fptr'[u] = fptr[u]
    BY Types
  <2>5. \A u \in Tasks : u # t => fptr[u].id # b
    BY <1>2, <2>2 DEF Opened
  <2> HIDE DEF w, f, b
  <2>6. /\ DirPart' /\ Files' = Files /\ b \in Blocks
        /\ op'[t] = Idle /\ \A u \in Tasks : u # t => op'[u] = op[u]
        /\ disk'[b] = w /\ \A c \in Blocks : c # b => disk'[c] = disk[c]
    <3>1. Leaves(t, Idle)
      BY DEF Leaves
    <3> QED BY <2>1, <2>2, <2>3, <3>1, Rewritten, Zenon
  <2>7. Files \subseteq Blocks /\ NoFile.id \notin Blocks
    BY IdleType DEF Files
  <2>8. ASSUME NEW u \in Tasks PROVE Prepared(u)' /\ Opened(u)'
    <3>1. CASE u = t
      BY <2>4, <2>6, <3>1, IdlePrepared DEF Opened
    <3>2. CASE u # t
      <4>1. Prepared(u)'
        BY <2>4, <2>6, <3>2 DEF FilePart, Prepared
      <4>2. Opened(u)'
        <5>1. SUFFICES ASSUME fptr[u] # NoFile PROVE Opened(u)'
          BY <2>4, <3>2 DEF Opened
        <5>2. Opened(u) /\ fptr[u].id # b
          BY <2>5, <3>2 DEF FilePart
        <5> QED BY <2>4, <2>6, <2>7, <3>2, <5>1, <5>2 DEF Opened
      <4> QED BY <4>1, <4>2
    <3> QED BY <3>1, <3>2
  <2>9. LocksOpen'
    <3> SUFFICES ASSUME NEW c \in Files, disk'[c].lock PROVE \E u \in Tasks : fptr'[u].id = c
      BY <2>6 DEF LocksOpen
    <3>1. c # b
      BY <2>3, <2>6
    <3>2. PICK u \in Tasks : fptr[u].id = c
      BY <2>6, <2>7, <3>1 DEF FilePart, LocksOpen
    <3> QED BY <2>4, <3>1, <3>2 DEF b
  <2>10. ASSUME NEW c \in Blocks, NEW i \in Indexes, NEW x \in Blocks, Claims(c, i, x)'
         PROVE  Claims(c, i, x)
    <3>1. CASE c = b
      <4>1. f.blockids[i] = x
        BY <2>3, <2>4, <2>5, <2>6, <2>7, <2>10, <3>1 DEF Claims, Dropping
      <4> QED BY <2>2, <2>10, <3>1, <4>1 DEF Claims, Dropping, b, f
    <3>2. CASE c # b
      BY <2>4, <2>6, <2>7, <2>10, <3>2 DEF Claims, Dropping, b
    <3> QED BY <3>1, <3>2
  <2>11. Claimed'
    BY <2>2, <2>6, <2>10, StillClaimed
  <2> QED BY <2>6, <2>8, <2>9, <2>11 DEF FilePart
<1> QED BY <1>1, <1>2

LEMMA CloseFileOrder ==
  ASSUME IInv, DirPart, FilePart, NEW t \in Tasks, CloseFile(t)
  PROVE  DirPart' /\ FilePart'
<1> DEFINE r == [Idle EXCEPT !.pc = "closing", !.what = "close"]
<1>1. r.pc = "closing" /\ r.what = "close"
  BY DEF Idle
<1>2. Become(t, r) /\ UNCHANGED <<disk, dir, fptr>> /\ op[t] = Idle
  BY DEF CloseFile
<1> HIDE DEF r
<1>3. op'[t] = r /\ op[t].pc = "idle" /\ op[t].what # "write"
  BY <1>2, Types, IdleType, Ifs1Assumption DEF Become
<1>4. Prepared(t)' /\ InTime(t)'
  BY <1>1, <1>3 DEF Prepared, InTime
<1> QED BY <1>1, <1>2, <1>3, <1>4, Moves

LEMMA WriteClosedOrder ==
  ASSUME IInv, DirPart, FilePart, NEW t \in Tasks, WriteClosed(t)
  PROVE  DirPart' /\ FilePart'
  BY EndOrder DEF WriteClosed

LEMMA RecordOrder ==
  ASSUME IInv, DirPart, FilePart, NEW t \in Tasks, Record(t)
  PROVE  DirPart' /\ FilePart'
<1>1. Become(t, Idle) /\ UNCHANGED <<disk, dir, fptr>> /\ op[t].pc = "opened"
  BY DEF Record
<1>2. op'[t] = Idle /\ Idle.pc = "idle"
  BY <1>1, Types, IdleType DEF Become
<1>3. op[t].what # "write"
  BY <1>1 DEF FilePart, Prepared
<1> QED BY <1>1, <1>2, <1>3, IdlePrepared, Moves

LEMMA KillOrder ==
  ASSUME IInv, DirPart, FilePart, NEW t \in Tasks, Kill(t), odd' = {}
  PROVE  DirPart' /\ FilePart'
<1>1. op[t].pc \notin {"enter", "read", "clear", "forget", "opened", "closing"}
  BY DEF Kill, LeftBy
<1> QED BY <1>1, EndOrder DEF Kill

LEMMA RenameFileOrder ==
  ASSUME IInv, DirPart, FilePart, NEW t \in Tasks, NEW n \in Names, NEW m \in Names, RenameFile(t, n, m)
  PROVE  DirPart' /\ FilePart'
<1> DEFINE b == ParsePath(n)
           w == [disk[b] EXCEPT !.name = m]
           r == [Idle EXCEPT !.pc = "rename", !.what = "rename", !.id = b, !.block = w]
<1>1. r.pc = "rename" /\ r.what = "rename" /\ r.block = w
  BY DEF Idle
<1>2. /\ Become(t, r) /\ UNCHANGED <<disk, dir, fptr>> /\ op[t] = Idle
      /\ disk[b].used /\ disk[b].type = "file" /\ b \in Blocks
  BY ParsedBlock DEF RenameFile
<1>3. w.used /\ w.type = "file"
  <2>1. disk[b] \in RawBlock
    BY <1>2, Types
  <2> QED BY <1>2, <2>1 DEF RawBlock
<1> HIDE DEF r, b, w
<1>4. op'[t] = r /\ op[t].pc = "idle" /\ op[t].what # "write"
  BY <1>2, Types, IdleType, Ifs1Assumption DEF Become
<1>5. Prepared(t)' /\ InTime(t)'
  BY <1>1, <1>3, <1>4 DEF Prepared, InTime
<1> QED BY <1>1, <1>2, <1>4, <1>5, Moves

LEMMA ListDirOrder ==
  ASSUME IInv, DirPart, FilePart, NEW t \in Tasks, NEW k \in Entries, ListDir(t, k)
  PROVE  DirPart' /\ FilePart'
<1> DEFINE kept == {e \in Entries : e > k \/ (dir[e] # INVALID_BLOCK_ID /\ disk[dir[e]].used)}
           d == [e \in Entries |-> IF e \in kept THEN dir[e] ELSE INVALID_BLOCK_ID]
           r == [Idle EXCEPT !.pc = "list", !.what = "list", !.dir = d]
<1>1. r.pc = "list" /\ r.what = "list" /\ r.dir = d
  BY DEF Idle
<1>2. Become(t, r) /\ UNCHANGED <<disk, dir, fptr>> /\ op[t] = Idle
  BY DEF ListDir
<1>3. \A e \in Entries : e \notin kept => dir[e] \notin Files
  BY Constant DEF Files
<1>4. \A e \in Entries : d[e] = dir[e] \/ (d[e] = INVALID_BLOCK_ID /\ dir[e] \notin Files)
  BY <1>3
<1> HIDE DEF r, d
<1>5. op'[t] = r /\ op[t].pc = "idle" /\ op[t].what # "write" /\ Files' = Files
  BY <1>2, Types, IdleType, Ifs1Assumption DEF Become, Files
<1>6. Prepared(t)'
  BY <1>1, <1>5 DEF Prepared
<1>7. InTime(t)'
  BY <1>1, <1>2, <1>4, <1>5 DEF InTime
<1> QED BY <1>1, <1>2, <1>5, <1>6, <1>7, Moves

LEMMA DropEntryOrder ==
  ASSUME IInv, DirPart, FilePart, NEW t \in Tasks, NEW e \in Entries, DropEntry(t, e)
  PROVE  DirPart' /\ FilePart'
<1> DEFINE d == op[t].dir
           r == [op[t] EXCEPT !.dir[e] = INVALID_BLOCK_ID]
<1>1. /\ Become(t, r) /\ UNCHANGED <<disk, dir, fptr>> /\ op[t].pc = "list"
      /\ d[e] # INVALID_BLOCK_ID /\ ~disk[d[e]].used
  BY DEF DropEntry
<1>2. op[t] \in Operation
  BY Types
<1>3. /\ r.pc = "list" /\ r.what = op[t].what /\ r.late = op[t].late /\ r.id = op[t].id
      /\ r.block = op[t].block /\ r.todo = op[t].todo /\ r.length = op[t].length
      /\ \A f \in Entries : r.dir[f] = IF f = e THEN INVALID_BLOCK_ID ELSE d[f]
  BY <1>1, <1>2 DEF Operation, DirBlock
<1>4. d[e] \notin Files
  BY <1>1 DEF Files
<1> HIDE DEF r
<1>5. op'[t] = r /\ Files' = Files
  BY <1>1, Types DEF Become, Files
<1>6. Prepared(t) /\ InTime(t)
  BY DEF FilePart, DirPart
<1>7. Prepared(t)'
  BY <1>1, <1>3, <1>5, <1>6 DEF Prepared
<1>8. InTime(t)'
  <2>1. op[t].what = "list"
    BY <1>1, <1>6 DEF Prepared
  <2>2. ASSUME ~op[t].late, NEW f \in Entries
        PROVE  r.dir[f] = dir[f] \/ (r.dir[f] = INVALID_BLOCK_ID /\ dir[f] \notin Files)
    <3>1. d[f] = dir[f] \/ (d[f] = INVALID_BLOCK_ID /\ dir[f] \notin Files)
      BY <1>1, <1>6, <2>2 DEF InTime
    <3> HIDE DEF d
    <3> QED BY <1>1, <1>3, <1>4, <3>1
  <2> HIDE DEF d
  <2> QED BY <1>1, <1>3, <1>5, <2>1, <2>2 DEF InTime
<1> QED BY <1>1, <1>3, <1>5, <1>7, <1>8, Moves

\* A file that nobody has open gets a name that no file has, and that nobody is
\* about to create.
LEMMA RenameOrder ==
  ASSUME IInv, DirPart, FilePart, NEW t \in Tasks, Rename(t), odd' = {}
  PROVE  DirPart' /\ FilePart'
<1> DEFINE b == op[t].id
           w == op[t].block
<1>1. /\ op[t].pc = "rename" /\ op' = [op EXCEPT ![t] = Idle] /\ UNCHANGED <<dir, fptr>>
      /\ disk' = [disk EXCEPT ![b] = w]
      /\ [disk[b] EXCEPT !.name = w.name] = w /\ \E e \in Entries : dir[e] = b
      /\ ~disk[b].lock
      /\ \A e \in Entered(w.name) : ~(dir[e] # b /\ disk[dir[e]].used)
      /\ \A u \in Tasks : op[u].what = "create" => op[u].block.name # w.name
  BY DEF Rename, Become
<1>2. b \in Blocks /\ w.used /\ w.type = "file" /\ disk[b] \in RawBlock
  <2>1. Holding(t) /\ Prepared(t)
    BY DEF IInv, FilePart
  <2> QED BY <1>1, <2>1, Types DEF Holding, Prepared
<1>3. /\ disk[b].used = w.used /\ disk[b].type = w.type /\ disk[b].lock = w.lock
      /\ disk[b].blockids = w.blockids
  BY <1>1, <1>2 DEF RawBlock
<1>4. b \in Files /\ Files \subseteq Blocks /\ INVALID_BLOCK_ID \notin Files
  BY <1>2, <1>3, Constant DEF Files
<1>5. ASSUME NEW e \in Entries, dir[e] \in Files, dir[e] # b PROVE disk[dir[e]].name # w.name
  <2>1. disk[dir[e]].used /\ disk[dir[e]].type = "file" /\ dir[e] # INVALID_BLOCK_ID
    BY <1>4, <1>5 DEF Files
  <2> QED BY <1>1, <1>5, <2>1 DEF Entered
<1>6. op'[t] = Idle /\ op'[t].pc = "idle" /\ \A u \in Tasks : u # t => op'[u] = op[u]
  BY <1>1, Types, IdleType
<1>7. disk'[b] = w /\ \A c \in Blocks : c # b => disk'[c] = disk[c]
  BY <1>1, <1>2, Types
<1> HIDE DEF b, w
<1>8. Files' = Files
  BY <1>2, <1>3, <1>4, <1>7 DEF Files
<1>9. \A u \in Tasks : fptr[u].id # b
  <2> SUFFICES ASSUME NEW u \in Tasks, fptr[u].id = b PROVE FALSE
    OBVIOUS
  <2>1. Opened(u) /\ fptr[u] # NoFile
    BY <1>2, OpenIsFile DEF FilePart
  <2> QED BY <1>1, <2>1 DEF Opened
<1>10. ASSUME NEW u \in Tasks PROVE Prepared(u)' /\ Opened(u)'
  <2>1. Prepared(u)'
    BY <1>1, <1>6, IdlePrepared DEF FilePart, Prepared
  <2>2. Opened(u)'
    BY <1>1, <1>4, <1>7, <1>8, <1>9 DEF FilePart, Opened
  <2> QED BY <2>1, <2>2
<1>11. LocksOpen'
  BY <1>1, <1>3, <1>4, <1>7, <1>8 DEF FilePart, LocksOpen
<1>12. Claimed'
  <2>1. ASSUME NEW c \in Blocks, NEW i \in Indexes, NEW x \in Blocks, Claims(c, i, x)'
        PROVE  Claims(c, i, x)
    <3>1. CASE c = b
      BY <1>1, <1>3, <1>4, <1>7, <1>9, <2>1, <3>1 DEF Claims
    <3>2. CASE c # b
      <4>1. \A u \in Tasks : fptr[u].id = c => u # t \/ op[t].what # "write"
        BY <1>1 DEF FilePart, Prepared
      <4> QED BY <1>1, <1>6, <1>7, <1>8, <2>1, <3>2, <4>1 DEF Claims, Dropping
    <3> QED BY <3>1, <3>2
  <2> QED BY <1>4, <1>7, <2>1, StillClaimed
<1>13. ASSUME NEW u \in Tasks PROVE Entering(u)' /\ Deleting(u)' /\ InTime(u)'
  <2>0. Entering(u) /\ Deleting(u) /\ InTime(u) /\ Holding(u)
    BY DEF DirPart, IInv
  <2>1. \A v \in Tasks : op[v].pc = "enter" => op[v].id # b
    BY <1>1 DEF DirPart, Entering
  <2>2. Entering(u)'
    <3>1. SUFFICES ASSUME op[u].pc = "enter", u # t PROVE Entering(u)'
      BY <1>6 DEF Entering
    <3>2. op[u].id \in Blocks /\ op[u].id # b
      BY <2>0, <2>1, <3>1 DEF Holding
    <3> QED BY <1>1, <1>6, <1>7, <1>8, <2>0, <3>1, <3>2 DEF Entering
  <2>3. Deleting(u)'
    <3>1. SUFFICES ASSUME op[u].pc \in {"read", "clear"}, u # t PROVE Deleting(u)'
      BY <1>6 DEF Deleting
    <3>2. op[u].id \in Blocks /\ op[u].id # b
      BY <1>2, <1>3, <2>0, <3>1 DEF Holding, Deleting
    <3> QED BY <1>1, <1>6, <1>7, <2>0, <3>1, <3>2 DEF Deleting
  <2>4. InTime(u)'
    <3>1. CASE u = t
      BY <1>6, <3>1, IdlePrepared
    <3>2. CASE u # t
      <4>1. op'[u] = op[u] /\ dir' = dir
        BY <1>1, <1>6, <3>2
      <4>2. \A e \in Entries : dir[e] \in Files => \/ disk'[dir[e]].name = disk[dir[e]].name
                                                  \/ disk'[dir[e]].name = w.name
        BY <1>4, <1>7
      <4>3. op[u].what = "create" => op[u].block.name # w.name
        BY <1>1
      <4> QED BY <1>8, <2>0, <4>1, <4>2, <4>3 DEF InTime
    <3> QED BY <3>1, <3>2
  <2> QED BY <2>2, <2>3, <2>4
<1>14. Listed'
  <2>1. Listed
    BY DEF DirPart
  <2>2. ASSUME NEW f \in Entries, dir'[f] # INVALID_BLOCK_ID
        PROVE  \/ dir'[f] \in Files'
               \/ \E u \in Tasks : op'[u].pc \in {"read", "clear"} /\ op'[u].id = dir'[f]
    BY <1>1, <1>6, <1>8, <2>1, <2>2 DEF Listed
  <2>3. \A f, g \in Entries : dir'[f] # INVALID_BLOCK_ID /\ dir'[f] = dir'[g] => f = g
    BY <1>1, <2>1 DEF Listed
  <2>4. ASSUME NEW f \in Entries, NEW g \in Entries, dir'[f] \in Files', dir'[g] \in Files',
               disk'[dir'[f]].name = disk'[dir'[g]].name
        PROVE  f = g
    <3>1. dir[f] \in Files /\ dir[g] \in Files /\ disk'[dir[f]].name = disk'[dir[g]].name
      BY <1>1, <1>8, <2>4
    <3>2. CASE dir[f] = dir[g]
      BY <1>4, <2>1, <3>1, <3>2 DEF Listed
    <3>3. CASE dir[f] # dir[g] /\ (dir[f] = b \/ dir[g] = b)
      BY <1>4, <1>5, <1>7, <3>1, <3>3
    <3>4. CASE dir[f] # b /\ dir[g] # b
      BY <1>4, <1>7, <2>1, <3>1, <3>4 DEF Listed
    <3> QED BY <3>2, <3>3, <3>4
  <2>5. ASSUME NEW c \in Files'
        PROVE  (\E f \in Entries : dir'[f] = c) \/ \E u \in Tasks : op'[u].pc = "enter" /\ op'[u].id = c
    BY <1>1, <1>6, <1>8, <2>1 DEF Listed
  <2> QED BY <2>2, <2>3, <2>4, <2>5 DEF Listed
<1> QED BY <1>10, <1>11, <1>12, <1>13, <1>14 DEF DirPart, FilePart

LEMMA UnuseOrder ==
  ASSUME IInv, DirPart, FilePart, NEW t \in Tasks, Unuse(t), odd' = {}
  PROVE  DirPart' /\ FilePart'
<1> DEFINE b == op[t].id
           r == [Idle EXCEPT !.pc = "read", !.what = "delete", !.id = b]
           w == [op[t].block EXCEPT !.used = FALSE]
<1>1. /\ op[t].pc = "unuse" /\ op' = [op EXCEPT ![t] = r] /\ UNCHANGED <<dir, fptr>>
      /\ disk' = [disk EXCEPT ![b] = w]
      /\ disk[b] = op[t].block /\ \E e \in Entries : dir[e] = b
  BY DEF Unuse, Become
<1>2. /\ b \in Blocks /\ ~disk[b].lock /\ disk[b].type = "file" /\ disk[b].used
      /\ op[t].what = "delete"
  <2>1. Holding(t) /\ Prepared(t)
    BY DEF IInv, FilePart
  <2> QED BY <1>1, <2>1 DEF Holding, Prepared
<1>3. w.used = FALSE
  BY Types DEF RawBlock
<1>4. r.pc = "read" /\ r.id = b /\ r.what = "delete"
  BY DEF Idle
<1> HIDE DEF w, r
<1>5. op'[t] = r /\ \A u \in Tasks : u # t => op'[u] = op[u]
  BY <1>1, Types
<1>6. disk'[b] = w /\ \A c \in Blocks : c # b => disk'[c] = disk[c]
  BY <1>1, <1>2, Types
<1> HIDE DEF b
<1>7. Files' = Files \ {b} /\ b \in Files /\ Files \subseteq Blocks
  BY <1>2, <1>3, <1>6 DEF Files
<1>8. \A u \in Tasks : fptr[u].id # b
  <2> SUFFICES ASSUME NEW u \in Tasks, fptr[u].id = b PROVE FALSE
    OBVIOUS
  <2>1. Opened(u) /\ fptr[u] # NoFile
    BY <1>2, OpenIsFile DEF FilePart
  <2> QED BY <1>2, <2>1 DEF Opened
<1>9. ASSUME NEW u \in Tasks PROVE Prepared(u)' /\ Opened(u)'
  <2>1. Prepared(u)'
    BY <1>1, <1>4, <1>5 DEF FilePart, Prepared
  <2>2. Opened(u)'
    BY <1>1, <1>6, <1>7, <1>8 DEF FilePart, Opened
  <2> QED BY <2>1, <2>2
<1>10. LocksOpen'
  BY <1>1, <1>6, <1>7 DEF FilePart, LocksOpen
<1>11. Claimed'
  <2>1. ASSUME NEW c \in Blocks, NEW i \in Indexes, NEW x \in Blocks, Claims(c, i, x)'
        PROVE  Claims(c, i, x)
    BY <1>1, <1>2, <1>5, <1>6, <1>7, <2>1, <1>4 DEF Claims, Dropping
  <2> QED BY <1>6, <1>7, <2>1, StillClaimed
<1>12. ASSUME NEW u \in Tasks PROVE Entering(u)' /\ Deleting(u)' /\ InTime(u)'
  <2>0. Entering(u) /\ Deleting(u) /\ InTime(u) /\ Holding(u)
    BY DEF DirPart, IInv
  <2>1. \A v \in Tasks : op[v].pc = "enter" => op[v].id # b
    BY <1>1 DEF DirPart, Entering
  <2>2. \A v \in Tasks : op[v].pc \in {"read", "clear"} => op[v].id # b
    BY <1>2 DEF DirPart, Deleting
  <2>3. Entering(u)'
    BY <1>1, <1>4, <1>5, <1>6, <1>7, <2>0, <2>1 DEF Entering
  <2>4. Deleting(u)'
    <3>1. CASE u = t
      BY <1>1, <1>3, <1>4, <1>5, <1>6, <2>2, <3>1 DEF Deleting
    <3>2. CASE u # t
      BY <1>1, <1>4, <1>5, <1>6, <2>0, <2>2, <3>2 DEF Deleting, Holding
    <3> QED BY <3>1, <3>2
  <2>5. InTime(u)'
    BY <1>1, <1>4, <1>5, <1>6, <1>7, <2>0 DEF InTime
  <2> QED BY <2>3, <2>4, <2>5
<1>13. Listed'
  <2>1. Listed
    BY DEF DirPart
  <2>2. ASSUME NEW f \in Entries, dir'[f] # INVALID_BLOCK_ID
        PROVE  \/ dir'[f] \in Files'
               \/ \E u \in Tasks : op'[u].pc \in {"read", "clear"} /\ op'[u].id = dir'[f]
    <3>1. CASE dir[f] = b
      BY <1>1, <1>4, <1>5, <3>1
    <3>2. CASE dir[f] # b
      BY <1>1, <1>5, <1>7, <2>1, <2>2, <3>2 DEF Listed
    <3> QED BY <3>1, <3>2
  <2>3. \A f, g \in Entries : dir'[f] # INVALID_BLOCK_ID /\ dir'[f] = dir'[g] => f = g
    BY <1>1, <2>1 DEF Listed
  <2>4. \A f, g \in Entries :
          dir'[f] \in Files' /\ dir'[g] \in Files' /\ disk'[dir'[f]].name = disk'[dir'[g]].name => f = g
    BY <1>1, <1>6, <1>7, <2>1 DEF Listed
  <2>5. ASSUME NEW c \in Files'
        PROVE  (\E f \in Entries : dir'[f] = c) \/ \E u \in Tasks : op'[u].pc = "enter" /\ op'[u].id = c
    BY <1>1, <1>5, <1>7, <2>1 DEF Listed
  <2> QED BY <2>2, <2>3, <2>4, <2>5 DEF Listed
<1> QED BY <1>9, <1>10, <1>11, <1>12, <1>13 DEF DirPart, FilePart

LEMMA WriteOrder ==
  ASSUME IInv, DirPart, FilePart, NEW t \in Tasks, NEW n \in 0 .. FileSize, WriteFile(t, n)
  PROVE  DirPart' /\ FilePart'
<1> DEFINE todo == [i \in 1 .. n |-> i]
           q == [Idle EXCEPT !.what = "write", !.todo = todo, !.length = n]
           r == FreeOn(fptr[t].block, q)
<1>1. Become(t, r) /\ UNCHANGED <<disk, dir, fptr>> /\ op[t] = Idle
  BY DEF WriteFile
<1>2. q \in Operation /\ q.what = "write" /\ q.block = NewData
  <2>1. todo \in Seq(Indexes)
    BY Ifs1Assumption DEF Indexes
  <2>2. Idle.block = NewData
    BY DEF Idle
  <2> QED BY <2>1, <2>2, IdleType DEF Operation
<1> HIDE DEF q
<1>3. r.what = "write" /\ r.pc \in {"free", "save", "take"} /\ r.block = NewData
  BY <1>2, FreeOnType
<1> HIDE DEF r
<1>4. op'[t] = r /\ op[t].pc = "idle" /\ op[t].what # "write"
  BY <1>1, Types, IdleType, Ifs1Assumption DEF Become
<1>5. Prepared(t)' /\ InTime(t)'
  BY <1>3, <1>4 DEF Prepared, InTime
<1> QED BY <1>1, <1>3, <1>4, <1>5, Moves

\* Only a data block of t's own file is freed...
LEMMA FreeBlockOrder ==
  ASSUME IInv, DirPart, FilePart, NEW t \in Tasks, FreeBlock(t)
  PROVE  DirPart' /\ FilePart'
<1> DEFINE b == fptr[t].id
           f == fptr[t].block
           i == First(Holds(f))
           x == f.blockids[i]
           r == [op[t] EXCEPT !.pc = "forget"]
           none == [NewData EXCEPT !.used = FALSE]
<1>1. /\ op[t].pc = "free" /\ UNCHANGED <<dir, fptr>> /\ op' = [op EXCEPT ![t] = r]
      /\ disk' = [disk EXCEPT ![x] = none]
  BY DEF FreeBlock, Become
<1>2. Holding(t) /\ op[t].what = "write" /\ Holds(f) # {} /\ b \in Blocks
  <2>1. Holding(t)
    BY DEF IInv
  <2> QED BY <1>1, <2>1 DEF Holding
<1>3. i \in Indexes /\ x # INVALID_BLOCK_ID /\ x \in Blocks
  BY <1>2, FirstBlock, Types
<1>4. b \in Files /\ Files \subseteq Blocks /\ \A u \in Tasks : fptr[u].id = b => u = t
  BY <1>2, OpenIsFile DEF FilePart, Opened, Files
<1>5. none.used = FALSE
  BY DEF NewData
<1>6. /\ r.pc = "forget" /\ r.what = "write" /\ r.block = NewData
  BY <1>2, Types DEF Operation, FilePart, Prepared
<1> HIDE DEF r, none
<1>7. op'[t] = r /\ \A u \in Tasks : u # t => op'[u] = op[u]
  BY <1>1, Types
<1>8. Claims(b, i, x)
  <2>1. ~Dropping(t, i)
    BY <1>1 DEF Dropping
  <2> QED BY <1>3, <1>4, <2>1 DEF Claims
<1>9. disk[x].type = "data" /\ \A c \in Blocks, j \in Indexes : Claims(c, j, x) => c = b /\ j = i
  <2> HIDE DEF x, i, b
  <2> QED BY <1>2, <1>3, <1>8 DEF FilePart, Claimed
<1>10. disk'[x] = none /\ \A c \in Blocks : c # x => disk'[c] = disk[c]
  BY <1>1, <1>3, Types
<1>11. i = First(Holds(fptr[t].block)) /\ b = fptr[t].id
  OBVIOUS
<1> HIDE DEF x, i, b, f
<1>12. Files' = Files /\ x \notin Files
  BY <1>3, <1>5, <1>9, <1>10 DEF Files
<1>13. \A c \in Files : disk'[c] = disk[c] /\ c \in Blocks
  BY <1>4, <1>10, <1>12
<1>14. ASSUME NEW u \in Tasks PROVE Prepared(u)' /\ Opened(u)'
  <2>1. Prepared(u)'
    BY <1>1, <1>6, <1>7 DEF FilePart, Prepared
  <2>2. Opened(u)'
    BY <1>1, <1>12, <1>13 DEF FilePart, Opened
  <2> QED BY <2>1, <2>2
<1>15. LocksOpen'
  BY <1>1, <1>12, <1>13 DEF FilePart, LocksOpen
<1>16. ASSUME NEW c \in Blocks, NEW j \in Indexes, NEW y \in Blocks, Claims(c, j, y)'
       PROVE  Claims(c, j, y) /\ ~(c = b /\ j = i)
  <2>1. Claims(c, j, y)
    BY <1>1, <1>2, <1>6, <1>7, <1>12, <1>13, <1>16 DEF Claims, Dropping
  <2>2. ~(c = b /\ j = i)
    BY <1>1, <1>4, <1>6, <1>7, <1>11, <1>16 DEF Claims, Dropping
  <2> QED BY <2>1, <2>2
<1>17. Claimed'
  <2>1. ASSUME NEW c \in Blocks, NEW j \in Indexes, NEW y \in Blocks, Claims(c, j, y)'
        PROVE  disk'[y] = disk[y]
    BY <1>9, <1>10, <1>16, <2>1
  <2> QED BY <1>16, <2>1 DEF FilePart, Claimed
<1>18. DirPart'
  <2>1. InTime(t)'
    BY <1>6, <1>7 DEF InTime
  <2>2. \A c \in Blocks : ~disk[c].used => ~disk'[c].used
    BY <1>5, <1>10
  <2> QED BY <1>1, <1>6, <1>7, <1>12, <1>13, <2>1, <2>2, SameFiles
<1> QED BY <1>14, <1>15, <1>17, <1>18 DEF FilePart

\* ... which it then forgets.
LEMMA ForgetOrder ==
  ASSUME IInv, DirPart, FilePart, NEW t \in Tasks, Forget(t)
  PROVE  DirPart' /\ FilePart'
<1> DEFINE b == fptr[t].id
           f == fptr[t].block
           g == Without(f)
           i == First(Holds(f))
           r == FreeOn(g, op[t])
<1>1. /\ op[t].pc = "forget" /\ UNCHANGED <<disk, dir>> /\ Become(t, r)
      /\ fptr' = [fptr EXCEPT ![t].block = g]
  BY DEF Forget
<1>2. op[t].what = "write" /\ Holds(f) # {} /\ b \in Blocks
  <2>1. Holding(t)
    BY DEF IInv
  <2> QED BY <1>1, <2>1 DEF Holding
<1>3. i \in Indexes /\ g = [f EXCEPT !.blockids[i] = INVALID_BLOCK_ID] /\ f \in RawBlock
  BY <1>2, FirstBlock, Types
<1>4. r.what = "write" /\ r.pc \in {"free", "save", "take"} /\ r.block = NewData
  BY <1>2, Types, FreeOnType DEF FilePart, Prepared
<1> HIDE DEF r
<1>5. op'[t] = r /\ \A u \in Tasks : u # t => op'[u] = op[u]
  BY <1>1, Types DEF Become
<1>6. fptr'[t].id = b /\ fptr'[t].block = g /\ \A u \in Tasks : u # t => fptr'[u] = fptr[u]
  BY <1>1, Types DEF FileType
<1> HIDE DEF g
<1>7. /\ g.used = f.used /\ g.type = f.type /\ g.lock = f.lock /\ g.name = f.name
      /\ \A j \in Indexes : g.blockids[j] = IF j = i THEN INVALID_BLOCK_ID ELSE f.blockids[j]
  BY <1>3 DEF RawBlock
<1>8. fptr[t] # NoFile /\ Opened(t) /\ b \in Files /\ Files' = Files /\ Files \subseteq Blocks
  BY <1>1, <1>2, OpenIsFile DEF FilePart, Files
<1>9. ASSUME NEW u \in Tasks PROVE Prepared(u)' /\ Opened(u)'
  <2>1. CASE u = t
    <3>1. Prepared(u)'
      BY <1>4, <1>5, <2>1 DEF Prepared
    <3>2. Opened(u)'
      BY <1>1, <1>6, <1>7, <1>8, <2>1 DEF Opened
    <3> QED BY <3>1, <3>2
  <2>2. CASE u # t
    BY <1>1, <1>5, <1>6, <1>8, <2>2 DEF FilePart, Prepared, Opened
  <2> QED BY <2>1, <2>2
<1>10. LocksOpen'
  BY <1>1, <1>6, <1>8 DEF FilePart, LocksOpen
<1>11. ASSUME NEW c \in Blocks, NEW j \in Indexes, NEW y \in Blocks, Claims(c, j, y)'
       PROVE  Claims(c, j, y)
  <2>1. CASE c = b
    <3>1. \A u \in Tasks : fptr[u].id = b => u = t
      BY <1>8 DEF Opened
    <3>2. g.blockids[j] = y /\ y # INVALID_BLOCK_ID
      BY <1>4, <1>5, <1>6, <1>11, <2>1, <3>1 DEF Claims
    <3>3. j # i /\ f.blockids[j] = y
      BY <1>7, <3>2
    <3> QED BY <1>8, <2>1, <3>2, <3>3 DEF Claims, Dropping
  <2>2. CASE c # b
    BY <1>1, <1>5, <1>6, <1>8, <1>11, <2>2 DEF Claims, Dropping
  <2> QED BY <2>1, <2>2
<1>12. Claimed'
  BY <1>1, <1>8, <1>11, StillClaimed
<1>13. DirPart'
  <2>1. InTime(t)'
    BY <1>4, <1>5 DEF InTime
  <2> QED BY <1>1, <1>4, <1>5, <1>8, <2>1, SameFiles
<1> QED BY <1>9, <1>10, <1>12, <1>13 DEF FilePart

\* Repair unlocks every file: no creation was under way, so each has an entry.
LEMMA RestartOrder ==
  ASSUME IInv, DirPart, FilePart, Restart, odd' = {}
  PROVE  DirPart' /\ FilePart'
<1>1. /\ disk' = Repaired(disk) /\ dir' = dir
      /\ \A t \in Tasks : op'[t] = Idle /\ fptr'[t] = NoFile
      /\ \A t \in Tasks : op[t].pc \notin {"enter", "read", "clear"} /\ op[t].what # "write"
  BY DEF Restart
<1>2. ASSUME NEW b \in Blocks
      PROVE  /\ disk'[b].used = disk[b].used /\ disk'[b].type = disk[b].type
             /\ disk'[b].name = disk[b].name /\ disk'[b].blockids = disk[b].blockids
             /\ b \in Files => disk'[b].lock = FALSE
  <2>1. disk[b] \in RawBlock
    BY DEF IInv, TypeOK
  <2>2. b \in Files => \E e \in Entries : dir[e] = b
    BY <1>1 DEF DirPart, Listed
  <2> QED BY <1>1, <2>1, <2>2 DEF Repaired, RawBlock, Files
<1>3. Files' = Files /\ Files \subseteq Blocks
  BY <1>2 DEF Files
<1>4. NoFile.id \notin Blocks /\ Idle.pc = "idle"
  BY IdleType
<1>5. ASSUME NEW t \in Tasks PROVE Prepared(t)' /\ Opened(t)' /\ Entering(t)' /\ Deleting(t)' /\ InTime(t)'
  BY <1>1, <1>4, IdlePrepared DEF Opened, Entering, Deleting
<1>6. LocksOpen'
  BY <1>2, <1>3 DEF LocksOpen
<1>7. Claimed'
  <2>1. ASSUME NEW c \in Blocks, NEW i \in Indexes, NEW x \in Blocks, Claims(c, i, x)'
        PROVE  Claims(c, i, x)
    BY <1>1, <1>2, <1>3, <1>4, <2>1 DEF Claims, Dropping
  <2>2. \A x \in Blocks : disk'[x].used = disk[x].used /\ disk'[x].type = disk[x].type
    BY <1>2
  <2>3. ASSUME NEW c \in Blocks, NEW i \in Indexes, NEW x \in Blocks, Claims(c, i, x)'
        PROVE  disk'[x].used /\ disk'[x].type = "data"
    BY <2>1, <2>2, <2>3 DEF FilePart, Claimed
  <2>4. ASSUME NEW c \in Blocks, NEW i \in Indexes, NEW x \in Blocks, Claims(c, i, x)',
               NEW d \in Blocks, NEW j \in Indexes, Claims(d, j, x)'
        PROVE  c = d /\ i = j
    BY <2>1, <2>4 DEF FilePart, Claimed
  <2> QED BY <2>3, <2>4 DEF Claimed
<1>8. Listed'
  <2>1. \A b \in Files : disk'[b].name = disk[b].name
    BY <1>2, <1>3
  <2>2. \A t \in Tasks : op[t].pc \notin {"read", "clear"} /\ op[t].pc # "enter"
    BY <1>1
  <2>3. Listed
    BY DEF DirPart
  <2>4. dir' = dir
    BY <1>1
  <2> QED BY <1>3, <2>1, <2>2, <2>3, <2>4 DEF Listed
<1> QED BY <1>5, <1>6, <1>7, <1>8 DEF DirPart, FilePart

\* What has happened is not forgotten.
LEMMA OddGrows == ASSUME [Next]_vars PROVE odd \subseteq odd'
<1>1. ASSUME NEW t \in Tasks, NEW n, NEW m,
             \/ CreateFile(t, n) \/ DeleteFile(t, n) \/ OpenFile(t, n) \/ WriteFile(t, n)
             \/ RenameFile(t, n, m) \/ ListDir(t, n) \/ DropEntry(t, n)
      PROVE  odd' = odd
  BY <1>1 DEF CreateFile, DeleteFile, OpenFile, WriteFile, RenameFile, ListDir, DropEntry
<1>2. ASSUME NEW t \in Tasks,
             \/ Shift(t) \/ TakeByScan(t) \/ ReadDir(t) \/ Record(t) \/ FreeBlock(t) \/ Forget(t)
             \/ AppendFile(t) \/ Save(t) \/ CloseFile(t) \/ WriteClosed(t)
      PROVE  odd' = odd
  BY <1>2 DEF Shift, TakeByScan, ReadDir, Record, FreeBlock, Forget, AppendFile, Save, CloseFile, WriteClosed
<1>3. ASSUME NEW t \in Tasks,
             \/ TakeFromBAT(t) \/ ShiftOther(t) \/ ShiftedByOther(t) \/ SetBlock(t) \/ Enter(t) \/ Unuse(t)
             \/ ClearEntry(t) \/ Rename(t) \/ WriteList(t) \/ LockFile(t) \/ Kill(t)
      PROVE  odd \subseteq odd'
  BY <1>3 DEF TakeFromBAT, ShiftOther, ShiftedByOther, SetBlock, Enter, Written, Unuse, ClearEntry, Rename,
              WriteList, LockFile, Kill
<1>4. ASSUME Restart PROVE odd \subseteq odd'
  BY <1>4 DEF Restart
<1>5. CASE UNCHANGED vars
  BY <1>5 DEF vars
<1> QED BY <1>1, <1>2, <1>3, <1>4, <1>5 DEF Next, Step

LEMMA StepOrder ==
  ASSUME IInv, DirPart, FilePart, NEW t \in Tasks, Step(t), odd' = {}
  PROVE  DirPart' /\ FilePart'
<1>1. CASE \E n \in Names : CreateFile(t, n) \/ DeleteFile(t, n) \/ OpenFile(t, n)
  BY <1>1, CreateOrder, DeleteOrder, OpenOrder
<1>2. CASE TakeFromBAT(t) \/ Shift(t) \/ ShiftOther(t) \/ TakeByScan(t)
  BY <1>2, TakeOrder, TakeFromBATOrder
<1>3. CASE SetBlock(t)
  BY <1>3, SetFileOrder, SetDataOrder
<1>4. CASE Enter(t) \/ ClearEntry(t) \/ WriteList(t)
  BY <1>4, EnterOrder, ClearEntryOrder, WriteListOrder
<1>5. CASE Unuse(t) \/ ReadDir(t) \/ Rename(t)
  BY <1>5, UnuseOrder, ReadDirOrder, RenameOrder
<1>6. CASE LockFile(t) \/ Record(t) \/ AppendFile(t) \/ Save(t)
  BY <1>6, LockOrder, RecordOrder, AppendOrder, SaveOrder
<1>7. CASE CloseFile(t) \/ WriteClosed(t) \/ Kill(t)
  BY <1>7, CloseFileOrder, WriteClosedOrder, KillOrder
<1>8. CASE (\E n \in 0 .. FileSize : WriteFile(t, n)) \/ FreeBlock(t) \/ Forget(t)
  BY <1>8, WriteOrder, FreeBlockOrder, ForgetOrder
<1>9. CASE (\E n, m \in Names : RenameFile(t, n, m)) \/ \E k \in Entries : ListDir(t, k) \/ DropEntry(t, k)
  BY <1>9, RenameFileOrder, ListDirOrder, DropEntryOrder
<1>10. ~ShiftedByOther(t)
  BY DEF ShiftedByOther
<1> QED BY <1>1, <1>2, <1>3, <1>4, <1>5, <1>6, <1>7, <1>8, <1>9, <1>10 DEF Step

\* In a history in which nothing out of the ordinary has happened, the files,
\* their copies and the directory are in order.
Ordered == odd = {} => DirPart /\ FilePart

LEMMA InitOrder == ASSUME Init PROVE Ordered
<1>1. /\ dir = NoDir /\ \A t \in Tasks : op[t] = Idle /\ fptr[t] = NoFile
      /\ \A b \in Blocks : disk[b].used = FALSE
  BY DEF Init, NewData
<1>2. Idle.pc = "idle" /\ Idle.what \notin {"create", "delete", "rename", "list", "open", "write", "append", "close"}
  BY IdleType, Ifs1Assumption
<1>3. Files = {}
  BY <1>1 DEF Files
<1>4. LocksOpen /\ Claimed
  BY <1>3 DEF LocksOpen, Claimed, Claims
<1>5. Listed
  <2>1. \A e \in Entries : dir[e] = INVALID_BLOCK_ID
    BY <1>1 DEF NoDir
  <2>2. \A e \in Entries : dir[e] \notin Files
    BY <1>3
  <2> QED BY <1>3, <2>1, <2>2 DEF Listed
<1>6. ASSUME NEW t \in Tasks
      PROVE  Prepared(t) /\ Opened(t) /\ Entering(t) /\ Deleting(t) /\ InTime(t)
  BY <1>1, <1>2 DEF Prepared, Opened, Entering, Deleting, InTime
<1> QED BY <1>4, <1>5, <1>6 DEF Ordered, DirPart, FilePart

LEMMA NextOrder == ASSUME IInv, Ordered, [Next]_vars PROVE Ordered'
<1> SUFFICES ASSUME odd' = {} PROVE DirPart' /\ FilePart'
  BY DEF Ordered
<1>1. odd = {}
  BY OddGrows
<1>2. DirPart /\ FilePart
  BY <1>1 DEF Ordered
<1>3. CASE Restart
  BY <1>2, <1>3, RestartOrder
<1>4. CASE \E t \in Tasks : Step(t)
  BY <1>2, <1>4, StepOrder
<1>5. CASE UNCHANGED vars
  <2>1. /\ disk' = disk /\ dir' = dir /\ fptr' = fptr /\ op' = op
        /\ Files' = Files
    BY <1>5 DEF vars, Files
  <2>2. DirPart'
    BY <1>2, <2>1 DEF DirPart, Listed, Entering, Deleting, InTime
  <2>3. FilePart'
    BY <1>2, <2>1 DEF FilePart, LocksOpen, Claimed, Claims, Dropping, Prepared, Opened
  <2> QED BY <2>2, <2>3
<1> QED BY <1>3, <1>4, <1>5 DEF Next

\* What a user of the file b sees as its i-th block is claimed by b.
LEMMA SeenClaims ==
  ASSUME IInv, FilePart, NEW b \in Files, NEW i \in Indexes, Seen(b).blockids[i] # INVALID_BLOCK_ID
  PROVE  Claims(b, i, Seen(b).blockids[i]) /\ Seen(b).blockids[i] \in Blocks
<1>0. b \in Blocks
  BY DEF Files
<1>1. CASE \E t \in Tasks : fptr[t].id = b
  <2> DEFINE t == CHOOSE t \in Tasks : fptr[t].id = b
  <2>1. t \in Tasks /\ fptr[t].id = b
    BY <1>1
  <2>2. Seen(b) = Mine(t)
    BY <1>1 DEF Seen
  <2> HIDE DEF t
  <2>3. fptr[t].block \in RawBlock /\ fptr[t].block.blockids \in [Indexes -> Ids]
    BY <2>1, Types DEF RawBlock
  <2>4. fptr[t].block.blockids[i] \in Ids
    BY <2>3
  <2>5. ~Dropping(t, i) /\ Mine(t).blockids[i] = fptr[t].block.blockids[i]
    BY <2>2, <2>3 DEF Mine, Dropping, RawBlock
  <2> QED BY <2>1, <2>2, <2>4, <2>5 DEF Claims, Ids
<1>2. CASE ~ \E t \in Tasks : fptr[t].id = b
  <2>1. Seen(b) = disk[b]
    BY <1>2 DEF Seen
  <2>2. disk[b].blockids \in [Indexes -> Ids]
    BY <1>0 DEF IInv, TypeOK, RawBlock
  <2>3. disk[b].blockids[i] \in Ids
    BY <2>2
  <2> QED BY <1>2, <2>1, <2>3 DEF Claims, Ids
<1> QED BY <1>1, <1>2

LEMMA OrderedOneOwner == ASSUME IInv, Ordered PROVE OneOwner
<1> SUFFICES ASSUME odd = {}, NEW b \in Files, NEW c \in Files, NEW i \in Indexes, NEW j \in Indexes,
                    Seen(b).blockids[i] # INVALID_BLOCK_ID
             PROVE  LET x == Seen(b).blockids[i] IN
                    /\ disk[x].used /\ disk[x].type = "data"
                    /\ (x = Seen(c).blockids[j] => b = c /\ i = j)
  BY DEF OneOwner
<1> DEFINE x == Seen(b).blockids[i]
<1>1. FilePart
  BY DEF Ordered
<1>2. Claims(b, i, x) /\ x \in Blocks
  BY <1>1, SeenClaims
<1>3. x = Seen(c).blockids[j] => Claims(c, j, x)
  BY <1>1, SeenClaims
<1>4. b \in Blocks /\ c \in Blocks
  BY DEF Files
<1> HIDE DEF x
<1>5. /\ disk[x].used /\ disk[x].type = "data"
      /\ x = Seen(c).blockids[j] => b = c /\ i = j
  BY <1>1, <1>2, <1>3, <1>4 DEF FilePart, Claimed
<1> QED BY <1>5 DEF x

LEMMA OrderedDirectoryAgrees == ASSUME Ordered PROVE DirectoryAgrees
  BY DEF Ordered, DirPart, Listed, DirectoryAgrees

LEMMA OrderedLocksHeld == ASSUME IInv, Ordered PROVE LocksHeld
<1> SUFFICES ASSUME odd = {}, NEW b \in Files
             PROVE  Cardinality({t \in Tasks : fptr[t].id = b}) = IF disk[b].lock THEN 1 ELSE 0
  BY DEF LocksHeld
<1>1. FilePart
  BY DEF Ordered
<1>2. ASSUME NEW t \in Tasks, fptr[t].id = b
      PROVE  disk[b].lock /\ {u \in Tasks : fptr[u].id = b} = {t}
  <2>1. fptr[t] # NoFile
    BY <1>2, IdleType DEF Files
  <2> QED BY <1>1, <1>2, <2>1 DEF FilePart, Opened
<1>3. CASE disk[b].lock
  <2>1. PICK t \in Tasks : fptr[t].id = b
    BY <1>1, <1>3 DEF FilePart, LocksOpen
  <2>2. {u \in Tasks : fptr[u].id = b} = {t}
    BY <1>2, <2>1
  <2> QED BY <1>3, <2>2, FS_Singleton
<1>4. CASE ~disk[b].lock
  <2>1. {u \in Tasks : fptr[u].id = b} = {}
    BY <1>2, <1>4
  <2> QED BY <1>4, <2>1, FS_EmptySet
<1> QED BY <1>3, <1>4

-----------------------------------------------------------------------------
(* Theorems *)

\* IInv holds in every reachable state.
THEOREM Inductive == Spec => []IInv
  BY InitIInv, NextKeeps, PTL DEF Spec

\* The blocks, the table and the copies that tasks have of them (fs.c) keep
\* their types: no operation loses its block, or leaves the blocks of its file.
THEOREM TypeCorrect == Spec => []TypeOK
<1>1. IInv => TypeOK
  BY DEF IInv
<1> QED BY <1>1, Inductive, PTL

\* However many tasks use the disk, and wherever the machine is restarted, the
\* block allocation table (blocks.c:94-181) only holds free blocks that nobody has
\* been given, and gives none of them twice: until two calls are in
\* _Ifs1NewBlockFromBAT at the same time, or a task is killed there.  None of the
\* other exceptional events harms the table.
THEOREM TableIsFree == Spec => []BatFree
<1>1. IInv => BatFree
  BY DEF IInv
<1> QED BY <1>1, Inductive, PTL

\* Files, open files and directory are in order in every history without an
\* event of odd, whatever else the tasks do between the accesses to the disk.
THEOREM OrderKept == Spec => []Ordered
<1>1. IInv /\ Ordered /\ [Next]_vars => (IInv /\ Ordered)'
  BY NextKeeps, NextOrder
<1>2. Init => IInv /\ Ordered
  BY InitIInv, InitOrder
<1> QED BY <1>1, <1>2, PTL DEF Spec

\* Until one of those events no data block of a file belongs to another, or to
\* two places of one, or is free: writing a file (fs.c:1953-1991) frees its own
\* blocks only, block by block, and what is allocated was free, whoever else
\* writes, creates, deletes, or is killed elsewhere than between the release of a
\* block and its removal from the file (fs.c:1969-1971), meanwhile.
THEOREM BlocksOwned == Spec => []OneOwner
  BY Inductive, OrderKept, OrderedOneOwner, PTL

\* Until then the directory and the files agree, but for those just being
\* created (fs.c:301-332) or deleted (fs.c:1195-1219): no file without entry, no
\* entry without file, no name twice.  Renaming a closed file to a name that
\* nobody has or is creating (fs.c:692-708), and listings that write the directory
\* back as they read it (fs.c:547-582, 600-639) with nobody else changing it
\* meanwhile, are no exceptions.
THEOREM DirectoryInOrder == Spec => []DirectoryAgrees
  BY OrderKept, OrderedDirectoryAgrees, PTL

\* And the lock in a file's block tells whether a task has the file open, and
\* then one task has: over openings, closings and kills, unless between the lock
\* on the disk and the task's table (syscall/fs.c:133-134, 169-170), and the repair
\* of a disk that was not shut down (fs.c:1797-1935, fs.c:2528-2593).
THEOREM LocksTell == Spec => []LocksHeld
  BY Inductive, OrderKept, OrderedLocksHeld, PTL
-----------------------------------------------------------------------------
(* The same disk from power on to power off (Session) *)

\* What a stopped or starting machine finds: the files that are locked and not
\* open are the business of a session before this one, which did not end.
\* Unless it was the one who had system.lock or a file open at the wrong moment,
\* system.lock is there to be opened, and tells.
Told ==
  mishaps \cap {"lockedout", "unmarked"} = {} =>
    /\ systemLocked <=> pc \in {"test", "marked", "clear", "cleared"}
    /\ pc \in {"off", "boot", "read", "enter", "test", "dead"} =>
         marked \/ locked \cap RepairedFiles \subseteq open
    /\ pc = "repair" => marked /\ locked \cap RepairedFiles \subseteq left \cup open
    /\ pc \in {"marked", "run", "clear", "cleared", "log", "logged", "end"} =>
         locked \cap RepairedFiles \subseteq open
    /\ pc \in {"marked", "run", "clear"} => marked

\* A file that no repair unlocks is locked only when it is open, unless a session
\* ended with one open.
Elsewhere == "unrepaired" \notin mishaps => locked \ RepairedFiles \subseteq open

\* A vital file is locked only when it is open, and so the start finds it
\* unlocked.
Readable ==
  "vital" \notin mishaps => Vital \cap locked \subseteq open /\ pc # "dead"

\* While the machine is off or starts nothing is open but what is being
\* read, and at first only vital files are left to be read.
StartsClosed ==
  /\ pc \in {"off", "boot", "enter", "test", "marked", "repair", "dead"} => open = {}
  /\ pc = "read" => \E f \in SystemFiles : open = {f}
  /\ pc \in {"boot", "read"} => left \subseteq Vital
  /\ pc = "logged" => SystemLog \in open

SessionInv == SessionTypeOK /\ StartsClosed /\ Told /\ Elsewhere /\ Readable

LEMMA InitSession == SessionInit => SessionInv
  BY DEF SessionInit, SessionInv, SessionTypeOK, StartsClosed, Told, Elsewhere, Readable

LEMMA NextTypeOK == SessionTypeOK /\ [SessionNext]_session => SessionTypeOK'
<1> SUFFICES ASSUME SessionTypeOK, [SessionNext]_session PROVE SessionTypeOK'
  OBVIOUS
<1> USE SessionAssumption
<1>1. CASE Boot
  BY <1>1 DEF Boot, BootOpen, BootClose, BootFails, BootEnds, EnterOpen, EnterFails,
     EnterMark, EnterClose, EnterDirty, Repair, RepairEnds, ToRepair, Goto, Open,
     Close, SessionTypeOK, locks
<1>2. CASE Leave
  BY <1>2 DEF Leave, LeaveOpen, LeaveFails, LeaveClear, LeaveClose, LogOpen,
     LogClose, LogFails, Goto, Open, Close, SessionTypeOK, locks
<1>3. CASE PowerOn \/ PowerOff
  BY <1>3 DEF PowerOn, PowerOff, Goto, SessionTypeOK, locks
<1>4. ASSUME NEW f \in SystemFiles, TaskOpen(f) \/ TaskClose(f) PROVE SessionTypeOK'
  BY <1>4 DEF TaskOpen, TaskClose, Open, Close, SessionTypeOK
<1>5. CASE UNCHANGED session
  BY <1>5 DEF session, locks, SessionTypeOK
<1> QED BY <1>1, <1>2, <1>3, <1>4, <1>5 DEF SessionNext

LEMMA NextStartsClosed == SessionTypeOK /\ StartsClosed /\ [SessionNext]_session => StartsClosed'
<1> SUFFICES ASSUME SessionTypeOK, StartsClosed, [SessionNext]_session PROVE StartsClosed'
  OBVIOUS
<1> USE SessionAssumption DEF StartsClosed
<1>1. CASE Boot
  BY <1>1 DEF Boot, BootOpen, BootClose, BootFails, BootEnds, EnterOpen, EnterFails,
     EnterMark, EnterClose, EnterDirty, Repair, RepairEnds, Goto, Open, Close,
     locks
<1>2. CASE Leave
  BY <1>2 DEF Leave, LeaveOpen, LeaveFails, LeaveClear, LeaveClose, LogOpen,
     LogClose, LogFails, Goto, Open, Close, locks
<1>3. CASE PowerOn \/ PowerOff
  BY <1>3 DEF PowerOn, PowerOff, Goto
<1>4. ASSUME NEW f \in SystemFiles, TaskOpen(f) \/ TaskClose(f) PROVE StartsClosed'
  BY <1>4 DEF TaskOpen, TaskClose, Open, Close, Running
<1>5. CASE UNCHANGED session
  BY <1>5 DEF session
<1> QED BY <1>1, <1>2, <1>3, <1>4, <1>5 DEF SessionNext

LEMMA NextTold == SessionTypeOK /\ StartsClosed /\ Told /\ [SessionNext]_session => Told'
<1> SUFFICES ASSUME SessionTypeOK, StartsClosed, Told, [SessionNext]_session,
                    mishaps' \cap {"lockedout", "unmarked"} = {}
             PROVE  Told'
  BY DEF Told
<1> USE SessionAssumption
<1>0. mishaps \cap {"lockedout", "unmarked"} = {}
  BY DEF SessionNext, PowerOn, Boot, Leave, PowerOff, TaskOpen, TaskClose, BootOpen,
     BootClose, BootFails, BootEnds, EnterOpen, EnterFails, EnterMark, EnterClose,
     EnterDirty, Repair, RepairEnds, LeaveOpen, LeaveFails, LeaveClear, LeaveClose,
     LogOpen, LogClose, LogFails, session
<1>1. CASE BootFails \/ BootEnds \/ \E f \in SystemFiles : BootOpen(f) \/ BootClose(f)
  BY <1>0, <1>1 DEF BootOpen, BootClose, BootFails, BootEnds, Goto, Open, Close,
     Told, StartsClosed, locks
<1>2. CASE EnterOpen \/ EnterFails \/ EnterMark \/ EnterClose
  BY <1>0, <1>2 DEF EnterOpen, EnterFails, EnterMark, EnterClose, Goto, Told,
     StartsClosed, locks
<1>3. CASE EnterDirty \/ RepairEnds \/ \E f \in SystemFiles : Repair(f)
  BY <1>0, <1>3 DEF EnterDirty, Repair, RepairEnds, ToRepair, Goto, Told, StartsClosed,
     SessionTypeOK, locks
<1>4. CASE LeaveOpen \/ LeaveFails \/ LeaveClear \/ LeaveClose
  BY <1>0, <1>4 DEF LeaveOpen, LeaveFails, LeaveClear, LeaveClose, Goto, Told, locks
<1>5. CASE LogOpen \/ LogClose \/ LogFails
  BY <1>0, <1>5 DEF LogOpen, LogClose, LogFails, Goto, Open, Close, Told, locks
<1>6. CASE PowerOn
  BY <1>0, <1>6 DEF PowerOn, Goto, Told, locks
<1>7. CASE PowerOff
  <2>1. ~(pc \in {"test", "marked", "clear", "cleared"}) /\ (marked \/ open = {})
    BY <1>7 DEF PowerOff
  <2>2. UNCHANGED locks /\ pc' = "off" /\ open' = {}
    BY <1>7 DEF PowerOff
  <2> QED BY <1>0, <2>1, <2>2 DEF Told, SessionTypeOK, locks
<1>8. ASSUME NEW f \in SystemFiles, TaskOpen(f) \/ TaskClose(f) PROVE Told'
  BY <1>0, <1>8 DEF TaskOpen, TaskClose, Open, Close, Running, Told
<1>9. CASE UNCHANGED session
  BY <1>0, <1>9 DEF session, locks, Told
<1> QED BY <1>1, <1>2, <1>3, <1>4, <1>5, <1>6, <1>7, <1>8, <1>9 DEF SessionNext, Boot, Leave

LEMMA NextElsewhere == SessionTypeOK /\ StartsClosed /\ Elsewhere /\ [SessionNext]_session => Elsewhere'
<1> SUFFICES ASSUME SessionTypeOK, StartsClosed, Elsewhere, [SessionNext]_session,
                    "unrepaired" \notin mishaps'
             PROVE  Elsewhere'
  BY DEF Elsewhere
<1> USE SessionAssumption
<1>0. "unrepaired" \notin mishaps
  BY DEF SessionNext, PowerOn, Boot, Leave, PowerOff, TaskOpen, TaskClose, BootOpen,
     BootClose, BootFails, BootEnds, EnterOpen, EnterFails, EnterMark, EnterClose,
     EnterDirty, Repair, RepairEnds, LeaveOpen, LeaveFails, LeaveClear, LeaveClose,
     LogOpen, LogClose, LogFails, session
<1>1. CASE Boot
  BY <1>0, <1>1 DEF Boot, BootOpen, BootClose, BootFails, BootEnds, EnterOpen,
     EnterFails, EnterMark, EnterClose, EnterDirty, Repair, RepairEnds, Goto, Open,
     Close, Elsewhere, StartsClosed, locks
<1>2. CASE Leave
  BY <1>0, <1>2 DEF Leave, LeaveOpen, LeaveFails, LeaveClear, LeaveClose, LogOpen,
     LogClose, LogFails, Goto, Open, Close, Elsewhere, locks
<1>3. CASE PowerOn
  BY <1>0, <1>3 DEF PowerOn, Goto, Elsewhere, locks
<1>4. CASE PowerOff
  BY <1>0, <1>4 DEF PowerOff, Elsewhere, locks
<1>5. ASSUME NEW f \in SystemFiles, TaskOpen(f) \/ TaskClose(f) PROVE Elsewhere'
  BY <1>0, <1>5 DEF TaskOpen, TaskClose, Open, Close, Elsewhere
<1>6. CASE UNCHANGED session
  BY <1>0, <1>6 DEF session, locks, Elsewhere
<1> QED BY <1>1, <1>2, <1>3, <1>4, <1>5, <1>6 DEF SessionNext

LEMMA NextReadable == SessionTypeOK /\ StartsClosed /\ Readable /\ [SessionNext]_session => Readable'
<1> SUFFICES ASSUME SessionTypeOK, StartsClosed, Readable, [SessionNext]_session,
                    "vital" \notin mishaps'
             PROVE  Readable'
  BY DEF Readable
<1> USE SessionAssumption
<1>0. "vital" \notin mishaps
  BY DEF SessionNext, PowerOn, Boot, Leave, PowerOff, TaskOpen, TaskClose, BootOpen,
     BootClose, BootFails, BootEnds, EnterOpen, EnterFails, EnterMark, EnterClose,
     EnterDirty, Repair, RepairEnds, LeaveOpen, LeaveFails, LeaveClear, LeaveClose,
     LogOpen, LogClose, LogFails, session
<1>1. CASE Boot
  BY <1>0, <1>1 DEF Boot, BootOpen, BootClose, BootFails, BootEnds, EnterOpen,
     EnterFails, EnterMark, EnterClose, EnterDirty, Repair, RepairEnds, Goto, Open,
     Close, Readable, StartsClosed, locks
<1>2. CASE Leave
  BY <1>0, <1>2 DEF Leave, LeaveOpen, LeaveFails, LeaveClear, LeaveClose, LogOpen,
     LogClose, LogFails, Goto, Open, Close, Readable, locks
<1>3. CASE PowerOn
  BY <1>0, <1>3 DEF PowerOn, Goto, Readable, locks
<1>4. CASE PowerOff
  BY <1>0, <1>4 DEF PowerOff, Readable, locks
<1>5. ASSUME NEW f \in SystemFiles, TaskOpen(f) \/ TaskClose(f) PROVE Readable'
  BY <1>0, <1>5 DEF TaskOpen, TaskClose, Open, Close, Readable
<1>6. CASE UNCHANGED session
  BY <1>0, <1>6 DEF session, locks, Readable
<1> QED BY <1>1, <1>2, <1>3, <1>4, <1>5, <1>6 DEF SessionNext

\* The inductive invariant of Session holds of every state.
THEOREM SessionInductive == SessionSpec => []SessionInv
<1>1. SessionInv /\ [SessionNext]_session => SessionInv'
  BY NextTypeOK, NextStartsClosed, NextTold, NextElsewhere, NextReadable DEF SessionInv
<1> QED BY <1>1, InitSession, PTL DEF SessionSpec

\* For any set of files and any number of sessions, ended at any moment but the
\* exceptional ones that Unlocked names: once _KnlEnterSystem returns, no file of
\* the disks that are repaired is locked that is not open, and none of another
\* disk either unless a session ended with such a file open.
THEOREM Recovers == SessionSpec => []Unlocked
<1>1. SessionInv => Unlocked
  BY DEF SessionInv, Told, Elsewhere, Unlocked
<1> QED BY <1>1, SessionInductive, PTL

\* For any set of files: config_init and EnfntInit find their files unlocked, unless
\* the machine stopped with one open.
THEOREM BootsUnlessOpen == SessionSpec => []Boots
<1>1. SessionInv => Boots
  BY DEF SessionInv, Readable, Boots
<1> QED BY <1>1, SessionInductive, PTL
=============================================================================
