-------------------------------- MODULE Ifs1 --------------------------------
(***************************************************************************)
(* The IFS1 file system of one disk (kernel/fs/ifs1/blocks.c and fs.c),    *)
(* used by several tasks, with kills (kernel/tasks.c), and with restarts   *)
(* of the machine at any moment.                                           *)
(*                                                                         *)
(* Its lock is never enabled (kernel.c:298), so that other tasks run       *)
(* between any two accesses to the disk.  A step is the search for a path, *)
(* or the write of a block with what is done in memory around it.  The     *)
(* disk holds one directory, and the length of a file is a number of data  *)
(* blocks.                                                                 *)
(***************************************************************************)
EXTENDS Naturals, Sequences, FiniteSets

CONSTANTS
  Tasks, Names, NONE,
  START_BLOCK_ID, LastBlock,     \* the blocks besides that of the directory
  DirSize, FileSize,             \* entries of a directory, blocks of a file
  DEFAULT_INIT_BAT_COUNT

ASSUME Ifs1Assumption ==
  /\ NONE \notin Names \cup {"create", "delete", "rename", "list", "open", "write", "append", "close"}
  /\ START_BLOCK_ID \in Nat \ {0} /\ LastBlock \in Nat
  /\ DirSize \in Nat /\ FileSize \in Nat
  /\ DEFAULT_INIT_BAT_COUNT \in Nat

INVALID_BLOCK_ID == 0
Blocks == START_BLOCK_ID .. LastBlock
Ids == Blocks \cup {INVALID_BLOCK_ID}
Entries == 1 .. DirSize
Indexes == 1 .. FileSize
DirBlock == [Entries -> Ids]

NoBlocks == [i \in Indexes |-> INVALID_BLOCK_ID]
RawBlock == [used : BOOLEAN, type : {"file", "data"}, name : Names \cup {NONE},
             lock : BOOLEAN, blockids : [Indexes -> Ids], length : 0 .. FileSize]

\* A file block as Ifs1FillFileBlock makes it, and a data block.
NewFile(n) == [used |-> TRUE, type |-> "file", name |-> n, lock |-> FALSE,
               blockids |-> NoBlocks, length |-> 0]
NewData == [used |-> TRUE, type |-> "data", name |-> NONE, lock |-> FALSE,
            blockids |-> NoBlocks, length |-> 0]

VARIABLES
  disk, dir,       \* the blocks, and the entries of the directory
  bat,             \* the block allocation table
  fptr,            \* each task's file object: its block's id, and a copy of it
  op,              \* what each task is doing
  odd              \* the exceptional events so far

vars == <<disk, dir, bat, fptr, op, odd>>

NoFile == [id |-> INVALID_BLOCK_ID, block |-> NewData]

NoDir == [e \in Entries |-> INVALID_BLOCK_ID]

\* Where a task is, in which operation, with which block, copies of a block and
\* of the directory, and which blocks of its file are still to be allocated for
\* which length; and whether the directory changed since it was read.
Idle == [pc |-> "idle", what |-> NONE, id |-> INVALID_BLOCK_ID, block |-> NewData, dir |-> NoDir,
         todo |-> <<>>, length |-> 0, late |-> FALSE]

Operation ==
  [pc : {"idle", "take", "shift", "set", "enter", "unuse", "read", "clear", "rename", "list",
         "lock", "opened", "free", "forget", "save", "closing"},
   what : {NONE, "create", "delete", "rename", "list", "open", "write", "append", "close"},
   id : Ids, block : RawBlock, dir : DirBlock,
   todo : Seq(Indexes), length : 0 .. FileSize, late : BOOLEAN]

Free == {b \in Blocks : ~disk[b].used}

\* _Ifs1FillBAT: the first free blocks of d, in their order, so that a set and
\* its least element stand for the list and its head.  (Ifs1DeleteBlock adds to
\* the list, but only Ifs1Format calls it.)
FilledBAT(d) ==
  LET free == {b \in Blocks : ~d[b].used} IN
  {b \in free : Cardinality({c \in free : c < b}) < DEFAULT_INIT_BAT_COUNT}

\* A formatted disk, and Ifs1InitBlocks.
Init ==
  /\ disk = [b \in Blocks |-> [NewData EXCEPT !.used = FALSE]]
  /\ dir = NoDir
  /\ bat = FilledBAT(disk)
  /\ fptr = [t \in Tasks |-> NoFile] /\ op = [t \in Tasks |-> Idle]
  /\ odd = {}
-----------------------------------------------------------------------------
(* Blocks *)

Become(t, r) == op' = [op EXCEPT ![t] = r]

\* What its next allocation is for: the operation goes on after it.
GoOn(r) == IF r.todo = <<>> THEN [r EXCEPT !.pc = "save"] ELSE [r EXCEPT !.pc = "take"]

\* Ifs1AddBlock fails.  Creating and appending give up; writing goes on, with a
\* block of the file that is not there.
AddFails(t) ==
  /\ Become(t, IF op[t].what = "write" THEN GoOn([op[t] EXCEPT !.todo = Tail(@)]) ELSE Idle)
  /\ UNCHANGED <<disk, dir, fptr>>

\* A block is found, and will be written.
Found(t, b) ==
  /\ Become(t, [op[t] EXCEPT !.pc = "set", !.id = b])
  /\ UNCHANGED <<disk, dir, fptr>>

\* The first block of a set.
First(S) == CHOOSE b \in S : \A c \in S : b <= c

\* Ifs1AddBlock with _Ifs1NewBlockFromBAT, which looks at the head of the
\* table.  Nothing keeps two tasks from looking at it at the same time.
TakeFromBAT(t) ==
  /\ op[t].pc = "take" /\ bat # {}
  /\ Become(t, [op[t] EXCEPT !.pc = "shift", !.id = First(bat)])
  /\ odd' = odd \cup (IF \E u \in Tasks \ {t} : op[u].pc = "shift" THEN {"table"} ELSE {})
  /\ UNCHANGED <<disk, dir, bat, fptr>>

\* The block that was taken is read.
Taken(t, b) == IF disk[b].used THEN AddFails(t) ELSE Found(t, b)

\* (mutant) The table keeps the block.
Shifted_Not(b) == bat

\* dsl_lnklst_shift_node.
Shifted(b) == bat \ {b}

\* The head is taken...
Shift(t) ==
  /\ op[t].pc = "shift"
  /\ bat' = Shifted(op[t].id)
  /\ Taken(t, op[t].id)
  /\ UNCHANGED odd

\* ... but the pointer to the table is static, and a caller for another disk may
\* have set it meanwhile.  What t takes is from that disk's table then, and may be
\* beyond this disk.
ShiftOther(t) ==
  /\ op[t].pc = "shift" /\ odd' = odd \cup {"table"}
  /\ AddFails(t) \/ \E b \in Blocks : Taken(t, b)
  /\ UNCHANGED bat

\* Or t has set it, and the caller for another disk takes from the table of this.
ShiftedByOther(t) ==
  /\ op[t].pc = "shift" /\ bat # {}
  /\ bat' = Shifted(First(bat)) /\ odd' = odd \cup {"table"}
  /\ UNCHANGED <<disk, dir, fptr, op>>

\* The table being empty, the first block that is free is taken.
TakeByScan(t) ==
  /\ op[t].pc = "take" /\ bat = {}
  /\ IF Free = {} THEN AddFails(t) ELSE Found(t, First(Free))
  /\ UNCHANGED <<bat, odd>>

\* Its end, Ifs1SetBlock: somebody else may have found the same block since, or
\* be about to take it out of the directory.  (A kill right after the write of a
\* data block would leave it used and in no file.)
SetBlock(t) ==
  LET b == op[t].id IN
  /\ op[t].pc = "set"
  /\ disk' = [disk EXCEPT ![b] = op[t].block]
  /\ odd' = odd \cup (IF \/ disk[b].used \/ \E e \in Entries : dir[e] = b
                        \/ \E u \in Tasks : op[u].pc \in {"read", "clear"} /\ op[u].id = b
                     THEN {"scanned"} ELSE {})
  /\ IF op[t].what = "create"
     THEN Become(t, [op[t] EXCEPT !.pc = "enter"]) /\ UNCHANGED fptr
     ELSE /\ fptr' = [fptr EXCEPT ![t].block.blockids[Head(op[t].todo)] = b]
          /\ Become(t, GoOn([op[t] EXCEPT !.todo = Tail(@)]))
  /\ UNCHANGED <<dir, bat>>
-----------------------------------------------------------------------------
(* The directory *)

\* Entries that name a file n; Ifs1ParsePathEx does not ask whether it is used.
Entered(n) == {e \in Entries : /\ dir[e] # INVALID_BLOCK_ID
                               /\ disk[dir[e]].type = "file" /\ disk[dir[e]].name = n}

ParsePath(n) ==
  IF Entered(n) = {} THEN INVALID_BLOCK_ID
  ELSE dir[CHOOSE e \in Entered(n) : \A f \in Entered(n) : e <= f]

\* (mutant) Nothing exists.
FileExists_Never(n) == FALSE

\* _Ifs1FileExists does.
FileExists(n) == \E e \in Entered(n) : disk[dir[e]].used

\* _Ifs1CreateFile: the directory is read, and the name looked for in it...
CreateFile(t, n) ==
  /\ op[t] = Idle /\ ~FileExists(n)
  /\ Become(t, [Idle EXCEPT !.pc = "take", !.what = "create", !.block = NewFile(n), !.dir = dir])
  /\ UNCHANGED <<disk, dir, bat, fptr, odd>>

\* t has written the directory.  If that changed it, what others read of it
\* before is out of date, but they will write it.
Written(t) ==
  /\ op' = [u \in Tasks |->
              IF u = t THEN Idle
              ELSE IF op[u].what \in {"create", "delete", "list"} /\ dir' # dir THEN [op[u] EXCEPT !.late = TRUE]
              ELSE op[u]]
  /\ odd' = odd \cup (IF op[t].late THEN {"stale"} ELSE {})

\* ... a block is allocated (above) and the directory written, as it was read,
\* with the block in the first free entry.  If there is none the block is lost.
Enter(t) ==
  LET d == op[t].dir
      free == {e \in Entries : d[e] = INVALID_BLOCK_ID} IN
  /\ op[t].pc = "enter"
  /\ \/ /\ free = {} /\ UNCHANGED dir
        /\ Become(t, Idle) /\ odd' = odd \cup {"lost"}
     \/ /\ \E e \in free : /\ \A f \in free : e <= f
                           /\ dir' = [d EXCEPT ![e] = op[t].id]
        /\ Written(t)
  /\ UNCHANGED <<disk, bat, fptr>>

\* The test of _Ifs1DeleteFile.
Deletable(b) == b.used /\ ~b.lock

\* Ifs1DeleteFile reads the file's block and tests it...
DeleteFile(t, n) ==
  LET b == ParsePath(n) IN
  /\ op[t] = Idle /\ b # INVALID_BLOCK_ID /\ Deletable(disk[b])
  /\ Become(t, [Idle EXCEPT !.pc = "unuse", !.what = "delete", !.id = b, !.block = disk[b]])
  /\ UNCHANGED <<disk, dir, bat, fptr, odd>>

\* ... writes it as unused, leaving its data blocks as they are...  Besides what
\* the block holds, what has changed may be whose block it is: another task may
\* have deleted the file, and made a file of the same name of the same block,
\* that has no entry yet.
Unuse(t) ==
  LET b == op[t].id IN
  /\ op[t].pc = "unuse"
  /\ disk' = [disk EXCEPT ![b] = [op[t].block EXCEPT !.used = FALSE]]
  /\ odd' = odd \cup (IF disk[b] # op[t].block \/ \A e \in Entries : dir[e] # b THEN {"changed"} ELSE {})
  /\ Become(t, [Idle EXCEPT !.pc = "read", !.what = "delete", !.id = b])
  /\ UNCHANGED <<dir, bat, fptr>>

\* ... reads the directory...
ReadDir(t) ==
  /\ op[t].pc = "read"
  /\ Become(t, [op[t] EXCEPT !.pc = "clear", !.dir = dir, !.late = FALSE])
  /\ UNCHANGED <<disk, dir, bat, fptr, odd>>

\* ... and writes it without the entry.
ClearEntry(t) ==
  LET d == op[t].dir
      hits == {e \in Entries : d[e] = op[t].id} IN
  /\ op[t].pc = "clear"
  /\ dir' = [e \in Entries |-> IF e \in hits /\ \A f \in hits : e <= f THEN INVALID_BLOCK_ID ELSE d[e]]
  /\ Written(t)
  /\ UNCHANGED <<disk, bat, fptr>>

\* Ifs1RenameFile reads the file's block...
RenameFile(t, n, m) ==
  LET b == ParsePath(n) IN
  /\ op[t] = Idle /\ b # INVALID_BLOCK_ID /\ disk[b].used
  /\ Become(t, [Idle EXCEPT !.pc = "rename", !.what = "rename", !.id = b, !.block = [disk[b] EXCEPT !.name = m]])
  /\ UNCHANGED <<disk, dir, bat, fptr, odd>>

\* ... and writes it with the new name, whether there is such a file or not, and
\* whether the file is open, so that the name will be written again, or not.
Rename(t) ==
  LET b == op[t].id
      m == op[t].block.name IN
  /\ op[t].pc = "rename"
  /\ disk' = [disk EXCEPT ![b] = op[t].block]
  /\ odd' = odd \cup (IF [disk[b] EXCEPT !.name = m] # op[t].block \/ \A e \in Entries : dir[e] # b
                      THEN {"changed"} ELSE {})
               \cup (IF \/ disk[b].lock
                        \/ \E e \in Entered(m) : dir[e] # b /\ disk[dir[e]].used
                        \/ \E u \in Tasks : op[u].what = "create" /\ op[u].block.name = m
                     THEN {"renamed"} ELSE {})
  /\ Become(t, Idle)
  /\ UNCHANGED <<dir, bat, fptr>>

\* _Ifs1GetItems (the first k entries) and _Ifs1GetItemList (all) read the
\* directory and the blocks in it, and drop the entries of unused ones...
ListDir(t, k) ==
  LET kept == {e \in Entries : e > k \/ (dir[e] # INVALID_BLOCK_ID /\ disk[dir[e]].used)} IN
  /\ op[t] = Idle
  /\ Become(t, [Idle EXCEPT !.pc = "list", !.what = "list",
                            !.dir = [e \in Entries |-> IF e \in kept THEN dir[e] ELSE INVALID_BLOCK_ID]])
  /\ UNCHANGED <<disk, dir, bat, fptr, odd>>

\* ... those that others free before they are read too...
DropEntry(t, e) ==
  /\ op[t].pc = "list" /\ op[t].dir[e] # INVALID_BLOCK_ID /\ ~disk[op[t].dir[e]].used
  /\ Become(t, [op[t] EXCEPT !.dir[e] = INVALID_BLOCK_ID])
  /\ UNCHANGED <<disk, dir, bat, fptr, odd>>

\* ... and write it.
WriteList(t) ==
  /\ op[t].pc = "list"
  /\ dir' = op[t].dir
  /\ Written(t)
  /\ UNCHANGED <<disk, bat, fptr>>
-----------------------------------------------------------------------------
(* Files *)

\* The test of _Ifs1OpenFileUnsafely.
Openable(b) == ~b.lock

\* Ifs1OpenFile reads the block and tests its lock...
OpenFile(t, n) ==
  LET b == ParsePath(n) IN
  /\ op[t] = Idle /\ fptr[t] = NoFile
  /\ b # INVALID_BLOCK_ID /\ Openable(disk[b])
  /\ Become(t, [Idle EXCEPT !.pc = "lock", !.what = "open", !.id = b, !.block = disk[b]])
  /\ UNCHANGED <<disk, dir, bat, fptr, odd>>

\* ... and writes it with the lock.  The file object is not yet in the task's
\* table of open files...
LockFile(t) ==
  LET b == op[t].id
      locked == [op[t].block EXCEPT !.lock = TRUE] IN
  /\ op[t].pc = "lock"
  /\ disk' = [disk EXCEPT ![b] = locked]
  /\ fptr' = [fptr EXCEPT ![t] = [id |-> b, block |-> locked]]
  /\ odd' = odd \cup (IF disk[b] # op[t].block THEN {"changed"} ELSE {})
               \cup (IF ~disk[b].used THEN {"dead"} ELSE {})
  /\ Become(t, [Idle EXCEPT !.pc = "opened", !.what = "open"])
  /\ UNCHANGED <<dir, bat>>

\* ... where SCALL_FOPEN records it.
Record(t) ==
  /\ op[t].pc = "opened"
  /\ Become(t, Idle)
  /\ UNCHANGED <<disk, dir, bat, fptr, odd>>

\* The places of a file that have a block.
Holds(f) == {i \in Indexes : f.blockids[i] # INVALID_BLOCK_ID}

\* Writing frees the blocks of the file f first.
FreeOn(f, r) == IF Holds(f) = {} THEN GoOn(r) ELSE [r EXCEPT !.pc = "free"]

\* Ifs1WriteFile, to a length of n blocks: each block of the file...
WriteFile(t, n) ==
  /\ op[t] = Idle /\ fptr[t] # NoFile
  /\ Become(t, FreeOn(fptr[t].block,
                      [Idle EXCEPT !.what = "write", !.todo = [i \in 1 .. n |-> i], !.length = n]))
  /\ UNCHANGED <<disk, dir, bat, fptr, odd>>

\* ... is written as unused, and otherwise as the stack happens to be: nothing but
\* an entry of the directory leads to what an unused block holds...
FreeBlock(t) ==
  LET f == fptr[t].block IN
  /\ op[t].pc = "free"
  /\ disk' = [disk EXCEPT ![f.blockids[First(Holds(f))]] = [NewData EXCEPT !.used = FALSE]]
  /\ Become(t, [op[t] EXCEPT !.pc = "forget"])
  /\ UNCHANGED <<dir, bat, fptr, odd>>

\* (mutant) The file keeps it.
Without_Not(f) == f

\* The file f without its first block.
Without(f) == [f EXCEPT !.blockids[First(Holds(f))] = INVALID_BLOCK_ID]

\* ... and taken from the file.
Forget(t) ==
  LET f == Without(fptr[t].block) IN
  /\ op[t].pc = "forget"
  /\ fptr' = [fptr EXCEPT ![t].block = f]
  /\ Become(t, FreeOn(f, op[t]))
  /\ UNCHANGED <<disk, dir, bat, odd>>

\* _Ifs1AppendFileWithoutBufferUnsafely, of one block.
AppendFile(t) ==
  LET f == fptr[t].block IN
  /\ op[t] = Idle /\ fptr[t] # NoFile /\ f.length < FileSize
  /\ Become(t, GoOn([Idle EXCEPT !.what = "append", !.todo = <<f.length + 1>>, !.length = f.length + 1]))
  /\ UNCHANGED <<disk, dir, bat, fptr, odd>>

\* When all blocks are allocated, the file's block is written.
Save(t) ==
  LET f == [fptr[t].block EXCEPT !.length = op[t].length] IN
  /\ op[t].pc = "save"
  /\ fptr' = [fptr EXCEPT ![t].block = f]
  /\ disk' = [disk EXCEPT ![fptr[t].id] = f]
  /\ Become(t, Idle)
  /\ UNCHANGED <<dir, bat, odd>>

\* What closing t's file, if it has one, leaves on the disk.
Closed(t) ==
  IF fptr[t] = NoFile THEN disk
  ELSE [disk EXCEPT ![fptr[t].id] = [fptr[t].block EXCEPT !.lock = FALSE]]

\* SCALL_FCLOSE takes the file out of the task's table...
CloseFile(t) ==
  /\ op[t] = Idle /\ fptr[t] # NoFile
  /\ Become(t, [Idle EXCEPT !.pc = "closing", !.what = "close"])
  /\ UNCHANGED <<disk, dir, bat, fptr, odd>>

\* ... and Ifs1CloseFile writes its block.
WriteClosed(t) ==
  /\ op[t].pc = "closing"
  /\ disk' = Closed(t) /\ fptr' = [fptr EXCEPT ![t] = NoFile]
  /\ Become(t, Idle)
  /\ UNCHANGED <<dir, bat, odd>>
-----------------------------------------------------------------------------
(* Kills and restarts *)

\* An operation that does not end leaves its work undone in the directory, in
\* the file that is written, or in the table of blocks; or a file open that is
\* in no task's table.
LeftBy(pc) ==
  CASE pc \in {"enter", "read", "clear"} -> {"cut"}
    [] pc = "forget" -> {"torn"}
    [] pc = "shift" -> {"table"}
    [] pc \in {"opened", "closing"} -> {"unheld"}
    [] OTHER -> {}

\* _TskmgrKillTask ends whatever t was doing, and closes the file in its table.
Kill(t) ==
  /\ op[t] # Idle \/ fptr[t] # NoFile
  /\ disk' = IF op[t].pc \in {"opened", "closing"} THEN disk ELSE Closed(t)
  /\ fptr' = [fptr EXCEPT ![t] = NoFile]
  /\ odd' = odd \cup LeftBy(op[t].pc)
  /\ Become(t, Idle)
  /\ UNCHANGED <<dir, bat>>

\* (mutant) Repair leaves the locks.
Repaired_Not(d) == d

\* _Ifs1RepairFiles: the files of the directory are unlocked.
Repaired(d) ==
  [b \in Blocks |-> IF (\E e \in Entries : dir[e] = b) /\ d[b].used /\ d[b].type = "file"
                    THEN [d[b] EXCEPT !.lock = FALSE] ELSE d[b]]

\* The machine stops, and starts again: KnlEnterSystem repairs the disk, having
\* found that it was not shut down, and Ifs1InitBlocks reads it.
Restart ==
  /\ disk' = Repaired(disk) /\ bat' = FilledBAT(disk')
  /\ fptr' = [t \in Tasks |-> NoFile] /\ op' = [t \in Tasks |-> Idle]
  /\ odd' = odd \cup (IF \E t \in Tasks : op[t].pc \in {"enter", "read", "clear"} THEN {"cut"} ELSE {})
               \cup (IF \E t \in Tasks : op[t].what = "write" THEN {"torn"} ELSE {})
  /\ UNCHANGED dir

Step(t) ==
  \/ \E n \in Names : CreateFile(t, n) \/ DeleteFile(t, n) \/ OpenFile(t, n)
  \/ \E n, m \in Names : RenameFile(t, n, m)
  \/ \E k \in Entries : ListDir(t, k) \/ DropEntry(t, k)
  \/ TakeFromBAT(t) \/ Shift(t) \/ ShiftOther(t) \/ ShiftedByOther(t) \/ TakeByScan(t)
  \/ SetBlock(t) \/ Enter(t) \/ Unuse(t) \/ ReadDir(t) \/ ClearEntry(t)
  \/ Rename(t) \/ WriteList(t)
  \/ LockFile(t) \/ Record(t)
  \/ \E n \in 0 .. FileSize : WriteFile(t, n)
  \/ FreeBlock(t) \/ Forget(t) \/ AppendFile(t) \/ Save(t)
  \/ CloseFile(t) \/ WriteClosed(t) \/ Kill(t)

Next == Restart \/ \E t \in Tasks : Step(t)

Spec == Init /\ [][Next]_vars
-----------------------------------------------------------------------------
(* Properties *)

\* The blocks and the copies of them have their types.
TypeOK ==
  /\ disk \in [Blocks -> RawBlock] /\ dir \in DirBlock /\ bat \subseteq Blocks
  /\ fptr \in [Tasks -> [id : Ids, block : RawBlock]]
  /\ op \in [Tasks -> Operation]
  /\ odd \subseteq {"scanned", "lost", "stale", "changed", "renamed", "dead", "cut", "torn", "table", "unheld"}

\* The block allocation table holds free blocks that nobody has been given
\* (blocks.c:366), so that no allocation from it fails, and while it lasts no
\* two tasks are given the same block: until two tasks, or one and a caller for
\* another disk, are in _Ifs1NewBlockFromBAT at the same time, or a task is
\* killed there.
BatFree ==
  "table" \notin odd =>
    /\ \A b \in bat : ~disk[b].used
    /\ \A t \in Tasks : op[t].pc = "set" => op[t].id \notin bat
    /\ \A t, u \in Tasks : op[t].pc = "set" /\ op[u].pc = "set" /\ op[t].id = op[u].id => t = u \/ bat = {}

\* The file that t has open, without the block that it has just freed.
Mine(t) ==
  LET f == fptr[t].block IN
  IF op[t].pc = "forget" THEN [f EXCEPT !.blockids[First(Holds(f))] = INVALID_BLOCK_ID] ELSE f

\* The file in block b as its user, if it has one, sees it.
Seen(b) == IF \E t \in Tasks : fptr[t].id = b THEN Mine(CHOOSE t \in Tasks : fptr[t].id = b) ELSE disk[b]

Files == {b \in Blocks : disk[b].used /\ disk[b].type = "file"}

\* No data block belongs to two files, or to two places of one, and none is
\* free, however tasks write, append, create and delete between each other's
\* accesses to the disk (fs.c:1953-1991, blocks.c:363-385): until an exceptional
\* event.
OneOwner ==
  odd = {} =>
    \A b, c \in Files, i, j \in Indexes :
      LET x == Seen(b).blockids[i] IN
      x # INVALID_BLOCK_ID =>
        /\ disk[x].used /\ disk[x].type = "data"
        /\ (x = Seen(c).blockids[j] => b = c /\ i = j)

\* The directory and the files agree: every entry names a file, no two have
\* the same name, and every file has an entry, but for those just being created
\* (fs.c:301-332) or deleted (fs.c:1195-1219), whoever renames and lists
\* meanwhile: until an exceptional event.
DirectoryAgrees ==
  odd = {} =>
    /\ \A e \in Entries : dir[e] # INVALID_BLOCK_ID =>
         dir[e] \in Files \/ \E t \in Tasks : op[t].pc \in {"read", "clear"} /\ op[t].id = dir[e]
    /\ \A e, f \in Entries : /\ dir[e] # INVALID_BLOCK_ID /\ dir[f] # INVALID_BLOCK_ID
                             /\ disk[dir[e]].name = disk[dir[f]].name /\ dir[e] \in Files /\ dir[f] \in Files
                             => e = f
    /\ \A b \in Files : (\E e \in Entries : dir[e] = b)
                        \/ \E t \in Tasks : op[t].pc = "enter" /\ op[t].id = b

\* A file that is locked on the disk (fs.c:1832) is open in one task exactly: in
\* its table, or on the way into it or out of it (syscall/fs.c:133-134, 169-170),
\* where a kill makes it an exceptional event.
LocksHeld ==
  odd = {} =>
    \A b \in Files : Cardinality({t \in Tasks : fptr[t].id = b}) = IF disk[b].lock THEN 1 ELSE 0
=============================================================================
