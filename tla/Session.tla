------------------------------ MODULE Session ------------------------------
(***************************************************************************)
(* A session of the system, from power on to power off, as the disk sees   *)
(* it: configuration and font are read (kernel/config.c, kernel/enfont.c)  *)
(* and the first task is loaded (kernel/pci.c), system.lock is tested and  *)
(* marked and the file systems repaired if need be (_KnlEnterSystem),      *)
(* files are opened and closed by the tasks and by the log (kernel/log.c), *)
(* and system.lock is cleared and the log written (_KnlLeaveSystem).       *)
(* The machine may stop between any two blocks written.  An open file is   *)
(* locked on the disk (Ifs1OpenFile), and one that is locked cannot be     *)
(* opened.                                                                 *)
(*                                                                         *)
(* The disk is that of Ifs1: the names are chosen so that one module can   *)
(* extend both.                                                            *)
(***************************************************************************)
EXTENDS Naturals

CONSTANTS
  SystemFiles,            \* those besides system.lock, of all disks
  RepairedFiles,          \* those on the disks DA and DB
  Vital,                  \* system.json, gui.json, the font
  SystemLog

\* The system disk, with Vital and SystemLog, is DA or, if there is one with a
\* system, the SATA disk SA.
ASSUME SessionAssumption ==
  /\ Vital \subseteq SystemFiles /\ SystemLog \in SystemFiles
  /\ RepairedFiles \subseteq SystemFiles

VARIABLES
  pc,                     \* where the kernel is
  locked, systemLocked,   \* the files locked on the disk; is system.lock?
  marked,                 \* is system.lock of length 1?
  open,                   \* the files that are open in this session
  left,                   \* the files still to be read, or repaired
  mishaps

locks == <<locked, systemLocked, marked>>
session == <<pc, locks, open, left, mishaps>>

SessionInit ==
  /\ pc = "off" /\ locked = {} /\ systemLocked = FALSE /\ marked = FALSE
  /\ open = {} /\ left = {} /\ mishaps = {}

Goto(a, b) == pc = a /\ pc' = b

\* Ifs1OpenFile.
Open(f) == f \notin locked /\ locked' = locked \cup {f} /\ open' = open \cup {f}

\* Ifs1CloseFile.
Close(f) == f \in open /\ locked' = locked \ {f} /\ open' = open \ {f}
-----------------------------------------------------------------------------
(* Power on *)

PowerOn ==
  /\ Goto("off", "boot") /\ left' = Vital
  /\ UNCHANGED <<locks, open, mishaps>>

\* config_init and EnfntInit, then pci_init, open files that they only read.
BootOpen(f) ==
  /\ Goto("boot", "read") /\ (f \in Vital => f \in left) /\ Open(f)
  /\ UNCHANGED <<systemLocked, marked, left, mishaps>>

BootClose(f) ==
  /\ Goto("read", "boot") /\ Close(f) /\ left' = left \ {f}
  /\ UNCHANGED <<systemLocked, marked, mishaps>>

\* (mutant) Any file that is left locked is fatal.
BootFails_Any ==
  /\ Goto("boot", "dead") /\ locked # {}
  /\ UNCHANGED <<locks, open, left, mishaps>>

\* Without a vital file the kernel dies; without the first task it goes on.
BootFails ==
  /\ Goto("boot", "dead") /\ left \cap locked # {}
  /\ UNCHANGED <<locks, open, left, mishaps>>

BootEnds ==
  /\ Goto("boot", "enter") /\ left = {}
  /\ UNCHANGED <<locks, open, left, mishaps>>

\* _KnlEnterSystem: system.lock is opened, or else nothing is done...
EnterOpen ==
  /\ Goto("enter", "test") /\ ~systemLocked
  /\ systemLocked' = TRUE
  /\ UNCHANGED <<locked, marked, open, left, mishaps>>

EnterFails ==
  /\ Goto("enter", "run") /\ systemLocked
  /\ UNCHANGED <<locks, open, left, mishaps>>

\* ... if it is empty, it is marked...
EnterMark ==
  /\ Goto("test", "marked") /\ ~marked
  /\ marked' = TRUE
  /\ UNCHANGED <<locked, systemLocked, open, left, mishaps>>

EnterClose ==
  /\ Goto("marked", "run")
  /\ systemLocked' = FALSE
  /\ UNCHANGED <<locked, marked, open, left, mishaps>>

\* (mutant) The log is forgotten.
ToRepair_NotLog == RepairedFiles \ {SystemLog}

\* What Ifs1Repair goes through, for DA and for DB; no other disk is repaired.
ToRepair == RepairedFiles

\* ... and if not, the last session did not end, and their files are unlocked.
EnterDirty ==
  /\ Goto("test", "repair") /\ marked
  /\ systemLocked' = FALSE /\ left' = ToRepair
  /\ UNCHANGED <<locked, marked, open, mishaps>>

Repair(f) ==
  /\ pc = "repair" /\ f \in left
  /\ locked' = locked \ {f} /\ left' = left \ {f}
  /\ UNCHANGED <<pc, systemLocked, marked, open, mishaps>>

RepairEnds ==
  /\ Goto("repair", "run") /\ left = {}
  /\ UNCHANGED <<locks, open, left, mishaps>>
-----------------------------------------------------------------------------
(* The session *)

\* The tasks run until the power is off.
Running == pc \in {"run", "clear", "cleared", "log", "logged"}

TaskOpen(f) ==
  /\ Running /\ Open(f)
  /\ UNCHANGED <<pc, systemLocked, marked, left, mishaps>>

TaskClose(f) ==
  /\ Running /\ Close(f) /\ (f = SystemLog => pc # "logged")
  /\ UNCHANGED <<pc, systemLocked, marked, left, mishaps>>

\* _KnlLeaveSystem: system.lock is opened...
LeaveOpen ==
  /\ Goto("run", "clear") /\ ~systemLocked
  /\ systemLocked' = TRUE
  /\ UNCHANGED <<locked, marked, open, left, mishaps>>

LeaveFails ==
  /\ Goto("run", "log") /\ systemLocked
  /\ UNCHANGED <<locks, open, left, mishaps>>

\* ... emptied...
LeaveClear ==
  /\ Goto("clear", "cleared")
  /\ marked' = FALSE
  /\ UNCHANGED <<locked, systemLocked, open, left, mishaps>>

\* ... and closed; LogFree then opens the log, if it can, and closes it.
LeaveClose ==
  /\ Goto("cleared", "log")
  /\ systemLocked' = FALSE
  /\ UNCHANGED <<locked, marked, open, left, mishaps>>

LogOpen ==
  /\ Goto("log", "logged") /\ Open(SystemLog)
  /\ UNCHANGED <<systemLocked, marked, left, mishaps>>

LogClose ==
  /\ Goto("logged", "end") /\ Close(SystemLog)
  /\ UNCHANGED <<systemLocked, marked, left, mishaps>>

LogFails ==
  /\ Goto("log", "end") /\ SystemLog \in locked
  /\ UNCHANGED <<locks, open, left, mishaps>>

\* The power goes off, at the end or at any other moment.  Four are
\* exceptional: when system.lock is open, when it says that all is well although
\* a file is open, when a file is open that will not be repaired, and when a vital
\* file is open.
PowerOff ==
  /\ pc # "off" /\ pc' = "off"
  /\ open' = {} /\ left' = {}
  /\ mishaps' = mishaps
       \cup (IF pc \in {"test", "marked", "clear", "cleared"} THEN {"lockedout"} ELSE {})
       \cup (IF ~marked /\ open # {} THEN {"unmarked"} ELSE {})
       \cup (IF open \subseteq RepairedFiles THEN {} ELSE {"unrepaired"})
       \cup (IF Vital \cap open # {} THEN {"vital"} ELSE {})
  /\ UNCHANGED locks

Boot ==
  \/ (\E f \in SystemFiles : BootOpen(f) \/ BootClose(f)) \/ BootFails \/ BootEnds
  \/ EnterOpen \/ EnterFails \/ EnterMark \/ EnterClose \/ EnterDirty
  \/ (\E f \in SystemFiles : Repair(f)) \/ RepairEnds

Leave ==
  LeaveOpen \/ LeaveFails \/ LeaveClear \/ LeaveClose \/ LogOpen \/ LogClose \/ LogFails

SessionNext ==
  \/ PowerOn \/ Boot \/ Leave \/ PowerOff
  \/ \E f \in SystemFiles : TaskOpen(f) \/ TaskClose(f)

SessionSpec == SessionInit /\ [][SessionNext]_session
-----------------------------------------------------------------------------
(* Properties *)

\* The sets and flags have their types.
SessionTypeOK ==
  /\ pc \in {"off", "boot", "read", "enter", "test", "marked", "repair", "run",
             "clear", "cleared", "log", "logged", "end", "dead"}
  /\ locked \subseteq SystemFiles /\ open \subseteq SystemFiles /\ left \subseteq SystemFiles
  /\ systemLocked \in BOOLEAN /\ marked \in BOOLEAN
  /\ mishaps \subseteq {"lockedout", "unmarked", "unrepaired", "vital"}

\* When the system has been entered (kernel.c:3778), every file that is locked
\* on the disk is open in this session, and so can be opened again once it is
\* closed, whatever the sessions before were doing when they ended, in the
\* middle of a repair for instance, unless they ended at one of the first two
\* exceptional moments.  Only DA and DB are repaired (kernel.c:3753-3762): a file
\* of another disk, which the system disk may be, stays locked if it ever was
\* open at the end.
Unlocked ==
  pc = "run" /\ mishaps \cap {"lockedout", "unmarked"} = {} =>
    /\ locked \cap RepairedFiles \subseteq open
    /\ "unrepaired" \in mishaps \/ locked \subseteq open

\* The files read first (config.c:43, enfont.c:412) can be opened and the kernel
\* does not die, unless a session ended with one open: the repair would come too
\* late.
Boots == pc = "dead" => "vital" \in mishaps
=============================================================================
