------------------------------ MODULE DiskCache ------------------------------
(***************************************************************************)
(* lib/cache.py: one key of a DiskCache, and the CacheReferences that       *)
(* several processes have on it.                                            *)
(*                                                                          *)
(* A reference has two FileLocks.  The entry lock is a monitor: every       *)
(* operation runs under it.  The key's own lock is taken for writing while  *)
(* the entry changes, and for reading until the reference is released.  A   *)
(* lock file that is unlinked lives on as an inode for those who have it    *)
(* open; the next to open the path creates another.  FileLock.tla shows     *)
(* what a lock on one inode is, and is used here as RWLock.tla states it.   *)
(***************************************************************************)
EXTENDS AdvisoryLocks, Naturals, FiniteSets

CONSTANTS Proc,         \* processes, with one reference each
          Ops,          \* the operations they call, out of Operation
          MaxRemoves,   \* bound: calls of Remove, DeleteStale's included
          MaxCrashes    \* bound: processes that die

Operation == {"Exists", "SetDefault", "Assign", "Remove", "DeleteStale"}

Removing == {"Remove", "DeleteStale"}

ASSUME DiskCacheAssumption ==
  /\ Ops \subseteq Operation /\ IsFiniteSet(Proc)
  /\ MaxRemoves \in Nat /\ MaxCrashes \in Nat

Inode  == 1 .. 2 * (MaxRemoves + 1)   \* a Remove unlinks two
NoFile == 0            \* no descriptor, and a path at which there is no file
Absent  == 0           \* no entry
Suffix == {"lock", "entry_lock"}

VARIABLES
  entry,      \* what is at GetKeyPath(key): Absent, or the value of an insertion
  path,       \* the inode at the path of either lock file
  inodes,     \* inodes created so far
  held,       \* the mode each process holds on each inode
  fd,         \* the inode each process has open for either lock
  pc, op,     \* where each process is, and in which operation
  lock,       \* its argument: keep a read lock
  read_locked,
  seen,       \* ghost: the entry the process relies on under its read lock
  torn,       \* ghost: what is at the path was left there by a move cut short
  removes, crashes

counts == <<removes, torn, crashes>>
locks == <<path, inodes, held, fd>>
call  == <<op, lock>>
ref   == <<read_locked, seen>>
vars  == <<entry, locks, pc, call, ref, counts>>

PC == {"out", "stale", "ref", "entry", "check", "write", "clear", "insert", "move", "unlink", "unlinkEntry",
       "read", "leave"}

\* Inside WriteLock's with statement.
Writing == {"clear", "insert", "move", "unlink", "unlinkEntry"}

Init ==
  /\ entry = Absent
  /\ path = [s \in Suffix |-> NoFile] /\ inodes = 0
  /\ held = [i \in Inode |-> [p \in Proc |-> "none"]]
  /\ fd = [p \in Proc |-> [s \in Suffix |-> NoFile]]
  /\ pc = [p \in Proc |-> "out"]
  /\ op = [p \in Proc |-> "none"] /\ lock = [p \in Proc |-> FALSE]
  /\ read_locked = [p \in Proc |-> FALSE] /\ seen = [p \in Proc |-> Absent]
  /\ removes = 0 /\ torn = FALSE /\ crashes = 0

\* All that shows of an inserted value is that it is not the one relied on before.
Value == 0 .. Cardinality(Proc) + 1
Partial == Cardinality(Proc) + 2    \* part of a file or a directory
Fresh == CHOOSE v \in Value : v \notin {Absent} \cup {seen[p] : p \in Proc}

Goes(p, from, to) == pc[p] = from /\ pc' = [pc EXCEPT ![p] = to]

-----------------------------------------------------------------------------
(* FileLock.                                                                *)

\* The fd property: opens the lock file if need be, and creates it if need be.
OpenFile(p, s) ==
  IF fd[p][s] # NoFile THEN UNCHANGED <<path, inodes, fd>>
  ELSE /\ inodes' = IF path[s] = NoFile THEN inodes + 1 ELSE inodes
       /\ path' = [path EXCEPT ![s] = IF @ = NoFile THEN inodes + 1 ELSE @]
       /\ fd' = [fd EXCEPT ![p][s] = path'[s]]

\* write_lock() and read_lock(): once everybody else's locks on the inode allow it.
Lock(p, s, m) ==
  LET i == fd[p][s] IN
  /\ i # NoFile
  /\ Blockers(held[i], p, m) = {}
  /\ held' = [held EXCEPT ![i][p] = m]
  /\ UNCHANGED <<path, inodes, fd>>

\* _exit: unlock and close.
CloseFile(p, s) ==
  LET i == fd[p][s] IN
  /\ held' = IF i = NoFile THEN held ELSE [held EXCEPT ![i][p] = "none"]
  /\ fd' = [fd EXCEPT ![p][s] = NoFile]
  /\ UNCHANGED inodes

-----------------------------------------------------------------------------
(* Acquire and Release.                                                     *)

Acquire(p) ==
  /\ Goes(p, "out", "ref")
  /\ OpenFile(p, "lock")
  /\ UNCHANGED <<entry, held, call, ref, counts>>

Release(p) ==
  /\ Goes(p, "ref", "out")
  /\ CloseFile(p, "lock")
  /\ read_locked' = [read_locked EXCEPT ![p] = FALSE]
  /\ seen' = [seen EXCEPT ![p] = Absent]
  /\ UNCHANGED <<entry, path, call, counts>>

-----------------------------------------------------------------------------
(* EntryLock: no operation while a read lock is held.                       *)

Call(p, o, l) ==
  /\ ~read_locked[p] /\ o # "DeleteStale"
  /\ l => o \in {"Exists", "SetDefault"}
  /\ Goes(p, "ref", "entry")
  /\ op' = [op EXCEPT ![p] = o]
  /\ lock' = [lock EXCEPT ![p] = l]
  /\ o = "Remove" => removes < MaxRemoves
  /\ removes' = IF o = "Remove" THEN removes + 1 ELSE removes
  /\ OpenFile(p, "entry_lock")
  /\ UNCHANGED <<entry, held, ref, torn, crashes>>

-----------------------------------------------------------------------------
(* DeleteStale: an entry with a lock file is listed; its age is asked for   *)
(* later, and what is old then is removed by a reference nobody acquired.   *)

ListKey(p) ==
  /\ "DeleteStale" \in Ops
  /\ Goes(p, "out", "stale")
  /\ entry # Absent /\ path["lock"] # NoFile
  /\ UNCHANGED <<entry, locks, call, ref, counts>>

\* The entry is young, or gone: then getmtime raises.
SkipKey(p) ==
  /\ Goes(p, "stale", "out")
  /\ UNCHANGED <<entry, locks, call, ref, counts>>

DeleteStale(p) ==
  /\ Goes(p, "stale", "entry") /\ entry # Absent
  /\ op' = [op EXCEPT ![p] = "DeleteStale"]
  /\ removes < MaxRemoves /\ removes' = removes + 1
  /\ OpenFile(p, "entry_lock")
  /\ UNCHANGED <<entry, held, lock, ref, torn, crashes>>

-----------------------------------------------------------------------------
(* The operations.                                                          *)

\* Mutant: the monitor is entered without its lock.
EnterUnlocked(p) ==
  /\ Goes(p, "entry", IF op[p] \in {"Assign"} \cup Removing THEN "write" ELSE "check")
  /\ UNCHANGED <<entry, locks, call, ref, counts>>

Enter(p) ==
  /\ Goes(p, "entry", IF op[p] \in {"Assign"} \cup Removing THEN "write" ELSE "check")
  /\ Lock(p, "entry_lock", "EX")
  /\ UNCHANGED <<entry, call, ref, counts>>

\* Mutant: the entry lock stays locked.
LeaveLocked(p) ==
  /\ Goes(p, "leave", IF op[p] = "DeleteStale" THEN "out" ELSE "ref")
  /\ op' = [op EXCEPT ![p] = "none"]
  /\ lock' = [lock EXCEPT ![p] = FALSE]
  /\ UNCHANGED <<entry, locks, ref, counts>>

Leave(p) ==
  /\ Goes(p, "leave", IF op[p] = "DeleteStale" THEN "out" ELSE "ref")
  /\ CloseFile(p, "entry_lock")
  /\ op' = [op EXCEPT ![p] = "none"]
  /\ lock' = [lock EXCEPT ![p] = FALSE]
  /\ seen' = IF read_locked[p] THEN seen ELSE [seen EXCEPT ![p] = Absent]
  /\ UNCHANGED <<entry, path, read_locked, counts>>

\* _Exists().
Check(p) ==
  /\ Goes(p, "check", IF entry # Absent THEN (IF lock[p] THEN "read" ELSE "leave")
                      ELSE IF op[p] = "SetDefault" THEN "write" ELSE "leave")
  /\ seen' = [seen EXCEPT ![p] = entry]
  /\ UNCHANGED <<entry, locks, call, read_locked, counts>>

OpenForLock(p) ==
  /\ pc[p] \in {"write", "read"} /\ fd[p]["lock"] = NoFile
  /\ OpenFile(p, "lock")
  /\ UNCHANGED <<entry, held, pc, call, ref, counts>>

\* _ReadLock().
ReadLock(p) ==
  /\ Goes(p, "read", "leave")
  /\ Lock(p, "lock", "SH")
  /\ read_locked' = [read_locked EXCEPT ![p] = TRUE]
  /\ UNCHANGED <<entry, call, seen, counts>>

-----------------------------------------------------------------------------
(* WriteLock: _Assign and _Remove.                                          *)

\* Mutant: the readers are not waited for.
WriteLockIgnoresReaders(p) ==
  /\ Goes(p, "write", "clear")
  /\ fd[p]["lock"] # NoFile
  /\ UNCHANGED <<entry, locks, call, ref, counts>>

WriteLock(p) ==
  /\ Goes(p, "write", "clear")
  /\ Lock(p, "lock", "EX")
  /\ UNCHANGED <<entry, call, ref, counts>>

\* DiskCache._Remove(key): what is there is moved to the staging directory.
Clear(p) ==
  /\ Goes(p, "clear", IF op[p] \in Removing THEN "unlink" ELSE "insert")
  /\ entry' = Absent
  /\ torn' = FALSE
  /\ UNCHANGED <<locks, call, ref, removes, crashes>>

\* shutil.move: a rename, or between file systems a copy that takes its time.
Copy(p) ==
  /\ Goes(p, "insert", "move")
  /\ entry' = Partial
  /\ UNCHANGED <<locks, call, ref, counts>>

\* The value is at the key's path; the with statement closes the lock.
Insert(p) ==
  /\ pc[p] \in {"insert", "move"}
  /\ pc' = [pc EXCEPT ![p] = IF lock[p] THEN "read" ELSE "leave"]
  /\ entry' = Fresh
  /\ seen' = [seen EXCEPT ![p] = Fresh]
  /\ CloseFile(p, "lock")
  /\ UNCHANGED <<path, call, read_locked, counts>>

Unlink(p) ==
  /\ Goes(p, "unlink", "unlinkEntry")
  /\ path' = [path EXCEPT !["lock"] = NoFile]
  /\ UNCHANGED <<entry, inodes, held, fd, call, ref, counts>>

\* Both files are gone when the with statement closes the lock.
UnlinkEntry(p) ==
  /\ Goes(p, "unlinkEntry", "leave")
  /\ CloseFile(p, "lock")
  /\ path' = [path EXCEPT !["entry_lock"] = NoFile]
  /\ UNCHANGED <<entry, call, ref, counts>>

\* An operation raises before it has the key's lock, or once it has given it back
\* (a signal, an error of the file system): the entry lock is left.
Raise(p) ==
  /\ pc[p] \in {"check", "write", "read"}
  /\ pc' = [pc EXCEPT ![p] = "leave"]
  /\ UNCHANGED <<entry, locks, call, ref, counts>>

\* It raises while it changes the entry (ENOSPC, an interrupt): nothing is taken
\* back, and the with statement closes the key's lock.
RaiseWriting(p) ==
  /\ pc[p] \in Writing
  /\ pc' = [pc EXCEPT ![p] = "leave"]
  /\ torn' = (torn \/ pc[p] = "move")
  /\ CloseFile(p, "lock")
  /\ UNCHANGED <<entry, path, call, ref, removes, crashes>>

\* The process dies, and the kernel closes its files.
Crash(p) ==
  /\ crashes < MaxCrashes /\ pc[p] # "out"
  /\ crashes' = crashes + 1
  /\ torn' = (torn \/ pc[p] = "move")
  /\ pc' = [pc EXCEPT ![p] = "out"]
  /\ held' = [i \in Inode |-> [held[i] EXCEPT ![p] = "none"]]
  /\ fd' = [fd EXCEPT ![p] = [s \in Suffix |-> NoFile]]
  /\ read_locked' = [read_locked EXCEPT ![p] = FALSE]
  /\ op' = [op EXCEPT ![p] = "none"] /\ lock' = [lock EXCEPT ![p] = FALSE]
  /\ seen' = [seen EXCEPT ![p] = Absent]
  /\ UNCHANGED <<entry, path, inodes, removes>>

\* What a process does by itself once it has called an operation.
Proceeds(p) ==
  \/ Enter(p) \/ Leave(p) \/ Check(p) \/ OpenForLock(p) \/ ReadLock(p) \/ WriteLock(p)
  \/ Clear(p) \/ Copy(p) \/ Insert(p) \/ Unlink(p) \/ UnlinkEntry(p)

Next == \E p \in Proc :
  \/ Acquire(p) \/ Release(p) \/ Crash(p) \/ Proceeds(p) \/ Raise(p) \/ RaiseWriting(p)
  \/ ListKey(p) \/ SkipKey(p) \/ DeleteStale(p)
  \/ \E o \in Ops, l \in BOOLEAN : Call(p, o, l)

Spec == Init /\ [][Next]_vars

\* References are released; a lock that is free again and again is got.
LiveSpec ==
  /\ Spec
  /\ \A p \in Proc : WF_vars(Release(p)) /\ SF_vars(Proceeds(p))

-----------------------------------------------------------------------------
TypeOK ==
  /\ entry \in Value \cup {Partial}
  /\ path \in [Suffix -> {NoFile} \cup Inode] /\ inodes \in {0} \cup Inode
  /\ removes \in 0 .. MaxRemoves
  /\ held \in [Inode -> [Proc -> Mode]]
  /\ fd \in [Proc -> [Suffix -> {NoFile} \cup Inode]]
  /\ pc \in [Proc -> PC] /\ op \in [Proc -> Operation \cup {"none"}] /\ lock \in [Proc -> BOOLEAN]
  /\ read_locked \in [Proc -> BOOLEAN] /\ seen \in [Proc -> Value \cup {Partial}]
  /\ torn \in BOOLEAN /\ crashes \in 0 .. MaxCrashes

\* "If the entry exists, acquire and maintain a read lock on it" (line 172), and
\* "Acquire and maintain a read lock on the entry" (line 186): as long as the
\* reference has it, the entry is the one the operation found or put there.
ReadLockKeepsEntry ==
  \A p \in Proc : read_locked[p] => entry # Absent /\ entry = seen[p]

\* Remove unlinks both lock files; from then on the next to open them has others.
LocksWereRemade == inodes > Cardinality(Suffix)

\* It is so as long as nobody has made the lock files again after a Remove.
ReadLockKeepsEntryAtFirst == LocksWereRemade \/ ReadLockKeepsEntry

\* No operation takes for an entry what another is still moving to its place: the entry
\* lock is a monitor (line 28), but for lock files that were made again.  The part that
\* a move leaves when it raises, or dies, is taken for an entry (_Exists only looks at
\* the path) until the next Assign or Remove, and no longer.
EntriesAreWhole == LocksWereRemade \/ \A p \in Proc : seen[p] = Partial => torn

\* Every operation comes to its end, though it waits for readers with the entry
\* lock in hand.
OperationsReturn ==
  \A p \in Proc : pc[p] = "entry" ~> pc[p] \in {"ref", "out"}
=============================================================================
