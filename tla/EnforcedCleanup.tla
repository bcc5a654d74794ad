---------------------------- MODULE EnforcedCleanup ----------------------------
(***************************************************************************)
(* lib/cleanup.py: EnforcedCleanupSection, as scripts/cbuildbot.py uses it  *)
(* around a build, with the cgroup (lib/cgroups.py) it contains.            *)
(*                                                                          *)
(* The parent forks a watchdog and keeps a ProcessLock for as long as the   *)
(* build runs.  The watchdog sleeps on the lock: it gets it when the parent *)
(* gives it back, having written to a pipe that all is well, or when the    *)
(* parent is dead, and then it unwinds the contexts in the parent's stead.  *)
(* Most of them are PrimaryPidContextManagers, which skip their end in any  *)
(* other process; the temporary directory of the build is not.              *)
(***************************************************************************)
EXTENDS Naturals

CONSTANTS MaxInterrupts,  \* bound: signals whose handlers raise in the parent
          MaxKills        \* bound: SIGKILLs

ASSUME EnforcedCleanupAssumption == MaxInterrupts \in Nat /\ MaxKills \in Nat

VARIABLES parent,         \* what the parent is about to do
          watchdog,       \* and the watchdog
          watchdog_alive, \* the parent's _watchdog_alive
          lock,           \* the process that has the ProcessLock
          pipe,           \* the parent's byte is in the pipe
          cgroups,        \* does the build run in a cgroup of its own?
          cleaned,        \* who has unwound the contexts to the end
          tempdir,        \* the temporary directory: "none", "there", or who has removed it
          astray,         \* an interrupt took the watchdog before it had left the group
          died,           \* what the parent was about to do when it was killed
          interrupts, kills

vars == <<parent, watchdog, watchdog_alive, lock, pipe, cgroups, cleaned, tempdir,
          astray, died, interrupts, kills>>

Gone == {"exited", "killed"}

\* The contexts are entered, EnforcedCleanupSection (with the lock), sudo, the temporary
\* directory (a resumed build uses its parent's) and the cgroup; the watchdog is still to
\* be forked.
Init ==
  /\ parent = "fork" /\ watchdog = "none"
  /\ watchdog_alive = FALSE /\ lock = "parent" /\ pipe = FALSE
  /\ cgroups \in BOOLEAN
  /\ cleaned = {} /\ tempdir \in {"none", "there"} /\ astray = FALSE /\ died = "alive"
  /\ interrupts = 0 /\ kills = 0

ParentGoes(from, to)   == parent \in from /\ parent' = to
WatchdogGoes(from, to) == watchdog \in from /\ watchdog' = to

\* osutils.TempDir.Cleanup.
RemoveDirectory(who) == tempdir' = IF tempdir = "there" THEN who ELSE tempdir

\* The kernel drops the lock of a process that is gone.
DropLock(who) == lock' = IF lock = who THEN "free" ELSE lock

-----------------------------------------------------------------------------
(* The parent.                                                              *)

Fork ==
  /\ ParentGoes({"fork"}, "forked") /\ watchdog' = "fresh"
  /\ UNCHANGED <<watchdog_alive, lock, pipe, cgroups, cleaned, tempdir, astray, died,
                 interrupts, kills>>

WatchdogIsAlive ==
  /\ ParentGoes({"forked"}, "try") /\ watchdog_alive' = TRUE
  /\ UNCHANGED <<watchdog, lock, pipe, cgroups, cleaned, tempdir, astray, died,
                 interrupts, kills>>

Yield ==
  /\ ParentGoes({"try"}, "body")
  /\ UNCHANGED <<watchdog, watchdog_alive, lock, pipe, cgroups, cleaned, tempdir, astray, died,
                 interrupts, kills>>

\* ForkWatchdog's finally, whichever way the body ends.
BodyEnds ==
  /\ ParentGoes({"body"}, "send")
  /\ UNCHANGED <<watchdog, watchdog_alive, lock, pipe, cgroups, cleaned, tempdir, astray, died,
                 interrupts, kills>>

\* _KillWatchdog: the byte, then the lock; and once more in _exit.
SendBytes ==
  /\ \/ ParentGoes({"send"}, "unlock")
     \/ ParentGoes({"exit_send"}, "exit_unlock")
  /\ pipe' = TRUE
  /\ UNCHANGED <<watchdog, watchdog_alive, lock, cgroups, cleaned, tempdir, astray, died,
                 interrupts, kills>>

\* Mutant: the lock is closed only when the process ends.
UnlockNot ==
  /\ \/ ParentGoes({"unlock"}, "waitpid")
     \/ ParentGoes({"exit_unlock"}, "leave")
  /\ UNCHANGED <<watchdog, watchdog_alive, lock, pipe, cgroups, cleaned, tempdir, astray, died,
                 interrupts, kills>>

Unlock ==
  /\ \/ ParentGoes({"unlock"}, "waitpid")
     \/ ParentGoes({"exit_unlock"}, "leave")
  /\ DropLock("parent")
  /\ UNCHANGED <<watchdog, watchdog_alive, pipe, cgroups, cleaned, tempdir, astray, died,
                 interrupts, kills>>

WaitPid ==
  /\ watchdog \in Gone
  /\ ParentGoes({"waitpid"}, "cgroup")
  /\ UNCHANGED <<watchdog, watchdog_alive, lock, pipe, cgroups, cleaned, tempdir, astray, died,
                 interrupts, kills>>

\* ContainChildren._exit kills all that is left in the cgroup; the watchdog is in it.
KillProcesses ==
  /\ ParentGoes({"cgroup"}, "cleanup")
  /\ watchdog' = IF cgroups /\ watchdog \notin Gone \cup {"none"} THEN "killed" ELSE watchdog
  /\ lock' = IF watchdog' = "killed" /\ lock = "watchdog" THEN "free" ELSE lock
  /\ UNCHANGED <<watchdog_alive, pipe, cgroups, cleaned, tempdir, astray, died,
                 interrupts, kills>>

\* The other contexts, and EnforcedCleanupSection's own _exit at last.
Cleanup ==
  /\ ParentGoes({"cleanup"}, IF watchdog_alive THEN "exit_send" ELSE "leave")
  /\ cleaned' = cleaned \cup {"parent"} /\ RemoveDirectory("parent")
  /\ UNCHANGED <<watchdog, watchdog_alive, lock, pipe, cgroups, astray, died, interrupts, kills>>

Leave ==
  /\ ParentGoes({"leave"}, "exited") /\ DropLock("parent")
  /\ UNCHANGED <<watchdog, watchdog_alive, pipe, cgroups, cleaned, tempdir, astray, died,
                 interrupts, kills>>

-----------------------------------------------------------------------------
(* The watchdog: a copy of the parent in ForkWatchdog.                      *)

SetSid ==
  /\ WatchdogGoes({"fresh"}, "lock")
  /\ UNCHANGED <<parent, watchdog_alive, lock, pipe, cgroups, cleaned, tempdir, astray, died,
                 interrupts, kills>>

\* Mutant: a lock of the open file (flock), which the fork has given it.
WriteLockInherited ==
  /\ WatchdogGoes({"lock"}, "poll")
  /\ UNCHANGED <<parent, watchdog_alive, lock, pipe, cgroups, cleaned, tempdir, astray, died,
                 interrupts, kills>>

WriteLock ==
  /\ lock = "free"
  /\ WatchdogGoes({"lock"}, "poll") /\ lock' = "watchdog"
  /\ UNCHANGED <<parent, watchdog_alive, pipe, cgroups, cleaned, tempdir, astray, died,
                 interrupts, kills>>

Poll ==
  /\ WatchdogGoes({"poll"}, IF pipe THEN "exited" ELSE "cleanup")
  /\ lock' = IF pipe THEN "free" ELSE lock
  /\ UNCHANGED <<parent, watchdog_alive, pipe, cgroups, cleaned, tempdir, astray, died,
                 interrupts, kills>>

\* RuntimeError: the contexts are unwound, the watchdog now standing for the primary
\* process, and _exit ends it.
ForcedCleanup ==
  /\ WatchdogGoes({"cleanup"}, "exited")
  /\ cleaned' = cleaned \cup {"watchdog"}
  /\ RemoveDirectory("watchdog") /\ DropLock("watchdog")
  /\ UNCHANGED <<parent, watchdog_alive, pipe, cgroups, astray, died, interrupts, kills>>

\* An interrupt takes it out of ForkWatchdog before it is_child.  The cgroup, sudo and
\* EnforcedCleanupSection skip their end in a process that is not the primary one; TempDir
\* is no PrimaryPidContextManager, and removes the directory.
StrayEnds ==
  /\ WatchdogGoes({"stray"}, "exited")
  /\ RemoveDirectory("stray")
  /\ UNCHANGED <<parent, watchdog_alive, lock, pipe, cgroups, cleaned, astray, died,
                 interrupts, kills>>

-----------------------------------------------------------------------------
(* Signals to the parent alone, or to its process group: SetSid takes the   *)
(* watchdog out of the group.                                               *)

\* Where an exception takes the parent: within the body that is unwound, or between two
\* of the contexts.  ContainChildren's end defers signals, but for its first line.
Interrupted ==
  CASE parent = "body" -> {"body"}
    [] parent \in {"fork", "forked", "try", "send", "unlock", "waitpid"} -> {"cgroup"}
    [] parent = "cgroup" -> {"cgroup", "cleanup"}
    [] parent = "cleanup" -> {IF watchdog_alive THEN "exit_send" ELSE "leave"}
    [] OTHER -> {"leave"}

\* In the middle of the other contexts, their own end may have come or not.
Interrupt(group) ==
  /\ interrupts < MaxInterrupts /\ interrupts' = interrupts + 1
  /\ parent \notin Gone
  /\ parent' \in Interrupted
  /\ \/ UNCHANGED tempdir
     \/ parent = "cleanup" /\ RemoveDirectory("parent")
  /\ LET strays == group /\ watchdog = "fresh" IN
     /\ watchdog' = IF strays THEN "stray" ELSE watchdog
     /\ astray' = (astray \/ strays)
  /\ UNCHANGED <<watchdog_alive, lock, pipe, cgroups, cleaned, died, kills>>

\* Mutant: a lock that a process keeps when it is killed, such as a semaphore.
KillKeepingLock(group) ==
  /\ kills < MaxKills /\ kills' = kills + 1
  /\ parent \notin Gone
  /\ parent' = "killed" /\ died' = parent
  /\ watchdog' = IF group /\ watchdog \in {"fresh", "stray"} THEN "killed" ELSE watchdog
  /\ UNCHANGED <<watchdog_alive, lock, pipe, cgroups, cleaned, tempdir, astray, interrupts>>

Kill(group) ==
  /\ kills < MaxKills /\ kills' = kills + 1
  /\ parent \notin Gone
  /\ parent' = "killed" /\ died' = parent /\ DropLock("parent")
  /\ watchdog' = IF group /\ watchdog \in {"fresh", "stray"} THEN "killed" ELSE watchdog
  /\ UNCHANGED <<watchdog_alive, pipe, cgroups, cleaned, tempdir, astray, interrupts>>

Parent   == Fork \/ WatchdogIsAlive \/ Yield \/ SendBytes \/ Unlock \/ WaitPid
            \/ KillProcesses \/ Cleanup \/ Leave
Watchdog == SetSid \/ WriteLock \/ Poll \/ ForcedCleanup \/ StrayEnds

Next == Parent \/ BodyEnds \/ Watchdog \/ \E group \in BOOLEAN : Interrupt(group) \/ Kill(group)

Spec == Init /\ [][Next]_vars

\* Both processes run; the build may take for ever.
LiveSpec == Spec /\ WF_vars(Parent) /\ WF_vars(Watchdog)

-----------------------------------------------------------------------------
(* Properties.                                                              *)

\* However the parent is interrupted, while it lives the watchdog does not unwind the
\* contexts that kill the build's processes and end its sudo, and the temporary directory
\* is the parent's to remove; but for a watchdog that went astray before it had left the
\* parent's group, which takes the directory (DirectoryIsKept) and nothing else.
WatchdogWaitsForTheEnd ==
  parent \notin Gone =>
    /\ watchdog # "cleanup" /\ "watchdog" \notin cleaned
    /\ tempdir \in {"none", "there", "parent"} \/ (astray /\ tempdir = "stray")

\* A parent killed in the build has its cleanup run, unless the signal that killed it, or
\* one that interrupted it before, has reached the watchdog in the parent's group.
KilledBuildIsCleaned ==
  (died = "body" /\ watchdog # "killed" /\ ~astray) ~> "watchdog" \in cleaned

\* A parent that has left the build exits: it never waits for a watchdog that waits for
\* it.
ParentExits == (parent \notin Gone \cup {"body"}) ~> (parent \in Gone \cup {"body"})

\* What PrimaryPidContextManager is for ("Allow context managers to restrict their exit to
\* within the same PID", lib/cros_build_lib.py:1614), of the temporary directory, which
\* is none: while the parent lives it is the parent's to remove.
DirectoryIsKept == parent \notin Gone => tempdir \in {"none", "there", "parent"}

\* "ensuring that even if the parent is sigkilled, the section marked *will* be run"
\* (lib/cleanup.py:21-22): whenever it is killed, once the watchdog is there.
SectionIsRun ==
  (parent = "killed" /\ watchdog = "lock") ~> cleaned # {}
=============================================================================
