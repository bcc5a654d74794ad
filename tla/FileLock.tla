------------------------------ MODULE FileLock ------------------------------
(***************************************************************************)
(* lib/locking.py: the lock objects (_Lock, FileLock) that the processes   *)
(* of chromite hold on one lock file.                                      *)
(*                                                                         *)
(* A handle is one _Lock object.  A call that has to wait is two system    *)
(* calls: a non-blocking attempt, then a blocking one (_enforce_lock), and *)
(* a third when the kernel answers EDEADLK.  Between them any other        *)
(* process may run, close its handles or die.                              *)
(***************************************************************************)
EXTENDS AdvisoryLocks, Naturals

CONSTANTS Handle,      \* the _Lock objects
          Process,     \* the processes that own them
          ProcessOf,   \* [Handle -> Process]
          LockType,    \* "lockf" or "flock"
          Blocking,    \* the handles made with blocking=True
          Timed,       \* the blocking handles that have a blocking_timeout
          Nobody,      \* not an owner: who an owner that is awake waits for
          MaxCalls     \* bound: lock calls made through one handle

\* lockf locks belong to the process, flock locks to the open file.
Owner      == IF LockType = "lockf" THEN Process ELSE Handle
OwnerOf(h) == IF LockType = "lockf" THEN ProcessOf[h] ELSE h

ASSUME FileLockAssumption ==
  /\ ProcessOf \in [Handle -> Process]
  /\ LockType \in {"lockf", "flock"}
  /\ Blocking \subseteq Handle /\ Timed \subseteq Blocking
  /\ Nobody \notin Process /\ Nobody \notin Handle
  /\ MaxCalls \in Nat

VARIABLES fd,       \* [Handle -> BOOLEAN]: _fd is not None
          held,     \* [Owner -> Mode]: the kernel's lock table
          waits,    \* [Owner -> Owner or Nobody]: who the kernel queued it behind
          pc,       \* "idle"; "block", "reblock": in the 2nd, 3rd system call;
                    \* "granted": the 2nd has got its lock, and the timer still runs
          want,     \* the mode of the call in progress
          calls     \* lock calls made so far

\* For the properties: what the callers have been told.
VARIABLES grabbed,  \* [Handle -> Mode]: what h's caller may count on between calls
          late      \* [Handle -> BOOLEAN]: a call of h raised with the lock it got

vars == <<fd, held, waits, pc, want, grabbed, late, calls>>

\* A process runs one call at a time.
Running(h)   == \A g \in Handle : ProcessOf[g] = ProcessOf[h] => pc[g] = "idle"
Rivals(h, m) == Blockers(held, OwnerOf(h), m)

\* The kernel refuses to queue h's owner behind an owner that waits for it.
\* flock has no such check.
Deadlocked(h) ==
  /\ LockType = "lockf"
  /\ \E b \in Rivals(h, want[h]) : LeadsTo(waits, Nobody, b, OwnerOf(h))

Init ==
  /\ fd      = [h \in Handle |-> FALSE]
  /\ held    = [o \in Owner |-> "none"]
  /\ waits   = [o \in Owner |-> Nobody]
  /\ pc      = [h \in Handle |-> "idle"]
  /\ want    = [h \in Handle |-> "SH"]
  /\ grabbed = [h \in Handle |-> "none"]
  /\ late    = [h \in Handle |-> FALSE]
  /\ calls   = [h \in Handle |-> 0]

-----------------------------------------------------------------------------
(* What the system calls do to the kernel's table.                         *)

Grant(h, m) ==
  /\ Rivals(h, m) = {}
  /\ held' = [held EXCEPT ![OwnerOf(h)] = m]
  /\ waits' = IF m = "EX" THEN waits ELSE Woken(waits, Nobody, OwnerOf(h))

Release(h) ==
  /\ held' = [held EXCEPT ![OwnerOf(h)] = "none"]
  /\ waits' = Woken(waits, Nobody, OwnerOf(h))

\* A lockf lock is kept while it cannot be converted; flock drops the lock of
\* another mode before it looks for conflicts, and does not get it back.
FailedConversion(h, m) ==
  IF LockType = "flock" /\ held[OwnerOf(h)] # m
    THEN Release(h)
    ELSE UNCHANGED <<held, waits>>

\* What the caller learns, when a call returns or the lock is given up.
Tell(h, m) ==
  /\ grabbed' = [grabbed EXCEPT ![h] = m]
  /\ late' = [late EXCEPT ![h] = FALSE]

-----------------------------------------------------------------------------
(* lock(), read_lock(), write_lock(): _enforce_lock.                        *)

CallBegins(h) ==
  /\ Running(h)
  /\ calls[h] < MaxCalls
  /\ calls' = [calls EXCEPT ![h] = @ + 1]

\* The LOCK_NB attempt gets the lock.
Grab(h, m) ==
  /\ CallBegins(h)
  /\ Grant(h, m)
  /\ Tell(h, m)
  /\ fd' = [fd EXCEPT ![h] = TRUE]
  /\ UNCHANGED <<pc, want>>

\* It does not, and the handle is non-blocking: close(), LockNotAcquiredError.
Refuse(h, m) ==
  /\ h \notin Blocking
  /\ CallBegins(h)
  /\ Rivals(h, m) # {}
  /\ Release(h)
  /\ Tell(h, "none")
  /\ fd' = [fd EXCEPT ![h] = FALSE]
  /\ UNCHANGED <<pc, want>>

\* It does not: on to the blocking call.  A caller that converts a flock lock
\* counts on it no longer (flock(2)).
GoBlocking(h, m) ==
  /\ h \in Blocking
  /\ CallBegins(h)
  /\ Rivals(h, m) # {}
  /\ FailedConversion(h, m)
  /\ grabbed' = [grabbed EXCEPT ![h] = IF LockType = "flock" /\ @ # m THEN "none" ELSE @]
  /\ fd' = [fd EXCEPT ![h] = TRUE]
  /\ pc' = [pc EXCEPT ![h] = "block"]
  /\ want' = [want EXCEPT ![h] = m]
  /\ UNCHANGED late

Blocked(h) == pc[h] \in {"block", "reblock"} /\ waits[OwnerOf(h)] = Nobody

\* The kernel queues the caller behind one of the owners in its way.
Sleep(h) ==
  /\ Blocked(h)
  /\ ~Deadlocked(h)
  /\ \E b \in Rivals(h, want[h]) : waits' = [waits EXCEPT ![OwnerOf(h)] = b]
  /\ UNCHANGED <<fd, held, pc, want, grabbed, late, calls>>

\* The kernel grants the lock: a call without a timer returns.
Acquire(h) ==
  /\ Blocked(h)
  /\ pc[h] = "reblock" \/ h \notin Timed
  /\ Grant(h, want[h])
  /\ Tell(h, want[h])
  /\ pc' = [pc EXCEPT ![h] = "idle"]
  /\ UNCHANGED <<fd, want, calls>>

\* It grants it to a call that is still inside `with Timeout'.
AcquireTimed(h) ==
  /\ Blocked(h)
  /\ pc[h] = "block" /\ h \in Timed
  /\ Grant(h, want[h])
  /\ pc' = [pc EXCEPT ![h] = "granted"]
  /\ UNCHANGED <<fd, want, grabbed, late, calls>>

\* Timeout cancels its timer, and the call returns.
LeaveTimer(h) ==
  /\ pc[h] = "granted"
  /\ Tell(h, want[h])
  /\ pc' = [pc EXCEPT ![h] = "idle"]
  /\ UNCHANGED <<fd, held, waits, want, calls>>

\* The alarm comes before the timer is cancelled: TimeoutError, and nobody
\* unlocks.
LateAlarm(h) ==
  /\ pc[h] = "granted"
  /\ late' = [late EXCEPT ![h] = TRUE]
  /\ pc' = [pc EXCEPT ![h] = "idle"]
  /\ UNCHANGED <<fd, held, waits, want, grabbed, calls>>

\* Mutant: the handler of EDEADLK returns once it has unlocked.
BreakDeadlockNoRetry(h) ==
  /\ Blocked(h)
  /\ pc[h] = "block"
  /\ Deadlocked(h)
  /\ Release(h)
  /\ Tell(h, want[h])
  /\ pc' = [pc EXCEPT ![h] = "idle"]
  /\ UNCHANGED <<fd, want, calls>>

\* Mutant: it retries without unlocking.
BreakDeadlockNoUnlock(h) ==
  /\ Blocked(h)
  /\ pc[h] = "block"
  /\ Deadlocked(h)
  /\ pc' = [pc EXCEPT ![h] = "reblock"]
  /\ UNCHANGED <<fd, held, waits, want, grabbed, late, calls>>

\* EDEADLK: unlock(), and a last blocking call.  The caller is not told.
BreakDeadlock(h) ==
  /\ Blocked(h)
  /\ pc[h] = "block"
  /\ Deadlocked(h)
  /\ Release(h)
  /\ pc' = [pc EXCEPT ![h] = "reblock"]
  /\ UNCHANGED <<fd, want, grabbed, late, calls>>

\* The wait ends with a TimeoutError.
WaitEnds(h) ==
  /\ pc' = [pc EXCEPT ![h] = "idle"]
  /\ waits' = [waits EXCEPT ![OwnerOf(h)] = Nobody]
  /\ UNCHANGED <<fd, held, want, grabbed, late, calls>>

\* Mutant: the retry after EDEADLK is made under the timer too.
TimeOutRetry(h) ==
  /\ h \in Timed
  /\ pc[h] \in {"block", "reblock"}
  /\ WaitEnds(h)

\* The timer of _optional_timer_context, which covers the second system call
\* only, finds it waiting.
TimeOut(h) ==
  /\ h \in Timed
  /\ pc[h] = "block"
  /\ WaitEnds(h)

-----------------------------------------------------------------------------
(* The other operations, and the death of a process.                       *)

\* `with lock:' opens the file and takes no lock.
Enter(h) ==
  /\ Running(h)
  /\ ~fd[h]
  /\ fd' = [fd EXCEPT ![h] = TRUE]
  /\ UNCHANGED <<held, waits, pc, want, grabbed, late, calls>>

Unlock(h) ==
  /\ Running(h)
  /\ fd[h]
  /\ Release(h)
  /\ Tell(h, "none")
  /\ UNCHANGED <<fd, pc, want, calls>>

\* _exit and close(): unlock, then close the file.
Exit(h) ==
  /\ Running(h)
  /\ fd[h]
  /\ Release(h)
  /\ Tell(h, "none")
  /\ fd' = [fd EXCEPT ![h] = FALSE]
  /\ UNCHANGED <<pc, want, calls>>

\* Process p is killed: the kernel closes its files.  A new process with new
\* handles takes its place; the calls made stay counted.
Crash(p) ==
  LET Mine   == {h \in Handle : ProcessOf[h] = p}
      Owners == {OwnerOf(h) : h \in Mine}
  IN  /\ \E h \in Mine : fd[h]
      /\ fd' = [h \in Handle |-> fd[h] /\ h \notin Mine]
      /\ held' = [o \in Owner |-> IF o \in Owners THEN "none" ELSE held[o]]
      /\ waits' = [o \in Owner |-> IF o \in Owners \/ waits[o] \in Owners
                                     THEN Nobody ELSE waits[o]]
      /\ pc' = [h \in Handle |-> IF h \in Mine THEN "idle" ELSE pc[h]]
      /\ grabbed' = [h \in Handle |-> IF h \in Mine THEN "none" ELSE grabbed[h]]
      /\ late' = [h \in Handle |-> late[h] /\ h \notin Mine]
      /\ UNCHANGED <<want, calls>>

Next ==
  \/ \E h \in Handle, m \in Request : Grab(h, m) \/ Refuse(h, m) \/ GoBlocking(h, m)
  \/ \E h \in Handle : \/ Sleep(h) \/ Acquire(h) \/ BreakDeadlock(h) \/ TimeOut(h)
                       \/ AcquireTimed(h) \/ LeaveTimer(h) \/ LateAlarm(h)
                       \/ Enter(h) \/ Unlock(h) \/ Exit(h)
  \/ \E p \in Process : Crash(p)

Spec == Init /\ [][Next]_vars

\* The kernel keeps serving a blocked call, the timer it set fires, and a call
\* that has its lock returns.
CallFairness ==
  \A h \in Handle :
    /\ WF_vars(Sleep(h)) /\ WF_vars(Acquire(h)) /\ WF_vars(AcquireTimed(h))
    /\ WF_vars(LeaveTimer(h)) /\ WF_vars(BreakDeadlock(h)) /\ WF_vars(TimeOut(h))

\* Every `with' block ends, and a lock object nobody uses is closed (__del__).
ClientFairness == \A h \in Handle : WF_vars(Exit(h))

PatientSpec == Spec /\ CallFairness
LiveSpec    == Spec /\ CallFairness /\ ClientFairness

-----------------------------------------------------------------------------
\* Also: a handle without a file has no lock and is in no call.
TypeOK ==
  /\ fd \in [Handle -> BOOLEAN]
  /\ held \in [Owner -> Mode]
  /\ waits \in [Owner -> Owner \cup {Nobody}]
  /\ pc \in [Handle -> {"idle", "block", "granted", "reblock"}]
  /\ want \in [Handle -> Request]
  /\ grabbed \in [Handle -> Mode]
  /\ late \in [Handle -> BOOLEAN]
  /\ calls \in [Handle -> 0 .. MaxCalls]
  /\ \A h \in Handle : ~fd[h] => pc[h] = "idle" /\ grabbed[h] = "none"

\* The documented use of lockf: handles of different processes (lines 58-60).
OneHandlePerOwner == \A g, h \in Handle : OwnerOf(g) = OwnerOf(h) => g = h

\* A caller has what its calls told it while it is not inside another one.
ClientMode == [h \in Handle |-> IF pc[h] = "idle" THEN grabbed[h] ELSE "none"]

\* The kernel holds for h at least what h's caller counts on, and more than
\* that only after a late alarm.
HasWhatItCountsOn(h) ==
  /\ grabbed[h] # "none" => held[OwnerOf(h)] \in {grabbed[h], "EX"}
  /\ held[OwnerOf(h)] = grabbed[h] \/ late[h]

\* Between its calls a caller has the lock they told it of: no timeout, refused
\* call or deadlock recovery has taken it from below it, and the kernel holds
\* nothing more for it.  One call does leave a lock behind: its alarm comes
\* between the return of lockf and the end of `with Timeout' (lines 131-142).
CallersHaveTheirLocks == \A h \in Handle : pc[h] = "idle" => HasWhatItCountsOn(h)

\* Whatever path a call took, one writer excludes every other handle.
Exclusive ==
  \A g, h \in Handle : g # h => Compatible(ClientMode[g], ClientMode[h])

\* The third system call of _enforce_lock (line 150) has no handler around it:
\* it may sleep, but the kernel never answers EDEADLK to it, because nobody can
\* be queued behind an owner that has just unlocked.
ThirdCallNeverFails == \A h \in Handle : pc[h] = "reblock" => ~Deadlocked(h)

\* Upgrades, downgrades, deaths and deadlocks never leave a caller asleep while
\* every `with' block ends: write_lock "will release the lock to work around"
\* the deadlock of two upgrades (lines 192-196).
EveryCallReturns == \A h \in Handle : pc[h] # "idle" ~> pc[h] = "idle"

\* FileLock implements the readers-writer lock.
RW == INSTANCE RWLock WITH Client <- Handle, mode <- ClientMode
ImplementsRWLock == RW!Spec

\* "blocking_timeout: If not None, time is seconds to wait on blocking calls"
\* (lines 77-78): a timed call returns, whatever the holders of the lock do.
TimedCallReturns == \A h \in Timed : pc[h] # "idle" ~> pc[h] = "idle"
=============================================================================
