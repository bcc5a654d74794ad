--------------------------- MODULE FileLockProofs ---------------------------
(***************************************************************************)
(* FileLock, for any number of processes and handles, as long as no two    *)
(* handles share an owner: one writer excludes everybody else, the callers *)
(* have the locks they were told of, the third system call cannot fail,    *)
(* and the lock implements RWLock.                                         *)
(***************************************************************************)
EXTENDS FileLock, TLAPS

\* In the kernel's table one writer excludes every other owner.
KernelExclusive ==
  \A o, p \in Owner : o # p => Compatible(held[o], held[p])

\* Whoever sleeps, sleeps behind an owner that holds a lock.
SleepersBehindHolders ==
  \A o \in Owner : waits[o] # Nobody => held[waits[o]] # "none"

\* What the kernel holds for a handle in each phase of a call.
PhaseOK(h) ==
  /\ pc[h] \in {"idle", "block"} => HasWhatItCountsOn(h)
  /\ pc[h] \in {"block", "granted"} => grabbed[h] # "EX"
  /\ pc[h] = "granted" => held[OwnerOf(h)] = want[h]
  /\ pc[h] = "reblock" => held[OwnerOf(h)] = "none"

PhasesOK == \A h \in Handle : PhaseOK(h)

IInv ==
  /\ TypeOK
  /\ KernelExclusive
  /\ SleepersBehindHolders
  /\ PhasesOK

\* Every handle has an owner, and Nobody is none (lines 58-65).
LEMMA OwnerFacts ==
  /\ \A h \in Handle : OwnerOf(h) \in Owner
  /\ Nobody \notin Owner
BY FileLockAssumption DEF OwnerOf, Owner

\* Waking the sleepers behind o leaves nobody asleep behind o, and changes no
\* other sleeper.
LEMMA WokenFacts ==
  ASSUME waits \in [Owner -> Owner \cup {Nobody}], NEW o \in Owner
  PROVE  /\ Woken(waits, Nobody, o) \in [Owner -> Owner \cup {Nobody}]
         /\ \A x \in Owner : /\ Woken(waits, Nobody, o)[x] # o
                             /\ Woken(waits, Nobody, o)[x] \in {waits[x], Nobody}
BY OwnerFacts DEF Woken

\* The initial state satisfies the invariant.
LEMMA InitIInv == Init => IInv
BY OwnerFacts, FileLockAssumption
   DEF Init, IInv, TypeOK, KernelExclusive, SleepersBehindHolders, PhasesOK, PhaseOK,
       HasWhatItCountsOn, Compatible, Mode, Request

\* Giving a lock up preserves what the kernel's table promises.
LEMMA ReleaseKeeps ==
  ASSUME OneHandlePerOwner, IInv, NEW h \in Handle, Release(h)
  PROVE  /\ held' \in [Owner -> Mode] /\ waits' \in [Owner -> Owner \cup {Nobody}]
         /\ KernelExclusive' /\ SleepersBehindHolders'
         /\ held'[OwnerOf(h)] = "none"
         /\ \A g \in Handle \ {h} : held'[OwnerOf(g)] = held[OwnerOf(g)]
<1> USE OwnerFacts DEF Release, IInv, TypeOK
<1>1. held' \in [Owner -> Mode] /\ waits' \in [Owner -> Owner \cup {Nobody}]
  BY WokenFacts DEF Mode
<1>2. KernelExclusive'
  BY DEF KernelExclusive, Compatible
<1>3. SleepersBehindHolders'
  <2>1. waits' = Woken(waits, Nobody, OwnerOf(h))  OBVIOUS
  <2> QED  BY <2>1, WokenFacts DEF SleepersBehindHolders
<1>4. /\ held'[OwnerOf(h)] = "none"
      /\ \A g \in Handle \ {h} : held'[OwnerOf(g)] = held[OwnerOf(g)]
  BY DEF OneHandlePerOwner
<1> QED  BY <1>1, <1>2, <1>3, <1>4

\* A grant preserves it too.
LEMMA GrantKeeps ==
  ASSUME OneHandlePerOwner, IInv, NEW h \in Handle, NEW m \in Request, Grant(h, m)
  PROVE  /\ held' \in [Owner -> Mode] /\ waits' \in [Owner -> Owner \cup {Nobody}]
         /\ KernelExclusive' /\ SleepersBehindHolders'
         /\ held'[OwnerOf(h)] = m
         /\ \A g \in Handle \ {h} : held'[OwnerOf(g)] = held[OwnerOf(g)]
<1> USE OwnerFacts DEF Grant, IInv, TypeOK, Request, Mode
<1>1. held' \in [Owner -> Mode] /\ waits' \in [Owner -> Owner \cup {Nobody}]
  BY WokenFacts
<1>2. /\ held'[OwnerOf(h)] = m
      /\ \A g \in Handle \ {h} : held'[OwnerOf(g)] = held[OwnerOf(g)]
  BY DEF OneHandlePerOwner
<1>3. \A p \in Owner \ {OwnerOf(h)} : Compatible(held[p], m)
  BY DEF Rivals, Blockers
<1>4. KernelExclusive'
  BY <1>3 DEF KernelExclusive, Compatible
<1>5. \A x \in Owner : waits'[x] \in {waits[x], Nobody}
  BY WokenFacts
<1>6. SleepersBehindHolders'
  BY <1>1, <1>5 DEF SleepersBehindHolders
<1> QED  BY <1>1, <1>2, <1>4, <1>6

\* Nobody is in the way of a writer.
LEMMA WriterHasNoRivals ==
  ASSUME IInv, NEW h \in Handle, NEW m \in Request, held[OwnerOf(h)] = "EX"
  PROVE  Rivals(h, m) = {}
BY OwnerFacts DEF IInv, TypeOK, KernelExclusive, Rivals, Blockers, Compatible, Request, Mode

\* Every step preserves the invariant.
LEMMA NextIInv ==
  ASSUME OneHandlePerOwner, IInv, [Next]_vars
  PROVE  IInv'
<1> USE OwnerFacts, FileLockAssumption DEF TypeOK, PhasesOK, PhaseOK, HasWhatItCountsOn
<1> USE DEF Request, Mode
<1>1. ASSUME NEW h \in Handle, NEW m \in Request, Grab(h, m)  PROVE IInv'
  BY <1>1, GrantKeeps DEF Grab, Tell, CallBegins, Running, IInv
<1>2. ASSUME NEW h \in Handle, NEW m \in Request, Refuse(h, m)  PROVE IInv'
  BY <1>2, ReleaseKeeps DEF Refuse, Tell, CallBegins, Running, IInv
<1>3. ASSUME NEW h \in Handle, NEW m \in Request, GoBlocking(h, m)  PROVE IInv'
  <2>1. pc[h] = "idle" /\ held[OwnerOf(h)] # "EX" /\ grabbed[h] # "EX"
    BY <1>3, WriterHasNoRivals DEF GoBlocking, CallBegins, Running, IInv
  <2>2. CASE LockType = "flock" /\ held[OwnerOf(h)] # m
    <3>1. Release(h)  BY <1>3, <2>2 DEF GoBlocking, FailedConversion
    <3>2. HasWhatItCountsOn(h)'
      BY <1>3, <2>1, <2>2, <3>1, ReleaseKeeps DEF GoBlocking, IInv
    <3> QED  BY <1>3, <2>1, <3>1, <3>2, ReleaseKeeps DEF GoBlocking, CallBegins, IInv
  <2>3. CASE ~(LockType = "flock" /\ held[OwnerOf(h)] # m)
    <3>1. UNCHANGED <<held, waits>>  BY <1>3, <2>3 DEF GoBlocking, FailedConversion
    <3>2. KernelExclusive' /\ SleepersBehindHolders'
      BY <3>1 DEF KernelExclusive, SleepersBehindHolders, IInv
    <3>3. HasWhatItCountsOn(h)'
      BY <1>3, <2>1, <2>3, <3>1 DEF GoBlocking, IInv
    <3> QED  BY <1>3, <2>1, <3>1, <3>2, <3>3 DEF GoBlocking, CallBegins, IInv
  <2> QED  BY <2>2, <2>3
<1>4. ASSUME NEW h \in Handle, Sleep(h)  PROVE IInv'
  <2>1. PICK b \in Rivals(h, want[h]) : waits' = [waits EXCEPT ![OwnerOf(h)] = b]
    BY <1>4 DEF Sleep
  <2>2. b \in Owner /\ held[b] # "none"
    BY <2>1 DEF Rivals, Blockers, Compatible, IInv
  <2> QED  BY <1>4, <2>1, <2>2 DEF Sleep, IInv, KernelExclusive, SleepersBehindHolders
<1>5. ASSUME NEW h \in Handle, Acquire(h)  PROVE IInv'
  <2>1. want[h] \in Request /\ Grant(h, want[h])  BY <1>5 DEF Acquire, IInv
  <2> QED  BY <1>5, <2>1, GrantKeeps DEF Acquire, Tell, Blocked, IInv
<1>6. ASSUME NEW h \in Handle, AcquireTimed(h)  PROVE IInv'
  <2>1. want[h] \in Request /\ Grant(h, want[h])  BY <1>6 DEF AcquireTimed, IInv
  <2> QED  BY <1>6, <2>1, GrantKeeps DEF AcquireTimed, Blocked, IInv
<1>7. ASSUME NEW h \in Handle, LeaveTimer(h)  PROVE IInv'
  BY <1>7 DEF LeaveTimer, Tell, IInv, KernelExclusive, SleepersBehindHolders
<1>8. ASSUME NEW h \in Handle, LateAlarm(h)  PROVE IInv'
  BY <1>8 DEF LateAlarm, IInv, KernelExclusive, SleepersBehindHolders
<1>9. ASSUME NEW h \in Handle, BreakDeadlock(h)  PROVE IInv'
  BY <1>9, ReleaseKeeps DEF BreakDeadlock, Blocked, IInv
<1>10. ASSUME NEW h \in Handle, TimeOut(h)  PROVE IInv'
  BY <1>10 DEF TimeOut, WaitEnds, IInv, KernelExclusive, SleepersBehindHolders
<1>11. ASSUME NEW h \in Handle, Enter(h)  PROVE IInv'
  BY <1>11 DEF Enter, IInv, KernelExclusive, SleepersBehindHolders
<1>12. ASSUME NEW h \in Handle, Unlock(h)  PROVE IInv'
  BY <1>12, ReleaseKeeps DEF Unlock, Tell, Running, IInv
<1>13. ASSUME NEW h \in Handle, Exit(h)  PROVE IInv'
  BY <1>13, ReleaseKeeps DEF Exit, Tell, Running, IInv
<1>14. ASSUME NEW p \in Process, Crash(p)  PROVE IInv'
  <2> DEFINE Mine   == {h \in Handle : ProcessOf[h] = p}
             Owners == {OwnerOf(h) : h \in Mine}
  <2>1. \A h \in Handle : OwnerOf(h) \in Owners <=> h \in Mine
    BY DEF OneHandlePerOwner
  <2>2. TypeOK'
    BY <1>14 DEF Crash, IInv
  <2>3. PhasesOK'
    BY <1>14, <2>1 DEF Crash, IInv
  <2>4. KernelExclusive'
    BY <1>14 DEF Crash, IInv, KernelExclusive, Compatible
  <2>5. SleepersBehindHolders'
    BY <1>14 DEF Crash, IInv, SleepersBehindHolders
  <2> QED  BY <2>2, <2>3, <2>4, <2>5 DEF IInv
<1>15. CASE UNCHANGED vars
  BY <1>15 DEF vars, IInv, KernelExclusive, SleepersBehindHolders
<1> QED
  BY <1>1, <1>2, <1>3, <1>4, <1>5, <1>6, <1>7, <1>8, <1>9, <1>10, <1>11, <1>12,
     <1>13, <1>14, <1>15 DEF Next

\* The invariant holds throughout.
THEOREM Invariance ==
  ASSUME OneHandlePerOwner
  PROVE  Spec => []IInv
<1>1. IInv /\ [Next]_vars => IInv'  BY NextIInv
<1> QED  BY InitIInv, <1>1, PTL DEF Spec

\* Types, for any number of processes.
THEOREM TypeCorrect ==
  ASSUME OneHandlePerOwner
  PROVE  Spec => []TypeOK
<1>1. IInv => TypeOK  BY DEF IInv
<1> QED  BY Invariance, <1>1, PTL

\* Between its calls a caller has the lock it was told of, and no other unless
\* an alarm came late (lines 108-150).
THEOREM Agreement ==
  ASSUME OneHandlePerOwner
  PROVE  Spec => []CallersHaveTheirLocks
<1>1. IInv => CallersHaveTheirLocks
  BY DEF IInv, PhasesOK, PhaseOK, CallersHaveTheirLocks
<1> QED  BY Invariance, <1>1, PTL

\* One writer excludes every other handle.
THEOREM Exclusion ==
  ASSUME OneHandlePerOwner
  PROVE  Spec => []Exclusive
<1>1. IInv => Exclusive
  <2> SUFFICES ASSUME IInv, NEW g \in Handle, NEW h \in Handle, g # h
               PROVE  Compatible(ClientMode[g], ClientMode[h])
    BY DEF Exclusive
  <2>1. Compatible(held[OwnerOf(g)], held[OwnerOf(h)])
    BY OwnerFacts DEF IInv, KernelExclusive, OneHandlePerOwner
  <2> QED
    BY <2>1 DEF IInv, TypeOK, PhasesOK, PhaseOK, HasWhatItCountsOn, ClientMode, Compatible, Mode
<1> QED  BY Invariance, <1>1, PTL

\* The last system call of _enforce_lock never raises EDEADLK: the set of all
\* owners but the caller is closed, so no chain of sleepers leads to the caller.
THEOREM NoDeadlockTwice ==
  ASSUME OneHandlePerOwner
  PROVE  Spec => []ThirdCallNeverFails
<1>1. ASSUME IInv, NEW h \in Handle, pc[h] = "reblock"
      PROVE  ~Deadlocked(h)
  <2> DEFINE S == Owner \ {OwnerOf(h)}
  <2>1. held[OwnerOf(h)] = "none"
    BY <1>1 DEF IInv, PhasesOK, PhaseOK
  <2>2. DOMAIN waits = Owner /\ DOMAIN held = Owner
    BY <1>1 DEF IInv, TypeOK
  <2>3. Closed(waits, Nobody, S)
    BY <1>1, <2>1 DEF IInv, TypeOK, SleepersBehindHolders, Closed
  <2>4. ASSUME NEW b \in Rivals(h, want[h])
        PROVE  ~LeadsTo(waits, Nobody, b, OwnerOf(h))
    <3>1. b \in S /\ S \in SUBSET DOMAIN waits
      BY <2>2 DEF Rivals, Blockers
    <3> QED  BY <2>3, <3>1 DEF LeadsTo
  <2> QED  BY <2>4 DEF Deadlocked
<1>2. IInv => ThirdCallNeverFails  BY <1>1 DEF ThirdCallNeverFails
<1> QED  BY Invariance, <1>2, PTL

\* What a client has is compatible with whatever the kernel lets another hold.
LEMMA OthersAreCompatible ==
  ASSUME OneHandlePerOwner, IInv, NEW h \in Handle, NEW m \in Mode,
         \A p \in Owner \ {OwnerOf(h)} : Compatible(held[p], m)
  PROVE  \A g \in Handle \ {h} : Compatible(ClientMode[g], m)
<1> SUFFICES ASSUME NEW g \in Handle \ {h}  PROVE Compatible(ClientMode[g], m)
  OBVIOUS
<1>1. Compatible(held[OwnerOf(g)], m)  BY OwnerFacts DEF OneHandlePerOwner
<1> QED
  BY <1>1 DEF IInv, TypeOK, PhasesOK, PhaseOK, HasWhatItCountsOn, ClientMode, Compatible, Mode

\* A grant of which the client is told is an Acquire of the abstract lock.
LEMMA GrantIsAcquire ==
  ASSUME OneHandlePerOwner, IInv, NEW h \in Handle, NEW m \in Request, Grant(h, m),
         Tell(h, m), pc' = [pc EXCEPT ![h] = "idle"]
  PROVE  RW!Acquire(h, m)
<1>1. \A p \in Owner \ {OwnerOf(h)} : Compatible(held[p], m)
  BY DEF Grant, Rivals, Blockers, IInv, TypeOK
<1>2. \A g \in Handle \ {h} : Compatible(ClientMode[g], m)
  BY <1>1, OthersAreCompatible DEF Mode, Request
<1>3. ClientMode' = [ClientMode EXCEPT ![h] = m]
  BY DEF Tell, IInv, TypeOK, ClientMode
<1> QED  BY <1>2, <1>3 DEF RW!Acquire, RW!Compatible, Compatible

\* A call that ends, by returning or by a TimeoutError, while the kernel holds
\* for it what the client will have: an Acquire of that, or nothing.
LEMMA EndIsAcquire ==
  ASSUME OneHandlePerOwner, IInv, NEW h \in Handle, NEW m \in Mode, pc[h] # "idle",
         m # "none" => held[OwnerOf(h)] \in {m, "EX"},
         ClientMode' = [ClientMode EXCEPT ![h] = m]
  PROVE  [RW!Next]_ClientMode
<1>1. CASE m = "none"
  BY <1>1 DEF ClientMode
<1>2. CASE m # "none"
  <2>1. \A p \in Owner \ {OwnerOf(h)} : Compatible(held[p], m)
    BY <1>2, OwnerFacts DEF IInv, TypeOK, KernelExclusive, Compatible, Mode
  <2>2. RW!Acquire(h, m)
    BY <2>1, OthersAreCompatible DEF RW!Acquire, RW!Compatible, Compatible
  <2> QED  BY <1>2, <2>2 DEF RW!Next, RW!Request, Mode
<1> QED  BY <1>1, <1>2

\* FileLock implements the readers-writer lock of RWLock.tla.
THEOREM Implementation ==
  ASSUME OneHandlePerOwner
  PROVE  Spec => ImplementsRWLock
<1>1. Init => RW!Init
  BY DEF Init, RW!Init, ClientMode
<1>2. ASSUME IInv, [Next]_vars  PROVE [RW!Next]_ClientMode
  <2> USE <1>2 DEF IInv, TypeOK
  <2> DEFINE Releases(C) == ClientMode' = [h \in Handle |-> IF h \in C THEN "none" ELSE ClientMode[h]]
  <2>0. \A C \in SUBSET Handle : Releases(C) => RW!Next
    BY DEF RW!Next, RW!Release
  <2>1. ASSUME NEW h \in Handle, NEW m \in Request, Grab(h, m)  PROVE RW!Next
    <3>1. pc' = [pc EXCEPT ![h] = "idle"]  BY <2>1 DEF Grab, CallBegins, Running
    <3>2. RW!Acquire(h, m)  BY <2>1, <3>1, GrantIsAcquire DEF Grab
    <3> QED  BY <3>2 DEF RW!Next, RW!Request, Request
  <2>2. ASSUME NEW h \in Handle, NEW m \in Request, Refuse(h, m)  PROVE RW!Next
    <3>1. Releases({h})  BY <2>2 DEF Refuse, Tell, ClientMode
    <3>2. {h} \in SUBSET Handle  OBVIOUS
    <3> QED  BY <3>1, <3>2, <2>0
  <2>3. ASSUME NEW h \in Handle, NEW m \in Request, GoBlocking(h, m)  PROVE RW!Next
    <3>1. Releases({h})
      BY <2>3 DEF GoBlocking, ClientMode
    <3>2. {h} \in SUBSET Handle  OBVIOUS
    <3> QED  BY <3>1, <3>2, <2>0
  <2>4. ASSUME NEW h \in Handle, Sleep(h)  PROVE UNCHANGED ClientMode
    BY <2>4 DEF Sleep, ClientMode
  <2>5. ASSUME NEW h \in Handle, Acquire(h)  PROVE RW!Next
    <3>1. RW!Acquire(h, want[h])  BY <2>5, GrantIsAcquire DEF Acquire
    <3> QED  BY <3>1 DEF RW!Next, RW!Request, Request
  <2>6. ASSUME NEW h \in Handle, AcquireTimed(h)  PROVE UNCHANGED ClientMode
    BY <2>6 DEF AcquireTimed, ClientMode
  <2>7. ASSUME NEW h \in Handle, LeaveTimer(h)  PROVE [RW!Next]_ClientMode
    <3>1. ClientMode' = [ClientMode EXCEPT ![h] = want[h]]
      BY <2>7 DEF LeaveTimer, Tell, ClientMode
    <3>2. held[OwnerOf(h)] = want[h] /\ want[h] \in Mode
      BY <2>7 DEF LeaveTimer, PhasesOK, PhaseOK, Request, Mode
    <3> QED  BY <2>7, <3>1, <3>2, EndIsAcquire DEF LeaveTimer
  <2>8. ASSUME NEW h \in Handle, LateAlarm(h)  PROVE [RW!Next]_ClientMode
    <3>1. ClientMode' = [ClientMode EXCEPT ![h] = grabbed[h]]
      BY <2>8 DEF LateAlarm, ClientMode
    <3>2. grabbed[h] # "none" => held[OwnerOf(h)] \in {grabbed[h], "EX"}
      BY <2>8 DEF LateAlarm, PhasesOK, PhaseOK, Request, Mode
    <3> QED  BY <2>8, <3>1, <3>2, EndIsAcquire DEF LateAlarm
  <2>9. ASSUME NEW h \in Handle, BreakDeadlock(h)  PROVE UNCHANGED ClientMode
    BY <2>9 DEF BreakDeadlock, ClientMode
  <2>10. ASSUME NEW h \in Handle, TimeOut(h)  PROVE [RW!Next]_ClientMode
    <3>1. ClientMode' = [ClientMode EXCEPT ![h] = grabbed[h]]
      BY <2>10 DEF TimeOut, WaitEnds, ClientMode
    <3>2. grabbed[h] # "none" => held[OwnerOf(h)] \in {grabbed[h], "EX"}
      BY <2>10 DEF TimeOut, PhasesOK, PhaseOK, HasWhatItCountsOn
    <3> QED  BY <2>10, <3>1, <3>2, EndIsAcquire DEF TimeOut
  <2>11. ASSUME NEW h \in Handle, Enter(h)  PROVE UNCHANGED ClientMode
    BY <2>11 DEF Enter, ClientMode
  <2>12. ASSUME NEW h \in Handle, Unlock(h) \/ Exit(h)  PROVE RW!Next
    <3>1. Releases({h})  BY <2>12 DEF Unlock, Exit, Tell, ClientMode
    <3>2. {h} \in SUBSET Handle  OBVIOUS
    <3> QED  BY <3>1, <3>2, <2>0
  <2>13. ASSUME NEW p \in Process, Crash(p)  PROVE RW!Next
    <3>1. Releases({h \in Handle : ProcessOf[h] = p})  BY <2>13 DEF Crash, ClientMode
    <3>2. {h \in Handle : ProcessOf[h] = p} \in SUBSET Handle  OBVIOUS
    <3> QED  BY <3>1, <3>2, <2>0
  <2>14. CASE UNCHANGED vars
    BY <2>14 DEF vars, ClientMode
  <2> QED
    BY <2>1, <2>2, <2>3, <2>4, <2>5, <2>6, <2>7, <2>8, <2>9, <2>10, <2>11, <2>12,
       <2>13, <2>14 DEF Next
<1> QED  BY Invariance, <1>1, <1>2, PTL DEF Spec, ImplementsRWLock, RW!Spec
=============================================================================
