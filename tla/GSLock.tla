------------------------------- MODULE GSLock -------------------------------
(***************************************************************************)
(* lib/paygen/gslock.py: locks that are files in Google Storage, taken and *)
(* given back by gsutil commands conditional on the file's generation, and *)
(* lib/gs.py as far as these commands go.                                  *)
(*                                                                         *)
(* A command can take effect and be retried because its answer was lost;   *)
(* the retry then finds another generation than it asks for.  A lock older *)
(* than its timeout may be taken over, whatever its owner is doing.        *)
(***************************************************************************)
EXTENDS Naturals, FiniteSets

CONSTANTS Locker,       \* the Lock objects, each in a process of its own
          NoFile,       \* the lock file does not exist
          Gone,         \* the contents of a file whose Locker has died
          MaxCrashes    \* bound: processes that die

ASSUME GSLockAssumption ==
  /\ IsFiniteSet(Locker) /\ Gone \notin Locker
  /\ NoFile \notin [contents : Locker \cup {Gone}, generation : Nat, timedOut : BOOLEAN]
  /\ MaxCrashes \in Nat

VARIABLES file,         \* NoFile, or its contents, generation and whether it has timed out
          generation,   \* each object's _generation
          pc,           \* the command it is in, or "idle"
          block,        \* "out" of the protected code, "in" it, or "lost": in it
                        \* after a Renew or a Release raised
          lapsed,       \* ghost: its file timed out since it got the lock
          adopted,      \* ghost: somebody took another's lock for its own
          crashes,
          outage        \* gsutil's commands may still fail

vars == <<file, generation, pc, block, lapsed, adopted, crashes, outage>>

Generation == 1 .. Cardinality(Locker) + 2

Init ==
  /\ file = NoFile
  /\ generation = [l \in Locker |-> 0]
  /\ pc = [l \in Locker |-> "idle"]
  /\ block = [l \in Locker |-> "out"]
  /\ lapsed = [l \in Locker |-> FALSE]
  /\ adopted = FALSE
  /\ crashes = 0
  /\ outage = TRUE

Exists   == file # NoFile
Owns(l)  == Exists /\ file.contents = l
Holds(l) == block[l] = "in" /\ pc[l] \notin {"remove", "probeRemoved"}

\* x-goog-if-generation-match: 0 stands for a file that does not exist.
Matches(g) == IF Exists THEN g = file.generation ELSE g = 0

\* Generations only grow; all that shows is that a new one is no known one.
InUse == {generation[l] : l \in Locker} \cup (IF Exists THEN {file.generation} ELSE {})
Fresh == CHOOSE g \in Generation : g \notin InUse

Goes(l, from, to) == pc[l] \in from /\ pc' = [pc EXCEPT ![l] = to]
SetGeneration(l, g) == generation' = [generation EXCEPT ![l] = g]
SetBlock(l, b) == block' = [block EXCEPT ![l] = b]

\* The call returns: the object has the lock.
Acquired(l, g) == SetGeneration(l, g) /\ SetBlock(l, "in")

\* Acquire or Renew raises: a Renew leaves its caller in the protected code.
NotAcquired(l) == SetBlock(l, IF block[l] = "in" THEN "lost" ELSE block[l])

-----------------------------------------------------------------------------
(* _AcquireLock: Copy, and Cat and Stat when its precondition fails.        *)

Acquire(l) ==
  /\ block[l] = "out"
  /\ Goes(l, {"idle"}, "copy")
  /\ lapsed' = [lapsed EXCEPT ![l] = Owns(l) /\ file.timedOut]
  /\ UNCHANGED <<file, generation, block, adopted, crashes, outage>>

\* Renew raises at once when the generation is 0 (the lock is not held).
Renew(l) ==
  /\ block[l] = "in" /\ generation[l] # 0
  /\ Goes(l, {"idle"}, "copy")
  /\ UNCHANGED <<file, generation, block, lapsed, adopted, crashes, outage>>

\* The file is created or replaced.
Written(l) ==
  /\ Matches(generation[l])
  /\ file' = [contents |-> l, generation |-> Fresh, timedOut |-> FALSE]

CopyWorks(l) ==
  /\ Goes(l, {"copy", "steal"}, "idle")
  /\ Written(l)
  /\ Acquired(l, Fresh)
  /\ lapsed' = [lapsed EXCEPT ![l] = lapsed[l] /\ block[l] = "in"]
  /\ UNCHANGED <<adopted, crashes, outage>>

\* The answer is lost, and gsutil runs again.
CopyLost(l) ==
  /\ outage
  /\ pc[l] \in {"copy", "steal"}
  /\ Written(l)
  /\ UNCHANGED <<generation, pc, block, lapsed, adopted, crashes, outage>>

\* The answer does not tell the generation, or is "not found" and taken for a
\* success: LockProbeError.
CopyUnparsed(l) ==
  /\ outage
  /\ Goes(l, {"copy", "steal"}, "idle")
  /\ Written(l) \/ UNCHANGED file
  /\ SetGeneration(l, 0)
  /\ NotAcquired(l)
  /\ UNCHANGED <<lapsed, adopted, crashes, outage>>

\* Mutant: a precondition that fails in the second _AcquireLock is overlooked.
CopyConflictsUnseen(l) ==
  /\ ~Matches(generation[l])
  /\ Goes(l, {"copy", "steal"}, IF pc[l] = "copy" THEN "probe" ELSE "idle")
  /\ SetGeneration(l, IF pc[l] = "copy" THEN 0 ELSE generation[l])
  /\ IF pc[l] = "copy" THEN UNCHANGED block ELSE SetBlock(l, "in")
  /\ UNCHANGED <<file, lapsed, adopted, crashes, outage>>

\* GSContextPreconditionFailed.  A lock that was to be created may be one's own;
\* otherwise Acquire looks whether it has timed out, the first time only.
CopyConflicts(l) ==
  /\ ~Matches(generation[l])
  /\ Goes(l, {"copy", "steal"}, CASE pc[l] = "steal" -> "idle"
                                  [] pc[l] = "copy" /\ generation[l] = 0 -> "cat"
                                  [] OTHER -> "probe")
  /\ SetGeneration(l, 0)
  /\ IF pc[l] = "steal" THEN NotAcquired(l) ELSE UNCHANGED block
  /\ UNCHANGED <<file, lapsed, adopted, crashes, outage>>

CatOwn(l) ==
  /\ Owns(l)
  /\ Goes(l, {"cat"}, "stat")
  /\ UNCHANGED <<file, generation, block, lapsed, adopted, crashes, outage>>

\* The contents are others', or Cat failed.
CatOther(l) ==
  /\ Goes(l, {"cat"}, "probe")
  /\ UNCHANGED <<file, generation, block, lapsed, adopted, crashes, outage>>

\* The generation of the file one owned when Cat read it: if it has timed out and
\* been taken over in between, the generation is that of another's lock.
StatWorks(l) ==
  /\ Exists
  /\ Goes(l, {"stat"}, "idle")
  /\ Acquired(l, file.generation)
  /\ adopted' = (adopted \/ ~Owns(l))
  /\ UNCHANGED <<file, lapsed, crashes, outage>>

StatFindsNothing(l) ==
  /\ ~Exists
  /\ Goes(l, {"stat"}, "probe")
  /\ UNCHANGED <<file, generation, block, lapsed, adopted, crashes, outage>>

-----------------------------------------------------------------------------
(* Acquire's second attempt: _LockExpired, and a Copy over the expired file. *)

LockExpired == Exists /\ file.timedOut

\* Mutant: the generation of the expired file is not kept for the next Copy.
ProbeExpiredForgets(l) ==
  /\ LockExpired
  /\ Goes(l, {"probe"}, "steal")
  /\ UNCHANGED <<file, generation, block, lapsed, adopted, crashes, outage>>

ProbeExpired(l) ==
  /\ LockExpired
  /\ Goes(l, {"probe"}, "steal")
  /\ SetGeneration(l, file.generation)
  /\ UNCHANGED <<file, block, lapsed, adopted, crashes, outage>>

ProbeValid(l) ==
  /\ ~LockExpired
  /\ Goes(l, {"probe"}, "idle")
  /\ NotAcquired(l)
  /\ UNCHANGED <<file, generation, lapsed, adopted, crashes, outage>>

-----------------------------------------------------------------------------
(* Release, and the end of a command that fails for good.                   *)

Release(l) ==
  /\ block[l] # "out"
  /\ Goes(l, {"idle"}, "remove")
  /\ UNCHANGED <<file, generation, block, lapsed, adopted, crashes, outage>>

Released(l) == SetGeneration(l, 0) /\ SetBlock(l, "out")

\* Mutant: the file is removed whatever its generation.
RemoveAnything(l) ==
  /\ Goes(l, {"remove"}, "idle")
  /\ file' = NoFile
  /\ Released(l)
  /\ UNCHANGED <<lapsed, adopted, crashes, outage>>

\* The file is removed; or it is missing, which is ignored.
RemoveWorks(l) ==
  /\ ~Exists \/ Matches(generation[l])
  /\ Goes(l, {"remove"}, "idle")
  /\ file' = NoFile
  /\ Released(l)
  /\ UNCHANGED <<lapsed, adopted, crashes, outage>>

RemoveLost(l) ==
  /\ outage
  /\ pc[l] = "remove"
  /\ Exists /\ Matches(generation[l])
  /\ file' = NoFile
  /\ UNCHANGED <<generation, pc, block, lapsed, adopted, crashes, outage>>

RemoveConflicts(l) ==
  /\ Exists /\ ~Matches(generation[l])
  /\ Goes(l, {"remove"}, "probeRemoved")
  /\ UNCHANGED <<file, generation, block, lapsed, adopted, crashes, outage>>

\* "if not self._LockExpired(): raise": the pair it returns is never false.
RemoveConflictIgnored(l) ==
  /\ Goes(l, {"probeRemoved"}, "idle")
  /\ Released(l)
  /\ UNCHANGED <<file, lapsed, adopted, crashes, outage>>

\* gsutil gives up after its retries: an exception from any command.  A Release
\* that raises may be the end of a "with" or may be tried again.
CommandFails(l) ==
  /\ outage
  /\ pc[l] # "idle"
  /\ Goes(l, {pc[l]}, "idle")
  /\ IF pc[l] \in {"remove", "probeRemoved"}
     THEN \E b \in {"lost", "out"} : SetBlock(l, b)
     ELSE NotAcquired(l)
  /\ UNCHANGED <<file, generation, lapsed, adopted, crashes, outage>>

-----------------------------------------------------------------------------
\* The file becomes older than the timeout.
TimeOut ==
  /\ Exists /\ ~file.timedOut
  /\ file' = [file EXCEPT !.timedOut = TRUE]
  /\ lapsed' = [l \in Locker |-> lapsed[l] \/ Owns(l)]
  /\ UNCHANGED <<generation, pc, block, adopted, crashes, outage>>

\* The process dies; the one that replaces it has other MachineDetails.
Crash(l) ==
  /\ crashes < MaxCrashes
  /\ crashes' = crashes + 1
  /\ file' = IF Owns(l) THEN [file EXCEPT !.contents = Gone] ELSE file
  /\ generation' = [generation EXCEPT ![l] = 0]
  /\ pc' = [pc EXCEPT ![l] = "idle"]
  /\ block' = [block EXCEPT ![l] = "out"]
  /\ lapsed' = [lapsed EXCEPT ![l] = FALSE]
  /\ UNCHANGED <<adopted, outage>>

\* The steps of a call, and those it owes to gsutil's failures.
Works(l) ==
  \/ Acquire(l) \/ Renew(l) \/ CopyWorks(l) \/ CopyConflicts(l)
  \/ CatOwn(l) \/ CatOther(l) \/ StatWorks(l) \/ StatFindsNothing(l)
  \/ ProbeExpired(l) \/ ProbeValid(l)
  \/ Release(l) \/ RemoveWorks(l) \/ RemoveConflicts(l) \/ RemoveConflictIgnored(l)

Fails(l) == CopyLost(l) \/ CopyUnparsed(l) \/ RemoveLost(l) \/ CommandFails(l)

OutageEnds ==
  outage' = FALSE /\ UNCHANGED <<file, generation, pc, block, lapsed, adopted, crashes>>

Next ==
  \/ \E l \in Locker : Works(l) \/ Fails(l) \/ Crash(l)
  \/ TimeOut \/ OutageEnds

Spec == Init /\ [][Next]_vars

\* Lockers go on asking for the lock and giving it back, their commands end, and
\* gsutil's failures cease at some time.
LiveSpec ==
  /\ Spec
  /\ WF_vars(TimeOut) /\ WF_vars(OutageEnds)
  /\ \A l \in Locker : WF_vars(Works(l))

-----------------------------------------------------------------------------
TypeOK ==
  /\ file \in {NoFile} \cup [contents : Locker \cup {Gone}, generation : Generation,
                             timedOut : BOOLEAN]
  /\ generation \in [Locker -> Generation \cup {0}]
  /\ pc \in [Locker -> {"idle", "copy", "cat", "stat", "probe", "steal", "remove", "probeRemoved"}]
  /\ block \in [Locker -> {"out", "in", "lost"}]
  /\ lapsed \in [Locker -> BOOLEAN]
  /\ adopted \in BOOLEAN
  /\ crashes \in 0 .. MaxCrashes
  /\ outage \in BOOLEAN

\* "Locking is strictly atomic, except when timeouts are involved" (line 82):
\* of two lockers in their protected code one at least has overrun its timeout,
\* unless _AcquireLock has taken another's lock for its own (lines 156-162).
MutualExclusion ==
  \A l, k \in Locker : l # k /\ Holds(l) /\ Holds(k) => lapsed[l] \/ lapsed[k] \/ adopted

\* A locker that has not overrun its timeout has the file, under the generation
\* it knows, so that its Release removes it: no steal, lost answer or Release of
\* another locker takes it away.
HolderHasTheFile ==
  \A l \in Locker : Holds(l) /\ ~lapsed[l] /\ ~adopted =>
    Owns(l) /\ (pc[l] = "idle" => file.generation = generation[l])

\* A dead process does not keep the others out for ever: in the end its lock is
\* taken over, or removed by one that took it for its own.
Recovered == Exists /\ file.contents = Gone ~> ~Exists \/ file.contents # Gone

\* Line 48: the class can be used with a "with" clause "to ensure the lock is
\* released": a Release that returns leaves no file of the locker behind.
ReleaseReleases ==
  [][\A l \in Locker : RemoveWorks(l) \/ RemoveConflictIgnored(l) => ~Owns(l)']_vars
=============================================================================
