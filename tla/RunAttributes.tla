---------------------------- MODULE RunAttributes ----------------------------
(***************************************************************************)
(* cbuildbot/cbuildbot_run.py: one parallel run attribute, shared by the   *)
(* stages of a build that run in processes of their own.  The value lives  *)
(* in a queue next to a lock (LockableQueue); both are objects of a        *)
(* multiprocessing manager.                                                *)
(*                                                                         *)
(* A stage may be killed at any point.  The manager then loses the stage's *)
(* connection: a lock the stage held stays held, a value it had taken is   *)
(* gone, and a get() it was blocked in goes on in the manager's thread.    *)
(***************************************************************************)
EXTENDS Naturals, Sequences, FiniteSets

CONSTANTS Stage,      \* the processes
          Value,      \* the values the attribute can be given
          NoValue,    \* what a process without a value in hand has
          Free,       \* the lock's owner while nobody has it
          MaxCalls,   \* bound: calls made by all stages
          MaxKills    \* bound: stages killed

ASSUME RunAttributesAssumption ==
  /\ NoValue \notin Value
  /\ Free \notin Stage
  /\ MaxCalls \in Nat /\ MaxKills \in Nat

VARIABLES queue,      \* the LockableQueue's queue
          rlock,      \* the stage that holds its lock, or Free
          pc,         \* where each stage is in its call
          hand,       \* the value each stage took, or is to put
          patient,    \* the call is GetParallel(timeout=None)
          dead,       \* the stages killed
          latest,     \* the value SetParallel put last, or NoValue
          overlapped, \* two getters have had a value in hand at the same time
          calls       \* calls made so far

vars == <<queue, rlock, pc, hand, patient, dead, latest, overlapped, calls>>

PC == {"idle", "set", "setdrain", "setput", "get", "relock", "getdrain", "getput"}

Init ==
  /\ queue    = <<>>
  /\ rlock    = Free
  /\ pc       = [s \in Stage |-> "idle"]
  /\ hand     = [s \in Stage |-> NoValue]
  /\ patient  = [s \in Stage |-> FALSE]
  /\ dead     = {}
  /\ latest   = NoValue
  /\ overlapped = FALSE
  /\ calls    = 0

IsSet == latest # NoValue

\* A live stage moves on from one point of its call to the next.
Step(s, from, to) ==
  /\ s \notin dead
  /\ pc[s] = from
  /\ pc' = [pc EXCEPT ![s] = to]

CallBegins(s, to) ==
  /\ Step(s, "idle", to)
  /\ calls < MaxCalls
  /\ calls' = calls + 1

Lock(s)   == rlock = Free /\ rlock' = s
Unlock(s) == rlock' = Free
Put(s)    == queue' = Append(queue, hand[s])
Take(s)   == queue # <<>> /\ hand' = [hand EXCEPT ![s] = Head(queue)] /\ queue' = Tail(queue)

-----------------------------------------------------------------------------
(* SetParallel, HasParallel and SetParallelDefault.                         *)

SetParallel(s, v) ==
  /\ CallBegins(s, "set")
  /\ hand' = [hand EXCEPT ![s] = v]
  /\ UNCHANGED <<queue, rlock, patient, dead, latest, overlapped>>

SetLock(s) ==
  /\ Step(s, "set", "setdrain")
  /\ Lock(s)
  /\ UNCHANGED <<queue, hand, patient, dead, latest, overlapped, calls>>

\* Any value on the queue is stale.
SetDrain(s) ==
  /\ queue # <<>>
  /\ Step(s, "setdrain", "setdrain")
  /\ queue' = Tail(queue)
  /\ UNCHANGED <<rlock, hand, patient, dead, latest, overlapped, calls>>

SetDrained(s) ==
  /\ queue = <<>>
  /\ Step(s, "setdrain", "setput")
  /\ UNCHANGED <<queue, rlock, hand, patient, dead, latest, overlapped, calls>>

SetPut(s) ==
  /\ Step(s, "setput", "idle")
  /\ Put(s)
  /\ Unlock(s)
  /\ latest' = hand[s]
  /\ hand' = [hand EXCEPT ![s] = NoValue]
  /\ UNCHANGED <<patient, dead, overlapped, calls>>

\* HasParallel looks at the queue under the lock, as one step.
HasParallel(s) == s \notin dead /\ rlock = Free /\ queue # <<>>
HasNot(s)      == s \notin dead /\ rlock = Free /\ queue = <<>>

\* SetParallelDefault calls SetParallel when HasParallel says no...
SetParallelDefault(s, v) ==
  /\ HasNot(s)
  /\ SetParallel(s, v)

\* ... and does nothing when it says yes.
DefaultNotNeeded(s) ==
  /\ HasParallel(s)
  /\ CallBegins(s, "idle")
  /\ UNCHANGED <<queue, rlock, hand, patient, dead, latest, overlapped>>

-----------------------------------------------------------------------------
(* GetParallel.                                                             *)

GetParallel(s, forever) ==
  /\ CallBegins(s, "get")
  /\ patient' = [patient EXCEPT ![s] = forever]
  /\ UNCHANGED <<queue, rlock, hand, dead, latest, overlapped>>

\* A getter that has taken the value and not put it back.
HasTaken(t) == pc[t] \in {"relock", "getdrain", "getput"} /\ hand[t] # NoValue

\* The first get() takes the value off the queue without the lock.  The
\* manager's thread does so for a stage that was killed while it waited, too.
GetFirst(s) ==
  /\ pc[s] = "get"
  /\ Take(s)
  /\ pc' = [pc EXCEPT ![s] = "relock"]
  /\ overlapped' = (overlapped \/ \E t \in Stage : HasTaken(t))
  /\ UNCHANGED <<rlock, patient, dead, latest, calls>>

\* It times out.
GetMiss(s) ==
  /\ ~patient[s]
  /\ queue = <<>>
  /\ Step(s, "get", "relock")
  /\ UNCHANGED <<queue, rlock, hand, patient, dead, latest, overlapped, calls>>

GetLock(s) ==
  /\ Step(s, "relock", "getdrain")
  /\ Lock(s)
  /\ UNCHANGED <<queue, hand, patient, dead, latest, overlapped, calls>>

\* Mutant: a value that was put since is dropped.
GetDrainDiscards(s) ==
  /\ Step(s, "getdrain", "getdrain")
  /\ queue # <<>> /\ hand[s] # NoValue
  /\ queue' = Tail(queue)
  /\ UNCHANGED <<rlock, hand, patient, dead, latest, overlapped, calls>>

\* A value that was put since replaces the one in hand.
GetDrain(s) ==
  /\ Step(s, "getdrain", "getdrain")
  /\ Take(s)
  /\ UNCHANGED <<rlock, patient, dead, latest, overlapped, calls>>

\* Mutant: got_value is not looked at.
GetDrainedUnchecked(s) ==
  /\ queue = <<>>
  /\ Step(s, "getdrain", "getput")
  /\ UNCHANGED <<queue, rlock, hand, patient, dead, latest, overlapped, calls>>

\* Mutant: the lock is released before the value is put back.
GetDrainedUnlocks(s) ==
  /\ queue = <<>>
  /\ hand[s] # NoValue
  /\ Step(s, "getdrain", "getput")
  /\ Unlock(s)
  /\ UNCHANGED <<queue, hand, patient, dead, latest, overlapped, calls>>

\* The lock is kept for the put.
GetDrained(s) ==
  /\ queue = <<>>
  /\ hand[s] # NoValue
  /\ Step(s, "getdrain", "getput")
  /\ UNCHANGED <<queue, rlock, hand, patient, dead, latest, overlapped, calls>>

\* Mutant: the lock is still held when the exception leaves.
GetRaisesLocked(s) ==
  /\ queue = <<>>
  /\ hand[s] = NoValue
  /\ Step(s, "getdrain", "idle")
  /\ UNCHANGED <<queue, rlock, hand, patient, dead, latest, overlapped, calls>>

\* Nothing there: ParallelAttributeError, or AttrTimeoutError.
GetRaises(s) ==
  /\ queue = <<>>
  /\ hand[s] = NoValue
  /\ Step(s, "getdrain", "idle")
  /\ Unlock(s)
  /\ UNCHANGED <<queue, hand, patient, dead, latest, overlapped, calls>>

\* Mutant: the value is returned without being put back.
GetKeeps(s) ==
  /\ Step(s, "getput", "idle")
  /\ Unlock(s)
  /\ hand' = [hand EXCEPT ![s] = NoValue]
  /\ UNCHANGED <<queue, patient, dead, latest, overlapped, calls>>

\* The value goes back on the queue and to the caller.
GetReturns(s) ==
  /\ Step(s, "getput", "idle")
  /\ Put(s)
  /\ Unlock(s)
  /\ hand' = [hand EXCEPT ![s] = NoValue]
  /\ UNCHANGED <<patient, dead, latest, overlapped, calls>>

Kill(s) ==
  /\ s \notin dead
  /\ Cardinality(dead) < MaxKills
  /\ dead' = dead \cup {s}
  /\ UNCHANGED <<queue, rlock, pc, hand, patient, latest, overlapped, calls>>

-----------------------------------------------------------------------------
CallStep(s) ==
  \/ SetLock(s) \/ SetDrain(s) \/ SetDrained(s) \/ SetPut(s)
  \/ GetFirst(s) \/ GetMiss(s) \/ GetLock(s) \/ GetDrain(s) \/ GetDrained(s)
  \/ GetRaises(s) \/ GetReturns(s)

Next ==
  \E s \in Stage :
    \/ \E v \in Value : SetParallel(s, v) \/ SetParallelDefault(s, v)
    \/ \E forever \in BOOLEAN : GetParallel(s, forever)
    \/ DefaultNotNeeded(s) \/ CallStep(s) \/ Kill(s)

Spec == Init /\ [][Next]_vars

\* A live stage goes on with its call, and so does the manager.
LiveSpec == Spec /\ \A s \in Stage : WF_vars(CallStep(s))

-----------------------------------------------------------------------------
TypeOK ==
  /\ queue \in Seq(Value)
  /\ rlock \in Stage \cup {Free}
  /\ pc \in [Stage -> PC]
  /\ hand \in [Stage -> Value \cup {NoValue}]
  /\ patient \in [Stage -> BOOLEAN]
  /\ dead \in SUBSET Stage
  /\ latest \in Value \cup {NoValue}
  /\ overlapped \in BOOLEAN
  /\ calls \in 0 .. MaxCalls
  /\ \A s \in Stage : pc[s] \in {"set", "setdrain", "setput", "getput"} => hand[s] # NoValue
  /\ \A s \in Stage : pc[s] \in {"idle", "get"} => hand[s] = NoValue

\* However first gets without the lock, drains and re-queues interleave, no two
\* values are ever on the queue: a stale one can not hide a newer one there.
AtMostOneValue == Len(queue) <= 1

\* Once the attribute has been set its value is on the queue or in the hand of a
\* stage that will put it back: only the death of that very stage loses it.
NeverLost == IsSet => queue # <<>> \/ \E s \in Stage : hand[s] # NoValue

\* While no two getters have had a value in hand at once, the value set last is
\* the one on the queue, or on its way back to it: the drain in GetParallel
\* drops the stale value and not the new one (lines 459-474).  A newer one that a
\* setter is about to put may have emptied the queue.
LatestSurvives ==
  IsSet /\ ~overlapped =>
    \/ queue = <<latest>>
    \/ \E s \in Stage : HasTaken(s) /\ hand[s] = latest
    \/ \E s \in Stage : pc[s] \in {"setdrain", "setput"}

\* A stage that waits for the attribute without a timeout, as the archive and
\* test stages do, gets past the first get() once the attribute has been set,
\* unless a stage was killed: a getter always puts the value back for the next.
WaitersAreServed ==
  \A s \in Stage : IsSet /\ pc[s] # "idle" ~> pc[s] = "idle" \/ dead # {}

\* HasParallel (lines 390-396): "Return True if the given parallel run attribute
\* is known and set."  SetParallelDefault sets the default when it says no.
HasParallelIsTruthful == \A s \in Stage : IsSet /\ dead = {} /\ rlock = Free => HasParallel(s)
=============================================================================
