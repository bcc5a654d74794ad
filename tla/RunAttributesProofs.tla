------------------------ MODULE RunAttributesProofs ------------------------
(***************************************************************************)
(* RunAttributes, for any number of stages, values, calls and deaths: the  *)
(* queue holds one value at most, the value is never lost, and the value   *)
(* set last survives while getters do not overlap.                         *)
(***************************************************************************)
EXTENDS RunAttributes, TLAPS

\* The steps of a call made under the lock.
Critical == {"setdrain", "setput", "getdrain", "getput"}

\* The queue has no value or one.
QueueShape == queue = <<>> \/ \E v \in Value : queue = <<v>>

\* Only the lock's owner is in a critical section, dead or alive.
Mutex == \A s \in Stage : pc[s] \in Critical => rlock = s

\* Whoever is about to put has found the queue empty, and it stays so.
PutsOnEmpty == \A s \in Stage : pc[s] \in {"setput", "getput"} => queue = <<>>

\* Without overlap one getter at most waits for the lock with a value in hand.
OneTaker ==
  ~overlapped => \A s, t \in Stage :
    /\ pc[s] = "relock" /\ hand[s] # NoValue
    /\ pc[t] = "relock" /\ hand[t] # NoValue
    => s = t

\* Without overlap the value set last is on the queue, or the queue is empty
\* and it is in the hand of the getter that has the lock, or of one that waits
\* for it while the lock's owner has nothing to put back.
LatestIsHere ==
  IsSet /\ ~overlapped /\ (\A s \in Stage : pc[s] \notin {"setdrain", "setput"}) =>
    \/ queue = <<latest>>
    \/ queue = <<>> /\ \E s \in Stage : pc[s] \in {"getdrain", "getput"} /\ hand[s] = latest
    \/ /\ queue = <<>>
       /\ \E s \in Stage : pc[s] = "relock" /\ hand[s] = latest
       /\ \A s \in Stage : pc[s] \in {"getdrain", "getput"} => hand[s] = NoValue

IInv ==
  /\ TypeOK
  /\ QueueShape
  /\ Mutex
  /\ PutsOnEmpty
  /\ NeverLost
  /\ OneTaker
  /\ LatestIsHere

\* The sequences the queue can be.
LEMMA QueueFacts ==
  ASSUME QueueShape
  PROVE  /\ queue \in Seq(Value) /\ Len(queue) <= 1
         /\ queue # <<>> => /\ Head(queue) \in Value /\ Tail(queue) = <<>>
                            /\ queue = <<Head(queue)>>
         /\ queue = <<>> => \A v \in Value : Append(queue, v) = <<v>>
<1>1. CASE queue = <<>>
  BY <1>1
<1>2. ASSUME NEW v \in Value, queue = <<v>>
      PROVE  /\ queue \in Seq(Value) /\ Len(queue) <= 1
             /\ Head(queue) \in Value /\ Tail(queue) = <<>>
             /\ queue = <<Head(queue)>> /\ queue # <<>>
  BY <1>2
<1> QED  BY <1>1, <1>2 DEF QueueShape

\* The initial state satisfies the invariant.
LEMMA InitIInv == Init => IInv
<1> SUFFICES ASSUME Init  PROVE IInv
  OBVIOUS
<1>1. QueueShape
  BY DEF Init, QueueShape
<1>2. TypeOK
  <2>1. queue \in Seq(Value)
    BY <1>1, QueueFacts
  <2>2. calls \in 0 .. MaxCalls
    BY RunAttributesAssumption DEF Init
  <2> QED  BY <2>1, <2>2 DEF Init, TypeOK, PC
<1>3. Mutex /\ PutsOnEmpty /\ OneTaker
  BY DEF Init, Mutex, PutsOnEmpty, OneTaker, Critical
<1>4. ~IsSet
  BY DEF Init, IsSet
<1> QED
  BY <1>1, <1>2, <1>3, <1>4 DEF IInv, NeverLost, LatestIsHere

\* A call that begins, or waits for the lock, or stops: only pc and the hands of
\* stages that have taken nothing change.
LEMMA StepIInv ==
  ASSUME IInv, NEW s \in Stage,
         \/ \E v \in Value : SetParallel(s, v)
         \/ \E f \in BOOLEAN : GetParallel(s, f)
         \/ DefaultNotNeeded(s) \/ GetMiss(s) \/ Kill(s)
  PROVE  IInv'
<1> USE RunAttributesAssumption DEF IInv, TypeOK, PC, QueueShape, Mutex, PutsOnEmpty,
        NeverLost, OneTaker, LatestIsHere, IsSet, Critical, Step, CallBegins
<1>1. ASSUME NEW v \in Value, SetParallel(s, v)  PROVE IInv'
  BY <1>1 DEF SetParallel
<1>2. ASSUME NEW f \in BOOLEAN, GetParallel(s, f)  PROVE IInv'
  BY <1>2 DEF GetParallel
<1>3. CASE DefaultNotNeeded(s)
  BY <1>3 DEF DefaultNotNeeded
<1>4. CASE GetMiss(s)
  BY <1>4 DEF GetMiss
<1>5. CASE Kill(s)
  BY <1>5 DEF Kill
<1> QED  BY <1>1, <1>2, <1>3, <1>4, <1>5

\* The steps of SetParallel under the lock.
LEMMA SetIInv ==
  ASSUME IInv, NEW s \in Stage,
         SetLock(s) \/ SetDrain(s) \/ SetDrained(s) \/ SetPut(s)
  PROVE  IInv'
<1> USE RunAttributesAssumption, QueueFacts
    DEF IInv, TypeOK, PC, QueueShape, Mutex, PutsOnEmpty, NeverLost, OneTaker,
        LatestIsHere, IsSet, Critical, Step, Lock, Unlock
<1>1. CASE SetLock(s)
  BY <1>1 DEF SetLock
<1>2. CASE SetDrain(s)
  BY <1>2 DEF SetDrain
<1>3. CASE SetDrained(s)
  BY <1>3 DEF SetDrained
<1>4. CASE SetPut(s)
  <2>1. queue' = <<hand[s]>> /\ hand[s] \in Value /\ latest' = hand[s]
    BY <1>4 DEF SetPut, Put
  <2> QED  BY <1>4, <2>1 DEF SetPut
<1> QED  BY <1>1, <1>2, <1>3, <1>4

\* The steps of GetParallel.
LEMMA GetIInv ==
  ASSUME IInv, NEW s \in Stage,
         GetFirst(s) \/ GetLock(s) \/ GetDrain(s) \/ GetDrained(s) \/ GetRaises(s) \/ GetReturns(s)
  PROVE  IInv'
<1> USE RunAttributesAssumption, QueueFacts
    DEF IInv, TypeOK, PC, QueueShape, Mutex, PutsOnEmpty, NeverLost, OneTaker,
        LatestIsHere, IsSet, Critical, Step, Lock, Unlock
<1>1. CASE GetFirst(s)
  <2>1. /\ queue # <<>> /\ queue' = <<>>
        /\ hand' = [hand EXCEPT ![s] = Head(queue)]
        /\ pc' = [pc EXCEPT ![s] = "relock"]
        /\ overlapped' = (overlapped \/ \E t \in Stage : HasTaken(t))
        /\ UNCHANGED <<rlock, patient, dead, latest, calls>>
    BY <1>1 DEF GetFirst, Take
  <2>2. TypeOK' /\ QueueShape' /\ Mutex' /\ PutsOnEmpty'
    BY <2>1, <1>1 DEF GetFirst
  <2>3. NeverLost'
    BY <2>1
  <2>4. OneTaker'
    BY <2>1 DEF HasTaken
  <2>5. LatestIsHere'
    <3>1. SUFFICES ASSUME IsSet, ~overlapped, \A t \in Stage : ~HasTaken(t),
                          \A t \in Stage : pc[t] \notin {"setdrain", "setput"}
                   PROVE  hand'[s] = latest
      BY <2>1, <2>2, <1>1 DEF GetFirst, HasTaken
    <3>2. queue = <<latest>>
      BY <2>1, <3>1 DEF HasTaken
    <3> QED  BY <2>1, <3>2
  <2> QED  BY <2>2, <2>3, <2>4, <2>5
<1>2. CASE GetLock(s)
  BY <1>2 DEF GetLock
<1>3. CASE GetDrain(s)
  BY <1>3 DEF GetDrain, Take
<1>4. CASE GetDrained(s)
  BY <1>4 DEF GetDrained
<1>5. CASE GetRaises(s)
  BY <1>5 DEF GetRaises
<1>6. CASE GetReturns(s)
  <2>1. queue' = <<hand[s]>> /\ hand[s] \in Value
    BY <1>6 DEF GetReturns, Put
  <2> QED  BY <1>6, <2>1 DEF GetReturns
<1> QED  BY <1>1, <1>2, <1>3, <1>4, <1>5, <1>6

\* Every step preserves the invariant.
LEMMA NextIInv == IInv /\ [Next]_vars => IInv'
<1> SUFFICES ASSUME IInv, [Next]_vars  PROVE IInv'
  OBVIOUS
<1>1. ASSUME NEW s \in Stage, NEW v \in Value, SetParallel(s, v) \/ SetParallelDefault(s, v)
      PROVE IInv'
  BY <1>1, StepIInv DEF SetParallelDefault
<1>2. ASSUME NEW s \in Stage, CallStep(s)  PROVE IInv'
  BY <1>2, StepIInv, SetIInv, GetIInv DEF CallStep
<1>3. CASE UNCHANGED vars
  BY <1>3 DEF vars, IInv, TypeOK, QueueShape, Mutex, PutsOnEmpty, NeverLost, OneTaker,
              LatestIsHere, IsSet
<1> QED  BY <1>1, <1>2, <1>3, StepIInv DEF Next

\* The invariant holds throughout.
THEOREM Invariance == Spec => []IInv
BY InitIInv, NextIInv, PTL DEF Spec

\* Types, for any number of stages.
THEOREM TypeCorrect == Spec => []TypeOK
<1>1. IInv => TypeOK  BY DEF IInv
<1> QED  BY Invariance, <1>1, PTL

\* The queue never has two values (lines 379-388 and 463-474).
THEOREM OneValue == Spec => []AtMostOneValue
<1>1. IInv => AtMostOneValue  BY QueueFacts DEF IInv, AtMostOneValue
<1> QED  BY Invariance, <1>1, PTL

\* A value once set stays on the queue or in a hand.
THEOREM Conservation == Spec => []NeverLost
<1>1. IInv => NeverLost  BY DEF IInv
<1> QED  BY Invariance, <1>1, PTL

\* The value set last survives getters that do not overlap.
THEOREM LatestKept == Spec => []LatestSurvives
<1>1. IInv => LatestSurvives
  BY RunAttributesAssumption DEF IInv, LatestIsHere, LatestSurvives, HasTaken, IsSet
<1> QED  BY Invariance, <1>1, PTL
=============================================================================
