-------------------------- MODULE ParallelTasksProofs --------------------------
(***************************************************************************)
(* ParallelTasks, for any number of steps, any max_parallel, with and       *)
(* without halt_on_error: no more steps run at once than asked for, Wait()  *)
(* finds out the truth about every child, the call ends as the steps did,   *)
(* and leaves no child behind.                                              *)
(*                                                                          *)
(* The argument follows the parent: the tasks before the current one have   *)
(* been waited for, and a killing has one of three reasons, each of which   *)
(* accounts for the tasks that are not its targets.                         *)
(***************************************************************************)
EXTENDS ParallelTasks, FiniteSetTheorems, Sequences, TLAPS

\* TaskPool, the other half of lib/parallel.py. It is a system of its own, proved below: of
\* the variables, the two only share some names (queue, foreground).
CONSTANTS NumInputs, NumWorkers
VARIABLES collects, pool, fed, closed, worker, job, errors, out_queue, results, waited,
          background
TP == INSTANCE TaskPool

-----------------------------------------------------------------------------
(* The inductive invariant.                                                 *)

\* The children that have a permit to give back.
Permitted == {t \in Task : child[t] \in {"running", "reporting", "releasing"}}

\* Permits get lost, with children that die or are killed, but none is made.
Permits == Limited => semaphore + Cardinality(Permitted) <= max_parallel

\* What is on a child's queue is how its step ended, and came after it.
Reports ==
  \A t \in Task :
    /\ queue[t] # "empty" => /\ queue[t] = outcome[t]
                             /\ child[t] \in {"releasing", "exiting", "exited"}
    /\ child[t] = "reporting" => outcome[t] # "none"

\* What Wait() found out, it found on the queue, or there is nothing to be found.
Verdicts ==
  \A t \in Task :
    /\ verdict[t] \in {"ok", "fail"} => queue[t] = verdict[t]
    /\ verdict[t] = "exited unexpectedly" => child[t] = "exited" /\ queue[t] = "empty"

\* A look that found the child dead is not out of date.
LastLook == pc = "poll" /\ ~running => child[current] = "exited"

\* The tasks have their verdicts in order.
InOrder ==
  /\ \A t \in Task : t < current => child[t] = "exited" /\ verdict[t] # "none"
  /\ \A t \in Task : t > current => verdict[t] = "none"
  /\ pc \in {"launch", "body", "startup", "look", "poll"} => verdict[current] = "none"
  /\ pc = "join" => verdict[current] \in {"ok", "fail"}
  /\ pc = "next" => verdict[current] # "none" /\ child[current] = "exited"
  /\ pc \in {"launch", "body"} => current = 1

\* Why children are killed: the current one is silent or hung; a task failed, and the
\* later ones are to be halted; the body of the `with' raised.
KillsCurrent == targets = {current} /\ verdict[current] \in {"silent", "hung"}
KillsLater   == /\ targets = {t \in Task : t > current}
                /\ verdict[current] \notin {"none", "ok"} /\ child[current] = "exited"
KillsAll     == targets = Task /\ foreground /\ verdict[current] = "none"

Killing == pc \in {"kill", "killwait"} =>
             targets # {} /\ (KillsCurrent \/ KillsLater \/ KillsAll)

Trouble == foreground \/ Failed

\* Nobody is killed without a reason.
NoWantonKilling == \A t \in Task : killing[t] => Trouble

\* At the end every child is dead, and there was trouble, or all is well.
AtTheEnd ==
  pc = "finish" => /\ \A t \in Task : child[t] = "exited"
                   /\ Trouble \/ \A t \in Task : verdict[t] = "ok"

\* What the caller sees of it.
Left ==
  /\ pc = "left" <=> result # "none"
  /\ result = "returned" => ~foreground /\ \A t \in Task : verdict[t] = "ok" /\ ~killing[t]
  /\ result = "BackgroundFailure" => ~foreground /\ Failed
  /\ foreground => result \in {"none", "foreground", "AssertionError"}

IInv ==
  /\ TypeOK /\ Permits
  /\ Reports /\ Verdicts /\ LastLook
  /\ InOrder /\ Killing /\ NoWantonKilling /\ AtTheEnd
  /\ Left /\ NobodyLeftBehind

-----------------------------------------------------------------------------
(* The permits.                                                             *)

LEMMA PermittedFacts ==
  /\ IsFiniteSet(Permitted) /\ Cardinality(Permitted) \in Nat
  /\ IsFiniteSet(Permitted') /\ Cardinality(Permitted') \in Nat
<1>1. IsFiniteSet(Task)
  BY FS_Interval, ParallelTasksAssumption DEF Task
<1>2. Permitted \in SUBSET Task /\ Permitted' \in SUBSET Task
  BY DEF Permitted
<1> QED BY <1>1, <1>2, FS_Subset, FS_CardinalityType

\* Fewer children, or the same, have a permit to give back.
LEMMA PermitsLost ==
  ASSUME Permits, semaphore \in Nat, UNCHANGED <<args, semaphore>>, Permitted' \subseteq Permitted,
         max_parallel \in Nat
  PROVE  Permits'
<1>1. Cardinality(Permitted') <= Cardinality(Permitted)
  BY PermittedFacts, FS_Subset
<1> QED BY <1>1, PermittedFacts DEF Permits, Limited, args

LEMMA AcquireKeepsPermits ==
  ASSUME TypeOK, Permits, NEW t \in Task, Acquire(t)
  PROVE  Permits' /\ semaphore' \in 0 .. max_parallel
<1>1. t \notin Permitted /\ Permitted' = Permitted \cup {t}
  BY DEF Acquire, ChildGoes, Permitted, TypeOK
<1>2. Cardinality(Permitted') = Cardinality(Permitted) + 1
  BY <1>1, PermittedFacts, FS_AddElement
<1>3. max_parallel \in Nat /\ semaphore \in 0 .. max_parallel
  BY ParallelTasksAssumption DEF TypeOK
<1> QED BY <1>2, <1>3, PermittedFacts DEF Acquire, Permits, Limited, args

LEMMA ReleaseKeepsPermits ==
  ASSUME TypeOK, Permits, NEW t \in Task, Release(t)
  PROVE  Permits' /\ semaphore' \in 0 .. max_parallel
<1>1. t \in Permitted /\ Permitted' = Permitted \ {t}
  BY DEF Release, ChildGoes, Permitted, TypeOK
<1>2. Cardinality(Permitted') = Cardinality(Permitted) - 1
  BY <1>1, PermittedFacts, FS_RemoveElement
<1>3. max_parallel \in Nat /\ semaphore \in 0 .. max_parallel
  BY ParallelTasksAssumption DEF TypeOK
<1> QED BY <1>2, <1>3, PermittedFacts DEF Release, Permits, Limited, args

\* Of the other steps none makes a permit.
LEMMA NextKeepsPermits ==
  ASSUME TypeOK, Permits, [Next]_vars
  PROVE  Permits' /\ semaphore' \in 0 .. max_parallel' /\ UNCHANGED args
<1>0. max_parallel \in Nat /\ semaphore \in 0 .. max_parallel
  BY ParallelTasksAssumption DEF TypeOK
<1>1. ASSUME NEW t \in Task, Acquire(t) \/ Release(t)
      PROVE  Permits' /\ semaphore' \in 0 .. max_parallel' /\ UNCHANGED args
  BY <1>1, AcquireKeepsPermits, ReleaseKeepsPermits DEF Acquire, Release, args
<1>2. ASSUME UNCHANGED <<args, semaphore>>, Permitted' \subseteq Permitted
      PROVE  Permits' /\ semaphore' \in 0 .. max_parallel' /\ UNCHANGED args
  BY <1>0, <1>2, PermitsLost DEF args
<1>3. ASSUME NEW t \in Task,
             (\E how \in {"ok", "fail"} : StepEnds(t, how)) \/ Die(t) \/ Report(t)
             \/ ReportNothing(t) \/ Exit(t) \/ Launch(t) \/ Kill(t)
      PROVE  UNCHANGED <<args, semaphore>> /\ Permitted' \subseteq Permitted
  <2> USE DEF Permitted, TypeOK, ChildGoes, children, Started
  <2>1. CASE \E how \in {"ok", "fail"} : StepEnds(t, how)
    BY <2>1 DEF StepEnds
  <2>2. CASE Die(t) \/ Report(t) \/ ReportNothing(t) \/ Exit(t)
    BY <2>2 DEF Die, Report, ReportNothing, Exit
  <2>3. CASE Launch(t)
    BY <2>3 DEF Launch
  <2>4. CASE Kill(t)
    BY <2>4 DEF Kill
  <2> QED BY <1>3, <2>1, <2>2, <2>3, <2>4
<1>4. ASSUME \/ \E t \in Task : MarkKilling(t)
             \/ BodyEnds \/ BodyRaises \/ StartedUp \/ AssertionFails \/ Look
             \/ GetResult \/ GetNothing \/ ExitedUnexpectedly \/ Silent \/ Joined \/ Hung
             \/ NextTask \/ AllDead \/ NextSignal \/ Finish \/ UNCHANGED vars
      PROVE  UNCHANGED <<args, semaphore>> /\ Permitted' \subseteq Permitted
  BY <1>4 DEF Permitted, children, vars, MarkKilling, BodyEnds, BodyRaises, StartedUp,
     AssertionFails, Look, GetResult, GetNothing, ExitedUnexpectedly, Silent, Joined, Hung,
     NextTask, AllDead, NextSignal, Finish
<1> QED BY <1>1, <1>2, <1>3, <1>4 DEF Next, ParentStep, ChildStep

-----------------------------------------------------------------------------
(* The other conjuncts.                                                     *)

\* All of the invariant but the permits.
Books ==
  /\ Reports /\ Verdicts /\ LastLook
  /\ InOrder /\ Killing /\ NoWantonKilling /\ AtTheEnd
  /\ Left /\ NobodyLeftBehind

LEMMA LaterTask == ASSUME NEW t \in Task, t # NumSteps PROVE t + 1 \in Task
  BY ParallelTasksAssumption DEF Task

LEMMA TaskFacts == Task \subseteq Nat /\ 1 \in Task /\ NumSteps \in Task
  BY ParallelTasksAssumption DEF Task

\* The types, of what the children change and of what the parent alone does.
ChildTypes ==
  /\ child \in [Task -> ChildState]
  /\ outcome \in [Task -> {"none", "ok", "fail"}]
  /\ queue \in [Task -> {"empty", "ok", "fail"}]

ParentTypes ==
  /\ pc \in ParentPC
  /\ current \in Task /\ running \in BOOLEAN
  /\ verdict \in [Task -> Verdict]
  /\ foreground \in BOOLEAN
  /\ result \in {"none", "returned", "foreground", "BackgroundFailure", "AssertionError"}

KillTypes ==
  /\ killing \in [Task -> BOOLEAN]
  /\ targets \in SUBSET Task /\ signalled \in SUBSET targets
  /\ sig \in {"SIGXCPU", "SIGTERM", "SIGKILL"}

ArgTypes ==
  max_parallel \in Limits /\ halt_on_error \in Halts /\ semaphore \in 0 .. max_parallel

LEMMA TypeParts ==
  /\ TypeOK <=> ChildTypes /\ ParentTypes /\ KillTypes /\ ArgTypes
  /\ TypeOK' <=> ChildTypes' /\ ParentTypes' /\ KillTypes' /\ ArgTypes'
  BY DEF TypeOK, ChildTypes, ParentTypes, KillTypes, ArgTypes

\* A signal kills, or leaves its child alone; it is sent only to those that have started.
LEMMA KillMeans ==
  ASSUME sig \in {"SIGXCPU", "SIGTERM", "SIGKILL"}, NEW t \in Task, Kill(t)
  PROVE  /\ \E s \in {child[t], "exited"} : child' = [child EXCEPT ![t] = s]
         /\ child[t] \notin {"unborn", "acquiring"}
  BY DEF Kill, Started

LEMMA InitIInv == Init => IInv
<1> SUFFICES ASSUME Init PROVE IInv
  OBVIOUS
<1>1. max_parallel \in Nat
  BY ParallelTasksAssumption DEF Init
<1>2. TypeOK
  <2>1. ChildTypes /\ ParentTypes
    BY TaskFacts DEF Init, ChildTypes, ChildState, ParentTypes, ParentPC, Verdict
  <2>2. KillTypes /\ ArgTypes
    BY <1>1 DEF Init, KillTypes, ArgTypes
  <2> QED BY <2>1, <2>2, TypeParts
<1>3. Permits
  <2>1. Permitted = {}
    BY DEF Init, Permitted
  <2> QED BY <1>1, <2>1, FS_EmptySet DEF Permits, Init
<1>4. Books
  BY TaskFacts DEF Init, Books, Reports, Verdicts, LastLook, InOrder, Killing, NoWantonKilling,
     AtTheEnd, Left, NobodyLeftBehind, Task
<1> QED BY <1>2, <1>3, <1>4 DEF IInv, Books

LEMMA NextKeepsTypes ==
  ASSUME IInv, [Next]_vars PROVE TypeOK'
<1>0. ChildTypes /\ ParentTypes /\ KillTypes /\ ArgTypes
  BY TypeParts DEF IInv
<1>1. ArgTypes'
  BY <1>0, NextKeepsPermits DEF IInv, ArgTypes, args
<1> USE TaskFacts DEF children, kills, waiting
<1>2. ASSUME NEW t \in Task, ChildStep(t) PROVE TypeOK'
  <2>1. UNCHANGED <<killing, pc, waiting, foreground, kills, result>>
    BY <1>2 DEF ChildStep, Acquire, StepEnds, Die, Report, ReportNothing, Release, Exit
  <2>2. ChildTypes'
    BY <1>0, <1>2 DEF ChildTypes, ChildState, ChildStep, Acquire, StepEnds, Die, Report,
       ReportNothing, Release, Exit, ChildGoes, Reports, IInv
  <2> QED BY <1>0, <1>1, <2>1, <2>2, TypeParts DEF ParentTypes, KillTypes
<1>3. ASSUME NEW t \in Task, Launch(t) \/ MarkKilling(t) \/ Kill(t) PROVE TypeOK'
  <2>1. ChildTypes' /\ ParentTypes'
    <3> USE <1>0 DEF ChildTypes, ChildState, ParentTypes, ParentPC
    <3>1. CASE Launch(t)
      BY <3>1 DEF Launch
    <3>2. CASE MarkKilling(t)
      BY <3>2 DEF MarkKilling
    <3>3. CASE Kill(t)
      <4>1. PICK s \in {child[t], "exited"} : child' = [child EXCEPT ![t] = s]
        BY <3>3, KillMeans DEF KillTypes
      <4> QED BY <3>3, <4>1 DEF Kill
    <3> QED BY <1>3, <3>1, <3>2, <3>3
  <2>2. KillTypes'
    BY <1>0, <1>3 DEF KillTypes, Launch, MarkKilling, Kill, UpForKilling
  <2> QED BY <1>1, <2>1, <2>2, TypeParts
<1>4. ASSUME \/ BodyEnds \/ BodyRaises \/ StartedUp \/ AssertionFails \/ Look
             \/ GetResult \/ GetNothing \/ ExitedUnexpectedly \/ Silent \/ Joined \/ Hung
             \/ NextTask \/ AllDead \/ NextSignal \/ Finish
      PROVE  TypeOK'
  <2>1. ChildTypes'
    BY <1>0, <1>4 DEF ChildTypes, BodyEnds, BodyRaises, StartedUp, AssertionFails, Look, GetResult,
       GetNothing, ExitedUnexpectedly, Silent, Joined, Hung, NextTask, AllDead, NextSignal, Finish
  <2>2. KillTypes'
    BY <1>0, <1>4 DEF KillTypes, ParentTypes, StartKilling, BodyEnds, BodyRaises, StartedUp,
       AssertionFails, Look, GetResult, GetNothing, ExitedUnexpectedly, Silent, Joined, Hung,
       NextTask, AllDead, NextSignal, Finish
  <2>3. ParentTypes'
    <3> USE <1>0 DEF ParentTypes, ChildTypes, ParentPC, Verdict, ParentGoes, Found, StartKilling
    <3>1. CASE BodyEnds \/ BodyRaises \/ StartedUp \/ AssertionFails \/ Look
      BY <3>1 DEF BodyEnds, BodyRaises, StartedUp, AssertionFails, Look
    <3>2. CASE GetResult \/ GetNothing \/ ExitedUnexpectedly \/ Silent \/ Joined \/ Hung
      BY <3>2 DEF GetResult, GetNothing, ExitedUnexpectedly, Silent, Joined, Hung
    <3>3. CASE NextTask
      <4>1. current # NumSteps => current + 1 \in Task
        BY LaterTask
      <4> QED BY <3>3, <4>1 DEF NextTask
    <3>4. CASE AllDead \/ NextSignal \/ Finish
      BY <3>4 DEF AllDead, AfterKilling, NextSignal, Finish
    <3> QED BY <1>4, <3>1, <3>2, <3>3, <3>4
  <2> QED BY <1>1, <2>1, <2>2, <2>3, TypeParts
<1>5. CASE UNCHANGED vars
  BY <1>0, <1>5 DEF vars, args, IInv, TypeOK
<1> QED BY <1>2, <1>3, <1>4, <1>5 DEF Next, ParentStep

\* A child goes its way: the parent's books stay right.
LEMMA ChildKeepsBooks ==
  ASSUME IInv, NEW t \in Task, ChildStep(t) PROVE Books'
<1> USE DEF IInv, TypeOK, Books
<1>1. UNCHANGED <<args, killing, pc, waiting, foreground, kills, result>>
  BY DEF ChildStep, Acquire, StepEnds, Die, Report, ReportNothing, Release, Exit
<1>2. /\ \A u \in Task : child[u] = "exited" => child'[u] = "exited"
      /\ \A u \in Task : u # t => /\ child'[u] = child[u] /\ queue'[u] = queue[u]
                                  /\ outcome'[u] = outcome[u]
      /\ \A u \in Task : queue[u] # "empty" \/ child[u] = "exited" => queue'[u] = queue[u]
  BY DEF ChildStep, Acquire, StepEnds, Die, Report, ReportNothing, Release, Exit, ChildGoes, Reports
<1>3. Reports'
  BY <1>2 DEF ChildStep, Acquire, StepEnds, Die, Report, ReportNothing, Release, Exit, ChildGoes,
     Reports
<1>4. Verdicts'
  BY <1>1, <1>2 DEF Verdicts, waiting
<1>5. LastLook' /\ InOrder'
  BY <1>1, <1>2 DEF LastLook, InOrder, waiting
<1>6. Killing' /\ NoWantonKilling'
  BY <1>1, <1>2 DEF Killing, KillsCurrent, KillsLater, KillsAll, NoWantonKilling, Trouble, Failed,
     waiting, kills
<1>7. AtTheEnd' /\ Left' /\ NobodyLeftBehind'
  BY <1>1, <1>2 DEF AtTheEnd, Left, NobodyLeftBehind, Trouble, Failed, waiting
<1> QED BY <1>3, <1>4, <1>5, <1>6, <1>7

\* The steps of the parent up to Wait().
LEMMA StartKeepsBooks ==
  ASSUME IInv, (\E t \in Task : Launch(t)) \/ BodyEnds \/ BodyRaises \/ StartedUp \/ AssertionFails \/ Look
  PROVE  Books'
<1> USE TaskFacts DEF IInv, TypeOK, Books, children, waiting, kills
<1>1. ASSUME NEW t \in Task, Launch(t) PROVE Books'
  <2>1. child[t] = "unborn" /\ child' = [child EXCEPT ![t] = "acquiring"] /\ pc = "launch"
        /\ pc' \in {"launch", "body"}
        /\ UNCHANGED <<args, children, killing, waiting, foreground, kills, result>>
    BY <1>1 DEF Launch, Task
  <2>2. Reports' /\ Verdicts' /\ LastLook' /\ InOrder'
    BY <2>1 DEF Reports, Verdicts, LastLook, InOrder
  <2>3. Killing' /\ NoWantonKilling' /\ AtTheEnd' /\ Left' /\ NobodyLeftBehind'
    BY <2>1 DEF Killing, NoWantonKilling, Trouble, Failed, AtTheEnd, Left, NobodyLeftBehind
  <2> QED BY <2>2, <2>3
<1>2. CASE BodyEnds \/ StartedUp \/ AssertionFails \/ Look
  <2>1. UNCHANGED <<args, child, children, killing, current, verdict, foreground, kills>>
    BY <1>2 DEF BodyEnds, StartedUp, AssertionFails, Look
  <2>2. Reports' /\ Verdicts' /\ NoWantonKilling'
    BY <2>1 DEF Reports, Verdicts, NoWantonKilling, Trouble, Failed
  <2>3. LastLook' /\ InOrder'
    BY <1>2, <2>1 DEF BodyEnds, StartedUp, AssertionFails, Look, ParentGoes, LastLook, InOrder
  <2>4. Killing' /\ AtTheEnd' /\ Left' /\ NobodyLeftBehind'
    BY <1>2, <2>1 DEF BodyEnds, StartedUp, AssertionFails, Look, ParentGoes, Killing, AtTheEnd, Left,
       NobodyLeftBehind
  <2> QED BY <2>2, <2>3, <2>4
<1>3. CASE BodyRaises
  <2>1. UNCHANGED <<args, child, children, killing, waiting, result>> /\ foreground' /\ pc = "body"
        /\ \/ pc' = "kill" /\ targets' = Task
           \/ pc' = "startup" /\ UNCHANGED kills
    BY <1>3 DEF BodyRaises, StartKilling
  <2>2. Reports' /\ Verdicts' /\ NoWantonKilling' /\ LastLook' /\ InOrder'
    BY <2>1 DEF Reports, Verdicts, NoWantonKilling, Trouble, LastLook, InOrder
  <2>3. Killing' /\ AtTheEnd' /\ Left' /\ NobodyLeftBehind'
    BY <2>1 DEF Killing, KillsAll, InOrder, AtTheEnd, Left, NobodyLeftBehind
  <2> QED BY <2>2, <2>3
<1> QED BY <1>1, <1>2, <1>3

\* A verdict on the current task: those before it keep theirs.
LEMMA FoundKeeps ==
  ASSUME IInv, NEW what \in {"ok", "fail", "exited unexpectedly", "hung", "silent"}, Found(what),
         pc \in {"poll", "join"}, UNCHANGED <<args, child, children, killing, current, foreground>>,
         what \in {"ok", "fail"} => queue[current] = what,
         what = "exited unexpectedly" => child[current] = "exited" /\ queue[current] = "empty",
         pc = "join" => what = "hung"
  PROVE  /\ Reports' /\ Verdicts' /\ NoWantonKilling'
         /\ verdict'[current] = what
         /\ \A t \in Task : t # current => verdict'[t] = verdict[t]
<1> USE TaskFacts DEF IInv, TypeOK, children, Found
<1>1. verdict'[current] = what /\ \A t \in Task : t # current => verdict'[t] = verdict[t]
  OBVIOUS
<1>2. Reports' /\ Verdicts'
  BY <1>1 DEF Reports, Verdicts
<1>3. Failed => Failed'
  BY <1>1 DEF Failed, InOrder
<1>4. NoWantonKilling'
  BY <1>3 DEF NoWantonKilling, Trouble
<1> QED BY <1>1, <1>2, <1>4

\* Wait().
LEMMA WaitKeepsBooks ==
  ASSUME IInv, GetResult \/ GetNothing \/ ExitedUnexpectedly \/ Silent \/ Joined \/ Hung
  PROVE  Books'
<1> USE TaskFacts DEF IInv, TypeOK, Books, children, kills, waiting, ParentGoes
<1>1. CASE GetResult
  <2>1. /\ pc = "poll" /\ pc' = "join" /\ Found(queue[current]) /\ queue[current] \in {"ok", "fail"}
        /\ UNCHANGED <<args, child, children, killing, current, running, foreground, kills, result>>
    BY <1>1 DEF GetResult
  <2>2. /\ Reports' /\ Verdicts' /\ NoWantonKilling' /\ verdict'[current] \in {"ok", "fail"}
        /\ \A t \in Task : t # current => verdict'[t] = verdict[t]
    BY <2>1, FoundKeeps
  <2> QED BY <2>1, <2>2 DEF LastLook, InOrder, Killing, AtTheEnd, Left, NobodyLeftBehind
<1>2. CASE ExitedUnexpectedly
  <2>1. /\ pc = "poll" /\ pc' = "next" /\ Found("exited unexpectedly")
        /\ queue[current] = "empty" /\ child[current] = "exited"
        /\ UNCHANGED <<args, child, children, killing, current, running, foreground, kills, result>>
    BY <1>2 DEF ExitedUnexpectedly, LastLook
  <2>2. /\ Reports' /\ Verdicts' /\ NoWantonKilling' /\ verdict'[current] = "exited unexpectedly"
        /\ \A t \in Task : t # current => verdict'[t] = verdict[t]
    BY <2>1, FoundKeeps
  <2> QED BY <2>1, <2>2 DEF LastLook, InOrder, Killing, AtTheEnd, Left, NobodyLeftBehind
<1>3. CASE Silent \/ Hung
  <2>1. PICK what \in {"silent", "hung"} :
          /\ Found(what) /\ pc \in {"poll", "join"} /\ (pc = "join" => what = "hung")
          /\ targets' = {current} /\ pc' = "kill"
          /\ UNCHANGED <<args, child, children, killing, current, running, foreground, result>>
    BY <1>3 DEF Silent, Hung, StartKilling
  <2>2. /\ Reports' /\ Verdicts' /\ NoWantonKilling' /\ verdict'[current] = what
        /\ \A t \in Task : t # current => verdict'[t] = verdict[t]
    BY <2>1, FoundKeeps
  <2> QED BY <2>1, <2>2 DEF LastLook, InOrder, Killing, KillsCurrent, AtTheEnd, Left, NobodyLeftBehind
<1>4. CASE GetNothing \/ Joined
  <2>1. /\ pc \in {"poll", "join"} /\ pc' = (IF pc = "poll" THEN "look" ELSE "next")
        /\ pc = "join" => child[current] = "exited"
        /\ UNCHANGED <<args, child, children, killing, waiting, foreground, kills, result>>
    BY <1>4 DEF GetNothing, Joined
  <2>2. Reports' /\ Verdicts' /\ NoWantonKilling'
    BY <2>1 DEF Reports, Verdicts, NoWantonKilling, Trouble, Failed
  <2> QED BY <2>1, <2>2 DEF LastLook, InOrder, Killing, AtTheEnd, Left, NobodyLeftBehind
<1> QED BY <1>1, <1>2, <1>3, <1>4

\* Wait() has returned.
LEMMA NextTaskKeepsBooks ==
  ASSUME IInv, NextTask
  PROVE  Books'
<1> USE TaskFacts DEF IInv, TypeOK, Books, children, kills, waiting
<1>1. /\ pc = "next" /\ verdict[current] # "none" /\ child[current] = "exited"
      /\ UNCHANGED <<args, child, children, killing, running, verdict, foreground, result>>
  BY DEF NextTask, InOrder
<1>2. Reports' /\ Verdicts' /\ NoWantonKilling'
  BY <1>1 DEF Reports, Verdicts, NoWantonKilling, Trouble, Failed
<1>3. \A t \in Task : t <= current => child[t] = "exited" /\ verdict[t] # "none"
  BY <1>1 DEF InOrder
<1>4. \A t \in Task : ~(t > NumSteps)
  BY ParallelTasksAssumption DEF Task
<1>5. CASE verdict[current] # "ok" /\ halt_on_error
  <2> DEFINE T == {t \in Task : t > current}
  <2>1. targets' = T /\ pc' = (IF T = {} THEN "finish" ELSE "kill") /\ UNCHANGED current
    BY <1>5 DEF NextTask, StartKilling
  <2>2. Failed'
    BY <1>1, <1>5 DEF Failed
  <2>3. T = {} => \A t \in Task : child[t] = "exited"
    BY <1>3
  <2>4. Killing' /\ AtTheEnd'
    BY <1>1, <1>5, <2>1, <2>2, <2>3 DEF Killing, KillsLater, AtTheEnd, Trouble
  <2> QED BY <1>1, <1>2, <2>1, <2>4 DEF LastLook, InOrder, Left, NobodyLeftBehind
<1>6. CASE ~(verdict[current] # "ok" /\ halt_on_error) /\ current = NumSteps
  <2>1. pc' = "finish" /\ UNCHANGED <<current, kills>>
    BY <1>6 DEF NextTask
  <2>2. AtTheEnd'
    BY <1>1, <1>3, <1>4, <1>6, <2>1 DEF AtTheEnd, Trouble, Failed
  <2> QED BY <1>1, <1>2, <2>1, <2>2 DEF LastLook, InOrder, Killing, Left, NobodyLeftBehind
<1>7. CASE ~(verdict[current] # "ok" /\ halt_on_error) /\ current # NumSteps
  <2>1. pc' = "startup" /\ current' = current + 1 /\ UNCHANGED kills
    BY <1>7 DEF NextTask
  <2>2. current + 1 \in Task
    BY <1>7, LaterTask
  <2>3. InOrder'
    BY <1>1, <1>3, <2>1, <2>2 DEF InOrder
  <2> QED BY <1>1, <1>2, <2>1, <2>3 DEF LastLook, Killing, AtTheEnd, Left, NobodyLeftBehind
<1> QED BY <1>5, <1>6, <1>7

\* _KillChildren, and the end of the call.
LEMMA KillKeepsBooks ==
  ASSUME IInv, (\E t \in Task : MarkKilling(t) \/ Kill(t)) \/ AllDead \/ NextSignal \/ Finish
  PROVE  Books'
<1> USE TaskFacts DEF IInv, TypeOK, Books, children, kills, waiting
<1>1. pc \in {"kill", "killwait"} => Trouble
  BY DEF Killing, KillsCurrent, KillsLater, KillsAll, Trouble, Failed
<1>2. ASSUME NEW t \in Task, MarkKilling(t) PROVE Books'
  <2>1. /\ pc = "kill" /\ killing' = [killing EXCEPT ![t] = TRUE]
        /\ UNCHANGED <<args, child, children, pc, waiting, foreground, kills, result>>
    BY <1>2 DEF MarkKilling, UpForKilling
  <2>2. Reports' /\ Verdicts' /\ LastLook' /\ InOrder'
    BY <2>1 DEF Reports, Verdicts, LastLook, InOrder
  <2>3. Killing' /\ NoWantonKilling'
    BY <1>1, <2>1 DEF Killing, KillsCurrent, KillsLater, KillsAll, NoWantonKilling, Trouble, Failed
  <2>4. AtTheEnd' /\ Left' /\ NobodyLeftBehind'
    BY <2>1 DEF AtTheEnd, Left, NobodyLeftBehind
  <2> QED BY <2>2, <2>3, <2>4
<1>3. ASSUME NEW t \in Task, Kill(t) PROVE Books'
  <2>1. /\ pc = "kill" /\ pc' \in {"kill", "killwait"}
        /\ UNCHANGED <<args, children, killing, waiting, foreground, targets, result>>
    BY <1>3 DEF Kill, UpForKilling
  <2>2. /\ \A u \in Task : u # t => child'[u] = child[u]
        /\ child'[t] \in {child[t], "exited"}
        /\ child[t] \notin {"unborn", "acquiring"}
    BY <1>3, KillMeans
  <2>3. Reports' /\ Verdicts'
    BY <2>1, <2>2 DEF Reports, Verdicts
  <2>4. LastLook' /\ InOrder'
    BY <2>1, <2>2 DEF LastLook, InOrder
  <2>5. Killing' /\ NoWantonKilling'
    BY <2>1, <2>2 DEF Killing, KillsCurrent, KillsLater, KillsAll, NoWantonKilling, Trouble, Failed
  <2>6. AtTheEnd' /\ Left' /\ NobodyLeftBehind'
    BY <2>1 DEF AtTheEnd, Left, NobodyLeftBehind
  <2> QED BY <2>3, <2>4, <2>5, <2>6
<1>4. CASE AllDead
  <2>1. /\ pc = "killwait" /\ \A t \in targets : child[t] = "exited"
        /\ pc' = AfterKilling
        /\ UNCHANGED <<args, child, children, killing, waiting, foreground, result>>
    BY <1>4 DEF AllDead
  <2>2. Reports' /\ Verdicts' /\ NoWantonKilling'
    BY <2>1 DEF Reports, Verdicts, NoWantonKilling, Trouble, Failed
  <2>3. InOrder' /\ AtTheEnd'
    <3>1. CASE KillsCurrent
      BY <2>1, <3>1 DEF KillsCurrent, AfterKilling, InOrder, AtTheEnd
    <3>2. CASE KillsLater
      <4>1. pc' = "finish"
        BY <2>1, <3>2 DEF KillsLater, AfterKilling
      <4>2. \A t \in Task : child[t] = "exited"
        BY <2>1, <3>2 DEF KillsLater, InOrder
      <4> QED BY <1>1, <2>1, <4>1, <4>2 DEF InOrder, AtTheEnd, Trouble, Failed
    <3>3. CASE KillsAll
      BY <1>1, <2>1, <3>3 DEF KillsAll, AfterKilling, InOrder, AtTheEnd, Trouble, Failed
    <3> QED BY <2>1, <3>1, <3>2, <3>3 DEF Killing
  <2> QED BY <2>1, <2>2, <2>3 DEF AfterKilling, LastLook, Killing, Left, NobodyLeftBehind
<1>5. CASE NextSignal
  <2>1. /\ pc = "killwait" /\ pc' = "kill"
        /\ UNCHANGED <<args, child, children, killing, waiting, foreground, targets, result>>
    BY <1>5 DEF NextSignal
  <2>2. Reports' /\ Verdicts' /\ NoWantonKilling' /\ LastLook' /\ InOrder'
    BY <2>1 DEF Reports, Verdicts, NoWantonKilling, Trouble, Failed, LastLook, InOrder
  <2>3. Killing' /\ AtTheEnd' /\ Left' /\ NobodyLeftBehind'
    BY <2>1 DEF Killing, KillsCurrent, KillsLater, KillsAll, AtTheEnd, Left, NobodyLeftBehind
  <2> QED BY <2>2, <2>3
<1>6. CASE Finish
  <2>1. /\ pc = "finish" /\ pc' = "left"
        /\ result' = IF foreground THEN "foreground"
                     ELSE IF Failed THEN "BackgroundFailure" ELSE "returned"
        /\ UNCHANGED <<args, child, children, killing, waiting, foreground, kills>>
    BY <1>6 DEF Finish, ParentGoes
  <2>2. Reports' /\ Verdicts' /\ NoWantonKilling' /\ LastLook' /\ InOrder'
    BY <2>1 DEF Reports, Verdicts, NoWantonKilling, Trouble, Failed, LastLook, InOrder
  <2>3. Left'
    BY <2>1 DEF Left, AtTheEnd, Trouble, Failed, NoWantonKilling
  <2> QED BY <2>1, <2>2, <2>3 DEF Killing, AtTheEnd, NobodyLeftBehind
<1> QED BY <1>2, <1>3, <1>4, <1>5, <1>6

-----------------------------------------------------------------------------
(* The theorems.                                                            *)

LEMMA NextKeepsIInv == IInv /\ [Next]_vars => IInv'
<1> SUFFICES ASSUME IInv, [Next]_vars PROVE IInv'
  OBVIOUS
<1>1. TypeOK' /\ Permits'
  BY NextKeepsTypes, NextKeepsPermits DEF IInv
<1>2. ASSUME Next PROVE Books'
  BY <1>2, ChildKeepsBooks, StartKeepsBooks, WaitKeepsBooks, NextTaskKeepsBooks, KillKeepsBooks
     DEF Next, ParentStep
<1>3. ASSUME UNCHANGED vars PROVE Books'
  <2>1. Reports' /\ Verdicts' /\ LastLook' /\ InOrder'
    BY <1>3 DEF vars, waiting, IInv, Reports, Verdicts, LastLook, InOrder
  <2>2. Killing' /\ NoWantonKilling' /\ AtTheEnd' /\ Left' /\ NobodyLeftBehind'
    BY <1>3 DEF vars, waiting, kills, IInv, Killing, KillsCurrent, KillsLater, KillsAll,
       NoWantonKilling, Trouble, Failed, AtTheEnd, Left, NobodyLeftBehind
  <2> QED BY <2>1, <2>2 DEF Books
<1> QED BY <1>1, <1>2, <1>3 DEF IInv, Books

\* The parent's books agree with what its children have done.
THEOREM Invariance == Spec => []IInv
<1> QED BY InitIInv, NextKeepsIInv, PTL DEF Spec

\* No more steps run at once than max_parallel asks for, whoever dies, is killed or gives
\* its permit back.
THEOREM AtMostMax == Spec => []AtMostMaxParallel
<1>1. IInv => AtMostMaxParallel
  <2> SUFFICES ASSUME IInv, Limited
               PROVE  Cardinality({t \in Task : child[t] = "running"}) <= max_parallel
    BY DEF AtMostMaxParallel
  <2>1. {t \in Task : child[t] = "running"} \in SUBSET Permitted
    BY DEF Permitted
  <2>2. /\ Cardinality({t \in Task : child[t] = "running"}) \in Nat
        /\ Cardinality({t \in Task : child[t] = "running"}) <= Cardinality(Permitted)
    BY <2>1, PermittedFacts, FS_Subset, FS_CardinalityType
  <2>3. max_parallel \in Nat /\ semaphore \in Nat
    BY ParallelTasksAssumption DEF IInv, TypeOK
  <2> QED BY <2>2, <2>3, PermittedFacts DEF IInv, Permits
<1> QED BY <1>1, Invariance, PTL

\* Wait() believes what a child reported, and calls an exit unexpected only when nothing
\* was reported and nothing will be.
THEOREM VerdictsRight == Spec => []VerdictsAreRight
<1>1. IInv => VerdictsAreRight
  BY DEF IInv, TypeOK, Reports, Verdicts, VerdictsAreRight
<1> QED BY <1>1, Invariance, PTL

\* The call returns, raises the exception of the body or that of the steps as it should,
\* and a plain return means that every step succeeded.
THEOREM ResultRight == Spec => []ResultIsRight
<1>1. IInv => ResultIsRight
  BY DEF IInv, TypeOK, Reports, Verdicts, Left, ResultIsRight
<1> QED BY <1>1, Invariance, PTL

\* No child outlives the call, unless an assertion failed.
THEOREM NobodyLeft == Spec => []NobodyLeftBehind
<1>1. IInv => NobodyLeftBehind
  BY DEF IInv
<1> QED BY <1>1, Invariance, PTL

-----------------------------------------------------------------------------
(***************************************************************************)
(* TaskPool, for any number of inputs and of workers: the pool implements   *)
(* Pool, each input run at most once, and all of them when the call         *)
(* returns.                                                                 *)
(*                                                                          *)
(* The argument follows an input: it is to be put, on the queue, with one   *)
(* worker, or done. It is in no such place only when a worker has failed or *)
(* died, and of that the caller knows when it has waited for them all.      *)
(***************************************************************************)

(* The inductive invariant.                                                 *)

\* The queue has the inputs in the order they were put, each once, and then the
\* AllTasksCompletes.
InputsFirst ==
  /\ \A k \in DOMAIN queue : queue[k] <= fed
  /\ \A j, k \in DOMAIN queue : j < k /\ queue[k] # TP!AllTasksComplete =>
       queue[j] # TP!AllTasksComplete /\ queue[j] < queue[k]
  /\ pool = "feeding" => TP!AllTasksComplete \notin TP!Members(queue)

\* An input is in one place.
Done == TP!Members(out_queue) \cup results

OnePlace ==
  /\ \A i \in Done : i <= fed /\ i \notin TP!Members(queue)
  /\ \A w \in TP!Worker :
       /\ worker[w] = "running" <=> job[w] # TP!Nothing
       /\ job[w] # TP!Nothing => job[w] <= fed /\ job[w] \notin TP!Members(queue) \cup Done
  /\ \A v, w \in TP!Worker : job[v] = job[w] /\ job[w] # TP!Nothing => v = w

\* It is in none only when a worker has failed or died.
NoneLost ==
  \A i \in TP!Input : i <= fed =>
    \/ i \in Done \cup TP!Members(queue)
    \/ \E w \in TP!Worker : job[w] = i \/ errors[w] \/ TP!Dead(w)

\* A worker that has got its AllTasksComplete has left no input behind; one that ends well
\* has seen no failure.
WorkersEnd ==
  \A w \in TP!Worker :
    /\ worker[w] \in {"onexit", "ok", "failed"} => TP!Members(queue) \subseteq {TP!AllTasksComplete}
                                                   /\ pool # "feeding"
    /\ worker[w] = "ok" => ~errors[w]

\* What the caller has done and knows.
CallerKnows ==
  /\ pool \in {"feeding", "closing"} => closed < NumWorkers
  /\ pool # "feeding" => foreground \/ fed = NumInputs
  /\ pool = "feeding" => ~foreground
  /\ \A w \in TP!Worker : w <= waited => background \/ worker[w] = "ok"
  /\ pool = "killing" => foreground \/ background

\* What the proof needs of the constants and of the types.
PoolTypes == NumInputs \in Nat /\ NumWorkers \in Nat \ {0} /\ TP!TypeOK

PoolInv == PoolTypes /\ InputsFirst /\ OnePlace /\ NoneLost /\ WorkersEnd /\ CallerKnows

-----------------------------------------------------------------------------
(* Sequences.                                                               *)

LEMMA MembersOfAppend ==
  ASSUME NEW S, NEW s \in Seq(S), NEW e \in S
  PROVE  TP!Members(Append(s, e)) = TP!Members(s) \cup {e}
<1>1. /\ DOMAIN Append(s, e) = DOMAIN s \cup {Len(s) + 1}
      /\ Append(s, e)[Len(s) + 1] = e
      /\ \A k \in DOMAIN s : Append(s, e)[k] = s[k]
  OBVIOUS
<1> QED BY <1>1 DEF TP!Members

LEMMA MembersOfTail ==
  ASSUME NEW S, NEW s \in Seq(S), s # << >>
  PROVE  TP!Members(s) = TP!Members(Tail(s)) \cup {Head(s)}
<1>1. /\ DOMAIN s = 1 .. Len(s) /\ Len(s) \in Nat \ {0}
      /\ DOMAIN Tail(s) = 1 .. Len(s) - 1
      /\ Head(s) = s[1]
      /\ \A k \in DOMAIN Tail(s) : Tail(s)[k] = s[k + 1]
  OBVIOUS
<1>2. ASSUME NEW k \in DOMAIN s PROVE s[k] = Head(s) \/ s[k] \in TP!Members(Tail(s))
  <2>1. CASE k = 1
    BY <2>1, <1>1
  <2>2. CASE k # 1
    <3>1. k - 1 \in DOMAIN Tail(s) /\ Tail(s)[k - 1] = s[k]
      BY <2>2, <1>1
    <3> QED BY <3>1 DEF TP!Members
  <2> QED BY <2>1, <2>2
<1>3. Head(s) \in TP!Members(s)
  BY <1>1 DEF TP!Members
<1>4. ASSUME NEW k \in DOMAIN Tail(s) PROVE Tail(s)[k] \in TP!Members(s)
  BY <1>1 DEF TP!Members
<1> QED BY <1>2, <1>3, <1>4 DEF TP!Members

\* An input at the head of the queue is nowhere else on it; behind an AllTasksComplete
\* there are no inputs.
LEMMA TakenFromQueue ==
  ASSUME PoolTypes, InputsFirst, queue # << >>, queue' = Tail(queue), UNCHANGED <<fed, pool>>
  PROVE  /\ queue' \in Seq(TP!Input \cup {TP!AllTasksComplete})
         /\ InputsFirst'
         /\ TP!Members(queue) = TP!Members(queue)' \cup {Head(queue)}
         /\ Head(queue) \in TP!Input \cup {TP!AllTasksComplete} /\ Head(queue) <= fed
         /\ Head(queue) # TP!AllTasksComplete => Head(queue) \notin TP!Members(queue)'
         /\ Head(queue) = TP!AllTasksComplete => TP!Members(queue) \subseteq {TP!AllTasksComplete}
<1>1. /\ queue \in Seq(TP!Input \cup {TP!AllTasksComplete})
      /\ TP!Input \cup {TP!AllTasksComplete} \subseteq Nat /\ fed \in Nat
  BY DEF PoolTypes, TP!TypeOK, TP!Input, TP!AllTasksComplete
<1>2. /\ DOMAIN queue = 1 .. Len(queue) /\ Len(queue) \in Nat \ {0}
      /\ DOMAIN queue' = 1 .. Len(queue) - 1
      /\ Head(queue) = queue[1] /\ Head(queue) \in TP!Input \cup {TP!AllTasksComplete}
      /\ \A k \in DOMAIN queue' : queue'[k] = queue[k + 1]
      /\ queue' \in Seq(TP!Input \cup {TP!AllTasksComplete})
      /\ \A k \in DOMAIN queue : queue[k] \in TP!Input \cup {TP!AllTasksComplete}
  BY <1>1
<1>3. TP!Members(queue) = TP!Members(queue)' \cup {Head(queue)}
  BY <1>1, MembersOfTail DEF TP!Members
<1>4. InputsFirst'
  <2>1. \A k \in DOMAIN queue' : queue'[k] <= fed'
    BY <1>2 DEF InputsFirst
  <2>2. ASSUME NEW j \in DOMAIN queue', NEW k \in DOMAIN queue', j < k,
               queue'[k] # TP!AllTasksComplete
        PROVE  queue'[j] # TP!AllTasksComplete /\ queue'[j] < queue'[k]
    <3>1. /\ j + 1 \in DOMAIN queue /\ k + 1 \in DOMAIN queue /\ j + 1 < k + 1
          /\ queue'[j] = queue[j + 1] /\ queue'[k] = queue[k + 1]
      BY <2>2, <1>2
    <3> QED BY <3>1, <2>2 DEF InputsFirst
  <2>3. pool' = "feeding" => TP!AllTasksComplete \notin TP!Members(queue)'
    BY <1>3 DEF InputsFirst
  <2> QED BY <2>1, <2>2, <2>3 DEF InputsFirst
<1>5. Head(queue) <= fed
  BY <1>2 DEF InputsFirst
<1>6. ASSUME Head(queue) # TP!AllTasksComplete PROVE Head(queue) \notin TP!Members(queue)'
  <2>1. SUFFICES ASSUME NEW k \in DOMAIN queue' PROVE queue'[k] # Head(queue)
    BY DEF TP!Members
  <2>2. /\ k + 1 \in DOMAIN queue /\ 1 \in DOMAIN queue /\ 1 < k + 1
        /\ queue'[k] = queue[k + 1]
    BY <1>2
  <2>3. CASE queue[k + 1] = TP!AllTasksComplete
    BY <2>2, <2>3, <1>6
  <2>4. CASE queue[k + 1] # TP!AllTasksComplete
    <3>1. queue[1] < queue[k + 1]
      BY <2>2, <2>4 DEF InputsFirst
    <3>2. queue[1] \in Nat /\ queue[k + 1] \in Nat
      BY <1>1, <1>2, <2>2
    <3> QED BY <3>1, <3>2, <2>2, <1>2
  <2> QED BY <2>3, <2>4
<1>7. ASSUME Head(queue) = TP!AllTasksComplete
      PROVE  TP!Members(queue) \subseteq {TP!AllTasksComplete}
  <2>1. SUFFICES ASSUME NEW k \in DOMAIN queue PROVE queue[k] = TP!AllTasksComplete
    BY DEF TP!Members
  <2>2. k = 1 \/ 1 < k
    BY <1>2
  <2> QED BY <2>2, <1>2, <1>7 DEF InputsFirst
<1> QED BY <1>2, <1>3, <1>4, <1>5, <1>6, <1>7

-----------------------------------------------------------------------------
(* Every step keeps the invariant.                                          *)

WorkerState == {"getting", "running", "onexit", "ok", "failed", "orphan", "dead"}

LEMMA WorkerTypes ==
  ASSUME PoolTypes
  PROVE  /\ worker \in [TP!Worker -> WorkerState]
         /\ job \in [TP!Worker -> TP!Input \cup {TP!Nothing}]
         /\ errors \in [TP!Worker -> BOOLEAN]
         /\ TP!Input \subseteq Nat /\ TP!Nothing = TP!AllTasksComplete /\ TP!Nothing \notin TP!Input
  BY DEF PoolTypes, TP!TypeOK, WorkerState, TP!Input, TP!Nothing, TP!AllTasksComplete

LEMMA InitPoolInv == TP!TaskPoolAssumption /\ TP!Init => PoolInv
<1>1. ASSUME TP!TaskPoolAssumption, TP!Init PROVE PoolInv
  <2>1. NumInputs \in Nat /\ NumWorkers \in Nat \ {0}
    BY <1>1 DEF TP!TaskPoolAssumption
  <2>2. TP!Members(queue) = {} /\ TP!Members(out_queue) = {}
    BY <1>1 DEF TP!Init, TP!Members
  <2>3. PoolTypes
    <3>1. queue \in Seq(TP!Input \cup {TP!AllTasksComplete}) /\ out_queue \in Seq(TP!Input)
      BY <1>1 DEF TP!Init
    <3>2. fed \in 0 .. NumInputs /\ closed \in 0 .. NumWorkers /\ waited \in 0 .. NumWorkers
      BY <1>1, <2>1 DEF TP!Init
    <3> QED BY <1>1, <3>1, <3>2 DEF TP!Init, PoolTypes, TP!TypeOK
  <2> QED BY <1>1, <2>1, <2>2, <2>3
        DEF TP!Init, PoolInv, InputsFirst, OnePlace, NoneLost, WorkersEnd, CallerKnows, Done,
           TP!Nothing,
            TP!Worker, TP!Input
<1> QED BY <1>1

LEMMA PutInputKeeps ==
  ASSUME PoolInv, TP!PutInput
  PROVE  PoolInv'
<1> USE DEF TP!PutInput, TP!caller, TP!args, TP!workers
<1>1. /\ NumInputs \in Nat /\ fed \in 0 .. NumInputs /\ fed + 1 \in TP!Input
      /\ queue \in Seq(TP!Input \cup {TP!AllTasksComplete})
  BY DEF PoolInv, PoolTypes, TP!TypeOK, TP!Input
<1>2. TP!Members(queue)' = TP!Members(queue) \cup {fed + 1}
  BY <1>1, MembersOfAppend DEF TP!Members
<1>3. PoolTypes'
  BY <1>1 DEF PoolInv, PoolTypes, TP!TypeOK
<1>4. InputsFirst'
  <2>1. /\ DOMAIN queue' = DOMAIN queue \cup {Len(queue) + 1}
        /\ \A k \in DOMAIN queue : k < Len(queue) + 1 /\ queue'[k] = queue[k]
        /\ queue'[Len(queue) + 1] = fed + 1
        /\ Len(queue) \in Nat /\ DOMAIN queue = 1 .. Len(queue)
    BY <1>1
  <2>2. \A k \in DOMAIN queue : /\ queue[k] \in Nat /\ queue[k] <= fed
                                /\ queue[k] # TP!AllTasksComplete
    <3>1. \A k \in DOMAIN queue : queue[k] \in TP!Input \cup {TP!AllTasksComplete}
      BY <1>1
    <3>2. \A k \in DOMAIN queue : queue[k] \in TP!Members(queue)
      BY DEF TP!Members
    <3> QED BY <3>1, <3>2, <1>1 DEF PoolInv, InputsFirst, TP!Input, TP!AllTasksComplete
  <2>3. \A k \in DOMAIN queue' : queue'[k] <= fed'
    BY <2>1, <2>2, <1>1
  <2>4. ASSUME NEW j \in DOMAIN queue', NEW k \in DOMAIN queue', j < k
        PROVE  queue'[j] # TP!AllTasksComplete /\ queue'[j] < queue'[k]
    <3>1. j \in DOMAIN queue /\ queue'[j] = queue[j]
      BY <2>1, <2>4
    <3>2. CASE k \in DOMAIN queue
      BY <3>1, <3>2, <2>1, <2>2, <2>4 DEF PoolInv, InputsFirst
    <3>3. CASE k = Len(queue) + 1
      BY <3>1, <3>3, <2>1, <2>2, <1>1
    <3> QED BY <3>2, <3>3, <2>1
  <2>5. TP!AllTasksComplete \notin TP!Members(queue)'
    BY <1>1, <1>2 DEF PoolInv, InputsFirst, TP!AllTasksComplete
  <2> QED BY <2>3, <2>4, <2>5 DEF InputsFirst
<1>5. Done' = Done
  BY DEF Done, TP!Members
<1>6. OnePlace'
  <2>1. \A i \in Done : i \in Nat /\ i <= fed
    <3>1. out_queue \in Seq(TP!Input) /\ results \subseteq TP!Input
      BY DEF PoolInv, PoolTypes, TP!TypeOK
    <3>2. Done \subseteq TP!Input
      BY <3>1 DEF Done, TP!Members
    <3> QED BY <1>1, <3>2 DEF PoolInv, OnePlace, TP!Input
  <2>2. \A w \in TP!Worker : job[w] \in Nat
    BY <1>1 DEF PoolInv, PoolTypes, TP!TypeOK, TP!Input, TP!Nothing
  <2> QED BY <1>1, <1>2, <1>5, <2>1, <2>2 DEF PoolInv, OnePlace
<1>7. NoneLost'
  BY <1>1, <1>2, <1>5 DEF PoolInv, NoneLost, TP!Dead, TP!Input
<1>8. WorkersEnd'
  BY DEF PoolInv, WorkersEnd
<1>9. CallerKnows'
  BY DEF PoolInv, CallerKnows
<1> QED BY <1>3, <1>4, <1>6, <1>7, <1>8, <1>9 DEF PoolInv

\* The caller, when the queue gets no more inputs.
LEMMA CallerKeeps ==
  ASSUME PoolInv, UNCHANGED <<queue, fed, closed, TP!workers, TP!args>>, PoolTypes', Done' = Done,
         pool' # "feeding", pool' = "closing" => pool = "feeding",
         pool = "feeding" => fed = NumInputs \/ foreground',
         foreground => foreground', background => background',
         \A w \in TP!Worker : w <= waited' => w <= waited \/ background' \/ worker[w] = "ok",
         pool' = "killing" => foreground' \/ background'
  PROVE  PoolInv'
<1> USE DEF TP!workers
<1>1. TP!Members(queue)' = TP!Members(queue)
  BY DEF TP!Members
<1>2. InputsFirst'
  BY DEF PoolInv, InputsFirst
<1>3. OnePlace'
  BY <1>1 DEF PoolInv, OnePlace
<1>4. NoneLost'
  BY <1>1 DEF PoolInv, NoneLost, TP!Dead
<1>5. WorkersEnd'
  BY <1>1 DEF PoolInv, WorkersEnd
<1>6. CallerKnows'
  BY DEF PoolInv, CallerKnows
<1> QED BY <1>2, <1>3, <1>4, <1>5, <1>6 DEF PoolInv

\* A worker, or the manager for it, takes what is next on the queue.
LEMMA TakingKeeps ==
  ASSUME PoolInv, NEW w \in TP!Worker, queue # << >>, queue' = Tail(queue), UNCHANGED <<TP!caller,
     TP!args>>,
         TP!RunInput(w) \/ TP!SkipInput(w) \/ TP!TakeComplete(w) \/ TP!OrphanGets(w)
  PROVE  PoolInv'
<1> USE DEF TP!RunInput, TP!SkipInput, TP!TakeComplete, TP!OrphanGets, TP!Takes, TP!WorkerGoes,
     TP!caller, TP!workers, TP!args
<1> DEFINE next == Head(queue)
<1>1. /\ queue' \in Seq(TP!Input \cup {TP!AllTasksComplete})
      /\ InputsFirst'
      /\ TP!Members(queue) = TP!Members(queue)' \cup {next}
      /\ next \in TP!Input \cup {TP!AllTasksComplete} /\ next <= fed
      /\ next # TP!AllTasksComplete => next \notin TP!Members(queue)'
      /\ next = TP!AllTasksComplete => TP!Members(queue) \subseteq {TP!AllTasksComplete}
  BY TakenFromQueue DEF PoolInv
<1>2. Done' = Done
  BY DEF Done, TP!Members
<1>3. PoolTypes'
  BY <1>1 DEF PoolInv, PoolTypes, TP!TypeOK
<1>4. /\ TP!Nothing = TP!AllTasksComplete /\ TP!Nothing \notin TP!Input
      /\ worker \in [TP!Worker -> WorkerState]
      /\ job \in [TP!Worker -> TP!Input \cup {TP!Nothing}] /\ errors \in [TP!Worker -> BOOLEAN]
  BY WorkerTypes DEF PoolInv
<1>5. OnePlace'
  <2>1. \A i \in Done' : i <= fed' /\ i \notin TP!Members(queue)'
    BY <1>1, <1>2 DEF PoolInv, OnePlace
  <2>2. CASE TP!RunInput(w)
    <3>1. next \notin Done /\ \A v \in TP!Worker : job[v] # next
      BY <2>2, <1>1, <1>4 DEF PoolInv, OnePlace
    <3> QED BY <2>1, <2>2, <3>1, <1>1, <1>2, <1>4 DEF PoolInv, OnePlace
  <2>3. CASE ~TP!RunInput(w)
    <3>1. UNCHANGED job /\ \A v \in TP!Worker : worker'[v] = "running" <=> worker[v] = "running"
      BY <2>3, <1>4
    <3> QED BY <2>1, <3>1, <1>1, <1>2 DEF PoolInv, OnePlace
  <2> QED BY <2>2, <2>3
<1>6. NoneLost'
  <2>1. SUFFICES ASSUME NEW i \in TP!Input, i <= fed
                 PROVE  \/ i \in Done \cup TP!Members(queue)'
                        \/ \E v \in TP!Worker : job'[v] = i \/ errors'[v] \/ TP!Dead(v)'
    BY <1>2 DEF NoneLost
  <2>2. CASE i \in Done \/ i \in TP!Members(queue)'
    BY <2>2
  <2>3. CASE i = next
    BY <2>3, <1>4 DEF TP!Dead, PoolInv
  <2>4. ASSUME NEW v \in TP!Worker, job[v] = i \/ errors[v] \/ TP!Dead(v)
        PROVE  job'[v] = i \/ errors'[v] \/ TP!Dead(v)'
    <3>1. CASE job[v] = i
      <4>1. worker[v] = "running"
        BY <3>1, <1>4 DEF PoolInv, OnePlace
      <4> QED BY <3>1, <4>1, <1>4
    <3>2. CASE errors[v]
      BY <3>2
    <3>3. CASE TP!Dead(v)
      BY <3>3, <1>4 DEF TP!Dead
    <3> QED BY <2>4, <3>1, <3>2, <3>3
  <2> QED BY <2>1, <2>2, <2>3, <2>4, <1>1 DEF PoolInv, NoneLost
<1>7. WorkersEnd'
  <2>1. CASE TP!TakeComplete(w)
    <3>1. pool # "feeding" /\ TP!Members(queue)' \subseteq {TP!AllTasksComplete}
      BY <2>1, <1>1 DEF PoolInv, InputsFirst
    <3> QED BY <2>1, <3>1, <1>4 DEF PoolInv, WorkersEnd
  <2>2. CASE ~TP!TakeComplete(w)
    BY <2>2, <1>1, <1>4 DEF PoolInv, WorkersEnd
  <2> QED BY <2>1, <2>2
<1>8. CallerKnows'
  <2>1. \A v \in TP!Worker : worker[v] = "ok" => worker'[v] = "ok"
    BY <1>4
  <2> QED BY <2>1 DEF PoolInv, CallerKnows
<1> QED BY <1>1, <1>3, <1>5, <1>6, <1>7, <1>8 DEF PoolInv

\* A worker's other steps, and its death.
LEMMA WorkingKeeps ==
  ASSUME PoolInv, NEW w \in TP!Worker,
         \/ TP!TaskReturns(w) \/ TP!TaskRaises(w) \/ TP!Die(w)
         \/ \E raises \in BOOLEAN : TP!OnExit(w, raises)
  PROVE  PoolInv'
<1> USE DEF TP!TaskReturns, TP!TaskRaises, TP!OnExit, TP!Die, TP!WorkerGoes, TP!caller, TP!args
<1>1. /\ queue' = queue /\ fed' = fed /\ pool' = pool /\ results' = results
      /\ TP!Members(queue)' = TP!Members(queue)
      /\ \A v \in TP!Worker \ {w} :
           worker'[v] = worker[v] /\ job'[v] = job[v] /\ errors'[v] = errors[v]
      /\ fed \in Nat /\ TP!Input \subseteq Nat
      /\ w \in TP!Worker /\ worker \in [TP!Worker -> WorkerState]
      /\ job \in [TP!Worker -> TP!Input \cup {TP!Nothing}] /\ errors \in [TP!Worker -> BOOLEAN]
      /\ TP!Nothing \notin TP!Input
      /\ out_queue \in Seq(TP!Input)
  BY WorkerTypes DEF PoolInv, PoolTypes, TP!TypeOK, TP!Members
<1>2. job'[w] \in {TP!Nothing, job[w]} /\ (worker'[w] = "running" <=> job'[w] # TP!Nothing)
  BY <1>1 DEF PoolInv, OnePlace
<1>3. /\ TP!TaskReturns(w) => job[w] \in TP!Input /\ Done' = Done \cup {job[w]}
      /\ ~TP!TaskReturns(w) => Done' = Done
  <2>1. CASE TP!TaskReturns(w)
    <3>1. job[w] \in TP!Input
      BY <2>1, <1>1 DEF PoolInv, OnePlace
    <3>2. TP!Members(Append(out_queue, job[w])) = TP!Members(out_queue) \cup {job[w]}
      BY <3>1, <1>1, MembersOfAppend
    <3> QED BY <2>1, <3>1, <3>2 DEF Done, TP!Members
  <2>2. CASE ~TP!TaskReturns(w)
    BY <2>2 DEF Done, TP!Members
  <2> QED BY <2>1, <2>2
<1>4. PoolTypes'
  <2>1. out_queue' \in Seq(TP!Input)
    BY <1>1, <1>3
  <2> QED BY <2>1 DEF PoolInv, PoolTypes, TP!TypeOK
<1>5. InputsFirst'
  BY <1>1 DEF PoolInv, InputsFirst
<1>6. OnePlace'
  <2>1. TP!TaskReturns(w) =>
          job[w] \notin TP!Members(queue) /\ job[w] <= fed /\ job'[w] = TP!Nothing
                          /\ \A v \in TP!Worker \ {w} : job[v] # job[w]
    BY <1>1, <1>3 DEF PoolInv, OnePlace
  <2> QED BY <2>1, <1>1, <1>2, <1>3 DEF PoolInv, OnePlace
<1>7. NoneLost'
  <2>1. SUFFICES ASSUME NEW i \in TP!Input, i <= fed
                 PROVE  \/ i \in Done' \cup TP!Members(queue)
                        \/ \E v \in TP!Worker : job'[v] = i \/ errors'[v] \/ TP!Dead(v)'
    BY <1>1 DEF NoneLost
  <2>2. ASSUME NEW v \in TP!Worker, job[v] = i \/ errors[v] \/ TP!Dead(v)
        PROVE  i \in Done' \/ job'[v] = i \/ errors'[v] \/ TP!Dead(v)'
    <3>1. CASE v # w
      BY <3>1, <2>2, <1>1 DEF TP!Dead
    <3>2. CASE v = w
      BY <3>2, <2>2, <1>1, <1>3 DEF TP!Dead, PoolInv, OnePlace
    <3> QED BY <3>1, <3>2
  <2>3. Done \subseteq Done'
    BY <1>3
  <2> QED BY <2>1, <2>2, <2>3 DEF PoolInv, NoneLost
<1>8. WorkersEnd'
  BY <1>1 DEF PoolInv, WorkersEnd
<1>9. CallerKnows'
  BY <1>1 DEF PoolInv, CallerKnows, PoolTypes, TP!TypeOK, TP!Worker
<1> QED BY <1>4, <1>5, <1>6, <1>7, <1>8, <1>9 DEF PoolInv

LEMMA PutCompleteKeeps ==
  ASSUME PoolInv, TP!PutComplete
  PROVE  PoolInv'
<1> USE DEF TP!PutComplete, TP!CallerGoes, TP!args, TP!workers
<1>1. /\ queue \in Seq(TP!Input \cup {TP!AllTasksComplete}) /\ fed \in Nat
      /\ closed' \in 0 .. NumWorkers
  <2>1. closed \in 0 .. NumWorkers /\ closed < NumWorkers
    BY DEF PoolInv, PoolTypes, TP!TypeOK, CallerKnows
  <2> QED BY <2>1 DEF PoolInv, PoolTypes, TP!TypeOK
<1>2. TP!Members(queue)' = TP!Members(queue) \cup {TP!AllTasksComplete}
  BY <1>1, MembersOfAppend DEF TP!Members
<1>3. PoolTypes'
  BY <1>1 DEF PoolInv, PoolTypes, TP!TypeOK
<1>4. InputsFirst'
  <2>1. /\ DOMAIN queue' = DOMAIN queue \cup {Len(queue) + 1}
        /\ \A k \in DOMAIN queue : k < Len(queue) + 1 /\ queue'[k] = queue[k]
        /\ queue'[Len(queue) + 1] = TP!AllTasksComplete
        /\ Len(queue) \in Nat /\ DOMAIN queue = 1 .. Len(queue)
    BY <1>1
  <2>2. \A k \in DOMAIN queue' : queue'[k] <= fed'
    BY <2>1, <1>1 DEF PoolInv, InputsFirst, TP!AllTasksComplete
  <2>3. ASSUME NEW j \in DOMAIN queue', NEW k \in DOMAIN queue', j < k,
               queue'[k] # TP!AllTasksComplete
        PROVE  queue'[j] # TP!AllTasksComplete /\ queue'[j] < queue'[k]
    <3>1. k \in DOMAIN queue /\ j \in DOMAIN queue
      BY <2>1, <2>3
    <3> QED BY <3>1, <2>1, <2>3 DEF PoolInv, InputsFirst
  <2> QED BY <2>2, <2>3 DEF InputsFirst
<1>5. Done' = Done
  BY DEF Done, TP!Members
<1>6. Done \subseteq Nat \ {TP!AllTasksComplete}
  <2>1. out_queue \in Seq(TP!Input) /\ results \subseteq TP!Input
    BY DEF PoolInv, PoolTypes, TP!TypeOK
  <2> QED BY <2>1, WorkerTypes DEF PoolInv, Done, TP!Members
<1>7. OnePlace'
  BY <1>2, <1>5, <1>6, WorkerTypes DEF PoolInv, OnePlace
<1>8. NoneLost'
  BY <1>2, <1>5 DEF PoolInv, NoneLost, TP!Dead
<1>9. WorkersEnd' /\ CallerKnows'
  BY <1>2 DEF PoolInv, PoolTypes, TP!TypeOK, WorkersEnd, CallerKnows
<1> QED BY <1>3, <1>4, <1>7, <1>8, <1>9 DEF PoolInv

LEMMA NextKeepsPoolInv == PoolInv /\ [TP!Next]_TP!vars => PoolInv'
<1> SUFFICES ASSUME PoolInv, [TP!Next]_TP!vars PROVE PoolInv'
  OBVIOUS
<1>1. CASE UNCHANGED TP!vars
  <2>1. /\ TP!Members(queue)' = TP!Members(queue) /\ Done' = Done
        /\ \A w \in TP!Worker : TP!Dead(w)' <=> TP!Dead(w)
    BY <1>1 DEF TP!vars, TP!caller, TP!workers, TP!Members, Done, TP!Dead
  <2>2. PoolTypes' /\ InputsFirst' /\ CallerKnows'
    BY <1>1, <2>1 DEF TP!vars, TP!caller, TP!args, TP!workers, PoolInv, PoolTypes, TP!TypeOK,
       InputsFirst, CallerKnows
  <2>3. OnePlace' /\ NoneLost' /\ WorkersEnd'
    BY <1>1, <2>1 DEF TP!vars, TP!caller, TP!workers, PoolInv, OnePlace, NoneLost, WorkersEnd
  <2> QED BY <2>2, <2>3 DEF PoolInv
<1>2. CASE TP!PutInput
  BY <1>2, PutInputKeeps
<1>3. CASE TP!PutComplete
  BY <1>3, PutCompleteKeeps
<1>4. ASSUME NEW raises \in BOOLEAN, TP!BodyEnds(raises) PROVE PoolInv'
  <2>1. PoolTypes' /\ Done' = Done
    BY <1>4 DEF TP!BodyEnds, TP!CallerGoes, Done, TP!Members, TP!workers, TP!args, PoolInv,
       PoolTypes, TP!TypeOK
  <2> QED BY <1>4, <2>1, CallerKeeps DEF TP!BodyEnds, TP!CallerGoes, PoolInv, CallerKnows
<1>5. CASE TP!WaitNext
  <2>1. waited \in Nat /\ waited' = waited + 1 /\ waited' \in TP!Worker
    BY <1>5 DEF TP!WaitNext, PoolInv, PoolTypes, TP!TypeOK
  <2>2. background' = (background \/ worker[waited'] # "ok")
    BY <1>5, <2>1 DEF TP!WaitNext
  <2>3. ASSUME NEW w \in TP!Worker,
       w <= waited' PROVE w <= waited \/ background' \/ worker[w] = "ok"
    <3>1. w <= waited \/ w = waited'
      BY <2>1, <2>3 DEF TP!Worker, PoolInv, PoolTypes
    <3> QED BY <2>2, <3>1
  <2>4. pool' \in {"waiting", "killing"} /\ (pool' = "killing" => background')
    BY <1>5, <2>1, <2>2 DEF TP!WaitNext
  <2>5. PoolTypes'
    BY <1>5, <2>1, <2>2, <2>4 DEF TP!WaitNext, PoolInv, PoolTypes, TP!TypeOK, TP!Worker,
       TP!workers, TP!args
  <2> QED BY <1>5, <2>2, <2>3, <2>4, <2>5, CallerKeeps DEF TP!WaitNext, Done, TP!Members
<1>6. CASE TP!Halt
  BY <1>6, CallerKeeps DEF TP!Halt, TP!CallerGoes, Done, TP!Members, TP!workers, TP!args, PoolInv,
     PoolTypes, TP!TypeOK
<1>7. CASE TP!Leave
  BY <1>7, CallerKeeps DEF TP!Leave, TP!AllEnded, Done, TP!Members, TP!workers, TP!args, PoolInv,
     PoolTypes, TP!TypeOK
<1>8. CASE TP!Collect
  <2>1. out_queue \in Seq(TP!Input) /\ out_queue # << >> /\ out_queue' = Tail(out_queue)
    BY <1>8 DEF TP!Collect, PoolInv, PoolTypes, TP!TypeOK
  <2>2. /\ out_queue' \in Seq(TP!Input) /\ Head(out_queue) \in TP!Input
        /\ TP!Members(out_queue) = TP!Members(out_queue)' \cup {Head(out_queue)}
    BY <2>1, MembersOfTail DEF TP!Members
  <2>3. Done' = Done
    BY <1>8, <2>2 DEF TP!Collect, Done
  <2>4. PoolTypes'
    BY <1>8, <2>2 DEF TP!Collect, PoolInv, PoolTypes, TP!TypeOK, TP!workers, TP!args
  <2> QED BY <1>8, <2>3, <2>4, CallerKeeps DEF TP!Collect, PoolInv, CallerKnows
<1>9. CASE TP!CollectsAll
  BY <1>9, CallerKeeps DEF TP!CollectsAll, TP!CallerGoes, Done, TP!Members, TP!workers, TP!args,
     PoolInv, PoolTypes, TP!TypeOK
<1>10. ASSUME NEW w \in TP!Worker, TP!WorkerStep(w) \/ TP!Die(w) \/ TP!OrphanGets(w)
       PROVE  PoolInv'
  <2>1. CASE TP!RunInput(w) \/ TP!SkipInput(w) \/ TP!TakeComplete(w) \/ TP!OrphanGets(w)
    <3>1. queue # << >> /\ queue' = Tail(queue) /\ UNCHANGED <<TP!caller, TP!args>>
      BY <2>1 DEF TP!RunInput, TP!SkipInput, TP!TakeComplete, TP!OrphanGets, TP!Takes
    <3> QED BY <2>1, <3>1, TakingKeeps
  <2>2. CASE \/ TP!TaskReturns(w) \/ TP!TaskRaises(w) \/ TP!Die(w)
             \/ \E raises \in BOOLEAN : TP!OnExit(w, raises)
    BY <2>2, WorkingKeeps
  <2> QED BY <1>10, <2>1, <2>2 DEF TP!WorkerStep
<1> QED BY <1>1, <1>2, <1>3, <1>4, <1>5, <1>6, <1>7, <1>8, <1>9, <1>10 DEF TP!Next, TP!CallerStep

\* The invariant of the pool holds in every state.
THEOREM PoolInvariance ==
  ASSUME TP!TaskPoolAssumption
  PROVE  TP!Spec => []PoolInv
<1> QED BY InitPoolInv, NextKeepsPoolInv, PTL DEF TP!Spec

-----------------------------------------------------------------------------
(* Steps are steps of the abstract pool.                                    *)

InHand(i) == \E w \in TP!Worker : job[w] = i

\* The status of an input, by where it is.
LEMMA StatusOf ==
  ASSUME PoolInv, NEW i \in TP!Input
  PROVE  /\ i \in Done => TP!Status[i] = "done"
         /\ i \notin Done /\ i > fed => TP!Status[i] = "new"
         /\ i \notin Done /\ ~(i > fed) /\ i \in TP!Members(queue) => TP!Status[i] = "put"
         /\ i \notin Done /\ ~(i > fed) /\ i \notin TP!Members(queue) =>
              TP!Status[i] = IF InHand(i) THEN "run" ELSE "lost"
<1>1. TP!Status[i] = CASE i \in Done           -> "done"
                   [] i > fed              -> "new"
                   [] i \in TP!Members(queue) -> "put"
                   [] InHand(i)           -> "run"
                   [] OTHER                -> "lost"
  BY DEF TP!Status, Done, InHand
<1>2. i \in Nat /\ fed \in Nat
  BY DEF PoolInv, PoolTypes, TP!TypeOK, TP!Input
<1>3. i \in TP!Members(queue) => i \notin Done /\ ~(i > fed)
  BY <1>2 DEF PoolInv, OnePlace, InputsFirst, TP!Members
<1>4. i \in Done => ~(i > fed)
  BY <1>2 DEF PoolInv, OnePlace
<1>5. InHand(i) => i \notin Done \cup TP!Members(queue) /\ ~(i > fed)
  BY <1>2 DEF PoolInv, OnePlace, InHand, TP!Input, TP!Nothing
<1> QED BY <1>1, <1>3, <1>4, <1>5

LEMMA NextStatusOf ==
  ASSUME PoolInv', NEW i \in TP!Input
  PROVE  /\ i \in Done' => TP!Status'[i] = "done"
         /\ i \notin Done' /\ i > fed' => TP!Status'[i] = "new"
         /\ i \notin Done' /\ ~(i > fed') /\ i \in TP!Members(queue)' => TP!Status'[i] = "put"
         /\ i \notin Done' /\ ~(i > fed') /\ i \notin TP!Members(queue)' =>
              TP!Status'[i] = IF InHand(i)' THEN "run" ELSE "lost"
<1>1. TP!Status'[i] = CASE i \in Done'           -> "done"
                   [] i > fed'              -> "new"
                   [] i \in TP!Members(queue)' -> "put"
                   [] InHand(i)'           -> "run"
                   [] OTHER                -> "lost"
  BY DEF TP!Status, Done, InHand
<1>2. i \in Nat /\ fed' \in Nat
  BY DEF PoolInv, PoolTypes, TP!TypeOK, TP!Input
<1>3. i \in TP!Members(queue)' => i \notin Done' /\ ~(i > fed')
  BY <1>2 DEF PoolInv, OnePlace, InputsFirst, TP!Members
<1>4. i \in Done' => ~(i > fed')
  BY <1>2 DEF PoolInv, OnePlace
<1>5. InHand(i)' => i \notin Done' \cup TP!Members(queue)' /\ ~(i > fed')
  BY <1>2 DEF PoolInv, OnePlace, InHand, TP!Input, TP!Nothing
<1> QED BY <1>1, <1>3, <1>4, <1>5

\* i stays where it is.
Stays(i) ==
  /\ i \in Done' <=> i \in Done
  /\ i > fed' <=> i > fed
  /\ i \in TP!Members(queue)' <=> i \in TP!Members(queue)
  /\ InHand(i)' <=> InHand(i)

LEMMA StatusStays ==
  ASSUME NEW i \in TP!Input, Stays(i)
  PROVE  TP!Status'[i] = TP!Status[i]
<1> QED BY DEF Stays, TP!Status, Done, InHand

LEMMA AllStay ==
  ASSUME \A i \in TP!Input : Stays(i)
  PROVE  TP!Status' = TP!Status
<1>1. \A i \in TP!Input : TP!Status'[i] = TP!Status[i]
  BY StatusStays
<1> QED BY <1>1 DEF TP!Status

\* All but i stay, and i moves on.
LEMMA OneMoves ==
  ASSUME NEW i \in TP!Input, \A j \in TP!Input \ {i} : Stays(j)
  PROVE  TP!Status' = [TP!Status EXCEPT ![i] = TP!Status'[i]]
<1>1. \A j \in TP!Input : TP!Status'[j] = [TP!Status EXCEPT ![i] = TP!Status'[i]][j]
  BY StatusStays DEF TP!Status
<1> QED BY <1>1 DEF TP!Status

\* How the call ended, as the abstract pool has it.
PoolResult == IF pool \in {"returned", "raised"} THEN pool ELSE "none"

LEMMA PutInputImplements ==
  ASSUME PoolInv, PoolInv', TP!PutInput
  PROVE  TP!P!Next
<1> USE DEF TP!PutInput, TP!workers
<1>0. PICK i : i = fed + 1
  OBVIOUS
<1>1. /\ i \in TP!Input /\ fed \in Nat /\ TP!Input \subseteq Nat
      /\ queue \in Seq(TP!Input \cup {TP!AllTasksComplete})
  BY <1>0 DEF PoolInv, PoolTypes, TP!TypeOK, TP!Input
<1>2. TP!Members(queue)' = TP!Members(queue) \cup {i}
  BY <1>0, <1>1, MembersOfAppend DEF TP!Members
<1>3. Done' = Done /\ i \notin Done
  BY <1>0, <1>1 DEF Done, TP!Members, PoolInv, OnePlace
<1>4. \A j \in TP!Input \ {i} : Stays(j)
  BY <1>0, <1>1, <1>2, <1>3 DEF Stays, InHand
<1>5. i > fed /\ ~(i > fed')
  BY <1>0, <1>1
<1>6. TP!Status[i] = "new" /\ TP!Status'[i] = "put"
  BY <1>1, <1>2, <1>3, <1>5, StatusOf, NextStatusOf
<1>7. TP!P!Put(i)
  BY <1>1, <1>4, <1>6, OneMoves DEF TP!P!Put, TP!P!Moves
<1> QED BY <1>1, <1>7 DEF TP!P!Next

\* What is taken from the queue is run or lost, but for an AllTasksComplete.
LEMMA TakingImplements ==
  ASSUME PoolInv, PoolInv', NEW w \in TP!Worker, queue # << >>, queue' = Tail(queue),
     UNCHANGED <<TP!caller, TP!args>>,
         TP!RunInput(w) \/ TP!SkipInput(w) \/ TP!TakeComplete(w) \/ TP!OrphanGets(w)
  PROVE  TP!P!Next \/ UNCHANGED TP!P!vars
<1> USE DEF TP!RunInput, TP!SkipInput, TP!TakeComplete, TP!OrphanGets, TP!Takes, TP!WorkerGoes,
     TP!caller, TP!workers
<1>0. PICK i : i = Head(queue)
  OBVIOUS
<1>1. /\ TP!Members(queue) = TP!Members(queue)' \cup {i}
      /\ i \in TP!Input \cup {TP!AllTasksComplete} /\ i <= fed
      /\ i # TP!AllTasksComplete => i \notin TP!Members(queue)'
  BY <1>0, TakenFromQueue DEF PoolInv
<1>2. Done' = Done /\ fed' = fed /\ PoolResult' = PoolResult
  <2>1. UNCHANGED out_queue
    OBVIOUS
  <2> QED BY <2>1 DEF Done, TP!Members, PoolResult
<1>3. /\ job \in [TP!Worker -> TP!Input \cup {TP!Nothing}] /\ TP!Nothing = TP!AllTasksComplete
      /\ TP!Nothing \notin TP!Input /\ TP!Input \subseteq Nat /\ fed \in Nat
  BY WorkerTypes DEF PoolInv, PoolTypes, TP!TypeOK
<1>4. job[w] = TP!Nothing
  BY <1>3 DEF PoolInv, OnePlace
<1>5. CASE i = TP!AllTasksComplete
  <2>1. UNCHANGED job
    BY <1>0, <1>5, <1>3
  <2>2. \A j \in TP!Input : Stays(j)
    BY <1>1, <1>2, <1>3, <1>5, <2>1 DEF Stays, InHand
  <2> QED BY <1>2, <2>2, AllStay DEF TP!P!vars, PoolResult
<1>6. CASE i \in TP!Input
  <2>1. i \notin Done /\ ~InHand(i)
    BY <1>1, <1>6, <1>3 DEF PoolInv, OnePlace, InHand
  <2>2. TP!Status[i] = "put"
    <3>1. ~(i > fed) /\ i \in TP!Members(queue)
      BY <1>1, <1>3, <1>6
    <3> QED BY <1>6, <2>1, <3>1, StatusOf
  <2>3. CASE TP!RunInput(w)
    <3>1. InHand(i)' /\ \A j \in TP!Input \ {i} : InHand(j)' <=> InHand(j)
      BY <1>0, <2>3, <1>3, <1>4 DEF InHand
    <3>2. \A j \in TP!Input \ {i} : Stays(j)
      BY <1>1, <1>2, <3>1 DEF Stays
    <3>3. TP!Status'[i] = "run"
      <4>1. InHand(i)' /\ ~(i > fed') /\ i \notin Done' /\ i \notin TP!Members(queue)'
        BY <1>1, <1>2, <1>3, <1>6, <2>1, <3>1
      <4> QED BY <1>6, <4>1, NextStatusOf
    <3>4. TP!P!Run(i)
      BY <1>2, <1>6, <2>2, <3>2, <3>3, OneMoves DEF TP!P!Run, TP!P!Moves, PoolResult
    <3> QED BY <1>6, <3>4 DEF TP!P!Next
  <2>4. CASE ~TP!RunInput(w)
    <3>1. UNCHANGED job
      BY <2>4
    <3>2. \A j \in TP!Input \ {i} : Stays(j)
      BY <1>1, <1>2, <3>1 DEF Stays, InHand
    <3>3. TP!Status'[i] = "lost"
      <4>1. ~InHand(i)' /\ ~(i > fed') /\ i \notin Done' /\ i \notin TP!Members(queue)'
        BY <1>1, <1>2, <1>3, <1>6, <2>1, <3>1 DEF InHand
      <4> QED BY <1>6, <4>1, NextStatusOf
    <3>4. TP!P!Lose(i)
      BY <1>2, <1>6, <2>2, <3>2, <3>3, OneMoves DEF TP!P!Lose, TP!P!Moves, PoolResult
    <3> QED BY <1>6, <3>4 DEF TP!P!Next
  <2> QED BY <2>3, <2>4
<1> QED BY <1>1, <1>5, <1>6

\* A task returns, or its input is lost; the rest is not seen.
LEMMA WorkingImplements ==
  ASSUME PoolInv, PoolInv', NEW w \in TP!Worker,
         \/ TP!TaskReturns(w) \/ TP!TaskRaises(w) \/ TP!Die(w)
         \/ \E raises \in BOOLEAN : TP!OnExit(w, raises)
  PROVE  TP!P!Next \/ UNCHANGED TP!P!vars
<1> USE DEF TP!TaskReturns, TP!TaskRaises, TP!OnExit, TP!Die, TP!WorkerGoes, TP!caller
<1>0. PICK i : i = job[w]
  OBVIOUS
<1>1. /\ job \in [TP!Worker -> TP!Input \cup {TP!Nothing}] /\ TP!Nothing \notin TP!Input
      /\ TP!Input \subseteq Nat /\ fed \in Nat /\ out_queue \in Seq(TP!Input)
  BY WorkerTypes DEF PoolInv, PoolTypes, TP!TypeOK
<1>2. fed' = fed /\ PoolResult' = PoolResult /\ TP!Members(queue)' = TP!Members(queue)
  BY DEF PoolResult, TP!Members
<1>3. CASE i = TP!Nothing
  <2>1. UNCHANGED <<job, out_queue, results>>
    BY <1>0, <1>1, <1>3 DEF PoolInv, OnePlace
  <2>2. \A j \in TP!Input : Stays(j)
    BY <1>2, <2>1 DEF Stays, InHand, Done, TP!Members
  <2> QED BY <1>2, <2>2, AllStay DEF TP!P!vars, PoolResult
<1>4. CASE i \in TP!Input
  <2>1. /\ worker[w] = "running" /\ i <= fed /\ i \notin TP!Members(queue) /\ i \notin Done
        /\ \A v \in TP!Worker \ {w} : job[v] # i
    BY <1>0, <1>1, <1>4 DEF PoolInv, OnePlace
  <2>2. job' = [job EXCEPT ![w] = TP!Nothing]
    BY <2>1
  <2>3. ~InHand(i)' /\ \A j \in TP!Input \ {i} : InHand(j)' <=> InHand(j)
    BY <1>0, <1>1, <1>4, <2>1, <2>2 DEF InHand
  <2>4. TP!Status[i] = "run"
    <3>1. InHand(i) /\ ~(i > fed)
      BY <1>0, <1>1, <1>4, <2>1 DEF InHand
    <3> QED BY <1>4, <2>1, <3>1, StatusOf
  <2>5. CASE TP!TaskReturns(w)
    <3>1. Done' = Done \cup {i}
      BY <1>0, <1>1, <1>4, <2>5, MembersOfAppend DEF Done, TP!Members
    <3>2. \A j \in TP!Input \ {i} : Stays(j)
      BY <1>2, <2>3, <3>1 DEF Stays
    <3>3. TP!Status'[i] = "done"
      BY <1>4, <3>1, NextStatusOf
    <3>4. TP!P!Finish(i)
      BY <1>2, <1>4, <2>4, <3>2, <3>3, OneMoves DEF TP!P!Finish, TP!P!Moves, PoolResult
    <3> QED BY <1>4, <3>4 DEF TP!P!Next
  <2>6. CASE ~TP!TaskReturns(w)
    <3>1. Done' = Done
      BY <2>6 DEF Done, TP!Members
    <3>2. \A j \in TP!Input \ {i} : Stays(j)
      BY <1>2, <2>3, <3>1 DEF Stays
    <3>3. TP!Status'[i] = "lost"
      BY <1>1, <1>2, <1>4, <2>1, <2>3, <3>1, NextStatusOf
    <3>4. TP!P!Lose(i)
      BY <1>2, <1>4, <2>4, <3>2, <3>3, OneMoves DEF TP!P!Lose, TP!P!Moves, PoolResult
    <3> QED BY <1>4, <3>4 DEF TP!P!Next
  <2> QED BY <2>5, <2>6
<1> QED BY <1>0, <1>1, <1>3, <1>4

\* A call that returns has run its task on every input, to its end.
LEMMA AllIsDone ==
  ASSUME PoolInv, TP!Leave \/ TP!CollectsAll, pool' = "returned"
  PROVE  \A i \in TP!Input : TP!Status[i] = "done"
<1>1. TP!Input \subseteq Done => \A i \in TP!Input : TP!Status[i] = "done"
  BY StatusOf
<1>2. CASE TP!CollectsAll
  BY <1>1, <1>2 DEF TP!CollectsAll, Done
<1>3. CASE TP!Leave
  <2>1. pool = "waiting" /\ waited = NumWorkers /\ ~foreground /\ ~background
    BY <1>3 DEF TP!Leave, TP!AllEnded, PoolInv, CallerKnows
  <2>2. \A w \in TP!Worker : worker[w] = "ok"
    BY <2>1 DEF PoolInv, CallerKnows, TP!Worker
  <2>3. \A w \in TP!Worker : ~errors[w] /\ ~TP!Dead(w) /\ job[w] = TP!Nothing
    BY <2>2 DEF PoolInv, WorkersEnd, OnePlace, TP!Dead
  <2>4. TP!Members(queue) \subseteq {TP!AllTasksComplete}
    <3>1. 1 \in TP!Worker
      BY DEF TP!Worker, PoolInv, PoolTypes
    <3> QED BY <2>2, <3>1 DEF PoolInv, WorkersEnd
  <2>5. fed = NumInputs
    BY <2>1 DEF PoolInv, CallerKnows
  <2>6. ASSUME NEW i \in TP!Input PROVE i \in Done
    <3>1. i <= fed /\ i # TP!AllTasksComplete /\ i # TP!Nothing
      BY <2>5 DEF TP!Input, TP!AllTasksComplete, TP!Nothing
    <3> QED BY <2>3, <2>4, <3>1 DEF PoolInv, NoneLost
  <2> QED BY <1>1, <2>6
<1> QED BY <1>2, <1>3

\* The caller's other steps are a Return, a Raise, or not seen.
LEMMA CallerImplements ==
  ASSUME PoolInv, UNCHANGED <<fed, job>>, Done' = Done,
         \A i \in TP!Input : i \in TP!Members(queue)' <=> i \in TP!Members(queue),
         \/ PoolResult' = PoolResult
         \/ PoolResult = "none" /\ pool' = "raised"
         \/ PoolResult = "none" /\ pool' = "returned" /\ \A i \in TP!Input : TP!Status[i] = "done"
  PROVE  TP!P!Next \/ UNCHANGED TP!P!vars
<1>1. TP!Status' = TP!Status
  <2>1. \A i \in TP!Input : Stays(i)
    BY DEF Stays, InHand
  <2> QED BY <2>1, AllStay
<1>2. CASE PoolResult' = PoolResult
  BY <1>1, <1>2 DEF TP!P!vars, PoolResult
<1>3. CASE PoolResult = "none" /\ pool' = "raised"
  BY <1>1, <1>3 DEF TP!P!Next, TP!P!Raise, PoolResult
<1>4. CASE PoolResult = "none" /\ pool' = "returned" /\ \A i \in TP!Input : TP!Status[i] = "done"
  BY <1>1, <1>4 DEF TP!P!Next, TP!P!Return, PoolResult
<1> QED BY <1>2, <1>3, <1>4

LEMMA NextImplements == PoolInv /\ PoolInv' /\ [TP!Next]_TP!vars => [TP!P!Next]_TP!P!vars
<1> SUFFICES ASSUME PoolInv, PoolInv', [TP!Next]_TP!vars PROVE TP!P!Next \/ UNCHANGED TP!P!vars
  OBVIOUS
<1>1. CASE UNCHANGED TP!vars
  BY <1>1, CallerImplements DEF TP!vars, TP!caller, TP!workers, Done, TP!Members, PoolResult
<1>2. CASE TP!PutInput
  BY <1>2, PutInputImplements
<1>3. CASE TP!PutComplete
  <2>1. TP!Members(queue)' = TP!Members(queue) \cup {TP!AllTasksComplete}
    <3>1. queue \in Seq(TP!Input \cup {TP!AllTasksComplete})
      BY DEF PoolInv, PoolTypes, TP!TypeOK
    <3> QED BY <1>3, <3>1, MembersOfAppend DEF TP!PutComplete, TP!Members
  <2>2. \A i \in TP!Input : i \in TP!Members(queue)' <=> i \in TP!Members(queue)
    BY <2>1, WorkerTypes DEF PoolInv
  <2>3. UNCHANGED <<fed, job>> /\ Done' = Done /\ PoolResult' = PoolResult
    BY <1>3 DEF TP!PutComplete, TP!CallerGoes, TP!workers, Done, TP!Members, PoolResult
  <2> QED BY <2>2, <2>3, CallerImplements
<1>4. CASE (\E raises \in BOOLEAN : TP!BodyEnds(raises)) \/ TP!WaitNext \/ TP!Halt
  <2>1. UNCHANGED <<fed, job, queue, out_queue, results>>
    BY <1>4 DEF TP!BodyEnds, TP!WaitNext, TP!Halt, TP!workers
  <2>2. PoolResult' = PoolResult
    BY <1>4 DEF TP!BodyEnds, TP!WaitNext, TP!Halt, TP!CallerGoes, PoolResult
  <2> QED BY <2>1, <2>2, CallerImplements DEF Done, TP!Members
<1>5. CASE TP!Leave \/ TP!CollectsAll
  <2>1. UNCHANGED <<fed, job, queue, out_queue, results>>
    BY <1>5 DEF TP!Leave, TP!CollectsAll, TP!workers
  <2>2. /\ PoolResult = "none"
        /\ pool' \in {"raised", "returned"} \/ PoolResult' = PoolResult
    BY <1>5 DEF TP!Leave, TP!AllEnded, TP!CollectsAll, TP!CallerGoes, PoolResult
  <2>3. pool' = "returned" => \A i \in TP!Input : TP!Status[i] = "done"
    BY <1>5, AllIsDone
  <2> QED BY <2>1, <2>2, <2>3, CallerImplements DEF Done, TP!Members
<1>6. CASE TP!Collect
  <2>1. out_queue \in Seq(TP!Input) /\ out_queue # << >> /\ out_queue' = Tail(out_queue)
    BY <1>6 DEF TP!Collect, PoolInv, PoolTypes, TP!TypeOK
  <2>2. TP!Members(out_queue) = TP!Members(out_queue)' \cup {Head(out_queue)}
    BY <2>1, MembersOfTail DEF TP!Members
  <2>3. Done' = Done
    BY <1>6, <2>2 DEF TP!Collect, Done
  <2> QED BY <1>6, <2>3, CallerImplements DEF TP!Collect, TP!Members, PoolResult, TP!workers
<1>7. ASSUME NEW w \in TP!Worker, TP!WorkerStep(w) \/ TP!Die(w) \/ TP!OrphanGets(w)
      PROVE  TP!P!Next \/ UNCHANGED TP!P!vars
  <2>1. CASE TP!RunInput(w) \/ TP!SkipInput(w) \/ TP!TakeComplete(w) \/ TP!OrphanGets(w)
    <3>1. queue # << >> /\ queue' = Tail(queue) /\ UNCHANGED <<TP!caller, TP!args>>
      BY <2>1 DEF TP!RunInput, TP!SkipInput, TP!TakeComplete, TP!OrphanGets, TP!Takes
    <3> QED BY <2>1, <3>1, TakingImplements
  <2>2. CASE \/ TP!TaskReturns(w) \/ TP!TaskRaises(w) \/ TP!Die(w)
             \/ \E raises \in BOOLEAN : TP!OnExit(w, raises)
    BY <2>2, WorkingImplements
  <2> QED BY <1>7, <2>1, <2>2 DEF TP!WorkerStep
<1> QED BY <1>1, <1>2, <1>3, <1>4, <1>5, <1>6, <1>7 DEF TP!Next, TP!CallerStep

\* Every input is run at most once, and a call that returns has run them all: the pool
\* implements Pool (BackgroundTaskRunner, RunTasksInProcessPool).
THEOREM Implementation ==
  ASSUME TP!TaskPoolAssumption
  PROVE  TP!Spec => TP!ImplementsPool
<1>1. TP!Init => TP!P!Init
  <2>1. ASSUME TP!Init PROVE TP!Status = [i \in TP!Input |-> "new"] /\ PoolResult = "none"
    <3>1. Done = {} /\ TP!Members(queue) = {} /\ fed = 0 /\ \A i \in TP!Input : i > fed /\ i \in Nat
      BY <2>1 DEF TP!Init, Done, TP!Members, TP!Input
    <3>2. \A i \in TP!Input : TP!Status[i] = "new"
      BY <2>1, <3>1, InitPoolInv, StatusOf
    <3> QED BY <2>1, <3>2 DEF TP!Init, TP!Status, PoolResult
  <2> QED BY <2>1 DEF TP!P!Init, PoolResult
<1>2. PoolInv /\ PoolInv' /\ [TP!Next]_TP!vars => [TP!P!Next]_TP!P!vars
  BY NextImplements
<1> QED BY <1>1, <1>2, PoolInvariance, PTL DEF TP!Spec, TP!ImplementsPool, TP!P!Spec

=============================================================================
