---------------------------- MODULE ParallelTasks ----------------------------
(***************************************************************************)
(* lib/parallel.py: ParallelTasks and the _BackgroundTask processes it     *)
(* starts, waits for and kills.                                            *)
(*                                                                         *)
(* The parent starts every step in a process of its own, runs the body of  *)
(* the `with' statement, and then collects the children in order.  A child *)
(* may succeed, fail, die, hang or fall silent, at any moment.             *)
(***************************************************************************)
EXTENDS Naturals, FiniteSets

CONSTANTS NumSteps,   \* len(steps)
          Limits,     \* the max_parallel arguments tried; 0 stands for None
          Halts       \* the halt_on_error arguments tried

ASSUME ParallelTasksAssumption ==
  NumSteps \in Nat \ {0} /\ Limits \subseteq Nat /\ Halts \subseteq BOOLEAN

Task == 1 .. NumSteps

VARIABLES max_parallel, halt_on_error,  \* the arguments of the call
          child,      \* what each child is doing
          outcome,    \* how its step ended, once it did
          queue,      \* what it has put on its queue, or "empty"
          killing,    \* its _killing event
          semaphore,  \* the permits left
          pc,         \* what the parent is doing
          current,    \* the task the parent waits for
          running,    \* the parent's last look at whether it is alive
          verdict,    \* what Wait() found out about each task
          foreground, \* the body of the `with' raised
          targets, sig, \* whom _KillChildren has still to wait for; its signal
          signalled,  \* and whom it has sent that signal
          result      \* how ParallelTasks was left

args    == <<max_parallel, halt_on_error>>
kills   == <<targets, sig, signalled>>
waiting == <<current, running, verdict>>
vars    == <<args, child, outcome, queue, killing, semaphore, pc, waiting,
             foreground, kills, result>>

ChildState == {"unborn", "acquiring", "running", "reporting", "releasing", "exiting", "exited"}
ParentPC   == {"launch", "body", "startup", "look", "poll", "join", "next", "kill", "killwait",
               "finish", "left"}
Verdict    == {"none", "ok", "fail", "exited unexpectedly", "hung", "silent"}

Init ==
  /\ max_parallel \in Limits
  /\ halt_on_error \in Halts
  /\ child = [t \in Task |-> "unborn"]
  /\ outcome = [t \in Task |-> "none"]
  /\ queue = [t \in Task |-> "empty"]
  /\ killing = [t \in Task |-> FALSE]
  /\ semaphore = max_parallel
  /\ pc = "launch"
  /\ current = 1
  /\ running = TRUE
  /\ verdict = [t \in Task |-> "none"]
  /\ foreground = FALSE
  /\ targets = {} /\ sig = "SIGXCPU" /\ signalled = {}
  /\ result = "none"

Limited    == max_parallel # 0
Started(t) == child[t] \notin {"unborn", "acquiring"}

-----------------------------------------------------------------------------
(* A child: run() and _Run().                                               *)

ChildGoes(t, from, to) == child[t] = from /\ child' = [child EXCEPT ![t] = to]

\* Mutant: the semaphore is tested and not taken.
AcquireLooksOnly(t) ==
  /\ ChildGoes(t, "acquiring", "running")
  /\ Limited => semaphore > 0
  /\ UNCHANGED <<args, outcome, queue, killing, semaphore, pc, waiting, foreground, kills, result>>

\* The child gets the semaphore, if there is one, and only then sets _started.
Acquire(t) ==
  /\ ChildGoes(t, "acquiring", "running")
  /\ Limited => semaphore > 0
  /\ semaphore' = IF Limited THEN semaphore - 1 ELSE semaphore
  /\ UNCHANGED <<args, outcome, queue, killing, pc, waiting, foreground, kills, result>>

\* The step returns or raises; run() goes on with its `finally'.
StepEnds(t, how) ==
  /\ ChildGoes(t, "running", "reporting")
  /\ outcome' = [outcome EXCEPT ![t] = how]
  /\ UNCHANGED <<args, queue, killing, semaphore, pc, waiting, foreground, kills, result>>

\* The process dies under its step and runs no `finally'.
Die(t) ==
  /\ ChildGoes(t, "running", "exited")
  /\ UNCHANGED <<args, outcome, queue, killing, semaphore, pc, waiting, foreground, kills, result>>

Report(t) ==
  /\ ~killing[t] /\ pc # "left"
  /\ ChildGoes(t, "reporting", "releasing")
  /\ queue' = [queue EXCEPT ![t] = outcome[t]]
  /\ UNCHANGED <<args, outcome, killing, semaphore, pc, waiting, foreground, kills, result>>

\* A child that is being killed reports nothing and keeps its permit.  Nor can
\* it report once the parent has left: the manager with the queue is gone.
ReportNothing(t) ==
  /\ killing[t] \/ pc = "left"
  /\ ChildGoes(t, "reporting", "exiting")
  /\ UNCHANGED <<args, outcome, queue, killing, semaphore, pc, waiting, foreground, kills, result>>

Release(t) ==
  /\ ChildGoes(t, "releasing", "exiting")
  /\ semaphore' = IF Limited THEN semaphore + 1 ELSE semaphore
  /\ UNCHANGED <<args, outcome, queue, killing, pc, waiting, foreground, kills, result>>

Exit(t) ==
  /\ ChildGoes(t, "exiting", "exited")
  /\ UNCHANGED <<args, outcome, queue, killing, semaphore, pc, waiting, foreground, kills, result>>

ChildStep(t) ==
  \/ Acquire(t) \/ (\E how \in {"ok", "fail"} : StepEnds(t, how)) \/ Die(t)
  \/ Report(t) \/ ReportNothing(t) \/ Release(t) \/ Exit(t)

-----------------------------------------------------------------------------
(* The parent: launching the children, and the body of the `with'.          *)

children == <<outcome, queue, semaphore>>

StartKilling(T) ==
  /\ targets' = T
  /\ signalled' = {}
  /\ sig' = "SIGXCPU"
  /\ pc' = IF T = {} THEN "finish" ELSE "kill"

Launch(t) ==
  /\ pc = "launch"
  /\ \A u \in Task : u < t <=> child[u] # "unborn"
  /\ child' = [child EXCEPT ![t] = "acquiring"]
  /\ pc' = IF t = NumSteps THEN "body" ELSE "launch"
  /\ UNCHANGED <<args, children, killing, waiting, foreground, kills, result>>

BodyEnds ==
  /\ pc = "body"
  /\ pc' = "startup"
  /\ UNCHANGED <<args, child, children, killing, waiting, foreground, kills, result>>

\* With halt_on_error the children are not waited for, but killed.
BodyRaises ==
  /\ pc = "body"
  /\ foreground' = TRUE
  /\ IF halt_on_error
       THEN StartKilling(Task)
       ELSE pc' = "startup" /\ UNCHANGED kills
  /\ UNCHANGED <<args, child, children, killing, waiting, result>>

-----------------------------------------------------------------------------
(* Wait() for the current task.                                             *)

ParentGoes(from, to) == pc = from /\ pc' = to
Found(what) == verdict' = [verdict EXCEPT ![current] = what]

StartedUp ==
  /\ ParentGoes("startup", "look")
  /\ Started(current)
  /\ UNCHANGED <<args, child, children, killing, waiting, foreground, kills, result>>

\* _KillChildren signals its tasks in order.
UpForKilling(t) ==
  /\ pc = "kill"
  /\ t \in targets \ signalled
  /\ \A u \in targets \ signalled : t <= u

\* _WaitForStartup gives a child five minutes: enough to start, but not to wait
\* for a permit others keep.  The AssertionError leaves ParallelTasks at once.
NeverStarts(t) == child[t] = "acquiring" /\ Limited /\ semaphore = 0

AssertionFails ==
  /\ \/ pc = "startup" /\ NeverStarts(current)
     \/ \E t \in targets : UpForKilling(t) /\ killing[t] /\ NeverStarts(t)
  /\ pc' = "left"
  /\ result' = "AssertionError"
  /\ UNCHANGED <<args, child, children, killing, waiting, foreground, kills>>

\* The parent looks whether the child is alive, and then at its queue.
Look ==
  /\ ParentGoes("look", "poll")
  /\ running' = (child[current] # "exited")
  /\ UNCHANGED <<args, child, children, killing, current, verdict, foreground, kills, result>>

GetResult ==
  /\ queue[current] # "empty"
  /\ ParentGoes("poll", "join")
  /\ Found(queue[current])
  /\ UNCHANGED <<args, child, children, killing, current, running, foreground, kills, result>>

GetNothing ==
  /\ queue[current] = "empty"
  /\ running
  /\ ParentGoes("poll", "look")
  /\ UNCHANGED <<args, child, children, killing, waiting, foreground, kills, result>>

\* Mutant: the queue of a child that has exited is not looked at again.
ExitedUnchecked ==
  /\ ~running
  /\ ParentGoes("poll", "next")
  /\ Found("exited unexpectedly")
  /\ UNCHANGED <<args, child, children, killing, current, running, foreground, kills, result>>

ExitedUnexpectedly ==
  /\ queue[current] = "empty"
  /\ ~running
  /\ ParentGoes("poll", "next")
  /\ Found("exited unexpectedly")
  /\ UNCHANGED <<args, child, children, killing, current, running, foreground, kills, result>>

\* No output for SILENT_TIMEOUT.
Silent ==
  /\ queue[current] = "empty"
  /\ running
  /\ pc = "poll"
  /\ Found("silent")
  /\ StartKilling({current})
  /\ UNCHANGED <<args, child, children, killing, current, running, foreground, result>>

Joined ==
  /\ ParentGoes("join", "next")
  /\ child[current] = "exited"
  /\ UNCHANGED <<args, child, children, killing, waiting, foreground, kills, result>>

\* Mutant: join() has no timeout.
JoinsForever == FALSE

\* The child reported but does not exit for EXIT_TIMEOUT.
Hung ==
  /\ pc = "join"
  /\ child[current] # "exited"
  /\ Found("hung")
  /\ StartKilling({current})
  /\ UNCHANGED <<args, child, children, killing, current, running, foreground, result>>

\* Wait() has returned: halt, go on with the next task, or finish.
NextTask ==
  /\ pc = "next"
  /\ IF verdict[current] # "ok" /\ halt_on_error
       THEN StartKilling({t \in Task : t > current}) /\ UNCHANGED current
       ELSE IF current = NumSteps
              THEN pc' = "finish" /\ UNCHANGED <<current, kills>>
              ELSE pc' = "startup" /\ current' = current + 1 /\ UNCHANGED kills
  /\ UNCHANGED <<args, child, children, killing, running, verdict, foreground, result>>

-----------------------------------------------------------------------------
(* _KillChildren.                                                           *)

\* Kill() sets _killing, waits until the child has started...
MarkKilling(t) ==
  /\ UpForKilling(t)
  /\ ~killing[t]
  /\ killing' = [killing EXCEPT ![t] = TRUE]
  /\ UNCHANGED <<args, child, children, pc, waiting, foreground, kills, result>>

\* ... and sends the signal.  The child survives SIGXCPU, which prints its
\* stack, and perhaps SIGTERM.
Kill(t) ==
  /\ UpForKilling(t)
  /\ killing[t] /\ Started(t)
  /\ signalled' = signalled \cup {t}
  /\ child' \in {[child EXCEPT ![t] = s] :
                   s \in CASE sig = "SIGXCPU" -> {child[t]}
                           [] sig = "SIGTERM" -> {child[t], "exited"}
                           [] sig = "SIGKILL" -> {"exited"}}
  /\ pc' = IF signalled' = targets THEN "killwait" ELSE "kill"
  /\ UNCHANGED <<args, children, killing, waiting, foreground, targets, sig, result>>

AfterKilling == IF verdict[current] \in {"silent", "hung"} /\ targets = {current}
                  THEN "next" ELSE "finish"

AllDead ==
  /\ pc = "killwait"
  /\ \A t \in targets : child[t] = "exited"
  /\ pc' = AfterKilling
  /\ targets' = {} /\ signalled' = {}
  /\ UNCHANGED <<args, child, children, killing, waiting, foreground, sig, result>>

\* Mutant: after SIGTERM the children are left alone.
NoSigkill ==
  /\ pc = "killwait"
  /\ \E t \in targets : child[t] # "exited"
  /\ signalled' = {}
  /\ IF sig = "SIGXCPU"
       THEN sig' = "SIGTERM" /\ pc' = "kill" /\ UNCHANGED targets
       ELSE targets' = {} /\ pc' = AfterKilling /\ UNCHANGED sig
  /\ UNCHANGED <<args, child, children, killing, waiting, foreground, result>>

\* SIGTERM_TIMEOUT or SIGKILL_TIMEOUT is over: the next signal for all.
NextSignal ==
  /\ pc = "killwait"
  /\ \E t \in targets : child[t] # "exited"
  /\ signalled' = {}
  /\ sig' = IF sig = "SIGXCPU" THEN "SIGTERM" ELSE "SIGKILL"
  /\ pc' = "kill"
  /\ UNCHANGED <<args, child, children, killing, waiting, foreground, targets, result>>

-----------------------------------------------------------------------------
Failed == \E t \in Task : verdict[t] \notin {"none", "ok"}

\* Mutant: a failed step takes precedence over the foreground exception.
FinishBackgroundFirst ==
  /\ ParentGoes("finish", "left")
  /\ result' = CASE Failed -> "BackgroundFailure"
                 [] ~Failed /\ foreground -> "foreground"
                 [] OTHER -> "returned"
  /\ UNCHANGED <<args, child, children, killing, waiting, foreground, kills>>

Finish ==
  /\ ParentGoes("finish", "left")
  /\ result' = CASE foreground -> "foreground"
                 [] ~foreground /\ Failed -> "BackgroundFailure"
                 [] OTHER -> "returned"
  /\ UNCHANGED <<args, child, children, killing, waiting, foreground, kills>>

ParentStep ==
  \/ \E t \in Task : Launch(t) \/ MarkKilling(t) \/ Kill(t)
  \/ BodyEnds \/ BodyRaises \/ StartedUp \/ AssertionFails \/ Look
  \/ GetResult \/ GetNothing \/ ExitedUnexpectedly \/ Silent \/ Joined \/ Hung \/ NextTask
  \/ AllDead \/ NextSignal \/ Finish

Next == ParentStep \/ \E t \in Task : ChildStep(t)

Spec == Init /\ [][Next]_vars

\* The parent moves when it can, and so does a child outside its step, which
\* need not ever end, and its exit.  SILENT_TIMEOUT counts on through the
\* parent's looks, so that it elapses even though each look interrupts it.
LiveSpec ==
  /\ Spec
  /\ WF_vars(ParentStep) /\ SF_vars(Silent)
  /\ \A t \in Task : WF_vars(Acquire(t)) /\ WF_vars(Report(t)) /\ WF_vars(ReportNothing(t))
                     /\ WF_vars(Release(t))

-----------------------------------------------------------------------------
TypeOK ==
  /\ max_parallel \in Limits /\ halt_on_error \in Halts
  /\ child \in [Task -> ChildState]
  /\ outcome \in [Task -> {"none", "ok", "fail"}]
  /\ queue \in [Task -> {"empty", "ok", "fail"}]
  /\ killing \in [Task -> BOOLEAN]
  /\ semaphore \in 0 .. max_parallel
  /\ pc \in ParentPC
  /\ current \in Task /\ running \in BOOLEAN
  /\ verdict \in [Task -> Verdict]
  /\ foreground \in BOOLEAN
  /\ targets \in SUBSET Task /\ signalled \in SUBSET targets
  /\ sig \in {"SIGXCPU", "SIGTERM", "SIGKILL"}
  /\ result \in {"none", "returned", "foreground", "BackgroundFailure", "AssertionError"}

\* "max_parallel: The maximum number of simultaneous tasks" (line 631): whatever
\* dies, is killed or gives its permit back, no more steps run at once.
AtMostMaxParallel ==
  Limited => Cardinality({t \in Task : child[t] = "running"}) <= max_parallel

\* Wait() believes what a child reported, however late, and calls an exit
\* unexpected only when there is no report: it looks at the queue once more
\* after it has seen the child dead (lines 387-431).
VerdictsAreRight ==
  \A t \in Task :
    /\ verdict[t] \in {"ok", "fail"} => outcome[t] = verdict[t]
    /\ verdict[t] = "exited unexpectedly" => queue[t] = "empty"

\* The body's exception takes precedence; a plain return means that every step
\* succeeded and that none was killed (lines 671-680).
ResultIsRight ==
  /\ result = "returned" => ~foreground /\ \A t \in Task : outcome[t] = "ok" /\ ~killing[t]
  /\ result = "BackgroundFailure" => ~foreground /\ Failed
  /\ foreground /\ pc = "left" => result \in {"foreground", "AssertionError"}

\* Unless an assertion fails, no child outlives the call (lines 655-669).
NobodyLeftBehind ==
  pc = "left" /\ result # "AssertionError" => \A t \in Task : child[t] = "exited"

\* Hanging, silent, dying and halted children all end in the parent leaving.
ParentLeaves == <>(pc = "left")

\* RunParallelSteps (line 743): "This function blocks until all steps are completed."
BlocksUntilCompleted == pc = "left" => \A t \in Task : child[t] \notin {"acquiring", "running"}
=============================================================================
