------------------------------ MODULE TaskPool ------------------------------
(***************************************************************************)
(* lib/parallel.py: BackgroundTaskRunner, the TaskRunner loop of its        *)
(* workers, and RunTasksInProcessPool on top of it.                         *)
(*                                                                          *)
(* The caller puts inputs on a queue all the workers read, and one          *)
(* _AllTasksComplete for each of them at the end.  ParallelTasks            *)
(* (ParallelTasks.tla) starts the workers, waits for them in order and      *)
(* kills those that are left; here a worker may die at any moment.          *)
(***************************************************************************)
EXTENDS Naturals, Sequences

CONSTANTS NumInputs, NumWorkers

ASSUME TaskPoolAssumption == NumInputs \in Nat /\ NumWorkers \in Nat \ {0}

Input  == 1 .. NumInputs
Worker == 1 .. NumWorkers
AllTasksComplete == 0       \* no input
Nothing == 0                \* no job

VARIABLES
  halt_on_error, collects,  \* the arguments, and whether RunTasksInProcessPool calls
  pool,                     \* what the caller is doing
  queue,                    \* of inputs and AllTasksComplete
  fed, closed,              \* how many of each the caller has put
  worker, job, errors,      \* what each worker does, its input, whether a task failed
  out_queue,                \* the inputs whose results have been put
  results,                  \* those RunTasksInProcessPool has got
  waited,                   \* the workers ParallelTasks has waited for
  foreground, background    \* the caller's body raised; a worker failed

workers == <<worker, job, errors>>
caller  == <<pool, fed, closed, waited, foreground, background, results>>
args    == <<halt_on_error, collects>>
vars    == <<args, caller, queue, workers, out_queue>>

Init ==
  /\ halt_on_error \in BOOLEAN
  /\ collects \in BOOLEAN /\ (collects => ~halt_on_error)
  /\ pool = "feeding"
  /\ queue = <<>>
  /\ fed = 0 /\ closed = 0
  /\ worker = [w \in Worker |-> "getting"]
  /\ job = [w \in Worker |-> Nothing]
  /\ errors = [w \in Worker |-> FALSE]
  /\ out_queue = <<>> /\ results = {}
  /\ waited = 0
  /\ foreground = FALSE /\ background = FALSE

-----------------------------------------------------------------------------
(* The caller: the body of the `with', and its `finally'.                   *)

CallerGoes(from, to) == pool = from /\ pool' = to

PutInput ==
  /\ pool = "feeding" /\ fed < NumInputs
  /\ queue' = Append(queue, fed + 1)
  /\ fed' = fed + 1
  /\ UNCHANGED <<args, pool, closed, waited, foreground, background, results, workers, out_queue>>

BodyEnds(raises) ==
  /\ raises \/ fed = NumInputs
  /\ CallerGoes("feeding", "closing")
  /\ foreground' = raises
  /\ UNCHANGED <<args, queue, fed, closed, waited, background, results, workers, out_queue>>

\* Mutant: the workers share one AllTasksComplete.
PutOneComplete ==
  /\ CallerGoes("closing", "waiting")
  /\ queue' = Append(queue, AllTasksComplete)
  /\ closed' = NumWorkers
  /\ UNCHANGED <<args, fed, waited, foreground, background, results, workers, out_queue>>

\* One AllTasksComplete for each worker.
PutComplete ==
  /\ CallerGoes("closing", IF closed + 1 < NumWorkers THEN "closing" ELSE "waiting")
  /\ queue' = Append(queue, AllTasksComplete)
  /\ closed' = closed + 1
  /\ UNCHANGED <<args, fed, waited, foreground, background, results, workers, out_queue>>

-----------------------------------------------------------------------------
(* A worker: TaskRunner.                                                    *)

WorkerGoes(w, from, to) == worker[w] = from /\ worker' = [worker EXCEPT ![w] = to]

Takes(w) == worker[w] = "getting" /\ queue # <<>> /\ queue' = Tail(queue)

RunInput(w) ==
  /\ Takes(w) /\ Head(queue) \in Input /\ ~errors[w]
  /\ WorkerGoes(w, "getting", "running")
  /\ job' = [job EXCEPT ![w] = Head(queue)]
  /\ UNCHANGED <<args, caller, errors, out_queue>>

\* After a failure the worker empties the queue, running nothing.
SkipInput(w) ==
  /\ Takes(w) /\ Head(queue) \in Input /\ errors[w]
  /\ UNCHANGED <<args, caller, workers, out_queue>>

TakeComplete(w) ==
  /\ Takes(w) /\ Head(queue) = AllTasksComplete
  /\ WorkerGoes(w, "getting", "onexit")
  /\ UNCHANGED <<args, caller, job, errors, out_queue>>

TaskReturns(w) ==
  /\ WorkerGoes(w, "running", "getting")
  /\ out_queue' = Append(out_queue, job[w])
  /\ job' = [job EXCEPT ![w] = Nothing]
  /\ UNCHANGED <<args, caller, queue, errors>>

TaskRaises(w) ==
  /\ WorkerGoes(w, "running", "getting")
  /\ errors' = [errors EXCEPT ![w] = TRUE]
  /\ job' = [job EXCEPT ![w] = Nothing]
  /\ UNCHANGED <<args, caller, queue, out_queue>>

\* onexit() runs, and may raise itself, whatever became of the tasks.
OnExit(w, raises) ==
  /\ WorkerGoes(w, "onexit", IF errors[w] \/ raises THEN "failed" ELSE "ok")
  /\ UNCHANGED <<args, caller, queue, job, errors, out_queue>>

\* The process dies, or the parent finds it silent or hung and kills it.  A get()
\* it is blocked in goes on in the manager's thread.
Die(w) ==
  /\ worker[w] \notin {"orphan", "dead"} /\ w > waited /\ pool # "raised"
  /\ worker' = [worker EXCEPT ![w] = IF worker[w] = "getting" THEN "orphan" ELSE "dead"]
  /\ job' = [job EXCEPT ![w] = Nothing]
  /\ UNCHANGED <<args, caller, queue, errors, out_queue>>

\* The manager takes what is next on the queue for the dead worker: it is lost.
OrphanGets(w) ==
  /\ queue # <<>> /\ queue' = Tail(queue)
  /\ WorkerGoes(w, "orphan", "dead")
  /\ UNCHANGED <<args, caller, job, errors, out_queue>>

-----------------------------------------------------------------------------
(* The caller again: the exit of ParallelTasks, and the results.            *)

Dead(w)  == worker[w] \in {"orphan", "dead"}
Ended(w) == Dead(w) \/ worker[w] \in {"ok", "failed"}

\* The wait for the next worker is over; the verdict on it is its exit, or that
\* it died.
WaitNext ==
  LET w == waited + 1
      fails == worker[w] # "ok"
  IN  /\ pool = "waiting" /\ ~(halt_on_error /\ foreground)
      /\ w \in Worker /\ Ended(w)
      /\ waited' = w
      /\ background' = (background \/ fails)
      /\ pool' = IF halt_on_error /\ fails THEN "killing" ELSE pool
      /\ UNCHANGED <<args, queue, fed, closed, foreground, results, workers, out_queue>>

\* A foreground exception halts the workers at once.
Halt ==
  /\ halt_on_error /\ foreground
  /\ CallerGoes("waiting", "killing")
  /\ UNCHANGED <<args, queue, fed, closed, waited, foreground, background, results, workers, out_queue>>

AllEnded == IF pool = "waiting" THEN waited = NumWorkers
            ELSE pool = "killing" /\ \A w \in Worker : w > waited => Ended(w)

\* Mutant: the exceptions of the workers are not raised again.
LeaveQuietly ==
  /\ AllEnded
  /\ pool' = IF foreground THEN "raised" ELSE IF collects THEN "collecting" ELSE "returned"
  /\ UNCHANGED <<args, queue, fed, closed, waited, foreground, background, results, workers, out_queue>>

Leave ==
  /\ AllEnded
  /\ pool' = IF foreground \/ background THEN "raised"
             ELSE IF collects THEN "collecting" ELSE "returned"
  /\ UNCHANGED <<args, queue, fed, closed, waited, foreground, background, results, workers, out_queue>>

\* "sorted(out_queue.get() for _ in range(len(inputs)))"
Collect ==
  /\ pool = "collecting" /\ out_queue # <<>>
  /\ results' = results \cup {Head(out_queue)}
  /\ out_queue' = Tail(out_queue)
  /\ UNCHANGED <<args, pool, queue, fed, closed, waited, foreground, background, workers>>

CollectsAll ==
  /\ results = Input
  /\ CallerGoes("collecting", "returned")
  /\ UNCHANGED <<args, queue, fed, closed, waited, foreground, background, results, workers, out_queue>>

WorkerStep(w) ==
  \/ RunInput(w) \/ SkipInput(w) \/ TakeComplete(w) \/ TaskReturns(w) \/ TaskRaises(w)
  \/ \E raises \in BOOLEAN : OnExit(w, raises)

CallerStep ==
  \/ PutInput \/ (\E raises \in BOOLEAN : BodyEnds(raises)) \/ PutComplete
  \/ WaitNext \/ Halt \/ Leave \/ Collect \/ CollectsAll

Next == CallerStep \/ \E w \in Worker : WorkerStep(w) \/ Die(w) \/ OrphanGets(w)

Spec == Init /\ [][Next]_vars

\* The body and the tasks end, a task that is stuck being killed for its silence;
\* and a process that is killed dies.
LiveSpec ==
  /\ Spec
  /\ WF_vars(CallerStep)
  /\ \A w \in Worker : WF_vars(WorkerStep(w)) /\ WF_vars(pool = "killing" /\ Die(w))

-----------------------------------------------------------------------------
TypeOK ==
  /\ halt_on_error \in BOOLEAN /\ collects \in BOOLEAN
  /\ pool \in {"feeding", "closing", "waiting", "killing", "collecting", "returned", "raised"}
  /\ queue \in Seq(Input \cup {AllTasksComplete})
  /\ fed \in 0 .. NumInputs /\ closed \in 0 .. NumWorkers
  /\ worker \in [Worker -> {"getting", "running", "onexit", "ok", "failed", "orphan", "dead"}]
  /\ job \in [Worker -> Input \cup {Nothing}]
  /\ errors \in [Worker -> BOOLEAN]
  /\ out_queue \in Seq(Input) /\ results \subseteq Input
  /\ waited \in 0 .. NumWorkers
  /\ foreground \in BOOLEAN /\ background \in BOOLEAN

Members(s) == {s[k] : k \in DOMAIN s}

\* The caller leaves: no worker waits for an AllTasksComplete another one took,
\* and RunTasksInProcessPool for no result that was never put.
CallerLeaves == <>(pool \in {"returned", "raised"})

Status == [i \in Input |->
  CASE i \in Members(out_queue) \cup results -> "done"
    [] i > fed                               -> "new"
    [] i \in Members(queue)                  -> "put"
    [] \E w \in Worker : job[w] = i          -> "run"
    [] OTHER                                 -> "lost"]

\* Every input is run at most once, and a call that returns has run them all.
P == INSTANCE Pool WITH status <- Status,
                        result <- IF pool \in {"returned", "raised"} THEN pool ELSE "none"
ImplementsPool == P!Spec
=============================================================================
