-------------------------------- MODULE Build --------------------------------
(***************************************************************************)
(* cbuildbot: the runs of a build on one build root, after one another.     *)
(*                                                                          *)
(* A builder runs its stages in order; for each board it kicks off a        *)
(* background worker that builds the image and then runs two stages in      *)
(* children of its own.  Each process records its results in a log of its   *)
(* own: a child starts with an empty one and hands it to its parent when it *)
(* ends, unless it dies.  At the end the builder writes a checkpoint from   *)
(* its log, from which a later run may resume, and its verdict.             *)
(*                                                                          *)
(* cbuildbot/builders/generic_builders.py, simple_builders.py,              *)
(* cbuildbot/stages/generic_stages.py, lib/results_lib.py.  ParallelTasks   *)
(* and TaskPool show what is used of lib/parallel.py here.                  *)
(***************************************************************************)
EXTENDS Naturals, Sequences

CONSTANTS NumBoards,    \* the most boards a build has
          Options,      \* the sets of stages the options may turn off
          Forgiving,    \* the stages that are ForgivingBuilderStages
          Bounds        \* bounds of a behaviour: its boards, runs and processes killed

Board == 1 .. NumBoards
Sync == <<"Sync", 0>>
Setup == <<"Setup", 0>>
Packages(b) == <<"BuildPackages", b>>
Image(b) == <<"BuildImage", b>>
UnitTest(b) == <<"UnitTest", b>>
Upload(b) == <<"UploadTestArtifacts", b>>
Early(b) == {UnitTest(b), Upload(b)}
Completion == <<"Completion", 0>>
Publish == <<"PublishUprevChanges", 0>>
Report == <<"Report", 0>>

BuildStage(n) ==
  {Sync, Setup} \cup UNION {{Packages(b), Image(b)} \cup Early(b) : b \in 1 .. n}
Stage == BuildStage(NumBoards) \cup {Completion, Publish, Report}

ASSUME BuildAssumption ==
  /\ NumBoards \in Nat \ {0}
  /\ Bounds \subseteq [boards : Board, runs : Nat, kills : Nat]
  /\ Options \subseteq SUBSET Stage /\ Forgiving \subseteq Stage \ {Sync}

VARIABLES
  bound,        \* the bounds of this behaviour
  checkpoint,   \* the stages in .completed_stages
  pc,           \* where the builder is
  resume, skip, \* options of the run
  previous,     \* the stages it takes for completed
  board,        \* the next board
  log,          \* _results_log of the builder
  exc,          \* the exception on its way up
  verdict,      \* how the last run ended
  published,    \* ghost: uprevs were pushed as those of a good build
  worker,       \* what the background process of each board is doing
  blog,         \* its log
  bexc,         \* did it raise?
  leaf,         \* its children: running, dead, or what they recorded
  done,         \* ghost: performed with success since the last run from scratch
  redone,       \* ghost: a stage was performed that was completed before
  fresh, stale, \* ghost: the checkpoint is older than a run from scratch; was loaded
  runs, kills

inputs == <<bound, resume, skip, previous>>
builder == <<board, log, exc, verdict, published>>
workers == <<worker, blog, bexc, leaf>>
ghosts == <<done, redone, fresh, stale>>
vars == <<checkpoint, pc, inputs, builder, workers, ghosts, runs, kills>>

Leaves == UNION {Early(b) : b \in Board}

Init ==
  /\ bound \in Bounds
  /\ checkpoint = {} /\ pc = "idle"
  /\ resume = FALSE /\ skip \in Options /\ previous = {}
  /\ board = 1 /\ log = << >> /\ exc = "none" /\ verdict = "none" /\ published = FALSE
  /\ worker = [b \in Board |-> "off"] /\ blog = [b \in Board |-> << >>]
  /\ bexc = [b \in Board |-> FALSE]
  /\ leaf = [s \in Leaves |-> "off"]
  /\ done = {} /\ redone = FALSE /\ fresh = FALSE /\ stale = FALSE
  /\ runs = 0 /\ kills = 0

Goes(from, to) == pc = from /\ pc' = to

-----------------------------------------------------------------------------
(* results_lib.                                                             *)

NonFailure == {"SUCCESS", "FORGIVEN", "SKIPPED"}

BuildSucceededSoFar(l) == \A i \in DOMAIN l : l[i][2] \in NonFailure

\* Mutant: stages that failed are left out and those after them are kept.
CompletedAny(l) == {l[i][1] : i \in DOMAIN l}

\* SaveCompletedStages: up to the first that is no success.
Completed(l) ==
  {l[i][1] : i \in {j \in DOMAIN l : \A k \in 1 .. j : l[k][2] = "SUCCESS"}}

-----------------------------------------------------------------------------
(* BuilderStage.Run of stage s where prev are the stages processed before:  *)
(* what it records, what it raises and whether PerformStage did its work.   *)

Outcome(result, raises, works) == [result |-> result, raises |-> raises, works |-> works]

Fails(s) == IF s \in Forgiving THEN Outcome("FORGIVEN", "none", FALSE)
            ELSE Outcome("failed", "step", FALSE)

Outcomes(s, prev) ==
  IF s \in skip THEN {Outcome("SKIPPED", "none", FALSE)}
  ELSE IF s \in prev THEN {Outcome("SUCCESS", "none", FALSE)}
  ELSE {Outcome("SUCCESS", "none", TRUE), Fails(s)} \cup
       \* It found no work to do, or called sys.exit(0).
       (IF s = Sync THEN {Outcome("SUCCESS", "early", TRUE), Outcome("None", "exit", FALSE)}
        ELSE {}) \cup
       \* WaitUntilReady is false.
       (IF s[1] = "UnitTest" THEN {Outcome("SKIPPED", "none", FALSE)} ELSE {})

Works(s, o) == /\ done' = IF o.works THEN done \cup {s} ELSE done
               /\ redone' = (redone \/ (o.works /\ s \in previous))
               /\ UNCHANGED <<fresh, stale>>

\* The builder runs a stage.
RunStage(s, o) == /\ o \in Outcomes(s, previous)
                  /\ log' = Append(log, <<s, o.result>>)
                  /\ Works(s, o)

-----------------------------------------------------------------------------
(* Builder.Run.                                                             *)

ResetBuilder ==
  board' = 1 /\ log' = << >> /\ exc' = "none" /\ verdict' = "none" /\ published' = FALSE

NoWorkers ==
  /\ worker' = [b \in Board |-> "off"] /\ blog' = [b \in Board |-> << >>]
  /\ bexc' = [b \in Board |-> FALSE]
  /\ leaf' = [s \in Leaves |-> "off"]

\* cbuildbot is called, with --resume or without; Initialize loads the checkpoint.
Start(res) ==
  /\ runs < bound.runs /\ runs' = runs + 1
  /\ Goes("idle", "sync")
  /\ ResetBuilder
  /\ resume' = res /\ UNCHANGED <<bound, skip>>
  /\ previous' = IF res THEN checkpoint ELSE {}
  /\ done' = IF res THEN done ELSE {}
  /\ stale' = IF res THEN stale \/ fresh ELSE FALSE
  /\ fresh' = IF res THEN fresh ELSE TRUE
  /\ UNCHANGED <<checkpoint, workers, redone, kills>>

SyncStage ==
  /\ pc = "sync"
  /\ \E o \in Outcomes(Sync, previous) :
       /\ RunStage(Sync, o)
       /\ exc' = o.raises
       /\ \/ o.raises = "none" /\ pc' = "setup"
          \/ o.raises = "none" /\ ~resume /\ pc' = "reexecute"
          \/ o.raises # "none" /\ pc' = "report"
  /\ UNCHANGED <<checkpoint, inputs, board, verdict, published, workers, runs, kills>>

WriteCheckpoint ==
  /\ checkpoint' = Completed(log)
  /\ fresh' = FALSE

\* _ReExecuteInBuildroot: another cbuildbot does the rest and this one returns its
\* verdict.
Reexecute ==
  /\ Goes("reexecute", "sync")
  /\ WriteCheckpoint
  /\ ResetBuilder
  /\ resume' = TRUE /\ previous' = checkpoint' /\ UNCHANGED <<bound, skip>>
  /\ UNCHANGED <<workers, done, redone, stale, runs, kills>>

SetupStage ==
  /\ pc = "setup"
  /\ \E o \in Outcomes(Setup, previous) :
       /\ RunStage(Setup, o)
       /\ exc' = o.raises
       /\ pc' = IF o.raises = "none" THEN "packages" ELSE "complete"
  /\ UNCHANGED <<checkpoint, inputs, board, verdict, published, workers, runs, kills>>

\* RunBuildStages: the packages of a board, then its background stages are kicked off.
BuildPackages ==
  /\ pc = "packages" /\ board <= bound.boards
  /\ \E o \in Outcomes(Packages(board), previous) :
       /\ RunStage(Packages(board), o)
       /\ exc' = o.raises
       /\ IF o.raises = "none"
          THEN /\ worker' = [worker EXCEPT ![board] = "queued"]
               /\ board' = board + 1 /\ UNCHANGED pc
          ELSE pc' = "join" /\ UNCHANGED <<worker, board>>
  /\ UNCHANGED <<checkpoint, inputs, verdict, published, blog, bexc, leaf, runs, kills>>

Queued ==
  /\ Goes("packages", "join") /\ board > bound.boards
  /\ UNCHANGED <<checkpoint, inputs, builder, workers, ghosts, runs, kills>>

\* Mutant: a worker that died is not missed.
JoinRaisesReported == \E b \in Board : bexc[b]

\* BackgroundTaskRunner raises for a worker that raised and for one that died.
JoinRaises == \E b \in Board : bexc[b] \/ worker[b] = "dead"

\* A worker that is waited for hands its log over.  Which worker had which board, and so
\* the order of the boards, is open.
HandOver(b) ==
  /\ pc = "join" /\ worker[b] = "ended"
  /\ worker' = [worker EXCEPT ![b] = "waited"]
  /\ log' = log \o blog[b]
  /\ UNCHANGED <<checkpoint, pc, inputs, board, exc, verdict, published, blog, bexc, leaf,
                 ghosts, runs, kills>>

Join ==
  /\ Goes("join", "complete")
  /\ \A b \in Board : worker[b] \in {"off", "waited", "dead"}
  /\ exc' = IF exc = "none" /\ JoinRaises THEN "step" ELSE exc
  /\ NoWorkers
  /\ UNCHANGED <<checkpoint, inputs, board, log, verdict, published, ghosts, runs, kills>>

-----------------------------------------------------------------------------
(* DistributedBuilder: Complete and _Publish, and the end of Builder.Run.   *)

\* Mutant: uprevs are published whatever became of the build.
IsGoodAnyway(completed) == completed

\* The build succeeded, it finished, and so did the completion stage.
IsGood(completed) == exc = "none" /\ BuildSucceededSoFar(log) /\ completed

Complete ==
  /\ Goes("complete", "report")
  /\ \E c \in Outcomes(Completion, previous), p \in Outcomes(Publish, previous) :
       /\ log' = log \o <<<<Completion, c.result>>, <<Publish, p.result>>>>
       /\ exc' = IF p.raises # "none" THEN p.raises
                 ELSE IF c.raises # "none" THEN c.raises ELSE exc
       /\ published' = (p.works /\ IsGood(c.raises = "none"))
       /\ done' = done \cup (IF c.works THEN {Completion} ELSE {})
                       \cup (IF p.works THEN {Publish} ELSE {})
  /\ UNCHANGED <<checkpoint, inputs, board, verdict, workers, redone, fresh, stale, runs, kills>>

\* Builder.Run's handlers: the checkpoint, the report and the verdict.
ReportStage ==
  /\ Goes("report", "idle")
  /\ WriteCheckpoint
  /\ \E o \in Outcomes(Report, {}) :
       /\ log' = Append(log, <<Report, o.result>>)
       /\ verdict' = CASE o.raises # "none" -> "raised"
                       [] exc = "early" -> "early"
                       [] exc = "exit" -> "exit"
                       [] exc = "step" /\ BuildSucceededSoFar(log) -> "raised"
                       [] OTHER -> IF exc = "none" /\ BuildSucceededSoFar(log')
                                   THEN "success" ELSE "failure"
  /\ UNCHANGED <<inputs, board, exc, published, workers, done, redone, stale,
                 runs, kills>>

-----------------------------------------------------------------------------
(* _RunBackgroundStagesForBoard, in a worker.  Its Results are cleared when  *)
(* it starts, the stages of the previous run included.                      *)

RunningNow == pc # "idle"

BuildImage(b) ==
  /\ RunningNow /\ worker[b] = "queued"
  /\ \E o \in Outcomes(Image(b), {}) :
       /\ blog' = [blog EXCEPT ![b] = <<<<Image(b), o.result>>>>]
       /\ Works(Image(b), o)
       /\ bexc' = [bexc EXCEPT ![b] = o.raises # "none"]
       /\ IF o.raises = "none"
          THEN /\ worker' = [worker EXCEPT ![b] = "parallel"]
               /\ leaf' = [s \in Leaves |-> IF s \in Early(b) THEN "running" ELSE leaf[s]]
          ELSE worker' = [worker EXCEPT ![b] = "ended"] /\ UNCHANGED leaf
  /\ UNCHANGED <<checkpoint, pc, inputs, builder, runs, kills>>

\* A worker drops its inputs once it has failed.
Drop(b) ==
  /\ RunningNow /\ worker[b] = "queued"
  /\ \E x \in Board : bexc[x] /\ worker[x] = "ended"
  /\ worker' = [worker EXCEPT ![b] = "ended"]
  /\ UNCHANGED <<checkpoint, pc, inputs, builder, blog, bexc, leaf, ghosts, runs, kills>>

\* A stage in a child of the worker.
RunLeaf(s) ==
  /\ RunningNow /\ leaf[s] = "running"
  /\ \E o \in Outcomes(s, {}) :
       /\ leaf' = [leaf EXCEPT ![s] = o.result]
       /\ Works(s, o)
  /\ UNCHANGED <<checkpoint, pc, inputs, builder, worker, blog, bexc, runs, kills>>

\* Mutant: the worker counts on every child to report.
AllLeftReporting(b) == \A s \in Early(b) : leaf[s] \notin {"running", "dead"}

AllLeft(b) == \A s \in Early(b) : leaf[s] # "running"

LeafResult(s) == <<s, IF leaf[s] = "dead" THEN "failed" ELSE leaf[s]>>

\* _RunParallelStages: the stages that report, in order, then the exception for those that
\* did not.
RunParallelStages(b) ==
  /\ RunningNow /\ worker[b] = "parallel" /\ AllLeft(b)
  /\ blog' = [blog EXCEPT ![b] = @ \o
                IF leaf[UnitTest(b)] = "dead" /\ leaf[Upload(b)] # "dead"
                THEN <<LeafResult(Upload(b)), LeafResult(UnitTest(b))>>
                ELSE <<LeafResult(UnitTest(b)), LeafResult(Upload(b))>>]
  /\ bexc' = [bexc EXCEPT ![b] = \E s \in Early(b) : leaf[s] \in {"dead", "failed"}]
  /\ worker' = [worker EXCEPT ![b] = "ended"]
  /\ UNCHANGED <<checkpoint, pc, inputs, builder, leaf, ghosts, runs, kills>>

-----------------------------------------------------------------------------
(* Processes killed: a stage's, a worker's, the builder's with all others.  *)

KillLeaf(s) ==
  /\ kills < bound.kills /\ kills' = kills + 1
  /\ RunningNow /\ leaf[s] = "running"
  /\ leaf' = [leaf EXCEPT ![s] = "dead"]
  /\ UNCHANGED <<checkpoint, pc, inputs, builder, worker, blog, bexc, ghosts, runs>>

\* With it goes the log of the boards B it has had, up to the one that it is at.
KillWorker(B) ==
  /\ kills < bound.kills /\ kills' = kills + 1
  /\ RunningNow /\ B # {} /\ \A b \in B : worker[b] \in {"queued", "parallel", "ended"}
  /\ \A b, c \in B : b = c \/ "ended" \in {worker[b], worker[c]}
  /\ worker' = [b \in Board |-> IF b \in B THEN "dead" ELSE worker[b]]
  /\ UNCHANGED <<checkpoint, pc, inputs, builder, blog, bexc, leaf, ghosts, runs>>

KillBuilder ==
  /\ kills < bound.kills /\ kills' = kills + 1
  /\ RunningNow /\ pc' = "idle"
  /\ verdict' = "killed" /\ NoWorkers
  /\ UNCHANGED <<checkpoint, inputs, board, log, exc, published, ghosts, runs>>

Main == \/ SyncStage \/ Reexecute \/ SetupStage \/ BuildPackages \/ Queued
        \/ \E b \in Board : HandOver(b)
        \/ Join \/ Complete \/ ReportStage
Worker(b) == BuildImage(b) \/ Drop(b) \/ RunParallelStages(b)
Next == \/ \E r \in BOOLEAN : Start(r)
        \/ Main
        \/ \E b \in Board : Worker(b)
        \/ \E B \in SUBSET Board : KillWorker(B)
        \/ \E s \in Leaves : RunLeaf(s) \/ KillLeaf(s)
        \/ KillBuilder

Spec == Init /\ [][Next]_vars

\* A stage that has begun ends, by the timeouts of its commands and of the build.
LiveSpec == Spec /\ WF_vars(Main) /\ \A b \in Board : WF_vars(Worker(b))
                 /\ \A s \in Leaves : WF_vars(RunLeaf(s))

-----------------------------------------------------------------------------
(* Properties.                                                              *)

Verdict == {"none", "success", "failure", "raised", "early", "exit", "killed"}
Result == NonFailure \cup {"failed", "None"}

\* Types.
TypeOK ==
  /\ bound \in Bounds
  /\ checkpoint \subseteq Stage /\ previous \subseteq Stage /\ skip \subseteq Stage
  /\ pc \in {"idle", "sync", "reexecute", "setup", "packages", "join", "complete", "report"}
  /\ resume \in BOOLEAN /\ board \in 1 .. NumBoards + 1
  /\ log \in Seq(Stage \X Result)
  /\ exc \in {"none", "step", "early", "exit"} /\ verdict \in Verdict
  /\ worker \in [Board -> {"off", "queued", "parallel", "ended", "waited", "dead"}]
  /\ blog \in [Board -> Seq(Stage \X Result)] /\ bexc \in [Board -> BOOLEAN]
  /\ leaf \in [Leaves -> Result \cup {"off", "running", "dead"}]

\* A stage in the log as a success has done its work, in this run or in one it resumes,
\* after the last start from scratch: the checkpoint claims no more than what was done,
\* whatever failed and in whatever order the logs arrived.  The exception is a run from
\* scratch that was killed before it wrote its checkpoint: the older one stays.
SuccessIsTrue ==
  ~stale => \A i \in DOMAIN log : log[i][2] = "SUCCESS" => log[i][1] \in done \cup {Report}

\* A run is a success only if it knows of every stage that it ran, was forgiven or was
\* to be skipped: no stage is lost with a child, or dropped by a failed worker.
SuccessIsComplete ==
  verdict = "success" =>
    \A s \in BuildStage(bound.boards) \cup {Completion, Publish, Report} :
      \E i \in DOMAIN log : log[i][1] = s /\ log[i][2] \in NonFailure

\* Uprevs are pushed as those of a good build only when no stage of it failed or is
\* missing.
PublishedIsGood ==
  published =>
    \A s \in BuildStage(bound.boards) : \E i \in DOMAIN log : log[i][1] = s /\ log[i][2] \in NonFailure

\* Every run ends, whoever fails or dies.
RunEnds == (pc # "idle") ~> (pc = "idle")

\* What the help of --resume says: "Skip stages already successfully completed."
NothingIsRedone == ~redone
=============================================================================
