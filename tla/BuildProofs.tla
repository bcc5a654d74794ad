----------------------------- MODULE BuildProofs -----------------------------
(***************************************************************************)
(* Build, for any number of boards, with any options and forgiving stages,  *)
(* for any number of runs and of processes killed: a log claims no success  *)
(* that was not one, and neither a verdict nor the uprevs of a good build   *)
(* come from a log that lacks a stage.                                      *)
(*                                                                          *)
(* The argument has two halves.  Every log, checkpoint and result of a      *)
(* child is part of what was done.  And as long as nothing is raised and no *)
(* worker fails, a stage that is behind is either in the builder's log or   *)
(* in that of a worker that is still to be waited for; who loses a log      *)
(* makes the builder raise.                                                 *)
(***************************************************************************)
EXTENDS Build, SequenceTheorems, TLAPS
-----------------------------------------------------------------------------
(* The inductive invariant.                                                 *)

\* The stages in a log, and those that it says have succeeded.
Names(l) == {l[i][1] : i \in DOMAIN l}
Successes(l) == {l[i][1] : i \in {j \in DOMAIN l : l[j][2] = "SUCCESS"}}

\* What a log may call a success; a report's outcome is of no interest.
Done == done \cup {Report}

\* A log, a checkpoint and a child that has recorded its result claim no more than what
\* was done, unless an older checkpoint was loaded.
Truth ==
  ~stale =>
    /\ Successes(log) \subseteq Done /\ previous \subseteq Done
    /\ \A b \in Board : Successes(blog[b]) \subseteq Done
    /\ \A s \in Leaves : leaf[s] = "SUCCESS" => s \in done
    /\ ~fresh => checkpoint \subseteq Done

\* The verdict is the last thing of a run, and so, but for the report, are the uprevs;
\* there are workers only while the packages are built.
PcFits ==
  /\ pc # "idle" => verdict = "none"
  /\ published => pc \in {"report", "idle"}
  /\ pc \in {"sync", "reexecute", "setup", "packages"} => exc = "none"
  /\ pc \in {"sync", "reexecute", "setup"} => board = 1
  /\ pc \notin {"packages", "join"} =>
       /\ \A b \in Board : worker[b] = "off" /\ blog[b] = << >> /\ ~bexc[b]
       /\ \A s \in Leaves : leaf[s] = "off"

\* As long as nothing was raised, the builder's log has all the stages on its way.
Foreground ==
  exc = "none" =>
    /\ pc \in {"reexecute", "setup", "packages", "join"} => Sync \in Names(log)
    /\ pc \in {"packages", "join"} =>
         /\ Setup \in Names(log)
         /\ \A b \in Board : b < board => Packages(b) \in Names(log)
    /\ pc = "join" => board > bound.boards
    /\ pc \in {"complete", "report"} => BuildStage(bound.boards) \subseteq Names(log)
    /\ pc = "report" => {Completion, Publish} \subseteq Names(log)

BoardStages(b) == {Image(b)} \cup Early(b)
Failed == \E b \in Board : bexc[b]

\* So has the log of a worker that has ended, or what the builder's log has of it, unless
\* a worker has failed.
Background ==
  /\ \A b \in Board :
       /\ pc \in {"packages", "join"} => (worker[b] = "off" <=> b >= board)
       /\ worker[b] \in {"off", "queued", "parallel"} => ~bexc[b]
       /\ worker[b] = "parallel" =>
            Image(b) \in Names(blog[b]) /\ \A s \in Early(b) : leaf[s] # "off"
       /\ worker[b] = "ended" /\ ~Failed => BoardStages(b) \subseteq Names(blog[b])
       /\ worker[b] = "waited" /\ ~Failed => BoardStages(b) \subseteq Names(log)

IInv == /\ TypeOK /\ Truth /\ PcFits /\ Foreground /\ Background
        /\ SuccessIsComplete /\ PublishedIsGood

-----------------------------------------------------------------------------
(* Logs, and the outcomes of stages.                                        *)

Entry == Stage \X Result

LEMMA Appended ==
  ASSUME NEW l \in Seq(Entry), NEW e \in Entry, NEW m, m = Append(l, e)
  PROVE  /\ m \in Seq(Entry)
         /\ Names(m) = Names(l) \cup {e[1]}
         /\ Successes(m) = Successes(l) \cup (IF e[2] = "SUCCESS" THEN {e[1]} ELSE {})
<1>2. /\ m \in Seq(Entry) /\ Len(l) \in Nat /\ Len(m) = Len(l) + 1
      /\ \A i \in 1 .. Len(l) : m[i] = l[i]
      /\ m[Len(l) + 1] = e
  OBVIOUS
<1>3. DOMAIN l = 1 .. Len(l) /\ DOMAIN m = 1 .. Len(l) + 1
  BY <1>2
<1>4. DOMAIN m = DOMAIN l \cup {Len(l) + 1} /\ \A i \in DOMAIN l : m[i] = l[i]
  BY <1>2, <1>3
<1>5. Names(m) = Names(l) \cup {e[1]}
  BY <1>2, <1>4 DEF Names
<1>6. Successes(m) = Successes(l) \cup (IF e[2] = "SUCCESS" THEN {e[1]} ELSE {})
  BY <1>2, <1>4 DEF Successes
<1> QED BY <1>2, <1>5, <1>6

LEMMA Joined ==
  ASSUME NEW k \in Seq(Entry), NEW l \in Seq(Entry), NEW m, m = k \o l
  PROVE  /\ m \in Seq(Entry)
         /\ Names(m) = Names(k) \cup Names(l)
         /\ Successes(m) = Successes(k) \cup Successes(l)
<1>1. /\ m \in Seq(Entry) /\ Len(k) \in Nat /\ Len(l) \in Nat /\ Len(m) = Len(k) + Len(l)
      /\ \A i \in 1 .. Len(k) : m[i] = k[i]
      /\ \A i \in 1 .. Len(l) : m[Len(k) + i] = l[i]
  OBVIOUS
<1>2. /\ DOMAIN k = 1 .. Len(k) /\ DOMAIN l = 1 .. Len(l) /\ DOMAIN m = 1 .. Len(m)
  BY <1>1
<1>3. \A i \in DOMAIN m : \/ i \in DOMAIN k /\ m[i] = k[i]
                          \/ \E j \in DOMAIN l : m[i] = l[j]
  <2> TAKE i \in DOMAIN m
  <2>1. CASE i <= Len(k)
    BY <1>1, <1>2, <2>1
  <2>2. CASE i > Len(k)
    <3>1. PICK j : j = i - Len(k)
      OBVIOUS
    <3>2. j \in 1 .. Len(l) /\ i = Len(k) + j
      BY <1>1, <1>2, <2>2, <3>1
    <3> QED BY <1>1, <1>2, <3>2
  <2> QED BY <1>1, <1>2, <2>1, <2>2
<1>4. /\ \A i \in DOMAIN k : i \in DOMAIN m /\ m[i] = k[i]
      /\ \A j \in DOMAIN l : \E i \in DOMAIN m : m[i] = l[j]
  <2>1. \A i \in DOMAIN k : i \in DOMAIN m /\ m[i] = k[i]
    BY <1>1, <1>2
  <2>2. \A j \in DOMAIN l : Len(k) + j \in DOMAIN m /\ m[Len(k) + j] = l[j]
    BY <1>1, <1>2
  <2> QED BY <2>1, <2>2
<1>5. Names(m) = Names(k) \cup Names(l)
  BY <1>3, <1>4 DEF Names
<1>6. Successes(m) = Successes(k) \cup Successes(l)
  <2>1. Successes(m) \subseteq Successes(k) \cup Successes(l)
    BY <1>3 DEF Successes
  <2>2. Successes(k) \subseteq Successes(m)
    BY <1>4 DEF Successes
  <2>3. ASSUME NEW j \in DOMAIN l, l[j][2] = "SUCCESS" PROVE l[j][1] \in Successes(m)
    <3>1. PICK i \in DOMAIN m : m[i] = l[j]
      BY <1>4
    <3> QED BY <2>3, <3>1 DEF Successes
  <2>4. Successes(l) \subseteq Successes(m)
    BY <2>3 DEF Successes
  <2> QED BY <2>1, <2>2, <2>4
<1> QED BY <1>1, <1>5, <1>6

\* A log only grows.
LEMMA Kept ==
  ASSUME NEW k \in Seq(Entry), NEW l \in Seq(Entry), NEW e \in Entry, NEW m,
         m = Append(k, e) \/ m = k \o l
  PROVE  \A i \in DOMAIN k : i \in DOMAIN m /\ m[i] = k[i]
<1>1. CASE m = Append(k, e)
  <2>1. /\ m \in Seq(Entry) /\ Len(k) \in Nat /\ Len(m) = Len(k) + 1
        /\ \A i \in 1 .. Len(k) : m[i] = k[i]
    BY <1>1
  <2>2. DOMAIN k = 1 .. Len(k) /\ DOMAIN m = 1 .. Len(k) + 1
    BY <2>1
  <2> QED BY <2>1, <2>2
<1>2. CASE m = k \o l
  <2>1. /\ m \in Seq(Entry) /\ Len(k) \in Nat /\ Len(l) \in Nat /\ Len(m) = Len(k) + Len(l)
        /\ \A i \in 1 .. Len(k) : m[i] = k[i]
    BY <1>2
  <2>2. DOMAIN k = 1 .. Len(k) /\ DOMAIN m = 1 .. Len(m)
    BY <2>1
  <2> QED BY <2>1, <2>2
<1> QED BY <1>1, <1>2

LEMMA ShortLogs ==
  ASSUME NEW x \in Entry, NEW y \in Entry
  PROVE  /\ << >> \in Seq(Entry) /\ Names(<< >>) = {} /\ Successes(<< >>) = {}
         /\ <<x>> \in Seq(Entry) /\ Names(<<x>>) = {x[1]}
         /\ Successes(<<x>>) = (IF x[2] = "SUCCESS" THEN {x[1]} ELSE {})
         /\ <<x, y>> \in Seq(Entry) /\ Names(<<x, y>>) = {x[1], y[1]}
         /\ Successes(<<x, y>>) = (IF x[2] = "SUCCESS" THEN {x[1]} ELSE {})
                                  \cup (IF y[2] = "SUCCESS" THEN {y[1]} ELSE {})
<1>1. /\ << >> \in Seq(Entry) /\ Names(<< >>) = {} /\ Successes(<< >>) = {}
  BY DEF Names, Successes
<1>2. PICK a : a = <<x>> /\ a \in Seq(Entry) /\ DOMAIN a = {1} /\ a[1] = x
  <2>1. /\ <<x>> \in Seq(Entry) /\ Len(<<x>>) = 1 /\ <<x>>[1] = x
    OBVIOUS
  <2>2. DOMAIN <<x>> = {1}
    BY <2>1
  <2> QED BY <2>1, <2>2
<1>3. PICK c : c = <<x, y>> /\ c \in Seq(Entry) /\ DOMAIN c = {1, 2} /\ c[1] = x /\ c[2] = y
  <2>1. /\ <<x, y>> \in Seq(Entry) /\ Len(<<x, y>>) = 2 /\ <<x, y>>[1] = x /\ <<x, y>>[2] = y
    OBVIOUS
  <2>2. DOMAIN <<x, y>> = {1, 2}
    BY <2>1
  <2> QED BY <2>1, <2>2
<1>4. /\ Names(a) = {x[1]}
      /\ Successes(a) = (IF x[2] = "SUCCESS" THEN {x[1]} ELSE {})
  BY <1>2 DEF Names, Successes
<1>5. /\ Names(c) = {x[1], y[1]}
      /\ Successes(c) = (IF x[2] = "SUCCESS" THEN {x[1]} ELSE {})
                        \cup (IF y[2] = "SUCCESS" THEN {y[1]} ELSE {})
  BY <1>3 DEF Names, Successes
<1> QED BY <1>1, <1>2, <1>3, <1>4, <1>5

\* The checkpoint is of stages that the log says have succeeded.
LEMMA CompletedAre ==
  ASSUME NEW l \in Seq(Entry)
  PROVE  Completed(l) \subseteq Successes(l) /\ Completed(l) \subseteq Stage
<1>1. \A i \in DOMAIN l : l[i] \in Entry /\ i \in 1 .. i
  <2> TAKE i \in DOMAIN l
  <2>1. i \in 1 .. Len(l) /\ Len(l) \in Nat
    OBVIOUS
  <2> QED BY <2>1
<1>2. Completed(l) \subseteq Successes(l)
  BY <1>1 DEF Completed, Successes
<1>3. Completed(l) \subseteq Stage
  BY <1>1 DEF Completed, Entry
<1> QED BY <1>2, <1>3

LEMMA Stages ==
  /\ Sync \in Stage /\ Setup \in Stage /\ Completion \in Stage /\ Publish \in Stage
  /\ Report \in Stage /\ Leaves \subseteq Stage
  /\ \A b \in Board : Packages(b) \in Stage /\ Image(b) \in Stage /\ Early(b) \subseteq Leaves
  /\ 1 \in Board /\ NumBoards \in Nat
<1>1. NumBoards \in Nat /\ 1 \in Board
  BY BuildAssumption DEF Board
<1>2. /\ Sync \in Stage /\ Setup \in Stage /\ Completion \in Stage /\ Publish \in Stage
      /\ Report \in Stage
  BY DEF Stage, BuildStage
<1>3. \A b \in Board : {Packages(b), Image(b)} \cup Early(b) \subseteq Stage
  BY DEF Stage, BuildStage, Board
<1>4. \A b \in Board : Packages(b) \in Stage /\ Image(b) \in Stage /\ Early(b) \subseteq Stage
  BY <1>3
<1>5. Leaves \subseteq Stage /\ \A b \in Board : Early(b) \subseteq Leaves
  BY <1>4 DEF Leaves
<1> QED BY <1>1, <1>2, <1>4, <1>5

\* A stage that ends as a success has worked, or was processed before.
LEMMA OutcomesFit ==
  ASSUME NEW s, NEW prev, NEW o \in Outcomes(s, prev)
  PROVE  /\ o.result \in Result
         /\ o.raises \in {"none", "step", "early", "exit"}
         /\ o.works \in BOOLEAN
         /\ o.result = "SUCCESS" => o.works = TRUE \/ s \in prev
<1>1. \/ o = Outcome("SKIPPED", "none", FALSE)
      \/ s \in prev /\ o = Outcome("SUCCESS", "none", FALSE)
      \/ o = Outcome("SUCCESS", "none", TRUE)
      \/ o = Fails(s)
      \/ o = Outcome("SUCCESS", "early", TRUE)
      \/ o = Outcome("None", "exit", FALSE)
  BY DEF Outcomes
<1>2. Fails(s) \in {Outcome("FORGIVEN", "none", FALSE), Outcome("failed", "step", FALSE)}
  BY DEF Fails
<1>3. CASE o = Outcome("SKIPPED", "none", FALSE)
  BY <1>3 DEF Outcome, Result, NonFailure
<1>4. CASE s \in prev /\ o = Outcome("SUCCESS", "none", FALSE)
  BY <1>4 DEF Outcome, Result, NonFailure
<1>5. CASE o = Outcome("SUCCESS", "none", TRUE)
  BY <1>5 DEF Outcome, Result, NonFailure
<1>8. CASE o = Outcome("SUCCESS", "early", TRUE)
  BY <1>8 DEF Outcome, Result, NonFailure
<1>6. CASE o = Outcome("FORGIVEN", "none", FALSE)
  BY <1>6 DEF Outcome, Result, NonFailure
<1>7. CASE o = Outcome("failed", "step", FALSE)
  BY <1>7 DEF Outcome, Result, NonFailure
<1>9. CASE o = Outcome("None", "exit", FALSE)
  BY <1>9 DEF Outcome, Result, NonFailure
<1> QED BY <1>1, <1>2, <1>3, <1>4, <1>5, <1>6, <1>7, <1>8, <1>9

-----------------------------------------------------------------------------
(* The steps of the builder.                                                *)

LEMMA Typed ==
  ASSUME TypeOK
  PROVE  /\ log \in Seq(Entry) /\ \A b \in Board : blog[b] \in Seq(Entry)
         /\ board \in Nat /\ bound.boards \in Board /\ bound.boards \in Nat
         /\ \A b : b \in Board <=> b \in Nat /\ 1 <= b /\ b <= NumBoards
         /\ NumBoards \in Nat /\ Board \subseteq Nat
<1>1. /\ log \in Seq(Entry) /\ \A b \in Board : blog[b] \in Seq(Entry)
  BY DEF TypeOK, Entry
<1>2. NumBoards \in Nat /\ board \in Nat
  BY BuildAssumption DEF TypeOK
<1>3. bound \in [boards : Board, runs : Nat, kills : Nat]
  BY BuildAssumption DEF TypeOK
<1> QED BY <1>1, <1>2, <1>3 DEF Board

\* A stage that the builder runs is in its log, as a success only when it is one.
LEMMA StageRuns ==
  ASSUME TypeOK, Truth, NEW s \in Stage, NEW o \in Outcomes(s, previous), RunStage(s, o),
         UNCHANGED <<checkpoint, previous, blog, leaf>>
  PROVE  /\ log' \in Seq(Entry) /\ Names(log') = Names(log) \cup {s} /\ Truth'
         /\ o.raises \in {"none", "step", "early", "exit"}
<1>1. /\ o.result \in Result /\ o.raises \in {"none", "step", "early", "exit"}
      /\ o.result = "SUCCESS" => o.works = TRUE \/ s \in previous
  BY OutcomesFit
<1>2. /\ log' = Append(log, <<s, o.result>>)
      /\ done' = IF o.works THEN done \cup {s} ELSE done
      /\ UNCHANGED <<stale, fresh>>
  BY DEF RunStage, Works
<1>3. /\ log' \in Seq(Entry) /\ Names(log') = Names(log) \cup {s}
      /\ Successes(log') = Successes(log) \cup (IF o.result = "SUCCESS" THEN {s} ELSE {})
  <2>1. log \in Seq(Entry) /\ o.result \in Result /\ log' = Append(log, <<s, o.result>>)
    BY <1>1, <1>2, Typed
  <2>2. PICK e \in Entry : e = <<s, o.result>> /\ e[1] = s /\ e[2] = o.result
    <3>1. <<s, o.result>> \in Entry
      BY <2>1 DEF Entry
    <3> QED BY <3>1
  <2>3. PICK m : m = log'
    OBVIOUS
  <2>4. m = Append(log, e)
    BY <2>1, <2>2, <2>3
  <2>5. /\ m \in Seq(Entry) /\ Names(m) = Names(log) \cup {e[1]}
        /\ Successes(m) = Successes(log) \cup (IF e[2] = "SUCCESS" THEN {e[1]} ELSE {})
    BY <2>1, <2>4, Appended
  <2> QED BY <2>2, <2>3, <2>5
<1>4. Done \subseteq Done' /\ done \subseteq done' /\ (o.works = TRUE => s \in Done')
  BY <1>2 DEF Done
<1>5. ASSUME ~stale' PROVE Successes(log') \subseteq Done'
  BY <1>1, <1>2, <1>3, <1>4, <1>5 DEF Truth
<1>6. Truth'
  BY <1>2, <1>4, <1>5 DEF Truth
<1> QED BY <1>1, <1>3, <1>6

\* Nothing is promised while a run is on.
LEMMA NoVerdict ==
  ASSUME IInv, pc \notin {"idle", "report"}, published' = published,
         verdict' = verdict \/ verdict' = "killed"
  PROVE  SuccessIsComplete' /\ PublishedIsGood'
<1>1. verdict' # "success" /\ ~published'
  BY DEF IInv, PcFits
<1> QED BY <1>1 DEF SuccessIsComplete, PublishedIsGood

\* Where no packages are built there are no workers.
LEMMA NoBackground ==
  ASSUME pc' \notin {"packages", "join"},
         \A b \in Board : worker'[b] = "off" /\ ~bexc'[b]
  PROVE  Background'
  BY DEF Background

LEMMA StartKeeps ==
  ASSUME IInv, NEW res \in BOOLEAN, Start(res)
  PROVE  IInv'
<1>1. /\ pc = "idle" /\ pc' = "sync" /\ board' = 1 /\ log' = << >> /\ exc' = "none"
      /\ verdict' = "none" /\ published' = FALSE /\ resume' = res /\ UNCHANGED <<bound, skip>>
      /\ previous' = IF res THEN checkpoint ELSE {}
      /\ done' = IF res THEN done ELSE {}
      /\ stale' = IF res THEN stale \/ fresh ELSE FALSE
      /\ fresh' = IF res THEN fresh ELSE TRUE
      /\ UNCHANGED <<checkpoint, worker, blog, bexc, leaf>>
  BY DEF Start, Goes, ResetBuilder, workers
<1>2. /\ \A b \in Board : worker[b] = "off" /\ blog[b] = << >> /\ ~bexc[b]
      /\ \A s \in Leaves : leaf[s] = "off"
  BY <1>1 DEF IInv, PcFits
<1>3. TypeOK'
  BY <1>1, Stages DEF IInv, TypeOK, Verdict
<1>4. Names(<< >>) = {} /\ Successes(<< >>) = {}
  BY DEF Names, Successes
<1>5. Truth'
  <2>1. CASE res = TRUE
    <3>1. /\ stale' = (stale \/ fresh) /\ previous' = checkpoint /\ fresh' = fresh
          /\ Done' = Done /\ done' = done
      BY <1>1, <2>1 DEF Done
    <3>2. ASSUME ~stale' PROVE ~stale /\ ~fresh
      BY <3>1, <3>2
    <3>3. ASSUME ~stale' PROVE previous' \subseteq Done' /\ checkpoint' \subseteq Done'
      BY <1>1, <3>1, <3>2, <3>3 DEF IInv, Truth
    <3> QED BY <1>1, <1>2, <1>4, <3>3 DEF Truth
  <2>2. CASE res = FALSE
    BY <1>1, <1>2, <1>4, <2>2 DEF Truth
  <2> QED BY <2>1, <2>2
<1>6. PcFits'
  BY <1>1, <1>2 DEF PcFits
<1>7. Foreground' /\ SuccessIsComplete' /\ PublishedIsGood'
  BY <1>1 DEF Foreground, SuccessIsComplete, PublishedIsGood
<1>8. Background'
  BY <1>1, <1>2, NoBackground
<1> QED BY <1>3, <1>5, <1>6, <1>7, <1>8 DEF IInv

LEMMA SyncKeeps ==
  ASSUME IInv, SyncStage
  PROVE  IInv'
<1>1. PICK o \in Outcomes(Sync, previous) :
        /\ RunStage(Sync, o) /\ exc' = o.raises
        /\ \/ o.raises = "none" /\ pc' \in {"setup", "reexecute"}
           \/ o.raises # "none" /\ pc' = "report"
  BY DEF SyncStage
<1>2. /\ pc = "sync"
      /\ UNCHANGED <<checkpoint, bound, resume, skip, previous, board, verdict, published,
                     worker, blog, bexc, leaf>>
  BY DEF SyncStage, inputs, workers
<1>3. /\ log' \in Seq(Entry) /\ Names(log') = Names(log) \cup {Sync} /\ Truth'
      /\ exc' \in {"none", "step", "early", "exit"}
  BY <1>1, <1>2, Stages, StageRuns DEF IInv
<1>4. /\ \A b \in Board : worker[b] = "off" /\ blog[b] = << >> /\ ~bexc[b]
      /\ \A s \in Leaves : leaf[s] = "off"
      /\ board = 1 /\ verdict = "none"
  BY <1>2 DEF IInv, PcFits
<1>5. TypeOK'
  BY <1>1, <1>2, <1>3 DEF IInv, TypeOK, Entry
<1>6. PcFits'
  BY <1>1, <1>2, <1>4 DEF IInv, PcFits
<1>7. Foreground'
  BY <1>1, <1>3 DEF Foreground
<1>8. Background'
  BY <1>1, <1>2, <1>4, NoBackground
<1>9. SuccessIsComplete' /\ PublishedIsGood'
  BY <1>2, NoVerdict
<1> QED BY <1>3, <1>5, <1>6, <1>7, <1>8, <1>9 DEF IInv

LEMMA ReexecuteKeeps ==
  ASSUME IInv, Reexecute
  PROVE  IInv'
<1>1. /\ pc = "reexecute" /\ pc' = "sync" /\ checkpoint' = Completed(log) /\ fresh' = FALSE
      /\ board' = 1 /\ log' = << >> /\ exc' = "none" /\ verdict' = "none"
      /\ published' = FALSE /\ resume' = TRUE /\ previous' = checkpoint'
      /\ UNCHANGED <<bound, skip, worker, blog, bexc, leaf, done, stale>>
  BY DEF Reexecute, Goes, WriteCheckpoint, ResetBuilder, workers
<1>2. /\ \A b \in Board : worker[b] = "off" /\ blog[b] = << >> /\ ~bexc[b]
      /\ \A s \in Leaves : leaf[s] = "off"
  BY <1>1 DEF IInv, PcFits
<1>3. checkpoint' \subseteq Successes(log) /\ checkpoint' \subseteq Stage
  BY <1>1, Typed, CompletedAre DEF IInv
<1>4. TypeOK'
  BY <1>1, <1>3, Stages DEF IInv, TypeOK, Verdict
<1>5. Names(<< >>) = {} /\ Successes(<< >>) = {}
  BY DEF Names, Successes
<1>6. Truth'
  BY <1>1, <1>2, <1>3, <1>5 DEF IInv, Truth, Done
<1>7. PcFits'
  BY <1>1, <1>2 DEF PcFits
<1>8. Foreground' /\ SuccessIsComplete' /\ PublishedIsGood'
  BY <1>1 DEF Foreground, SuccessIsComplete, PublishedIsGood
<1>9. Background'
  BY <1>1, <1>2, NoBackground
<1> QED BY <1>4, <1>6, <1>7, <1>8, <1>9 DEF IInv

LEMMA SetupKeeps ==
  ASSUME IInv, SetupStage
  PROVE  IInv'
<1>1. PICK o \in Outcomes(Setup, previous) :
        /\ RunStage(Setup, o) /\ exc' = o.raises
        /\ pc' = IF o.raises = "none" THEN "packages" ELSE "complete"
  BY DEF SetupStage
<1>2. /\ pc = "setup"
      /\ UNCHANGED <<checkpoint, bound, resume, skip, previous, board, verdict, published,
                     worker, blog, bexc, leaf>>
  BY DEF SetupStage, inputs, workers
<1>3. /\ log' \in Seq(Entry) /\ Names(log') = Names(log) \cup {Setup} /\ Truth'
      /\ exc' \in {"none", "step", "early", "exit"}
  BY <1>1, <1>2, Stages, StageRuns DEF IInv
<1>4. /\ \A b \in Board : worker[b] = "off" /\ blog[b] = << >> /\ ~bexc[b]
      /\ \A s \in Leaves : leaf[s] = "off"
      /\ board = 1 /\ verdict = "none" /\ exc = "none" /\ Sync \in Names(log)
  BY <1>2 DEF IInv, PcFits, Foreground
<1>5. TypeOK'
  BY <1>1, <1>2, <1>3 DEF IInv, TypeOK, Entry
<1>6. PcFits'
  BY <1>1, <1>2, <1>4 DEF IInv, PcFits
<1>7. Foreground'
  <2>1. \A b \in Board : ~(b < 1)
    BY Typed DEF IInv
  <2> QED BY <1>1, <1>2, <1>3, <1>4, <2>1 DEF Foreground
<1>8. Background'
  <2>1. \A b \in Board : b >= 1
    BY Typed DEF IInv
  <2> QED BY <1>2, <1>4, <2>1 DEF Background
<1>9. SuccessIsComplete' /\ PublishedIsGood'
  BY <1>2, NoVerdict
<1> QED BY <1>3, <1>5, <1>6, <1>7, <1>8, <1>9 DEF IInv

LEMMA PackagesKeep ==
  ASSUME IInv, BuildPackages
  PROVE  IInv'
<1>1. PICK o \in Outcomes(Packages(board), previous) :
        /\ RunStage(Packages(board), o) /\ exc' = o.raises
        /\ \/ /\ o.raises = "none"
              /\ worker' = [worker EXCEPT ![board] = "queued"]
              /\ board' = board + 1 /\ pc' = "packages"
           \/ /\ o.raises # "none"
              /\ pc' = "join" /\ worker' = worker /\ board' = board
  BY DEF BuildPackages
<1>2. /\ pc = "packages" /\ board <= bound.boards
      /\ UNCHANGED <<checkpoint, bound, resume, skip, previous, verdict, published,
                     blog, bexc, leaf>>
  BY DEF BuildPackages, inputs
<1>3. board \in Board /\ board \in Nat /\ board + 1 \in 1 .. NumBoards + 1
  <2>1. board \in Nat /\ 1 <= board /\ board <= NumBoards
    BY <1>2, Typed DEF IInv, TypeOK
  <2> QED BY <2>1, Typed DEF IInv
<1>4. /\ log' \in Seq(Entry) /\ Names(log') = Names(log) \cup {Packages(board)} /\ Truth'
      /\ exc' \in {"none", "step", "early", "exit"}
  BY <1>1, <1>2, <1>3, Stages, StageRuns DEF IInv
<1>5. /\ worker' \in [Board -> {"off", "queued", "parallel", "ended", "waited", "dead"}]
      /\ \A b \in Board : worker'[b] = worker[b] \/ (b = board /\ worker'[b] = "queued")
      /\ board' \in 1 .. NumBoards + 1 /\ board' >= board /\ board' <= board + 1
      /\ pc' = "packages" => worker'[board] = "queued" /\ board' = board + 1
      /\ pc' = "packages" \/ (worker'[board] = worker[board] /\ board' = board)
  BY <1>1, <1>3 DEF IInv, TypeOK
<1>6. TypeOK'
  BY <1>1, <1>2, <1>4, <1>5 DEF IInv, TypeOK, Entry
<1>7. PcFits'
  BY <1>1, <1>2 DEF IInv, PcFits
<1>8. Foreground'
  <2>1. CASE exc' = "none"
    <3>1. pc' = "packages" /\ board' = board + 1 /\ Sync \in Names(log) /\ Setup \in Names(log)
      BY <1>1, <1>2, <2>1 DEF IInv, Foreground, PcFits
    <3>2. \A b \in Board : b < board' => Packages(b) \in Names(log')
      <4> TAKE b \in Board
      <4>1. CASE b < board
        BY <1>2, <1>4, <4>1 DEF IInv, Foreground, PcFits
      <4>2. CASE ~(b < board)
        BY <1>3, <1>4, <3>1, <4>2, Typed DEF IInv
      <4> QED BY <4>1, <4>2
    <3> QED BY <1>4, <3>1, <3>2 DEF Foreground
  <2> QED BY <2>1 DEF Foreground
<1>9. Background'
  <2>1. Failed' <=> Failed
    BY <1>2 DEF Failed
  <2>2. worker[board] = "off"
    BY <1>2, <1>3 DEF IInv, Background
  <2>3. ASSUME NEW b \in Board PROVE worker'[b] = "off" <=> b >= board'
    <3>1. CASE b = board
      BY <1>3, <1>5, <2>2, <3>1
    <3>2. CASE b # board
      BY <1>2, <1>3, <1>5, <2>3, <3>2, Typed DEF IInv, Background
    <3> QED BY <3>1, <3>2
  <2>4. worker'[board] = "queued" => ~bexc[board]
    BY <1>2, <1>3, <2>2 DEF IInv, Background
  <2> QED BY <1>2, <1>4, <1>5, <2>1, <2>3, <2>4 DEF IInv, Background
<1>10. SuccessIsComplete' /\ PublishedIsGood'
  BY <1>2, NoVerdict
<1> QED BY <1>4, <1>6, <1>7, <1>8, <1>9, <1>10 DEF IInv

LEMMA QueuedKeeps ==
  ASSUME IInv, Queued
  PROVE  IInv'
<1>1. /\ pc = "packages" /\ pc' = "join" /\ board > bound.boards
      /\ UNCHANGED <<checkpoint, bound, resume, skip, previous, board, log, exc, verdict,
                     published, worker, blog, bexc, leaf, done, fresh, stale>>
  BY DEF Queued, Goes, inputs, builder, workers, ghosts
<1>2. TypeOK' /\ Truth'
  BY <1>1 DEF IInv, TypeOK, Truth, Done
<1>3. PcFits' /\ Foreground'
  BY <1>1 DEF IInv, PcFits, Foreground
<1>4. Background'
  BY <1>1 DEF IInv, Background, Failed
<1>5. SuccessIsComplete' /\ PublishedIsGood'
  BY <1>1, NoVerdict
<1> QED BY <1>2, <1>3, <1>4, <1>5 DEF IInv

LEMMA HandOverKeeps ==
  ASSUME IInv, NEW b \in Board, HandOver(b)
  PROVE  IInv'
<1>1. /\ pc = "join" /\ pc' = "join" /\ worker[b] = "ended"
      /\ worker' = [worker EXCEPT ![b] = "waited"]
      /\ log' = log \o blog[b]
      /\ UNCHANGED <<checkpoint, bound, resume, skip, previous, board, exc, verdict,
                     published, blog, bexc, leaf, done, fresh, stale>>
  BY DEF HandOver, inputs, ghosts
<1>2. /\ log' \in Seq(Entry) /\ Names(log') = Names(log) \cup Names(blog[b])
      /\ Successes(log') = Successes(log) \cup Successes(blog[b])
  <2>1. log \in Seq(Entry) /\ blog[b] \in Seq(Entry)
    BY Typed DEF IInv
  <2>2. PICK m : m = log'
    OBVIOUS
  <2>3. /\ m \in Seq(Entry) /\ Names(m) = Names(log) \cup Names(blog[b])
        /\ Successes(m) = Successes(log) \cup Successes(blog[b])
    BY <1>1, <2>1, <2>2, Joined
  <2> QED BY <2>2, <2>3
<1>3. /\ worker' \in [Board -> {"off", "queued", "parallel", "ended", "waited", "dead"}]
      /\ worker'[b] = "waited" /\ \A c \in Board : c # b => worker'[c] = worker[c]
  BY <1>1 DEF IInv, TypeOK
<1>4. TypeOK'
  BY <1>1, <1>2, <1>3 DEF IInv, TypeOK, Entry
<1>5. Truth'
  BY <1>1, <1>2 DEF IInv, Truth, Done
<1>6. PcFits'
  BY <1>1 DEF IInv, PcFits
<1>7. Foreground'
  BY <1>1, <1>2 DEF IInv, Foreground
<1>8. Background'
  <2>1. Failed' <=> Failed
    BY <1>1 DEF Failed
  <2>2. ~Failed => BoardStages(b) \subseteq Names(log')
    BY <1>1, <1>2 DEF IInv, Background
  <2> QED BY <1>1, <1>2, <1>3, <2>1, <2>2 DEF IInv, Background
<1>9. SuccessIsComplete' /\ PublishedIsGood'
  BY <1>1, NoVerdict
<1> QED BY <1>4, <1>5, <1>6, <1>7, <1>8, <1>9 DEF IInv

LEMMA JoinKeeps ==
  ASSUME IInv, Join
  PROVE  IInv'
<1>1. /\ pc = "join" /\ pc' = "complete"
      /\ \A b \in Board : worker[b] \in {"off", "waited", "dead"}
      /\ exc' = IF exc = "none" /\ JoinRaises THEN "step" ELSE exc
      /\ worker' = [b \in Board |-> "off"] /\ blog' = [b \in Board |-> << >>]
      /\ bexc' = [b \in Board |-> FALSE] /\ leaf' = [s \in Leaves |-> "off"]
      /\ UNCHANGED <<checkpoint, bound, resume, skip, previous, board, log, verdict,
                     published, done, fresh, stale>>
  BY DEF Join, Goes, NoWorkers, inputs, ghosts
<1>2. TypeOK'
  BY <1>1 DEF IInv, TypeOK
<1>3. Names(<< >>) = {} /\ Successes(<< >>) = {}
  BY DEF Names, Successes
<1>4. Truth'
  BY <1>1, <1>3 DEF IInv, Truth, Done
<1>5. PcFits'
  BY <1>1 DEF IInv, PcFits
<1>6. Foreground'
  <2> SUFFICES ASSUME exc' = "none" PROVE BuildStage(bound.boards) \subseteq Names(log)
    BY <1>1 DEF Foreground
  <2>1. exc = "none" /\ \A b \in Board : ~bexc[b] /\ worker[b] # "dead"
    BY <1>1 DEF JoinRaises
  <2>2. board > bound.boards /\ Sync \in Names(log) /\ Setup \in Names(log)
    BY <1>1, <2>1 DEF IInv, Foreground
  <2>3. ASSUME NEW b \in 1 .. bound.boards
        PROVE  {Packages(b), Image(b)} \cup Early(b) \subseteq Names(log)
    <3>1. b \in Board /\ b < board /\ ~(b >= board)
      BY <2>2, <2>3, Typed DEF IInv
    <3>2. Packages(b) \in Names(log)
      BY <1>1, <2>1, <3>1 DEF IInv, Foreground
    <3>3. worker[b] = "waited" /\ ~Failed
      BY <1>1, <2>1, <3>1 DEF IInv, Background, Failed
    <3>4. BoardStages(b) \subseteq Names(log)
      BY <3>1, <3>3 DEF IInv, Background
    <3> QED BY <3>2, <3>4 DEF BoardStages
  <2> QED BY <2>2, <2>3 DEF BuildStage
<1>7. Background'
  BY <1>1, NoBackground
<1>8. SuccessIsComplete' /\ PublishedIsGood'
  BY <1>1, NoVerdict
<1> QED BY <1>2, <1>4, <1>5, <1>6, <1>7, <1>8 DEF IInv

LEMMA CompleteKeeps ==
  ASSUME IInv, Complete
  PROVE  IInv'
<1>1. PICK c \in Outcomes(Completion, previous), p \in Outcomes(Publish, previous) :
        /\ log' = log \o <<<<Completion, c.result>>, <<Publish, p.result>>>>
        /\ exc' = IF p.raises # "none" THEN p.raises
                  ELSE IF c.raises # "none" THEN c.raises ELSE exc
        /\ published' = (p.works /\ IsGood(c.raises = "none"))
        /\ done' = done \cup (IF c.works THEN {Completion} ELSE {})
                        \cup (IF p.works THEN {Publish} ELSE {})
  BY DEF Complete
<1>2. /\ pc = "complete" /\ pc' = "report"
      /\ UNCHANGED <<checkpoint, bound, resume, skip, previous, board, verdict,
                     worker, blog, bexc, leaf, fresh, stale>>
  BY DEF Complete, Goes, inputs, workers
<1>3. /\ c.result \in Result /\ c.raises \in {"none", "step", "early", "exit"}
      /\ c.result = "SUCCESS" => c.works = TRUE \/ Completion \in previous
      /\ p.result \in Result /\ p.raises \in {"none", "step", "early", "exit"}
      /\ p.result = "SUCCESS" => p.works = TRUE \/ Publish \in previous
  BY OutcomesFit
<1>4. PICK x \in Entry, y \in Entry :
        /\ x = <<Completion, c.result>> /\ x[1] = Completion /\ x[2] = c.result
        /\ y = <<Publish, p.result>> /\ y[1] = Publish /\ y[2] = p.result
  <2>1. <<Completion, c.result>> \in Entry /\ <<Publish, p.result>> \in Entry
    BY <1>3, Stages DEF Entry
  <2> QED BY <2>1
<1>5. PICK m : m = log'
  OBVIOUS
<1>6. /\ m \in Seq(Entry) /\ Names(m) = Names(log) \cup {Completion, Publish}
      /\ Successes(m) = Successes(log)
                        \cup ((IF c.result = "SUCCESS" THEN {Completion} ELSE {})
                              \cup (IF p.result = "SUCCESS" THEN {Publish} ELSE {}))
      /\ \A i \in DOMAIN log : i \in DOMAIN m /\ m[i] = log[i]
  <2>1. PICK l : l = <<x, y>>
    OBVIOUS
  <2>2. /\ l \in Seq(Entry) /\ Names(l) = {Completion, Publish}
        /\ Successes(l) = (IF c.result = "SUCCESS" THEN {Completion} ELSE {})
                          \cup (IF p.result = "SUCCESS" THEN {Publish} ELSE {})
    BY <1>4, <2>1, ShortLogs
  <2>3. log \in Seq(Entry) /\ m = log \o l
    BY <1>1, <1>4, <1>5, <2>1, Typed DEF IInv
  <2>4. \A i \in DOMAIN log : i \in DOMAIN m /\ m[i] = log[i]
    BY <1>4, <2>2, <2>3, Kept
  <2>5. /\ m \in Seq(Entry) /\ Names(m) = Names(log) \cup Names(l)
        /\ Successes(m) = Successes(log) \cup Successes(l)
    BY <2>2, <2>3, Joined
  <2> QED BY <2>2, <2>4, <2>5
<1>7. TypeOK'
  BY <1>1, <1>2, <1>3, <1>5, <1>6 DEF IInv, TypeOK, Entry
<1>8. Truth'
  <2>1. /\ Done \subseteq Done' /\ done \subseteq done'
        /\ c.works = TRUE => Completion \in Done'
        /\ p.works = TRUE => Publish \in Done'
    BY <1>1 DEF Done
  <2>2. ASSUME ~stale' PROVE Successes(m) \subseteq Done'
    BY <1>2, <1>3, <1>6, <2>1, <2>2 DEF IInv, Truth
  <2> QED BY <1>2, <1>5, <2>1, <2>2 DEF IInv, Truth
<1>9. PcFits'
  BY <1>2 DEF IInv, PcFits
<1>10. exc' = "none" => exc = "none"
  BY <1>1
<1>11. Foreground'
  BY <1>2, <1>5, <1>6, <1>10 DEF IInv, Foreground
<1>12. Background'
  BY <1>2, NoBackground DEF IInv, PcFits
<1>13. SuccessIsComplete'
  BY <1>2 DEF IInv, PcFits, SuccessIsComplete
<1>14. PublishedIsGood'
  <2>1. ASSUME published' PROVE exc = "none" /\ BuildSucceededSoFar(log)
    BY <1>1, <2>1 DEF IsGood
  <2>2. ASSUME exc = "none", BuildSucceededSoFar(log), NEW s \in BuildStage(bound.boards)
        PROVE  \E i \in DOMAIN m : m[i][1] = s /\ m[i][2] \in NonFailure
    <3>1. s \in Names(log)
      BY <1>2, <2>2 DEF IInv, Foreground
    <3>2. PICK i \in DOMAIN log : log[i][1] = s /\ log[i][2] \in NonFailure
      BY <2>2, <3>1 DEF Names, BuildSucceededSoFar
    <3> QED BY <1>6, <3>2
  <2> QED BY <1>2, <1>5, <2>1, <2>2 DEF PublishedIsGood
<1> QED BY <1>7, <1>8, <1>9, <1>11, <1>12, <1>13, <1>14 DEF IInv

LEMMA ReportKeeps ==
  ASSUME IInv, ReportStage
  PROVE  IInv'
<1>1. PICK o \in Outcomes(Report, {}) :
        /\ log' = Append(log, <<Report, o.result>>)
        /\ verdict' = CASE o.raises # "none" -> "raised"
                        [] exc = "early" -> "early"
                        [] exc = "exit" -> "exit"
                        [] exc = "step" /\ BuildSucceededSoFar(log) -> "raised"
                        [] OTHER -> IF exc = "none" /\ BuildSucceededSoFar(log')
                                    THEN "success" ELSE "failure"
  BY DEF ReportStage
<1>2. /\ pc = "report" /\ pc' = "idle" /\ checkpoint' = Completed(log) /\ fresh' = FALSE
      /\ UNCHANGED <<bound, resume, skip, previous, board, exc, published, done, stale,
                     worker, blog, bexc, leaf>>
  BY DEF ReportStage, Goes, WriteCheckpoint, inputs, workers
<1>3. verdict' \in Verdict /\ (verdict' = "success" => exc = "none" /\ BuildSucceededSoFar(log'))
  BY <1>1 DEF Verdict
<1>4. PICK m : m = log'
  OBVIOUS
<1>5. /\ m \in Seq(Entry) /\ Names(m) = Names(log) \cup {Report}
      /\ Successes(m) \subseteq Successes(log) \cup {Report}
      /\ \A i \in DOMAIN log : i \in DOMAIN m /\ m[i] = log[i]
  <2>1. o.result \in Result /\ log \in Seq(Entry)
    BY OutcomesFit, Typed DEF IInv
  <2>2. PICK e \in Entry : e = <<Report, o.result>> /\ e[1] = Report
    <3>1. <<Report, o.result>> \in Entry
      BY <2>1, Stages DEF Entry
    <3> QED BY <3>1
  <2>3. m = Append(log, e)
    BY <1>1, <1>4, <2>2
  <2>4. /\ m \in Seq(Entry) /\ Names(m) = Names(log) \cup {e[1]}
        /\ Successes(m) = Successes(log) \cup (IF e[2] = "SUCCESS" THEN {e[1]} ELSE {})
    BY <2>1, <2>3, Appended
  <2>5. \A i \in DOMAIN log : i \in DOMAIN m /\ m[i] = log[i]
    BY <2>1, <2>3, Kept
  <2> QED BY <2>2, <2>4, <2>5
<1>6. checkpoint' \subseteq Successes(log) /\ checkpoint' \subseteq Stage
  BY <1>2, Typed, CompletedAre DEF IInv
<1>7. TypeOK'
  BY <1>2, <1>3, <1>4, <1>5, <1>6 DEF IInv, TypeOK, Entry
<1>8. Truth'
  BY <1>2, <1>4, <1>5, <1>6 DEF IInv, Truth, Done
<1>9. PcFits'
  BY <1>2 DEF IInv, PcFits
<1>10. Foreground'
  BY <1>2 DEF Foreground
<1>11. Background'
  BY <1>2, NoBackground DEF IInv, PcFits
<1>12. SuccessIsComplete'
  <2> SUFFICES ASSUME verdict' = "success",
                      NEW s \in BuildStage(bound.boards) \cup {Completion, Publish, Report}
               PROVE  \E i \in DOMAIN m : m[i][1] = s /\ m[i][2] \in NonFailure
    BY <1>2, <1>4 DEF SuccessIsComplete
  <2>1. s \in Names(m)
    BY <1>2, <1>3, <1>5 DEF IInv, Foreground
  <2>2. \A i \in DOMAIN m : m[i][2] \in NonFailure
    BY <1>3, <1>4 DEF BuildSucceededSoFar
  <2> QED BY <2>1, <2>2 DEF Names
<1>13. PublishedIsGood'
  <2> SUFFICES ASSUME published, NEW s \in BuildStage(bound.boards)
               PROVE  \E i \in DOMAIN m : m[i][1] = s /\ m[i][2] \in NonFailure
    BY <1>2, <1>4 DEF PublishedIsGood
  <2>1. PICK i \in DOMAIN log : log[i][1] = s /\ log[i][2] \in NonFailure
    BY DEF IInv, PublishedIsGood
  <2> QED BY <1>5, <2>1
<1> QED BY <1>7, <1>8, <1>9, <1>10, <1>11, <1>12, <1>13 DEF IInv

-----------------------------------------------------------------------------
(* The steps of the workers, and processes killed.                          *)

\* There are workers only while the packages are built.
LEMMA Busy ==
  ASSUME IInv
  PROVE  /\ (\E b \in Board : worker[b] # "off") => pc \in {"packages", "join"}
         /\ (\E s \in Leaves : leaf[s] # "off") => pc \in {"packages", "join"}
  BY DEF IInv, PcFits

\* A stage that a worker or a child of it runs claims no more than it does.
LEMMA Worked ==
  ASSUME NEW s, NEW o \in Outcomes(s, {}), Works(s, o)
  PROVE  /\ o.result \in Result /\ done \subseteq done' /\ Done \subseteq Done'
         /\ o.result = "SUCCESS" => s \in done' /\ s \in Done'
         /\ UNCHANGED <<fresh, stale>>
<1>1. o.result \in Result /\ (o.result = "SUCCESS" => o.works = TRUE)
  <2>1. PICK prev : prev = {}
    OBVIOUS
  <2>2. /\ o.result \in Result
        /\ o.result = "SUCCESS" => o.works = TRUE \/ s \in prev
    BY <2>1, OutcomesFit
  <2> QED BY <2>1, <2>2
<1>2. /\ done' = IF o.works THEN done \cup {s} ELSE done
      /\ fresh' = fresh /\ stale' = stale
  BY DEF Works
<1>3. done \subseteq done' /\ (o.works = TRUE => s \in done')
  BY <1>2
<1> QED BY <1>1, <1>2, <1>3 DEF Done

LEMMA ImageKeeps ==
  ASSUME IInv, NEW b \in Board, BuildImage(b)
  PROVE  IInv'
<1>1. PICK o \in Outcomes(Image(b), {}) :
        /\ blog' = [blog EXCEPT ![b] = <<<<Image(b), o.result>>>>]
        /\ Works(Image(b), o)
        /\ bexc' = [bexc EXCEPT ![b] = o.raises # "none"]
        /\ \/ /\ o.raises = "none" /\ worker' = [worker EXCEPT ![b] = "parallel"]
              /\ leaf' = [s \in Leaves |-> IF s \in Early(b) THEN "running" ELSE leaf[s]]
           \/ /\ o.raises # "none" /\ worker' = [worker EXCEPT ![b] = "ended"]
              /\ leaf' = leaf
  BY DEF BuildImage
<1>2. /\ worker[b] = "queued" /\ ~bexc[b] /\ pc \in {"packages", "join"}
      /\ UNCHANGED <<checkpoint, pc, bound, resume, skip, previous, board, log, exc, verdict,
                     published>>
  BY Busy DEF BuildImage, inputs, builder, IInv, Background
<1>3. /\ o.result \in Result /\ done \subseteq done' /\ Done \subseteq Done'
      /\ o.result = "SUCCESS" => Image(b) \in Done'
      /\ UNCHANGED <<fresh, stale>>
  BY <1>1, Worked
<1>4. PICK l : l = <<<<Image(b), o.result>>>>
  OBVIOUS
<1>5. /\ l \in Seq(Entry) /\ Names(l) = {Image(b)}
      /\ Successes(l) = (IF o.result = "SUCCESS" THEN {Image(b)} ELSE {})
  <2>1. PICK x \in Entry : x = <<Image(b), o.result>> /\ x[1] = Image(b) /\ x[2] = o.result
    <3>1. <<Image(b), o.result>> \in Entry
      BY <1>3, Stages DEF Entry
    <3> QED BY <3>1
  <2> QED BY <1>4, <2>1, ShortLogs
<1>6. /\ blog'[b] = l /\ \A c \in Board : c # b => blog'[c] = blog[c]
      /\ blog' \in [Board -> Seq(Entry)] /\ bexc' \in [Board -> BOOLEAN]
      /\ worker' \in [Board -> {"off", "queued", "parallel", "ended", "waited", "dead"}]
      /\ \A c \in Board : c # b => worker'[c] = worker[c] /\ bexc'[c] = bexc[c]
      /\ \/ worker'[b] = "parallel" /\ ~bexc'[b] /\ \A s \in Early(b) : leaf'[s] = "running"
         \/ worker'[b] = "ended" /\ bexc'[b]
  BY <1>1, <1>4, <1>5, Stages DEF IInv, TypeOK, Entry
<1>7. /\ leaf' \in [Leaves -> Result \cup {"off", "running", "dead"}]
      /\ \A s \in Leaves : leaf'[s] = leaf[s] \/ leaf'[s] = "running"
  BY <1>1 DEF IInv, TypeOK
<1>8. TypeOK'
  BY <1>2, <1>6, <1>7 DEF IInv, TypeOK, Entry
<1>9. Truth'
  <2>1. ASSUME ~stale', NEW c \in Board PROVE Successes(blog'[c]) \subseteq Done'
    <3>1. CASE c = b
      BY <1>3, <1>5, <1>6, <3>1
    <3>2. CASE c # b
      BY <1>3, <1>6, <2>1, <3>2 DEF IInv, Truth
    <3> QED BY <3>1, <3>2
  <2> QED BY <1>2, <1>3, <1>7, <2>1 DEF IInv, Truth
<1>10. PcFits' /\ Foreground'
  BY <1>2 DEF IInv, PcFits, Foreground
<1>11. Background'
  <2>1. Failed => Failed'
    BY <1>2, <1>6 DEF Failed
  <2>2. bexc'[b] => Failed'
    BY DEF Failed
  <2>3. \A c \in Board : \A s \in Early(c) : leaf[s] # "off" => leaf'[s] # "off"
    BY <1>7, Stages
  <2> QED BY <1>2, <1>5, <1>6, <2>1, <2>2, <2>3 DEF IInv, Background
<1>12. SuccessIsComplete' /\ PublishedIsGood'
  BY <1>2, NoVerdict
<1> QED BY <1>8, <1>9, <1>10, <1>11, <1>12 DEF IInv

LEMMA LeafKeeps ==
  ASSUME IInv, NEW s \in Leaves, RunLeaf(s) \/ KillLeaf(s)
  PROVE  IInv'
<1>1. PICK r : /\ leaf' = [leaf EXCEPT ![s] = r] /\ r \in Result \cup {"dead"}
               /\ done \subseteq done' /\ Done \subseteq Done' /\ UNCHANGED <<fresh, stale>>
               /\ r = "SUCCESS" => s \in done'
  <2>1. CASE RunLeaf(s)
    <3>1. PICK o \in Outcomes(s, {}) : leaf' = [leaf EXCEPT ![s] = o.result] /\ Works(s, o)
      BY <2>1 DEF RunLeaf
    <3>2. /\ o.result \in Result /\ done \subseteq done' /\ Done \subseteq Done'
          /\ o.result = "SUCCESS" => s \in done'
          /\ UNCHANGED <<fresh, stale>>
      BY <3>1, Worked
    <3> QED BY <3>1, <3>2
  <2>2. CASE KillLeaf(s)
    <3>1. leaf' = [leaf EXCEPT ![s] = "dead"] /\ UNCHANGED <<done, fresh, stale>>
      BY <2>2 DEF KillLeaf, ghosts
    <3>2. PICK r : r = "dead"
      OBVIOUS
    <3>3. done \subseteq done' /\ Done \subseteq Done' /\ r # "SUCCESS"
      BY <3>1, <3>2 DEF Done
    <3> QED BY <3>1, <3>2, <3>3
  <2> QED BY <2>1, <2>2
<1>2. /\ leaf[s] = "running"
      /\ UNCHANGED <<checkpoint, pc, bound, resume, skip, previous, board, log, exc, verdict,
                     published, worker, blog, bexc>>
  BY DEF RunLeaf, KillLeaf, inputs, builder
<1>3. pc \in {"packages", "join"}
  BY <1>2, Busy
<1>4. /\ leaf' \in [Leaves -> Result \cup {"off", "running", "dead"}]
      /\ leaf'[s] = r /\ \A x \in Leaves : x # s => leaf'[x] = leaf[x]
      /\ r # "off"
  BY <1>1 DEF IInv, TypeOK, Result, NonFailure
<1>5. TypeOK'
  BY <1>2, <1>4 DEF IInv, TypeOK
<1>6. Truth'
  BY <1>1, <1>2, <1>4 DEF IInv, Truth
<1>7. PcFits' /\ Foreground'
  BY <1>2, <1>3 DEF IInv, PcFits, Foreground
<1>8. Background'
  <2>1. \A c \in Board : \A x \in Early(c) : leaf[x] # "off" => leaf'[x] # "off"
    BY <1>4, Stages
  <2> QED BY <1>2, <2>1 DEF IInv, Background, Failed
<1>9. SuccessIsComplete' /\ PublishedIsGood'
  BY <1>2, <1>3, NoVerdict
<1> QED BY <1>5, <1>6, <1>7, <1>8, <1>9 DEF IInv

LEMMA ParallelKeeps ==
  ASSUME IInv, NEW b \in Board, RunParallelStages(b)
  PROVE  IInv'
<1>1. /\ worker[b] = "parallel" /\ ~bexc[b] /\ pc \in {"packages", "join"}
      /\ \A s \in Early(b) : leaf[s] \notin {"off", "running"}
      /\ Image(b) \in Names(blog[b])
      /\ worker' = [worker EXCEPT ![b] = "ended"]
      /\ bexc' = [bexc EXCEPT ![b] = \E s \in Early(b) : leaf[s] \in {"dead", "failed"}]
      /\ UNCHANGED <<checkpoint, pc, bound, resume, skip, previous, board, log, exc, verdict,
                     published, leaf, done, fresh, stale>>
  BY Busy DEF RunParallelStages, AllLeft, inputs, builder, ghosts, IInv, Background
<1>2. ASSUME NEW s \in Early(b)
      PROVE  /\ LeafResult(s) \in Entry /\ LeafResult(s)[1] = s
             /\ LeafResult(s)[2] = "SUCCESS" => leaf[s] = "SUCCESS"
  <2>1. s \in Leaves /\ s \in Stage
    BY Stages
  <2>2. leaf[s] \in Result \cup {"dead"}
    BY <1>1, <2>1 DEF IInv, TypeOK
  <2>3. PICK r : r = (IF leaf[s] = "dead" THEN "failed" ELSE leaf[s])
    OBVIOUS
  <2>4. LeafResult(s) = <<s, r>> /\ r \in Result /\ (r = "SUCCESS" => leaf[s] = "SUCCESS")
    BY <2>2, <2>3 DEF LeafResult, Result
  <2> QED BY <2>1, <2>4 DEF Entry
<1>3. PICK l : /\ blog' = [blog EXCEPT ![b] = @ \o l]
               /\ l \in Seq(Entry) /\ Names(l) = Early(b)
               /\ \A s \in Successes(l) : s \in Early(b) /\ leaf[s] = "SUCCESS"
  <2>1. PICK x \in Early(b), y \in Early(b) :
          /\ blog' = [blog EXCEPT ![b] = @ \o <<LeafResult(x), LeafResult(y)>>]
          /\ Early(b) = {x, y}
    <3>1. Early(b) = {UnitTest(b), Upload(b)}
      BY DEF Early
    <3>2. CASE leaf[UnitTest(b)] = "dead" /\ leaf[Upload(b)] # "dead"
      BY <3>1, <3>2 DEF RunParallelStages
    <3>3. CASE ~(leaf[UnitTest(b)] = "dead" /\ leaf[Upload(b)] # "dead")
      BY <3>1, <3>3 DEF RunParallelStages
    <3> QED BY <3>2, <3>3
  <2>2. PICK p \in Entry, q \in Entry : p = LeafResult(x) /\ q = LeafResult(y)
    BY <1>2
  <2>3. PICK l : l = <<p, q>>
    OBVIOUS
  <2>4. /\ l \in Seq(Entry) /\ Names(l) = {p[1], q[1]}
        /\ Successes(l) = (IF p[2] = "SUCCESS" THEN {p[1]} ELSE {})
                          \cup (IF q[2] = "SUCCESS" THEN {q[1]} ELSE {})
    BY <2>3, ShortLogs
  <2>5. Names(l) = Early(b) /\ \A s \in Successes(l) : s \in Early(b) /\ leaf[s] = "SUCCESS"
    BY <1>2, <2>1, <2>2, <2>4
  <2> QED BY <2>1, <2>2, <2>3, <2>4, <2>5
<1>4. PICK m : m = blog'[b]
  OBVIOUS
<1>5. /\ m \in Seq(Entry) /\ Names(m) = Names(blog[b]) \cup Early(b)
      /\ Successes(m) = Successes(blog[b]) \cup Successes(l)
  <2>1. PICK k : k = blog[b]
    OBVIOUS
  <2>2. k \in Seq(Entry) /\ l \in Seq(Entry) /\ m = k \o l
    BY <1>3, <1>4, <2>1, Typed DEF IInv, TypeOK
  <2>3. /\ m \in Seq(Entry) /\ Names(m) = Names(k) \cup Names(l)
        /\ Successes(m) = Successes(k) \cup Successes(l)
    BY <2>2, Joined
  <2> QED BY <1>3, <2>1, <2>3
<1>6. /\ \A c \in Board : c # b => /\ blog'[c] = blog[c] /\ worker'[c] = worker[c]
                                   /\ bexc'[c] = bexc[c]
      /\ worker'[b] = "ended" /\ blog' \in [Board -> Seq(Entry)]
      /\ bexc' \in [Board -> BOOLEAN]
      /\ worker' \in [Board -> {"off", "queued", "parallel", "ended", "waited", "dead"}]
  BY <1>1, <1>3, <1>4, <1>5 DEF IInv, TypeOK, Entry
<1>7. TypeOK'
  BY <1>1, <1>6 DEF IInv, TypeOK, Entry
<1>8. Truth'
  <2>1. Done' = Done
    BY <1>1 DEF Done
  <2>2. ASSUME ~stale', NEW c \in Board PROVE Successes(blog'[c]) \subseteq Done
    <3>1. CASE c = b
      <4>1. Successes(l) \subseteq Done
        BY <1>1, <1>3, <2>2, Stages DEF IInv, Truth, Done
      <4> QED BY <1>1, <1>4, <1>5, <2>2, <3>1, <4>1 DEF IInv, Truth
    <3>2. CASE c # b
      BY <1>1, <1>6, <2>2, <3>2 DEF IInv, Truth
    <3> QED BY <3>1, <3>2
  <2> QED BY <1>1, <2>1, <2>2 DEF IInv, Truth
<1>9. PcFits' /\ Foreground'
  BY <1>1 DEF IInv, PcFits, Foreground
<1>10. Background'
  <2>1. Failed => Failed'
    BY <1>1, <1>6 DEF Failed
  <2>2. BoardStages(b) \subseteq Names(blog'[b])
    BY <1>1, <1>4, <1>5 DEF BoardStages
  <2> QED BY <1>1, <1>6, <2>1, <2>2 DEF IInv, Background
<1>11. SuccessIsComplete' /\ PublishedIsGood'
  BY <1>1, NoVerdict
<1> QED BY <1>7, <1>8, <1>9, <1>10, <1>11 DEF IInv

LEMMA DropKeeps ==
  ASSUME IInv, NEW b \in Board, Drop(b)
  PROVE  IInv'
<1>1. /\ worker[b] = "queued" /\ Failed /\ pc \in {"packages", "join"}
      /\ worker' = [worker EXCEPT ![b] = "ended"]
      /\ UNCHANGED <<checkpoint, pc, bound, resume, skip, previous, board, log, exc, verdict,
                     published, blog, bexc, leaf, done, fresh, stale>>
  BY Busy DEF Drop, Failed, inputs, builder, ghosts
<1>2. /\ worker' \in [Board -> {"off", "queued", "parallel", "ended", "waited", "dead"}]
      /\ worker'[b] = "ended" /\ \A c \in Board : c # b => worker'[c] = worker[c]
  BY <1>1 DEF IInv, TypeOK
<1>3. TypeOK' /\ Truth'
  BY <1>1, <1>2 DEF IInv, TypeOK, Truth, Done
<1>4. PcFits' /\ Foreground'
  BY <1>1 DEF IInv, PcFits, Foreground
<1>5. Background'
  <2>1. Failed'
    BY <1>1 DEF Failed
  <2> QED BY <1>1, <1>2, <2>1 DEF IInv, Background
<1>6. SuccessIsComplete' /\ PublishedIsGood'
  BY <1>1, NoVerdict
<1> QED BY <1>3, <1>4, <1>5, <1>6 DEF IInv

LEMMA KillWorkerKeeps ==
  ASSUME IInv, NEW B \in SUBSET Board, KillWorker(B)
  PROVE  IInv'
<1>1. /\ worker' = [b \in Board |-> IF b \in B THEN "dead" ELSE worker[b]]
      /\ \A b \in B : worker[b] # "off"
      /\ B # {} /\ pc \in {"packages", "join"}
      /\ UNCHANGED <<checkpoint, pc, bound, resume, skip, previous, board, log, exc, verdict,
                     published, blog, bexc, leaf, done, fresh, stale>>
  BY Busy DEF KillWorker, inputs, builder, ghosts
<1>2. /\ worker' \in [Board -> {"off", "queued", "parallel", "ended", "waited", "dead"}]
      /\ \A c \in Board : worker'[c] = worker[c] \/ (worker'[c] = "dead" /\ worker[c] # "off")
  BY <1>1 DEF IInv, TypeOK
<1>3. TypeOK' /\ Truth'
  BY <1>1, <1>2 DEF IInv, TypeOK, Truth, Done
<1>4. PcFits' /\ Foreground'
  BY <1>1 DEF IInv, PcFits, Foreground
<1>5. Background'
  BY <1>1, <1>2 DEF IInv, Background, Failed
<1>6. SuccessIsComplete' /\ PublishedIsGood'
  BY <1>1, NoVerdict
<1> QED BY <1>3, <1>4, <1>5, <1>6 DEF IInv

LEMMA KillBuilderKeeps ==
  ASSUME IInv, KillBuilder
  PROVE  IInv'
<1>1. /\ pc' = "idle" /\ verdict' = "killed"
      /\ worker' = [b \in Board |-> "off"] /\ blog' = [b \in Board |-> << >>]
      /\ bexc' = [b \in Board |-> FALSE] /\ leaf' = [s \in Leaves |-> "off"]
      /\ UNCHANGED <<checkpoint, bound, resume, skip, previous, board, log, exc, published,
                     done, fresh, stale>>
  BY DEF KillBuilder, NoWorkers, inputs, ghosts
<1>2. TypeOK'
  BY <1>1 DEF IInv, TypeOK, Verdict
<1>3. Truth'
  <2>1. Successes(<< >>) = {}
    BY DEF Successes
  <2> QED BY <1>1, <2>1 DEF IInv, Truth, Done
<1>4. PcFits' /\ Foreground'
  BY <1>1 DEF IInv, PcFits, Foreground
<1>5. Background'
  BY <1>1, NoBackground
<1>6. SuccessIsComplete' /\ PublishedIsGood'
  BY <1>1 DEF IInv, SuccessIsComplete, PublishedIsGood
<1> QED BY <1>2, <1>3, <1>4, <1>5, <1>6 DEF IInv

-----------------------------------------------------------------------------
(* The specification.                                                       *)

LEMMA InitIInv ==
  ASSUME Init
  PROVE  IInv
<1>1. /\ bound \in Bounds /\ checkpoint = {} /\ pc = "idle" /\ resume = FALSE
      /\ skip \in Options /\ previous = {} /\ board = 1 /\ log = << >> /\ exc = "none"
      /\ verdict = "none" /\ published = FALSE
      /\ worker = [b \in Board |-> "off"] /\ blog = [b \in Board |-> << >>]
      /\ bexc = [b \in Board |-> FALSE] /\ leaf = [s \in Leaves |-> "off"]
  BY DEF Init
<1>2. TypeOK
  <2>1. skip \subseteq Stage /\ 1 \in 1 .. NumBoards + 1
    BY <1>1, BuildAssumption
  <2>2. /\ << >> \in Seq(Stage \X Result)
        /\ blog \in [Board -> Seq(Stage \X Result)] /\ bexc \in [Board -> BOOLEAN]
        /\ worker \in [Board -> {"off", "queued", "parallel", "ended", "waited", "dead"}]
        /\ leaf \in [Leaves -> Result \cup {"off", "running", "dead"}]
    BY <1>1
  <2> QED BY <1>1, <2>1, <2>2 DEF TypeOK, Verdict
<1>3. Truth
  <2>1. Successes(<< >>) = {}
    BY DEF Successes
  <2> QED BY <1>1, <2>1 DEF Truth
<1>4. PcFits /\ Foreground /\ SuccessIsComplete /\ PublishedIsGood
  BY <1>1 DEF PcFits, Foreground, SuccessIsComplete, PublishedIsGood
<1>5. Background
  BY <1>1 DEF Background
<1> QED BY <1>2, <1>3, <1>4, <1>5 DEF IInv

LEMMA NextKeepsIInv ==
  ASSUME IInv, [Next]_vars
  PROVE  IInv'
<1>1. CASE \E r \in BOOLEAN : Start(r)
  BY <1>1, StartKeeps
<1>2. CASE Main
  BY <1>2, SyncKeeps, ReexecuteKeeps, SetupKeeps, PackagesKeep, QueuedKeeps, HandOverKeeps,
     JoinKeeps, CompleteKeeps, ReportKeeps DEF Main
<1>3. CASE \E b \in Board : Worker(b)
  BY <1>3, ImageKeeps, DropKeeps, ParallelKeeps DEF Worker
<1>4. CASE \E B \in SUBSET Board : KillWorker(B)
  BY <1>4, KillWorkerKeeps
<1>5. CASE \E s \in Leaves : RunLeaf(s) \/ KillLeaf(s)
  BY <1>5, LeafKeeps
<1>6. CASE KillBuilder
  BY <1>6, KillBuilderKeeps
<1>7. CASE UNCHANGED vars
  <2>1. UNCHANGED <<checkpoint, pc, bound, resume, skip, previous, board, log, exc, verdict,
                    published, worker, blog, bexc, leaf, done, fresh, stale>>
    BY <1>7 DEF vars, inputs, builder, workers, ghosts
  <2>2. TypeOK' /\ Truth' /\ PcFits' /\ Foreground'
    BY <2>1 DEF IInv, TypeOK, Truth, Done, PcFits, Foreground
  <2>3. Background'
    BY <2>1 DEF IInv, Background, Failed
  <2>4. SuccessIsComplete' /\ PublishedIsGood'
    BY <2>1 DEF IInv, SuccessIsComplete, PublishedIsGood
  <2> QED BY <2>2, <2>3, <2>4 DEF IInv
<1> QED BY <1>1, <1>2, <1>3, <1>4, <1>5, <1>6, <1>7 DEF Next

\* The inductive invariant holds in every state of builds of any number of boards, with
\* any options and forgiving stages, run and killed any number of times.
THEOREM Invariance == Spec => []IInv
<1> QED BY InitIInv, NextKeepsIInv, PTL DEF Spec

\* Every variable keeps its type.
THEOREM TypeCorrect == Spec => []TypeOK
<1>1. IInv => TypeOK
  BY DEF IInv
<1> QED BY <1>1, Invariance, PTL

\* What a log calls a success was done: the builder's log, and so the checkpoint that
\* SaveCompletedStages writes from it and that the next run resumes from, never claims a
\* stage that did not do its work, unless an older checkpoint was left and loaded.
THEOREM SuccessTrue == Spec => []SuccessIsTrue
<1>1. IInv => SuccessIsTrue
  BY DEF IInv, Truth, Done, Successes, SuccessIsTrue
<1> QED BY <1>1, Invariance, PTL

\* A run that reports success knows of every stage of every board, though each worker's
\* results reach it only when that worker is waited for, and in any order.
THEOREM SuccessComplete == Spec => []SuccessIsComplete
<1>1. IInv => SuccessIsComplete
  BY DEF IInv
<1> QED BY <1>1, Invariance, PTL

\* Uprevs are pushed as those of a good build only when every stage of every board ran,
\* was forgiven or was to be skipped.
THEOREM PublishedGood == Spec => []PublishedIsGood
<1>1. IInv => PublishedIsGood
  BY DEF IInv
<1> QED BY <1>1, Invariance, PTL

=============================================================================
