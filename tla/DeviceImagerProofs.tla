-------------------------- MODULE DeviceImagerProofs --------------------------
(***************************************************************************)
(* DeviceImager, for all sets of updaters that treat the kernel and the     *)
(* root file system alike, and any number of unasked reboots: the device    *)
(* always runs on a whole image, is told to boot a root file system, and to *)
(* recover from a miniOS, only once it is written, and runs on the new      *)
(* image when the imager succeeds.                                          *)
(*                                                                          *)
(* The argument: one side is never written, and of the other it is enough   *)
(* to know when a partition is "written": it is new, or the source of its   *)
(* write ended early.  It is before its postinst or flip is sent, it stays  *)
(* so while one lingers, and no child that still has a write to send has a  *)
(* command lingering.                                                       *)
(***************************************************************************)
EXTENDS DeviceImager, TLAPS

-----------------------------------------------------------------------------
(* The inductive invariant.                                                 *)

Updating == pc \in {"install", "halt", "reboot", "verify", "done"}
Ended    == pc \in {"reboot", "verify", "done"}

\* Does u have command c next?
At(u, c) == step[u] # << >> /\ Head(step[u]) = c

AtStart ==
  pc = "start" =>
    /\ \A s \in Side, p \in Partition : part[s][p] = "old"
    /\ lingering = {}
    /\ priority = booted
    /\ \A u \in Updater : child[u] = "off"

\* The sides that nobody writes.
OtherSides ==
  pc # "start" =>
    /\ part[Other(inactive_state)].rootfs = "old"
    /\ part[Other(inactive_state)].kernel = "old"
    /\ part[Other(target_minios)].minios = "old"

\* The commands an updater may still have to send.
StepsOf(u) ==
  CASE u = "rootfs"   -> {<<"write", "postinst">>, <<"postinst">>, << >>}
    [] u = "kernel"   -> {<<"write">>, << >>}
    [] u = "stateful" -> {<<"untar", "mark">>, <<"mark">>, <<"reset">>, << >>}
    [] u = "minios"   -> {<<"write", "flip">>, <<"flip">>, << >>}

Shapes ==
  /\ \A u \in Updater : step[u] \in StepsOf(u)
  /\ Updating => step["stateful"] # <<"reset">>
  /\ pc = "revert" => \A u \in Partition : step[u] = << >>

\* The children.
Forked ==
  /\ \A u \in Updater : u \notin updaters => child[u] = "off"
  /\ \A u \in Updater : child[u] = "busy" => step[u] # << >>
  /\ \A u \in Updater : child[u] = "done" => step[u] = << >>
  /\ \A u \in Updater : Alive(u) => pc \in {"install", "halt", "revert"}
  /\ pc = "install" => \A u \in updaters : u \in bg_tasks \/ child[u] = "done"
  /\ Ended => \A u \in updaters : child[u] = "done"

\* A command that lingers is one of its updater's, whose child has failed or been
\* killed, as long as it is an update that goes on.
CommandsOf(u) ==
  CASE u = "rootfs"   -> {"write", "postinst"}
    [] u = "kernel"   -> {"write"}
    [] u = "stateful" -> {"untar", "mark", "reset"}
    [] u = "minios"   -> {"write", "flip"}

Lingering ==
  \A u \in Updater, c \in Command : <<u, c>> \in lingering =>
    /\ u \in updaters /\ c \in CommandsOf(u)
    /\ Updating => child[u] \in {"failed", "killed"}
    /\ c \in {"postinst", "flip"} => Written(u)

\* How far each partition is.
Progress ==
  /\ \A u \in Partition :
       /\ child[u] = "idle" /\ At(u, "write") => Target(u) = "old"
       /\ child[u] = "busy" /\ At(u, "write") => Target(u) \in {"partial", "new"}
       /\ At(u, "postinst") \/ At(u, "flip") => Written(u)
  /\ \A u \in {"rootfs", "kernel"} :
       Updating /\ child[u] \in {"idle", "done"} /\ step[u] = << >> => Written(u)
  /\ Updating /\ child["stateful"] \in {"idle", "done"} /\ step["stateful"] = << >>
       => stateful = "marked"

\* How far the miniOS is, whose priority is flipped once.
Recovery ==
  Updating =>
    /\ child["minios"] \in {"idle", "busy"} /\ step["minios"] # << >>
         => minios_priority = Other(target_minios)
    /\ child["minios"] \in {"idle", "done"} /\ step["minios"] = << >>
         => skipped \/ (minios_priority = target_minios /\ Written("minios"))

\* What no updater is there for.
Untouched == pc # "start" => \A u \in Partition : u \notin updaters => Target(u) = "old"

\* The device boots nothing but what is new or was never written, and is not told to boot
\* what is still being written.
Preferred ==
  pc # "start" =>
    /\ priority = inactive_state => Written("rootfs")
    /\ booted = inactive_state => Target("rootfs") = "new" /\ Target("kernel") = "new"
    /\ minios_priority = target_minios => Written("minios")

Verified == pc = "done" /\ reboot => booted = inactive_state

IInv ==
  /\ TypeOK /\ AtStart /\ OtherSides /\ Shapes /\ Forked /\ Lingering /\ Progress
  /\ Recovery /\ Untouched /\ Preferred /\ Verified

-----------------------------------------------------------------------------
(* Types, in parts.                                                         *)

DeviceTypes ==
  /\ part \in [Side -> [Partition -> Content]]
  /\ stateful \in {"none", "partial", "unpacked", "marked"}
  /\ priority \in Side /\ minios_priority \in Side /\ booted \in Side

ChoiceTypes ==
  /\ inactive_state \in Side /\ target_minios \in Side
  /\ good \in BOOLEAN /\ reboot \in BOOLEAN /\ updaters \subseteq Updater
  /\ skipped \in BOOLEAN

ParentTypes ==
  /\ truncated \subseteq Updater
  /\ cuts \in 0 .. MaxCuts
  /\ pc \in {"start", "install", "halt", "revert", "reboot", "verify", "done", "raised"}
  /\ bg_tasks \subseteq updaters

LingeringTypes == lingering \subseteq Updater \X Command

ChildTypes ==
  /\ step \in [Updater -> Seq(Command)]
  /\ child \in [Updater -> {"off", "idle", "busy", "done", "failed", "killed"}]
  /\ ran_postinst \in [Updater -> BOOLEAN]

LEMMA TypeParts ==
  /\ TypeOK <=> DeviceTypes /\ ChoiceTypes /\ ParentTypes /\ LingeringTypes /\ ChildTypes
  /\ TypeOK' <=> DeviceTypes' /\ ChoiceTypes' /\ ParentTypes' /\ LingeringTypes' /\ ChildTypes'
BY DEF TypeOK, DeviceTypes, ChoiceTypes, ParentTypes, LingeringTypes, ChildTypes

-----------------------------------------------------------------------------
(* The steps of the updaters.                                               *)

LEMMA Sides == \A s \in Side : Other(s) \in Side /\ Other(s) # s /\ Other(Other(s)) = s
BY DEF Side, Other

\* The head of a list of one or two commands, and what it leaves.
LEMMA HeadsAndTails ==
  /\ \A a : Head(<<a>>) = a /\ Tail(<<a>>) = << >> /\ <<a>> # << >>
  /\ \A a, b : Head(<<a, b>>) = a /\ Tail(<<a, b>>) = <<b>> /\ <<a, b>> # << >>
OBVIOUS

LEMMA ListsOfCommands ==
  /\ << >> \in Seq(Command)
  /\ \A a \in Command : <<a>> \in Seq(Command)
  /\ \A a, b \in Command : <<a, b>> \in Seq(Command)
OBVIOUS

LEMMA StepTypes ==
  ASSUME NEW u \in Updater, NEW s \in StepsOf(u)
  PROVE  s \in Seq(Command)
<1>1. {"write", "postinst", "untar", "mark", "flip", "reset"} \subseteq Command
  BY DEF Command
<1>2. CASE u = "rootfs"
  BY <1>1, <1>2, ListsOfCommands DEF StepsOf
<1>3. CASE u = "kernel"
  BY <1>1, <1>3, ListsOfCommands DEF StepsOf
<1>4. CASE u = "stateful"
  BY <1>1, <1>4, ListsOfCommands DEF StepsOf
<1>5. CASE u = "minios"
  BY <1>1, <1>5, ListsOfCommands DEF StepsOf
<1> QED BY <1>2, <1>3, <1>4, <1>5 DEF Updater

\* What comes first, and what is left of the list after it.
LEMMA StepFacts ==
  ASSUME NEW u \in Updater, NEW s \in StepsOf(u), s # << >>
  PROVE  /\ Head(s) \in CommandsOf(u)
         /\ Tail(s) \in StepsOf(u) /\ Tail(s) # <<"reset">>
         /\ Tail(s) # << >> => /\ Head(Tail(s)) \in {"postinst", "flip", "mark"}
                               /\ u # "stateful" => Head(s) = "write"
         /\ Head(s) = "reset" <=> s = <<"reset">>
         /\ Tail(s) = << >> => u # "kernel" \/ Head(s) = "write"
         /\ Tail(s) = << >> /\ u = "minios" => Head(s) = "flip"
         /\ Head(s) # "write" /\ u = "rootfs" => Head(s) = "postinst"
         /\ Tail(s) = << >> /\ s # <<"reset">> /\ u = "stateful" => Head(s) = "mark"
<1>1. CASE u = "rootfs"
  <2>1. CASE s = <<"write", "postinst">>
    BY <1>1, <2>1, HeadsAndTails DEF StepsOf, CommandsOf
  <2>2. CASE s = <<"postinst">>
    BY <1>1, <2>2, HeadsAndTails DEF StepsOf, CommandsOf
  <2> QED BY <1>1, <2>1, <2>2 DEF StepsOf
<1>2. CASE u = "kernel"
  BY <1>2, HeadsAndTails DEF StepsOf, CommandsOf
<1>3. CASE u = "stateful"
  <2>1. CASE s = <<"untar", "mark">>
    BY <1>3, <2>1, HeadsAndTails DEF StepsOf, CommandsOf
  <2>2. CASE s = <<"mark">>
    BY <1>3, <2>2, HeadsAndTails DEF StepsOf, CommandsOf
  <2>3. CASE s = <<"reset">>
    BY <1>3, <2>3, HeadsAndTails DEF StepsOf, CommandsOf
  <2> QED BY <1>3, <2>1, <2>2, <2>3 DEF StepsOf
<1>4. CASE u = "minios"
  <2>1. CASE s = <<"write", "flip">>
    BY <1>4, <2>1, HeadsAndTails DEF StepsOf, CommandsOf
  <2>2. CASE s = <<"flip">>
    BY <1>4, <2>2, HeadsAndTails DEF StepsOf, CommandsOf
  <2> QED BY <1>4, <2>1, <2>2 DEF StepsOf
<1> QED BY <1>1, <1>2, <1>3, <1>4 DEF Updater

-----------------------------------------------------------------------------
(* The device.                                                              *)

\* What a command or a boot must leave true of the device.
DeviceInv == DeviceTypes /\ OtherSides /\ Preferred

LEMMA TargetTypes ==
  ASSUME ChoiceTypes, NEW u \in Partition
  PROVE  TargetSide(u) \in Side
BY DEF ChoiceTypes, TargetSide

\* A write changes one partition of one side.
LEMMA WriteFacts ==
  ASSUME DeviceInv, ChoiceTypes, NEW u \in Partition, NEW content \in {"partial", "new"},
         Writes(u, content), UNCHANGED choices, pc # "start", pc' # "start",
         truncated \subseteq truncated', content = "partial" => Target(u) = "old"
  PROVE  /\ DeviceInv'
         /\ Target(u)' = content
         /\ \A v \in Partition : v # u => Target(v)' = Target(v)
<1>1. TargetSide(u) \in Side /\ \A v \in Partition : TargetSide(v)' = TargetSide(v)
  BY TargetTypes DEF TargetSide, choices
<1>2. /\ part' = [part EXCEPT ![TargetSide(u)][u] = content]
      /\ UNCHANGED <<stateful, priority, minios_priority, booted, inactive_state, target_minios>>
      /\ \A v \in Partition : TargetSide(v) \in Side
  BY TargetTypes DEF Writes, choices
<1>3. DeviceTypes'
  BY <1>1, <1>2 DEF DeviceInv, DeviceTypes, Content
<1>4. /\ part'[TargetSide(u)][u] = content
      /\ \A s \in Side, v \in Partition : <<s, v>> # <<TargetSide(u), u>> => part'[s][v] = part[s][v]
  BY <1>1, <1>2 DEF DeviceInv, DeviceTypes
<1>5. Target(u)' = content /\ \A v \in Partition : v # u => Target(v)' = Target(v)
  BY <1>1, <1>2, <1>4 DEF Target
<1>6. OtherSides'
  <2>1. /\ Other(inactive_state) \in Side /\ Other(inactive_state) # inactive_state
        /\ Other(target_minios) \in Side /\ Other(target_minios) # target_minios
    BY Sides DEF ChoiceTypes
  <2> QED BY <1>2, <1>4, <2>1 DEF DeviceInv, OtherSides, TargetSide, Partition
<1>7. Preferred'
  <2>1. {"rootfs", "kernel", "minios"} = Partition
    BY DEF Partition
  <2>2. Target("rootfs") = "new" => Target("rootfs")' = "new"
    BY <1>5, <2>1
  <2>3. Target("kernel") = "new" => Target("kernel")' = "new"
    BY <1>5, <2>1
  <2>4. Written("rootfs") => Written("rootfs")'
    BY <1>5, <2>1 DEF Written
  <2>5. Written("minios") => Written("minios")'
    BY <1>5, <2>1 DEF Written
  <2> QED BY <1>2, <2>2, <2>3, <2>4, <2>5 DEF DeviceInv, Preferred, choices
<1> QED BY <1>3, <1>5, <1>6, <1>7 DEF DeviceInv

LEMMA NoWriteFacts ==
  ASSUME DeviceInv, ChoiceTypes, UNCHANGED <<part, booted, choices>>, pc # "start", pc' # "start",
         truncated \subseteq truncated',
         stateful' \in {"none", "partial", "unpacked", "marked"},
         priority' \in {priority, Other(inactive_state)}
           \/ (priority' = inactive_state /\ Written("rootfs")),
         minios_priority' = minios_priority
           \/ (minios_priority' = Other(minios_priority) /\ Written("minios"))
  PROVE  /\ DeviceInv'
         /\ \A v \in Partition : Target(v)' = Target(v)
<1>1. \A v \in Partition : TargetSide(v)' = TargetSide(v) /\ Target(v)' = Target(v)
  BY DEF TargetSide, Target, choices
<1>2. DeviceTypes'
  BY Sides DEF DeviceInv, DeviceTypes, ChoiceTypes
<1>3. OtherSides'
  BY DEF DeviceInv, OtherSides, choices
<1>4. Preferred'
  <2>1. \A v \in Partition : Written(v) => Written(v)'
    BY <1>1 DEF Written
  <2>2. /\ Other(inactive_state) # inactive_state /\ Other(target_minios) # target_minios
        /\ Other(Other(target_minios)) = target_minios
    BY Sides DEF ChoiceTypes
  <2>3. priority' = inactive_state' => Written("rootfs")'
    <3>1. priority' = inactive_state => Written("rootfs")
      BY <2>2 DEF DeviceInv, Preferred
    <3> QED BY <2>1, <3>1 DEF choices, Partition
  <2>4. booted' = inactive_state' => Target("rootfs")' = "new" /\ Target("kernel")' = "new"
    BY <1>1 DEF DeviceInv, Preferred, choices, Partition
  <2>5. minios_priority' = target_minios' => Written("minios")'
    <3>1. minios_priority' = target_minios => Written("minios")
      BY DEF DeviceInv, Preferred
    <3> QED BY <2>1, <3>1 DEF choices, Partition
  <2> QED BY <2>3, <2>4, <2>5 DEF Preferred
<1> QED BY <1>1, <1>2, <1>3, <1>4 DEF DeviceInv

\* A boot chooses a side that is whole.
LEMMA BootFacts ==
  ASSUME DeviceInv, ChoiceTypes, Boot, UNCHANGED <<truncated, choices>>, pc # "start",
         pc' # "start"
  PROVE  /\ DeviceInv'
         /\ \A v \in Partition : Target(v)' = Target(v)
         /\ stateful' = stateful
<1>1. \A v \in Partition : TargetSide(v)' = TargetSide(v) /\ Target(v)' = Target(v)
  BY DEF TargetSide, Target, choices, Boot
<1>2. DeviceTypes'
  BY Sides DEF DeviceInv, DeviceTypes, Boot
<1>3. OtherSides'
  BY DEF DeviceInv, OtherSides, choices, Boot
<1>4. Preferred'
  <2>1. Target("rootfs") = part[inactive_state].rootfs /\ Target("kernel") = part[inactive_state].kernel
    BY DEF Target, TargetSide
  <2>2. priority = Other(inactive_state) => Boots(priority)
    BY DEF DeviceInv, OtherSides, Boots
  <2>3. booted' = inactive_state => priority = inactive_state /\ Boots(priority)
    BY <2>2, Sides DEF Boot, DeviceInv, DeviceTypes, ChoiceTypes, Side, Other
  <2>4. priority' = booted' /\ minios_priority' = minios_priority
    BY DEF Boot
  <2>5. \A v \in Partition : Written(v) => Written(v)'
    BY <1>1 DEF Written
  <2>6. Target("rootfs")' = Target("rootfs") /\ Target("kernel")' = Target("kernel")
    BY <1>1 DEF Partition
  <2>7. booted' = inactive_state => Target("rootfs") = "new" /\ Target("kernel") = "new"
    <3> SUFFICES ASSUME booted' = inactive_state
                 PROVE  Target("rootfs") = "new" /\ Target("kernel") = "new"
      OBVIOUS
    <3>1. Boots(inactive_state) /\ Written("rootfs")
      BY <2>3 DEF DeviceInv, Preferred
    <3>2. Target("rootfs") = Target("kernel") /\ Target("rootfs") # "partial"
      BY <2>1, <3>1 DEF Boots
    <3> QED BY <3>1, <3>2 DEF Written
  <2>8. minios_priority' = target_minios' => Written("minios")'
    BY <2>4, <2>5 DEF DeviceInv, Preferred, choices, Partition
  <2> QED BY <2>4, <2>5, <2>6, <2>7, <2>8 DEF Preferred, Written, choices, Partition
<1> QED BY <1>1, <1>2, <1>3, <1>4 DEF DeviceInv, Boot

\* What the completion of a command does.
LEMMA CompletesFacts ==
  ASSUME DeviceInv, ChoiceTypes, NEW u \in Updater, NEW c \in CommandsOf(u), Completes(u, c),
         UNCHANGED choices, pc # "start", pc' # "start", truncated \subseteq truncated',
         c \in {"postinst", "flip"} => Written(u)
  PROVE  /\ DeviceInv' /\ booted' = booted
         /\ \A v \in Partition : Target(v)' = IF v = u /\ c = "write" THEN "new" ELSE Target(v)
         /\ u # "stateful" => stateful' = stateful
         /\ c = "mark" => stateful' = "marked"
         /\ minios_priority' = IF c = "flip" THEN Other(minios_priority) ELSE minios_priority
<1>1. CASE c = "write"
  <2>1. u \in Partition /\ Writes(u, "new") /\ u # "stateful"
    BY <1>1 DEF Completes, CommandsOf, Partition, Updater
  <2> QED BY <1>1, <2>1, WriteFacts DEF Writes
<1>2. CASE u = "stateful"
  <2>1. c \in {"untar", "mark", "reset"}
    BY <1>2 DEF CommandsOf
  <2>2. /\ Stateful("unpacked") \/ Stateful("marked") \/ Stateful("none")
        /\ c = "mark" => Stateful("marked")
    BY <2>1 DEF Completes
  <2> QED BY <1>2, <2>1, <2>2, NoWriteFacts DEF Stateful
<1>3. CASE u = "rootfs" /\ c = "postinst"
  <2>1. Prioritises(inactive_state) /\ Written("rootfs")
    BY <1>3 DEF Completes
  <2> QED BY <1>3, <2>1, NoWriteFacts DEF Prioritises, DeviceInv, DeviceTypes
<1>4. CASE u = "minios" /\ c = "flip"
  <2>1. /\ minios_priority' = Other(minios_priority) /\ Written("minios")
        /\ UNCHANGED <<part, stateful, priority, booted>>
    BY <1>4 DEF Completes
  <2> QED BY <1>4, <2>1, NoWriteFacts DEF DeviceInv, DeviceTypes
<1> QED BY <1>1, <1>2, <1>3, <1>4 DEF CommandsOf, Updater

\* What its beginning does.
LEMMA StartsFacts ==
  ASSUME DeviceInv, ChoiceTypes, NEW u \in Updater, NEW c \in CommandsOf(u), Starts(u, c),
         UNCHANGED choices, pc # "start", pc' # "start", truncated \subseteq truncated',
         c = "write" => Target(u) = "old"
  PROVE  /\ DeviceInv' /\ booted' = booted
         /\ \A v \in Partition : v # u \/ c # "write" => Target(v)' = Target(v)
         /\ c = "write" => Target(u)' = "partial"
         /\ u # "stateful" => stateful' = stateful
         /\ minios_priority' = minios_priority
<1>1. CASE c = "write"
  <2>1. u \in Partition /\ Writes(u, "partial") /\ u # "stateful"
    BY <1>1 DEF Starts, CommandsOf, Partition, Updater
  <2> QED BY <1>1, <2>1, WriteFacts DEF Writes
<1>2. CASE c # "write" /\ u = "stateful"
  <2>1. Stateful("partial") \/ UNCHANGED device
    BY <1>2 DEF Starts, CommandsOf
  <2> QED BY <1>2, <2>1, NoWriteFacts DEF Stateful, device, DeviceInv, DeviceTypes
<1>3. CASE c # "write" /\ u # "stateful"
  <2>1. UNCHANGED device
    BY <1>3 DEF Starts, CommandsOf, Updater
  <2> QED BY <1>3, <2>1, NoWriteFacts DEF device, DeviceInv, DeviceTypes
<1> QED BY <1>1, <1>2, <1>3

-----------------------------------------------------------------------------
(* The children's steps.                                                    *)

LEMMA IInvParts ==
  /\ IInv <=> /\ ChoiceTypes /\ ParentTypes /\ LingeringTypes /\ ChildTypes /\ DeviceInv
              /\ AtStart /\ Shapes /\ Forked /\ Lingering /\ Progress /\ Recovery /\ Untouched
              /\ Verified
  /\ IInv' <=> /\ ChoiceTypes' /\ ParentTypes' /\ LingeringTypes' /\ ChildTypes' /\ DeviceInv'
               /\ AtStart' /\ Shapes' /\ Forked' /\ Lingering' /\ Progress' /\ Recovery'
               /\ Untouched' /\ Verified'
BY TypeParts DEF IInv, DeviceInv

LEMMA CommandTypes == \A u \in Updater : CommandsOf(u) \subseteq Command
BY DEF CommandsOf, Updater, Command

\* A child that runs: the imager is at work, and the next command is one of its own.
LEMMA AliveFacts ==
  ASSUME IInv, NEW u \in Updater, Alive(u)
  PROVE  /\ pc \in {"install", "halt", "revert"} /\ u \in updaters
         /\ pc # "revert" => Updating
         /\ pc = "revert" /\ u \in Partition => step[u] = << >>
         /\ ~Ended
         /\ step[u] \in StepsOf(u)
         /\ step[u] # << >> => Head(step[u]) \in CommandsOf(u)
<1>1. pc \in {"install", "halt", "revert"} /\ step[u] \in StepsOf(u) /\ u \in updaters
  BY DEF IInv, Forked, Shapes, Alive
<1> QED BY <1>1, StepFacts DEF IInv, Updating, Ended, Shapes

LEMMA RecoveryKept ==
  ASSUME IInv, UNCHANGED <<minios_priority, choices>>, Updating' => Updating,
         Written("minios") => Written("minios")', step'["minios"] = step["minios"],
         \/ child'["minios"] = child["minios"]
         \/ child'["minios"] \in {"failed", "killed"}
         \/ child["minios"] = "idle" /\ child'["minios"] = "busy" /\ step["minios"] # << >>
         \/ child["minios"] = "idle" /\ child'["minios"] = "done" /\ step["minios"] = << >>
  PROVE  Recovery'
BY DEF IInv, Recovery, choices

LEMMA UntouchedKept ==
  ASSUME IInv, pc # "start", UNCHANGED choices,
         \A v \in Partition : v \notin updaters => Target(v)' = Target(v)
  PROVE  Untouched'
BY DEF IInv, Untouched, choices

LEMMA SendKeepsIInv ==
  ASSUME IInv, NEW u \in Updater, Send(u)
  PROVE  IInv'
<1> DEFINE c == Head(step[u])
<1>1. /\ child[u] = "idle" /\ step[u] # << >>
      /\ child' = [child EXCEPT ![u] = "busy"]
      /\ ran_postinst' = [ran_postinst EXCEPT ![u] = @ \/ c = "postinst"]
      /\ Starts(u, c)
      /\ UNCHANGED <<lingering, cuts, truncated, choices, pc, bg_tasks, step>>
  BY DEF Send
<1>2. /\ pc \in {"install", "halt", "revert"} /\ u \in updaters
      /\ c \in CommandsOf(u) /\ ~Ended
  BY <1>1, AliveFacts DEF Alive
<1>3. c = "write" => Target(u) = "old" /\ u \in Partition
  BY <1>1, <1>2 DEF IInv, Progress, At, CommandsOf, Updater, Partition
<1>4. /\ DeviceInv' /\ booted' = booted
      /\ \A v \in Partition : v # u \/ c # "write" => Target(v)' = Target(v)
      /\ c = "write" => Target(u)' = "partial"
      /\ u # "stateful" => stateful' = stateful
      /\ minios_priority' = minios_priority
  BY <1>1, <1>2, <1>3, StartsFacts, IInvParts
<1>5. ChoiceTypes' /\ ParentTypes' /\ LingeringTypes' /\ ChildTypes'
  BY <1>1, IInvParts DEF ChoiceTypes, ParentTypes, LingeringTypes, ChildTypes, choices
<1>6. AtStart' /\ Verified'
  BY <1>1, <1>2 DEF AtStart, Verified
<1>7. Shapes' /\ Forked'
  BY <1>1, <1>2 DEF IInv, TypeOK, Shapes, Forked, Alive, Updating, Ended, choices
<1>8. \A v \in Partition : Written(v) => Written(v)'
  BY <1>1, <1>3, <1>4 DEF Written
<1>9. Lingering'
  <2>1. ASSUME NEW v \in Updater, NEW d \in Command, <<v, d>> \in lingering
        PROVE  /\ v \in updaters /\ d \in CommandsOf(v)
               /\ Updating => child'[v] \in {"failed", "killed"}
               /\ d \in {"postinst", "flip"} => Written(v)'
    <3>1. d \in {"postinst", "flip"} => v \in Partition
      BY <2>1 DEF IInv, Lingering, CommandsOf, Updater, Partition
    <3> QED BY <1>1, <1>8, <2>1, <3>1 DEF IInv, TypeOK, Lingering
  <2> QED BY <1>1, <2>1 DEF Lingering, Updating, choices
<1>10. Progress'
  <2>1. ASSUME NEW v \in Partition
        PROVE  /\ child'[v] = "idle" /\ At(v, "write") => Target(v)' = "old"
               /\ child'[v] = "busy" /\ At(v, "write") => Target(v)' \in {"partial", "new"}
               /\ At(v, "postinst") \/ At(v, "flip") => Written(v)'
               /\ Updating /\ child'[v] \in {"idle", "done"} /\ step[v] = << >>
                    /\ v \in {"rootfs", "kernel"} => Written(v)'
    <3>1. child'[v] = IF v = u THEN "busy" ELSE child[v]
      BY <1>1, <2>1 DEF IInv, TypeOK, Partition, Updater
    <3>2. child'[v] = "busy" /\ At(v, "write") => Target(v)' \in {"partial", "new"}
      BY <1>4, <2>1, <3>1 DEF IInv, Progress, At
    <3>3. child'[v] = "idle" /\ At(v, "write") => Target(v)' = "old"
      BY <1>4, <2>1, <3>1 DEF IInv, Progress
    <3> QED BY <1>8, <2>1, <3>1, <3>2, <3>3 DEF IInv, Progress
  <2>2. Updating /\ child'["stateful"] \in {"idle", "done"} /\ step["stateful"] = << >>
          => stateful' = "marked"
    BY <1>1, <1>4 DEF IInv, TypeOK, Progress, Updater
  <2> QED BY <1>1, <2>1, <2>2 DEF Progress, At, Updating, Partition
<1>11. Recovery'
  <2>1. child'["minios"] = child["minios"] \/ (u = "minios" /\ child'["minios"] = "busy")
    BY <1>1 DEF IInv, TypeOK, Updater
  <2> QED BY <1>1, <1>4, <1>8, <2>1, RecoveryKept DEF Updating, Partition
<1>12. Untouched'
  BY <1>1, <1>2, <1>4, UntouchedKept
<1> QED BY <1>4, <1>5, <1>6, <1>7, <1>9, <1>10, <1>11, <1>12, IInvParts

LEMMA AnswerKeepsIInv ==
  ASSUME IInv, NEW u \in Updater, Answer(u)
  PROVE  IInv'
<1> DEFINE c == Head(step[u])
<1>1. /\ child[u] = "busy" /\ step[u] # << >>
      /\ child' = [child EXCEPT ![u] = "idle"]
      /\ step' = [step EXCEPT ![u] = Tail(@)]
      /\ ran_postinst' = [ran_postinst EXCEPT ![u] = @ \/ c = "flip"]
      /\ (Completes(u, c) /\ UNCHANGED truncated) \/ EndsEarly(u, c)
      /\ UNCHANGED <<lingering, cuts, choices, pc, bg_tasks>>
  BY DEF Answer, IInv, Forked
<1>2. /\ pc \in {"install", "halt", "revert"} /\ u \in updaters
      /\ c \in CommandsOf(u) /\ ~Ended /\ step[u] \in StepsOf(u)
      /\ pc = "revert" => u \notin Partition
      /\ pc # "revert" => Updating
  BY <1>1, AliveFacts DEF Alive
<1>3. c \in {"postinst", "flip"} => Written(u) /\ u \in Partition
  BY <1>1, <1>2 DEF IInv, Progress, At, CommandsOf, Updater, Partition
<1>3a. truncated \subseteq truncated' /\ truncated' \subseteq Updater
  BY <1>1 DEF EndsEarly, IInv, TypeOK
<1>3b. c = "write" => u \in Partition /\ Target(u) \in {"partial", "new"}
  BY <1>1, <1>2 DEF IInv, Progress, At, CommandsOf, Updater, Partition
<1>4. /\ DeviceInv' /\ booted' = booted
      /\ \A v \in Partition : v # u => Target(v)' = Target(v)
      /\ \A v \in Partition : Written(v) => Written(v)'
      /\ c = "write" => Written(u)'
      /\ u # "stateful" => stateful' = stateful
      /\ c = "mark" => stateful' = "marked"
      /\ minios_priority' = IF c = "flip" THEN Other(minios_priority) ELSE minios_priority
  <2>1. CASE Completes(u, c)
    <3>1. /\ DeviceInv' /\ booted' = booted
          /\ \A v \in Partition : Target(v)' = IF v = u /\ c = "write" THEN "new" ELSE Target(v)
          /\ u # "stateful" => stateful' = stateful
          /\ c = "mark" => stateful' = "marked"
          /\ minios_priority' = IF c = "flip" THEN Other(minios_priority) ELSE minios_priority
      BY <1>1, <1>2, <1>3, <1>3a, <2>1, CompletesFacts, IInvParts
    <3> QED BY <1>3a, <1>3b, <3>1 DEF Written
  <2>2. CASE EndsEarly(u, c)
    <3>1. /\ UNCHANGED device /\ c \in {"write", "untar"} /\ u \in truncated'
      BY <2>2 DEF EndsEarly
    <3>2. DeviceInv' /\ \A v \in Partition : Target(v)' = Target(v)
      BY <1>1, <1>2, <1>3a, <3>1, NoWriteFacts, IInvParts DEF device, DeviceInv, DeviceTypes
    <3> QED BY <1>3a, <1>3b, <3>1, <3>2 DEF Written, device
  <2> QED BY <1>1, <2>1, <2>2
<1>5. /\ Tail(step[u]) \in StepsOf(u) /\ Tail(step[u]) # <<"reset">>
      /\ Tail(step[u]) # << >> => /\ Head(Tail(step[u])) \in {"postinst", "flip", "mark"}
                                  /\ u # "stateful" => c = "write"
      /\ Tail(step[u]) = << >> => u # "kernel" \/ c = "write"
      /\ u = "rootfs" /\ c # "write" => c = "postinst"
      /\ Tail(step[u]) = << >> /\ step[u] # <<"reset">> /\ u = "stateful" => c = "mark"
  BY <1>1, <1>2, StepFacts
<1>6. Tail(step[u]) \in Seq(Command)
  BY <1>5, StepTypes
<1>7. ChoiceTypes' /\ ParentTypes' /\ LingeringTypes' /\ ChildTypes'
  BY <1>1, <1>6, <1>3a, IInvParts
  DEF ChoiceTypes, ParentTypes, LingeringTypes, ChildTypes, choices
<1>8. AtStart' /\ Verified'
  BY <1>1, <1>2, <1>4 DEF AtStart, Verified, choices
<1>9. Shapes'
  BY <1>1, <1>2, <1>5 DEF IInv, TypeOK, Shapes, Updating
<1>10. Forked'
  BY <1>1, <1>2 DEF IInv, TypeOK, Forked, Alive, Ended, choices
<1>12. Lingering'
  <2>1. ASSUME NEW v \in Updater, NEW d \in Command, <<v, d>> \in lingering
        PROVE  /\ v \in updaters /\ d \in CommandsOf(v)
               /\ Updating => child'[v] \in {"failed", "killed"}
               /\ d \in {"postinst", "flip"} => Written(v)'
    <3>1. d \in {"postinst", "flip"} => v \in Partition
      BY <2>1 DEF IInv, Lingering, CommandsOf, Updater, Partition
    <3> QED BY <1>1, <1>4, <2>1, <3>1 DEF IInv, TypeOK, Lingering
  <2> QED BY <1>1, <2>1 DEF Lingering, Updating, choices
<1>13. Progress'
  <2>1. \A v \in Updater : v # u => step'[v] = step[v] /\ child'[v] = child[v]
    BY <1>1 DEF IInv, TypeOK
  <2>2. step'[u] = Tail(step[u]) /\ child'[u] = "idle"
    BY <1>1 DEF IInv, TypeOK
  <2>3. ASSUME NEW v \in Partition, v # u
        PROVE  /\ child'[v] = "idle" /\ At(v, "write")' => Target(v)' = "old"
               /\ child'[v] = "busy" /\ At(v, "write")' => Target(v)' \in {"partial", "new"}
               /\ At(v, "postinst")' \/ At(v, "flip")' => Written(v)'
               /\ Updating' /\ child'[v] \in {"idle", "done"} /\ step'[v] = << >>
                    /\ v \in {"rootfs", "kernel"} => Written(v)'
    BY <1>1, <1>4, <2>1, <2>3 DEF IInv, Progress, At, Updating, Partition, Updater
  <2>4. ASSUME u \in Partition
        PROVE  /\ ~At(u, "write")'
               /\ At(u, "postinst")' \/ At(u, "flip")' => Written(u)'
               /\ step'[u] = << >> /\ u \in {"rootfs", "kernel"} => Written(u)'
    <3>1. u # "stateful"
      BY <2>4 DEF Partition
    <3>2. ~At(u, "write")'
      BY <1>5, <2>2 DEF At
    <3>3. At(u, "postinst")' \/ At(u, "flip")' => c = "write"
      BY <1>5, <2>2, <3>1 DEF At
    <3>4. step'[u] = << >> /\ u \in {"rootfs", "kernel"} => c = "write" \/ c = "postinst"
      BY <1>5, <2>2
    <3> QED BY <1>3, <1>4, <2>4, <3>2, <3>3, <3>4
  <2>5. Updating' /\ child'["stateful"] \in {"idle", "done"} /\ step'["stateful"] = << >>
          => stateful' = "marked"
    <3>1. CASE u = "stateful"
      BY <1>1, <1>4, <1>5, <2>2, <3>1 DEF IInv, Shapes, Updating
    <3>2. CASE u # "stateful"
      BY <1>1, <1>4, <2>1, <3>2 DEF IInv, Progress, Updating, Updater
    <3> QED BY <3>1, <3>2
  <2> QED BY <2>3, <2>4, <2>5 DEF Progress, Partition
<1>14. Recovery'
  <2>1. CASE u # "minios"
    <3>1. step'["minios"] = step["minios"] /\ child'["minios"] = child["minios"]
      BY <1>1, <2>1 DEF IInv, TypeOK, Updater
    <3>2. c # "flip"
      BY <1>2, <2>1 DEF CommandsOf, Updater
    <3> QED BY <1>1, <1>4, <3>1, <3>2, RecoveryKept DEF Updating, Partition
  <2>2. CASE u = "minios"
    <3>1. step'[u] = Tail(step[u]) /\ child'[u] = "idle" /\ u \in Partition /\ u # "stateful"
      BY <1>1, <2>2 DEF IInv, TypeOK, Partition
    <3>2. minios_priority = Other(target_minios)
      BY <1>1, <1>2, <2>2, <3>1 DEF IInv, Recovery
    <3>3. step'[u] # << >> => c = "write"
      BY <1>5, <3>1
    <3>4. step'[u] = << >> => c = "flip"
      BY <1>1, <1>2, <2>2, <3>1, StepFacts DEF CommandsOf
    <3>5. Other(Other(target_minios)) = target_minios
      BY Sides DEF IInv, TypeOK
    <3> QED BY <1>1, <1>3, <1>4, <2>2, <3>1, <3>2, <3>3, <3>4, <3>5 DEF Recovery, choices
  <2> QED BY <2>1, <2>2
<1>15. Untouched'
  BY <1>1, <1>2, <1>4, UntouchedKept
<1> QED BY <1>4, <1>7, <1>8, <1>9, <1>10, <1>12, <1>13, <1>14, <1>15, IInvParts

\* Steps that leave the device alone, and the commands, or have some linger that may.
LEMMA DeviceAlone ==
  ASSUME IInv, UNCHANGED <<device, truncated, choices>>, pc # "start", pc' # "start"
  PROVE  /\ DeviceInv' /\ ChoiceTypes' /\ AtStart' /\ Untouched'
         /\ \A v \in Partition : Target(v)' = Target(v) /\ (Written(v) => Written(v)')
<1>1. DeviceInv' /\ \A v \in Partition : Target(v)' = Target(v)
  BY NoWriteFacts, IInvParts DEF device, DeviceInv, DeviceTypes
<1> QED BY <1>1, IInvParts, UntouchedKept DEF ChoiceTypes, AtStart, Written, choices

\* The command of a busy child may linger, if the child is no more.
LEMMA SshDiesFacts ==
  ASSUME IInv, NEW u \in Updater, child[u] = "busy", SshDies(u),
         UNCHANGED <<device, truncated, choices, pc>>,
         Updating => child'[u] \in {"failed", "killed"},
         \A v \in Updater : child[v] \in {"failed", "killed"} => child'[v] = child[v]
  PROVE  LingeringTypes' /\ Lingering'
<1> DEFINE c == Head(step[u])
<1>1. /\ pc # "start" /\ step[u] # << >> /\ u \in updaters /\ c \in CommandsOf(u)
      /\ c \in {"postinst", "flip"} => u \in Partition /\ Written(u)
  <2>1. pc # "start" /\ step[u] # << >> /\ u \in updaters /\ c \in CommandsOf(u)
    BY AliveFacts DEF Alive, IInv, Forked
  <2>2. c \in {"postinst", "flip"} => u \in Partition
    BY <2>1 DEF CommandsOf, Updater, Partition
  <2> QED BY <2>1, <2>2 DEF IInv, Progress, At
<1>2. \A v \in Partition : Written(v) => Written(v)'
  BY <1>1, DeviceAlone
<1>3. lingering' \subseteq lingering \cup {<<u, c>>} /\ c \in Command
  BY <1>1, CommandTypes DEF SshDies
<1>4. LingeringTypes'
  BY <1>3, IInvParts DEF LingeringTypes
<1>5. ASSUME NEW v \in Updater, NEW d \in Command, <<v, d>> \in lingering'
      PROVE  /\ v \in updaters /\ d \in CommandsOf(v)
             /\ Updating => child'[v] \in {"failed", "killed"}
             /\ d \in {"postinst", "flip"} => Written(v)'
  <2>1. CASE v = u /\ d = c
    BY <1>1, <1>2, <2>1
  <2>2. CASE <<v, d>> \in lingering
    <3>1. d \in {"postinst", "flip"} => v \in Partition
      BY <2>2 DEF IInv, Lingering, CommandsOf, Updater, Partition
    <3> QED BY <1>2, <2>2, <3>1 DEF IInv, Lingering
  <2> QED BY <1>3, <1>5, <2>1, <2>2
<1> QED BY <1>4, <1>5 DEF Lingering, Updating, choices

LEMMA LingeringAlone ==
  ASSUME IInv, UNCHANGED <<device, truncated, choices>>, pc # "start", pc' # "start",
         lingering' \subseteq lingering,
         Updating' => Updating,
         \A v \in Updater : Updating' /\ child[v] \in {"failed", "killed"} => child'[v] = child[v]
  PROVE  LingeringTypes' /\ Lingering'
<1>1. \A v \in Partition : Written(v) => Written(v)'
  BY DeviceAlone
<1>2. ASSUME NEW v \in Updater, NEW d \in Command, <<v, d>> \in lingering'
      PROVE  /\ v \in updaters /\ d \in CommandsOf(v)
             /\ Updating' => child'[v] \in {"failed", "killed"}
             /\ d \in {"postinst", "flip"} => Written(v)'
  <2>1. d \in {"postinst", "flip"} => v \in Partition
    BY <1>2 DEF IInv, Lingering, CommandsOf, Updater, Partition
  <2> QED BY <1>1, <1>2, <2>1 DEF IInv, Lingering
<1> QED BY <1>2, IInvParts DEF Lingering, LingeringTypes, choices

LEMMA FailKeepsIInv ==
  ASSUME IInv, NEW u \in Updater, Fail(u)
  PROVE  IInv'
<1>1. child[u] = "busy" /\ UNCHANGED <<device, cuts, truncated, choices, pc, bg_tasks, ran_postinst>>
  BY DEF Fail
<1>2. /\ pc \in {"install", "halt", "revert"} /\ u \in updaters /\ ~Ended
      /\ step[u] \in StepsOf(u) /\ step[u] # << >>
  BY <1>1, AliveFacts DEF Alive, IInv, Forked
<1>3. /\ DeviceInv' /\ ChoiceTypes' /\ AtStart' /\ Untouched'
      /\ \A v \in Partition : Target(v)' = Target(v) /\ (Written(v) => Written(v)')
  BY <1>1, <1>2, DeviceAlone
<1>4. Verified'
  BY <1>1, <1>2 DEF Verified
<1>5. CASE /\ Head(step[u]) = "reset"
           /\ child' = [child EXCEPT ![u] = "idle"] /\ step' = [step EXCEPT ![u] = Tail(@)]
           /\ UNCHANGED lingering
  <2>1. u = "stateful" /\ step[u] = <<"reset">> /\ ~Updating
    <3>1. step[u] = <<"reset">> /\ "reset" \in CommandsOf(u)
      BY <1>2, <1>5, StepFacts
    <3>2. u = "stateful"
      BY <3>1 DEF CommandsOf, Updater
    <3> QED BY <3>1, <3>2 DEF IInv, Shapes
  <2>2. /\ child'[u] = "idle" /\ step'[u] = << >> /\ step' = [step EXCEPT ![u] = << >>]
        /\ \A v \in Updater : v # u => child'[v] = child[v] /\ step'[v] = step[v]
    BY <1>5, <2>1, HeadsAndTails DEF IInv, TypeOK
  <2>3. LingeringTypes' /\ Lingering'
    BY <1>1, <1>2, <1>5, <2>1, LingeringAlone DEF Updating
  <2>4. ParentTypes' /\ ChildTypes'
    BY <1>1, <1>5, <2>2, IInvParts, ListsOfCommands DEF ParentTypes, ChildTypes, choices
  <2>5. Shapes'
    <3>1. << >> \in StepsOf(u)
      BY <2>1 DEF StepsOf
    <3> QED BY <1>1, <2>1, <2>2, <3>1 DEF IInv, Shapes, Updating
  <2>6. Forked'
    BY <1>1, <1>2, <2>1, <2>2 DEF IInv, Forked, Alive, Updating, Ended, choices
  <2>7. Progress'
    BY <1>1, <1>3, <2>1, <2>2 DEF IInv, Progress, At, Updating, Partition, Updater
  <2>8. Recovery'
    BY <1>1, <2>1 DEF Recovery, Updating
  <2> QED BY <1>3, <1>4, <2>3, <2>4, <2>5, <2>6, <2>7, <2>8, IInvParts
<1>6. CASE child' = [child EXCEPT ![u] = "failed"] /\ UNCHANGED step /\ SshDies(u)
  <2>1. child'[u] = "failed" /\ \A v \in Updater : v # u => child'[v] = child[v]
    BY <1>6 DEF IInv, TypeOK
  <2>2. LingeringTypes' /\ Lingering'
    BY <1>1, <1>6, <2>1, SshDiesFacts
  <2>3. ParentTypes' /\ ChildTypes'
    BY <1>1, <1>6, IInvParts DEF ParentTypes, ChildTypes, choices
  <2>4. Shapes' /\ Forked'
    BY <1>1, <1>2, <1>6, <2>1 DEF IInv, Shapes, Forked, Alive, Updating, Ended, choices
  <2>5. Progress'
    BY <1>1, <1>3, <1>6, <2>1 DEF IInv, Progress, At, Updating, device, Partition, Updater
  <2>6. Recovery'
    BY <1>1, <1>3, <1>6, <2>1, RecoveryKept DEF Updating, device, Partition, Updater
  <2> QED BY <1>3, <1>4, <2>2, <2>3, <2>4, <2>5, <2>6, IInvParts
<1> QED BY <1>5, <1>6 DEF Fail

LEMMA FinishKeepsIInv ==
  ASSUME IInv, NEW u \in Updater, Finish(u)
  PROVE  IInv'
<1>1. /\ child[u] = "idle" /\ step[u] = << >>
      /\ child' = [child EXCEPT ![u] = "done"]
      /\ UNCHANGED <<device, lingering, cuts, truncated, choices, pc, bg_tasks, step, ran_postinst>>
  BY DEF Finish
<1>2. pc \in {"install", "halt", "revert"} /\ u \in updaters /\ ~Ended
  BY <1>1, AliveFacts DEF Alive
<1>3. \A v \in Updater : child'[v] = IF v = u THEN "done" ELSE child[v]
  BY <1>1 DEF IInv, TypeOK
<1>4. /\ DeviceInv' /\ ChoiceTypes' /\ AtStart' /\ Untouched'
      /\ \A v \in Partition : Target(v)' = Target(v) /\ (Written(v) => Written(v)')
  BY <1>1, <1>2, DeviceAlone
<1>5. LingeringTypes' /\ Lingering'
  BY <1>1, <1>2, <1>3, LingeringAlone DEF Updating
<1>6. ParentTypes' /\ ChildTypes'
  BY <1>1, IInvParts DEF ParentTypes, ChildTypes, choices
<1>7. Shapes' /\ Forked'
  BY <1>1, <1>2, <1>3 DEF IInv, Shapes, Forked, Alive, Updating, Ended, choices
<1>8. Progress'
  BY <1>1, <1>3, <1>4 DEF IInv, Progress, At, Updating, device, Partition, Updater
<1>9. Verified'
  BY <1>1, <1>2 DEF Verified
<1>10. Recovery'
  BY <1>1, <1>3, <1>4, RecoveryKept DEF Updating, device, Partition, Updater
<1> QED BY <1>4, <1>5, <1>6, <1>7, <1>8, <1>9, <1>10, IInvParts

LEMMA KillKeepsIInv ==
  ASSUME IInv, NEW u \in Updater, Kill(u)
  PROVE  IInv'
<1>1. /\ pc = "halt" /\ u \in bg_tasks /\ Alive(u)
      /\ child' = [child EXCEPT ![u] = "killed"]
      /\ IF child[u] = "busy" THEN SshDies(u) ELSE UNCHANGED lingering
      /\ UNCHANGED <<device, cuts, truncated, choices, pc, bg_tasks, step, ran_postinst>>
  BY DEF Kill
<1>2. u \in updaters /\ ~Ended
  BY <1>1, AliveFacts
<1>3. \A v \in Updater : child'[v] = IF v = u THEN "killed" ELSE child[v]
  BY <1>1 DEF IInv, TypeOK
<1>4. /\ DeviceInv' /\ ChoiceTypes' /\ AtStart' /\ Untouched'
      /\ \A v \in Partition : Target(v)' = Target(v) /\ (Written(v) => Written(v)')
  BY <1>1, DeviceAlone
<1>5. LingeringTypes' /\ Lingering'
  <2>1. CASE child[u] = "busy"
    BY <1>1, <1>3, <2>1, SshDiesFacts DEF Alive
  <2>2. CASE child[u] # "busy"
    BY <1>1, <1>3, <2>2, LingeringAlone DEF Alive, Updating
  <2> QED BY <2>1, <2>2
<1>6. ParentTypes' /\ ChildTypes'
  BY <1>1, IInvParts DEF ParentTypes, ChildTypes, choices
<1>7. Shapes' /\ Forked'
  BY <1>1, <1>2, <1>3 DEF IInv, Shapes, Forked, Alive, Updating, Ended, choices
<1>8. Progress'
  BY <1>1, <1>3, <1>4 DEF IInv, Progress, At, Updating, device, Partition, Updater
<1>9. Verified'
  BY <1>1 DEF Verified
<1>10. Recovery'
  BY <1>1, <1>3, <1>4, RecoveryKept DEF Updating, device, Partition, Updater
<1> QED BY <1>4, <1>5, <1>6, <1>7, <1>8, <1>9, <1>10, IInvParts

LEMMA LingeringEndsKeepsIInv ==
  ASSUME IInv, NEW u \in Updater, NEW c \in Command, LingeringEnds(u, c)
  PROVE  IInv'
<1>1. /\ <<u, c>> \in lingering
      /\ lingering' = lingering \ {<<u, c>>}
      /\ Completes(u, c) \/ UNCHANGED device
      /\ UNCHANGED <<cuts, truncated, choices, pc, bg_tasks, children>>
  BY DEF LingeringEnds
<1>2. /\ u \in updaters /\ c \in CommandsOf(u)
      /\ Updating => child[u] \in {"failed", "killed"}
      /\ c \in {"postinst", "flip"} => Written(u)
      /\ pc # "start" /\ ~Ended
  <2>1. Ended => Updating /\ child[u] \in {"off", "done"}
    BY DEF IInv, Forked, Ended, Updating
  <2> QED BY <1>1, <2>1 DEF IInv, Lingering, AtStart
<1>3. /\ DeviceInv'
      /\ \A v \in Partition : Target(v)' = Target(v) \/ (v = u /\ Target(v)' = "new")
      /\ u # "stateful" => stateful' = stateful
      /\ u # "minios" => minios_priority' = minios_priority
  <2>1. CASE Completes(u, c)
    <3>1. c = "flip" => u = "minios"
      BY <1>2 DEF CommandsOf, Updater
    <3> QED BY <1>1, <1>2, <2>1, <3>1, CompletesFacts, IInvParts
  <2>2. CASE UNCHANGED device
    BY <1>1, <1>2, <2>2, DeviceAlone DEF device
  <2> QED BY <1>1, <2>1, <2>2
<1>3a. \A v \in Partition : Written(v) => Written(v)'
  BY <1>1, <1>3 DEF Written
<1>4. ChoiceTypes' /\ ParentTypes' /\ LingeringTypes' /\ ChildTypes'
  BY <1>1, IInvParts DEF ChoiceTypes, ParentTypes, LingeringTypes, ChildTypes, choices, children
<1>5. AtStart' /\ Verified' /\ Shapes' /\ Forked'
  BY <1>1, <1>2
  DEF IInv, AtStart, Verified, Shapes, Forked, Alive, Updating, Ended, choices, children
<1>6. Lingering'
  <2>1. ASSUME NEW v \in Updater, NEW d \in Command, <<v, d>> \in lingering
        PROVE  d \in {"postinst", "flip"} => Written(v)'
    <3>1. d \in {"postinst", "flip"} => v \in Partition
      BY <2>1 DEF IInv, Lingering, CommandsOf, Updater, Partition
    <3> QED BY <1>3a, <2>1, <3>1 DEF IInv, Lingering
  <2> QED BY <1>1, <2>1 DEF IInv, Lingering, Updating, choices, children
<1>7. Progress'
  <2>1. u \in Partition /\ child[u] = "idle" => ~At(u, "write")
    BY <1>2, AliveFacts DEF Alive, At
  <2>2. ASSUME NEW v \in Partition
        PROVE  /\ child[v] = "idle" /\ At(v, "write") => Target(v)' = "old"
               /\ child[v] = "busy" /\ At(v, "write") => Target(v)' \in {"partial", "new"}
               /\ At(v, "postinst") \/ At(v, "flip") => Written(v)'
    BY <1>3, <1>3a, <2>1 DEF IInv, Progress
  <2>3. ASSUME NEW v \in {"rootfs", "kernel"}
        PROVE  Updating /\ child[v] \in {"idle", "done"} /\ step[v] = << >> => Written(v)'
    BY <1>3a DEF IInv, Progress, Partition
  <2>4. Updating /\ child["stateful"] \in {"idle", "done"} /\ step["stateful"] = << >>
          => stateful' = "marked"
    BY <1>2, <1>3 DEF IInv, Progress
  <2> QED BY <1>1, <2>2, <2>3, <2>4 DEF Progress, At, Updating, children
<1>8. Recovery'
  <2>1. CASE u = "minios"
    BY <1>1, <1>2, <2>1 DEF Recovery, Updating, children
  <2>2. CASE u # "minios"
    BY <1>1, <1>3, <1>3a, <2>2, RecoveryKept DEF Updating, children, Partition
  <2> QED BY <2>1, <2>2
<1>9. Untouched'
  BY <1>1, <1>2, <1>3, UntouchedKept
<1> QED BY <1>3, <1>4, <1>5, <1>6, <1>7, <1>8, <1>9, IInvParts

\* No ssh and no command outlives a boot.
LEMMA BootKeepsRest ==
  ASSUME IInv, Boot, lingering' = {}, UNCHANGED <<truncated, choices, bg_tasks, step, ran_postinst>>,
         cuts' \in 0 .. MaxCuts, pc # "start",
         \/ pc' = pc /\ child' = [u \in Updater |-> IF child[u] = "busy" THEN "failed" ELSE child[u]]
         \/ pc = "reboot" /\ pc' \in {"verify", "raised"} /\ child' = child,
         pc \notin {"start", "done", "raised"}
  PROVE  IInv'
<1>1. /\ DeviceInv' /\ UNCHANGED <<stateful, minios_priority>>
      /\ \A v \in Partition : Target(v)' = Target(v) /\ (Written(v) => Written(v)')
  BY BootFacts, IInvParts DEF Boot, Written
<1>2. \A u \in Updater : child'[u] = child[u] \/ (child[u] = "busy" /\ child'[u] = "failed")
  OBVIOUS
<1>3. /\ Updating' => Updating
      /\ Ended' => Ended
      /\ pc' \in {"install", "halt", "revert"} \/ pc \in {"install", "halt", "revert"} => pc' = pc
      /\ pc' # "start" /\ pc' # "done"
  BY DEF Updating, Ended
<1>4. ChoiceTypes' /\ LingeringTypes'
  BY IInvParts DEF ChoiceTypes, LingeringTypes, choices
<1>5. ParentTypes'
  BY <1>3, IInvParts DEF ParentTypes, choices
<1>6. ChildTypes'
  BY IInvParts DEF ChildTypes
<1>7. AtStart' /\ Verified' /\ Lingering'
  BY <1>3 DEF AtStart, Verified, Lingering
<1>8. Shapes'
  BY <1>3 DEF IInv, Shapes
<1>9. Forked'
  <2>1. updaters \subseteq Updater
    BY DEF IInv, TypeOK
  <2> QED BY <1>2, <1>3, <2>1 DEF IInv, Forked, Alive, choices
<1>10. Progress'
  BY <1>1, <1>2, <1>3 DEF IInv, Progress, At, Partition, Updater
<1>11. Recovery'
  BY <1>1, <1>2, <1>3, RecoveryKept DEF Partition, Updater
<1>12. Untouched'
  BY <1>1, UntouchedKept
<1> QED BY <1>1, <1>4, <1>5, <1>6, <1>7, <1>8, <1>9, <1>10, <1>11, <1>12, IInvParts

LEMMA PowerCutKeepsIInv ==
  ASSUME IInv, PowerCut
  PROVE  IInv'
<1>1. cuts' \in 0 .. MaxCuts
  BY DeviceImagerAssumption DEF PowerCut, IInv, TypeOK
<1> QED BY <1>1, BootKeepsRest DEF PowerCut

-----------------------------------------------------------------------------
(* The parent's steps.                                                      *)

\* A step of the parent on its way, with the children as they are.
LEMMA ParentAlone ==
  ASSUME IInv, UNCHANGED <<device, lingering, cuts, truncated, choices, children>>, ParentTypes',
         pc # "start", pc' \notin {"start", "revert"},
         \A u \in Updater : Alive(u) => pc' \in {"install", "halt", "revert"},
         pc' = "install" => \A u \in updaters : u \in bg_tasks' \/ child[u] = "done",
         Ended' => \A u \in updaters : child[u] = "done",
         Updating' => Updating,
         Verified'
  PROVE  IInv'
<1>1. /\ DeviceInv' /\ ChoiceTypes' /\ AtStart' /\ Untouched'
      /\ \A v \in Partition : Target(v)' = Target(v) /\ (Written(v) => Written(v)')
  BY DeviceAlone
<1>2. LingeringTypes' /\ Lingering'
  BY LingeringAlone DEF children
<1>3. ChildTypes'
  BY IInvParts DEF ChildTypes, children
<1>4. Shapes'
  BY DEF IInv, Shapes, children
<1>5. Forked'
  BY DEF IInv, Forked, Alive, children, choices
<1>6. Progress'
  BY <1>1 DEF IInv, Progress, At, children, device, Partition
<1>7. Recovery'
  BY <1>1, RecoveryKept DEF children, device, Partition
<1> QED BY <1>1, <1>2, <1>3, <1>4, <1>5, <1>6, <1>7, IInvParts

LEMMA BeginKeepsIInv ==
  ASSUME IInv, Begin
  PROVE  IInv'
<1>1. skipped' \in BOOLEAN /\ Forks([u \in Updater |-> RunSteps(u, skipped')])
  BY DEF Begin
<1>2. /\ pc = "start" /\ pc' = "install"
      /\ inactive_state' = Other(booted)
      /\ target_minios' = Other(minios_priority)
      /\ bg_tasks' = updaters
      /\ UNCHANGED <<device, lingering, cuts, truncated, good, updaters, reboot>>
  BY HeadsAndTails DEF Begin, Goes, GetKernelState
<1>3. /\ step' = [u \in Updater |-> RunSteps(u, skipped')]
      /\ child' = [u \in Updater |-> IF u \in updaters THEN "idle" ELSE "off"]
      /\ ran_postinst' = [u \in Updater |-> FALSE]
  BY <1>1 DEF Forks
<1>4. \A u \in Updater : RunSteps(u, skipped') \in StepsOf(u) /\ RunSteps(u, skipped') \in Seq(Command)
  <2>1. \A u \in Updater : RunSteps(u, skipped') \in StepsOf(u)
    BY DEF RunSteps, StepsOf, Updater
  <2> QED BY <2>1, StepTypes
<1>5. /\ \A s \in Side, p \in Partition : part[s][p] = "old"
      /\ priority = booted /\ lingering = {} /\ booted \in Side /\ minios_priority \in Side
  BY <1>2 DEF IInv, AtStart, TypeOK
<1>6. DeviceInv'
  <2>1. /\ Other(booted) \in Side /\ Other(Other(booted)) = booted /\ Other(booted) # booted
        /\ Other(minios_priority) \in Side /\ Other(Other(minios_priority)) = minios_priority
        /\ Other(minios_priority) # minios_priority
    BY <1>5, Sides
  <2>2. DeviceTypes'
    BY <1>2, IInvParts DEF DeviceInv, DeviceTypes, device
  <2>3. OtherSides' /\ Preferred'
    BY <1>2, <1>5, <2>1 DEF OtherSides, Preferred, device, Partition
  <2> QED BY <2>2, <2>3 DEF DeviceInv
<1>7. ChoiceTypes' /\ ParentTypes' /\ LingeringTypes' /\ ChildTypes'
  <2>1. ChoiceTypes'
    BY <1>1, <1>2, <1>5, Sides, IInvParts DEF ChoiceTypes
  <2>2. ParentTypes' /\ LingeringTypes'
    BY <1>2, IInvParts DEF ParentTypes, LingeringTypes
  <2>3. ChildTypes'
    BY <1>3, <1>4 DEF ChildTypes
  <2> QED BY <2>1, <2>2, <2>3
<1>8. AtStart' /\ Verified' /\ Lingering'
  BY <1>2, <1>5 DEF AtStart, Verified, Lingering
<1>9. RunSteps("stateful", skipped') = <<"untar", "mark">> /\ RunSteps("kernel", skipped') = <<"write">>
      /\ RunSteps("rootfs", skipped') = <<"write", "postinst">>
      /\ RunSteps("minios", skipped') = IF skipped' THEN << >> ELSE <<"write", "flip">>
  BY DEF RunSteps
<1>10. Shapes'
  <2>1. <<"untar", "mark">> # <<"reset">>
    BY HeadsAndTails
  <2> QED BY <1>2, <1>3, <1>4, <1>9, <2>1 DEF Shapes, Updater
<1>11. Forked'
  BY <1>2, <1>3 DEF Forked, Alive, Ended
<1>12. Progress'
  <2>1. \A u \in Partition : TargetSide(u)' \in Side
    BY <1>7, TargetTypes DEF TargetSide, ChoiceTypes
  <2>2. \A u \in Partition : Target(u)' = "old"
    BY <1>2, <1>5, <2>1 DEF Target, device
  <2>3. \A u \in Partition : ~At(u, "postinst")' /\ ~At(u, "flip")'
    BY <1>3, <1>9, HeadsAndTails DEF At, Partition, Updater
  <2>4. \A u \in {"rootfs", "kernel", "stateful"} : step'[u] # << >>
    BY <1>3, <1>9, HeadsAndTails DEF Updater
  <2>5. \A u \in Updater : child'[u] \in {"idle", "off"}
    BY <1>3
  <2> QED BY <2>2, <2>3, <2>4, <2>5 DEF Progress, Partition, Updater
<1>13. Recovery' /\ Untouched'
  <2>1. \A u \in Partition : TargetSide(u)' \in Side
    BY <1>7, TargetTypes DEF TargetSide, ChoiceTypes
  <2>2. \A u \in Partition : Target(u)' = "old"
    BY <1>2, <1>5, <2>1 DEF Target, device
  <2>3. minios_priority' = Other(target_minios')
    BY <1>2, <1>5, Sides DEF device
  <2>4. step'["minios"] = << >> => skipped'
    BY <1>3, <1>9, HeadsAndTails DEF Updater
  <2> QED BY <2>2, <2>3, <2>4 DEF Recovery, Untouched
<1> QED BY <1>6, <1>7, <1>8, <1>10, <1>11, <1>12, <1>13, IInvParts

LEMMA StartRevertKeepsIInv ==
  ASSUME IInv, StartRevert
  PROVE  IInv'
<1>1. /\ pc = "halt" /\ pc' = "revert" /\ bg_tasks' = {}
      /\ Forks([u \in Updater |-> RevertSteps(u, ran_postinst'[u])])
      /\ UNCHANGED <<device, lingering, cuts, truncated, choices>>
  BY DEF StartRevert, Goes
<1>2. /\ ran_postinst' = [u \in Updater |-> FALSE]
      /\ step' = [u \in Updater |-> RevertSteps(u, FALSE)]
      /\ child' = [u \in Updater |-> IF u \in updaters THEN "idle" ELSE "off"]
  BY <1>1 DEF Forks
<1>3. \A u \in Updater : RevertSteps(u, FALSE) = IF u = "stateful" THEN <<"reset">> ELSE << >>
  BY DEF RevertSteps, Updater
<1>4. \A u \in Updater : step'[u] \in StepsOf(u) /\ step'[u] \in Seq(Command)
  <2>1. \A u \in Updater : step'[u] \in StepsOf(u)
    BY <1>2, <1>3 DEF StepsOf, Updater
  <2> QED BY <2>1, StepTypes
<1>5. DeviceInv' /\ ChoiceTypes' /\ AtStart' /\ Untouched'
  BY <1>1, DeviceAlone
<1>6. ~Updating' /\ ~Ended'
  BY <1>1 DEF Updating, Ended
<1>7. LingeringTypes' /\ Lingering'
  BY <1>1, <1>6, LingeringAlone
<1>8. ParentTypes' /\ ChildTypes'
  <2>1. ParentTypes'
    BY <1>1, IInvParts DEF ParentTypes, choices
  <2>2. ChildTypes'
    BY <1>2, <1>4 DEF ChildTypes
  <2> QED BY <2>1, <2>2
<1>9. \A u \in Partition : step'[u] = << >>
  BY <1>2, <1>3 DEF Partition, Updater
<1>10. Shapes' /\ Forked'
  BY <1>1, <1>2, <1>4, <1>6, <1>9 DEF Shapes, Forked, Alive, choices
<1>11. Progress'
  BY <1>6, <1>9 DEF Progress, At
<1>12. Verified' /\ Recovery'
  BY <1>1, <1>6 DEF Verified, Recovery
<1> QED BY <1>5, <1>7, <1>8, <1>10, <1>11, <1>12, IInvParts

LEMMA ParentKeepsIInv ==
  ASSUME IInv, Parent
  PROVE  IInv'
<1> USE DEF Goes
<1>0. ParentTypes /\ updaters \subseteq Updater
  BY IInvParts DEF ChoiceTypes
<1>1. CASE Begin
  BY <1>1, BeginKeepsIInv
<1>2. CASE Wait
  <2>1. ParentTypes' /\ Updating' /\ Updating /\ ~Ended'
    BY <1>0, <1>2 DEF Wait, ParentTypes, choices, Updating, Ended
  <2>2. \A u \in updaters : u \in bg_tasks' \/ child[u] = "done"
    BY <1>2 DEF Wait, IInv, Forked
  <2> QED BY <1>2, <2>1, <2>2, ParentAlone DEF Wait, Verified
<1>3. CASE Halt
  <2>1. ParentTypes' /\ Updating' /\ Updating /\ ~Ended'
    BY <1>0, <1>3 DEF Halt, ParentTypes, choices, Updating, Ended
  <2> QED BY <1>3, <2>1, ParentAlone DEF Halt, Verified
<1>4. CASE StartRevert
  BY <1>4, StartRevertKeepsIInv
<1>5. CASE Reraise
  <2>1. ParentTypes' /\ ~Updating' /\ ~Ended'
    BY <1>0, <1>5 DEF Reraise, ParentTypes, choices, Updating, Ended
  <2>2. \A u \in Updater : ~Alive(u)
    BY <1>5 DEF Reraise, IInv, Forked, Alive
  <2> QED BY <1>5, <2>1, <2>2, ParentAlone DEF Reraise, Verified
<1>6. CASE Installed
  <2>1. \A u \in updaters : child[u] = "done"
    BY <1>6 DEF Installed, IInv, Forked
  <2>2. \A u \in Updater : ~Alive(u)
    BY <2>1 DEF IInv, Forked, Alive
  <2>3. ParentTypes' /\ Updating /\ pc # "start" /\ pc' \in {"reboot", "done"}
        /\ (pc' = "done" => ~reboot')
    BY <1>0, <1>6 DEF Installed, ParentTypes, choices, Updating
  <2> QED BY <1>6, <2>1, <2>2, <2>3, ParentAlone DEF Installed, Verified
<1>7. CASE Reboot \/ RebootFails
  <2>1. CASE Boot /\ lingering' = {}
    BY <1>0, <1>7, <2>1, BootKeepsRest DEF Reboot, RebootFails, ParentTypes, children
  <2>2. CASE UNCHANGED <<device, lingering>> /\ RebootFails
    <3>1. ParentTypes' /\ ~Updating' /\ ~Ended'
      BY <1>0, <2>2 DEF RebootFails, ParentTypes, choices, Updating, Ended
    <3>2. \A u \in Updater : ~Alive(u)
      BY <2>2 DEF RebootFails, IInv, Forked
    <3> QED BY <2>2, <3>1, <3>2, ParentAlone DEF RebootFails, Verified
  <2> QED BY <1>7, <2>1, <2>2 DEF Reboot, RebootFails
<1>8. CASE Verify
  <2>1. GetKernelState(booted)[1] = booted
    BY DEF GetKernelState
  <2>2. ParentTypes' /\ Updating /\ Ended /\ pc' \in {"done", "raised"} /\ Verified'
    BY <1>0, <1>8, <2>1 DEF Verify, ParentTypes, choices, Updating, Ended, Verified, device
  <2>3. \A u \in Updater : ~Alive(u)
    BY <1>8 DEF Verify, IInv, Forked
  <2>4. Ended' => \A u \in updaters : child[u] = "done"
    BY <2>2 DEF IInv, Forked
  <2> QED BY <1>8, <2>2, <2>3, <2>4, ParentAlone DEF Verify
<1> QED BY <1>1, <1>2, <1>3, <1>4, <1>5, <1>6, <1>7, <1>8 DEF Parent

-----------------------------------------------------------------------------
(* The theorems.                                                            *)

\* Initially the invariant holds.
LEMMA InitIInv ==
  ASSUME Init
  PROVE  IInv
<1>1. updaters \subseteq Updater /\ reboot \in BOOLEAN
  BY DeviceImagerAssumption DEF Init
<1>2. DeviceTypes /\ ChoiceTypes /\ ParentTypes /\ LingeringTypes
  <2>1. DeviceTypes
    BY DEF Init, DeviceTypes, Content
  <2>2. ChoiceTypes
    BY <1>1 DEF Init, ChoiceTypes
  <2>3. ParentTypes
    BY DeviceImagerAssumption DEF Init, ParentTypes
  <2>4. LingeringTypes
    BY DEF Init, LingeringTypes
  <2> QED BY <2>1, <2>2, <2>3, <2>4
<1>3. ChildTypes
  BY ListsOfCommands DEF Init, ChildTypes
<1>4. DeviceInv /\ AtStart /\ Lingering /\ Verified
  BY <1>2 DEF Init, DeviceInv, OtherSides, Preferred, AtStart, Lingering, Verified
<1>5. Shapes
  <2>1. \A u \in Updater : << >> \in StepsOf(u)
    BY DEF StepsOf, Updater
  <2> QED BY <2>1 DEF Init, Shapes, Updating
<1>6. Forked
  BY DEF Init, Forked, Alive, Ended
<1>7. Progress
  BY DEF Init, Progress, At, Updating, Partition, Updater
<1>8. Recovery /\ Untouched
  BY DEF Init, Recovery, Untouched, Updating
<1> QED BY <1>2, <1>3, <1>4, <1>5, <1>6, <1>7, <1>8, IInvParts

LEMMA NextKeepsIInv ==
  ASSUME IInv, [Next]_vars
  PROVE  IInv'
<1>1. CASE \E u \in Updater : Child(u) \/ Kill(u)
  BY <1>1, SendKeepsIInv, AnswerKeepsIInv, FailKeepsIInv, FinishKeepsIInv, KillKeepsIInv DEF Child
<1>2. CASE \E u \in Updater, c \in Command : LingeringEnds(u, c)
  BY <1>2, LingeringEndsKeepsIInv
<1>3. CASE PowerCut
  BY <1>3, PowerCutKeepsIInv
<1>4. CASE Parent
  BY <1>4, ParentKeepsIInv
<1>5. CASE UNCHANGED vars
  <2> SUFFICES ASSUME UNCHANGED vars PROVE IInv'
    BY <1>5
  <2>1. /\ ChoiceTypes' /\ ParentTypes' /\ LingeringTypes' /\ ChildTypes' /\ DeviceTypes'
    BY IInvParts
    DEF vars, ChoiceTypes, ParentTypes, LingeringTypes, ChildTypes, DeviceTypes, choices, children,
        device, DeviceInv
  <2>2. OtherSides' /\ Preferred' /\ AtStart' /\ Verified'
    BY DEF IInv, vars, OtherSides, Preferred, AtStart, Verified, device, choices, children, Target,
           TargetSide, Written
  <2>3. Shapes' /\ Forked'
    BY DEF IInv, vars, Shapes, Forked, Alive, Updating, Ended, choices, children
  <2>4. Lingering' /\ Progress'
    BY DEF IInv, vars, Lingering, Progress, Written, At, Updating, Target, TargetSide, device,
           choices, children
  <2>5. Recovery' /\ Untouched'
    BY DEF IInv, vars, Recovery, Untouched, Written, Updating, Target, TargetSide, device, choices,
           children
  <2> QED BY <2>1, <2>2, <2>3, <2>4, <2>5, IInvParts DEF DeviceInv
<1> QED BY <1>1, <1>2, <1>3, <1>4, <1>5 DEF Next

\* The invariant of the imager holds in every state it reaches.
THEOREM Invariance == Spec => []IInv
<1>1. Init => IInv
  BY InitIInv
<1>2. IInv /\ [Next]_vars => IInv'
  BY NextKeepsIInv
<1> QED BY <1>1, <1>2, PTL DEF Spec

\* The side the device runs on is one whole image, whatever fails, lingers or reboots
\* (_GetKernelState, _InstallPartitions).
THEOREM RunningSide == Spec => []RunningSideIsWhole
<1>1. IInv => RunningSideIsWhole
  <2> SUFFICES ASSUME IInv PROVE RunningSideIsWhole
    OBVIOUS
  <2>1. booted \in Side /\ inactive_state \in Side
    BY DEF IInv, TypeOK
  <2>2. CASE pc = "start"
    BY <2>1, <2>2 DEF IInv, AtStart, RunningSideIsWhole, Partition
  <2>3. CASE pc # "start" /\ booted = inactive_state
    BY <2>3 DEF IInv, Preferred, Target, TargetSide, RunningSideIsWhole
  <2>4. CASE pc # "start" /\ booted # inactive_state
    <3>1. booted = Other(inactive_state)
      BY <2>1, <2>4 DEF Side, Other
    <3> QED BY <2>4, <3>1 DEF IInv, OtherSides, RunningSideIsWhole
  <2> QED BY <2>2, <2>3, <2>4
<1> QED BY <1>1, Invariance, PTL

\* The root file system the device is told to boot, and the miniOS it is told to recover
\* from, are written: postinst and the flip come after the write.  So is the kernel once
\* all the updaters have succeeded, and before only by chance.
THEOREM Priorities == Spec => []PrioritiesAreWhole
<1>1. IInv => PrioritiesAreWhole
  <2> SUFFICES ASSUME IInv PROVE PrioritiesAreWhole
    OBVIOUS
  <2>1. {priority, minios_priority, inactive_state, target_minios} \subseteq Side
    BY DEF IInv, TypeOK
  <2>2. CASE pc = "start"
    BY <2>1, <2>2 DEF IInv, AtStart, PrioritiesAreWhole, Partition
  <2>3. CASE pc # "start"
    <3>1. part[priority].rootfs = "partial" => "rootfs" \in truncated
      <4>1. CASE priority = inactive_state
        BY <2>3, <4>1 DEF IInv, Preferred, Written, Target, TargetSide
      <4>2. CASE priority # inactive_state
        <5>1. priority = Other(inactive_state)
          BY <2>1, <4>2 DEF Side, Other
        <5> QED BY <2>3, <5>1 DEF IInv, OtherSides
      <4> QED BY <4>1, <4>2
    <3>2. part[minios_priority].minios = "partial" => "minios" \in truncated
      <4>1. CASE minios_priority = target_minios
        BY <2>3, <4>1 DEF IInv, Preferred, Written, Target, TargetSide
      <4>2. CASE minios_priority # target_minios
        <5>1. minios_priority = Other(target_minios)
          BY <2>1, <4>2 DEF Side, Other
        <5> QED BY <2>3, <5>1 DEF IInv, OtherSides
      <4> QED BY <4>1, <4>2
    <3>3. Ended /\ part[priority].kernel = "partial" => "kernel" \in truncated
      <4>1. CASE priority = inactive_state
        <5>1. CASE "kernel" \in updaters
          <6>1. Ended => Updating /\ child["kernel"] = "done" /\ step["kernel"] = << >>
            BY <5>1 DEF IInv, Forked, Ended, Updating, Updater
          <6> QED BY <4>1, <6>1 DEF IInv, Progress, Written, Target, TargetSide
        <5>2. CASE "kernel" \notin updaters
          BY <2>3, <4>1, <5>2 DEF IInv, Untouched, Partition, Target, TargetSide
        <5> QED BY <5>1, <5>2
      <4>2. CASE priority # inactive_state
        <5>1. priority = Other(inactive_state)
          BY <2>1, <4>2 DEF Side, Other
        <5> QED BY <2>3, <5>1 DEF IInv, OtherSides
      <4> QED BY <4>1, <4>2
    <3>4. pc \in {"install", "halt", "revert", "raised"} \/ Ended
      BY <2>3 DEF IInv, TypeOK, Ended
    <3> QED BY <3>1, <3>2, <3>3, <3>4 DEF PrioritiesAreWhole
  <2> QED BY <2>2, <2>3
<1> QED BY <1>1, Invariance, PTL

\* The kernel comes with the root file system in every set of updaters.
Paired == "rootfs" \in updaters <=> "kernel" \in updaters

LEMMA PairedInvariance == Spec => []Paired
<1>1. Init => Paired
  BY DeviceImagerAssumption DEF Init, Paired
<1>2. [Next]_vars => UNCHANGED updaters
  <2> SUFFICES ASSUME [Next]_vars PROVE UNCHANGED updaters
    OBVIOUS
  <2>1. CASE \E u \in Updater : Child(u) \/ Kill(u)
    BY <2>1 DEF Child, Send, Answer, Fail, Finish, Kill, choices
  <2>2. CASE (\E u \in Updater, c \in Command : LingeringEnds(u, c)) \/ PowerCut
    BY <2>2 DEF LingeringEnds, PowerCut, choices
  <2>3. CASE Begin \/ Wait \/ Halt \/ StartRevert \/ Reraise
    BY <2>3 DEF Begin, Wait, Halt, StartRevert, Reraise, choices
  <2>4. CASE Installed \/ Reboot \/ RebootFails \/ Verify
    BY <2>4 DEF Installed, Reboot, RebootFails, Verify, choices
  <2>5. CASE UNCHANGED vars
    BY <2>5 DEF vars, choices
  <2> QED BY <2>1, <2>2, <2>3, <2>4, <2>5 DEF Next, Parent
<1>3. Paired /\ [Next]_vars => Paired'
  BY <1>2 DEF Paired
<1> QED BY <1>1, <1>3, PTL DEF Spec

\* When Run returns, everything it was asked for, the miniOS too, is on the device, as far
\* as its source went, and nothing is still being written; a reboot has brought the device
\* up on images that are whole (_VerifyBootExpectations).
THEOREM Success == Spec => []SuccessMeansUpdated
<1>1. IInv /\ Paired => SuccessMeansUpdated
  <2> SUFFICES ASSUME IInv, Paired, pc = "done" PROVE SuccessMeansUpdated
    BY DEF SuccessMeansUpdated
  <2>1. Updating /\ Ended
    BY DEF Updating, Ended
  <2>2. \A u \in updaters : child[u] = "done" /\ step[u] = << >>
    BY <2>1 DEF IInv, Forked, TypeOK
  <2>3. \A u \in {"rootfs", "kernel"} \cap updaters : Written(u)
    BY <2>1, <2>2 DEF IInv, Progress
  <2>4. "stateful" \in updaters => stateful = "marked"
    BY <2>1, <2>2 DEF IInv, Progress
  <2>5. reboot => booted = inactive_state /\ Target("rootfs") = "new" /\ Target("kernel") = "new"
    BY DEF IInv, Verified, Preferred
  <2>7. "minios" \in updaters /\ ~skipped => Written("minios") /\ minios_priority = target_minios
    BY <2>1, <2>2 DEF IInv, Recovery
  <2>6. lingering = {}
    <3>1. \A u \in Updater : child[u] \in {"off", "done"}
      BY <2>2 DEF IInv, Forked
    <3>2. \A u \in Updater, c \in Command : <<u, c>> \notin lingering
      BY <2>1, <3>1 DEF IInv, Lingering
    <3>3. lingering \subseteq Updater \X Command
      BY DEF IInv, TypeOK
    <3> QED BY <3>2, <3>3
  <2> QED BY <2>3, <2>4, <2>5, <2>6, <2>7 DEF SuccessMeansUpdated
<1> QED BY <1>1, Invariance, PairedInvariance, PTL

=============================================================================
