----------------------------- MODULE DeviceImager -----------------------------
(***************************************************************************)
(* cli/device_imager.py: one Run of a DeviceImager on a ChromeOS device.    *)
(*                                                                          *)
(* A device has two sides, A and B, each with a kernel and a root file      *)
(* system; it runs on one, and the imager writes the other.  The updaters   *)
(* run in parallel, each in a forked child that sends commands to the       *)
(* device over ssh, and what a child changes in its updater object, the     *)
(* parent never sees.  When one fails the others are killed and all of them *)
(* are reverted, in new children.  A command whose ssh died may live on on  *)
(* the device; one whose source ended early succeeds (gzip -d | dd has the  *)
(* status of dd, and a reader's exception stays in its thread).             *)
(***************************************************************************)
EXTENDS Naturals, Sequences

CONSTANTS UpdaterSets,  \* the sets of updaters the options may ask for
          Reboots,      \* subset of BOOLEAN: reboot the device at the end
          MayLinger,    \* may a command outlive its ssh?
          MaxCuts       \* bound: reboots of the device nobody asked for

Updater == {"rootfs", "kernel", "stateful", "minios"}

ASSUME DeviceImagerAssumption ==
  /\ UpdaterSets \subseteq SUBSET Updater
  /\ \A us \in UpdaterSets : "rootfs" \in us <=> "kernel" \in us
  /\ Reboots \subseteq BOOLEAN /\ MayLinger \in BOOLEAN /\ MaxCuts \in Nat

Side == {"A", "B"}
Other(s) == IF s = "A" THEN "B" ELSE "A"

Partition == {"rootfs", "kernel", "minios"}
Content == {"old", "partial", "new"}

\* What an updater asks the device to do.
Command == {"write", "postinst", "untar", "mark", "flip",     \* to update
            "postinst_current", "reset"}                      \* to revert

VARIABLES
  \* The device.
  part,             \* what each partition holds
  stateful,         \* the stateful update: none, partial, unpacked or marked
  priority,         \* the side it boots next
  minios_priority,
  booted,           \* the side it runs on
  lingering,        \* commands without an ssh: <<updater, command>>
  good,             \* does the new image boot?
  cuts,
  truncated,        \* updaters whose write or untar was answered on a part of its source
  \* The parent.
  pc, updaters, reboot,
  skipped,          \* the image or the device has no miniOS: that updater does nothing
  inactive_state,   \* the side it writes
  target_minios,
  bg_tasks,         \* updaters still to be waited for
  \* The children.
  step,             \* the commands each has left
  child,            \* what each is doing
  ran_postinst      \* the updater's attribute, in that child

device   == <<part, stateful, priority, minios_priority, booted>>
choices  == <<good, updaters, reboot, skipped, inactive_state, target_minios>>
children == <<step, child, ran_postinst>>
vars == <<device, lingering, cuts, truncated, choices, pc, bg_tasks, children>>

Init ==
  /\ booted \in Side /\ priority = booted /\ minios_priority \in Side
  /\ part = [s \in Side |-> [p \in Partition |-> "old"]]
  /\ stateful = "none"
  /\ lingering = {} /\ cuts = 0 /\ truncated = {} /\ skipped = FALSE
  /\ good \in BOOLEAN /\ updaters \in UpdaterSets /\ reboot \in Reboots
  /\ inactive_state = booted /\ target_minios = minios_priority
  /\ pc = "start" /\ bg_tasks = {}
  /\ step = [u \in Updater |-> << >>]
  /\ child = [u \in Updater |-> "off"]
  /\ ran_postinst = [u \in Updater |-> FALSE]

Goes(from, to) == pc = from /\ pc' = to
Alive(u) == child[u] \in {"idle", "busy"}

-----------------------------------------------------------------------------
(* The device.                                                              *)

\* The kernel holds the hash of its root file system, and a side that does not
\* come up is given up for the other.
Boots(s) == /\ part[s].rootfs = part[s].kernel /\ part[s].rootfs # "partial"
            /\ part[s].rootfs = "new" => good
Boot == /\ booted' = IF Boots(priority) THEN priority ELSE Other(priority)
        /\ priority' = booted'
        /\ UNCHANGED <<part, stateful, minios_priority>>

\* The side and partition an updater writes.
TargetSide(u) == IF u = "minios" THEN target_minios ELSE inactive_state

Target(u) == part[TargetSide(u)][u]

Writes(u, content) ==
  /\ part' = [part EXCEPT ![TargetSide(u)][u] = content]
  /\ UNCHANGED <<stateful, priority, minios_priority, booted>>
Stateful(s) ==
  /\ stateful' = s
  /\ UNCHANGED <<part, priority, minios_priority, booted>>
Prioritises(s) ==
  /\ priority' = s
  /\ UNCHANGED <<part, stateful, minios_priority, booted>>

\* The device begins, and completes, command c of updater u.
Starts(u, c) ==
  CASE c = "write" -> Writes(u, "partial")
    [] c = "untar" -> Stateful("partial")
    [] c = "reset" /\ stateful # "none" -> Stateful("partial")
    [] OTHER -> UNCHANGED device

Completes(u, c) ==
  CASE c = "write" -> Writes(u, "new")
    [] c = "untar" -> Stateful("unpacked")
    [] c = "mark" -> Stateful("marked")
    [] c = "reset" -> Stateful("none")
    [] c = "postinst" -> Prioritises(inactive_state)
    [] c = "postinst_current" -> Prioritises(Other(inactive_state))
    [] c = "flip" -> /\ minios_priority' = Other(minios_priority)
                     /\ UNCHANGED <<part, stateful, priority, booted>>

\* A command without an ssh comes to its end, or stops on its way.
LingeringEnds(u, c) ==
  /\ <<u, c>> \in lingering
  /\ lingering' = lingering \ {<<u, c>>}
  /\ Completes(u, c) \/ UNCHANGED device
  /\ UNCHANGED <<cuts, truncated, choices, pc, bg_tasks, children>>

\* The device reboots unasked: every ssh breaks.
PowerCut ==
  /\ cuts < MaxCuts /\ cuts' = cuts + 1
  /\ pc \notin {"start", "done", "raised"}
  /\ Boot
  /\ lingering' = {}
  /\ child' = [u \in Updater |-> IF child[u] = "busy" THEN "failed" ELSE child[u]]
  /\ UNCHANGED <<truncated, choices, pc, bg_tasks, step, ran_postinst>>

-----------------------------------------------------------------------------
(* The updaters, in their children.                                         *)

\* Mutant: the new root file system is made the next to boot before it is there.
RunStepsHasty(u, skip) ==
  CASE u = "rootfs" -> <<"postinst", "write">>
    [] u = "kernel" -> <<"write">>
    [] u = "stateful" -> <<"untar", "mark">>
    [] u = "minios" -> IF skip THEN << >> ELSE <<"write", "flip">>

\* _Run.  There may be no miniOS in the image, or no partitions for it.
RunSteps(u, skip) ==
  CASE u = "rootfs" -> <<"write", "postinst">>
    [] u = "kernel" -> <<"write">>
    [] u = "stateful" -> <<"untar", "mark">>
    [] u = "minios" -> IF skip THEN << >> ELSE <<"write", "flip">>

\* Revert, in a child that sees the object as the parent has it.
RevertSteps(u, ran) ==
  CASE u = "rootfs" -> IF ran THEN <<"postinst_current">> ELSE << >>
    [] u = "kernel" -> << >>
    [] u = "stateful" -> <<"reset">>
    [] u = "minios" -> IF ran THEN <<"flip">> ELSE << >>

\* A command is sent; _ran_postinst is set before postinst runs, and after a flip.
Send(u) ==
  /\ child[u] = "idle" /\ step[u] # << >>
  /\ child' = [child EXCEPT ![u] = "busy"]
  /\ ran_postinst' = [ran_postinst EXCEPT ![u] = @ \/ Head(step[u]) = "postinst"]
  /\ Starts(u, Head(step[u]))
  /\ UNCHANGED <<lingering, cuts, truncated, choices, pc, bg_tasks, step>>

\* The source ended early: what is written stays as it is.
EndsEarly(u, c) ==
  /\ c \in {"write", "untar"}
  /\ truncated' = truncated \cup {u}
  /\ UNCHANGED device

\* Its answer: the command is complete, or believes that it is.
Answer(u) ==
  /\ child[u] = "busy"
  /\ \/ Completes(u, Head(step[u])) /\ UNCHANGED truncated
     \/ EndsEarly(u, Head(step[u]))
  /\ child' = [child EXCEPT ![u] = "idle"]
  /\ step' = [step EXCEPT ![u] = Tail(@)]
  /\ ran_postinst' = [ran_postinst EXCEPT ![u] = @ \/ Head(step[u]) = "flip"]
  /\ UNCHANGED <<lingering, cuts, choices, pc, bg_tasks>>

\* The ssh of a busy child dies, the command with it or not.
SshDies(u) ==
  lingering' \in {lingering} \cup
                 (IF MayLinger THEN {lingering \cup {<<u, Head(step[u])>>}} ELSE {})

\* The command fails (which Reset ignores), or its ssh does: the step raises.
Fail(u) ==
  /\ child[u] = "busy"
  /\ \/ /\ Head(step[u]) = "reset"
        /\ child' = [child EXCEPT ![u] = "idle"] /\ step' = [step EXCEPT ![u] = Tail(@)]
        /\ UNCHANGED lingering
     \/ /\ child' = [child EXCEPT ![u] = "failed"] /\ UNCHANGED step
        /\ SshDies(u)
  /\ UNCHANGED <<device, cuts, truncated, choices, pc, bg_tasks, ran_postinst>>

Finish(u) ==
  /\ child[u] = "idle" /\ step[u] = << >>
  /\ child' = [child EXCEPT ![u] = "done"]
  /\ UNCHANGED <<device, lingering, cuts, truncated, choices, pc, bg_tasks, step, ran_postinst>>

-----------------------------------------------------------------------------
(* The parent: _InstallPartitions.                                          *)

\* New children are forked for the updaters: their objects are the parent's, which
\* no child has ever changed.
Forks(steps) ==
  /\ ran_postinst' = [u \in Updater |-> FALSE]
  /\ step' = steps
  /\ child' = [u \in Updater |-> IF u \in updaters THEN "idle" ELSE "off"]

\* Mutant: the two states are mixed up.
GetKernelStateSwapped(root) == <<Other(root), root>>

\* _GetKernelState: the active and the inactive side, from the root device.
GetKernelState(root) == <<root, Other(root)>>

Begin ==
  /\ Goes("start", "install")
  /\ inactive_state' = GetKernelState(booted)[2]
  /\ target_minios' = Other(minios_priority)
  /\ bg_tasks' = updaters
  /\ skipped' \in BOOLEAN /\ (skipped' => "minios" \in updaters)
  /\ Forks([u \in Updater |-> RunSteps(u, skipped')])
  /\ UNCHANGED <<device, lingering, cuts, truncated, good, updaters, reboot>>

\* RunParallelSteps waits for its children in the order of the updaters.
Place == [rootfs |-> 1, kernel |-> 2, stateful |-> 3, minios |-> 4]
First(tasks) == CHOOSE u \in tasks : \A v \in tasks : Place[u] <= Place[v]

Wait ==
  /\ pc = "install" /\ bg_tasks # {}
  /\ child[First(bg_tasks)] = "done"
  /\ bg_tasks' = bg_tasks \ {First(bg_tasks)}
  /\ UNCHANGED <<device, lingering, cuts, truncated, choices, pc, children>>

\* halt_on_error: after the first error the children that are left are killed.
\* What leaves is a BackgroundFailure, and RetryException retries an Error only.
Halt ==
  /\ Goes("install", "halt") /\ bg_tasks # {}
  /\ child[First(bg_tasks)] = "failed"
  /\ bg_tasks' = bg_tasks \ {First(bg_tasks)}
  /\ UNCHANGED <<device, lingering, cuts, truncated, choices, children>>

Kill(u) ==
  /\ pc = "halt" /\ u \in bg_tasks /\ Alive(u)
  /\ child' = [child EXCEPT ![u] = "killed"]
  /\ IF child[u] = "busy" THEN SshDies(u) ELSE UNCHANGED lingering
  /\ UNCHANGED <<device, cuts, truncated, choices, pc, bg_tasks, step, ran_postinst>>

\* Mutant: the revert waits until the updates are done.
StartRevertWhenDone ==
  /\ Goes("halt", "revert")
  /\ \A u \in updaters : child[u] = "done"
  /\ bg_tasks' = {}
  /\ Forks([u \in Updater |-> RevertSteps(u, FALSE)])
  /\ UNCHANGED <<device, lingering, cuts, truncated, choices>>

\* All the updaters are reverted, in parallel.
StartRevert ==
  /\ Goes("halt", "revert")
  /\ ~\E u \in updaters : Alive(u)
  /\ bg_tasks' = {}
  /\ Forks([u \in Updater |-> RevertSteps(u, ran_postinst'[u])])
  /\ UNCHANGED <<device, lingering, cuts, truncated, choices>>

Reraise ==
  /\ Goes("revert", "raised")
  /\ ~\E u \in updaters : Alive(u)
  /\ UNCHANGED <<device, lingering, cuts, truncated, choices, bg_tasks, children>>

Installed ==
  /\ pc = "install" /\ bg_tasks = {}
  /\ pc' = IF reboot THEN "reboot" ELSE "done"
  /\ UNCHANGED <<device, lingering, cuts, truncated, choices, bg_tasks, children>>

-----------------------------------------------------------------------------
(* _Reboot (or DisableRootfsVerification, which reboots) and                *)
(* _VerifyBootExpectations.                                                 *)

Reboot ==
  /\ Goes("reboot", "verify")
  /\ Boot /\ lingering' = {}
  /\ UNCHANGED <<cuts, truncated, choices, bg_tasks, children>>

\* RebootError, or ClearTpmOwner failed before: nothing is reverted.
RebootFails ==
  /\ Goes("reboot", "raised")
  /\ \/ Boot /\ lingering' = {}
     \/ UNCHANGED <<device, lingering>>
  /\ UNCHANGED <<cuts, truncated, choices, bg_tasks, children>>

\* Mutant: any side that came up is as expected.
VerifyNothing ==
  /\ pc = "verify"
  /\ pc' = "done"
  /\ UNCHANGED <<device, lingering, cuts, truncated, choices, bg_tasks, children>>

Verify ==
  /\ pc = "verify"
  /\ pc' = IF GetKernelState(booted)[1] = inactive_state THEN "done" ELSE "raised"
  /\ UNCHANGED <<device, lingering, cuts, truncated, choices, bg_tasks, children>>

Child(u) == Send(u) \/ Answer(u) \/ Fail(u) \/ Finish(u)
Parent == \/ Begin \/ Wait \/ Halt \/ StartRevert \/ Reraise \/ Installed
          \/ Reboot \/ RebootFails \/ Verify
Next == \/ \E u \in Updater : Child(u) \/ Kill(u)
        \/ \E u \in Updater, c \in Command : LingeringEnds(u, c)
        \/ PowerCut
        \/ Parent

Spec == Init /\ [][Next]_vars

\* Every command is answered in time or its ssh gives up (ServerAliveInterval),
\* and signals reach the children.
LiveSpec == Spec /\ WF_vars(Parent)
                 /\ \A u \in Updater : WF_vars(Child(u)) /\ WF_vars(Kill(u))

-----------------------------------------------------------------------------
(* Properties.                                                              *)

\* Types.
TypeOK ==
  /\ part \in [Side -> [Partition -> Content]]
  /\ stateful \in {"none", "partial", "unpacked", "marked"}
  /\ {priority, minios_priority, booted, inactive_state, target_minios} \subseteq Side
  /\ lingering \subseteq Updater \X Command /\ truncated \subseteq Updater
  /\ skipped \in BOOLEAN
  /\ good \in BOOLEAN /\ reboot \in BOOLEAN /\ updaters \subseteq Updater
  /\ cuts \in 0 .. MaxCuts
  /\ pc \in {"start", "install", "halt", "revert", "reboot", "verify", "done", "raised"}
  /\ bg_tasks \subseteq updaters
  /\ step \in [Updater -> Seq(Command)]
  /\ child \in [Updater -> {"off", "idle", "busy", "done", "failed", "killed"}]
  /\ ran_postinst \in [Updater -> BOOLEAN]

\* Whatever fails, lingers or reboots, nothing writes the side the device runs on,
\* and that side is one image: kernel and root file system belong together.
RunningSideIsWhole ==
  part[booted].rootfs = part[booted].kernel /\ part[booted].rootfs # "partial"

\* u's write has come to its end; what it wrote is whole unless its source was not.
Written(u) == Target(u) = "new" \/ (Target(u) = "partial" /\ u \in truncated)

\* The device is told to boot a root file system, and to recover from a miniOS, only
\* once it is written, whatever fails.  Of the kernel, which is written beside postinst,
\* that is so only when all have succeeded (KernelIsWritten): a reboot that the imager
\* asks for never finds part of one.
PrioritiesAreWhole ==
  /\ part[priority].rootfs = "partial" => "rootfs" \in truncated
  /\ part[minios_priority].minios = "partial" => "minios" \in truncated
  /\ part[priority].kernel = "partial" =>
       "kernel" \in truncated \/ pc \in {"install", "halt", "revert", "raised"}

\* postinst makes the device boot a side whose kernel may still be being written, or may
\* have failed to be.
KernelIsWritten == part[priority].kernel = "partial" => "kernel" \in truncated

\* A Run that succeeds has installed all it was asked to, with nothing of it still being
\* written.  A reboot tells the images apart that are only part of their source, and
\* then the device runs on the new one; without it they pass for whole.
SuccessMeansUpdated ==
  pc = "done" =>
    /\ \A u \in {"rootfs", "kernel"} \cap updaters :
         /\ Written(u)
         /\ reboot => booted = inactive_state /\ Target(u) = "new"
    /\ "minios" \in updaters /\ ~skipped =>
         Written("minios") /\ minios_priority = target_minios
    /\ "stateful" \in updaters => stateful = "marked"
    /\ lingering = {}

\* Run returns or raises, whatever fails: no child that was left or killed holds the
\* parent up.
RunEnds == <>(pc \in {"done", "raised"})

\* What the comment at the revert says, "If one of the partitions failed to be
\* installed, revert all partitions": when every Revert went well, the device boots
\* next, and recovers from, the sides it did before.
RevertReverts ==
  [][ /\ pc = "revert" /\ pc' = "raised"
      /\ \A u \in updaters : child[u] = "done"
      => priority = Other(inactive_state) /\ minios_priority = Other(target_minios) ]_vars
=============================================================================
