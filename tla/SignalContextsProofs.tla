------------------------- MODULE SignalContextsProofs -------------------------
(***************************************************************************)
(* SignalContexts, for contexts of any depth, times of any length and any   *)
(* number of signals: unless an exception has cut a context's own first or  *)
(* last lines short, the handlers are the innermost context's, the timer is *)
(* set to the earliest deadline, and an alarm comes when one is over.       *)
(*                                                                          *)
(* The argument goes down the stack: what each context has saved is the     *)
(* handler of the one around it and a time that is right for all the        *)
(* timeouts around it, so that a context that is left puts back what they   *)
(* need.  An inner timeout may ring for them: then an alarm is due to all   *)
(* of the contexts inside the one whose time is over.                       *)
(*                                                                          *)
(* EnforcedCleanup, the other context that is left by signals, follows it.  *)
(***************************************************************************)
EXTENDS SignalContexts, SequenceTheorems, TLAPS

\* EnforcedCleanup is a system of its own; no variable is shared.
CONSTANTS MaxInterrupts, MaxKills
VARIABLES parent, watchdog, watchdog_alive, lock, pipe, cgroups, cleaned, tempdir, astray,
          died, interrupts, kills
EC == INSTANCE EnforcedCleanup

-----------------------------------------------------------------------------
(* The inductive invariant.                                                 *)

\* Types, for contexts of any depth and times of any length.
AnyHandler == {Default, Ignore, Script} \cup ({"timeout", "fatal", "defer"} \X Nat)
AnyEntry == [kind : {"timeout", "fatal", "defer"}, run : Nat, left : Nat,
             had_previous : BOOLEAN, previous_timeout : Nat,
             handlers : [Signal -> AnyHandler], received : Seq(Signal)]
Types ==
  /\ stack \in Seq(AnyEntry) /\ timer \in Nat /\ pending \subseteq Signal
  /\ onSignal \in [Signal -> AnyHandler]

\* The handler of alarms that belongs to level k of the stack.
AlarmOf(k) == IF k = 0 THEN Default ELSE <<stack[k].kind, k>>

\* The time of a timeout no deeper than k is over.
Due(k) == \E j \in Timers : j <= k /\ stack[j].left = 0

\* A timer of t would ring at the earliest deadline of the timeouts no deeper than k, or
\* is 0 where there are none; when one is over, it may ring at any time.
InTime(k, t) ==
  \/ Due(k)
  \/ /\ \A j \in Timers : j <= k => t <= stack[j].left
     /\ \/ \E j \in Timers : j <= k /\ stack[j].left = t
        \/ t = 0 /\ \A j \in Timers : j > k

\* The innermost context is of the kind whose line the program is at.
PcFits ==
  /\ pc \in {"cancel", "rearm"} => Depth > 0 /\ Top.kind = "timeout"
  /\ pc \in {"setHandler", "schedule", "unsetHandler"} => Depth > 0 /\ Top.kind # "defer"
  /\ pc \in {"setTerm", "setAlarm", "unsetAlarm", "relay"} => Depth > 0 /\ Top.kind = "defer"
  /\ pc = "finally" => Depth > 0
  /\ pc = "rearm" => Top.had_previous
  /\ pc = "ended" => Depth = 0
  /\ pc \in {"body", "cancel", "setHandler", "schedule", "finally", "unsetHandler", "rearm",
             "setTerm", "setAlarm", "unsetAlarm", "relay", "ended"}

\* There is one DeferSignals at most.
OneDefers == \A j, k \in Deferring : j = k

\* The alarm's handler is that of the innermost context, or of the one around it while
\* the innermost has yet to set its own, or has put back what it found.
AlarmFits ==
  /\ pc \in {"body", "schedule", "unsetHandler", "ended"} => onSignal["ALRM"] = AlarmOf(Depth)
  /\ pc \in {"cancel", "setHandler", "rearm", "setTerm", "setAlarm", "relay"} =>
       onSignal["ALRM"] = AlarmOf(Depth - 1)
  /\ pc \in {"finally", "unsetAlarm"} =>
       \/ onSignal["ALRM"] = AlarmOf(Depth)
       \/ Top.kind = "defer" /\ onSignal["ALRM"] = AlarmOf(Depth - 1)

\* SIGTERM's is that of the DeferSignals around the program, or the script's.
TermFits ==
  \/ onSignal["TERM"] \in {Script, Ignore}
     /\ \A k \in Deferring : k = Depth /\ pc \in {"setTerm", "finally", "unsetAlarm", "relay"}
  \/ \E k \in Deferring : /\ onSignal["TERM"] = <<"defer", k>>
                          /\ k = Depth => pc \in {"body", "setAlarm", "finally"}

\* What a context has saved are the handlers and the timer of the contexts around it;
\* an alarm it has held back is theirs.
HandlerKept(k) == k \in Timers => stack[k].handlers["ALRM"] = AlarmOf(k - 1)

TimeKept(k) == k \in Timers => InTime(k - 1, stack[k].previous_timeout)

Kept(k) ==
  /\ k \in Deferring =>
       /\ stack[k].handlers["ALRM"] = AlarmOf(k - 1)
       /\ stack[k].handlers["TERM"] \in {Script, Ignore}
  /\ stack[k].had_previous => stack[k].kind = "timeout" /\ \E j \in Timers : j < k
  /\ ~stack[k].had_previous => stack[k].previous_timeout = 0

Held(k) ==
  k \in Deferring =>
    \A i \in DOMAIN stack[k].received : stack[k].received[i] = "ALRM" => Due(k - 1)

SavedFits ==
  \A k \in Level :
    /\ Kept(k) /\ Held(k)
    /\ k < Depth \/ pc \notin {"cancel", "setHandler"} => HandlerKept(k)
    /\ k < Depth \/ pc # "cancel" => TimeKept(k)

\* The timer, where it is set, is set for the contexts that have entered it.
TimerFits ==
  /\ pc \in {"body", "finally", "setTerm", "setAlarm", "unsetAlarm", "relay"} =>
       InTime(Depth, timer)
  /\ pc = "cancel" => InTime(Depth - 1, timer)
  /\ pc \in {"setHandler", "schedule", "unsetHandler", "rearm"} => timer = 0
  /\ pc \in {"cancel", "setHandler", "schedule"} => Top.run > 0 /\ Top.left = 0

\* An alarm that has come is one the contexts up to its handler's have waited for.
AlarmFinds ==
  "ALRM" \in pending =>
    /\ pc \notin {"cancel", "schedule", "rearm"}
    /\ \E k \in 0 .. Depth : onSignal["ALRM"] = AlarmOf(k) /\ Due(k)

Fits ==
  /\ Types /\ PcFits /\ OneDefers /\ AlarmFits /\ TermFits
  /\ SavedFits /\ TimerFits /\ AlarmFinds

\* After a race nothing is known.
IInv == raced \in BOOLEAN /\ (raced \/ Fits)

-----------------------------------------------------------------------------
(* The stack, and times.                                                    *)

LEMMA Minimum ==
  ASSUME NEW S \in SUBSET Nat, NEW x \in S, \A y \in S : x <= y
  PROVE  Min(S) = x
<1>1. \A z \in S : (\A y \in S : z <= y) => z = x
  OBVIOUS
<1> QED BY <1>1 DEF Min

LEMMA Maximum ==
  ASSUME NEW S \in SUBSET Nat, NEW x \in S, \A y \in S : x >= y
  PROVE  Max(S) = x
<1>1. \A z \in S : (\A y \in S : z >= y) => z = x
  OBVIOUS
<1> QED BY <1>1 DEF Max

LEMMA Levels ==
  ASSUME Types
  PROVE  /\ Depth \in Nat /\ Level \subseteq Nat
         /\ Depth > 0 => Depth \in Level
         /\ \A k : k \in Level <=> k \in Nat /\ 1 <= k /\ k <= Depth
         /\ \A k \in Level : stack[k] \in AnyEntry
         /\ \A k : k \in Timers <=> k \in Level /\ stack[k].kind # "defer"
         /\ \A k : k \in Deferring <=> k \in Level /\ stack[k].kind = "defer"
  BY DEF Types, Depth, Level, Timers, Deferring

LEMMA Pushed ==
  ASSUME Types, NEW e \in AnyEntry, stack' = Append(stack, e)
  PROVE  /\ stack' \in Seq(AnyEntry) /\ Depth' = Depth + 1 /\ stack'[Depth + 1] = e
         /\ \A k \in 1 .. Depth : stack'[k] = stack[k]
  BY DEF Types, Depth

LEMMA Popped ==
  ASSUME Types, Depth > 0, stack' = Front(stack)
  PROVE  /\ stack' \in Seq(AnyEntry) /\ Depth' = Depth - 1
         /\ \A k \in 1 .. Depth - 1 : stack'[k] = stack[k]
<1> DEFINE n == Depth - 1
<1>1. Depth \in Nat /\ n \in Nat /\ n \in 0 .. Len(stack)
  BY DEF Types, Depth
<1>2. stack \in Seq(AnyEntry) /\ stack' = SubSeq(stack, 1, n)
  BY DEF Types, Front, Depth
<1>3. Len(stack') = n /\ \A k \in 1 .. n : stack'[k] = stack[k]
  BY <1>1, <1>2
<1>4. stack' \in Seq(AnyEntry)
  BY <1>1, <1>2
<1> QED BY <1>3, <1>4 DEF Depth

\* The contexts up to level m are what they were: their deadlines too.
LEMMA SameBelow ==
  ASSUME Types, Types', NEW m \in Nat, m <= Depth, m <= Depth',
         \A k \in 1 .. m : stack'[k].kind = stack[k].kind /\ stack'[k].left = stack[k].left,
         NEW k \in 0 .. m
  PROVE  /\ AlarmOf(k)' = AlarmOf(k)
         /\ Due(k)' <=> Due(k)
         /\ \A t \in Nat : InTime(k, t)' <=> InTime(k, t)
<1>1. \A j : j \in Timers /\ j <= k <=> j \in 1 .. k /\ stack[j].kind # "defer"
  BY Levels
<1>2. \A j : j \in Timers' /\ j <= k <=> j \in 1 .. k /\ stack'[j].kind # "defer"
  <2>1. \A j : j \in Timers' <=> j \in Level' /\ stack'[j].kind # "defer"
    BY DEF Timers, Deferring
  <2>2. Depth' \in Nat
    BY DEF Types, Depth
  <2> QED BY <2>1, <2>2 DEF Level
<1>3. \A j : j \in Timers' /\ j <= k <=> j \in Timers /\ j <= k
  BY <1>1, <1>2
<1>4. \A j \in 1 .. k : stack'[j].left = stack[j].left
  OBVIOUS
<1>5. Due(k)' <=> Due(k)
  BY <1>1, <1>3, <1>4 DEF Due
<1>6. (\A j \in Timers : j > k) <=> ~\E j \in Timers : j <= k
  BY Levels
<1>7. (\A j \in Timers' : j > k) <=> ~\E j \in Timers' : j <= k
  <2>1. Timers' \subseteq Nat
    BY DEF Types, Depth, Timers, Level
  <2> QED BY <2>1
<1>8. \A t \in Nat : InTime(k, t)' <=> InTime(k, t)
  <2> TAKE t \in Nat
  <2> QED BY <1>1, <1>3, <1>4, <1>5, <1>6, <1>7 DEF InTime
<1> QED BY <1>5, <1>8 DEF AlarmOf

\* A tick later a deadline is as much nearer as the time to it is shorter.
LEMMA AgedBelow ==
  ASSUME Types, stack' = Aged, NEW k \in 0 .. Depth
  PROVE  /\ stack' \in Seq(AnyEntry) /\ Depth' = Depth
         /\ \A j \in Level : /\ stack'[j].kind = stack[j].kind /\ stack'[j].run = stack[j].run
                             /\ stack'[j].left = Minus1(stack[j].left)
                             /\ stack'[j].handlers = stack[j].handlers
                             /\ stack'[j].received = stack[j].received
                             /\ stack'[j].had_previous = stack[j].had_previous
                             /\ stack'[j].previous_timeout = Minus1(stack[j].previous_timeout)
         /\ AlarmOf(k)' = AlarmOf(k)
         /\ Due(k) => Due(k)'
         /\ \A t \in Nat : InTime(k, t) => InTime(k, Minus1(t))' /\ (t = 1 => Due(k)')
<1>0. /\ Depth \in Nat /\ Level = 1 .. Depth
      /\ \A j \in Level : stack[j] \in AnyEntry
  BY Levels DEF Level
<1>1. /\ DOMAIN stack' = 1 .. Depth
      /\ \A j \in Level : stack'[j] = [stack[j] EXCEPT !.left = Minus1(@),
                                                       !.previous_timeout = Minus1(@)]
  BY <1>0 DEF Aged
<1>2. ASSUME NEW j \in Level
      PROVE  /\ stack[j] \in AnyEntry /\ stack'[j] \in AnyEntry
             /\ stack'[j].kind = stack[j].kind
             /\ stack'[j].left = Minus1(stack[j].left)
             /\ stack'[j].previous_timeout = Minus1(stack[j].previous_timeout)
             /\ stack'[j].had_previous = stack[j].had_previous
             /\ stack'[j].handlers = stack[j].handlers
             /\ stack'[j].received = stack[j].received
             /\ stack'[j].run = stack[j].run
  <2>1. stack[j] \in AnyEntry
    BY <1>0
  <2>2. PICK l, p : /\ l = Minus1(stack[j].left) /\ p = Minus1(stack[j].previous_timeout)
                    /\ stack'[j] = [stack[j] EXCEPT !.left = l, !.previous_timeout = p]
    BY <1>1
  <2>3. l \in Nat /\ p \in Nat
    BY <2>1, <2>2 DEF AnyEntry, Minus1
  <2>4. stack'[j] \in AnyEntry
    BY <2>1, <2>2, <2>3 DEF AnyEntry
  <2> QED BY <2>1, <2>2, <2>4 DEF AnyEntry
<1>3. stack' \in Seq(AnyEntry) /\ Depth' = Depth /\ Level' = Level
  <2>1. stack' = [j \in 1 .. Depth |-> stack'[j]]
    BY <1>0 DEF Aged
  <2>2. stack' \in [1 .. Depth -> AnyEntry]
    BY <1>0, <1>2, <2>1
  <2>3. stack' \in Seq(AnyEntry) /\ Len(stack') = Depth
    BY <1>0, <2>2
  <2> QED BY <2>3 DEF Depth, Level
<1>4. Timers' = Timers
  BY <1>2, <1>3 DEF Timers, Deferring
<1>5. \A j \in Timers : stack[j].left \in Nat /\ stack'[j].left = Minus1(stack[j].left)
  BY <1>2, Levels DEF AnyEntry
<1>6. Due(k) => Due(k)'
  BY <1>4, <1>5 DEF Due, Minus1
<1>7. ASSUME NEW t \in Nat, InTime(k, t) PROVE InTime(k, Minus1(t))' /\ (t = 1 => Due(k)')
  <2>1. CASE Due(k)
    BY <1>6, <2>1 DEF InTime
  <2>2. CASE ~Due(k)
    <3>1. PICK T : T = Minus1(t) /\ T \in Nat
      BY DEF Minus1
    <3>2. \A j \in Timers : j <= k => T <= stack'[j].left
      BY <1>5, <1>7, <2>2, <3>1 DEF InTime, Minus1
    <3>3. \/ \E j \in Timers : j <= k /\ stack'[j].left = T
          \/ T = 0 /\ t = 0 /\ \A j \in Timers : j > k
      BY <1>5, <1>7, <2>2, <3>1 DEF InTime, Minus1
    <3>4. InTime(k, T)'
      BY <1>4, <3>2, <3>3 DEF InTime
    <3>5. t = 1 => Due(k)'
      BY <1>4, <3>1, <3>3 DEF Due, Minus1
    <3> QED BY <3>1, <3>4, <3>5
  <2> QED BY <2>1, <2>2
<1>8. AlarmOf(k)' = AlarmOf(k)
  BY <1>0, <1>2 DEF AlarmOf
<1> QED BY <1>2, <1>3, <1>6, <1>7, <1>8

\* What they have saved is right as long as it is saved.
LEMMA KeptBelow ==
  ASSUME Types, Types', NEW m \in Nat, m <= Depth, m <= Depth',
         \A k \in 1 .. m : /\ stack'[k].kind = stack[k].kind
                           /\ stack'[k].left = stack[k].left
                           /\ stack'[k].handlers = stack[k].handlers
                           /\ stack'[k].had_previous = stack[k].had_previous
                           /\ stack'[k].previous_timeout = stack[k].previous_timeout,
         NEW k \in 1 .. m
  PROVE  /\ HandlerKept(k) => HandlerKept(k)'
         /\ TimeKept(k) => TimeKept(k)'
         /\ Kept(k) => Kept(k)'
         /\ stack'[k].received = stack[k].received /\ Held(k) => Held(k)'
<1>1. k \in Nat /\ k - 1 \in 0 .. m /\ k \in Level /\ k \in Level'
  BY Levels DEF Level, Depth, Types
<1>2. /\ AlarmOf(k - 1)' = AlarmOf(k - 1)
      /\ Due(k - 1)' <=> Due(k - 1)
      /\ \A t \in Nat : InTime(k - 1, t)' <=> InTime(k - 1, t)
  BY <1>1, SameBelow
<1>3. (k \in Timers' <=> k \in Timers) /\ (k \in Deferring' <=> k \in Deferring)
  BY <1>1 DEF Timers, Deferring
<1>4. stack[k].previous_timeout \in Nat
  BY <1>1, Levels DEF AnyEntry
<1>5. HandlerKept(k) => HandlerKept(k)'
  BY <1>2, <1>3 DEF HandlerKept
<1>6. TimeKept(k) => TimeKept(k)'
  BY <1>2, <1>3, <1>4 DEF TimeKept
<1>7. (\E j \in Timers : j < k) => \E j \in Timers' : j < k
  <2>1. ASSUME NEW j \in Timers, j < k PROVE j \in Timers'
    BY <1>1, <2>1, Levels DEF Timers, Deferring, Level, Depth, Types
  <2> QED BY <2>1
<1>8. Kept(k) => Kept(k)'
  BY <1>2, <1>3, <1>7 DEF Kept
<1>9. stack'[k].received = stack[k].received /\ Held(k) => Held(k)'
  BY <1>2, <1>3 DEF Held
<1> QED BY <1>5, <1>6, <1>8, <1>9

\* So it is when a tick passes.
LEMMA KeptAged ==
  ASSUME Types, stack' = Aged, NEW k \in Level
  PROVE  /\ HandlerKept(k) => HandlerKept(k)'
         /\ TimeKept(k) => TimeKept(k)'
         /\ Kept(k) => Kept(k)'
         /\ Held(k) => Held(k)'
<1>1. k \in Nat /\ k - 1 \in 0 .. Depth /\ Depth \in Nat /\ Level' = Level
  BY Levels, AgedBelow DEF Level
<1>2. /\ AlarmOf(k - 1)' = AlarmOf(k - 1)
      /\ Due(k - 1) => Due(k - 1)'
      /\ \A t \in Nat : InTime(k - 1, t) => InTime(k - 1, Minus1(t))'
  BY <1>1, AgedBelow
<1>3. /\ stack'[k].kind = stack[k].kind /\ stack'[k].handlers = stack[k].handlers
      /\ stack'[k].received = stack[k].received
      /\ stack'[k].had_previous = stack[k].had_previous
      /\ stack'[k].previous_timeout = Minus1(stack[k].previous_timeout)
  BY <1>1, AgedBelow
<1>4. Timers' = Timers /\ Deferring' = Deferring
  BY <1>1, AgedBelow DEF Timers, Deferring
<1>5. stack[k].previous_timeout \in Nat
  BY <1>1, Levels DEF AnyEntry
<1>6. TimeKept(k) => TimeKept(k)'
  BY <1>2, <1>3, <1>4, <1>5 DEF TimeKept
<1>7. Kept(k) => Kept(k)'
  BY <1>2, <1>3, <1>4, <1>5 DEF Kept, Minus1
<1> QED BY <1>2, <1>3, <1>4, <1>6, <1>7 DEF HandlerKept, Held

\* A stack that stays as it is.
LEMMA StackStays ==
  ASSUME UNCHANGED stack
  PROVE  /\ Depth' = Depth /\ Level' = Level /\ Timers' = Timers /\ Deferring' = Deferring
         /\ \A k : AlarmOf(k)' = AlarmOf(k)
         /\ \A k : Due(k)' <=> Due(k)
         /\ \A k, t : InTime(k, t)' <=> InTime(k, t)
         /\ \A k : /\ HandlerKept(k)' <=> HandlerKept(k)
                   /\ TimeKept(k)' <=> TimeKept(k)
                   /\ Kept(k)' <=> Kept(k)
                   /\ Held(k)' <=> Held(k)
<1>1. Depth' = Depth /\ Level' = Level /\ Timers' = Timers /\ Deferring' = Deferring
  BY DEF Depth, Level, Timers, Deferring
<1>2. \A k : AlarmOf(k)' = AlarmOf(k)
  BY DEF AlarmOf
<1>3. \A k : Due(k)' <=> Due(k)
  BY <1>1 DEF Due
<1>4. \A k, t : InTime(k, t)' <=> InTime(k, t)
  BY <1>1, <1>3 DEF InTime
<1>5. \A k : /\ HandlerKept(k)' <=> HandlerKept(k)
             /\ TimeKept(k)' <=> TimeKept(k)
             /\ Kept(k)' <=> Kept(k)
             /\ Held(k)' <=> Held(k)
  BY <1>1, <1>2, <1>3, <1>4 DEF HandlerKept, TimeKept, Kept, Held
<1> QED BY <1>1, <1>2, <1>3, <1>4, <1>5

\* When a deadline is over a timer may have any time.
LEMMA Dues ==
  ASSUME Types, NEW k \in Nat, Due(k)
  PROVE  /\ \A m \in Nat : m >= k => Due(m)
         /\ \A t : InTime(k, t)
         /\ k > 0
<1>1. PICK j \in Timers : j <= k /\ stack[j].left = 0
  BY DEF Due
<1>2. j \in Nat /\ 1 <= j
  BY Levels
<1> QED BY <1>1, <1>2 DEF Due, InTime

\* A DeferSignals has no deadline.
LEMMA NoDeadline ==
  ASSUME Types, NEW k \in Deferring
  PROVE  /\ k - 1 \in Nat
         /\ Due(k) <=> Due(k - 1)
         /\ \A t : InTime(k, t) <=> InTime(k - 1, t)
<1>1. k \in Nat /\ k - 1 \in Nat /\ k \notin Timers /\ Timers \subseteq Nat
  BY Levels
<1>2. \A j \in Timers : j <= k <=> j <= k - 1
  BY <1>1
<1>3. Due(k) <=> Due(k - 1)
  BY <1>2 DEF Due
<1>4. \A j \in Timers : j > k <=> j > k - 1
  BY <1>1
<1> QED BY <1>1, <1>2, <1>3, <1>4 DEF InTime

-----------------------------------------------------------------------------
(* The steps.                                                               *)

\* The program leaves a context, catches an exception or ends; SIGTERM is sent.
LEMMA ProgramKeeps ==
  ASSUME Fits, Leave \/ Unwind \/ Catch \/ End \/ Terminate
  PROVE  Fits'
<1> USE DEF Leave, Unwind, Catch, End, Terminate, Calm, Steps
<1>1. /\ UNCHANGED <<stack, timer, onSignal>>
      /\ pending' = pending \/ pending' = pending \cup {"TERM"}
  OBVIOUS
<1>2. Types'
  BY <1>1 DEF Fits, Types, Signal
<1>3. Depth \in Nat /\ (Depth > 0 => Depth \in Level) /\ Level \subseteq Nat
  BY Levels DEF Fits
<1>4. \/ pc' = pc
      \/ pc = "body" /\ ((pc' = "finally" /\ Depth > 0) \/ (pc' = "ended" /\ Depth = 0))
  BY <1>3
<1>5. PcFits'
  BY <1>1, <1>4, StackStays DEF Fits, PcFits, Top
<1>6. OneDefers' /\ AlarmFits'
  BY <1>1, <1>3, <1>4, StackStays DEF Fits, OneDefers, AlarmFits, Top
<1>t. TermFits'
  <2>1. \A k \in Deferring : Depth > 0
    BY Levels DEF Fits
  <2> QED BY <1>1, <1>4, <2>1, StackStays DEF Fits, TermFits
<1>7. SavedFits'
  BY <1>1, <1>4, StackStays DEF Fits, SavedFits
<1>8. TimerFits'
  BY <1>1, <1>4, StackStays DEF Fits, TimerFits, Top
<1>9. AlarmFinds'
  BY <1>1, <1>4, StackStays DEF Fits, AlarmFinds
<1> QED BY <1>2, <1>5, <1>6, <1>t, <1>7, <1>8, <1>9 DEF Fits

\* A tick.
LEMMA TickKeeps ==
  ASSUME Fits, Tick
  PROVE  Fits'
<1> USE DEF Tick, Steps
<1>1. /\ stack' = Aged /\ timer' = Minus1(timer) /\ UNCHANGED <<pc, onSignal>>
      /\ pc \in {"body", "finally"} /\ pending = {}
      /\ pending' = IF timer = 1 THEN {"ALRM"} ELSE {}
  OBVIOUS
<1>2. Types /\ Depth \in Nat /\ (Depth > 0 => Depth \in Level) /\ Level = 1 .. Depth
  BY Levels DEF Fits, Level
<1>3. /\ stack' \in Seq(AnyEntry) /\ Depth' = Depth /\ Level' = Level
      /\ \A k \in Level : stack'[k].kind = stack[k].kind
      /\ \A k \in 0 .. Depth : AlarmOf(k)' = AlarmOf(k)
      /\ Timers' = Timers /\ Deferring' = Deferring
  BY <1>1, <1>2, AgedBelow DEF Level, Timers, Deferring
<1>4. Types'
  BY <1>1, <1>3 DEF Fits, Types, Minus1, Signal
<1>5. Depth > 0 => Top'.kind = Top.kind
  BY <1>2, <1>3 DEF Top
<1>6. PcFits' /\ OneDefers' /\ TermFits'
  BY <1>1, <1>3 DEF Fits, PcFits, OneDefers, TermFits
<1>7. AlarmFits'
  BY <1>1, <1>2, <1>3, <1>5 DEF Fits, PcFits, AlarmFits
<1>8. SavedFits'
  BY <1>1, <1>2, <1>3, KeptAged DEF Fits, SavedFits
<1>n. PICK n \in 0 .. Depth : n = Depth
  BY <1>2
<1>9. TimerFits' /\ (timer = 1 => Due(n)')
  <2>1. PICK t \in Nat : t = timer /\ InTime(n, t)
    BY <1>1, <1>n DEF Fits, TimerFits, Types
  <2>2. InTime(n, Minus1(t))' /\ (t = 1 => Due(n)')
    BY <1>1, <1>2, <2>1, AgedBelow
  <2>3. PICK u : u = Minus1(t)
    OBVIOUS
  <2>4. InTime(n, u)' /\ timer' = u
    BY <1>1, <2>1, <2>2, <2>3 DEF Minus1
  <2> QED BY <1>1, <1>3, <1>n, <2>1, <2>2, <2>4 DEF TimerFits
<1>10. AlarmFinds'
  <2>1. ASSUME timer = 1
        PROVE  \E k \in 0 .. Depth : onSignal["ALRM"] = AlarmOf(k) /\ Due(k)'
    <3>1. CASE onSignal["ALRM"] = AlarmOf(Depth)
      BY <1>n, <1>9, <2>1, <3>1
    <3>2. CASE onSignal["ALRM"] # AlarmOf(Depth)
      <4>1. n \in Deferring /\ onSignal["ALRM"] = AlarmOf(n - 1)
        BY <1>1, <1>2, <1>n, <3>2, Levels DEF Fits, PcFits, AlarmFits, Top
      <4>2. \A j \in Timers : j <= n <=> j <= n - 1
        BY <1>2, <4>1, Levels
      <4>3. Due(n - 1)' /\ n - 1 \in 0 .. Depth
        BY <1>2, <1>3, <1>9, <2>1, <4>1, <4>2 DEF Due, Level, Deferring
      <4> QED BY <4>1, <4>3
    <3> QED BY <3>1, <3>2
  <2> QED BY <1>1, <1>3, <2>1 DEF AlarmFinds
<1> QED BY <1>4, <1>6, <1>7, <1>8, <1>9, <1>10 DEF Fits

\* Steps that only the exception knows of.
LEMMA StutterKeeps ==
  ASSUME Fits, UNCHANGED <<stack, pc, timer, pending, onSignal>>
  PROVE  Fits'
<1>1. Top' = Top /\ Types'
  BY DEF Fits, Types, Top, Depth
<1>2. PcFits' /\ OneDefers' /\ AlarmFits' /\ TermFits'
  BY <1>1, StackStays DEF Fits, PcFits, OneDefers, AlarmFits, TermFits
<1>3. SavedFits' /\ TimerFits' /\ AlarmFinds'
  BY <1>1, StackStays DEF Fits, SavedFits, TimerFits, AlarmFinds
<1> QED BY <1>1, <1>2, <1>3 DEF Fits

\* A context is entered.
LEMMA EnterKeeps ==
  ASSUME Fits, Calm, NEW kind \in {"timeout", "fatal", "defer"}, NEW run \in Nat,
         kind # "defer" => run > 0,
         NEW handlers \in [Signal -> AnyHandler], Push(kind, run, handlers),
         UNCHANGED <<timer, pending, onSignal>>,
         \/ kind = "timeout" /\ pc' = "cancel"
         \/ kind = "fatal" /\ pc' = "setHandler" /\ timer = 0
         \/ kind = "defer" /\ pc' = "setTerm" /\ Deferring = {} /\ handlers = onSignal
  PROVE  Fits'
<1> USE DEF Calm, Steps
<1>1. /\ Types /\ Depth \in Nat /\ Level = 1 .. Depth /\ pc = "body" /\ pending = {}
      /\ timer \in Nat /\ \A k \in Timers \cup Deferring : k \in Nat /\ k <= Depth
  BY Levels DEF Fits, Level, Types
<1>2. PICK n \in 0 .. Depth : n = Depth
  BY <1>1
<1>3. PICK e \in AnyEntry :
        /\ e.kind = kind /\ e.run = run /\ e.left = 0 /\ ~e.had_previous /\ e.previous_timeout = 0
        /\ e.handlers = handlers /\ e.received = << >>
        /\ stack' = Append(stack, e)
  <2>1. PICK e : e = [kind |-> kind, run |-> run, left |-> 0,
                      had_previous |-> FALSE, previous_timeout |-> 0,
                      handlers |-> handlers, received |-> << >>]
    OBVIOUS
  <2>2. e \in AnyEntry
    BY <2>1 DEF AnyEntry
  <2> QED BY <2>1, <2>2 DEF Push
<1>4. /\ stack' \in Seq(AnyEntry) /\ Depth' = n + 1 /\ stack'[n + 1] = e
      /\ \A k \in 1 .. n : stack'[k] = stack[k]
  BY <1>1, <1>2, <1>3, Pushed
<1>5. Types' /\ Level' = 1 .. n + 1 /\ Top' = e /\ Depth' - 1 = n
  <2>1. Types'
    BY <1>4 DEF Fits, Types
  <2>2. n \in Nat /\ Depth' - 1 = n
    BY <1>1, <1>2, <1>4
  <2> QED BY <1>4, <2>1, <2>2 DEF Level, Top
<1>6. /\ \A k \in 1 .. n : (k \in Deferring' <=> k \in Deferring)
                            /\ (k \in Timers' <=> k \in Timers)
      /\ n + 1 \in Deferring' <=> kind = "defer"
      /\ n + 1 \in Timers' <=> kind # "defer"
      /\ Deferring' \subseteq 1 .. n + 1 /\ Timers' \subseteq 1 .. n + 1
  <2>1. n \in Nat /\ Level = 1 .. n /\ n + 1 \in Level'
    BY <1>1, <1>2, <1>5
  <2>2. \A k : /\ k \in Deferring' <=> k \in Level' /\ stack'[k].kind = "defer"
               /\ k \in Timers' <=> k \in Level' /\ stack'[k].kind # "defer"
               /\ k \in Deferring <=> k \in Level /\ stack[k].kind = "defer"
               /\ k \in Timers <=> k \in Level /\ stack[k].kind # "defer"
    BY DEF Deferring, Timers
  <2>3. \A k \in 1 .. n : k \in Level /\ k \in Level'
    BY <1>5, <2>1
  <2> QED BY <1>3, <1>4, <1>5, <2>1, <2>2, <2>3
<1>7. ASSUME NEW k \in 0 .. n
      PROVE  /\ AlarmOf(k)' = AlarmOf(k)
             /\ \A t \in Nat : InTime(k, t)' <=> InTime(k, t)
  <2>1. n \in Nat /\ n <= Depth /\ n <= Depth'
    BY <1>1, <1>2, <1>4
  <2> QED BY <1>1, <1>4, <1>5, <2>1, SameBelow
<1>8. PICK t \in Nat : t = timer /\ timer' = t /\ InTime(n, t) /\ InTime(n, t)'
  BY <1>1, <1>2, <1>7 DEF Fits, TimerFits
<1>9. onSignal' = onSignal /\ onSignal["ALRM"] = AlarmOf(n) /\ AlarmOf(n)' = AlarmOf(n)
  BY <1>1, <1>2, <1>7 DEF Fits, AlarmFits
<1>10. PcFits' /\ OneDefers'
  BY <1>1, <1>2, <1>3, <1>4, <1>5, <1>6 DEF Fits, PcFits, OneDefers
<1>11. AlarmFits'
  BY <1>5, <1>9 DEF AlarmFits
<1>12. Deferring = {} => onSignal["TERM"] \in {Script, Ignore}
  BY DEF Fits, TermFits
<1>13. TermFits'
  <2>1. CASE Deferring = {}
    BY <1>1, <1>2, <1>4, <1>6, <1>9, <1>12, <2>1 DEF TermFits
  <2>2. CASE Deferring # {}
    <3>1. PICK k \in Deferring : onSignal["TERM"] = <<"defer", k>>
      BY <1>1, <2>2 DEF Fits, TermFits
    <3>2. k \in Deferring' /\ k # Depth'
      <4>1. k \in Nat /\ k \in 1 .. n
        BY <1>1, <1>2, Levels
      <4> QED BY <1>2, <1>4, <1>6, <4>1
    <3> QED BY <1>9, <3>1, <3>2 DEF TermFits
  <2> QED BY <2>1, <2>2
<1>14. SavedFits'
  <2>1. ASSUME NEW k \in 1 .. n
        PROVE  Kept(k)' /\ Held(k)' /\ HandlerKept(k)' /\ TimeKept(k)'
    <3>1. Kept(k) /\ Held(k) /\ HandlerKept(k) /\ TimeKept(k)
      BY <1>1, <1>2 DEF Fits, SavedFits
    <3>2. n \in Nat /\ n <= Depth /\ n <= Depth'
      BY <1>1, <1>2, <1>4
    <3> QED BY <1>1, <1>4, <1>5, <3>1, <3>2, KeptBelow
  <2>2. Kept(n + 1)'
    BY <1>1, <1>3, <1>4, <1>6, <1>9, <1>12 DEF Kept
  <2>3. Held(n + 1)'
    BY <1>3, <1>4 DEF Held
  <2>4. pc' = "setHandler" => TimeKept(n + 1)'
    BY <1>1, <1>3, <1>4, <1>8 DEF TimeKept
  <2>5. n + 1 < n + 1 \/ pc' \notin {"cancel", "setHandler"} => HandlerKept(n + 1)'
    BY <1>2, <1>6 DEF HandlerKept
  <2>6. n + 1 < n + 1 \/ pc' # "cancel" => TimeKept(n + 1)'
    BY <1>2, <1>6, <2>4 DEF TimeKept
  <2>7. \A k \in Level' : k \in 1 .. n \/ k = n + 1
    BY <1>2, <1>5
  <2> QED BY <1>4, <2>1, <2>2, <2>3, <2>5, <2>6, <2>7 DEF SavedFits
<1>15. TimerFits'
  <2>1. kind = "defer" => InTime(n + 1, t)'
    <3>1. kind = "defer" => \A j \in Timers' : j <= n + 1 <=> j <= n
      BY <1>2, <1>6
    <3>2. \A j \in Timers' : j \in Nat
      BY <1>2, <1>6
    <3> QED BY <1>2, <1>8, <3>1, <3>2 DEF InTime, Due
  <2> QED BY <1>3, <1>4, <1>5, <1>8, <2>1 DEF TimerFits
<1>16. AlarmFinds'
  BY <1>1 DEF AlarmFinds
<1> QED BY <1>5, <1>10, <1>11, <1>13, <1>14, <1>15, <1>16 DEF Fits

\* The innermost context changes, but for its kind.
LEMMA TopChanges ==
  ASSUME Types, Depth > 0, NEW e \in AnyEntry, e.kind = Top.kind,
         stack' = [stack EXCEPT ![Depth] = e]
  PROVE  /\ stack' \in Seq(AnyEntry) /\ Depth' = Depth /\ Level' = Level /\ Top' = e
         /\ Timers' = Timers /\ Deferring' = Deferring
         /\ \A k \in 1 .. Depth - 1 : stack'[k] = stack[k]
         /\ \A k \in 0 .. Depth : AlarmOf(k)' = AlarmOf(k)
<1>1. stack' \in Seq(AnyEntry) /\ Depth' = Depth /\ stack'[Depth] = e
      /\ \A k \in 1 .. Depth - 1 : stack'[k] = stack[k]
  BY DEF Types, Depth
<1>2. Level' = Level /\ Top' = e
  BY <1>1 DEF Level, Top
<1>3. Depth \in Nat /\ \A k \in Level : k \in 1 .. Depth - 1 \/ k = Depth
  BY DEF Types, Depth, Level
<1>4. \A k \in Level : stack'[k].kind = stack[k].kind
  BY <1>1, <1>3 DEF Top
<1>5. Timers' = Timers /\ Deferring' = Deferring
  BY <1>2, <1>4 DEF Timers, Deferring
<1>6. \A k \in 0 .. Depth : AlarmOf(k)' = AlarmOf(k)
  BY <1>3, <1>4 DEF AlarmOf, Level
<1> QED BY <1>1, <1>2, <1>5, <1>6

\* Nothing changes for the contexts around it.
LEMMA AroundTop ==
  ASSUME Types, Types', Depth > 0, Depth' = Depth \/ Depth' = Depth - 1,
         \A k \in 1 .. Depth - 1 : stack'[k] = stack[k]
  PROVE  /\ \A k \in 0 .. Depth - 1 : /\ AlarmOf(k)' = AlarmOf(k)
                                      /\ Due(k)' <=> Due(k)
                                      /\ \A t \in Nat : InTime(k, t)' <=> InTime(k, t)
         /\ \A k \in 1 .. Depth - 1 : /\ HandlerKept(k) => HandlerKept(k)'
                                      /\ TimeKept(k) => TimeKept(k)'
                                      /\ Kept(k) => Kept(k)'
                                      /\ Held(k) => Held(k)'
<1>1. PICK m \in Nat : m = Depth - 1 /\ m <= Depth /\ m <= Depth'
  <2>1. Depth \in Nat /\ Depth - 1 \in Nat
    BY DEF Types, Depth
  <2> QED BY <2>1
<1>2. \A k \in 1 .. m : stack'[k] = stack[k]
  BY <1>1
<1>3. ASSUME NEW k \in 0 .. m
      PROVE  /\ AlarmOf(k)' = AlarmOf(k)
             /\ Due(k)' <=> Due(k)
             /\ \A t \in Nat : InTime(k, t)' <=> InTime(k, t)
  BY <1>1, <1>2, SameBelow
<1>4. ASSUME NEW k \in 1 .. m
      PROVE  /\ HandlerKept(k) => HandlerKept(k)'
             /\ TimeKept(k) => TimeKept(k)'
             /\ Kept(k) => Kept(k)'
             /\ Held(k) => Held(k)'
  BY <1>1, <1>2, KeptBelow
<1> QED BY <1>1, <1>3, <1>4

\* The innermost context is left, its handlers and its timer are gone.
LEMMA PopKeeps ==
  ASSUME Fits, Depth > 0, Pop, pc' = "body", NEW t \in Nat, timer' = t,
         pending' \subseteq Signal, onSignal' \in [Signal -> AnyHandler],
         onSignal'["ALRM"] = AlarmOf(Depth - 1), InTime(Depth - 1, t),
         "ALRM" \in pending' => Due(Depth - 1),
         \/ Deferring \subseteq {Depth} /\ onSignal'["TERM"] \in {Script, Ignore}
         \/ \E k \in Deferring : k # Depth /\ onSignal'["TERM"] = <<"defer", k>>
  PROVE  Fits'
<1>1. PICK n \in Nat : n = Depth - 1
  BY DEF Fits, Types, Depth
<1>2. /\ Types /\ Depth = n + 1 /\ Level = 1 .. n + 1 /\ Depth' = n
      /\ stack' \in Seq(AnyEntry) /\ \A k \in 1 .. n : stack'[k] = stack[k]
  BY <1>1, Levels, Popped DEF Fits, Level, Pop
<1>3. Types' /\ Level' = 1 .. n
  BY <1>2 DEF Types, Level
<1>4. /\ \A k \in 0 .. n : /\ AlarmOf(k)' = AlarmOf(k)
                           /\ Due(k)' <=> Due(k)
                           /\ \A u \in Nat : InTime(k, u)' <=> InTime(k, u)
      /\ \A k \in 1 .. n : /\ HandlerKept(k) => HandlerKept(k)'
                           /\ TimeKept(k) => TimeKept(k)'
                           /\ Kept(k) => Kept(k)'
                           /\ Held(k) => Held(k)'
  BY <1>1, <1>2, <1>3, AroundTop
<1>5. /\ \A k : k \in Deferring' <=> k \in Deferring /\ k # Depth
      /\ Deferring' \subseteq Deferring
  BY <1>2, <1>3 DEF Deferring
<1>6. PcFits' /\ OneDefers'
  BY <1>5 DEF Fits, PcFits, OneDefers
<1>0. n \in 0 .. n /\ onSignal'["ALRM"] = AlarmOf(n) /\ InTime(n, t)
  BY <1>1
<1>7. AlarmFits'
  BY <1>0, <1>2, <1>4 DEF AlarmFits
<1>8. TermFits'
  BY <1>5 DEF TermFits
<1>9. SavedFits'
  <2>1. \A k \in 1 .. n : Kept(k) /\ Held(k) /\ HandlerKept(k) /\ TimeKept(k)
    BY <1>2 DEF Fits, SavedFits
  <2> QED BY <1>3, <1>4, <2>1 DEF SavedFits
<1>10. TimerFits'
  BY <1>0, <1>2, <1>4 DEF TimerFits
<1>11. AlarmFinds'
  <2>1. n \in 0 .. n
    OBVIOUS
  <2>2. "ALRM" \in pending' => onSignal'["ALRM"] = AlarmOf(n)' /\ Due(n)'
    BY <1>1, <1>4, <2>1
  <2> QED BY <1>2, <2>1, <2>2 DEF AlarmFinds
<1> QED BY <1>3, <1>6, <1>7, <1>8, <1>9, <1>10, <1>11 DEF Fits

\* Timeout: the previous timer is cancelled in time, and its rest is kept.
LEMMA CancelPreviousKeeps ==
  ASSUME Fits, CancelPrevious(TRUE)
  PROVE  Fits'
<1>1. /\ Types /\ pc = "cancel" /\ pc' = "setHandler" /\ pending = {} /\ pending' = {}
      /\ timer \in Nat /\ timer' = 0 /\ onSignal' = onSignal /\ Depth > 0 /\ Top.kind = "timeout"
  BY DEF CancelPrevious, Goes, Steps, _CancelTimer, Fits, Types
<1>2. PICK n \in Nat : n = Depth - 1 /\ Depth = n + 1
  BY <1>1 DEF Types, Depth
<1>3. Level = 1 .. n + 1 /\ Depth \in Level /\ Top \in AnyEntry
  BY <1>1, <1>2, Levels DEF Level, Top
<1>4. PICK t \in Nat : t = timer /\ InTime(n, t)
  BY <1>1, <1>2 DEF Fits, TimerFits
<1>b. PICK b \in BOOLEAN : b <=> t > 0
  OBVIOUS
<1>5. PICK e \in AnyEntry :
        /\ e = [Top EXCEPT !.had_previous = b, !.previous_timeout = t]
        /\ stack' = [stack EXCEPT ![Depth] = e]
  <2>1. PICK e : e = [Top EXCEPT !.had_previous = b, !.previous_timeout = t]
    OBVIOUS
  <2>2. e \in AnyEntry
    BY <1>3, <2>1 DEF AnyEntry
  <2>3. stack' = [stack EXCEPT ![Depth] = e]
    <3>1. b = (timer > 0)
      BY <1>b, <1>4
    <3> QED BY <1>4, <2>1, <3>1 DEF CancelPrevious, Top
  <2> QED BY <2>1, <2>2, <2>3
<1>6. /\ e.kind = Top.kind /\ e.run = Top.run /\ e.left = Top.left
      /\ e.had_previous = b /\ e.previous_timeout = t
      /\ e.handlers = Top.handlers /\ e.received = Top.received
  BY <1>3, <1>5 DEF AnyEntry
<1>7. /\ stack' \in Seq(AnyEntry) /\ Depth' = Depth /\ Level' = Level /\ Top' = e
      /\ Timers' = Timers /\ Deferring' = Deferring
      /\ \A k \in 1 .. n : stack'[k] = stack[k]
      /\ \A k \in 0 .. Depth : AlarmOf(k)' = AlarmOf(k)
  BY <1>1, <1>2, <1>5, <1>6, TopChanges
<1>8. Types'
  BY <1>1, <1>7 DEF Types
<1>9. /\ n \in 0 .. n /\ \A k \in 0 .. n : \A u \in Nat : InTime(k, u)' <=> InTime(k, u)
      /\ \A k \in 1 .. n : /\ HandlerKept(k) => HandlerKept(k)'
                           /\ TimeKept(k) => TimeKept(k)'
                           /\ Kept(k) => Kept(k)'
                           /\ Held(k) => Held(k)'
  BY <1>1, <1>2, <1>7, <1>8, AroundTop
<1>10. PcFits' /\ OneDefers' /\ AlarmFits' /\ TermFits'
  BY <1>1, <1>2, <1>3, <1>6, <1>7 DEF Fits, PcFits, OneDefers, AlarmFits, TermFits
<1>11. SavedFits'
  <2>1. \A k \in 1 .. n : Kept(k) /\ Held(k) /\ HandlerKept(k) /\ TimeKept(k)
    BY <1>2, <1>3 DEF Fits, SavedFits
  <2>2. n + 1 \notin Deferring /\ stack'[n + 1] = e
    BY <1>1, <1>2, <1>7 DEF Deferring, Top
  <2>3. Held(n + 1)' /\ TimeKept(n + 1)'
    BY <1>2, <1>4, <1>6, <1>7, <1>9, <2>2 DEF Held, TimeKept
  <2>4. t > 0 => \E j \in Timers : j < n + 1
    <3>1. \A j \in Timers : j \in Nat
      BY <1>1, Levels
    <3>2. t > 0 => \E j \in Timers : j <= n
      BY <1>4 DEF InTime, Due
    <3> QED BY <3>1, <3>2
  <2>5. Kept(n + 1)'
    <3>1. n + 1 \notin Deferring' /\ Timers' = Timers
      BY <1>7, <2>2
    <3>2. /\ stack'[n + 1].had_previous <=> t > 0
          /\ stack'[n + 1].previous_timeout = t /\ stack'[n + 1].kind = "timeout"
      BY <1>1, <1>b, <1>6, <2>2
    <3> QED BY <2>4, <3>1, <3>2 DEF Kept
  <2> QED BY <1>1, <1>2, <1>3, <1>7, <1>9, <2>1, <2>3, <2>5 DEF SavedFits
<1>12. TimerFits' /\ AlarmFinds'
  BY <1>1, <1>6, <1>7 DEF Fits, TimerFits, AlarmFinds
<1> QED BY <1>8, <1>10, <1>11, <1>12 DEF Fits

\* Its own handler is set, and the one there was is kept.
LEMMA SetKillUsKeeps ==
  ASSUME Fits, SetKillUs
  PROVE  Fits'
<1>1. /\ Types /\ pc = "setHandler" /\ pc' = "schedule" /\ pending = {} /\ pending' = {}
      /\ timer = 0 /\ timer' = 0 /\ Depth > 0 /\ Top.kind # "defer"
      /\ Top.run > 0 /\ Top.left = 0
      /\ onSignal' = [onSignal EXCEPT !["ALRM"] = <<Top.kind, Depth>>]
  BY DEF SetKillUs, Goes, Steps, SetHandler, Fits, TimerFits
<1>2. PICK n \in Nat : n = Depth - 1 /\ Depth = n + 1
  BY <1>1 DEF Types, Depth
<1>3. Level = 1 .. n + 1 /\ Depth \in Level /\ Top \in AnyEntry
  BY <1>1, <1>2, Levels DEF Level, Top
<1>4. /\ onSignal \in [Signal -> AnyHandler] /\ onSignal' \in [Signal -> AnyHandler]
      /\ onSignal["ALRM"] = AlarmOf(n) /\ onSignal'["ALRM"] = AlarmOf(n + 1)
      /\ onSignal'["TERM"] = onSignal["TERM"]
  <2>1. <<Top.kind, Depth>> \in AnyHandler /\ <<Top.kind, Depth>> = AlarmOf(n + 1)
    BY <1>1, <1>2, <1>3 DEF AnyHandler, AnyEntry, AlarmOf, Top
  <2> QED BY <1>1, <1>2, <2>1 DEF Fits, Types, AlarmFits, Signal
<1>5. PICK h \in [Signal -> AnyHandler] :
        h = [Top.handlers EXCEPT !["ALRM"] = onSignal["ALRM"]] /\ h["ALRM"] = AlarmOf(n)
  <2>1. Top.handlers \in [Signal -> AnyHandler] /\ onSignal["ALRM"] \in AnyHandler
    BY <1>3, <1>4 DEF AnyEntry, Signal
  <2>2. PICK h : h = [Top.handlers EXCEPT !["ALRM"] = onSignal["ALRM"]]
    OBVIOUS
  <2>3. h \in [Signal -> AnyHandler] /\ h["ALRM"] = onSignal["ALRM"]
    BY <2>1, <2>2 DEF Signal
  <2> QED BY <1>4, <2>2, <2>3
<1>6. PICK e \in AnyEntry :
        e = [Top EXCEPT !.handlers = h] /\ stack' = [stack EXCEPT ![Depth] = e]
  <2>1. PICK e : e = [Top EXCEPT !.handlers = h]
    OBVIOUS
  <2>2. e \in AnyEntry
    BY <1>3, <2>1 DEF AnyEntry
  <2>3. stack' = [stack EXCEPT ![Depth] = e]
    BY <1>5, <2>1 DEF SetKillUs, Top
  <2> QED BY <2>1, <2>2, <2>3
<1>7. /\ e.kind = Top.kind /\ e.run = Top.run /\ e.left = Top.left
      /\ e.had_previous = Top.had_previous
      /\ e.previous_timeout = Top.previous_timeout
      /\ e.handlers = h /\ e.received = Top.received
  BY <1>3, <1>6 DEF AnyEntry
<1>8. /\ stack' \in Seq(AnyEntry) /\ Depth' = Depth /\ Level' = Level /\ Top' = e
      /\ Timers' = Timers /\ Deferring' = Deferring
      /\ \A k \in 1 .. n : stack'[k] = stack[k]
      /\ \A k \in 0 .. Depth : AlarmOf(k)' = AlarmOf(k)
  BY <1>1, <1>2, <1>6, <1>7, TopChanges
<1>9. Types'
  BY <1>1, <1>4, <1>8 DEF Types
<1>10. /\ n \in 0 .. n /\ n + 1 \in 0 .. Depth
       /\ \A k \in 0 .. n : \A u \in Nat : InTime(k, u)' <=> InTime(k, u)
       /\ \A k \in 1 .. n : /\ HandlerKept(k) => HandlerKept(k)'
                            /\ TimeKept(k) => TimeKept(k)'
                            /\ Kept(k) => Kept(k)'
                            /\ Held(k) => Held(k)'
  BY <1>1, <1>2, <1>8, <1>9, AroundTop
<1>11. PcFits' /\ OneDefers'
  BY <1>1, <1>7, <1>8 DEF Fits, PcFits, OneDefers
<1>12. AlarmFits'
  BY <1>1, <1>2, <1>4, <1>8, <1>10 DEF AlarmFits
<1>13. n + 1 \notin Deferring /\ stack'[n + 1] = e
  BY <1>1, <1>2, <1>8 DEF Deferring, Top
<1>14. TermFits'
  BY <1>1, <1>2, <1>4, <1>8, <1>13 DEF Fits, TermFits
<1>15. SavedFits'
  <2>1. \A k \in 1 .. n : Kept(k) /\ Held(k) /\ HandlerKept(k) /\ TimeKept(k)
    BY <1>2, <1>3 DEF Fits, SavedFits
  <2>2. Kept(n + 1) /\ TimeKept(n + 1)
    BY <1>1, <1>2, <1>3 DEF Fits, SavedFits
  <2>3. Held(n + 1)' /\ Kept(n + 1)'
    BY <1>2, <1>7, <1>8, <1>13, <2>2 DEF Held, Kept, Top
  <2>4. TimeKept(n + 1)'
    <3>1. Top.previous_timeout \in Nat /\ (n + 1) - 1 = n
      BY <1>3 DEF AnyEntry
    <3> QED BY <1>2, <1>7, <1>8, <1>10, <1>13, <2>2, <3>1 DEF TimeKept, Top
  <2>5. HandlerKept(n + 1)'
    <3>1. (n + 1) - 1 = n /\ n \in 0 .. Depth
      BY <1>2
    <3> QED BY <1>5, <1>7, <1>8, <1>13, <3>1 DEF HandlerKept
  <2> QED BY <1>2, <1>3, <1>8, <1>10, <2>1, <2>3, <2>4, <2>5 DEF SavedFits
<1>16. TimerFits' /\ AlarmFinds'
  BY <1>1, <1>7, <1>8 DEF TimerFits, AlarmFinds
<1> QED BY <1>9, <1>11, <1>12, <1>14, <1>15, <1>16 DEF Fits

\* The timer is set to the earlier one of its own deadline and the previous.
LEMMA ScheduleKeeps ==
  ASSUME Fits, Schedule
  PROVE  Fits'
<1>1. /\ Types /\ pc = "schedule" /\ pc' = "body" /\ onSignal' = onSignal
      /\ Depth > 0 /\ Top.kind # "defer" /\ Top.run > 0
      /\ timer' = Earliest /\ pending' = IF Earliest = 0 THEN {"ALRM"} ELSE {}
  BY DEF Schedule, Goes, _ScheduleTimer, Fits, TimerFits
<1>2. PICK n \in Nat : n = Depth - 1 /\ Depth = n + 1
  BY <1>1 DEF Types, Depth
<1>3. /\ Level = 1 .. n + 1 /\ Depth \in Level /\ Top \in AnyEntry
      /\ \A j \in Timers : j \in Nat
  BY <1>1, <1>2, Levels DEF Level, Top
<1>4. PICK r \in Nat, p \in Nat : r = Top.run /\ r > 0 /\ p = Top.previous_timeout
  BY <1>1, <1>3 DEF AnyEntry
<1>5. PICK e \in AnyEntry :
        e = [Top EXCEPT !.left = r, !.run = 0] /\ stack' = [stack EXCEPT ![Depth] = e]
  <2>1. PICK e : e = [Top EXCEPT !.left = r, !.run = 0]
    OBVIOUS
  <2>2. e \in AnyEntry
    BY <1>3, <2>1 DEF AnyEntry
  <2>3. stack' = [stack EXCEPT ![Depth] = e]
    BY <1>4, <2>1 DEF Schedule, Top
  <2> QED BY <2>1, <2>2, <2>3
<1>6. /\ e.kind = Top.kind /\ e.left = r /\ e.had_previous = Top.had_previous
      /\ e.previous_timeout = p /\ e.handlers = Top.handlers /\ e.received = Top.received
  BY <1>3, <1>4, <1>5 DEF AnyEntry
<1>7. /\ stack' \in Seq(AnyEntry) /\ Depth' = Depth /\ Level' = Level /\ Top' = e
      /\ Timers' = Timers /\ Deferring' = Deferring
      /\ \A k \in 1 .. n : stack'[k] = stack[k]
      /\ \A k \in 0 .. Depth : AlarmOf(k)' = AlarmOf(k)
  BY <1>1, <1>2, <1>5, <1>6, TopChanges
<1>8. /\ n + 1 \notin Deferring /\ n + 1 \in Timers /\ stack'[n + 1] = e
      /\ \A k \in Deferring : k # Depth
  BY <1>1, <1>2, <1>3, <1>7 DEF Deferring, Timers, Top
<1>9. PICK t \in Nat :
        /\ t = Earliest
        /\ IF Top.had_previous THEN t <= p /\ t <= r /\ t \in {p, r} ELSE t = r
  <2>1. CASE Top.had_previous /\ p <= r
    <3>1. Min({p, r}) = p
      BY <2>1, Minimum
    <3> QED BY <1>4, <2>1, <3>1 DEF Earliest
  <2>2. CASE Top.had_previous /\ ~(p <= r)
    <3>1. Min({p, r}) = r
      BY <2>2, Minimum
    <3> QED BY <1>4, <2>2, <3>1 DEF Earliest
  <2>3. CASE ~Top.had_previous
    BY <1>4, <2>3 DEF Earliest
  <2> QED BY <2>1, <2>2, <2>3
<1>10. Types'
  BY <1>1, <1>7, <1>9 DEF Types, Signal
<1>11. /\ n \in 0 .. n
       /\ \A k \in 0 .. n : (Due(k)' <=> Due(k)) /\ \A u \in Nat : InTime(k, u)' <=> InTime(k, u)
       /\ \A k \in 1 .. n : /\ HandlerKept(k) => HandlerKept(k)'
                            /\ TimeKept(k) => TimeKept(k)'
                            /\ Kept(k) => Kept(k)'
                            /\ Held(k) => Held(k)'
  BY <1>1, <1>2, <1>7, <1>10, AroundTop
<1>12. /\ \A k \in 1 .. n : Kept(k) /\ Held(k) /\ HandlerKept(k) /\ TimeKept(k)
       /\ Kept(n + 1) /\ TimeKept(n + 1) /\ HandlerKept(n + 1)
  BY <1>1, <1>2, <1>3 DEF Fits, SavedFits
<1>13. InTime(n, p) /\ InTime(n, p)' /\ (n + 1) - 1 = n
  BY <1>2, <1>4, <1>8, <1>11, <1>12 DEF TimeKept, Top
<1>14. /\ Top.had_previous => \E j \in Timers : j <= n
       /\ ~Top.had_previous => p = 0
  BY <1>2, <1>3, <1>4, <1>12 DEF Kept, Top
<1>15. InTime(n + 1, t)' /\ (t = 0 => Due(n + 1)')
  <2>1. CASE Due(n)'
    BY <1>3, <1>7, <2>1 DEF InTime, Due
  <2>2. CASE ~Due(n)'
    <3>1. /\ \A j \in Timers : j <= n => p <= stack'[j].left /\ stack'[j].left # 0
          /\ \/ \E j \in Timers : j <= n /\ stack'[j].left = p
             \/ p = 0 /\ \A j \in Timers : j > n
      BY <1>7, <1>13, <2>2 DEF InTime, Due
    <3>2. ASSUME NEW j \in Timers
          PROVE  j \in Nat /\ stack'[j].left \in Nat /\ (j <= n + 1 => j <= n \/ j = n + 1)
      <4>1. j \in 1 .. n + 1
        BY <1>1, <1>3, Levels
      <4>2. stack' \in Seq(AnyEntry) /\ Len(stack') = n + 1
        BY <1>2, <1>7 DEF Depth
      <4>3. stack'[j] \in AnyEntry
        BY <4>1, <4>2
      <4> QED BY <4>1, <4>3 DEF AnyEntry
    <3>3. \A j \in Timers : t <= p /\ j <= n => t <= stack'[j].left
      BY <3>1, <3>2
    <3>4. CASE Top.had_previous
      <4>1. p > 0 /\ \E j \in Timers : j <= n /\ stack'[j].left = p
        BY <1>14, <3>1, <3>2, <3>4
      <4>2. t <= p /\ t <= r /\ t \in {p, r}
        BY <1>9, <3>4
      <4>3. \A j \in Timers : j <= n + 1 => t <= stack'[j].left
        BY <1>6, <1>8, <3>2, <3>3, <4>2
      <4>4. \E j \in Timers : j <= n + 1 /\ stack'[j].left = t
        <5>1. CASE t = p
          BY <3>2, <4>1, <5>1
        <5>2. CASE t = r
          BY <1>6, <1>8, <5>2
        <5> QED BY <4>2, <5>1, <5>2
      <4> QED BY <1>4, <1>7, <4>1, <4>2, <4>3, <4>4 DEF InTime
    <3>5. CASE ~Top.had_previous
      <4>1. p = 0 /\ t = r
        BY <1>9, <1>14, <3>5
      <4>2. \A j \in Timers : j > n
        BY <3>1, <3>2, <4>1
      <4>3. \A j \in Timers : j <= n + 1 => j = n + 1
        BY <3>2, <4>2
      <4>4. InTime(n + 1, t)'
        BY <1>6, <1>7, <1>8, <4>1, <4>3 DEF InTime
      <4> QED BY <1>4, <4>1, <4>4
    <3> QED BY <3>4, <3>5
  <2> QED BY <2>1, <2>2
<1>16. PcFits' /\ OneDefers'
  BY <1>1, <1>7 DEF Fits, PcFits, OneDefers
<1>17. n + 1 \in 0 .. Depth /\ onSignal["ALRM"] = AlarmOf(n + 1)'
  BY <1>1, <1>2, <1>7 DEF Fits, AlarmFits
<1>18. AlarmFits'
  BY <1>1, <1>2, <1>7, <1>17 DEF AlarmFits
<1>19. TermFits'
  BY <1>1, <1>2, <1>7, <1>8 DEF Fits, TermFits
<1>20. SavedFits'
  <2>1. Kept(n + 1)' /\ Held(n + 1)'
    BY <1>2, <1>4, <1>6, <1>7, <1>8, <1>12 DEF Held, Kept, Top
  <2>2. TimeKept(n + 1)'
    BY <1>6, <1>8, <1>13 DEF TimeKept
  <2>3. HandlerKept(n + 1)'
    <3>1. n \in 0 .. Depth
      BY <1>2
    <3> QED BY <1>2, <1>6, <1>7, <1>8, <1>12, <1>13, <3>1 DEF HandlerKept, Top
  <2> QED BY <1>2, <1>3, <1>7, <1>11, <1>12, <2>1, <2>2, <2>3 DEF SavedFits
<1>21. TimerFits'
  BY <1>1, <1>2, <1>7, <1>9, <1>15 DEF TimerFits
<1>22. AlarmFinds'
  BY <1>1, <1>2, <1>7, <1>9, <1>15, <1>17 DEF AlarmFinds
<1> QED BY <1>10, <1>16, <1>18, <1>19, <1>20, <1>21, <1>22 DEF Fits

\* The timer is stopped, in time.
LEMMA CancelOwnKeeps ==
  ASSUME Fits, CancelOwn(TRUE)
  PROVE  Fits'
<1>1. /\ Types /\ pc = "finally" /\ pc' = "unsetHandler" /\ pending = {} /\ pending' = {}
      /\ timer' = 0 /\ onSignal' = onSignal /\ Depth > 0 /\ Top.kind # "defer"
      /\ UNCHANGED stack /\ Top' = Top
  BY DEF CancelOwn, Goes, Steps, _CancelTimer, Fits, Top, Depth
<1>2. Types'
  BY <1>1 DEF Types
<1>3. PcFits' /\ OneDefers'
  BY <1>1, StackStays DEF Fits, PcFits, OneDefers
<1>4. AlarmFits' /\ TimerFits' /\ AlarmFinds'
  BY <1>1, StackStays DEF Fits, AlarmFits, TimerFits, AlarmFinds
<1>5. TermFits'
  BY <1>1, StackStays DEF Fits, TermFits, Deferring, Top
<1>6. SavedFits'
  BY <1>1, StackStays DEF Fits, SavedFits
<1> QED BY <1>2, <1>3, <1>4, <1>5, <1>6 DEF Fits

\* A timer is stopped too late: its alarm comes, and it was due.
LEMMA LateCancelKeeps ==
  ASSUME Fits, CancelPrevious(FALSE) \/ CancelOwn(FALSE)
  PROVE  Fits'
<1>1. /\ Types /\ pending = {} /\ pending' = {"ALRM"} /\ timer = 1 /\ timer' = 0
      /\ onSignal' = onSignal /\ Depth > 0 /\ Top.kind # "defer" /\ stack' = Aged
      /\ \/ pc = "cancel" /\ pc' = "setHandler"
         \/ pc = "finally" /\ pc' = "unsetHandler"
  BY DEF CancelPrevious, CancelOwn, Goes, Steps, _CancelTimer, Fits
<1>2. PICK n \in Nat : n = Depth - 1 /\ Depth = n + 1
  BY <1>1 DEF Types, Depth
<1>3. Level = 1 .. n + 1 /\ Depth \in Level
  BY <1>1, <1>2, Levels DEF Level
<1>4. /\ stack' \in Seq(AnyEntry) /\ Depth' = Depth /\ Level' = Level
      /\ \A k \in Level : /\ stack'[k].kind = stack[k].kind /\ stack'[k].run = stack[k].run
                          /\ stack'[k].left = Minus1(stack[k].left)
                          /\ stack'[k].had_previous = stack[k].had_previous
                          /\ stack'[k].previous_timeout = Minus1(stack[k].previous_timeout)
      /\ \A k \in 0 .. Depth : AlarmOf(k)' = AlarmOf(k)
      /\ Timers' = Timers /\ Deferring' = Deferring
  BY <1>1, <1>2, <1>3, AgedBelow DEF Level, Timers, Deferring
<1>5. Types' /\ Top'.kind = Top.kind /\ n \in 0 .. Depth /\ n + 1 \in 0 .. Depth
  BY <1>1, <1>2, <1>3, <1>4 DEF Types, Top, Signal
<1>6. ASSUME NEW k \in 0 .. Depth, InTime(k, 1)
      PROVE  Due(k)' /\ InTime(k, 0)'
  BY <1>1, <1>6, AgedBelow DEF Minus1
<1>7. /\ pc = "cancel" => Due(n)' /\ InTime(n, 0)'
      /\ pc = "finally" => Due(n + 1)'
  BY <1>1, <1>2, <1>5, <1>6 DEF Fits, TimerFits
<1>8. PcFits' /\ OneDefers'
  BY <1>1, <1>4, <1>5 DEF Fits, PcFits, OneDefers
<1>9. AlarmFits'
  BY <1>1, <1>2, <1>4, <1>5 DEF Fits, AlarmFits
<1>10. TermFits'
  BY <1>1, <1>3, <1>4 DEF Fits, TermFits, Deferring, Top
<1>11. SavedFits'
  <2>1. \A k \in Level : /\ HandlerKept(k) => HandlerKept(k)'
                         /\ TimeKept(k) => TimeKept(k)'
                         /\ Kept(k) => Kept(k)'
                         /\ Held(k) => Held(k)'
    BY <1>1, KeptAged
  <2>2. pc = "cancel" => TimeKept(n + 1)'
    <3>1. stack'[n + 1].previous_timeout \in Nat /\ (n + 1) - 1 = n
      <4>1. stack[n + 1] \in AnyEntry /\ n + 1 \in Level
        BY <1>1, <1>2, <1>3, Levels
      <4>2. PICK p \in Nat : p = stack[n + 1].previous_timeout
        BY <4>1 DEF AnyEntry
      <4>3. Minus1(p) \in Nat
        BY DEF Minus1
      <4> QED BY <1>4, <4>1, <4>2, <4>3
    <3>2. pc = "cancel" => \A u \in Nat : InTime(n, u)'
      BY <1>7 DEF InTime
    <3> QED BY <3>1, <3>2 DEF TimeKept
  <2> QED BY <1>1, <1>2, <1>3, <1>4, <2>1, <2>2 DEF Fits, SavedFits
<1>12. TimerFits'
  <2>1. pc = "cancel" => Top'.run > 0 /\ Top'.left = 0
    BY <1>3, <1>4 DEF Fits, TimerFits, Top, Minus1
  <2> QED BY <1>1, <2>1 DEF TimerFits
<1>13. AlarmFinds'
  <2>1. /\ pc = "cancel" => onSignal["ALRM"] = AlarmOf(n)'
        /\ pc = "finally" => onSignal["ALRM"] = AlarmOf(n + 1)'
    BY <1>1, <1>2, <1>4, <1>5 DEF Fits, AlarmFits
  <2> QED BY <1>1, <1>2, <1>4, <1>5, <1>7, <2>1 DEF AlarmFinds
<1> QED BY <1>5, <1>8, <1>9, <1>10, <1>11, <1>12, <1>13 DEF Fits

\* The handlers of DeferSignals are set, or put back.
LEMMA DeferKeeps ==
  ASSUME Fits, SetDefer \/ UnsetDefer
  PROVE  Fits'
<1>1. /\ Types /\ pending = {} /\ pending' = {} /\ timer' = timer /\ Depth > 0
      /\ Top.kind = "defer" /\ UNCHANGED stack /\ Top' = Top
      /\ \/ pc = "setTerm" /\ pc' = "setAlarm" /\ SetHandler("TERM", <<"defer", Depth>>)
         \/ pc = "setAlarm" /\ pc' = "body" /\ SetHandler("ALRM", <<"defer", Depth>>)
         \/ pc = "finally" /\ pc' = "unsetAlarm" /\ SetHandler("TERM", Top.handlers["TERM"])
         \/ pc = "unsetAlarm" /\ pc' = "relay" /\ SetHandler("ALRM", Top.handlers["ALRM"])
  BY DEF SetDefer, UnsetDefer, Goes, Steps, Fits, Top, Depth
<1>2. PICK n \in Nat : n = Depth - 1 /\ Depth = n + 1
  BY <1>1 DEF Types, Depth
<1>3. /\ Depth \in Level /\ Depth \in Deferring /\ Top \in AnyEntry
      /\ \A k \in Deferring : k = Depth
  BY <1>1, <1>2, Levels DEF Fits, OneDefers, Top, Deferring
<1>4. /\ Top.handlers["TERM"] \in {Script, Ignore} /\ Top.handlers["ALRM"] = AlarmOf(n)
      /\ AlarmOf(n + 1) = <<"defer", Depth>>
  BY <1>1, <1>2, <1>3 DEF Fits, SavedFits, Kept, Top, AlarmOf
<1>5. onSignal \in [Signal -> AnyHandler] /\ onSignal' \in [Signal -> AnyHandler]
  <2>1. /\ Top.handlers \in [Signal -> AnyHandler]
        /\ <<"defer", Depth>> \in AnyHandler
    BY <1>2, <1>3 DEF AnyEntry, AnyHandler
  <2> QED BY <1>1, <2>1 DEF Types, SetHandler, Signal
<1>6. /\ pc \in {"setTerm", "finally"} => onSignal'["ALRM"] = onSignal["ALRM"]
      /\ pc = "setTerm" => onSignal'["TERM"] = <<"defer", Depth>>
      /\ pc = "finally" => onSignal'["TERM"] = Top.handlers["TERM"]
      /\ pc \in {"setAlarm", "unsetAlarm"} => onSignal'["TERM"] = onSignal["TERM"]
      /\ pc = "setAlarm" => onSignal'["ALRM"] = AlarmOf(n + 1)
      /\ pc = "unsetAlarm" => onSignal'["ALRM"] = AlarmOf(n)
  BY <1>1, <1>4, <1>5 DEF SetHandler, Signal
<1>7. Types'
  BY <1>1, <1>5 DEF Types
<1>8. PcFits' /\ OneDefers'
  BY <1>1, StackStays DEF Fits, PcFits, OneDefers
<1>9. AlarmFits'
  BY <1>1, <1>2, <1>6, StackStays DEF Fits, AlarmFits
<1>10. TermFits'
  BY <1>1, <1>3, <1>4, <1>6, StackStays DEF Fits, TermFits
<1>11. SavedFits'
  BY <1>1, StackStays DEF Fits, SavedFits
<1>12. TimerFits' /\ AlarmFinds'
  BY <1>1, StackStays DEF Fits, TimerFits, AlarmFinds
<1> QED BY <1>7, <1>8, <1>9, <1>10, <1>11, <1>12 DEF Fits

\* Of two handlers of alarms that are of contexts, each is of its own context.
LEMMA OwnAlarms ==
  ASSUME Types, NEW j \in 0 .. Depth, NEW k \in 0 .. Depth
  PROVE  /\ AlarmOf(k)[2] = k /\ (AlarmOf(j) = AlarmOf(k) => j = k)
         /\ k = 0 => AlarmOf(k) = Default
         /\ k > 0 => AlarmOf(k)[1] = stack[k].kind /\ stack[k] \in AnyEntry /\ k \in Level
         /\ AlarmOf(k)[1] \in {"default", "timeout", "fatal", "defer"}
<1>1. \A i \in 0 .. Depth : AlarmOf(i)[2] = i
  BY DEF AlarmOf, Default
<1>2. k > 0 => k \in Level /\ stack[k] \in AnyEntry
  BY Levels
<1>3. k > 0 => stack[k].kind \in {"timeout", "fatal", "defer"}
  BY <1>2 DEF AnyEntry
<1>4. k > 0 => AlarmOf(k)[1] = stack[k].kind
  BY DEF AlarmOf
<1>5. k = 0 => AlarmOf(k) = Default /\ AlarmOf(k)[1] = "default"
  BY DEF AlarmOf, Default
<1> QED BY <1>1, <1>2, <1>3, <1>4, <1>5

\* A timeout puts the handler back, and the timer, and is gone.
LEMMA RestoreKeeps ==
  ASSUME Fits, RestoreHandler \/ Rearm
  PROVE  Fits'
<1>1. /\ Types /\ Depth > 0 /\ Top.kind # "defer" /\ pending = {}
      /\ pc \in {"unsetHandler", "rearm"}
  BY DEF RestoreHandler, Rearm, Goes, Steps, Fits
<1>2. PICK n \in Nat : n = Depth - 1 /\ Depth = n + 1
  BY <1>1 DEF Types, Depth
<1>3. /\ Depth \in Level /\ Top \in AnyEntry /\ Depth \notin Deferring /\ Depth \in Timers
      /\ \A j \in Timers : j \in Nat
  BY <1>1, <1>2, Levels DEF Top, Deferring
<1>4. /\ Top.handlers["ALRM"] = AlarmOf(n) /\ Top.handlers \in [Signal -> AnyHandler]
      /\ InTime(n, Top.previous_timeout) /\ Top.previous_timeout \in Nat
      /\ Top.had_previous => Top.kind = "timeout" /\ \E j \in Timers : j <= n
      /\ ~Top.had_previous => Top.previous_timeout = 0
  BY <1>1, <1>2, <1>3 DEF Fits, SavedFits, Kept, HandlerKept, TimeKept, Top, AnyEntry
<1>5. \/ Deferring \subseteq {Depth} /\ onSignal["TERM"] \in {Script, Ignore}
      \/ \E k \in Deferring : k # Depth /\ onSignal["TERM"] = <<"defer", k>>
  BY <1>1, <1>3 DEF Fits, TermFits
<1>6. CASE RestoreHandler
  <2>1. /\ timer = 0 /\ timer' = 0 /\ pending' = {} /\ pc = "unsetHandler"
        /\ onSignal' \in [Signal -> AnyHandler] /\ onSignal'["ALRM"] = AlarmOf(n)
        /\ onSignal'["TERM"] = onSignal["TERM"]
    BY <1>1, <1>4, <1>6 DEF Fits, TimerFits, Types, RestoreHandler, Goes, SetHandler, Signal
  <2>2. CASE Top.had_previous
    <3>1. UNCHANGED stack /\ pc' = "rearm" /\ Top' = Top
      BY <1>6, <2>2 DEF RestoreHandler, Goes, Top, Depth
    <3>2. Types'
      BY <1>1, <2>1, <3>1 DEF Types
    <3>3. PcFits' /\ OneDefers'
      BY <1>1, <1>4, <2>2, <3>1, StackStays DEF Fits, PcFits, OneDefers
    <3>4. AlarmFits' /\ TermFits'
      BY <1>2, <1>5, <2>1, <3>1, <1>3, StackStays DEF AlarmFits, TermFits
    <3>5. SavedFits'
      BY <2>1, <3>1, StackStays DEF Fits, SavedFits
    <3>6. TimerFits' /\ AlarmFinds'
      BY <2>1, <3>1 DEF TimerFits, AlarmFinds
    <3> QED BY <3>2, <3>3, <3>4, <3>5, <3>6 DEF Fits
  <2>3. CASE ~Top.had_previous
    <3>1. Pop /\ pc' = "body" /\ InTime(n, 0)
      BY <1>4, <1>6, <2>3 DEF RestoreHandler, Goes
    <3> QED BY <1>1, <1>2, <1>5, <2>1, <3>1, PopKeeps
  <2> QED BY <2>2, <2>3
<1>7. CASE Rearm
  <2>1. PICK t \in Nat : t = Top.previous_timeout
    BY <1>4
  <2>2. /\ pc = "rearm" /\ pc' = "body" /\ Pop /\ timer' = t /\ onSignal' = onSignal
        /\ pending' = IF t = 0 THEN {"ALRM"} ELSE {}
    BY <1>7, <2>1 DEF Rearm, Goes, _ScheduleTimer
  <2>3. onSignal["ALRM"] = AlarmOf(n) /\ onSignal \in [Signal -> AnyHandler]
    BY <1>2, <2>2 DEF Fits, AlarmFits, Types
  <2>4. t = 0 => Due(n)
    <3>1. \E j \in Timers : j <= n
      BY <1>4, <2>2 DEF Fits, PcFits
    <3>2. t = 0 => InTime(n, 0)
      BY <1>4, <2>1
    <3> QED BY <1>3, <3>1, <3>2 DEF InTime, Due
  <2>5. pending' \subseteq Signal /\ ("ALRM" \in pending' => Due(n))
    BY <2>2, <2>4 DEF Signal
  <2> QED BY <1>1, <1>2, <1>4, <1>5, <2>1, <2>2, <2>3, <2>5, PopKeeps
<1> QED BY <1>6, <1>7

\* DeferSignals runs the handlers of what it has received, and is gone.
LEMMA RelayKeeps ==
  ASSUME Fits, Relay
  PROVE  Fits'
<1>1. /\ Types /\ Depth > 0 /\ Top.kind = "defer" /\ pending = {} /\ pc = "relay"
      /\ UNCHANGED <<timer, onSignal>>
  BY DEF Relay, Goes, Steps, Fits
<1>2. PICK n \in Nat : n = Depth - 1 /\ Depth = n + 1
  BY <1>1 DEF Types, Depth
<1>3. /\ Depth \in Level /\ Top \in AnyEntry /\ Depth \in Deferring /\ Level = 1 .. n + 1
      /\ \A k \in Deferring : k = Depth
  BY <1>1, <1>2, Levels DEF Fits, OneDefers, Top, Deferring, Level
<1>4. PICK t \in Nat : t = timer /\ InTime(Depth, t) /\ InTime(n, t)
  BY <1>1, <1>2, <1>3, NoDeadline DEF Fits, TimerFits, Types
<1>5. /\ onSignal["ALRM"] = AlarmOf(n) /\ onSignal["TERM"] \in {Script, Ignore}
      /\ onSignal \in [Signal -> AnyHandler]
  BY <1>1, <1>2, <1>3 DEF Fits, Types, AlarmFits, TermFits
<1>6. CASE Top.received = << >>
  <2>1. Pop /\ pc' = "body" /\ pending' = {}
    BY <1>1, <1>6 DEF Relay, Goes
  <2>2. Deferring \subseteq {Depth}
    BY <1>3
  <2> QED BY <1>1, <1>2, <1>4, <1>5, <2>1, <2>2, PopKeeps
<1>7. CASE Top.received # << >>
  <2>1. Top.received \in Seq(Signal)
    BY <1>3 DEF AnyEntry
  <2>2. PICK r \in Seq(Signal) :
          /\ r = Tail(Top.received)
          /\ \A i \in DOMAIN r : i + 1 \in DOMAIN Top.received /\ r[i] = Top.received[i + 1]
          /\ Head(Top.received) = Top.received[1] /\ 1 \in DOMAIN Top.received
          /\ Head(Top.received) \in Signal
    <3>1. PICK g \in Seq(Signal) : g = Top.received /\ g # << >>
      BY <1>7, <2>1
    <3>2. /\ Tail(g) \in Seq(Signal) /\ Len(Tail(g)) = Len(g) - 1 /\ Len(g) \in Nat \ {0}
          /\ \A i \in 1 .. Len(g) - 1 : Tail(g)[i] = g[i + 1]
          /\ Head(g) = g[1] /\ Head(g) \in Signal
      BY <3>1
    <3>3. \A i \in DOMAIN Tail(g) : i + 1 \in DOMAIN g /\ Tail(g)[i] = g[i + 1]
      BY <3>2
    <3>4. 1 \in DOMAIN g
      BY <3>2
    <3> QED BY <3>1, <3>2, <3>3, <3>4
  <2>3. PICK e \in AnyEntry :
          e = [Top EXCEPT !.received = r] /\ stack' = [stack EXCEPT ![Depth] = e]
    <3>1. PICK e : e = [Top EXCEPT !.received = r]
      OBVIOUS
    <3>2. e \in AnyEntry
      BY <1>3, <3>1 DEF AnyEntry
    <3>3. stack' = [stack EXCEPT ![Depth] = e]
      BY <1>7, <2>2, <3>1 DEF Relay, Top
    <3> QED BY <3>1, <3>2, <3>3
  <2>4. /\ e.kind = Top.kind /\ e.had_previous = Top.had_previous
        /\ e.previous_timeout = Top.previous_timeout
        /\ e.handlers = Top.handlers /\ e.received = r
    BY <1>3, <2>3 DEF AnyEntry
  <2>5. /\ stack' \in Seq(AnyEntry) /\ Depth' = Depth /\ Level' = Level /\ Top' = e
        /\ Timers' = Timers /\ Deferring' = Deferring
        /\ \A k \in 1 .. n : stack'[k] = stack[k]
        /\ \A k \in 0 .. Depth : AlarmOf(k)' = AlarmOf(k)
    BY <1>1, <1>2, <2>3, <2>4, TopChanges
  <2>6. pc' = pc /\ pending' = {s \in {Head(Top.received)} : onSignal[s] # Default}
    BY <1>1, <1>7 DEF Relay, Goes
  <2>7. Types'
    BY <1>1, <2>2, <2>5, <2>6 DEF Types
  <2>8. /\ n \in 0 .. n /\ n \in 0 .. Depth
        /\ \A k \in 0 .. n : (Due(k)' <=> Due(k)) /\ \A u \in Nat : InTime(k, u)' <=> InTime(k, u)
        /\ \A k \in 1 .. n : /\ HandlerKept(k) => HandlerKept(k)'
                             /\ TimeKept(k) => TimeKept(k)'
                             /\ Kept(k) => Kept(k)'
                             /\ Held(k) => Held(k)'
    BY <1>1, <1>2, <2>5, <2>7, AroundTop
  <2>9. /\ \A k \in 1 .. n : Kept(k) /\ Held(k) /\ HandlerKept(k) /\ TimeKept(k)
        /\ Kept(n + 1) /\ Held(n + 1)
    BY <1>1, <1>2, <1>3 DEF Fits, SavedFits
  <2>10. /\ n + 1 \notin Timers /\ stack'[n + 1] = e /\ stack[n + 1] = Top /\ (n + 1) - 1 = n
         /\ n + 1 \in Deferring
    BY <1>1, <1>2, <1>3, <2>5 DEF Timers, Top
  <2>11. PcFits' /\ OneDefers' /\ AlarmFits' /\ TermFits'
    BY <1>1, <1>2, <2>4, <2>5, <2>6, <2>8 DEF Fits, PcFits, OneDefers, AlarmFits, TermFits
  <2>12. SavedFits'
    <3>1. Kept(n + 1)'
      BY <2>4, <2>5, <2>8, <2>9, <2>10 DEF Kept
    <3>2. Held(n + 1)'
      <4>1. \A i \in DOMAIN Top.received : Top.received[i] = "ALRM" => Due(n)
        BY <2>9, <2>10 DEF Held
      <4>2. \A i \in DOMAIN r : r[i] = "ALRM" => Due(n)'
        BY <2>2, <2>8, <4>1
      <4> QED BY <2>4, <2>10, <4>2 DEF Held
    <3>3. HandlerKept(n + 1)' /\ TimeKept(n + 1)'
      BY <2>5, <2>10 DEF HandlerKept, TimeKept
    <3> QED BY <1>2, <1>3, <2>5, <2>8, <2>9, <3>1, <3>2, <3>3 DEF SavedFits
  <2>13. TimerFits'
    <3>1. InTime(n, t)' /\ \A j \in Timers : j <= n + 1 <=> j <= n
      BY <1>1, <1>4, <2>8, <2>10, Levels
    <3>2. \A j \in Timers : j > n + 1 <=> j > n
      BY <1>1, <2>10, Levels
    <3>3. InTime(n + 1, t)'
      BY <2>5, <3>1, <3>2 DEF InTime, Due
    <3> QED BY <1>1, <1>2, <1>4, <2>5, <2>6, <3>3 DEF TimerFits
  <2>14. AlarmFinds'
    <3>1. "ALRM" \in pending' => Top.received[1] = "ALRM"
      BY <2>2, <2>6
    <3>2. "ALRM" \in pending' => Due(n)'
      BY <2>2, <2>8, <2>9, <2>10, <3>1 DEF Held
    <3> QED BY <1>1, <1>5, <2>5, <2>6, <2>8, <3>2 DEF AlarmFinds
  <2> QED BY <2>7, <2>11, <2>12, <2>13, <2>14 DEF Fits
<1> QED BY <1>6, <1>7

\* What is known of the handlers: an alarm's is of a timeout or a DeferSignals when there is
\* an alarm; SIGTERM's is never the default one.
LEMMA HandlersFit ==
  ASSUME Fits, pc # "ended"
  PROVE  /\ \E k \in 0 .. Depth : onSignal["ALRM"] = AlarmOf(k)
         /\ "ALRM" \in pending =>
              \E k \in Level : /\ onSignal["ALRM"] = <<stack[k].kind, k>>
                               /\ onSignal["ALRM"] = AlarmOf(k) /\ Due(k)
         /\ \/ onSignal["TERM"] \in {Script, Ignore}
            \/ \E k \in Deferring : onSignal["TERM"] = <<"defer", k>>
<1>1. Types /\ Depth \in Nat /\ (Depth > 0 => Depth - 1 \in 0 .. Depth) /\ Depth \in 0 .. Depth
  BY Levels DEF Fits
<1>2. \E k \in 0 .. Depth : onSignal["ALRM"] = AlarmOf(k)
  BY <1>1 DEF Fits, PcFits, AlarmFits
<1>3. ASSUME "ALRM" \in pending
      PROVE  \E k \in Level : /\ onSignal["ALRM"] = <<stack[k].kind, k>>
                              /\ onSignal["ALRM"] = AlarmOf(k) /\ Due(k)
  <2>1. PICK k \in 0 .. Depth : onSignal["ALRM"] = AlarmOf(k) /\ Due(k)
    BY <1>3 DEF Fits, AlarmFinds
  <2>2. k \in Level /\ AlarmOf(k) = <<stack[k].kind, k>>
    BY <1>1, <2>1, Dues DEF AlarmOf, Level
  <2> QED BY <2>1, <2>2
<1> QED BY <1>2, <1>3 DEF Fits, TermFits

\* A handler raises: in the body, in a `try', or else the context is cut short.
LEMMA RaiseKeeps ==
  ASSUME Fits, raced \in BOOLEAN, NEW s \in pending, pc # "ended", pending' = pending \ {s},
         NEW e, NEW handlers \in [Signal -> AnyHandler], Raises(e, handlers),
         handlers["ALRM"] = onSignal["ALRM"],
         \/ handlers["TERM"] = onSignal["TERM"]
         \/ {onSignal["TERM"], handlers["TERM"]} \subseteq {Script, Ignore},
         NEW t \in Nat, timer' = t, t = timer \/ s = "ALRM"
  PROVE  raced' = TRUE \/ (raced' = raced /\ Fits')
<1>1. /\ Types /\ Depth \in Nat /\ (Depth > 0 => Depth \in Level) /\ Level = 1 .. Depth
      /\ pending \subseteq Signal /\ pending' \subseteq Signal
  BY Levels DEF Fits, Types, Level
<1>2. PICK d \in 0 .. Depth : d = Depth
  BY <1>1
<1>3. "ALRM" \in pending => \E k \in 0 .. d : onSignal["ALRM"] = AlarmOf(k) /\ Due(k)
  BY <1>2 DEF Fits, AlarmFinds
<1>4. "ALRM" \in pending => Due(d) /\ \A u \in Nat : InTime(d, u)
  BY <1>1, <1>2, <1>3, Dues
<1>5. s = "ALRM" => pc \notin {"cancel", "schedule", "rearm"}
  BY DEF Fits, AlarmFinds
<1>6. \/ handlers["TERM"] \in {Script, Ignore} /\ onSignal["TERM"] \in {Script, Ignore}
      \/ handlers["TERM"] = onSignal["TERM"]
  OBVIOUS
<1>7. CASE /\ onSignal' = handlers /\ UNCHANGED <<stack, raced>>
           /\ \/ pc = "body" /\ pc' = "body"
              \/ InTry /\ pc' = "finally"
  <2>1. UNCHANGED stack /\ Top' = Top /\ raced' = raced
    BY <1>7 DEF Top, Depth
  <2>2. /\ pc = "body" => pc' = "body"
        /\ pc # "body" => pc' = "finally" /\ Depth > 0 /\ Depth \in Level
        /\ pc \in {"body", "setTerm", "setAlarm", "schedule"}
        /\ pc \in {"setTerm", "setAlarm"} => Top.kind = "defer"
        /\ pc = "schedule" => Top.kind # "defer"
    BY <1>1, <1>7 DEF InTry, Fits, PcFits
  <2>3. Types'
    BY <1>1, <1>7 DEF Types
  <2>4. PcFits' /\ OneDefers'
    BY <2>1, <2>2, StackStays DEF Fits, PcFits, OneDefers
  <2>5. AlarmFits'
    BY <1>7, <2>1, <2>2, StackStays DEF Fits, AlarmFits
  <2>6. TermFits'
    <3>1. CASE /\ handlers["TERM"] \in {Script, Ignore} /\ onSignal["TERM"] \in {Script, Ignore}
      <4>1. \A k \in Deferring : <<"defer", k>> \notin {Script, Ignore}
        BY DEF Script, Ignore
      <4>2. \A k \in Deferring : k = Depth /\ pc \in {"setTerm", "finally", "unsetAlarm", "relay"}
        BY <3>1, <4>1 DEF Fits, TermFits
      <4>3. pc = "body" => Deferring = {}
        BY <4>2
      <4>4. onSignal'["TERM"] \in {Script, Ignore}
        BY <1>7, <3>1
      <4>5. \A k \in Deferring : k = Depth /\ pc' \in {"setTerm", "finally", "unsetAlarm", "relay"}
        BY <2>2, <4>2, <4>3
      <4> QED BY <2>1, <4>4, <4>5, StackStays DEF TermFits
    <3>2. CASE handlers["TERM"] = onSignal["TERM"]
      BY <1>7, <2>1, <2>2, <3>2, StackStays DEF Fits, TermFits
    <3> QED BY <1>6, <3>1, <3>2
  <2>7. SavedFits'
    BY <2>1, <2>2, StackStays DEF Fits, SavedFits
  <2>8. InTime(d, t)
    <3>1. CASE s = "ALRM"
      BY <1>4, <3>1
    <3>2. CASE pc = "schedule" /\ s # "ALRM"
      <4>1. d \in Timers /\ stack[d].left = 0
        BY <1>1, <1>2, <2>2, <3>2, Levels DEF Fits, TimerFits, PcFits, Top
      <4> QED BY <1>1, <4>1 DEF InTime, Due
    <3>3. CASE pc # "schedule" /\ s # "ALRM"
      BY <1>2, <2>2, <3>3 DEF Fits, TimerFits
    <3> QED BY <3>1, <3>2, <3>3
  <2>9. TimerFits'
    BY <1>2, <2>1, <2>2, <2>8, StackStays DEF TimerFits
  <2>10. AlarmFinds'
    BY <1>7, <2>1, <2>2, StackStays DEF Fits, AlarmFinds
  <2> QED BY <2>1, <2>3, <2>4, <2>5, <2>6, <2>7, <2>9, <2>10 DEF Fits
<1>8. CASE /\ pc # "body" /\ BeforeFinally /\ ~HalfDone /\ pc' = "body" /\ Pop
           /\ onSignal' = [x \in Signal |-> IF handlers[x][2] = Depth
                                            THEN <<handlers[x][1], 0>> ELSE handlers[x]]
           /\ raced' = (raced \/ HalfDone)
  <2>1. /\ pc \in {"cancel", "setHandler", "relay"} /\ Depth > 0
        /\ pc \in {"cancel", "setHandler"} => Top.kind # "defer"
        /\ pc = "relay" => Top.kind = "defer"
        /\ pc = "setHandler" => ~Top.had_previous
    BY <1>8 DEF HalfDone, BeforeFinally, Fits, PcFits
  <2>2. PICK n \in Nat : n = Depth - 1 /\ Depth = n + 1
    BY <1>1, <2>1
  <2>3. /\ Depth \in Level /\ Top \in AnyEntry /\ Depth \in Nat /\ n \in 0 .. Depth
        /\ Depth \in Deferring <=> pc = "relay"
    BY <1>1, <2>1, <2>2, Levels DEF Top
  <2>4. onSignal["ALRM"] = AlarmOf(n) /\ AlarmOf(n)[2] = n
    BY <1>1, <2>1, <2>2, <2>3, OwnAlarms DEF Fits, AlarmFits
  <2>5. onSignal'["ALRM"] = AlarmOf(n)
    <3>1. handlers["ALRM"] = AlarmOf(n) /\ handlers["ALRM"][2] # Depth
      <4>1. handlers["ALRM"] = AlarmOf(n)
        BY <2>4
      <4>2. handlers["ALRM"][2] = n
        BY <2>4, <4>1
      <4> QED BY <2>2, <4>1, <4>2
    <3> QED BY <1>8, <3>1 DEF Signal
  <2>6. \/ Deferring \subseteq {Depth} /\ onSignal["TERM"] \in {Script, Ignore}
        \/ \E k \in Deferring : k # Depth /\ onSignal["TERM"] = <<"defer", k>>
    BY <2>1 DEF Fits, TermFits
  <2>7. \/ Deferring \subseteq {Depth} /\ onSignal'["TERM"] \in {Script, Ignore}
        \/ \E k \in Deferring : k # Depth /\ onSignal'["TERM"] = <<"defer", k>>
    <3>1. CASE Deferring \subseteq {Depth} /\ onSignal["TERM"] \in {Script, Ignore}
      <4>1. handlers["TERM"] \in {Script, Ignore} /\ handlers["TERM"][2] = 0
        BY <1>6, <3>1 DEF Script, Ignore
      <4> QED BY <1>8, <2>2, <3>1, <4>1 DEF Signal
    <3>2. CASE \E k \in Deferring : k # Depth /\ onSignal["TERM"] = <<"defer", k>>
      <4>1. PICK k \in Deferring : k # Depth /\ onSignal["TERM"] = <<"defer", k>>
        BY <3>2
      <4>2. onSignal["TERM"] \notin {Script, Ignore}
        BY <4>1 DEF Script, Ignore
      <4>3. handlers["TERM"] = <<"defer", k>> /\ handlers["TERM"][2] # Depth
        BY <1>6, <4>1, <4>2
      <4>4. onSignal'["TERM"] = <<"defer", k>>
        BY <1>8, <4>3 DEF Signal
      <4> QED BY <4>1, <4>4
    <3> QED BY <2>6, <3>1, <3>2
  <2>8. onSignal' \in [Signal -> AnyHandler]
    <3>1. onSignal'["TERM"] \in AnyHandler
      <4>1. \A k \in Deferring : <<"defer", k>> \in AnyHandler
        BY <1>1, Levels DEF AnyHandler
      <4> QED BY <2>7, <4>1 DEF AnyHandler
    <3>2. onSignal'["ALRM"] \in AnyHandler
      BY <2>4, <2>5 DEF Fits, Types, Signal
    <3>3. onSignal' = [x \in Signal |-> onSignal'[x]]
      BY <1>8
    <3> QED BY <3>1, <3>2, <3>3 DEF Signal
  <2>9. "ALRM" \in pending => Due(n)
    <3>1. ASSUME "ALRM" \in pending PROVE Due(n)
      <4>1. PICK k \in 0 .. Depth : onSignal["ALRM"] = AlarmOf(k) /\ Due(k)
        BY <3>1 DEF Fits, AlarmFinds
      <4>2. k = n
        BY <1>1, <2>3, <2>4, <4>1, OwnAlarms
      <4> QED BY <4>1, <4>2
    <3> QED BY <3>1
  <2>10. InTime(n, t)
    <3>1. CASE s = "ALRM"
      BY <2>9, <3>1 DEF InTime
    <3>2. CASE s # "ALRM" /\ pc = "cancel"
      BY <2>2, <3>2 DEF Fits, TimerFits
    <3>3. CASE s # "ALRM" /\ pc = "setHandler"
      <4>1. timer = 0 /\ Top.previous_timeout = 0 /\ Depth \in Timers
        BY <1>1, <2>1, <2>3, <3>3, Levels DEF Fits, TimerFits, SavedFits, Kept, Top
      <4>2. InTime(n, 0)
        BY <2>2, <2>3, <3>3, <4>1 DEF Fits, SavedFits, TimeKept, Top
      <4> QED BY <3>3, <4>1, <4>2
    <3>4. CASE s # "ALRM" /\ pc = "relay"
      <4>1. InTime(Depth, t) /\ Depth \in Deferring
        BY <2>3, <3>4 DEF Fits, TimerFits
      <4> QED BY <1>1, <2>2, <4>1, NoDeadline
    <3> QED BY <2>1, <3>1, <3>2, <3>3, <3>4
  <2>11. Fits'
    BY <1>1, <1>8, <2>1, <2>2, <2>5, <2>7, <2>8, <2>9, <2>10, PopKeeps
  <2>12. raced' = raced
    <3>1. raced' = (raced \/ HalfDone) /\ ~HalfDone
      BY <1>8
    <3> QED BY <3>1
  <2> QED BY <2>11, <2>12
<1>9. CASE HalfDone /\ raced' = (raced \/ HalfDone)
  BY <1>9
<1>10. pc = "body" \/ pc # "body"
  OBVIOUS
<1> QED BY <1>7, <1>8, <1>9 DEF Raises

\* A DeferSignals writes a signal down; the alarm it writes down is that of a context
\* around it.
LEMMA RecordKeeps ==
  ASSUME Fits, NEW s \in pending, pc # "ended", pending' = pending \ {s}, Record(s)
  PROVE  Fits'
<1>1. /\ Types /\ Depth \in Nat /\ Level = 1 .. Depth
      /\ pending \subseteq Signal /\ pending' \subseteq Signal /\ s \in Signal
      /\ UNCHANGED <<pc, timer, onSignal>>
  BY Levels DEF Fits, Types, Level, Record
<1>2. PICK k \in Deferring : onSignal[s] = <<"defer", k>> /\ (s = "ALRM" => Due(k))
  <2>1. onSignal[s][1] = "defer"
    BY DEF Record
  <2>2. CASE s = "ALRM"
    <3>1. PICK k \in Level : onSignal["ALRM"] = <<stack[k].kind, k>> /\ Due(k)
      BY <2>2, HandlersFit
    <3> QED BY <1>1, <2>1, <2>2, <3>1, Levels
  <2>3. CASE s = "TERM"
    BY <2>1, <2>3, HandlersFit DEF Script, Ignore
  <2> QED BY <1>1, <2>2, <2>3 DEF Signal
<1>3. /\ k \in Level /\ k \in Nat /\ k > 0 /\ stack[k] \in AnyEntry /\ k - 1 \in 0 .. Depth
      /\ s = "ALRM" => Due(k - 1)
  BY <1>1, <1>2, Levels, NoDeadline
<1>4. PICK r : r = Append(stack[k].received, s) /\ r \in Seq(Signal)
  <2>1. stack[k].received \in Seq(Signal)
    BY <1>3 DEF AnyEntry
  <2>2. Append(stack[k].received, s) \in Seq(Signal)
    BY <1>1, <2>1
  <2> QED BY <2>2
<1>5. stack' = [stack EXCEPT ![k].received = r]
  BY <1>2, <1>3, <1>4 DEF Record
<1>6. PICK e : e = [stack[k] EXCEPT !.received = r]
  OBVIOUS
<1>7. e \in AnyEntry
  BY <1>3, <1>4, <1>6 DEF AnyEntry
<1>8. stack' = [stack EXCEPT ![k] = e]
  BY <1>5, <1>6
<1>9. /\ stack' \in Seq(AnyEntry) /\ Depth' = Depth /\ Level' = Level
      /\ \A j \in Level : j # k => stack'[j] = stack[j]
      /\ stack'[k] = e
  BY <1>1, <1>3, <1>7, <1>8 DEF Types, Depth, Level
<1>10. \A j \in Level : /\ stack'[j].kind = stack[j].kind /\ stack'[j].left = stack[j].left
                        /\ stack'[j].run = stack[j].run
                        /\ stack'[j].handlers = stack[j].handlers
                        /\ stack'[j].had_previous = stack[j].had_previous
                        /\ stack'[j].previous_timeout = stack[j].previous_timeout
                        /\ j # k => stack'[j].received = stack[j].received
  <2>1. /\ e.kind = stack[k].kind /\ e.left = stack[k].left /\ e.run = stack[k].run
        /\ e.handlers = stack[k].handlers /\ e.had_previous = stack[k].had_previous
        /\ e.previous_timeout = stack[k].previous_timeout
    BY <1>3, <1>6 DEF AnyEntry
  <2> QED BY <1>9, <2>1
<1>11. Types'
  BY <1>1, <1>9 DEF Types
<1>12. Timers' = Timers /\ Deferring' = Deferring
  BY <1>9, <1>10 DEF Timers, Deferring
<1>13. PICK d \in Nat : d = Depth
  BY <1>1
<1>14. \A j \in 0 .. d : /\ AlarmOf(j)' = AlarmOf(j)
                         /\ Due(j)' <=> Due(j)
                         /\ \A t \in Nat : InTime(j, t)' <=> InTime(j, t)
  <2> TAKE j \in 0 .. d
  <2>1. \A i \in 1 .. d : stack'[i].kind = stack[i].kind /\ stack'[i].left = stack[i].left
    BY <1>1, <1>10, <1>13
  <2>2. d <= Depth /\ d <= Depth'
    BY <1>9, <1>13
  <2> QED BY <1>1, <1>11, <2>1, <2>2, SameBelow
<1>15. \A j \in 1 .. d : /\ HandlerKept(j) => HandlerKept(j)'
                         /\ TimeKept(j) => TimeKept(j)'
                         /\ Kept(j) => Kept(j)'
                         /\ stack'[j].received = stack[j].received /\ Held(j) => Held(j)'
  BY <1>1, <1>9, <1>10, <1>11, <1>13, KeptBelow
<1>16. \A j \in Level : Held(j)'
  <2> TAKE j \in Level
  <2>1. Held(j)
    BY DEF Fits, SavedFits
  <2>2. CASE j # k
    BY <1>1, <1>10, <1>13, <1>15, <2>1, <2>2
  <2>3. CASE j = k
    <3>1. stack'[k].received = r
      BY <1>3, <1>6, <1>9 DEF AnyEntry
    <3>2. \A i \in DOMAIN r : r[i] = s \/ (i \in DOMAIN stack[k].received
                                          /\ r[i] = stack[k].received[i])
      BY <1>1, <1>3, <1>4 DEF AnyEntry
    <3>3. \A i \in DOMAIN r : r[i] = "ALRM" => Due(k - 1)
      BY <1>2, <1>3, <2>1, <2>3, <3>2 DEF Held
    <3>4. Due(k - 1)' <=> Due(k - 1)
      BY <1>3, <1>13, <1>14
    <3>5. Held(k)'
      BY <3>1, <3>3, <3>4 DEF Held
    <3> QED BY <2>3, <3>5
  <2> QED BY <2>2, <2>3
<1>17. Depth > 0 => /\ Depth \in Level /\ Top'.kind = Top.kind /\ Top'.run = Top.run
                    /\ Top'.left = Top.left /\ Top'.had_previous = Top.had_previous
  BY <1>1, <1>9, <1>10 DEF Top
<1>18. PcFits' /\ OneDefers' /\ TermFits'
  BY <1>1, <1>9, <1>12, <1>17 DEF Fits, PcFits, OneDefers, TermFits
<1>19. AlarmFits'
  BY <1>1, <1>9, <1>13, <1>14, <1>17 DEF Fits, PcFits, AlarmFits
<1>20. SavedFits'
  BY <1>1, <1>9, <1>13, <1>15, <1>16 DEF Fits, SavedFits
<1>21. TimerFits'
  BY <1>1, <1>9, <1>13, <1>14, <1>17 DEF Fits, PcFits, TimerFits, Types
<1>22. AlarmFinds'
  BY <1>1, <1>9, <1>13, <1>14 DEF Fits, AlarmFinds
<1> QED BY <1>11, <1>18, <1>19, <1>20, <1>21, <1>22 DEF Fits

\* A handler is called.
LEMMA DeliverKeeps ==
  ASSUME Fits, raced \in BOOLEAN, NEW s \in Signal, Deliver(s)
  PROVE  raced' = TRUE \/ (raced' = raced /\ Fits')
<1>1. /\ s \in pending /\ pc # "ended" /\ pending' = pending \ {s} /\ Types /\ timer \in Nat
      /\ onSignal \in [Signal -> AnyHandler]
  BY DEF Deliver, Fits, Types
<1>2. s = "ALRM" => \E k \in Level : onSignal["ALRM"] = <<stack[k].kind, k>>
  BY <1>1, HandlersFit
<1>3. s = "TERM" => \/ onSignal["TERM"] \in {Script, Ignore}
                    \/ \E k \in Deferring : onSignal["TERM"] = <<"defer", k>>
  BY <1>1, HandlersFit
<1>4. CASE KillTimeout(s)
  <2>1. Raises(onSignal[s], onSignal) /\ timer' = timer
    BY <1>4 DEF KillTimeout
  <2> QED BY <1>1, <2>1, RaiseKeeps
<1>5. CASE KillFatal(s)
  <2>1. Raises(<<"exit", onSignal[s][2]>>, onSignal) /\ timer' = Retry /\ Retry \in Nat
    BY <1>5, SignalContextsAssumption DEF KillFatal
  <2>2. onSignal[s][1] = "fatal"
    BY <1>5 DEF KillFatal
  <2>3. s = "ALRM"
    BY <1>3, <2>2 DEF Signal, Script, Ignore
  <2> QED BY <1>1, <2>1, <2>3, RaiseKeeps
<1>6. CASE ShutDown(s)
  <2>1. PICK h \in [Signal -> AnyHandler] : h = [onSignal EXCEPT ![s] = Ignore]
    <3>1. Ignore \in AnyHandler
      BY DEF AnyHandler
    <3> QED BY <1>1, <3>1
  <2>2. Raises(Exit, h) /\ timer' = timer /\ onSignal[s] = Script
    BY <1>6, <2>1 DEF ShutDown
  <2>3. s = "TERM"
    <3>1. \A k \in Level : <<stack[k].kind, k>> # Script
      BY <1>1, Levels DEF Script
    <3> QED BY <1>2, <2>2, <3>1 DEF Signal
  <2>4. h["ALRM"] = onSignal["ALRM"] /\ h["TERM"] = Ignore /\ onSignal["TERM"] = Script
    BY <1>1, <2>1, <2>2, <2>3 DEF Signal
  <2> QED BY <1>1, <2>1, <2>2, <2>4, RaiseKeeps
<1>7. CASE Record(s)
  <2>1. Fits' /\ raced' = raced
    BY <1>1, <1>7, RecordKeeps DEF Record
  <2> QED BY <2>1
<1>8. CASE NoHandler(s)
  <2>1. onSignal[s] # Default /\ pc' = pc /\ UNCHANGED <<stack, timer, onSignal, raced>>
    <3>1. \A k \in Level : <<stack[k].kind, k>> \notin {Default, Ignore}
      BY <1>1, Levels DEF Default, Ignore
    <3>2. s = "TERM"
      BY <1>2, <1>8, <3>1 DEF NoHandler, Signal
    <3>3. onSignal["TERM"] # Default
      BY <1>3, <3>2 DEF Default, Script, Ignore
    <3> QED BY <1>8, <3>2, <3>3 DEF NoHandler
  <2>2. pending' \subseteq pending /\ Top' = Top
    BY <1>1, <2>1 DEF Top, Depth
  <2>3. Types'
    BY <1>1, <2>1, <2>2 DEF Types
  <2>4. PcFits' /\ OneDefers' /\ AlarmFits' /\ TermFits'
    BY <2>1, <2>2, StackStays DEF Fits, PcFits, OneDefers, AlarmFits, TermFits
  <2>5. SavedFits' /\ TimerFits' /\ AlarmFinds'
    BY <2>1, <2>2, StackStays DEF Fits, SavedFits, TimerFits, AlarmFinds
  <2> QED BY <2>1, <2>3, <2>4, <2>5 DEF Fits
<1> QED BY <1>4, <1>5, <1>6, <1>7, <1>8 DEF Deliver

\* Every step keeps the invariant, as long as no exception cuts a context's own lines
\* short.
LEMMA NextKeepsFits ==
  ASSUME Fits, raced \in BOOLEAN, [Next]_vars
  PROVE  raced' = TRUE \/ (raced' = raced /\ Fits')
<1>1. onSignal \in [Signal -> AnyHandler] /\ NoneSaved \in [Signal -> AnyHandler]
  BY DEF Fits, Types, NoneSaved, AnyHandler
<1>2. CASE Tick
  BY <1>2, TickKeeps DEF Tick
<1>3. CASE Terminate \/ Leave \/ Unwind \/ Catch \/ End
  BY <1>3, ProgramKeeps DEF Terminate, Leave, Unwind, Catch, End
<1>4. ASSUME NEW s \in Signal, Deliver(s)
      PROVE  raced' = TRUE \/ (raced' = raced /\ Fits')
  BY <1>4, DeliverKeeps
<1>5. ASSUME NEW run \in Run, EnterTimeout(run) \/ EnterFatal(run)
      PROVE  raced' = raced /\ Fits'
  <2>1. run \in Nat /\ run > 0
    BY SignalContextsAssumption
  <2>2. CASE EnterTimeout(run)
    BY <1>1, <2>1, <2>2, EnterKeeps DEF EnterTimeout
  <2>3. CASE EnterFatal(run) /\ pc' = "setHandler"
    <3>1. /\ Calm /\ timer = 0 /\ Push("fatal", run, NoneSaved) /\ pc' = "setHandler"
          /\ UNCHANGED <<timer, pending, onSignal, raced>>
      BY <2>3 DEF EnterFatal, Calm
    <3> QED BY <1>1, <2>1, <3>1, EnterKeeps
  <2>4. CASE EnterFatal(run) /\ pc' # "setHandler"
    <3>1. UNCHANGED <<stack, pc, timer, pending, onSignal, raced>>
      BY <2>4 DEF EnterFatal
    <3> QED BY <3>1, StutterKeeps
  <2> QED BY <1>5, <2>2, <2>3, <2>4
<1>6. CASE EnterDefer
  BY <1>1, <1>6, EnterKeeps DEF EnterDefer
<1>7. CASE Context
  <2>1. ASSUME NEW onTime \in BOOLEAN, CancelPrevious(onTime) \/ CancelOwn(onTime)
        PROVE  raced' = raced /\ Fits'
    <3>1. raced' = raced
      BY <2>1 DEF CancelPrevious, CancelOwn
    <3>2. CASE onTime = TRUE
      BY <2>1, <3>1, <3>2, CancelPreviousKeeps, CancelOwnKeeps
    <3>3. CASE onTime = FALSE
      BY <2>1, <3>1, <3>3, LateCancelKeeps
    <3> QED BY <3>2, <3>3
  <2>2. CASE SetKillUs
    BY <2>2, SetKillUsKeeps DEF SetKillUs
  <2>3. CASE Schedule
    BY <2>3, ScheduleKeeps DEF Schedule
  <2>4. CASE RestoreHandler \/ Rearm
    BY <2>4, RestoreKeeps DEF RestoreHandler, Rearm
  <2>5. CASE SetDefer \/ UnsetDefer
    BY <2>5, DeferKeeps DEF SetDefer, UnsetDefer
  <2>6. CASE Relay
    BY <2>6, RelayKeeps DEF Relay
  <2> QED BY <1>7, <2>1, <2>2, <2>3, <2>4, <2>5, <2>6 DEF Context
<1>8. CASE UNCHANGED vars
  BY <1>8, StutterKeeps DEF vars
<1> QED BY <1>2, <1>3, <1>4, <1>5, <1>6, <1>7, <1>8 DEF Next

\* A race is for good.
LEMMA RacedStays == ASSUME raced = TRUE, [Next]_vars PROVE raced' = TRUE
<1>1. ASSUME NEW s \in Signal, Deliver(s) PROVE raced' = TRUE
  BY <1>1 DEF Deliver, KillTimeout, KillFatal, ShutDown, Record, NoHandler, Raises
<1>2. CASE Context
  BY <1>2 DEF Context, CancelPrevious, CancelOwn, SetKillUs, Schedule, RestoreHandler, Rearm,
              SetDefer, UnsetDefer, Relay
<1>3. CASE Tick \/ Terminate \/ Leave \/ Unwind \/ Catch \/ End \/ EnterDefer
  BY <1>3 DEF Tick, Terminate, Leave, Unwind, Catch, End, EnterDefer
<1>4. ASSUME NEW run \in Run, EnterTimeout(run) \/ EnterFatal(run) PROVE raced' = TRUE
  BY <1>4 DEF EnterTimeout, EnterFatal
<1> QED BY <1>1, <1>2, <1>3, <1>4 DEF Next, vars

\* At first the program is in no context.
LEMMA InitIInv == Init => IInv
<1> SUFFICES ASSUME Init PROVE IInv
  OBVIOUS
<1>1. /\ stack = <<>> /\ pc = "body" /\ timer = 0 /\ pending = {} /\ raced = FALSE
      /\ onSignal["TERM"] = Script /\ onSignal["ALRM"] = Default
      /\ onSignal \in [Signal -> AnyHandler]
  BY DEF Init, Signal, AnyHandler
<1>2. Types /\ Depth = 0
  BY <1>1 DEF Types, Depth
<1>3. Level = {} /\ Timers = {} /\ Deferring = {}
  BY <1>2 DEF Level, Timers, Deferring
<1>4. PcFits /\ OneDefers /\ TermFits /\ SavedFits /\ AlarmFinds
  BY <1>1, <1>3 DEF PcFits, OneDefers, TermFits, SavedFits, AlarmFinds
<1>5. AlarmFits
  BY <1>1, <1>2 DEF AlarmFits, AlarmOf
<1>6. TimerFits
  BY <1>1, <1>3 DEF TimerFits, InTime
<1> QED BY <1>1, <1>2, <1>4, <1>5, <1>6 DEF IInv, Fits

\* As long as no exception cuts a context's own lines short, what each context has saved
\* is right for the contexts around it.
THEOREM Invariance == Spec => []IInv
<1>1. IInv /\ [Next]_vars => IInv'
  BY NextKeepsFits, RacedStays DEF IInv
<1> QED BY <1>1, InitIInv, PTL DEF Spec

-----------------------------------------------------------------------------
(* What the contexts promise.                                               *)

\* In the body of a context the handlers are its own, whatever contexts have come and gone
\* inside it, and by what exceptions (lib/timeout_util.py:90, :152, lib/signals.py:54-60).
THEOREM Handlers == Spec => []HandlersAreTheInnermosts
<1>1. IInv => HandlersAreTheInnermosts
  <2> SUFFICES ASSUME Fits, Calm, ~raced PROVE HandlersAreTheInnermosts
    BY DEF IInv, HandlersAreTheInnermosts
  <2>1. pc = "body" /\ Depth \in Nat /\ Deferring \subseteq Nat
    BY Levels DEF Fits, Calm
  <2>2. onSignal["ALRM"] = IF Depth = 0 THEN Default ELSE <<Top.kind, Depth>>
    BY <2>1 DEF Fits, AlarmFits, AlarmOf, Top
  <2>3. CASE Deferring = {}
    BY <2>2, <2>3 DEF Fits, TermFits, HandlersAreTheInnermosts
  <2>4. CASE Deferring # {}
    <3>1. PICK k \in Deferring : onSignal["TERM"] = <<"defer", k>>
      BY <2>1, <2>4 DEF Fits, TermFits
    <3>2. \A j \in Deferring : k >= j
      BY <2>1 DEF Fits, OneDefers
    <3>3. Max(Deferring) = k
      BY <2>1, <3>2, Maximum
    <3> QED BY <2>2, <2>4, <3>1, <3>3 DEF HandlersAreTheInnermosts
  <2> QED BY <2>3, <2>4
<1> QED BY <1>1, Invariance, PTL

\* The timer rings at the earliest deadline of all the timeouts around the program: an
\* inner one neither loses nor moves an outer one (lib/timeout_util.py:88-97).
THEOREM Deadlines == Spec => []EarliestDeadlineIsSet
<1>1. IInv => EarliestDeadlineIsSet
  <2> SUFFICES ASSUME Fits, Calm, Timers # {}, \A k \in Timers : stack[k].left > 0
               PROVE  timer = Min({stack[k].left : k \in Timers})
    BY DEF IInv, EarliestDeadlineIsSet
  <2>1. /\ Types /\ Depth \in Nat /\ InTime(Depth, timer)
        /\ \A k \in Timers : k \in Nat /\ k <= Depth /\ stack[k].left \in Nat
    BY Levels DEF Fits, TimerFits, Calm, AnyEntry
  <2>2. ~Due(Depth)
    BY <2>1 DEF Due
  <2>3. /\ \A k \in Timers : timer <= stack[k].left
        /\ \E k \in Timers : stack[k].left = timer
    BY <2>1, <2>2 DEF InTime
  <2> DEFINE S == {stack[k].left : k \in Timers}
  <2>4. S \in SUBSET Nat /\ timer \in S /\ \A y \in S : timer <= y
    BY <2>1, <2>3
  <2> QED BY <2>4, Minimum
<1> QED BY <1>1, Invariance, PTL

\* An alarm finds a handler of a context, and comes only when the time of a timeout is
\* over: no default handler ever kills the process.
THEOREM Alarms == Spec => []AlarmsAreDue
<1>1. IInv => AlarmsAreDue
  <2>1. ASSUME Fits PROVE pc # "killed"
    BY <2>1 DEF Fits, PcFits
  <2>2. ASSUME Fits, "ALRM" \in pending PROVE \E k \in Timers : stack[k].left = 0
    BY <2>2 DEF Fits, AlarmFinds, Due
  <2> QED BY <2>1, <2>2 DEF IInv, AlarmsAreDue
<1> QED BY <1>1, Invariance, PTL

-----------------------------------------------------------------------------
(***************************************************************************)
(* EnforcedCleanup, for any number of interrupts and SIGKILLs: the watchdog *)
(* never unwinds the contexts of a parent that lives, but for the directory *)
(* that one led astray removes.                                             *)
(*                                                                          *)
(* The argument goes by the lock: it leaves the parent's hands only with    *)
(* the byte in the pipe, or by the parent's end; and a watchdog that has    *)
(* it and finds no byte knows which of the two it was.                      *)
(***************************************************************************)

ParentState   == EC!Gone \cup {"fork", "forked", "try", "body", "send", "unlock",
                               "waitpid", "cgroup", "cleanup", "exit_send", "exit_unlock", "leave"}
WatchdogState == EC!Gone \cup {"none", "fresh", "stray", "lock", "poll", "cleanup"}

\* Every variable that the argument needs keeps its type.
CleanupTypes ==
  /\ parent \in ParentState /\ watchdog \in WatchdogState
  /\ lock \in {"parent", "watchdog", "free"}
  /\ pipe \in BOOLEAN /\ astray \in BOOLEAN

\* The parent's lock is let go of only with the byte sent, or at its end.
LockSaysWell == lock # "parent" => pipe \/ parent \in EC!Gone

\* On its way to unlock the parent has sent its byte.
SentFirst == parent \in {"unlock", "exit_unlock"} => pipe

\* A watchdog that looks into the pipe has the lock.
PollHasLock == watchdog = "poll" => lock = "watchdog"

\* A watchdog that is off its way, and what it removes, was led astray.
StraysAreKnown == watchdog = "stray" => astray

\* The property itself, of EnforcedCleanup's watchdog.
WatchdogWaitsForTheEnd == EC!WatchdogWaitsForTheEnd

CleanupInv ==
  /\ CleanupTypes /\ LockSaysWell /\ SentFirst /\ PollHasLock /\ StraysAreKnown
  /\ WatchdogWaitsForTheEnd

USE DEF EC!Gone, EC!WatchdogWaitsForTheEnd, ParentState, WatchdogState

LEMMA InitCleanupInv == EC!Init => CleanupInv
  BY DEF EC!Init, CleanupInv, CleanupTypes, LockSaysWell, SentFirst, PollHasLock, StraysAreKnown,
         WatchdogWaitsForTheEnd

\* The steps of the parent.
LEMMA ParentKeepsInv == CleanupInv /\ (EC!Parent \/ EC!BodyEnds) => CleanupInv'
<1> SUFFICES ASSUME CleanupInv, EC!Parent \/ EC!BodyEnds PROVE CleanupInv'
  OBVIOUS
<1> USE DEF CleanupInv, CleanupTypes, LockSaysWell, SentFirst, PollHasLock, StraysAreKnown,
            WatchdogWaitsForTheEnd, EC!ParentGoes, EC!DropLock, EC!RemoveDirectory
<1>1. CASE EC!Fork  BY <1>1 DEF EC!Fork
<1>2. CASE EC!WatchdogIsAlive  BY <1>2 DEF EC!WatchdogIsAlive
<1>3. CASE EC!Yield  BY <1>3 DEF EC!Yield
<1>4. CASE EC!BodyEnds  BY <1>4 DEF EC!BodyEnds
<1>5. CASE EC!SendBytes  BY <1>5 DEF EC!SendBytes
<1>6. CASE EC!Unlock  BY <1>6 DEF EC!Unlock
<1>7. CASE EC!WaitPid  BY <1>7 DEF EC!WaitPid
<1>8. CASE EC!KillProcesses  BY <1>8 DEF EC!KillProcesses
<1>9. CASE EC!Cleanup  BY <1>9 DEF EC!Cleanup
<1>10. CASE EC!Leave  BY <1>10 DEF EC!Leave
<1> QED BY <1>1, <1>2, <1>3, <1>4, <1>5, <1>6, <1>7, <1>8, <1>9, <1>10 DEF EC!Parent

\* The steps of the watchdog.
LEMMA WatchdogKeepsInv == CleanupInv /\ EC!Watchdog => CleanupInv'
<1> SUFFICES ASSUME CleanupInv, EC!Watchdog PROVE CleanupInv'
  OBVIOUS
<1> USE DEF CleanupInv, CleanupTypes, LockSaysWell, SentFirst, PollHasLock, StraysAreKnown,
            WatchdogWaitsForTheEnd, EC!WatchdogGoes, EC!DropLock, EC!RemoveDirectory
<1>1. CASE EC!SetSid         BY <1>1 DEF EC!SetSid
<1>2. CASE EC!WriteLock      BY <1>2 DEF EC!WriteLock
<1>3. CASE EC!Poll           BY <1>3 DEF EC!Poll
<1>4. CASE EC!ForcedCleanup  BY <1>4 DEF EC!ForcedCleanup
<1>5. CASE EC!StrayEnds      BY <1>5 DEF EC!StrayEnds
<1> QED BY <1>1, <1>2, <1>3, <1>4, <1>5 DEF EC!Watchdog

\* The signals.
LEMMA SignalsKeepInv ==
  ASSUME NEW group \in BOOLEAN, CleanupInv, EC!Interrupt(group) \/ EC!Kill(group)
  PROVE  CleanupInv'
<1> USE DEF CleanupInv, CleanupTypes, LockSaysWell, SentFirst, PollHasLock, StraysAreKnown,
            WatchdogWaitsForTheEnd
<1>1. CASE EC!Interrupt(group)  BY <1>1 DEF EC!Interrupt, EC!Interrupted, EC!RemoveDirectory
<1>2. CASE EC!Kill(group)       BY <1>2 DEF EC!Kill, EC!DropLock
<1> QED BY <1>1, <1>2

\* A step that changes nothing.
LEMMA StutterKeepsInv == CleanupInv /\ UNCHANGED EC!vars => CleanupInv'
  BY DEF EC!vars, CleanupInv, CleanupTypes, LockSaysWell, SentFirst, PollHasLock, StraysAreKnown,
         WatchdogWaitsForTheEnd

\* The state of EnforcedCleanup keeps its type, and the lock, the pipe and the two
\* processes agree on whether the parent is well.
THEOREM CleanupInvariance == EC!Spec => []CleanupInv
<1>1. EC!Init => CleanupInv
  BY InitCleanupInv
<1>2. CleanupInv /\ [EC!Next]_(EC!vars) => CleanupInv'
  BY ParentKeepsInv, WatchdogKeepsInv, SignalsKeepInv, StutterKeepsInv DEF EC!Next
<1> QED BY <1>1, <1>2, PTL DEF EC!Spec

\* However often the parent is interrupted on its way, and whenever it is killed: the
\* watchdog unwinds the contexts (lib/cleanup.py:112) only after the parent's end, and
\* the build's directory goes before only by the parent or by a watchdog led astray.
THEOREM WatchdogWaits == EC!Spec => []WatchdogWaitsForTheEnd
<1>1. CleanupInv => WatchdogWaitsForTheEnd
  BY DEF CleanupInv
<1> QED BY <1>1, CleanupInvariance, PTL
=============================================================================
