---------------------------- MODULE SignalContexts ----------------------------
(***************************************************************************)
(* lib/timeout_util.py (Timeout, FatalTimeout) and lib/signals.py          *)
(* (DeferSignals, RelaySignal): context managers that share one process's  *)
(* alarm timer and its table of signal handlers, nested in any order.      *)
(*                                                                         *)
(* Python calls a handler between two steps of the program, so that an     *)
(* exception a handler raises can land in the middle of a context's own    *)
(* first and last lines.  Those lines are separate steps here.             *)
(***************************************************************************)
EXTENDS Naturals, Sequences, SequencesExt

CONSTANTS Run,          \* times, in ticks, a timeout may be entered with
          Retry,        \* FatalTimeout's 60 seconds, in ticks
          MaxDepth,     \* bound: contexts inside each other
          MaxSwallows,  \* bound: SystemExits the program suppresses
          MaxTerms      \* bound: SIGTERMs sent to it

ASSUME SignalContextsAssumption ==
  /\ Run \subseteq Nat \ {0} /\ Retry \in Nat \ {0}
  /\ MaxDepth \in Nat /\ MaxSwallows \in Nat /\ MaxTerms \in Nat

VARIABLES stack,        \* the contexts the program is in, the outermost first
          pc,           \* "body", or the step of the innermost context it is at
          timer,        \* ticks until the alarm, 0 when none is set
          pending,      \* signals that have come and are not handled yet
          onSignal,     \* the handler of each signal
          exc,          \* the exception being raised: <<kind, context>>
          swallows, terms,
          raced,        \* ghost: an exception cut a context's own lines short, where
                        \* the timer or a handler had yet to be put back
          lost,         \* ghost: DeferSignals dropped signals it had received
          deaf          \* ghost: the program suppressed what SIGTERM raised

vars == <<stack, pc, timer, pending, onSignal, exc, swallows, terms, raced, lost, deaf>>

Signal == {"ALRM", "TERM"}
NoExc == <<"none", 0>>
Exit  == <<"exit", 0>>

Default == <<"default", 0>>
Ignore  == <<"ignore", 0>>
Script  == <<"script", 0>>     \* the one commandline.ScriptWrapperMain sets

Depth == Len(stack)
Top   == stack[Depth]
Level == 1 .. Depth

Deferring == {k \in Level : stack[k].kind = "defer"}
Timers == Level \ Deferring

Init ==
  /\ stack = <<>> /\ pc = "body"
  /\ timer = 0 /\ pending = {}
  /\ onSignal = [s \in Signal |-> IF s = "TERM" THEN Script ELSE Default]
  /\ exc = NoExc
  /\ swallows = 0 /\ terms = 0 /\ raced = FALSE /\ lost = FALSE /\ deaf = FALSE

\* The program takes no step while a handler is to be called.
Steps == pending = {} /\ pc \notin {"ended", "killed"}
Calm  == Steps /\ pc = "body" /\ exc = NoExc

Goes(kinds, from, to) ==
  /\ Steps /\ Depth > 0 /\ Top.kind \in kinds
  /\ pc = from /\ pc' = to

SetHandler(s, h) == onSignal' = [onSignal EXCEPT ![s] = h]
Pop == stack' = Front(stack)

\* run: its own time, until the timer is set.
NoneSaved == [s \in Signal |-> Default]
Push(kind, run, handlers) ==
  stack' = Append(stack, [kind |-> kind, run |-> run, left |-> 0,
                          had_previous |-> FALSE, previous_timeout |-> 0,
                          handlers |-> handlers, received |-> <<>>])

\* A tick passes for the contexts: `left` is until their own deadline (a ghost), and
\* previous_timeout becomes what _CancelTimer returned less the time since.
Minus1(n) == IF n > 0 THEN n - 1 ELSE 0
Aged == [k \in Level |-> [stack[k] EXCEPT !.left = Minus1(@), !.previous_timeout = Minus1(@)]]

\* max(seconds, MIN_SECONDS): when the time is over the signal comes at once.
_ScheduleTimer(seconds) ==
  /\ timer' = seconds
  /\ pending' = IF seconds = 0 THEN {"ALRM"} ELSE {}

\* The alarm is cancelled, or comes just before it is.
_CancelTimer(onTime) ==
  /\ timer' = 0
  /\ IF onTime THEN pending' = {} ELSE timer = 1 /\ pending' = {"ALRM"}

-----------------------------------------------------------------------------
(* Time, the signals, and their handlers.                                   *)

Tick ==
  /\ Steps /\ pc \in {"body", "finally"} /\ (pc = "body" => exc = NoExc)
  /\ timer > 0 \/ \E k \in Level : stack[k].left > 0
  /\ timer' = Minus1(timer)
  /\ pending' = IF timer = 1 THEN {"ALRM"} ELSE {}
  /\ stack' = Aged
  /\ UNCHANGED <<pc, onSignal, exc, swallows, terms, raced, lost, deaf>>

Terminate ==
  /\ pc \notin {"ended", "killed"} /\ terms < MaxTerms
  /\ pending' = pending \cup {"TERM"} /\ terms' = terms + 1
  /\ UNCHANGED <<stack, pc, timer, onSignal, exc, swallows, raced, lost, deaf>>

\* The `try` of a context, its body aside; what comes just before it starts can still
\* cut the context short.
InTry == \/ Top.kind = "defer" /\ pc \in {"setTerm", "setAlarm"}
         \/ Top.kind # "defer" /\ pc = "schedule"
BeforeFinally == Top.kind # "defer" \/ pc \in {"finally", "unsetAlarm", "relay"}

\* The timer or a handler is not what it was, and nobody will put it back.
HalfDone == \/ pc \in {"schedule", "finally", "unsetHandler", "unsetAlarm", "rearm"}
            \/ pc = "setHandler" /\ Top.had_previous

\* A handler raises e, where the program is; `handlers` are the handlers then.
Raises(e, handlers) ==
  /\ exc' = e
  /\ \/ /\ pc = "body"
        /\ onSignal' = handlers
        /\ UNCHANGED <<stack, pc, raced, lost>>
     \/ /\ pc # "body" /\ InTry
        /\ pc' = "finally"
        /\ onSignal' = handlers
        /\ UNCHANGED <<stack, raced, lost>>
     \/ /\ pc # "body" /\ BeforeFinally
        /\ pc' = "body" /\ Pop
        /\ onSignal' = [s \in Signal |-> IF handlers[s][2] = Depth THEN <<handlers[s][1], 0>>
                                                                  ELSE handlers[s]]
        /\ raced' = (raced \/ HalfDone)
        /\ lost' = (lost \/ Top.received # <<>>)

\* timeout_util.Timeout's kill_us, and FatalTimeout's.
KillTimeout(s) ==
  /\ onSignal[s][1] = "timeout"
  /\ Raises(onSignal[s], onSignal)
  /\ UNCHANGED timer

KillFatal(s) ==
  /\ onSignal[s][1] = "fatal"
  /\ Raises(<<"exit", onSignal[s][2]>>, onSignal)
  /\ timer' = Retry

\* commandline._DefaultHandler.
ShutDown(s) ==
  /\ onSignal[s] = Script
  /\ Raises(Exit, [onSignal EXCEPT ![s] = Ignore])
  /\ UNCHANGED timer

\* DeferSignals' handler: received is of no use once the context is gone.
Record(s) ==
  LET k == onSignal[s][2] IN
  /\ onSignal[s][1] = "defer"
  /\ stack' = IF k = 0 THEN stack ELSE [stack EXCEPT ![k].received = Append(@, s)]
  /\ UNCHANGED <<pc, timer, onSignal, exc, raced, lost>>

NoHandler(s) ==
  /\ onSignal[s] \in {Default, Ignore}
  /\ pc' = IF onSignal[s] = Default THEN "killed" ELSE pc
  /\ UNCHANGED <<stack, timer, onSignal, exc, raced, lost>>

Deliver(s) ==
  /\ s \in pending /\ pc \notin {"ended", "killed"}
  /\ pending' = pending \ {s}
  /\ KillTimeout(s) \/ KillFatal(s) \/ ShutDown(s) \/ Record(s) \/ NoHandler(s)
  /\ UNCHANGED <<swallows, terms, deaf>>

-----------------------------------------------------------------------------
(* Timeout and FatalTimeout.                                                *)

EnterTimeout(run) ==
  /\ Calm /\ Depth < MaxDepth
  /\ Push("timeout", run, NoneSaved) /\ pc' = "cancel"
  /\ UNCHANGED <<timer, pending, onSignal, exc, swallows, terms, raced, lost, deaf>>

CancelPrevious(onTime) ==
  /\ Goes({"timeout"}, "cancel", "setHandler")
  /\ _CancelTimer(onTime)
  /\ stack' = IF onTime THEN [stack EXCEPT ![Depth].had_previous = timer > 0,
                                           ![Depth].previous_timeout = timer]
                        ELSE Aged
  /\ UNCHANGED <<onSignal, exc, swallows, terms, raced, lost, deaf>>

\* FatalTimeout raises when the timer runs.
EnterFatal(run) ==
  /\ Calm /\ Depth < MaxDepth
  /\ \/ timer = 0 /\ Push("fatal", run, NoneSaved) /\ pc' = "setHandler" /\ UNCHANGED exc
     \/ timer > 0 /\ exc' = <<"error", 0>> /\ UNCHANGED <<stack, pc>>
  /\ UNCHANGED <<timer, pending, onSignal, swallows, terms, raced, lost, deaf>>

SetKillUs ==
  /\ Goes({"timeout", "fatal"}, "setHandler", "schedule")
  /\ stack' = [stack EXCEPT ![Depth].handlers["ALRM"] = onSignal["ALRM"]]
  /\ SetHandler("ALRM", <<Top.kind, Depth>>)
  /\ UNCHANGED <<timer, pending, exc, swallows, terms, raced, lost, deaf>>

\* Mutant: its own time always.
OwnTime == Top.run

\* The leftover of the timer it has stopped, when that is shorter than its own time.
Earliest == IF Top.had_previous THEN Min({Top.previous_timeout, Top.run}) ELSE Top.run

Schedule ==
  /\ Goes({"timeout", "fatal"}, "schedule", "body")
  /\ _ScheduleTimer(Earliest)
  /\ stack' = [stack EXCEPT ![Depth].left = Top.run, ![Depth].run = 0]
  /\ UNCHANGED <<onSignal, exc, swallows, terms, raced, lost, deaf>>

\* Mutant: the timer runs on.
CancelOwnNot(onTime) ==
  /\ onTime
  /\ Goes({"timeout", "fatal"}, "finally", "unsetHandler")
  /\ UNCHANGED <<stack, timer, pending, onSignal, exc, swallows, terms, raced, lost, deaf>>

CancelOwn(onTime) ==
  /\ Goes({"timeout", "fatal"}, "finally", "unsetHandler")
  /\ _CancelTimer(onTime)
  /\ stack' = IF onTime THEN stack ELSE Aged
  /\ UNCHANGED <<onSignal, exc, swallows, terms, raced, lost, deaf>>

\* Mutant: the default handler, not the one there was.
RestoreDefault ==
  /\ Goes({"timeout", "fatal"}, "unsetHandler", IF Top.had_previous THEN "rearm" ELSE "body")
  /\ SetHandler("ALRM", Default)
  /\ IF Top.had_previous THEN UNCHANGED stack ELSE Pop
  /\ UNCHANGED <<timer, pending, exc, swallows, terms, raced, lost, deaf>>

RestoreHandler ==
  /\ Goes({"timeout", "fatal"}, "unsetHandler", IF Top.had_previous THEN "rearm" ELSE "body")
  /\ SetHandler("ALRM", Top.handlers["ALRM"])
  /\ IF Top.had_previous THEN UNCHANGED stack ELSE Pop
  /\ UNCHANGED <<timer, pending, exc, swallows, terms, raced, lost, deaf>>

\* Mutant: no timer when its time is over.
RearmWhatIsLeft ==
  /\ Goes({"timeout"}, "rearm", "body")
  /\ timer' = Top.previous_timeout /\ Pop
  /\ UNCHANGED <<pending, onSignal, exc, swallows, terms, raced, lost, deaf>>

Rearm ==
  /\ Goes({"timeout"}, "rearm", "body")
  /\ _ScheduleTimer(Top.previous_timeout) /\ Pop
  /\ UNCHANGED <<onSignal, exc, swallows, terms, raced, lost, deaf>>

-----------------------------------------------------------------------------
(* DeferSignals.                                                            *)

\* Nobody uses it inside of another one.
EnterDefer ==
  /\ Calm /\ Depth < MaxDepth /\ Deferring = {}
  /\ Push("defer", 0, onSignal) /\ pc' = "setTerm"
  /\ UNCHANGED <<timer, pending, onSignal, exc, swallows, terms, raced, lost, deaf>>

SetDefer ==
  /\ \/ Goes({"defer"}, "setTerm", "setAlarm") /\ SetHandler("TERM", <<"defer", Depth>>)
     \/ Goes({"defer"}, "setAlarm", "body") /\ SetHandler("ALRM", <<"defer", Depth>>)
  /\ UNCHANGED <<stack, timer, pending, exc, swallows, terms, raced, lost, deaf>>

UnsetDefer ==
  /\ \/ Goes({"defer"}, "finally", "unsetAlarm") /\ SetHandler("TERM", Top.handlers["TERM"])
     \/ Goes({"defer"}, "unsetAlarm", "relay") /\ SetHandler("ALRM", Top.handlers["ALRM"])
  /\ UNCHANGED <<stack, timer, pending, exc, swallows, terms, raced, lost, deaf>>

\* RelaySignal calls the handler that is back in place, as the signal itself would;
\* only a default one it does not call.
Relay ==
  /\ Goes({"defer"}, "relay", IF Top.received = <<>> THEN "body" ELSE "relay")
  /\ IF Top.received = <<>>
     THEN Pop /\ UNCHANGED pending
     ELSE /\ stack' = [stack EXCEPT ![Depth].received = Tail(@)]
          /\ pending' = {s \in {Head(Top.received)} : onSignal[s] # Default}
  /\ UNCHANGED <<timer, onSignal, exc, swallows, terms, raced, lost, deaf>>

-----------------------------------------------------------------------------
(* The program: it leaves a context, by an exception or without; it catches *)
(* a TimeoutError outside of its Timeout, and may suppress a SystemExit or  *)
(* another exception anywhere.                                              *)

Leave ==
  /\ Calm /\ Depth > 0
  /\ pc' = "finally"
  /\ UNCHANGED <<stack, timer, pending, onSignal, exc, swallows, terms, raced, lost, deaf>>

LeaveDefer == Depth > 0 /\ Top.kind = "defer" /\ Leave

Unwind ==
  /\ Steps /\ pc = "body" /\ exc # NoExc
  /\ pc' = IF Depth > 0 THEN "finally" ELSE "ended"
  /\ UNCHANGED <<stack, timer, pending, onSignal, exc, swallows, terms, raced, lost, deaf>>

Catch ==
  /\ Steps /\ pc = "body" /\ exc # NoExc
  /\ IF exc[1] = "timeout"
     THEN (exc[2] = 0 \/ Depth < exc[2]) /\ UNCHANGED swallows
     ELSE swallows < MaxSwallows /\ swallows' = swallows + 1
  /\ deaf' = (deaf \/ exc = Exit)
  /\ exc' = NoExc
  /\ UNCHANGED <<stack, pc, timer, pending, onSignal, terms, raced, lost>>

End ==
  /\ Calm /\ Depth = 0
  /\ pc' = "ended"
  /\ UNCHANGED <<stack, timer, pending, onSignal, exc, swallows, terms, raced, lost, deaf>>

Context == \/ \E onTime \in BOOLEAN : CancelPrevious(onTime) \/ CancelOwn(onTime)
           \/ SetKillUs \/ Schedule \/ RestoreHandler \/ Rearm
           \/ SetDefer \/ UnsetDefer \/ Relay

Next ==
  \/ Tick \/ Terminate
  \/ \E s \in Signal : Deliver(s)
  \/ \E run \in Run : EnterTimeout(run) \/ EnterFatal(run)
  \/ EnterDefer \/ Context
  \/ Leave \/ Unwind \/ Catch \/ End

Spec == Init /\ [][Next]_vars

\* Time passes, whatever the program does; handlers are called and contexts go on; an
\* exception travels.  The program may stay in the body of a timeout for ever, but not
\* in that of a DeferSignals: no alarm would get it out.
LiveSpec ==
  /\ Spec
  /\ SF_vars(Tick)
  /\ WF_vars(\E s \in Signal : Deliver(s)) /\ WF_vars(Context) /\ WF_vars(Unwind)
  /\ SF_vars(LeaveDefer)

-----------------------------------------------------------------------------
(* Properties.                                                              *)

\* Every variable keeps its type.
Handler == {Default, Ignore, Script} \cup ({"timeout", "fatal", "defer"} \X (0 .. MaxDepth))
Longest == Max(Run \cup {Retry})
Entry == [kind : {"timeout", "fatal", "defer"}, run : 0 .. Longest, left : 0 .. Longest,
          had_previous : BOOLEAN, previous_timeout : 0 .. Longest,
          handlers : [Signal -> Handler], received : Seq(Signal)]
TypeOK ==
  /\ stack \in Seq(Entry) /\ Depth <= MaxDepth
  /\ pc \in {"body", "cancel", "setHandler", "schedule", "finally", "unsetHandler", "rearm",
             "setTerm", "setAlarm", "unsetAlarm", "relay", "ended", "killed"}
  /\ timer \in 0 .. Longest /\ pending \subseteq Signal
  /\ onSignal \in [Signal -> Handler]
  /\ exc \in {NoExc, <<"error", 0>>} \cup ({"timeout", "exit"} \X (0 .. MaxDepth))
  /\ swallows \in 0 .. MaxSwallows /\ terms \in 0 .. MaxTerms
  /\ raced \in BOOLEAN /\ lost \in BOOLEAN /\ deaf \in BOOLEAN

\* In the body of any context the handlers are that context's, whatever other contexts
\* have come and gone inside it, and by what exceptions; SIGTERM's may have switched
\* itself off.  Contexts that an exception cut short are the exception (raced).
HandlersAreTheInnermosts ==
  Calm /\ ~raced =>
    /\ onSignal["ALRM"] = IF Depth = 0 THEN Default ELSE <<Top.kind, Depth>>
    /\ IF Deferring = {} THEN onSignal["TERM"] \in {Script, Ignore}
       ELSE onSignal["TERM"] = <<"defer", Max(Deferring)>>

\* As long as no deadline is over, the timer is set to the earliest one of all the
\* timeouts the program is in: an inner timeout, whether it was left in time, fired or
\* was shorter or longer, neither loses nor moves an outer one.
EarliestDeadlineIsSet ==
  Calm /\ ~raced /\ Timers # {} /\ (\A k \in Timers : stack[k].left > 0)
    => timer = Min({stack[k].left : k \in Timers})

\* An alarm finds a handler, and comes only when the time of a timeout the program is in
\* is over: never out of a context it has left, never with the default handler, which
\* would kill the process.
AlarmsAreDue ==
  /\ pc # "killed" \/ raced
  /\ "ALRM" \in pending /\ ~raced => \E k \in Timers : stack[k].left = 0

\* A timeout ends, even when its body never would, and when it was its inner timeout
\* that fired in its stead or a DeferSignals that held the alarm back; and a
\* FatalTimeout even when the body suppresses the SystemExit.  (It may not when the
\* program suppressed what SIGTERM raised in the place of the TimeoutError.)
TimeoutsEnd ==
  \A k \in 1 .. MaxDepth :
    (k \in Timers) ~> (Depth < k \/ raced \/ deaf \/ pc \in {"ended", "killed"})

\* "If a signal comes in for the masked signals, the original handler is run after the
\* critical block has exited" (lib/signals.py:33-34): for every signal received.
EverySignalIsRelayed == ~lost
=============================================================================
