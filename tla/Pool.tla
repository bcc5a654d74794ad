-------------------------------- MODULE Pool --------------------------------
(***************************************************************************)
(* What a pool of lib/parallel.py promises of the inputs it is given: the   *)
(* task is run on each at most once, and a call that returns without an     *)
(* exception has run it on every one, to its end.                           *)
(***************************************************************************)
CONSTANT Input

VARIABLES status,   \* of each input: "new", "put", "run", "done" or "lost"
          result    \* "none", or how the call ended: "returned" or "raised"

vars == <<status, result>>

Init == status = [i \in Input |-> "new"] /\ result = "none"

Moves(i, from, to) ==
  status[i] \in from /\ status' = [status EXCEPT ![i] = to] /\ UNCHANGED result

Put(i)    == result = "none" /\ Moves(i, {"new"}, "put")
Run(i)    == Moves(i, {"put"}, "run")
Finish(i) == Moves(i, {"run"}, "done")
Lose(i)   == Moves(i, {"put", "run"}, "lost")

Return ==
  /\ result = "none" /\ \A i \in Input : status[i] = "done"
  /\ result' = "returned" /\ UNCHANGED status

Raise == result = "none" /\ result' = "raised" /\ UNCHANGED status

Next ==
  \/ \E i \in Input : Put(i) \/ Run(i) \/ Finish(i) \/ Lose(i)
  \/ Return \/ Raise

Spec == Init /\ [][Next]_vars
=============================================================================
