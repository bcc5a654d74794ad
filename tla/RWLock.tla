------------------------------- MODULE RWLock -------------------------------
(***************************************************************************)
(* What a readers-writer lock promises its clients, whatever it is built   *)
(* on: several readers or one writer.  lib/locking.py (FileLock.tla)       *)
(* implements it.                                                          *)
(***************************************************************************)
EXTENDS AdvisoryLocks

CONSTANT Client

VARIABLE mode    \* what each client has been granted

Init == mode = [c \in Client |-> "none"]

Acquire(c, m) ==
  /\ \A d \in Client \ {c} : Compatible(mode[d], m)
  /\ mode' = [mode EXCEPT ![c] = m]

\* A client gives its lock up, or dies and loses all its locks at once.
Release(C) == mode' = [c \in Client |-> IF c \in C THEN "none" ELSE mode[c]]

Next == \/ \E c \in Client, m \in Request : Acquire(c, m)
        \/ \E C \in SUBSET Client : Release(C)

Spec == Init /\ [][Next]_mode
=============================================================================
