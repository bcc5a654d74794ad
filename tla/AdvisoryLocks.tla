--------------------------- MODULE AdvisoryLocks ---------------------------
(***************************************************************************)
(* The kernel's advisory lock on one inode, as lib/locking.py and          *)
(* lib/cache.py use it through fcntl.lockf and fcntl.flock.  The kernel is *)
(* not part of the repository: these operators are external.               *)
(*                                                                         *)
(* A lock table maps every owner (a process for lockf, an open file        *)
(* description for flock) to the mode it holds.                            *)
(***************************************************************************)

Mode    == {"none", "SH", "EX"}
Request == {"SH", "EX"}

\* LOCK_SH is compatible with LOCK_SH and with nothing else.
Compatible(m, n) == "none" \in {m, n} \/ (m = "SH" /\ n = "SH")

\* The owners whose lock keeps `o' from getting mode m.
Blockers(held, o, m) == {p \in DOMAIN held \ {o} : ~Compatible(held[p], m)}

\* `waits' maps an owner to the owner it sleeps behind, or to `nobody'.  A
\* set is closed when it holds the owner each of its members sleeps behind.
Closed(waits, nobody, S) == \A x \in S : waits[x] # nobody => waits[x] \in S

\* Following the sleepers from q leads to p: what posix_locks_deadlock()
\* looks for before it lets p sleep behind q.
LeadsTo(waits, nobody, q, p) ==
  \A S \in SUBSET DOMAIN waits : q \in S /\ Closed(waits, nobody, S) => p \in S

\* Everyone who sleeps behind o is woken to try again.
Woken(waits, nobody, o) ==
  [x \in DOMAIN waits |-> IF waits[x] = o THEN nobody ELSE waits[x]]
=============================================================================
