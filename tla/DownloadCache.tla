----------------------------- MODULE DownloadCache -----------------------------
(***************************************************************************)
(* lib/paygen/download_cache.py: one URI in a DownloadCache that several    *)
(* processes share.                                                         *)
(*                                                                          *)
(* Two flock locks, each by a handle of its own, so that a process can get  *)
(* in its own way: the cache lock, shared while a file is got and exclusive *)
(* while the cache is set up or purged, and the lock of the file, exclusive *)
(* while it is downloaded and shared while it is opened.  AdvisoryLocks     *)
(* says what the kernel does.                                               *)
(***************************************************************************)
EXTENDS AdvisoryLocks, Naturals, FiniteSets

CONSTANTS Proc,               \* the processes
          FETCH_RETRY_COUNT,
          MaxCrashes          \* bound: processes that die

ASSUME DownloadCacheAssumption ==
  /\ IsFiniteSet(Proc)
  /\ FETCH_RETRY_COUNT \in Nat \ {0} /\ MaxCrashes \in Nat

\* What is at the file's path: a download that was cut off stays there.
File == {"absent", "downloading", "torn", "complete"}

\* A process's handles on the cache lock: GetFileObject's, and that of _SetupCache and Purge.
Handle == Proc \X {"get", "purge"}

VARIABLES
  dirs,         \* the directories of the cache are there
  file,
  cache_lock,   \* the mode of every handle on the cache lock
  file_lock,    \* the mode of every process on the file's lock
  pc,
  tries,        \* the rounds of GetFileObject's loop that are over
  got,          \* what the process has last been given to read, or why it was not
  crashes

locks == <<cache_lock, file_lock>>
vars  == <<dirs, file, locks, pc, tries, got, crashes>>

Init ==
  /\ dirs = FALSE /\ file = "absent"
  /\ cache_lock = [h \in Handle |-> "none"]
  /\ file_lock = [p \in Proc |-> "none"]
  /\ pc = [p \in Proc |-> "new"] /\ tries = [p \in Proc |-> 0]
  /\ got = [p \in Proc |-> "nothing"]
  /\ crashes = 0

Goes(p, from, to) == pc[p] = from /\ pc' = [pc EXCEPT ![p] = to]
Got(p, what) == got' = [got EXCEPT ![p] = what]

\* _PurgeLock and _CacheFileLock: whether the mode can be had, and how it is taken and
\* given back.
CacheLockIsFree(h, m) == Blockers(cache_lock, h, m) = {}
FileLockIsFree(p, m)  == Blockers(file_lock, p, m) = {}
SetCacheLock(h, m) == cache_lock' = [cache_lock EXCEPT ![h] = m]
SetFileLock(p, m)  == file_lock' = [file_lock EXCEPT ![p] = m]

-----------------------------------------------------------------------------
(* _SetupCache, and Purge when the cache's `with` ends: without the lock    *)
(* they do nothing.                                                         *)

SetupBegins(p) ==
  /\ IF CacheLockIsFree(<<p, "purge">>, "EX")
     THEN Goes(p, "new", "setup") /\ SetCacheLock(<<p, "purge">>, "EX")
     ELSE Goes(p, "new", "idle") /\ UNCHANGED cache_lock
  /\ UNCHANGED <<dirs, file, file_lock, tries, got, crashes>>

SetupEnds(p) ==
  /\ Goes(p, "setup", "idle") /\ SetCacheLock(<<p, "purge">>, "none")
  /\ dirs' = TRUE
  /\ UNCHANGED <<file, file_lock, tries, got, crashes>>

\* Mutant: Purge does not ask for the lock.
PurgeBeginsUnlocked(p) ==
  /\ Goes(p, "idle", "purge")
  /\ UNCHANGED <<dirs, file, locks, tries, got, crashes>>

PurgeBegins(p) ==
  /\ IF CacheLockIsFree(<<p, "purge">>, "EX")
     THEN Goes(p, "idle", "purge") /\ SetCacheLock(<<p, "purge">>, "EX")
     ELSE Goes(p, "idle", "new") /\ UNCHANGED cache_lock
  /\ UNCHANGED <<dirs, file, file_lock, tries, got, crashes>>

\* The file is too old or too large, or it is not.  A Purge in a GetFileObject would go on
\* there.
PurgeEnds(p) ==
  /\ Goes(p, "purge", IF cache_lock[<<p, "get">>] = "none" THEN "new" ELSE "wait")
  /\ SetCacheLock(<<p, "purge">>, "none")
  /\ file' \in {file, "absent"}
  /\ UNCHANGED <<dirs, file_lock, tries, got, crashes>>

-----------------------------------------------------------------------------
(* GetFileObject.                                                           *)

GetBegins(p) ==
  /\ Goes(p, "idle", "get")
  /\ tries' = [tries EXCEPT ![p] = 0] /\ Got(p, "nothing")
  /\ UNCHANGED <<dirs, file, locks, crashes>>

PurgeLock(p) ==
  /\ Goes(p, "get", "fetch")
  /\ CacheLockIsFree(<<p, "get">>, "SH") /\ SetCacheLock(<<p, "get">>, "SH")
  /\ UNCHANGED <<dirs, file, file_lock, tries, got, crashes>>

\* An exception leaves GetFileObject, and both locks with it.
Raise(p, why) ==
  /\ pc' = [pc EXCEPT ![p] = "idle"] /\ Got(p, why)
  /\ SetCacheLock(<<p, "get">>, "none") /\ SetFileLock(p, "none")

\* The lock file cannot be opened where its directory is missing.
NoLockDir(p) ==
  /\ pc[p] = "fetch" /\ ~dirs
  /\ Raise(p, "no directory")
  /\ UNCHANGED <<dirs, file, tries, crashes>>

\* _FetchIntoCache.
FetchBegins(p) ==
  /\ dirs
  /\ IF FileLockIsFree(p, "EX")
     THEN Goes(p, "fetch", "look") /\ SetFileLock(p, "EX")
     ELSE Goes(p, "fetch", "wait") /\ UNCHANGED file_lock
  /\ UNCHANGED <<dirs, file, cache_lock, tries, got, crashes>>

Look(p) ==
  /\ IF file = "absent"
     THEN Goes(p, "look", "download") /\ file' = "downloading" /\ UNCHANGED file_lock
     ELSE Goes(p, "look", "wait") /\ SetFileLock(p, "none") /\ UNCHANGED file
  /\ UNCHANGED <<dirs, cache_lock, tries, got, crashes>>

\* The lock is given back, and Purge tried: it needs the cache lock for itself, which
\* its own caller has by the other handle.
DownloadWorks(p) ==
  /\ Goes(p, "download", IF CacheLockIsFree(<<p, "purge">>, "EX") THEN "purge" ELSE "wait")
  /\ file' = "complete" /\ SetFileLock(p, "none")
  /\ UNCHANGED <<dirs, cache_lock, tries, got, crashes>>

DownloadFails(p) ==
  /\ pc[p] = "download" /\ file' = "absent"
  /\ Raise(p, "error")
  /\ UNCHANGED <<dirs, tries, crashes>>

FileLock(p) ==
  /\ Goes(p, "wait", "exists")
  /\ FileLockIsFree(p, "SH") /\ SetFileLock(p, "SH")
  /\ UNCHANGED <<dirs, file, cache_lock, tries, got, crashes>>

Exists(p) ==
  /\ Goes(p, "exists", IF file = "absent" THEN "sleep" ELSE "open")
  /\ UNCHANGED <<dirs, file, locks, tries, got, crashes>>

\* The file object stays good when the locks are gone.
Open(p) ==
  /\ Goes(p, "open", "idle")
  /\ Got(p, file)
  /\ SetCacheLock(<<p, "get">>, "none") /\ SetFileLock(p, "none")
  /\ UNCHANGED <<dirs, file, tries, crashes>>

\* Mutant: the rounds are not counted.
WakeUncounted(p) ==
  /\ tries[p] + 1 < FETCH_RETRY_COUNT
  /\ Goes(p, "sleep", "get")
  /\ SetCacheLock(<<p, "get">>, "none") /\ SetFileLock(p, "none")
  /\ UNCHANGED <<dirs, file, tries, got, crashes>>

\* It has slept with both locks.
Wake(p) ==
  /\ tries[p] + 1 < FETCH_RETRY_COUNT
  /\ Goes(p, "sleep", "get") /\ tries' = [tries EXCEPT ![p] = @ + 1]
  /\ SetCacheLock(<<p, "get">>, "none") /\ SetFileLock(p, "none")
  /\ UNCHANGED <<dirs, file, got, crashes>>

RetriesExhausted(p) ==
  /\ pc[p] = "sleep" /\ tries[p] + 1 = FETCH_RETRY_COUNT
  /\ Raise(p, "retries exhausted")
  /\ UNCHANGED <<dirs, file, tries, crashes>>

\* The process is killed, and another started in its place.
Crash(p) ==
  /\ crashes < MaxCrashes /\ crashes' = crashes + 1
  /\ pc[p] # "new" /\ pc' = [pc EXCEPT ![p] = "new"]
  /\ file' \in IF pc[p] = "download" THEN {"torn", "absent"} ELSE {file}
  /\ cache_lock' = [h \in Handle |-> IF h[1] = p THEN "none" ELSE cache_lock[h]]
  /\ SetFileLock(p, "none") /\ Got(p, "nothing")
  /\ UNCHANGED <<dirs, tries>>

Proceeds(p) ==
  \/ SetupBegins(p) \/ SetupEnds(p) \/ PurgeEnds(p)
  \/ PurgeLock(p) \/ NoLockDir(p) \/ FetchBegins(p) \/ Look(p)
  \/ DownloadWorks(p) \/ DownloadFails(p) \/ FileLock(p) \/ Exists(p) \/ Open(p)
  \/ Wake(p) \/ RetriesExhausted(p)

Next == \E p \in Proc : Proceeds(p) \/ PurgeBegins(p) \/ GetBegins(p) \/ Crash(p)

Spec == Init /\ [][Next]_vars

\* Downloads end one way or the other; a lock that is free again and again is got.
LiveSpec == Spec /\ \A p \in Proc : SF_vars(Proceeds(p))

-----------------------------------------------------------------------------
(* Properties.                                                              *)

\* Every variable keeps its type.
TypeOK ==
  /\ dirs \in BOOLEAN /\ file \in File
  /\ cache_lock \in [Handle -> Mode] /\ file_lock \in [Proc -> Mode]
  /\ pc \in [Proc -> {"new", "setup", "idle", "purge", "get", "fetch", "look", "download",
                      "wait", "exists", "open", "sleep"}]
  /\ tries \in [Proc -> 0 .. FETCH_RETRY_COUNT]
  /\ got \in [Proc -> File \cup {"nothing", "error", "no directory", "retries exhausted"}]
  /\ crashes \in 0 .. MaxCrashes

\* A file GetFileObject has seen in the cache is there when it opens it, and nobody is
\* downloading it or has left half of it but a process that was killed (torn): no purge
\* and no failing download comes between.
SeenIsThere == \A p \in Proc : pc[p] = "open" => file \in {"torn", "complete"}

\* GetFileObject returns or raises, whatever the others do.
GetReturns == \A p \in Proc : (pc[p] = "get") ~> (pc[p] \in {"idle", "new"})

\* "If it's already locked, that either means a download is in progress, or there is a
\* shared lock which means it's already present" (lines 275-277).
LockedMeansThere ==
  \A p \in Proc : pc[p] = "fetch" /\ ~FileLockIsFree(p, "EX") =>
    file # "absent" \/ \E q \in Proc : file_lock[q] = "EX"
=============================================================================
