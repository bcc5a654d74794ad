---------------------------- MODULE DiskCacheProofs ----------------------------
(***************************************************************************)
(* DiskCache, for any number of processes, of removals and of deaths: until *)
(* a lock file is made again after a Remove, an entry stays as it is under  *)
(* a read lock, and nobody takes part of an entry for a whole one.          *)
(*                                                                          *)
(* The argument: until then each of the two lock files has one inode, so    *)
(* that whoever has a lock has it against all the others.  Who changes the  *)
(* entry has both locks for itself; a reader has a share of one, or, until  *)
(* it has got that, the other for itself.                                   *)
(*                                                                          *)
(* DownloadCache, the other cache that processes share, follows it.         *)
(***************************************************************************)
EXTENDS DiskCache, FiniteSetTheorems, TLAPS

\* DownloadCache is a system of its own: the processes are the same, no variable is.
CONSTANT FETCH_RETRY_COUNT
VARIABLES dirs, file, cache_lock, file_lock, fetch_pc, tries, got, killed
DL == INSTANCE DownloadCache WITH pc <- fetch_pc, crashes <- killed

-----------------------------------------------------------------------------
(* The inductive invariant.                                                 *)

\* Types, but for the number of inodes, which no property depends on.
Types ==
  /\ entry \in Value \cup {Partial}
  /\ inodes \in Nat /\ path \in [Suffix -> Nat]
  /\ held \in [Inode -> [Proc -> Mode]]
  /\ fd \in [Proc -> [Suffix -> Nat]]
  /\ pc \in [Proc -> PC] /\ op \in [Proc -> Operation \cup {"none"}] /\ lock \in [Proc -> BOOLEAN]
  /\ read_locked \in [Proc -> BOOLEAN] /\ seen \in [Proc -> Value \cup {Partial}]
  /\ torn \in BOOLEAN

\* The kernel: who has an inode locked for itself has it alone.
Excludes ==
  \A i \in Inode, p, q \in Proc : held[i][p] = "EX" /\ q # p => held[i][q] = "none"

\* No lock file has been made twice: each has one inode, or none yet, and it is gone
\* from its path only if there are two of them.
Few == inodes <= 2

HomesAre(home) ==
  /\ home \in [Suffix -> 0 .. inodes]
  /\ home["lock"] = home["entry_lock"] => home["lock"] = NoFile
  /\ \A s \in Suffix : /\ path[s] \in {NoFile, home[s]}
                       /\ path[s] = NoFile /\ home[s] # NoFile => inodes >= 2
                       /\ \A p \in Proc : fd[p][s] \in {NoFile, home[s]}

Homes == Few => \E home \in [Suffix -> 0 .. inodes] : HomesAre(home)

\* p has the lock in mode m.
Has(p, s, m) == fd[p][s] # NoFile /\ held[fd[p][s]][p] = m

\* Where a process is in the monitor.
Inside == {"check", "write", "read", "leave"} \cup Writing

LocksHeld ==
  Few => \A p \in Proc : /\ pc[p] \in Inside => Has(p, "entry_lock", "EX")
                         /\ pc[p] \in Writing => Has(p, "lock", "EX")
                         /\ read_locked[p] => Has(p, "lock", "SH")

\* A read lock is got in an operation that was asked for it, and there is no other
\* operation before it is released; only who has found an entry relies on one.
Calls ==
  \A p \in Proc : /\ lock[p] => op[p] \in {"Exists", "SetDefault"}
                  /\ pc[p] \in {"out", "stale", "ref"} => ~lock[p]
                  /\ pc[p] = "read" => lock[p]
                  /\ read_locked[p] => pc[p] \in {"ref", "leave"}
                  /\ read_locked[p] /\ pc[p] = "leave" => lock[p]
                  /\ seen[p] # Absent => read_locked[p] \/ pc[p] \in {"read", "leave"}

\* What a reader relies on, from the time it finds the entry.
Relied ==
  Few => \A p \in Proc : read_locked[p] \/ pc[p] = "read" => entry # Absent /\ entry = seen[p]

\* Part of an entry is there while it is moved, or after a move was cut short.
Whole ==
  Few => /\ entry = Partial => torn \/ \E p \in Proc : pc[p] = "move"
         /\ \A p \in Proc : seen[p] = Partial => torn

IInv == Types /\ Excludes /\ Homes /\ LocksHeld /\ Calls /\ Relied /\ Whole

-----------------------------------------------------------------------------
(* Values.                                                                  *)

LEMMA SizeOfProc == IsFiniteSet(Proc) /\ Cardinality(Proc) \in Nat
BY DiskCacheAssumption, FS_CardinalityType

\* The processes rely on no more values than there are processes.
LEMMA SeenAreFew ==
  LET relied == {seen[p] : p \in Proc}
  IN  seen \in [Proc -> Nat] => IsFiniteSet(relied) /\ Cardinality(relied) <= Cardinality(Proc)
<1> DEFINE relied == {seen[p] : p \in Proc}
<1>1. SUFFICES ASSUME seen \in [Proc -> Nat]
               PROVE  IsFiniteSet(relied) /\ Cardinality(relied) <= Cardinality(Proc)
  OBVIOUS
<1>2. seen \in Surjection(Proc, relied)
  BY <1>1 DEF Surjection
<1> HIDE DEF relied
<1> QED BY <1>2, SizeOfProc, FS_Surjection

\* There is always a value nobody relies on.
LEMMA FreshFacts ==
  ASSUME Types
  PROVE  Fresh \in Value /\ Fresh # Absent /\ Fresh # Partial /\ \A p \in Proc : Fresh # seen[p]
<1> DEFINE relied == {seen[p] : p \in Proc}
           known == {Absent} \cup relied
<1>1. Cardinality(Proc) \in Nat
  BY SizeOfProc
<1>2. seen \in [Proc -> Nat]
  BY <1>1 DEF Types, Value, Partial
<1>3. IsFiniteSet(relied) /\ Cardinality(relied) <= Cardinality(Proc) /\ Cardinality(relied) \in Nat
  BY <1>2, SeenAreFew, FS_CardinalityType
<1>4. IsFiniteSet(known) /\ Cardinality(known) \in Nat /\ Cardinality(known) <= Cardinality(Proc) + 1
  <2> HIDE DEF relied
  <2>1. known = relied \cup {Absent}
    OBVIOUS
  <2> HIDE DEF known
  <2>2. IsFiniteSet(known) /\ Cardinality(known) \in {Cardinality(relied), Cardinality(relied) + 1}
    BY <1>3, <2>1, FS_AddElement
  <2> QED BY <1>1, <1>3, <2>2
<1>5. Cardinality(Value) = Cardinality(Proc) + 2
  BY <1>1, FS_Interval DEF Value
<1>6. ~(Value \subseteq known)
  <2> HIDE DEF known
  <2> QED BY <1>1, <1>4, <1>5, FS_Subset, FS_CardinalityType
<1>7. Fresh \in Value /\ Fresh \notin known
  BY <1>6 DEF Fresh
<1> QED BY <1>1, <1>7 DEF Value, Partial

-----------------------------------------------------------------------------
(* Lock files.                                                              *)

LEMMA FewInodes == 1 \in Inode /\ 2 \in Inode
BY DiskCacheAssumption DEF Inode

\* As long as there are few inodes, each lock file has its own.
LEMMA SameFile ==
  ASSUME Types, Homes, Few, NEW p \in Proc, NEW q \in Proc, NEW s \in Suffix, NEW t \in Suffix,
         fd[p][s] # NoFile
  PROVE  /\ fd[p][s] \in Inode
         /\ fd[q][t] = fd[p][s] <=> s = t /\ fd[q][t] # NoFile
<1>1. PICK home \in [Suffix -> 0 .. inodes] : HomesAre(home)
  BY DEF Homes
<1>2. fd[p][s] = home[s] /\ fd[q][t] \in {NoFile, home[t]} /\ fd[q][s] \in {NoFile, home[s]}
  BY <1>1 DEF HomesAre
<1>3. home[s] \in {1, 2}
  <2>1. inodes \in Nat /\ inodes <= 2 /\ home[s] \in 0 .. inodes /\ home[s] # 0
    BY <1>2 DEF Few, Types, NoFile
  <2> QED BY <2>1
<1>4. s # t => home[s] # home[t]
  BY <1>1, <1>2 DEF HomesAre, Suffix
<1> QED BY <1>2, <1>3, <1>4, FewInodes

LEMMA HomesKept ==
  ASSUME Types, Homes, inodes' = inodes,
         \A s \in Suffix : path'[s] \in {NoFile, path[s]},
         \A p \in Proc, s \in Suffix : fd'[p][s] \in {NoFile, fd[p][s]},
         Few => inodes >= 2 \/ UNCHANGED path
  PROVE  Homes'
<1> SUFFICES ASSUME Few PROVE \E home \in [Suffix -> 0 .. inodes] : HomesAre(home)'
  BY DEF Homes, Few
<1>1. PICK home \in [Suffix -> 0 .. inodes] : HomesAre(home)
  BY DEF Homes
<1>2. HomesAre(home)'
  BY <1>1 DEF HomesAre
<1> QED BY <1>2

\* A lock file is opened, and created if need be.
LEMMA OpenFacts ==
  ASSUME Types, Homes, NEW p \in Proc, NEW s \in Suffix, OpenFile(p, s)
  PROVE  /\ inodes' \in Nat /\ path' \in [Suffix -> Nat] /\ fd' \in [Proc -> [Suffix -> Nat]]
         /\ Few' => Few
         /\ Homes'
         /\ \A q \in Proc, t \in Suffix : fd[q][t] # NoFile => fd'[q][t] = fd[q][t]
<1>1. CASE fd[p][s] # NoFile
  <2>1. UNCHANGED <<path, inodes, fd>>
    BY <1>1 DEF OpenFile
  <2>2. Homes'
    BY <2>1, HomesKept
  <2> QED BY <2>1, <2>2 DEF Types, Few
<1>2. CASE fd[p][s] = NoFile /\ path[s] # NoFile
  <2>1. /\ inodes' = inodes /\ path' = path
        /\ fd' = [fd EXCEPT ![p][s] = path[s]]
    BY <1>2 DEF OpenFile, Types
  <2>2. path[s] \in Nat /\ \A q \in Proc, t \in Suffix : <<q, t>> # <<p, s>> => fd'[q][t] = fd[q][t]
    BY <2>1 DEF Types
  <2>3. fd' \in [Proc -> [Suffix -> Nat]] /\ fd'[p][s] = path[s]
    BY <2>1, <2>2 DEF Types
  <2>4. Homes'
    <3> SUFFICES ASSUME Few PROVE \E home \in [Suffix -> 0 .. inodes] : HomesAre(home)'
      BY <2>1 DEF Homes, Few
    <3>1. PICK home \in [Suffix -> 0 .. inodes] : HomesAre(home)
      BY DEF Homes
    <3>2. HomesAre(home)'
      BY <2>1, <2>2, <2>3, <3>1 DEF HomesAre
    <3> QED BY <3>2
  <2> QED BY <1>2, <2>1, <2>2, <2>3, <2>4 DEF Types, Few
<1>3. CASE fd[p][s] = NoFile /\ path[s] = NoFile
  <2>1. /\ inodes' = inodes + 1 /\ path' = [path EXCEPT ![s] = inodes + 1]
        /\ fd' = [fd EXCEPT ![p][s] = inodes + 1] /\ inodes \in Nat
    BY <1>3 DEF OpenFile, Types
  <2>2. \A q \in Proc, t \in Suffix : <<q, t>> # <<p, s>> => fd'[q][t] = fd[q][t]
    BY <2>1 DEF Types
  <2>3. /\ fd' \in [Proc -> [Suffix -> Nat]] /\ fd'[p][s] = inodes + 1
        /\ path' \in [Suffix -> Nat] /\ path'[s] = inodes + 1
        /\ \A t \in Suffix : t # s => path'[t] = path[t]
    BY <2>1 DEF Types
  <2>4. Homes'
    <3> SUFFICES ASSUME Few' PROVE \E home \in [Suffix -> 0 .. inodes'] : HomesAre(home)'
      BY DEF Homes
    <3>1. Few /\ inodes < 2
      BY <2>1 DEF Few
    <3>2. PICK home \in [Suffix -> 0 .. inodes] : HomesAre(home)
      BY <3>1 DEF Homes
    <3>3. home[s] = NoFile
      BY <1>3, <2>1, <3>1, <3>2 DEF HomesAre
    <3>4. PICK new \in [Suffix -> 0 .. inodes'] :
            /\ new[s] = inodes + 1
            /\ \A t \in Suffix : t # s => new[t] = home[t] /\ new[t] < inodes + 1
      <4> DEFINE h == [home EXCEPT ![s] = inodes + 1]
      <4>1. h \in [Suffix -> 0 .. inodes']
        BY <2>1
      <4>2. h[s] = inodes + 1 /\ \A t \in Suffix : t # s => h[t] = home[t]
        OBVIOUS
      <4>3. \A t \in Suffix : t # s => h[t] < inodes + 1
        BY <2>1, <4>2
      <4> HIDE DEF h
      <4> QED BY <4>1, <4>2, <4>3
    <3>5. HomesAre(new)'
      <4>1. new["lock"] = new["entry_lock"] => new["lock"] = NoFile
        BY <2>1, <3>4 DEF Suffix
      <4>2. ASSUME NEW t \in Suffix
            PROVE  /\ path'[t] \in {NoFile, new[t]}
                   /\ path'[t] = NoFile /\ new[t] # NoFile => inodes' >= 2
                   /\ \A q \in Proc : fd'[q][t] \in {NoFile, new[t]}
        <5>1. CASE t = s
          BY <2>1, <2>2, <2>3, <3>2, <3>3, <3>4, <5>1 DEF HomesAre, NoFile
        <5>2. CASE t # s
          BY <2>1, <2>2, <2>3, <3>2, <3>4, <5>2 DEF HomesAre
        <5> QED BY <5>1, <5>2
      <4> QED BY <3>4, <4>1, <4>2 DEF HomesAre
    <3> QED BY <3>4, <3>5
  <2> QED BY <1>3, <2>1, <2>2, <2>3, <2>4 DEF Few
<1> QED BY <1>1, <1>2, <1>3

\* Nobody keeps another from a lock but with one that is not compatible.
LEMMA FreeMeans ==
  ASSUME NEW S, NEW table \in [S -> Mode], NEW o \in S, NEW m \in Request, Blockers(table, o, m) = {}
  PROVE  \A x \in S \ {o} : /\ m = "EX" => table[x] = "none"
                            /\ m = "SH" => table[x] # "EX"
<1> SUFFICES ASSUME NEW x \in S \ {o}
             PROVE  (m = "EX" => table[x] = "none") /\ (m = "SH" => table[x] # "EX")
  OBVIOUS
<1>1. Compatible(table[x], m)
  BY DEF Blockers
<1> QED BY <1>1 DEF Compatible, Mode, Request

\* A lock that is got; the locks of others, and on the other file, stay.
LEMMA LockFacts ==
  ASSUME Types, Excludes, Homes, NEW p \in Proc, NEW s \in Suffix, NEW m \in Request, Lock(p, s, m)
  PROVE  /\ UNCHANGED <<path, inodes, fd>>
         /\ held' \in [Inode -> [Proc -> Mode]]
         /\ Excludes' /\ Homes'
         /\ Few => Has(p, s, m)'
         /\ Few => \A q \in Proc, t \in Suffix, n \in Mode :
                     <<q, t>> # <<p, s>> /\ Has(q, t, n) => Has(q, t, n)'
<1> DEFINE i == fd[p][s]
<1>1. /\ i # NoFile /\ Blockers(held[i], p, m) = {}
      /\ held' = [held EXCEPT ![i][p] = m]
      /\ UNCHANGED <<path, inodes, fd>>
  BY DEF Lock
<1>2. held' \in [Inode -> [Proc -> Mode]]
  BY <1>1 DEF Types, Mode, Request
<1>3. Excludes'
  <2>1. CASE i \in Inode
    <3>1. held[i] \in [Proc -> Mode]
      BY <2>1 DEF Types
    <3>2. \A x \in Proc \ {p} : (m = "EX" => held[i][x] = "none") /\ (m = "SH" => held[i][x] # "EX")
      BY <1>1, <3>1, FreeMeans
    <3>3. /\ held'[i][p] = m
          /\ \A x \in Proc : x # p => held'[i][x] = held[i][x]
          /\ \A j \in Inode : j # i => held'[j] = held[j]
      BY <1>1, <2>1 DEF Types
    <3> QED BY <2>1, <3>2, <3>3 DEF Excludes, Request
  <2>2. CASE i \notin Inode
    BY <1>1, <2>2 DEF Types, Excludes
  <2> QED BY <2>1, <2>2
<1>4. Homes'
  BY <1>1, HomesKept
<1>5. Few => Has(p, s, m)'
  <2> SUFFICES ASSUME Few PROVE Has(p, s, m)'
    OBVIOUS
  <2>1. i \in Inode
    BY <1>1, SameFile
  <2> QED BY <1>1, <2>1 DEF Types, Has
<1>6. ASSUME Few, NEW q \in Proc, NEW t \in Suffix, NEW n \in Mode, <<q, t>> # <<p, s>>, Has(q, t, n)
      PROVE  Has(q, t, n)'
  <2>1. i \in Inode /\ (fd[q][t] = i => s = t)
    BY <1>1, <1>6, SameFile
  <2>2. fd[q][t] \in Inode
    BY <1>6, SameFile DEF Has
  <2>3. held'[fd[q][t]][q] = held[fd[q][t]][q]
    BY <1>1, <1>6, <2>1, <2>2 DEF Types
  <2> QED BY <1>1, <1>6, <2>3 DEF Has
<1> QED BY <1>1, <1>2, <1>3, <1>4, <1>5, <1>6

\* A lock that is given back, and its file closed; a path is removed only if there are
\* two inodes.
LEMMA CloseFacts ==
  ASSUME Types, Excludes, Homes, NEW p \in Proc, NEW s \in Suffix, CloseFile(p, s),
         path' \in [Suffix -> Nat],
         \A t \in Suffix : path'[t] \in {NoFile, path[t]},
         Few => inodes >= 2 \/ UNCHANGED path
  PROVE  /\ inodes' = inodes /\ fd' \in [Proc -> [Suffix -> Nat]]
         /\ held' \in [Inode -> [Proc -> Mode]]
         /\ Excludes' /\ Homes'
         /\ Few => \A q \in Proc, t \in Suffix, n \in Mode :
                     <<q, t>> # <<p, s>> /\ Has(q, t, n) => Has(q, t, n)'
<1> DEFINE i == fd[p][s]
<1>1. /\ held' = IF i = NoFile THEN held ELSE [held EXCEPT ![i][p] = "none"]
      /\ fd' = [fd EXCEPT ![p][s] = NoFile] /\ inodes' = inodes
  BY DEF CloseFile
<1>2. held' \in [Inode -> [Proc -> Mode]]
  BY <1>1 DEF Types, Mode
<1>3. \A j \in Inode, q \in Proc : held'[j][q] = held[j][q] \/ held'[j][q] = "none"
  BY <1>1 DEF Types
<1>4. Excludes'
  BY <1>3 DEF Excludes
<1>5. /\ fd' \in [Proc -> [Suffix -> Nat]]
      /\ \A q \in Proc, t \in Suffix : <<q, t>> # <<p, s>> => fd'[q][t] = fd[q][t]
      /\ fd'[p][s] = NoFile
  BY <1>1 DEF Types, NoFile
<1>6. Homes'
  BY <1>1, <1>5, HomesKept
<1>7. ASSUME Few, NEW q \in Proc, NEW t \in Suffix, NEW n \in Mode, <<q, t>> # <<p, s>>, Has(q, t, n)
      PROVE  Has(q, t, n)'
  <2>1. fd[q][t] \in Inode /\ (fd[q][t] = i => s = t)
    BY <1>7, SameFile DEF Has
  <2>2. held'[fd[q][t]][q] = held[fd[q][t]][q]
    BY <1>1, <1>7, <2>1 DEF Types
  <2> QED BY <1>5, <1>7, <2>2 DEF Has
<1> QED BY <1>1, <1>2, <1>4, <1>5, <1>6, <1>7

-----------------------------------------------------------------------------
(* Processes.                                                               *)

\* Two processes do not have a lock at once that one of them has for itself.
LEMMA OneWriter ==
  ASSUME Types, Excludes, Homes, Few, NEW p \in Proc, NEW q \in Proc, NEW s \in Suffix,
         Has(p, s, "EX"), Has(q, s, "EX") \/ Has(q, s, "SH")
  PROVE  p = q
<1>1. fd[p][s] \in Inode /\ fd[q][s] = fd[p][s]
  BY SameFile DEF Has
<1> QED BY <1>1 DEF Excludes, Has

\* While one writes, nobody else is in the monitor or reads.
LEMMA Alone ==
  ASSUME IInv, Few, NEW p \in Proc, pc[p] \in Writing, NEW q \in Proc, q # p
  PROVE  ~read_locked[q] /\ pc[q] \notin Inside
<1>1. /\ Has(p, "entry_lock", "EX") /\ Has(p, "lock", "EX")
      /\ pc[q] \in Inside => Has(q, "entry_lock", "EX")
      /\ read_locked[q] => Has(q, "lock", "SH")
  BY DEF IInv, LocksHeld, Inside, Writing
<1> QED BY <1>1, OneWriter DEF IInv, Suffix

\* A step of p that lets the others keep the locks they have.
LEMMA OthersHold ==
  ASSUME IInv, NEW p \in Proc, Few' => Few,
         \A q \in Proc : q # p => UNCHANGED <<pc[q], read_locked[q]>>,
         Few => \A q \in Proc, t \in Suffix, n \in Mode : q # p /\ Has(q, t, n) => Has(q, t, n)',
         Few => /\ pc'[p] \in Inside => Has(p, "entry_lock", "EX")'
                /\ pc'[p] \in Writing => Has(p, "lock", "EX")'
                /\ read_locked'[p] => Has(p, "lock", "SH")'
  PROVE  LocksHeld'
<1> SUFFICES ASSUME Few', NEW q \in Proc
             PROVE  /\ pc'[q] \in Inside => Has(q, "entry_lock", "EX")'
                    /\ pc'[q] \in Writing => Has(q, "lock", "EX")'
                    /\ read_locked'[q] => Has(q, "lock", "SH")'
  BY DEF LocksHeld
<1>1. CASE q = p
  BY <1>1
<1>2. CASE q # p
  BY <1>2 DEF IInv, LocksHeld, Suffix, Mode
<1> QED BY <1>1, <1>2

LEMMA OthersCall ==
  ASSUME IInv, NEW p \in Proc,
         \A q \in Proc : q # p => UNCHANGED <<pc[q], op[q], lock[q], read_locked[q], seen[q]>>,
         seen'[p] # Absent => read_locked'[p] \/ pc'[p] \in {"read", "leave"},
         lock'[p] => op'[p] \in {"Exists", "SetDefault"},
         pc'[p] \in {"out", "stale", "ref"} => ~lock'[p],
         pc'[p] = "read" => lock'[p],
         read_locked'[p] => pc'[p] \in {"ref", "leave"},
         read_locked'[p] /\ pc'[p] = "leave" => lock'[p]
  PROVE  Calls'
<1>1. \A q \in Proc : q # p => /\ lock'[q] => op'[q] \in {"Exists", "SetDefault"}
                               /\ pc'[q] \in {"out", "stale", "ref"} => ~lock'[q]
                               /\ pc'[q] = "read" => lock'[q]
                               /\ read_locked'[q] => pc'[q] \in {"ref", "leave"}
                               /\ read_locked'[q] /\ pc'[q] = "leave" => lock'[q]
                               /\ seen'[q] # Absent => read_locked'[q] \/ pc'[q] \in {"read", "leave"}
  BY DEF IInv, Calls
<1> QED BY <1>1 DEF Calls

\* A step of p that leaves the entry alone.
LEMMA EntryAlone ==
  ASSUME IInv, NEW p \in Proc, Few' => Few, UNCHANGED entry, torn => torn',
         \A q \in Proc : q # p => UNCHANGED <<pc[q], read_locked[q], seen[q]>>,
         Few => (read_locked'[p] \/ pc'[p] = "read" => entry # Absent /\ entry = seen'[p]),
         pc[p] = "move" => torn',
         Few => (seen'[p] = Partial => torn')
  PROVE  Relied' /\ Whole'
<1>1. Relied'
  BY DEF IInv, Relied
<1>2. Whole'
  BY DEF IInv, Whole
<1> QED BY <1>1, <1>2

\* A step of p, which writes, that changes the entry: nobody else relies on one.
LEMMA EntryChanged ==
  ASSUME IInv, NEW p \in Proc, pc[p] \in Writing, Few' => Few,
         \A q \in Proc : q # p => UNCHANGED <<pc[q], read_locked[q], seen[q]>>,
         read_locked'[p] \/ pc'[p] = "read" => entry' # Absent /\ entry' = seen'[p],
         entry' = Partial => pc'[p] = "move",
         seen'[p] # Partial
  PROVE  Relied' /\ Whole'
<1>1. Few => \A q \in Proc : q # p => /\ ~read_locked[q] /\ pc[q] \notin {"read", "leave"}
                                      /\ seen[q] # Partial
  <2>1. Few => \A q \in Proc : q # p => ~read_locked[q] /\ pc[q] \notin {"read", "leave"}
    BY Alone DEF Inside
  <2>2. Absent # Partial
    BY SizeOfProc DEF Absent, Partial
  <2> QED BY <2>1, <2>2 DEF IInv, Calls
<1>2. Relied'
  BY <1>1 DEF Relied
<1>3. Whole'
  BY <1>1 DEF Whole
<1> QED BY <1>2, <1>3

-----------------------------------------------------------------------------
(* The steps.                                                               *)

\* Acquire, Call, DeleteStale and the opening of the key's lock.
LEMMA OpenKeepsIInv ==
  ASSUME IInv, NEW p \in Proc,
         \/ Acquire(p) \/ DeleteStale(p) \/ OpenForLock(p)
         \/ \E o \in Ops, l \in BOOLEAN : Call(p, o, l)
  PROVE  IInv'
<1>0. IInv /\ Types /\ Homes
  BY DEF IInv
<1>1. PICK s \in Suffix : OpenFile(p, s)
  BY DEF Acquire, DeleteStale, OpenForLock, Call, Suffix
<1>2. /\ UNCHANGED <<held, entry, ref, torn>> /\ lock' \in [Proc -> BOOLEAN]
      /\ pc' \in [Proc -> PC] /\ op' \in [Proc -> Operation \cup {"none"}]
      /\ \A q \in Proc : q # p => UNCHANGED <<pc[q], op[q], lock[q]>>
      /\ lock'[p] => op'[p] \in {"Exists", "SetDefault"}
      /\ \/ pc'[p] = "entry" /\ ~read_locked[p] /\ pc[p] \in {"ref", "stale"}
         \/ pc[p] = "out" /\ pc'[p] = "ref" /\ UNCHANGED call
         \/ pc[p] \in {"write", "read"} /\ pc' = pc /\ UNCHANGED call
  <2>1. CASE Acquire(p)
    BY <1>0, <2>1 DEF Types, Acquire, Goes, counts, call, PC, IInv, Calls
  <2>2. CASE DeleteStale(p)
    BY <1>0, <2>2, DiskCacheAssumption DEF Types, DeleteStale, Goes, counts, call, PC, Operation, IInv, Calls
  <2>3. CASE OpenForLock(p)
    BY <1>0, <2>3 DEF Types, OpenForLock, counts, call, IInv, Calls
  <2>4. CASE \E o \in Ops, l \in BOOLEAN : Call(p, o, l)
    BY <1>0, <2>4, DiskCacheAssumption DEF Types, Call, Goes, counts, call, PC, Operation, IInv, Calls
  <2> QED BY <2>1, <2>2, <2>3, <2>4
<1>3. /\ inodes' \in Nat /\ path' \in [Suffix -> Nat] /\ fd' \in [Proc -> [Suffix -> Nat]]
      /\ Few' => Few
      /\ Homes'
      /\ \A q \in Proc, t \in Suffix, n \in Mode : Has(q, t, n) => Has(q, t, n)'
  BY <1>0, <1>1, <1>2, OpenFacts DEF Has
<1>4. Types' /\ Excludes'
  BY <1>0, <1>2, <1>3 DEF IInv, Types, Excludes, ref
<1>5. LocksHeld'
  BY <1>2, <1>3, OthersHold DEF ref, IInv, LocksHeld, Calls, Inside, Writing, Suffix, Mode
<1>6. Calls'
  BY <1>2, OthersCall DEF ref, call, IInv, Calls
<1>7. Relied' /\ Whole'
  BY <1>2, <1>3, EntryAlone DEF ref, IInv, Relied, Whole
<1> QED BY <1>3, <1>4, <1>5, <1>6, <1>7 DEF IInv

\* Enter, ReadLock and WriteLock.
LEMMA LockKeepsIInv ==
  ASSUME IInv, NEW p \in Proc, Enter(p) \/ ReadLock(p) \/ WriteLock(p)
  PROVE  IInv'
<1>0. IInv /\ Types /\ Excludes /\ Homes
  BY DEF IInv
<1>1. PICK s \in Suffix, m \in Request :
        /\ Lock(p, s, m)
        /\ \/ /\ pc[p] = "entry" /\ pc'[p] \in {"write", "check"} /\ UNCHANGED read_locked
              /\ s = "entry_lock" /\ m = "EX"
           \/ /\ pc[p] = "write" /\ pc'[p] = "clear" /\ UNCHANGED read_locked
              /\ s = "lock" /\ m = "EX"
           \/ /\ pc[p] = "read" /\ pc'[p] = "leave" /\ read_locked' = [read_locked EXCEPT ![p] = TRUE]
              /\ s = "lock" /\ m = "SH"
  BY <1>0 DEF Types, Enter, ReadLock, WriteLock, Goes, Suffix, Request, ref
<1>2. /\ UNCHANGED <<entry, call, seen, torn>> /\ pc' \in [Proc -> PC]
      /\ \A q \in Proc : q # p => UNCHANGED pc[q]
  BY <1>0 DEF Types, Enter, ReadLock, WriteLock, Goes, ref, counts, PC, Removing
<1>3. /\ read_locked' \in [Proc -> BOOLEAN]
      /\ \A q \in Proc : q # p => UNCHANGED read_locked[q]
      /\ pc[p] = "read" => read_locked'[p] /\ lock[p]
      /\ pc[p] # "read" => ~read_locked'[p]
  BY <1>0, <1>1 DEF Types, IInv, Calls
<1>4. /\ UNCHANGED <<path, inodes, fd>> /\ (Few' => Few)
      /\ held' \in [Inode -> [Proc -> Mode]]
      /\ Excludes' /\ Homes'
      /\ Few => Has(p, s, m)'
      /\ Few => \A q \in Proc, t \in Suffix, n \in Mode :
                  <<q, t>> # <<p, s>> /\ Has(q, t, n) => Has(q, t, n)'
  BY <1>0, <1>1, LockFacts DEF Few
<1>5. Types'
  BY <1>0, <1>2, <1>3, <1>4 DEF Types, call
<1>6. LocksHeld'
  <2>1. Few => /\ pc'[p] \in Inside => Has(p, "entry_lock", "EX")'
               /\ pc'[p] \in Writing => Has(p, "lock", "EX")'
               /\ read_locked'[p] => Has(p, "lock", "SH")'
    BY <1>0, <1>1, <1>3, <1>4 DEF IInv, LocksHeld, Inside, Writing, Suffix, Mode
  <2> QED BY <1>2, <1>3, <1>4, <2>1, OthersHold
<1>7. Calls'
  BY <1>0, <1>1, <1>2, <1>3, OthersCall DEF call, IInv, Calls
<1>8. Relied' /\ Whole'
  <2>1. Few => (read_locked'[p] \/ pc'[p] = "read" => entry # Absent /\ entry = seen'[p])
    BY <1>0, <1>1, <1>2, <1>3 DEF IInv, Relied
  <2>2. Few => (seen'[p] = Partial => torn')
    BY <1>0, <1>2 DEF IInv, Whole
  <2>3. pc[p] # "move"
    BY <1>1
  <2> QED BY <1>2, <1>3, <1>4, <2>1, <2>2, <2>3, EntryAlone
<1> QED BY <1>4, <1>5, <1>6, <1>7, <1>8 DEF IInv

\* ListKey, SkipKey, Check, Raise, Clear and Copy.
LEMMA LocksAloneKeepIInv ==
  ASSUME IInv, NEW p \in Proc,
         ListKey(p) \/ SkipKey(p) \/ Check(p) \/ Raise(p) \/ Clear(p) \/ Copy(p)
  PROVE  IInv'
<1>0. IInv /\ Types
  BY DEF IInv
<1>1. /\ UNCHANGED <<locks, call, read_locked>>
      /\ pc[p] # "clear" => UNCHANGED torn
      /\ torn' \in BOOLEAN
      /\ \A q \in Proc : q # p => UNCHANGED <<pc[q], seen[q]>>
      /\ pc' \in [Proc -> PC] /\ seen' \in [Proc -> Value \cup {Partial}]
  <2>1. CASE ListKey(p) \/ SkipKey(p) \/ Raise(p)
    BY <1>0, <2>1 DEF Types, ListKey, SkipKey, Raise, Goes, ref, counts, PC
  <2>2. CASE Check(p)
    BY <1>0, <2>2 DEF Types, Check, Goes, counts, PC
  <2>3. CASE Clear(p) \/ Copy(p)
    BY <1>0, <2>3 DEF Types, Clear, Copy, Goes, ref, counts, PC
  <2> QED BY <2>1, <2>2, <2>3
<1>2. \/ pc[p] = "out" /\ pc'[p] = "stale" /\ UNCHANGED <<entry, seen>>
      \/ pc[p] = "stale" /\ pc'[p] = "out" /\ UNCHANGED <<entry, seen>>
      \/ /\ pc[p] = "check" /\ pc'[p] \in {"read", "leave", "write"}
         /\ pc'[p] = "read" => entry # Absent /\ lock[p]
         /\ seen'[p] = entry /\ UNCHANGED entry
      \/ pc[p] \in {"check", "write", "read"} /\ pc'[p] = "leave" /\ UNCHANGED <<entry, seen>>
      \/ pc[p] = "clear" /\ pc'[p] \in {"unlink", "insert"} /\ entry' = Absent /\ UNCHANGED seen
      \/ pc[p] = "insert" /\ pc'[p] = "move" /\ entry' = Partial /\ UNCHANGED seen
  BY <1>0 DEF Types, ListKey, SkipKey, Check, Raise, Clear, Copy, Goes, ref
<1>3. Excludes' /\ Homes' /\ (Few' => Few)
      /\ \A q \in Proc, t \in Suffix, n \in Mode : Has(q, t, n) => Has(q, t, n)'
  <2>1. UNCHANGED <<path, inodes, held, fd>>
    BY <1>1 DEF locks
  <2>2. Homes'
    BY <1>0, <2>1, HomesKept DEF IInv
  <2> QED BY <1>0, <2>1, <2>2 DEF IInv, Excludes, Few, Has
<1>4. Absent \in Value
  BY SizeOfProc DEF Absent, Value
<1>5. Types'
  BY <1>0, <1>1, <1>2, <1>4 DEF Types, locks, call
<1>6. LocksHeld'
  BY <1>0, <1>1, <1>2, <1>3, OthersHold DEF IInv, LocksHeld, Inside, Writing, Suffix, Mode
<1>7. Calls'
  <2>1. seen'[p] # Absent => pc'[p] \in {"read", "leave"}
    BY <1>0, <1>1, <1>2 DEF IInv, Calls, Types, Check, Goes, ListKey, SkipKey, Clear, Copy, Raise
  <2> QED BY <1>0, <1>1, <1>2, <2>1, OthersCall DEF call, IInv, Calls
<1>8. ~read_locked[p]
  BY <1>0, <1>2 DEF IInv, Calls
<1>9. Absent # Partial
  BY SizeOfProc DEF Absent, Partial
<1>10. Relied' /\ Whole'
  <2>1. CASE pc[p] = "check"
    <3>1. ASSUME Few, entry = Partial PROVE torn
      <4> SUFFICES ASSUME NEW q \in Proc, pc[q] = "move" PROVE FALSE
        BY <1>0, <3>1 DEF IInv, Whole
      <4>1. p # q /\ pc[q] \in Writing /\ pc[p] \in Inside
        BY <2>1 DEF Writing, Inside
      <4> QED BY <1>0, <3>1, <4>1, Alone
    <3>2. Few => (seen'[p] = Partial => torn')
      BY <1>0, <1>1, <1>2, <2>1, <3>1 DEF IInv, Whole
    <3> QED BY <1>0, <1>1, <1>2, <1>3, <1>8, <2>1, <3>2, EntryAlone
  <2>2. CASE pc[p] \in {"out", "stale", "write", "read"}
    BY <1>0, <1>1, <1>2, <1>3, <1>8, <2>2, EntryAlone DEF IInv, Whole
  <2>3. CASE pc[p] \in {"clear", "insert"}
    <3>1. pc[p] \in Writing
      BY <2>3 DEF Writing
    <3>2. seen'[p] # Partial
      BY <1>0, <1>2, <1>8, <1>9, <2>3 DEF IInv, Calls
    <3> QED BY <1>0, <1>1, <1>2, <1>3, <1>8, <1>9, <2>3, <3>1, <3>2, EntryChanged
  <2> QED BY <1>2, <2>1, <2>2, <2>3
<1> QED BY <1>3, <1>5, <1>6, <1>7, <1>10 DEF IInv

\* Insert, UnlinkEntry, RaiseWriting, Leave and Release.
LEMMA CloseKeepsIInv ==
  ASSUME IInv, NEW p \in Proc,
         Insert(p) \/ UnlinkEntry(p) \/ RaiseWriting(p) \/ Leave(p) \/ Release(p)
  PROVE  IInv'
<1>0. IInv /\ Types /\ Excludes /\ Homes /\ Absent \in Value /\ Absent # Partial
  BY SizeOfProc DEF IInv, Absent, Value, Partial
<1> DEFINE Closes(s) ==
             /\ CloseFile(p, s)
             /\ \/ /\ pc[p] \in {"insert", "move"} /\ pc'[p] = IF lock[p] THEN "read" ELSE "leave"
                   /\ s = "lock" /\ UNCHANGED <<path, read_locked, op, lock>>
                   /\ entry' = Fresh /\ seen' = [seen EXCEPT ![p] = Fresh]
                \/ /\ pc[p] = "unlinkEntry" /\ pc'[p] = "leave"
                   /\ s = "lock" /\ UNCHANGED <<entry, seen, read_locked, op, lock>>
                   /\ path' = [path EXCEPT !["entry_lock"] = NoFile]
                \/ /\ pc[p] \in Writing /\ pc'[p] = "leave"
                   /\ s = "lock" /\ UNCHANGED <<path, entry, seen, read_locked, op, lock>>
                   /\ torn' = (torn \/ pc[p] = "move")
                \/ /\ pc[p] = "leave" /\ pc'[p] = IF op[p] = "DeleteStale" THEN "out" ELSE "ref"
                   /\ s = "entry_lock" /\ UNCHANGED <<path, entry, read_locked>>
                   /\ op' = [op EXCEPT ![p] = "none"] /\ lock' = [lock EXCEPT ![p] = FALSE]
                   /\ seen' = IF read_locked[p] THEN seen ELSE [seen EXCEPT ![p] = Absent]
                \/ /\ pc[p] = "ref" /\ pc'[p] = "out"
                   /\ s = "lock" /\ UNCHANGED <<path, entry, op, lock>>
                   /\ read_locked' = [read_locked EXCEPT ![p] = FALSE]
                   /\ seen' = [seen EXCEPT ![p] = Absent]
<1>1. PICK s \in Suffix : Closes(s)
  <2>1. CASE Insert(p)
    BY <1>0, <2>1 DEF Types, Insert, call, Suffix
  <2>2. CASE UnlinkEntry(p)
    BY <1>0, <2>2 DEF Types, UnlinkEntry, Goes, call, ref, Suffix
  <2>3. CASE Leave(p)
    BY <1>0, <2>3 DEF Types, Leave, Goes, Suffix
  <2>4. CASE Release(p)
    BY <1>0, <2>4 DEF Types, Release, Goes, call, Suffix
  <2>5. CASE RaiseWriting(p)
    BY <1>0, <2>5 DEF Types, RaiseWriting, call, ref, Suffix
  <2> QED BY <2>1, <2>2, <2>3, <2>4, <2>5
<1>2. /\ pc' \in [Proc -> PC] /\ torn' \in BOOLEAN
      /\ torn => torn'
      /\ \A q \in Proc : q # p => UNCHANGED pc[q]
  BY <1>0 DEF Types, Insert, UnlinkEntry, RaiseWriting, Leave, Release, Goes, counts, PC
<1>3. /\ \A q \in Proc : q # p => UNCHANGED <<op[q], lock[q], read_locked[q], seen[q]>>
      /\ op' \in [Proc -> Operation \cup {"none"}] /\ lock' \in [Proc -> BOOLEAN]
      /\ read_locked' \in [Proc -> BOOLEAN] /\ seen' \in [Proc -> Value \cup {Partial}]
      /\ entry' \in Value \cup {Partial}
  BY <1>0, <1>1, FreshFacts DEF Types
<1>4. /\ path' \in [Suffix -> Nat]
      /\ \A t \in Suffix : path'[t] \in {NoFile, path[t]}
      /\ Few => inodes >= 2 \/ UNCHANGED path
  <2>1. CASE UNCHANGED path
    BY <1>0, <2>1 DEF Types
  <2>2. CASE pc[p] = "unlinkEntry" /\ path' = [path EXCEPT !["entry_lock"] = NoFile]
    <3>1. Few => inodes >= 2
      <4> SUFFICES ASSUME Few PROVE inodes >= 2
        OBVIOUS
      <4>1. Has(p, "entry_lock", "EX") /\ Has(p, "lock", "EX")
        BY <1>0, <2>2 DEF IInv, LocksHeld, Inside, Writing
      <4>2. PICK home \in [Suffix -> 0 .. inodes] : HomesAre(home)
        BY <1>0 DEF Homes
      <4>3. home["lock"] # 0 /\ home["entry_lock"] # 0 /\ home["lock"] # home["entry_lock"]
        BY <4>1, <4>2 DEF HomesAre, Has, Suffix, NoFile
      <4>4. home["lock"] \in 0 .. inodes /\ home["entry_lock"] \in 0 .. inodes /\ inodes \in Nat
        BY <1>0, <4>2 DEF Suffix, Types
      <4> QED BY <4>3, <4>4
    <3> QED BY <1>0, <2>2, <3>1 DEF Types, NoFile
  <2> QED BY <1>1, <2>1, <2>2
<1>5. /\ inodes' = inodes /\ fd' \in [Proc -> [Suffix -> Nat]]
      /\ held' \in [Inode -> [Proc -> Mode]]
      /\ Excludes' /\ Homes' /\ (Few' => Few)
      /\ Few => \A q \in Proc, t \in Suffix, n \in Mode :
                  <<q, t>> # <<p, s>> /\ Has(q, t, n) => Has(q, t, n)'
  BY <1>0, <1>1, <1>4, CloseFacts DEF Few
<1>6. Types'
  BY <1>0, <1>2, <1>3, <1>4, <1>5 DEF Types
<1>7. Calls'
  <2>1. /\ read_locked[p] => pc[p] \in {"ref", "leave"} /\ (pc[p] = "leave" => lock[p])
        /\ lock[p] => op[p] \in {"Exists", "SetDefault"}
        /\ pc[p] = "ref" => ~lock[p]
        /\ pc[p] \in Writing => ~read_locked[p] /\ seen[p] = Absent
    BY <1>0 DEF IInv, Calls, Writing
  <2>2. op[p] = "DeleteStale" /\ pc[p] = "leave" => ~read_locked[p]
    BY <2>1
  <2>3. /\ lock'[p] => op'[p] \in {"Exists", "SetDefault"}
        /\ pc'[p] \in {"out", "stale", "ref"} => ~lock'[p]
        /\ pc'[p] = "read" => lock'[p]
        /\ read_locked'[p] => pc'[p] \in {"ref", "leave"}
        /\ read_locked'[p] /\ pc'[p] = "leave" => lock'[p]
    BY <1>0, <1>1, <2>1, <2>2 DEF Types
  <2>4. seen'[p] # Absent => read_locked'[p] \/ pc'[p] \in {"read", "leave"}
    BY <1>0, <1>1, <2>1, <2>2 DEF Types
  <2> QED BY <1>0, <1>2, <1>3, <2>3, <2>4, OthersCall
<1>8. LocksHeld'
  <2>1. Few => /\ pc'[p] \in Inside => Has(p, "entry_lock", "EX")'
               /\ pc'[p] \in Writing => Has(p, "lock", "EX")'
               /\ read_locked'[p] => Has(p, "lock", "SH")'
    <3> SUFFICES ASSUME Few
                 PROVE  /\ pc'[p] \in Inside => Has(p, "entry_lock", "EX")'
                        /\ pc'[p] \in Writing => Has(p, "lock", "EX")'
                        /\ read_locked'[p] => Has(p, "lock", "SH")'
      OBVIOUS
    <3>1. /\ pc'[p] \notin Writing
          /\ pc'[p] \in Inside => s = "lock" /\ pc[p] \in Inside
      BY <1>1 DEF Inside, Writing
    <3>2. read_locked'[p] => s = "entry_lock" /\ read_locked[p]
      BY <1>0, <1>1 DEF Types, IInv, Calls, Writing
    <3> QED BY <1>0, <1>5, <3>1, <3>2 DEF IInv, LocksHeld, Suffix, Mode
  <2> QED BY <1>0, <1>2, <1>3, <1>5, <2>1, OthersHold
<1>9. Relied' /\ Whole'
  <2>1. CASE /\ pc[p] \in {"insert", "move"} /\ pc'[p] \in {"read", "leave"}
             /\ entry' = Fresh /\ seen' = [seen EXCEPT ![p] = Fresh]
    <3>1. /\ entry' = Fresh /\ seen'[p] = Fresh /\ pc'[p] # "move" /\ pc[p] \in Writing
          /\ Fresh # Partial /\ Fresh # Absent
      BY <1>0, <1>1, <2>1, FreshFacts DEF Types, Writing
    <3> QED BY <1>0, <1>2, <1>3, <1>5, <3>1, EntryChanged
  <2>2. CASE pc[p] \in {"unlinkEntry", "leave", "ref"}
    <3>1. UNCHANGED entry /\ seen'[p] \in {seen[p], Absent} /\ pc'[p] \notin {"move", "read"}
      BY <1>0, <1>1, <2>2 DEF Types
    <3>2. read_locked'[p] => read_locked[p] /\ seen'[p] = seen[p]
      BY <1>0, <1>1, <2>2 DEF Types
    <3> QED BY <1>0, <1>2, <1>3, <1>5, <2>2, <3>1, <3>2, EntryAlone DEF IInv, Relied, Whole
  <2>3. CASE /\ pc[p] \in Writing /\ pc'[p] = "leave" /\ UNCHANGED <<entry, seen, read_locked>>
             /\ torn' = (torn \/ pc[p] = "move")
    <3>1. ~read_locked[p] /\ seen'[p] # Partial
      BY <1>0, <2>3 DEF IInv, Calls, Writing
    <3>2. pc[p] = "move" => torn'
      BY <2>3
    <3> QED BY <1>0, <1>2, <1>3, <1>5, <2>3, <3>1, <3>2, EntryAlone
  <2> QED BY <1>1, <2>1, <2>2, <2>3
<1> QED BY <1>5, <1>6, <1>7, <1>8, <1>9 DEF IInv

LEMMA UnlinkKeepsIInv ==
  ASSUME IInv, NEW p \in Proc, Unlink(p)
  PROVE  IInv'
<1>0. IInv /\ Types /\ Homes
  BY DEF IInv
<1>1. /\ pc[p] = "unlink" /\ pc' = [pc EXCEPT ![p] = "unlinkEntry"]
      /\ path' = [path EXCEPT !["lock"] = NoFile]
      /\ UNCHANGED <<entry, inodes, held, fd, call, ref, torn>>
  BY DEF Unlink, Goes, counts
<1>2. Few => inodes >= 2
  <2> SUFFICES ASSUME Few PROVE inodes >= 2
    OBVIOUS
  <2>1. Has(p, "entry_lock", "EX") /\ Has(p, "lock", "EX")
    BY <1>0, <1>1 DEF IInv, LocksHeld, Inside, Writing
  <2>2. PICK home \in [Suffix -> 0 .. inodes] : HomesAre(home)
    BY <1>0 DEF Homes
  <2>3. home["lock"] # 0 /\ home["entry_lock"] # 0 /\ home["lock"] # home["entry_lock"]
    BY <2>1, <2>2 DEF HomesAre, Has, Suffix, NoFile
  <2>4. home["lock"] \in 0 .. inodes /\ home["entry_lock"] \in 0 .. inodes /\ inodes \in Nat
    BY <1>0, <2>2 DEF Suffix, Types
  <2> QED BY <2>3, <2>4
<1>3. Types'
  BY <1>0, <1>1 DEF Types, call, ref, PC, NoFile
<1>4. Homes'
  BY <1>0, <1>1, <1>2, HomesKept DEF Types
<1>5. Excludes' /\ (Few' => Few) /\ \A q \in Proc, t \in Suffix, n \in Mode : Has(q, t, n) => Has(q, t, n)'
  BY <1>0, <1>1 DEF IInv, Excludes, Few, Has
<1>6. pc'[p] = "unlinkEntry" /\ \A q \in Proc : q # p => UNCHANGED pc[q]
  BY <1>0, <1>1 DEF Types
<1>7. ~read_locked[p]
  BY <1>0, <1>1 DEF IInv, Calls
<1>8. LocksHeld'
  BY <1>0, <1>1, <1>5, <1>6, <1>7, OthersHold DEF IInv, LocksHeld, Inside, Writing, Suffix, Mode, ref
<1>9. Calls'
  BY <1>0, <1>1, <1>6, <1>7, OthersCall DEF IInv, Calls, call, ref
<1>10. Relied' /\ Whole'
  BY <1>0, <1>1, <1>5, <1>6, <1>7, EntryAlone DEF IInv, Whole, ref
<1> QED BY <1>3, <1>4, <1>5, <1>8, <1>9, <1>10 DEF IInv

\* A process that dies has no lock, and what it was moving stays where it was.
LEMMA CrashKeepsIInv ==
  ASSUME IInv, NEW p \in Proc, Crash(p)
  PROVE  IInv'
<1>0. IInv /\ Types /\ Excludes /\ Homes /\ Absent \in Value /\ Absent # Partial
  BY SizeOfProc DEF IInv, Absent, Value, Partial
<1>1. /\ torn' = (torn \/ pc[p] = "move")
      /\ pc' = [pc EXCEPT ![p] = "out"]
      /\ held' = [i \in Inode |-> [held[i] EXCEPT ![p] = "none"]]
      /\ fd' = [fd EXCEPT ![p] = [s \in Suffix |-> NoFile]]
      /\ read_locked' = [read_locked EXCEPT ![p] = FALSE]
      /\ op' = [op EXCEPT ![p] = "none"] /\ lock' = [lock EXCEPT ![p] = FALSE]
      /\ seen' = [seen EXCEPT ![p] = Absent]
      /\ UNCHANGED <<entry, path, inodes>>
  BY DEF Crash
<1>2. /\ held' \in [Inode -> [Proc -> Mode]]
      /\ \A i \in Inode, q \in Proc : held'[i][q] = IF q = p THEN "none" ELSE held[i][q]
  BY <1>0, <1>1 DEF Types, Mode
<1>3. /\ fd' \in [Proc -> [Suffix -> Nat]]
      /\ \A q \in Proc, t \in Suffix : fd'[q][t] = IF q = p THEN NoFile ELSE fd[q][t]
  BY <1>0, <1>1 DEF Types, NoFile
<1>4. Types'
  BY <1>0, <1>1, <1>2, <1>3 DEF Types, PC
<1>5. Excludes' /\ Homes' /\ (Few' => Few)
  <2>1. Excludes'
    BY <1>0, <1>2 DEF Excludes
  <2>2. Homes'
    BY <1>0, <1>1, <1>3, HomesKept
  <2> QED BY <1>1, <2>1, <2>2 DEF Few
<1>6. Few => \A q \in Proc, t \in Suffix, n \in Mode : q # p /\ Has(q, t, n) => Has(q, t, n)'
  <2> SUFFICES ASSUME Few, NEW q \in Proc, NEW t \in Suffix, NEW n \in Mode, q # p, Has(q, t, n)
               PROVE  Has(q, t, n)'
    OBVIOUS
  <2>1. fd[q][t] \in Inode
    BY <1>0, SameFile DEF Has
  <2> QED BY <1>2, <1>3, <2>1 DEF Has
<1>7. /\ pc'[p] = "out" /\ ~read_locked'[p] /\ ~lock'[p] /\ seen'[p] = Absent
      /\ \A q \in Proc : q # p =>
           UNCHANGED <<pc[q], op[q], lock[q], read_locked[q], seen[q]>>
  BY <1>0, <1>1 DEF Types
<1>8. LocksHeld'
  BY <1>0, <1>5, <1>6, <1>7, OthersHold DEF Inside, Writing
<1>9. Calls'
  BY <1>0, <1>7, OthersCall
<1>10. Relied' /\ Whole'
  BY <1>0, <1>1, <1>5, <1>7, EntryAlone
<1> QED BY <1>4, <1>5, <1>8, <1>9, <1>10 DEF IInv

-----------------------------------------------------------------------------
(* The theorems.                                                            *)

LEMMA InitIInv ==
  ASSUME Init
  PROVE  IInv
<1>1. Cardinality(Proc) \in Nat
  BY SizeOfProc
<1>2. Types
  <2>1. Absent \in Value
    BY <1>1 DEF Absent, Value
  <2> QED BY <2>1 DEF Init, Types, NoFile, Mode, PC
<1>3. Homes
  <2>1. PICK home \in [Suffix -> 0 .. inodes] : \A s \in Suffix : home[s] = NoFile
    <3>1. [s \in Suffix |-> NoFile] \in [Suffix -> 0 .. inodes]
      BY DEF Init, NoFile
    <3> QED BY <3>1
  <2>2. HomesAre(home)
    BY <2>1 DEF HomesAre, Init, Suffix
  <2> QED BY <2>2 DEF Homes
<1>4. Excludes /\ LocksHeld /\ Calls
  BY DEF Init, Excludes, LocksHeld, Calls, Inside, Writing
<1>5. Relied /\ Whole
  BY <1>1 DEF Init, Relied, Whole, Absent, Partial
<1> QED BY <1>2, <1>3, <1>4, <1>5 DEF IInv

\* The invariant of the cache holds in every state.
THEOREM Invariance == Spec => []IInv
<1>1. Init => IInv
  BY InitIInv
<1>2. IInv /\ [Next]_vars => IInv'
  <2> SUFFICES ASSUME IInv, [Next]_vars PROVE IInv'
    OBVIOUS
  <2>1. CASE Next
    BY <2>1, OpenKeepsIInv, LockKeepsIInv, LocksAloneKeepIInv, CloseKeepsIInv, UnlinkKeepsIInv,
       CrashKeepsIInv DEF Next, Proceeds
  <2>2. CASE UNCHANGED vars
    <3>1. UNCHANGED <<entry, path, inodes, held, fd, pc, op, lock, read_locked, seen, torn>>
      BY <2>2 DEF vars, locks, call, ref, counts
    <3>2. Homes'
      BY <3>1, HomesKept DEF IInv
    <3>3. Types' /\ Excludes' /\ LocksHeld' /\ Calls'
      BY <3>1 DEF IInv, Types, Excludes, LocksHeld, Calls, Few, Has
    <3>4. Relied' /\ Whole'
      BY <3>1 DEF IInv, Relied, Whole, Few
    <3> QED BY <3>2, <3>3, <3>4 DEF IInv
  <2> QED BY <2>1, <2>2
<1> QED BY <1>1, <1>2, PTL DEF Spec

LEMMA SizeOfSuffix == Cardinality(Suffix) = 2
<1>1. IsFiniteSet({"lock"}) /\ Cardinality({"lock"}) = 1
  BY FS_Singleton
<1>2. Suffix = {"lock"} \cup {"entry_lock"} /\ "entry_lock" \notin {"lock"}
  BY DEF Suffix
<1> QED BY <1>1, <1>2, FS_AddElement

\* Until a lock file has been made again, the entry is, under a read lock, the one that
\* the operation found or put there (CacheReference.Exists, SetDefault).
THEOREM ReadersKeepTheirEntry == Spec => []ReadLockKeepsEntryAtFirst
<1>1. IInv => ReadLockKeepsEntryAtFirst
  BY SizeOfSuffix
  DEF IInv, Types, Relied, Few, ReadLockKeepsEntryAtFirst, ReadLockKeepsEntry, LocksWereRemade
<1> QED BY <1>1, Invariance, PTL

\* Until then nobody takes part of an entry for a whole one (EntryLock), but the part that
\* a move has left which raised or died, and only until it is replaced or removed.
THEOREM NoPartsAreSeen == Spec => []EntriesAreWhole
<1>1. IInv => EntriesAreWhole
  BY SizeOfSuffix DEF IInv, Types, Whole, Few, EntriesAreWhole, LocksWereRemade
<1> QED BY <1>1, Invariance, PTL

-----------------------------------------------------------------------------
(***************************************************************************)
(* DownloadCache, for any processes, any number of them killed: a file that *)
(* GetFileObject has seen in the cache is there when it opens it.           *)
(*                                                                          *)
(* What takes a file away needs one of the two locks for itself, a purge    *)
(* the cache's and a download the file's; who has seen the file shares both *)
(* until it is open.                                                        *)
(***************************************************************************)

Point == {"new", "setup", "idle", "purge", "get", "fetch", "look", "download",
          "wait", "exists", "open", "sleep"}

\* Where a process is in GetFileObject with the cache lock, and where with the file's.
Getting   == {"fetch", "look", "download", "wait", "exists", "open", "sleep"}
Fetching  == {"look", "download"}
Reading   == {"exists", "open", "sleep"}

Get(p)   == <<p, "get">>
Purge(p) == <<p, "purge">>

\* Every variable that the argument needs keeps its type.
LocksOK == /\ file \in DL!File /\ fetch_pc \in [Proc -> Point]
           /\ cache_lock \in [DL!Handle -> DL!Mode] /\ file_lock \in [Proc -> DL!Mode]

\* Who has a lock for itself has it alone.
CacheExcludes == \A h, k \in DL!Handle : cache_lock[h] = "EX" /\ k # h => cache_lock[k] = "none"
FileExcludes  == \A p, q \in Proc : file_lock[p] = "EX" /\ q # p => file_lock[q] = "none"

\* The locks a process has where it is.
CacheHeld == \A p \in Proc : /\ fetch_pc[p] \in {"setup", "purge"} => cache_lock[Purge(p)] = "EX"
                             /\ fetch_pc[p] \in Getting => cache_lock[Get(p)] = "SH"
FileHeld  == \A p \in Proc : /\ fetch_pc[p] \in Fetching => file_lock[p] = "EX"
                             /\ fetch_pc[p] \in Reading => file_lock[p] = "SH"

\* A download that is not cut off has its downloader.
SomebodyDownloads == file = "downloading" => \E p \in Proc : fetch_pc[p] = "download"

LocksInv == LocksOK /\ CacheExcludes /\ FileExcludes /\ CacheHeld /\ FileHeld

DownloadInv == LocksInv /\ SomebodyDownloads /\ DL!SeenIsThere

-----------------------------------------------------------------------------
(* A lock that is got, given back or changed.                               *)

\* Nobody keeps another from the lock for itself but with it.
LEMMA ModeIsFree ==
  ASSUME NEW S, NEW modes \in [S -> DL!Mode], NEW o \in S, NEW m \in DL!Mode,
         DL!Blockers(modes, o, m) = {}
  PROVE  \A x \in S \ {o} : /\ m = "EX" => modes[x] = "none"
                            /\ m = "SH" => modes[x] # "EX"
<1> SUFFICES ASSUME NEW x \in S \ {o}
             PROVE  (m = "EX" => modes[x] = "none") /\ (m = "SH" => modes[x] # "EX")
  OBVIOUS
<1>1. DL!Compatible(modes[x], m)
  BY DEF DL!Blockers
<1> QED BY <1>1 DEF DL!Compatible, DL!Mode

\* A lock that is free is got without breaking the exclusion, and any can be given back.
LEMMA CacheChanges ==
  ASSUME LocksOK, CacheExcludes, NEW h \in DL!Handle, NEW m \in DL!Mode, DL!SetCacheLock(h, m),
         m = "none" \/ DL!CacheLockIsFree(h, m)
  PROVE  CacheExcludes' /\ cache_lock' \in [DL!Handle -> DL!Mode]
<1>1. m # "none" => \A x \in DL!Handle \ {h} : /\ m = "EX" => cache_lock[x] = "none"
                                               /\ m = "SH" => cache_lock[x] # "EX"
  BY ModeIsFree DEF LocksOK, DL!CacheLockIsFree
<1>2. cache_lock' \in [DL!Handle -> DL!Mode]
  BY DEF LocksOK, DL!SetCacheLock
<1>3. CacheExcludes'
  BY <1>1 DEF LocksOK, CacheExcludes, DL!SetCacheLock, DL!Mode
<1> QED BY <1>2, <1>3

LEMMA FileChanges ==
  ASSUME LocksOK, FileExcludes, NEW p \in Proc, NEW m \in DL!Mode, DL!SetFileLock(p, m),
         m = "none" \/ DL!FileLockIsFree(p, m)
  PROVE  FileExcludes' /\ file_lock' \in [Proc -> DL!Mode]
<1>1. m # "none" => \A x \in Proc \ {p} : /\ m = "EX" => file_lock[x] = "none"
                                          /\ m = "SH" => file_lock[x] # "EX"
  BY ModeIsFree DEF LocksOK, DL!FileLockIsFree
<1>2. file_lock' \in [Proc -> DL!Mode]
  BY DEF LocksOK, DL!SetFileLock
<1>3. FileExcludes'
  BY <1>1 DEF LocksOK, FileExcludes, DL!SetFileLock, DL!Mode
<1> QED BY <1>2, <1>3

\* A process that gets a file leaves nobody a purge, its own included.
LEMMA NoPurgeWhileGetting ==
  ASSUME LocksInv, NEW p \in Proc, fetch_pc[p] \in Getting
  PROVE  \A q \in Proc : /\ fetch_pc[q] \notin {"setup", "purge"}
                         /\ ~DL!CacheLockIsFree(Purge(q), "EX")
<1> SUFFICES ASSUME NEW q \in Proc
             PROVE  fetch_pc[q] \notin {"setup", "purge"} /\ ~DL!CacheLockIsFree(Purge(q), "EX")
  OBVIOUS
<1>1. Get(p) \in DL!Handle /\ Purge(q) \in DL!Handle /\ Get(p) # Purge(q)
  BY DEF DL!Handle, Get, Purge
<1>2. cache_lock[Get(p)] = "SH"
  BY DEF LocksInv, CacheHeld
<1>3. cache_lock[Purge(q)] # "EX"
  BY <1>1, <1>2 DEF LocksInv, CacheExcludes
<1>4. ~DL!CacheLockIsFree(Purge(q), "EX")
  BY <1>1, <1>2, ModeIsFree DEF LocksInv, LocksOK, DL!CacheLockIsFree, DL!Mode
<1> QED BY <1>3, <1>4 DEF LocksInv, CacheHeld

\* Who reads a file leaves nobody to download it.
LEMMA NoFetchWhileReading ==
  ASSUME LocksInv, NEW p \in Proc, fetch_pc[p] \in Reading
  PROVE  \A q \in Proc : fetch_pc[q] \notin Fetching
<1>1. file_lock[p] = "SH"
  BY DEF LocksInv, FileHeld
<1>2. \A q \in Proc : file_lock[q] # "EX"
  BY <1>1 DEF LocksInv, FileExcludes
<1> QED BY <1>2 DEF LocksInv, FileHeld

-----------------------------------------------------------------------------
(* The locks, action by action.                                             *)

LEMMA InitDownloadInv == DL!Init => DownloadInv
<1> SUFFICES ASSUME DL!Init PROVE DownloadInv
  OBVIOUS
<1> USE DEF DL!Init
<1>1. LocksOK
  BY DEF LocksOK, Point, DL!Mode, DL!File
<1>2. CacheExcludes /\ FileExcludes
  BY DEF CacheExcludes, FileExcludes
<1>3. CacheHeld /\ FileHeld
  BY DEF CacheHeld, FileHeld, Getting, Fetching, Reading
<1>4. SomebodyDownloads /\ DL!SeenIsThere
  BY DEF SomebodyDownloads, DL!SeenIsThere
<1> QED BY <1>1, <1>2, <1>3, <1>4 DEF DownloadInv, LocksInv

\* A step that changes one handle of its process, and moves it to where it may be with that.
LEMMA CacheStep ==
  ASSUME LocksInv, NEW p \in Proc, NEW to \in Point, fetch_pc' = [fetch_pc EXCEPT ![p] = to],
         NEW h \in {Get(p), Purge(p)}, NEW m \in DL!Mode, DL!SetCacheLock(h, m),
         m = "none" \/ DL!CacheLockIsFree(h, m),
         to \in {"setup", "purge"} => h = Purge(p) /\ m = "EX",
         to \in Getting => h = Get(p) /\ m = "SH"
  PROVE  CacheExcludes' /\ CacheHeld' /\ cache_lock' \in [DL!Handle -> DL!Mode]
<1>1. h \in DL!Handle
  BY DEF DL!Handle, Get, Purge
<1>2. CacheExcludes' /\ cache_lock' \in [DL!Handle -> DL!Mode]
  BY <1>1, CacheChanges DEF LocksInv
<1>3. ASSUME NEW q \in Proc
      PROVE  /\ fetch_pc'[q] \in {"setup", "purge"} => cache_lock'[Purge(q)] = "EX"
             /\ fetch_pc'[q] \in Getting => cache_lock'[Get(q)] = "SH"
  <2>1. Get(q) \in DL!Handle /\ Purge(q) \in DL!Handle
    BY DEF DL!Handle, Get, Purge
  <2>2. CASE q = p
    BY <2>1, <2>2, <1>1 DEF LocksInv, LocksOK, DL!SetCacheLock
  <2>3. CASE q # p
    <3>1. Get(q) # h /\ Purge(q) # h
      BY <2>3 DEF Get, Purge
    <3> QED BY <2>1, <2>3, <3>1 DEF LocksInv, LocksOK, CacheHeld, DL!SetCacheLock
  <2> QED BY <2>2, <2>3
<1> QED BY <1>2, <1>3 DEF CacheHeld

\* A step that changes no handle, and moves its process to where it may be with those it has.
LEMMA CacheStays ==
  ASSUME LocksInv, NEW p \in Proc, NEW to \in Point, fetch_pc' = [fetch_pc EXCEPT ![p] = to],
         UNCHANGED cache_lock,
         to \notin {"setup", "purge"}, to \in Getting => fetch_pc[p] \in Getting
  PROVE  CacheExcludes' /\ CacheHeld' /\ cache_lock' \in [DL!Handle -> DL!Mode]
<1>1. CacheExcludes' /\ cache_lock' \in [DL!Handle -> DL!Mode]
  BY DEF LocksInv, LocksOK, CacheExcludes
<1>2. CacheHeld'
  BY DEF LocksInv, LocksOK, CacheHeld
<1> QED BY <1>1, <1>2

\* The same for the file's lock.
LEMMA FileStep ==
  ASSUME LocksInv, NEW p \in Proc, NEW to \in Point, fetch_pc' = [fetch_pc EXCEPT ![p] = to],
         NEW m \in DL!Mode, DL!SetFileLock(p, m), m = "none" \/ DL!FileLockIsFree(p, m),
         to \in Fetching => m = "EX", to \in Reading => m = "SH"
  PROVE  FileExcludes' /\ FileHeld' /\ file_lock' \in [Proc -> DL!Mode]
<1>1. FileExcludes' /\ file_lock' \in [Proc -> DL!Mode]
  BY FileChanges DEF LocksInv
<1>2. FileHeld'
  BY DEF LocksInv, LocksOK, FileHeld, DL!SetFileLock
<1> QED BY <1>1, <1>2

LEMMA FileStays ==
  ASSUME LocksInv, NEW p \in Proc, NEW to \in Point, fetch_pc' = [fetch_pc EXCEPT ![p] = to],
         UNCHANGED file_lock,
         to \in Fetching => fetch_pc[p] \in Fetching, to \in Reading => fetch_pc[p] \in Reading
  PROVE  FileExcludes' /\ FileHeld' /\ file_lock' \in [Proc -> DL!Mode]
<1>1. FileExcludes' /\ file_lock' \in [Proc -> DL!Mode]
  BY DEF LocksInv, LocksOK, FileExcludes
<1>2. FileHeld'
  BY DEF LocksInv, LocksOK, FileHeld
<1> QED BY <1>1, <1>2

\* An exception lets go of both locks.
LEMMA RaiseKeepsLocks ==
  ASSUME LocksInv, NEW p \in Proc, NEW why, DL!Raise(p, why), file' \in DL!File
  PROVE  LocksInv'
<1>1. CacheExcludes' /\ CacheHeld' /\ cache_lock' \in [DL!Handle -> DL!Mode]
  BY CacheStep DEF DL!Raise, Get, Point, Getting, DL!Mode
<1>2. FileExcludes' /\ FileHeld' /\ file_lock' \in [Proc -> DL!Mode]
  BY FileStep DEF DL!Raise, Point, Fetching, Reading, DL!Mode
<1>3. fetch_pc' \in [Proc -> Point]
  BY DEF DL!Raise, LocksInv, LocksOK, Point
<1> QED BY <1>1, <1>2, <1>3 DEF LocksInv, LocksOK

\* What becomes of the locks when the process p takes a step.
LEMMA ProceedsKeepsLocks ==
  ASSUME LocksInv, NEW p \in Proc, DL!Proceeds(p) \/ DL!PurgeBegins(p) \/ DL!GetBegins(p)
  PROVE  LocksInv'
<1> USE DEF DL!Goes
<1> DEFINE CacheOK == CacheExcludes' /\ CacheHeld' /\ cache_lock' \in [DL!Handle -> DL!Mode]
           FileOK  == FileExcludes' /\ FileHeld' /\ file_lock' \in [Proc -> DL!Mode]
           RestOK  == file' \in DL!File /\ fetch_pc' \in [Proc -> Point]
<1>0. LocksOK
  BY DEF LocksInv
<1>a. ASSUME CacheOK, FileOK, RestOK PROVE LocksInv'
  BY <1>a DEF LocksInv, LocksOK
<1>1. CASE DL!SetupBegins(p)
  <2>1. CASE DL!CacheLockIsFree(Purge(p), "EX")
    <3>1. CacheOK
      BY <1>1, <2>1, CacheStep DEF DL!SetupBegins, Purge, Point, Getting, DL!Mode
    <3>2. FileOK
      BY <1>1, <2>1, FileStays DEF DL!SetupBegins, Purge, Point, Fetching, Reading
    <3>3. RestOK
      BY <1>0, <1>1, <2>1 DEF DL!SetupBegins, Purge, LocksOK, Point
    <3> QED BY <1>a, <3>1, <3>2, <3>3
  <2>2. CASE ~DL!CacheLockIsFree(Purge(p), "EX")
    <3>1. CacheOK
      BY <1>1, <2>2, CacheStays DEF DL!SetupBegins, Purge, Point, Getting
    <3>2. FileOK
      BY <1>1, <2>2, FileStays DEF DL!SetupBegins, Purge, Point, Fetching, Reading
    <3>3. RestOK
      BY <1>0, <1>1, <2>2 DEF DL!SetupBegins, Purge, LocksOK, Point
    <3> QED BY <1>a, <3>1, <3>2, <3>3
  <2> QED BY <2>1, <2>2
<1>2. CASE DL!SetupEnds(p)
  <2>1. CacheOK
    BY <1>2, CacheStep DEF DL!SetupEnds, Purge, Point, Getting, DL!Mode
  <2>2. FileOK
    BY <1>2, FileStays DEF DL!SetupEnds, Point, Fetching, Reading
  <2>3. RestOK
    BY <1>0, <1>2 DEF DL!SetupEnds, LocksOK, Point
  <2> QED BY <1>a, <2>1, <2>2, <2>3
<1>3. CASE DL!PurgeBegins(p)
  <2>1. CASE DL!CacheLockIsFree(Purge(p), "EX")
    <3>1. CacheOK
      BY <1>3, <2>1, CacheStep DEF DL!PurgeBegins, Purge, Point, Getting, DL!Mode
    <3>2. FileOK
      BY <1>3, <2>1, FileStays DEF DL!PurgeBegins, Purge, Point, Fetching, Reading
    <3>3. RestOK
      BY <1>0, <1>3, <2>1 DEF DL!PurgeBegins, Purge, LocksOK, Point
    <3> QED BY <1>a, <3>1, <3>2, <3>3
  <2>2. CASE ~DL!CacheLockIsFree(Purge(p), "EX")
    <3>1. CacheOK
      BY <1>3, <2>2, CacheStays DEF DL!PurgeBegins, Purge, Point, Getting
    <3>2. FileOK
      BY <1>3, <2>2, FileStays DEF DL!PurgeBegins, Purge, Point, Fetching, Reading
    <3>3. RestOK
      BY <1>0, <1>3, <2>2 DEF DL!PurgeBegins, Purge, LocksOK, Point
    <3> QED BY <1>a, <3>1, <3>2, <3>3
  <2> QED BY <2>1, <2>2
<1>4. CASE DL!PurgeEnds(p)
  <2>1. Get(p) \in DL!Handle /\ Purge(p) \in DL!Handle /\ Get(p) # Purge(p)
    BY DEF DL!Handle, Get, Purge
  <2>2. cache_lock[Get(p)] = "none"
    BY <1>4, <2>1 DEF DL!PurgeEnds, LocksInv, CacheHeld, CacheExcludes
  <2>3. fetch_pc' = [fetch_pc EXCEPT ![p] = "new"]
    BY <1>4, <2>2 DEF DL!PurgeEnds, Get
  <2>4. CacheOK
    BY <1>4, <2>3, CacheStep DEF DL!PurgeEnds, Purge, Point, Getting, DL!Mode
  <2>5. FileOK
    BY <1>4, <2>3, FileStays DEF DL!PurgeEnds, Point, Fetching, Reading
  <2>6. RestOK
    BY <1>0, <1>4, <2>3 DEF DL!PurgeEnds, LocksOK, Point, DL!File
  <2> QED BY <1>a, <2>4, <2>5, <2>6
<1>5. CASE DL!GetBegins(p)
  <2>1. CacheOK
    BY <1>5, CacheStays DEF DL!GetBegins, DL!locks, Point, Getting
  <2>2. FileOK
    BY <1>5, FileStays DEF DL!GetBegins, DL!locks, Point, Fetching, Reading
  <2>3. RestOK
    BY <1>0, <1>5 DEF DL!GetBegins, LocksOK, Point
  <2> QED BY <1>a, <2>1, <2>2, <2>3
<1>6. CASE DL!PurgeLock(p)
  <2>1. CacheOK
    BY <1>6, CacheStep DEF DL!PurgeLock, Get, Point, Getting, DL!Mode
  <2>2. FileOK
    BY <1>6, FileStays DEF DL!PurgeLock, Point, Fetching, Reading
  <2>3. RestOK
    BY <1>0, <1>6 DEF DL!PurgeLock, LocksOK, Point
  <2> QED BY <1>a, <2>1, <2>2, <2>3
<1>7. CASE DL!FetchBegins(p)
  <2>1. CacheOK
    BY <1>7, CacheStays DEF DL!FetchBegins, Point, Getting
  <2>2. FileOK
    <3>1. CASE DL!FileLockIsFree(p, "EX")
      BY <1>7, <3>1, FileStep DEF DL!FetchBegins, Point, Fetching, Reading, DL!Mode
    <3>2. CASE ~DL!FileLockIsFree(p, "EX")
      BY <1>7, <3>2, FileStays DEF DL!FetchBegins, Point, Fetching, Reading
    <3> QED BY <3>1, <3>2
  <2>3. RestOK
    BY <1>0, <1>7 DEF DL!FetchBegins, LocksOK, Point
  <2> QED BY <1>a, <2>1, <2>2, <2>3
<1>8. CASE DL!Look(p)
  <2>1. CacheOK
    BY <1>8, CacheStays DEF DL!Look, Point, Getting
  <2>2. FileOK
    <3>1. CASE file = "absent"
      BY <1>8, <3>1, FileStays DEF DL!Look, Point, Fetching, Reading
    <3>2. CASE file # "absent"
      BY <1>8, <3>2, FileStep DEF DL!Look, Point, Fetching, Reading, DL!Mode
    <3> QED BY <3>1, <3>2
  <2>3. RestOK
    BY <1>0, <1>8 DEF DL!Look, LocksOK, Point, DL!File
  <2> QED BY <1>a, <2>1, <2>2, <2>3
<1>9. CASE DL!DownloadWorks(p)
  <2>1. ~DL!CacheLockIsFree(<<p, "purge">>, "EX")
    BY <1>9, NoPurgeWhileGetting DEF DL!DownloadWorks, Getting, Purge
  <2>2. fetch_pc' = [fetch_pc EXCEPT ![p] = "wait"] /\ fetch_pc[p] = "download"
    BY <1>9, <2>1 DEF DL!DownloadWorks
  <2>3. CacheOK
    BY <1>9, <2>2, CacheStays DEF DL!DownloadWorks, Point, Getting
  <2>4. FileOK
    BY <1>9, <2>2, FileStep DEF DL!DownloadWorks, Point, Fetching, Reading, DL!Mode
  <2>5. RestOK
    BY <1>0, <1>9, <2>2 DEF DL!DownloadWorks, LocksOK, Point, DL!File
  <2> QED BY <1>a, <2>3, <2>4, <2>5
<1>10. CASE DL!FileLock(p)
  <2>1. CacheOK
    BY <1>10, CacheStays DEF DL!FileLock, Point, Getting
  <2>2. FileOK
    BY <1>10, FileStep DEF DL!FileLock, Point, Fetching, Reading, DL!Mode
  <2>3. RestOK
    BY <1>0, <1>10 DEF DL!FileLock, LocksOK, Point
  <2> QED BY <1>a, <2>1, <2>2, <2>3
<1>11. CASE DL!Exists(p)
  <2>1. CacheOK
    BY <1>11, CacheStays DEF DL!Exists, DL!locks, Point, Getting
  <2>2. FileOK
    BY <1>11, FileStays DEF DL!Exists, DL!locks, Point, Fetching, Reading
  <2>3. RestOK
    BY <1>0, <1>11 DEF DL!Exists, LocksOK, Point
  <2> QED BY <1>a, <2>1, <2>2, <2>3
<1>12. CASE DL!Open(p)
  <2>1. CacheOK
    BY <1>12, CacheStep DEF DL!Open, Get, Point, Getting, DL!Mode
  <2>2. FileOK
    BY <1>12, FileStep DEF DL!Open, Point, Fetching, Reading, DL!Mode
  <2>3. RestOK
    BY <1>0, <1>12 DEF DL!Open, LocksOK, Point
  <2> QED BY <1>a, <2>1, <2>2, <2>3
<1>13. CASE DL!Wake(p)
  <2>1. CacheOK
    BY <1>13, CacheStep DEF DL!Wake, Get, Point, Getting, DL!Mode
  <2>2. FileOK
    BY <1>13, FileStep DEF DL!Wake, Point, Fetching, Reading, DL!Mode
  <2>3. RestOK
    BY <1>0, <1>13 DEF DL!Wake, LocksOK, Point
  <2> QED BY <1>a, <2>1, <2>2, <2>3
<1>14. CASE DL!NoLockDir(p) \/ DL!DownloadFails(p) \/ DL!RetriesExhausted(p)
  BY <1>0, <1>14, RaiseKeepsLocks
     DEF DL!NoLockDir, DL!DownloadFails, DL!RetriesExhausted, LocksOK, DL!File
<1> QED BY <1>1, <1>2, <1>3, <1>4, <1>5, <1>6, <1>7, <1>8, <1>9, <1>10, <1>11, <1>12, <1>13, <1>14
        DEF DL!Proceeds

\* A process that is killed has no lock left.
LEMMA CrashKeepsLocks ==
  ASSUME LocksInv, NEW p \in Proc, DL!Crash(p)
  PROVE  LocksInv'
<1>1. FileExcludes' /\ FileHeld' /\ file_lock' \in [Proc -> DL!Mode]
  BY FileStep DEF DL!Crash, Point, Fetching, Reading, DL!Mode
<1>2. LocksOK'
  BY <1>1 DEF DL!Crash, LocksInv, LocksOK, Point, DL!File, DL!Mode
<1>3. CacheExcludes'
  BY DEF DL!Crash, LocksInv, LocksOK, CacheExcludes
<1>4. CacheHeld'
  <2> SUFFICES ASSUME NEW q \in Proc
               PROVE  /\ fetch_pc'[q] \in {"setup", "purge"} => cache_lock'[Purge(q)] = "EX"
                      /\ fetch_pc'[q] \in Getting => cache_lock'[Get(q)] = "SH"
    BY DEF CacheHeld
  <2>1. CASE q = p
    BY <2>1 DEF DL!Crash, LocksInv, LocksOK, Getting
  <2>2. CASE q # p
    <3>1. /\ Get(q) \in DL!Handle /\ Get(q)[1] # p
          /\ Purge(q) \in DL!Handle /\ Purge(q)[1] # p
      BY <2>2 DEF DL!Handle, Get, Purge
    <3> QED BY <2>2, <3>1 DEF DL!Crash, LocksInv, LocksOK, CacheHeld
  <2> QED BY <2>1, <2>2
<1> QED BY <1>1, <1>2, <1>3, <1>4 DEF LocksInv

-----------------------------------------------------------------------------
(* The file, action by action.                                              *)

FileInv == SomebodyDownloads /\ DL!SeenIsThere

\* A step that leaves the file alone, and takes nobody out of a download or to the file.
LEMMA FileIsLeft ==
  ASSUME DownloadInv, NEW p \in Proc, NEW to \in Point, fetch_pc' = [fetch_pc EXCEPT ![p] = to],
         UNCHANGED file, fetch_pc[p] # "download", to # "open"
  PROVE  FileInv'
<1>1. SomebodyDownloads'
  <2> SUFFICES ASSUME file = "downloading" PROVE \E q \in Proc : fetch_pc'[q] = "download"
    BY DEF SomebodyDownloads
  <2>1. PICK q \in Proc : fetch_pc[q] = "download"
    BY DEF DownloadInv, SomebodyDownloads
  <2> QED BY <2>1 DEF DownloadInv, LocksInv, LocksOK
<1>2. DL!SeenIsThere'
  BY DEF DownloadInv, LocksInv, LocksOK, DL!SeenIsThere
<1> QED BY <1>1, <1>2 DEF FileInv

\* The step of a process that no other reads beside: it may do what it likes to the file.
LEMMA NobodyReads ==
  ASSUME DownloadInv, NEW p \in Proc, NEW to \in Point, fetch_pc' = [fetch_pc EXCEPT ![p] = to],
         \A q \in Proc : fetch_pc[q] # "open", to # "open",
         file' = "downloading" => to = "download"
  PROVE  FileInv'
<1>1. SomebodyDownloads'
  BY DEF DownloadInv, LocksInv, LocksOK, SomebodyDownloads
<1>2. DL!SeenIsThere'
  BY DEF DownloadInv, LocksInv, LocksOK, DL!SeenIsThere
<1> QED BY <1>1, <1>2 DEF FileInv

\* What becomes of the file when the process p takes a step.
LEMMA ProceedsKeepsFile ==
  ASSUME DownloadInv, NEW p \in Proc, DL!Proceeds(p) \/ DL!PurgeBegins(p) \/ DL!GetBegins(p)
  PROVE  FileInv'
<1> USE DEF DL!Goes
<1>0. LocksInv
  BY DEF DownloadInv
<1>1. CASE \/ DL!SetupBegins(p) \/ DL!SetupEnds(p) \/ DL!PurgeBegins(p) \/ DL!GetBegins(p)
           \/ DL!PurgeLock(p) \/ DL!FetchBegins(p) \/ DL!FileLock(p) \/ DL!Wake(p)
  BY <1>1, FileIsLeft DEF DL!SetupBegins, DL!SetupEnds, DL!PurgeBegins, DL!GetBegins, DL!PurgeLock,
     DL!FetchBegins, DL!FileLock, DL!Wake, Point
<1>2. CASE DL!NoLockDir(p) \/ DL!RetriesExhausted(p) \/ DL!Open(p)
  BY <1>2, FileIsLeft DEF DL!NoLockDir, DL!RetriesExhausted, DL!Open, DL!Raise, Point
<1>3. CASE DL!PurgeEnds(p)
  <2>1. fetch_pc[p] = "purge" /\ \A q \in Proc : fetch_pc[q] # "open"
    BY <1>0, <1>3, NoPurgeWhileGetting DEF DL!PurgeEnds, Getting
  <2>2. CASE file' = file
    BY <1>3, <2>1, <2>2, FileIsLeft DEF DL!PurgeEnds, Point
  <2>3. CASE file' = "absent"
    BY <1>3, <2>1, <2>3, NobodyReads DEF DL!PurgeEnds, Point
  <2> QED BY <1>3, <2>2, <2>3 DEF DL!PurgeEnds
<1>4. CASE DL!Look(p)
  <2>1. CASE file = "absent"
    <3>1. \A q \in Proc : fetch_pc[q] # "open"
      BY <1>0, <1>4, NoFetchWhileReading DEF DL!Look, Fetching, Reading
    <3> QED BY <1>4, <2>1, <3>1, NobodyReads DEF DL!Look, Point
  <2>2. CASE file # "absent"
    BY <1>4, <2>2, FileIsLeft DEF DL!Look, Point
  <2> QED BY <2>1, <2>2
<1>5. CASE DL!DownloadWorks(p)
  <2>1. \A q \in Proc : fetch_pc[q] # "open"
    BY <1>0, <1>5, NoFetchWhileReading DEF DL!DownloadWorks, Fetching, Reading
  <2> QED BY <1>5, <2>1, NobodyReads DEF DL!DownloadWorks, Point
<1>6. CASE DL!DownloadFails(p)
  <2>1. \A q \in Proc : fetch_pc[q] # "open"
    BY <1>0, <1>6, NoFetchWhileReading DEF DL!DownloadFails, Fetching, Reading
  <2> QED BY <1>6, <2>1, NobodyReads DEF DL!DownloadFails, DL!Raise, Point
<1>7. CASE DL!Exists(p)
  <2>1. CASE file = "absent"
    BY <1>7, <2>1, FileIsLeft DEF DL!Exists, Point
  <2>2. CASE file # "absent"
    <3>1. \A q \in Proc : fetch_pc[q] # "download"
      BY <1>0, <1>7, NoFetchWhileReading DEF DL!Exists, Fetching, Reading
    <3>2. file \in {"torn", "complete"}
      BY <1>0, <2>2, <3>1 DEF DownloadInv, LocksInv, LocksOK, DL!File, SomebodyDownloads
    <3> QED BY <1>7, <3>2 DEF DL!Exists, FileInv, SomebodyDownloads, DL!SeenIsThere
  <2> QED BY <2>1, <2>2
<1> QED BY <1>1, <1>2, <1>3, <1>4, <1>5, <1>6, <1>7 DEF DL!Proceeds

\* A download is cut off; whoever dies elsewhere leaves the file alone.
LEMMA CrashKeepsFile ==
  ASSUME DownloadInv, NEW p \in Proc, DL!Crash(p)
  PROVE  FileInv'
<1>1. CASE fetch_pc[p] = "download"
  <2>1. \A q \in Proc : fetch_pc[q] # "open"
    BY <1>1, NoFetchWhileReading DEF DownloadInv, Fetching, Reading
  <2> QED BY <1>1, <2>1, NobodyReads DEF DL!Crash, Point
<1>2. CASE fetch_pc[p] # "download"
  BY <1>2, FileIsLeft DEF DL!Crash, Point
<1> QED BY <1>1, <1>2

-----------------------------------------------------------------------------
(* The theorems.                                                            *)

LEMMA StepKeepsDownloadInv == DownloadInv /\ [DL!Next]_(DL!vars) => DownloadInv'
<1> SUFFICES ASSUME DownloadInv, [DL!Next]_(DL!vars) PROVE DownloadInv'
  OBVIOUS
<1>0. LocksInv
  BY DEF DownloadInv
<1>1. ASSUME NEW p \in Proc, DL!Proceeds(p) \/ DL!PurgeBegins(p) \/ DL!GetBegins(p)
      PROVE  DownloadInv'
  BY <1>0, <1>1, ProceedsKeepsLocks, ProceedsKeepsFile DEF DownloadInv, FileInv
<1>2. ASSUME NEW p \in Proc, DL!Crash(p) PROVE DownloadInv'
  BY <1>0, <1>2, CrashKeepsLocks, CrashKeepsFile DEF DownloadInv, FileInv
<1>3. CASE UNCHANGED DL!vars
  BY <1>3 DEF DL!vars, DL!locks, DownloadInv, LocksInv, LocksOK, CacheExcludes, FileExcludes,
     CacheHeld, FileHeld, SomebodyDownloads, DL!SeenIsThere
<1> QED BY <1>1, <1>2, <1>3 DEF DL!Next

\* The two locks exclude what they should, and a download has its downloader.
THEOREM DownloadInvariance == DL!Spec => []DownloadInv
<1> QED BY InitDownloadInv, StepKeepsDownloadInv, PTL DEF DL!Spec

\* A file that GetFileObject has seen in the cache is there when it opens it, and nobody
\* is at writing it, whatever the other processes purge, download and leave behind.
THEOREM SeenStays == DL!Spec => []DL!SeenIsThere
<1>1. DownloadInv => DL!SeenIsThere
  BY DEF DownloadInv
<1> QED BY <1>1, DownloadInvariance, PTL
=============================================================================
