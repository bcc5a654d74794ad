----------------------------- MODULE GSLockProofs -----------------------------
(***************************************************************************)
(* GSLock, for any number of lockers, of crashes and of failures of gsutil: *)
(* who has the lock and has not overrun its timeout has the file, and no    *)
(* two of them have it at once.                                             *)
(*                                                                          *)
(* The argument is about generations.  A command that replaces or removes   *)
(* the file must know its generation, and until a lock has been adopted     *)
(* only two know it: the owner of the file, and one that found it timed     *)
(* out, by which time its owner has lapsed.  A new generation is known to   *)
(* nobody else, as there are always more of them than lockers to know them. *)
(***************************************************************************)
EXTENDS GSLock, FiniteSetTheorems, TLAPS

-----------------------------------------------------------------------------
(* The inductive invariant.                                                 *)

\* The owner of a file that has timed out knows it: it has lapsed.
OwnersLapse == \A l \in Locker : Owns(l) /\ file.timedOut => lapsed[l]

\* The generation of the file is known to its owner, or it has timed out.
GenerationsAreKnown ==
  ~adopted /\ Exists =>
    \A l \in Locker : generation[l] = file.generation => Owns(l) \/ file.timedOut

IInv == TypeOK /\ OwnersLapse /\ GenerationsAreKnown /\ HolderHasTheFile

-----------------------------------------------------------------------------
(* Generations.                                                             *)

\* The lockers know no more generations than there are lockers.
LEMMA KnownAreFew ==
  ASSUME NEW f \in [Locker -> Nat]
  PROVE  LET known == {f[l] : l \in Locker}
         IN  IsFiniteSet(known) /\ Cardinality(known) <= Cardinality(Locker)
<1> DEFINE known == {f[l] : l \in Locker}
<1>1. f \in Surjection(Locker, known)
  BY DEF Surjection
<1>2. IsFiniteSet(Locker)
  BY GSLockAssumption
<1> HIDE DEF known
<1>3. IsFiniteSet(known) /\ Cardinality(known) <= Cardinality(Locker)
  BY <1>1, <1>2, FS_Surjection
<1> QED BY <1>3 DEF known

\* There is always a new one.
LEMMA FreshFacts ==
  ASSUME TypeOK
  PROVE  /\ Fresh \in Generation /\ Fresh \notin InUse
         /\ Fresh # 0
         /\ \A l \in Locker : Fresh # generation[l]
<1> DEFINE known == {generation[l] : l \in Locker}
           current == IF Exists THEN {file.generation} ELSE {}
<1>1. IsFiniteSet(Locker) /\ Cardinality(Locker) \in Nat
  BY GSLockAssumption, FS_CardinalityType
<1>2. /\ IsFiniteSet(known) /\ Cardinality(known) <= Cardinality(Locker)
      /\ Cardinality(known) \in Nat
  <2>1. generation \in [Locker -> Nat]
    BY <1>1 DEF TypeOK, Generation
  <2> QED BY <2>1, KnownAreFew, FS_CardinalityType
<1>3. IsFiniteSet(InUse) /\ Cardinality(InUse) <= Cardinality(Locker) + 1
  <2>1. CASE Exists
    <3>1. InUse = known \cup {file.generation}
      BY <2>1 DEF InUse
    <3> HIDE DEF known
    <3>2. IsFiniteSet(InUse) /\ Cardinality(InUse) \in {Cardinality(known), Cardinality(known) + 1}
      BY <1>2, <3>1, FS_AddElement
    <3> QED BY <1>1, <1>2, <3>2
  <2>2. CASE ~Exists
    <3>1. InUse = known
      BY <2>2 DEF InUse
    <3> HIDE DEF known
    <3> QED BY <1>1, <1>2, <3>1
  <2> QED BY <2>1, <2>2
<1>4. Cardinality(Generation) = Cardinality(Locker) + 2
  BY <1>1, FS_Interval DEF Generation
<1>5. ~(Generation \subseteq InUse)
  BY <1>1, <1>3, <1>4, FS_Subset, FS_CardinalityType
<1>6. Fresh \in Generation /\ Fresh \notin InUse
  BY <1>5 DEF Fresh
<1> QED BY <1>1, <1>6 DEF Generation, InUse

-----------------------------------------------------------------------------
(* The steps that change the file.                                          *)

\* Nobody can take the file from a holder that has not lapsed.
LEMMA HoldersAreSafe ==
  ASSUME IInv, NEW l \in Locker, NEW k \in Locker, k # l, ~Exists \/ Matches(generation[l])
  PROVE  ~(Holds(k) /\ ~lapsed[k] /\ ~adopted)
<1> SUFFICES ASSUME Holds(k), ~lapsed[k], ~adopted PROVE FALSE
  OBVIOUS
<1>1. Owns(k) /\ Exists /\ file.contents = k
  BY DEF IInv, HolderHasTheFile, Owns
<1>2. ~file.timedOut /\ ~Owns(l)
  BY <1>1 DEF IInv, OwnersLapse, Owns
<1>3. generation[l] = file.generation
  BY <1>1 DEF Matches
<1> QED BY <1>1, <1>2, <1>3 DEF IInv, GenerationsAreKnown

\* A file that was written.
LEMMA WrittenFacts ==
  ASSUME TypeOK, NEW l \in Locker, Written(l)
  PROVE  /\ Exists' /\ file'.contents = l /\ file'.generation = Fresh /\ ~file'.timedOut
         /\ \A k \in Locker : Owns(k)' <=> k = l
         /\ file' \in [contents : Locker \cup {Gone}, generation : Generation, timedOut : BOOLEAN]
<1>1. Fresh \in Generation /\ Fresh \in Nat
  BY FreshFacts DEF Generation
<1>2. file' = [contents |-> l, generation |-> Fresh, timedOut |-> FALSE]
  BY DEF Written
<1>3. file' \in [contents : Locker \cup {Gone}, generation : Nat, timedOut : BOOLEAN]
  BY <1>1, <1>2
<1>4. Exists'
  BY <1>3, GSLockAssumption DEF Exists
<1> QED BY <1>1, <1>2, <1>4 DEF Owns

LEMMA NoFileOwnsNothing == file' = NoFile => ~Exists' /\ \A k \in Locker : ~Owns(k)'
BY DEF Exists, Owns

\* The steps of one locker change nothing of another but the file.
LEMMA StepsTypeOK ==
  ASSUME TypeOK, NEW l \in Locker, Works(l) \/ Fails(l)
  PROVE  TypeOK'
<1> DEFINE File == {NoFile} \cup [contents : Locker \cup {Gone}, generation : Generation,
                                  timedOut : BOOLEAN]
<1>1. Fresh \in Generation \cup {0} /\ (Exists => file.generation \in Generation \cup {0})
  BY FreshFacts DEF TypeOK, Exists
<1>2. Written(l) => file' \in File
  BY WrittenFacts
<1> HIDE DEF File
<1>3. file \in File
  BY DEF TypeOK, File
<1>4. NoFile \in File
  BY DEF File
<1>5. /\ generation \in [Locker -> Generation \cup {0}]
      /\ pc \in [Locker -> {"idle", "copy", "cat", "stat", "probe", "steal", "remove", "probeRemoved"}]
      /\ block \in [Locker -> {"out", "in", "lost"}]
      /\ lapsed \in [Locker -> BOOLEAN]
      /\ adopted \in BOOLEAN /\ crashes \in 0 .. MaxCrashes /\ outage \in BOOLEAN
      /\ 0 \in Generation \cup {0}
  BY DEF TypeOK
<1>6. SUFFICES
        /\ file' \in File
        /\ generation' \in [Locker -> Generation \cup {0}]
        /\ pc' \in [Locker -> {"idle", "copy", "cat", "stat", "probe", "steal", "remove", "probeRemoved"}]
        /\ block' \in [Locker -> {"out", "in", "lost"}]
        /\ lapsed' \in [Locker -> BOOLEAN]
        /\ adopted' \in BOOLEAN /\ crashes' \in 0 .. MaxCrashes /\ outage' \in BOOLEAN
  BY DEF TypeOK, File
<1> USE DEF Goes, SetGeneration, SetBlock, Acquired, NotAcquired
<1>7. CASE Acquire(l) \/ Renew(l) \/ CatOwn(l) \/ CatOther(l) \/ StatFindsNothing(l) \/ Release(l)
  BY <1>3, <1>5, <1>7 DEF Acquire, Renew, CatOwn, CatOther, StatFindsNothing, Release, Owns, TypeOK
<1>8. CASE CopyWorks(l) \/ CopyLost(l) \/ CopyUnparsed(l)
  BY <1>1, <1>2, <1>3, <1>5, <1>8 DEF CopyWorks, CopyLost, CopyUnparsed
<1>9. CASE CopyConflicts(l) \/ StatWorks(l) \/ ProbeExpired(l) \/ ProbeValid(l)
  BY <1>1, <1>3, <1>5, <1>9 DEF CopyConflicts, StatWorks, ProbeExpired, ProbeValid, LockExpired
<1>10. CASE RemoveWorks(l) \/ RemoveLost(l) \/ RemoveConflicts(l) \/ RemoveConflictIgnored(l)
  BY <1>3, <1>4, <1>5, <1>10
  DEF RemoveWorks, RemoveLost, RemoveConflicts, RemoveConflictIgnored, Released
<1>11. CASE CommandFails(l)
  BY <1>3, <1>5, <1>11 DEF CommandFails
<1> QED BY <1>7, <1>8, <1>9, <1>10, <1>11 DEF Works, Fails

\* Steps of l that leave the file alone: what is to be shown is about l only.
LEMMA FileAlone ==
  ASSUME IInv, NEW l \in Locker, UNCHANGED file, adopted => adopted',
         \A k \in Locker : k # l => UNCHANGED <<generation[k], pc[k], block[k], lapsed[k]>>,
         Owns(l) /\ file.timedOut => lapsed'[l],
         ~adopted' /\ Exists /\ generation'[l] = file.generation => Owns(l) \/ file.timedOut,
         Holds(l)' /\ ~lapsed'[l] /\ ~adopted' =>
           Owns(l) /\ (pc'[l] = "idle" => file.generation = generation'[l])
  PROVE  OwnersLapse' /\ GenerationsAreKnown' /\ HolderHasTheFile'
<1>1. (Exists' <=> Exists) /\ \A k \in Locker : Owns(k)' <=> Owns(k)
  BY DEF Exists, Owns
<1>2. OwnersLapse'
  BY <1>1 DEF IInv, OwnersLapse
<1>3. GenerationsAreKnown'
  BY <1>1 DEF IInv, GenerationsAreKnown
<1>4. \A k \in Locker : k # l => (Holds(k)' <=> Holds(k))
  BY DEF Holds
<1>5. HolderHasTheFile'
  BY <1>1, <1>4 DEF IInv, HolderHasTheFile
<1> QED BY <1>2, <1>3, <1>5

\* Steps of l that write the file.
LEMMA FileWritten ==
  ASSUME IInv, NEW l \in Locker, Written(l), UNCHANGED adopted,
         \A k \in Locker : k # l => UNCHANGED <<generation[k], pc[k], block[k], lapsed[k]>>,
         pc'[l] = "idle" /\ block'[l] = "in" => generation'[l] = Fresh
  PROVE  OwnersLapse' /\ GenerationsAreKnown' /\ HolderHasTheFile'
<1>1. /\ Exists' /\ file'.generation = Fresh /\ ~file'.timedOut
      /\ \A k \in Locker : Owns(k)' <=> k = l
  BY WrittenFacts DEF IInv
<1>2. OwnersLapse'
  BY <1>1 DEF OwnersLapse
<1>3. GenerationsAreKnown'
  <2>1. \A k \in Locker : k # l => generation'[k] # Fresh
    BY FreshFacts DEF IInv
  <2> QED BY <1>1, <2>1 DEF GenerationsAreKnown
<1>4. HolderHasTheFile'
  <2>1. \A k \in Locker : k # l => ~(Holds(k)' /\ ~lapsed'[k] /\ ~adopted')
    BY HoldersAreSafe DEF Written, Holds
  <2> QED BY <1>1, <2>1 DEF HolderHasTheFile, Holds
<1> QED BY <1>2, <1>3, <1>4

\* Steps of l that remove it.
LEMMA FileRemoved ==
  ASSUME IInv, NEW l \in Locker, file' = NoFile, ~Exists \/ Matches(generation[l]),
         UNCHANGED adopted, ~Holds(l)',
         \A k \in Locker : k # l => UNCHANGED <<generation[k], pc[k], block[k], lapsed[k]>>
  PROVE  OwnersLapse' /\ GenerationsAreKnown' /\ HolderHasTheFile'
<1>1. ~Exists' /\ \A k \in Locker : ~Owns(k)'
  BY NoFileOwnsNothing
<1>2. \A k \in Locker : k # l => ~(Holds(k)' /\ ~lapsed'[k] /\ ~adopted')
  BY HoldersAreSafe DEF Holds
<1> QED BY <1>1, <1>2 DEF OwnersLapse, GenerationsAreKnown, HolderHasTheFile

LEMMA CopyKeepsIInv ==
  ASSUME IInv, NEW l \in Locker, CopyWorks(l) \/ CopyLost(l) \/ CopyUnparsed(l) \/ CopyConflicts(l)
  PROVE  OwnersLapse' /\ GenerationsAreKnown' /\ HolderHasTheFile'
<1> USE DEF IInv, TypeOK, Goes, SetGeneration, SetBlock, Acquired, NotAcquired
<1>1. CASE CopyWorks(l)
  <2> HIDE DEF IInv
  <2>1. /\ Written(l) /\ UNCHANGED adopted /\ generation'[l] = Fresh
        /\ \A k \in Locker : k # l => UNCHANGED <<generation[k], pc[k], block[k], lapsed[k]>>
    BY <1>1 DEF CopyWorks, IInv
  <2> QED BY <2>1, FileWritten
<1>2. CASE CopyLost(l)
  <2>1. /\ Written(l) /\ UNCHANGED <<adopted, generation, pc, block, lapsed>> /\ pc[l] # "idle"
    BY <1>2 DEF CopyLost
  <2> HIDE DEF IInv
  <2> QED BY <2>1, FileWritten
<1>3. CASE CopyUnparsed(l)
  <2>1. /\ Written(l) \/ UNCHANGED file
        /\ UNCHANGED <<adopted, lapsed>> /\ generation'[l] = 0 /\ block'[l] # "in" /\ ~Holds(l)'
        /\ \A k \in Locker : k # l => UNCHANGED <<generation[k], pc[k], block[k], lapsed[k]>>
    BY <1>3 DEF CopyUnparsed, Holds
  <2>2. CASE Written(l)
    <3> HIDE DEF IInv
    <3> QED BY <2>1, <2>2, FileWritten
  <2>3. CASE UNCHANGED file
    <3>1. Exists => file.generation # 0
      BY DEF Exists, Generation
    <3>2. Owns(l) /\ file.timedOut => lapsed'[l]
      BY <2>1 DEF OwnersLapse
    <3> HIDE DEF IInv
    <3> QED BY <2>1, <2>3, <3>1, <3>2, FileAlone
  <2> QED BY <2>1, <2>2, <2>3
<1>4. CASE CopyConflicts(l)
  <2>1. /\ UNCHANGED <<file, adopted, lapsed>> /\ generation'[l] = 0
        /\ \A k \in Locker : k # l => UNCHANGED <<generation[k], pc[k], block[k], lapsed[k]>>
        /\ pc[l] \in {"copy", "steal"}
        /\ pc[l] = "steal" => block'[l] # "in"
        /\ pc[l] = "copy" => pc'[l] # "idle" /\ UNCHANGED block
    BY <1>4 DEF CopyConflicts
  <2>2. Exists => file.generation # 0
    BY DEF Exists, Generation
  <2>3. Owns(l) /\ file.timedOut => lapsed'[l]
    BY <2>1 DEF OwnersLapse
  <2>4. Holds(l)' => Holds(l) /\ pc'[l] # "idle"
    BY <2>1 DEF Holds
  <2>5. Holds(l)' /\ ~lapsed'[l] /\ ~adopted' => Owns(l)
    BY <2>1, <2>4 DEF HolderHasTheFile
  <2> HIDE DEF IInv
  <2> QED BY <2>1, <2>2, <2>3, <2>4, <2>5, FileAlone
<1> QED BY <1>1, <1>2, <1>3, <1>4

LEMMA QueryKeepsIInv ==
  ASSUME IInv, NEW l \in Locker,
         \/ CatOwn(l) \/ CatOther(l) \/ StatWorks(l) \/ StatFindsNothing(l)
         \/ ProbeExpired(l) \/ ProbeValid(l)
  PROVE  OwnersLapse' /\ GenerationsAreKnown' /\ HolderHasTheFile'
<1> USE DEF TypeOK, Goes, SetGeneration, SetBlock, Acquired, NotAcquired
<1>1. Owns(l) /\ file.timedOut => lapsed[l]
  BY DEF IInv, OwnersLapse
<1>2. ~adopted /\ Exists /\ generation[l] = file.generation => Owns(l) \/ file.timedOut
  BY DEF IInv, GenerationsAreKnown
<1>3. Holds(l) /\ ~lapsed[l] /\ ~adopted => Owns(l)
  BY DEF IInv, HolderHasTheFile
<1>4. CASE CatOwn(l) \/ CatOther(l) \/ StatFindsNothing(l)
  <2>1. /\ UNCHANGED <<file, generation, block, adopted, lapsed>>
        /\ \A k \in Locker : k # l => UNCHANGED pc[k]
        /\ pc[l] \in {"cat", "stat"} /\ pc'[l] \in {"stat", "probe"}
    BY <1>4 DEF CatOwn, CatOther, StatFindsNothing, IInv
  <2>2. Holds(l)' => Holds(l)
    BY <2>1 DEF Holds
  <2> QED BY <1>1, <1>2, <1>3, <2>1, <2>2, FileAlone
<1>5. CASE StatWorks(l)
  <2>1. /\ UNCHANGED <<file, lapsed>> /\ adopted' = (adopted \/ ~Owns(l))
        /\ generation'[l] = file.generation
        /\ \A k \in Locker : k # l => UNCHANGED <<generation[k], pc[k], block[k]>>
    BY <1>5 DEF StatWorks, IInv
  <2> QED BY <1>1, <2>1, FileAlone
<1>6. CASE ProbeExpired(l)
  <2>1. /\ UNCHANGED <<file, lapsed, block, adopted>> /\ generation'[l] = file.generation
        /\ file.timedOut
        /\ \A k \in Locker : k # l => UNCHANGED <<generation[k], pc[k]>>
        /\ pc[l] = "probe" /\ pc'[l] = "steal"
    BY <1>6 DEF ProbeExpired, LockExpired, IInv
  <2>2. Holds(l)' => Holds(l)
    BY <2>1 DEF Holds
  <2> QED BY <1>1, <1>3, <2>1, <2>2, FileAlone
<1>7. CASE ProbeValid(l)
  <2>1. /\ UNCHANGED <<file, lapsed, generation, adopted>>
        /\ \A k \in Locker : k # l => UNCHANGED <<block[k], pc[k]>>
        /\ block'[l] # "in"
    BY <1>7 DEF ProbeValid, IInv
  <2>2. ~Holds(l)'
    BY <2>1 DEF Holds
  <2> QED BY <1>1, <1>2, <2>1, <2>2, FileAlone
<1> QED BY <1>4, <1>5, <1>6, <1>7

LEMMA ReleaseKeepsIInv ==
  ASSUME IInv, NEW l \in Locker,
         \/ Acquire(l) \/ Renew(l) \/ Release(l) \/ RemoveWorks(l) \/ RemoveLost(l)
         \/ RemoveConflicts(l) \/ RemoveConflictIgnored(l) \/ CommandFails(l)
  PROVE  OwnersLapse' /\ GenerationsAreKnown' /\ HolderHasTheFile'
<1> USE DEF TypeOK, Goes, SetGeneration, SetBlock, Released, NotAcquired
<1>1. Owns(l) /\ file.timedOut => lapsed[l]
  BY DEF IInv, OwnersLapse
<1>2. ~adopted /\ Exists /\ generation[l] = file.generation => Owns(l) \/ file.timedOut
  BY DEF IInv, GenerationsAreKnown
<1>3. Holds(l) /\ ~lapsed[l] /\ ~adopted => Owns(l)
  BY DEF IInv, HolderHasTheFile
<1>4. CASE Acquire(l)
  <2>1. /\ UNCHANGED <<file, generation, block, adopted>>
        /\ \A k \in Locker : k # l => UNCHANGED <<pc[k], lapsed[k]>>
        /\ lapsed'[l] = (Owns(l) /\ file.timedOut) /\ block[l] = "out"
    BY <1>4 DEF Acquire, IInv
  <2>2. ~Holds(l)'
    BY <2>1 DEF Holds
  <2> QED BY <1>2, <2>1, <2>2, FileAlone
<1>5. CASE Renew(l)
  <2>1. /\ UNCHANGED <<file, generation, block, lapsed, adopted>>
        /\ \A k \in Locker : k # l => UNCHANGED pc[k]
        /\ pc[l] = "idle" /\ pc'[l] = "copy"
    BY <1>5 DEF Renew, IInv
  <2>2. Holds(l)' => Holds(l)
    BY <2>1 DEF Holds
  <2> QED BY <1>1, <1>2, <1>3, <2>1, <2>2, FileAlone
<1>6. CASE Release(l) \/ RemoveConflicts(l)
  <2>1. /\ UNCHANGED <<file, generation, block, lapsed, adopted>>
        /\ \A k \in Locker : k # l => UNCHANGED pc[k]
        /\ pc'[l] \in {"remove", "probeRemoved"}
    BY <1>6 DEF Release, RemoveConflicts, IInv
  <2>2. ~Holds(l)'
    BY <2>1 DEF Holds
  <2> QED BY <1>1, <1>2, <2>1, <2>2, FileAlone
<1>7. CASE RemoveWorks(l) \/ RemoveLost(l)
  <2>1. /\ file' = NoFile /\ (~Exists \/ Matches(generation[l])) /\ UNCHANGED <<lapsed, adopted>>
        /\ \A k \in Locker : k # l => UNCHANGED <<generation[k], pc[k], block[k]>>
        /\ block'[l] = "out" \/ pc'[l] = "remove"
    BY <1>7 DEF RemoveWorks, RemoveLost, IInv
  <2>2. ~Holds(l)'
    BY <2>1 DEF Holds
  <2> QED BY <2>1, <2>2, FileRemoved
<1>8. CASE RemoveConflictIgnored(l)
  <2>1. /\ UNCHANGED <<file, lapsed, adopted>> /\ generation'[l] = 0 /\ block'[l] = "out"
        /\ \A k \in Locker : k # l => UNCHANGED <<generation[k], pc[k], block[k]>>
    BY <1>8 DEF RemoveConflictIgnored, IInv
  <2>2. ~Holds(l)' /\ (Exists => file.generation # 0)
    BY <2>1 DEF Holds, IInv, Exists, Generation
  <2> QED BY <1>1, <2>1, <2>2, FileAlone
<1>9. CASE CommandFails(l)
  <2>1. /\ UNCHANGED <<file, generation, lapsed, adopted>> /\ block'[l] # "in"
        /\ \A k \in Locker : k # l => UNCHANGED <<pc[k], block[k]>>
    BY <1>9 DEF CommandFails, IInv
  <2>2. ~Holds(l)'
    BY <2>1 DEF Holds
  <2> QED BY <1>1, <1>2, <2>1, <2>2, FileAlone
<1> QED BY <1>4, <1>5, <1>6, <1>7, <1>8, <1>9

-----------------------------------------------------------------------------
(* Time and crashes.                                                        *)

LEMMA TimeOutKeepsIInv ==
  ASSUME IInv, TimeOut
  PROVE  IInv'
<1>1. /\ Exists /\ file' = [file EXCEPT !.timedOut = TRUE]
      /\ lapsed' = [l \in Locker |-> lapsed[l] \/ Owns(l)]
      /\ UNCHANGED <<generation, pc, block, adopted, crashes, outage>>
  BY DEF TimeOut
<1>2. /\ file \in [contents : Locker \cup {Gone}, generation : Generation, timedOut : BOOLEAN]
      /\ TypeOK
  BY <1>1 DEF IInv, TypeOK, Exists
<1>3. /\ file' \in [contents : Locker \cup {Gone}, generation : Generation, timedOut : BOOLEAN]
      /\ file'.contents = file.contents /\ file'.generation = file.generation /\ file'.timedOut
  BY <1>1, <1>2
<1>4. Generation \subseteq Nat
  BY DEF Generation
<1>5. Exists' /\ \A l \in Locker : Owns(l)' <=> Owns(l)
  BY <1>1, <1>3, <1>4, GSLockAssumption DEF Exists, Owns
<1>6. TypeOK'
  BY <1>1, <1>2, <1>3 DEF TypeOK
<1>7. OwnersLapse' /\ GenerationsAreKnown'
  BY <1>1, <1>3, <1>5 DEF OwnersLapse, GenerationsAreKnown
<1>8. HolderHasTheFile'
  BY <1>1, <1>3, <1>5 DEF IInv, HolderHasTheFile, Holds
<1> QED BY <1>6, <1>7, <1>8 DEF IInv

\* A locker that dies is out, and its file is nobody's.
LEMMA CrashKeepsIInv ==
  ASSUME IInv, NEW l \in Locker, Crash(l)
  PROVE  IInv'
<1> DEFINE File == [contents : Locker \cup {Gone}, generation : Generation, timedOut : BOOLEAN]
<1>1. /\ generation' = [generation EXCEPT ![l] = 0]
      /\ pc' = [pc EXCEPT ![l] = "idle"] /\ block' = [block EXCEPT ![l] = "out"]
      /\ lapsed' = [lapsed EXCEPT ![l] = FALSE]
      /\ UNCHANGED <<adopted, outage>>
      /\ crashes' \in 0 .. MaxCrashes
      /\ TypeOK
  BY GSLockAssumption DEF Crash, IInv, TypeOK
<1>2. CASE Owns(l)
  <2>1. file \in File /\ Exists /\ file.contents = l
    BY <1>1, <1>2 DEF TypeOK, Owns, Exists
  <2>2. /\ file' \in File /\ file'.contents = Gone
        /\ file'.generation = file.generation /\ file'.timedOut = file.timedOut
    BY <1>2, <2>1 DEF Crash
  <2>3. Exists'
    BY <2>2, GSLockAssumption DEF Exists, Generation
  <2>4. TypeOK'
    BY <1>1, <2>2 DEF TypeOK
  <2>5. \A k \in Locker : ~Owns(k)'
    BY <2>2, GSLockAssumption DEF Owns
  <2>6. GenerationsAreKnown'
    <3>1. \A k \in Locker : k # l => ~Owns(k)
      BY <2>1 DEF Owns
    <3>2. file.generation # 0
      BY <2>1 DEF Generation
    <3> QED BY <1>1, <2>1, <2>2, <3>1, <3>2 DEF IInv, GenerationsAreKnown, TypeOK
  <2>7. HolderHasTheFile'
    <3>1. \A k \in Locker : k # l => ~Owns(k)
      BY <2>1 DEF Owns
    <3> QED BY <1>1, <3>1 DEF IInv, HolderHasTheFile, Holds, TypeOK
  <2> QED BY <2>4, <2>5, <2>6, <2>7 DEF IInv, OwnersLapse
<1>3. CASE ~Owns(l)
  <2>1. UNCHANGED file
    BY <1>3 DEF Crash
  <2>2. TypeOK'
    BY <1>1, <2>1 DEF TypeOK
  <2>3. Exists => file.generation # 0
    BY <1>1 DEF TypeOK, Exists, Generation
  <2>4. ~Holds(l)' /\ generation'[l] = 0
    BY <1>1 DEF Holds, TypeOK
  <2>5. \A k \in Locker : k # l => UNCHANGED <<generation[k], pc[k], block[k], lapsed[k]>>
    BY <1>1 DEF TypeOK
  <2>6. OwnersLapse' /\ GenerationsAreKnown' /\ HolderHasTheFile'
    BY <1>1, <1>3, <2>1, <2>3, <2>4, <2>5, FileAlone
  <2> QED BY <2>2, <2>6 DEF IInv
<1> QED BY <1>2, <1>3

-----------------------------------------------------------------------------
(* The theorems.                                                            *)

\* The invariant of the locks holds in every state.
THEOREM Invariance == Spec => []IInv
<1>1. Init => IInv
  <2> SUFFICES ASSUME Init PROVE IInv
    OBVIOUS
  <2>1. TypeOK
    <3>1. /\ generation \in [Locker -> Generation \cup {0}]
          /\ block \in [Locker -> {"out", "in", "lost"}] /\ lapsed \in [Locker -> BOOLEAN]
      BY DEF Init
    <3>2. pc \in [Locker -> {"idle", "copy", "cat", "stat", "probe", "steal", "remove", "probeRemoved"}]
      BY DEF Init
    <3>3. adopted \in BOOLEAN /\ outage \in BOOLEAN
      BY DEF Init
    <3>4. crashes \in 0 .. MaxCrashes
      <4>1. crashes = 0 /\ MaxCrashes \in Nat
        BY GSLockAssumption DEF Init
      <4> QED BY <4>1
    <3> QED BY <3>1, <3>2, <3>3, <3>4 DEF Init, TypeOK
  <2>2. OwnersLapse /\ GenerationsAreKnown /\ HolderHasTheFile
    BY DEF Init, OwnersLapse, GenerationsAreKnown, HolderHasTheFile, Holds, Owns, Exists
  <2> QED BY <2>1, <2>2 DEF IInv
<1>2. IInv /\ [Next]_vars => IInv'
  <2> SUFFICES ASSUME IInv, [Next]_vars PROVE IInv'
    OBVIOUS
  <2>1. CASE \E l \in Locker : Works(l) \/ Fails(l)
    <3>1. PICK l \in Locker : Works(l) \/ Fails(l)
      BY <2>1
    <3>2. TypeOK'
      BY <3>1, StepsTypeOK DEF IInv
    <3>3. OwnersLapse' /\ GenerationsAreKnown' /\ HolderHasTheFile'
      BY <3>1, CopyKeepsIInv, QueryKeepsIInv, ReleaseKeepsIInv DEF Works, Fails
    <3> QED BY <3>2, <3>3 DEF IInv
  <2>2. CASE \E l \in Locker : Crash(l)
    BY <2>2, CrashKeepsIInv
  <2>3. CASE TimeOut
    BY <2>3, TimeOutKeepsIInv
  <2>4. CASE OutageEnds \/ UNCHANGED vars
    <3>1. UNCHANGED <<file, generation, pc, block, lapsed, adopted, crashes>> /\ outage' \in BOOLEAN
      BY <2>4 DEF OutageEnds, vars, IInv, TypeOK
    <3>2. TypeOK'
      BY <3>1 DEF IInv, TypeOK
    <3>3. OwnersLapse' /\ GenerationsAreKnown' /\ HolderHasTheFile'
      BY <3>1 DEF IInv, OwnersLapse, GenerationsAreKnown, HolderHasTheFile, Owns, Exists, Holds
    <3> QED BY <3>2, <3>3 DEF IInv
  <2> QED BY <2>1, <2>2, <2>3, <2>4 DEF Next
<1> QED BY <1>1, <1>2, PTL DEF Spec

\* A locker that has not overrun its timeout has the file, under the generation that
\* its Release asks for (_AcquireLock, Release).
THEOREM HoldersHaveTheFile == Spec => []HolderHasTheFile
<1>1. IInv => HolderHasTheFile
  BY DEF IInv
<1> QED BY <1>1, Invariance, PTL

\* "Locking is strictly atomic, except when timeouts are involved" (the class's comment):
\* a file has one owner, so of two holders one has overrun its timeout.
THEOREM Exclusion == Spec => []MutualExclusion
<1>1. IInv => MutualExclusion
  BY DEF IInv, HolderHasTheFile, MutualExclusion, Owns
<1> QED BY <1>1, Invariance, PTL
=============================================================================
