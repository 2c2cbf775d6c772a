----------------------- MODULE RemoteHttpResource_proofs -----------------------
(***************************************************************************)
(* Proofs about RemoteHttpResource, for any number of processes, resources,*)
(* files and URLs, and any bounds.                                         *)
(***************************************************************************)
EXTENDS RemoteHttpResource, FiniteSetTheorems, WellFoundedInduction, TLAPS

-----------------------------------------------------------------------------
(* The total size of a set of files is a number.                           *)
LEMMA TotalSizeNat ==
    ASSUME NEW F \in SUBSET Files
    PROVE  TotalSize(F) \in Nat
<1>1. IsFiniteSet(F)
  BY CacheAssumption, FS_Subset
<1>2. IsFiniteSet(1..MaxBytes)
  BY CacheAssumption, FS_Interval
<1>3. IsFiniteSet(F \X (1..MaxBytes))
  BY <1>1, <1>2, FS_Product
<1>4. IsFiniteSet(Stored(F))
  BY <1>3, FS_Subset DEF Stored
<1> QED
  BY <1>4, FS_CardinalityType DEF TotalSize

-----------------------------------------------------------------------------
(* A set of numbers has a least one.                                       *)
LEMMA LeastOf ==
    ASSUME NEW S \in SUBSET Nat, S # {}
    PROVE  \E x \in S : \A y \in S : x <= y
<1>1. PICK x \in S : \A y \in S : <<y, x>> \notin OpToRel(<, Nat)
  BY WFMin, NatLessThanWellFounded
<1>2. \A y \in S : ~(y < x)
  BY <1>1 DEF OpToRel
<1> QED
  BY <1>2

(* A purge is never stuck: whatever is in the cache and whoever has it     *)
(* locked, there are files, perhaps none, with which it may stop.          *)
THEOREM PurgeEnds == \A p \in Procs, keep \in Files : PurgeChoices(p, keep) # {}
<1> SUFFICES ASSUME NEW p \in Procs, NEW keep \in Files
             PROVE  PurgeChoices(p, keep) # {}
  OBVIOUS
<1>1. CASE ~CacheTooBig(TotalSize(Files))
  BY <1>1 DEF PurgeChoices
<1>2. CASE CacheTooBig(TotalSize(Files))
  <2> DEFINE candidates == Purgeable(p, keep)
             enough == {V \in SUBSET candidates : PurgeStops(V, candidates)}
             sizes == {Cardinality(V) : V \in enough}
  <2>1. candidates \in SUBSET Files /\ IsFiniteSet(candidates)
    BY CacheAssumption, FS_Subset DEF Purgeable
  <2>2. ASSUME NEW V \in SUBSET candidates
        PROVE  IsFiniteSet(V) /\ Cardinality(V) \in Nat
    BY <2>1, FS_Subset, FS_CardinalityType
  <2>3. candidates \in enough
    BY DEF PurgeStops
  <2>4. sizes \in SUBSET Nat /\ sizes # {}
    <3> HIDE DEF candidates
    <3> QED
      BY <2>2, <2>3
  <2>5. PICK n \in sizes : \A m \in sizes : n <= m
    <3> HIDE DEF sizes
    <3> QED
      BY <2>4, LeastOf
  <2>6. PICK V \in enough : n = Cardinality(V)
    OBVIOUS
  <2>7. ASSUME NEW last \in V
        PROVE  TotalSize(Files \ (V \ {last})) > PurgeTarget
    <3>1. V \ {last} \in SUBSET candidates
      OBVIOUS
    <3>2. Cardinality(V \ {last}) = Cardinality(V) - 1 /\ Cardinality(V) \in Nat
      BY <2>2, FS_RemoveElement
    <3>3. V \ {last} \notin enough
      <4> SUFFICES ASSUME V \ {last} \in enough
                   PROVE  FALSE
        OBVIOUS
      <4>1. Cardinality(V \ {last}) \in sizes
        OBVIOUS
      <4>2. Cardinality(V) <= Cardinality(V \ {last})
        BY <2>5, <2>6, <4>1
      <4> QED
        BY <3>2, <4>2
    <3>4. ~(TotalSize(Files \ (V \ {last})) <= PurgeTarget)
      BY <3>1, <3>3 DEF PurgeStops
    <3>5. TotalSize(Files \ (V \ {last})) \in Nat
      BY TotalSizeNat
    <3> QED
      BY <3>4, <3>5, CacheAssumption
  <2>8. V \in PurgeChoices(p, keep)
    BY <1>2, <2>6, <2>7 DEF PurgeChoices
  <2> QED
    BY <2>8
<1> QED
  BY <1>1, <1>2

(* A live resource past the naming of its file has a file.                 *)
LEMMA NamedFile ==
    ASSUME TypeOK, NEW r \in Resources, pc[r] \in PC \ {"none", "constructed", "failed"}
    PROVE  /\ cacheName[r] \in Files
           /\ Owner[r] \in Procs
<1>1. NameOK(r) /\ pc[r] # "none" /\ pc[r] \notin {"constructed", "failed"}
  BY DEF TypeOK
<1>2. url[r] \in Urls /\ cacheName[r] = CacheFileName[url[r]]
  BY <1>1 DEF NameOK
<1> QED
  BY <1>2, ResourceAssumption

-----------------------------------------------------------------------------
(* Each call of the cache keeps its state well formed.                     *)
LEMMA LockTyped ==
    ASSUME lock \in [Files -> [Procs -> LockMode]], NEW p \in Procs, NEW f \in Files,
           NEW mode \in LockMode, SetLock(f, p, mode)
    PROVE  lock' \in [Files -> [Procs -> LockMode]]
BY DEF SetLock

LEMMA CacheTyped ==
    ASSUME CacheTypeOK, NEW p \in Procs, NEW f \in Files,
           \/ ReadLockHit(p, f) \/ CreateAndLock(p, f) \/ ExclusiveToShared(p, f)
           \/ UpdateCacheInfo(p, f) \/ UpdateAndPurge(p, f) \/ UnlockAndClose(p, f)
           \/ UnlockCache(p) \/ CallThrows(p) \/ UNCHANGED cacheVars
    PROVE  CacheTypeOK'
<1> USE DEF CacheTypeOK
<1>0. "none" \in LockMode /\ "shared" \in LockMode /\ "exclusive" \in LockMode
  BY DEF LockMode
<1>1. CASE ReadLockHit(p, f)
  BY <1>0, <1>1, LockTyped DEF ReadLockHit
<1>2. CASE CreateAndLock(p, f)
  BY <1>0, <1>2, LockTyped, CacheAssumption DEF CreateAndLock, Content
<1>3. CASE ExclusiveToShared(p, f)
  BY <1>0, <1>3, LockTyped DEF ExclusiveToShared
<1>4. CASE UpdateCacheInfo(p, f)
  BY <1>4, CacheAssumption DEF UpdateCacheInfo, NewInfo
<1>5. CASE UpdateAndPurge(p, f)
  <2>1. PICK V \in PurgeChoices(p, f) : RemoveFiles(V) /\ info' = TotalSize(Files \ V)
    BY <1>5 DEF UpdateAndPurge
  <2>2. info' \in Nat
    BY <2>1, TotalSizeNat
  <2>3. content' \in [Files -> Content] /\ size' \in [Files -> 0..MaxBytes]
    BY <2>1, CacheAssumption DEF RemoveFiles, Content
  <2>4. lock' \in [Files -> [Procs -> LockMode]]
    BY <1>0, <2>1 DEF RemoveFiles
  <2> QED
    BY <1>5, <2>2, <2>3, <2>4 DEF UpdateAndPurge
<1>6. CASE UnlockAndClose(p, f)
  BY <1>0, <1>6, LockTyped DEF UnlockAndClose
<1>7. CASE UnlockCache(p)
  BY <1>7 DEF UnlockCache
<1>8. CASE CallThrows(p)
  BY <1>8 DEF CallThrows
<1>9. CASE UNCHANGED cacheVars
  BY <1>9 DEF cacheVars
<1> QED
  BY <1>1, <1>2, <1>3, <1>4, <1>5, <1>6, <1>7, <1>8, <1>9

-----------------------------------------------------------------------------
LEMMA FaultTyped ==
    ASSUME faults \in 0..MaxFaults, faults' = faults \/ Fault
    PROVE  faults' \in 0..MaxFaults
<1>1. MaxFaults \in Nat
  BY ResourceAssumption
<1>2. CASE faults' = faults
  BY <1>2
<1>3. CASE Fault
  BY <1>1, <1>3 DEF Fault
<1> QED
  BY <1>2, <1>3

(* A resource past the naming of its file moves on and keeps URL and file. *)
LEMMA MoveTyped ==
    ASSUME TypeOK, NEW r \in Resources, NEW there \in PC \ {"none"},
           pc[r] \in PC \ {"none", "constructed", "failed"},
           Goto(r, there), UNCHANGED <<url, cacheName>>,
           dtype' \in [Resources -> Types \cup {"", "unknown"}],
           faults' = faults \/ Fault
    PROVE  ResourceTypeOK' /\ \A s \in Resources : NameOK(s)'
<1>1. pc' \in [Resources -> PC] /\ faults' \in 0..MaxFaults
  BY FaultTyped DEF TypeOK, ResourceTypeOK, Goto
<1>2. ASSUME NEW s \in Resources
      PROVE  NameOK(s)'
  <2>1. CASE s = r
    BY <2>1, NamedFile, CacheAssumption DEF TypeOK, ResourceTypeOK, NameOK, Goto
  <2>2. CASE s # r
    BY <2>2 DEF TypeOK, ResourceTypeOK, NameOK, Goto
  <2> QED
    BY <2>1, <2>2
<1> QED
  BY <1>1, <1>2 DEF TypeOK, ResourceTypeOK

(* Objects and fields are taken down together.                             *)
LEMMA ForgetTyped ==
    ASSUME TypeOK, NEW R \in SUBSET Resources, Forget(R), faults' = faults \/ Fault
    PROVE  ResourceTypeOK' /\ \A s \in Resources : NameOK(s)'
<1>1. "none" \in PC
  BY DEF PC
<1>2. ResourceTypeOK'
  <2>1. faults' \in 0..MaxFaults
    BY FaultTyped DEF TypeOK, ResourceTypeOK
  <2> QED
    BY <1>1, <2>1 DEF TypeOK, ResourceTypeOK, Forget
<1>3. ASSUME NEW s \in Resources
      PROVE  NameOK(s)'
  BY DEF TypeOK, NameOK, Forget
<1> QED
  BY <1>2, <1>3

(* Types, and objects and their fields set up and taken down together.     *)
LEMMA TypeInit == Init => TypeOK
<1> SUFFICES ASSUME Init
             PROVE  TypeOK
  OBVIOUS
<1>0. 0 \in 0..MaxBytes /\ 0 \in 0..MaxFaults /\ 0 \in Nat
  <2>1. MaxBytes \in Nat
    BY CacheAssumption
  <2>2. MaxFaults \in Nat
    BY ResourceAssumption
  <2> QED
    BY <2>1, <2>2
<1>1. CacheTypeOK
  <2>1. content \in [Files -> Content]
    BY DEF Init, CacheInit, Content
  <2>2. size \in [Files -> 0..MaxBytes]
    BY <1>0 DEF Init, CacheInit
  <2>3. lock \in [Files -> [Procs -> LockMode]]
    BY DEF Init, CacheInit, LockMode
  <2> QED
    BY <1>0, <2>1, <2>2, <2>3 DEF Init, CacheInit, CacheTypeOK
<1>2. ResourceTypeOK
  BY <1>0 DEF Init, ResourceTypeOK, PC
<1>3. \A r \in Resources : NameOK(r)
  BY DEF Init, NameOK
<1> QED
  BY <1>1, <1>2, <1>3 DEF TypeOK

LEMMA TypeStep == TypeOK /\ [Next]_vars => TypeOK'
<1> SUFFICES ASSUME TypeOK, [Next]_vars
             PROVE  TypeOK'
  OBVIOUS
<1> USE DEF PC, Running, CacheCalls
<1>0. CacheTypeOK /\ ResourceTypeOK
  BY DEF TypeOK
<1>1. ASSUME NEW r \in Resources, New(r)
      PROVE  TypeOK'
  <2>1. PICK u \in Urls : url' = [url EXCEPT ![r] = u]
    BY <1>1 DEF New
  <2>2. CacheTypeOK'
    BY <1>0, <1>1 DEF New, cacheVars, CacheTypeOK
  <2>3. ResourceTypeOK'
    BY <1>0, <1>1, <2>1 DEF New, Goto, ResourceTypeOK
  <2>4. ASSUME NEW s \in Resources
        PROVE  NameOK(s)'
    BY <1>0, <1>1, <2>1 DEF New, Goto, TypeOK, ResourceTypeOK, NameOK
  <2> QED
    BY <2>2, <2>3, <2>4 DEF TypeOK
<1>2. ASSUME NEW r \in Resources, StartRetrieve(r) \/ StartThrows(r)
      PROVE  TypeOK'
  <2>1. pc[r] = "constructed" /\ url[r] \in Urls
    BY <1>2 DEF StartRetrieve, StartThrows, TypeOK, NameOK
  <2>2. CacheFileName[url[r]] \in Files /\ UrlType[url[r]] \in Types \cup {"", "unknown"}
    BY <2>1, ResourceAssumption
  <2>3. CacheTypeOK'
    BY <1>0, <1>2 DEF StartRetrieve, StartThrows, cacheVars, CacheTypeOK
  <2>4. ResourceTypeOK'
    <3>1. faults' \in 0..MaxFaults
      BY <1>0, <1>2, FaultTyped DEF StartRetrieve, StartThrows, ResourceTypeOK
    <3>2. cacheName' \in [Resources -> Files \cup {None}]
      BY <1>0, <1>2, <2>2 DEF StartRetrieve, StartThrows, SetName, ResourceTypeOK
    <3>3. dtype' \in [Resources -> Types \cup {"", "unknown"}]
      BY <1>0, <1>2, <2>2 DEF StartRetrieve, StartThrows, ResourceTypeOK
    <3> QED
      BY <1>0, <1>2, <3>1, <3>2, <3>3 DEF StartRetrieve, StartThrows, Goto, ResourceTypeOK
  <2>5. ASSUME NEW s \in Resources
        PROVE  NameOK(s)'
    <3>1. CASE StartRetrieve(r)
      BY <1>0, <2>1, <2>2, <3>1, CacheAssumption
         DEF StartRetrieve, SetName, Goto, TypeOK, ResourceTypeOK, NameOK
    <3>2. CASE StartThrows(r)
      <4>1. CASE s = r
        <5>1. cacheName'[r] \in {CacheFileName[url[r]], None}
          BY <1>0, <2>1, <3>2 DEF StartThrows, SetName, ResourceTypeOK, TypeOK, NameOK
        <5> QED
          BY <1>0, <2>1, <3>2, <4>1, <5>1 DEF StartThrows, Goto, ResourceTypeOK, NameOK
      <4>2. CASE s # r
        BY <1>0, <3>2, <4>2 DEF StartThrows, SetName, Goto, TypeOK, ResourceTypeOK, NameOK
      <4> QED
        BY <4>1, <4>2
    <3> QED
      BY <1>2, <3>1, <3>2
  <2> QED
    BY <2>3, <2>4, <2>5 DEF TypeOK
<1>3. ASSUME NEW r \in Resources,
             ReadLock(r) \/ Create(r) \/ ReadLock2(r) \/ ToShared(r) \/ UpdateInfo(r)
               \/ Purge(r) \/ CacheCallThrows(r) \/ Unwind(r)
      PROVE  TypeOK'
  <2>1. cacheName[r] \in Files /\ Owner[r] \in Procs
    BY <1>0, <1>3, NamedFile DEF ReadLock, Create, ReadLock2, ToShared, UpdateInfo, Purge,
       CacheCallThrows, Unwind, ResourceTypeOK
  <2>2. CacheTypeOK'
    BY <1>0, <1>3, <2>1, CacheTyped
       DEF ReadLock, Create, ReadLock2, ToShared, UpdateInfo, Purge, CacheCallThrows, Unwind,
           ReadLockMiss, CreateRefused
  <2>3. dtype' \in [Resources -> Types \cup {"", "unknown"}] /\ (faults' = faults \/ Fault)
    BY <1>0, <1>3 DEF ReadLock, Create, ReadLock2, ToShared, UpdateInfo, Purge,
       CacheCallThrows, Unwind, ResourceTypeOK
  <2>4. PICK there \in PC \ {"none"} : Goto(r, there)
    BY <1>3 DEF ReadLock, Create, ReadLock2, ToShared, UpdateInfo, Purge, CacheCallThrows, Unwind
  <2>5. pc[r] \in PC \ {"none", "constructed", "failed"} /\ UNCHANGED <<url, cacheName>>
    BY <1>3 DEF ReadLock, Create, ReadLock2, ToShared, UpdateInfo, Purge, CacheCallThrows, Unwind
  <2>6. ResourceTypeOK' /\ \A s \in Resources : NameOK(s)'
    BY <2>3, <2>4, <2>5, MoveTyped
  <2> QED
    BY <2>2, <2>6 DEF TypeOK
<1>4. ASSUME NEW r \in Resources, WriteChunk(r)
      PROVE  TypeOK'
  <2>1. cacheName[r] \in Files
    BY <1>0, <1>4, NamedFile DEF WriteChunk, ResourceTypeOK
  <2>2. CacheTypeOK'
    BY <1>0, <1>4, <2>1, CacheAssumption DEF WriteChunk, CacheTypeOK
  <2>3. ResourceTypeOK' /\ \A s \in Resources : NameOK(s)'
    BY <1>0, <1>4 DEF WriteChunk, resVars, TypeOK, ResourceTypeOK, NameOK
  <2> QED
    BY <2>2, <2>3 DEF TypeOK
<1>5. ASSUME NEW r \in Resources, FetchOK(r) \/ FetchError(r) \/ FetchThrows(r)
      PROVE  TypeOK'
  <2>1. PICK outcome \in {"complete", "aborted"} : BodyEnds(r, outcome)
    BY <1>5 DEF FetchOK, FetchError, FetchThrows
  <2>2. pc[r] = "fetch" /\ cacheName[r] \in Files /\ url[r] \in Urls
    BY <2>1, NamedFile DEF BodyEnds, TypeOK, NameOK
  <2>3. CacheTypeOK'
    BY <1>0, <2>1, <2>2 DEF BodyEnds, CacheTypeOK, Content
  <2>4. \A t \in HeaderTypes[url[r]] : SetType(url[r], t) \in Types \cup {"", "unknown"}
    <3>1. HeaderTypes[url[r]] \subseteq Types \cup {""} /\ UrlType[url[r]] \in Types \cup {""}
      BY <2>2, ResourceAssumption
    <3> QED
      BY <3>1 DEF SetType
  <2>5. dtype' \in [Resources -> Types \cup {"", "unknown"}] /\ (faults' = faults \/ Fault)
    BY <1>0, <1>5, <2>4 DEF FetchOK, FetchError, FetchThrows, ResourceTypeOK
  <2>6. PICK there \in PC \ {"none"} : Goto(r, there)
    BY <1>5 DEF FetchOK, FetchError, FetchThrows
  <2>7. ResourceTypeOK' /\ \A s \in Resources : NameOK(s)'
    BY <2>1, <2>2, <2>5, <2>6, MoveTyped DEF BodyEnds
  <2> QED
    BY <2>3, <2>7 DEF TypeOK
<1>6. ASSUME NEW r \in Resources, Delete(r)
      PROVE  TypeOK'
  <2>1. cacheName[r] \in Files \cup {None} /\ Owner[r] \in Procs
    BY <1>0, ResourceAssumption DEF ResourceTypeOK
  <2>2. CacheTypeOK'
    BY <1>0, <1>6, <2>1, CacheTyped DEF Delete, CacheTypeOK, cacheVars
  <2>3. ResourceTypeOK' /\ \A s \in Resources : NameOK(s)'
    BY <1>6, ForgetTyped DEF Delete
  <2> QED
    BY <2>2, <2>3 DEF TypeOK
<1>7. ASSUME NEW p \in Procs, Crash(p)
      PROVE  TypeOK'
  <2>1. ResourceTypeOK' /\ \A s \in Resources : NameOK(s)'
    BY <1>7, ForgetTyped DEF Crash
  <2>2. CacheTypeOK'
    BY <1>0, <1>7 DEF Crash, ProcessEnds, CacheTypeOK, Content, LockMode
  <2> QED
    BY <2>1, <2>2 DEF TypeOK
<1>8. CASE UNCHANGED vars
  BY <1>8 DEF vars, resVars, cacheVars, TypeOK, CacheTypeOK, ResourceTypeOK, NameOK
<1> QED
  BY <1>1, <1>2, <1>3, <1>4, <1>5, <1>6, <1>7, <1>8 DEF Next, Retrieve, Fetch

(* Every reachable state is well formed, whatever the interleaving, the    *)
(* faults and the crashes.                                                 *)
THEOREM TypeCorrect == Spec => []TypeOK
BY TypeInit, TypeStep, PTL DEF Spec
-----------------------------------------------------------------------------
(* The inductive invariant behind the safety properties.                   *)

\* A process is in the methods of one of its resources at a time.
OneRunning ==
    \A r, s \in Resources :
        Owner[r] = Owner[s] /\ pc[r] \in Running /\ pc[s] \in Running => r = s

\* A writer's lock excludes the locks of all other processes.
ExclusiveAlone ==
    \A f \in Files, p, q \in Procs :
        lock[f][p] = "exclusive" /\ q # p => lock[f][q] = "none"

\* Locks are on files that exist; an unfinished file has its downloader.
LockedIsCached ==
    \A f \in Files, p \in Procs : lock[f][p] # "none" => Cached(f)

WritingIsFetched ==
    \A f \in Files : content[f] = "writing" =>
        \E r \in Resources : pc[r] = "fetch" /\ cacheName[r] = f

\* From the last byte to the return, the new file stays whole and locked.
StoringIsLocked ==
    \A r \in Resources : pc[r] \in {"toShared", "updateInfo", "purge"} =>
        LET f == cacheName[r] IN
        /\ content[f] = "complete"
        /\ lock[f][Owner[r]] = IF pc[r] = "toShared" THEN "exclusive" ELSE "shared"

FileInv ==
    /\ OneRunning
    /\ ExclusiveAlone
    /\ LockedIsCached
    /\ WritingIsFetched
    /\ StoringIsLocked
    /\ FetchIsExclusive
    /\ InUseProtected

LEMMA FileInit == Init => FileInv
<1> SUFFICES ASSUME Init
             PROVE  FileInv
  OBVIOUS
<1>1. \A r \in Resources : pc[r] = "none"
  BY DEF Init
<1>2. \A f \in Files : content[f] = "absent" /\ \A p \in Procs : lock[f][p] = "none"
  BY DEF Init, CacheInit
<1>3. OneRunning /\ StoringIsLocked /\ FetchIsExclusive /\ InUseProtected
  BY <1>1 DEF OneRunning, Running, CacheCalls, StoringIsLocked, FetchIsExclusive, InUseProtected
<1>4. ExclusiveAlone /\ LockedIsCached /\ WritingIsFetched
  BY <1>2 DEF ExclusiveAlone, LockedIsCached, WritingIsFetched
<1> QED
  BY <1>3, <1>4 DEF FileInv

(* Where a step of a resource takes it.                                    *)
LEMMA GotoMoves ==
    ASSUME TypeOK, NEW r \in Resources, NEW there, Goto(r, there)
    PROVE  /\ pc'[r] = there
           /\ \A s \in Resources : s # r => pc'[s] = pc[s]
BY DEF TypeOK, ResourceTypeOK, Goto

LEMMA RetrieveMoves ==
    ASSUME TypeOK, NEW r \in Resources, Retrieve(r)
    PROVE  /\ pc[r] \in Running
           /\ \A s \in Resources : s # r => pc'[s] = pc[s]
<1> USE DEF Running, CacheCalls
<1>1. CASE WriteChunk(r)
  BY <1>1 DEF WriteChunk, resVars
<1>2. CASE FetchOK(r) \/ FetchError(r) \/ FetchThrows(r)
  <2>1. PICK there : Goto(r, there)
    BY <1>2 DEF FetchOK, FetchError, FetchThrows
  <2> QED
    BY <1>2, <2>1, GotoMoves DEF FetchOK, FetchError, FetchThrows, BodyEnds
<1>3. CASE StartRetrieve(r) \/ StartThrows(r) \/ CacheCallThrows(r) \/ Unwind(r)
  <2>1. PICK there : Goto(r, there)
    BY <1>3 DEF StartRetrieve, StartThrows, CacheCallThrows, Unwind
  <2> QED
    BY <1>3, <2>1, GotoMoves DEF StartRetrieve, StartThrows, CacheCallThrows, Unwind
<1>4. CASE ReadLock(r) \/ Create(r) \/ ReadLock2(r) \/ ToShared(r) \/ UpdateInfo(r) \/ Purge(r)
  <2>1. PICK there : Goto(r, there)
    BY <1>4 DEF ReadLock, Create, ReadLock2, ToShared, UpdateInfo, Purge
  <2> QED
    BY <1>4, <2>1, GotoMoves DEF ReadLock, Create, ReadLock2, ToShared, UpdateInfo, Purge
<1> QED
  BY <1>1, <1>2, <1>3, <1>4 DEF Retrieve, Fetch

LEMMA OneRunningStep == TypeOK /\ OneRunning /\ [Next]_vars => OneRunning'
<1> SUFFICES ASSUME TypeOK, OneRunning, [Next]_vars
             PROVE  OneRunning'
  OBVIOUS
<1>1. ASSUME NEW r \in Resources, New(r)
      PROVE  OneRunning'
  <2>1. \A s \in Resources : s # r => pc'[s] = pc[s]
    BY <1>1, GotoMoves DEF New
  <2>2. \A s \in Resources : Owner[s] = Owner[r] => pc[s] \notin Running
    BY <1>1 DEF New, Idle
  <2> QED
    BY <2>1, <2>2 DEF OneRunning
<1>2. ASSUME NEW r \in Resources, Retrieve(r)
      PROVE  OneRunning'
  BY <1>2, RetrieveMoves DEF OneRunning
<1>3. ASSUME NEW R \in SUBSET Resources, Forget(R)
      PROVE  OneRunning'
  BY <1>3 DEF Forget, OneRunning, Running, CacheCalls
<1>4. ASSUME NEW r \in Resources, Delete(r)
      PROVE  OneRunning'
  BY <1>3, <1>4 DEF Delete
<1>5. ASSUME NEW p \in Procs, Crash(p)
      PROVE  OneRunning'
  BY <1>3, <1>5 DEF Crash
<1>6. CASE UNCHANGED vars
  BY <1>6 DEF vars, resVars, OneRunning
<1> QED
  BY <1>1, <1>2, <1>4, <1>5, <1>6 DEF Next

-----------------------------------------------------------------------------
(* How the steps disturb the invariant, by kind.  First, steps that leave  *)
(* all files and locks alone.                                              *)
LEMMA QuietStep ==
    ASSUME FileInv, OneRunning', NEW r \in Resources,
           UNCHANGED <<content, lock>>,
           pc[r] # "fetch",
           pc'[r] \in {"constructed", "readLock", "create", "readLock2", "unwind", "failed"},
           \A s \in Resources : s # r => pc'[s] = pc[s] /\ cacheName'[s] = cacheName[s]
    PROVE  FileInv'
<1>1. ExclusiveAlone' /\ LockedIsCached'
  BY DEF FileInv, ExclusiveAlone, LockedIsCached, Cached
<1>2. WritingIsFetched'
  BY DEF FileInv, WritingIsFetched
<1>3. StoringIsLocked'
  BY DEF FileInv, StoringIsLocked
<1>4. FetchIsExclusive'
  BY DEF FileInv, FetchIsExclusive, LockedByOther
<1>5. InUseProtected'
  BY DEF FileInv, InUseProtected, ExclusiveByOther, Sole
<1> QED
  BY <1>1, <1>2, <1>3, <1>4, <1>5 DEF FileInv

LEMMA StutterStep ==
    ASSUME FileInv, UNCHANGED <<content, lock, pc, cacheName>>
    PROVE  FileInv'
<1>1. OneRunning' /\ ExclusiveAlone' /\ LockedIsCached' /\ WritingIsFetched' /\ StoringIsLocked'
  BY DEF FileInv, OneRunning, ExclusiveAlone, LockedIsCached, Cached, WritingIsFetched,
     StoringIsLocked
<1>2. FetchIsExclusive' /\ InUseProtected'
  BY DEF FileInv, FetchIsExclusive, LockedByOther, InUseProtected, ExclusiveByOther, Sole
<1> QED
  BY <1>1, <1>2 DEF FileInv

(* update_cache_info(): the lock taken earlier protects the file now that  *)
(* the resource may be used.                                               *)
LEMMA UpdateInfoStep ==
    ASSUME TypeOK, FileInv, OneRunning', NEW r \in Resources, UpdateInfo(r)
    PROVE  FileInv'
<1> DEFINE f == cacheName[r]
           p == Owner[r]
<1>1. f \in Files /\ p \in Procs /\ pc[r] = "updateInfo"
  BY NamedFile DEF UpdateInfo, PC, Running, CacheCalls
<1>2. UNCHANGED <<content, lock, cacheName>>
  BY DEF UpdateInfo, UpdateCacheInfo
<1>3. /\ pc'[r] \in {"purge", "ready"}
      /\ \A s \in Resources : s # r => pc'[s] = pc[s]
  BY GotoMoves DEF UpdateInfo
<1>4. content[f] = "complete" /\ lock[f][p] = "shared"
  BY <1>1 DEF FileInv, StoringIsLocked
<1>5. ~ExclusiveByOther(f, p)
  BY <1>1, <1>4 DEF FileInv, ExclusiveAlone, ExclusiveByOther
<1>6. ExclusiveAlone' /\ LockedIsCached'
  BY <1>2 DEF FileInv, ExclusiveAlone, LockedIsCached, Cached
<1>7. WritingIsFetched'
  BY <1>1, <1>2, <1>3 DEF FileInv, WritingIsFetched
<1>8. StoringIsLocked'
  BY <1>1, <1>2, <1>3, <1>4 DEF FileInv, StoringIsLocked
<1>9. FetchIsExclusive'
  BY <1>1, <1>2, <1>3 DEF FileInv, FetchIsExclusive, LockedByOther
<1>10. InUseProtected'
  BY <1>1, <1>2, <1>3, <1>4, <1>5 DEF FileInv, InUseProtected, ExclusiveByOther, Sole
<1> QED
  BY <1>6, <1>7, <1>8, <1>9, <1>10 DEF FileInv

(* get_read_lock() on a file that is there.  It is finished: were it being *)
(* downloaded, the downloader's process would have it locked for writing,  *)
(* and that process is not this one, which is busy with this resource.     *)
LEMMA ReadLockStep ==
    ASSUME TypeOK, FileInv, OneRunning', NEW r \in Resources,
           pc[r] \in {"readLock", "readLock2"},
           ReadLockHit(Owner[r], cacheName[r]), Goto(r, "ready"), UNCHANGED cacheName
    PROVE  FileInv'
<1> DEFINE f == cacheName[r]
           p == Owner[r]
<1>1. f \in Files /\ p \in Procs
  BY NamedFile DEF PC, Running, CacheCalls
<1>2. pc'[r] = "ready" /\ \A s \in Resources : s # r => pc'[s] = pc[s]
  BY GotoMoves
<1>3. /\ lock'[f][p] = "shared"
      /\ \A q \in Procs : q # p => lock'[f][q] = lock[f][q]
      /\ \A g \in Files : g # f => lock'[g] = lock[g]
  BY <1>1 DEF ReadLockHit, SetLock, TypeOK, CacheTypeOK
<1>4. UNCHANGED content /\ content[f] # "absent" /\ ~ExclusiveByOther(f, p)
  BY DEF ReadLockHit, Cached
<1>5. ASSUME NEW s \in Resources, pc[s] = "fetch"
      PROVE  cacheName[s] # f /\ Owner[s] # p
  <2>1. Owner[s] # p
    BY <1>5 DEF FileInv, OneRunning, Running, CacheCalls
  <2>2. lock[cacheName[s]][Owner[s]] = "exclusive" /\ Owner[s] \in Procs
    BY <1>5, ResourceAssumption DEF FileInv, FetchIsExclusive
  <2> QED
    BY <1>4, <2>1, <2>2 DEF ExclusiveByOther
<1>6. content[f] # "writing"
  BY <1>1, <1>5 DEF FileInv, WritingIsFetched
<1>7. content[f] \in {"complete", "aborted"}
  BY <1>1, <1>4, <1>6 DEF TypeOK, CacheTypeOK, Content
<1>8. ExclusiveAlone'
  BY <1>1, <1>3, <1>4 DEF FileInv, ExclusiveAlone, ExclusiveByOther
<1>9. LockedIsCached'
  BY <1>1, <1>3, <1>4 DEF FileInv, LockedIsCached, Cached
<1>10. WritingIsFetched'
  BY <1>2, <1>4 DEF FileInv, WritingIsFetched
<1>11. ASSUME NEW s \in Resources, s # r, pc[s] \in Running
       PROVE  Owner[s] # p
  BY <1>11 DEF FileInv, OneRunning, Running, CacheCalls
<1>12. StoringIsLocked'
  <2> SUFFICES ASSUME NEW s \in Resources, pc'[s] \in {"toShared", "updateInfo", "purge"}
               PROVE  /\ content'[cacheName'[s]] = "complete"
                      /\ lock'[cacheName'[s]][Owner[s]] =
                           IF pc'[s] = "toShared" THEN "exclusive" ELSE "shared"
    BY DEF StoringIsLocked
  <2>1. s # r /\ pc'[s] = pc[s] /\ Owner[s] # p
    BY <1>2, <1>11 DEF Running, CacheCalls
  <2>2. cacheName[s] \in Files /\ Owner[s] \in Procs
    BY <2>1, NamedFile DEF PC, Running, CacheCalls
  <2>3. lock'[cacheName[s]][Owner[s]] = lock[cacheName[s]][Owner[s]]
    BY <1>3, <2>1, <2>2
  <2> QED
    BY <1>4, <2>1, <2>3 DEF FileInv, StoringIsLocked
<1>13. FetchIsExclusive'
  <2> SUFFICES ASSUME NEW s \in Resources, pc'[s] = "fetch"
               PROVE  /\ content'[cacheName'[s]] = "writing"
                      /\ lock'[cacheName'[s]][Owner[s]] = "exclusive"
                      /\ ~LockedByOther(cacheName[s], Owner[s])'
    BY DEF FetchIsExclusive
  <2>1. s # r /\ pc[s] = "fetch" /\ cacheName[s] # f
    BY <1>2, <1>5
  <2>2. cacheName[s] \in Files /\ lock'[cacheName[s]] = lock[cacheName[s]]
    BY <1>3, <2>1, NamedFile DEF PC, Running, CacheCalls
  <2> QED
    BY <1>4, <2>1, <2>2 DEF FileInv, FetchIsExclusive, LockedByOther
<1>14. InUseProtected'
  <2> SUFFICES ASSUME NEW s \in Resources, Sole(s), pc'[s] = "ready"
               PROVE  /\ content'[cacheName'[s]] \in {"complete", "aborted"}
                      /\ lock'[cacheName'[s]][Owner[s]] = "shared"
                      /\ ~ExclusiveByOther(cacheName[s], Owner[s])'
    BY DEF InUseProtected, Sole
  <2>1. CASE s = r
    BY <1>1, <1>3, <1>4, <1>7, <2>1 DEF ExclusiveByOther
  <2>2. CASE s # r
    <3>1. pc[s] = "ready" /\ Owner[s] # p
      BY <1>2, <2>2 DEF Sole
    <3>2. cacheName[s] \in Files /\ Owner[s] \in Procs
      BY <3>1, NamedFile DEF PC, Running, CacheCalls
    <3>3. /\ content[cacheName[s]] \in {"complete", "aborted"}
          /\ lock[cacheName[s]][Owner[s]] = "shared"
          /\ ~ExclusiveByOther(cacheName[s], Owner[s])
      BY <3>1 DEF FileInv, InUseProtected
    <3>4. CASE cacheName[s] = f
      BY <1>1, <1>3, <1>4, <3>1, <3>2, <3>3, <3>4 DEF ExclusiveByOther
    <3>5. CASE cacheName[s] # f
      BY <1>3, <1>4, <3>1, <3>2, <3>3, <3>5 DEF ExclusiveByOther
    <3> QED
      BY <3>4, <3>5
  <2> QED
    BY <2>1, <2>2
<1> QED
  BY <1>8, <1>9, <1>10, <1>12, <1>13, <1>14 DEF FileInv

(* create_and_lock() wins: the file was absent, so nobody had it locked.   *)
LEMMA CreateStep ==
    ASSUME TypeOK, FileInv, OneRunning', NEW r \in Resources,
           pc[r] = "create", CreateAndLock(Owner[r], cacheName[r]), Goto(r, "fetch"),
           UNCHANGED cacheName
    PROVE  FileInv'
<1> DEFINE f == cacheName[r]
           p == Owner[r]
<1>1. f \in Files /\ p \in Procs
  BY NamedFile DEF PC, Running, CacheCalls
<1>2. pc'[r] = "fetch" /\ \A s \in Resources : s # r => pc'[s] = pc[s]
  BY GotoMoves
<1>3. /\ lock'[f][p] = "exclusive"
      /\ \A q \in Procs : q # p => lock'[f][q] = lock[f][q]
      /\ \A g \in Files : g # f => lock'[g] = lock[g]
  BY <1>1 DEF CreateAndLock, SetLock, TypeOK, CacheTypeOK
<1>4. /\ content[f] = "absent"
      /\ content'[f] = "writing"
      /\ \A g \in Files : g # f => content'[g] = content[g]
  BY <1>1 DEF CreateAndLock, Cached, TypeOK, CacheTypeOK
<1>5. \A q \in Procs : lock[f][q] = "none"
  BY <1>1, <1>4 DEF FileInv, LockedIsCached, Cached
<1>6. ASSUME NEW s \in Resources, s # r,
             pc[s] \in {"fetch", "toShared", "updateInfo", "purge"} \/ (Sole(s) /\ pc[s] = "ready")
      PROVE  /\ cacheName[s] \in Files \ {f} /\ Owner[s] \in Procs
             /\ content'[cacheName[s]] = content[cacheName[s]]
             /\ lock'[cacheName[s]] = lock[cacheName[s]]
  <2>1. cacheName[s] \in Files /\ Owner[s] \in Procs
    BY <1>6, NamedFile DEF PC, Running, CacheCalls
  <2>2. content[cacheName[s]] # "absent"
    BY <1>6 DEF FileInv, FetchIsExclusive, StoringIsLocked, InUseProtected
  <2> QED
    BY <1>3, <1>4, <2>1, <2>2
<1>7. ExclusiveAlone'
  BY <1>1, <1>3, <1>5 DEF FileInv, ExclusiveAlone
<1>8. LockedIsCached'
  BY <1>1, <1>3, <1>4, <1>5 DEF FileInv, LockedIsCached, Cached
<1>9. WritingIsFetched'
  BY <1>1, <1>2, <1>4 DEF FileInv, WritingIsFetched
<1>10. StoringIsLocked'
  BY <1>2, <1>6 DEF FileInv, StoringIsLocked
<1>11. FetchIsExclusive'
  <2>1. ~LockedByOther(f, p)'
    BY <1>1, <1>3, <1>5 DEF LockedByOther
  <2>2. ASSUME NEW s \in Resources, s # r, pc[s] = "fetch"
        PROVE  ~LockedByOther(cacheName[s], Owner[s])'
    BY <1>6, <2>2 DEF FileInv, FetchIsExclusive, LockedByOther
  <2> QED
    BY <1>2, <1>3, <1>4, <1>6, <2>1, <2>2 DEF FileInv, FetchIsExclusive
<1>12. InUseProtected'
  BY <1>2, <1>6 DEF FileInv, InUseProtected, ExclusiveByOther, Sole
<1> QED
  BY <1>7, <1>8, <1>9, <1>10, <1>11, <1>12 DEF FileInv

(* The download ends.  Nobody else is using or storing the file.           *)
LEMMA BodyEndsStep ==
    ASSUME TypeOK, FileInv, OneRunning', NEW r \in Resources,
           NEW outcome \in {"complete", "aborted"}, BodyEnds(r, outcome),
           NEW there \in {"toShared", "unwind"}, there = "toShared" => outcome = "complete",
           Goto(r, there)
    PROVE  FileInv'
<1> DEFINE f == cacheName[r]
           p == Owner[r]
<1>1. f \in Files /\ p \in Procs /\ pc[r] = "fetch"
  BY NamedFile DEF BodyEnds, PC, Running, CacheCalls
<1>2. pc'[r] = there /\ \A s \in Resources : s # r => pc'[s] = pc[s]
  BY GotoMoves
<1>3. UNCHANGED <<lock, cacheName>>
  BY DEF BodyEnds
<1>4. content'[f] = outcome /\ \A g \in Files : g # f => content'[g] = content[g]
  BY <1>1 DEF BodyEnds, TypeOK, CacheTypeOK
<1>5. /\ content[f] = "writing" /\ lock[f][p] = "exclusive"
      /\ \A q \in Procs : q # p => lock[f][q] = "none"
  BY <1>1 DEF FileInv, FetchIsExclusive, LockedByOther
<1>6. ASSUME NEW s \in Resources, s # r,
             pc[s] \in {"fetch", "toShared", "updateInfo", "purge"} \/ (Sole(s) /\ pc[s] = "ready")
      PROVE  cacheName[s] \in Files \ {f} /\ content'[cacheName[s]] = content[cacheName[s]]
  <2>1. cacheName[s] \in Files /\ Owner[s] \in Procs
    BY <1>6, NamedFile DEF PC, Running, CacheCalls
  <2>2. Owner[s] # p
    BY <1>1, <1>6 DEF FileInv, OneRunning, Sole, Running, CacheCalls
  <2>3. lock[cacheName[s]][Owner[s]] # "none"
    BY <1>6 DEF FileInv, FetchIsExclusive, StoringIsLocked, InUseProtected
  <2> QED
    BY <1>4, <1>5, <2>1, <2>2, <2>3
<1>7. ExclusiveAlone'
  BY <1>3 DEF FileInv, ExclusiveAlone
<1>8. LockedIsCached'
  BY <1>3, <1>4 DEF FileInv, LockedIsCached, Cached
<1>9. WritingIsFetched'
  BY <1>1, <1>2, <1>3, <1>4, <1>6 DEF FileInv, WritingIsFetched
<1>10. StoringIsLocked'
  BY <1>2, <1>3, <1>4, <1>5, <1>6 DEF FileInv, StoringIsLocked
<1>11. FetchIsExclusive'
  BY <1>2, <1>3, <1>6 DEF FileInv, FetchIsExclusive, LockedByOther
<1>12. InUseProtected'
  BY <1>2, <1>3, <1>6 DEF FileInv, InUseProtected, ExclusiveByOther, Sole
<1> QED
  BY <1>7, <1>8, <1>9, <1>10, <1>11, <1>12 DEF FileInv

(* exclusive_to_shared_lock(): no other process had a lock.                *)
LEMMA ToSharedStep ==
    ASSUME TypeOK, FileInv, OneRunning', NEW r \in Resources, ToShared(r)
    PROVE  FileInv'
<1> DEFINE f == cacheName[r]
           p == Owner[r]
<1>1. f \in Files /\ p \in Procs /\ pc[r] = "toShared"
  BY NamedFile DEF ToShared, PC, Running, CacheCalls
<1>2. pc'[r] = "updateInfo" /\ \A s \in Resources : s # r => pc'[s] = pc[s]
  BY GotoMoves DEF ToShared
<1>3. UNCHANGED <<content, cacheName>>
  BY DEF ToShared, ExclusiveToShared
<1>4. /\ lock'[f][p] = "shared"
      /\ \A q \in Procs : q # p => lock'[f][q] = lock[f][q]
      /\ \A g \in Files : g # f => lock'[g] = lock[g]
  BY <1>1 DEF ToShared, ExclusiveToShared, SetLock, TypeOK, CacheTypeOK
<1>5. content[f] = "complete" /\ lock[f][p] = "exclusive"
  BY <1>1 DEF FileInv, StoringIsLocked
<1>6. \A q \in Procs : q # p => lock[f][q] = "none"
  BY <1>1, <1>5 DEF FileInv, ExclusiveAlone
<1>7. ASSUME NEW s \in Resources, s # r,
             pc[s] \in {"fetch", "toShared", "updateInfo", "purge"} \/ (Sole(s) /\ pc[s] = "ready")
      PROVE  /\ cacheName[s] \in Files \ {f} /\ Owner[s] \in Procs
             /\ lock'[cacheName[s]] = lock[cacheName[s]]
  <2>1. cacheName[s] \in Files /\ Owner[s] \in Procs
    BY <1>7, NamedFile DEF PC, Running, CacheCalls
  <2>2. Owner[s] # p
    BY <1>1, <1>7 DEF FileInv, OneRunning, Sole, Running, CacheCalls
  <2>3. lock[cacheName[s]][Owner[s]] # "none"
    BY <1>7 DEF FileInv, FetchIsExclusive, StoringIsLocked, InUseProtected
  <2> QED
    BY <1>4, <1>6, <2>1, <2>2, <2>3
<1>8. ExclusiveAlone'
  BY <1>1, <1>4, <1>6 DEF FileInv, ExclusiveAlone
<1>9. LockedIsCached'
  BY <1>1, <1>3, <1>4, <1>5 DEF FileInv, LockedIsCached, Cached
<1>10. WritingIsFetched'
  BY <1>1, <1>2, <1>3 DEF FileInv, WritingIsFetched
<1>11. StoringIsLocked'
  BY <1>2, <1>3, <1>4, <1>5, <1>7 DEF FileInv, StoringIsLocked
<1>12. FetchIsExclusive'
  BY <1>2, <1>3, <1>7 DEF FileInv, FetchIsExclusive, LockedByOther
<1>13. InUseProtected'
  BY <1>2, <1>3, <1>7 DEF FileInv, InUseProtected, ExclusiveByOther, Sole
<1> QED
  BY <1>8, <1>9, <1>10, <1>11, <1>12, <1>13 DEF FileInv

(* update_and_purge(): the files of the others are locked, and the new     *)
(* file is the one to keep.                                                *)
LEMMA PurgeStep ==
    ASSUME TypeOK, FileInv, OneRunning', NEW r \in Resources, Purge(r)
    PROVE  FileInv'
<1> DEFINE f == cacheName[r]
           p == Owner[r]
<1>1. f \in Files /\ p \in Procs /\ pc[r] = "purge"
  BY NamedFile DEF Purge, PC, Running, CacheCalls
<1>2. pc'[r] = "ready" /\ \A s \in Resources : s # r => pc'[s] = pc[s]
  BY GotoMoves DEF Purge
<1>3. UNCHANGED cacheName
  BY DEF Purge
<1>4. PICK V \in PurgeChoices(p, f) : RemoveFiles(V)
  BY DEF Purge, UpdateAndPurge
<1>5. \A g \in V : g # f /\ ~LockedByOther(g, p)
  BY <1>4 DEF PurgeChoices, Purgeable
<1>6. \A g \in Files \ V : content'[g] = content[g] /\ lock'[g] = lock[g]
  BY <1>4 DEF RemoveFiles
<1>7. \A g \in V \cap Files : content'[g] = "absent" /\ \A q \in Procs : lock'[g][q] = "none"
  BY <1>4 DEF RemoveFiles
<1>8. content[f] = "complete" /\ lock[f][p] = "shared" /\ ~ExclusiveByOther(f, p)
  BY <1>1 DEF FileInv, StoringIsLocked, ExclusiveAlone, ExclusiveByOther
<1>9. ASSUME NEW s \in Resources,
             \/ s = r
             \/ pc[s] \in {"fetch", "toShared", "updateInfo"}
             \/ pc[s] = "purge"
             \/ Sole(s) /\ pc[s] = "ready"
      PROVE  /\ cacheName[s] \in Files \ V /\ Owner[s] \in Procs
             /\ content'[cacheName[s]] = content[cacheName[s]]
             /\ lock'[cacheName[s]] = lock[cacheName[s]]
  <2>1. CASE s = r
    BY <1>1, <1>5, <1>6, <2>1
  <2>2. CASE s # r
    <3>1. cacheName[s] \in Files /\ Owner[s] \in Procs
      BY <1>9, <2>2, NamedFile DEF PC, Running, CacheCalls
    <3>2. Owner[s] # p
      BY <1>1, <1>9, <2>2 DEF FileInv, OneRunning, Sole, Running, CacheCalls
    <3>3. lock[cacheName[s]][Owner[s]] # "none"
      BY <1>9, <2>2 DEF FileInv, FetchIsExclusive, StoringIsLocked, InUseProtected
    <3>4. LockedByOther(cacheName[s], p)
      BY <3>1, <3>2, <3>3 DEF LockedByOther
    <3> QED
      BY <1>5, <1>6, <3>1, <3>4
  <2> QED
    BY <2>1, <2>2
<1>10. ExclusiveAlone' /\ LockedIsCached'
  BY <1>6, <1>7 DEF FileInv, ExclusiveAlone, LockedIsCached, Cached
<1>11. WritingIsFetched'
  BY <1>1, <1>2, <1>3, <1>6, <1>7 DEF FileInv, WritingIsFetched
<1>12. StoringIsLocked'
  BY <1>2, <1>3, <1>9 DEF FileInv, StoringIsLocked
<1>13. FetchIsExclusive'
  BY <1>2, <1>3, <1>9 DEF FileInv, FetchIsExclusive, LockedByOther
<1>14. InUseProtected'
  BY <1>2, <1>3, <1>8, <1>9 DEF FileInv, InUseProtected, ExclusiveByOther, Sole
<1> QED
  BY <1>10, <1>11, <1>12, <1>13, <1>14 DEF FileInv

(* The destructor takes away one lock of its own process, which is idle.   *)
LEMMA DeleteStep ==
    ASSUME TypeOK, FileInv, OneRunning', NEW r \in Resources, Delete(r)
    PROVE  FileInv'
<1> DEFINE f == cacheName[r]
           p == Owner[r]
<1>1. p \in Procs /\ pc[r] \in {"ready", "failed"} /\ f \in Files \cup {None}
  BY ResourceAssumption DEF Delete, TypeOK, ResourceTypeOK
<1>2. /\ pc'[r] = "none"
      /\ \A s \in Resources : s # r => pc'[s] = pc[s] /\ cacheName'[s] = cacheName[s]
  BY DEF Delete, Forget
<1>3. UNCHANGED content
  BY DEF Delete, UnlockAndClose, cacheVars
<1>4. /\ \A g \in Files, q \in Procs : q # p => lock'[g][q] = lock[g][q]
      /\ \A g \in Files : lock'[g][p] \in {lock[g][p], "none"}
  <2>1. lock \in [Files -> [Procs -> LockMode]]
    BY DEF TypeOK, CacheTypeOK
  <2>2. CASE f = None
    <3>1. lock' = lock
      BY <2>2 DEF Delete, cacheVars
    <3> QED
      BY <3>1
  <2>3. CASE f # None
    <3>1. lock' = [lock EXCEPT ![f][p] = "none"]
      BY <2>3 DEF Delete, UnlockAndClose, SetLock
    <3> HIDE DEF f, p
    <3> QED
      BY <1>1, <2>1, <2>3, <3>1
  <2> QED
    BY <2>2, <2>3
<1>5. ASSUME NEW s \in Resources,
             \/ pc'[s] \in {"fetch", "toShared", "updateInfo", "purge"}
             \/ Sole(s) /\ pc'[s] = "ready"
      PROVE  /\ s # r /\ pc'[s] = pc[s] /\ Owner[s] \in Procs \ {p}
             /\ cacheName'[s] = cacheName[s] /\ cacheName[s] \in Files
             /\ lock'[cacheName[s]][Owner[s]] = lock[cacheName[s]][Owner[s]]
  <2>1. s # r /\ pc'[s] = pc[s] /\ cacheName'[s] = cacheName[s]
    BY <1>2, <1>5
  <2>2. cacheName[s] \in Files /\ Owner[s] \in Procs
    BY <1>5, <2>1, NamedFile DEF PC, Running, CacheCalls
  <2>3. Owner[s] # p
    BY <1>5, <2>1 DEF Delete, Idle, Sole, Running, CacheCalls
  <2> QED
    BY <1>4, <2>1, <2>2, <2>3
<1>6. ExclusiveAlone' /\ LockedIsCached'
  BY <1>1, <1>3, <1>4 DEF FileInv, ExclusiveAlone, LockedIsCached, Cached
<1>7. WritingIsFetched'
  BY <1>1, <1>2, <1>3 DEF FileInv, WritingIsFetched
<1>8. StoringIsLocked'
  BY <1>3, <1>5 DEF FileInv, StoringIsLocked
<1>9. FetchIsExclusive'
  <2> SUFFICES ASSUME NEW s \in Resources, pc'[s] = "fetch"
               PROVE  /\ content'[cacheName'[s]] = "writing"
                      /\ lock'[cacheName'[s]][Owner[s]] = "exclusive"
                      /\ \A q \in Procs \ {Owner[s]} : lock'[cacheName'[s]][q] = "none"
    BY DEF FetchIsExclusive, LockedByOther
  <2>1. /\ content[cacheName[s]] = "writing"
        /\ lock[cacheName[s]][Owner[s]] = "exclusive"
        /\ \A q \in Procs \ {Owner[s]} : lock[cacheName[s]][q] = "none"
    BY <1>5 DEF FileInv, FetchIsExclusive, LockedByOther
  <2> QED
    BY <1>1, <1>3, <1>4, <1>5, <2>1
<1>10. InUseProtected'
  <2> SUFFICES ASSUME NEW s \in Resources, Sole(s), pc'[s] = "ready"
               PROVE  /\ content'[cacheName'[s]] \in {"complete", "aborted"}
                      /\ lock'[cacheName'[s]][Owner[s]] = "shared"
                      /\ \A q \in Procs \ {Owner[s]} : lock'[cacheName'[s]][q] # "exclusive"
    BY DEF InUseProtected, ExclusiveByOther, Sole
  <2>1. /\ content[cacheName[s]] \in {"complete", "aborted"}
        /\ lock[cacheName[s]][Owner[s]] = "shared"
        /\ \A q \in Procs \ {Owner[s]} : lock[cacheName[s]][q] # "exclusive"
    BY <1>5 DEF FileInv, InUseProtected, ExclusiveByOther
  <2> QED
    BY <1>1, <1>3, <1>4, <1>5, <2>1
<1> QED
  BY <1>6, <1>7, <1>8, <1>9, <1>10 DEF FileInv

(* The end of a process: its unfinished file becomes a cut-off one.        *)
LEMMA CrashStep ==
    ASSUME TypeOK, FileInv, OneRunning', NEW p \in Procs, Crash(p)
    PROVE  FileInv'
<1> DEFINE writes == {cacheName[r] : r \in {s \in Resources : Owner[s] = p /\ pc[s] = "fetch"}}
<1>1. \A s \in Resources :
        IF Owner[s] = p THEN pc'[s] = "none"
                        ELSE pc'[s] = pc[s] /\ cacheName'[s] = cacheName[s]
  BY DEF Crash, Forget
<1>2. \A g \in Files, q \in Procs : lock'[g][q] = IF q = p THEN "none" ELSE lock[g][q]
  BY DEF Crash, ProcessEnds, TypeOK, CacheTypeOK
<1>3. ProcessEnds(p, writes)
  BY DEF Crash
<1>4. \A g \in Files : content'[g] = IF g \in writes THEN "aborted" ELSE content[g]
  BY <1>3 DEF ProcessEnds
<1>5. ASSUME NEW s \in Resources,
             \/ pc'[s] \in {"fetch", "toShared", "updateInfo", "purge"}
             \/ Sole(s) /\ pc'[s] = "ready"
      PROVE  /\ pc'[s] = pc[s] /\ Owner[s] \in Procs \ {p}
             /\ cacheName'[s] = cacheName[s] /\ cacheName[s] \in Files
             /\ content'[cacheName[s]] = content[cacheName[s]]
             /\ lock'[cacheName[s]][Owner[s]] = lock[cacheName[s]][Owner[s]]
  <2>1. pc'[s] = pc[s] /\ cacheName'[s] = cacheName[s] /\ Owner[s] # p
    BY <1>1, <1>5
  <2>2. cacheName[s] \in Files /\ Owner[s] \in Procs
    BY <1>5, <2>1, NamedFile DEF PC, Running, CacheCalls
  <2>3. lock[cacheName[s]][Owner[s]] # "none"
    BY <1>5, <2>1 DEF FileInv, FetchIsExclusive, StoringIsLocked, InUseProtected
  <2>4. ASSUME NEW r \in Resources, Owner[r] = p, pc[r] = "fetch"
        PROVE  cacheName[r] # cacheName[s]
    BY <2>1, <2>2, <2>3, <2>4 DEF FileInv, FetchIsExclusive, LockedByOther
  <2>5. cacheName[s] \notin writes
    BY <2>4
  <2> QED
    BY <1>2, <1>4, <2>1, <2>2, <2>5
<1>6. ExclusiveAlone'
  BY <1>2 DEF FileInv, ExclusiveAlone
<1>7. LockedIsCached'
  BY <1>2, <1>4 DEF FileInv, LockedIsCached, Cached
<1>8. WritingIsFetched'
  BY <1>1, <1>4 DEF FileInv, WritingIsFetched
<1>9. StoringIsLocked'
  BY <1>5 DEF FileInv, StoringIsLocked
<1>10. FetchIsExclusive'
  <2> SUFFICES ASSUME NEW s \in Resources, pc'[s] = "fetch"
               PROVE  /\ content'[cacheName'[s]] = "writing"
                      /\ lock'[cacheName'[s]][Owner[s]] = "exclusive"
                      /\ \A q \in Procs \ {Owner[s]} : lock'[cacheName'[s]][q] = "none"
    BY DEF FetchIsExclusive, LockedByOther
  <2>1. /\ content[cacheName[s]] = "writing"
        /\ lock[cacheName[s]][Owner[s]] = "exclusive"
        /\ \A q \in Procs \ {Owner[s]} : lock[cacheName[s]][q] = "none"
    BY <1>5 DEF FileInv, FetchIsExclusive, LockedByOther
  <2> QED
    BY <1>2, <1>5, <2>1
<1>11. InUseProtected'
  <2> SUFFICES ASSUME NEW s \in Resources, Sole(s), pc'[s] = "ready"
               PROVE  /\ content'[cacheName'[s]] \in {"complete", "aborted"}
                      /\ lock'[cacheName'[s]][Owner[s]] = "shared"
                      /\ \A q \in Procs \ {Owner[s]} : lock'[cacheName'[s]][q] # "exclusive"
    BY DEF InUseProtected, ExclusiveByOther, Sole
  <2>1. /\ content[cacheName[s]] \in {"complete", "aborted"}
        /\ lock[cacheName[s]][Owner[s]] = "shared"
        /\ \A q \in Procs \ {Owner[s]} : lock[cacheName[s]][q] # "exclusive"
    BY <1>5 DEF FileInv, InUseProtected, ExclusiveByOther
  <2> QED
    BY <1>2, <1>5, <2>1
<1> QED
  BY <1>6, <1>7, <1>8, <1>9, <1>10, <1>11 DEF FileInv

-----------------------------------------------------------------------------
LEMMA FileStep == TypeOK /\ FileInv /\ [Next]_vars => FileInv'
<1> SUFFICES ASSUME TypeOK, FileInv, [Next]_vars
             PROVE  FileInv'
  OBVIOUS
<1>0. OneRunning'
  BY OneRunningStep DEF FileInv
<1>1. ASSUME NEW r \in Resources, New(r)
      PROVE  FileInv'
  <2>1. pc'[r] = "constructed" /\ \A s \in Resources : s # r => pc'[s] = pc[s]
    BY <1>1, GotoMoves DEF New
  <2>2. UNCHANGED <<content, lock, cacheName>> /\ pc[r] # "fetch"
    BY <1>1 DEF New, cacheVars
  <2> QED
    BY <1>0, <2>1, <2>2, QuietStep
<1>2. ASSUME NEW r \in Resources, StartRetrieve(r) \/ StartThrows(r)
      PROVE  FileInv'
  <2>1. pc'[r] \in {"readLock", "failed"} /\ \A s \in Resources : s # r => pc'[s] = pc[s]
    BY <1>2, GotoMoves DEF StartRetrieve, StartThrows
  <2>2. UNCHANGED <<content, lock>> /\ pc[r] # "fetch"
    BY <1>2 DEF StartRetrieve, StartThrows, cacheVars
  <2>3. \A s \in Resources : s # r => cacheName'[s] = cacheName[s]
    BY <1>2 DEF StartRetrieve, StartThrows, SetName, TypeOK, ResourceTypeOK
  <2> QED
    BY <1>0, <2>1, <2>2, <2>3, QuietStep
<1>3. ASSUME NEW r \in Resources, ReadLock(r) \/ ReadLock2(r)
      PROVE  FileInv'
  <2>1. UNCHANGED cacheName /\ pc[r] \in {"readLock", "readLock2"}
    BY <1>3 DEF ReadLock, ReadLock2
  <2>2. CASE ReadLockHit(Owner[r], cacheName[r]) /\ Goto(r, "ready")
    BY <1>0, <2>1, <2>2, ReadLockStep
  <2>3. CASE ReadLockMiss(Owner[r], cacheName[r]) /\ (Goto(r, "create") \/ Goto(r, "unwind"))
    <3>1. pc'[r] \in {"create", "unwind"} /\ \A s \in Resources : s # r => pc'[s] = pc[s]
      BY <2>3, GotoMoves
    <3> QED
      BY <1>0, <2>1, <2>3, <3>1, QuietStep DEF ReadLockMiss, cacheVars
  <2> QED
    BY <1>3, <2>2, <2>3 DEF ReadLock, ReadLock2
<1>4. ASSUME NEW r \in Resources, Create(r)
      PROVE  FileInv'
  <2>1. UNCHANGED cacheName /\ pc[r] = "create"
    BY <1>4 DEF Create
  <2>2. CASE CreateAndLock(Owner[r], cacheName[r]) /\ Goto(r, "fetch")
    BY <1>0, <2>1, <2>2, CreateStep
  <2>3. CASE CreateRefused(Owner[r], cacheName[r]) /\ Goto(r, "readLock2")
    <3>1. pc'[r] = "readLock2" /\ \A s \in Resources : s # r => pc'[s] = pc[s]
      BY <2>3, GotoMoves
    <3> QED
      BY <1>0, <2>1, <2>3, <3>1, QuietStep DEF CreateRefused, cacheVars
  <2> QED
    BY <1>4, <2>2, <2>3 DEF Create
<1>5. ASSUME NEW r \in Resources, Fetch(r)
      PROVE  FileInv'
  <2>1. CASE WriteChunk(r)
    BY <2>1, StutterStep DEF WriteChunk, resVars
  <2>2. CASE FetchOK(r)
    BY <1>0, <2>2, BodyEndsStep DEF FetchOK
  <2>3. CASE FetchError(r)
    BY <1>0, <2>3, BodyEndsStep DEF FetchError
  <2>4. CASE FetchThrows(r)
    BY <1>0, <2>4, BodyEndsStep DEF FetchThrows
  <2> QED
    BY <1>5, <2>1, <2>2, <2>3, <2>4 DEF Fetch
<1>6. ASSUME NEW r \in Resources, ToShared(r) \/ UpdateInfo(r) \/ Purge(r)
      PROVE  FileInv'
  BY <1>0, <1>6, ToSharedStep, UpdateInfoStep, PurgeStep
<1>7. ASSUME NEW r \in Resources, CacheCallThrows(r) \/ Unwind(r)
      PROVE  FileInv'
  <2>1. pc'[r] \in {"unwind", "failed"} /\ \A s \in Resources : s # r => pc'[s] = pc[s]
    BY <1>7, GotoMoves DEF CacheCallThrows, Unwind
  <2>2. UNCHANGED <<content, lock, cacheName>> /\ pc[r] # "fetch"
    BY <1>7 DEF CacheCallThrows, CallThrows, Unwind, UnlockCache, cacheVars, CacheCalls
  <2> QED
    BY <1>0, <2>1, <2>2, QuietStep
<1>8. ASSUME NEW r \in Resources, Delete(r)
      PROVE  FileInv'
  BY <1>0, <1>8, DeleteStep
<1>9. ASSUME NEW p \in Procs, Crash(p)
      PROVE  FileInv'
  BY <1>0, <1>9, CrashStep
<1>10. CASE UNCHANGED vars
  BY <1>10, StutterStep DEF vars, cacheVars, resVars
<1> QED
  BY <1>1, <1>2, <1>3, <1>4, <1>5, <1>6, <1>7, <1>8, <1>9, <1>10 DEF Next, Retrieve

THEOREM FilesInvariant == Spec => []FileInv
<1>1. TypeOK /\ FileInv /\ [Next]_vars => FileInv'
  BY FileStep
<1> QED
  BY <1>1, FileInit, TypeCorrect, PTL DEF Spec

(* Of all the processes that miss the same URL at the same time, one       *)
(* downloads it, and no other process reads, locks or removes the file     *)
(* before it is done.                                                      *)
THEOREM DownloadsAlone == Spec => []FetchIsExclusive
<1>1. FileInv => FetchIsExclusive
  BY DEF FileInv
<1> QED
  BY <1>1, FilesInvariant, PTL

(* What retrieveResource() promises when it returns holds until the        *)
(* destructor, for every process that has one resource.                    *)
THEOREM FileStaysProtected == Spec => []InUseProtected
<1>1. FileInv => InUseProtected
  BY DEF FileInv
<1> QED
  BY <1>1, FilesInvariant, PTL

-----------------------------------------------------------------------------
(* Locks are released.  A step of r touches at most the lock that the      *)
(* process of r has on the file of r, and r keeps its file while it lives. *)
LEMMA LockHeldByLive ==
    ASSUME TypeOK, NoLeakedLock, NEW r \in Resources,
           cacheName'[r] = cacheName[r] \/ cacheName[r] = None,
           \A s \in Resources : s # r => cacheName'[s] = cacheName[s],
           \A f \in Files, p \in Procs :
              \/ lock'[f][p] \in {lock[f][p], "none"}
              \/ f = cacheName'[r] /\ p = Owner[r]
    PROVE  NoLeakedLock'
<1>1. None \notin Files
  BY CacheAssumption
<1> QED
  BY <1>1 DEF NoLeakedLock

LEMMA SetLockChanges ==
    ASSUME TypeOK, NEW p \in Procs, NEW f \in Files, NEW mode, SetLock(f, p, mode)
    PROVE  /\ lock'[f][p] = mode
           /\ \A g \in Files, q \in Procs : g # f \/ q # p => lock'[g][q] = lock[g][q]
BY DEF SetLock, TypeOK, CacheTypeOK

LEMMA NoLeakStep == TypeOK /\ NoLeakedLock /\ [Next]_vars => NoLeakedLock'
<1> SUFFICES ASSUME TypeOK, NoLeakedLock, [Next]_vars
             PROVE  NoLeakedLock'
  OBVIOUS
<1>1. ASSUME NEW r \in Resources, StartRetrieve(r) \/ StartThrows(r)
      PROVE  NoLeakedLock'
  <2>1. cacheName[r] \in {None, CacheFileName[url[r]]}
    BY <1>1 DEF StartRetrieve, StartThrows, TypeOK, NameOK
  <2>2. \A s \in Resources : s # r => cacheName'[s] = cacheName[s]
    BY <1>1 DEF StartRetrieve, StartThrows, SetName, TypeOK, ResourceTypeOK
  <2>3. cacheName'[r] \in {cacheName[r], CacheFileName[url[r]]}
    BY <1>1 DEF StartRetrieve, StartThrows, SetName, TypeOK, ResourceTypeOK
  <2>4. UNCHANGED lock
    BY <1>1 DEF StartRetrieve, StartThrows, cacheVars
  <2> QED
    BY <2>1, <2>2, <2>3, <2>4, LockHeldByLive
<1>2. ASSUME NEW r \in Resources,
             UNCHANGED cacheName, cacheName[r] \in Files,
             \/ UNCHANGED lock
             \/ \E mode : SetLock(cacheName[r], Owner[r], mode)
      PROVE  NoLeakedLock'
  <2>1. Owner[r] \in Procs
    BY ResourceAssumption
  <2> QED
    BY <1>2, <2>1, SetLockChanges, LockHeldByLive
<1>3. ASSUME NEW r \in Resources, ReadLock(r) \/ Create(r) \/ ReadLock2(r) \/ ToShared(r)
      PROVE  NoLeakedLock'
  <2>1. UNCHANGED cacheName /\ cacheName[r] \in Files
    BY <1>3, NamedFile
       DEF ReadLock, Create, ReadLock2, ToShared, PC, Running, CacheCalls
  <2>2. UNCHANGED lock \/ \E mode : SetLock(cacheName[r], Owner[r], mode)
    BY <1>3 DEF ReadLock, Create, ReadLock2, ToShared, ReadLockHit, ReadLockMiss, CreateAndLock,
       CreateRefused, ExclusiveToShared, cacheVars
  <2> QED
    BY <1>2, <2>1, <2>2
<1>4. ASSUME NEW r \in Resources, Fetch(r) \/ UpdateInfo(r) \/ CacheCallThrows(r) \/ Unwind(r)
      PROVE  NoLeakedLock'
  <2>1. UNCHANGED <<lock, cacheName>>
    BY <1>4 DEF Fetch, WriteChunk, FetchOK, FetchError, FetchThrows, BodyEnds, UpdateInfo,
       UpdateCacheInfo, CacheCallThrows, CallThrows, Unwind, UnlockCache, cacheVars, resVars
  <2> QED
    BY <2>1 DEF NoLeakedLock
<1>5. ASSUME NEW r \in Resources, Purge(r)
      PROVE  NoLeakedLock'
  <2>1. UNCHANGED cacheName
    BY <1>5 DEF Purge
  <2>2. \A f \in Files, p \in Procs : lock'[f][p] \in {lock[f][p], "none"}
    BY <1>5 DEF Purge, UpdateAndPurge, RemoveFiles
  <2> QED
    BY <2>1, <2>2 DEF NoLeakedLock
<1>6. ASSUME NEW r \in Resources, Delete(r)
      PROVE  NoLeakedLock'
  <2>1. \A s \in Resources : s # r => cacheName'[s] = cacheName[s]
    BY <1>6 DEF Delete, Forget
  <2>2. CASE cacheName[r] = None
    <3>1. UNCHANGED lock /\ cacheName[r] \notin Files
      BY <1>6, <2>2, CacheAssumption DEF Delete, cacheVars
    <3> QED
      BY <2>1, <3>1 DEF NoLeakedLock
  <2>3. CASE cacheName[r] # None
    <3>1. cacheName[r] \in Files /\ Owner[r] \in Procs
      BY <2>3, ResourceAssumption DEF TypeOK, ResourceTypeOK
    <3>2. SetLock(cacheName[r], Owner[r], "none")
      BY <1>6, <2>3 DEF Delete, UnlockAndClose
    <3>3. /\ lock'[cacheName[r]][Owner[r]] = "none"
          /\ \A g \in Files, q \in Procs :
               g # cacheName[r] \/ q # Owner[r] => lock'[g][q] = lock[g][q]
      BY <3>1, <3>2, SetLockChanges
    <3> QED
      BY <2>1, <3>1, <3>3 DEF NoLeakedLock
  <2> QED
    BY <2>2, <2>3
<1>7. ASSUME NEW p \in Procs, Crash(p)
      PROVE  NoLeakedLock'
  <2>1. \A s \in Resources : Owner[s] # p => cacheName'[s] = cacheName[s]
    BY <1>7 DEF Crash, Forget
  <2>2. \A g \in Files, q \in Procs : lock'[g][q] = IF q = p THEN "none" ELSE lock[g][q]
    BY <1>7 DEF Crash, ProcessEnds, TypeOK, CacheTypeOK
  <2> QED
    BY <2>1, <2>2 DEF NoLeakedLock
<1>8. CASE UNCHANGED vars \/ \E r \in Resources : New(r)
  <2>1. UNCHANGED <<lock, cacheName>>
    BY <1>8 DEF vars, cacheVars, resVars, New
  <2> QED
    BY <2>1 DEF NoLeakedLock
<1> QED
  BY <1>1, <1>3, <1>4, <1>5, <1>6, <1>7, <1>8 DEF Next, Retrieve

(* Whatever happens between its construction and its end, an object leaves *)
(* no lock behind: a locked file always has a live object that the         *)
(* destructor will unlock it for.                                          *)
THEOREM LocksAreReleased == Spec => []NoLeakedLock
<1>1. Init => NoLeakedLock
  <2>1. ASSUME Init, NEW f \in Files, NEW p \in Procs
        PROVE  lock[f][p] = "none"
    BY <2>1 DEF Init, CacheInit
  <2> QED
    BY <2>1 DEF NoLeakedLock
<1> QED
  BY <1>1, NoLeakStep, TypeCorrect, PTL DEF Spec

-----------------------------------------------------------------------------
LEMMA CacheLockStep == TypeOK /\ CacheLockFreed /\ [Next]_vars => CacheLockFreed'
<1> SUFFICES ASSUME TypeOK, CacheLockFreed, [Next]_vars
             PROVE  CacheLockFreed'
  OBVIOUS
<1>1. ASSUME NEW r \in Resources, UNCHANGED cacheLock, pc[r] # "unwind",
             \A s \in Resources : s # r => pc'[s] = pc[s]
      PROVE  CacheLockFreed'
  BY <1>1 DEF CacheLockFreed
<1>2. ASSUME NEW r \in Resources, New(r)
      PROVE  CacheLockFreed'
  BY <1>1, <1>2, GotoMoves DEF New, cacheVars
<1>3. ASSUME NEW r \in Resources, StartRetrieve(r) \/ StartThrows(r)
      PROVE  CacheLockFreed'
  BY <1>1, <1>3, RetrieveMoves DEF Retrieve, StartRetrieve, StartThrows, cacheVars
<1>4. ASSUME NEW r \in Resources,
             ReadLock(r) \/ Create(r) \/ ReadLock2(r) \/ ToShared(r) \/ UpdateInfo(r) \/ Purge(r)
      PROVE  CacheLockFreed'
  <2>1. UNCHANGED cacheLock /\ pc[r] # "unwind"
    BY <1>4 DEF ReadLock, Create, ReadLock2, ToShared, UpdateInfo, Purge, ReadLockHit, ReadLockMiss,
       CreateAndLock, CreateRefused, ExclusiveToShared, UpdateCacheInfo, UpdateAndPurge, cacheVars
  <2> QED
    BY <1>1, <1>4, <2>1, RetrieveMoves DEF Retrieve
<1>5. ASSUME NEW r \in Resources, Fetch(r)
      PROVE  CacheLockFreed'
  <2>1. UNCHANGED cacheLock /\ pc[r] # "unwind"
    BY <1>5 DEF Fetch, WriteChunk, FetchOK, FetchError, FetchThrows, BodyEnds, cacheVars
  <2> QED
    BY <1>1, <1>5, <2>1, RetrieveMoves DEF Retrieve
<1>6. ASSUME NEW r \in Resources, CacheCallThrows(r)
      PROVE  CacheLockFreed'
  <2>1. pc[r] # "unwind" /\ pc'[r] = "unwind" /\ \A s \in Resources : s # r => pc'[s] = pc[s]
    BY <1>6, GotoMoves DEF CacheCallThrows, CacheCalls
  <2>2. cacheLock' = cacheLock \/ cacheLock' = Owner[r]
    BY <1>6 DEF CacheCallThrows, CallThrows, cacheVars
  <2> QED
    BY <2>1, <2>2 DEF CacheLockFreed
<1>7. ASSUME NEW r \in Resources, Unwind(r)
      PROVE  CacheLockFreed'
  <2>1. \A s \in Resources : s # r => pc'[s] = pc[s]
    BY <1>7, GotoMoves DEF Unwind
  <2>2. cacheLock' = IF cacheLock = Owner[r] THEN None ELSE cacheLock
    BY <1>7 DEF Unwind, UnlockCache
  <2> QED
    BY <2>1, <2>2 DEF CacheLockFreed
<1>8. ASSUME NEW r \in Resources, Delete(r)
      PROVE  CacheLockFreed'
  <2>1. UNCHANGED cacheLock /\ pc[r] # "unwind"
    BY <1>8 DEF Delete, UnlockAndClose, cacheVars
  <2>2. \A s \in Resources : s # r => pc'[s] = pc[s]
    BY <1>8 DEF Delete, Forget
  <2> QED
    BY <1>1, <2>1, <2>2
<1>9. ASSUME NEW p \in Procs, Crash(p)
      PROVE  CacheLockFreed'
  <2>1. \A s \in Resources : Owner[s] # p => pc'[s] = pc[s]
    BY <1>9 DEF Crash, Forget
  <2>2. cacheLock' = IF cacheLock = p THEN None ELSE cacheLock
    BY <1>9 DEF Crash, ProcessEnds
  <2> QED
    BY <2>1, <2>2 DEF CacheLockFreed
<1>10. CASE UNCHANGED vars
  BY <1>10 DEF vars, cacheVars, resVars, CacheLockFreed
<1> QED
  BY <1>2, <1>3, <1>4, <1>5, <1>6, <1>7, <1>8, <1>9, <1>10 DEF Next, Retrieve

(* No exception, and no crash, leaves the whole cache locked.              *)
THEOREM CacheLockIsReleased == Spec => []CacheLockFreed
<1>1. Init => CacheLockFreed
  BY DEF Init, CacheInit, CacheLockFreed
<1> QED
  BY <1>1, CacheLockStep, TypeCorrect, PTL DEF Spec

-----------------------------------------------------------------------------
(* No step changes a file that a resource has in use.                      *)
LEMMA UseStep ==
    ASSUME TypeOK, FileInv, Next, NEW r \in Resources, Sole(r),
           pc[r] = "ready", pc'[r] = "ready"
    PROVE  LET f == cacheName[r] IN content'[f] = content[f] /\ size'[f] = size[f]
<1> DEFINE f == cacheName[r]
           p == Owner[r]
<1>1. f \in Files /\ p \in Procs
  BY NamedFile DEF PC, Running, CacheCalls
<1>2. /\ content[f] \in {"complete", "aborted"}
      /\ lock[f][p] = "shared"
      /\ ~ExclusiveByOther(f, p)
  BY DEF FileInv, InUseProtected
<1>3. ASSUME NEW s \in Resources, pc[s] = "fetch"
      PROVE  cacheName[s] \in Files \ {f}
  <2>1. cacheName[s] \in Files
    BY <1>3, NamedFile DEF PC, Running, CacheCalls
  <2>2. content[cacheName[s]] = "writing"
    BY <1>3 DEF FileInv, FetchIsExclusive
  <2> QED
    BY <1>2, <2>1, <2>2
<1>4. ASSUME NEW s \in Resources, Fetch(s)
      PROVE  content'[f] = content[f] /\ size'[f] = size[f]
  <2>1. cacheName[s] \in Files \ {f}
    BY <1>3, <1>4 DEF Fetch, WriteChunk, FetchOK, FetchError, FetchThrows, BodyEnds
  <2> QED
    BY <1>1, <1>4, <2>1
       DEF Fetch, WriteChunk, FetchOK, FetchError, FetchThrows, BodyEnds, TypeOK, CacheTypeOK
<1>5. ASSUME NEW s \in Resources, Create(s)
      PROVE  content'[f] = content[f] /\ size'[f] = size[f]
  <2>1. CASE CreateAndLock(Owner[s], cacheName[s])
    <3>1. cacheName[s] \in Files \ {f}
      BY <1>2, <1>5, <2>1, NamedFile DEF Create, CreateAndLock, Cached, PC, Running, CacheCalls
    <3> QED
      BY <1>1, <2>1, <3>1 DEF CreateAndLock, TypeOK, CacheTypeOK
  <2>2. CASE CreateRefused(Owner[s], cacheName[s])
    BY <2>2 DEF CreateRefused, cacheVars
  <2> QED
    BY <1>5, <2>1, <2>2 DEF Create
<1>6. ASSUME NEW s \in Resources, Purge(s)
      PROVE  content'[f] = content[f] /\ size'[f] = size[f]
  <2>1. s # r /\ Owner[s] # p
    BY <1>6 DEF Purge, Sole
  <2>2. LockedByOther(f, Owner[s])
    BY <1>1, <1>2, <2>1 DEF LockedByOther
  <2>3. PICK V \in PurgeChoices(Owner[s], cacheName[s]) : RemoveFiles(V)
    BY <1>6 DEF Purge, UpdateAndPurge
  <2>4. f \notin V
    BY <2>2, <2>3 DEF PurgeChoices, Purgeable
  <2> QED
    BY <1>1, <2>3, <2>4 DEF RemoveFiles
<1>7. ASSUME NEW s \in Resources,
             \/ New(s) \/ StartRetrieve(s) \/ StartThrows(s) \/ ReadLock(s) \/ ReadLock2(s)
             \/ ToShared(s) \/ UpdateInfo(s) \/ CacheCallThrows(s) \/ Unwind(s) \/ Delete(s)
      PROVE  content'[f] = content[f] /\ size'[f] = size[f]
  BY <1>7 DEF New, StartRetrieve, StartThrows, ReadLock, ReadLock2, ToShared, UpdateInfo,
     CacheCallThrows, Unwind, Delete, ReadLockHit, ReadLockMiss, ExclusiveToShared,
     UpdateCacheInfo, CallThrows, UnlockCache, UnlockAndClose, cacheVars
<1>8. ASSUME NEW q \in Procs, Crash(q)
      PROVE  content'[f] = content[f] /\ size'[f] = size[f]
  <2> DEFINE writes == {cacheName[s] : s \in {t \in Resources : Owner[t] = q /\ pc[t] = "fetch"}}
  <2>1. ProcessEnds(q, writes)
    BY <1>8 DEF Crash
  <2>2. f \notin writes
    BY <1>3
  <2> QED
    BY <1>1, <2>1, <2>2 DEF ProcessEnds
<1> QED
  BY <1>4, <1>5, <1>6, <1>7, <1>8 DEF Next, Retrieve

(* What a reader sees of a cache file does not change while it reads: no   *)
(* purge, download or crash of any process alters it.                      *)
THEOREM FilesStayStable == Spec => UseIsStable
<1> DEFINE Stable ==
      \A r \in Resources : Sole(r) /\ pc[r] = "ready" /\ pc'[r] = "ready" =>
        LET f == cacheName[r] IN content'[f] = content[f] /\ size'[f] = size[f]
<1>1. TypeOK /\ FileInv /\ [Next]_vars => [Stable]_vars
  BY UseStep
<1>2. Spec => [][Stable]_vars
  BY <1>1, FilesInvariant, TypeCorrect, PTL DEF Spec
<1> QED
  BY <1>2 DEF UseIsStable

-----------------------------------------------------------------------------
(* An access never goes back.  What is left of it is counted in numbers.   *)
LeftTyped ==
    \A r \in Resources : CallsLeft[pc[r]] \in 0..8 /\ DataLeft(r) \in 0..MaxBytes

LEMMA LeftIsTyped == TypeOK => LeftTyped
<1> SUFFICES ASSUME TypeOK, NEW r \in Resources
             PROVE  CallsLeft[pc[r]] \in 0..8 /\ DataLeft(r) \in 0..MaxBytes
  BY DEF LeftTyped
<1>1. pc[r] \in PC /\ MaxBytes \in Nat
  BY CacheAssumption DEF TypeOK, ResourceTypeOK
<1>2. CallsLeft[pc[r]] \in 0..8
  BY <1>1 DEF CallsLeft, PC, Running, CacheCalls
<1>3. CASE pc[r] = "fetch"
  <2>1. cacheName[r] \in Files
    BY <1>3, NamedFile DEF PC, Running, CacheCalls
  <2>2. size[cacheName[r]] \in 0..MaxBytes
    BY <2>1 DEF TypeOK, CacheTypeOK
  <2> QED
    BY <1>1, <1>2, <1>3, <2>2 DEF DataLeft
<1>4. CASE pc[r] # "fetch"
  BY <1>1, <1>2, <1>4 DEF DataLeft
<1> QED
  BY <1>3, <1>4

\* The access is at a later call, and needs no more data than before.
LEMMA LaterCall ==
    ASSUME LeftTyped, LeftTyped', NEW r \in Resources,
           CallsLeft[pc'[r]] < CallsLeft[pc[r]],
           DataLeft(r)' <= DataLeft(r)
    PROVE  AccessLeft(r)' \in 0..(AccessLeft(r) - 1)
<1>1. /\ CallsLeft[pc[r]] \in 0..8 /\ CallsLeft[pc'[r]] \in 0..8
      /\ DataLeft(r) \in 0..MaxBytes /\ DataLeft(r)' \in 0..MaxBytes
  BY DEF LeftTyped
<1>2. AccessLeft(r)' = CallsLeft[pc'[r]] + DataLeft(r)'
  BY DEF AccessLeft
<1> QED
  BY <1>1, <1>2, CacheAssumption DEF AccessLeft

\* No data is asked for after the fetch.
LEMMA NoDataLeft ==
    ASSUME LeftTyped, NEW r \in Resources,
           pc'[r] \notin {"constructed", "readLock", "create", "fetch"}
    PROVE  DataLeft(r)' <= DataLeft(r)
<1>1. DataLeft(r)' = 0
  BY DEF DataLeft
<1>2. DataLeft(r) \in 0..MaxBytes
  BY DEF LeftTyped
<1> QED
  BY <1>1, <1>2, CacheAssumption

\* Each step of the access itself brings it nearer to its end.
LEMMA OwnStep ==
    ASSUME TypeOK, LeftTyped, LeftTyped', NEW r \in Resources, Retrieve(r)
    PROVE  AccessLeft(r)' \in 0..(AccessLeft(r) - 1)
<1>1. CASE StartRetrieve(r) \/ StartThrows(r)
  <2>1. pc[r] = "constructed" /\ pc'[r] \in {"readLock", "failed"}
    BY <1>1, GotoMoves DEF StartRetrieve, StartThrows
  <2>2. CallsLeft[pc'[r]] < CallsLeft[pc[r]]
    BY <2>1 DEF CallsLeft
  <2>3. DataLeft(r)' <= DataLeft(r)
    BY <2>1, CacheAssumption DEF DataLeft
  <2> QED
    BY <2>2, <2>3, LaterCall
<1>2. CASE ReadLock(r)
  <2>1. pc[r] = "readLock" /\ pc'[r] \in {"ready", "create"}
    BY <1>2, GotoMoves DEF ReadLock
  <2>2. CallsLeft[pc'[r]] < CallsLeft[pc[r]]
    BY <2>1 DEF CallsLeft
  <2>3. DataLeft(r)' <= DataLeft(r)
    BY <2>1, CacheAssumption DEF DataLeft
  <2> QED
    BY <2>2, <2>3, LaterCall
<1>3. CASE Create(r)
  <2>1. pc[r] = "create" /\ pc'[r] \in {"fetch", "readLock2"}
    BY <1>3, GotoMoves DEF Create
  <2>2. CallsLeft[pc'[r]] < CallsLeft[pc[r]]
    BY <2>1 DEF CallsLeft
  <2>3. DataLeft(r)' \in 0..MaxBytes /\ DataLeft(r) = MaxBytes
    BY <2>1 DEF DataLeft, LeftTyped
  <2> QED
    BY <2>2, <2>3, LaterCall, CacheAssumption
<1>4. CASE WriteChunk(r)
  <2> DEFINE f == cacheName[r]
  <2>1. pc[r] = "fetch" /\ pc'[r] = "fetch" /\ cacheName'[r] = f
    BY <1>4 DEF WriteChunk, resVars
  <2>2. f \in Files
    BY <2>1, NamedFile DEF PC, Running, CacheCalls
  <2>3. PICK n \in 1..MaxBytes : size[f] + n <= MaxBytes /\ size' = [size EXCEPT ![f] = @ + n]
    BY <1>4 DEF WriteChunk
  <2>4. size[f] \in 0..MaxBytes
    BY <2>2 DEF TypeOK, CacheTypeOK
  <2>5. size'[f] = size[f] + n
    BY <2>2, <2>3 DEF TypeOK, CacheTypeOK
  <2>6. /\ AccessLeft(r) = CallsLeft["fetch"] + (MaxBytes - size[f])
        /\ AccessLeft(r)' = CallsLeft["fetch"] + (MaxBytes - size'[f])
    BY <2>1 DEF AccessLeft, DataLeft
  <2>7. CallsLeft["fetch"] = 5
    BY DEF CallsLeft
  <2> HIDE DEF f
  <2> QED
    BY <2>3, <2>4, <2>5, <2>6, <2>7, CacheAssumption
<1>5. CASE \/ FetchOK(r) \/ FetchError(r) \/ FetchThrows(r)
           \/ ReadLock2(r) \/ ToShared(r) \/ UpdateInfo(r) \/ Purge(r)
           \/ CacheCallThrows(r) \/ Unwind(r)
  <2>1. /\ CallsLeft[pc'[r]] < CallsLeft[pc[r]]
        /\ pc'[r] \notin {"constructed", "readLock", "create", "fetch"}
    <3>1. CASE FetchOK(r) \/ FetchError(r) \/ FetchThrows(r)
      BY <3>1, GotoMoves DEF FetchOK, FetchError, FetchThrows, BodyEnds, CallsLeft
    <3>2. CASE ReadLock2(r)
      BY <3>2, GotoMoves DEF ReadLock2, CallsLeft
    <3>3. CASE ToShared(r) \/ UpdateInfo(r)
      BY <3>3, GotoMoves DEF ToShared, UpdateInfo, CallsLeft
    <3>4. CASE Purge(r) \/ Unwind(r)
      BY <3>4, GotoMoves DEF Purge, Unwind, CallsLeft
    <3>5. CASE CacheCallThrows(r)
      <4>1. pc[r] \in CacheCalls /\ pc'[r] = "unwind"
        BY <3>5, GotoMoves DEF CacheCallThrows
      <4> QED
        BY <4>1 DEF CacheCalls, CallsLeft
    <3> QED
      BY <1>5, <3>1, <3>2, <3>3, <3>4, <3>5
  <2> QED
    BY <2>1, NoDataLeft, LaterCall
<1> QED
  BY <1>1, <1>2, <1>3, <1>4, <1>5 DEF Retrieve, Fetch

(* What a resource is writing keeps its size while others take steps: they *)
(* write other files, make no file that is there, and remove none that is  *)
(* locked.                                                                 *)
LEMMA OthersKeepSize ==
    ASSUME TypeOK, FileInv, NEW r \in Resources, pc[r] = "fetch",
           NEW s \in Resources, s # r, New(s) \/ Retrieve(s) \/ Delete(s)
    PROVE  size'[cacheName[r]] = size[cacheName[r]]
<1> DEFINE f == cacheName[r]
           p == Owner[r]
<1>1. f \in Files /\ p \in Procs
  BY NamedFile DEF PC, Running, CacheCalls
<1>2. content[f] = "writing" /\ lock[f][p] = "exclusive" /\ ~LockedByOther(f, p)
  BY DEF FileInv, FetchIsExclusive
<1>3. ASSUME pc[s] \in Running
      PROVE  Owner[s] # p
  BY <1>3 DEF FileInv, OneRunning, Running, CacheCalls
<1>4. CASE Fetch(s)
  <2>1. pc[s] = "fetch"
    BY <1>4 DEF Fetch, WriteChunk, FetchOK, FetchError, FetchThrows, BodyEnds
  <2>2. /\ cacheName[s] \in Files /\ Owner[s] \in Procs \ {p}
        /\ lock[cacheName[s]][Owner[s]] = "exclusive"
    BY <1>3, <2>1, NamedFile DEF FileInv, FetchIsExclusive, PC, Running, CacheCalls
  <2>3. cacheName[s] # f
    BY <1>2, <2>2 DEF LockedByOther
  <2> QED
    BY <1>1, <1>4, <2>2, <2>3
       DEF Fetch, WriteChunk, FetchOK, FetchError, FetchThrows, BodyEnds, TypeOK, CacheTypeOK
<1>5. CASE Create(s)
  <2>1. CASE CreateAndLock(Owner[s], cacheName[s])
    <3>1. cacheName[s] \in Files \ {f}
      BY <1>2, <1>5, <2>1, NamedFile DEF Create, CreateAndLock, Cached, PC, Running, CacheCalls
    <3> QED
      BY <1>1, <2>1, <3>1 DEF CreateAndLock, TypeOK, CacheTypeOK
  <2>2. CASE CreateRefused(Owner[s], cacheName[s])
    BY <2>2 DEF CreateRefused, cacheVars
  <2> QED
    BY <1>5, <2>1, <2>2 DEF Create
<1>6. CASE Purge(s)
  <2>1. Owner[s] # p
    BY <1>3, <1>6 DEF Purge, Running, CacheCalls
  <2>2. LockedByOther(f, Owner[s])
    BY <1>1, <1>2, <2>1 DEF LockedByOther
  <2>3. PICK V \in PurgeChoices(Owner[s], cacheName[s]) : RemoveFiles(V)
    BY <1>6 DEF Purge, UpdateAndPurge
  <2>4. f \notin V
    BY <2>2, <2>3 DEF PurgeChoices, Purgeable
  <2> QED
    BY <1>1, <2>3, <2>4 DEF RemoveFiles
<1>7. CASE \/ New(s) \/ StartRetrieve(s) \/ StartThrows(s) \/ ReadLock(s) \/ ReadLock2(s)
           \/ ToShared(s) \/ UpdateInfo(s) \/ CacheCallThrows(s) \/ Unwind(s) \/ Delete(s)
  BY <1>7 DEF New, StartRetrieve, StartThrows, ReadLock, ReadLock2, ToShared, UpdateInfo,
     CacheCallThrows, Unwind, Delete, ReadLockHit, ReadLockMiss, ExclusiveToShared,
     UpdateCacheInfo, CallThrows, UnlockCache, UnlockAndClose, cacheVars
<1> QED
  BY <1>4, <1>5, <1>6, <1>7 DEF Retrieve

LEMMA OthersKeepName ==
    ASSUME TypeOK, NEW r \in Resources, NEW s \in Resources, s # r,
           New(s) \/ Retrieve(s) \/ Delete(s)
    PROVE  pc'[r] = pc[r] /\ cacheName'[r] = cacheName[r]
<1>1. pc'[r] = pc[r]
  <2>1. CASE New(s)
    BY <2>1, GotoMoves DEF New
  <2>2. CASE Retrieve(s)
    BY <2>2, RetrieveMoves
  <2>3. CASE Delete(s)
    BY <2>3 DEF Delete, Forget
  <2> QED
    BY <2>1, <2>2, <2>3
<1>2. cacheName'[r] = cacheName[r]
  <2>1. CASE StartRetrieve(s) \/ StartThrows(s)
    BY <2>1 DEF StartRetrieve, StartThrows, SetName, TypeOK, ResourceTypeOK
  <2>2. CASE Delete(s)
    BY <2>2 DEF Delete, Forget
  <2>3. CASE New(s) \/ ReadLock(s) \/ Create(s) \/ ReadLock2(s) \/ Fetch(s)
    BY <2>3 DEF New, ReadLock, Create, ReadLock2, Fetch, WriteChunk, FetchOK, FetchError,
       FetchThrows, BodyEnds, resVars
  <2>4. CASE ToShared(s) \/ UpdateInfo(s) \/ Purge(s) \/ CacheCallThrows(s) \/ Unwind(s)
    BY <2>4 DEF ToShared, UpdateInfo, Purge, CacheCallThrows, Unwind
  <2> QED
    BY <2>1, <2>2, <2>3, <2>4 DEF Retrieve
<1> QED
  BY <1>1, <1>2

\* An access whose program counter, file and data stay is where it was.
LEMMA SameLeft ==
    ASSUME NEW r \in Resources, pc'[r] = pc[r],
           pc[r] = "fetch" => cacheName'[r] = cacheName[r] /\ size'[cacheName[r]] = size[cacheName[r]]
    PROVE  AccessLeft(r)' = AccessLeft(r) /\ pc'[r] = pc[r]
<1>1. DataLeft(r)' = DataLeft(r)
  BY DEF DataLeft
<1> QED
  BY <1>1 DEF AccessLeft

LEMMA AdvanceStep ==
    ASSUME TypeOK, LeftTyped, LeftTyped', FileInv, Next,
           NEW r \in Resources, pc[r] \in Running
    PROVE  \/ AccessLeft(r)' \in 0..(AccessLeft(r) - 1)
           \/ AccessLeft(r)' = AccessLeft(r) /\ pc'[r] = pc[r]
<1>1. ASSUME NEW s \in Resources, s # r, New(s) \/ Retrieve(s) \/ Delete(s)
      PROVE  AccessLeft(r)' = AccessLeft(r) /\ pc'[r] = pc[r]
  <2>1. pc'[r] = pc[r] /\ cacheName'[r] = cacheName[r]
    BY <1>1, OthersKeepName
  <2>2. pc[r] = "fetch" => size'[cacheName[r]] = size[cacheName[r]]
    BY <1>1, OthersKeepSize
  <2> QED
    BY <2>1, <2>2, SameLeft
<1>2. CASE Retrieve(r)
  BY <1>2, OwnStep
<1>3. ~New(r) /\ ~Delete(r)
  BY DEF New, Delete, Running, CacheCalls
<1>4. ASSUME NEW q \in Procs, Crash(q), q = Owner[r]
      PROVE  AccessLeft(r)' \in 0..(AccessLeft(r) - 1)
  <2>1. pc'[r] = "none"
    BY <1>4 DEF Crash, Forget
  <2>2. CallsLeft[pc'[r]] < CallsLeft[pc[r]]
    BY <2>1 DEF CallsLeft, Running, CacheCalls
  <2> QED
    BY <2>1, <2>2, NoDataLeft, LaterCall
<1>5. ASSUME NEW q \in Procs, Crash(q), q # Owner[r]
      PROVE  AccessLeft(r)' = AccessLeft(r) /\ pc'[r] = pc[r]
  <2>1. pc'[r] = pc[r] /\ cacheName'[r] = cacheName[r] /\ size' = size
    BY <1>5 DEF Crash, Forget, ProcessEnds
  <2> QED
    BY <2>1, SameLeft
<1> QED
  BY <1>1, <1>2, <1>3, <1>4, <1>5 DEF Next

(* An access takes at most eight calls and the pieces of its response: no  *)
(* step of its own, of a competitor or of a crash sets it back.            *)
THEOREM AccessesAdvance == Spec => AccessAdvances
<1> DEFINE Advances ==
      \A r \in Resources : pc[r] \in Running =>
         \/ AccessLeft(r)' \in 0..(AccessLeft(r) - 1)
         \/ AccessLeft(r)' = AccessLeft(r) /\ pc'[r] = pc[r]
<1>1. Spec => []LeftTyped
  BY LeftIsTyped, TypeCorrect, PTL
<1>2. TypeOK /\ LeftTyped /\ LeftTyped' /\ FileInv /\ [Next]_vars => [Advances]_vars
  BY AdvanceStep
<1>3. Spec => [][Advances]_vars
  BY <1>1, <1>2, FilesInvariant, TypeCorrect, PTL DEF Spec
<1> QED
  BY <1>3 DEF AccessAdvances

-----------------------------------------------------------------------------
(* The same with other resources in the process: what r has in use is out  *)
(* of reach for everybody else.                                            *)
LEMMA HomeStep ==
    ASSUME TypeOK, FileInv, Next, NEW r \in Resources,
           pc[r] = "ready", pc'[r] = "ready", Protected(r),
           \A s \in Resources \ {r} : Owner[s] = Owner[r] =>
              ~Purge(s) /\ (cacheName[s] = cacheName[r] => ~Delete(s))
    PROVE  LET f == cacheName[r] IN
           /\ cacheName'[r] = f
           /\ content'[f] = content[f] /\ size'[f] = size[f]
           /\ lock'[f][Owner[r]] = "shared"
<1> DEFINE f == cacheName[r]
           p == Owner[r]
           Kept == /\ cacheName'[r] = f
                   /\ content'[f] = content[f] /\ size'[f] = size[f]
                   /\ lock'[f][p] = "shared"
<1>1. f \in Files /\ p \in Procs
  BY NamedFile DEF PC, Running, CacheCalls
<1>2. content[f] # "absent" /\ lock[f][p] = "shared"
  BY DEF Protected, Cached
<1>3. ASSUME NEW s \in Resources, pc[s] = "fetch"
      PROVE  cacheName[s] \in Files \ {f}
  <2>1. cacheName[s] \in Files
    BY <1>3, NamedFile DEF PC, Running, CacheCalls
  <2>2. lock[cacheName[s]][Owner[s]] = "exclusive" /\ ~LockedByOther(cacheName[s], Owner[s])
    BY <1>3 DEF FileInv, FetchIsExclusive
  <2> QED
    BY <1>1, <1>2, <2>1, <2>2 DEF LockedByOther
<1>4. ASSUME NEW s \in Resources, New(s) \/ Retrieve(s) \/ Delete(s)
      PROVE  s # r /\ cacheName'[r] = f
  <2>1. s # r
    <3>1. ~New(r) /\ ~Delete(r)
      BY DEF New, Delete, Forget
    <3>2. ~Retrieve(r)
      BY RetrieveMoves DEF Running, CacheCalls
    <3> QED
      BY <1>4, <3>1, <3>2
  <2> QED
    BY <1>4, <2>1, OthersKeepName
<1>5. ASSUME NEW s \in Resources, Fetch(s)
      PROVE  Kept
  <2>1. cacheName[s] \in Files \ {f}
    BY <1>3, <1>5 DEF Fetch, WriteChunk, FetchOK, FetchError, FetchThrows, BodyEnds
  <2>2. lock' = lock
    BY <1>5 DEF Fetch, WriteChunk, FetchOK, FetchError, FetchThrows, BodyEnds
  <2>3. content'[f] = content[f] /\ size'[f] = size[f]
    BY <1>1, <1>5, <2>1
       DEF Fetch, WriteChunk, FetchOK, FetchError, FetchThrows, BodyEnds, TypeOK, CacheTypeOK
  <2> QED
    BY <1>2, <1>4, <1>5, <2>2, <2>3 DEF Retrieve
<1>6. ASSUME NEW s \in Resources, Create(s)
      PROVE  Kept
  <2>1. CASE CreateAndLock(Owner[s], cacheName[s])
    <3>1. cacheName[s] \in Files \ {f}
      BY <1>2, <1>6, <2>1, NamedFile DEF Create, CreateAndLock, Cached, PC, Running, CacheCalls
    <3>2. content'[f] = content[f] /\ size'[f] = size[f] /\ lock'[f] = lock[f]
      BY <1>1, <2>1, <3>1 DEF CreateAndLock, SetLock, TypeOK, CacheTypeOK
    <3> QED
      BY <1>2, <1>4, <1>6, <3>2 DEF Retrieve
  <2>2. CASE CreateRefused(Owner[s], cacheName[s])
    BY <1>2, <1>4, <1>6, <2>2 DEF CreateRefused, cacheVars, Retrieve
  <2> QED
    BY <1>6, <2>1, <2>2 DEF Create
<1>7. ASSUME NEW s \in Resources, Purge(s)
      PROVE  Kept
  <2>1. cacheName'[r] = f /\ Owner[s] # p
    BY <1>4, <1>7 DEF Retrieve
  <2>2. LockedByOther(f, Owner[s])
    BY <1>1, <1>2, <2>1 DEF LockedByOther
  <2>3. PICK V \in PurgeChoices(Owner[s], cacheName[s]) : RemoveFiles(V)
    BY <1>7 DEF Purge, UpdateAndPurge
  <2>4. f \notin V
    BY <2>2, <2>3 DEF PurgeChoices, Purgeable
  <2> QED
    BY <1>1, <1>2, <2>1, <2>3, <2>4 DEF RemoveFiles
<1>8. ASSUME NEW s \in Resources, ReadLock(s) \/ ReadLock2(s) \/ ToShared(s)
      PROVE  Kept
  <2>1. content' = content /\ size' = size
    BY <1>8 DEF ReadLock, ReadLock2, ToShared, ReadLockHit, ReadLockMiss, ExclusiveToShared, cacheVars
  <2>2. lock' = lock \/ SetLock(cacheName[s], Owner[s], "shared")
    BY <1>8 DEF ReadLock, ReadLock2, ToShared, ReadLockHit, ReadLockMiss, ExclusiveToShared, cacheVars
  <2>3. lock'[f][p] = "shared"
    BY <1>1, <1>2, <2>2 DEF SetLock, TypeOK, CacheTypeOK
  <2> QED
    BY <1>4, <1>8, <2>1, <2>3 DEF Retrieve
<1>9. ASSUME NEW s \in Resources, Delete(s)
      PROVE  Kept
  <2>1. cacheName'[r] = f /\ (Owner[s] = p => cacheName[s] # f)
    BY <1>4, <1>9
  <2>2. content' = content /\ size' = size
    BY <1>9 DEF Delete, UnlockAndClose, cacheVars
  <2>3. lock' = lock \/ SetLock(cacheName[s], Owner[s], "none")
    BY <1>9 DEF Delete, UnlockAndClose, cacheVars
  <2>4. lock'[f][p] = lock[f][p]
    BY <1>1, <2>1, <2>3 DEF SetLock, TypeOK, CacheTypeOK
  <2> QED
    BY <1>2, <2>1, <2>2, <2>4
<1>10. ASSUME NEW s \in Resources,
              \/ New(s) \/ StartRetrieve(s) \/ StartThrows(s) \/ UpdateInfo(s)
              \/ CacheCallThrows(s) \/ Unwind(s)
       PROVE  Kept
  <2>1. UNCHANGED <<content, size, lock>>
    BY <1>10 DEF New, StartRetrieve, StartThrows, UpdateInfo, CacheCallThrows, Unwind,
       UpdateCacheInfo, CallThrows, UnlockCache, cacheVars
  <2> QED
    BY <1>2, <1>4, <1>10, <2>1 DEF Retrieve
<1>11. ASSUME NEW q \in Procs, Crash(q)
       PROVE  Kept
  <2> DEFINE writes == {cacheName[s] : s \in {t \in Resources : Owner[t] = q /\ pc[t] = "fetch"}}
  <2>1. ProcessEnds(q, writes)
    BY <1>11 DEF Crash
  <2>2. f \notin writes
    BY <1>3
  <2>3. q # p /\ cacheName'[r] = f
    BY <1>11 DEF Crash, Forget
  <2>4. content'[f] = content[f] /\ size'[f] = size[f] /\ lock'[f] = [lock[f] EXCEPT ![q] = "none"]
    BY <1>1, <2>1, <2>2 DEF ProcessEnds
  <2>5. lock'[f][p] = lock[f][p]
    BY <1>1, <2>3, <2>4 DEF TypeOK, CacheTypeOK
  <2> QED
    BY <1>2, <2>3, <2>4, <2>5
<1> HIDE DEF Kept
<1>12. Kept
  BY <1>5, <1>6, <1>7, <1>8, <1>9, <1>10, <1>11 DEF Next, Retrieve
<1> QED
  BY <1>12 DEF Kept

(* A reader in a process with several resources has only these to fear: a  *)
(* purge of its own process, and the destructor of a resource on the same  *)
(* file.  No step of another process takes its lock or alters its file.    *)
THEOREM DisturbedOnlyAtHome == Spec => DisturbedAtHome
<1> DEFINE AtHome ==
      \A r \in Resources : pc[r] = "ready" /\ pc'[r] = "ready" /\ Protected(r) =>
         LET f == cacheName[r] IN
         \/ Protected(r)' /\ content'[f] = content[f] /\ size'[f] = size[f]
         \/ \E s \in Resources \ {r} :
              Owner[s] = Owner[r] /\ (Purge(s) \/ (cacheName[s] = f /\ Delete(s)))
<1>1. TypeOK /\ FileInv /\ [Next]_vars => [AtHome]_vars
  <2> SUFFICES ASSUME TypeOK, FileInv, Next, NEW r \in Resources,
                      pc[r] = "ready", pc'[r] = "ready", Protected(r),
                      \A s \in Resources \ {r} : Owner[s] = Owner[r] =>
                         ~Purge(s) /\ (cacheName[s] = cacheName[r] => ~Delete(s))
               PROVE  LET f == cacheName[r] IN
                      Protected(r)' /\ content'[f] = content[f] /\ size'[f] = size[f]
    OBVIOUS
  <2>1. LET f == cacheName[r] IN
        /\ cacheName'[r] = f
        /\ content'[f] = content[f] /\ size'[f] = size[f]
        /\ lock'[f][Owner[r]] = "shared"
    BY HomeStep
  <2> QED
    BY <2>1 DEF Protected, Cached
<1>2. Spec => [][AtHome]_vars
  BY <1>1, FilesInvariant, TypeCorrect, PTL DEF Spec
<1> QED
  BY <1>2 DEF DisturbedAtHome

-----------------------------------------------------------------------------
(* The recorded size and the files.  Units(F, sizes) are the units of data *)
(* in the files of F if their sizes are these.                             *)
Units(F, sizes) == {u \in F \X (1..MaxBytes) : u[2] <= sizes[u[1]]}

LEMMA UnitsFinite ==
    ASSUME NEW F \in SUBSET Files, NEW sizes
    PROVE  IsFiniteSet(Units(F, sizes)) /\ Cardinality(Units(F, sizes)) \in Nat
<1>1. IsFiniteSet(F) /\ IsFiniteSet(1..MaxBytes)
  BY CacheAssumption, FS_Subset, FS_Interval
<1>2. IsFiniteSet(Units(F, sizes))
  BY <1>1, FS_Product, FS_Subset DEF Units
<1> QED
  BY <1>2, FS_CardinalityType

LEMMA FewerUnits ==
    ASSUME NEW G \in SUBSET Files, NEW F \in SUBSET G, NEW old, NEW new,
           \A f \in F : new[f] = old[f]
    PROVE  Cardinality(Units(F, new)) <= Cardinality(Units(G, old))
<1>1. Units(F, new) \in SUBSET Units(G, old)
  BY DEF Units
<1> QED
  BY <1>1, UnitsFinite, FS_Subset

(* One file more is at most its size more.                                 *)
LEMMA UnitsOfFile ==
    ASSUME NEW f \in Files, NEW sizes, sizes[f] \in 0..MaxBytes
    PROVE  Cardinality(Units({f}, sizes)) = sizes[f]
<1> DEFINE n == sizes[f]
           unit == [i \in 1..n |-> <<f, i>>]
<1>1. n \in Nat /\ n <= MaxBytes /\ MaxBytes \in Nat
  BY CacheAssumption
<1>2. Units({f}, sizes) = {<<f, i>> : i \in 1..n}
  <2>1. ASSUME NEW u \in Units({f}, sizes)
        PROVE  u \in {<<f, i>> : i \in 1..n}
    <3>1. u = <<u[1], u[2]>> /\ u[1] = f /\ u[2] \in 1..MaxBytes /\ u[2] <= n
      BY DEF Units
    <3>2. u[2] \in 1..n
      BY <1>1, <3>1
    <3> QED
      BY <3>1, <3>2
  <2>2. ASSUME NEW i \in 1..n
        PROVE  <<f, i>> \in Units({f}, sizes)
    <3>1. i \in 1..MaxBytes /\ i <= n
      BY <1>1
    <3> QED
      BY <3>1 DEF Units
  <2> QED
    BY <2>1, <2>2
<1>3. unit \in Bijection(1..n, Units({f}, sizes))
  <2>1. unit \in [1..n -> Units({f}, sizes)]
    BY <1>2
  <2>2. \A i, j \in 1..n : unit[i] = unit[j] => i = j
    OBVIOUS
  <2>3. \A u \in Units({f}, sizes) : \E i \in 1..n : unit[i] = u
    BY <1>2
  <2> HIDE DEF unit
  <2> QED
    BY <2>1, <2>2, <2>3 DEF Bijection, Injection, Surjection, IsInjective
<1>4. ExistsBijection(1..n, Units({f}, sizes))
  BY <1>3 DEF ExistsBijection
<1> HIDE DEF n
<1>5. Cardinality(Units({f}, sizes)) = n
  BY <1>1, <1>4, FS_CountingElements
<1> QED
  BY <1>5 DEF n

LEMMA OneFileMore ==
    ASSUME NEW F \in SUBSET Files, NEW f \in Files, NEW sizes, sizes[f] \in 0..MaxBytes
    PROVE  Cardinality(Units(F \cup {f}, sizes)) <= Cardinality(Units(F, sizes)) + sizes[f]
<1> DEFINE A == Units(F, sizes)
           B == Units({f}, sizes)
<1> DEFINE total == Cardinality(Units(F \cup {f}, sizes))
<1>1. Units(F \cup {f}, sizes) = A \cup B
  BY DEF Units
<1>2. /\ IsFiniteSet(A) /\ Cardinality(A) \in Nat
      /\ IsFiniteSet(B) /\ Cardinality(B) = sizes[f]
  BY UnitsFinite, UnitsOfFile
<1> HIDE DEF A, B
<1>3. Cardinality(A \cup B) = Cardinality(A) + Cardinality(B) - Cardinality(A \cap B)
  BY <1>2, FS_Union
<1>4. Cardinality(A \cap B) \in Nat
  <2>1. IsFiniteSet(A \cap B)
    BY <1>2, FS_Subset
  <2> QED
    BY <2>1, FS_CardinalityType
<1>5. sizes[f] \in Nat
  BY CacheAssumption
<1>6. total = Cardinality(A) + sizes[f] - Cardinality(A \cap B)
  BY <1>1, <1>2, <1>3
<1> HIDE DEF total
<1>7. total <= Cardinality(A) + sizes[f]
  BY <1>2, <1>4, <1>5, <1>6
<1> QED
  BY <1>7 DEF total, A

-----------------------------------------------------------------------------
\* The files that the recorded size must cover, one by one.
BeingAdded(f) == \E r \in Resources : pc[r] \in {"toShared", "updateInfo"} /\ cacheName[r] = f

LEMMA CountedFiles ==
    /\ \A f : f \in Counted <=> f \in Files /\ content[f] = "complete" /\ ~BeingAdded(f)
    /\ \A f : f \in Counted' <=> f \in Files /\ content'[f] = "complete" /\ ~BeingAdded(f)'
BY DEF Counted, BeingAdded

Covered == faults = 0 => Cardinality(Units(Counted, size)) <= info

LEMMA CoveredIsCover == Covered => SizeCoversCache
BY DEF Covered, SizeCoversCache, TotalSize, Stored, Units

\* A step that counts no other file and leaves alone those that count.
NoneAdded == \A f \in Counted' : f \in Counted /\ size'[f] = size[f]

LEMMA FewerCounted ==
    ASSUME NoneAdded
    PROVE  /\ Cardinality(Units(Counted', size')) <= Cardinality(Units(Counted, size))
           /\ Cardinality(Units(Counted', size')) \in Nat
           /\ Cardinality(Units(Counted, size)) \in Nat
<1>1. Counted \in SUBSET Files /\ Counted' \in SUBSET Counted
  BY CountedFiles DEF NoneAdded
<1>2. \A f \in Counted' : size'[f] = size[f]
  BY DEF NoneAdded
<1> QED
  BY <1>1, <1>2, FewerUnits, UnitsFinite

\* Such a step of one resource.
LEMMA NoneAddedBy ==
    ASSUME NEW r \in Resources,
           \A s \in Resources : s # r => pc'[s] = pc[s] /\ cacheName'[s] = cacheName[s],
           pc[r] \in {"toShared", "updateInfo"} =>
              pc'[r] \in {"toShared", "updateInfo"} /\ cacheName'[r] = cacheName[r],
           \A f \in Files : content'[f] = "complete" =>
              \/ content[f] = "complete" /\ size'[f] = size[f]
              \/ BeingAdded(f)'
    PROVE  NoneAdded
<1>1. \A f \in Files : BeingAdded(f) => BeingAdded(f)'
  BY DEF BeingAdded
<1> QED
  BY <1>1, CountedFiles DEF NoneAdded

LEMMA UpdateInfoCovers ==
    ASSUME TypeOK, Covered, NEW r \in Resources, UpdateInfo(r)
    PROVE  Covered'
<1> DEFINE f == cacheName[r]
<1>1. f \in Files /\ pc[r] = "updateInfo"
  BY NamedFile DEF UpdateInfo, PC, Running, CacheCalls
<1>2. /\ UNCHANGED <<content, size, cacheName, faults>> /\ info' = info + size[f]
      /\ \A s \in Resources : s # r => pc'[s] = pc[s]
  BY GotoMoves DEF UpdateInfo, UpdateCacheInfo, NewInfo
<1>3. \A g \in Files : g # f => (BeingAdded(g) => BeingAdded(g)')
  BY <1>1, <1>2 DEF BeingAdded
<1>4. Counted \in SUBSET Files /\ Counted' \in SUBSET (Counted \cup {f})
  BY <1>1, <1>2, <1>3, CountedFiles
<1>5. size[f] \in 0..MaxBytes /\ info \in Nat
  BY <1>1 DEF TypeOK, CacheTypeOK
<1>6. Cardinality(Units(Counted \cup {f}, size)) <= Cardinality(Units(Counted, size)) + size[f]
  BY <1>1, <1>4, <1>5, OneFileMore
<1>7. Cardinality(Units(Counted', size')) <= Cardinality(Units(Counted \cup {f}, size))
  BY <1>1, <1>2, <1>4, FewerUnits
<1>8. /\ Cardinality(Units(Counted', size')) \in Nat
      /\ Cardinality(Units(Counted \cup {f}, size)) \in Nat
      /\ Cardinality(Units(Counted, size)) \in Nat
  BY <1>1, <1>4, UnitsFinite
<1>9. size[f] \in Nat
  BY <1>5, CacheAssumption
<1> DEFINE n == Cardinality(Units(Counted, size))
           m == Cardinality(Units(Counted \cup {f}, size))
           k == Cardinality(Units(Counted', size'))
<1>10. faults = 0 => n <= info
  BY DEF Covered
<1>11. k <= m /\ m <= n + size[f] /\ k \in Nat /\ m \in Nat /\ n \in Nat
  BY <1>6, <1>7, <1>8
<1> HIDE DEF k, m, n, f
<1>12. faults' = 0 => k <= info'
  BY <1>2, <1>5, <1>9, <1>10, <1>11
<1> QED
  BY <1>12 DEF Covered, k

LEMMA PurgeCovers ==
    ASSUME TypeOK, Covered, NEW r \in Resources, Purge(r)
    PROVE  Covered'
<1>1. PICK V \in PurgeChoices(Owner[r], cacheName[r]) : RemoveFiles(V) /\ info' = TotalSize(Files \ V)
  BY DEF Purge, UpdateAndPurge
<1>2. \A f \in Files : /\ content'[f] = IF f \in V THEN "absent" ELSE content[f]
                       /\ f \notin V => size'[f] = size[f]
  BY <1>1 DEF RemoveFiles
<1>3. Counted' \in SUBSET (Files \ V)
  BY <1>2, CountedFiles
<1>4. \A f \in Counted' : size'[f] = size[f]
  BY <1>2, <1>3
<1>5. Cardinality(Units(Counted', size')) <= Cardinality(Units(Files \ V, size))
  BY <1>3, <1>4, FewerUnits
<1>6. info' = Cardinality(Units(Files \ V, size))
  BY <1>1 DEF TotalSize, Stored, Units
<1> QED
  BY <1>5, <1>6 DEF Covered

(* Apart from faults, only the two calls that reckon with the recorded     *)
(* size make a file count, or end the wait for a purge.                    *)
LEMMA CountedStep ==
    ASSUME TypeOK, FileInv, [Next]_vars,
           ~Fault, \A r \in Resources : ~UpdateInfo(r) /\ ~Purge(r)
    PROVE  /\ NoneAdded
           /\ UNCHANGED <<info, faults>>
           /\ \A r \in Resources : pc[r] = "purge" => pc'[r] = "purge"
<1> DEFINE Quiet == /\ NoneAdded
                    /\ UNCHANGED <<info, faults>>
                    /\ \A r \in Resources : pc[r] = "purge" => pc'[r] = "purge"
<1>2. ASSUME NEW r \in Resources, New(r)
      PROVE  Quiet
  <2>1. pc[r] = "none" /\ \A s \in Resources : s # r => pc'[s] = pc[s]
    BY <1>2, GotoMoves DEF New
  <2> QED
    BY <1>2, <2>1, NoneAddedBy DEF New, cacheVars
<1>3. ASSUME NEW r \in Resources, StartRetrieve(r)
      PROVE  Quiet
  <2>1. \A s \in Resources : s # r => pc'[s] = pc[s] /\ cacheName'[s] = cacheName[s]
    BY <1>3, GotoMoves DEF StartRetrieve, SetName
  <2> QED
    BY <1>3, <2>1, NoneAddedBy DEF StartRetrieve, cacheVars
<1>4. ASSUME NEW r \in Resources, StartThrows(r) \/ CacheCallThrows(r) \/ FetchThrows(r)
      PROVE  FALSE
  BY <1>4 DEF StartThrows, CacheCallThrows, FetchThrows
<1>5. ASSUME NEW r \in Resources, ReadLock(r) \/ ReadLock2(r) \/ Unwind(r)
      PROVE  Quiet
  <2>1. \A s \in Resources : s # r => pc'[s] = pc[s]
    BY <1>5, RetrieveMoves DEF Retrieve
  <2>2. UNCHANGED <<content, size, info, cacheName, faults>>
    BY <1>5 DEF ReadLock, ReadLock2, Unwind, ReadLockHit, ReadLockMiss, UnlockCache, cacheVars
  <2>3. pc[r] \notin {"toShared", "updateInfo", "purge"}
    BY <1>5 DEF ReadLock, ReadLock2, Unwind
  <2> QED
    BY <2>1, <2>2, <2>3, NoneAddedBy
<1>6. ASSUME NEW r \in Resources, Create(r)
      PROVE  Quiet
  <2>1. \A s \in Resources : s # r => pc'[s] = pc[s]
    BY <1>6, RetrieveMoves DEF Retrieve
  <2>2. UNCHANGED <<info, cacheName, faults>> /\ pc[r] = "create"
    BY <1>6 DEF Create, CreateAndLock, CreateRefused, cacheVars
  <2>3. \A f \in Files : content'[f] = "complete" => content[f] = "complete" /\ size'[f] = size[f]
    BY <1>6 DEF Create, CreateAndLock, CreateRefused, cacheVars, TypeOK, CacheTypeOK
  <2> QED
    BY <2>1, <2>2, <2>3, NoneAddedBy
<1>7. ASSUME NEW r \in Resources, WriteChunk(r)
      PROVE  Quiet
  <2>1. UNCHANGED <<content, info, resVars>> /\ pc[r] = "fetch"
    BY <1>7 DEF WriteChunk
  <2>2. content[cacheName[r]] = "writing"
    BY <2>1 DEF FileInv, FetchIsExclusive
  <2>3. \A f \in Files : f # cacheName[r] => size'[f] = size[f]
    BY <1>7 DEF WriteChunk, TypeOK, CacheTypeOK
  <2> QED
    BY <2>1, <2>2, <2>3, NoneAddedBy DEF resVars
<1>8. ASSUME NEW r \in Resources, FetchOK(r)
      PROVE  Quiet
  <2>1. pc'[r] = "toShared" /\ pc[r] = "fetch" /\ \A s \in Resources : s # r => pc'[s] = pc[s]
    BY <1>8, GotoMoves DEF FetchOK, BodyEnds
  <2>2. UNCHANGED <<size, info, cacheName, faults>>
    BY <1>8 DEF FetchOK, BodyEnds
  <2>3. \A f \in Files : f # cacheName[r] => content'[f] = content[f]
    BY <1>8 DEF FetchOK, BodyEnds, TypeOK, CacheTypeOK
  <2>4. BeingAdded(cacheName[r])'
    BY <2>1, <2>2 DEF BeingAdded
  <2> QED
    BY <2>1, <2>2, <2>3, <2>4, NoneAddedBy
<1>9. ASSUME NEW r \in Resources, FetchError(r)
      PROVE  Quiet
  <2>1. pc[r] = "fetch" /\ \A s \in Resources : s # r => pc'[s] = pc[s]
    BY <1>9, GotoMoves DEF FetchError, BodyEnds
  <2>2. UNCHANGED <<size, info, cacheName, faults>>
    BY <1>9 DEF FetchError, BodyEnds
  <2>3. \A f \in Files : content'[f] = "complete" => content[f] = "complete"
    BY <1>9 DEF FetchError, BodyEnds, TypeOK, CacheTypeOK
  <2> QED
    BY <2>1, <2>2, <2>3, NoneAddedBy
<1>10. ASSUME NEW r \in Resources, ToShared(r)
       PROVE  Quiet
  <2>1. /\ pc[r] = "toShared" /\ pc'[r] = "updateInfo"
        /\ \A s \in Resources : s # r => pc'[s] = pc[s]
    BY <1>10, GotoMoves DEF ToShared
  <2>2. UNCHANGED <<content, size, info, cacheName, faults>>
    BY <1>10 DEF ToShared, ExclusiveToShared
  <2> QED
    BY <2>1, <2>2, NoneAddedBy
<1>11. ASSUME NEW r \in Resources, Delete(r)
       PROVE  Quiet
  <2>1. \A s \in Resources : s # r => pc'[s] = pc[s] /\ cacheName'[s] = cacheName[s]
    BY <1>11 DEF Delete, Forget
  <2>2. UNCHANGED <<content, size, info, faults>> /\ pc[r] \in {"ready", "failed"}
    BY <1>11 DEF Delete, UnlockAndClose, cacheVars
  <2> QED
    BY <2>1, <2>2, NoneAddedBy
<1>12. ASSUME NEW p \in Procs, Crash(p)
       PROVE  FALSE
  BY <1>12 DEF Crash
<1>13. CASE UNCHANGED vars
  BY <1>13, CountedFiles DEF vars, cacheVars, resVars, BeingAdded, NoneAdded
<1> QED
  BY <1>2, <1>3, <1>4, <1>5, <1>6, <1>7, <1>8, <1>9, <1>10, <1>11, <1>12, <1>13
     DEF Next, Retrieve, Fetch

LEMMA FaultCounts == TypeOK /\ Fault => faults' # 0
<1>1. TypeOK => faults \in 0..MaxFaults /\ MaxFaults \in Nat
  BY ResourceAssumption DEF TypeOK, ResourceTypeOK
<1> QED
  BY <1>1 DEF Fault

LEMMA CoverStep == TypeOK /\ FileInv /\ Covered /\ [Next]_vars => Covered'
<1> SUFFICES ASSUME TypeOK, FileInv, Covered, [Next]_vars
             PROVE  Covered'
  OBVIOUS
<1>1. CASE Fault
  BY <1>1, FaultCounts DEF Covered
<1>2. CASE ~Fault /\ \A r \in Resources : ~UpdateInfo(r) /\ ~Purge(r)
  <2>1. NoneAdded /\ UNCHANGED <<info, faults>>
    BY <1>2, CountedStep
  <2>2. info \in Nat
    BY DEF TypeOK, CacheTypeOK
  <2> QED
    BY <2>1, <2>2, FewerCounted DEF Covered
<1> QED
  BY <1>1, <1>2, UpdateInfoCovers, PurgeCovers

LEMMA CoverInvariant == Spec => []Covered
<1>1. Init => Covered
  <2> SUFFICES ASSUME Init
               PROVE  Covered
    OBVIOUS
  <2>1. Counted = {} /\ info = 0
    BY DEF Init, CacheInit, Counted
  <2>2. Units({}, size) = {}
    BY DEF Units
  <2>3. Cardinality(Units(Counted, size)) = 0
    BY <2>1, <2>2, FS_EmptySet
  <2> QED
    BY <2>1, <2>3 DEF Covered
<1> QED
  BY <1>1, CoverStep, FilesInvariant, TypeCorrect, PTL DEF Spec

(* Without crashes and unexpected exceptions the cache never holds more of *)
(* successful downloads than it has recorded, those being added excepted.  *)
THEOREM SizeIsCovered == Spec => []SizeCoversCache
BY CoverInvariant, CoveredIsCover, PTL

-----------------------------------------------------------------------------
(* The limit of the cache.  A download that is not followed by a purge has *)
(* been counted, and the sum is within the limit.                          *)
LEMMA UpdateInfoKeepsLimit ==
    ASSUME TypeOK, Covered, NEW r \in Resources, UpdateInfo(r)
    PROVE  ~OverLimit'
<1> SUFFICES ASSUME OverLimit'
             PROVE  FALSE
  OBVIOUS
<1>1. pc'[r] = IF CacheTooBig(info') THEN "purge" ELSE "ready"
  BY GotoMoves DEF UpdateInfo, UpdateCacheInfo
<1>2. ~(info' > MaxCacheSize)
  BY <1>1 DEF OverLimit, CacheTooBig
<1>3. Cardinality(Units(Counted', size')) <= info'
  BY UpdateInfoCovers DEF Covered, OverLimit
<1>4. Cardinality(Units(Counted', size')) > MaxCacheSize
  BY DEF OverLimit, TotalSize, Stored, Units
<1>5. Cardinality(Units(Counted', size')) \in Nat
  <2>1. Counted' \in SUBSET Files
    BY CountedFiles
  <2> QED
    BY <2>1, UnitsFinite
<1>6. info' \in Nat /\ MaxCacheSize \in Nat
  <2>1. cacheName[r] \in Files
    BY NamedFile DEF UpdateInfo, PC, Running, CacheCalls
  <2>2. size[cacheName[r]] \in Nat /\ info \in Nat
    BY <2>1, CacheAssumption DEF TypeOK, CacheTypeOK
  <2> QED
    BY <2>2, CacheAssumption DEF UpdateInfo, UpdateCacheInfo, NewInfo
<1> QED
  BY <1>2, <1>3, <1>4, <1>5, <1>6

(* A purge that leaves too many data has removed all that it may.          *)
LEMMA PurgeLeaves ==
    ASSUME TypeOK, NEW r \in Resources, Purge(r), OverLimit',
           NEW f \in Files \ {cacheName[r]}, Cached(f)'
    PROVE  LockedByOther(f, Owner[r])
<1>1. PICK V \in PurgeChoices(Owner[r], cacheName[r]) : RemoveFiles(V)
  BY DEF Purge, UpdateAndPurge
<1>2. \A g \in Files : /\ content'[g] = IF g \in V THEN "absent" ELSE content[g]
                       /\ g \notin V => size'[g] = size[g]
  BY <1>1 DEF RemoveFiles
<1>3. V \in SUBSET Files
  BY <1>1 DEF PurgeChoices, Purgeable
<1>4. TotalSize(Files \ V) > MaxCacheSize
  <2> DEFINE left == Cardinality(Units(Counted', size'))
             rest == Cardinality(Units(Files \ V, size))
  <2>1. Counted' \in SUBSET (Files \ V)
    BY <1>2, CountedFiles
  <2>2. \A g \in Counted' : size'[g] = size[g]
    BY <1>2, <2>1
  <2>3. left <= rest
    BY <2>1, <2>2, FewerUnits
  <2>4. left \in Nat /\ rest \in Nat /\ MaxCacheSize \in Nat
    BY <2>1, UnitsFinite, CacheAssumption
  <2>5. left > MaxCacheSize
    BY DEF OverLimit, TotalSize, Stored, Units
  <2> HIDE DEF left, rest
  <2>6. rest > MaxCacheSize
    BY <2>3, <2>4, <2>5
  <2> QED
    BY <2>6 DEF rest, TotalSize, Stored, Units
<1>5. V = Purgeable(Owner[r], cacheName[r])
  <2>1. V # {} => CacheTooBig(TotalSize(Files))
    BY <1>1 DEF PurgeChoices
  <2>2. CacheTooBig(TotalSize(Files))
    <3>1. V = {} => Files \ V = Files
      OBVIOUS
    <3> QED
      BY <1>4, <2>1, <3>1 DEF CacheTooBig
  <2>3. PurgeStops(V, Purgeable(Owner[r], cacheName[r]))
    BY <1>1, <2>2 DEF PurgeChoices
  <2>4. ~(TotalSize(Files \ V) <= PurgeTarget)
    <3>1. TotalSize(Files \ V) \in Nat
      BY <1>3, TotalSizeNat
    <3> QED
      BY <1>4, <3>1, CacheAssumption
  <2> QED
    BY <2>3, <2>4 DEF PurgeStops
<1>6. f \notin V /\ Cached(f)
  BY <1>2 DEF Cached
<1> QED
  BY <1>5, <1>6 DEF Purgeable

LEMMA LimitStep ==
    ASSUME TypeOK, FileInv, Covered, [Next]_vars, OverLimit', ~OverLimit
    PROVE  \E r \in Resources : Purge(r)
<1>1. ~Fault
  BY FaultCounts DEF OverLimit
<1>2. ASSUME \A r \in Resources : ~UpdateInfo(r) /\ ~Purge(r)
      PROVE  FALSE
  <2>1. /\ NoneAdded
        /\ UNCHANGED <<info, faults>>
        /\ \A r \in Resources : pc[r] = "purge" => pc'[r] = "purge"
    BY <1>1, <1>2, CountedStep
  <2>2. Cardinality(Units(Counted', size')) > MaxCacheSize /\ MaxCacheSize \in Nat
    BY CacheAssumption DEF OverLimit, TotalSize, Stored, Units
  <2>3. Cardinality(Units(Counted, size)) > MaxCacheSize
    BY <2>1, <2>2, FewerCounted
  <2>4. faults = 0 /\ \A r \in Resources : pc[r] # "purge"
    BY <2>1 DEF OverLimit
  <2> QED
    BY <2>3, <2>4 DEF OverLimit, TotalSize, Stored, Units
<1> QED
  BY <1>2, UpdateInfoKeepsLimit

(* The limit is a limit: without faults, what the cache holds of           *)
(* successful downloads outgrows it only by what others have in use when a *)
(* purge is due, however downloads, purges and readers interleave.         *)
THEOREM LimitIsKept == Spec => LimitYieldsToUse
<1> DEFINE Yields ==
      OverLimit' => \/ OverLimit
                    \/ \E r \in Resources : Purge(r) /\
                         \A f \in Files \ {cacheName[r]} :
                            Cached(f)' => LockedByOther(f, Owner[r])
<1>1. TypeOK /\ FileInv /\ Covered /\ [Next]_vars => [Yields]_vars
  <2> SUFFICES ASSUME TypeOK, FileInv, Covered, [Next]_vars, OverLimit', ~OverLimit
               PROVE  \E r \in Resources : Purge(r) /\
                        \A f \in Files \ {cacheName[r]} :
                           Cached(f)' => LockedByOther(f, Owner[r])
    OBVIOUS
  <2>1. PICK r \in Resources : Purge(r)
    BY LimitStep
  <2> QED
    BY <2>1, PurgeLeaves
<1>2. Spec => [][Yields]_vars
  BY <1>1, CoverInvariant, FilesInvariant, TypeCorrect, PTL DEF Spec
<1> QED
  BY <1>2 DEF LimitYieldsToUse
=============================================================================
