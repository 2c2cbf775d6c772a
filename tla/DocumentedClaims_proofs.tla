------------------------ MODULE DocumentedClaims_proofs ------------------------
(***************************************************************************)
(* The conditions under which the claims of DocumentedClaims do hold: each *)
(* theorem names the one thing behind the counterexample of a run.         *)
(***************************************************************************)
EXTENDS DocumentedClaims, RemoteHttpResource_proofs

\* No download fails, and no process ends.
NoFailure == (\A r \in Resources : ~FetchError(r)) /\ (\A p \in Procs : ~Crash(p))

NoneAborted == \A f \in Files : content[f] # "aborted"

LEMMA NoneAbortedStep == TypeOK /\ NoneAborted /\ [Next]_vars /\ [NoFailure]_vars => NoneAborted'
<1> SUFFICES ASSUME TypeOK, NoneAborted, [Next]_vars, [NoFailure]_vars
             PROVE  NoneAborted'
  OBVIOUS
<1>1. CASE UNCHANGED vars
  BY <1>1 DEF vars, cacheVars, NoneAborted
<1>2. CASE UNCHANGED content
  BY <1>2 DEF NoneAborted
<1>3. ASSUME NEW r \in Resources, FetchOK(r) \/ FetchThrows(r)
      PROVE  NoneAborted'
  <2>1. content' = [content EXCEPT ![cacheName[r]] = "complete"]
    BY <1>3 DEF FetchOK, FetchThrows, BodyEnds
  <2> QED
    BY <2>1 DEF NoneAborted, TypeOK, CacheTypeOK
<1>4. ASSUME NEW r \in Resources, Create(r)
      PROVE  NoneAborted'
  <2>1. UNCHANGED content \/ content' = [content EXCEPT ![cacheName[r]] = "writing"]
    BY <1>4 DEF Create, CreateAndLock, CreateRefused, cacheVars
  <2> QED
    BY <2>1 DEF NoneAborted, TypeOK, CacheTypeOK
<1>5. ASSUME NEW r \in Resources, Purge(r)
      PROVE  NoneAborted'
  BY <1>5 DEF Purge, UpdateAndPurge, RemoveFiles, NoneAborted
<1>6. ASSUME NEW r \in Resources,
             \/ New(r) \/ StartRetrieve(r) \/ StartThrows(r) \/ ReadLock(r) \/ ReadLock2(r)
             \/ WriteChunk(r) \/ ToShared(r) \/ UpdateInfo(r) \/ CacheCallThrows(r) \/ Unwind(r)
             \/ Delete(r)
      PROVE  UNCHANGED content
  BY <1>6 DEF New, StartRetrieve, StartThrows, ReadLock, ReadLock2, WriteChunk, ToShared,
     UpdateInfo, CacheCallThrows, Unwind, Delete, ReadLockHit, ReadLockMiss, ExclusiveToShared,
     UpdateCacheInfo, CallThrows, UnlockCache, UnlockAndClose, cacheVars
<1> QED
  BY <1>1, <1>2, <1>3, <1>4, <1>5, <1>6 DEF Next, NoFailure, Retrieve, Fetch

(* ServedIsWhole: what is served is the whole response as long as no       *)
(* download fails and no process ends in one.  So the failed downloads     *)
(* that retrieveResource() leaves in the cache are the only cause.         *)
THEOREM WholeUnlessFailed == Spec /\ [][NoFailure]_vars => []ServedIsWhole
<1>1. Init => NoneAborted
  BY DEF Init, CacheInit, NoneAborted
<1>2. TypeOK /\ NoneAborted /\ [Next]_vars /\ [NoFailure]_vars => NoneAborted'
  BY NoneAbortedStep
<1>3. TypeOK /\ InUseProtected /\ NoneAborted => ServedIsWhole
  <2> SUFFICES ASSUME TypeOK, InUseProtected, NoneAborted,
                      NEW r \in Resources, Sole(r), pc[r] = "ready"
               PROVE  content[cacheName[r]] = "complete"
    BY DEF ServedIsWhole
  <2>1. cacheName[r] \in Files
    BY NamedFile DEF PC, Running, CacheCalls
  <2> QED
    BY <2>1 DEF InUseProtected, NoneAborted
<1> QED
  BY <1>1, <1>2, <1>3, TypeCorrect, FileStaysProtected, PTL DEF Spec

-----------------------------------------------------------------------------
\* No process has two objects for one cache file.
Unshared ==
    \A r, s \in Resources :
        Owner[r] = Owner[s] /\ cacheName[r] = cacheName[s] /\ cacheName[r] # None => r = s

\* No purge removes what another resource of its process has in use.
SparesOwn ==
    \A r, s \in Resources :
        Purge(s) /\ Owner[r] = Owner[s] /\ pc[r] = "ready" => Cached(cacheName[r])'

(* A retrieval that succeeds has its file read-locked as it returns,       *)
(* whatever else there is in its process.                                  *)
LEMMA BecomesReady ==
    ASSUME TypeOK, FileInv, Next, NEW r \in Resources, pc[r] # "ready", pc'[r] = "ready"
    PROVE  Protected(r)'
<1> DEFINE f == cacheName[r]
           p == Owner[r]
<1>1. Retrieve(r)
  <2>1. \A s \in Resources \ {r} : ~(New(s) \/ Retrieve(s) \/ Delete(s))
    BY OthersKeepName
  <2>2. ~New(r) /\ ~Delete(r)
    <3>1. New(r) => pc'[r] = "constructed"
      BY GotoMoves DEF New
    <3> QED
      BY <3>1 DEF Delete, Forget
  <2>3. \A q \in Procs : ~Crash(q)
    BY DEF Crash, Forget
  <2> QED
    BY <2>1, <2>2, <2>3 DEF Next
<1>2. f \in Files /\ p \in Procs
  <2>1. ~StartRetrieve(r) /\ ~StartThrows(r)
    BY GotoMoves DEF StartRetrieve, StartThrows
  <2>2. pc[r] \in PC \ {"none", "constructed", "failed"}
    BY <1>1, <2>1, RetrieveMoves DEF Retrieve, Fetch, ReadLock, Create, ReadLock2, WriteChunk,
       FetchOK, FetchError, FetchThrows, BodyEnds, ToShared, UpdateInfo, Purge,
       CacheCallThrows, Unwind, PC, Running, CacheCalls
  <2> QED
    BY <2>2, NamedFile
<1>3. CASE ReadLock(r) \/ ReadLock2(r)
  <2>1. ReadLockHit(p, f) /\ cacheName' = cacheName
    BY <1>3, GotoMoves DEF ReadLock, ReadLock2
  <2> QED
    BY <1>2, <2>1 DEF ReadLockHit, SetLock, Protected, Cached, TypeOK, CacheTypeOK
<1>4. CASE UpdateInfo(r)
  <2>1. content[f] = "complete" /\ lock[f][p] = "shared"
    BY <1>4 DEF UpdateInfo, FileInv, StoringIsLocked
  <2> QED
    BY <1>4, <2>1 DEF UpdateInfo, UpdateCacheInfo, Protected, Cached
<1>5. CASE Purge(r)
  <2>1. content[f] = "complete" /\ lock[f][p] = "shared"
    BY <1>5 DEF Purge, FileInv, StoringIsLocked
  <2>2. PICK V \in PurgeChoices(p, f) : RemoveFiles(V)
    BY <1>5 DEF Purge, UpdateAndPurge
  <2>3. f \notin V
    BY <2>2 DEF PurgeChoices, Purgeable
  <2> QED
    BY <1>2, <1>5, <2>1, <2>2, <2>3 DEF Purge, RemoveFiles, Protected, Cached
<1>6. ~(StartRetrieve(r) \/ StartThrows(r) \/ Create(r) \/ ToShared(r))
  BY GotoMoves DEF StartRetrieve, StartThrows, Create, ToShared
<1>7. ~(CacheCallThrows(r) \/ Unwind(r) \/ Fetch(r))
  BY GotoMoves DEF CacheCallThrows, Unwind, Fetch, WriteChunk, FetchOK, FetchError, FetchThrows,
     resVars
<1> QED
  BY <1>1, <1>3, <1>4, <1>5, <1>6, <1>7 DEF Retrieve

LEMMA KeepStep ==
    ASSUME TypeOK, FileInv, KeepsReadLock, Unshared, Next, SparesOwn
    PROVE  KeepsReadLock'
<1> SUFFICES ASSUME NEW r \in Resources, pc'[r] = "ready"
             PROVE  Protected(r)'
  BY DEF KeepsReadLock, Protected, Cached
<1>1. CASE pc[r] # "ready"
  BY <1>1, BecomesReady
<1>2. CASE pc[r] = "ready"
  <2> DEFINE f == cacheName[r]
  <2>1. f \in Files /\ Protected(r)
    BY <1>2, NamedFile DEF KeepsReadLock, Protected, PC, Running, CacheCalls
  <2>2. ASSUME NEW s \in Resources \ {r}, Owner[s] = Owner[r], Purge(s)
        PROVE  Protected(r)'
    <3>1. cacheName'[r] = f /\ content'[f] # "absent"
      BY <1>2, <2>2 DEF SparesOwn, Purge, Cached
    <3>2. lock'[f] = lock[f]
      BY <2>1, <2>2, <3>1 DEF Purge, UpdateAndPurge, RemoveFiles
    <3> QED
      BY <2>1, <3>1, <3>2 DEF Protected, Cached
  <2>3. CASE \A s \in Resources \ {r} : Owner[s] = Owner[r] => ~Purge(s)
    <3>1. \A s \in Resources \ {r} : ~(Owner[s] = Owner[r] /\ cacheName[s] = f)
      BY <2>1, CacheAssumption DEF Unshared
    <3>2. cacheName'[r] = f /\ content'[f] = content[f] /\ lock'[f][Owner[r]] = "shared"
      BY <1>2, <2>1, <2>3, <3>1, HomeStep
    <3> QED
      BY <2>1, <3>2 DEF Protected, Cached
  <2> QED
    BY <2>2, <2>3
<1> QED
  BY <1>1, <1>2

(* KeepsReadLock: the file name that is given out stays that of a          *)
(* read-locked file if no process has two objects for one file at a time   *)
(* and purges spare the files in use in their own process.  Sharing a      *)
(* process is harmless otherwise, and what other processes do always is.   *)
THEOREM LockKeptUnlessShared == Spec /\ []Unshared /\ [][SparesOwn]_vars => []KeepsReadLock
<1>1. Init => KeepsReadLock
  BY DEF Init, KeepsReadLock
<1>2. TypeOK /\ FileInv /\ Unshared /\ KeepsReadLock /\ [Next]_vars /\ [SparesOwn]_vars
        => KeepsReadLock'
  <2>1. CASE UNCHANGED vars
    BY <2>1 DEF vars, cacheVars, resVars, KeepsReadLock, Cached
  <2> QED
    BY <2>1, KeepStep
<1> QED
  BY <1>1, <1>2, FilesInvariant, TypeCorrect, PTL DEF Spec

-----------------------------------------------------------------------------
(* The type of a URL is the same with and without the headers.             *)
UrlTells == \A u \in Urls : UrlType[u] # "" /\ HeaderTypes[u] \in SUBSET {"", UrlType[u]}

TypedByUrl ==
    \A r \in Resources : pc[r] \notin {"none", "constructed", "failed"} => dtype[r] = UrlType[url[r]]

LEMMA TypedByUrlStep ==
    ASSUME UrlTells, TypeOK, TypedByUrl, [Next]_vars
    PROVE  TypedByUrl'
<1>1. CASE UNCHANGED vars
  BY <1>1 DEF vars, resVars, TypedByUrl
\* Steps that leave type and URL alone, or end the life of a resource.
<1>2. ASSUME \A r \in Resources :
               \/ pc'[r] \in {"none", "constructed", "failed"}
               \/ /\ pc[r] \notin {"none", "constructed", "failed"}
                  /\ dtype'[r] = dtype[r] /\ url'[r] = url[r]
      PROVE  TypedByUrl'
  BY <1>2 DEF TypedByUrl
\* A step of one resource.
<1>3. ASSUME NEW r \in Resources,
             \A s \in Resources : s # r => /\ pc'[s] = pc[s] /\ dtype'[s] = dtype[s]
                                           /\ url'[s] = url[s],
             pc'[r] \notin {"none", "constructed", "failed"} => dtype'[r] = UrlType[url'[r]]
      PROVE  TypedByUrl'
  <2>1. ASSUME NEW s \in Resources, pc'[s] \notin {"none", "constructed", "failed"}
        PROVE  dtype'[s] = UrlType[url'[s]]
    BY <1>3, <2>1 DEF TypedByUrl
  <2> QED
    BY <2>1 DEF TypedByUrl
<1>4. ASSUME NEW r \in Resources, New(r)
      PROVE  TypedByUrl'
  <2>1. pc'[r] = "constructed" /\ \A s \in Resources : s # r => pc'[s] = pc[s]
    BY <1>4, GotoMoves DEF New
  <2>2. \A s \in Resources : s # r => dtype'[s] = dtype[s] /\ url'[s] = url[s]
    BY <1>4 DEF New, TypeOK, ResourceTypeOK
  <2> QED
    BY <1>3, <2>1, <2>2
<1>5. ASSUME NEW r \in Resources, StartRetrieve(r) \/ StartThrows(r)
      PROVE  TypedByUrl'
  <2>1. pc'[r] = "failed" \/ dtype'[r] = UrlType[url'[r]]
    <3>1. CASE StartRetrieve(r)
      BY <3>1 DEF StartRetrieve, TypeOK, ResourceTypeOK
    <3>2. CASE StartThrows(r)
      BY <3>2, GotoMoves DEF StartThrows
    <3> QED
      BY <1>5, <3>1, <3>2
  <2>2. \A s \in Resources : s # r => pc'[s] = pc[s]
    BY <1>5, GotoMoves DEF StartRetrieve, StartThrows
  <2>3. \A s \in Resources : s # r => dtype'[s] = dtype[s] /\ url'[s] = url[s]
    BY <1>5 DEF StartRetrieve, StartThrows, TypeOK, ResourceTypeOK
  <2> QED
    BY <1>3, <2>1, <2>2, <2>3
<1>6. ASSUME NEW r \in Resources, FetchOK(r)
      PROVE  TypedByUrl'
  <2>1. /\ pc[r] = "fetch" /\ url' = url
        /\ \E t \in HeaderTypes[url[r]] : dtype' = [dtype EXCEPT ![r] = SetType(url[r], t)]
    BY <1>6 DEF FetchOK, BodyEnds
  <2>2. url[r] \in Urls
    BY <2>1 DEF TypeOK, NameOK
  <2>3. PICK t \in {"", UrlType[url[r]]} : dtype' = [dtype EXCEPT ![r] = SetType(url[r], t)]
    BY <2>1, <2>2 DEF UrlTells
  <2>4. SetType(url[r], t) = UrlType[url[r]]
    BY <2>2 DEF UrlTells, SetType
  <2>5. dtype'[r] = UrlType[url'[r]] /\ \A s \in Resources : s # r => dtype'[s] = dtype[s]
    BY <2>1, <2>3, <2>4 DEF TypeOK, ResourceTypeOK
  <2>6. \A s \in Resources : s # r => pc'[s] = pc[s]
    BY <1>6, GotoMoves DEF FetchOK
  <2> QED
    BY <1>3, <2>1, <2>5, <2>6
<1>7. ASSUME NEW r \in Resources,
             \/ ReadLock(r) \/ Create(r) \/ ReadLock2(r) \/ WriteChunk(r) \/ FetchError(r)
             \/ FetchThrows(r) \/ ToShared(r) \/ UpdateInfo(r) \/ Purge(r)
             \/ CacheCallThrows(r) \/ Unwind(r)
      PROVE  TypedByUrl'
  <2>1. UNCHANGED <<dtype, url>> /\ pc[r] \notin {"none", "constructed", "failed"}
    BY <1>7 DEF ReadLock, Create, ReadLock2, WriteChunk, FetchError, FetchThrows, BodyEnds,
       ToShared, UpdateInfo, Purge, CacheCallThrows, CacheCalls, Unwind, resVars
  <2>2. \A s \in Resources : s # r => pc'[s] = pc[s]
    BY <1>7, RetrieveMoves DEF Retrieve, Fetch
  <2>3. dtype'[r] = UrlType[url'[r]]
    BY <2>1 DEF TypedByUrl
  <2> QED
    BY <1>3, <2>1, <2>2, <2>3
<1>8. ASSUME NEW R, Forget(R)
      PROVE  TypedByUrl'
  BY <1>8 DEF Forget, TypedByUrl
<1> QED
  BY <1>1, <1>4, <1>5, <1>6, <1>7, <1>8 DEF Next, Retrieve, Fetch, Delete, Crash

(* TypeFromResponse: resources for one URL agree on its type where the URL *)
(* tells the type that the headers tell, if they tell one.  Losing the     *)
(* headers is the only cause of a disagreement.                            *)
THEOREM TypesAgree == UrlTells => (Spec => []TypeFromResponse)
<1> SUFFICES ASSUME UrlTells
             PROVE  Spec => []TypeFromResponse
  OBVIOUS
<1>1. Init => TypedByUrl
  BY DEF Init, TypedByUrl
<1>2. TypeOK /\ TypedByUrl /\ [Next]_vars => TypedByUrl'
  BY TypedByUrlStep
<1>3. TypedByUrl => TypeFromResponse
  BY DEF TypedByUrl, TypeFromResponse
<1> QED
  BY <1>1, <1>2, <1>3, TypeCorrect, PTL DEF Spec

-----------------------------------------------------------------------------
\* No purge takes place.
NoPurge == \A r \in Resources : ~Purge(r)

\* What refused create_and_lock is still there.
RefusalStands == \A r \in Resources : pc[r] = "readLock2" => Cached(cacheName[r])

LEMMA FilesStay ==
    ASSUME TypeOK, Next, NoPurge, NEW f \in Files, Cached(f)
    PROVE  Cached(f)'
<1>1. ASSUME NEW r \in Resources, NEW what, what # "absent",
             content' = [content EXCEPT ![cacheName[r]] = what]
      PROVE  Cached(f)'
  BY <1>1 DEF Cached, TypeOK, CacheTypeOK
<1>2. ASSUME NEW r \in Resources, Fetch(r)
      PROVE  Cached(f)'
  BY <1>1, <1>2 DEF Fetch, WriteChunk, FetchOK, FetchError, FetchThrows, BodyEnds, Cached
<1>3. ASSUME NEW r \in Resources, Create(r)
      PROVE  Cached(f)'
  BY <1>1, <1>3 DEF Create, CreateAndLock, CreateRefused, cacheVars, Cached
<1>4. ASSUME NEW r \in Resources,
             \/ New(r) \/ StartRetrieve(r) \/ StartThrows(r) \/ ReadLock(r) \/ ReadLock2(r)
             \/ ToShared(r) \/ UpdateInfo(r) \/ CacheCallThrows(r) \/ Unwind(r) \/ Delete(r)
      PROVE  content' = content
  BY <1>4 DEF New, StartRetrieve, StartThrows, ReadLock, ReadLock2, ToShared, UpdateInfo,
     CacheCallThrows, Unwind, Delete, ReadLockHit, ReadLockMiss, ExclusiveToShared,
     UpdateCacheInfo, CallThrows, UnlockCache, UnlockAndClose, cacheVars
<1>5. ASSUME NEW p \in Procs, Crash(p)
      PROVE  Cached(f)'
  BY <1>5 DEF Crash, ProcessEnds, Cached
<1> QED
  BY <1>2, <1>3, <1>4, <1>5 DEF Next, NoPurge, Retrieve, Cached

LEMMA RefusalStandsStep ==
    ASSUME TypeOK, RefusalStands, Next, NoPurge
    PROVE  RefusalStands'
<1> SUFFICES ASSUME NEW r \in Resources, pc'[r] = "readLock2"
             PROVE  Cached(cacheName[r])'
  BY DEF RefusalStands
<1>1. ASSUME pc[r] = "readLock2", cacheName'[r] = cacheName[r]
      PROVE  Cached(cacheName[r])'
  <2>1. cacheName[r] \in Files /\ Cached(cacheName[r])
    BY <1>1, NamedFile DEF RefusalStands, PC, Running, CacheCalls
  <2>2. content'[cacheName[r]] # "absent"
    BY <2>1, FilesStay DEF Cached
  <2> QED
    BY <1>1, <2>2 DEF Cached
<1>2. ASSUME NEW s \in Resources, s # r, New(s) \/ Retrieve(s) \/ Delete(s)
      PROVE  Cached(cacheName[r])'
  BY <1>1, <1>2, OthersKeepName
<1>3. CASE Retrieve(r)
  <2>1. Create(r)
    <3>1. ~(StartRetrieve(r) \/ StartThrows(r) \/ ReadLock(r) \/ ReadLock2(r))
      BY GotoMoves DEF StartRetrieve, StartThrows, ReadLock, ReadLock2
    <3>2. ~(WriteChunk(r) \/ FetchOK(r) \/ FetchError(r) \/ FetchThrows(r))
      BY GotoMoves DEF WriteChunk, FetchOK, FetchError, FetchThrows, resVars
    <3>3. ~(ToShared(r) \/ UpdateInfo(r) \/ Purge(r) \/ CacheCallThrows(r) \/ Unwind(r))
      BY GotoMoves DEF ToShared, UpdateInfo, Purge, CacheCallThrows, Unwind
    <3> QED
      BY <1>3, <3>1, <3>2, <3>3 DEF Retrieve, Fetch
  <2>2. CreateRefused(Owner[r], cacheName[r]) /\ cacheName' = cacheName
    BY <2>1, GotoMoves DEF Create
  <2> QED
    BY <2>2 DEF CreateRefused, cacheVars, Cached
<1>4. ~New(r) /\ ~Delete(r)
  <2>1. New(r) => pc'[r] = "constructed"
    BY GotoMoves DEF New
  <2>2. Delete(r) => pc'[r] = "none"
    BY DEF Delete, Forget
  <2> QED
    BY <2>1, <2>2
<1>5. ASSUME NEW p \in Procs, Crash(p)
      PROVE  Cached(cacheName[r])'
  <2>1. pc[r] = "readLock2" /\ cacheName'[r] = cacheName[r]
    BY <1>5 DEF Crash, Forget
  <2> QED
    BY <1>1, <2>1
<1> QED
  BY <1>2, <1>3, <1>4, <1>5 DEF Next

\* Where a retrieval may turn to its handler without a fault.
LEMMA TurnsBack ==
    ASSUME TypeOK, RefusalStands, Next, NEW r \in Resources,
           pc[r] # "unwind", pc'[r] = "unwind", faults' = faults
    PROVE  pc[r] = "fetch"
<1>1. ASSUME NEW s \in Resources, s # r, New(s) \/ Retrieve(s) \/ Delete(s)
      PROVE  FALSE
  BY <1>1, OthersKeepName
<1>2. ~New(r) /\ ~Delete(r)
  <2>1. New(r) => pc'[r] = "constructed"
    BY GotoMoves DEF New
  <2>2. Delete(r) => pc'[r] = "none"
    BY DEF Delete, Forget
  <2> QED
    BY <2>1, <2>2
<1>3. \A p \in Procs : ~Crash(p)
  BY DEF Crash, Forget
<1>4. Retrieve(r)
  BY <1>1, <1>2, <1>3 DEF Next
<1>5. ~CacheCallThrows(r)
  <2>1. CacheCallThrows(r) => faults' = faults + 1
    BY DEF CacheCallThrows, Fault
  <2>2. faults \in 0..MaxFaults /\ MaxFaults \in Nat
    BY ResourceAssumption DEF TypeOK, ResourceTypeOK
  <2>3. faults + 1 # faults
    BY <2>2
  <2> QED
    BY <2>1, <2>3
<1>6. ~(StartRetrieve(r) \/ StartThrows(r) \/ ReadLock(r) \/ Create(r))
  BY GotoMoves DEF StartRetrieve, StartThrows, ReadLock, Create
<1>7. ~(ToShared(r) \/ UpdateInfo(r) \/ Purge(r) \/ Unwind(r))
  BY GotoMoves DEF ToShared, UpdateInfo, Purge, Unwind
<1>8. ~ReadLock2(r)
  <2> SUFFICES ASSUME ReadLock2(r)
               PROVE  FALSE
    OBVIOUS
  <2>1. pc[r] = "readLock2" /\ ReadLockMiss(Owner[r], cacheName[r])
    BY GotoMoves DEF ReadLock2
  <2> QED
    BY <2>1 DEF RefusalStands, ReadLockMiss
<1>9. Fetch(r)
  BY <1>4, <1>5, <1>6, <1>7, <1>8 DEF Retrieve
<1> QED
  BY <1>9 DEF Fetch, WriteChunk, FetchOK, FetchError, FetchThrows, BodyEnds

(* FailsOnlyAfterGet: a retrieval that fails without a fault has tried a   *)
(* GET as long as no purge takes place.  A purge between the two calls of  *)
(* the cache is the only cause of the other failures.                      *)
THEOREM GetUnlessPurged == Spec /\ [][NoPurge]_vars => FailsOnlyAfterGet
<1> DEFINE AfterGet ==
      \A r \in Resources :
         pc[r] # "unwind" /\ pc'[r] = "unwind" /\ faults' = faults => pc[r] = "fetch"
<1>1. Init => RefusalStands
  BY DEF Init, RefusalStands
<1>2. TypeOK /\ RefusalStands /\ [Next]_vars /\ [NoPurge]_vars => RefusalStands'
  <2>1. CASE UNCHANGED vars
    BY <2>1 DEF vars, cacheVars, resVars, RefusalStands, Cached
  <2> QED
    BY <2>1, RefusalStandsStep
<1>3. TypeOK /\ RefusalStands /\ [Next]_vars => [AfterGet]_vars
  BY TurnsBack
<1>4. Spec /\ [][NoPurge]_vars => [][AfterGet]_vars
  BY <1>1, <1>2, <1>3, TypeCorrect, PTL DEF Spec
<1> QED
  BY <1>4 DEF FailsOnlyAfterGet
=============================================================================
