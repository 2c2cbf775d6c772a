------------------------ MODULE RetrievalService_proofs ------------------------
(***************************************************************************)
(* The processes implement the store of SharedResponses.  The invariant of *)
(* RemoteHttpResource_proofs says why each step does.                      *)
(***************************************************************************)
EXTENDS RetrievalService, RemoteHttpResource_proofs

-----------------------------------------------------------------------------
(* Who reads what, before and after a step.                                *)
LEMMA SameReading ==
    ASSUME \A s \in Resources :
             \/ pc'[s] = pc[s] /\ cacheName'[s] = cacheName[s]
             \/ Sole(s) => pc[s] # "ready" /\ pc'[s] # "ready"
    PROVE  StoreReading' = StoreReading
BY DEF StoreReading

LEMMA OneStarts ==
    ASSUME NEW r \in Resources, Sole(r), UNCHANGED cacheName,
           pc[r] # "ready", pc'[r] = "ready",
           \A s \in Resources : s # r => pc'[s] = pc[s]
    PROVE  StoreReading[r] = None /\ StoreReading' = [StoreReading EXCEPT ![r] = cacheName[r]]
BY DEF StoreReading

LEMMA OneStops ==
    ASSUME NEW r \in Resources, Sole(r), pc[r] = "ready", pc'[r] # "ready",
           \A s \in Resources : s # r => pc'[s] = pc[s] /\ cacheName'[s] = cacheName[s]
    PROVE  StoreReading[r] = cacheName[r] /\ StoreReading' = [StoreReading EXCEPT ![r] = None]
BY DEF StoreReading

LEMMA StoreInitially == Init => Store!Init
<1> SUFFICES ASSUME Init
             PROVE  Store!Init
  OBVIOUS
<1>1. content = [f \in Files |-> "absent"]
  BY DEF Init, CacheInit
<1>2. StoreReading = [r \in Resources |-> None]
  BY DEF Init, StoreReading
<1> QED
  BY <1>1, <1>2 DEF Store!Init

-----------------------------------------------------------------------------
(* A resource comes to use a settled file, and room may have been made.    *)
LEMMA ServeStep ==
    ASSUME NEW r \in Resources, cacheName[r] \in Files,
           StoreReading[r] = None,
           StoreReading' = [StoreReading EXCEPT ![r] = cacheName[r]],
           content[cacheName[r]] \in {"complete", "aborted"},
           NEW V \in SUBSET Files,
           \A g \in V : /\ content[g] \in {"complete", "aborted"}
                        /\ g # cacheName[r]
                        /\ \A s \in Resources : StoreReading[s] # g,
           content' = [g \in Files |-> IF g \in V THEN "absent" ELSE content[g]]
    PROVE  Store!Next
<1>1. Store!Serve(r, cacheName[r], V)
  BY DEF Store!Serve, Store!Settled, Store!InUse
<1> QED
  BY <1>1 DEF Store!Next

(* Without anything removed.                                               *)
LEMMA ServeCached ==
    ASSUME TypeOK, NEW r \in Resources, cacheName[r] \in Files, UNCHANGED <<content, cacheName>>,
           Sole(r) => content[cacheName[r]] \in {"complete", "aborted"},
           pc[r] # "ready", pc'[r] = "ready",
           \A s \in Resources : s # r => pc'[s] = pc[s]
    PROVE  [Store!Next]_(Store!storeVars)
<1>1. CASE Sole(r)
  <2>1. StoreReading[r] = None /\ StoreReading' = [StoreReading EXCEPT ![r] = cacheName[r]]
    BY <1>1, OneStarts
  <2>2. content' = [g \in Files |-> IF g \in {} THEN "absent" ELSE content[g]]
    BY DEF TypeOK, CacheTypeOK
  <2>3. Store!Serve(r, cacheName[r], {})
    BY <1>1, <2>1, <2>2 DEF Store!Serve, Store!Settled
  <2>4. {} \in SUBSET Files
    OBVIOUS
  <2> QED
    BY <2>3, <2>4 DEF Store!Next
<1>2. CASE ~Sole(r)
  <2>1. StoreReading' = StoreReading
    BY <1>2, SameReading
  <2> QED
    BY <2>1 DEF Store!storeVars
<1> QED
  BY <1>1, <1>2

(* Every step is one of the store.                                         *)
LEMMA StoreStep ==
    ASSUME TypeOK, FileInv, FileInv', Next
    PROVE  [Store!Next]_(Store!storeVars)
<1> DEFINE Goal == [Store!Next]_(Store!storeVars)
<1>0. ASSUME UNCHANGED <<content, StoreReading>>
      PROVE  Goal
  BY <1>0 DEF Store!storeVars
<1>1. ASSUME NEW r \in Resources, UNCHANGED content, pc[r] # "ready", pc'[r] # "ready",
             \A s \in Resources : s # r => pc'[s] = pc[s] /\ cacheName'[s] = cacheName[s]
      PROVE  Goal
  BY <1>0, <1>1, SameReading
<1>2. ASSUME NEW r \in Resources, New(r)
      PROVE  Goal
  <2>1. pc'[r] = "constructed" /\ \A s \in Resources : s # r => pc'[s] = pc[s]
    BY <1>2, GotoMoves DEF New
  <2> QED
    BY <1>1, <1>2, <2>1 DEF New, cacheVars
<1>3. ASSUME NEW r \in Resources, StartRetrieve(r) \/ StartThrows(r)
      PROVE  Goal
  <2>1. pc'[r] \in {"readLock", "failed"} /\ \A s \in Resources : s # r => pc'[s] = pc[s]
    BY <1>3, GotoMoves DEF StartRetrieve, StartThrows
  <2>2. \A s \in Resources : s # r => cacheName'[s] = cacheName[s]
    BY <1>3 DEF StartRetrieve, StartThrows, SetName, TypeOK, ResourceTypeOK
  <2> QED
    BY <1>1, <1>3, <2>1, <2>2 DEF StartRetrieve, StartThrows, cacheVars
<1>4. ASSUME NEW r \in Resources, ReadLock(r) \/ ReadLock2(r)
      PROVE  Goal
  <2>1. UNCHANGED cacheName /\ cacheName[r] \in Files /\ pc[r] # "ready"
    BY <1>4, NamedFile DEF ReadLock, ReadLock2, PC, Running, CacheCalls
  <2>2. UNCHANGED content
    BY <1>4 DEF ReadLock, ReadLock2, ReadLockHit, ReadLockMiss, cacheVars
  <2>3. /\ pc'[r] \in {"ready", "create", "unwind"}
        /\ \A s \in Resources : s # r => pc'[s] = pc[s]
    BY <1>4, GotoMoves DEF ReadLock, ReadLock2
  <2>4. CASE pc'[r] = "ready"
    <3>1. Sole(r) => content[cacheName[r]] \in {"complete", "aborted"}
      BY <2>1, <2>2, <2>4 DEF FileInv, InUseProtected
    <3> QED
      BY <2>1, <2>2, <2>3, <2>4, <3>1, ServeCached
  <2>5. CASE pc'[r] # "ready"
    BY <1>1, <2>1, <2>2, <2>3, <2>5
  <2> QED
    BY <2>4, <2>5
<1>5. ASSUME NEW r \in Resources, Create(r)
      PROVE  Goal
  <2>1. UNCHANGED cacheName /\ cacheName[r] \in Files /\ pc[r] = "create"
    BY <1>5, NamedFile DEF Create, PC, Running, CacheCalls
  <2>2. pc'[r] \in {"fetch", "readLock2"} /\ \A s \in Resources : s # r => pc'[s] = pc[s]
    BY <1>5, GotoMoves DEF Create
  <2>3. CASE CreateAndLock(Owner[r], cacheName[r])
    <3>1. content[cacheName[r]] = "absent"
      BY <2>3 DEF CreateAndLock, Cached
    <3>2. content' = [content EXCEPT ![cacheName[r]] = "writing"]
      BY <2>3 DEF CreateAndLock
    <3>3. StoreReading' = StoreReading
      BY <2>1, <2>2, SameReading
    <3>4. Store!Fill(cacheName[r])
      BY <3>1, <3>2, <3>3 DEF Store!Fill
    <3> QED
      BY <2>1, <3>4 DEF Store!Next
  <2>4. CASE CreateRefused(Owner[r], cacheName[r])
    BY <1>1, <2>1, <2>2, <2>4 DEF CreateRefused, cacheVars
  <2> QED
    BY <1>5, <2>3, <2>4 DEF Create
<1>6. ASSUME NEW r \in Resources, Fetch(r)
      PROVE  Goal
  <2>1. CASE WriteChunk(r)
    BY <1>0, <2>1 DEF WriteChunk, resVars, StoreReading
  <2>2. CASE FetchOK(r) \/ FetchError(r) \/ FetchThrows(r)
    <3>1. PICK outcome \in {"complete", "aborted"} : BodyEnds(r, outcome)
      BY <2>2 DEF FetchOK, FetchError, FetchThrows
    <3>2. pc[r] = "fetch" /\ UNCHANGED cacheName /\ cacheName[r] \in Files
      BY <3>1, NamedFile DEF BodyEnds, PC, Running, CacheCalls
    <3>3. pc'[r] \in {"toShared", "unwind"} /\ \A s \in Resources : s # r => pc'[s] = pc[s]
      BY <2>2, GotoMoves DEF FetchOK, FetchError, FetchThrows
    <3>4. StoreReading' = StoreReading
      BY <3>2, <3>3, SameReading
    <3>5. content[cacheName[r]] = "writing"
      BY <3>2 DEF FileInv, FetchIsExclusive
    <3>6. Store!Settle(cacheName[r])
      BY <3>1, <3>4, <3>5 DEF Store!Settle, BodyEnds
    <3> QED
      BY <3>2, <3>6 DEF Store!Next
  <2> QED
    BY <1>6, <2>1, <2>2 DEF Fetch
<1>7. ASSUME NEW r \in Resources, ToShared(r) \/ CacheCallThrows(r) \/ Unwind(r)
      PROVE  Goal
  <2>1. /\ pc'[r] \in {"updateInfo", "unwind", "failed"}
        /\ \A s \in Resources : s # r => pc'[s] = pc[s]
    BY <1>7, GotoMoves DEF ToShared, CacheCallThrows, Unwind
  <2>2. UNCHANGED <<content, cacheName>> /\ pc[r] # "ready"
    BY <1>7 DEF ToShared, CacheCallThrows, Unwind, ExclusiveToShared, CallThrows, UnlockCache,
       cacheVars, CacheCalls
  <2> QED
    BY <1>1, <2>1, <2>2
<1>8. ASSUME NEW r \in Resources, UpdateInfo(r)
      PROVE  Goal
  <2>1. pc[r] = "updateInfo" /\ UNCHANGED <<content, cacheName>> /\ cacheName[r] \in Files
    BY <1>8, NamedFile DEF UpdateInfo, UpdateCacheInfo, PC, Running, CacheCalls
  <2>2. pc'[r] \in {"purge", "ready"} /\ \A s \in Resources : s # r => pc'[s] = pc[s]
    BY <1>8, GotoMoves DEF UpdateInfo
  <2>3. content[cacheName[r]] = "complete"
    BY <2>1 DEF FileInv, StoringIsLocked
  <2> QED
    BY <1>1, <2>1, <2>2, <2>3, ServeCached
<1>9. ASSUME NEW r \in Resources, Purge(r)
      PROVE  Goal
  <2> DEFINE f == cacheName[r]
             p == Owner[r]
  <2>1. pc[r] = "purge" /\ UNCHANGED cacheName /\ f \in Files /\ p \in Procs
    BY <1>9, NamedFile DEF Purge, PC, Running, CacheCalls
  <2>2. pc'[r] = "ready" /\ \A s \in Resources : s # r => pc'[s] = pc[s]
    BY <1>9, GotoMoves DEF Purge
  <2>3. content[f] = "complete"
    BY <2>1 DEF FileInv, StoringIsLocked
  <2>4. PICK V \in PurgeChoices(p, f) : RemoveFiles(V)
    BY <1>9 DEF Purge, UpdateAndPurge
  <2>5. V \subseteq Files /\ \A g \in V : g # f /\ content[g] # "absent" /\ ~LockedByOther(g, p)
    BY <2>4 DEF PurgeChoices, Purgeable, Cached
  <2>6. ASSUME NEW s \in Resources, s # r, pc[s] = "fetch" \/ (Sole(s) /\ pc[s] = "ready")
        PROVE  cacheName[s] \notin V
    <3>1. cacheName[s] \in Files /\ Owner[s] \in Procs
      BY <2>6, NamedFile DEF PC, Running, CacheCalls
    <3>2. Owner[s] # p
      BY <2>1, <2>6 DEF FileInv, OneRunning, Sole, Running, CacheCalls
    <3>3. lock[cacheName[s]][Owner[s]] # "none"
      BY <2>6 DEF FileInv, FetchIsExclusive, InUseProtected
    <3> QED
      BY <2>5, <3>1, <3>2, <3>3 DEF LockedByOther
  <2>7. \A g \in V : content[g] \in {"complete", "aborted"}
    <3>1. ASSUME NEW g \in V, content[g] = "writing"
          PROVE  FALSE
      <4>1. PICK s \in Resources : pc[s] = "fetch" /\ cacheName[s] = g
        BY <2>5, <3>1 DEF FileInv, WritingIsFetched
      <4>2. s # r
        BY <2>1, <4>1
      <4> QED
        BY <2>6, <3>1, <4>1, <4>2
    <3> QED
      BY <2>5, <3>1 DEF TypeOK, CacheTypeOK, Content
  <2>8. \A g \in V, s \in Resources : StoreReading[s] # g
    BY <2>1, <2>5, <2>6, CacheAssumption DEF StoreReading
  <2>9. CASE Sole(r)
    <3>1. StoreReading[r] = None /\ StoreReading' = [StoreReading EXCEPT ![r] = f]
      BY <2>1, <2>2, <2>9, OneStarts
    <3> QED
      BY <2>1, <2>3, <2>4, <2>5, <2>7, <2>8, <3>1, ServeStep DEF RemoveFiles
  <2>10. CASE ~Sole(r)
    <3>1. StoreReading' = StoreReading
      BY <2>1, <2>2, <2>10, SameReading
    <3>2. Store!MakeRoom(V)
      BY <2>4, <2>7, <2>8, <3>1 DEF RemoveFiles, Store!MakeRoom, Store!Settled, Store!InUse
    <3> QED
      BY <2>5, <3>2 DEF Store!Next
  <2> QED
    BY <2>9, <2>10
<1>10. ASSUME NEW r \in Resources, Delete(r)
       PROVE  Goal
  <2>1. /\ UNCHANGED content
        /\ pc[r] \in {"ready", "failed"}
        /\ pc'[r] = "none"
        /\ \A s \in Resources : s # r => pc'[s] = pc[s] /\ cacheName'[s] = cacheName[s]
    BY <1>10 DEF Delete, UnlockAndClose, Forget, cacheVars
  <2>2. CASE pc[r] = "ready" /\ Sole(r)
    <3>1. cacheName[r] # None
      BY <2>2, NamedFile, CacheAssumption DEF PC, Running, CacheCalls
    <3>2. StoreReading[r] = cacheName[r] /\ StoreReading' = [StoreReading EXCEPT ![r] = None]
      BY <2>1, <2>2, OneStops
    <3>3. Store!Leave(r)
      BY <2>1, <3>1, <3>2 DEF Store!Leave
    <3> QED
      BY <3>3 DEF Store!Next
  <2>3. CASE pc[r] = "failed" \/ ~Sole(r)
    <3>1. StoreReading' = StoreReading
      BY <2>1, <2>3, SameReading
    <3> QED
      BY <1>0, <2>1, <3>1
  <2> QED
    BY <2>1, <2>2, <2>3
<1>11. ASSUME NEW p \in Procs, Crash(p)
       PROVE  Goal
  <2> DEFINE writes == {cacheName[s] : s \in {t \in Resources : Owner[t] = p /\ pc[t] = "fetch"}}
  <2>1. \A s \in Resources :
          IF Owner[s] = p THEN pc'[s] = "none"
          ELSE pc'[s] = pc[s] /\ cacheName'[s] = cacheName[s]
    BY <1>11 DEF Crash, Forget
  <2>2. content' = [g \in Files |-> IF g \in writes THEN "aborted" ELSE content[g]]
    BY <1>11 DEF Crash, ProcessEnds
  <2>3. ASSUME NEW r \in Resources, Owner[r] = p, pc[r] = "fetch"
        PROVE  Goal
    <3>1. \A s \in Resources : Owner[s] = p /\ s # r => pc[s] # "fetch" /\ ~Sole(s)
      BY <2>3 DEF FileInv, OneRunning, Sole, Running, CacheCalls
    <3>2. writes = {cacheName[r]}
      BY <2>3, <3>1
    <3>3. cacheName[r] \in Files
      BY <2>3, NamedFile DEF PC, Running, CacheCalls
    <3>4. content' = [content EXCEPT ![cacheName[r]] = "aborted"]
      BY <2>2, <3>2, <3>3 DEF TypeOK, CacheTypeOK
    <3>5. content[cacheName[r]] = "writing"
      BY <2>3 DEF FileInv, FetchIsExclusive
    <3>6. StoreReading' = StoreReading
      BY <2>1, <2>3, <3>1, SameReading
    <3>7. Store!Settle(cacheName[r])
      BY <3>4, <3>5, <3>6 DEF Store!Settle
    <3> QED
      BY <3>3, <3>7 DEF Store!Next
  <2>4. CASE \A s \in Resources : Owner[s] = p => pc[s] # "fetch"
    <3>1. writes = {}
      BY <2>4
    <3>2. UNCHANGED content
      BY <2>2, <3>1 DEF TypeOK, CacheTypeOK
    <3>3. ASSUME NEW r \in Resources, Owner[r] = p, Sole(r), pc[r] = "ready"
          PROVE  Goal
      <4>1. cacheName[r] # None
        BY <3>3, NamedFile, CacheAssumption DEF PC, Running, CacheCalls
      <4>2. \A s \in Resources : s # r => pc'[s] = pc[s] /\ cacheName'[s] = cacheName[s]
        BY <2>1, <3>3 DEF Sole
      <4>3. StoreReading[r] = cacheName[r] /\ StoreReading' = [StoreReading EXCEPT ![r] = None]
        BY <2>1, <3>3, <4>2, OneStops
      <4>4. Store!Leave(r)
        BY <3>2, <4>1, <4>3 DEF Store!Leave
      <4> QED
        BY <4>4 DEF Store!Next
    <3>4. CASE \A s \in Resources : Owner[s] = p /\ Sole(s) => pc[s] # "ready"
      <4>1. StoreReading' = StoreReading
        BY <2>1, <3>4, SameReading
      <4> QED
        BY <1>0, <3>2, <4>1
    <3> QED
      BY <3>3, <3>4
  <2> QED
    BY <2>3, <2>4
<1> QED
  BY <1>2, <1>3, <1>4, <1>5, <1>6, <1>7, <1>8, <1>9, <1>10, <1>11 DEF Next, Retrieve

(* The gateway's retrieval implements the shared store: files are filled   *)
(* once, settled, never changed, and never removed while a process that    *)
(* has one resource uses them, whatever other processes do.                *)
THEOREM Implementation == Spec => ImplementsStore
<1>1. ASSUME UNCHANGED vars
      PROVE  UNCHANGED Store!storeVars
  BY <1>1 DEF vars, cacheVars, resVars, Store!storeVars, StoreReading
<1>2. TypeOK /\ FileInv /\ FileInv' /\ [Next]_vars => [Store!Next]_(Store!storeVars)
  BY <1>1, StoreStep
<1> QED
  BY <1>2, StoreInitially, FilesInvariant, TypeCorrect, PTL
     DEF Spec, ImplementsStore, Store!Spec

-----------------------------------------------------------------------------
(* What a reader may rely on in the store, it may rely on in the cache     *)
(* that the processes share: its file stays settled and as it is.          *)
Shared == INSTANCE SharedResponses_proofs
            WITH Readers <- Resources, item <- content, reading <- StoreReading

LEMMA SameStore ==
    /\ Store!Init <=> Shared!Init
    /\ [Store!Next]_(Store!storeVars) <=> [Shared!Next]_(Shared!storeVars)
<1>1. Store!Init <=> Shared!Init
  BY Zenon DEF Store!Init, Shared!Init
<1>2. \A S : Store!MakeRoom(S) <=> Shared!MakeRoom(S)
  BY Zenon DEF Store!MakeRoom, Shared!MakeRoom, Store!Settled, Shared!Settled, Store!InUse,
               Shared!InUse
<1>3. \A f : (Store!Fill(f) <=> Shared!Fill(f)) /\ (Store!Settle(f) <=> Shared!Settle(f))
  BY Zenon DEF Store!Fill, Shared!Fill, Store!Settle, Shared!Settle
<1>4. \A r, f, S : Store!Serve(r, f, S) <=> Shared!Serve(r, f, S)
  BY Zenon DEF Store!Serve, Shared!Serve, Store!Settled, Shared!Settled, Store!InUse,
               Shared!InUse
<1>5. \A r : Store!Leave(r) <=> Shared!Leave(r)
  BY Zenon DEF Store!Leave, Shared!Leave
<1>6. Store!Next <=> Shared!Next
  BY <1>2, <1>3, <1>4, <1>5, Zenon DEF Store!Next, Shared!Next
<1>7. Store!storeVars = Shared!storeVars /\ Store!storeVars' = Shared!storeVars'
  BY Zenon DEF Store!storeVars, Shared!storeVars
<1> QED
  BY <1>1, <1>6, <1>7, Zenon

Served == []Shared!ReadsSettled /\ [][Shared!UntilItLeaves /\ Shared!Once]_(Store!storeVars)

(* While a resource that is alone in its process has a file, the file is   *)
(* settled and nobody changes it; and every file of the cache is written,  *)
(* settled and removed in turn, at each step of any process.               *)
THEOREM ServesItsReaders == Spec => Served
<1>1. Store!Init => Shared!ReadsSettled
  BY SameStore, Shared!Initially
<1>2. Shared!ReadsSettled /\ [Store!Next]_(Store!storeVars) =>
        Shared!ReadsSettled' /\ Shared!UntilItLeaves /\ Shared!Once
  BY SameStore, Shared!Step
<1> QED
  BY <1>1, <1>2, Implementation, PTL DEF ImplementsStore, Store!Spec, Served
=============================================================================
