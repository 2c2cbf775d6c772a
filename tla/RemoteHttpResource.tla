------------------------- MODULE RemoteHttpResource -------------------------
(***************************************************************************)
(* RemoteHttpResource objects of several beslistener processes, retrieving *)
(* remote documents through the cache they share.  The program counter of  *)
(* a resource is where retrieveResource() stands between two calls of the  *)
(* cache or of curl; the processes interleave at those points.             *)
(*                                                                         *)
(* A process has one thread, so at most one of its resources is inside a   *)
(* method.  GatewayContainer::access() is the only caller: it constructs a *)
(* resource and retrieves it at once.  A second retrieveResource() on an   *)
(* initialized object returns immediately and is a stuttering step.        *)
(***************************************************************************)
EXTENDS FileLockingCache

CONSTANTS
    Resources,      \* identities of RemoteHttpResource objects
    Owner,          \* Owner[r]: the process that r lives in
    Urls,           \* remote resource URLs
    CacheFileName,  \* CacheFileName[u]: get_cache_file_name(u)
    UrlType,        \* UrlType[u]: TypeMatch of the URL itself, "" if none
    HeaderTypes,    \* HeaderTypes[u]: types told by headers of responses, "" if none
    Types,          \* the type names of the configuration
    MaxFaults       \* bound: crashes and unexpected exceptions in a run

ASSUME ResourceAssumption ==
    /\ Owner \in [Resources -> Procs]
    /\ CacheFileName \in [Urls -> Files]
    /\ UrlType \in [Urls -> Types \cup {""}]
    /\ HeaderTypes \in [Urls -> SUBSET (Types \cup {""})]
    /\ MaxFaults \in Nat
    /\ None \notin Urls

VARIABLES
    pc,         \* pc[r]: the next call of r; "ready" is _initialized
    url,        \* url[r]: d_remoteResourceUrl
    cacheName,  \* cacheName[r]: d_resourceCacheFileName, None while empty
    dtype,      \* dtype[r]: d_type
    faults      \* faults so far, at most MaxFaults

resVars == <<pc, url, cacheName, dtype, faults>>
vars == <<cacheVars, resVars>>

\* Inside a try block of retrieveResource(), before a call of the cache.
CacheCalls == {"readLock", "create", "toShared", "updateInfo", "purge", "readLock2"}
Running == CacheCalls \cup {"constructed", "fetch", "unwind"}
PC == Running \cup {"none", "failed", "ready"}

Idle(p) == \A r \in Resources : Owner[r] = p => pc[r] \notin Running

Goto(r, there) == pc' = [pc EXCEPT ![r] = there]

Fault == faults < MaxFaults /\ faults' = faults + 1

ResourceTypeOK ==
    /\ pc \in [Resources -> PC]
    /\ url \in [Resources -> Urls \cup {None}]
    /\ cacheName \in [Resources -> Files \cup {None}]
    /\ dtype \in [Resources -> Types \cup {"", "unknown"}]
    /\ faults \in 0..MaxFaults

\* A live object has its URL; the name of its file follows from the URL.
NameOK(r) ==
    IF pc[r] = "none" THEN url[r] = None /\ cacheName[r] = None
    ELSE /\ url[r] \in Urls
         /\ cacheName[r] \in {None, CacheFileName[url[r]]}
         /\ cacheName[r] = None => pc[r] \in {"constructed", "failed"}

(* Types, and that an object and its fields are set up and taken down      *)
(* together: between retrieveResource() and the destructor the cache file  *)
(* name is that of the URL.                                                *)
TypeOK ==
    /\ CacheTypeOK
    /\ ResourceTypeOK
    /\ \A r \in Resources : NameOK(r)

Init ==
    /\ CacheInit
    /\ pc = [r \in Resources |-> "none"]
    /\ url = [r \in Resources |-> None]
    /\ cacheName = [r \in Resources |-> None]
    /\ dtype = [r \in Resources |-> ""]
    /\ faults = 0

-----------------------------------------------------------------------------
(* The constructor.                                                        *)
New(r) ==
    /\ pc[r] = "none"
    /\ Idle(Owner[r])
    /\ \E u \in Urls : url' = [url EXCEPT ![r] = u]
    /\ Goto(r, "constructed")
    /\ UNCHANGED <<cacheVars, cacheName, dtype, faults>>

SetName(r) == cacheName' = [cacheName EXCEPT ![r] = CacheFileName[url[r]]]

\* The cache file name, and the type that the URL alone suggests.
StartRetrieve(r) ==
    /\ pc[r] = "constructed"
    /\ SetName(r)
    /\ dtype' = [dtype EXCEPT ![r] = UrlType[url[r]]]
    /\ Goto(r, "readLock")
    /\ UNCHANGED <<cacheVars, url, faults>>

\* Either of these two calls throws; they are outside the try block.
StartThrows(r) ==
    /\ pc[r] = "constructed"
    /\ Fault
    /\ SetName(r) \/ UNCHANGED cacheName
    /\ Goto(r, "failed")
    /\ UNCHANGED <<cacheVars, url, dtype>>

-----------------------------------------------------------------------------
ReadLock(r) ==
    /\ pc[r] = "readLock"
    /\ \/ ReadLockHit(Owner[r], cacheName[r]) /\ Goto(r, "ready")
       \/ ReadLockMiss(Owner[r], cacheName[r]) /\ Goto(r, "create")
    /\ UNCHANGED <<url, cacheName, dtype, faults>>

Create(r) ==
    /\ pc[r] = "create"
    /\ \/ CreateAndLock(Owner[r], cacheName[r]) /\ Goto(r, "fetch")
       \/ CreateRefused(Owner[r], cacheName[r]) /\ Goto(r, "readLock2")
    /\ UNCHANGED <<url, cacheName, dtype, faults>>

\* Slip: when the file is gone again, the retrieval tries anew, without end.
ReadLock2_Retries(r) ==
    /\ pc[r] = "readLock2"
    /\ \/ ReadLockHit(Owner[r], cacheName[r]) /\ Goto(r, "ready")
       \/ ReadLockMiss(Owner[r], cacheName[r]) /\ Goto(r, "create")
    /\ UNCHANGED <<url, cacheName, dtype, faults>>

\* The second try for a read lock; a file that is gone again is an error.
ReadLock2(r) ==
    /\ pc[r] = "readLock2"
    /\ \/ ReadLockHit(Owner[r], cacheName[r]) /\ Goto(r, "ready")
       \/ ReadLockMiss(Owner[r], cacheName[r]) /\ Goto(r, "unwind")
    /\ UNCHANGED <<url, cacheName, dtype, faults>>

-----------------------------------------------------------------------------
(* writeResourceToFile: curl writes the body piece by piece.               *)
WriteChunk(r) ==
    LET f == cacheName[r] IN
    /\ pc[r] = "fetch"
    /\ \E n \in 1..MaxBytes :
         size[f] + n <= MaxBytes /\ size' = [size EXCEPT ![f] = @ + n]
    /\ UNCHANGED <<content, lock, info, cacheLock, resVars>>

BodyEnds(r, outcome) ==
    /\ pc[r] = "fetch"
    /\ content' = [content EXCEPT ![cacheName[r]] = outcome]
    /\ UNCHANGED <<size, lock, info, cacheLock, url, cacheName>>

\* setType: the type t of the headers first, then the URL, then "unknown".
SetType(u, t) ==
    IF t # "" THEN t ELSE IF UrlType[u] # "" THEN UrlType[u] ELSE "unknown"

FetchOK(r) ==
    /\ BodyEnds(r, "complete")
    /\ \E t \in HeaderTypes[url[r]] : dtype' = [dtype EXCEPT ![r] = SetType(url[r], t)]
    /\ Goto(r, "toShared")
    /\ UNCHANGED faults

\* curl reports an error, or the server a status of 400 or more.
FetchError(r) ==
    /\ BodyEnds(r, "aborted")
    /\ Goto(r, "unwind")
    /\ UNCHANGED <<dtype, faults>>

\* The whole body has come, but lseek() or setType() throws.
FetchThrows(r) ==
    /\ Fault
    /\ BodyEnds(r, "complete")
    /\ Goto(r, "unwind")
    /\ UNCHANGED dtype

-----------------------------------------------------------------------------
ToShared(r) ==
    /\ pc[r] = "toShared"
    /\ ExclusiveToShared(Owner[r], cacheName[r])
    /\ Goto(r, "updateInfo")
    /\ UNCHANGED <<url, cacheName, dtype, faults>>

\* Slip: a small response is not added to the recorded total.
UpdateInfo_SkipsSmall(r) ==
    /\ pc[r] = "updateInfo"
    /\ IF CacheTooBig(NewInfo(cacheName[r]))
       THEN UpdateCacheInfo(Owner[r], cacheName[r]) /\ Goto(r, "purge")
       ELSE UNCHANGED cacheVars /\ Goto(r, "ready")
    /\ UNCHANGED <<url, cacheName, dtype, faults>>

\* Slip: the limit is checked with the total from before the update.
UpdateInfo_ChecksFirst(r) ==
    /\ pc[r] = "updateInfo"
    /\ UpdateCacheInfo(Owner[r], cacheName[r])
    /\ Goto(r, IF CacheTooBig(info) THEN "purge" ELSE "ready")
    /\ UNCHANGED <<url, cacheName, dtype, faults>>

UpdateInfo(r) ==
    /\ pc[r] = "updateInfo"
    /\ UpdateCacheInfo(Owner[r], cacheName[r])
    /\ Goto(r, IF CacheTooBig(NewInfo(cacheName[r])) THEN "purge" ELSE "ready")
    /\ UNCHANGED <<url, cacheName, dtype, faults>>

Purge(r) ==
    /\ pc[r] = "purge"
    /\ UpdateAndPurge(Owner[r], cacheName[r])
    /\ Goto(r, "ready")
    /\ UNCHANGED <<url, cacheName, dtype, faults>>

\* Any call of the cache may throw, without having had its effect.
CacheCallThrows(r) ==
    /\ pc[r] \in CacheCalls
    /\ Fault
    /\ IF pc[r] = "toShared" THEN UNCHANGED cacheVars ELSE CallThrows(Owner[r])
    /\ Goto(r, "unwind")
    /\ UNCHANGED <<url, cacheName, dtype>>

\* Slip: the exception passes without unlock_cache().
Unwind_NoUnlock(r) ==
    /\ pc[r] = "unwind"
    /\ Goto(r, "failed")
    /\ UNCHANGED <<cacheVars, url, cacheName, dtype, faults>>

\* catch (...): gives up the cache-wide lock and passes the exception on.
Unwind(r) ==
    /\ pc[r] = "unwind"
    /\ UnlockCache(Owner[r])
    /\ Goto(r, "failed")
    /\ UNCHANGED <<url, cacheName, dtype, faults>>

-----------------------------------------------------------------------------
(* The destructor, and the end of a process.                               *)
\* Slip: the destructor does not clear d_resourceCacheFileName.
Forget_KeepsName(R) ==
    /\ pc' = [r \in Resources |-> IF r \in R THEN "none" ELSE pc[r]]
    /\ url' = [r \in Resources |-> IF r \in R THEN None ELSE url[r]]
    /\ dtype' = [r \in Resources |-> IF r \in R THEN "" ELSE dtype[r]]
    /\ UNCHANGED cacheName

Forget(R) ==
    /\ pc' = [r \in Resources |-> IF r \in R THEN "none" ELSE pc[r]]
    /\ url' = [r \in Resources |-> IF r \in R THEN None ELSE url[r]]
    /\ cacheName' = [r \in Resources |-> IF r \in R THEN None ELSE cacheName[r]]
    /\ dtype' = [r \in Resources |-> IF r \in R THEN "" ELSE dtype[r]]

\* Slip: only an initialized object unlocks its file.
Delete_OnlyIfReady(r) ==
    /\ pc[r] \in {"ready", "failed"}
    /\ Idle(Owner[r])
    /\ IF pc[r] = "ready" THEN UnlockAndClose(Owner[r], cacheName[r])
                           ELSE UNCHANGED cacheVars
    /\ Forget({r})
    /\ UNCHANGED faults

Delete(r) ==
    /\ pc[r] \in {"ready", "failed"}
    /\ Idle(Owner[r])
    /\ IF cacheName[r] # None THEN UnlockAndClose(Owner[r], cacheName[r])
                              ELSE UNCHANGED cacheVars
    /\ Forget({r})
    /\ UNCHANGED faults

Crash(p) ==
    LET mine == {r \in Resources : Owner[r] = p} IN
    /\ \E r \in mine : pc[r] # "none"
    /\ Fault
    /\ ProcessEnds(p, {cacheName[r] : r \in {s \in mine : pc[s] = "fetch"}})
    /\ Forget(mine)

-----------------------------------------------------------------------------
Fetch(r) == WriteChunk(r) \/ FetchOK(r) \/ FetchError(r) \/ FetchThrows(r)

Retrieve(r) ==
    \/ StartRetrieve(r) \/ StartThrows(r)
    \/ ReadLock(r) \/ Create(r) \/ ReadLock2(r)
    \/ Fetch(r)
    \/ ToShared(r) \/ UpdateInfo(r) \/ Purge(r)
    \/ CacheCallThrows(r) \/ Unwind(r)

Next ==
    \/ \E r \in Resources : New(r) \/ Retrieve(r) \/ Delete(r)
    \/ \E p \in Procs : Crash(p)

Spec == Init /\ [][Next]_vars

-----------------------------------------------------------------------------
(* Safety.                                                                 *)

\* r is the only resource that its process ever has.
Sole(r) == \A s \in Resources : Owner[s] = Owner[r] => s = r

(* While a resource downloads, it alone has the cache file: the file is    *)
(* its unfinished one, locked for writing by its process, and no other     *)
(* process has any lock on it (create_and_lock decides one winner among    *)
(* the processes that missed the same URL at the same time).               *)
FetchIsExclusive ==
    \A r \in Resources : pc[r] = "fetch" =>
        LET f == cacheName[r] IN
        /\ content[f] = "writing"
        /\ lock[f][Owner[r]] = "exclusive"
        /\ ~LockedByOther(f, Owner[r])

(* Every lock on a cache file is accounted for by a live resource of the   *)
(* process, so deleting the resource releases it on every path out of      *)
(* retrieveResource(), the exceptional ones and a crash included.          *)
NoLeakedLock ==
    \A f \in Files, p \in Procs : lock[f][p] # "none" =>
        \E r \in Resources : Owner[r] = p /\ cacheName[r] = f

(* The cache-wide lock outlives a call only while an exception is on its   *)
(* way to the catch (...) of retrieveResource(), which gives it up.        *)
CacheLockFreed ==
    cacheLock # None =>
        \E r \in Resources : Owner[r] = cacheLock /\ pc[r] = "unwind"

(* From the return of retrieveResource() to the destructor the cache file  *)
(* is there, is finished, and is read-locked: no purge of any process can  *)
(* take it.  Holds for a process with a single resource; KeepsReadLock in  *)
(* DocumentedClaims is about two resources that share one file.            *)
InUseProtected ==
    \A r \in Resources : Sole(r) /\ pc[r] = "ready" =>
        LET f == cacheName[r] IN
        /\ content[f] \in {"complete", "aborted"}
        /\ lock[f][Owner[r]] = "shared"
        /\ ~ExclusiveByOther(f, Owner[r])

(* What a reader of the cache file sees does not change under it: while    *)
(* such a resource stays ready, no step of any process, a crash included,  *)
(* alters its file.                                                        *)
UseIsStable ==
    [][\A r \in Resources : Sole(r) /\ pc[r] = "ready" /\ pc'[r] = "ready" =>
         LET f == cacheName[r] IN
         content'[f] = content[f] /\ size'[f] = size[f]]_vars

\* The process of r has its file read-locked, perhaps for another resource.
Protected(r) == Cached(cacheName[r]) /\ lock[cacheName[r]][Owner[r]] = "shared"

(* In a process with several resources, too, nobody else can disturb the   *)
(* use of a file: while its lock is there, neither the lock nor the file   *)
(* changes, but by a purge of this process or by the destructor of another *)
(* of its resources on the same file.                                      *)
DisturbedAtHome ==
    [][\A r \in Resources : pc[r] = "ready" /\ pc'[r] = "ready" /\ Protected(r) =>
         LET f == cacheName[r] IN
         \/ Protected(r)' /\ content'[f] = content[f] /\ size'[f] = size[f]
         \/ \E s \in Resources \ {r} :
              Owner[s] = Owner[r] /\ (Purge(s) \/ (cacheName[s] = f /\ Delete(s)))]_vars

\* How many calls of the cache and of curl may still follow, and how much data.
CallsLeft ==
    [none |-> 0, failed |-> 0, ready |-> 0, unwind |-> 1, purge |-> 2, readLock2 |-> 2,
     updateInfo |-> 3, toShared |-> 4, fetch |-> 5, create |-> 6, readLock |-> 7, constructed |-> 8]

DataLeft(r) ==
    IF pc[r] \in {"constructed", "readLock", "create"} THEN MaxBytes
    ELSE IF pc[r] = "fetch" THEN MaxBytes - size[cacheName[r]] ELSE 0

AccessLeft(r) == CallsLeft[pc[r]] + DataLeft(r)

(* An access never goes back: each of its steps brings its end nearer, the *)
(* second try for a read lock after a refused create_and_lock included,    *)
(* and no other process undoes what it has reached (a file being written   *)
(* is not emptied or removed).  So all it may need without bound is data   *)
(* from the server and the lock of a writer.                               *)
AccessAdvances ==
    [][\A r \in Resources : pc[r] \in Running =>
         \/ AccessLeft(r)' \in 0..(AccessLeft(r) - 1)
         \/ AccessLeft(r)' = AccessLeft(r) /\ pc'[r] = pc[r]]_vars

\* The whole responses in the cache, those just being added excepted.
Counted ==
    {f \in Files : content[f] = "complete"}
        \ {cacheName[r] : r \in {s \in Resources : pc[s] \in {"toShared", "updateInfo"}}}

(* The recorded size never falls below what the successful downloads hold, *)
(* those just being added excepted, so a cache that is over its limit is   *)
(* noticed by the next download.  (An exception between the download and   *)
(* update_cache_info() leaves a file that is not counted.)                 *)
SizeCoversCache == faults = 0 => TotalSize(Counted) <= info

\* There are too many data, and no purge is due.
OverLimit ==
    /\ faults = 0
    /\ TotalSize(Counted) > MaxCacheSize
    /\ \A r \in Resources : pc[r] # "purge"

(* The cache outgrows its limit only because of files in use: it is left   *)
(* with too many data only by a purge to which other processes leave       *)
(* nothing but its own new file, never by a download that nobody checks.   *)
LimitYieldsToUse ==
    [][OverLimit' => \/ OverLimit
                     \/ \E r \in Resources : Purge(r) /\
                          \A f \in Files \ {cacheName[r]} :
                             Cached(f)' => LockedByOther(f, Owner[r])]_vars
=============================================================================
