-------------------------- MODULE FileLockingCache --------------------------
(***************************************************************************)
(* The disk cache that the beslistener processes of one host share.  The   *)
(* class (BESFileLockingCache, the base of GatewayCache) belongs to the    *)
(* BES framework and is not in this repository: the operations below are   *)
(* what the gateway's calls rely on.                                       *)
(*                                                                         *)
(* A cache-wide lock serialises the calls, so each call is one step.  File *)
(* locks are advisory locks of the operating system: a process owns them,  *)
(* not an object of the process; a process never conflicts with a lock of  *)
(* its own; and closing the file drops every lock the process has on it.   *)
(***************************************************************************)
EXTENDS Naturals, FiniteSets

CONSTANTS
    Procs,          \* the beslistener processes
    Files,          \* names of files in the cache directory
    MaxCacheSize,   \* the limit that triggers a purge (Gateway.Cache.size)
    PurgeTarget,    \* a purge removes files until this much is left
    MaxBytes,       \* bound: the units of data one response may have
    None            \* "no process", "no file", "no url"

ASSUME CacheAssumption ==
    /\ IsFiniteSet(Files)
    /\ MaxCacheSize \in Nat /\ PurgeTarget \in Nat /\ MaxBytes \in Nat
    /\ PurgeTarget <= MaxCacheSize
    /\ None \notin Procs \cup Files

VARIABLES
    content,    \* content[f]: what a reader of file f would find
    size,       \* size[f]: the units of data in file f
    lock,       \* lock[f][p]: the lock process p has on file f
    info,       \* the total size recorded in the cache's info file
    cacheLock   \* the process that left the cache-wide lock held, or None

cacheVars == <<content, size, lock, info, cacheLock>>

\* "complete": the whole response; "aborted": what a failed one left behind,
\* be it the body of an error page, a part of the data or nothing.
Content == {"absent", "writing", "complete", "aborted"}
LockMode == {"none", "shared", "exclusive"}

CacheTypeOK ==
    /\ content \in [Files -> Content]
    /\ size \in [Files -> 0..MaxBytes]
    /\ lock \in [Files -> [Procs -> LockMode]]
    /\ info \in Nat
    /\ cacheLock \in Procs \cup {None}

CacheInit ==
    /\ content = [f \in Files |-> "absent"]
    /\ size = [f \in Files |-> 0]
    /\ lock = [f \in Files |-> [p \in Procs |-> "none"]]
    /\ info = 0
    /\ cacheLock = None

-----------------------------------------------------------------------------
Cached(f) == content[f] # "absent"

LockedByOther(f, p) == \E q \in Procs \ {p} : lock[f][q] # "none"

ExclusiveByOther(f, p) == \E q \in Procs \ {p} : lock[f][q] = "exclusive"

\* A call may start only when no other process has the cache-wide lock.
CacheFree(p) == cacheLock \in {None, p}

\* The units of data in the files of F, one pair for each.
Stored(F) == {u \in F \X (1..MaxBytes) : u[2] <= size[u[1]]}

TotalSize(F) == Cardinality(Stored(F))

SetLock(f, p, mode) == lock' = [lock EXCEPT ![f][p] = mode]

-----------------------------------------------------------------------------
(* get_read_lock: false if the file is not there; otherwise it waits for a *)
(* writer of another process and takes a shared lock.                      *)
ReadLockHit(p, f) ==
    /\ CacheFree(p)
    /\ Cached(f)
    /\ ~ExclusiveByOther(f, p)
    /\ SetLock(f, p, "shared")
    /\ UNCHANGED <<content, size, info, cacheLock>>

ReadLockMiss(p, f) ==
    /\ CacheFree(p)
    /\ ~Cached(f)
    /\ UNCHANGED cacheVars

\* Slip: the file is opened without O_EXCL, so a second writer gets it too.
CreateAndLock_Reopens(p, f) ==
    /\ CacheFree(p)
    /\ content' = [content EXCEPT ![f] = "writing"]
    /\ size' = [size EXCEPT ![f] = 0]
    /\ SetLock(f, p, "exclusive")
    /\ UNCHANGED <<info, cacheLock>>

(* create_and_lock: makes an empty file and locks it for writing, or       *)
(* returns false when some process has made the file first.                *)
CreateAndLock(p, f) ==
    /\ CacheFree(p)
    /\ ~Cached(f)
    /\ content' = [content EXCEPT ![f] = "writing"]
    /\ size' = [size EXCEPT ![f] = 0]
    /\ SetLock(f, p, "exclusive")
    /\ UNCHANGED <<info, cacheLock>>

CreateRefused(p, f) ==
    /\ CacheFree(p)
    /\ Cached(f)
    /\ UNCHANGED cacheVars

\* Slip: the exclusive lock is given up, not changed to a shared one.
ExclusiveToShared_Unlocks(p, f) ==
    /\ SetLock(f, p, "none")
    /\ UNCHANGED <<content, size, info, cacheLock>>

\* exclusive_to_shared_lock: works on the descriptor alone.
ExclusiveToShared(p, f) ==
    /\ SetLock(f, p, "shared")
    /\ UNCHANGED <<content, size, info, cacheLock>>

\* update_cache_info: adds the new file to the recorded total.
NewInfo(f) == info + size[f]

UpdateCacheInfo(p, f) ==
    /\ CacheFree(p)
    /\ info' = NewInfo(f)
    /\ UNCHANGED <<content, size, lock, cacheLock>>

CacheTooBig(total) == total > MaxCacheSize

-----------------------------------------------------------------------------
\* Slip: the purge takes files whoever has them locked.
Purgeable_IgnoresLocks(p, keep) == {f \in Files \ {keep} : Cached(f)}

(* update_and_purge: recomputes the total; if it is too big, removes files *)
(* in some order until the target is met or no candidate is left.  A file  *)
(* that another process has locked is skipped, and so is the file "keep".  *)
Purgeable(p, keep) == {f \in Files \ {keep} : Cached(f) /\ ~LockedByOther(f, p)}

\* Slip: the purge goes on for ever when too few files can be removed.
PurgeStops_AtTarget(V, candidates) == TotalSize(Files \ V) <= PurgeTarget

PurgeStops(V, candidates) ==
    \/ V = candidates
    \/ TotalSize(Files \ V) <= PurgeTarget

PurgeChoices(p, keep) ==
    IF CacheTooBig(TotalSize(Files))
    THEN LET candidates == Purgeable(p, keep)
         IN  {V \in SUBSET candidates :
                /\ PurgeStops(V, candidates)
                /\ V = {} \/ \E last \in V : TotalSize(Files \ (V \ {last})) > PurgeTarget}
    ELSE {{}}

\* The purger's own locks do not stop it, and go with the removed file.
RemoveFiles(V) ==
    /\ content' = [f \in Files |-> IF f \in V THEN "absent" ELSE content[f]]
    /\ size' = [f \in Files |-> IF f \in V THEN 0 ELSE size[f]]
    /\ lock' = [f \in Files |-> IF f \in V THEN [p \in Procs |-> "none"] ELSE lock[f]]

UpdateAndPurge(p, keep) ==
    /\ CacheFree(p)
    /\ \E V \in PurgeChoices(p, keep) :
         /\ RemoveFiles(V)
         /\ info' = TotalSize(Files \ V)
    /\ UNCHANGED cacheLock

-----------------------------------------------------------------------------
\* unlock_and_close: drops whatever lock this process has on the file.
UnlockAndClose(p, f) ==
    /\ SetLock(f, p, "none")
    /\ UNCHANGED <<content, size, info, cacheLock>>

\* unlock_cache: gives up the cache-wide lock; no effect without it.
UnlockCache(p) ==
    /\ cacheLock' = IF cacheLock = p THEN None ELSE cacheLock
    /\ UNCHANGED <<content, size, lock, info>>

\* A call that throws may leave the cache-wide lock with the caller.
CallThrows(p) ==
    /\ \/ cacheLock' = cacheLock
       \/ CacheFree(p) /\ cacheLock' = p
    /\ UNCHANGED <<content, size, lock, info>>

\* The end of a process drops its locks; what it was writing stays cut short.
ProcessEnds(p, writes) ==
    /\ content' = [f \in Files |-> IF f \in writes THEN "aborted" ELSE content[f]]
    /\ lock' = [f \in Files |-> [lock[f] EXCEPT ![p] = "none"]]
    /\ cacheLock' = IF cacheLock = p THEN None ELSE cacheLock
    /\ UNCHANGED <<size, info>>
=============================================================================
