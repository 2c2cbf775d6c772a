-------------------------- MODULE ConcurrentRequests --------------------------
(***************************************************************************)
(* The requests of several beslistener processes.  A request looks up      *)
(* copies of the containers that a client has defined and accesses them    *)
(* one after another; each access is a RemoteHttpResource of that process, *)
(* and the resources of all processes share the cache.                     *)
(*                                                                         *)
(* The order in which the BES calls a container is external: an access     *)
(* that throws ends its request, and the containers of the request are     *)
(* then destroyed before the process accesses any other.  Definitions of   *)
(* containers are fixed here; GatewayContainer has the storage at work.    *)
(***************************************************************************)
EXTENDS RemoteHttpResource

CONSTANTS
    Names,      \* the containers clients have defined, of type "gateway"
    RealName,   \* RealName[n]: the URL of container n
    Copies,     \* heap addresses of the copies that requests look up
    Original,   \* Original[c]: the container that c is a copy of
    Holder      \* Holder[c]: the process of copy c

ASSUME RequestAssumption ==
    /\ RealName \in [Names -> Urls]
    /\ Original \in [Copies -> Names]
    /\ Holder \in [Copies -> Procs]
    /\ Names \cap Copies = {}
    /\ None \notin Names \cup Copies \cup Resources
    /\ {"", "gateway"} \cap Types = {}

VARIABLES
    realName,   \* realName[c]: the URL of copy c, None if c is no object
    ctype,      \* ctype[c]: the container type
    remote,     \* remote[c]: _remoteResource, None if null
    result      \* result[c]: what access() gave since the last release()

copyVars == <<realName, ctype, remote, result>>
requestVars == <<vars, copyVars>>

CopiesOf(p) == {c \in Copies : Holder[c] = p}
ResourcesOf(p) == {r \in Resources : Owner[r] = p}

Live(c) == realName[c] # None

\* access() of c is under way.
Accessing(c) == remote[c] # None /\ pc[remote[c]] \in Running

\* A request of p has met an error and is being cleaned up.
Failing(p) == \E c \in CopiesOf(p) : result[c] = "error"

RequestInit ==
    /\ Init
    /\ realName = [c \in Copies |-> None]
    /\ ctype = [c \in Copies |-> ""]
    /\ remote = [c \in Copies |-> None]
    /\ result = [c \in Copies |-> "none"]

-----------------------------------------------------------------------------
\* The storage's look_for: a duplicate of a defined container.
LookFor(c) ==
    /\ ~Live(c)
    /\ Idle(Holder[c])
    /\ ~Failing(Holder[c])
    /\ realName' = [realName EXCEPT ![c] = RealName[Original[c]]]
    /\ ctype' = [ctype EXCEPT ![c] = "gateway"]
    /\ UNCHANGED <<vars, remote, result>>

\* Slip: the request goes on to its next container after an error.
MayAccess_AfterError(c) ==
    /\ Live(c)
    /\ remote[c] = None
    /\ Idle(Holder[c])

MayAccess(c) ==
    /\ Live(c)
    /\ remote[c] = None
    /\ Idle(Holder[c])
    /\ ~Failing(Holder[c])

\* Which free memory a new resource gets makes no difference.
NewAddress(p) == CHOOSE r \in ResourcesOf(p) : pc[r] = "none"

(* access() of a container without a resource: it keeps the new resource,  *)
(* then retrieves it.  A second access() changes nothing.                  *)
Access(c, r) ==
    /\ MayAccess(c)
    /\ New(r) /\ url'[r] = realName[c]
    /\ Owner[r] = Holder[c] /\ r = NewAddress(Holder[c])
    /\ remote' = [remote EXCEPT ![c] = r]
    /\ UNCHANGED <<realName, ctype, result>>

\* The constructor of the resource throws.
AccessFails(c) ==
    /\ MayAccess(c)
    /\ result' = [result EXCEPT ![c] = "error"]
    /\ UNCHANGED <<vars, realName, ctype, remote>>

\* Slip: access() does not pass the type on to the container.
AccessReturns_KeepsType(c) ==
    /\ result' = [result EXCEPT ![c] =
                    CASE pc'[remote[c]] = "ready" -> "file"
                      [] pc'[remote[c]] = "failed" -> "error"
                      [] OTHER -> @]
    /\ UNCHANGED ctype

\* Where a step of the retrieval leaves access(): it goes on or is over.
AccessReturns(c) ==
    \/ pc'[remote[c]] \in Running /\ UNCHANGED <<ctype, result>>
    \/ /\ pc'[remote[c]] = "ready"
       /\ ctype' = [ctype EXCEPT ![c] = dtype'[remote[c]]]
       /\ result' = [result EXCEPT ![c] = "file"]
    \/ /\ pc'[remote[c]] = "failed"
       /\ result' = [result EXCEPT ![c] = "error"]
       /\ UNCHANGED ctype

Proceed(c) ==
    /\ remote[c] # None
    /\ Retrieve(remote[c])
    /\ AccessReturns(c)
    /\ UNCHANGED <<realName, remote>>

-----------------------------------------------------------------------------
\* Slip: release() leaves its pointer to the deleted resource as it is.
Release_Dangles(c) ==
    /\ remote[c] # None
    /\ Delete(remote[c])
    /\ result' = [result EXCEPT ![c] = "none"]
    /\ UNCHANGED <<realName, ctype, remote>>

Release(c) ==
    /\ remote[c] # None
    /\ Delete(remote[c])
    /\ remote' = [remote EXCEPT ![c] = None]
    /\ result' = [result EXCEPT ![c] = "none"]
    /\ UNCHANGED <<realName, ctype>>

Clear(C) ==
    /\ realName' = [c \in Copies |-> IF c \in C THEN None ELSE realName[c]]
    /\ ctype' = [c \in Copies |-> IF c \in C THEN "" ELSE ctype[c]]
    /\ remote' = [c \in Copies |-> IF c \in C THEN None ELSE remote[c]]
    /\ result' = [c \in Copies |-> IF c \in C THEN "none" ELSE result[c]]

\* Slip: the destructor does not release the resource.
Destroy_NoRelease(c) ==
    /\ Live(c)
    /\ Idle(Holder[c])
    /\ Clear({c})
    /\ UNCHANGED vars

\* The destructor releases the resource, if there is one.
Destroy(c) ==
    /\ Live(c)
    /\ Idle(Holder[c])
    /\ IF remote[c] # None THEN Delete(remote[c]) ELSE UNCHANGED vars
    /\ Clear({c})

\* A new process takes the place of one that has ended.
ListenerCrash(p) == Crash(p) /\ Clear(CopiesOf(p))

Step(c) ==
    \/ LookFor(c)
    \/ \E r \in Resources : Access(c, r)
    \/ AccessFails(c) \/ Proceed(c)
    \/ Release(c) \/ Destroy(c)

RequestNext ==
    \/ \E c \in Copies : Step(c)
    \/ \E p \in Procs : ListenerCrash(p)

RequestSpec == RequestInit /\ [][RequestNext]_requestVars

-----------------------------------------------------------------------------
(* Scheduling.  A process has one thread and keeps running: its next step  *)
(* outside a transfer is taken once it stays possible, and a request that  *)
(* has met an error is cleaned up.  A reader that waits for a file lock is *)
(* queued by the operating system, so it gets the lock if it becomes free  *)
(* again and again.  No client has to make a request, and no transfer has  *)
(* to end.                                                                 *)
Within(p, A(_)) ==
    \E c \in CopiesOf(p) :
        /\ remote[c] # None
        /\ A(remote[c])
        /\ AccessReturns(c)
        /\ UNCHANGED <<realName, remote>>

LocalStep(r) ==
    \/ StartRetrieve(r) \/ Create(r)
    \/ ToShared(r) \/ UpdateInfo(r) \/ Purge(r) \/ Unwind(r)

GetsLock(r) == ReadLock(r) \/ ReadLock2(r)

CleansUp(p) == \E c \in CopiesOf(p) : result[c] = "error" /\ Destroy(c)

Fairness ==
    \A p \in Procs :
        /\ WF_requestVars(Within(p, LocalStep) \/ CleansUp(p))
        /\ SF_requestVars(Within(p, GetsLock))

FairRequests == RequestSpec /\ Fairness

-----------------------------------------------------------------------------
CopyTypes ==
    /\ realName \in [Copies -> Urls \cup {None}]
    /\ ctype \in [Copies -> Types \cup {"", "unknown", "gateway"}]
    /\ remote \in [Copies -> Resources \cup {None}]
    /\ result \in [Copies -> {"none", "file", "error"}]

\* What access() of c gave is what became of its resource.
CopyOK(c) ==
    /\ ~Live(c) => remote[c] = None /\ result[c] = "none"
    /\ remote[c] = None => result[c] # "file"
    /\ remote[c] # None =>
         /\ Owner[remote[c]] = Holder[c]
         /\ pc[remote[c]] # "none"
         /\ result[c] = IF pc[remote[c]] = "ready" THEN "file"
                        ELSE IF pc[remote[c]] = "failed" THEN "error" ELSE "none"

(* Types; a copy has a resource of its own process, and only while both    *)
(* exist, and it gives out a file or an error as the resource came out.    *)
CopiesOK == CopyTypes /\ \A c \in Copies : CopyOK(c)

\* The next call of p asks for a read lock, which may make it wait.
AsksForLock(p) == \E r \in ResourcesOf(p) : pc[r] \in {"readLock", "readLock2"}

(* No circular wait: a process that waits for the lock on one file has no  *)
(* other process waiting for it, since it holds no file locked for writing *)
(* and not the cache-wide lock.  A failed download does stay locked for    *)
(* writing until its container is destroyed.                               *)
WaitersHoldNothing ==
    \A p \in Procs : AsksForLock(p) =>
        /\ \A f \in Files : lock[f][p] # "exclusive"
        /\ cacheLock # p

\* p can not go on before q gives up a lock.
WaitsFor(p, q) ==
    /\ q # p
    /\ \E r \in ResourcesOf(p) :
         \/ pc[r] \in CacheCalls \ {"toShared"} /\ cacheLock = q
         \/ pc[r] \in {"readLock", "readLock2"} /\ lock[cacheName[r]][q] = "exclusive"

(* No deadlock: whoever is waited for, on a file or on the cache-wide      *)
(* lock, waits for nobody, and has either an access under way or an error  *)
(* to clean up, so what it holds will be given up.                         *)
WaitersWaitForWorkers ==
    \A p, q \in Procs : WaitsFor(p, q) =>
        /\ ~\E s \in Procs : WaitsFor(q, s)
        /\ ~Idle(q) \/ Failing(q)

FaultFree(r) == Retrieve(r) /\ faults' = faults

(* Nothing but a lock stops an access: a process inside one can take its   *)
(* next step unless it waits for another process, so WaitsFor has every    *)
(* reason there is.  A purge that finds too few files to remove, or a file *)
(* that is gone when it is looked for, leaves a step to take.              *)
OnlyLocksBlock ==
    \A p \in Procs :
        \/ Idle(p)
        \/ \E q \in Procs : WaitsFor(p, q)
        \/ ENABLED Within(p, FaultFree)

(* A process without containers holds no lock: whatever its requests did,  *)
(* and however they failed, nothing of them blocks another process or      *)
(* keeps a file from being purged.                                         *)
IdleHoldsNothing ==
    \A p \in Procs : (\A c \in CopiesOf(p) : ~Live(c)) =>
        /\ \A f \in Files : lock[f][p] = "none"
        /\ cacheLock # p

-----------------------------------------------------------------------------
(* The containers of one process as GatewayContainer has them: an access   *)
(* takes effect when it returns or throws.                                 *)
ContainersOf(p) == Names \cup CopiesOf(p)

RealNames(p) == [c \in ContainersOf(p) |-> IF c \in Names THEN RealName[c] ELSE realName[c]]
CTypes(p) == [c \in ContainersOf(p) |-> IF c \in Names THEN "gateway" ELSE ctype[c]]
Remotes(p) ==
    [c \in ContainersOf(p) |->
        IF c \in Names THEN None ELSE IF Accessing(c) THEN None ELSE remote[c]]
Objects(p) == [r \in ResourcesOf(p) |-> IF pc[r] \in {"ready", "failed"} THEN pc[r] ELSE "free"]
Results(p) == [c \in ContainersOf(p) |-> IF c \in Names THEN "none" ELSE result[c]]

Container(p) ==
    INSTANCE GatewayContainer WITH
        Containers <- ContainersOf(p), Resources <- ResourcesOf(p), WhiteList <- Urls,
        realName <- RealNames(p), ctype <- CTypes(p), remote <- Remotes(p),
        object <- Objects(p), stored <- [n \in Names |-> n], result <- Results(p)

\* The state in which a process starts.
Fresh(p) ==
    /\ \A c \in CopiesOf(p) : ~Live(c)
    /\ \A r \in ResourcesOf(p) : pc[r] = "none"

(* What GatewayContainer promises for one process alone holds of every     *)
(* process, whoever competes for the cache or ends: each resource has one  *)
(* container that deletes it, and only a retrieval that succeeded gives    *)
(* out a file and the type of a response.                                  *)
ContainersSound ==
    \A p \in Procs :
        /\ Container(p)!TypeOK
        /\ Container(p)!SoleOwner
        /\ Container(p)!FileMeansRetrieved

(* What a process does to its containers and their resources, step by step *)
(* and in competition with other processes for the cache, is what          *)
(* GatewayContainer says of an access in one step, restarts apart.         *)
ImplementsContainers ==
    [][\A p \in Procs :
         \/ UNCHANGED Container(p)!containerVars
         \/ Fresh(p)'
         \/ Container(p)!Request]_requestVars

-----------------------------------------------------------------------------
\* The transfers of all resources end (the code sets no time limit on them).
TransfersEnd == \A r \in Resources : []<>(pc[r] # "fetch")

(* No process stays inside an access: it returns or throws, whoever else  *)
(* works on the same file, if only transfers end.  Processes that wait for *)
(* the lock of a failed download get it once that request is cleaned up.   *)
AccessEnds ==
    TransfersEnd => \A p \in Procs : []<>Idle(p)
=============================================================================
