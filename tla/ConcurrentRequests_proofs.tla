----------------------- MODULE ConcurrentRequests_proofs -----------------------
(***************************************************************************)
(* Requests in any number of processes, for any number of containers, URLs *)
(* and files: no circular wait, no lock left behind, and every process     *)
(* does to its containers what GatewayContainer says.                      *)
(***************************************************************************)
EXTENDS ConcurrentRequests, RetrievalService_proofs

\* Every resource is held by one container.
HeldByOne ==
    /\ \A r \in Resources : pc[r] # "none" => \E c \in Copies : remote[c] = r
    /\ \A c, d \in Copies : remote[c] = remote[d] /\ remote[c] # None => c = d

\* A process whose request met an error retrieves nothing.
ErrorIsIdle == \A p \in Procs : Failing(p) => Idle(p)

RequestInv == CopiesOK /\ HeldByOne /\ ErrorIsIdle

LEMMA RequestInitial == RequestInit => RequestInv
<1> SUFFICES ASSUME RequestInit
             PROVE  RequestInv
  OBVIOUS
<1>1. CopiesOK
  BY DEF RequestInit, CopiesOK, CopyTypes, CopyOK
<1>2. HeldByOne
  BY DEF RequestInit, Init, HeldByOne
<1>3. ErrorIsIdle
  BY DEF RequestInit, ErrorIsIdle, Failing, CopiesOf
<1> QED
  BY <1>1, <1>2, <1>3 DEF RequestInv

(* Every step of a request is a step of the resources, or none.            *)
LEMMA RequestsAreRetrievals == CopiesOK /\ [RequestNext]_requestVars => [Next]_vars
<1> SUFFICES ASSUME CopiesOK, [RequestNext]_requestVars
             PROVE  [Next]_vars
  OBVIOUS
<1>1. ASSUME NEW c \in Copies, Step(c)
      PROVE  [Next]_vars
  <2>1. remote[c] # None => remote[c] \in Resources
    BY DEF CopiesOK, CopyTypes
  <2>2. CASE LookFor(c) \/ AccessFails(c)
    BY <2>2 DEF LookFor, AccessFails
  <2>3. ASSUME NEW r \in Resources, Access(c, r)
        PROVE  Next
    BY <2>3 DEF Access, Next
  <2>4. CASE Proceed(c)
    BY <2>1, <2>4 DEF Proceed, Next
  <2>5. CASE Release(c)
    BY <2>1, <2>5 DEF Release, Next
  <2>6. CASE Destroy(c)
    BY <2>1, <2>6 DEF Destroy, Next
  <2> QED
    BY <1>1, <2>2, <2>3, <2>4, <2>5, <2>6 DEF Step
<1>2. ASSUME NEW p \in Procs, ListenerCrash(p)
      PROVE  Next
  BY <1>2 DEF ListenerCrash, Next
<1>3. CASE UNCHANGED requestVars
  BY <1>3 DEF requestVars
<1> QED
  BY <1>1, <1>2, <1>3 DEF RequestNext

-----------------------------------------------------------------------------
(* A step of copy c changes no other copy and no other's resource; c may   *)
(* take a new resource or give up the one it has.                          *)
LEMMA StepOfOne ==
    ASSUME RequestInv, NEW c \in Copies,
           CopyTypes', CopyOK(c)',
           \A d \in Copies : d # c =>
              realName'[d] = realName[d] /\ remote'[d] = remote[d] /\ result'[d] = result[d],
           \A s \in Resources : s # remote[c] /\ s # remote'[c] => pc'[s] = pc[s],
           \/ remote'[c] = remote[c]
           \/ remote'[c] = None /\ pc'[remote[c]] = "none"
           \/ remote[c] = None /\ remote'[c] \in Resources /\ pc[remote'[c]] = "none",
           Failing(Holder[c])' => Idle(Holder[c])'
    PROVE  RequestInv'
<1>0. None \notin Resources
  BY RequestAssumption
<1>1. /\ CopyTypes
      /\ \A d \in Copies : CopyOK(d)
      /\ HeldByOne
      /\ ErrorIsIdle
  BY DEF RequestInv, CopiesOK
<1>2. ASSUME NEW d \in Copies, d # c, remote[d] # None
      PROVE  remote[d] \in Resources /\ remote[d] # remote[c] /\ remote[d] # remote'[c]
    <2>1. remote[d] \in Resources
      BY <1>1, <1>2 DEF CopyTypes
    <2>2. remote[d] # remote[c]
      BY <1>1, <1>2 DEF HeldByOne
    <2>3. pc[remote[d]] # "none"
      BY <1>1, <1>2 DEF CopyOK
    <2> QED
      BY <1>2, <2>1, <2>2, <2>3
<1>3. \A d \in Copies : CopyOK(d)'
  <2> SUFFICES ASSUME NEW d \in Copies, d # c
               PROVE  CopyOK(d)'
    OBVIOUS
  <2>0. realName'[d] = realName[d] /\ remote'[d] = remote[d] /\ result'[d] = result[d]
    OBVIOUS
  <2>1. CASE remote[d] = None
    BY <1>1, <2>0, <2>1 DEF CopyOK, Live
  <2>2. CASE remote[d] # None
    <3>1. pc'[remote[d]] = pc[remote[d]]
      BY <1>2, <2>2
    <3> QED
      BY <1>1, <2>0, <2>2, <3>1 DEF CopyOK, Live
  <2> QED
    BY <2>1, <2>2
<1>4. HeldByOne'
  <2>1. ASSUME NEW s \in Resources, pc'[s] # "none"
        PROVE  \E d \in Copies : remote'[d] = s
    <3>1. CASE s = remote'[c]
      BY <3>1
    <3>2. CASE s # remote'[c] /\ s = remote[c]
      BY <1>0, <2>1, <3>2
    <3>3. CASE s # remote'[c] /\ s # remote[c]
      <4>1. PICK d \in Copies : remote[d] = s
        BY <1>1, <2>1, <3>3 DEF HeldByOne
      <4> QED
        BY <3>3, <4>1
    <3> QED
      BY <3>1, <3>2, <3>3
  <2>2. ASSUME NEW d \in Copies, NEW e \in Copies, remote'[d] = remote'[e], remote'[d] # None
        PROVE  d = e
    <3>1. CASE d # c /\ e # c
      BY <1>1, <2>2, <3>1 DEF HeldByOne
    <3>2. CASE d = c /\ e # c
      BY <1>2, <2>2, <3>2
    <3>3. CASE d # c /\ e = c
      BY <1>2, <2>2, <3>3
    <3> QED
      BY <3>1, <3>2, <3>3
  <2> QED
    BY <2>1, <2>2 DEF HeldByOne
<1>5. ErrorIsIdle'
  <2> SUFFICES ASSUME NEW q \in Procs, Failing(q)', q # Holder[c]
               PROVE  Idle(q)'
    BY DEF ErrorIsIdle
  <2>1. Idle(q)
    <3>1. PICK d \in Copies : Holder[d] = q /\ result'[d] = "error"
      BY DEF Failing, CopiesOf
    <3>2. Holder[d] = q /\ result[d] = "error"
      BY <3>1
    <3> QED
      BY <1>1, <3>2 DEF ErrorIsIdle, Failing, CopiesOf
  <2>2. ASSUME NEW s \in Resources, Owner[s] = q
        PROVE  pc'[s] \notin Running
    <3>1. s # remote[c] /\ s # remote'[c]
      BY <1>0, <1>1, <2>2 DEF CopyOK
    <3> QED
      BY <2>1, <2>2, <3>1 DEF Idle
  <2> QED
    BY <2>2 DEF Idle
<1> QED
  BY <1>3, <1>4, <1>5 DEF RequestInv, CopiesOK

-----------------------------------------------------------------------------
(* What each action of a request does to the invariant.                    *)
LEMMA LookForStep ==
    ASSUME TypeOK, RequestInv, NEW c \in Copies, LookFor(c)
    PROVE  RequestInv'
<1>0. None \notin Urls /\ RealName[Original[c]] \in Urls
  BY RequestAssumption, ResourceAssumption
<1>1. CopyTypes /\ CopyOK(c)
  BY DEF RequestInv, CopiesOK
<1>2. /\ UNCHANGED <<pc, remote, result>>
      /\ remote[c] = None /\ result[c] = "none"
      /\ realName' = [realName EXCEPT ![c] = RealName[Original[c]]]
      /\ ctype' = [ctype EXCEPT ![c] = "gateway"]
      /\ ~Failing(Holder[c])
  BY <1>1 DEF LookFor, vars, resVars, CopyOK, Live
<1>3. CopyTypes'
  BY <1>0, <1>1, <1>2 DEF CopyTypes
<1>4. CopyOK(c)'
  BY <1>0, <1>1, <1>2 DEF CopyOK, CopyTypes, Live
<1>5. ~Failing(Holder[c])'
  BY <1>2 DEF Failing
<1>6. \A d \in Copies : d # c => realName'[d] = realName[d]
  BY <1>1, <1>2 DEF CopyTypes
<1> QED
  BY <1>2, <1>3, <1>4, <1>5, <1>6, StepOfOne

LEMMA AccessStep ==
    ASSUME TypeOK, RequestInv, NEW c \in Copies, NEW r \in Resources, Access(c, r)
    PROVE  RequestInv'
<1>0. r # None
  BY RequestAssumption
<1>1. CopyTypes /\ CopyOK(c)
  BY DEF RequestInv, CopiesOK
<1>2. /\ Live(c) /\ remote[c] = None /\ ~Failing(Holder[c])
      /\ Owner[r] = Holder[c] /\ pc[r] = "none"
      /\ remote' = [remote EXCEPT ![c] = r]
      /\ UNCHANGED <<realName, ctype, result>>
  BY DEF Access, MayAccess, New
<1>3. pc'[r] = "constructed" /\ \A s \in Resources : s # r => pc'[s] = pc[s]
  BY GotoMoves DEF Access, New
<1>4. remote'[c] = r /\ \A d \in Copies : d # c => remote'[d] = remote[d]
  BY <1>1, <1>2 DEF CopyTypes
<1>5. result[c] = "none"
  <2>1. result[c] # "error"
    BY <1>2 DEF Failing, CopiesOf
  <2> QED
    BY <1>1, <1>2, <2>1 DEF CopyTypes, CopyOK
<1>6. CopyTypes'
  BY <1>1, <1>2 DEF CopyTypes
<1>7. CopyOK(c)'
  BY <1>2, <1>3, <1>4, <1>5 DEF CopyOK, Live
<1>8. ~Failing(Holder[c])'
  BY <1>2 DEF Failing
<1> QED
  BY <1>2, <1>3, <1>4, <1>6, <1>7, <1>8, StepOfOne
LEMMA AccessFailsStep ==
    ASSUME TypeOK, RequestInv, NEW c \in Copies, AccessFails(c)
    PROVE  RequestInv'
<1>1. CopyTypes /\ CopyOK(c)
  BY DEF RequestInv, CopiesOK
<1>2. /\ Live(c) /\ remote[c] = None /\ Idle(Holder[c])
      /\ result' = [result EXCEPT ![c] = "error"]
      /\ UNCHANGED <<pc, realName, ctype, remote>>
  BY DEF AccessFails, MayAccess, vars, resVars
<1>3. CopyTypes'
  BY <1>1, <1>2 DEF CopyTypes
<1>4. CopyOK(c)'
  BY <1>1, <1>2 DEF CopyOK, CopyTypes, Live
<1>5. \A d \in Copies : d # c => result'[d] = result[d]
  BY <1>1, <1>2 DEF CopyTypes
<1>6. Idle(Holder[c])'
  BY <1>2 DEF Idle
<1> QED
  BY <1>2, <1>3, <1>4, <1>5, <1>6, StepOfOne

(* A resource in retrieval belongs to a process without an error.          *)
LEMMA ProceedStep ==
    ASSUME TypeOK, TypeOK', OneRunning, RequestInv, NEW c \in Copies, Proceed(c)
    PROVE  RequestInv'
<1> DEFINE r == remote[c]
<1>1. CopyTypes /\ CopyOK(c) /\ ErrorIsIdle
  BY DEF RequestInv, CopiesOK
<1>2. r # None /\ r \in Resources /\ Retrieve(r) /\ UNCHANGED <<realName, remote>>
  BY <1>1 DEF Proceed, CopyTypes
<1>3. pc[r] \in Running /\ \A s \in Resources : s # r => pc'[s] = pc[s]
  BY <1>2, RetrieveMoves
<1>4. Live(c) /\ Owner[r] = Holder[c]
  BY <1>1, <1>2 DEF CopyOK
<1>5. Holder[c] \in Procs
  BY RequestAssumption
<1>6. ~Failing(Holder[c])
  BY <1>1, <1>2, <1>3, <1>4, <1>5 DEF ErrorIsIdle, Idle
<1>7. result[c] = "none"
  BY <1>1, <1>2, <1>3 DEF CopyOK, Running, CacheCalls
<1>8. \/ pc'[r] \in Running /\ UNCHANGED <<ctype, result>>
      \/ /\ pc'[r] = "ready"
         /\ ctype' = [ctype EXCEPT ![c] = dtype'[r]]
         /\ result' = [result EXCEPT ![c] = "file"]
      \/ /\ pc'[r] = "failed"
         /\ result' = [result EXCEPT ![c] = "error"]
         /\ UNCHANGED ctype
  BY DEF Proceed, AccessReturns
<1>9. dtype'[r] \in Types \cup {"", "unknown"}
  BY <1>2 DEF TypeOK, ResourceTypeOK
<1>10. CopyTypes'
  <2> HIDE DEF r
  <2>1. ctype' \in [Copies -> Types \cup {"", "unknown", "gateway"}]
    <3>1. CASE UNCHANGED ctype
      BY <1>1, <3>1 DEF CopyTypes
    <3>2. ASSUME NEW t \in Types \cup {"", "unknown"}, ctype' = [ctype EXCEPT ![c] = t]
          PROVE  ctype' \in [Copies -> Types \cup {"", "unknown", "gateway"}]
      BY <1>1, <3>2 DEF CopyTypes
    <3> QED
      BY <1>8, <1>9, <3>1, <3>2
  <2>2. result' \in [Copies -> {"none", "file", "error"}]
    BY <1>1, <1>8 DEF CopyTypes
  <2> QED
    BY <1>1, <1>2, <2>1, <2>2 DEF CopyTypes
<1>11. /\ \A d \in Copies : d # c => result'[d] = result[d]
       /\ result'[c] = IF pc'[r] = "ready" THEN "file"
                       ELSE IF pc'[r] = "failed" THEN "error" ELSE "none"
       /\ pc'[r] # "none"
  BY <1>1, <1>7, <1>8 DEF CopyTypes, Running, CacheCalls
<1>12. CopyOK(c)'
  BY <1>2, <1>4, <1>11 DEF CopyOK, Live
<1>13. ASSUME Failing(Holder[c])'
       PROVE  Idle(Holder[c])'
  <2>1. pc'[r] = "failed"
    <3>1. PICK d \in CopiesOf(Holder[c]) : result'[d] = "error"
      BY <1>13 DEF Failing, CopiesOf
    <3>2. d = c
      BY <1>6, <1>11, <3>1 DEF Failing, CopiesOf
    <3> QED
      BY <1>11, <3>1, <3>2
  <2>2. \A s \in Resources : Owner[s] = Owner[r] /\ s # r => pc[s] \notin Running
    BY <1>2, <1>3 DEF OneRunning
  <2> QED
    BY <1>3, <1>4, <2>1, <2>2 DEF Idle, Running, CacheCalls
<1> QED
  BY <1>2, <1>3, <1>10, <1>11, <1>12, <1>13, StepOfOne

(* The resource of c is deleted and c, if it stays, has none.              *)
LEMMA GiveUpStep ==
    ASSUME TypeOK, RequestInv, NEW c \in Copies, Idle(Holder[c]),
           CopyTypes',
           \/ remote[c] # None /\ Delete(remote[c])
           \/ remote[c] = None /\ UNCHANGED vars,
           remote'[c] = None, result'[c] = "none",
           \A d \in Copies : d # c =>
              realName'[d] = realName[d] /\ remote'[d] = remote[d] /\ result'[d] = result[d]
    PROVE  RequestInv'
<1>1. CopyTypes /\ CopyOK(c)
  BY DEF RequestInv, CopiesOK
<1>2. /\ \A s \in Resources : s # remote[c] => pc'[s] = pc[s]
      /\ remote[c] # None => pc'[remote[c]] = "none"
  <2>1. CASE remote[c] # None /\ Delete(remote[c])
    BY <1>1, <2>1 DEF Delete, Forget, CopyTypes
  <2>2. CASE remote[c] = None /\ UNCHANGED vars
    BY <2>2 DEF vars, resVars
  <2> QED
    BY <2>1, <2>2
<1>3. CopyOK(c)'
  BY DEF CopyOK
<1>4. Idle(Holder[c])'
  BY <1>2, RequestAssumption DEF Idle, Running, CacheCalls
<1> QED
  BY <1>2, <1>3, <1>4, StepOfOne

LEMMA ReleaseStep ==
    ASSUME TypeOK, RequestInv, NEW c \in Copies, Release(c)
    PROVE  RequestInv'
<1>1. CopyTypes /\ CopyOK(c)
  BY DEF RequestInv, CopiesOK
<1>2. remote[c] # None /\ Delete(remote[c]) /\ Idle(Holder[c])
  BY <1>1 DEF Release, Delete, CopyOK
<1>3. /\ remote' = [remote EXCEPT ![c] = None]
      /\ result' = [result EXCEPT ![c] = "none"]
      /\ UNCHANGED <<realName, ctype>>
  BY DEF Release
<1>4. CopyTypes'
  BY <1>1, <1>3 DEF CopyTypes
<1>5. /\ remote'[c] = None /\ result'[c] = "none"
      /\ \A d \in Copies : d # c => remote'[d] = remote[d] /\ result'[d] = result[d]
  BY <1>1, <1>3 DEF CopyTypes
<1> QED
  BY <1>2, <1>3, <1>4, <1>5, GiveUpStep

LEMMA DestroyStep ==
    ASSUME TypeOK, RequestInv, NEW c \in Copies, Destroy(c)
    PROVE  RequestInv'
<1>1. CopyTypes
  BY DEF RequestInv, CopiesOK
<1>2. /\ Idle(Holder[c]) /\ Clear({c})
      /\ \/ remote[c] # None /\ Delete(remote[c])
         \/ remote[c] = None /\ UNCHANGED vars
  BY DEF Destroy
<1>3. CopyTypes'
  BY <1>1, <1>2 DEF Clear, CopyTypes
<1>4. /\ remote'[c] = None /\ result'[c] = "none"
      /\ \A d \in Copies : d # c =>
           realName'[d] = realName[d] /\ remote'[d] = remote[d] /\ result'[d] = result[d]
  BY <1>2 DEF Clear
<1> QED
  BY <1>2, <1>3, <1>4, GiveUpStep

LEMMA CrashesStep ==
    ASSUME TypeOK, RequestInv, NEW p \in Procs, ListenerCrash(p)
    PROVE  RequestInv'
<1>0. None \notin Resources
  BY RequestAssumption
<1>1. CopyTypes /\ (\A c \in Copies : CopyOK(c)) /\ HeldByOne /\ ErrorIsIdle
  BY DEF RequestInv, CopiesOK
<1>2. Crash(p) /\ Clear(CopiesOf(p))
  BY DEF ListenerCrash
<1>3. \A s \in Resources : pc'[s] = IF Owner[s] = p THEN "none" ELSE pc[s]
  BY <1>2 DEF Crash, Forget
<1>4. \A c \in Copies :
        IF Holder[c] = p
        THEN realName'[c] = None /\ remote'[c] = None /\ result'[c] = "none"
        ELSE realName'[c] = realName[c] /\ remote'[c] = remote[c] /\ result'[c] = result[c]
  BY <1>2 DEF Clear, CopiesOf
<1>5. CopyTypes'
  BY <1>1, <1>2 DEF Clear, CopyTypes
<1>6. ASSUME NEW c \in Copies
      PROVE  CopyOK(c)'
  <2>1. CASE Holder[c] = p
    BY <1>4, <2>1 DEF CopyOK, Live
  <2>2. CASE Holder[c] # p /\ remote[c] = None
    BY <1>1, <1>4, <2>2 DEF CopyOK, Live
  <2>3. CASE Holder[c] # p /\ remote[c] # None
    <3>0. remote[c] \in Resources
      BY <1>1, <2>3 DEF CopyTypes
    <3>1. Owner[remote[c]] = Holder[c]
      BY <1>1, <2>3 DEF CopyOK
    <3>2. pc'[remote[c]] = pc[remote[c]]
      BY <1>3, <2>3, <3>0, <3>1
    <3> QED
      BY <1>1, <1>4, <2>3, <3>2 DEF CopyOK, Live
  <2> QED
    BY <2>1, <2>2, <2>3
<1>7. HeldByOne'
  <2>1. ASSUME NEW s \in Resources, pc'[s] # "none"
        PROVE  \E d \in Copies : remote'[d] = s
    <3>1. Owner[s] # p /\ pc[s] # "none"
      BY <1>3, <2>1
    <3>2. PICK d \in Copies : remote[d] = s
      BY <1>1, <3>1 DEF HeldByOne
    <3>3. Holder[d] # p
      BY <1>0, <1>1, <3>1, <3>2 DEF CopyOK
    <3> QED
      BY <1>4, <3>2, <3>3
  <2>2. ASSUME NEW d \in Copies, NEW e \in Copies, remote'[d] = remote'[e], remote'[d] # None
        PROVE  d = e
    BY <1>1, <1>4, <2>2 DEF HeldByOne
  <2> QED
    BY <2>1, <2>2 DEF HeldByOne
<1>8. ErrorIsIdle'
  <2> SUFFICES ASSUME NEW q \in Procs, Failing(q)'
               PROVE  Idle(q)'
    BY DEF ErrorIsIdle
  <2>1. PICK d \in Copies : Holder[d] = q /\ result'[d] = "error"
    BY DEF Failing, CopiesOf
  <2>2. q # p /\ result[d] = "error"
    BY <1>4, <2>1
  <2>3. Idle(q)
    BY <1>1, <2>1, <2>2 DEF ErrorIsIdle, Failing, CopiesOf
  <2> QED
    BY <1>3, <2>2, <2>3 DEF Idle
<1> QED
  BY <1>5, <1>6, <1>7, <1>8 DEF RequestInv, CopiesOK

LEMMA RequestStep ==
    TypeOK /\ TypeOK' /\ OneRunning /\ RequestInv /\ [RequestNext]_requestVars => RequestInv'
<1> SUFFICES ASSUME TypeOK, TypeOK', OneRunning, RequestInv, [RequestNext]_requestVars
             PROVE  RequestInv'
  OBVIOUS
<1>1. CASE UNCHANGED requestVars
  <2>1. UNCHANGED <<pc, realName, ctype, remote, result>>
    BY <1>1 DEF requestVars, copyVars, vars, resVars
  <2> QED
    BY <2>1 DEF RequestInv, CopiesOK, CopyTypes, CopyOK, Live, HeldByOne, ErrorIsIdle, Failing, Idle
<1>2. ASSUME NEW c \in Copies, Step(c)
      PROVE  RequestInv'
  BY <1>2, LookForStep, AccessStep, AccessFailsStep, ProceedStep, ReleaseStep, DestroyStep
     DEF Step
<1>3. ASSUME NEW p \in Procs, ListenerCrash(p)
      PROVE  RequestInv'
  BY <1>3, CrashesStep
<1> QED
  BY <1>1, <1>2, <1>3 DEF RequestNext

-----------------------------------------------------------------------------
(* A file stays locked for writing only while it is downloaded, or by a    *)
(* resource that failed or is about to.                                    *)
HasReason(f, p) ==
    \E r \in Resources :
        /\ Owner[r] = p /\ cacheName[r] = f
        /\ pc[r] \in {"fetch", "toShared", "unwind", "failed"}

ExclusiveHasReason ==
    \A f \in Files, p \in Procs : lock[f][p] = "exclusive" => HasReason(f, p)

\* The step of r leaves a reason for every exclusive lock there still is.
LEMMA ReasonKept ==
    ASSUME ExclusiveHasReason, NEW r \in Resources,
           \A s \in Resources : s # r => pc'[s] = pc[s] /\ cacheName'[s] = cacheName[s],
           \A f \in Files, p \in Procs : lock'[f][p] = "exclusive" =>
              \/ HasReason(f, p) /\ ~(f = cacheName[r] /\ p = Owner[r])
              \/ HasReason(f, p) /\ pc[r] \notin {"fetch", "toShared", "unwind", "failed"}
              \/ /\ f = cacheName'[r] /\ p = Owner[r]
                 /\ pc'[r] \in {"fetch", "toShared", "unwind", "failed"}
    PROVE  ExclusiveHasReason'
BY DEF ExclusiveHasReason, HasReason

LEMMA ReasonStep == TypeOK /\ ExclusiveHasReason /\ [Next]_vars => ExclusiveHasReason'
<1> SUFFICES ASSUME TypeOK, ExclusiveHasReason, [Next]_vars
             PROVE  ExclusiveHasReason'
  OBVIOUS
<1> DEFINE Reasons == {"fetch", "toShared", "unwind", "failed"}
<1>1. ASSUME UNCHANGED vars
      PROVE  ExclusiveHasReason'
  BY <1>1 DEF vars, cacheVars, resVars, ExclusiveHasReason, HasReason
\* Steps that leave the locks alone and the resource with the reason it had.
<1>2. ASSUME NEW r \in Resources,
             \A f \in Files, p \in Procs : lock'[f][p] = "exclusive" => lock[f][p] = "exclusive",
             pc[r] \in Reasons => pc'[r] \in Reasons /\ cacheName'[r] = cacheName[r],
             \A s \in Resources : s # r => pc'[s] = pc[s] /\ cacheName'[s] = cacheName[s]
      PROVE  ExclusiveHasReason'
  <2>1. ASSUME NEW f \in Files, NEW p \in Procs, lock'[f][p] = "exclusive"
        PROVE  HasReason(f, p)'
    <3>1. PICK s \in Resources : Owner[s] = p /\ cacheName[s] = f /\ pc[s] \in Reasons
      BY <1>2, <2>1 DEF ExclusiveHasReason, HasReason
    <3>2. cacheName'[s] = f /\ pc'[s] \in Reasons
      BY <1>2, <3>1
    <3> QED
      BY <3>1, <3>2 DEF HasReason
  <2> QED
    BY <2>1 DEF ExclusiveHasReason
<1>3. ASSUME NEW r \in Resources, New(r)
      PROVE  ExclusiveHasReason'
  <2>1. pc[r] \notin Reasons /\ UNCHANGED <<lock, cacheName>>
    BY <1>3 DEF New, cacheVars
  <2>2. \A s \in Resources : s # r => pc'[s] = pc[s]
    BY <1>3, GotoMoves DEF New
  <2> QED
    BY <1>2, <2>1, <2>2
<1>4. ASSUME NEW r \in Resources, StartRetrieve(r) \/ StartThrows(r)
      PROVE  ExclusiveHasReason'
  <2>1. pc[r] \notin Reasons /\ UNCHANGED lock
    BY <1>4 DEF StartRetrieve, StartThrows, cacheVars
  <2>2. \A s \in Resources : s # r => cacheName'[s] = cacheName[s]
    BY <1>4 DEF StartRetrieve, StartThrows, SetName, TypeOK, ResourceTypeOK
  <2>3. \A s \in Resources : s # r => pc'[s] = pc[s]
    BY <1>4, GotoMoves DEF StartRetrieve, StartThrows
  <2> QED
    BY <1>2, <2>1, <2>2, <2>3
<1>5. ASSUME NEW r \in Resources, ReadLock(r) \/ ReadLock2(r)
      PROVE  ExclusiveHasReason'
  <2>1. /\ pc[r] \notin Reasons /\ UNCHANGED cacheName
        /\ cacheName[r] \in Files /\ Owner[r] \in Procs
    BY <1>5, NamedFile DEF ReadLock, ReadLock2, PC, Running, CacheCalls
  <2>2. \A s \in Resources : s # r => pc'[s] = pc[s]
    BY <1>5, GotoMoves DEF ReadLock, ReadLock2
  <2>3. UNCHANGED lock \/ SetLock(cacheName[r], Owner[r], "shared")
    BY <1>5 DEF ReadLock, ReadLock2, ReadLockHit, ReadLockMiss, cacheVars
  <2>4. \A f \in Files, p \in Procs : lock'[f][p] = "exclusive" => lock[f][p] = "exclusive"
    BY <2>1, <2>3 DEF SetLock, TypeOK, CacheTypeOK
  <2> QED
    BY <1>2, <2>1, <2>2, <2>4
<1>6. ASSUME NEW r \in Resources, Create(r)
      PROVE  ExclusiveHasReason'
  <2>1. /\ pc[r] = "create" /\ UNCHANGED cacheName
        /\ cacheName[r] \in Files /\ Owner[r] \in Procs
    BY <1>6, NamedFile DEF Create, PC, Running, CacheCalls
  <2>2. \A s \in Resources : s # r => pc'[s] = pc[s]
    BY <1>6, GotoMoves DEF Create
  <2>3. CASE CreateAndLock(Owner[r], cacheName[r]) /\ Goto(r, "fetch")
    <3>1. pc'[r] = "fetch"
      BY <2>3, GotoMoves
    <3>2. SetLock(cacheName[r], Owner[r], "exclusive")
      BY <2>3 DEF CreateAndLock
    <3>3. \A g \in Files, q \in Procs :
            g # cacheName[r] \/ q # Owner[r] => lock'[g][q] = lock[g][q]
      BY <2>1, <3>2, SetLockChanges
    <3> QED
      BY <2>1, <2>2, <3>1, <3>3, ReasonKept DEF ExclusiveHasReason
  <2>4. CASE CreateRefused(Owner[r], cacheName[r])
    BY <1>2, <2>1, <2>2, <2>4 DEF CreateRefused, cacheVars
  <2> QED
    BY <1>6, <2>3, <2>4 DEF Create
<1>7. ASSUME NEW r \in Resources, Fetch(r) \/ Unwind(r)
      PROVE  ExclusiveHasReason'
  <2>1. UNCHANGED <<lock, cacheName>>
    BY <1>7 DEF Fetch, WriteChunk, FetchOK, FetchError, FetchThrows, BodyEnds, Unwind, UnlockCache,
       resVars
  <2>2. pc'[r] \in Reasons /\ \A s \in Resources : s # r => pc'[s] = pc[s]
    <3>1. CASE WriteChunk(r)
      BY <3>1 DEF WriteChunk, resVars
    <3>2. CASE FetchOK(r) \/ FetchError(r) \/ FetchThrows(r) \/ Unwind(r)
      BY <3>2, GotoMoves DEF FetchOK, FetchError, FetchThrows, Unwind
    <3> QED
      BY <1>7, <3>1, <3>2 DEF Fetch
  <2> QED
    BY <1>2, <2>1, <2>2
<1>8. ASSUME NEW r \in Resources, CacheCallThrows(r)
      PROVE  ExclusiveHasReason'
  <2>1. UNCHANGED <<lock, cacheName>>
    BY <1>8 DEF CacheCallThrows, CallThrows, cacheVars
  <2>2. pc'[r] = "unwind" /\ \A s \in Resources : s # r => pc'[s] = pc[s]
    BY <1>8, GotoMoves DEF CacheCallThrows
  <2> QED
    BY <1>2, <2>1, <2>2
<1>9. ASSUME NEW r \in Resources, ToShared(r)
      PROVE  ExclusiveHasReason'
  <2>1. /\ UNCHANGED cacheName /\ cacheName[r] \in Files /\ Owner[r] \in Procs
    BY <1>9, NamedFile DEF ToShared, PC, Running, CacheCalls
  <2>2. \A s \in Resources : s # r => pc'[s] = pc[s]
    BY <1>9, GotoMoves DEF ToShared
  <2>3. /\ lock'[cacheName[r]][Owner[r]] = "shared"
        /\ \A g \in Files, q \in Procs :
             g # cacheName[r] \/ q # Owner[r] => lock'[g][q] = lock[g][q]
    BY <1>9, <2>1, SetLockChanges DEF ToShared, ExclusiveToShared
  <2> QED
    BY <2>1, <2>2, <2>3, ReasonKept DEF ExclusiveHasReason
<1>10. ASSUME NEW r \in Resources, UpdateInfo(r)
       PROVE  ExclusiveHasReason'
  <2>1. pc[r] \notin Reasons /\ UNCHANGED <<lock, cacheName>>
    BY <1>10 DEF UpdateInfo, UpdateCacheInfo
  <2>2. \A s \in Resources : s # r => pc'[s] = pc[s]
    BY <1>10, GotoMoves DEF UpdateInfo
  <2> QED
    BY <1>2, <2>1, <2>2
<1>11. ASSUME NEW r \in Resources, Purge(r)
       PROVE  ExclusiveHasReason'
  <2>1. pc[r] \notin Reasons /\ UNCHANGED cacheName
    BY <1>11 DEF Purge
  <2>2. \A s \in Resources : s # r => pc'[s] = pc[s]
    BY <1>11, GotoMoves DEF Purge
  <2>3. \A f \in Files, p \in Procs : lock'[f][p] \in {lock[f][p], "none"}
    BY <1>11 DEF Purge, UpdateAndPurge, RemoveFiles
  <2> QED
    BY <1>2, <2>1, <2>2, <2>3
<1>12. ASSUME NEW r \in Resources, Delete(r)
       PROVE  ExclusiveHasReason'
  <2>1. \A s \in Resources : s # r => pc'[s] = pc[s] /\ cacheName'[s] = cacheName[s]
    BY <1>12 DEF Delete, Forget
  <2>2. CASE cacheName[r] = None
    <3>1. UNCHANGED lock /\ cacheName[r] \notin Files
      BY <1>12, <2>2, CacheAssumption DEF Delete, cacheVars
    <3> QED
      BY <2>1, <3>1, ReasonKept DEF ExclusiveHasReason
  <2>3. CASE cacheName[r] # None
    <3>1. cacheName[r] \in Files /\ Owner[r] \in Procs
      BY <2>3, ResourceAssumption DEF TypeOK, ResourceTypeOK
    <3>2. SetLock(cacheName[r], Owner[r], "none")
      BY <1>12, <2>3 DEF Delete, UnlockAndClose
    <3>3. /\ lock'[cacheName[r]][Owner[r]] = "none"
          /\ \A g \in Files, q \in Procs :
               g # cacheName[r] \/ q # Owner[r] => lock'[g][q] = lock[g][q]
      BY <3>1, <3>2, SetLockChanges
    <3> QED
      BY <2>1, <3>3, ReasonKept DEF ExclusiveHasReason
  <2> QED
    BY <2>2, <2>3
<1>13. ASSUME NEW p \in Procs, Crash(p)
       PROVE  ExclusiveHasReason'
  <2>1. \A s \in Resources : Owner[s] # p => pc'[s] = pc[s] /\ cacheName'[s] = cacheName[s]
    BY <1>13 DEF Crash, Forget
  <2>2. \A g \in Files, q \in Procs : lock'[g][q] = IF q = p THEN "none" ELSE lock[g][q]
    BY <1>13 DEF Crash, ProcessEnds, TypeOK, CacheTypeOK
  <2> QED
    BY <2>1, <2>2 DEF ExclusiveHasReason, HasReason
<1> QED
  BY <1>1, <1>3, <1>4, <1>5, <1>6, <1>7, <1>8, <1>9, <1>10, <1>11, <1>12, <1>13 DEF Next, Retrieve

-----------------------------------------------------------------------------
(* Requests use the resources as RemoteHttpResource allows, so whatever    *)
(* that module's specification implies holds of them.                      *)
AllInv == TypeOK /\ FileInv /\ RequestInv /\ ExclusiveHasReason

LEMMA AllInitial == RequestInit => AllInv
<1>1. RequestInit => Init
  BY DEF RequestInit
<1>2. RequestInit => ExclusiveHasReason
  <2> SUFFICES ASSUME RequestInit, NEW f \in Files, NEW q \in Procs
               PROVE  lock[f][q] = "none"
    BY DEF ExclusiveHasReason
  <2>1. lock = [g \in Files |-> [o \in Procs |-> "none"]]
    BY DEF RequestInit, Init, CacheInit
  <2> QED
    BY <2>1
<1> QED
  BY <1>1, <1>2, TypeInit, FileInit, RequestInitial DEF AllInv

LEMMA AllStep == AllInv /\ [RequestNext]_requestVars => AllInv'
<1> SUFFICES ASSUME AllInv, [RequestNext]_requestVars
             PROVE  AllInv'
  OBVIOUS
<1>1. [Next]_vars
  BY RequestsAreRetrievals DEF AllInv, RequestInv
<1>2. TypeOK' /\ FileInv' /\ ExclusiveHasReason'
  BY <1>1, TypeStep, FileStep, ReasonStep DEF AllInv
<1>3. RequestInv'
  BY <1>2, RequestStep DEF AllInv, FileInv
<1> QED
  BY <1>2, <1>3 DEF AllInv

LEMMA AllInvariant == RequestSpec => []AllInv
BY AllInitial, AllStep, PTL DEF RequestSpec

(* The requests of all processes, seen at the resources alone, are a       *)
(* behaviour of RemoteHttpResource: what is proved there about locks,      *)
(* downloads and files in use holds with requests on top.                  *)
THEOREM RequestsRetrieve == RequestSpec => Spec
<1>1. RequestInit => Init
  BY DEF RequestInit
<1>2. AllInv /\ [RequestNext]_requestVars => [Next]_vars
  BY RequestsAreRetrievals DEF AllInv, RequestInv
<1> QED
  BY <1>1, <1>2, AllInvariant, PTL DEF RequestSpec, Spec

(* So to their users the processes are one store of shared responses, in   *)
(* which a response in use is neither changed nor removed.                 *)
THEOREM RequestsShareStore == RequestSpec => ImplementsStore
BY RequestsRetrieve, Implementation, PTL

(* And each user may rely on the file it is given, from the access to the  *)
(* end of the request, whatever the requests of all processes do.          *)
THEOREM RequestsServeReaders == RequestSpec => Served
BY RequestsRetrieve, ServesItsReaders, PTL

(* A copy of a container has one resource, of its own process, while both  *)
(* exist, and gives out a file exactly when that resource was retrieved.   *)
THEOREM CopiesCorrect == RequestSpec => []CopiesOK
<1>1. AllInv => CopiesOK
  BY DEF AllInv, RequestInv
<1> QED
  BY <1>1, AllInvariant, PTL

(* A process that others may wait for is inside a call that does not wait, *)
(* or has an error to clean up.                                            *)
Holds(q) == (\E f \in Files : lock[f][q] = "exclusive") \/ cacheLock = q

LEMMA HolderWorks ==
    ASSUME AllInv, CacheLockFreed, NEW q \in Procs, Holds(q)
    PROVE  \/ Failing(q) /\ Idle(q)
           \/ \E s \in Resources : Owner[s] = q /\ pc[s] \in {"fetch", "toShared", "unwind"}
<1>1. CASE cacheLock = q
  <2>1. PICK s \in Resources : Owner[s] = q /\ pc[s] = "unwind"
    BY <1>1, CacheAssumption DEF CacheLockFreed
  <2> QED
    BY <2>1
<1>2. ASSUME NEW f \in Files, lock[f][q] = "exclusive"
      PROVE  \/ Failing(q) /\ Idle(q)
             \/ \E s \in Resources : Owner[s] = q /\ pc[s] \in {"fetch", "toShared", "unwind"}
  <2>1. PICK s \in Resources :
          Owner[s] = q /\ pc[s] \in {"fetch", "toShared", "unwind", "failed"}
    BY <1>2 DEF AllInv, ExclusiveHasReason, HasReason
  <2>2. ASSUME pc[s] = "failed"
        PROVE  Failing(q) /\ Idle(q)
    <3>1. PICK c \in Copies : remote[c] = s
      BY <2>2 DEF AllInv, RequestInv, HeldByOne
    <3>2. s # None /\ CopyOK(c)
      BY RequestAssumption DEF AllInv, RequestInv, CopiesOK
    <3>3. Holder[c] = q /\ result[c] = "error"
      BY <2>1, <2>2, <3>1, <3>2 DEF CopyOK
    <3>4. Failing(q)
      BY <3>3 DEF Failing, CopiesOf
    <3> QED
      BY <3>4 DEF AllInv, RequestInv, ErrorIsIdle
  <2> QED
    BY <2>1, <2>2
<1> QED
  BY <1>1, <1>2 DEF Holds

\* So it does not wait itself.
LEMMA HolderWaitsForNone ==
    ASSUME AllInv, CacheLockFreed, NEW q \in Procs, Holds(q),
           NEW r \in Resources, Owner[r] = q
    PROVE  pc[r] \notin CacheCalls \ {"toShared"}
<1> SUFFICES ASSUME pc[r] \in CacheCalls \ {"toShared"}
             PROVE  FALSE
  OBVIOUS
<1>1. pc[r] \in Running /\ pc[r] \notin {"fetch", "toShared", "unwind"}
  BY DEF Running, CacheCalls
<1>2. ~Idle(q)
  BY <1>1 DEF Idle
<1>3. PICK s \in Resources : Owner[s] = q /\ pc[s] \in {"fetch", "toShared", "unwind"}
  BY <1>2, HolderWorks
<1>4. s = r
  BY <1>1, <1>3 DEF AllInv, FileInv, OneRunning, Running, CacheCalls
<1> QED
  BY <1>1, <1>3, <1>4

(* Waiting for a file lock is never circular, for any number of processes, *)
(* containers and files.                                                   *)
THEOREM NoCircularWait == RequestSpec => []WaitersHoldNothing
<1>1. AllInv /\ CacheLockFreed => WaitersHoldNothing
  <2> SUFFICES ASSUME AllInv, CacheLockFreed, NEW p \in Procs, AsksForLock(p)
               PROVE  ~Holds(p)
    BY DEF WaitersHoldNothing, Holds
  <2>1. PICK r \in Resources : Owner[r] = p /\ pc[r] \in {"readLock", "readLock2"}
    BY DEF AsksForLock, ResourcesOf
  <2>2. pc[r] \in CacheCalls \ {"toShared"}
    BY <2>1 DEF CacheCalls
  <2> QED
    BY <2>1, <2>2, HolderWaitsForNone
<1> QED
  BY <1>1, AllInvariant, RequestsRetrieve, CacheLockIsReleased, PTL

(* There is no deadlock: a process that another one waits for, be it for a *)
(* file or for the cache, is at work or cleans up, and waits for nobody.   *)
THEOREM NoDeadlock == RequestSpec => []WaitersWaitForWorkers
<1>1. AllInv /\ CacheLockFreed => WaitersWaitForWorkers
  <2> SUFFICES ASSUME AllInv, CacheLockFreed,
                      NEW p \in Procs, NEW q \in Procs, WaitsFor(p, q)
               PROVE  /\ ~\E s \in Procs : WaitsFor(q, s)
                      /\ ~Idle(q) \/ Failing(q)
    BY DEF WaitersWaitForWorkers
  <2>1. Holds(q)
    <3>1. PICK r \in ResourcesOf(p) :
            \/ cacheLock = q
            \/ pc[r] \in {"readLock", "readLock2"} /\ lock[cacheName[r]][q] = "exclusive"
      BY DEF WaitsFor
    <3>2. r \in Resources
      BY DEF ResourcesOf
    <3>3. ASSUME pc[r] \in {"readLock", "readLock2"}
          PROVE  cacheName[r] \in Files
      BY <3>2, <3>3, NamedFile DEF AllInv, PC, Running, CacheCalls
    <3> QED
      BY <3>1, <3>3 DEF Holds
  <2>2. ~\E s \in Procs : WaitsFor(q, s)
    <3> SUFFICES ASSUME NEW s \in Procs, WaitsFor(q, s)
                 PROVE  FALSE
      OBVIOUS
    <3>1. PICK r \in Resources : Owner[r] = q /\ pc[r] \in CacheCalls \ {"toShared"}
      BY DEF WaitsFor, ResourcesOf, CacheCalls
    <3> QED
      BY <2>1, <3>1, HolderWaitsForNone
  <2>3. ~Idle(q) \/ Failing(q)
    BY <2>1, HolderWorks DEF Idle, Running, CacheCalls
  <2> QED
    BY <2>2, <2>3
<1> QED
  BY <1>1, AllInvariant, RequestsRetrieve, CacheLockIsReleased, PTL

(* What the steps of an access ask of the cache, call by call: the guards  *)
(* of OnlyLocksBlock, whose ENABLED the provers can not expand.            *)
CanGoOn(r) ==
    LET p == Owner[r]
        f == cacheName[r]
    IN  /\ pc[r] \in CacheCalls \ {"toShared"} => CacheFree(p)
        /\ pc[r] \in {"readLock", "readLock2"} => ~Cached(f) \/ ~ExclusiveByOther(f, p)
        /\ pc[r] = "purge" => PurgeChoices(p, f) # {}

(* An access that waits for nobody finds all that its next call asks for.  *)
THEOREM NothingElseBlocks ==
    RequestSpec => [](\A r \in Resources :
                        CanGoOn(r) \/ \E q \in Procs : WaitsFor(Owner[r], q))
<1>1. ASSUME AllInv, NEW r \in Resources, ~\E q \in Procs : WaitsFor(Owner[r], q)
      PROVE  CanGoOn(r)
  <2> DEFINE p == Owner[r]
             f == cacheName[r]
  <2>1. p \in Procs /\ r \in ResourcesOf(p)
    BY ResourceAssumption DEF ResourcesOf
  <2>2. ASSUME pc[r] \in CacheCalls \ {"toShared"}
        PROVE  CacheFree(p)
    <3>1. cacheLock \in Procs \cup {None}
      BY <1>1 DEF AllInv, TypeOK, CacheTypeOK
    <3>2. cacheLock \in Procs => cacheLock = p
      BY <1>1, <2>1, <2>2 DEF WaitsFor
    <3> QED
      BY <3>1, <3>2 DEF CacheFree
  <2>3. ASSUME pc[r] \in {"readLock", "readLock2"}
        PROVE  ~ExclusiveByOther(f, p)
    BY <1>1, <2>1, <2>3 DEF ExclusiveByOther, WaitsFor
  <2>4. ASSUME pc[r] = "purge"
        PROVE  PurgeChoices(p, f) # {}
    <3>1. f \in Files
      BY <1>1, <2>4, NamedFile DEF AllInv, PC, Running, CacheCalls
    <3> QED
      BY <2>1, <3>1, PurgeEnds
  <2> QED
    BY <2>2, <2>3, <2>4 DEF CanGoOn
<1>2. AllInv => \A r \in Resources : CanGoOn(r) \/ \E q \in Procs : WaitsFor(Owner[r], q)
  BY <1>1
<1> QED
  BY <1>2, AllInvariant, PTL

(* When a process has no containers left, no lock of it is left.           *)
THEOREM NothingHeldWhenIdle == RequestSpec => []IdleHoldsNothing
<1>1. AllInv /\ CacheLockFreed /\ NoLeakedLock => IdleHoldsNothing
  <2> SUFFICES ASSUME AllInv, CacheLockFreed, NoLeakedLock,
                      NEW p \in Procs, \A c \in CopiesOf(p) : ~Live(c)
               PROVE  (\A f \in Files : lock[f][p] = "none") /\ cacheLock # p
    BY DEF IdleHoldsNothing
  <2>1. ASSUME NEW s \in Resources, Owner[s] = p
        PROVE  pc[s] = "none" /\ cacheName[s] = None
    <3>1. ASSUME NEW c \in Copies, remote[c] = s
          PROVE  FALSE
      <4>1. s # None /\ CopyOK(c)
        BY RequestAssumption DEF AllInv, RequestInv, CopiesOK
      <4> QED
        BY <2>1, <3>1, <4>1 DEF CopyOK, CopiesOf
    <3>2. pc[s] = "none"
      BY <3>1 DEF AllInv, RequestInv, HeldByOne
    <3> QED
      BY <3>2 DEF AllInv, TypeOK, NameOK
  <2>2. \A f \in Files : lock[f][p] = "none"
    BY <2>1, CacheAssumption DEF NoLeakedLock
  <2>3. cacheLock # p
    BY <2>1, CacheAssumption DEF CacheLockFreed
  <2> QED
    BY <2>2, <2>3
<1> QED
  BY <1>1, AllInvariant, RequestsRetrieve, CacheLockIsReleased, LocksAreReleased, PTL
-----------------------------------------------------------------------------
(* The containers of a process as GatewayContainer sees them.              *)
LEMMA OtherCopies ==
    ASSUME AllInv, NEW p \in Procs, NEW d \in CopiesOf(p), remote'[d] = remote[d],
           \A r \in ResourcesOf(p) : r # remote[d] \/ pc'[r] = pc[r]
    PROVE  Accessing(d)' = Accessing(d)
<1>1. d \in Copies /\ Holder[d] = p /\ CopyOK(d) /\ CopyTypes
  BY DEF AllInv, RequestInv, CopiesOK, CopiesOf
<1>2. CASE remote[d] = None
  BY <1>2 DEF Accessing
<1>3. CASE remote[d] # None
  <2>1. remote[d] \in ResourcesOf(p)
    BY <1>1, <1>3 DEF CopyOK, CopyTypes, ResourcesOf
  <2> QED
    BY <2>1 DEF Accessing
<1> QED
  BY <1>2, <1>3

\* Nothing happens to the containers of p.
LEMMA OtherProcess ==
    ASSUME AllInv, NEW p \in Procs,
           \A d \in CopiesOf(p) :
              /\ realName'[d] = realName[d] /\ ctype'[d] = ctype[d]
              /\ remote'[d] = remote[d] /\ result'[d] = result[d],
           \A r \in ResourcesOf(p) : pc'[r] = pc[r]
    PROVE  UNCHANGED Container(p)!containerVars
<1>1. \A d \in CopiesOf(p) : Accessing(d)' = Accessing(d)
  BY OtherCopies
<1>2. RealNames(p)' = RealNames(p) /\ CTypes(p)' = CTypes(p) /\ Results(p)' = Results(p)
  BY DEF RealNames, CTypes, Results, ContainersOf
<1>3. Remotes(p)' = Remotes(p)
  BY <1>1 DEF Remotes, ContainersOf
<1>4. Objects(p)' = Objects(p)
  BY DEF Objects
<1> QED
  BY <1>2, <1>3, <1>4 DEF Container!containerVars

\* Of the containers of a process, only c is concerned.
LEMMA ThisCopy ==
    ASSUME AllInv, NEW c \in Copies,
           \A d \in Copies : d # c =>
              /\ realName'[d] = realName[d] /\ ctype'[d] = ctype[d]
              /\ remote'[d] = remote[d] /\ result'[d] = result[d],
           \A s \in Resources : s # remote[c] /\ s # remote'[c] => pc'[s] = pc[s],
           remote'[c] # remote[c] /\ remote'[c] # None => pc[remote'[c]] = "none"
    PROVE  LET p == Holder[c]
               shown == IF Accessing(c) THEN None ELSE remote[c]
           IN  /\ RealNames(p)[c] = realName[c] /\ CTypes(p)[c] = ctype[c]
               /\ Remotes(p)[c] = shown /\ Results(p)[c] = result[c]
               /\ RealNames(p)' = [RealNames(p) EXCEPT ![c] = realName'[c]]
               /\ CTypes(p)' = [CTypes(p) EXCEPT ![c] = ctype'[c]]
               /\ Remotes(p)' = [Remotes(p) EXCEPT ![c] = shown']
               /\ Results(p)' = [Results(p) EXCEPT ![c] = result'[c]]
<1> DEFINE p == Holder[c]
<1>1. p \in Procs /\ c \in CopiesOf(p) /\ c \notin Names /\ c \in ContainersOf(p)
  BY RequestAssumption DEF CopiesOf, ContainersOf
<1>2. ASSUME NEW d \in CopiesOf(p), d # c
      PROVE  Accessing(d)' = Accessing(d)
  <2>1. d \in Copies /\ HeldByOne /\ CopyOK(d) /\ CopyTypes /\ remote'[d] = remote[d]
    BY <1>2 DEF AllInv, RequestInv, CopiesOK, CopiesOf
  <2>2. CASE remote[d] = None
    BY <2>1, <2>2 DEF Accessing
  <2>3. CASE remote[d] # None
    <3>1. remote[d] \in Resources
      BY <2>1, <2>3 DEF CopyTypes
    <3>2. remote[d] # remote[c]
      BY <1>2, <2>1, <2>3 DEF HeldByOne
    <3>3. pc[remote[d]] # "none"
      BY <2>1, <2>3 DEF CopyOK
    <3>4. remote[d] # remote'[c]
      BY <2>3, <3>2, <3>3
    <3> QED
      BY <2>1, <3>1, <3>2, <3>4 DEF Accessing
  <2> QED
    BY <2>2, <2>3
<1>3. \A d \in CopiesOf(p) : d # c =>
        /\ realName'[d] = realName[d] /\ ctype'[d] = ctype[d]
        /\ remote'[d] = remote[d] /\ result'[d] = result[d]
  BY DEF CopiesOf
<1>4. RealNames(p)[c] = realName[c] /\ CTypes(p)[c] = ctype[c] /\ Results(p)[c] = result[c]
  BY <1>1 DEF RealNames, CTypes, Results
<1>5. Remotes(p)[c] = IF Accessing(c) THEN None ELSE remote[c]
  BY <1>1 DEF Remotes
<1>6. RealNames(p)' = [RealNames(p) EXCEPT ![c] = realName'[c]]
  BY <1>1, <1>3 DEF RealNames, ContainersOf
<1>7. CTypes(p)' = [CTypes(p) EXCEPT ![c] = ctype'[c]]
  BY <1>1, <1>3 DEF CTypes, ContainersOf
<1>8. Results(p)' = [Results(p) EXCEPT ![c] = result'[c]]
  BY <1>1, <1>3 DEF Results, ContainersOf
<1>9. Remotes(p)' = [Remotes(p) EXCEPT ![c] = IF Accessing(c)' THEN None ELSE remote'[c]]
  BY <1>1, <1>2, <1>3 DEF Remotes, ContainersOf
<1> QED
  BY <1>4, <1>5, <1>6, <1>7, <1>8, <1>9
\* The copies of a process are not its stored containers.
LEMMA CopyIsBorrowed ==
    ASSUME AllInv, NEW c \in Copies, Live(c), RealNames(Holder[c])[c] = realName[c]
    PROVE  Container(Holder[c])!Borrowed(c)
<1>1. c \notin Names
  BY RequestAssumption
<1>2. \A n \in Names : [m \in Names |-> m][n] # c
  BY <1>1
<1> QED
  BY <1>2 DEF Container!Borrowed, Container!Live, Container!Stored, Live

LEMMA LookForMaps ==
    ASSUME AllInv, NEW c \in Copies, LookFor(c)
    PROVE  Container(Holder[c])!Request
<1> DEFINE p == Holder[c]
           n == Original[c]
<1>1. CopyTypes /\ CopyOK(c)
  BY DEF AllInv, RequestInv, CopiesOK
<1>2. n \in Names /\ c \in ContainersOf(p) /\ RealName[n] \in Urls /\ None \notin Names \cup Urls
  BY RequestAssumption, ResourceAssumption DEF ContainersOf, CopiesOf
<1>3. /\ realName[c] = None /\ remote[c] = None /\ result[c] = "none"
      /\ realName' = [realName EXCEPT ![c] = RealName[n]]
      /\ ctype' = [ctype EXCEPT ![c] = "gateway"]
      /\ UNCHANGED <<pc, remote, result>>
  BY <1>1 DEF LookFor, CopyOK, Live, vars, resVars
<1>4. /\ realName'[c] = RealName[n] /\ ctype'[c] = "gateway"
      /\ \A d \in Copies : d # c => realName'[d] = realName[d] /\ ctype'[d] = ctype[d]
  BY <1>1, <1>3 DEF CopyTypes
<1>5. ~Accessing(c) /\ ~Accessing(c)'
  BY <1>3 DEF Accessing
<1>6. /\ RealNames(p)[c] = None
      /\ RealNames(p)' = [RealNames(p) EXCEPT ![c] = RealName[n]]
      /\ CTypes(p)' = [CTypes(p) EXCEPT ![c] = "gateway"]
      /\ Remotes(p)' = [Remotes(p) EXCEPT ![c] = None]
      /\ Results(p)' = [Results(p) EXCEPT ![c] = "none"]
  BY <1>3, <1>4, <1>5, ThisCopy
<1>7. /\ RealNames(p)[n] = RealName[n] /\ CTypes(p)[n] = "gateway" /\ Remotes(p)[n] = None
      /\ [m \in Names |-> m][n] = n /\ n # None
  BY <1>2 DEF RealNames, CTypes, Remotes, ContainersOf
<1>8. Objects(p)' = Objects(p)
  BY <1>3 DEF Objects
<1>9. Container(p)!Construct(c, RealName[n], "gateway", None)
  BY <1>6 DEF Container!Construct, Container!Live
<1>10. Container(p)!LookFor(n, c)
  BY <1>2, <1>7, <1>8, <1>9 DEF Container!LookFor, Container!PtrDuplicate, Container!Live
<1> QED
  BY <1>2, <1>10 DEF Container!Request

\* The construction of the resource is not yet seen.
LEMMA AccessMaps ==
    ASSUME AllInv, NEW c \in Copies, NEW r \in Resources, Access(c, r)
    PROVE  UNCHANGED Container(Holder[c])!containerVars
<1> DEFINE p == Holder[c]
<1>1. TypeOK /\ CopyTypes /\ r # None
  BY RequestAssumption DEF AllInv, RequestInv, CopiesOK
<1>2. /\ remote[c] = None /\ pc[r] = "none" /\ remote' = [remote EXCEPT ![c] = r]
      /\ UNCHANGED <<realName, ctype, result>>
  BY DEF Access, MayAccess, New
<1>3. pc'[r] = "constructed" /\ \A s \in Resources : s # r => pc'[s] = pc[s]
  BY <1>1, GotoMoves DEF Access, New
<1>4. remote'[c] = r /\ \A d \in Copies : d # c => remote'[d] = remote[d]
  BY <1>1, <1>2 DEF CopyTypes
<1>5. ~Accessing(c) /\ Accessing(c)'
  BY <1>1, <1>2, <1>3, <1>4 DEF Accessing, Running, CacheCalls
<1>6. /\ RealNames(p)[c] = realName[c] /\ CTypes(p)[c] = ctype[c]
      /\ Remotes(p)[c] = None /\ Results(p)[c] = result[c]
      /\ RealNames(p)' = [RealNames(p) EXCEPT ![c] = realName[c]]
      /\ CTypes(p)' = [CTypes(p) EXCEPT ![c] = ctype[c]]
      /\ Remotes(p)' = [Remotes(p) EXCEPT ![c] = None]
      /\ Results(p)' = [Results(p) EXCEPT ![c] = result[c]]
  BY <1>2, <1>3, <1>4, <1>5, ThisCopy
<1>7. /\ RealNames(p)' = RealNames(p) /\ CTypes(p)' = CTypes(p)
      /\ Remotes(p)' = Remotes(p) /\ Results(p)' = Results(p)
  BY <1>6 DEF RealNames, CTypes, Remotes, Results
<1>8. Objects(p)' = Objects(p)
  BY <1>2, <1>3 DEF Objects, ResourcesOf
<1> QED
  BY <1>7, <1>8 DEF Container!containerVars

LEMMA AccessFailsMaps ==
    ASSUME AllInv, NEW c \in Copies, AccessFails(c)
    PROVE  Container(Holder[c])!Request
<1> DEFINE p == Holder[c]
<1>1. CopyTypes /\ c \in ContainersOf(p)
  BY DEF AllInv, RequestInv, CopiesOK, ContainersOf, CopiesOf
<1>2. /\ Live(c) /\ remote[c] = None /\ result' = [result EXCEPT ![c] = "error"]
      /\ UNCHANGED <<pc, realName, ctype, remote>>
  BY DEF AccessFails, MayAccess, vars, resVars
<1>3. result'[c] = "error" /\ \A d \in Copies : d # c => result'[d] = result[d]
  BY <1>1, <1>2 DEF CopyTypes
<1>4. ~Accessing(c) /\ ~Accessing(c)'
  BY <1>2 DEF Accessing
<1>5. /\ RealNames(p)[c] = realName[c] /\ CTypes(p)[c] = ctype[c] /\ Remotes(p)[c] = None
      /\ RealNames(p)' = [RealNames(p) EXCEPT ![c] = realName[c]]
      /\ CTypes(p)' = [CTypes(p) EXCEPT ![c] = ctype[c]]
      /\ Remotes(p)' = [Remotes(p) EXCEPT ![c] = None]
      /\ Results(p)' = [Results(p) EXCEPT ![c] = "error"]
  BY <1>2, <1>3, <1>4, ThisCopy
<1>6. RealNames(p)' = RealNames(p) /\ CTypes(p)' = CTypes(p) /\ Remotes(p)' = Remotes(p)
  BY <1>5 DEF RealNames, CTypes, Remotes
<1>7. Objects(p)' = Objects(p)
  BY <1>2 DEF Objects
<1>8. Container(p)!AccessFails(c)
  BY <1>5, <1>6, <1>7 DEF Container!AccessFails, Container!SetResult
<1>9. Container(p)!Access(c)
  BY <1>2, <1>5, <1>6, <1>8 DEF Container!Access, Container!Live, Live
<1> QED
  BY <1>1, <1>2, <1>5, <1>9, CopyIsBorrowed DEF Container!Request

(* Inside access() nothing is seen; its end is the access of the container *)
(* or its failure.                                                         *)
LEMMA ProceedMaps ==
    ASSUME AllInv, TypeOK', NEW c \in Copies, Proceed(c)
    PROVE  \/ UNCHANGED Container(Holder[c])!containerVars
           \/ Container(Holder[c])!Request
<1> DEFINE p == Holder[c]
           r == remote[c]
<1>1. CopyTypes /\ CopyOK(c) /\ c \in ContainersOf(p)
  BY DEF AllInv, RequestInv, CopiesOK, ContainersOf, CopiesOf
<1>2. r # None /\ r \in Resources /\ Retrieve(r) /\ UNCHANGED <<realName, remote>>
  BY <1>1 DEF Proceed, CopyTypes
<1>3. pc[r] \in Running /\ \A s \in Resources : s # r => pc'[s] = pc[s]
  BY <1>2, RetrieveMoves DEF AllInv
<1>4. Live(c) /\ r \in ResourcesOf(p) /\ Accessing(c)
  BY <1>1, <1>2, <1>3 DEF CopyOK, ResourcesOf, Accessing
<1>5. \/ pc'[r] \in Running /\ UNCHANGED <<ctype, result>>
      \/ /\ pc'[r] = "ready"
         /\ ctype' = [ctype EXCEPT ![c] = dtype'[r]]
         /\ result' = [result EXCEPT ![c] = "file"]
      \/ /\ pc'[r] = "failed"
         /\ result' = [result EXCEPT ![c] = "error"]
         /\ UNCHANGED ctype
  BY DEF Proceed, AccessReturns
<1>6. \A d \in Copies : d # c => ctype'[d] = ctype[d] /\ result'[d] = result[d]
  BY <1>1, <1>5 DEF CopyTypes
<1>7. Accessing(c)' <=> pc'[r] \in Running
  BY <1>2 DEF Accessing
<1>8. /\ RealNames(p)[c] = realName[c] /\ CTypes(p)[c] = ctype[c]
      /\ Remotes(p)[c] = None /\ Results(p)[c] = result[c]
      /\ RealNames(p)' = [RealNames(p) EXCEPT ![c] = realName[c]]
      /\ CTypes(p)' = [CTypes(p) EXCEPT ![c] = ctype'[c]]
      /\ Remotes(p)' = [Remotes(p) EXCEPT ![c] = IF pc'[r] \in Running THEN None ELSE r]
      /\ Results(p)' = [Results(p) EXCEPT ![c] = result'[c]]
  BY <1>2, <1>3, <1>4, <1>6, <1>7, ThisCopy
<1>9. RealNames(p)' = RealNames(p)
  BY <1>8 DEF RealNames
<1>10. Objects(p)[r] = "free"
  BY <1>3, <1>4 DEF Objects, Running, CacheCalls
<1>11. Objects(p)' = [Objects(p) EXCEPT ![r] = IF pc'[r] \in {"ready", "failed"} THEN pc'[r] ELSE "free"]
  BY <1>3, <1>4 DEF Objects, ResourcesOf
<1>12. CASE pc'[r] \in Running
  <2>1. ctype'[c] = ctype[c] /\ result'[c] = result[c] /\ pc'[r] \notin {"ready", "failed"}
    BY <1>5, <1>12 DEF Running, CacheCalls
  <2>2. CTypes(p)' = CTypes(p) /\ Remotes(p)' = Remotes(p) /\ Results(p)' = Results(p)
    BY <1>8, <1>12, <2>1 DEF CTypes, Remotes, Results
  <2>3. Objects(p)' = Objects(p)
    BY <1>10, <1>11, <2>1 DEF Objects
  <2> QED
    BY <1>9, <2>2, <2>3 DEF Container!containerVars
<1>13. ASSUME pc'[r] \in {"ready", "failed"}
       PROVE  Container(p)!Request
  <2>1. pc'[r] \notin Running
    BY <1>13 DEF Running, CacheCalls
  <2>2. Remotes(p)' = [Remotes(p) EXCEPT ![c] = r]
    BY <1>8, <2>1
  <2>3. Objects(p)' = [Objects(p) EXCEPT ![r] = pc'[r]]
    BY <1>11, <1>13
  <2>4. ASSUME pc'[r] = "ready"
        PROVE  Container(p)!AccessNew(c, r)
    <3>1. dtype'[r] \in Types \cup {"", "unknown"}
      BY <1>2 DEF TypeOK, ResourceTypeOK
    <3>2. ctype'[c] = dtype'[r] /\ result'[c] = "file"
      BY <1>1, <1>5, <2>1, <2>4 DEF CopyTypes
    <3>3. /\ Objects(p)' = [Objects(p) EXCEPT ![r] = "ready"]
          /\ CTypes(p)' = [CTypes(p) EXCEPT ![c] = dtype'[r]]
          /\ Results(p)' = [Results(p) EXCEPT ![c] = "file"]
      BY <1>8, <2>3, <2>4, <3>2
    <3> HIDE DEF r
    <3> QED
      BY <1>8, <1>10, <2>2, <3>1, <3>3 DEF Container!AccessNew, Container!SetResult
  <2>5. ASSUME pc'[r] = "failed"
        PROVE  Container(p)!AccessNew(c, r)
    <3>1. ctype'[c] = ctype[c] /\ result'[c] = "error"
      BY <1>1, <1>5, <2>1, <2>5 DEF CopyTypes
    <3>2. CTypes(p)' = CTypes(p)
      BY <1>8, <3>1 DEF CTypes
    <3>3. /\ Objects(p)' = [Objects(p) EXCEPT ![r] = "failed"]
          /\ Results(p)' = [Results(p) EXCEPT ![c] = "error"]
      BY <1>8, <2>3, <2>5, <3>1
    <3> HIDE DEF r
    <3> QED
      BY <1>8, <1>10, <2>2, <3>2, <3>3 DEF Container!AccessNew, Container!SetResult
  <2>6. Container(p)!AccessNew(c, r)
    BY <1>13, <2>4, <2>5
  <2>7. Container(p)!Access(c)
    BY <1>4, <1>8, <1>9, <2>6 DEF Container!Access, Container!Live, Live
  <2>8. Container(p)!Borrowed(c)
    BY <1>4, <1>8, CopyIsBorrowed
  <2> QED
    BY <1>1, <2>7, <2>8 DEF Container!Request
<1> QED
  BY <1>5, <1>12, <1>13

\* delete _remoteResource is seen as it is.
LEMMA FreeMaps ==
    ASSUME AllInv, NEW c \in Copies,
           \/ remote[c] # None /\ Delete(remote[c])
           \/ remote[c] = None /\ UNCHANGED vars,
           remote'[c] = None
    PROVE  /\ ~Accessing(c) /\ ~Accessing(c)'
           /\ \A s \in Resources : s # remote[c] => pc'[s] = pc[s]
           /\ Objects(Holder[c])' = [s \in ResourcesOf(Holder[c]) |->
                                       IF s = remote[c] THEN "free" ELSE Objects(Holder[c])[s]]
<1>1. CopyTypes
  BY DEF AllInv, RequestInv, CopiesOK
<1>2. /\ \A s \in Resources : s # remote[c] => pc'[s] = pc[s]
      /\ remote[c] # None => pc'[remote[c]] = "none" /\ pc[remote[c]] \in {"ready", "failed"}
  <2>1. CASE remote[c] # None /\ Delete(remote[c])
    BY <1>1, <2>1 DEF Delete, Forget, CopyTypes
  <2>2. CASE remote[c] = None /\ UNCHANGED vars
    BY <2>2 DEF vars, resVars
  <2> QED
    BY <2>1, <2>2
<1>3. ~Accessing(c) /\ ~Accessing(c)'
  BY <1>2 DEF Accessing, Running, CacheCalls
<1>4. ASSUME NEW s \in ResourcesOf(Holder[c])
      PROVE  Objects(Holder[c])'[s] = IF s = remote[c] THEN "free" ELSE Objects(Holder[c])[s]
  <2>1. s \in Resources /\ s # None
    BY RequestAssumption DEF ResourcesOf
  <2> QED
    BY <1>2, <2>1 DEF Objects, ResourcesOf
<1>5. Objects(Holder[c])' = [s \in ResourcesOf(Holder[c]) |->
                               IF s = remote[c] THEN "free" ELSE Objects(Holder[c])[s]]
  BY <1>4 DEF Objects, ResourcesOf
<1> QED
  BY <1>2, <1>3, <1>5

LEMMA ReleaseMaps ==
    ASSUME AllInv, NEW c \in Copies, Release(c)
    PROVE  Container(Holder[c])!Request
<1> DEFINE p == Holder[c]
<1>1. CopyTypes /\ CopyOK(c) /\ c \in ContainersOf(p)
  BY DEF AllInv, RequestInv, CopiesOK, ContainersOf, CopiesOf
<1>2. /\ remote[c] # None /\ Delete(remote[c]) /\ Live(c)
      /\ remote' = [remote EXCEPT ![c] = None]
      /\ result' = [result EXCEPT ![c] = "none"]
      /\ UNCHANGED <<realName, ctype>>
  BY <1>1 DEF Release, CopyOK
<1>3. /\ remote'[c] = None /\ result'[c] = "none"
      /\ \A d \in Copies : d # c => remote'[d] = remote[d] /\ result'[d] = result[d]
  BY <1>1, <1>2 DEF CopyTypes
<1>4. /\ ~Accessing(c) /\ ~Accessing(c)'
      /\ \A s \in Resources : s # remote[c] => pc'[s] = pc[s]
      /\ Objects(p)' = [s \in ResourcesOf(p) |-> IF s = remote[c] THEN "free" ELSE Objects(p)[s]]
  BY <1>2, <1>3, FreeMaps
<1>5. /\ RealNames(p)[c] = realName[c] /\ Remotes(p)[c] = remote[c]
      /\ RealNames(p)' = [RealNames(p) EXCEPT ![c] = realName[c]]
      /\ CTypes(p)' = [CTypes(p) EXCEPT ![c] = ctype[c]]
      /\ CTypes(p)[c] = ctype[c]
      /\ Remotes(p)' = [Remotes(p) EXCEPT ![c] = None]
      /\ Results(p)' = [Results(p) EXCEPT ![c] = "none"]
  BY <1>2, <1>3, <1>4, ThisCopy
<1>6. RealNames(p)' = RealNames(p) /\ CTypes(p)' = CTypes(p)
  BY <1>5 DEF RealNames, CTypes
<1>7. Container(p)!Release(c)
  BY <1>2, <1>4, <1>5, <1>6
  DEF Container!Release, Container!FreeRemote, Container!SetResult, Container!Live, Live
<1>8. Container(p)!Borrowed(c)
  BY <1>2, <1>5, CopyIsBorrowed
<1> QED
  BY <1>1, <1>7, <1>8 DEF Container!Request

LEMMA DestroyMaps ==
    ASSUME AllInv, NEW c \in Copies, Destroy(c)
    PROVE  Container(Holder[c])!Request
<1> DEFINE p == Holder[c]
<1>1. c \in ContainersOf(p) /\ c \notin Names
  BY RequestAssumption DEF ContainersOf, CopiesOf
<1>2. /\ Live(c) /\ Clear({c})
      /\ \/ remote[c] # None /\ Delete(remote[c])
         \/ remote[c] = None /\ UNCHANGED vars
  BY DEF Destroy
<1>3. /\ realName'[c] = None /\ ctype'[c] = "" /\ remote'[c] = None /\ result'[c] = "none"
      /\ \A d \in Copies : d # c =>
           /\ realName'[d] = realName[d] /\ ctype'[d] = ctype[d]
           /\ remote'[d] = remote[d] /\ result'[d] = result[d]
  BY <1>2 DEF Clear
<1>4. /\ ~Accessing(c) /\ ~Accessing(c)'
      /\ \A s \in Resources : s # remote[c] => pc'[s] = pc[s]
      /\ Objects(p)' = [s \in ResourcesOf(p) |-> IF s = remote[c] THEN "free" ELSE Objects(p)[s]]
  BY <1>2, <1>3, FreeMaps
<1>5. /\ RealNames(p)[c] = realName[c] /\ Remotes(p)[c] = remote[c]
      /\ RealNames(p)' = [RealNames(p) EXCEPT ![c] = None]
      /\ CTypes(p)' = [CTypes(p) EXCEPT ![c] = ""]
      /\ Remotes(p)' = [Remotes(p) EXCEPT ![c] = None]
      /\ Results(p)' = [Results(p) EXCEPT ![c] = "none"]
  BY <1>3, <1>4, ThisCopy
<1>6. [n \in Names |-> n]' =
        [n \in Names |-> IF [m \in Names |-> m][n] = c THEN None ELSE [m \in Names |-> m][n]]
  BY <1>1
<1>7. Container(p)!Live(c) /\ Container(p)!FreeRemote(c)
  BY <1>2, <1>4, <1>5 DEF Container!FreeRemote, Container!Live, Live
<1>8. Container(p)!Destroy(c)
  <2> HIDE DEF p
  <2> QED
    BY <1>5, <1>6, <1>7 DEF Container!Destroy, Container!SetResult
<1> QED
  BY <1>1, <1>8 DEF Container!Request

-----------------------------------------------------------------------------
\* A step of copy c is a step of the containers of its process, or of none.
LEMMA StepMaps ==
    ASSUME AllInv, TypeOK', NEW c \in Copies, Step(c), NEW p \in Procs
    PROVE  UNCHANGED Container(p)!containerVars \/ Container(p)!Request
<1>1. CASE p = Holder[c]
  <2>1. ASSUME NEW r \in Resources, Access(c, r)
        PROVE  UNCHANGED Container(p)!containerVars
    BY <1>1, <2>1, AccessMaps
  <2> QED
    BY <1>1, <2>1, LookForMaps, AccessFailsMaps, ProceedMaps, ReleaseMaps, DestroyMaps DEF Step
<1>2. CASE p # Holder[c]
  <2>1. CopyTypes /\ CopyOK(c) /\ TypeOK
    BY DEF AllInv, RequestInv, CopiesOK
  <2>2. ASSUME NEW d \in CopiesOf(p)
        PROVE  /\ realName'[d] = realName[d] /\ ctype'[d] = ctype[d]
               /\ remote'[d] = remote[d] /\ result'[d] = result[d]
    <3>1. d \in Copies /\ d # c
      BY <1>2, <2>2 DEF CopiesOf
    <3> QED
      BY <2>1, <3>1 DEF Step, LookFor, Access, AccessFails, Proceed, AccessReturns,
         Release, Destroy, Clear, CopyTypes
  <2>3. ASSUME NEW s \in ResourcesOf(p)
        PROVE  pc'[s] = pc[s]
    <3>1. s \in Resources /\ Owner[s] # Holder[c]
      BY <1>2, <2>3 DEF ResourcesOf
    <3>2. remote[c] # None => remote[c] \in Resources /\ s # remote[c]
      BY <2>1, <3>1 DEF CopyOK, CopyTypes
    <3>3. CASE LookFor(c) \/ AccessFails(c)
      BY <3>3 DEF LookFor, AccessFails, vars, resVars
    <3>4. ASSUME NEW r \in Resources, Access(c, r)
          PROVE  pc'[s] = pc[s]
      BY <2>1, <3>1, <3>4, GotoMoves DEF Access, New
    <3>5. CASE Proceed(c)
      BY <2>1, <3>1, <3>2, <3>5, RetrieveMoves DEF Proceed
    <3>6. CASE Release(c) \/ Destroy(c)
      BY <3>1, <3>2, <3>6 DEF Release, Destroy, Delete, Forget, vars, resVars
    <3> QED
      BY <3>3, <3>4, <3>5, <3>6 DEF Step
  <2> QED
    BY <2>2, <2>3, OtherProcess
<1> QED
  BY <1>1, <1>2

LEMMA CrashMaps ==
    ASSUME AllInv, NEW q \in Procs, ListenerCrash(q), NEW p \in Procs
    PROVE  UNCHANGED Container(p)!containerVars \/ Fresh(p)'
<1>1. CopyTypes
  BY DEF AllInv, RequestInv, CopiesOK
<1>2. \A s \in Resources : pc'[s] = IF Owner[s] = q THEN "none" ELSE pc[s]
  BY DEF ListenerCrash, Crash, Forget
<1>3. CASE p = q
  BY <1>2, <1>3 DEF ListenerCrash, Clear, Fresh, Live, CopiesOf, ResourcesOf
<1>4. CASE p # q
  <2>1. \A d \in CopiesOf(p) :
          /\ realName'[d] = realName[d] /\ ctype'[d] = ctype[d]
          /\ remote'[d] = remote[d] /\ result'[d] = result[d]
    BY <1>4 DEF ListenerCrash, Clear, CopiesOf
  <2>2. \A s \in ResourcesOf(p) : pc'[s] = pc[s]
    BY <1>2, <1>4 DEF ResourcesOf
  <2> QED
    BY <2>1, <2>2, OtherProcess
<1> QED
  BY <1>3, <1>4

(* Every process does to its containers what GatewayContainer says, however *)
(* the processes compete for the cache.  In GatewayContainer a container    *)
(* changes type with the access and its resource belongs to it alone.       *)
THEOREM ContainersImplemented == RequestSpec => ImplementsContainers
<1> DEFINE Maps == \A p \in Procs :
                     \/ UNCHANGED Container(p)!containerVars
                     \/ Fresh(p)'
                     \/ Container(p)!Request
<1>1. AllInv /\ AllInv' /\ [RequestNext]_requestVars => [Maps]_requestVars
  <2> SUFFICES ASSUME AllInv, AllInv', RequestNext, NEW p \in Procs
               PROVE  \/ UNCHANGED Container(p)!containerVars
                      \/ Fresh(p)'
                      \/ Container(p)!Request
    OBVIOUS
  <2>1. TypeOK'
    BY DEF AllInv
  <2>2. ASSUME NEW c \in Copies, Step(c)
        PROVE  UNCHANGED Container(p)!containerVars \/ Container(p)!Request
    BY <2>1, <2>2, StepMaps
  <2>3. ASSUME NEW q \in Procs, ListenerCrash(q)
        PROVE  UNCHANGED Container(p)!containerVars \/ Fresh(p)'
    BY <2>3, CrashMaps
  <2> QED
    BY <2>2, <2>3 DEF RequestNext
<1> QED
  BY <1>1, AllInvariant, PTL DEF RequestSpec, ImplementsContainers

-----------------------------------------------------------------------------
(* A container that gave out a file has the type of a response.            *)
FilesAreTyped == \A c \in Copies : result[c] = "file" => ctype[c] # "gateway"

LEMMA FilesTypedStep ==
    ASSUME AllInv, TypeOK', FilesAreTyped, [RequestNext]_requestVars
    PROVE  FilesAreTyped'
<1>1. CopyTypes
  BY DEF AllInv, RequestInv, CopiesOK
<1>2. CASE UNCHANGED requestVars
  BY <1>2 DEF requestVars, copyVars, FilesAreTyped
\* Steps that change no type and make no result a file.
<1>3. ASSUME \A d \in Copies : result'[d] = "file" => result[d] = "file" /\ ctype'[d] = ctype[d]
      PROVE  FilesAreTyped'
  BY <1>3 DEF FilesAreTyped
<1>4. ASSUME NEW c \in Copies, LookFor(c)
      PROVE  FilesAreTyped'
  <2>1. result[c] = "none" /\ UNCHANGED result
    BY <1>4 DEF LookFor, AllInv, RequestInv, CopiesOK, CopyOK
  <2>2. \A d \in Copies : d # c => ctype'[d] = ctype[d]
    BY <1>1, <1>4 DEF LookFor, CopyTypes
  <2> QED
    BY <1>3, <2>1, <2>2
<1>5. ASSUME NEW c \in Copies, (\E r \in Resources : Access(c, r)) \/ AccessFails(c) \/ Release(c)
      PROVE  FilesAreTyped'
  BY <1>1, <1>3, <1>5 DEF Access, AccessFails, Release, CopyTypes
<1>6. ASSUME NEW c \in Copies, Proceed(c)
      PROVE  FilesAreTyped'
  <2>1. remote[c] \in Resources
    BY <1>1, <1>6 DEF Proceed, CopyTypes
  <2>2. dtype'[remote[c]] \in Types \cup {"", "unknown"}
    BY <2>1 DEF TypeOK, ResourceTypeOK
  <2>3. dtype'[remote[c]] # "gateway"
    BY <2>2, RequestAssumption
  <2>4. CASE UNCHANGED <<ctype, result>>
    BY <1>3, <2>4
  <2>5. CASE /\ ctype' = [ctype EXCEPT ![c] = dtype'[remote[c]]]
             /\ result' = [result EXCEPT ![c] = "file"]
    BY <1>1, <2>3, <2>5 DEF FilesAreTyped, CopyTypes
  <2>6. CASE result' = [result EXCEPT ![c] = "error"] /\ UNCHANGED ctype
    BY <1>1, <1>3, <2>6 DEF CopyTypes
  <2> QED
    BY <1>6, <2>4, <2>5, <2>6 DEF Proceed, AccessReturns
<1>7. ASSUME NEW C, Clear(C)
      PROVE  FilesAreTyped'
  <2>1. \A d \in Copies : result'[d] = "file" => result[d] = "file" /\ ctype'[d] = ctype[d]
    BY <1>7 DEF Clear
  <2> QED
    BY <1>3, <2>1
<1> QED
  BY <1>2, <1>4, <1>5, <1>6, <1>7 DEF RequestNext, Step, Destroy, ListenerCrash

(* The containers of a process, in terms of its copies.                    *)
LEMMA ShownFields ==
    ASSUME AllInv, NEW p \in Procs
    PROVE  /\ \A n \in Names : /\ RealNames(p)[n] = RealName[n] /\ CTypes(p)[n] = "gateway"
                               /\ Remotes(p)[n] = None /\ Results(p)[n] = "none"
                               /\ n \in ContainersOf(p) /\ RealName[n] \in Urls
           /\ \A c \in CopiesOf(p) :
                 /\ c \in Copies /\ c \notin Names /\ Holder[c] = p /\ CopyOK(c)
                 /\ RealNames(p)[c] = realName[c] /\ CTypes(p)[c] = ctype[c]
                 /\ Remotes(p)[c] = IF Accessing(c) THEN None ELSE remote[c]
                 /\ Results(p)[c] = result[c]
           /\ \A r \in ResourcesOf(p) :
                 Objects(p)[r] = IF pc[r] \in {"ready", "failed"} THEN pc[r] ELSE "free"
<1>1. \A c \in CopiesOf(p) : c \in Copies /\ c \notin Names /\ Holder[c] = p
  BY RequestAssumption DEF CopiesOf
<1>2. \A c \in Copies : CopyOK(c)
  BY DEF AllInv, RequestInv, CopiesOK
<1> QED
  BY <1>1, <1>2, RequestAssumption
     DEF RealNames, CTypes, Remotes, Results, Objects, ContainersOf

\* A copy is shown with a resource when its access is over.
LEMMA ShownRemote ==
    ASSUME AllInv, NEW p \in Procs, NEW c \in CopiesOf(p), Remotes(p)[c] # None
    PROVE  /\ Remotes(p)[c] = remote[c] /\ remote[c] # None /\ remote[c] \in ResourcesOf(p)
           /\ Objects(p)[remote[c]] = pc[remote[c]] /\ pc[remote[c]] \in {"ready", "failed"}
<1>1. c \in Copies /\ Holder[c] = p /\ CopyOK(c) /\ CopyTypes
  BY ShownFields DEF AllInv, RequestInv, CopiesOK
<1>2. Remotes(p)[c] = remote[c] /\ remote[c] # None /\ ~Accessing(c)
  BY ShownFields
<1>3. remote[c] \in Resources /\ Owner[remote[c]] = p /\ pc[remote[c]] # "none"
  BY <1>1, <1>2 DEF CopyOK, CopyTypes
<1>4. pc[remote[c]] \in PC \ Running
  BY <1>2, <1>3 DEF Accessing, AllInv, TypeOK, ResourceTypeOK
<1>5. pc[remote[c]] \in {"ready", "failed"}
  BY <1>3, <1>4 DEF PC
<1> QED
  BY <1>2, <1>3, <1>5, ShownFields DEF ResourcesOf

LEMMA ShownTypes ==
    ASSUME AllInv, NEW p \in Procs
    PROVE  Container(p)!TypeOK
<1>1. CopyTypes
  BY DEF AllInv, RequestInv, CopiesOK
<1>2. CopiesOf(p) \in SUBSET Copies /\ None \notin Names /\ None \notin Urls
  BY RequestAssumption, ResourceAssumption DEF CopiesOf
<1>3. Container(p)!FieldsOK
  <2>1. RealNames(p) \in [ContainersOf(p) -> Urls \cup {None}]
    BY <1>1, <1>2, RequestAssumption DEF RealNames, ContainersOf, CopyTypes
  <2>2. CTypes(p) \in [ContainersOf(p) -> Types \cup {"", "unknown", "gateway"}]
    BY <1>1, <1>2 DEF CTypes, ContainersOf, CopyTypes
  <2>3. Remotes(p) \in [ContainersOf(p) -> ResourcesOf(p) \cup {None}]
    <3>1. ASSUME NEW c \in ContainersOf(p)
          PROVE  Remotes(p)[c] \in ResourcesOf(p) \cup {None}
      <4>1. CASE c \in Names
        BY <4>1, ShownFields
      <4>2. CASE c \in CopiesOf(p) /\ Remotes(p)[c] # None
        BY <4>2, ShownRemote
      <4> QED
        BY <4>1, <4>2 DEF ContainersOf
    <3> QED
      BY <3>1 DEF Remotes
  <2>4. Objects(p) \in [ResourcesOf(p) -> {"free", "failed", "ready"}]
    BY DEF Objects
  <2>5. [n \in Names |-> n] \in [Names -> ContainersOf(p) \cup {None}]
    BY DEF ContainersOf
  <2>6. Results(p) \in [ContainersOf(p) -> {"none", "file", "error"}]
    BY <1>1, <1>2 DEF Results, ContainersOf, CopyTypes
  <2> QED
    BY <2>1, <2>2, <2>3, <2>4, <2>5, <2>6 DEF Container!FieldsOK
<1>4. Container(p)!FreeIsClear
  <2>1. ASSUME NEW c \in ContainersOf(p), RealNames(p)[c] = None
        PROVE  Remotes(p)[c] = None /\ Results(p)[c] = "none"
    <3>1. c \in CopiesOf(p)
      BY <1>2, <2>1, ShownFields DEF ContainersOf
    <3> QED
      BY <2>1, <3>1, ShownFields DEF CopyOK, Live
  <2> QED
    BY <2>1 DEF Container!FreeIsClear, Container!Live
<1>5. Container(p)!StorageOK
  <2>1. \A n \in Names : [m \in Names |-> m][n] = n /\ RealNames(p)[n] # None
    BY <1>2, ShownFields
  <2> QED
    BY <2>1 DEF Container!StorageOK, Container!Live
<1> QED
  BY <1>3, <1>4, <1>5 DEF Container!TypeOK

LEMMA ShownOwners ==
    ASSUME AllInv, NEW p \in Procs
    PROVE  Container(p)!SoleOwner
<1>1. ASSUME NEW r \in ResourcesOf(p), Objects(p)[r] # "free"
      PROVE  \E c \in ContainersOf(p) : Remotes(p)[c] = r
  <2>0. Objects(p)[r] = IF pc[r] \in {"ready", "failed"} THEN pc[r] ELSE "free"
    BY <1>1, ShownFields
  <2>1. pc[r] \in {"ready", "failed"} /\ r \in Resources /\ Owner[r] = p /\ r # None
    BY <1>1, <2>0, RequestAssumption DEF ResourcesOf
  <2>2. PICK c \in Copies : remote[c] = r
    BY <2>1 DEF AllInv, RequestInv, HeldByOne
  <2>3. Holder[c] = p
    BY <2>1, <2>2 DEF AllInv, RequestInv, CopiesOK, CopyOK
  <2>4. c \in CopiesOf(p) /\ ~Accessing(c)
    BY <2>1, <2>2, <2>3 DEF CopiesOf, Accessing, Running, CacheCalls
  <2> QED
    BY <2>2, <2>4, ShownFields DEF ContainersOf
<1>2. ASSUME NEW c \in ContainersOf(p), Remotes(p)[c] # None
      PROVE  /\ RealNames(p)[c] # None /\ Objects(p)[Remotes(p)[c]] # "free"
             /\ c \in CopiesOf(p) /\ Remotes(p)[c] = remote[c]
  <2>1. c \in CopiesOf(p)
    BY <1>2, ShownFields DEF ContainersOf
  <2>2. RealNames(p)[c] # None
    BY <1>2, <2>1, ShownFields, ShownRemote DEF CopyOK, Live
  <2> QED
    BY <1>2, <2>1, <2>2, ShownRemote
<1>3. ASSUME NEW c \in ContainersOf(p), NEW d \in ContainersOf(p),
             Remotes(p)[c] = Remotes(p)[d], Remotes(p)[c] # None
      PROVE  c = d
  <2>1. remote[c] = remote[d] /\ remote[c] # None /\ c \in Copies /\ d \in Copies
    BY <1>2, <1>3 DEF CopiesOf
  <2> QED
    BY <2>1 DEF AllInv, RequestInv, HeldByOne
<1> QED
  BY <1>1, <1>2, <1>3 DEF Container!SoleOwner, Container!Live

LEMMA ShownFiles ==
    ASSUME AllInv, FilesAreTyped, NEW p \in Procs
    PROVE  Container(p)!FileMeansRetrieved
<1>1. ASSUME NEW c \in ContainersOf(p), Results(p)[c] = "file"
      PROVE  /\ Remotes(p)[c] # None /\ Objects(p)[Remotes(p)[c]] = "ready"
             /\ CTypes(p)[c] # "gateway"
  <2>1. c \in CopiesOf(p)
    BY <1>1, ShownFields DEF ContainersOf
  <2>2. c \in Copies /\ CopyOK(c) /\ result[c] = "file"
    BY <1>1, <2>1, ShownFields
  <2>3. remote[c] # None /\ pc[remote[c]] = "ready"
    BY <2>2 DEF CopyOK
  <2>4. ~Accessing(c)
    BY <2>3 DEF Accessing, Running, CacheCalls
  <2>5. Remotes(p)[c] # None
    BY <2>1, <2>3, <2>4, ShownFields
  <2>6. CTypes(p)[c] = ctype[c] /\ ctype[c] # "gateway"
    BY <2>1, <2>2, ShownFields DEF FilesAreTyped
  <2> QED
    BY <2>1, <2>3, <2>5, <2>6, ShownRemote
<1> QED
  BY <1>1 DEF Container!FileMeansRetrieved

(* With any number of processes, what GatewayContainer promises of one     *)
(* alone holds of each of them at all times, restarts included.            *)
THEOREM ContainersStaySound == RequestSpec => []ContainersSound
<1>1. RequestInit => FilesAreTyped
  BY DEF RequestInit, FilesAreTyped
<1>2. AllInv /\ AllInv' /\ FilesAreTyped /\ [RequestNext]_requestVars => FilesAreTyped'
  BY FilesTypedStep DEF AllInv
<1>3. AllInv /\ FilesAreTyped => ContainersSound
  BY ShownTypes, ShownOwners, ShownFiles DEF ContainersSound
<1> QED
  BY <1>1, <1>2, <1>3, AllInvariant, PTL DEF RequestSpec
=============================================================================
