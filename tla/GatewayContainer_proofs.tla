------------------------ MODULE GatewayContainer_proofs ------------------------
(***************************************************************************)
(* Proofs about GatewayContainer, for any number of containers, resources, *)
(* names and URLs.                                                         *)
(***************************************************************************)
EXTENDS GatewayContainer, TLAPS

(* A stored container is never accessed, so a duplicate of it has nothing  *)
(* to share.  This is what makes the wrong check in _duplicate harmless.   *)
StoredUnaccessed ==
    \A n \in Names : stored[n] # None => remote[stored[n]] = None

(* The retrieval replaces the container type of add_container().           *)
ReadyIsTyped ==
    \A c \in Containers :
        remote[c] # None /\ object[remote[c]] = "ready" => ctype[c] # "gateway"

ContainerInv ==
    TypeOK /\ StoredUnaccessed /\ SoleOwner /\ FileMeansRetrieved /\ ReadyIsTyped

LEMMA ContainerInit == Init => ContainerInv
<1> SUFFICES ASSUME Init
             PROVE  ContainerInv
  OBVIOUS
<1>1. TypeOK
  BY DEF Init, TypeOK, FieldsOK, FreeIsClear, StorageOK, Live
<1>2. StoredUnaccessed /\ SoleOwner /\ FileMeansRetrieved /\ ReadyIsTyped
  BY DEF Init, StoredUnaccessed, SoleOwner, FileMeansRetrieved, ReadyIsTyped
<1> QED
  BY <1>1, <1>2 DEF ContainerInv

-----------------------------------------------------------------------------
(* A new container without a remote resource, stored or not.               *)
LEMMA ConstructStep ==
    ASSUME ContainerInv, NEW d \in Containers, NEW u \in Urls,
           NEW t \in Types \cup {"", "unknown", "gateway"},
           Construct(d, u, t, None), UNCHANGED object,
           \/ UNCHANGED stored
           \/ \E n \in Names : stored[n] = None /\ stored' = [stored EXCEPT ![n] = d]
    PROVE  ContainerInv'
<1> USE DEF Live
<1>1. /\ FieldsOK /\ FreeIsClear /\ StorageOK
      /\ StoredUnaccessed /\ SoleOwner /\ FileMeansRetrieved /\ ReadyIsTyped
  BY DEF ContainerInv, TypeOK
<1>2. u # None /\ d # None
  BY ContainerAssumption
<1>3. /\ realName[d] = None /\ realName'[d] = u
      /\ \A c \in Containers : c # d => realName'[c] = realName[c] /\ ctype'[c] = ctype[c]
  BY <1>1 DEF Construct, FieldsOK
<1>4. remote[d] = None /\ UNCHANGED remote
  BY <1>1, <1>3 DEF Construct, FieldsOK, FreeIsClear
<1>5. result[d] = "none" /\ UNCHANGED result
  BY <1>1, <1>3 DEF Construct, FieldsOK, FreeIsClear
<1>6. \A n \in Names : stored[n] # d
  BY <1>1, <1>2, <1>3 DEF StorageOK
<1>7. \A n \in Names : stored'[n] = stored[n] \/ (stored[n] = None /\ stored'[n] = d)
  <2>1. CASE UNCHANGED stored
    BY <2>1
  <2>2. ASSUME NEW k \in Names, stored[k] = None, stored' = [stored EXCEPT ![k] = d]
        PROVE  \A n \in Names : stored'[n] = stored[n] \/ (stored[n] = None /\ stored'[n] = d)
    BY <1>1, <2>2 DEF FieldsOK
  <2> QED
    BY <2>1, <2>2
<1>8. FieldsOK'
  <2>1. stored' \in [Names -> Containers \cup {None}]
    BY <1>1 DEF FieldsOK
  <2>2. /\ realName' \in [Containers -> Urls \cup {None}]
        /\ ctype' \in [Containers -> Types \cup {"", "unknown", "gateway"}]
    BY <1>1 DEF FieldsOK, Construct
  <2> QED
    BY <1>1, <1>4, <1>5, <2>1, <2>2 DEF FieldsOK
<1>9. FreeIsClear'
  BY <1>1, <1>3, <1>4, <1>5 DEF FreeIsClear
<1>10. \A n \in Names : stored'[n] # None => realName'[stored'[n]] # None
  <2> SUFFICES ASSUME NEW n \in Names, stored'[n] # None
               PROVE  realName'[stored'[n]] # None
    OBVIOUS
  <2>1. CASE stored'[n] = d
    BY <1>2, <1>3, <2>1
  <2>2. CASE stored'[n] # d
    <3>1. stored'[n] = stored[n] /\ stored[n] \in Containers /\ realName[stored[n]] # None
      BY <1>1, <1>7, <2>2 DEF StorageOK, FieldsOK
    <3> QED
      BY <1>3, <2>2, <3>1
  <2> QED
    BY <2>1, <2>2
<1>11. ASSUME NEW m \in Names, NEW n \in Names, stored'[m] = stored'[n], stored'[m] # None
       PROVE  m = n
  <2>1. CASE UNCHANGED stored
    BY <1>1, <1>11, <2>1 DEF StorageOK
  <2>2. ASSUME NEW k \in Names, stored[k] = None, stored' = [stored EXCEPT ![k] = d]
        PROVE  m = n
    <3>1. stored'[k] = d /\ \A l \in Names : l # k => stored'[l] = stored[l]
      BY <1>1, <2>2 DEF FieldsOK
    <3>2. CASE m = k \/ n = k
      BY <1>6, <1>11, <3>1, <3>2
    <3>3. CASE m # k /\ n # k
      BY <1>1, <1>11, <3>1, <3>3 DEF StorageOK
    <3> QED
      BY <3>2, <3>3
  <2> QED
    BY <2>1, <2>2
<1>12. StorageOK'
  BY <1>10, <1>11 DEF StorageOK
<1>13. StoredUnaccessed'
  BY <1>1, <1>4, <1>7 DEF StoredUnaccessed
<1>14. SoleOwner'
  BY <1>1, <1>2, <1>3, <1>4 DEF SoleOwner
<1>15. FileMeansRetrieved'
  BY <1>1, <1>3, <1>4, <1>5 DEF FileMeansRetrieved
<1>16. ReadyIsTyped'
  BY <1>1, <1>3, <1>4 DEF ReadyIsTyped
<1> QED
  BY <1>8, <1>9, <1>12, <1>13, <1>14, <1>15, <1>16 DEF ContainerInv, TypeOK

-----------------------------------------------------------------------------
(* access() of a container that a request borrowed.                        *)
LEMMA AccessStep ==
    ASSUME ContainerInv, NEW c \in Containers, Borrowed(c), Access(c)
    PROVE  ContainerInv'
<1> USE DEF Live
<1>1. /\ FieldsOK /\ FreeIsClear /\ StorageOK
      /\ StoredUnaccessed /\ SoleOwner /\ FileMeansRetrieved /\ ReadyIsTyped
  BY DEF ContainerInv, TypeOK
<1>2. realName[c] # None /\ (\A n \in Names : stored[n] # c) /\ UNCHANGED <<realName, stored>>
  BY DEF Borrowed, Stored, Access
<1>3. StorageOK'
  BY <1>1, <1>2 DEF StorageOK
<1>4. ASSUME NEW o \in Resources, AccessNew(c, o)
      PROVE  ContainerInv'
  <2>1. /\ remote[c] = None /\ remote'[c] = o /\ o # None
        /\ \A d \in Containers : d # c => remote'[d] = remote[d]
    BY <1>1, <1>4, ContainerAssumption DEF AccessNew, FieldsOK
  <2>2. /\ object[o] = "free" /\ object'[o] \in {"ready", "failed"}
        /\ \A x \in Resources : x # o => object'[x] = object[x]
    BY <1>1, <1>4 DEF AccessNew, FieldsOK
  <2>3. \A d \in Containers : remote[d] # o
    BY <1>1, <2>1, <2>2 DEF SoleOwner
  <2>4. /\ result'[c] = "file" => object'[o] = "ready" /\ ctype'[c] # "gateway"
        /\ \A d \in Containers : d # c => result'[d] = result[d] /\ ctype'[d] = ctype[d]
    BY <1>1, <1>4, ContainerAssumption DEF AccessNew, SetResult, FieldsOK
  <2>5. FieldsOK'
    <3>1. ctype' \in [Containers -> Types \cup {"", "unknown", "gateway"}]
      BY <1>1, <1>4 DEF AccessNew, FieldsOK
    <3>2. /\ remote' \in [Containers -> Resources \cup {None}]
          /\ object' \in [Resources -> {"free", "failed", "ready"}]
          /\ result' \in [Containers -> {"none", "file", "error"}]
      BY <1>1, <1>4 DEF AccessNew, SetResult, FieldsOK
    <3> QED
      BY <1>1, <1>2, <3>1, <3>2 DEF FieldsOK
  <2>6. FreeIsClear'
    BY <1>1, <1>2, <2>1, <2>4 DEF FreeIsClear
  <2>7. StoredUnaccessed'
    BY <1>1, <1>2, <2>1 DEF StoredUnaccessed, FieldsOK
  <2>8. SoleOwner'
    <3>1. \A x \in Resources : object'[x] # "free" => \E d \in Containers : remote'[d] = x
      <4> SUFFICES ASSUME NEW x \in Resources, object'[x] # "free", x # o
                   PROVE  \E d \in Containers : remote'[d] = x
        BY <2>1
      <4>1. PICK d \in Containers : remote[d] = x
        BY <1>1, <2>2 DEF SoleOwner
      <4>2. d # c
        BY <2>1, <4>1, ContainerAssumption
      <4> QED
        BY <2>1, <4>1, <4>2
    <3>2. \A d \in Containers : remote'[d] # None => realName'[d] # None /\ object'[remote'[d]] # "free"
      <4> SUFFICES ASSUME NEW d \in Containers, remote'[d] # None
                   PROVE  realName'[d] # None /\ object'[remote'[d]] # "free"
        OBVIOUS
      <4>1. CASE d = c
        BY <1>2, <2>1, <2>2, <4>1
      <4>2. CASE d # c
        <5>1. remote[d] \in Resources /\ remote[d] # o /\ remote'[d] = remote[d]
          BY <1>1, <2>1, <2>3, <4>2 DEF FieldsOK
        <5> QED
          BY <1>1, <1>2, <2>2, <5>1 DEF SoleOwner
      <4> QED
        BY <4>1, <4>2
    <3>3. \A d, e \in Containers : remote'[d] = remote'[e] /\ remote'[d] # None => d = e
      BY <1>1, <2>1, <2>3 DEF SoleOwner
    <3> QED
      BY <3>1, <3>2, <3>3 DEF SoleOwner
  <2>9. FileMeansRetrieved'
    <3> SUFFICES ASSUME NEW d \in Containers, result'[d] = "file"
                 PROVE  /\ remote'[d] # None
                        /\ object'[remote'[d]] = "ready"
                        /\ ctype'[d] # "gateway"
      BY DEF FileMeansRetrieved
    <3>1. CASE d = c
      BY <2>1, <2>4, <3>1
    <3>2. CASE d # c
      <4>1. remote[d] # None /\ object[remote[d]] = "ready" /\ ctype[d] # "gateway"
        BY <1>1, <2>4, <3>2 DEF FileMeansRetrieved
      <4>2. remote[d] \in Resources /\ remote[d] # o
        BY <1>1, <2>3, <4>1 DEF FieldsOK
      <4> QED
        BY <2>1, <2>2, <2>4, <3>2, <4>1, <4>2
    <3> QED
      BY <3>1, <3>2
  <2>10. ReadyIsTyped'
    <3>1. object'[o] = "ready" => ctype'[c] # "gateway"
      BY <1>1, <1>4, ContainerAssumption DEF AccessNew, FieldsOK
    <3>2. ASSUME NEW d \in Containers, d # c, remote'[d] # None, object'[remote'[d]] = "ready"
          PROVE  ctype'[d] # "gateway"
      <4>1. remote'[d] = remote[d] /\ remote[d] \in Resources /\ remote[d] # o
        BY <1>1, <2>1, <2>3, <3>2 DEF FieldsOK
      <4> QED
        BY <1>1, <2>2, <2>4, <3>2, <4>1 DEF ReadyIsTyped
    <3> QED
      BY <2>1, <3>1, <3>2 DEF ReadyIsTyped
  <2> QED
    BY <1>3, <2>5, <2>6, <2>7, <2>8, <2>9, <2>10 DEF ContainerInv, TypeOK
<1>5. CASE AccessFails(c) \/ AccessAgain(c)
  <2>1. UNCHANGED <<ctype, remote, object>>
    BY <1>5 DEF AccessFails, AccessAgain
  <2>2. /\ result'[c] = "file" => remote[c] # None /\ object[remote[c]] = "ready"
        /\ \A d \in Containers : d # c => result'[d] = result[d]
    BY <1>1, <1>5 DEF AccessFails, AccessAgain, SetResult, FieldsOK
  <2>3. FieldsOK'
    <3>1. result' \in [Containers -> {"none", "file", "error"}]
      BY <1>1, <1>5 DEF AccessFails, AccessAgain, SetResult, FieldsOK
    <3> QED
      BY <1>1, <1>2, <2>1, <3>1 DEF FieldsOK
  <2>4. FreeIsClear' /\ StoredUnaccessed'
    BY <1>1, <1>2, <2>1, <2>2 DEF FreeIsClear, StoredUnaccessed
  <2>5. SoleOwner'
    BY <1>1, <1>2, <2>1 DEF SoleOwner
  <2>6. FileMeansRetrieved'
    BY <1>1, <2>1, <2>2 DEF FileMeansRetrieved, ReadyIsTyped
  <2>7. ReadyIsTyped'
    BY <1>1, <2>1 DEF ReadyIsTyped
  <2> QED
    BY <1>3, <2>3, <2>4, <2>5, <2>6, <2>7 DEF ContainerInv, TypeOK
<1> QED
  BY <1>4, <1>5 DEF Access

-----------------------------------------------------------------------------
(* release(), and the destructor, which also clears the container: the     *)
(* resource that c points to has no other owner.                           *)
LEMMA FreeStep ==
    ASSUME ContainerInv, NEW c \in Containers, Release(c) \/ Destroy(c)
    PROVE  ContainerInv'
<1> USE DEF Live
<1>1. /\ FieldsOK /\ FreeIsClear /\ StorageOK
      /\ StoredUnaccessed /\ SoleOwner /\ FileMeansRetrieved /\ ReadyIsTyped
  BY DEF ContainerInv, TypeOK
<1>2. /\ remote'[c] = None
      /\ \A d \in Containers : d # c => remote'[d] = remote[d]
  BY <1>1 DEF Release, Destroy, FieldsOK
<1>3. /\ result'[c] = "none"
      /\ \A d \in Containers : d # c => result'[d] = result[d] /\ ctype'[d] = ctype[d]
  BY <1>1 DEF Release, Destroy, SetResult, FieldsOK
<1>4. \A o \in Resources : object'[o] = IF o = remote[c] THEN "free" ELSE object[o]
  BY DEF Release, Destroy, FreeRemote
<1>5. \A d \in Containers : d # c => realName'[d] = realName[d]
  BY <1>1 DEF Release, Destroy, FieldsOK
<1>6. \A n \in Names : \/ stored'[n] = stored[n] /\ (stored[n] # c \/ realName'[c] = realName[c])
                       \/ stored'[n] = None
  BY DEF Release, Destroy
<1>7. FieldsOK'
  <2>1. object' \in [Resources -> {"free", "failed", "ready"}]
    <3>1. object' = [o \in Resources |-> IF o = remote[c] THEN "free" ELSE object[o]]
      BY DEF Release, Destroy, FreeRemote
    <3>2. \A o \in Resources : object[o] \in {"free", "failed", "ready"}
      BY <1>1 DEF FieldsOK
    <3> QED
      BY <3>1, <3>2
  <2>2. remote' \in [Containers -> Resources \cup {None}]
    BY <1>1 DEF Release, Destroy, FieldsOK
  <2>3. result' \in [Containers -> {"none", "file", "error"}]
    BY <1>1 DEF Release, Destroy, SetResult, FieldsOK
  <2>4. /\ realName' \in [Containers -> Urls \cup {None}]
        /\ ctype' \in [Containers -> Types \cup {"", "unknown", "gateway"}]
    BY <1>1 DEF Release, Destroy, FieldsOK
  <2>5. stored' \in [Names -> Containers \cup {None}]
    <3>1. stored \in [Names -> Containers \cup {None}]
      BY <1>1 DEF FieldsOK
    <3>2. \/ stored' = stored
          \/ stored' = [n \in Names |-> IF stored[n] = c THEN None ELSE stored[n]]
      BY Zenon DEF Release, Destroy
    <3> QED
      BY <3>1, <3>2
  <2> QED
    BY <2>1, <2>2, <2>3, <2>4, <2>5 DEF FieldsOK
<1>8. FreeIsClear'
  BY <1>1, <1>2, <1>3, <1>5 DEF FreeIsClear
<1>9. StorageOK'
  <2>1. ASSUME NEW n \in Names, stored'[n] # None
        PROVE  realName'[stored'[n]] # None
    <3>1. stored'[n] = stored[n] /\ (stored[n] # c \/ realName'[c] = realName[c])
      BY <1>6, <2>1
    <3>2. stored[n] \in Containers /\ realName[stored[n]] # None
      BY <1>1, <2>1, <3>1 DEF StorageOK, FieldsOK, Live
    <3> QED
      BY <1>5, <3>1, <3>2
  <2>2. \A m, n \in Names : stored'[m] = stored'[n] /\ stored'[m] # None => m = n
    BY <1>1, <1>6 DEF StorageOK
  <2> QED
    BY <2>1, <2>2 DEF StorageOK, Live
<1>10. StoredUnaccessed'
  BY <1>1, <1>2, <1>6 DEF StoredUnaccessed, FieldsOK
<1>11. SoleOwner'
  <2>1. ASSUME NEW o \in Resources, object'[o] # "free"
        PROVE  \E d \in Containers : remote'[d] = o
    <3>1. object[o] # "free" /\ o # remote[c]
      BY <1>4, <2>1
    <3>2. PICK d \in Containers : remote[d] = o
      BY <1>1, <3>1 DEF SoleOwner
    <3> QED
      BY <1>2, <3>1, <3>2
  <2>2. ASSUME NEW d \in Containers, remote'[d] # None
        PROVE  realName'[d] # None /\ object'[remote'[d]] # "free"
    <3>1. d # c /\ remote'[d] = remote[d] /\ remote[d] \in Resources
      BY <1>1, <1>2, <2>2 DEF FieldsOK
    <3>2. remote[d] # remote[c]
      BY <1>1, <2>2, <3>1 DEF SoleOwner
    <3>3. object'[remote[d]] = object[remote[d]]
      BY <1>4, <3>1, <3>2
    <3> QED
      BY <1>1, <1>5, <2>2, <3>1, <3>3 DEF SoleOwner
  <2>3. \A d, e \in Containers : remote'[d] = remote'[e] /\ remote'[d] # None => d = e
    BY <1>1, <1>2 DEF SoleOwner
  <2> QED
    BY <2>1, <2>2, <2>3 DEF SoleOwner
<1>12. ASSUME NEW d \in Containers, remote[d] # None, d # c
       PROVE  object'[remote[d]] = object[remote[d]]
  <2>1. remote[d] \in Resources
    BY <1>1, <1>12 DEF FieldsOK
  <2>2. remote[d] # remote[c]
    BY <1>1, <1>12 DEF SoleOwner
  <2> QED
    BY <1>4, <2>1, <2>2
<1>13. FileMeansRetrieved'
  BY <1>1, <1>2, <1>3, <1>12 DEF FileMeansRetrieved
<1>14. ReadyIsTyped'
  BY <1>1, <1>2, <1>3, <1>12 DEF ReadyIsTyped
<1> QED
  BY <1>7, <1>8, <1>9, <1>10, <1>11, <1>13, <1>14 DEF ContainerInv, TypeOK

-----------------------------------------------------------------------------
LEMMA ContainerNext == ContainerInv /\ [Request]_containerVars => ContainerInv'
<1> SUFFICES ASSUME ContainerInv, [Request]_containerVars
             PROVE  ContainerInv'
  OBVIOUS
<1>1. FieldsOK /\ StorageOK /\ StoredUnaccessed
  BY DEF ContainerInv, TypeOK
<1>2. ASSUME NEW n \in Names, NEW c \in Containers, NEW u \in Urls, NEW t \in Types \cup {""},
             AddContainer(n, c, u, t)
      PROVE  ContainerInv'
  <2> DEFINE type == IF t = "" THEN "gateway" ELSE t
  <2>1. type \in Types \cup {"", "unknown", "gateway"}
    OBVIOUS
  <2> HIDE DEF type
  <2>2. /\ Construct(c, u, type, None) /\ UNCHANGED object
        /\ stored[n] = None /\ stored' = [stored EXCEPT ![n] = c]
    BY <1>2 DEF AddContainer, NewContainer, type
  <2> QED
    BY <2>1, <2>2, ConstructStep
<1>3. ASSUME NEW n \in Names, NEW d \in Containers, LookFor(n, d)
      PROVE  ContainerInv'
  <2>1. stored[n] \in Containers /\ remote[stored[n]] = None
    BY <1>1, <1>3 DEF LookFor, FieldsOK, StoredUnaccessed
  <2>2. /\ realName[stored[n]] \in Urls
        /\ ctype[stored[n]] \in Types \cup {"", "unknown", "gateway"}
    BY <1>1, <1>3, <2>1 DEF LookFor, FieldsOK, StorageOK, Live
  <2>3. /\ Construct(d, realName[stored[n]], ctype[stored[n]], None)
        /\ UNCHANGED <<object, stored>>
    BY <1>3, <2>1 DEF LookFor, PtrDuplicate
  <2> QED
    BY <2>2, <2>3, ConstructStep
<1>4. ASSUME NEW c \in Containers, NEW d \in Containers, CopyConstruct(c, d)
      PROVE  ContainerInv'
  <2>1. /\ realName[c] \in Urls
        /\ ctype[c] \in Types \cup {"", "unknown", "gateway"}
    BY <1>1, <1>4 DEF CopyConstruct, FieldsOK, Live
  <2>2. Construct(d, realName[c], ctype[c], None) /\ UNCHANGED <<object, stored>>
    BY <1>4 DEF CopyConstruct
  <2> QED
    BY <2>1, <2>2, ConstructStep
<1>5. ASSUME NEW c \in Containers, Borrowed(c), Access(c)
      PROVE  ContainerInv'
  BY <1>5, AccessStep
<1>6. ASSUME NEW c \in Containers, Release(c) \/ Destroy(c)
      PROVE  ContainerInv'
  BY <1>6, FreeStep
<1>7. CASE UNCHANGED containerVars
  BY <1>7 DEF containerVars, ContainerInv, TypeOK, FieldsOK, FreeIsClear, StorageOK, Live,
              StoredUnaccessed, SoleOwner, FileMeansRetrieved, ReadyIsTyped
<1> QED
  BY <1>2, <1>3, <1>4, <1>5, <1>6, <1>7 DEF Request

(* Requests keep the containers in a state that makes sense.               *)
THEOREM ContainerInvariant == Spec => []ContainerInv
<1> QED
  BY ContainerInit, ContainerNext, PTL DEF Spec

(* Containers, their memory and the storage stay in step with each other.  *)
THEOREM ContainerTypeCorrect == Spec => []TypeOK
<1>1. ContainerInv => TypeOK
  BY DEF ContainerInv
<1> QED
  BY <1>1, ContainerInvariant, PTL

(* Every remote resource has exactly one container that deletes it: no     *)
(* order of requests leaks one or deletes one twice.                       *)
THEOREM ResourcesHaveOneOwner == Spec => []SoleOwner
<1>1. ContainerInv => SoleOwner
  BY DEF ContainerInv
<1> QED
  BY <1>1, ContainerInvariant, PTL

(* Only a retrieval that succeeded gives out a file.                       *)
THEOREM FilesComeFromRetrievals == Spec => []FileMeansRetrieved
<1>1. ContainerInv => FileMeansRetrieved
  BY DEF ContainerInv
<1> QED
  BY <1>1, ContainerInvariant, PTL
=============================================================================
