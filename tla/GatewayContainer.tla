--------------------------- MODULE GatewayContainer ---------------------------
(***************************************************************************)
(* The containers of one beslistener process and the remote resources they *)
(* point to.  GatewayContainerStorage keeps the containers a client has    *)
(* defined; a request works on duplicates of them.  The pointer            *)
(* _remoteResource is modelled as a pointer: two containers may hold the   *)
(* same one, and a deleted object may still be pointed to.                 *)
(*                                                                         *)
(* A retrieval is one step here; RemoteHttpResource has its inside.        *)
(***************************************************************************)
EXTENDS FiniteSets

CONSTANTS
    Containers,     \* heap addresses of GatewayContainer objects
    Resources,      \* heap addresses of RemoteHttpResource objects
    Names,          \* symbolic names
    Urls,           \* real names: the remote requests
    WhiteList,      \* the URLs that match an element of Gateway.Whitelist
    Types,          \* type names of the configuration
    None

ASSUME ContainerAssumption ==
    /\ WhiteList \subseteq Urls
    /\ None \notin Containers \cup Resources \cup Urls
    /\ {"", "gateway"} \cap Types = {}

VARIABLES
    realName,   \* realName[c]: real name of container c, None if c is no object
    ctype,      \* ctype[c]: the container type
    remote,     \* remote[c]: _remoteResource, None if null
    object,     \* object[o]: "free" memory, or a resource "ready" or "failed"
    stored,     \* stored[n]: the container the storage has under name n
    result      \* result[c]: what the last access() since a release() gave

containerVars == <<realName, ctype, remote, object, stored, result>>

Live(c) == realName[c] # None
Stored(c) == \E n \in Names : stored[n] = c

\* A container that a request looked up works on its own copy.
Borrowed(c) == Live(c) /\ ~Stored(c)

FieldsOK ==
    /\ realName \in [Containers -> Urls \cup {None}]
    /\ ctype \in [Containers -> Types \cup {"", "unknown", "gateway"}]
    /\ remote \in [Containers -> Resources \cup {None}]
    /\ object \in [Resources -> {"free", "failed", "ready"}]
    /\ stored \in [Names -> Containers \cup {None}]
    /\ result \in [Containers -> {"none", "file", "error"}]

\* Memory that holds no container is clear.
FreeIsClear ==
    \A c \in Containers : ~Live(c) => remote[c] = None /\ result[c] = "none"

\* The storage has containers that exist, different ones for different names.
StorageOK ==
    /\ \A n \in Names : stored[n] # None => Live(stored[n])
    /\ \A m, n \in Names : stored[m] = stored[n] /\ stored[m] # None => m = n

(* Types, and that containers, the memory they take and the storage that   *)
(* points to them are set up and taken down together.                      *)
TypeOK == FieldsOK /\ FreeIsClear /\ StorageOK

Init ==
    /\ realName = [c \in Containers |-> None]
    /\ ctype = [c \in Containers |-> ""]
    /\ remote = [c \in Containers |-> None]
    /\ object = [o \in Resources |-> "free"]
    /\ stored = [n \in Names |-> None]
    /\ result = [c \in Containers |-> "none"]

-----------------------------------------------------------------------------
\* The fields of a new container at address c.
Construct(c, u, t, o) ==
    /\ ~Live(c)
    /\ realName' = [realName EXCEPT ![c] = u]
    /\ ctype' = [ctype EXCEPT ![c] = t]
    /\ remote' = [remote EXCEPT ![c] = o]
    /\ result' = [result EXCEPT ![c] = "none"]

(* The constructor throws for a URL that no element of the white list is a *)
(* prefix of (credentials in the URL do not count); nothing is kept.       *)
NewContainer(c, u, t) ==
    /\ u \in WhiteList
    /\ Construct(c, u, IF t = "" THEN "gateway" ELSE t, None)

\* GatewayContainerStorage::add_container.
AddContainer(n, c, u, t) ==
    /\ stored[n] = None
    /\ NewContainer(c, u, t)
    /\ stored' = [stored EXCEPT ![n] = c]
    /\ UNCHANGED object

\* ptr_duplicate: the check in _duplicate looks at the new object only.
PtrDuplicate(c, d) ==
    /\ Live(c)
    /\ Construct(d, realName[c], ctype[c], remote[c])
    /\ UNCHANGED <<object, stored>>

\* The copy constructor throws if the original has been accessed.
CopyConstruct(c, d) ==
    /\ Live(c)
    /\ remote[c] = None
    /\ Construct(d, realName[c], ctype[c], None)
    /\ UNCHANGED <<object, stored>>

\* look_for hands out a duplicate of the stored container.
LookFor(n, d) == stored[n] # None /\ PtrDuplicate(stored[n], d)

-----------------------------------------------------------------------------
SetResult(c, what) == result' = [result EXCEPT ![c] = what]

\* access(): the new resource is kept in _remoteResource, then retrieved.
AccessNew(c, o) ==
    /\ remote[c] = None
    /\ object[o] = "free"
    /\ remote' = [remote EXCEPT ![c] = o]
    /\ \/ /\ object' = [object EXCEPT ![o] = "ready"]
          /\ \E t \in Types \cup {"", "unknown"} : ctype' = [ctype EXCEPT ![c] = t]
          /\ SetResult(c, "file")
       \/ /\ object' = [object EXCEPT ![o] = "failed"]
          /\ SetResult(c, "error")
          /\ UNCHANGED ctype

\* The constructor of the resource throws, and _remoteResource stays null.
AccessFails(c) ==
    /\ remote[c] = None
    /\ SetResult(c, "error")
    /\ UNCHANGED <<ctype, remote, object>>

\* Slip: getCacheFileName() does not look at _initialized.
AccessAgain_Unchecked(c) ==
    /\ remote[c] # None
    /\ SetResult(c, "file")
    /\ UNCHANGED <<ctype, remote, object>>

\* access() once more: getCacheFileName() throws unless it was retrieved.
AccessAgain(c) ==
    /\ remote[c] # None
    /\ SetResult(c, IF object[remote[c]] = "ready" THEN "file" ELSE "error")
    /\ UNCHANGED <<ctype, remote, object>>

Access(c) ==
    /\ Live(c)
    /\ (\E o \in Resources : AccessNew(c, o)) \/ AccessFails(c) \/ AccessAgain(c)
    /\ UNCHANGED <<realName, stored>>

\* delete _remoteResource, if there is one.
FreeRemote(c) ==
    object' = [o \in Resources |-> IF o = remote[c] THEN "free" ELSE object[o]]

Release(c) ==
    /\ Live(c)
    /\ FreeRemote(c)
    /\ remote' = [remote EXCEPT ![c] = None]
    /\ SetResult(c, "none")
    /\ UNCHANGED <<realName, ctype, stored>>

\* Slip: the destructor does not release the resource.
Destroy_NoRelease(c) ==
    /\ Live(c)
    /\ remote' = [remote EXCEPT ![c] = None]
    /\ realName' = [realName EXCEPT ![c] = None]
    /\ ctype' = [ctype EXCEPT ![c] = ""]
    /\ SetResult(c, "none")
    /\ stored' = [n \in Names |-> IF stored[n] = c THEN None ELSE stored[n]]
    /\ UNCHANGED object

\* Slip: the storage keeps its pointer to a container that is deleted.
Destroy_StaysStored(c) ==
    /\ Live(c)
    /\ FreeRemote(c)
    /\ remote' = [remote EXCEPT ![c] = None]
    /\ realName' = [realName EXCEPT ![c] = None]
    /\ ctype' = [ctype EXCEPT ![c] = ""]
    /\ SetResult(c, "none")
    /\ UNCHANGED stored

\* The destructor releases the resource; the memory of c is free again.
Destroy(c) ==
    /\ Live(c)
    /\ FreeRemote(c)
    /\ remote' = [remote EXCEPT ![c] = None]
    /\ realName' = [realName EXCEPT ![c] = None]
    /\ ctype' = [ctype EXCEPT ![c] = ""]
    /\ SetResult(c, "none")
    /\ stored' = [n \in Names |-> IF stored[n] = c THEN None ELSE stored[n]]

-----------------------------------------------------------------------------
(* A request looks containers up, accesses and releases its copies of them *)
(* and destroys them when it is done; it copies only what it has not       *)
(* accessed.  A stored container is deleted, never accessed.               *)
Request ==
    \/ \E c \in Containers : Borrowed(c) /\ (Access(c) \/ Release(c))
    \/ \E c \in Containers : Destroy(c)
    \/ \E n \in Names, d \in Containers : LookFor(n, d)
    \/ \E c, d \in Containers : Borrowed(c) /\ CopyConstruct(c, d)
    \/ \E n \in Names, c \in Containers, u \in Urls, t \in Types \cup {""} : AddContainer(n, c, u, t)

Spec == Init /\ [][Request]_containerVars

\* The same, with ptr_duplicate called on any container as its interface allows.
AnyRequest == Request \/ \E c, d \in Containers : PtrDuplicate(c, d)

AnySpec == Init /\ [][AnyRequest]_containerVars

-----------------------------------------------------------------------------
(* Every resource has exactly one container that will delete it, and no    *)
(* container points to a resource that is gone: however requests look up,  *)
(* copy, access, fail, release and destroy, nothing leaks and nothing is   *)
(* deleted twice.                                                          *)
SoleOwner ==
    /\ \A o \in Resources : object[o] # "free" => \E c \in Containers : remote[c] = o
    /\ \A c \in Containers : remote[c] # None => Live(c) /\ object[remote[c]] # "free"
    /\ \A c, d \in Containers : remote[c] = remote[d] /\ remote[c] # None => c = d

(* A container that gave out a file name has a resource, retrieved without *)
(* an error, that holds on to the file until the release; a second access  *)
(* after a failed one does not give out a file.                            *)
FileMeansRetrieved ==
    \A c \in Containers : result[c] = "file" =>
        /\ remote[c] # None
        /\ object[remote[c]] = "ready"
        /\ ctype[c] # "gateway"

(* "we can not make a copy of this container once the request has been     *)
(* made" (the copy constructor; _duplicate has the same message): a new    *)
(* container starts without a remote resource.                             *)
CopiesAreUnaccessed ==
    [][\A d \in Containers : ~Live(d) /\ Live(d)' => remote'[d] = None]_containerVars
=============================================================================
