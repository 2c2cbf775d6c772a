-------------------------- MODULE DocumentedClaims --------------------------
(***************************************************************************)
(* What comments of the repository say of a retrieval, where a run of the  *)
(* code does not bear it out.                                              *)
(***************************************************************************)
EXTENDS RemoteHttpResource

(* "the response saved to file if successfull, and the target response     *)
(* returned" (GatewayContainer.h): a resource that is ready gives access   *)
(* to the whole response, never to what a failed download left behind.     *)
ServedIsWhole ==
    \A r \in Resources : Sole(r) /\ pc[r] = "ready" => content[cacheName[r]] = "complete"

(* "Change the exclusive lock on the new file to a shared lock. This keeps *)
(* other processes from purging the new file" and "Returns the             *)
(* (read-locked) cache file name": a ready resource has its file and a     *)
(* lock on it, whatever other resources its process has.                   *)
KeepsReadLock ==
    \A r \in Resources : pc[r] = "ready" =>
        Cached(cacheName[r]) /\ lock[cacheName[r]][Owner[r]] = "shared"

(* "The type of the target response is determined by the request response":*)
(* two resources for one URL agree on its type.                            *)
TypeFromResponse ==
    \A r, s \in Resources :
        pc[r] = "ready" /\ pc[s] = "ready" /\ url[r] = url[s] => dtype[r] = dtype[s]

(* "If it's not there then it will lock the cache and retrieve the remote  *)
(* resource content using HTTP GET": without a fault, no retrieval fails   *)
(* that has not tried an HTTP GET.                                         *)
FailsOnlyAfterGet ==
    [][\A r \in Resources :
         pc[r] # "unwind" /\ pc'[r] = "unwind" /\ faults' = faults => pc[r] = "fetch"]_vars
=============================================================================
