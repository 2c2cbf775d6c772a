----------------------------- MODULE FetchService -----------------------------
(***************************************************************************)
(* A transfer as RemoteHttpResource has it: one resource that fetches,     *)
(* inside the GET that HttpTransfer describes.                             *)
(***************************************************************************)
EXTENDS HttpTransfer

CONSTANTS Process, Resource, CacheFile, Nobody

\* The file has the whole body of a good response.
Whole == written = sent /\ status < 400

\* A URL on which Get_type_from_url throws never comes to a transfer.
TypedUrls == {u \in Urls : Get_type_from_url(u) # Throws}

One(key, value) == [k \in {key} |-> value]

\* What the cache file and the program counter of the resource are meanwhile.
FileContent ==
    IF phase \notin Ended THEN "writing"
    ELSE IF phase \in {"done", "thrown"} /\ Whole THEN "complete" ELSE "aborted"

NextCall ==
    IF phase \notin Ended THEN "fetch"
    ELSE IF phase = "done" THEN "toShared"
    ELSE IF phase = "crashed" THEN "none" ELSE "unwind"

\* The lock and the object, with its fields, go with the process.
Alive == phase # "crashed"

Faults == IF phase \in {"thrown", "crashed"} THEN 1 ELSE 0

Fetching ==
    INSTANCE RemoteHttpResource WITH
        Procs <- {Process}, Files <- {CacheFile}, Resources <- {Resource},
        Owner <- One(Resource, Process), None <- Nobody,
        MaxCacheSize <- MaxBytes, PurgeTarget <- MaxBytes, MaxFaults <- 1,
        Urls <- TypedUrls,
        CacheFileName <- [u \in TypedUrls |-> CacheFile],
        UrlType <- [u \in TypedUrls |-> Get_type_from_url(u)],
        HeaderTypes <- [u \in TypedUrls |-> Types \cup {""}],
        content <- One(CacheFile, FileContent),
        size <- One(CacheFile, written),
        lock <- One(CacheFile, One(Process, IF Alive THEN "exclusive" ELSE "none")),
        info <- 0, cacheLock <- Nobody,
        pc <- One(Resource, NextCall),
        url <- One(Resource, IF Alive THEN url ELSE Nobody),
        cacheName <- One(Resource, IF Alive THEN CacheFile ELSE Nobody),
        dtype <- One(Resource, IF Alive THEN type ELSE ""),
        faults <- Faults

\* The resource has made its file, which is empty.
FetchBegins == NextCall = "fetch" /\ FileContent = "writing" /\ written = 0

(* Whatever the server, the network and the file system do, the transfer   *)
(* is the step "fetch" of RemoteHttpResource: data is only added to the    *)
(* file; it ends with the whole response and a type that headers or the    *)
(* URL can tell, or in an exception with the type as it was; and a file    *)
(* that is called complete is, the one with an error page is not.  If the  *)
(* file name of a disposition ends the process, that is a crash for which  *)
(* the retrieval allows: the lock goes, the file counts as cut short.      *)
ImplementsFetch ==
    FetchBegins /\ [][Fetching!Fetch(Resource) \/ Fetching!Crash(Process)]_(Fetching!vars)
===============================================================================
