-------------------------- MODULE RetrievalService --------------------------
(***************************************************************************)
(* What retrieveResource() promises as a service: it implements the shared *)
(* store of SharedResponses.                                               *)
(***************************************************************************)
EXTENDS RemoteHttpResource

\* Of the resources of a process that has several, none counts as a reader.
StoreReading ==
    [r \in Resources |-> IF Sole(r) /\ pc[r] = "ready" THEN cacheName[r] ELSE None]

Store == INSTANCE SharedResponses
           WITH Readers <- Resources, item <- content, reading <- StoreReading

(* All processes share the cache as SharedResponses says: every step of    *)
(* retrieveResource(), of the destructor and of a crash is one step of the *)
(* store or none.  What it promises to readers is promised to resources    *)
(* that are alone in their process.                                        *)
ImplementsStore == Store!Spec
=============================================================================
