------------------------------ MODULE MCRequests ------------------------------
(* A request of two containers in process p1 and one of one container in   *)
(* p2, over two URLs with a cache file each.                               *)
EXTENDS ConcurrentRequests, RetrievalService, TLC

CONSTANTS p1, p2, c1, c2, c3, r1, r2, r3, n1, n2, u1, u2, f1, f2

MCProcs == {p1, p2}
MCFiles == {f1, f2}
MCUrls == {u1, u2}
MCTypes == {"nc"}
MCCacheFileName == (u1 :> f1) @@ (u2 :> f2)
MCUrlType == (u1 :> "nc") @@ (u2 :> "nc")
MCHeaderTypes == (u1 :> {""}) @@ (u2 :> {"nc"})
MCResources == {r1, r2, r3}
MCOwner == (r1 :> p1) @@ (r2 :> p1) @@ (r3 :> p2)
MCNames == {n1, n2}
MCRealName == (n1 :> u1) @@ (n2 :> u2)
MCCopies == {c1, c2, c3}
MCOriginal == (c1 :> n1) @@ (c2 :> n2) @@ (c3 :> n2)
MCHolder == (c1 :> p1) @@ (c2 :> p1) @@ (c3 :> p2)
=============================================================================
