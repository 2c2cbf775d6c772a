----------------------------- MODULE MCResource -----------------------------
(* Two resources in process p1 and one in p2, two URLs with a cache file   *)
(* each; the first URL is typed by its name, the second by its headers.    *)
EXTENDS RetrievalService, DocumentedClaims, TLC

CONSTANTS p1, p2, r1, r2, r3, u1, u2, f1, f2

MCProcs == {p1, p2}
MCFiles == {f1, f2}
MCUrls == {u1, u2}
MCTypes == {"csv", "nc"}
MCCacheFileName == (u1 :> f1) @@ (u2 :> f2)
MCUrlType == (u1 :> "csv") @@ (u2 :> "")
MCHeaderTypes == (u1 :> {"nc"}) @@ (u2 :> {""})

MCResources == {r1, r2, r3}
MCOwner == (r1 :> p1) @@ (r2 :> p1) @@ (r3 :> p2)

MCSoleResources == {r1, r3}
MCSoleOwner == (r1 :> p1) @@ (r3 :> p2)

MCSymmetry == Permutations({r1, r2})
=============================================================================
