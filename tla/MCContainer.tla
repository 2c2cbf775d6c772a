----------------------------- MODULE MCContainer -----------------------------
(* Room for four containers and three resources, two names, two URLs of    *)
(* which one is in the white list.                                         *)
EXTENDS GatewayContainer, TLC

CONSTANTS c1, c2, c3, c4, o1, o2, o3, n1, n2, u1, u2

MCContainers == {c1, c2, c3, c4}
MCResources == {o1, o2, o3}
MCNames == {n1, n2}
MCUrls == {u1, u2}
MCWhiteList == {u1}
MCTypes == {"nc"}

MCSymmetry == Permutations(MCContainers) \cup Permutations(MCResources) \cup Permutations(MCNames)
=============================================================================
