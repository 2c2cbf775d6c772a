-------------------------- MODULE SharedResponses --------------------------
(***************************************************************************)
(* What the gateway promises its readers about cached responses: a file is *)
(* filled once and then settled, whole or not; a settled file may be read  *)
(* by any number of readers; and a file that has a reader is not removed   *)
(* and does not change.  Removal happens only as room is made for a file   *)
(* that goes into use.  Users that are not among the readers have no part  *)
(* in this promise, but they too make room.                                *)
(***************************************************************************)
CONSTANTS Files, Readers, None

VARIABLES
    item,       \* item[f]: the state of file f, "complete" with a whole response
    reading     \* reading[r]: the file reader r has in use, or None

storeVars == <<item, reading>>

Init ==
    /\ item = [f \in Files |-> "absent"]
    /\ reading = [r \in Readers |-> None]

Settled(f) == item[f] \in {"complete", "aborted"}
InUse(f) == \E r \in Readers : reading[r] = f

Fill(f) ==
    /\ item[f] = "absent"
    /\ item' = [item EXCEPT ![f] = "writing"]
    /\ UNCHANGED reading

Settle(f) ==
    /\ item[f] = "writing"
    /\ \E outcome \in {"complete", "aborted"} : item' = [item EXCEPT ![f] = outcome]
    /\ UNCHANGED reading

\* f goes into use; the files of S, settled and unused, make room for it.
Serve(r, f, S) ==
    /\ reading[r] = None
    /\ Settled(f)
    /\ \A g \in S : Settled(g) /\ ~InUse(g) /\ g # f
    /\ reading' = [reading EXCEPT ![r] = f]
    /\ item' = [g \in Files |-> IF g \in S THEN "absent" ELSE item[g]]

\* Room is made for a file that goes into use by no reader.
MakeRoom(S) ==
    /\ \A g \in S : Settled(g) /\ ~InUse(g)
    /\ item' = [g \in Files |-> IF g \in S THEN "absent" ELSE item[g]]
    /\ UNCHANGED reading

Leave(r) ==
    /\ reading[r] # None
    /\ reading' = [reading EXCEPT ![r] = None]
    /\ UNCHANGED item

Next ==
    \/ \E S \in SUBSET Files : MakeRoom(S)
    \/ \E f \in Files : Fill(f) \/ Settle(f)
    \/ \E r \in Readers, f \in Files, S \in SUBSET Files : Serve(r, f, S)
    \/ \E r \in Readers : Leave(r)

Spec == Init /\ [][Next]_storeVars
=============================================================================
