------------------------ MODULE SharedResponses_proofs ------------------------
(***************************************************************************)
(* What a reader may rely on if the cached responses are shared as         *)
(* SharedResponses says, for any files and readers.                        *)
(***************************************************************************)
EXTENDS SharedResponses, TLAPS

ItemStates == {"absent", "writing", "complete", "aborted"}

ReadsSettled ==
    /\ item \in [Files -> ItemStates]
    /\ reading \in [Readers -> Files \cup {None}]
    /\ \A r \in Readers : reading[r] # None => Settled(reading[r])

\* What happens to a file in one step: it is filled, settled, removed or as it was.
Kept(f) == item'[f] = item[f]
Filled(f) == item[f] = "absent" /\ item'[f] = "writing"
SettledNow(f) == item[f] = "writing" /\ item'[f] \in {"complete", "aborted"}
Removed(f) == Settled(f) /\ item'[f] = "absent"

UntilItLeaves ==
    \A r \in Readers : (reading[r] # None /\ reading'[r] # None) =>
        reading'[r] = reading[r] /\ Kept(reading[r])

Once ==
    \A f \in Files : Kept(f) \/ Filled(f) \/ SettledNow(f) \/ Removed(f)

LEMMA Initially == Init => ReadsSettled
BY DEF Init, ReadsSettled, ItemStates

-----------------------------------------------------------------------------
(* Room is made by the removal of settled files that no one reads.         *)
LEMMA RoomIsMade ==
    ASSUME ReadsSettled, NEW S, \A g \in S : Settled(g) /\ ~InUse(g),
           item' = [g \in Files |-> IF g \in S THEN "absent" ELSE item[g]]
    PROVE  /\ item' \in [Files -> ItemStates]
           /\ \A f \in Files : Kept(f) \/ Removed(f)
           /\ \A f \in Files : f \notin S => Kept(f)
           /\ \A r \in Readers : reading[r] # None => reading[r] \in Files \ S
<1>1. item' \in [Files -> ItemStates]
  BY DEF ReadsSettled, ItemStates
<1>2. \A f \in Files : f \notin S => Kept(f)
  BY DEF Kept
<1>3. \A f \in Files : f \in S => Removed(f)
  BY DEF Removed
<1>4. \A r \in Readers : reading[r] # None => reading[r] \in Files \ S
  BY DEF ReadsSettled, InUse
<1> QED
  BY <1>1, <1>2, <1>3, <1>4

LEMMA Step ==
    ASSUME ReadsSettled, [Next]_storeVars
    PROVE  ReadsSettled' /\ UntilItLeaves /\ Once
<1>1. ASSUME NEW S \in SUBSET Files, MakeRoom(S)
      PROVE  ReadsSettled' /\ UntilItLeaves /\ Once
  <2>1. /\ item' \in [Files -> ItemStates]
        /\ \A f \in Files : Kept(f) \/ Removed(f)
        /\ \A r \in Readers : reading[r] # None => reading[r] \in Files /\ Kept(reading[r])
    BY <1>1, RoomIsMade DEF MakeRoom
  <2>2. reading' = reading
    BY <1>1 DEF MakeRoom
  <2> QED
    BY <2>1, <2>2 DEF ReadsSettled, Settled, UntilItLeaves, Once, Kept
<1>2. ASSUME NEW f \in Files, Fill(f) \/ Settle(f)
      PROVE  ReadsSettled' /\ UntilItLeaves /\ Once
  <2>1. reading' = reading /\ ~Settled(f)
    BY <1>2 DEF Fill, Settle, Settled
  <2>2. /\ item' \in [Files -> ItemStates]
        /\ \A g \in Files : g # f => Kept(g)
        /\ Filled(f) \/ SettledNow(f)
    BY <1>2 DEF Fill, Settle, ReadsSettled, ItemStates, Kept, Filled, SettledNow
  <2>3. \A r \in Readers : reading[r] # None => reading[r] \in Files /\ reading[r] # f
    BY <2>1 DEF ReadsSettled
  <2> QED
    BY <2>1, <2>2, <2>3 DEF ReadsSettled, Settled, UntilItLeaves, Once, Kept
<1>3. ASSUME NEW r \in Readers, NEW f \in Files, NEW S \in SUBSET Files, Serve(r, f, S)
      PROVE  ReadsSettled' /\ UntilItLeaves /\ Once
  <2>1. /\ item' \in [Files -> ItemStates]
        /\ \A g \in Files : Kept(g) \/ Removed(g)
        /\ \A s \in Readers : reading[s] # None => reading[s] \in Files /\ Kept(reading[s])
        /\ Kept(f)
    BY <1>3, RoomIsMade DEF Serve
  <2>2. reading' = [reading EXCEPT ![r] = f] /\ reading[r] = None /\ Settled(f)
    BY <1>3 DEF Serve
  <2>3. /\ reading' \in [Readers -> Files \cup {None}] /\ reading'[r] = f
        /\ \A s \in Readers : s # r => reading'[s] = reading[s]
    BY <2>2 DEF ReadsSettled
  <2>4. ReadsSettled'
    BY <2>1, <2>2, <2>3 DEF ReadsSettled, Settled, Kept
  <2> QED
    BY <2>1, <2>2, <2>3, <2>4 DEF UntilItLeaves, Once
<1>4. ASSUME NEW r \in Readers, Leave(r)
      PROVE  ReadsSettled' /\ UntilItLeaves /\ Once
  <2>1. item' = item /\ reading' = [reading EXCEPT ![r] = None]
    BY <1>4 DEF Leave
  <2>2. \A s \in Readers : reading'[s] = None \/ reading'[s] = reading[s]
    BY <2>1 DEF ReadsSettled
  <2>3. reading' \in [Readers -> Files \cup {None}]
    BY <2>1 DEF ReadsSettled
  <2> QED
    BY <2>1, <2>2, <2>3 DEF ReadsSettled, Settled, UntilItLeaves, Once, Kept
<1>5. CASE UNCHANGED storeVars
  BY <1>5 DEF storeVars, ReadsSettled, Settled, UntilItLeaves, Once, Kept
<1> QED
  BY <1>1, <1>2, <1>3, <1>4, <1>5 DEF Next

(* A reader has a settled file in use, never one that is being written or  *)
(* is not there.                                                           *)
THEOREM ReadersAreServed == Spec => []ReadsSettled
BY Initially, Step, PTL DEF Spec

(* From the moment a reader has a file until it leaves, it has that file,  *)
(* and nobody writes, settles or removes it, whoever else makes room.      *)
THEOREM NothingChangesInUse == Spec => [][UntilItLeaves]_storeVars
BY Initially, Step, PTL DEF Spec

(* A file is filled, settled once and removed, in this order: an aborted   *)
(* response never turns into a complete one, nor a complete into another,  *)
(* without having been absent and written again.                           *)
THEOREM ResponsesSettleOnce == Spec => [][Once]_storeVars
BY Initially, Step, PTL DEF Spec
=============================================================================
