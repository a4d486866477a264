---------------------------- MODULE MCHubScopes ----------------------------
EXTENDS HubScopes
Symmetry == Permutations(Hub \ {LoneHub}) \cup Permutations(Map) \cup Permutations(Name)

\* To keep the run small, it looks at variables or at actions, and after a save
\* at one action, or two variables that are not zero.
Values == globalReg + MapThenSumSet(LAMBDA h : hubReg[h], Hub)
            + MapThenSumSet(LAMBDA m : mapReg[m], MapId)
Actions == Pending + MapThenSumSet(LAMBDA m : Len(mapAction[m]), MapId)
ValuesOrActions == Values = 0 \/ Actions = 0
FewAfterSave == saved # NoSave => Actions <= 1 /\ Values <= 2
=============================================================================
