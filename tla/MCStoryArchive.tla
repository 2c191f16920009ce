--------------------------- MODULE MCStoryArchive ---------------------------
(* Bounds for TLC: see the README, "Runs".                                   *)
EXTENDS StoryArchive, TLC

BaseOne == {1}
BaseTwo == {2}
BaseOneTwo == {1, 2}

VoterSymmetry == Permutations(Voter)
TxSymmetry == Permutations(TxId)
Symmetry == VoterSymmetry \cup TxSymmetry
=============================================================================
