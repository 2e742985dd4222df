--------------------- MODULE ProjectStateTransactionMC ---------------------
(* Model values and bounds for checking ProjectStateTransaction.            *)
EXTENDS ProjectStateTransaction, TLC

CONSTANTS r1, r2, c1, c2, x, y, s0, s1

MCSlots == {r1, r2}
MCCommands == {c1, c2}
MCOneContent == {x}
MCContents == {x, y}
MCSnapshots == {s0, s1}
MCInitialSnapshot == s0

MCSymmetry == Permutations(MCSlots) \cup Permutations(MCCommands)
=============================================================================
