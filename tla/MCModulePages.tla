--------------------------- MODULE MCModulePages ---------------------------
(* Instances of ModulePages for TLC.                                       *)
EXTENDS ModulePages, TLC

CONSTANTS p1, p2, a1, a2, n1, t1, t2

MCOnePage == {p1}
MCTwoPages == {p1, p2}
MCAddresses == {a1, a2}
MCNames == {n1}
MCTimeouts == {t1, t2}
MCSymmetry ==
  Permutations(MCTwoPages) \cup Permutations(MCAddresses) \cup Permutations(MCTimeouts)
=============================================================================
