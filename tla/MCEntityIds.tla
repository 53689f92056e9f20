----------------------------- MODULE MCEntityIds -----------------------------
(* Instances of EntityIds for TLC: the serials of both meters end alike, so *)
(* that they have one device name.                                          *)
EXTENDS EntityIds, TLC

CONSTANTS x, y, f1, f2, h1, h2

MCMeters == {x, y}
MCFields == {f1, f2}
MCHosts == {h1, h2}
MCDeviceName == [e \in MCMeters |-> "device"]
MCSymmetry == Permutations(MCFields) \cup Permutations(MCMeters)
=============================================================================
