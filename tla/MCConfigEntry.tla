--------------------------- MODULE MCConfigEntry ---------------------------
(* Instances of ConfigEntry for TLC.                                       *)
EXTENDS ConfigEntry

CONSTANTS a1, a2, n1, f1, f2

MCAddresses == {a1, a2}
MCNames == {n1}
MCFlows == {f1, f2}
=============================================================================
