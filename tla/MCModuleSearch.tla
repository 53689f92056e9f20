--------------------------- MODULE MCModuleSearch ---------------------------
(* Instances of ModuleSearch for TLC.                                      *)
EXTENDS ModuleSearch

CONSTANTS m1, m2, x, y, z, a1, a2

MCModules == {m1, m2}
MCMeters == {x, y, z}
MCUnsupported == {z}
MCAddresses == {a1, a2}
=============================================================================
