-------------------------- MODULE MCModuleSettings --------------------------
(* Instances of ModuleSettings for TLC: addresses of four bits, with the   *)
(* networks of two prefix lengths, 1 and 2.                                *)
EXTENDS ModuleSettings, TLC

CONSTANTS fits, unfit

MCNoHosts == {0, 1, 15}
MCEntered ==
  ("ip_address" :> {0, 4, 5, 7}) @@ ("netmask" :> {0, 3, 8, 12, 14})
    @@ ("gateway" :> {0, 6, 9}) @@ ("server" :> {0, 15})
MCNames == {fits, unfit}
MCHostnames == {fits}
=============================================================================
