---------------------------- MODULE MCWagoModule ----------------------------
(* An instance of WagoModule for TLC: one field in each block, writes of    *)
(* either field and of both.                                               *)
EXTENDS WagoModule

CONSTANTS w1, w2, w3

MCWriters == {w1, w2, w3}
MCRequests ==
  {[timeout |-> 1, ip_address |-> Keep],
   [timeout |-> Keep, ip_address |-> 1],
   [timeout |-> 0, ip_address |-> 0]}
=============================================================================
