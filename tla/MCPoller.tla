------------------------------ MODULE MCPoller ------------------------------
(* Instances of Poller for TLC.                                            *)
EXTENDS Poller

CONSTANTS measurements, energy, r1, r2, other, unfit

MCPollers == {measurements, energy}
MCTwoRequests == {measurements}
MCReadings == {r1, r2, other, unfit}
MCOthers == {other}
MCUnfit == {unfit}
=============================================================================
