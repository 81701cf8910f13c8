------------------------- MODULE MCArbitratorEvents -------------------------
(* Model-checking instance of ArbitratorEvents: the node is the second of  *)
(* two candidates among six arbiters, so it is an emergency candidate      *)
(* (6 \div 3 = 2).  The times are scaled down, keeping the order of the    *)
(* parameters: each version's stop-confirm time below its no-block time,  *)
(* the V1 times below the V0 ones.                                          *)
EXTENDS ArbitratorEvents

CONSTANTS me, other

MCCandidates == <<other, me>>
=============================================================================
