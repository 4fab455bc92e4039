------------------------------ MODULE MCRwaVault ------------------------------
(* Values for the constants of RwaVault that a cfg file cannot write.      *)
EXTENDS RwaVault, TLC

CONSTANTS k1, agent, custodian

MCLimits == {<<1, 1>>}
MCWideLimits == {<<2, 3>>}
MCAccountOf == k1 :> custodian
MCDeltas == {-1}
MCTraded == {"Gold", "CSPR"}
=============================================================================
