----------------------------- MODULE MCConsensus -----------------------------
(* Values for the constants of Consensus that a cfg file cannot write.     *)
EXTENDS Consensus, TLC

MCPairs == {<<"Gold", "CSPR">>, <<"Gold", "Gold">>, <<"Silver", "CSPR">>}
MCSizes == {-2, 1, 4}
MCReadings ==
  {[maxPerTx |-> cap, holdings |-> [a \in Asset |-> held]]
     : cap \in {0, 2}, held \in {0, 2, 9}}
MCSymmetry == Permutations(Panel)
=============================================================================
