----------------------------- MODULE MCRegisters -----------------------------
(* Values for the constants of Registers that a cfg file cannot write.     *)
EXTENDS Registers

MCDeltas == {-2, 1}

MCOrder == <<"Gold", "TBond", "WTI", "CSPR">>

MCOthers ==
  {[total |-> 3, floor |-> 3, sound |-> TRUE],
   [total |-> 4, floor |-> 0, sound |-> TRUE],
   [total |-> 3, floor |-> 4, sound |-> TRUE],
   [total |-> 4, floor |-> 4, sound |-> FALSE]}
=============================================================================
