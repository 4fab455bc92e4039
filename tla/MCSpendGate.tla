----------------------------- MODULE MCSpendGate -----------------------------
(* Values for the constants of SpendGate that a cfg file cannot write.     *)
EXTENDS SpendGate

MCTwoLimits == {<<1, 2>>, <<2, 3>>}
MCOneLimit == {<<2, 2>>}
=============================================================================
