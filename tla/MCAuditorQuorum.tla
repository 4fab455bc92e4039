--------------------------- MODULE MCAuditorQuorum ---------------------------
(* Values for the constants of AuditorQuorum: each key controls one of the *)
(* first accounts, the remaining account has no auditor key.               *)
EXTENDS AuditorQuorum, TLC

CONSTANTS k1, k2, a1, a2

MCAccountOf == k1 :> a1 @@ k2 :> a2
=============================================================================
