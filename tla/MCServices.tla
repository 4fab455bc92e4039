----------------------------- MODULE MCServices -----------------------------
(* Values for the constants of Services that a cfg file cannot write.      *)
EXTENDS Services, TLC

MCOnce == [p \in Program |-> 1]
MCStakeTwice == [MCOnce EXCEPT !["stake"] = 2]

MCPayTo == "alpha" :> "provider" @@ "reasoning" :> "amanah"

MCPayee == "first" :> "provider" @@ "second" :> "provider" @@ "third" :> "amanah"

(* A vault with something of everything, and an empty one.                 *)
MCSplit ==
  [{"Gold", "WTI", "CSPR", "TBond"} -> {2}] \cup [{"Gold", "WTI", "CSPR", "TBond"} -> {0}]

MCDeploy(package, outcome) == [package |-> package, outcome |-> outcome]

MCCalls ==
  {MCDeploy("vault", "ok"), MCDeploy("auditor", "refused"), MCDeploy("other", "ok")}

(* Also a fault of the platform, and a deploy that is of no package.       *)
MCAllCalls ==
  MCCalls \cup {MCDeploy("vault", "fault"), MCDeploy(None, "ok")}
=============================================================================
