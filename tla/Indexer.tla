------------------------------ MODULE Indexer ------------------------------
(***************************************************************************)
(* What web pages, their API and the MCP server tell of the contracts'     *)
(* history.  CSPR.cloud indexes deploys; a reader asks it for one page of  *)
(* the newest deploys per contract package, concurrently, while deploys    *)
(* go on.  The web's answers are kept for a minute, and a stale one may be *)
(* served while it is renewed; a request may fail.                         *)
(*                                                                         *)
(* `deploys' is the history, oldest first; `reader' is who reads, `kept'   *)
(* how long the history was when its kept page of a package was made, and  *)
(* `got' the length each page of its request stands for.                   *)
(***************************************************************************)
EXTENDS Integers, Sequences, FiniteSets, FiniteSetsExt

CONSTANTS
  Package,      \* the packages of the system
  Foreign,      \* a package of somebody else
  Calls,        \* deploys that are made: package and outcome
  Known,        \* the packages verify-tx has a name for
  Limit,        \* deploys that a page and the trail hold
  McpPage,      \* deploys that a page of the MCP server's trail holds
  MaxDeploys,   \* bound on the history
  None

VARIABLES deploys, reader, kept, got

indexerVars == <<deploys, reader, kept, got>>

(* An error is a control's refusal (with the code of the solvency proof or *)
(* another one, common.rs) or a fault of the platform.                     *)
Outcome == {"ok", "mismatch", "refused", "fault"}
DeployRecord == [package : Package \cup {Foreign, None}, outcome : Outcome]
Length == 0..MaxDeploys

IndexerAssumption ==
  /\ Limit \in Nat \ {0} /\ McpPage \in Nat \ {0}
  /\ MaxDeploys \in Nat \ {0}
  /\ Foreign \notin Package /\ Calls \subseteq DeployRecord

IndexerTypeOK ==
  /\ deploys \in Seq(Calls) /\ Len(deploys) <= MaxDeploys
  /\ reader \in {"trail", "exceptions", "continuity", "mcp"}
  /\ kept \in [Package -> Length]
  /\ got \in [Package -> Length \cup {None} \cup {-1}]

Failed == -1
Unasked == [p \in Package |-> None]

Init ==
  /\ deploys = <<>>
  /\ reader \in {"trail", "exceptions", "continuity", "mcp"}
  /\ kept = [p \in Package |-> 0]
  /\ got = Unasked

(* Which packages a request reads: continuity reads one.                   *)
Read == IF reader = "continuity" THEN {CHOOSE p \in Package : TRUE} ELSE Package
Complete == \A p \in Read : got[p] # None

-----------------------------------------------------------------------------

Deploy(d) ==
  /\ Len(deploys) < MaxDeploys
  /\ deploys' = Append(deploys, d)
  /\ UNCHANGED <<reader, kept, got>>

(* A new request, after the one before was answered.                       *)
Ask ==
  /\ Complete /\ got' = Unasked
  /\ UNCHANGED <<deploys, reader, kept>>

Becomes(p, value) == got' = [got EXCEPT ![p] = value]

(* A page comes: from the indexer, or for the web the kept one while it is *)
(* renewed.                                                                *)
CloudGet(p) ==
  /\ p \in Read /\ got[p] = None
  /\ \/ /\ Becomes(p, Len(deploys))
        /\ kept' = [kept EXCEPT ![p] = Len(deploys)]
     \/ /\ reader # "mcp" /\ kept[p] > 0
        /\ Becomes(p, kept[p])
        /\ kept' \in {kept, [kept EXCEPT ![p] = Len(deploys)]}
     \/ Becomes(p, Failed) /\ UNCHANGED kept
  /\ UNCHANGED <<deploys, reader>>

Next ==
  \/ \E d \in Calls : Deploy(d)
  \/ Ask
  \/ \E p \in Package : CloudGet(p)

-----------------------------------------------------------------------------
(* What a reader makes of its pages.  A deploy is named by its place.      *)

Newest(places, n) ==
  {i \in places : Cardinality({j \in places : j > i}) < n}

Of(p, length) == {i \in 1..length : deploys[i].package = p}

PageOf(p, size) == IF got[p] = Failed THEN {} ELSE Newest(Of(p, got[p]), size)

Pages(size) == UNION {PageOf(p, size) : p \in Read}

AnyFailed == \E p \in Read : got[p] = Failed

(* Mutant: a page that cannot be read is empty.                            *)
MergedPages == Newest(Pages(Limit), Limit)

(* The trail of the web: one failed page empties it.                       *)
ContractDeploys == IF AnyFailed THEN {} ELSE Newest(Pages(Limit), Limit)

(* The trail of the MCP server: a failed page counts as empty.             *)
AuditTrail == Newest(Pages(McpPage), Limit)

(* What describeRevert makes of an outcome, and how a row is shown.        *)
DescribeRevert(outcome) ==
  CASE outcome = "ok" -> None
    [] outcome \in {"mismatch", "refused"} -> "policy"
    [] outcome = "fault" -> "platform"
StatusOf(i) ==
  CASE deploys[i].outcome = "ok" -> "Confirmed"
    [] DescribeRevert(deploys[i].outcome) = "policy" -> "Refused"
    [] OTHER -> "Platform fault"

(* The exception report lists what one page per package shows of errors.   *)
Exceptions == {i \in Pages(Limit) : DescribeRevert(deploys[i].outcome) # None}
Refusals == {i \in Exceptions : DescribeRevert(deploys[i].outcome) = "policy"}

(* How many deploys of a package worked and how many did not; None when    *)
(* the page cannot be read.                                                *)
Activity(p) ==
  IF got[p] = Failed THEN None
  ELSE LET rows == PageOf(p, Limit)
       IN  [executed |-> Cardinality({i \in rows : StatusOf(i) = "Confirmed"}),
            refused |-> Cardinality({i \in rows : StatusOf(i) # "Confirmed"})]

DeployCount(p) == IF got[p] = Failed THEN None ELSE Cardinality(Of(p, got[p]))

(* The evidence that solvency was proved over a period: proofs, refusals   *)
(* and the longest time between two rows.                                  *)
Continuity(p) ==
  IF got[p] = Failed THEN None
  ELSE LET rows == PageOf(p, Limit)
           after(i) == Min({j \in rows : j > i})
           gaps == {after(i) - i : i \in {i \in rows : \E j \in rows : j > i}}
       IN  [proofs |-> Activity(p).executed, refusals |-> Activity(p).refused,
            maxGap |-> IF gaps = {} THEN None ELSE Max(gaps)]

(* The evidence pack: refusals apart from faults, and the last moves.      *)
ComplianceReport(vault, most) ==
  [exceptions |-> Refusals, platformFaults |-> Exceptions \ Refusals,
   summary |-> Activity(vault),
   recent |-> Newest({i \in ContractDeploys : StatusOf(i) = "Confirmed"}, most)]

(* verify-tx: whose a deploy is, and what became of it.                    *)
VerifyTx(i) ==
  [isAmanah |-> deploys[i].package \in Known,
   outcome |-> IF deploys[i].outcome = "ok" THEN "executed" ELSE "refused",
   kind |-> DescribeRevert(deploys[i].outcome)]

-----------------------------------------------------------------------------

(* The trail of the web has no holes: although its pages are of different  *)
(* ages and one may fail, a deploy that its page could know of is shown    *)
(* unless everything shown is newer (cspr.ts:195-216).                     *)
TrailHasNoGaps ==
  LET shown == ContractDeploys
  IN  reader = "trail" /\ Complete /\ shown # {} =>
        \A p \in Read : got[p] # Failed /\
          \A i \in Of(p, got[p]) :
            i > Min(shown) \/ Cardinality(shown) < Limit => i \in shown

(* "every transaction a control REFUSED, across the given packages"        *)
(* (cspr.ts:105): also older ones, and those of a page that failed.        *)
EveryRefusalIsListed ==
  reader = "exceptions" /\ Complete =>
    \A p \in Read : \A i \in Of(p, IF got[p] = Failed THEN 0 ELSE got[p]) :
      DescribeRevert(deploys[i].outcome) = "policy" => i \in Refusals

(* "No deploys yet" (chain.ts:334): said of what was read.                 *)
NoDeploysMeansNone ==
  reader = "mcp" /\ Complete /\ AuditTrail = {} => ~AnyFailed

(* "TotalMismatch (control caught an inflated claim)" (cspr.ts:229).       *)
RefusalsAreCaughtClaims ==
  reader = "continuity" /\ Complete => \A p \in Read :
    got[p] # Failed => Continuity(p).refusals =
      Cardinality({i \in PageOf(p, Limit) : deploys[i].outcome = "mismatch"})

(* "otherwise it isn't (and we say so plainly, rather than pretending)"    *)
(* (verify-tx/route.ts:11).                                                *)
OthersAreNotOurs ==
  \A i \in DOMAIN deploys :
    VerifyTx(i).isAmanah => deploys[i].package \in Package
=============================================================================
