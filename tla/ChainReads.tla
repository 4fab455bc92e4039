----------------------------- MODULE ChainReads -----------------------------
(***************************************************************************)
(* How the web pages, their API and the MCP server read contract state:    *)
(* a panel asks the node for a state root and then reads its fields, all   *)
(* at that root and concurrently.  Blocks are made meanwhile, and a node   *)
(* may lag behind.  An error of a field reads as zero, "never written"; a  *)
(* call that fails altogether leaves the panel without data.               *)
(*                                                                         *)
(* A figure is abstracted to the height it was read at.  `height' is the   *)
(* chain; `panel' holds for each panel its root, how many fields are still *)
(* to come, the heights of its figures and how many read as zero.          *)
(***************************************************************************)
EXTENDS Naturals, FiniteSets

CONSTANTS
  MaxHeight,    \* bound on the blocks
  MaxOpen       \* bound on the panels that one request reads together

VARIABLES height, panel

readsVars == <<height, panel>>

ReadsAssumption == MaxHeight \in Nat \ {0} /\ MaxOpen \in Nat

(* What a panel reads, and whether a node that gives no root leaves it     *)
(* without data (strict) or with zeros.                                    *)
Fields(n) == [reads |-> n, strict |-> FALSE]
FieldsOrNull(n) == [reads |-> n, strict |-> TRUE]

VaultState == Fields(5)
SpendGateState == Fields(3)
ComplianceState == Fields(2)
VaultFrozen == Fields(1)
ReservesSolvent == Fields(1)
ZkVerified == Fields(1)
ReputationScore == FieldsOrNull(1)
KeyIdentity == FieldsOrNull(4)
QuorumVote == FieldsOrNull(3)
PolicySignoff == FieldsOrNull(2)
PolicyParams == FieldsOrNull(3)
VaultStateBySeed == FieldsOrNull(5)
Timelock == FieldsOrNull(2)
McpVaultState == Fields(8)
McpReputation == Fields(1)

(* Which panels a request reads; those it reads one after the other are    *)
(* among the interleavings too.                                            *)
Dashboard ==
  [gate |-> SpendGateState, compliance |-> ComplianceState,
   zk |-> ZkVerified, frozen |-> VaultFrozen, solvent |-> ReservesSolvent,
   vault |-> VaultState, second |-> VaultStateBySeed]
Scorecard ==
  [vault |-> VaultState, solvent |-> ReservesSolvent,
   frozen |-> VaultFrozen, signoff |-> PolicySignoff, timelock |-> Timelock,
   second |-> VaultStateBySeed, reputation |-> ReputationScore]
Whoami ==
  [identity |-> KeyIdentity, compliance |-> ComplianceState,
   zk |-> ZkVerified, reputation |-> ReputationScore]
Health ==
  [vault |-> VaultState, solvent |-> ReservesSolvent,
   quorum |-> QuorumVote, policy |-> PolicyParams]
VoteState == [quorum |-> QuorumVote]
Alerts == [solvent |-> ReservesSolvent, frozen |-> VaultFrozen]
Mcp == [treasury |-> McpVaultState, reputation |-> McpReputation]

Requests == {Dashboard, Scorecard, Whoami, Health, VoteState, Alerts, Mcp}

(* Panels neither wait for nor use each other, so that any MaxOpen of a    *)
(* request show what there is to see.                                      *)
Opened(request) ==
  {ps \in SUBSET DOMAIN request : Cardinality(ps) \in 1..MaxOpen}

Init == height = 1 /\ panel = <<>>

Heights == 1..MaxHeight

ReadsTypeOK ==
  /\ height \in Heights
  /\ \A p \in DOMAIN panel :
       panel[p] \in [step : {"root", "fields", "shown", "null"},
                     strict : BOOLEAN, root : Heights \cup {0}, left : 0..8,
                     figures : SUBSET Heights, zeros : 0..8]

-----------------------------------------------------------------------------

Becomes(p, new) == panel' = [panel EXCEPT ![p] = new] /\ UNCHANGED height

(* A request comes.                                                        *)
Fetch ==
  /\ panel = <<>>
  /\ \E request \in Requests : \E ps \in Opened(request) :
       panel' = [p \in ps |->
         [step |-> "root", strict |-> request[p].strict, root |-> 0,
          left |-> request[p].reads, figures |-> {}, zeros |-> 0]]
  /\ UNCHANGED height

NoData(p) == Becomes(p, [panel[p] EXCEPT !.step = "null"])

(* Without a root every field of a lenient panel reads as zero, and no     *)
(* field is asked for.                                                     *)
StateRootHash(p) ==
  /\ panel[p].step = "root"
  /\ \/ \E root \in 1..height :
          Becomes(p, [panel[p] EXCEPT !.step = "fields", !.root = root])
     \/ IF panel[p].strict THEN NoData(p)
        ELSE Becomes(p, [panel[p] EXCEPT !.step = "shown", !.left = 0,
                                         !.zeros = panel[p].left])
     \/ NoData(p)

(* Mutant: each field at the latest root.                                  *)
ReadAtLatest(p) == height

(* Where a field is read.                                                  *)
ReadAt(p) == panel[p].root

(* One field comes: a value, an error that counts as zero, or a failure    *)
(* that takes the panel along.                                             *)
ReadField(p) ==
  /\ panel[p].step = "fields"
  /\ LET one == [panel[p] EXCEPT
                   !.left = @ - 1,
                   !.step = IF panel[p].left = 1 THEN "shown" ELSE "fields"]
     IN  \/ Becomes(p, [one EXCEPT !.figures = @ \cup {ReadAt(p)}])
         \/ Becomes(p, [one EXCEPT !.zeros = @ + 1])
         \/ NoData(p)

Block ==
  /\ height < MaxHeight /\ height' = height + 1
  /\ UNCHANGED panel

Next == Block \/ Fetch \/ \E p \in DOMAIN panel : StateRootHash(p) \/ ReadField(p)

-----------------------------------------------------------------------------

Shown == {p \in DOMAIN panel : panel[p].step = "shown"}

(* However reads and blocks interleave, the figures of a panel that are    *)
(* shown belong to one state of the chain: a total is a total the vault    *)
(* had, a tally is compared with the threshold of its time (cspr.ts:       *)
(* 381-386).                                                               *)
ShownWasReal == \A p \in Shown : Cardinality(panel[p].figures) <= 1

(* "Honest fallbacks: "-" (not plausible-but-wrong numbers) until read     *)
(* from chain" (data.ts:450): what is shown was read.                      *)
NothingWrongIsShown == \A p \in Shown : panel[p].zeros = 0
=============================================================================
