------------------------------ MODULE ZkReserves ------------------------------
(***************************************************************************)
(* contracts/src/zk_reserves.rs, and the prover that feeds it:             *)
(* agent/src/solvency.ts on what read-vault.ts read.  The prover reads one *)
(* allocation at a time, each at the state root of that moment, while the  *)
(* vault goes on; its deploy executes later, perhaps after one that was    *)
(* submitted after it.  Anyone else may submit a proof too, and names the  *)
(* floor it is checked against.  The vault is the one that Custody         *)
(* promises, with the principal it locks.                                  *)
(*                                                                         *)
(* `at' counts the allocations read so far and `read' holds them;          *)
(* `submitted' are the deploys in flight; `floor' is history: the highest  *)
(* floor that was met.  The proof system itself is abstract: a claim is    *)
(* `sound' when its commitments sum to its total and its prover knows how. *)
(***************************************************************************)
EXTENDS Assets, FiniteSets

CONSTANTS
  Principal,   \* principal_locked, as Custody names it
  Value,       \* amounts that are deposited or moved
  Decision,    \* decisions that may pass
  Order,       \* the order in which ASSET_INDEX lists the assets
  Others,      \* claims that other callers submit
  MaxTotal,    \* bound on the vault's total
  MaxClaim     \* bound on claimed totals and floors

VARIABLES holdings, passed, halted, solvent, lastTotal, at, read, submitted, floor

vaultVars == <<holdings, passed, halted>>
contractVars == <<solvent, lastTotal, floor>>
proverVars == <<at, read>>
vars == <<vaultVars, contractVars, proverVars, submitted>>

Claims == [total : 0..MaxClaim, floor : 0..MaxClaim, sound : BOOLEAN]

ASSUME ReservesAssumption ==
  /\ Principal \in Nat
  /\ {MaxTotal, MaxClaim} \subseteq Nat
  /\ Value \subseteq Nat
  /\ Order \in [1..4 -> Asset]
  /\ \A i, j \in 1..4 : Order[i] = Order[j] => i = j
  /\ Others \subseteq Claims

Vault == INSTANCE Custody

(* The vault, the contract's storage and the prover's reading keep their   *)
(* types, and nothing is left in a reading from an earlier one.            *)
TypeOK ==
  /\ holdings \in [Asset -> Nat]
  /\ passed \subseteq Decision
  /\ halted \in BOOLEAN
  /\ solvent \in BOOLEAN
  /\ lastTotal \in 0..MaxClaim
  /\ floor \in 0..MaxClaim
  /\ at \in 0..4
  /\ read \in [Asset -> Nat]
  /\ \A i \in 1..4 : i > at => read[Order[i]] = 0
  /\ submitted \subseteq Claims

Unread == [a \in Asset |-> 0]

Init ==
  /\ Vault!Init
  /\ solvent = FALSE
  /\ lastTotal = 0
  /\ floor = 0
  /\ at = 0 /\ read = Unread
  /\ submitted = {}

-----------------------------------------------------------------------------

(* One turn of readVault's loop.                                           *)
ReadAllocation ==
  /\ at < 4
  /\ at' = at + 1
  /\ read' = [read EXCEPT ![Order[at + 1]] = holdings[Order[at + 1]]]
  /\ UNCHANGED <<vaultVars, contractVars, submitted>>

(* What proveReserves can prove: Point.multiply throws on a 0 scalar, and  *)
(* so does the commitment to an allocation of 0.                           *)
Proofs ==
  {c \in Claims : /\ c = [total |-> Total(read), floor |-> Principal, sound |-> TRUE]
                  /\ \A a \in Asset : read[a] # 0}

(* proveSolvency: a total below the principal is not published, and the    *)
(* deploy may never reach the chain.                                       *)
ProveSolvency ==
  /\ at = 4
  /\ \/ Total(read) >= Principal /\ \E c \in Proofs : submitted' = submitted \cup {c}
     \/ UNCHANGED submitted
  /\ at' = 0 /\ read' = Unread
  /\ UNCHANGED <<vaultVars, contractVars>>

(* A read that fails throws, and the cycle's proof is given up.            *)
GiveUp ==
  /\ at > 0
  /\ at' = 0 /\ read' = Unread
  /\ UNCHANGED <<vaultVars, contractVars, submitted>>

(* Mutant: the claimed total is not compared with the vault's.             *)
AcceptsUnbound(claim) == claim.total >= claim.floor /\ claim.sound

Accepts(claim) ==
  /\ claim.total >= claim.floor
  /\ claim.total = Total(holdings)
  /\ claim.sound

ProveReserves(claim) ==
  /\ Accepts(claim)
  /\ solvent' = TRUE
  /\ lastTotal' = claim.total
  /\ floor' = IF claim.floor > floor THEN claim.floor ELSE floor
  /\ UNCHANGED <<vaultVars, proverVars>>

(* A deploy of the agent executes, or it is lost or reverts.               *)
ExecuteProof(claim) == ProveReserves(claim) /\ submitted' = submitted \ {claim}

LoseProof(claim) ==
  /\ submitted' = submitted \ {claim}
  /\ UNCHANGED <<vaultVars, contractVars, proverVars>>

VaultStep ==
  /\ Vault!Next
  /\ Total(holdings') <= MaxTotal
  /\ UNCHANGED <<contractVars, proverVars, submitted>>

Next ==
  \/ VaultStep
  \/ ReadAllocation \/ ProveSolvency \/ GiveUp
  \/ \E claim \in submitted : ExecuteProof(claim) \/ LoseProof(claim)
  \/ \E claim \in Others : ProveReserves(claim) /\ UNCHANGED submitted

Spec == Init /\ [][Next]_vars

-----------------------------------------------------------------------------

(* A proof that was accepted keeps holding: what it was about is still in  *)
(* the vault and still covers every floor that was met, however the        *)
(* holdings moved since, though it was put together from reads of          *)
(* different moments (zk_reserves.rs:70-84, solvency.ts:40-52).            *)
ProvenStaysBacked ==
  solvent => floor <= Total(holdings) /\ lastTotal <= Total(holdings)

(* A proof that executes late never takes the published total back behind  *)
(* one that was accepted before it (zk_reserves.rs:77-84, :120-121).       *)
ProvenTotalNeverFallsBack == [][lastTotal' >= lastTotal]_vars

(* "Prove solvency for the CURRENT vault state" (solvency.ts:36): what was *)
(* read of a vault that covers its principal can be proven.                *)
SolventReadsAreProvable ==
  at = 4 /\ Principal <= Total(read) /\ Total(read) <= MaxClaim => Proofs # {}
=============================================================================
