---------------------------- MODULE RwaVaultProofs ----------------------------
(* Proofs about RwaVault.  Each step of the composition is a step of every *)
(* component or leaves it alone, so what is proved of a component holds of *)
(* it inside the composition; the vault's own invariants rest on that.     *)
EXTENDS RwaVault, TLAPS

GateProofs == INSTANCE SpendGateProofs WITH
  Owner <- Deployer, Targets <- {Agent}

QuorumProofs == INSTANCE AuditorQuorumProofs WITH Slasher <- Custodian

(* The assumptions of the gate and of the quorum hold in the composition.  *)
LEMMA GateAssumed == GateProofs!ChainAssumption /\ GateProofs!GateAssumption
BY ChainAssumption, VaultAssumption

LEMMA QuorumAssumed == QuorumProofs!QuorumAssumption
BY VaultAssumption DEF Quorum!IsFiniteSet, QuorumProofs!IsFiniteSet

(* Every step is one of the vault's calls, a call of another contract that *)
(* leaves the vault alone, or the clock; the proofs split on these.        *)
LEMMA NextCases ==
  ASSUME Next
  PROVE  \/ (\E caller \in Callers : Heartbeat(caller) \/ Unfreeze(caller))
              /\ UNCHANGED <<now, otherVars>>
         \/ (\E age \in MaxAges : FreezeIfStale(age))
              /\ UNCHANGED <<now, otherVars>>
         \/ (\E a \in Traded, n \in Amounts : Deposit(a, n))
              /\ UNCHANGED <<now, otherVars>>
         \/ (\E caller \in Callers, from, to \in Traded, n \in Amounts,
                h \in Hash : Reallocate(caller, from, to, n, h))
              /\ UNCHANGED now
         \/ (\E caller \in Callers : GateCall(caller)) /\ UNCHANGED now
         \/ (\E caller \in Callers : ComplianceCall(caller)) /\ UNCHANGED now
         \/ (\E caller \in Callers : ReputationCall(caller)) /\ UNCHANGED now
         \/ (\/ \E caller \in Voters : QuorumCall(caller)
             \/ AuditorSigns) /\ UNCHANGED now
         \/ Tick /\ UNCHANGED <<vaultVars, otherVars>>
BY DEF Next, Call, VaultCall, otherVars

-----------------------------------------------------------------------------

(* A step of the composition is a step of the gate or leaves it alone.     *)
LEMMA GateStep == [Next]_vars => [GateProofs!Next]_(GateProofs!vars)
<1> SUFFICES ASSUME [Next]_vars
             PROVE  [GateProofs!Next]_(GateProofs!vars)
  OBVIOUS
<1> USE DEF GateProofs!vars, GateProofs!gateVars
<1>1. CASE UNCHANGED <<now, gateVars>>
  BY <1>1 DEF gateVars
<1>2. CASE /\ UNCHANGED now
           /\ \E caller \in Callers, from, to \in Traded, n \in Amounts,
                 h \in Hash : Reallocate(caller, from, to, n, h)
  <2>1. PICK n \in Amounts : Gate!Check(Vault, Agent, n)
    BY <1>2 DEF Reallocate
  <2>2. GateProofs!Check(Vault, Agent, n)
    BY <2>1 DEF Gate!Check, GateProofs!Check, Gate!Expired, GateProofs!Expired,
       Gate!SpentSoFar, GateProofs!SpentSoFar, Gate!Today, GateProofs!Today,
       Gate!DayOf, GateProofs!DayOf
  <2>3. Vault \in Address /\ Agent \in {Agent}
    BY VaultAssumption
  <2> QED
    BY <1>2, <2>2, <2>3 DEF GateProofs!Next, GateProofs!Call
<1>3. CASE (\E caller \in Callers : GateCall(caller)) /\ UNCHANGED now
  <2>1. PICK caller \in Callers : GateCall(caller)
    BY <1>3
  <2>2. caller \in Address /\ Agent \in {Agent}
    BY VaultAssumption
  <2>3. CASE Gate!Administer(caller)
    <3>1. GateProofs!Administer(caller)
      BY <2>3 DEF Gate!Administer, GateProofs!Administer, Gate!SetLimits,
         GateProofs!SetLimits, Gate!SetSpender, GateProofs!SetSpender,
         Gate!Revoke, GateProofs!Revoke, Gate!AddAllowlist,
         GateProofs!AddAllowlist
    <3> QED
      BY <1>3, <2>2, <3>1 DEF GateProofs!Next, GateProofs!Call
  <2>4. CASE \E n \in Amounts : Gate!Check(caller, Agent, n)
    <3>1. PICK n \in Amounts : Gate!Check(caller, Agent, n)
      BY <2>4
    <3>2. GateProofs!Check(caller, Agent, n)
      BY <3>1 DEF Gate!Check, GateProofs!Check, Gate!Expired,
         GateProofs!Expired, Gate!SpentSoFar, GateProofs!SpentSoFar,
         Gate!Today, GateProofs!Today, Gate!DayOf, GateProofs!DayOf
    <3> QED
      BY <1>3, <2>2, <3>2 DEF GateProofs!Next, GateProofs!Call
  <2> QED
    BY <2>1, <2>3, <2>4 DEF GateCall
<1>4. CASE Tick /\ UNCHANGED <<vaultVars, otherVars>>
  BY <1>4 DEF GateProofs!Next, Tick, GateProofs!Tick, otherVars, gateVars
<1>5. Next => \/ UNCHANGED <<now, gateVars>>
              \/ /\ UNCHANGED now
                 /\ \E caller \in Callers, from, to \in Traded, n \in Amounts,
                       h \in Hash : Reallocate(caller, from, to, n, h)
              \/ (\E caller \in Callers : GateCall(caller)) /\ UNCHANGED now
              \/ Tick /\ UNCHANGED <<vaultVars, otherVars>>
  BY NextCases DEF otherVars, ComplianceCall, ReputationCall, QuorumCall,
     AuditorSigns
<1> QED
  BY <1>1, <1>2, <1>3, <1>4, <1>5 DEF vars, otherVars

(* A step of the composition is a step of the quorum or leaves it alone.   *)
LEMMA QuorumStep ==
  [Next]_vars => [QuorumProofs!Next]_(QuorumProofs!quorumVars)
<1> SUFFICES ASSUME [Next]_vars
             PROVE  [QuorumProofs!Next]_(QuorumProofs!quorumVars)
  OBVIOUS
<1>1. CASE UNCHANGED quorumVars
  BY <1>1 DEF quorumVars, QuorumProofs!quorumVars
<1>2. CASE \E caller \in Voters : QuorumCall(caller)
  <2>1. PICK caller \in Voters : QuorumCall(caller)
    BY <1>2
  <2>2. caller \in Address
    BY VaultAssumption
  <2>3. CASE Quorum!Registry(caller)
    <3>1. QuorumProofs!Registry(caller)
      BY <2>3 DEF Quorum!Registry, QuorumProofs!Registry,
         Quorum!RegisterWithStake, QuorumProofs!RegisterWithStake,
         Quorum!Slash, QuorumProofs!Slash, Quorum!PayOut, QuorumProofs!PayOut,
         Quorum!Deregistered, QuorumProofs!Deregistered,
         Quorum!WithdrawStake, QuorumProofs!WithdrawStake,
         Quorum!OpenRegister, QuorumProofs!OpenRegister
    <3> QED
      BY <2>2, <3>1 DEF QuorumProofs!Next
  <2>4. CASE \E h \in Hash, b \in BOOLEAN : Quorum!Voting(caller, h, b)
    <3>1. PICK h \in Hash, b \in BOOLEAN : Quorum!Voting(caller, h, b)
      BY <2>4
    <3>2. QuorumProofs!Voting(caller, h, b)
      BY <3>1 DEF Quorum!Voting, QuorumProofs!Voting, Quorum!Vote,
         QuorumProofs!Vote, Quorum!VoteAsCaller, QuorumProofs!VoteAsCaller,
         Quorum!Tally, QuorumProofs!Tally, Quorum!SignatureVerifies,
         QuorumProofs!SignatureVerifies
    <3> QED
      BY <2>2, <3>2 DEF QuorumProofs!Next
  <2> QED
    BY <2>1, <2>3, <2>4 DEF QuorumCall
<1>3. CASE AuditorSigns
  BY <1>3 DEF AuditorSigns, Quorum!Sign, QuorumProofs!Sign, QuorumProofs!Next
<1>4. Next => \/ UNCHANGED quorumVars
              \/ \E caller \in Voters : QuorumCall(caller)
              \/ AuditorSigns
  BY NextCases DEF otherVars, Reallocate, GateCall, ComplianceCall,
     ReputationCall
<1> QED
  BY <1>1, <1>2, <1>3, <1>4 DEF vars, otherVars

(* The composition runs the gate as the gate's own specification allows:   *)
(* nothing the other contracts do reaches its storage.                     *)
THEOREM GateImplemented == Spec => GateProofs!Spec
<1>1. Init => GateProofs!Init
  BY DEF Init, Gate!Init, GateProofs!Init, Gate!Today, GateProofs!Today,
     Gate!DayOf, GateProofs!DayOf, Gate!Days, GateProofs!Days
<1> QED
  BY <1>1, GateStep, PTL DEF Spec, GateProofs!Spec

(* The composition runs the quorum as the quorum's own specification does. *)
THEOREM QuorumImplemented == Spec => QuorumProofs!Spec
<1>1. Init => QuorumProofs!Init
  BY DEF Init, Quorum!Init, QuorumProofs!Init
<1> QED
  BY <1>1, QuorumStep, PTL DEF Spec, QuorumProofs!Spec

(* What the proofs about the gate and the quorum give in the composition.  *)
LEMMA ComponentFacts ==
  Spec => [](/\ GateProofs!TypeOK
             /\ GateProofs!SpentIsWhatWasCommitted
             /\ QuorumProofs!TypeOK
             /\ QuorumProofs!ApprovedByHalf)
<1>1. GateProofs!Spec => []GateProofs!TypeOK
  BY GateProofs!SpendGateTyped, GateAssumed
<1>2. GateProofs!Spec => []GateProofs!SpentIsWhatWasCommitted
  BY GateProofs!SpentIsExact, GateAssumed
<1>3. QuorumProofs!Spec => []QuorumProofs!TypeOK
  BY QuorumProofs!QuorumTyped, QuorumAssumed
<1>4. QuorumProofs!Spec => []QuorumProofs!ApprovedByHalf
  BY QuorumProofs!PassedByHalfTheThreshold, QuorumAssumed
<1> QED
  BY <1>1, <1>2, <1>3, <1>4, GateImplemented, QuorumImplemented, PTL

-----------------------------------------------------------------------------

(* The typing of the vault's own variables and of the two registries.      *)
VaultTyped ==
  /\ vault \in [allocations : [Asset -> 0..U256_MAX],
                last_heartbeat : Instants, frozen : BOOLEAN]
  /\ deposited \in Nat
  /\ moves \subseteq Hash \X Move
  /\ movedOn \in [Gate!Days -> Nat]
  /\ seen \in Instants

RegistriesTyped == Compliance!TypeOK /\ Reputation!TypeOK

(* An i64 sum wraps into the range of an i64 (reputation_registry.rs:39).  *)
LEMMA WrapInRange ==
  ASSUME NEW n \in Int
  PROVE  Reputation!Wrap(n) \in Reputation!I64
<1> DEFINE W == 2 * I64_MAX + 2
           m == n + I64_MAX + 1
<1>1. I64_MAX \in Nat
  BY VaultAssumption DEF Reputation!ReputationAssumption
<1>2. W \in Nat \ {0} /\ m \in Int
  BY <1>1
<1>3. m % W \in 0..(W - 1)
  BY <1>2
<1> QED
  BY <1>1, <1>2, <1>3 DEF Reputation!Wrap, Reputation!I64

(* A call of the reputation registry keeps its types.                      *)
LEMMA ReputationTyped ==
  ASSUME Reputation!TypeOK, NEW caller, Reputation!Call(caller)
  PROVE  Reputation!TypeOK'
<1>1. ASSUME NEW a \in {Agent}, NEW d \in Int,
             reputation'.score = [reputation.score EXCEPT
                                    ![a] = Reputation!Wrap(@ + d)]
      PROVE  reputation'.score \in [Address -> Reputation!I64]
  <2>1. reputation.score \in [Address -> Reputation!I64] /\ a \in Address
    BY VaultAssumption DEF Reputation!TypeOK
  <2>2. reputation.score[a] \in Int
    BY <2>1, VaultAssumption DEF Reputation!I64, Reputation!ReputationAssumption
  <2>3. Reputation!Wrap(reputation.score[a] + d) \in Reputation!I64
    BY <2>2, WrapInRange
  <2> QED
    BY <1>1, <2>1, <2>3
<1>2. CASE \E a \in {Agent}, p \in Proofs :
             Reputation!RecordPayment(caller, a, p)
  <2>1. PICK a \in {Agent}, p \in Proofs :
               Reputation!RecordPayment(caller, a, p)
    BY <1>2
  <2>2. reputation'.score \in [Address -> Reputation!I64]
    BY <2>1, <1>1 DEF Reputation!RecordPayment, Reputation!TypeOK
  <2>3. reputation'.consumed \in SUBSET Proofs
    BY <2>1 DEF Reputation!RecordPayment, Reputation!TypeOK
  <2>4. credited' \in [Address -> Nat]
    BY <2>1, VaultAssumption DEF Reputation!RecordPayment, Reputation!TypeOK
  <2> QED
    BY <2>1, <2>2, <2>3, <2>4 DEF Reputation!RecordPayment, Reputation!TypeOK
<1>3. CASE \E a \in {Agent}, d \in Deltas : Reputation!Adjust(caller, a, d)
  <2>1. PICK a \in {Agent}, d \in Deltas : Reputation!Adjust(caller, a, d)
    BY <1>3
  <2>2. d \in Int
    BY VaultAssumption DEF Reputation!ReputationAssumption, Reputation!I64
  <2>3. reputation'.score \in [Address -> Reputation!I64]
    BY <2>1, <2>2, <1>1 DEF Reputation!Adjust, Reputation!TypeOK
  <2> QED
    BY <2>1, <2>3 DEF Reputation!Adjust, Reputation!TypeOK
<1> QED
  BY <1>2, <1>3 DEF Reputation!Call

(* A call of the compliance registry keeps its types.                      *)
LEMMA ComplianceTyped ==
  ASSUME Compliance!TypeOK, NEW caller, Compliance!Call(caller)
  PROVE  Compliance!TypeOK'
BY VaultAssumption DEF Compliance!TypeOK, Compliance!Call,
   Compliance!SetStatus, Compliance!Revoke, Compliance!Status

(* The day of a block time the model explores is one of its days.          *)
LEMMA TodayIsADay ==
  ASSUME now \in Instants
  PROVE  Gate!Today \in Gate!Days
BY GateProofs!TodayIsADay, GateAssumed
   DEF Instants, GateProofs!Instants, Gate!Today, GateProofs!Today,
       Gate!Days, GateProofs!Days, Gate!DayOf, GateProofs!DayOf

(* The balances a move leaves, for a move between two assets.              *)
LEMMA RebalancedAt ==
  ASSUME VaultTyped, NEW from \in Asset, NEW to \in Asset, from # to,
         NEW n \in Nat, n <= vault.allocations[from],
         vault.allocations[to] + n <= U256_MAX
  PROVE  /\ Rebalanced(from, to, n) \in [Asset -> 0..U256_MAX]
         /\ Rebalanced(from, to, n)[from] = vault.allocations[from] - n
         /\ Rebalanced(from, to, n)[to] = vault.allocations[to] + n
         /\ \A a \in Asset \ {from, to} :
              Rebalanced(from, to, n)[a] = vault.allocations[a]
<1>1. U256_MAX \in Nat
  BY VaultAssumption
<1>2. vault.allocations \in [Asset -> 0..U256_MAX]
  BY DEF VaultTyped
<1>3. vault.allocations[from] - n \in 0..U256_MAX
      /\ vault.allocations[to] + n \in 0..U256_MAX
  BY <1>1, <1>2
<1> QED
  BY <1>2, <1>3 DEF Rebalanced

(* Balances are numbers, and so is their total.                            *)
LEMMA BalancesAreNumbers ==
  ASSUME NEW holdings \in [Asset -> 0..U256_MAX]
  PROVE  /\ \A a \in Asset : holdings[a] \in Nat
         /\ Total(holdings) \in Nat
BY VaultAssumption DEF Asset, Total

(* A move between two assets leaves the total as it was                    *)
(* (rwa_vault.rs:199-206).                                                 *)
LEMMA RebalancingConserves ==
  ASSUME VaultTyped, NEW from \in Asset, NEW to \in Asset, from # to,
         NEW n \in Nat, n <= vault.allocations[from],
         vault.allocations[to] + n <= U256_MAX
  PROVE  Total(Rebalanced(from, to, n)) = Total(vault.allocations)
<1>1. \A a \in Asset : vault.allocations[a] \in Nat
  BY BalancesAreNumbers DEF VaultTyped
<1> DEFINE r == Rebalanced(from, to, n)
<1>2. /\ r[from] = vault.allocations[from] - n
      /\ r[to] = vault.allocations[to] + n
      /\ \A a \in Asset \ {from, to} : r[a] = vault.allocations[a]
  BY RebalancedAt
<1> HIDE DEF r
<1> QED
  BY <1>1, <1>2 DEF Asset, Total, r

-----------------------------------------------------------------------------

(* A decision that passed stays passed, whatever is called.                *)
LEMMA ApprovedStays ==
  ASSUME QuorumProofs!TypeOK, [Next]_vars, NEW h \in Hash, Quorum!Approved(h)
  PROVE  Quorum!Approved(h)'
<1>1. /\ quorum.approvals[h] \in Nat /\ quorum'.approvals[h] \in Nat
      /\ quorum.approvals[h] <= quorum'.approvals[h]
  BY QuorumStep, QuorumProofs!ApprovalsNeverDrop, QuorumAssumed
<1>2. Threshold \in Nat
  BY VaultAssumption DEF Quorum!QuorumAssumption
<1> QED
  BY <1>1, <1>2 DEF Quorum!Approved

(* What was committed on a day only grows, and grows by the amount of a    *)
(* move on the day of the move.                                            *)
LEMMA CommittedGrows ==
  ASSUME GateProofs!TypeOK, [Next]_vars, NEW d \in Gate!Days
  PROVE  /\ spentOn[d] \in Nat /\ spentOn'[d] \in Nat
         /\ spentOn[d] <= spentOn'[d]
<1>1. d \in GateProofs!Days
  BY DEF Gate!Days, GateProofs!Days, Gate!DayOf, GateProofs!DayOf
<1> QED
  BY <1>1, GateStep, GateProofs!SpentNeverDrops, GateAssumed

(* The invariant the vault's promises rest on.  MovesApproved and          *)
(* MovedIsCommitted tie the vault's history to the two contracts it asked; *)
(* LivenessRecorded is why a freeze can only follow real silence.          *)
MovesApproved == \A m \in moves : Quorum!Approved(m[1])

MovedIsCommitted == \A d \in Gate!Days : movedOn[d] <= spentOn[d]

LivenessRecorded == seen <= vault.last_heartbeat /\ vault.last_heartbeat <= now

VaultInv ==
  /\ VaultTyped
  /\ ValueConserved
  /\ PrincipalProtected
  /\ MovesApproved
  /\ MovedIsCommitted
  /\ LivenessRecorded

(* What the gate and the quorum contribute to a step of the vault.         *)
Components ==
  /\ GateProofs!TypeOK
  /\ GateProofs!SpentIsWhatWasCommitted
  /\ QuorumProofs!TypeOK

(* Block times are natural numbers that do not decrease.                   *)
LEMMA TimeAdvances ==
  ASSUME GateProofs!TypeOK, [Next]_vars
  PROVE  /\ now \in Instants /\ now' \in Instants
         /\ Instants \subseteq Nat /\ now <= now'
<1>1. now \in Instants /\ Instants \subseteq Nat
  BY ChainAssumption DEF GateProofs!TypeOK, GateProofs!Instants, Instants
<1>2. now' = now \/ Tick
  BY NextCases DEF vars
<1> QED
  BY <1>1, <1>2, ChainAssumption DEF Tick, Instants

(* A step that leaves the vault and its history alone keeps the invariant. *)
LEMMA OtherStepsKeepVault ==
  ASSUME VaultInv, Components, [Next]_vars, UNCHANGED vaultVars
  PROVE  VaultInv'
<1>1. UNCHANGED <<vault, deposited, moves, movedOn, seen>>
  BY DEF vaultVars
<1>2. VaultTyped'
  BY <1>1 DEF VaultInv, VaultTyped, Gate!Days, Gate!DayOf
<1>3. ValueConserved' /\ PrincipalProtected'
  BY <1>1 DEF VaultInv, ValueConserved, PrincipalProtected
<1>4. MovesApproved'
  BY <1>1, ApprovedStays DEF VaultInv, VaultTyped, Components, MovesApproved
<1>5. MovedIsCommitted'
  <2> SUFFICES ASSUME NEW d \in Gate!Days
               PROVE  movedOn'[d] <= spentOn'[d]
    BY DEF MovedIsCommitted, Gate!Days, Gate!DayOf
  <2>1. movedOn[d] \in Nat /\ movedOn[d] <= spentOn[d]
    BY DEF VaultInv, VaultTyped, MovedIsCommitted
  <2> QED
    BY <1>1, <2>1, CommittedGrows DEF Components
<1>6. LivenessRecorded'
  <2>1. /\ vault.last_heartbeat \in Nat
        /\ now \in Nat /\ now' \in Nat /\ now <= now'
    BY TimeAdvances DEF VaultInv, VaultTyped, Components
  <2> QED
    BY <1>1, <2>1 DEF VaultInv, LivenessRecorded
<1> QED
  BY <1>2, <1>3, <1>4, <1>5, <1>6 DEF VaultInv

(* A heartbeat, a freeze or an unfreeze touches only the vault's liveness  *)
(* state, and leaves the clock where it is.                                *)
LEMMA BreakerStepsKeepVault ==
  ASSUME VaultInv, Components, [Next]_vars, UNCHANGED <<now, otherVars>>,
         \/ \E caller \in Callers : Heartbeat(caller) \/ Unfreeze(caller)
         \/ \E age \in MaxAges : FreezeIfStale(age)
  PROVE  VaultInv'
<1> USE DEF VaultInv, VaultTyped
<1>1. UNCHANGED <<now, deposited, moves, movedOn, spentOn, quorum>>
  BY DEF Heartbeat, Unfreeze, FreezeIfStale, otherVars, gateVars, quorumVars
<1>2. /\ vault' \in [allocations : [Asset -> 0..U256_MAX],
                     last_heartbeat : Instants, frozen : BOOLEAN]
      /\ vault'.allocations = vault.allocations
      /\ vault'.last_heartbeat \in {vault.last_heartbeat, now}
      /\ seen' = seen \/ (seen' = now /\ vault'.last_heartbeat = now)
      /\ seen' \in Instants
  BY TimeAdvances DEF Heartbeat, Unfreeze, FreezeIfStale, Components
<1>3. VaultTyped'
  BY <1>1, <1>2 DEF Gate!Days, Gate!DayOf
<1>4. ValueConserved' /\ PrincipalProtected'
  BY <1>1, <1>2 DEF ValueConserved, PrincipalProtected
<1>5. MovesApproved' /\ MovedIsCommitted'
  BY <1>1 DEF MovesApproved, MovedIsCommitted, Quorum!Approved, Gate!Days,
     Gate!DayOf
<1>6. LivenessRecorded'
  <2>1. seen \in Nat /\ vault.last_heartbeat \in Nat /\ now \in Nat
    BY TimeAdvances DEF Components
  <2> QED
    BY <1>1, <1>2, <2>1 DEF LivenessRecorded
<1> QED
  BY <1>3, <1>4, <1>5, <1>6

(* A deposit adds what it says to one balance.                             *)
LEMMA DepositKeepsVault ==
  ASSUME VaultInv, Components, UNCHANGED <<now, otherVars>>,
         NEW asset \in Traded, NEW n \in Amounts, Deposit(asset, n)
  PROVE  /\ VaultInv'
         /\ vault'.allocations =
              [vault.allocations EXCEPT ![asset] = @ + n]
<1> USE DEF VaultInv, VaultTyped
<1>1. n \in Nat /\ asset \in Asset /\ U256_MAX \in Nat
  BY VaultAssumption
<1>2. vault.allocations[asset] + n \in 0..U256_MAX
  BY <1>1 DEF Deposit
<1>3. /\ vault'.allocations = [vault.allocations EXCEPT ![asset] = @ + n]
      /\ vault'.last_heartbeat = vault.last_heartbeat
      /\ vault'.frozen = vault.frozen
  BY DEF Deposit
<1>4. UNCHANGED <<now, moves, movedOn, seen, spentOn, quorum>>
      /\ deposited' = deposited + n
  BY DEF Deposit, otherVars, gateVars, quorumVars
<1>5. vault'.allocations \in [Asset -> 0..U256_MAX]
  BY <1>2, <1>3
<1>6. VaultTyped'
  <2>1. vault' \in [allocations : [Asset -> 0..U256_MAX],
                    last_heartbeat : Instants, frozen : BOOLEAN]
    BY <1>3, <1>5 DEF Deposit
  <2> QED
    BY <1>1, <1>4, <2>1 DEF Gate!Days, Gate!DayOf
<1>7. Total(vault'.allocations) = Total(vault.allocations) + n
  <2>1. \A a \in Asset : vault.allocations[a] \in Nat
    BY BalancesAreNumbers
  <2> QED
    BY <1>1, <1>3, <2>1 DEF Asset, Total
<1>8. ValueConserved' /\ PrincipalProtected'
  BY <1>1, <1>4, <1>7, BalancesAreNumbers, VaultAssumption
     DEF ValueConserved, PrincipalProtected
<1>9. MovesApproved' /\ MovedIsCommitted' /\ LivenessRecorded'
  BY <1>3, <1>4 DEF MovesApproved, MovedIsCommitted, LivenessRecorded,
     Quorum!Approved, Gate!Days, Gate!DayOf
<1> QED
  BY <1>3, <1>6, <1>8, <1>9

(* A move takes from one balance what it gives to another, on a decision   *)
(* that passed, and within what the gate lets through today.               *)
LEMMA ReallocateKeepsVault ==
  ASSUME VaultInv, Components, UNCHANGED now,
         NEW caller \in Callers, NEW from \in Traded, NEW to \in Traded,
         NEW n \in Amounts, NEW h \in Hash,
         Reallocate(caller, from, to, n, h)
  PROVE  /\ VaultInv'
         /\ Total(vault'.allocations) = Total(vault.allocations)
         /\ movedOn' # movedOn =>
              movedOn'[Gate!Today] <= gate.daily_limit
<1> USE DEF VaultInv, VaultTyped
<1>1. /\ n \in Nat /\ n \in 0..U256_MAX
      /\ from \in Asset /\ to \in Asset /\ from # to
      /\ n <= vault.allocations[from]
      /\ vault.allocations[to] + n <= U256_MAX
  BY VaultAssumption DEF Reallocate, SameAsset
<1>2. /\ vault'.allocations = Rebalanced(from, to, n)
      /\ vault'.last_heartbeat = now
      /\ vault'.frozen = vault.frozen
      /\ vault' \in [allocations : {Rebalanced(from, to, n)},
                     last_heartbeat : {now}, frozen : BOOLEAN]
  BY DEF Reallocate
<1>3. /\ UNCHANGED <<now, deposited, quorum>>
      /\ moves' = moves \cup {<<h, [from |-> from, to |-> to, amount |-> n]>>}
      /\ movedOn' = [movedOn EXCEPT ![Gate!Today] = @ + n]
      /\ seen' = now
  BY DEF Reallocate, quorumVars
<1>4. now \in Instants /\ Instants \subseteq Nat
  BY ChainAssumption DEF Components, GateProofs!TypeOK, GateProofs!Instants,
     Instants
<1>5. Gate!Today \in Gate!Days
  BY <1>4, TodayIsADay
<1>6. Rebalanced(from, to, n) \in [Asset -> 0..U256_MAX]
      /\ Total(Rebalanced(from, to, n)) = Total(vault.allocations)
  BY <1>1, RebalancedAt, RebalancingConserves
<1>7. VaultTyped'
  <2>1. vault' \in [allocations : [Asset -> 0..U256_MAX],
                    last_heartbeat : Instants, frozen : BOOLEAN]
    BY <1>2, <1>4, <1>6
  <2>2. moves' \subseteq Hash \X Move
    BY <1>1, <1>3 DEF Move
  <2>3. movedOn[Gate!Today] + n \in Nat
    BY <1>1, <1>5
  <2>4. movedOn' \in [Gate!Days -> Nat]
    BY <1>3, <2>3
  <2> QED
    BY <1>3, <1>4, <2>1, <2>2, <2>4 DEF Gate!Days, Gate!DayOf
<1>8. ValueConserved' /\ PrincipalProtected'
  BY <1>2, <1>3, <1>6 DEF Reallocate, ValueConserved, PrincipalProtected
<1>9. MovesApproved'
  BY <1>3 DEF Reallocate, MayTrade, MovesApproved, Quorum!Approved
<1>10. LivenessRecorded'
  BY <1>2, <1>3, <1>4 DEF LivenessRecorded
<1>11. /\ spentOn' = [spentOn EXCEPT ![Gate!Today] = @ + n]
       /\ Gate!SpentSoFar + n <= gate.daily_limit
  BY DEF Reallocate, Gate!Check
<1>12. spentOn \in [Gate!Days -> Nat] /\ gate.daily_limit \in Nat
  BY DEF Components, GateProofs!TypeOK, GateProofs!Days, Gate!Days,
     GateProofs!DayOf, Gate!DayOf
<1>13. MovedIsCommitted'
  <2> SUFFICES ASSUME NEW d \in Gate!Days
               PROVE  movedOn'[d] <= spentOn'[d]
    BY DEF MovedIsCommitted, Gate!Days, Gate!DayOf
  <2>1. movedOn[d] \in Nat /\ spentOn[d] \in Nat /\ movedOn[d] <= spentOn[d]
    BY <1>12 DEF MovedIsCommitted
  <2> QED
    BY <1>1, <1>3, <1>5, <1>11, <1>12, <2>1
<1>14. movedOn'[Gate!Today] <= gate.daily_limit
  <2>1. Gate!SpentSoFar = spentOn[Gate!Today]
    <3>1. /\ gate.spent_today = spentOn[gate.day_anchor]
          /\ gate.day_anchor <= Gate!Today
          /\ \A d \in Gate!Days : d > gate.day_anchor => spentOn[d] = 0
      BY DEF Components, GateProofs!SpentIsWhatWasCommitted, Gate!Today,
         GateProofs!Today, Gate!DayOf, GateProofs!DayOf, Gate!Days,
         GateProofs!Days
    <3>2. Gate!Today \in Nat /\ gate.day_anchor \in Nat
      BY <1>4, GateProofs!TodayIsADay, GateAssumed
         DEF Components, GateProofs!TypeOK, Gate!Today, GateProofs!Today,
             Gate!DayOf, GateProofs!DayOf
    <3>3. Gate!Today # gate.day_anchor => Gate!Today > gate.day_anchor
      BY <3>1, <3>2
    <3> QED
      BY <1>5, <3>1, <3>3 DEF Gate!SpentSoFar
  <2>2. movedOn'[Gate!Today] = movedOn[Gate!Today] + n
    BY <1>3, <1>5
  <2>3. /\ movedOn[Gate!Today] \in Nat /\ spentOn[Gate!Today] \in Nat
        /\ movedOn[Gate!Today] <= spentOn[Gate!Today]
    BY <1>5, <1>12 DEF MovedIsCommitted
  <2> QED
    BY <1>1, <1>11, <1>12, <2>1, <2>2, <2>3
<1> QED
  BY <1>2, <1>6, <1>7, <1>8, <1>9, <1>10, <1>13, <1>14

(* Every step keeps the vault's invariant.                                 *)
LEMMA StepKeepsVault ==
  ASSUME VaultInv, Components, [Next]_vars
  PROVE  VaultInv'
<1>1. CASE UNCHANGED vaultVars
  BY <1>1, OtherStepsKeepVault
<1>2. CASE UNCHANGED <<now, otherVars>>
           /\ \/ \E caller \in Callers : Heartbeat(caller) \/ Unfreeze(caller)
              \/ \E age \in MaxAges : FreezeIfStale(age)
  BY <1>2, BreakerStepsKeepVault
<1>3. CASE (\E a \in Traded, n \in Amounts : Deposit(a, n))
             /\ UNCHANGED <<now, otherVars>>
  BY <1>3, DepositKeepsVault
<1>4. CASE (\E caller \in Callers, from, to \in Traded, n \in Amounts,
                h \in Hash : Reallocate(caller, from, to, n, h))
             /\ UNCHANGED now
  BY <1>4, ReallocateKeepsVault
<1>5. Next => \/ UNCHANGED vaultVars
              \/ UNCHANGED <<now, otherVars>>
                 /\ \/ \E caller \in Callers :
                         Heartbeat(caller) \/ Unfreeze(caller)
                    \/ \E age \in MaxAges : FreezeIfStale(age)
              \/ (\E a \in Traded, n \in Amounts : Deposit(a, n))
                   /\ UNCHANGED <<now, otherVars>>
              \/ (\E caller \in Callers, from, to \in Traded, n \in Amounts,
                     h \in Hash : Reallocate(caller, from, to, n, h))
                   /\ UNCHANGED now
  BY NextCases DEF GateCall, ComplianceCall, ReputationCall, QuorumCall,
     AuditorSigns
<1> QED
  BY <1>1, <1>2, <1>3, <1>4, <1>5 DEF vars

(* The invariant holds throughout.                                         *)
LEMMA VaultInvHolds == Spec => [](VaultInv /\ Components)
<1>1. Init => VaultInv
  <2> SUFFICES ASSUME Init PROVE VaultInv
    OBVIOUS
  <2>1. now \in Instants /\ now \in Nat /\ U256_MAX \in Nat /\ PRINCIPAL \in Nat
    BY ChainAssumption, VaultAssumption DEF Init, Gate!Init, Instants
  <2>2. VaultTyped
    BY <2>1 DEF Init, VaultTyped
  <2>3. Total(vault.allocations) = 0
    BY DEF Init, Total, Asset
  <2>4. MovedIsCommitted
    BY DEF Init, Gate!Init, MovedIsCommitted
  <2> QED
    BY <2>1, <2>2, <2>3, <2>4 DEF Init, VaultInv, ValueConserved,
       PrincipalProtected, MovesApproved, LivenessRecorded
<1>2. VaultInv /\ Components /\ [Next]_vars => VaultInv'
  BY StepKeepsVault
<1>3. Spec => []Components
  BY ComponentFacts, PTL DEF Components
<1> QED
  BY <1>1, <1>2, <1>3, PTL DEF Spec

-----------------------------------------------------------------------------

(* The two registries keep their types.                                    *)
LEMMA RegistriesStayTyped ==
  ASSUME RegistriesTyped, [Next]_vars
  PROVE  RegistriesTyped'
<1> USE DEF RegistriesTyped
<1>1. CASE UNCHANGED <<status, reputationVars>>
  BY <1>1 DEF reputationVars, Compliance!TypeOK, Reputation!TypeOK
<1>2. ASSUME NEW caller \in Callers, ComplianceCall(caller)
      PROVE  RegistriesTyped'
  BY <1>2, ComplianceTyped DEF ComplianceCall, reputationVars,
     Reputation!TypeOK
<1>3. ASSUME NEW caller \in Callers, ReputationCall(caller)
      PROVE  RegistriesTyped'
  BY <1>3, ReputationTyped DEF ReputationCall, Compliance!TypeOK
<1>4. Next => \/ UNCHANGED <<status, reputationVars>>
              \/ \E caller \in Callers : ComplianceCall(caller)
              \/ \E caller \in Callers : ReputationCall(caller)
  BY NextCases DEF otherVars, Reallocate, GateCall, QuorumCall, AuditorSigns,
     reputationVars
<1> QED
  BY <1>1, <1>2, <1>3, <1>4 DEF vars, otherVars

(* The vault, and every contract it depends on, keep their types.          *)
THEOREM TreasuryTyped == Spec => []TypeOK
<1>1. Init => RegistriesTyped
  <2>1. Init => Compliance!TypeOK
    BY DEF Init, Compliance!Init, Compliance!TypeOK, Compliance!Status
  <2>2. Init => Reputation!TypeOK
    BY VaultAssumption DEF Init, Reputation!Init, Reputation!TypeOK,
       Reputation!I64, Reputation!ReputationAssumption
  <2> QED
    BY <2>1, <2>2 DEF RegistriesTyped
<1>2. RegistriesTyped /\ [Next]_vars => RegistriesTyped'
  BY RegistriesStayTyped
<1>3. VaultInv /\ Components /\ RegistriesTyped => TypeOK
  BY DEF VaultInv, VaultTyped, Components, RegistriesTyped, TypeOK,
     GateProofs!TypeOK, Gate!TypeOK, GateProofs!Instants, Gate!Instants,
     GateProofs!Days, Gate!Days, GateProofs!DayOf, Gate!DayOf,
     QuorumProofs!TypeOK, Quorum!TypeOK, QuorumProofs!Storage, Quorum!Storage,
     QuorumProofs!SignedVote, Quorum!SignedVote
<1> QED
  BY <1>1, <1>2, <1>3, VaultInvHolds, PTL DEF Spec

(* The vault holds exactly what was deposited, through every sequence of   *)
(* deposits and moves (rwa_vault.rs:190-206).                              *)
THEOREM NothingMinted == Spec => []ValueConserved
BY VaultInvHolds, PTL DEF VaultInv

(* A vault that ever traded backs its principal (rwa_vault.rs:208-213).    *)
THEOREM PrincipalIsBacked == Spec => []PrincipalProtected
BY VaultInvHolds, PTL DEF VaultInv

(* Every move was made under a decision that the quorum passed, with the   *)
(* approval of at least half the threshold's number of accounts, and that  *)
(* is still passed (rwa_vault.rs:155-166).                                 *)
THEOREM SeparationOfDuties == Spec => []MovedOnQuorum
<1>1. VaultInv /\ QuorumProofs!ApprovedByHalf => MovedOnQuorum
  <2> SUFFICES ASSUME VaultInv, QuorumProofs!ApprovedByHalf, NEW m \in moves
               PROVE  /\ Quorum!Approved(m[1])
                      /\ 2 * Cardinality(Quorum!Approvers(m[1])) >= Threshold
    BY DEF MovedOnQuorum
  <2>1. m[1] \in Hash /\ Quorum!Approved(m[1])
    BY DEF VaultInv, VaultTyped, MovesApproved
  <2>2. QuorumProofs!Approvers(m[1]) = Quorum!Approvers(m[1])
    BY DEF QuorumProofs!Approvers, Quorum!Approvers
  <2>3. QuorumProofs!Cardinality(Quorum!Approvers(m[1]))
          = Cardinality(Quorum!Approvers(m[1]))
    BY DEF QuorumProofs!Cardinality, Cardinality
  <2>4. 2 * QuorumProofs!Cardinality(QuorumProofs!Approvers(m[1])) >= Threshold
    BY <2>1 DEF QuorumProofs!ApprovedByHalf, QuorumProofs!Approved,
       Quorum!Approved
  <2> QED
    BY <2>1, <2>2, <2>3, <2>4
<1> QED
  BY <1>1, VaultInvHolds, ComponentFacts, PTL

(* What moves on a day stays within the daily limit in force at each move  *)
(* (rwa_vault.rs:178-182, spend_gate.rs:59-72).                            *)
THEOREM DailyLimitBindsMoves == Spec => MovesWithinDailyLimit
<1>1. VaultInv /\ Components /\ [Next]_vars
        => [movedOn' # movedOn
              => movedOn'[Gate!Today] <= gate.daily_limit]_vars
  <2> SUFFICES ASSUME VaultInv, Components, Next, movedOn' # movedOn
               PROVE  movedOn'[Gate!Today] <= gate.daily_limit
    BY DEF vars, vaultVars
  <2>1. PICK caller \in Callers, from \in Traded, to \in Traded,
             n \in Amounts, h \in Hash :
               Reallocate(caller, from, to, n, h) /\ UNCHANGED now
    BY NextCases DEF Heartbeat, Unfreeze, FreezeIfStale, Deposit, GateCall,
       ComplianceCall, ReputationCall, QuorumCall, AuditorSigns, vaultVars
  <2> QED
    BY <2>1, ReallocateKeepsVault
<1> QED
  BY <1>1, VaultInvHolds, PTL DEF Spec, MovesWithinDailyLimit

(* An agent seen within the silence window is not frozen out               *)
(* (rwa_vault.rs:85-102, :168).                                            *)
THEOREM OnlySilenceFreezes == Spec => ActiveAgentNotFrozen
<1>1. VaultInv /\ Components /\ [Next]_vars
        => [vault'.frozen /\ ~vault.frozen => now >= seen + MIN_STALE_MS]_vars
  <2> SUFFICES ASSUME VaultInv, Components, Next, vault'.frozen, ~vault.frozen
               PROVE  now >= seen + MIN_STALE_MS
    BY DEF vars, vaultVars
  <2>1. PICK age \in MaxAges : FreezeIfStale(age)
    BY NextCases DEF Heartbeat, Unfreeze, Deposit, Reallocate, GateCall,
       ComplianceCall, ReputationCall, QuorumCall, AuditorSigns, vaultVars,
       VaultInv, VaultTyped
  <2>2. /\ now \in Nat /\ now <= MaxTime /\ MaxTime < U64_MAX
        /\ MaxTime \in Nat /\ U64_MAX \in Nat
    BY TimeAdvances, ChainAssumption DEF Components, Instants
  <2>3. /\ seen \in Nat /\ vault.last_heartbeat \in Nat
        /\ seen <= vault.last_heartbeat
    BY TimeAdvances DEF VaultInv, VaultTyped, LivenessRecorded, Components
  <2>4. age \in Nat /\ MIN_STALE_MS \in Nat /\ MIN_STALE_MS <= age
    BY <2>1, <2>2, VaultAssumption DEF FreezeIfStale
  <2>5. now >= vault.last_heartbeat + age
    BY <2>1, <2>2, <2>3, <2>4 DEF FreezeIfStale, SaturatingAdd
  <2> QED
    BY <2>2, <2>3, <2>4, <2>5
<1> QED
  BY <1>1, VaultInvHolds, PTL DEF Spec, ActiveAgentNotFrozen

-----------------------------------------------------------------------------
(* The refinement: what the treasury promises, with `passed' the hashes    *)
(* whose tally reached the threshold and `halted' any breaker being open.  *)

Passed == {h \in Hash : Quorum!Approved(h)}

(* A step that leaves every balance alone passes decisions, halts, resumes *)
(* or does nothing, as long as it does not pass and halt at once.          *)
LEMMA QuietStep ==
  ASSUME QuorumProofs!TypeOK, [Next]_vars,
         vault'.allocations = vault.allocations,
         (Halted' <=> Halted) \/ Passed' = Passed
  PROVE  [Promise!Next]_(Promise!custodyVars)
<1>1. Passed \subseteq Passed'
  BY ApprovedStays DEF Passed
<1>2. CASE Halted' <=> Halted
  <2>1. \E more \in SUBSET Hash : Passed' = Passed \cup more
    <3>1. Passed' \in SUBSET Hash
      BY DEF Passed
    <3> WITNESS Passed' \in SUBSET Hash
    <3> QED
      BY <1>1
  <2>2. Promise!Pass
    BY <1>2, <2>1 DEF Promise!Pass, Passed
  <2> QED
    BY <2>2 DEF Promise!Next
<1>3. CASE Passed' = Passed /\ ~(Halted' <=> Halted)
  <2>1. Halted' = ~Halted
    BY <1>3 DEF Halted
  <2>2. Promise!HaltOrResume
    BY <1>3, <2>1 DEF Promise!HaltOrResume, Passed
  <2> QED
    BY <2>2 DEF Promise!Next
<1> QED
  BY <1>2, <1>3

(* What Halted depends on.                                                 *)
LEMMA HaltedUnchanged ==
  ASSUME vault'.frozen = vault.frozen, gate'.expiry = gate.expiry,
         now' = now, status' = status, reputation' = reputation
  PROVE  Halted' <=> Halted
BY DEF Halted, Gate!Expired, Compliance!AssertValid

(* A deposit funds the treasury.                                           *)
LEMMA DepositFunds ==
  ASSUME VaultInv, Components, UNCHANGED <<now, otherVars>>,
         NEW asset \in Traded, NEW n \in Amounts, Deposit(asset, n)
  PROVE  Promise!Next
<1>1. asset \in Asset /\ n \in 0..U256_MAX
  BY VaultAssumption
<1>2. vault'.allocations = [vault.allocations EXCEPT ![asset] = @ + n]
  BY DepositKeepsVault
<1>3. vault'.frozen = vault.frozen
  BY DEF Deposit, VaultInv, VaultTyped
<1>4. Halted' <=> Halted
  BY <1>3, HaltedUnchanged DEF otherVars, gateVars, reputationVars
<1>5. Passed' = Passed
  BY DEF Passed, Quorum!Approved, otherVars, quorumVars
<1>6. Promise!Fund(asset, n)
  BY <1>2, <1>4, <1>5 DEF Promise!Fund, Passed
<1> QED
  BY <1>1, <1>6 DEF Promise!Next, Promise!Asset, Asset

(* A reallocation is a move the promise allows.                            *)
LEMMA ReallocateMoves ==
  ASSUME VaultInv, Components, Reputation!TypeOK, UNCHANGED now,
         NEW caller \in Callers, NEW from \in Traded, NEW to \in Traded,
         NEW n \in Amounts, NEW h \in Hash,
         Reallocate(caller, from, to, n, h)
  PROVE  Promise!Next
<1>1. /\ from \in Asset /\ to \in Asset /\ from # to
      /\ n \in 0..U256_MAX /\ n \in Nat
      /\ n <= vault.allocations[from]
      /\ vault.allocations[to] + n <= U256_MAX
  BY VaultAssumption DEF Reallocate, SameAsset
<1>2. vault'.allocations = Rebalanced(from, to, n)
      /\ vault'.frozen = vault.frozen
  BY DEF Reallocate, VaultInv, VaultTyped
<1>3. vault'.allocations = [vault.allocations EXCEPT ![from] = @ - n,
                                                     ![to] = @ + n]
  <2>1. vault.allocations \in [Asset -> 0..U256_MAX]
    BY DEF VaultInv, VaultTyped
  <2> QED
    BY <1>1, <1>2, <2>1 DEF Rebalanced
<1>4. gate'.expiry = gate.expiry
  BY DEF Reallocate, Gate!Check, Components, GateProofs!TypeOK
<1>5. ~Halted
  <2>1. reputation.score[Agent] \in Int /\ MIN_REPUTATION \in Int
    BY VaultAssumption DEF Reputation!TypeOK, Reputation!I64,
       Reputation!ReputationAssumption
  <2>2. ~(reputation.score[Agent] < MIN_REPUTATION)
    BY <2>1 DEF Reallocate, MayTrade
  <2>3. /\ ~vault.frozen /\ ~Gate!Expired
        /\ Compliance!AssertValid(Agent)
    BY DEF Reallocate, MayTrade, Gate!Check
  <2> QED
    BY <2>2, <2>3 DEF Halted
<1>6. Halted' <=> Halted
  BY <1>2, <1>4, HaltedUnchanged DEF Reallocate, reputationVars
<1>7. Passed' = Passed /\ Passed # {}
  BY DEF Reallocate, MayTrade, Passed, Quorum!Approved, quorumVars
<1>8. Total(vault.allocations) >= PRINCIPAL
  BY <1>2, ReallocateKeepsVault DEF Reallocate
<1>9. Promise!Total(vault.allocations) = Total(vault.allocations)
  BY DEF Promise!Total, Total
<1>10. Promise!Move(from, to, n)
  BY <1>1, <1>3, <1>5, <1>6, <1>7, <1>8, <1>9 DEF Promise!Move, Passed
<1> QED
  BY <1>1, <1>10 DEF Promise!Next, Promise!Asset, Asset

(* The contracts together keep the custody promise: balances change only   *)
(* by funding or by a conserving move under a passed decision, above the   *)
(* principal, while no breaker is open (rwa_vault.rs:125-213).             *)
THEOREM ContractsKeepThePromise == Spec => KeepsCustodyPromise
<1>1. Init => Promise!Init
  <2> SUFFICES ASSUME Init PROVE Promise!Init
    OBVIOUS
  <2>1. Passed = {}
    BY VaultAssumption DEF Init, Quorum!Init, Passed, Quorum!Approved,
       Quorum!QuorumAssumption
  <2>2. vault.allocations = [a \in Asset |-> 0]
    BY DEF Init
  <2>3. Halted \in BOOLEAN
    BY DEF Halted
  <2> QED
    BY <2>1, <2>2, <2>3 DEF Promise!Init, Passed, Promise!Asset, Asset
<1>2. VaultInv /\ Components /\ TypeOK /\ [Next]_vars
        => [Promise!Next]_(Promise!custodyVars)
  <2> SUFFICES ASSUME VaultInv, Components, TypeOK, [Next]_vars
               PROVE  [Promise!Next]_(Promise!custodyVars)
    OBVIOUS
  <2>1. CASE (\E a \in Traded, n \in Amounts : Deposit(a, n))
               /\ UNCHANGED <<now, otherVars>>
    BY <2>1, DepositFunds
  <2>2. CASE (\E caller \in Callers, from, to \in Traded, n \in Amounts,
                  h \in Hash : Reallocate(caller, from, to, n, h))
               /\ UNCHANGED now
    BY <2>2, ReallocateMoves DEF TypeOK
  <2>3. CASE /\ vault'.allocations = vault.allocations
             /\ quorum' = quorum
    <3>1. Passed' = Passed
      BY <2>3 DEF Passed, Quorum!Approved
    <3> QED
      BY <2>3, <3>1, QuietStep DEF Components
  <2>4. CASE UNCHANGED <<now, vaultVars, gateVars, status, reputationVars>>
    <3>1. Halted' <=> Halted
      BY <2>4, HaltedUnchanged DEF vaultVars, gateVars, reputationVars
    <3>2. vault'.allocations = vault.allocations
      BY <2>4 DEF vaultVars
    <3> QED
      BY <3>1, <3>2, QuietStep DEF Components
  <2>5. Next =>
          \/ (\E a \in Traded, n \in Amounts : Deposit(a, n))
               /\ UNCHANGED <<now, otherVars>>
          \/ (\E caller \in Callers, from, to \in Traded, n \in Amounts,
                  h \in Hash : Reallocate(caller, from, to, n, h))
               /\ UNCHANGED now
          \/ vault'.allocations = vault.allocations /\ quorum' = quorum
          \/ UNCHANGED <<now, vaultVars, gateVars, status, reputationVars>>
    BY NextCases DEF Heartbeat, Unfreeze, FreezeIfStale, GateCall,
       ComplianceCall, ReputationCall, QuorumCall, AuditorSigns, vaultVars,
       otherVars, quorumVars, VaultInv, VaultTyped
  <2> QED
    BY <2>1, <2>2, <2>3, <2>4, <2>5 DEF vars, vaultVars, otherVars, quorumVars
<1> QED
  BY <1>1, <1>2, VaultInvHolds, TreasuryTyped, PTL DEF Spec, KeepsCustodyPromise,
     Promise!Spec
=============================================================================
