------------------------------- MODULE RwaVault -------------------------------
(***************************************************************************)
(* contracts/src/rwa_vault.rs, composed with the four contracts its moves  *)
(* depend on: the spend gate, the compliance registry, the reputation      *)
(* registry and the auditor quorum.  A move is one transaction through all *)
(* of them; every other call reaches one contract.  Anyone may call any    *)
(* contract between two calls of the agent.                                *)
(*                                                                         *)
(* `vault' is the contract's storage.  `deposited', `moves', `movedOn' and *)
(* `seen' are history: the value put in, the (decision, move) pairs made,  *)
(* the value moved on each day, and when the agent last showed itself.     *)
(***************************************************************************)
EXTENDS Casper, Assets, FiniteSets

CONSTANTS
  Vault, Agent,        \* the vault contract and the account it obeys
  Deployer, Custodian, \* the owner of gate and registry; the auditor's account
  Callers,             \* accounts whose calls a model explores
  Voters,              \* those of them that call the quorum
  Traded,              \* assets that a model deposits and moves
  PRINCIPAL,           \* principal_locked
  MIN_REPUTATION, MIN_STALE_MS, U256_MAX,
  MaxAges              \* max_age_ms values that freeze_if_stale is called with

CONSTANTS DAY_MS, NoAddress, Limits, Expiries, Amounts, Spenders

CONSTANTS Proofs, Deltas, I64_MAX

CONSTANTS Key, AccountOf, Hash, Auditors, Threshold, InstanceId, Instances,
          MinStake, Funds, Attachments

VARIABLES vault, deposited, moves, movedOn, seen,
          gate, spentOn, killed,
          status,
          reputation, credited,
          quorum, purse, signed, wallet, ayesByKey, ayesByCaller

Gate == INSTANCE SpendGate WITH Owner <- Deployer, Targets <- {Agent}

Compliance == INSTANCE ComplianceRegistry WITH
  Registrar <- Deployer, Subjects <- {Agent}

Reputation == INSTANCE ReputationRegistry WITH
  Authority <- Custodian, Payers <- {Agent}

Quorum == INSTANCE AuditorQuorum WITH Slasher <- Custodian

vaultVars == <<vault, deposited, moves, movedOn, seen>>
gateVars == <<gate, spentOn, killed>>
reputationVars == <<reputation, credited>>
quorumVars == <<quorum, purse, signed, wallet, ayesByKey, ayesByCaller>>
otherVars == <<gateVars, status, reputationVars, quorumVars>>
vars == <<now, vaultVars, otherVars>>

ASSUME VaultAssumption ==
  /\ {Vault, Agent, Deployer, Custodian} \subseteq Address
  /\ Callers \subseteq Address \ {Vault}
  /\ Voters \subseteq Callers
  /\ Traded \subseteq Asset
  /\ PRINCIPAL \in Nat
  /\ MIN_REPUTATION \in Int
  /\ MIN_STALE_MS \in Nat
  /\ U256_MAX \in Nat
  /\ MaxAges \subseteq 0..U64_MAX
  /\ Amounts \subseteq 0..U256_MAX
  /\ Gate!GateAssumption
  /\ Reputation!ReputationAssumption
  /\ Quorum!QuorumAssumption

Move == [from : Asset, to : Asset, amount : 0..U256_MAX]

(* The vault's storage and its history keep their types, and so does every *)
(* contract it depends on.                                                 *)
TypeOK ==
  /\ vault \in [allocations : [Asset -> 0..U256_MAX],
                last_heartbeat : Instants, frozen : BOOLEAN]
  /\ deposited \in Nat
  /\ moves \subseteq Hash \X Move
  /\ movedOn \in [Gate!Days -> Nat]
  /\ seen \in Instants
  /\ Gate!TypeOK /\ Compliance!TypeOK /\ Reputation!TypeOK /\ Quorum!TypeOK

-----------------------------------------------------------------------------

Init ==
  /\ Gate!Init /\ Compliance!Init /\ Reputation!Init /\ Quorum!Init
  /\ vault = [allocations |-> [a \in Asset |-> 0], last_heartbeat |-> now,
              frozen |-> FALSE]
  /\ deposited = 0
  /\ moves = {}
  /\ movedOn = [d \in Gate!Days |-> 0]
  /\ seen = now

Heartbeat(caller) ==
  /\ caller = Agent
  /\ vault' = [vault EXCEPT !.last_heartbeat = now]
  /\ seen' = now
  /\ UNCHANGED <<deposited, moves, movedOn>>

(* Mutant: any silence window is accepted.                                 *)
FreezeWithoutFloor(max_age_ms) ==
  /\ now >= SaturatingAdd(vault.last_heartbeat, max_age_ms)
  /\ vault' = [vault EXCEPT !.frozen = TRUE]
  /\ UNCHANGED <<deposited, moves, movedOn, seen>>

FreezeIfStale(max_age_ms) ==
  /\ max_age_ms >= MIN_STALE_MS
  /\ now >= SaturatingAdd(vault.last_heartbeat, max_age_ms)
  /\ vault' = [vault EXCEPT !.frozen = TRUE]
  /\ UNCHANGED <<deposited, moves, movedOn, seen>>

Unfreeze(caller) ==
  /\ caller = Custodian
  /\ vault' = [vault EXCEPT !.frozen = FALSE, !.last_heartbeat = now]
  /\ UNCHANGED <<deposited, moves, movedOn, seen>>

(* Open to any caller; a U256 sum that overflows panics and reverts.       *)
Deposit(asset, amount) ==
  /\ vault.allocations[asset] + amount <= U256_MAX
  /\ vault' = [vault EXCEPT !.allocations[asset] = @ + amount]
  /\ deposited' = deposited + amount
  /\ UNCHANGED <<moves, movedOn, seen>>

(* Both balances are read before either is written.                        *)
Rebalanced(from, to, amount) ==
  LET debited == [vault.allocations EXCEPT ![from] = @ - amount]
  IN  [debited EXCEPT ![to] = vault.allocations[to] + amount]

(* Mutant: a move from an asset to itself is let through.                  *)
NeverSameAsset(from, to) == FALSE

SameAsset(from, to) == from = to

(* Mutants: a frozen vault still trades; any passed decision will do.      *)
MayTradeFrozen(hash) ==
  /\ reputation.score[Agent] >= MIN_REPUTATION
  /\ Quorum!Approved(hash)

MayTradeOnAnother(hash) ==
  /\ ~vault.frozen
  /\ reputation.score[Agent] >= MIN_REPUTATION
  /\ \E h \in Hash : Quorum!Approved(h)

(* The breakers a move must find closed before it asks the gate.           *)
MayTrade(hash) ==
  /\ ~vault.frozen
  /\ reputation.score[Agent] >= MIN_REPUTATION
  /\ Quorum!Approved(hash)

(* Mutant: the principal is not looked at.                                 *)
ReallocateBelowPrincipal(caller, from, to, amount, hash) ==
  /\ caller = Agent
  /\ MayTrade(hash)
  /\ Gate!Check(Vault, Agent, amount)
  /\ Compliance!AssertValid(Agent)
  /\ ~SameAsset(from, to)
  /\ amount <= vault.allocations[from]
  /\ vault.allocations[to] + amount <= U256_MAX
  /\ vault' = [vault EXCEPT !.allocations = Rebalanced(from, to, amount),
                            !.last_heartbeat = now]
  /\ moves' = moves \cup
       {<<hash, [from |-> from, to |-> to, amount |-> amount]>>}
  /\ movedOn' = [movedOn EXCEPT ![Gate!Today] = @ + amount]
  /\ seen' = now
  /\ UNCHANGED <<deposited, status, reputationVars, quorumVars>>

Reallocate(caller, from, to, amount, hash) ==
  /\ caller = Agent
  /\ MayTrade(hash)
  /\ Gate!Check(Vault, Agent, amount)
  /\ Compliance!AssertValid(Agent)
  /\ ~SameAsset(from, to)
  /\ amount <= vault.allocations[from]
  /\ vault.allocations[to] + amount <= U256_MAX
  /\ Total(Rebalanced(from, to, amount)) >= PRINCIPAL
  /\ vault' = [vault EXCEPT !.allocations = Rebalanced(from, to, amount),
                            !.last_heartbeat = now]
  /\ moves' = moves \cup
       {<<hash, [from |-> from, to |-> to, amount |-> amount]>>}
  /\ movedOn' = [movedOn EXCEPT ![Gate!Today] = @ + amount]
  /\ seen' = now
  /\ UNCHANGED <<deposited, status, reputationVars, quorumVars>>

VaultCall ==
  \/ /\ \E caller \in Callers : Heartbeat(caller) \/ Unfreeze(caller)
     /\ UNCHANGED otherVars
  \/ \E age \in MaxAges : FreezeIfStale(age) /\ UNCHANGED otherVars
  \/ \E a \in Traded, n \in Amounts : Deposit(a, n) /\ UNCHANGED otherVars
  \/ \E caller \in Callers, from, to \in Traded, n \in Amounts, h \in Hash :
       Reallocate(caller, from, to, n, h)

(* Calls that reach one of the other contracts directly.                   *)
GateCall(caller) ==
  /\ \/ Gate!Administer(caller)
     \/ \E n \in Amounts : Gate!Check(caller, Agent, n)
  /\ UNCHANGED <<vaultVars, status, reputationVars, quorumVars>>

ComplianceCall(caller) ==
  /\ Compliance!Call(caller)
  /\ UNCHANGED <<vaultVars, gateVars, reputationVars, quorumVars>>

ReputationCall(caller) ==
  /\ Reputation!Call(caller)
  /\ UNCHANGED <<vaultVars, gateVars, status, quorumVars>>

QuorumCall(caller) ==
  /\ \/ Quorum!Registry(caller)
     \/ \E h \in Hash, b \in BOOLEAN : Quorum!Voting(caller, h, b)
  /\ UNCHANGED <<vaultVars, gateVars, status, reputationVars>>

AuditorSigns ==
  /\ \E key \in Auditors, i \in Instances, h \in Hash, b \in BOOLEAN :
       Quorum!Sign(key, i, h, b)
  /\ UNCHANGED <<vaultVars, gateVars, status, reputationVars>>

Call ==
  \/ VaultCall
  \/ \E caller \in Callers :
       \/ GateCall(caller)
       \/ ComplianceCall(caller)
       \/ ReputationCall(caller)
  \/ \E caller \in Voters : QuorumCall(caller)
  \/ AuditorSigns

Next ==
  \/ Call /\ UNCHANGED now
  \/ Tick /\ UNCHANGED <<vaultVars, otherVars>>

Spec == Init /\ [][Next]_vars

-----------------------------------------------------------------------------

(* Nothing is minted and nothing is lost: whatever sequence of deposits    *)
(* and moves between whichever assets, the vault holds what was put into   *)
(* it (rwa_vault.rs:190-206).                                              *)
ValueConserved == Total(vault.allocations) = deposited

(* A vault that ever traded backs its principal from then on               *)
(* (rwa_vault.rs:208-213).                                                 *)
PrincipalProtected ==
  moves # {} => Total(vault.allocations) >= PRINCIPAL

(* Separation of duties: every decision a move was made under was passed   *)
(* by the quorum, by at least half as many accounts as its threshold asks  *)
(* approvals, and no later call takes that away (rwa_vault.rs:155-166).    *)
MovedOnQuorum ==
  \A m \in moves :
    /\ Quorum!Approved(m[1])
    /\ 2 * Cardinality(Quorum!Approvers(m[1])) >= Threshold

(* The value moved on a day is within what the gate let through that day,  *)
(* and each move leaves it within the daily limit then in force, even when *)
(* the gate's spender changes during the day (rwa_vault.rs:178-182).       *)
MovesWithinDailyLimit ==
  [][ movedOn' # movedOn => movedOn'[Gate!Today] <= gate.daily_limit ]_vars

(* An agent that has shown itself, by a heartbeat or by a move, within the *)
(* minimum silence window is never frozen out (rwa_vault.rs:85-102, :168). *)
ActiveAgentNotFrozen ==
  [][ vault'.frozen /\ ~vault.frozen => now >= seen + MIN_STALE_MS ]_vars

(* The custodian's, the owner's and the auditors' means to halt the agent  *)
(* together: a move changes holdings only while none of them is set.       *)
Halted ==
  \/ vault.frozen
  \/ Gate!Expired
  \/ ~Compliance!AssertValid(Agent)
  \/ reputation.score[Agent] < MIN_REPUTATION

Promise == INSTANCE Custody WITH
  Principal <- PRINCIPAL,
  Value <- 0..U256_MAX,
  Decision <- Hash,
  holdings <- vault.allocations,
  passed <- {h \in Hash : Quorum!Approved(h)},
  halted <- Halted

(* The contracts together implement the custody promise: holdings change   *)
(* only by funding or by a conserving move between two assets under a      *)
(* passed decision while nothing halts the agent; a decision stays passed  *)
(* (rwa_vault.rs:125-213).                                                 *)
KeepsCustodyPromise == Promise!Spec

(* "must have signed APPROVE for exactly this decision on-chain"           *)
(* (rwa_vault.rs:156-157): one approved decision lets one move through.    *)
ExactlyThisDecision ==
  \A m, n \in moves : m[1] = n[1] => m[2] = n[2]
=============================================================================
