---------------------------- MODULE DeployScripts ----------------------------
(***************************************************************************)
(* What the deploy and migration scripts of agent/src do, in the order of  *)
(* their main() functions.  A step is one deploy: the key its result is    *)
(* recorded under, the earlier steps the call depends on (its "needs"),    *)
(* and the answer the script wants.  Contracts that exist before a script  *)
(* starts are left out of the needs.  Each script talks to the contracts   *)
(* it installs itself, from the wasm of its own release.                   *)
(***************************************************************************)
EXTENDS Sequences

(* No step has this key: what needs it is always refused. *)
Never == "never"

Step(key, needs, once, wants, kept) ==
  [key |-> key, needs |-> needs, once |-> once, wants |-> wants, kept |-> kept]

(* An install under allow_key_override = false: a second one reverts. *)
Install(key, needs) == Step(key, needs, TRUE, "ok", TRUE)
(* A call the contract accepts only once. *)
CallOnce(key, needs) == Step(key, needs, TRUE, "ok", TRUE)
(* A call or transfer the chain accepts as often as it is made. *)
Call(key, needs) == Step(key, needs, FALSE, "ok", TRUE)
(* A reallocate or unfreeze that demonstrates a guard: it has to revert. *)
Refused(key, needs) == Step(key, needs, FALSE, "reverted", TRUE)
(* A deploy made in every run: the script never looks for its key. *)
Unconditional(key, needs) == Step(key, needs, FALSE, "ok", FALSE)
UnconditionalOnce(key, needs) == Step(key, needs, TRUE, "ok", FALSE)

(* How a script keeps its progress: after each step or when it ends, and   *)
(* which keys the regular expression it reads the file with can match.     *)
Script(steps) == [steps |-> steps, saves |-> "each", reads |-> "any"]
UpperScript(steps) == [steps |-> steps, saves |-> "each", reads |-> "upper"]
EndScript(steps) == [steps |-> steps, saves |-> "end", reads |-> "upper"]

MixedCase == {"SEED_Gold", "SEED_TBond"}

Seeds(vault) ==
  << Call("SEED_Gold", {vault}), Call("SEED_TBond", {vault}),
     Call("SEED_WTI", {vault}), Call("SEED_CSPR", {vault}) >>
-----------------------------------------------------------------------------
DeployAll == EndScript(
  << Install("SPEND_GATE_HASH", {}), Install("COMPLIANCE_HASH", {}),
     Install("ATTESTATION_LOG_HASH", {}),
     Install("REPUTATION_REGISTRY_HASH", {}),
     Install("X402_ASSET_PACKAGE_HASH", {}),
     Install("RWA_VAULT_HASH", {"SPEND_GATE_HASH", "COMPLIANCE_HASH"}) >>)

SeedVault == Script(
  << Unconditional("Gold", {}), Unconditional("TBond", {}),
     Unconditional("WTI", {}), Unconditional("CSPR", {}) >>)

GoLive == Script(
  << Unconditional("add_allowlist", {}), Unconditional("set_status", {}),
     Unconditional("reallocate", {"add_allowlist", "set_status"}) >>)

RegisterAccountInfo == UpperScript(<< Unconditional("SET_URL", {}) >>)

CreditReputation == Script(<< UnconditionalOnce("record_payment", {}) >>)

DeployAuditor == Script(<< UnconditionalOnce("AUDITOR_LOG_HASH", {}) >>)

RedeployReputation == UpperScript(
  << Install("REP_V2", {}), CallOnce("CREDITED", {"REP_V2"}) >>)

DeployReputationV3 == UpperScript(
  << Install("REP_V3", {}), CallOnce("CREDITED", {"REP_V3"}),
     Call("SLASH", {"REP_V3"}), Call("REWARD", {"REP_V3"}) >>)

DeployTimelock == Script(
  << Install("POLICY_V2", {}), Install("TIMELOCK", {"POLICY_V2"}),
     CallOnce("TRANSFER", {"POLICY_V2", "TIMELOCK"}),
     Call("QUEUE", {"TIMELOCK"}), Call("EXECUTE", {"TRANSFER", "QUEUE"}) >>)

DeployZkKyc == UpperScript(
  << Install("ZK_HASH", {}), Call("REGISTERED", {"ZK_HASH"}),
     Unconditional("PROOF", {"REGISTERED"}) >>)

DeployZkReserves == Script(
  << Install("ZKR_HASH", {}), Unconditional("PROOF", {"ZKR_HASH"}) >>)

(* The deploy is in the published file only.                               *)
PublishReservesProof == Script(<< Unconditional("prove_reserves", {}) >>)

DeployMainnet == Script(
  << Install("ATTESTATION_MAINNET", {}),
     Call("ATTEST_DEPLOY", {"ATTESTATION_MAINNET"}) >>)

DeployQuorum == Script(
  << Call("FUND2", {}), Call("FUND3", {}), Install("QUORUM", {}),
     CallOnce("VOTE1", {"QUORUM"}), CallOnce("VOTE2", {"QUORUM", "FUND2"}) >>)

DeployQuorumV4 == Script(
  << Install("QUORUM", {}), Call("SEED_REGISTER", {"QUORUM"}),
     CallOnce("SEED_VOTE", {"SEED_REGISTER"}) >>)

DeployQuorumV5 == Script(
  << Install("QUORUM", {}), Call("SEED_REGISTER", {"QUORUM"}),
     CallOnce("SEED_VOTE", {"SEED_REGISTER"}) >>)

DeployTreasuryB == Script(
  << Install("SPENDGATE_B", {}), Call("ALLOWLIST_B", {"SPENDGATE_B"}),
     Install("VAULT_B", {"SPENDGATE_B"}),
     Call("SETSPENDER_B", {"SPENDGATE_B", "VAULT_B"}),
     Call("DEP_B_0", {"VAULT_B"}), Call("DEP_B_1", {"VAULT_B"}),
     Call("DEP_B_2", {"VAULT_B"}), Call("DEP_B_3", {"VAULT_B"}) >>)

DemoDeadman == Script(
  << Call("FROZEN", {}), Refused("UNFREEZE_DENIED", {Never}),
     Call("UNFROZEN", {"FROZEN"}) >>)
-----------------------------------------------------------------------------
(* The generations of the vault. *)
MigrateCustody == UpperScript(
  << Call("FUNDED", {}), Install("SPEND_GATE_V2", {"FUNDED"}),
     Install("COMPLIANCE_V2", {"FUNDED"}),
     Call("ALLOWLISTED", {"SPEND_GATE_V2"}), Call("KYC", {"COMPLIANCE_V2"}),
     Install("RWA_VAULT_V2", {"SPEND_GATE_V2", "COMPLIANCE_V2"}) >>
  \o Seeds("RWA_VAULT_V2")
  \o << Call("REALLOCATE", {"ALLOWLISTED", "KYC", "SEED_Gold"}) >>)

MigrateCompliance == UpperScript(
  << Call("FUNDED", {}), Install("COMPLIANCE_V3", {"FUNDED"}),
     Call("KYC", {"COMPLIANCE_V3"}),
     Install("RWA_VAULT_V3", {"COMPLIANCE_V3"}) >>
  \o Seeds("RWA_VAULT_V3")
  \o << Call("REALLOCATE", {"KYC", "SEED_Gold"}) >>)

MigrateVaultV4 == Script(
  << Install("VAULT_V4", {}) >> \o Seeds("VAULT_V4")
  \o << Refused("BLOCKED", {"SEED_Gold", "CREDITED"}), Call("CREDITED", {}),
        Call("RESUMED", {"SEED_Gold", "CREDITED"}) >>)

MigrateVaultV5 == Script(
  << Install("SPENDGATE_V2", {}), Call("ALLOWLIST", {"SPENDGATE_V2"}),
     Install("VAULT_V5", {"SPENDGATE_V2"}),
     Call("SET_SPENDER", {"SPENDGATE_V2", "VAULT_V5"}) >>
  \o Seeds("VAULT_V5")
  \o << Refused("BLOCKED", {"ALLOWLIST", "SET_SPENDER", "SEED_Gold", "CREDITED"}),
        Call("CREDITED", {}),
        Call("RESUMED", {"ALLOWLIST", "SET_SPENDER", "SEED_Gold", "CREDITED"}),
        Call("HEARTBEAT", {"VAULT_V5"}) >>)

MigrateVaultV6 == Script(
  << Install("REPUTATION_V4", {}), Install("VAULT_V6", {"REPUTATION_V4"}),
     Call("SET_SPENDER", {"VAULT_V6"}) >>
  \o Seeds("VAULT_V6")
  \o << Refused("BLOCKED_REP", {"SET_SPENDER", "SEED_Gold", "CREDITED"}),
        CallOnce("CREDITED", {"REPUTATION_V4"}),
        Refused("BLOCKED_QUORUM", {Never}),
        Call("RESUMED", {"SET_SPENDER", "SEED_Gold", "CREDITED"}),
        Call("HEARTBEAT", {"VAULT_V6"}) >>)

MigrateVaultV7 == Script(
  << Install("VAULT_V7", {}), Call("SET_SPENDER", {"VAULT_V7"}) >>
  \o Seeds("VAULT_V7")
  \o << Refused("SAME_ASSET", {Never}), Refused("NOT_APPROVED", {Never}),
        Call("EXECUTED", {"SET_SPENDER", "SEED_Gold"}),
        Call("HEARTBEAT", {"VAULT_V7"}) >>)

MigrateVaultV8 == Script(
  << Install("VAULT_V8", {}), Call("SET_SPENDER", {"VAULT_V8"}) >>
  \o Seeds("VAULT_V8")
  \o << Refused("SAME_ASSET", {Never}), Refused("NOT_APPROVED", {Never}),
        Call("EXECUTED", {"SET_SPENDER", "SEED_Gold"}),
        Call("HEARTBEAT", {"VAULT_V8"}) >>)
=============================================================================
