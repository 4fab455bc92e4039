------------------------------ MODULE Registers ------------------------------
(***************************************************************************)
(* The contracts that hold no funds: the governed policy and its timelock, *)
(* the attestation log, the reputation registry, the KYC verifier, and the *)
(* reserve verifier with its prover, on one chain.  They neither call nor  *)
(* read each other (the reserve verifier reads the vault, which it brings  *)
(* along), so a behaviour of all of them is one of each, and no property   *)
(* of one depends on what the others do: a behaviour here exercises one,   *)
(* chosen at the start (`studied').                                        *)
(***************************************************************************)
EXTENDS ZkReserves, Casper

CONSTANTS Custodian, Timelock, Callers, DELAY_MS, Thresholds, Values,
          Key, AgentKey, Hash, Verdict, None,
          Issuer, Agents, Credential, NoCredential,
          Authority, Payers, Payments, Deltas, I64_MAX

VARIABLES policy, timelock, announced,
          log, signed, credentials, zk_verified, transcripts, lastProven,
          reputation, credited, studied

Policy == INSTANCE Governance

Log == INSTANCE AttestationLog WITH Decision <- Verdict

Kyc == INSTANCE ZkKyc

Reputation == INSTANCE ReputationRegistry WITH Proofs <- Payments

policyVars == <<policy, timelock, announced>>
logVars == <<log, signed>>
kycVars == <<credentials, zk_verified, transcripts, lastProven>>
reputationVars == <<reputation, credited>>
allVars ==
  <<now, vars, policyVars, logVars, kycVars, reputationVars, studied>>

ASSUME RegistersAssumption ==
  /\ Policy!GovernanceAssumption
  /\ Log!LogAssumption
  /\ Reputation!ReputationAssumption

RegistersInit ==
  /\ Init /\ Policy!Init /\ Log!Init /\ Kyc!Init /\ Reputation!Init
  /\ studied \in {"reserves", "governance", "log", "kyc", "reputation"}
  /\ studied # "governance" => policy = CHOOSE p \in Policy!FirstPolicies : TRUE

RegistersNext ==
  /\ UNCHANGED studied
  /\ \/ /\ studied = "reserves" /\ Next
        /\ UNCHANGED <<now, policyVars, logVars, kycVars, reputationVars>>
     \/ /\ studied = "governance" /\ Policy!Next
        /\ UNCHANGED <<vars, logVars, kycVars, reputationVars>>
     \/ /\ studied = "log" /\ Log!Next
        /\ UNCHANGED <<vars, policyVars, kycVars, reputationVars>>
     \/ /\ studied = "kyc" /\ Kyc!Next
        /\ UNCHANGED <<now, vars, policyVars, logVars, reputationVars>>
     \/ /\ studied = "reputation" /\ Reputation!Next
        /\ UNCHANGED <<now, vars, policyVars, logVars, kycVars>>

RegistersSpec == RegistersInit /\ [][RegistersNext]_allVars

-----------------------------------------------------------------------------

(* All of them keep their types.                                           *)
RegistersTypeOK ==
  TypeOK /\ Policy!TypeOK /\ Log!TypeOK /\ Kyc!TypeOK /\ Reputation!TypeOK

(* Under the timelock, the threshold that takes effect is the one that was *)
(* announced last, at least the delay ago (governance_timelock.rs:53-78).  *)
ChangesAreAnnounced == Policy!ChangesAreAnnounced

(* A verified agent is verified for the credential the issuer gave it last *)
(* (zk_kyc.rs:42-50, :57-88).                                              *)
VerifiedForTheLatestCredential == Kyc!VerifiedForTheLatestCredential

(* However often and for whomever the custodian submits them, settled      *)
(* payments are worth one point each in total (reputation_registry.rs:     *)
(* 26-40).                                                                 *)
OnePointPerPayment == Reputation!OnePointPerPayment
=============================================================================
