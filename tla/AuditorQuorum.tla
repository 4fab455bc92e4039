---------------------------- MODULE AuditorQuorum ----------------------------
(***************************************************************************)
(* contracts/src/auditor_quorum.rs: auditors approve a decision, named by  *)
(* its reasoning hash, in two ways: an authorised key's detached signature *)
(* that anyone may relay (vote), or a call by a registered account         *)
(* (vote_as_caller).  Both add to one tally.  Accounts may bond CSPR.      *)
(*                                                                         *)
(* `quorum' is the contract's storage and `purse' the CSPR it holds.       *)
(* `signed' is what auditor keys have signed off-chain, for this or for    *)
(* another deployment, and `wallet' the accounts' CSPR.  `ayesByKey' and   *)
(* `ayesByCaller' are history: whose approval each unit of the tally is.   *)
(***************************************************************************)
EXTENDS Integers, FiniteSets, Functions

CONSTANTS
  Address,      \* accounts that may call the contract
  Key,          \* public keys
  AccountOf,    \* AccountOf[k]: the account that key k controls
  Hash,         \* reasoning hashes of the decisions voted on
  Auditors,     \* keys authorised at init
  Threshold,    \* K of K-of-N
  InstanceId,   \* domain separator of this deployment
  Instances,    \* domain separators of all deployments auditors sign for
  Slasher,      \* the account that may slash
  MinStake,     \* CSPR that register_with_stake must attach
  Funds,        \* CSPR each account owns at the start
  Attachments   \* amounts a payable call may attach

VARIABLES quorum, purse, signed, wallet, ayesByKey, ayesByCaller

quorumVars == <<quorum, purse, signed, wallet, ayesByKey, ayesByCaller>>

(* init() reverts on a threshold below 1 (auditor_quorum.rs:101).  A key   *)
(* determines its account, and no account has two keys.                    *)
ASSUME QuorumAssumption ==
  /\ Threshold \in Nat \ {0}
  /\ MinStake \in Nat
  /\ Funds \in Nat
  /\ Attachments \subseteq Nat
  /\ Auditors \subseteq Key
  /\ InstanceId \in Instances
  /\ Slasher \in Address
  /\ IsFiniteSet(Address) /\ IsFiniteSet(Key)
  /\ AccountOf \in [Key -> Address]
  /\ \A j, k \in Key : AccountOf[j] = AccountOf[k] => j = k

Storage ==
  [approvals : [Hash -> Nat], voted : SUBSET (Hash \X Key),
   voted_addr : SUBSET (Hash \X Address), auditor_addrs : SUBSET Address,
   stake : [Address -> Nat]]

SignedVote == [key : Key, instance : Instances, hash : Hash, approve : BOOLEAN]

(* The contract's storage, the signatures, the money and the history keep  *)
(* their types.                                                            *)
TypeOK ==
  /\ quorum \in Storage
  /\ purse \in Nat
  /\ signed \subseteq SignedVote
  /\ wallet \in [Address -> Nat]
  /\ ayesByKey \in [Hash -> SUBSET Key]
  /\ ayesByCaller \in [Hash -> SUBSET Address]

Approved(hash) == quorum.approvals[hash] >= Threshold

-----------------------------------------------------------------------------

Init ==
  /\ quorum = [approvals |-> [h \in Hash |-> 0], voted |-> {},
               voted_addr |-> {}, auditor_addrs |-> {},
               stake |-> [a \in Address |-> 0]]
  /\ purse = 0
  /\ signed = {}
  /\ wallet = [a \in Address |-> Funds]
  /\ ayesByKey = [h \in Hash |-> {}]
  /\ ayesByCaller = [h \in Hash |-> {}]

(* An auditor key signs its verdict off-chain; the message binds the       *)
(* deployment, the hash and the verdict.                                   *)
Sign(key, instance, hash, approve) ==
  /\ signed' = signed \cup {[key |-> key, instance |-> instance,
                             hash |-> hash, approve |-> approve]}
  /\ UNCHANGED <<quorum, purse, wallet, ayesByKey, ayesByCaller>>

RegisterWithStake(caller, attached) ==
  /\ attached <= wallet[caller]
  /\ attached >= MinStake
  /\ quorum' = [quorum EXCEPT !.stake[caller] = @ + attached,
                              !.auditor_addrs = @ \cup {caller}]
  /\ purse' = purse + attached
  /\ wallet' = [wallet EXCEPT ![caller] = @ - attached]
  /\ UNCHANGED <<signed, ayesByKey, ayesByCaller>>

(* transfer_tokens reverts when the contract's purse does not cover it.    *)
PayOut(to, amount) ==
  /\ amount <= purse
  /\ purse' = purse - amount
  /\ wallet' = [wallet EXCEPT ![to] = @ + amount]

(* Mutant: the bond is paid out and still on the books.                    *)
DeregisteredWithStake(who) == [quorum EXCEPT !.auditor_addrs = @ \ {who}]

Deregistered(who) ==
  [quorum EXCEPT !.stake[who] = 0, !.auditor_addrs = @ \ {who}]

Slash(caller, who) ==
  /\ caller = Slasher
  /\ quorum' = Deregistered(who)
  /\ PayOut(Slasher, quorum.stake[who])
  /\ UNCHANGED <<signed, ayesByKey, ayesByCaller>>

WithdrawStake(caller) ==
  /\ quorum.stake[caller] # 0
  /\ quorum' = Deregistered(caller)
  /\ PayOut(caller, quorum.stake[caller])
  /\ UNCHANGED <<signed, ayesByKey, ayesByCaller>>

OpenRegister(caller) ==
  /\ quorum' = [quorum EXCEPT !.auditor_addrs = @ \cup {caller}]
  /\ UNCHANGED <<purse, signed, wallet, ayesByKey, ayesByCaller>>

(* verify_signature over DOMAIN, instance_id, reasoning_hash and approve.  *)
SignatureVerifies(key, hash, approve) ==
  [key |-> key, instance |-> InstanceId, hash |-> hash, approve |-> approve]
    \in signed

Tally(hash, approve) == quorum.approvals[hash] + (IF approve THEN 1 ELSE 0)

(* Mutants: a relayed signature counts each time it is relayed; the signed *)
(* message does not bind the verdict; a registered account votes again.    *)
VoteAgain(hash, approve, key) ==
  /\ SignatureVerifies(key, hash, approve)
  /\ key \in Auditors
  /\ quorum' = [quorum EXCEPT !.voted = @ \cup {<<hash, key>>},
                              !.approvals[hash] = Tally(hash, approve)]
  /\ ayesByKey' = IF approve THEN [ayesByKey EXCEPT ![hash] = @ \cup {key}]
                             ELSE ayesByKey
  /\ UNCHANGED <<purse, signed, wallet, ayesByCaller>>

VoteEitherVerdict(hash, approve, key) ==
  /\ \E verdict \in BOOLEAN : SignatureVerifies(key, hash, verdict)
  /\ key \in Auditors
  /\ <<hash, key>> \notin quorum.voted
  /\ quorum' = [quorum EXCEPT !.voted = @ \cup {<<hash, key>>},
                              !.approvals[hash] = Tally(hash, approve)]
  /\ ayesByKey' = IF approve THEN [ayesByKey EXCEPT ![hash] = @ \cup {key}]
                             ELSE ayesByKey
  /\ UNCHANGED <<purse, signed, wallet, ayesByCaller>>

VoteAsCallerAgain(caller, hash, approve) ==
  /\ caller \in quorum.auditor_addrs
  /\ quorum' = [quorum EXCEPT !.voted_addr = @ \cup {<<hash, caller>>},
                              !.approvals[hash] = Tally(hash, approve)]
  /\ ayesByCaller' =
       IF approve THEN [ayesByCaller EXCEPT ![hash] = @ \cup {caller}]
                  ELSE ayesByCaller
  /\ UNCHANGED <<purse, signed, wallet, ayesByKey>>

Vote(hash, approve, key) ==
  /\ SignatureVerifies(key, hash, approve)
  /\ key \in Auditors
  /\ <<hash, key>> \notin quorum.voted
  /\ quorum' = [quorum EXCEPT !.voted = @ \cup {<<hash, key>>},
                              !.approvals[hash] = Tally(hash, approve)]
  /\ ayesByKey' = IF approve THEN [ayesByKey EXCEPT ![hash] = @ \cup {key}]
                             ELSE ayesByKey
  /\ UNCHANGED <<purse, signed, wallet, ayesByCaller>>

VoteAsCaller(caller, hash, approve) ==
  /\ caller \in quorum.auditor_addrs
  /\ <<hash, caller>> \notin quorum.voted_addr
  /\ quorum' = [quorum EXCEPT !.voted_addr = @ \cup {<<hash, caller>>},
                              !.approvals[hash] = Tally(hash, approve)]
  /\ ayesByCaller' =
       IF approve THEN [ayesByCaller EXCEPT ![hash] = @ \cup {caller}]
                  ELSE ayesByCaller
  /\ UNCHANGED <<purse, signed, wallet, ayesByKey>>

Registry(caller) ==
  \/ \E attached \in Attachments : RegisterWithStake(caller, attached)
  \/ \E who \in Address : Slash(caller, who)
  \/ WithdrawStake(caller)
  \/ OpenRegister(caller)

Voting(caller, hash, approve) ==
  \/ VoteAsCaller(caller, hash, approve)
  \/ \E key \in Key : Vote(hash, approve, key)

Next ==
  \/ \E key \in Auditors, i \in Instances, h \in Hash, b \in BOOLEAN :
       Sign(key, i, h, b)
  \/ \E caller \in Address :
       \/ Registry(caller)
       \/ \E h \in Hash, b \in BOOLEAN : Voting(caller, h, b)

Spec == Init /\ [][Next]_quorumVars

-----------------------------------------------------------------------------

(* The account behind each approval that the tally of `hash' counts.       *)
Approvers(hash) ==
  {AccountOf[k] : k \in ayesByKey[hash]} \cup ayesByCaller[hash]

(* Every unit of a tally is the approval of one key or of one account, and *)
(* none is counted twice along one path, whatever order votes, relays,     *)
(* slashes, withdrawals and registrations come in (auditor_quorum.rs:67-69,*)
(* :189-199, :222-232).                                                    *)
TallyIsExact ==
  \A h \in Hash :
    /\ quorum.approvals[h] =
         Cardinality(ayesByKey[h]) + Cardinality(ayesByCaller[h])
    /\ \A k \in ayesByKey[h] : <<h, k>> \in quorum.voted
    /\ \A a \in ayesByCaller[h] : <<h, a>> \in quorum.voted_addr

(* No relayer can turn what an auditor signed into something else: a key's *)
(* approval counts only if that authorised key signed APPROVE for this     *)
(* hash on this deployment (auditor_quorum.rs:174-188).                    *)
OnlySignedApprovalsCount ==
  \A h \in Hash : \A k \in ayesByKey[h] :
    k \in Auditors /\ SignatureVerifies(k, h, TRUE)

(* What "K of N" is worth with two ways to vote: a decision that passed    *)
(* was approved by at least half as many different accounts as the         *)
(* threshold asks approvals (auditor_quorum.rs:70-74, :242-244).           *)
ApprovedByHalf ==
  \A h \in Hash : Approved(h) => 2 * Cardinality(Approvers(h)) >= Threshold

(* The contract always holds exactly the bonds it owes, so that no bond is *)
(* stuck because another was slashed or withdrawn                          *)
(* (auditor_quorum.rs:117-158).                                            *)
BondsAreBacked == purse = SumFunction(quorum.stake)

(* Whoever has a bond at risk is in the registry, and one that met the     *)
(* minimum: no order of registering, slashing and withdrawing leaves a     *)
(* bond behind for an account that was removed (auditor_quorum.rs:117-158).*)
BondedIsRegistered ==
  \A a \in Address :
    quorum.stake[a] > 0 => /\ a \in quorum.auditor_addrs
                           /\ quorum.stake[a] >= MinStake

(* "No single auditor (or the agent) can forge a quorum: each vote is an   *)
(* independent on-chain signature from a distinct key"                     *)
(* (auditor_quorum.rs:7-8): a passed decision has the approval of as many  *)
(* different accounts as the threshold.                                    *)
ApprovedByThreshold ==
  \A h \in Hash : Approved(h) => Cardinality(Approvers(h)) >= Threshold
=============================================================================
