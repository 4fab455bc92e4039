------------------------------ MODULE Governance ------------------------------
(***************************************************************************)
(* contracts/src/policy_engine.rs and governance_timelock.rs: the agent's  *)
(* trading policy, and the timelock that is to own it.  Before the owner   *)
(* hands the policy over, it changes every parameter at once; afterwards a *)
(* confidence threshold is queued, waits, and is applied by anyone.        *)
(*                                                                         *)
(* `policy' and `timelock' are the contracts' storage; `announced' is      *)
(* history: each (threshold, time) that was ever queued.                   *)
(***************************************************************************)
EXTENDS Casper

CONSTANTS
  Custodian,    \* the first owner of the policy, and the timelock's owner
  Timelock,     \* the address of the timelock contract
  Callers,      \* accounts that call the contracts
  DELAY_MS,     \* delay_ms
  Thresholds,   \* confidence thresholds a model proposes
  Values        \* values of the other parameters

VARIABLES policy, timelock, announced

governanceVars == <<policy, timelock, announced>>
vars == <<now, governanceVars>>

GovernanceAssumption ==
  /\ Custodian \in Callers
  /\ Callers \subseteq Address \ {Timelock}
  /\ Timelock \in Address
  /\ DELAY_MS \in 0..U64_MAX
  /\ Thresholds \subseteq Nat

(* Storage, announcements and block time keep their types.                 *)
TypeOK ==
  /\ now \in Instants
  /\ policy \in [owner : Address, confidence : Thresholds, max_rebalance : Values,
                 min_reputation : Values, version : Values]
  /\ timelock \in [pending : Thresholds \cup {0}, eta : 0..U64_MAX]
  /\ announced \subseteq Thresholds \X Instants

FirstPolicies ==
  [owner : {Custodian}, confidence : Thresholds, max_rebalance : Values,
   min_reputation : Values, version : Values]

Init ==
  /\ now = GenesisTime
  /\ policy \in FirstPolicies
  /\ timelock = [pending |-> 0, eta |-> 0]
  /\ announced = {}

SetOwner(caller, owner) ==
  /\ caller = policy.owner
  /\ policy' = [policy EXCEPT !.owner = owner]
  /\ UNCHANGED <<timelock, announced>>

SetConfidence(caller, bps) ==
  /\ caller = policy.owner
  /\ policy' = [policy EXCEPT !.confidence = bps]

SetMaxRebalance(caller, v) ==
  /\ caller = policy.owner
  /\ policy' = [policy EXCEPT !.max_rebalance = v]

SetMinReputation(caller, v) ==
  /\ caller = policy.owner
  /\ policy' = [policy EXCEPT !.min_reputation = v]

SetPolicyVersion(caller, v) ==
  /\ caller = policy.owner
  /\ policy' = [policy EXCEPT !.version = v]

SetParameter(caller) ==
  /\ \/ \E bps \in Thresholds : SetConfidence(caller, bps)
     \/ \E v \in Values : \/ SetMaxRebalance(caller, v)
                          \/ SetMinReputation(caller, v)
                          \/ SetPolicyVersion(caller, v)
  /\ UNCHANGED <<timelock, announced>>

(* Mutant: a replacement inherits the waiting time of what it replaces.    *)
QueueKeepingEta(caller, bps) ==
  /\ caller = Custodian
  /\ timelock' = [pending |-> bps,
                  eta |-> IF timelock.eta = 0 THEN SaturatingAdd(now, DELAY_MS)
                                              ELSE timelock.eta]
  /\ announced' = announced \cup {<<bps, now>>}
  /\ UNCHANGED policy

Queue(caller, bps) ==
  /\ caller = Custodian
  /\ timelock' = [pending |-> bps, eta |-> SaturatingAdd(now, DELAY_MS)]
  /\ announced' = announced \cup {<<bps, now>>}
  /\ UNCHANGED policy

Ready == timelock.eta # 0 /\ now >= timelock.eta

(* The timelock is the caller that the policy sees; a policy it does not   *)
(* own reverts the whole call.  The pending value is left in storage.      *)
Execute ==
  /\ Ready
  /\ SetConfidence(Timelock, timelock.pending)
  /\ timelock' = [timelock EXCEPT !.eta = 0]
  /\ UNCHANGED announced

Call ==
  \/ \E caller \in Callers :
       \/ \E owner \in Callers \cup {Timelock} : SetOwner(caller, owner)
       \/ SetParameter(caller)
       \/ \E bps \in Thresholds : Queue(caller, bps)
  \/ Execute

Next ==
  \/ Call /\ UNCHANGED now
  \/ Tick /\ UNCHANGED governanceVars

Spec == Init /\ [][Next]_vars

-----------------------------------------------------------------------------

Governed == policy.owner = Timelock

(* Once the timelock owns the policy, the threshold that takes effect is   *)
(* the one announced last, and it was announced at least the delay ago: no *)
(* order of queueing and executing applies a change early, applies one the *)
(* proposer has replaced, or lets a replacement inherit the waiting time   *)
(* of what it replaced (governance_timelock.rs:53-78).                     *)
ChangesAreAnnounced ==
  [][ Governed /\ policy' # policy =>
        \E a \in announced :
          /\ a[1] = policy'.confidence
          /\ now >= a[2] + DELAY_MS
          /\ \A b \in announced : b[2] <= a[2] ]_vars
=============================================================================
