------------------------- MODULE AuditorQuorumProofs -------------------------
(* Proofs that the tally of AuditorQuorum counts what it promises, for any *)
(* finite number of keys and accounts, any threshold and any stakes.       *)
EXTENDS AuditorQuorum, FoldLemmas

(***************************************************************************)
(* Every step is one of the named actions; the proofs split on these.      *)
(***************************************************************************)
LEMMA NextCases ==
  ASSUME Next
  PROVE  \/ \E key \in Auditors, i \in Instances, h \in Hash, b \in BOOLEAN :
              Sign(key, i, h, b)
         \/ \E caller \in Address, attached \in Attachments :
              RegisterWithStake(caller, attached)
         \/ \E caller \in Address, who \in Address : Slash(caller, who)
         \/ \E caller \in Address : WithdrawStake(caller)
         \/ \E caller \in Address : OpenRegister(caller)
         \/ \E h \in Hash, b \in BOOLEAN, key \in Key : Vote(h, b, key)
         \/ \E caller \in Address, h \in Hash, b \in BOOLEAN :
              VoteAsCaller(caller, h, b)
BY DEF Next, Registry, Voting

LEMMA VoteTyped ==
  ASSUME TypeOK, NEW h \in Hash, NEW b \in BOOLEAN, NEW key \in Key,
         Vote(h, b, key)
  PROVE  TypeOK'
<1>1. [quorum.approvals EXCEPT ![h] = Tally(h, b)] \in [Hash -> Nat]
  BY DEF TypeOK, Storage, Tally
<1>2. quorum.voted \cup {<<h, key>>} \in SUBSET (Hash \X Key)
  BY DEF TypeOK, Storage
<1>3. quorum' \in Storage
  BY <1>1, <1>2 DEF TypeOK, Storage, Vote
<1>4. ayesByKey' \in [Hash -> SUBSET Key]
  BY DEF TypeOK, Vote
<1> QED
  BY <1>3, <1>4 DEF TypeOK, Vote

LEMMA VoteAsCallerTyped ==
  ASSUME TypeOK, NEW caller \in Address, NEW h \in Hash, NEW b \in BOOLEAN,
         VoteAsCaller(caller, h, b)
  PROVE  TypeOK'
<1>1. [quorum.approvals EXCEPT ![h] = Tally(h, b)] \in [Hash -> Nat]
  BY DEF TypeOK, Storage, Tally
<1>2. quorum.voted_addr \cup {<<h, caller>>} \in SUBSET (Hash \X Address)
  BY DEF TypeOK, Storage
<1>3. quorum' \in Storage
  BY <1>1, <1>2 DEF TypeOK, Storage, VoteAsCaller
<1>4. ayesByCaller' \in [Hash -> SUBSET Address]
  BY DEF TypeOK, VoteAsCaller
<1> QED
  BY <1>3, <1>4 DEF TypeOK, VoteAsCaller

LEMMA RegisterTyped ==
  ASSUME TypeOK, NEW caller \in Address, NEW attached \in Attachments,
         RegisterWithStake(caller, attached)
  PROVE  TypeOK'
<1>1. attached \in Nat /\ purse' \in Nat
  BY QuorumAssumption DEF TypeOK, RegisterWithStake
<1>2. [quorum.stake EXCEPT ![caller] = @ + attached] \in [Address -> Nat]
  BY <1>1 DEF TypeOK, Storage
<1>3. quorum' \in Storage
  BY <1>2 DEF TypeOK, Storage, RegisterWithStake
<1>4. wallet' \in [Address -> Nat]
  BY <1>1 DEF TypeOK, RegisterWithStake
<1> QED
  BY <1>1, <1>3, <1>4 DEF TypeOK, RegisterWithStake

LEMMA LeaveTyped ==
  ASSUME TypeOK, NEW who \in Address, NEW to \in Address,
         quorum' = Deregistered(who), PayOut(to, quorum.stake[who]),
         UNCHANGED <<signed, ayesByKey, ayesByCaller>>
  PROVE  TypeOK'
<1>1. quorum.stake[who] \in Nat
  BY DEF TypeOK, Storage
<1>2. [quorum.stake EXCEPT ![who] = 0] \in [Address -> Nat]
  BY DEF TypeOK, Storage
<1>3. quorum' \in Storage
  BY <1>2 DEF TypeOK, Storage, Deregistered
<1>4. purse' \in Nat /\ wallet' \in [Address -> Nat]
  BY <1>1 DEF TypeOK, PayOut
<1> QED
  BY <1>3, <1>4 DEF TypeOK

LEMMA StepTyped == TypeOK /\ [Next]_quorumVars => TypeOK'
<1> SUFFICES ASSUME TypeOK, [Next]_quorumVars
             PROVE  TypeOK'
  OBVIOUS
<1>1. ASSUME NEW key \in Auditors, NEW i \in Instances, NEW h \in Hash,
             NEW b \in BOOLEAN, Sign(key, i, h, b)
      PROVE  TypeOK'
  BY <1>1, QuorumAssumption DEF Sign, SignedVote, TypeOK
<1>2. ASSUME NEW caller \in Address, NEW who \in Address, Slash(caller, who)
      PROVE  TypeOK'
  BY <1>2, LeaveTyped, QuorumAssumption DEF Slash
<1>3. ASSUME NEW caller \in Address, WithdrawStake(caller)
      PROVE  TypeOK'
  BY <1>3, LeaveTyped DEF WithdrawStake
<1>4. ASSUME NEW caller \in Address, OpenRegister(caller)
      PROVE  TypeOK'
  BY <1>4 DEF OpenRegister, TypeOK, Storage
<1>5. CASE UNCHANGED quorumVars
  BY <1>5 DEF quorumVars, TypeOK
<1> QED
  BY <1>1, <1>2, <1>3, <1>4, <1>5, NextCases, RegisterTyped, VoteTyped,
     VoteAsCallerTyped

(* The contract's storage, purse and signatures keep their types           *)
(* (auditor_quorum.rs:58-92).                                              *)
THEOREM QuorumTyped == Spec => []TypeOK
<1>1. Init => TypeOK
  BY QuorumAssumption DEF Init, TypeOK, Storage
<1> QED
  BY <1>1, StepTyped, PTL DEF Spec

-----------------------------------------------------------------------------
(***************************************************************************)
(* The tally.  One approving vote adds one to the tally and one member to  *)
(* one of the two sets of approvers, because the voter was not in it: it   *)
(* would have been marked as having voted.                                 *)
(***************************************************************************)

LEMMA AyesFinite ==
  ASSUME TypeOK, NEW h \in Hash
  PROVE  /\ IsFiniteSet(ayesByKey[h]) /\ IsFiniteSet(ayesByCaller[h])
         /\ Cardinality(ayesByKey[h]) \in Nat
         /\ Cardinality(ayesByCaller[h]) \in Nat
<1>1. ayesByKey[h] \in SUBSET Key /\ ayesByCaller[h] \in SUBSET Address
  BY DEF TypeOK
<1> QED
  BY <1>1, QuorumAssumption, FS_Subset, FS_CardinalityType

LEMMA VoteKeepsTally ==
  ASSUME TypeOK, TallyIsExact, NEW g \in Hash, NEW b \in BOOLEAN,
         NEW key \in Key, Vote(g, b, key)
  PROVE  TallyIsExact'
<1>1. /\ quorum'.voted = quorum.voted \cup {<<g, key>>}
      /\ quorum'.voted_addr = quorum.voted_addr
      /\ quorum'.approvals = [quorum.approvals EXCEPT ![g] = Tally(g, b)]
      /\ ayesByCaller' = ayesByCaller
  BY DEF Vote, TypeOK, Storage
<1>2. key \notin ayesByKey[g]
  BY DEF Vote, TallyIsExact
<1> SUFFICES ASSUME NEW h \in Hash
             PROVE  /\ quorum'.approvals[h] = Cardinality(ayesByKey'[h])
                                               + Cardinality(ayesByCaller'[h])
                    /\ \A k \in ayesByKey'[h] : <<h, k>> \in quorum'.voted
                    /\ \A a \in ayesByCaller'[h] :
                         <<h, a>> \in quorum'.voted_addr
  BY DEF TallyIsExact
<1>3. CASE h = g /\ b
  <2>1. ayesByKey'[h] = ayesByKey[h] \cup {key}
    BY <1>3 DEF Vote, TypeOK
  <2>2. Cardinality(ayesByKey'[h]) = Cardinality(ayesByKey[h]) + 1
    BY <1>2, <1>3, <2>1, AyesFinite, FS_AddElement
  <2>3. quorum'.approvals[h] = quorum.approvals[h] + 1
    BY <1>1, <1>3 DEF Tally, TypeOK, Storage
  <2>4. quorum'.approvals[h] = Cardinality(ayesByKey'[h])
                               + Cardinality(ayesByCaller'[h])
    BY <1>1, <2>2, <2>3, AyesFinite DEF TallyIsExact
  <2> QED
    BY <1>1, <1>3, <2>1, <2>4 DEF TallyIsExact
<1>4. CASE ~(h = g /\ b)
  <2>1. ayesByKey'[h] = ayesByKey[h]
    BY <1>4 DEF Vote, TypeOK
  <2>2. quorum'.approvals[h] = quorum.approvals[h]
    BY <1>1, <1>4 DEF Tally, TypeOK, Storage
  <2> QED
    BY <1>1, <2>1, <2>2 DEF TallyIsExact
<1> QED
  BY <1>3, <1>4

LEMMA VoteAsCallerKeepsTally ==
  ASSUME TypeOK, TallyIsExact, NEW caller \in Address, NEW g \in Hash,
         NEW b \in BOOLEAN, VoteAsCaller(caller, g, b)
  PROVE  TallyIsExact'
<1>1. /\ quorum'.voted_addr = quorum.voted_addr \cup {<<g, caller>>}
      /\ quorum'.voted = quorum.voted
      /\ quorum'.approvals = [quorum.approvals EXCEPT ![g] = Tally(g, b)]
      /\ ayesByKey' = ayesByKey
  BY DEF VoteAsCaller, TypeOK, Storage
<1>2. caller \notin ayesByCaller[g]
  BY DEF VoteAsCaller, TallyIsExact
<1> SUFFICES ASSUME NEW h \in Hash
             PROVE  /\ quorum'.approvals[h] = Cardinality(ayesByKey'[h])
                                               + Cardinality(ayesByCaller'[h])
                    /\ \A k \in ayesByKey'[h] : <<h, k>> \in quorum'.voted
                    /\ \A a \in ayesByCaller'[h] :
                         <<h, a>> \in quorum'.voted_addr
  BY DEF TallyIsExact
<1>3. CASE h = g /\ b
  <2>1. ayesByCaller'[h] = ayesByCaller[h] \cup {caller}
    BY <1>3 DEF VoteAsCaller, TypeOK
  <2>2. Cardinality(ayesByCaller'[h]) = Cardinality(ayesByCaller[h]) + 1
    BY <1>2, <1>3, <2>1, AyesFinite, FS_AddElement
  <2>3. quorum'.approvals[h] = quorum.approvals[h] + 1
    BY <1>1, <1>3 DEF Tally, TypeOK, Storage
  <2>4. quorum'.approvals[h] = Cardinality(ayesByKey'[h])
                               + Cardinality(ayesByCaller'[h])
    BY <1>1, <2>2, <2>3, AyesFinite DEF TallyIsExact
  <2> QED
    BY <1>1, <1>3, <2>1, <2>4 DEF TallyIsExact
<1>4. CASE ~(h = g /\ b)
  <2>1. ayesByCaller'[h] = ayesByCaller[h]
    BY <1>4 DEF VoteAsCaller, TypeOK
  <2>2. quorum'.approvals[h] = quorum.approvals[h]
    BY <1>1, <1>4 DEF Tally, TypeOK, Storage
  <2> QED
    BY <1>1, <2>1, <2>2 DEF TallyIsExact
<1> QED
  BY <1>3, <1>4

(* Signing, registering, slashing and withdrawing leave every tally and    *)
(* every vote alone: an approval once counted stays counted.               *)
LEMMA OtherStepsKeepVotes ==
  ASSUME TypeOK,
         \/ \E key \in Auditors, i \in Instances, h \in Hash, b \in BOOLEAN :
              Sign(key, i, h, b)
         \/ \E caller \in Address, attached \in Attachments :
              RegisterWithStake(caller, attached)
         \/ \E caller \in Address, who \in Address : Slash(caller, who)
         \/ \E caller \in Address : WithdrawStake(caller)
         \/ \E caller \in Address : OpenRegister(caller)
         \/ UNCHANGED quorumVars
  PROVE  /\ quorum'.approvals = quorum.approvals
         /\ quorum'.voted = quorum.voted
         /\ quorum'.voted_addr = quorum.voted_addr
         /\ UNCHANGED <<ayesByKey, ayesByCaller>>
         /\ signed \subseteq signed'
<1> USE DEF TypeOK, Storage
<1>1. ASSUME NEW caller \in Address, NEW attached \in Attachments,
             RegisterWithStake(caller, attached)
      PROVE  /\ quorum'.approvals = quorum.approvals
             /\ quorum'.voted = quorum.voted
             /\ quorum'.voted_addr = quorum.voted_addr
             /\ UNCHANGED <<ayesByKey, ayesByCaller, signed>>
  BY <1>1 DEF RegisterWithStake
<1>2. ASSUME NEW caller \in Address, NEW who \in Address, Slash(caller, who)
      PROVE  /\ quorum'.approvals = quorum.approvals
             /\ quorum'.voted = quorum.voted
             /\ quorum'.voted_addr = quorum.voted_addr
             /\ UNCHANGED <<ayesByKey, ayesByCaller, signed>>
  BY <1>2 DEF Slash, Deregistered
<1>3. ASSUME NEW caller \in Address, WithdrawStake(caller)
      PROVE  /\ quorum'.approvals = quorum.approvals
             /\ quorum'.voted = quorum.voted
             /\ quorum'.voted_addr = quorum.voted_addr
             /\ UNCHANGED <<ayesByKey, ayesByCaller, signed>>
  BY <1>3 DEF WithdrawStake, Deregistered
<1>4. ASSUME NEW caller \in Address, OpenRegister(caller)
      PROVE  /\ quorum'.approvals = quorum.approvals
             /\ quorum'.voted = quorum.voted
             /\ quorum'.voted_addr = quorum.voted_addr
             /\ UNCHANGED <<ayesByKey, ayesByCaller, signed>>
  BY <1>4 DEF OpenRegister
<1> QED
  BY <1>1, <1>2, <1>3, <1>4 DEF Sign, quorumVars

LEMMA StepKeepsTally == TypeOK /\ TallyIsExact /\ [Next]_quorumVars => TallyIsExact'
<1> SUFFICES ASSUME TypeOK, TallyIsExact, [Next]_quorumVars
             PROVE  TallyIsExact'
  OBVIOUS
<1>1. CASE \E h \in Hash, b \in BOOLEAN, key \in Key : Vote(h, b, key)
  BY <1>1, VoteKeepsTally
<1>2. CASE \E caller \in Address, h \in Hash, b \in BOOLEAN :
             VoteAsCaller(caller, h, b)
  BY <1>2, VoteAsCallerKeepsTally
<1>3. ASSUME quorum'.approvals = quorum.approvals,
             quorum'.voted = quorum.voted,
             quorum'.voted_addr = quorum.voted_addr,
             UNCHANGED <<ayesByKey, ayesByCaller>>
      PROVE  TallyIsExact'
  BY <1>3 DEF TallyIsExact
<1> QED
  BY <1>1, <1>2, <1>3, NextCases, OtherStepsKeepVotes

(* No step takes an approval out of a tally again.                         *)
LEMMA ApprovalsNeverDrop ==
  ASSUME TypeOK, [Next]_quorumVars, NEW h \in Hash
  PROVE  /\ quorum.approvals[h] \in Nat /\ quorum'.approvals[h] \in Nat
         /\ quorum.approvals[h] <= quorum'.approvals[h]
<1>1. quorum.approvals \in [Hash -> Nat]
  BY DEF TypeOK, Storage
<1>2. ASSUME NEW g \in Hash, NEW b \in BOOLEAN,
             quorum'.approvals =
               [quorum.approvals EXCEPT ![g] = Tally(g, b)]
      PROVE  /\ quorum'.approvals[h] \in Nat
             /\ quorum.approvals[h] <= quorum'.approvals[h]
  BY <1>1, <1>2 DEF Tally
<1>3. ASSUME NEW g \in Hash, NEW b \in BOOLEAN, NEW key \in Key,
             Vote(g, b, key)
      PROVE  quorum'.approvals = [quorum.approvals EXCEPT ![g] = Tally(g, b)]
  BY <1>3 DEF Vote, TypeOK, Storage
<1>4. ASSUME NEW caller \in Address, NEW g \in Hash, NEW b \in BOOLEAN,
             VoteAsCaller(caller, g, b)
      PROVE  quorum'.approvals = [quorum.approvals EXCEPT ![g] = Tally(g, b)]
  BY <1>4 DEF VoteAsCaller, TypeOK, Storage
<1>5. CASE \/ \E g \in Hash, b \in BOOLEAN, key \in Key : Vote(g, b, key)
           \/ \E caller \in Address, g \in Hash, b \in BOOLEAN :
                VoteAsCaller(caller, g, b)
  BY <1>1, <1>2, <1>3, <1>4, <1>5
<1>6. CASE quorum'.approvals = quorum.approvals
  BY <1>1, <1>6
<1> QED
  BY <1>5, <1>6, NextCases, OtherStepsKeepVotes

(* A tally is the number of keys plus the number of accounts whose         *)
(* approval it counted, once each (auditor_quorum.rs:189-199, :222-232).   *)
THEOREM TallyCountsEachVoterOnce == Spec => []TallyIsExact
<1>1. Init => TallyIsExact
  BY FS_EmptySet DEF Init, TallyIsExact
<1> QED
  BY <1>1, StepKeepsTally, QuorumTyped, PTL DEF Spec

(* A key's approval is counted only if that authorised key signed it for   *)
(* this deployment (auditor_quorum.rs:174-188).                            *)
THEOREM ApprovalsAreSigned == Spec => []OnlySignedApprovalsCount
<1>1. Init => OnlySignedApprovalsCount
  BY DEF Init, OnlySignedApprovalsCount
<1>2. TypeOK /\ OnlySignedApprovalsCount /\ [Next]_quorumVars
        => OnlySignedApprovalsCount'
  <2> SUFFICES ASSUME TypeOK, OnlySignedApprovalsCount, [Next]_quorumVars
               PROVE  OnlySignedApprovalsCount'
    OBVIOUS
  <2>1. ASSUME NEW g \in Hash, NEW b \in BOOLEAN, NEW key \in Key,
               Vote(g, b, key)
        PROVE  OnlySignedApprovalsCount'
    <3>1. \A h \in Hash : \A k \in ayesByKey'[h] :
            k \in ayesByKey[h] \/ (k = key /\ h = g /\ b)
      BY <2>1 DEF Vote, TypeOK
    <3>2. signed' = signed /\ key \in Auditors /\ SignatureVerifies(key, g, b)
      BY <2>1 DEF Vote
    <3>3. ASSUME NEW h \in Hash, NEW k \in ayesByKey'[h]
          PROVE  k \in Auditors /\ SignatureVerifies(k, h, TRUE)
      <4>1. CASE k \in ayesByKey[h]
        BY <4>1 DEF OnlySignedApprovalsCount
      <4>2. CASE k = key /\ h = g /\ b
        <5>1. b = TRUE
          BY <4>2
        <5> QED
          BY <3>2, <4>2, <5>1
      <4> QED
        BY <3>1, <4>1, <4>2
    <3> QED
      BY <3>2, <3>3 DEF OnlySignedApprovalsCount, SignatureVerifies
  <2>2. ASSUME NEW caller \in Address, NEW h \in Hash, NEW b \in BOOLEAN,
               VoteAsCaller(caller, h, b)
        PROVE  OnlySignedApprovalsCount'
    BY <2>2 DEF VoteAsCaller, OnlySignedApprovalsCount, SignatureVerifies
  <2>3. ASSUME UNCHANGED ayesByKey, signed \subseteq signed'
        PROVE  OnlySignedApprovalsCount'
    BY <2>3 DEF OnlySignedApprovalsCount, SignatureVerifies
  <2> QED
    BY <2>1, <2>2, <2>3, NextCases, OtherStepsKeepVotes
<1> QED
  BY <1>1, <1>2, QuorumTyped, PTL DEF Spec

-----------------------------------------------------------------------------
(***************************************************************************)
(* What the tally says about people: each of the two paths counts an       *)
(* account at most once, so the tally is at most twice their number.       *)
(***************************************************************************)

LEMMA TallyAtMostTwice ==
  ASSUME TypeOK, TallyIsExact, NEW h \in Hash
  PROVE  quorum.approvals[h] <= 2 * Cardinality(Approvers(h))
<1> DEFINE accounts == {AccountOf[k] : k \in ayesByKey[h]}
<1>1. ayesByKey[h] \in SUBSET Key /\ ayesByCaller[h] \in SUBSET Address
  BY DEF TypeOK
<1>2. IsFiniteSet(Approvers(h)) /\ Cardinality(Approvers(h)) \in Nat
  <2>1. Approvers(h) \in SUBSET Address
    BY <1>1, QuorumAssumption DEF Approvers
  <2> QED
    BY <2>1, QuorumAssumption, FS_Subset, FS_CardinalityType
<1>3. Cardinality(ayesByCaller[h]) <= Cardinality(Approvers(h))
  <2>1. ayesByCaller[h] \in SUBSET Approvers(h)
    BY DEF Approvers
  <2> QED
    BY <1>2, <2>1, FS_Subset
<1>4. Cardinality(ayesByKey[h]) <= Cardinality(Approvers(h))
  <2> DEFINE account == [k \in ayesByKey[h] |-> AccountOf[k]]
  <2>1. account \in [ayesByKey[h] -> Approvers(h)]
    BY DEF Approvers
  <2>2. \A j, k \in ayesByKey[h] : account[j] = account[k] => j = k
    BY <1>1, QuorumAssumption
  <2>3. account \in Injection(ayesByKey[h], Approvers(h))
    BY <2>1, <2>2 DEF Injection, IsInjective
  <2> QED
    BY <1>2, <2>3, FS_Injection
<1>5. quorum.approvals[h] =
        Cardinality(ayesByKey[h]) + Cardinality(ayesByCaller[h])
  BY DEF TallyIsExact
<1> QED
  BY <1>2, <1>3, <1>4, <1>5, AyesFinite

(* A decision that passed has at least half the threshold of different     *)
(* accounts behind it, whatever happened to their registration and bonds   *)
(* since (auditor_quorum.rs:70-74, :242-244).                              *)
THEOREM PassedByHalfTheThreshold == Spec => []ApprovedByHalf
<1>1. TypeOK /\ TallyIsExact => ApprovedByHalf
  <2> SUFFICES ASSUME TypeOK, TallyIsExact, NEW h \in Hash, Approved(h)
               PROVE  2 * Cardinality(Approvers(h)) >= Threshold
    BY DEF ApprovedByHalf
  <2>1. Approvers(h) \in SUBSET Address
    BY QuorumAssumption DEF Approvers, TypeOK
  <2>2. Cardinality(Approvers(h)) \in Nat
    BY <2>1, QuorumAssumption, FS_Subset, FS_CardinalityType
  <2>3. quorum.approvals[h] \in Nat
    BY DEF TypeOK, Storage
  <2> QED
    BY <2>2, <2>3, TallyAtMostTwice, QuorumAssumption DEF Approved
<1> QED
  BY <1>1, QuorumTyped, TallyCountsEachVoterOnce, PTL

-----------------------------------------------------------------------------
(* A bond belongs to a registered account and meets the minimum, in every  *)
(* order of registering, slashing and withdrawing                          *)
(* (auditor_quorum.rs:117-158).                                            *)
THEOREM BondsBelongToRegistered == Spec => []BondedIsRegistered
<1>1. Init => BondedIsRegistered
  BY DEF Init, BondedIsRegistered
<1>2. TypeOK /\ BondedIsRegistered /\ [Next]_quorumVars => BondedIsRegistered'
  <2> SUFFICES ASSUME TypeOK, BondedIsRegistered, [Next]_quorumVars
               PROVE  BondedIsRegistered'
    OBVIOUS
  <2> USE DEF TypeOK, Storage
  <2>1. ASSUME NEW caller \in Address, NEW attached \in Attachments,
               RegisterWithStake(caller, attached)
        PROVE  BondedIsRegistered'
    <3>1. attached \in Nat /\ attached >= MinStake /\ MinStake \in Nat
      BY <2>1, QuorumAssumption DEF RegisterWithStake
    <3>2. /\ quorum'.stake = [quorum.stake EXCEPT ![caller] = @ + attached]
          /\ quorum'.auditor_addrs = quorum.auditor_addrs \cup {caller}
      BY <2>1 DEF RegisterWithStake
    <3> QED
      BY <3>1, <3>2 DEF BondedIsRegistered
  <2>2. ASSUME NEW who \in Address, quorum' = Deregistered(who)
        PROVE  BondedIsRegistered'
    <3>1. /\ quorum'.stake = [quorum.stake EXCEPT ![who] = 0]
          /\ quorum'.auditor_addrs = quorum.auditor_addrs \ {who}
      BY <2>2 DEF Deregistered
    <3> QED
      BY <3>1 DEF BondedIsRegistered
  <2>3. ASSUME quorum'.stake = quorum.stake,
               quorum.auditor_addrs \subseteq quorum'.auditor_addrs
        PROVE  BondedIsRegistered'
    BY <2>3 DEF BondedIsRegistered
  <2>4. CASE \E caller \in Address : OpenRegister(caller)
    BY <2>3, <2>4 DEF OpenRegister
  <2>5. CASE \E h \in Hash, b \in BOOLEAN, key \in Key : Vote(h, b, key)
    BY <2>3, <2>5 DEF Vote
  <2>6. CASE \E caller \in Address, h \in Hash, b \in BOOLEAN :
               VoteAsCaller(caller, h, b)
    BY <2>3, <2>6 DEF VoteAsCaller
  <2>7. CASE \/ UNCHANGED quorumVars
             \/ \E key \in Auditors, i \in Instances, h \in Hash, b \in BOOLEAN :
                  Sign(key, i, h, b)
    BY <2>3, <2>7 DEF quorumVars, Sign
  <2> QED
    BY <2>1, <2>2, <2>4, <2>5, <2>6, <2>7, NextCases DEF Slash, WithdrawStake
<1> QED
  BY <1>1, <1>2, QuorumTyped, PTL DEF Spec

-----------------------------------------------------------------------------
(* The purse.  A registration adds the same amount to the purse and to one *)
(* bond, a slash and a withdrawal take one whole bond out of both.         *)

LEMMA OneBondChanges ==
  ASSUME TypeOK, BondsAreBacked, NEW who \in Address, NEW amount \in Nat,
         quorum'.stake = [quorum.stake EXCEPT ![who] = amount],
         purse' = purse - quorum.stake[who] + amount
  PROVE  BondsAreBacked'
<1>1. quorum.stake \in [Address -> Nat]
  BY DEF TypeOK, Storage
<1>2. quorum.stake \in [Address -> Int] /\ quorum'.stake \in [Address -> Int]
  BY <1>1
<1>3. quorum'.stake[who] = amount
      /\ \A a \in Address \ {who} : quorum'.stake[a] = quorum.stake[a]
  BY <1>1
<1>4. SumFunction(quorum'.stake) = SumFunction(quorum.stake) - quorum.stake[who] + amount
  BY <1>2, <1>3, SumOfOneMore, QuorumAssumption
<1> QED
  BY <1>4 DEF BondsAreBacked

(* The contract holds exactly the bonds it owes, whoever registers, is     *)
(* slashed or withdraws, in any order and any number of times              *)
(* (auditor_quorum.rs:117-158).                                            *)
THEOREM BondsStayBacked == Spec => []BondsAreBacked
<1>1. Init => BondsAreBacked
  <2> SUFFICES ASSUME Init
               PROVE  purse = SumFunction(quorum.stake)
    BY DEF BondsAreBacked
  <2>1. quorum.stake = [a \in Address |-> 0]
    BY DEF Init
  <2>2. SumFunction(quorum.stake) = 0
    BY <2>1, SumOfNaturals, QuorumAssumption
  <2> QED
    BY <2>2 DEF Init
<1>2. TypeOK /\ BondsAreBacked /\ [Next]_quorumVars => BondsAreBacked'
  <2> SUFFICES ASSUME TypeOK, BondsAreBacked, [Next]_quorumVars
               PROVE  BondsAreBacked'
    OBVIOUS
  <2>1. ASSUME NEW caller \in Address, NEW attached \in Attachments,
               RegisterWithStake(caller, attached)
        PROVE  BondsAreBacked'
    <3>1. /\ attached \in Nat /\ quorum.stake[caller] \in Nat /\ purse \in Nat
          /\ purse' = purse + attached
      BY <2>1, QuorumAssumption DEF TypeOK, Storage, RegisterWithStake
    <3>2. quorum'.stake = [quorum.stake EXCEPT ![caller] = quorum.stake[caller] + attached]
      BY <2>1 DEF RegisterWithStake, TypeOK, Storage
    <3>3. purse' = purse - quorum.stake[caller] + (quorum.stake[caller] + attached)
      BY <3>1
    <3> QED
      BY <3>1, <3>2, <3>3, OneBondChanges
  <2>2. ASSUME NEW who \in Address, NEW to \in Address,
               quorum' = Deregistered(who), PayOut(to, quorum.stake[who])
        PROVE  BondsAreBacked'
    <3>1. quorum.stake[who] \in Nat /\ purse \in Nat
          /\ purse' = purse - quorum.stake[who] + 0
      BY <2>2 DEF TypeOK, Storage, PayOut
    <3>2. quorum'.stake = [quorum.stake EXCEPT ![who] = 0]
      BY <2>2 DEF Deregistered, TypeOK, Storage
    <3> QED
      BY <3>1, <3>2, OneBondChanges
  <2>3. ASSUME quorum'.stake = quorum.stake, purse' = purse
        PROVE  BondsAreBacked'
    BY <2>3 DEF BondsAreBacked
  <2>4. CASE \E caller \in Address, who \in Address : Slash(caller, who)
    BY <2>2, <2>4, QuorumAssumption DEF Slash
  <2>5. CASE \E caller \in Address : WithdrawStake(caller)
    BY <2>2, <2>5 DEF WithdrawStake
  <2>6. CASE \E caller \in Address : OpenRegister(caller)
    BY <2>3, <2>6 DEF OpenRegister, TypeOK, Storage
  <2>7. CASE \E h \in Hash, b \in BOOLEAN, key \in Key : Vote(h, b, key)
    BY <2>3, <2>7 DEF Vote, TypeOK, Storage
  <2>8. CASE \E caller \in Address, h \in Hash, b \in BOOLEAN :
               VoteAsCaller(caller, h, b)
    BY <2>3, <2>8 DEF VoteAsCaller, TypeOK, Storage
  <2>9. CASE \/ UNCHANGED quorumVars
             \/ \E key \in Auditors, i \in Instances, h \in Hash, b \in BOOLEAN :
                  Sign(key, i, h, b)
    BY <2>3, <2>9 DEF quorumVars, Sign
  <2> QED
    BY <2>1, <2>4, <2>5, <2>6, <2>7, <2>8, <2>9, NextCases
<1> QED
  BY <1>1, <1>2, QuorumTyped, PTL DEF Spec

(* Any bond can be paid out at any time: transfer_tokens never reverts for *)
(* want of funds, so neither a slash nor a withdrawal can be blocked by    *)
(* others (auditor_quorum.rs:132-158).                                     *)
BondsCanBePaid == \A a \in Address : quorum.stake[a] <= purse

THEOREM NoBondIsStuck == Spec => []BondsCanBePaid
<1>1. TypeOK /\ BondsAreBacked => BondsCanBePaid
  <2> SUFFICES ASSUME TypeOK, BondsAreBacked, NEW a \in Address
               PROVE  quorum.stake[a] <= purse
    BY DEF BondsCanBePaid
  <2>1. quorum.stake \in [Address -> Nat]
    BY DEF TypeOK, Storage
  <2> QED
    BY <2>1, SumCoversEach, QuorumAssumption DEF BondsAreBacked
<1> QED
  BY <1>1, QuorumTyped, BondsStayBacked, PTL
=============================================================================
