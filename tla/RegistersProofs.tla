--------------------------- MODULE RegistersProofs ---------------------------
(***************************************************************************)
(* What the contracts without funds promise, for every chain they run on   *)
(* and whoever calls them with what: an accepted proof of reserves, an     *)
(* entry of the log, a verified agent, a change of the policy.             *)
(***************************************************************************)
EXTENDS Registers, FoldLemmas

(* Before the first proof nothing is published; afterwards the vault       *)
(* covers what was proven.                                                 *)
ReservesInv ==
  /\ TypeOK
  /\ ProvenStaysBacked
  /\ ~solvent => lastTotal = 0 /\ floor = 0

(* A vault that keeps the custody promise never lets its total fall.       *)
LEMMA TotalNeverFalls ==
  ASSUME holdings \in [Asset -> Nat], Vault!Next, Value \subseteq Nat
  PROVE  holdings' \in [Asset -> Nat] /\ Total(holdings') >= Total(holdings)
<1>1. CASE \E a \in Asset, v \in Value : Vault!Fund(a, v)
  BY <1>1, SMT DEF Vault!Fund, Asset, Total
<1>2. CASE \E from, to \in Asset, v \in Value : Vault!Move(from, to, v)
  BY <1>2, SMT DEF Vault!Move, Vault!Total, Vault!Asset, Asset, Total
<1>3. CASE Vault!Pass \/ Vault!HaltOrResume
  BY <1>3, SMT DEF Vault!Pass, Vault!HaltOrResume, Asset, Total
<1> QED BY <1>1, <1>2, <1>3 DEF Vault!Next, Vault!Asset, Asset

LEMMA InitReserves == Init => ReservesInv
<1> SUFFICES ASSUME Init PROVE ReservesInv
  OBVIOUS
<1>1. MaxClaim \in Nat
  BY ReservesAssumption
<1>2. lastTotal \in 0..MaxClaim /\ floor \in 0..MaxClaim /\ at \in 0..4
  BY <1>1, SMT DEF Init
<1>3. holdings \in [Asset -> Nat] /\ read \in [Asset -> Nat]
  BY SMT DEF Init, Vault!Init, Vault!Asset, Asset, Unread
<1>4. \A i \in 1..4 : read[Order[i]] = 0
  BY ReservesAssumption, SMT DEF Init, Unread
<1> QED BY <1>2, <1>3, <1>4 DEF Init, Vault!Init, ReservesInv, TypeOK, ProvenStaysBacked

LEMMA AcceptedIsReal ==
  ASSUME ReservesInv, NEW claim \in Claims, ProveReserves(claim)
  PROVE  /\ solvent' \in BOOLEAN /\ lastTotal' \in 0..MaxClaim /\ floor' \in 0..MaxClaim
         /\ solvent' /\ lastTotal' = Total(holdings) /\ floor' <= Total(holdings)
         /\ holdings' = holdings
         /\ lastTotal' >= lastTotal
<1>1. /\ claim.total \in 0..MaxClaim /\ claim.floor \in 0..MaxClaim
      /\ claim.total = Total(holdings) /\ claim.floor <= Total(holdings)
  BY SMT DEF Claims, ProveReserves, Accepts
<1>2. MaxClaim \in Nat
  BY ReservesAssumption
<1>3. floor \in 0..MaxClaim /\ lastTotal \in 0..MaxClaim
  BY DEF ReservesInv, TypeOK
<1>4. floor <= Total(holdings) /\ lastTotal <= Total(holdings)
  BY <1>1, <1>3, SMT DEF ReservesInv, ProvenStaysBacked
<1>5. /\ solvent' = TRUE /\ lastTotal' = claim.total
      /\ floor' = IF claim.floor > floor THEN claim.floor ELSE floor
      /\ holdings' = holdings
  BY DEF ProveReserves, vaultVars
<1> QED BY <1>1, <1>2, <1>3, <1>4, <1>5, SMT

LEMMA NextReserves == ReservesInv /\ [Next]_vars => ReservesInv'
<1> SUFFICES ASSUME ReservesInv, [Next]_vars PROVE ReservesInv'
  OBVIOUS
<1> USE DEF ReservesInv
<1>1. CASE VaultStep
  <2>1. holdings' \in [Asset -> Nat] /\ Total(holdings') >= Total(holdings)
    BY <1>1, TotalNeverFalls, ReservesAssumption DEF VaultStep, TypeOK
  <2>2. passed' \subseteq Decision /\ halted' \in BOOLEAN
    BY <1>1 DEF VaultStep, TypeOK, Vault!Next, Vault!Fund, Vault!Move, Vault!Pass,
       Vault!HaltOrResume
  <2>3. UNCHANGED <<solvent, lastTotal, floor, at, read, submitted>>
    BY <1>1 DEF VaultStep, contractVars, proverVars
  <2>4. TypeOK'
    BY <2>1, <2>2, <2>3 DEF TypeOK
  <2>5. Total(holdings) \in Nat /\ Total(holdings') \in Nat
    BY <2>1, SMT DEF TypeOK, Total, Asset
  <2>6. lastTotal \in Nat /\ floor \in Nat
    BY ReservesAssumption, SMT DEF TypeOK
  <2> QED BY <2>1, <2>3, <2>4, <2>5, <2>6, SMT DEF ProvenStaysBacked
<1>2. CASE ReadAllocation
  <2>1. Order[at + 1] \in Asset
    BY <1>2, ReservesAssumption, SMT DEF ReadAllocation, TypeOK
  <2>2. holdings[Order[at + 1]] \in Nat
    BY <2>1 DEF TypeOK
  <2>3. at' \in 0..4
    BY <1>2, SMT DEF ReadAllocation, TypeOK
  <2>4. read' \in [Asset -> Nat]
    BY <1>2, <2>2 DEF ReadAllocation, TypeOK
  <2>5. \A i \in 1..4 : i > at' => read'[Order[i]] = 0
    BY <1>2, ReservesAssumption, SMT DEF ReadAllocation, TypeOK
  <2> QED BY <1>2, <2>3, <2>4, <2>5
        DEF ReadAllocation, TypeOK, ProvenStaysBacked, vaultVars, contractVars
<1>3. CASE ProveSolvency
  <2>1. submitted' \subseteq Claims
    BY <1>3 DEF ProveSolvency, TypeOK, Proofs
  <2>2. \A i \in 1..4 : read'[Order[i]] = 0
    BY <1>3, ReservesAssumption, SMT DEF ProveSolvency, Unread
  <2> QED BY <1>3, <2>1, <2>2
        DEF ProveSolvency, TypeOK, ProvenStaysBacked, vaultVars, contractVars, Unread
<1>4. CASE GiveUp
  <2>1. \A i \in 1..4 : read'[Order[i]] = 0
    BY <1>4, ReservesAssumption, SMT DEF GiveUp, Unread
  <2> QED BY <1>4, <2>1 DEF GiveUp, TypeOK, ProvenStaysBacked, vaultVars, contractVars, Unread
<1>5. ASSUME NEW claim \in Claims, ProveReserves(claim),
             submitted' \subseteq submitted
      PROVE  ReservesInv'
  BY <1>5, AcceptedIsReal, SMT DEF ProveReserves, TypeOK, ProvenStaysBacked, vaultVars,
     proverVars
<1>6. ASSUME NEW claim \in submitted, LoseProof(claim)
      PROVE  ReservesInv'
  BY <1>6 DEF LoseProof, TypeOK, ProvenStaysBacked, vaultVars, contractVars, proverVars
<1>7. CASE UNCHANGED vars
  BY <1>7 DEF vars, TypeOK, ProvenStaysBacked, vaultVars, contractVars, proverVars
<1>8. CASE \E claim \in submitted : ExecuteProof(claim)
  BY <1>8, <1>5 DEF ExecuteProof, TypeOK
<1>9. CASE \E claim \in Others : ProveReserves(claim) /\ UNCHANGED submitted
  BY <1>9, <1>5, ReservesAssumption
<1> QED BY <1>1, <1>2, <1>3, <1>4, <1>6, <1>7, <1>8, <1>9 DEF Next

LEMMA ReservesInvariant == Spec => []ReservesInv
BY InitReserves, NextReserves, PTL DEF Spec

(* The vault, the contract and the prover keep their types, whatever the   *)
(* vault holds and whoever submits what.                                   *)
THEOREM ReservesTyped == Spec => []TypeOK
<1>1. ReservesInv => TypeOK
  BY DEF ReservesInv
<1> QED BY <1>1, ReservesInvariant, PTL

(* An accepted proof keeps holding while the vault keeps its promise: the  *)
(* total that was proven and every floor that was met stay covered         *)
(* (zk_reserves.rs:70-84).                                                 *)
THEOREM ProvenReservesStay == Spec => []ProvenStaysBacked
<1>1. ReservesInv => ProvenStaysBacked
  BY DEF ReservesInv
<1> QED BY <1>1, ReservesInvariant, PTL

(* A proof that executes late does not take the published total back       *)
(* (zk_reserves.rs:77-84, :120-121).                                       *)
THEOREM LateProofsAreHarmless == Spec => ProvenTotalNeverFallsBack
<1>1. ReservesInv /\ [Next]_vars => [lastTotal' >= lastTotal]_vars
  <2> SUFFICES ASSUME ReservesInv, Next PROVE lastTotal' >= lastTotal
    BY DEF vars
  <2>1. ASSUME NEW claim \in Claims, ProveReserves(claim)
        PROVE  lastTotal' >= lastTotal
    BY <2>1, AcceptedIsReal
  <2>2. ASSUME UNCHANGED lastTotal PROVE lastTotal' >= lastTotal
    BY <2>2, ReservesAssumption, SMT DEF ReservesInv, TypeOK
  <2>3. CASE \E claim \in submitted : ExecuteProof(claim)
    BY <2>1, <2>3 DEF ExecuteProof, ReservesInv, TypeOK
  <2>4. CASE \E claim \in Others : ProveReserves(claim) /\ UNCHANGED submitted
    BY <2>1, <2>4, ReservesAssumption
  <2> QED BY <2>2, <2>3, <2>4
        DEF Next, VaultStep, ReadAllocation, ProveSolvency, GiveUp, LoseProof,
            contractVars
<1> QED BY <1>1, ReservesInvariant, PTL DEF Spec, ProvenTotalNeverFallsBack

-----------------------------------------------------------------------------
(* The contracts share a chain and nothing else: a step of all of them is  *)
(* a step of each, or leaves it alone.                                     *)

LEMMA StepOfEach ==
  ASSUME [RegistersNext]_allVars
  PROVE  /\ [Next]_vars
         /\ [Policy!Next]_(Policy!vars)
         /\ [Log!Next]_(Log!vars)
         /\ [Kyc!Next]_(Kyc!vars)
         /\ [Reputation!Next]_reputationVars
<1> USE DEF policyVars, logVars, kycVars, reputationVars, Policy!vars,
            Policy!governanceVars, Log!vars, Log!logVars, Kyc!vars
<1>1. CASE UNCHANGED allVars
  BY <1>1 DEF allVars
<1>2. CASE RegistersNext
  <2>1. Policy!Next => UNCHANGED now \/ Policy!Tick
    BY DEF Policy!Next
  <2>2. Log!Next => UNCHANGED now \/ Log!Tick
    BY DEF Log!Next
  <2>3. [Next]_vars
    BY <1>2 DEF RegistersNext
  <2>4. [Kyc!Next]_(Kyc!vars)
    BY <1>2 DEF RegistersNext
  <2>5. [Policy!Next]_(Policy!vars)
    BY <1>2, <2>2 DEF RegistersNext, Policy!Next, Policy!Tick, Log!Tick
  <2>6. [Log!Next]_(Log!vars)
    BY <1>2, <2>1 DEF RegistersNext, Log!Next, Policy!Tick, Log!Tick
  <2>7. [Reputation!Next]_reputationVars
    BY <1>2 DEF RegistersNext
  <2> QED
    BY <2>3, <2>4, <2>5, <2>6, <2>7
<1> QED
  BY <1>1, <1>2

(* On the chain with the others, too, what was proven stays covered        *)
(* (zk_reserves.rs:70-84).                                                 *)
THEOREM ReservesStayOnTheChain == RegistersSpec => []ProvenStaysBacked
<1>1. RegistersInit => Init
  BY DEF RegistersInit
<1>2. [RegistersNext]_allVars => [Next]_vars
  BY StepOfEach
<1> QED
  BY <1>1, <1>2, ProvenReservesStay, PTL DEF RegistersSpec, Spec

-----------------------------------------------------------------------------
(* The log.                                                                *)

LogTyped ==
  /\ now \in Instants
  /\ log \in [Hash -> [decision : Verdict, signer : Key, block_time : Instants]
                        \cup {None}]

(* Signatures are not made ahead of time.                                  *)
NoneAhead == \A k \in Key, h \in Hash, t \in Instants :
               <<k, h, t>> \in signed => t <= now

LogInv == LogTyped /\ NoneAhead /\ Log!EntriesWereSignedBefore

LEMMA AttestKeeps ==
  ASSUME LogInv, NEW h \in Hash, NEW d \in Verdict, NEW k \in Key,
         Log!Attest(h, d, k), UNCHANGED now
  PROVE  LogInv'
<1> DEFINE entry == [decision |-> d, signer |-> k, block_time |-> now]
<1>1. /\ log' = [log EXCEPT ![h] = entry] /\ k = AgentKey /\ signed' = signed
      /\ \E t \in Instants : <<k, h, t>> \in signed
      /\ now' = now
  BY DEF Log!Attest, Log!HasSigned, Log!Instants, Instants
<1>2. LogTyped'
  BY <1>1 DEF LogInv, LogTyped
<1>3. NoneAhead'
  BY <1>1 DEF LogInv, NoneAhead
<1>4. ASSUME NEW g \in Hash, log'[g] # None
      PROVE  \E t \in Instants : <<AgentKey, g, t>> \in signed /\ t <= log'[g].block_time
  <2>1. CASE g = h
    <3>1. log'[g].block_time = now
      BY <1>1, <2>1 DEF LogInv, LogTyped
    <3>2. PICK t \in Instants : <<k, h, t>> \in signed
      BY <1>1
    <3> QED
      BY <1>1, <2>1, <3>1, <3>2 DEF LogInv, NoneAhead
  <2>2. CASE g # h
    BY <1>1, <1>4, <2>2
       DEF LogInv, LogTyped, Log!EntriesWereSignedBefore, Log!Instants, Instants
  <2> QED
    BY <2>1, <2>2
<1> QED
  BY <1>1, <1>2, <1>3, <1>4 DEF LogInv, Log!EntriesWereSignedBefore, Log!Instants, Instants

LEMMA LogKeeps == LogInv /\ [Log!Next]_(Log!vars) => LogInv'
<1> SUFFICES ASSUME LogInv, [Log!Next]_(Log!vars)
             PROVE  LogInv'
  OBVIOUS
<1> USE DEF LogInv
<1>1. ASSUME NEW h \in Hash, NEW k \in Key, Log!Sign(k, h), UNCHANGED now
      PROVE  LogInv'
  <2>1. LogTyped'
    BY <1>1 DEF LogTyped, Log!Sign
  <2>2. NoneAhead'
    BY <1>1, ChainAssumption DEF LogTyped, NoneAhead, Log!Sign, Instants
  <2>3. Log!EntriesWereSignedBefore'
    BY <1>1 DEF Log!EntriesWereSignedBefore, Log!Sign
  <2> QED
    BY <2>1, <2>2, <2>3
<1>2. CASE Log!Tick /\ UNCHANGED Log!logVars
  BY <1>2, ChainAssumption
     DEF LogTyped, NoneAhead, Log!EntriesWereSignedBefore, Log!Tick, Log!logVars, Instants
<1>3. CASE UNCHANGED Log!vars
  BY <1>3 DEF LogTyped, NoneAhead, Log!EntriesWereSignedBefore, Log!vars, Log!logVars
<1> QED
  BY <1>1, <1>2, <1>3, AttestKeeps DEF Log!Next, Log!Call

(* However often an entry is resubmitted and whoever submits it, it stands *)
(* for a signature of the agent's key no later than the time it bears      *)
(* (attestation_log.rs:53-70).                                             *)
THEOREM EntriesAreSigned == RegistersSpec => []Log!EntriesWereSignedBefore
<1>1. RegistersInit => LogInv
  BY ChainAssumption
     DEF RegistersInit, Log!Init, LogInv, LogTyped, NoneAhead,
         Log!EntriesWereSignedBefore, Instants
<1>2. LogInv /\ [RegistersNext]_allVars => LogInv'
  BY LogKeeps, StepOfEach
<1>3. LogInv => Log!EntriesWereSignedBefore
  BY DEF LogInv
<1> QED
  BY <1>1, <1>2, <1>3, PTL DEF RegistersSpec

-----------------------------------------------------------------------------
(* The KYC verifier.                                                       *)

KycInv == Kyc!TypeOK /\ VerifiedForTheLatestCredential

LEMMA KycKeeps == KycInv /\ [Kyc!Next]_(Kyc!vars) => KycInv'
<1> SUFFICES ASSUME KycInv, [Kyc!Next]_(Kyc!vars)
             PROVE  KycInv'
  OBVIOUS
<1> USE DEF KycInv, Kyc!TypeOK, VerifiedForTheLatestCredential,
            Kyc!VerifiedForTheLatestCredential
<1>1. ASSUME NEW y \in Credential, Kyc!MakeTranscript(y)
      PROVE  KycInv'
  BY <1>1 DEF Kyc!MakeTranscript
<1>2. ASSUME NEW a \in Agents, NEW y \in Credential, Kyc!ProveKyc(a, y)
      PROVE  KycInv'
  BY <1>2 DEF Kyc!ProveKyc, Kyc!Verifies
<1>3. ASSUME NEW a \in Agents, NEW y \in Credential, NEW caller \in Address,
             Kyc!RegisterCredential(caller, a, y)
      PROVE  KycInv'
  BY <1>3 DEF Kyc!RegisterCredential
<1>4. CASE UNCHANGED Kyc!vars
  BY <1>4 DEF Kyc!vars
<1> QED
  BY <1>1, <1>2, <1>3, <1>4 DEF Kyc!Next

LEMMA KycInvariant == RegistersSpec => []KycInv
<1>1. RegistersInit => KycInv
  BY DEF RegistersInit, Kyc!Init, KycInv, Kyc!TypeOK, VerifiedForTheLatestCredential,
         Kyc!VerifiedForTheLatestCredential
<1>2. KycInv /\ [RegistersNext]_allVars => KycInv'
  BY KycKeeps, StepOfEach
<1> QED
  BY <1>1, <1>2, PTL DEF RegistersSpec

(* Whatever the issuer replaces and whoever resubmits old transcripts, a   *)
(* verified agent is verified for its latest credential (zk_kyc.rs:42-50,  *)
(* :57-88).                                                                *)
THEOREM VerificationIsCurrent == RegistersSpec => []VerifiedForTheLatestCredential
<1>1. KycInv => VerifiedForTheLatestCredential
  BY DEF KycInv
<1> QED
  BY <1>1, KycInvariant, PTL

-----------------------------------------------------------------------------
(* The reputation registry.                                                *)

ReputationInv ==
  /\ Reputation!TypeOK
  /\ IsFiniteSet(reputation.consumed)
  /\ OnePointPerPayment

(* The registry's sum is the one that FoldLemmas is about.                 *)
LEMMA SameSum == ASSUME NEW f PROVE Reputation!SumFunction(f) = SumFunction(f)
BY DEF SumFunction, SumFunctionOnSet, FoldFunctionOnSet, MapThenFoldSet,
       Reputation!SumFunction, Reputation!SumFunctionOnSet,
       Reputation!FoldFunctionOnSet, Reputation!MapThenFoldSet

(* Its sets are counted as elsewhere.                                      *)
LEMMA SameCount ==
  ASSUME NEW S
  PROVE  /\ Reputation!IsFiniteSet(S) = IsFiniteSet(S)
         /\ Reputation!Cardinality(S) = Cardinality(S)
BY DEF IsFiniteSet, Cardinality, Reputation!IsFiniteSet, Reputation!Cardinality

LEMMA ReputationFacts ==
  /\ Payers \subseteq Address /\ IsFiniteSet(Address)
  /\ Deltas \subseteq Int /\ I64_MAX \in Nat
BY RegistersAssumption, SameCount
   DEF Reputation!ReputationAssumption, Reputation!I64

(* A score stays a score: the sum of an i64 and anything wraps.            *)
LEMMA WrapIsI64 ==
  ASSUME NEW n \in Int
  PROVE  Reputation!Wrap(n) \in Reputation!I64
<1> DEFINE width == 2 * I64_MAX + 2
<1>1. I64_MAX \in Nat
  BY ReputationFacts
<1>2. (n + I64_MAX + 1) % width \in 0..(width - 1)
  BY <1>1
<1> QED
  BY <1>1, <1>2 DEF Reputation!Wrap, Reputation!I64

LEMMA RecordKeeps ==
  ASSUME ReputationInv, NEW caller, NEW a \in Payers, NEW p \in Payments,
         Reputation!RecordPayment(caller, a, p)
  PROVE  ReputationInv'
<1>1. /\ reputation \in [score : [Address -> Reputation!I64], consumed : SUBSET Payments]
      /\ credited \in [Address -> Nat] /\ a \in Address
  BY ReputationFacts DEF ReputationInv, Reputation!TypeOK
<1>2. reputation.score[a] \in Int
  BY <1>1, ReputationFacts DEF Reputation!I64
<1>3. Reputation!Wrap(reputation.score[a] + 1) \in Reputation!I64
  BY <1>2, WrapIsI64
<1>4. /\ reputation' = [reputation EXCEPT !.consumed = @ \cup {p},
                                          !.score[a] = Reputation!Wrap(@ + 1)]
      /\ credited' = [credited EXCEPT ![a] = @ + 1]
      /\ p \notin reputation.consumed
  BY DEF Reputation!RecordPayment
<1>5. Reputation!TypeOK'
  <2> DEFINE score == [reputation.score EXCEPT ![a] = Reputation!Wrap(@ + 1)]
  <2>1. score \in [Address -> Reputation!I64]
    BY <1>1, <1>3
  <2>2. reputation' = [score |-> score, consumed |-> reputation.consumed \cup {p}]
    BY <1>1, <1>4
  <2>3. credited' \in [Address -> Nat]
    BY <1>1, <1>4
  <2> HIDE DEF score
  <2> QED
    BY <1>1, <2>1, <2>2, <2>3 DEF Reputation!TypeOK
<1>6. reputation'.consumed = reputation.consumed \cup {p}
  BY <1>1, <1>4
<1>7. /\ IsFiniteSet(reputation'.consumed)
      /\ Cardinality(reputation'.consumed) = Cardinality(reputation.consumed) + 1
  BY <1>4, <1>6, FS_AddElement DEF ReputationInv
<1>8. credited \in [Address -> Int] /\ credited' \in [Address -> Int]
  BY <1>1, <1>4
<1>9. credited'[a] = credited[a] + 1 /\ \A x \in Address \ {a} : credited'[x] = credited[x]
  BY <1>1, <1>4
<1>10. SumFunction(credited) \in Int
       /\ SumFunction(credited') = SumFunction(credited) - credited[a] + credited'[a]
  BY <1>1, <1>8, <1>9, SumOfOneMore, ReputationFacts
<1>11. SumFunction(credited') = SumFunction(credited) + 1
  BY <1>1, <1>9, <1>10
<1> QED
  BY <1>5, <1>7, <1>11, SameSum, SameCount
     DEF ReputationInv, OnePointPerPayment, Reputation!OnePointPerPayment

LEMMA ReputationKeeps == ReputationInv /\ [Reputation!Next]_reputationVars => ReputationInv'
<1> SUFFICES ASSUME ReputationInv, [Reputation!Next]_reputationVars
             PROVE  ReputationInv'
  OBVIOUS
<1>1. ASSUME NEW caller, NEW a \in Payers, NEW d \in Deltas,
             Reputation!Adjust(caller, a, d)
      PROVE  ReputationInv'
  <2>1. /\ a \in Address /\ d \in Int /\ I64_MAX \in Nat
        /\ reputation \in [score : [Address -> Reputation!I64], consumed : SUBSET Payments]
    BY ReputationFacts DEF ReputationInv, Reputation!TypeOK
  <2>2. reputation.score[a] + d \in Int
    BY <2>1 DEF Reputation!I64
  <2>3. Reputation!Wrap(reputation.score[a] + d) \in Reputation!I64
    BY <2>2, WrapIsI64
  <2>4. reputation'.consumed = reputation.consumed /\ credited' = credited
    BY <1>1, <2>1 DEF Reputation!Adjust
  <2>5. Reputation!TypeOK'
    BY <1>1, <2>1, <2>3 DEF Reputation!Adjust, ReputationInv, Reputation!TypeOK
  <2> QED
    BY <2>4, <2>5 DEF ReputationInv, OnePointPerPayment, Reputation!OnePointPerPayment
<1>2. CASE UNCHANGED reputationVars
  BY <1>2 DEF reputationVars, ReputationInv, Reputation!TypeOK, OnePointPerPayment,
              Reputation!OnePointPerPayment
<1> QED
  BY <1>1, <1>2, RecordKeeps DEF Reputation!Next, Reputation!Call

LEMMA ReputationInvariant == RegistersSpec => []ReputationInv
<1>1. RegistersInit => ReputationInv
  <2> SUFFICES ASSUME RegistersInit
               PROVE  ReputationInv
    OBVIOUS
  <2> DEFINE none_credited == [a \in Address |-> 0]
  <2>1. /\ reputation = [score |-> none_credited, consumed |-> {}]
        /\ credited = none_credited
    BY DEF RegistersInit, Reputation!Init
  <2>2. I64_MAX \in Nat /\ IsFiniteSet(Address)
    BY ReputationFacts
  <2>3. none_credited \in [Address -> Reputation!I64] /\ none_credited \in [Address -> Nat]
        /\ \A a \in Address : none_credited[a] = 0
    BY <2>2 DEF Reputation!I64
  <2> HIDE DEF none_credited
  <2>4. SumFunction(credited) = 0
    BY <2>1, <2>2, <2>3, SumOfNaturals
  <2>5. reputation.consumed = {} /\ Cardinality({}) = 0 /\ IsFiniteSet({})
    BY <2>1, FS_EmptySet
  <2> QED
    BY <2>1, <2>3, <2>4, <2>5, SameSum, SameCount
       DEF ReputationInv, Reputation!TypeOK, OnePointPerPayment,
           Reputation!OnePointPerPayment
<1>2. ReputationInv /\ [RegistersNext]_allVars => ReputationInv'
  BY ReputationKeeps, StepOfEach
<1> QED
  BY <1>1, <1>2, PTL DEF RegistersSpec

(* A payment is worth one point, in the registry's whole life and over all *)
(* payers: whatever is submitted again and for whomever, the points given  *)
(* for payments are as many as the proofs consumed                         *)
(* (reputation_registry.rs:26-40).                                         *)
THEOREM PaymentsAreWorthOnePoint == RegistersSpec => []OnePointPerPayment
<1>1. ReputationInv => OnePointPerPayment
  BY DEF ReputationInv
<1> QED
  BY <1>1, ReputationInvariant, PTL

(* Scores stay i64 values and counts stay natural, also where an addition  *)
(* wraps (reputation_registry.rs:36-39, :45-48).                           *)
LEMMA ReputationTyped == RegistersSpec => []Reputation!TypeOK
<1>1. ReputationInv => Reputation!TypeOK
  BY DEF ReputationInv
<1> QED
  BY <1>1, ReputationInvariant, PTL

-----------------------------------------------------------------------------
(* The policy and its timelock.                                            *)

(* What is queued was announced last, and waits until the delay is over: a *)
(* time that saturates is never reached (common.rs: u64::saturating_add).  *)
QueuedWasAnnounced ==
  timelock.eta # 0 =>
    \E a \in announced :
      /\ a[1] = timelock.pending
      /\ timelock.eta >= a[2] + DELAY_MS \/ timelock.eta = U64_MAX
      /\ \A b \in announced : b[2] <= a[2]

PolicyInv ==
  /\ now \in Instants
  /\ policy \in [owner : Callers \cup {Timelock}, confidence : Int,
                  max_rebalance : Values, min_reputation : Values, version : Values]
  /\ timelock \in [pending : Nat, eta : Nat]
  /\ announced \subseteq Nat \X Instants
  /\ \A a \in announced : a[2] <= now
  /\ QueuedWasAnnounced

LEMMA QueueKeeps ==
  ASSUME PolicyInv, NEW caller \in Callers, NEW bps \in Thresholds,
         Policy!Queue(caller, bps), UNCHANGED now
  PROVE  PolicyInv'
<1> DEFINE a == <<bps, now>>
<1>1. /\ timelock' = [pending |-> bps, eta |-> Policy!SaturatingAdd(now, DELAY_MS)]
      /\ announced' = announced \cup {a} /\ UNCHANGED <<policy, now>>
  BY DEF Policy!Queue
<1>2. now \in Nat /\ DELAY_MS \in Nat /\ U64_MAX \in Nat /\ bps \in Nat
  BY ChainAssumption, RegistersAssumption
     DEF PolicyInv, Instants, Policy!GovernanceAssumption
<1>3. /\ timelock'.pending = bps /\ timelock'.eta \in Nat
      /\ timelock'.eta >= now + DELAY_MS \/ timelock'.eta = U64_MAX
  BY <1>1, <1>2 DEF Policy!SaturatingAdd
<1>4. timelock' \in [pending : Nat, eta : Nat]
  BY <1>1, <1>2, <1>3
<1>5. announced' \subseteq Nat \X Instants /\ \A b \in announced' : b[2] <= now'
  BY <1>1, <1>2 DEF PolicyInv
<1>6. QueuedWasAnnounced'
  <2>1. a \in announced' /\ a[1] = timelock'.pending /\ a[2] = now
    BY <1>1, <1>3
  <2>2. timelock'.eta >= a[2] + DELAY_MS \/ timelock'.eta = U64_MAX
    BY <1>3
  <2>3. \A b \in announced' : b[2] <= a[2]
    BY <1>1, <1>5
  <2> HIDE DEF a
  <2> QED
    BY <2>1, <2>2, <2>3 DEF QueuedWasAnnounced
<1> QED
  BY <1>1, <1>4, <1>5, <1>6 DEF PolicyInv

LEMMA ExecuteKeeps ==
  ASSUME PolicyInv, Policy!Execute, UNCHANGED now
  PROVE  /\ PolicyInv'
         /\ \E a \in announced :
              /\ a[1] = policy'.confidence
              /\ now >= a[2] + DELAY_MS
              /\ \A b \in announced : b[2] <= a[2]
<1>1. /\ policy' = [policy EXCEPT !.confidence = timelock.pending]
      /\ timelock' = [timelock EXCEPT !.eta = 0]
      /\ timelock.eta # 0 /\ now >= timelock.eta
      /\ UNCHANGED <<announced, now>>
  BY DEF Policy!Execute, Policy!Ready, Policy!SetConfidence
<1>2. PICK a \in announced :
        /\ a[1] = timelock.pending
        /\ timelock.eta >= a[2] + DELAY_MS \/ timelock.eta = U64_MAX
        /\ \A b \in announced : b[2] <= a[2]
  BY <1>1 DEF PolicyInv, QueuedWasAnnounced
<1>3. now \in Nat /\ now < U64_MAX /\ U64_MAX \in Nat /\ timelock.eta \in Nat
      /\ DELAY_MS \in Nat /\ a[2] \in Nat
  <2>1. a[2] \in Instants
    BY DEF PolicyInv
  <2> QED
    BY <2>1, ChainAssumption, RegistersAssumption
       DEF PolicyInv, Instants, Policy!GovernanceAssumption
<1>4. now >= a[2] + DELAY_MS
  BY <1>1, <1>2, <1>3
<1>5. policy'.confidence = timelock.pending
  BY <1>1 DEF PolicyInv
<1>6. PolicyInv'
  BY <1>1 DEF PolicyInv, QueuedWasAnnounced
<1> QED
  BY <1>2, <1>4, <1>5, <1>6

(* The owner's own calls.  The timelock makes none of them: it is no       *)
(* account.                                                                *)
LEMMA OwnerKeeps ==
  ASSUME PolicyInv, NEW caller \in Callers, UNCHANGED now,
         \/ \E owner \in Callers \cup {Timelock} : Policy!SetOwner(caller, owner)
         \/ Policy!SetParameter(caller)
  PROVE  PolicyInv' /\ policy.owner # Timelock
<1>1. caller # Timelock /\ Thresholds \subseteq Nat
  BY RegistersAssumption DEF Policy!GovernanceAssumption
<1>2. policy.owner = caller /\ UNCHANGED <<timelock, announced>>
  BY DEF Policy!SetOwner, Policy!SetParameter, Policy!SetConfidence,
         Policy!SetMaxRebalance, Policy!SetMinReputation, Policy!SetPolicyVersion
<1>3. policy' \in [owner : Callers \cup {Timelock}, confidence : Int,
                  max_rebalance : Values, min_reputation : Values, version : Values]
  BY <1>1
     DEF PolicyInv, Policy!SetOwner, Policy!SetParameter, Policy!SetConfidence,
         Policy!SetMaxRebalance, Policy!SetMinReputation, Policy!SetPolicyVersion
<1> QED
  BY <1>1, <1>2, <1>3 DEF PolicyInv, QueuedWasAnnounced

LEMMA PolicyKeeps == PolicyInv /\ [Policy!Next]_(Policy!vars) => PolicyInv'
<1> SUFFICES ASSUME PolicyInv, [Policy!Next]_(Policy!vars)
             PROVE  PolicyInv'
  OBVIOUS
<1>1. CASE Policy!Tick /\ UNCHANGED Policy!governanceVars
  <2>1. now' \in Instants /\ now' = now + 1 /\ now \in Nat
    BY <1>1, ChainAssumption DEF PolicyInv, Policy!Tick, Instants
  <2>2. \A a \in announced : a[2] \in Instants
    BY DEF PolicyInv
  <2>3. \A a \in announced : a[2] <= now'
    BY <2>1, <2>2, ChainAssumption DEF PolicyInv, Instants
  <2> QED
    BY <1>1, <2>1, <2>3 DEF PolicyInv, QueuedWasAnnounced, Policy!governanceVars
<1>2. CASE UNCHANGED Policy!vars
  BY <1>2 DEF PolicyInv, QueuedWasAnnounced, Policy!vars, Policy!governanceVars
<1>3. CASE Policy!Call /\ UNCHANGED now
  BY <1>3, QueueKeeps, ExecuteKeeps, OwnerKeeps DEF Policy!Call
<1> QED
  BY <1>1, <1>2, <1>3 DEF Policy!Next

LEMMA PolicyInvariant == RegistersSpec => []PolicyInv
<1>1. RegistersInit => PolicyInv
  <2> SUFFICES ASSUME RegistersInit
               PROVE  PolicyInv
    OBVIOUS
  <2>1. /\ policy \in Policy!FirstPolicies /\ now = GenesisTime
        /\ timelock = [pending |-> 0, eta |-> 0] /\ announced = {}
    BY DEF RegistersInit, Policy!Init
  <2>2. Custodian \in Callers /\ Thresholds \subseteq Nat /\ now \in Instants
    BY <2>1, ChainAssumption, RegistersAssumption
       DEF Policy!GovernanceAssumption, Instants
  <2>3. policy \in [owner : Callers \cup {Timelock}, confidence : Int,
                   max_rebalance : Values, min_reputation : Values, version : Values]
    <3> DEFINE First(c) == [owner : {Custodian}, confidence : c, max_rebalance : Values,
                            min_reputation : Values, version : Values]
    <3>1. \A c : policy \in First(c) =>
            /\ policy = [owner |-> policy.owner, confidence |-> policy.confidence,
                          max_rebalance |-> policy.max_rebalance,
                          min_reputation |-> policy.min_reputation,
                          version |-> policy.version]
            /\ policy.owner = Custodian /\ policy.confidence \in c
            /\ policy.max_rebalance \in Values /\ policy.min_reputation \in Values
            /\ policy.version \in Values
      OBVIOUS
    <3>2. policy \in First(Thresholds)
      BY <2>1 DEF Policy!FirstPolicies
    <3> HIDE DEF First
    <3>3. policy.confidence \in Int
      BY <2>2, <3>1, <3>2
    <3> QED
      BY <2>2, <3>1, <3>2, <3>3
  <2>4. timelock \in [pending : Nat, eta : Nat] /\ timelock.eta = 0
    BY <2>1
  <2> QED
    BY <2>1, <2>2, <2>3, <2>4 DEF PolicyInv, QueuedWasAnnounced
<1>2. PolicyInv /\ [RegistersNext]_allVars => PolicyInv'
  BY PolicyKeeps, StepOfEach
<1> QED
  BY <1>1, <1>2, PTL DEF RegistersSpec

(* Once the timelock owns the policy, only the threshold that was queued   *)
(* last takes effect, and no sooner than the delay after it was queued,    *)
(* for every delay, also one that saturates (governance_timelock.rs:       *)
(* 53-78).                                                                 *)
THEOREM OnlyAnnouncedChanges == RegistersSpec => ChangesAreAnnounced
<1> DEFINE Announced ==
      Policy!Governed /\ policy' # policy =>
        \E a \in announced : /\ a[1] = policy'.confidence
                             /\ now >= a[2] + DELAY_MS
                             /\ \A b \in announced : b[2] <= a[2]
<1>1. PolicyInv /\ [RegistersNext]_allVars => [Announced]_(Policy!vars)
  <2> SUFFICES ASSUME PolicyInv, [RegistersNext]_allVars,
                      Policy!Governed, policy' # policy
               PROVE  \E a \in announced : /\ a[1] = policy'.confidence
                                           /\ now >= a[2] + DELAY_MS
                                           /\ \A b \in announced : b[2] <= a[2]
    OBVIOUS
  <2>1. Policy!Call /\ UNCHANGED now
    BY StepOfEach DEF Policy!Next, Policy!vars, Policy!governanceVars
  <2>2. CASE Policy!Execute
    BY <2>1, <2>2, ExecuteKeeps
  <2>3. ASSUME NEW caller \in Callers, NEW bps \in Thresholds,
               Policy!Queue(caller, bps)
        PROVE  FALSE
    BY <2>3 DEF Policy!Queue
  <2>4. ASSUME NEW caller \in Callers,
               \/ \E owner \in Callers \cup {Timelock} : Policy!SetOwner(caller, owner)
               \/ Policy!SetParameter(caller)
        PROVE  FALSE
    BY <2>1, <2>4, OwnerKeeps DEF Policy!Governed
  <2> QED
    BY <2>1, <2>2, <2>3, <2>4 DEF Policy!Call
<1> QED
  BY <1>1, PolicyInvariant, PTL
     DEF RegistersSpec, ChangesAreAnnounced, Policy!ChangesAreAnnounced

-----------------------------------------------------------------------------
(* The types of all of them.                                               *)

(* What waits in the timelock is a threshold that was proposed; at first   *)
(* nothing waits.                                                          *)
PolicyTypes ==
  /\ Policy!TypeOK
  /\ timelock.eta # 0 => timelock.pending \in Thresholds

LEMMA PolicyTypesKeep == PolicyTypes /\ [Policy!Next]_(Policy!vars) => PolicyTypes'
<1> SUFFICES ASSUME PolicyTypes, [Policy!Next]_(Policy!vars)
             PROVE  PolicyTypes'
  OBVIOUS
<1> USE DEF PolicyTypes, Policy!TypeOK, Policy!Instants
<1>1. /\ Callers \subseteq Address /\ Timelock \in Address /\ Thresholds \subseteq Nat
      /\ DELAY_MS \in 0..U64_MAX
  BY RegistersAssumption DEF Policy!GovernanceAssumption
<1>2. CASE Policy!Tick /\ UNCHANGED Policy!governanceVars
  BY <1>2, ChainAssumption DEF Policy!Tick, Policy!governanceVars, Instants
<1>3. CASE UNCHANGED Policy!vars
  BY <1>3 DEF Policy!vars, Policy!governanceVars
<1>4. ASSUME NEW caller \in Callers, NEW owner \in Callers \cup {Timelock},
             Policy!SetOwner(caller, owner), UNCHANGED now
      PROVE  PolicyTypes'
  BY <1>1, <1>4 DEF Policy!SetOwner
<1>5. ASSUME NEW caller \in Callers, Policy!SetParameter(caller), UNCHANGED now
      PROVE  PolicyTypes'
  BY <1>5 DEF Policy!SetParameter, Policy!SetConfidence, Policy!SetMaxRebalance,
              Policy!SetMinReputation, Policy!SetPolicyVersion
<1>6. ASSUME NEW caller \in Callers, NEW bps \in Thresholds,
             Policy!Queue(caller, bps), UNCHANGED now
      PROVE  PolicyTypes'
  <2>1. now \in Nat /\ DELAY_MS \in Nat /\ U64_MAX \in Nat
    BY <1>1, ChainAssumption DEF Instants
  <2>2. Policy!SaturatingAdd(now, DELAY_MS) \in 0..U64_MAX 
    BY <2>1 DEF Policy!SaturatingAdd
  <2> QED
    BY <1>6, <2>2 DEF Policy!Queue
<1>7. CASE Policy!Execute /\ UNCHANGED now
  BY <1>7, ChainAssumption DEF Policy!Execute, Policy!Ready, Policy!SetConfidence
<1> QED
  BY <1>2, <1>3, <1>4, <1>5, <1>6, <1>7 DEF Policy!Next, Policy!Call

LEMMA PolicyKeepsTypes == RegistersSpec => []PolicyTypes
<1>1. RegistersInit => PolicyTypes
  <2> SUFFICES ASSUME RegistersInit
               PROVE  PolicyTypes
    OBVIOUS
  <2>1. /\ policy \in Policy!FirstPolicies /\ now = GenesisTime
        /\ timelock = [pending |-> 0, eta |-> 0] /\ announced = {}
    BY DEF RegistersInit, Policy!Init
  <2>2. {Custodian} \subseteq Address /\ now \in Policy!Instants /\ 0 \in 0..U64_MAX
    BY <2>1, ChainAssumption, RegistersAssumption
       DEF Policy!GovernanceAssumption, Policy!Instants
  <2>3. policy \in [owner : Address, confidence : Thresholds, max_rebalance : Values,
                    min_reputation : Values, version : Values]
    BY <2>1, <2>2, Zenon DEF Policy!FirstPolicies
  <2> QED
    BY <2>1, <2>2, <2>3 DEF PolicyTypes, Policy!TypeOK
<1>2. PolicyTypes /\ [RegistersNext]_allVars => PolicyTypes'
  BY PolicyTypesKeep, StepOfEach
<1> QED
  BY <1>1, <1>2, PTL DEF RegistersSpec

LEMMA LogKeepsTypes == RegistersSpec => []Log!TypeOK
<1> USE DEF Log!TypeOK, Log!Instants, Instants
<1>1. RegistersInit => Log!TypeOK
  BY ChainAssumption DEF RegistersInit, Log!Init
<1>2. Log!TypeOK /\ [RegistersNext]_allVars => Log!TypeOK'
  <2> SUFFICES ASSUME Log!TypeOK, [RegistersNext]_allVars
               PROVE  Log!TypeOK'
    OBVIOUS
  <2>1. [Log!Next]_(Log!vars)
    BY StepOfEach
  <2>2. ASSUME NEW h \in Hash, NEW k \in Key, Log!Sign(k, h), UNCHANGED now
        PROVE  Log!TypeOK'
    BY <2>2 DEF Log!Sign
  <2>3. ASSUME NEW h \in Hash, NEW k \in Key, NEW d \in Verdict, Log!Attest(h, d, k),
               UNCHANGED now
        PROVE  Log!TypeOK'
    BY <2>3 DEF Log!Attest
  <2>4. CASE Log!Tick /\ UNCHANGED Log!logVars
    BY <2>4, ChainAssumption DEF Log!Tick, Log!logVars
  <2>5. CASE UNCHANGED Log!vars
    BY <2>5 DEF Log!vars, Log!logVars
  <2> QED
    BY <2>1, <2>2, <2>3, <2>4, <2>5 DEF Log!Next, Log!Call
<1> QED
  BY <1>1, <1>2, PTL DEF RegistersSpec

(* No order of the calls of any of the contracts leaves its types; above   *)
(* all, only a threshold that was proposed ever takes effect, never the 0  *)
(* of an empty timelock (governance_timelock.rs:67-78).                    *)
THEOREM RegistersTyped == RegistersSpec => []RegistersTypeOK
<1>1. RegistersInit => Init
  BY DEF RegistersInit
<1>2. [RegistersNext]_allVars => [Next]_vars
  BY StepOfEach
<1>3. RegistersSpec => []TypeOK
  BY <1>1, <1>2, ReservesTyped, PTL DEF RegistersSpec, Spec
<1>4. PolicyTypes => Policy!TypeOK
  BY DEF PolicyTypes
<1>5. KycInv => Kyc!TypeOK
  BY DEF KycInv
<1>6. TypeOK /\ Policy!TypeOK /\ Log!TypeOK /\ Kyc!TypeOK /\ Reputation!TypeOK
        => RegistersTypeOK
  BY DEF RegistersTypeOK
<1> QED
  BY <1>3, <1>4, <1>5, <1>6, PolicyKeepsTypes, LogKeepsTypes, KycInvariant,
     ReputationTyped, PTL
=============================================================================
