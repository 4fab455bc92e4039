-------------------------- MODULE ReputationRegistry --------------------------
(***************************************************************************)
(* contracts/src/reputation_registry.rs: a score per address, credited     *)
(* once per payment proof and adjusted by the authority.  `credited' is    *)
(* history: how many payments each address was ever credited for.          *)
(***************************************************************************)
EXTENDS Integers, FiniteSets, Functions

CONSTANTS
  Address,
  Authority,   \* the account that may credit and adjust, set at init
  Payers,      \* addresses that are credited or adjusted
  Proofs,      \* deploy hashes of payments
  Deltas,      \* adjustments the authority makes
  I64_MAX      \* largest value of an i64

VARIABLES reputation, credited

reputationVars == <<reputation, credited>>

I64 == (-I64_MAX - 1)..I64_MAX

(* What the constants must satisfy, assumed where it is instantiated.  An   *)
(* address is a tag and a hash of 32 bytes: there are finitely many.        *)
ReputationAssumption ==
  /\ I64_MAX \in Nat
  /\ IsFiniteSet(Address)
  /\ Payers \subseteq Address
  /\ Deltas \subseteq I64

(* The release profile has no overflow checks: an i64 sum wraps.           *)
Wrap(n) == ((n + I64_MAX + 1) % (2 * I64_MAX + 2)) - I64_MAX - 1

(* Scores are i64 values, and a proof is consumed or not.                  *)
TypeOK ==
  /\ reputation \in [score : [Address -> I64], consumed : SUBSET Proofs]
  /\ credited \in [Address -> Nat]

Init ==
  /\ reputation = [score |-> [a \in Address |-> 0], consumed |-> {}]
  /\ credited = [a \in Address |-> 0]

(* Mutant: a payment proof can be presented again.                         *)
RecordPaymentAgain(caller, payer, proof) ==
  /\ caller = Authority
  /\ reputation' = [reputation EXCEPT !.consumed = @ \cup {proof},
                                      !.score[payer] = Wrap(@ + 1)]
  /\ credited' = [credited EXCEPT ![payer] = @ + 1]

RecordPayment(caller, payer, proof) ==
  /\ caller = Authority
  /\ proof \notin reputation.consumed
  /\ reputation' = [reputation EXCEPT !.consumed = @ \cup {proof},
                                      !.score[payer] = Wrap(@ + 1)]
  /\ credited' = [credited EXCEPT ![payer] = @ + 1]

Adjust(caller, addr, delta) ==
  /\ caller = Authority
  /\ reputation' = [reputation EXCEPT !.score[addr] = Wrap(@ + delta)]
  /\ UNCHANGED credited

Call(caller) ==
  \E a \in Payers :
    \/ \E p \in Proofs : RecordPayment(caller, a, p)
    \/ \E d \in Deltas : Adjust(caller, a, d)

Next == \E caller \in Address : Call(caller)

Spec == Init /\ [][Next]_reputationVars

(* However often and for whomever the authority submits them, settled      *)
(* payments are worth one point each in total: a deploy hash credited to   *)
(* one payer is spent for every payer (reputation_registry.rs:26-40).      *)
OnePointPerPayment == SumFunction(credited) = Cardinality(reputation.consumed)
=============================================================================
