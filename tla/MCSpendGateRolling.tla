-------------------------- MODULE MCSpendGateRolling --------------------------
(***************************************************************************)
(* SpendGate with the history that the wording "rolling daily limit" of    *)
(* spend_gate.rs:1 and common.rs:52 is about: when each unit was spent.    *)
(***************************************************************************)
EXTENDS MCSpendGate, Functions

VARIABLE spentAt  \* spentAt[t]: units committed at block time t

RollingInit == Init /\ spentAt = [t \in Instants |-> 0]

RollingNext ==
  /\ Next
  /\ spentAt' = [spentAt EXCEPT ![now] = @ + spentOn'[Today] - spentOn[Today]]

RollingSpec == RollingInit /\ [][RollingNext]_<<vars, spentAt>>

(* The limit as spend_gate.rs:1 and common.rs:52 word it, for an owner who *)
(* never changes it: what is spent in any stretch of DAY_MS milliseconds   *)
(* stays within daily_limit.                                               *)
RollingLimit ==
  \A t \in Instants :
    SumFunctionOnSet(spentAt, {u \in Instants : t <= u /\ u < t + DAY_MS})
      <= gate.daily_limit
=============================================================================
