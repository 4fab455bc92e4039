------------------------------- MODULE Casper -------------------------------
(***************************************************************************)
(* What the contracts see of the Casper chain they run on.  A call is one  *)
(* transaction: it either commits every change it and its callees make, or *)
(* it reverts and changes nothing.  An action of the contract modules is a *)
(* committed transaction, and a revert is therefore a stuttering step.     *)
(***************************************************************************)
EXTENDS Integers

CONSTANTS
  Address,      \* accounts and contracts, env().caller() is one of them
  GenesisTime,  \* block time at which the contracts are installed
  MaxTime,      \* bound on the block time that a model explores
  U64_MAX       \* largest value of a u64

VARIABLE now    \* env().get_block_time()

(* Block times are milliseconds since 1970: they stay clear of the end of   *)
(* the u64 range, where saturating_add() would give up exactness.          *)
ASSUME ChainAssumption ==
  /\ GenesisTime \in Nat \ {0}
  /\ MaxTime \in Nat
  /\ U64_MAX \in Nat
  /\ GenesisTime <= MaxTime
  /\ MaxTime < U64_MAX

Instants == GenesisTime..MaxTime

(* u64::saturating_add *)
SaturatingAdd(a, b) == IF a + b <= U64_MAX THEN a + b ELSE U64_MAX

(* A block with a later timestamp: time never runs backwards, and any      *)
(* number of transactions may commit at one timestamp.                     *)
Tick == now < MaxTime /\ now' = now + 1
=============================================================================
