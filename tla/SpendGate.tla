------------------------------ MODULE SpendGate ------------------------------
(***************************************************************************)
(* contracts/src/spend_gate.rs: the per-transaction cap, daily limit,      *)
(* allowlist, expiry and kill switch that a vault's move must pass.        *)
(*                                                                         *)
(* `gate' is the contract's storage.  `spentOn' and `killed' are history   *)
(* variables: what was really committed against each calendar day, and     *)
(* whether the owner's last word on the expiry was revoke().               *)
(***************************************************************************)
EXTENDS Casper

CONSTANTS
  Owner,       \* the deployer, SpendGate.owner
  DAY_MS,      \* milliseconds in a day
  NoAddress,   \* `spender' before the owner sets it
  Limits,      \* <<max_per_tx, daily_limit>> pairs the owner may configure
  Expiries,    \* expiry timestamps the owner may configure, 0 = none
  Amounts,     \* amounts a spender asks for
  Spenders,    \* addresses the owner may make the spender
  Targets      \* addresses that may be allowlisted and spent to

VARIABLES gate, spentOn, killed

gateVars == <<gate, spentOn, killed>>
vars == <<now, gateVars>>

ASSUME GateAssumption ==
  /\ DAY_MS \in Nat \ {0}
  /\ NoAddress \notin Address
  /\ Limits \subseteq Nat \X Nat
  /\ Expiries \subseteq Nat
  /\ Amounts \subseteq Nat
  /\ Spenders \subseteq Address
  /\ Targets \subseteq Address

DayOf(t) == t \div DAY_MS
Today == DayOf(now)
Days == 0..DayOf(MaxTime)

(* The contract's storage, the history variables and the block time keep   *)
(* their types.                                                            *)
TypeOK ==
  /\ now \in Instants
  /\ gate \in [max_per_tx : Nat, daily_limit : Nat, spent_today : Nat,
               expiry : Nat, day_anchor : Days, allowlist : SUBSET Address,
               spender : Address \cup {NoAddress}]
  /\ spentOn \in [Days -> Nat]
  /\ killed \in BOOLEAN

-----------------------------------------------------------------------------

Init ==
  /\ now = GenesisTime
  /\ \E l \in Limits, e \in Expiries :
       gate = [max_per_tx |-> l[1], daily_limit |-> l[2], spent_today |-> 0,
               expiry |-> e, day_anchor |-> Today, allowlist |-> {},
               spender |-> NoAddress]
  /\ spentOn = [d \in Days |-> 0]
  /\ killed = FALSE

(* Mutant: the kill switch spares the block that throws it.                *)
ExpiredAfter == gate.expiry # 0 /\ now > gate.expiry

Expired == gate.expiry # 0 /\ now >= gate.expiry

(* Mutants: no day ever starts anew; the running total is not read back.   *)
SpentSoFarWithoutReset == gate.spent_today
SpentSoFarForgotten == 0

(* The running total that check() adds to: a new day starts from zero.     *)
SpentSoFar == IF Today = gate.day_anchor THEN gate.spent_today ELSE 0

(* A U512 sum that overflowed would panic and revert; the limit is itself  *)
(* a U512, so such a sum is over the limit here too.                       *)
Check(caller, target, amount) ==
  /\ caller = gate.spender
  /\ ~Expired
  /\ target \in gate.allowlist
  /\ amount <= gate.max_per_tx
  /\ SpentSoFar + amount <= gate.daily_limit
  /\ gate' = [gate EXCEPT !.day_anchor = Today,
                          !.spent_today = SpentSoFar + amount]
  /\ spentOn' = [spentOn EXCEPT ![Today] = @ + amount]
  /\ UNCHANGED killed

SetLimits(caller, limits, expiry) ==
  /\ caller = Owner
  /\ gate' = [gate EXCEPT !.max_per_tx = limits[1], !.daily_limit = limits[2],
                          !.expiry = expiry]
  /\ killed' = FALSE
  /\ UNCHANGED spentOn

SetSpender(caller, spender) ==
  /\ caller = Owner
  /\ gate' = [gate EXCEPT !.spender = spender]
  /\ UNCHANGED <<spentOn, killed>>

Revoke(caller) ==
  /\ caller = Owner
  /\ gate' = [gate EXCEPT !.expiry = now]
  /\ killed' = TRUE
  /\ UNCHANGED spentOn

AddAllowlist(caller, addr) ==
  /\ caller = Owner
  /\ gate' = [gate EXCEPT !.allowlist = @ \cup {addr}]
  /\ UNCHANGED <<spentOn, killed>>

Administer(caller) ==
  \/ \E l \in Limits, e \in Expiries : SetLimits(caller, l, e)
  \/ \E s \in Spenders : SetSpender(caller, s)
  \/ Revoke(caller)
  \/ \E a \in Targets : AddAllowlist(caller, a)

Call ==
  \E caller \in Address :
    \/ Administer(caller)
    \/ \E target \in Targets, amount \in Amounts : Check(caller, target, amount)

Next ==
  \/ Call /\ UNCHANGED now
  \/ Tick /\ UNCHANGED gateVars

Spec == Init /\ [][Next]_vars

-----------------------------------------------------------------------------

(* spent_today is exactly what was committed on the day it is anchored to, *)
(* and no later day has a commitment yet: neither a revert, nor a day      *)
(* without spending, nor a change of limits or of spender makes the        *)
(* contract's running total drift from what was really let through         *)
(* (spend_gate.rs:59-72).                                                  *)
SpentIsWhatWasCommitted ==
  /\ gate.spent_today = spentOn[gate.day_anchor]
  /\ gate.day_anchor <= Today
  /\ \A d \in Days : d > gate.day_anchor => spentOn[d] = 0

(* Whenever something is spent, the day it falls on is today, and all that *)
(* was ever committed on that day, whoever was the spender and whatever    *)
(* the limits were before, stays within the daily limit in force; the      *)
(* totals of other days are final (spend_gate.rs:59-72).                   *)
EveryDayWithinLimit ==
  [][ /\ \A d \in Days : spentOn'[d] # spentOn[d] => d = Today
      /\ spentOn' # spentOn => spentOn'[Today] <= gate.daily_limit ]_vars

(* Once the owner has revoked the gate nothing passes it, in the block of  *)
(* the revocation or later, until the owner sets new limits: the running   *)
(* total, its day and the committed totals all stand still                 *)
(* (spend_gate.rs:14-15, :89-93).                                          *)
KillSwitchHolds ==
  [][ killed => /\ spentOn' = spentOn
                /\ gate'.spent_today = gate.spent_today
                /\ gate'.day_anchor = gate.day_anchor ]_vars
=============================================================================
