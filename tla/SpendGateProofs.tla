--------------------------- MODULE SpendGateProofs ---------------------------
(* Proofs that SpendGate keeps its promises for every value of its         *)
(* constants: any number of addresses, any limits and any bound on time.   *)
EXTENDS SpendGate, TLAPS

(* Days follow the block time: a later time never falls on an earlier day. *)
(* The code divides u64 timestamps the same way (spend_gate.rs:35, :60).   *)
LEMMA DayOfMonotone ==
  ASSUME NEW s \in Nat, NEW t \in Nat, s <= t
  PROVE  DayOf(s) \in Nat /\ DayOf(t) \in Nat /\ DayOf(s) <= DayOf(t)
<1>1. DAY_MS \in Nat \ {0}
  BY GateAssumption
<1>2. DayOf(s) \in Int /\ DayOf(t) \in Int
  BY <1>1 DEF DayOf
<1> DEFINE q == DayOf(s)
           r == DayOf(t)
<1>3. DAY_MS * q <= s /\ s < DAY_MS * q + DAY_MS
  BY <1>1 DEF DayOf
<1>4. DAY_MS * r <= t /\ t < DAY_MS * r + DAY_MS
  BY <1>1 DEF DayOf
<1> QED
  BY <1>1, <1>2, <1>3, <1>4 DEF DayOf

LEMMA TodayIsADay ==
  ASSUME now \in Instants
  PROVE  Today \in Days /\ Today \in Nat /\ Days \subseteq Nat
BY ChainAssumption, DayOfMonotone DEF Today, Days, Instants

(***************************************************************************)
(* Type correctness.                                                       *)
(***************************************************************************)

LEMMA CallTyped == TypeOK /\ Call /\ UNCHANGED now => TypeOK'
<1> SUFFICES ASSUME TypeOK, UNCHANGED now, Call
             PROVE  TypeOK'
  OBVIOUS
<1> USE GateAssumption, TodayIsADay DEF TypeOK
<1>1. PICK caller \in Address :
        \/ Administer(caller)
        \/ \E target \in Targets, amount \in Amounts :
             Check(caller, target, amount)
  BY DEF Call
<1>2. ASSUME NEW l \in Limits, NEW e \in Expiries, SetLimits(caller, l, e)
      PROVE  TypeOK'
  BY <1>2 DEF SetLimits
<1>3. ASSUME NEW s \in Spenders, SetSpender(caller, s)
      PROVE  TypeOK'
  BY <1>3 DEF SetSpender
<1>4. CASE Revoke(caller)
  BY <1>4, ChainAssumption DEF Revoke, Instants
<1>5. ASSUME NEW a \in Targets, AddAllowlist(caller, a)
      PROVE  TypeOK'
  BY <1>5 DEF AddAllowlist
<1>6. ASSUME NEW target \in Targets, NEW amount \in Amounts,
             Check(caller, target, amount)
      PROVE  TypeOK'
  <2>1. amount \in Nat /\ SpentSoFar \in Nat /\ Today \in Days
    BY DEF SpentSoFar
  <2>2. SpentSoFar + amount \in Nat
    BY <2>1
  <2>3. gate' = [gate EXCEPT !.day_anchor = Today,
                             !.spent_today = SpentSoFar + amount]
    BY <1>6 DEF Check
  <2>4. spentOn' \in [Days -> Nat] /\ killed' \in BOOLEAN /\ now' \in Instants
    BY <1>6, <2>1 DEF Check
  <2> HIDE DEF SpentSoFar
  <2> QED
    BY <2>1, <2>2, <2>3, <2>4
<1> QED
  BY <1>1, <1>2, <1>3, <1>4, <1>5, <1>6 DEF Administer

(* The gate's storage and the history keep their types, for every set of   *)
(* limits, expiries and amounts (spend_gate.rs:10-25).                     *)
THEOREM SpendGateTyped == Spec => []TypeOK
<1>1. Init => TypeOK
  <2> SUFFICES ASSUME Init PROVE TypeOK
    OBVIOUS
  <2>1. now \in Instants
    BY ChainAssumption DEF Init, Instants
  <2>2. PICK l \in Limits, e \in Expiries :
          gate = [max_per_tx |-> l[1], daily_limit |-> l[2], spent_today |-> 0,
                  expiry |-> e, day_anchor |-> Today, allowlist |-> {},
                  spender |-> NoAddress]
    BY DEF Init
  <2>3. l[1] \in Nat /\ l[2] \in Nat /\ e \in Nat
    BY GateAssumption
  <2> QED
    BY <2>1, <2>2, <2>3, TodayIsADay DEF Init, TypeOK
<1>2. TypeOK /\ [Next]_vars => TypeOK'
  <2>1. TypeOK /\ Tick /\ UNCHANGED gateVars => TypeOK'
    BY ChainAssumption DEF TypeOK, Tick, gateVars, Instants
  <2>2. TypeOK /\ UNCHANGED vars => TypeOK'
    BY DEF TypeOK, vars, gateVars
  <2> QED
    BY <2>1, <2>2, CallTyped DEF Next
<1> QED
  BY <1>1, <1>2, PTL DEF Spec
-----------------------------------------------------------------------------
(***************************************************************************)
(* The running total.  SpentIsWhatWasCommitted is inductive given the      *)
(* types: a check on a new day starts from zero because that day has no    *)
(* commitment yet, which is its third conjunct.                            *)
(***************************************************************************)

LEMMA CheckKeepsTotal ==
  ASSUME TypeOK, SpentIsWhatWasCommitted, UNCHANGED now,
         NEW caller, NEW target \in Targets, NEW amount \in Amounts,
         Check(caller, target, amount)
  PROVE  /\ SpentIsWhatWasCommitted'
         /\ \A d \in Days : spentOn'[d] # spentOn[d] => d = Today
         /\ spentOn'[Today] <= gate.daily_limit
<1>1. Today \in Days /\ Today \in Nat /\ Days \subseteq Nat /\ amount \in Nat
  BY TodayIsADay, GateAssumption DEF TypeOK
<1>2. Today' = Today
  BY DEF Today
<1>3. SpentSoFar = spentOn[Today]
  <2>1. gate.day_anchor \in Nat /\ gate.day_anchor <= Today
    BY <1>1 DEF SpentIsWhatWasCommitted, TypeOK
  <2>2. Today # gate.day_anchor => Today > gate.day_anchor
    BY <1>1, <2>1
  <2> QED
    BY <1>1, <2>2 DEF SpentSoFar, SpentIsWhatWasCommitted
<1>4. /\ gate'.day_anchor = Today
      /\ gate'.spent_today = SpentSoFar + amount
      /\ spentOn' = [spentOn EXCEPT ![Today] = @ + amount]
      /\ SpentSoFar + amount <= gate.daily_limit
  BY DEF Check, TypeOK
<1>5. spentOn'[Today] = spentOn[Today] + amount
  BY <1>1, <1>4 DEF TypeOK
<1>6. \A d \in Days : d # Today => spentOn'[d] = spentOn[d]
  BY <1>4 DEF TypeOK
<1>7. \A d \in Days : d > Today => spentOn'[d] = 0
  <2> SUFFICES ASSUME NEW d \in Days, d > Today
               PROVE  spentOn'[d] = 0
    OBVIOUS
  <2>1. gate.day_anchor \in Nat /\ gate.day_anchor <= Today /\ d \in Nat
    BY <1>1 DEF SpentIsWhatWasCommitted, TypeOK
  <2>2. d # Today /\ d > gate.day_anchor
    BY <1>1, <2>1
  <2> QED
    BY <1>6, <2>2 DEF SpentIsWhatWasCommitted
<1>8. SpentIsWhatWasCommitted'
  <2>1. gate'.spent_today = spentOn'[gate'.day_anchor]
    BY <1>3, <1>4, <1>5
  <2>2. gate'.day_anchor <= Today'
    BY <1>1, <1>2, <1>4
  <2> QED
    BY <1>4, <1>7, <2>1, <2>2 DEF SpentIsWhatWasCommitted
<1> QED
  BY <1>3, <1>4, <1>5, <1>6, <1>8

(* The owner's calls leave the running total, its day and the history.     *)
LEMMA AdministerKeepsTotal ==
  ASSUME TypeOK, NEW caller, Administer(caller)
  PROVE  /\ gate'.spent_today = gate.spent_today
         /\ gate'.day_anchor = gate.day_anchor
         /\ spentOn' = spentOn
BY DEF Administer, SetLimits, SetSpender, Revoke, AddAllowlist, TypeOK

LEMMA StepKeepsTotal ==
  ASSUME TypeOK, SpentIsWhatWasCommitted, [Next]_vars
  PROVE  /\ SpentIsWhatWasCommitted'
         /\ \A d \in Days : spentOn'[d] # spentOn[d] => d = Today
         /\ spentOn' # spentOn => spentOn'[Today] <= gate.daily_limit
<1>1. CASE Call /\ UNCHANGED now
  <2>1. PICK caller \in Address :
          \/ Administer(caller)
          \/ \E target \in Targets, amount \in Amounts :
               Check(caller, target, amount)
    BY <1>1 DEF Call
  <2>2. CASE Administer(caller)
    BY <1>1, <2>2, AdministerKeepsTotal DEF SpentIsWhatWasCommitted, Today
  <2> QED
    BY <1>1, <2>1, <2>2, CheckKeepsTotal
<1>2. CASE Tick /\ UNCHANGED gateVars
  <2>1. now \in Nat /\ now' \in Nat /\ now <= now'
    BY <1>2, ChainAssumption DEF Tick, TypeOK, Instants
  <2>2. Today \in Nat /\ Today' \in Nat /\ Today <= Today'
    BY <2>1, DayOfMonotone DEF Today
  <2>3. gate.day_anchor \in Nat
    BY TodayIsADay DEF TypeOK
  <2> QED
    BY <1>2, <2>2, <2>3 DEF SpentIsWhatWasCommitted, gateVars
<1>3. CASE UNCHANGED vars
  BY <1>3 DEF SpentIsWhatWasCommitted, Today, vars, gateVars
<1> QED
  BY <1>1, <1>2, <1>3 DEF Next

(* What was committed on a day is never taken back.                        *)
LEMMA SpentNeverDrops ==
  ASSUME TypeOK, [Next]_vars, NEW d \in Days
  PROVE  /\ spentOn[d] \in Nat /\ spentOn'[d] \in Nat
         /\ spentOn[d] <= spentOn'[d]
<1>1. spentOn \in [Days -> Nat]
  BY DEF TypeOK
<1>2. ASSUME NEW caller, NEW target, NEW amount \in Amounts,
             Check(caller, target, amount)
      PROVE  spentOn'[d] \in Nat /\ spentOn[d] <= spentOn'[d]
  <2>1. spentOn' = [spentOn EXCEPT ![Today] = @ + amount]
    BY <1>2 DEF Check
  <2> QED
    BY <1>1, <2>1, GateAssumption
<1>3. CASE spentOn' = spentOn
  BY <1>1, <1>3
<1> QED
  BY <1>1, <1>2, <1>3, AdministerKeepsTotal DEF Next, Call, vars, gateVars

(* The gate's running total never drifts from what it let through.         *)
THEOREM SpentIsExact == Spec => []SpentIsWhatWasCommitted
<1>1. Init /\ TypeOK => SpentIsWhatWasCommitted
  BY TodayIsADay DEF Init, TypeOK, SpentIsWhatWasCommitted
<1>2. TypeOK /\ SpentIsWhatWasCommitted /\ [Next]_vars
        => SpentIsWhatWasCommitted'
  BY StepKeepsTotal
<1> QED
  BY <1>1, <1>2, SpendGateTyped, PTL DEF Spec

(* What is committed on any one calendar day stays within the daily limit  *)
(* in force when it is committed, through every change of limits, of       *)
(* spender and of expiry (spend_gate.rs:59-72).                            *)
THEOREM DailyLimitHolds == Spec => EveryDayWithinLimit
<1>1. TypeOK /\ SpentIsWhatWasCommitted /\ [Next]_vars
        => [ /\ \A d \in Days : spentOn'[d] # spentOn[d] => d = Today
             /\ spentOn' # spentOn
                  => spentOn'[Today] <= gate.daily_limit ]_vars
  BY StepKeepsTotal
<1> QED
  BY <1>1, SpendGateTyped, SpentIsExact, PTL DEF Spec, EveryDayWithinLimit

-----------------------------------------------------------------------------
(***************************************************************************)
(* The kill switch.  revoke() works by setting expiry to the block time,   *)
(* and 0 means "no expiry": it is safe because block times are positive.   *)
(***************************************************************************)

RevokedIsExpired == killed => gate.expiry # 0 /\ gate.expiry <= now

LEMMA StepKeepsRevoked ==
  ASSUME TypeOK, RevokedIsExpired, [Next]_vars
  PROVE  /\ RevokedIsExpired'
         /\ killed => /\ spentOn' = spentOn
                      /\ gate'.spent_today = gate.spent_today
                      /\ gate'.day_anchor = gate.day_anchor
<1>0. now \in Nat \ {0}
  BY ChainAssumption DEF TypeOK, Instants
<1>1. CASE Call /\ UNCHANGED now
  <2>1. PICK caller \in Address :
          \/ Administer(caller)
          \/ \E target \in Targets, amount \in Amounts :
               Check(caller, target, amount)
    BY <1>1 DEF Call
  <2>2. CASE Administer(caller)
    <3>1. \/ ~killed'
          \/ killed /\ gate'.expiry = gate.expiry
          \/ gate'.expiry = now
      <4>1. CASE Revoke(caller)
        BY <4>1 DEF Revoke, TypeOK
      <4>2. CASE \E s \in Spenders : SetSpender(caller, s)
        BY <4>2 DEF SetSpender, TypeOK
      <4>3. CASE \E a \in Targets : AddAllowlist(caller, a)
        BY <4>3 DEF AddAllowlist, TypeOK
      <4>4. CASE \E l \in Limits, e \in Expiries : SetLimits(caller, l, e)
        BY <4>4 DEF SetLimits
      <4> QED
        BY <2>2, <4>1, <4>2, <4>3, <4>4 DEF Administer
    <3>2. RevokedIsExpired'
      <4>1. CASE gate'.expiry = now
        BY <1>0, <1>1, <4>1 DEF RevokedIsExpired
      <4>2. CASE ~killed' \/ (killed /\ gate'.expiry = gate.expiry)
        BY <1>1, <4>2 DEF RevokedIsExpired
      <4> QED
        BY <3>1, <4>1, <4>2
    <3> QED
      BY <2>2, <3>2, AdministerKeepsTotal
  <2>3. CASE \E target \in Targets, amount \in Amounts :
               Check(caller, target, amount)
    BY <1>0, <2>3 DEF Check, Expired, RevokedIsExpired, TypeOK
  <2> QED
    BY <2>1, <2>2, <2>3
<1>2. CASE Tick /\ UNCHANGED gateVars
  BY <1>0, <1>2 DEF Tick, gateVars, RevokedIsExpired, TypeOK
<1>3. CASE UNCHANGED vars
  BY <1>3 DEF RevokedIsExpired, vars, gateVars
<1> QED
  BY <1>1, <1>2, <1>3 DEF Next

(* After revoke() nothing passes the gate, at the revocation's own block   *)
(* time or later, until set_limits() (spend_gate.rs:89-93).                *)
THEOREM RevocationIsFinal == Spec => KillSwitchHolds
<1>1. Init => RevokedIsExpired
  BY DEF Init, RevokedIsExpired
<1>2. TypeOK /\ RevokedIsExpired /\ [Next]_vars => RevokedIsExpired'
  BY StepKeepsRevoked
<1>3. TypeOK /\ RevokedIsExpired /\ [Next]_vars
        => [ killed => /\ spentOn' = spentOn
                       /\ gate'.spent_today = gate.spent_today
                       /\ gate'.day_anchor = gate.day_anchor ]_vars
  BY StepKeepsRevoked
<1> QED
  BY <1>1, <1>2, <1>3, SpendGateTyped, PTL DEF Spec, KillSwitchHolds
=============================================================================
