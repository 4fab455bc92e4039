------------------------------- MODULE Custody -------------------------------
(***************************************************************************)
(* What the treasury promises its owners, with no word about how: holdings *)
(* only ever move from one asset to another, while some decision has       *)
(* passed and the treasury is not halted, and never while the total is     *)
(* below the locked principal.  How a decision passes and who halts or     *)
(* resumes is left open; a decision that passed stays passed.              *)
(***************************************************************************)
EXTENDS Assets

CONSTANTS
  Principal,   \* the value that moves must leave in place
  Value,       \* amounts that are deposited or moved
  Decision     \* what may pass

VARIABLES holdings, passed, halted

custodyVars == <<holdings, passed, halted>>

Init ==
  /\ holdings = [a \in Asset |-> 0]
  /\ passed = {}
  /\ halted \in BOOLEAN

Fund(asset, value) ==
  /\ holdings' = [holdings EXCEPT ![asset] = @ + value]
  /\ UNCHANGED <<passed, halted>>

Move(from, to, value) ==
  /\ ~halted
  /\ passed # {}
  /\ Total(holdings) >= Principal
  /\ from # to
  /\ value <= holdings[from]
  /\ holdings' = [holdings EXCEPT ![from] = @ - value, ![to] = @ + value]
  /\ UNCHANGED <<passed, halted>>

Pass ==
  /\ \E more \in SUBSET Decision : passed' = passed \cup more
  /\ UNCHANGED <<holdings, halted>>

HaltOrResume ==
  /\ halted' = ~halted
  /\ UNCHANGED <<holdings, passed>>

Next ==
  \/ \E a \in Asset, v \in Value : Fund(a, v)
  \/ \E from, to \in Asset, v \in Value : Move(from, to, v)
  \/ Pass
  \/ HaltOrResume

Spec == Init /\ [][Next]_custodyVars
=============================================================================
