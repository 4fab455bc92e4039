----------------------------- MODULE AutoStaking -----------------------------
(***************************************************************************)
(* Staking of the custodian's idle CSPR: by the cycle of index.ts on a     *)
(* rule, by autostake.ts on a model's advice, and by stake.ts once.        *)
(* All three send their delegation with the same key and wait for it; each *)
(* may run while another one does.  A wait ends with an answer or at its   *)
(* deadline, and a deploy that was given up may execute later.             *)
(*                                                                         *)
(* `run' holds for each program its step, how often it was started, and    *)
(* the amount it decided on; `pending' and `done' are deploys in flight    *)
(* and executed; `saved' is .env.stake; `purse' and `staked' are CSPR.     *)
(***************************************************************************)
EXTENDS Integers, FiniteSets

CONSTANTS
  RESERVE_BUFFER, MIN_DELEGATION, MAX_STAKE, AMOUNT, PAYMENT,
  Opening,      \* the purse's balance in the beginning
  Advice,       \* amounts that a model may advise
  MaxRuns,      \* bound on how often each program is started
  None

VARIABLES run, purse, staked, pending, done, saved

vars == <<run, purse, staked, pending, done, saved>>
chainVars == <<purse, staked, pending, done>>

Program == {"cycle", "autostake", "stake"}

Deploys == [by : Program, nr : Nat, kind : {"attest", "delegate"},
            amount : Nat]

ASSUME StakingAssumption ==
  /\ {RESERVE_BUFFER, MIN_DELEGATION, MAX_STAKE, AMOUNT, PAYMENT, Opening}
       \subseteq Nat
  /\ MIN_DELEGATION > 0
  /\ AMOUNT >= MIN_DELEGATION
  /\ Advice \subseteq Nat
  /\ MaxRuns \in [Program -> Nat]
  /\ None \notin Deploys

(* The programs, the purse and the deploys keep their types, and a deploy  *)
(* executes once.                                                          *)
TypeOK ==
  /\ run \in [Program -> [step : {"idle", "attest", "delegate"}, nr : Nat,
                          amount : Nat, awaiting : Deploys \cup {None}]]
  /\ purse \in 0..Opening /\ staked \in 0..Opening
  /\ pending \subseteq Deploys /\ done \subseteq Deploys
  /\ pending \cap done = {}
  /\ saved \in Deploys \cup {None}

At(step, nr, amount) ==
  [step |-> step, nr |-> nr, amount |-> amount, awaiting |-> None]
Rest(nr) == At("idle", nr, 0)

Init ==
  /\ run = [p \in Program |-> Rest(0)]
  /\ purse = Opening /\ staked = 0
  /\ pending = {} /\ done = {}
  /\ saved = None

-----------------------------------------------------------------------------

(* evaluateStakingRule: 0 is a hold.                                       *)
StakingRule(idle) ==
  LET spare == idle - RESERVE_BUFFER
      stakeable == IF spare < MAX_STAKE THEN spare ELSE MAX_STAKE
  IN  IF stakeable >= MIN_DELEGATION THEN stakeable ELSE 0

(* guardStaking.                                                           *)
Guarded(amount, idle) ==
  IF /\ MIN_DELEGATION <= amount /\ amount <= MAX_STAKE
     /\ idle - amount >= RESERVE_BUFFER
  THEN amount ELSE 0

Started(p, step, amount) ==
  /\ run[p].step = "idle" /\ run[p].nr < MaxRuns[p]
  /\ run' = [run EXCEPT ![p] = At(step, run[p].nr + 1, amount)]
  /\ UNCHANGED <<chainVars, saved>>

(* The cycle stakes before it attests; staking may be switched off.        *)
StartCycle ==
  LET amount == Guarded(StakingRule(purse), purse)
  IN  \/ amount > 0 /\ Started("cycle", "delegate", amount)
      \/ Started("cycle", "attest", amount)

(* autostake.ts attests what it decided, and stakes afterwards.            *)
StartAutostake ==
  \E amount \in Advice :
    Started("autostake", "attest", Guarded(amount, purse))

(* stake.ts does not stake again what it has on file.                      *)
StartStake ==
  /\ saved = None
  /\ Started("stake", "delegate", AMOUNT)

Submit(p) ==
  /\ run[p].step # "idle" /\ run[p].awaiting = None
  /\ LET d == [by |-> p, nr |-> run[p].nr, kind |-> run[p].step,
               amount |-> run[p].amount]
     IN  /\ run' = [run EXCEPT ![p].awaiting = d]
         /\ pending' \in {pending, pending \cup {d}}
  /\ UNCHANGED <<purse, staked, done, saved>>

Answered(p, step, ok) ==
  /\ run[p].step = step /\ run[p].awaiting # None
  /\ ok => run[p].awaiting \in done
  /\ UNCHANGED chainVars

Proceed(p, step) ==
  run' = [run EXCEPT ![p] = At(step, run[p].nr, run[p].amount)]
End(p) == run' = [run EXCEPT ![p] = Rest(run[p].nr)]

(* An error of the delegation is caught, and the cycle goes on to attest.  *)
CycleDelegated(ok) ==
  Answered("cycle", "delegate", ok) /\ Proceed("cycle", "attest") /\ UNCHANGED saved

CycleAttested(ok) ==
  Answered("cycle", "attest", ok) /\ End("cycle") /\ UNCHANGED saved

AutostakeAttested(ok) ==
  /\ Answered("autostake", "attest", ok)
  /\ IF ok /\ run["autostake"].amount > 0
     THEN Proceed("autostake", "delegate") ELSE End("autostake")
  /\ UNCHANGED saved

AutostakeDelegated(ok) ==
  Answered("autostake", "delegate", ok) /\ End("autostake") /\ UNCHANGED saved

(* Mutant: the hash is saved however the wait ended.                       *)
StakeSaved(ok) ==
  /\ Answered("stake", "delegate", ok)
  /\ saved' = run["stake"].awaiting
  /\ End("stake")

StakeDelegated(ok) ==
  /\ Answered("stake", "delegate", ok)
  /\ saved' = IF ok THEN run["stake"].awaiting ELSE saved
  /\ End("stake")

Crash(p) ==
  /\ run[p].step # "idle" /\ End(p)
  /\ UNCHANGED <<chainVars, saved>>

-----------------------------------------------------------------------------

(* The custodian's purse pays for its delegations, also when they revert;  *)
(* the agent's own purse pays for the attestations.                        *)
Fee(d) == IF d.kind = "delegate" THEN PAYMENT ELSE 0

Execute(d) ==
  LET delegated == IF d.kind = "delegate" THEN d.amount ELSE 0
  IN  /\ purse >= Fee(d) + delegated
      /\ purse' = purse - Fee(d) - delegated
      /\ staked' = staked + delegated
      /\ pending' = pending \ {d}
      /\ done' = done \cup {d}
      /\ UNCHANGED <<run, saved>>

Revert(d) ==
  /\ purse >= Fee(d)
  /\ purse' = purse - Fee(d)
  /\ pending' = pending \ {d}
  /\ UNCHANGED <<run, staked, done, saved>>

Lose(d) ==
  /\ pending' = pending \ {d}
  /\ UNCHANGED <<run, purse, staked, done, saved>>

ProgramStep ==
  \/ StartCycle \/ StartAutostake \/ StartStake
  \/ \E p \in Program : Submit(p)
  \/ \E ok \in BOOLEAN :
       \/ CycleDelegated(ok) \/ CycleAttested(ok)
       \/ AutostakeAttested(ok) \/ AutostakeDelegated(ok)
       \/ StakeDelegated(ok)

ChainStep == \E d \in pending : Execute(d) \/ Revert(d) \/ Lose(d)

Next == ProgramStep \/ (\E p \in Program : Crash(p)) \/ ChainStep

Spec == Init /\ [][Next]_vars

-----------------------------------------------------------------------------

Attestation(d) == [d EXCEPT !.kind = "attest"]

Delegations(programs) ==
  {d \in pending \cup done : d.kind = "delegate" /\ d.by \in programs}

(* What autostake.ts stakes, however late it executes, was attested on     *)
(* the chain with that amount before it was sent (autostake.ts:136-146).   *)
AdviceIsAttestedFirst ==
  \A d \in Delegations({"autostake"}) : Attestation(d) \in done

(* What .env.stake holds is a delegation that did execute, whatever became *)
(* of the runs that were cut short (stake.ts:90-109).                      *)
SavedIsDelegated == saved # None => saved \in done

(* "The autonomous staking decision is signed into the cycle's blob, so    *)
(* yield management is attested on-chain alongside the RWA decision"       *)
(* (index.ts:213-214): when a cycle that staked is over, its attestation   *)
(* is on the chain or on its way.                                          *)
CycleStakingIsAttested ==
  \A d \in Delegations({"cycle"}) :
    run["cycle"].step = "idle" => Attestation(d) \in pending \cup done

(* "never stake below this liquid" (autostake.ts:16): a delegation that    *)
(* the rule or the guard let through leaves the reserve buffer in place.   *)
BufferStaysLiquid ==
  [][ \A d \in done' \ done :
        d.kind = "delegate" /\ d.by # "stake" => purse' >= RESERVE_BUFFER ]_vars
=============================================================================
