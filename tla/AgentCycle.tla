------------------------------ MODULE AgentCycle ------------------------------
(***************************************************************************)
(* agent/src/index.ts: one cycle after the other, the agent pays for a     *)
(* signal, decides, may stake idle funds, attests, has the payment         *)
(* credited, has the decision audited, and lets a veto cost reputation or  *)
(* a move go through the quorum to the vault; a move is followed by a      *)
(* proof of solvency.  Each on-chain step is a deploy that the agent       *)
(* submits and waits for.  The wait ends with an answer, an RPC error or a *)
(* timeout, and a deploy that was given up may still execute later, in a   *)
(* later cycle too.  The deadline is for the deploy: a single request, to  *)
(* the node, the seller or a model, has none and may never be answered.    *)
(*                                                                         *)
(* A reasoning hash is named by its cycle: the blob it hashes holds the    *)
(* cycle and the time.  `loop' is the running cycle; `pending' and `done'  *)
(* are the deploys in flight and executed, any other one was lost or       *)
(* reverted; `payment' is the fate of each x402 payment; `frozen' and      *)
(* `quiet' are the vault's freeze and the cycles begun since its last      *)
(* heartbeat; `decided' is history: what was found about each cycle's      *)
(* decision.                                                               *)
(***************************************************************************)
EXTENDS Integers, FiniteSets

CONSTANTS
  MaxCycle,      \* bound on the cycles a model explores
  Voters,        \* the auditor keys at hand to the agent's node
  Outsiders,     \* registered auditors elsewhere
  Elsewhere,     \* deploys that executed and are no payments of the agent
  Threshold,     \* approvals that the quorum asks
  AutoStake,     \* whether the agent is allowed to stake by itself
  StaleCycles,   \* cycles that fit into the vault's silence window
  None

VARIABLES loop, pending, done, payment, frozen, quiet, decided

vars == <<loop, pending, done, payment, frozen, quiet, decided>>

Cycles == 1..MaxCycle
Actions == {"rebalance", "hold", "escalate"}
Verdicts == {"APPROVE", "VETO"}

Kinds == {"delegate", "attest", "credit", "audit", "slash", "vote", "reallocate", "prove"}

(* What a seller may name as the settlement: the payment of a cycle, or    *)
(* any other deploy.                                                       *)
Hashes == Cycles \cup Elsewhere

(* `ref' is what a deploy refers to besides its cycle: the settlement that *)
(* is credited, the verdict that is attested, or the voter.                *)
Deploys ==
  [kind : {"delegate", "attest", "slash", "reallocate", "prove"}, cycle : Cycles,
   ref : {None}]
    \cup [kind : {"credit"}, cycle : Cycles, ref : Hashes]
    \cup [kind : {"audit"}, cycle : Cycles, ref : Verdicts]
    \cup [kind : {"vote"}, cycle : Cycles, ref : Voters \cup Outsiders]

ASSUME CycleAssumption ==
  /\ MaxCycle \in Nat
  /\ Threshold \in Nat \ {0}
  /\ StaleCycles \in Nat \ {0}
  /\ IsFiniteSet(Voters) /\ IsFiniteSet(Outsiders)
  /\ Voters \cap Outsiders = {}
  /\ Elsewhere \cap Cycles = {}
  /\ AutoStake \in BOOLEAN
  /\ None \notin Deploys

Steps == {"idle", "verify", "reason", "delegate", "attest", "credit", "grade", "audit",
          "judge", "slash", "vote", "reallocate", "prove", "hung"}

(* The running cycle, the deploys, the payments, the vault and the history *)
(* keep their types, and a deploy has one fate.                            *)
TypeOK ==
  /\ loop \in [step : Steps, cycle : 0..MaxCycle, paid : Hashes \cup {None},
               settled : BOOLEAN, action : Actions, verdict : Verdicts,
               proof : BOOLEAN, left : SUBSET Voters,
               awaiting : Deploys \cup {None}]
  /\ pending \subseteq Deploys /\ done \subseteq Deploys
  /\ pending \cap done = {}
  /\ payment \in [Cycles -> {"none", "submitted", "settled", "failed"}]
  /\ frozen \in BOOLEAN
  /\ quiet \in 0..MaxCycle
  /\ decided \in [Cycles -> [action : Actions, tainted : BOOLEAN,
                             sure : BOOLEAN, verdict : Verdicts] \cup {None}]

Deploy(kind, cycle, ref) == [kind |-> kind, cycle |-> cycle, ref |-> ref]

-----------------------------------------------------------------------------

Idle(cycle) ==
  [step |-> "idle", cycle |-> cycle, paid |-> None, settled |-> FALSE,
   action |-> "escalate", verdict |-> "VETO", proof |-> FALSE,
   left |-> {}, awaiting |-> None]

Init ==
  /\ loop = Idle(0)
  /\ pending = {} /\ done = {}
  /\ payment = [c \in Cycles |-> "none"]
  /\ frozen = FALSE
  /\ quiet = 0
  /\ decided = [c \in Cycles |-> None]

chainVars == <<pending, done, payment, frozen, quiet>>

Goto(step) == loop' = [loop EXCEPT !.step = step, !.awaiting = None]

(* What ends a cycle, by a return or by an error that runCycle throws.     *)
End == loop' = Idle(loop.cycle)

(* payForSignal: a payment may be made, and the answer may name it, or no  *)
(* deploy at all, or whichever other deploy the seller likes.              *)
Pay ==
  /\ loop.step = "idle" /\ loop.cycle < MaxCycle
  /\ LET c == loop.cycle + 1
     IN  /\ \E made \in {"none", "submitted"} :
              payment' = [payment EXCEPT ![c] = made]
         /\ \E hash \in {p \in Cycles : payment'[p] # "none"} \cup Elsewhere \cup {None} :
              loop' = [Idle(c) EXCEPT
                         !.paid = hash,
                         !.step = IF hash = None THEN "reason" ELSE "verify"]
  /\ quiet' = quiet + 1
  /\ UNCHANGED <<pending, done, frozen, decided>>

(* Mutant: a claimed settlement is credited.                               *)
VerifyClaim(ok) ==
  /\ loop.step = "verify"
  /\ loop' = [loop EXCEPT !.settled = ok, !.step = "reason"]
  /\ UNCHANGED <<chainVars, decided>>

Executed(hash) == hash \in Elsewhere \cup {p \in Cycles : payment[p] = "settled"}

(* verifySettlement: a deploy of that hash executed without error before   *)
(* the deadline, or not; whose it is and what it did is not looked at.     *)
Verify(ok) ==
  /\ loop.step = "verify"
  /\ ok => Executed(loop.paid)
  /\ loop' = [loop EXCEPT !.settled = ok, !.step = "reason"]
  /\ UNCHANGED <<chainVars, decided>>

(* Mutant: the guard's finding is logged and not acted upon.               *)
DecideTainted(action, tainted) == action

(* The decision of the models; a tainted cycle is forced to escalate.      *)
Decide(action, tainted) == IF tainted THEN "escalate" ELSE action

(* The decision is made, and whether idle funds are to be staked first.    *)
Reason ==
  /\ loop.step = "reason"
  /\ \/ /\ \E action \in Actions, tainted \in BOOLEAN,
            next \in {"attest"} \cup (IF AutoStake THEN {"delegate"} ELSE {}) :
             /\ loop' = [loop EXCEPT !.action = Decide(action, tainted), !.step = next]
             /\ decided' = [decided EXCEPT ![loop.cycle] =
                              [action |-> action, tainted |-> tainted,
                               sure |-> FALSE, verdict |-> "VETO"]]
     \/ End /\ UNCHANGED decided
  /\ UNCHANGED chainVars

-----------------------------------------------------------------------------

(* What a deploy of the cycle's step is about.                             *)
Subjects ==
  IF loop.step = "credit" THEN {loop.paid}
  ELSE IF loop.step = "audit" THEN {loop.verdict}
  ELSE IF loop.step = "vote" THEN loop.left ELSE {None}

(* The deploys that the cycle's next call of callEntryPoint may submit.    *)
Requests ==
  {Deploy(loop.step, loop.cycle, ref) :
     ref \in IF loop.step \in Kinds THEN Subjects ELSE {}}

(* putTransaction: the node may have accepted the deploy even if it is an  *)
(* error that comes back, and it may have not.                             *)
Submit ==
  /\ loop.awaiting = None
  /\ \E d \in Requests :
       /\ loop' = [loop EXCEPT !.awaiting = d]
       /\ pending' \in {pending, pending \cup {d}}
  /\ UNCHANGED <<done, payment, frozen, quiet, decided>>

(* Mutant: the wait has no deadline.                                       *)
AnsweredInTheEnd(ok) ==
  /\ loop.awaiting # None
  /\ loop.awaiting \notin pending
  /\ ok => loop.awaiting \in done
  /\ UNCHANGED <<chainVars, decided>>

(* waitForExecution answers, or it throws: on a revert, on an error of the *)
(* node, or at its deadline, whatever becomes of the deploy.               *)
Answered(ok) ==
  /\ loop.awaiting # None
  /\ ok => loop.awaiting \in done
  /\ UNCHANGED <<chainVars, decided>>

(* The custodian's delegation, whose error is caught.                      *)
Delegated(ok) ==
  /\ loop.step = "delegate" /\ Answered(ok)
  /\ Goto("attest")

(* Mutant: the error is caught, and the cycle goes on.                     *)
AttestedOrNot(ok) ==
  /\ loop.step = "attest" /\ Answered(ok)
  /\ Goto(IF loop.settled THEN "credit" ELSE "grade")

(* attest() throws out of the cycle.                                       *)
Attested(ok) ==
  /\ loop.step = "attest" /\ Answered(ok)
  /\ IF ok THEN Goto(IF loop.settled THEN "credit" ELSE "grade") ELSE End

(* recordPayment() throws out of the cycle too.                            *)
Credited(ok) ==
  /\ loop.step = "credit" /\ Answered(ok)
  /\ IF ok THEN Goto("grade") ELSE End

(* auditDecision: an audit that fails is a veto.                           *)
Grade ==
  /\ loop.step = "grade"
  /\ \E verdict \in Verdicts :
       /\ loop' = [loop EXCEPT !.verdict = verdict, !.step = "audit"]
       /\ decided' = [decided EXCEPT ![loop.cycle].verdict = verdict]
  /\ UNCHANGED chainVars

(* Mutant: the veto counts as proven whether it landed or not.             *)
AuditAssumed(ok) ==
  /\ loop.step = "audit" /\ Answered(ok)
  /\ loop' = [loop EXCEPT !.step = "judge", !.proof = TRUE, !.awaiting = None]

(* The error of attestAudit() is caught.                                   *)
AuditAttested(ok) ==
  /\ loop.step = "audit" /\ Answered(ok)
  /\ loop' = [loop EXCEPT !.step = "judge", !.proof = ok, !.awaiting = None]

(* castQuorumVotes goes through the voters at hand, then the move is made. *)
ToQuorum ==
  loop' = [loop EXCEPT !.left = Voters,
                       !.step = IF Voters = {} THEN "reallocate" ELSE "vote"]

(* The threshold is read when the decision is judged against it.           *)
Judge ==
  /\ loop.step = "judge"
  /\ \E sure \in BOOLEAN :
       /\ decided' = [decided EXCEPT ![loop.cycle].sure = sure]
       /\ \/ (~sure \/ loop.action # "rebalance") /\ End
          \/ /\ sure /\ loop.action = "rebalance"
             /\ \/ loop.verdict = "VETO" /\ loop.proof /\ Goto("slash")
                \/ loop.verdict = "VETO" /\ ~loop.proof /\ End
                \/ loop.verdict = "APPROVE" /\ ToQuorum
  /\ UNCHANGED chainVars

Slashed(ok) == loop.step = "slash" /\ Answered(ok) /\ End

(* A vote that fails is logged, and the next voter is asked.               *)
Voted(ok) ==
  /\ loop.step = "vote" /\ Answered(ok)
  /\ LET left == loop.left \ {loop.awaiting.ref}
     IN  loop' = [loop EXCEPT !.left = left, !.awaiting = None,
                              !.step = IF left = {} THEN "reallocate" ELSE "vote"]

Reallocated(ok) ==
  /\ loop.step = "reallocate" /\ Answered(ok)
  /\ IF ok THEN Goto("prove") ELSE End

Proved(ok) == loop.step = "prove" /\ Answered(ok) /\ End

(* A request is never answered: fetch and the SDK are given no deadline.   *)
(* The loop waits for ever, and what it knows is of no use to anyone.  Of  *)
(* an idle loop it is the first request of the next cycle.                 *)
Hang ==
  /\ loop.step # "hung"
  /\ loop.step = "idle" => loop.cycle < MaxCycle
  /\ loop' = [Idle(loop.cycle) EXCEPT !.step = "hung"]
  /\ UNCHANGED <<chainVars, decided>>

(* The process ends and is started again, with nothing in its memory.      *)
Crash ==
  /\ loop.step # "idle"
  /\ End
  /\ UNCHANGED <<chainVars, decided>>

-----------------------------------------------------------------------------

Approvals(cycle) == {d \in done : d.kind = "vote" /\ d.cycle = cycle}

(* What the contracts check of a deploy; whatever else they check, or a    *)
(* lack of gas, makes it revert too.                                       *)
Admissible(d) ==
  /\ d.kind = "credit" =>
       ~ \E e \in done : e.kind = "credit" /\ e.ref = d.ref
  /\ d.kind = "reallocate" =>
       ~frozen /\ Cardinality(Approvals(d.cycle)) >= Threshold

Execute(d) ==
  /\ Admissible(d)
  /\ pending' = pending \ {d}
  /\ done' = done \cup {d}
  /\ quiet' = IF d.kind = "reallocate" THEN 0 ELSE quiet
  /\ UNCHANGED <<loop, payment, frozen, decided>>

Revert(d) ==
  /\ pending' = pending \ {d}
  /\ UNCHANGED <<loop, done, payment, frozen, quiet, decided>>

Settle(p, fate) ==
  /\ payment[p] = "submitted"
  /\ payment' = [payment EXCEPT ![p] = fate]
  /\ UNCHANGED <<loop, pending, done, frozen, quiet, decided>>

(* An auditor elsewhere votes on an attested hash from its own wallet.     *)
OutsiderVotes(cycle, who) ==
  /\ Deploy("attest", cycle, None) \in done
  /\ done' = done \cup {Deploy("vote", cycle, who)}
  /\ UNCHANGED <<loop, pending, payment, frozen, quiet, decided>>

(* Anyone freezes a vault whose agent did not show itself for the window.  *)
Freeze ==
  /\ quiet >= StaleCycles
  /\ frozen' = TRUE
  /\ UNCHANGED <<loop, pending, done, payment, quiet, decided>>

Unfreeze ==
  /\ frozen
  /\ frozen' = FALSE /\ quiet' = 0
  /\ UNCHANGED <<loop, pending, done, payment, decided>>

AgentStep ==
  \/ Pay \/ Reason \/ Grade \/ Submit \/ Judge
  \/ \E ok \in BOOLEAN :
       \/ Verify(ok) \/ Delegated(ok) \/ Attested(ok) \/ Credited(ok) \/ AuditAttested(ok)
       \/ Slashed(ok) \/ Voted(ok) \/ Reallocated(ok) \/ Proved(ok)

ChainStep ==
  \/ \E d \in pending : Execute(d) \/ Revert(d)
  \/ \E p \in Cycles, fate \in {"settled", "failed"} : Settle(p, fate)
  \/ \E c \in Cycles, who \in Outsiders : OutsiderVotes(c, who)
  \/ Freeze \/ Unfreeze

Next == AgentStep \/ Hang \/ Crash \/ ChainStep

(* The event loop goes on with a cycle whose requests are answered, with   *)
(* a result or an error.  Nothing is assumed of the chain: a deploy may    *)
(* never execute.                                                          *)
Spec == Init /\ [][Next]_vars /\ WF_vars(AgentStep)

-----------------------------------------------------------------------------

OfCycle(c, kinds) == {d \in pending \cup done :
                        d.cycle = c /\ d.kind \in kinds /\ d.ref \notin Outsiders}

(* Until its attestation has landed, a cycle has sent nothing else to the  *)
(* chain but the delegation of idle funds, which goes first: nothing that  *)
(* follows from its decision, whatever fails, is given up or lands after   *)
(* the cycle has ended (index.ts:189-225).                                 *)
OnlyStakingBeforeTheAttestation ==
  \A c \in Cycles :
    OfCycle(c, Kinds \ {"delegate", "attest"}) # {}
      => Deploy("attest", c, None) \in done

(* A move that executes, however late, is one the panel wanted with enough *)
(* confidence from clean inputs and that the auditor approved              *)
(* (index.ts:126-136, :282-333).                                           *)
MovesWereCleared ==
  \A c \in Cycles :
    Deploy("reallocate", c, None) \in done =>
      decided[c] = [action |-> "rebalance", tainted |-> FALSE, sure |-> TRUE,
                    verdict |-> "APPROVE"]

(* Reputation is credited for deploys that executed, and for each of them  *)
(* once, also when the seller names one that was named before, a payment   *)
(* reverts, or a given-up credit lands in a later cycle (index.ts:62-76,   *)
(* :227-242).  That the deploy paid the seller is not verified:            *)
(* OnlyPaymentsAreCredited.                                                *)
CreditsAreExecutedOnce ==
  \A d \in done :
    d.kind = "credit" =>
      /\ Executed(d.ref)
      /\ \A e \in done : e.kind = "credit" /\ e.ref = d.ref => e = d

(* "credit the x402 payment, but ONLY if it VERIFIABLY settled on-chain"   *)
(* (index.ts:227-229).                                                     *)
OnlyPaymentsAreCredited ==
  \A d \in done : d.kind = "credit" => d.ref \in Cycles /\ payment[d.ref] = "settled"

(* A slash stands on a veto that is on-chain, and a cycle that cost the    *)
(* agent reputation never moves funds, whoever else votes for its hash and *)
(* whatever lands late (index.ts:297-314).                                 *)
SlashedOnProvenVetoOnly ==
  \A c \in Cycles :
    Deploy("slash", c, None) \in done =>
      /\ Deploy("audit", c, "VETO") \in done
      /\ OfCycle(c, {"vote", "reallocate"}) = {}

(* Whatever the chain does or does not do with its deploys, each cycle     *)
(* comes to its end, unless a request of it is never answered: the wait    *)
(* for a deploy has a deadline, and no error of a step stays in the loop   *)
(* (casper.ts:88-109, index.ts:363-372).                                   *)
EveryAnsweredCycleEnds ==
  \A c \in Cycles :
    loop.cycle = c ~> loop.cycle = c /\ loop.step \in {"idle", "hung"}

(* "a TEE outage never blocks the cycle" (index.ts:157-158): no outage of  *)
(* a service does; but attested-inference.ts:69 has no deadline.           *)
EveryCycleEnds ==
  \A c \in Cycles : loop.cycle = c ~> loop.cycle = c /\ loop.step = "idle"

(* "PROVE SOLVENCY - every cycle, from the vault's REAL post-move          *)
(* allocations" (index.ts:335): a cycle that has judged its decision does  *)
(* not return before it has asked for its proof.                           *)
EveryCycleAsksForProof ==
  [][ loop.step = "judge" /\ loop'.step = "idle" /\ decided' # decided =>
        OfCycle(loop.cycle, {"prove"}) # {} ]_vars

(* "attests its verdict on-chain" (index.ts:244-246): a move is preceded   *)
(* by the auditor's approval in the auditor's log.                         *)
MovesHaveAnAuditOnChain ==
  \A c \in Cycles :
    Deploy("reallocate", c, None) \in done =>
      Deploy("audit", c, "APPROVE") \in done

(* "an agent that heartbeats every cycle (~60s) is never stale by this     *)
(* window" (rwa_vault.rs:88-89): an agent whose cycles have all attested   *)
(* their decision on-chain is not frozen out.                              *)
RunningAgentIsNotFrozen ==
  frozen => \E c \in 1..loop.cycle - 1 : Deploy("attest", c, None) \notin done
=============================================================================
