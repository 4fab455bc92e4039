----------------------------- MODULE AgentProofs -----------------------------
(***************************************************************************)
(* Proofs about the agent: that its cycles keep their order and their      *)
(* evidence, for any number of cycles, any auditors, any threshold of the  *)
(* quorum and any bound on its silence, whatever is lost, late or cut      *)
(* short; and what the panel and the output check let through, for a panel *)
(* of any size, any amounts that models may write, and any limits on the   *)
(* chain.                                                                  *)
(***************************************************************************)
EXTENDS AgentCycle, Consensus, FoldLemmas

(***************************************************************************)
(* The inductive invariant.  The properties speak of what is on-chain; it  *)
(* ties that to the step of the cycle that is running, to what it knows,   *)
(* and to the deploys that are still in flight.                            *)
(***************************************************************************)

All == pending \cup done

(* No cycle is running: the loop sleeps, or waits for ever.                *)
Resting == loop.step \in {"idle", "hung"}

(* A cycle runs once: nothing is known of the cycles ahead.                *)
Begun ==
  /\ ~Resting => loop.cycle \in Cycles
  /\ quiet <= loop.cycle
  /\ \A d \in All : d.cycle <= loop.cycle
  /\ \A c \in Cycles : c > loop.cycle => payment[c] = "none"

(* What the cycle waits for is what its step asked for.                    *)
Waits == loop.awaiting # None => loop.awaiting \in Requests

(* Where the running cycle has to be for a deploy of its own to be out.    *)
Sent(d) ==
  \/ d = loop.awaiting
  \/ /\ d.kind = "delegate"
     /\ loop.step \notin {"verify", "reason", "delegate"}
  \/ /\ d.kind = "attest"
     /\ loop.step \notin {"verify", "reason", "delegate", "attest"}
  \/ /\ d.kind = "credit"
     /\ loop.step \notin {"verify", "reason", "delegate", "attest", "credit"}
  \/ /\ d.kind = "audit"
     /\ Resting \/ loop.step \in {"judge", "slash", "vote", "reallocate", "prove"}
  \/ d.kind = "vote" /\ d.ref \in Outsiders
  \/ d.kind = "vote" /\ loop.step = "vote" /\ d.ref \notin loop.left
  \/ d.kind = "vote" /\ (Resting \/ loop.step \in {"reallocate", "prove"})
  \/ d.kind = "reallocate" /\ (Resting \/ loop.step = "prove")
  \/ d.kind \in {"slash", "prove"} /\ Resting

InStep ==
  /\ \A d \in All : d.cycle = loop.cycle => Sent(d)
  /\ \A d \in pending : d.kind = "vote" => d.ref \in Voters

(* Past the attestation, it is on-chain.                                   *)
AttestationFirst ==
  /\ loop.step \in {"credit", "grade", "audit", "judge", "slash", "vote",
                    "reallocate", "prove"}
       => Deploy("attest", loop.cycle, None) \in done
  /\ \A d \in All :
       d.kind \notin {"delegate", "attest"} => Deploy("attest", d.cycle, None) \in done

Cleared == [action |-> "rebalance", tainted |-> FALSE, sure |-> TRUE,
            verdict |-> "APPROVE"]

(* What the running cycle knows of its decision is what was found.         *)
Judged ==
  /\ loop.step \in {"delegate", "attest", "credit", "grade", "audit", "judge"} =>
       /\ decided[loop.cycle] \in [action : Actions, tainted : BOOLEAN,
                                   sure : BOOLEAN, verdict : Verdicts]
       /\ loop.action = "rebalance" =>
            decided[loop.cycle].action = "rebalance" /\ ~decided[loop.cycle].tainted
  /\ loop.step \in {"audit", "judge"} =>
       decided[loop.cycle].verdict = loop.verdict
  /\ loop.step \in {"vote", "reallocate", "prove"} =>
       decided[loop.cycle] = Cleared
  /\ \A d \in All : d.kind = "reallocate" => decided[d.cycle] = Cleared

(* Credits are of deploys that executed, and each is credited once.        *)
Paid ==
  /\ loop.step = "verify" => loop.paid \in Hashes
  /\ loop.settled => loop.paid \in Hashes /\ Executed(loop.paid)
  /\ loop.step = "credit" => loop.settled
  /\ \A d \in All : d.kind = "credit" => Executed(d.ref)
  /\ \A d, e \in done :
       d.kind = "credit" /\ e.kind = "credit" /\ d.ref = e.ref => d = e

(* A slash has its veto, and excludes the votes and the move.              *)
Proven ==
  /\ loop.step \in {"verify", "reason", "delegate", "attest", "credit", "grade",
                    "audit"} => ~loop.proof
  /\ loop.step = "judge" /\ loop.proof =>
       Deploy("audit", loop.cycle, loop.verdict) \in done
  /\ loop.step = "slash" => Deploy("audit", loop.cycle, "VETO") \in done
  /\ \A d \in All : d.kind = "slash" => Deploy("audit", d.cycle, "VETO") \in done
  /\ \A d, e \in All :
       d.kind = "slash" /\ e.kind \in {"vote", "reallocate"} /\ e.cycle = d.cycle
         => e.ref \in Outsiders

IInv == /\ TypeOK /\ Begun /\ Waits /\ InStep /\ AttestationFirst
        /\ Judged /\ Paid /\ Proven

-----------------------------------------------------------------------------

(* What a step may submit is a deploy of the running cycle that is not out *)
(* yet.                                                                    *)
LEMMA RequestsTyped ==
  ASSUME IInv, NEW d \in Requests
  PROVE  /\ d \in Deploys /\ d.cycle = loop.cycle
         /\ \/ /\ loop.step \in {"delegate", "attest", "slash", "reallocate", "prove"}
               /\ d = Deploy(loop.step, loop.cycle, None)
            \/ loop.step = "credit" /\ d = Deploy("credit", loop.cycle, loop.paid)
            \/ loop.step = "audit" /\ d = Deploy("audit", loop.cycle, loop.verdict)
            \/ /\ loop.step = "vote"
               /\ \E v \in loop.left : d = Deploy("vote", loop.cycle, v)
<1>1. loop.step \in Kinds => loop.cycle \in Cycles
  BY DEF IInv, Begun, Resting, Kinds
<1>2. loop.step = "credit" => loop.paid \in Hashes
  BY DEF IInv, Paid, Executed, Hashes
<1>3. loop.verdict \in Verdicts /\ loop.left \subseteq Voters
  BY DEF IInv, TypeOK
<1>4. CASE loop.step \in {"delegate", "attest", "slash", "reallocate", "prove"}
  BY <1>1, <1>4 DEF Requests, Subjects, Kinds, Deploy, Deploys
<1>5. CASE loop.step = "credit"
  BY <1>1, <1>2, <1>5 DEF Requests, Subjects, Kinds, Deploy, Deploys
<1>6. CASE loop.step = "audit"
  BY <1>1, <1>3, <1>6 DEF Requests, Subjects, Kinds, Deploy, Deploys
<1>7. CASE loop.step = "vote"
  BY <1>1, <1>3, <1>7 DEF Requests, Subjects, Kinds, Deploy, Deploys
<1> QED
  BY <1>4, <1>5, <1>6, <1>7 DEF Requests, Subjects, Kinds

(* A cycle may stop anywhere, for now or for ever.                         *)
LEMMA RestKeeps ==
  ASSUME IInv, NEW step \in {"idle", "hung"},
         loop' = [step |-> step, cycle |-> loop.cycle, paid |-> None,
                  settled |-> FALSE, action |-> "escalate", verdict |-> "VETO",
                  proof |-> FALSE, left |-> {}, awaiting |-> None],
         UNCHANGED <<chainVars, decided>>
  PROVE  IInv'
<1> USE DEF IInv, Resting, chainVars, All
<1>1. TypeOK'
  BY CycleAssumption DEF TypeOK, Steps, Actions, Verdicts
<1>2. Begun' /\ Waits'
  BY <1>1 DEF Begun, Resting, Waits, TypeOK
<1>3. InStep'
  <2>1. ASSUME NEW d \in All' PROVE Sent(d)'
    BY <2>1 DEF Sent, Resting, Deploys, TypeOK
  <2> QED
    BY <2>1 DEF InStep
<1>4. AttestationFirst' /\ Judged' /\ Paid' /\ Proven'
  BY DEF AttestationFirst, Judged, Paid, Executed, Proven
<1> QED
  BY <1>1, <1>2, <1>3, <1>4

LEMMA EndKeeps == IInv /\ End /\ UNCHANGED <<chainVars, decided>> => IInv'
BY RestKeeps DEF End, Idle

LEMMA HangKeeps == IInv /\ Hang => IInv'
BY RestKeeps DEF Hang, Idle

LEMMA PayKeeps == IInv /\ Pay => IInv'
<1> SUFFICES ASSUME IInv, Pay
             PROVE  IInv'
  OBVIOUS
<1> DEFINE c == loop.cycle + 1
<1>1. PICK made \in {"none", "submitted"} :
        payment' = [payment EXCEPT ![c] = made]
  BY DEF Pay
<1>2. PICK hash \in Hashes \cup {None} :
        loop' = [Idle(c) EXCEPT
                   !.paid = hash,
                   !.step = IF hash = None THEN "reason" ELSE "verify"]
  BY DEF Pay, Hashes
<1>3. loop' = [step |-> IF hash = None THEN "reason" ELSE "verify", cycle |-> c,
               paid |-> hash, settled |-> FALSE, action |-> "escalate",
               verdict |-> "VETO", proof |-> FALSE, left |-> {}, awaiting |-> None]
  BY <1>2 DEF Idle
<1>4. c \in Cycles /\ loop.cycle \in Nat /\ loop.cycle < c
  BY CycleAssumption DEF IInv, TypeOK, Pay, Cycles
<1>5. quiet' = quiet + 1 /\ UNCHANGED <<pending, done, frozen, decided>>
  BY DEF Pay
<1> USE DEF IInv, All
<1> HIDE DEF c
<1>6. loop' \in [step : Steps, cycle : 0..MaxCycle, paid : Hashes \cup {None},
                 settled : BOOLEAN, action : Actions, verdict : Verdicts,
                 proof : BOOLEAN, left : SUBSET Voters,
                 awaiting : Deploys \cup {None}]
  BY <1>3, <1>4, CycleAssumption DEF Steps, Actions, Verdicts, Cycles
<1>7. quiet' \in 0..MaxCycle /\ quiet' <= c
  BY <1>4, <1>5, CycleAssumption DEF TypeOK, Begun, Resting, Cycles, c
<1>8. TypeOK'
  BY <1>1, <1>4, <1>5, <1>6, <1>7 DEF TypeOK
<1>9. Begun'
  BY <1>1, <1>3, <1>4, <1>5, <1>7, CycleAssumption DEF TypeOK, Begun, Resting, Cycles, Deploys
<1>10. Waits' /\ AttestationFirst' /\ Judged' /\ Proven'
  BY <1>3, <1>5 DEF Waits, AttestationFirst, Judged, Proven
<1>11. Paid'
  BY <1>1, <1>3, <1>4, <1>5, CycleAssumption
     DEF TypeOK, Begun, Resting, Paid, Executed, Hashes, Cycles, Deploys
<1>12. InStep'
  BY <1>3, <1>4, <1>5, CycleAssumption DEF TypeOK, Begun, Resting, InStep, Cycles, Deploys
<1> QED
  BY <1>8, <1>9, <1>10, <1>11, <1>12

LEMMA VerifyKeeps ==
  ASSUME IInv, NEW ok \in BOOLEAN, Verify(ok)
  PROVE  IInv'
<1> USE DEF IInv, Verify, chainVars, All
<1>1. TypeOK' /\ Begun' /\ Waits' /\ Paid'
  BY DEF TypeOK, Begun, Resting, Waits, Paid, Executed, Hashes, Steps, Requests, Kinds
<1>2. InStep'
  BY DEF TypeOK, InStep, Sent, Resting
<1>3. AttestationFirst' /\ Judged' /\ Proven'
  BY DEF TypeOK, AttestationFirst, Judged, Proven
<1> QED
  BY <1>1, <1>2, <1>3

LEMMA ReasonKeeps == IInv /\ Reason => IInv'
<1> SUFFICES ASSUME IInv, Reason, ~(End /\ UNCHANGED decided)
             PROVE  IInv'
  BY EndKeeps DEF Reason
<1>1. PICK action \in Actions, tainted \in BOOLEAN, next \in {"delegate", "attest"} :
        /\ loop' = [loop EXCEPT !.action = Decide(action, tainted), !.step = next]
        /\ decided' = [decided EXCEPT ![loop.cycle] =
                         [action |-> action, tainted |-> tainted,
                          sure |-> FALSE, verdict |-> "VETO"]]
        /\ loop.step = "reason"
        /\ UNCHANGED <<pending, done, payment, frozen, quiet>>
  BY DEF Reason, chainVars
<1> USE DEF IInv, All
<1>2. TypeOK'
  BY <1>1 DEF TypeOK, Begun, Resting, Steps, Actions, Verdicts, Decide
<1>3. Waits'
  BY <1>1, RequestsTyped DEF TypeOK, Waits, Requests, Kinds
<1>4. Begun' /\ Paid'
  BY <1>1 DEF TypeOK, Begun, Resting, Paid, Executed, Hashes
<1>5. InStep'
  BY <1>1 DEF TypeOK, InStep, Sent, Resting
<1>6. AttestationFirst' /\ Proven'
  BY <1>1 DEF TypeOK, AttestationFirst, Proven
<1>7. Judged'
  <2>1. loop.cycle \in Cycles /\ loop'.cycle = loop.cycle /\ loop'.step \in {"delegate", "attest"}
    BY <1>1 DEF TypeOK, Begun, Resting
  <2>2. loop'.action = "rebalance" => action = "rebalance" /\ tainted = FALSE
    BY <1>1 DEF TypeOK, Decide
  <2>3. decided'[loop.cycle] = [action |-> action, tainted |-> tainted,
                                sure |-> FALSE, verdict |-> "VETO"]
    BY <1>1, <2>1 DEF TypeOK
  <2>4. \A c \in Cycles : c # loop.cycle => decided'[c] = decided[c]
    BY <1>1 DEF TypeOK
  <2>5. ASSUME NEW d \in All, d.kind = "reallocate"
        PROVE  d.cycle \in Cycles /\ d.cycle # loop.cycle
    <3>1. d # loop.awaiting
      BY <1>1, <2>5, CycleAssumption DEF Waits, Requests, Kinds, TypeOK
    <3> QED
      BY <1>1, <2>5, <3>1 DEF InStep, Sent, Resting, TypeOK, Deploys
  <2>6. pending' = pending /\ done' = done
    BY <1>1
  <2>7. ASSUME NEW d \in All', d.kind = "reallocate"
        PROVE  decided'[d.cycle] = Cleared
    <3>1. d \in All /\ decided[d.cycle] = Cleared
      BY <2>6, <2>7 DEF Judged
    <3> QED
      BY <2>4, <2>5, <2>7, <3>1
  <2>8. decided'[loop'.cycle] \in [action : Actions, tainted : BOOLEAN,
                                  sure : BOOLEAN, verdict : Verdicts]
    BY <2>1, <2>3 DEF Verdicts
  <2>9. loop'.action = "rebalance" =>
          decided'[loop'.cycle].action = "rebalance" /\ ~decided'[loop'.cycle].tainted
    BY <2>1, <2>2, <2>3
  <2> QED
    BY <2>1, <2>7, <2>8, <2>9 DEF Judged
<1> QED
  BY <1>2, <1>3, <1>4, <1>5, <1>6, <1>7

LEMMA SubmitKeeps == IInv /\ Submit => IInv'
<1> SUFFICES ASSUME IInv, Submit
             PROVE  IInv'
  OBVIOUS
<1>1. PICK d \in Requests :
        /\ loop.awaiting = None
        /\ loop' = [loop EXCEPT !.awaiting = d]
        /\ pending' \in {pending, pending \cup {d}}
        /\ UNCHANGED <<done, payment, frozen, quiet, decided>>
  BY DEF Submit
<1>2. d # None /\ d \notin All
  BY <1>1, RequestsTyped, CycleAssumption
     DEF IInv, TypeOK, InStep, Sent, Resting, Deploy, All
<1> USE DEF IInv, All
<1>3. TypeOK'
  BY <1>1, <1>2, RequestsTyped DEF TypeOK
<1>4. Begun' /\ Waits'
  BY <1>1, <1>2, RequestsTyped DEF TypeOK, Begun, Resting, Waits, Requests, Subjects, Deploys
<1>5. InStep'
  <2>1. /\ loop'.awaiting = d /\ loop'.step = loop.step
        /\ loop'.cycle = loop.cycle /\ loop'.left = loop.left
    BY <1>1 DEF TypeOK
  <2>2. \A e \in All : e.cycle = loop.cycle => e # None /\ Sent(e)
    BY CycleAssumption DEF TypeOK, InStep
  <2>3. \A e \in All : e.cycle = loop.cycle => Sent(e)'
    BY <1>1, <2>1, <2>2 DEF Sent, Resting
  <2>4. d.kind = "vote" => d.ref \in Voters
    BY <1>1, RequestsTyped DEF TypeOK, Deploy
  <2> QED
    BY <1>1, <2>1, <2>3, <2>4 DEF InStep, Sent, Resting
<1>6. AttestationFirst'
  BY <1>1, <1>2, RequestsTyped DEF TypeOK, AttestationFirst, Deploy
<1>7. Judged'
  BY <1>1, <1>2, RequestsTyped DEF TypeOK, Judged, Deploy
<1>8. Paid'
  BY <1>1, <1>2, RequestsTyped DEF TypeOK, Paid, Executed, Hashes, Deploy
<1>9. Proven'
  <2>1. ASSUME NEW e \in All, e.cycle = d.cycle
        PROVE  /\ e.kind = "slash" => d.kind \notin {"vote", "reallocate"}
               /\ d.kind = "slash" /\ e.kind \in {"vote", "reallocate"}
                    => e.ref \in Outsiders
    <3>1. e # None /\ Sent(e)
      BY <2>1, RequestsTyped, CycleAssumption DEF TypeOK, InStep
    <3> QED
      BY <1>1, <3>1, RequestsTyped DEF Sent, Resting, Deploy
  <2>2. d.kind = "slash" => Deploy("audit", d.cycle, "VETO") \in done
    BY RequestsTyped DEF Proven, Deploy
  <2> QED
    BY <1>1, <2>1, <2>2 DEF TypeOK, Proven
<1> QED
  BY <1>3, <1>4, <1>5, <1>6, <1>7, <1>8, <1>9

(* An answer is to what the step asked for, and a good one found it        *)
(* executed.                                                               *)
LEMMA AnsweredIs ==
  ASSUME IInv, NEW ok \in BOOLEAN, Answered(ok)
  PROVE  /\ loop.awaiting \in Requests
         /\ ok => loop.awaiting \in done
         /\ UNCHANGED <<pending, done, payment, frozen, quiet, decided>>
BY DEF IInv, Waits, Answered, chainVars

LEMMA DelegatedKeeps ==
  ASSUME IInv, NEW ok \in BOOLEAN, Delegated(ok)
  PROVE  IInv'
<1>1. /\ Answered(ok) /\ loop.step = "delegate"
      /\ loop' = [loop EXCEPT !.step = "attest", !.awaiting = None]
  BY DEF Delegated, Goto
<1>2. /\ loop.awaiting = Deploy("delegate", loop.cycle, None)
      /\ UNCHANGED <<pending, done, payment, frozen, quiet, decided>>
  BY <1>1, AnsweredIs, RequestsTyped
<1> USE DEF IInv, All
<1>3. TypeOK' /\ Begun' /\ Waits' /\ Paid'
  BY <1>1, <1>2 DEF TypeOK, Begun, Resting, Waits, Paid, Executed, Hashes, Steps
<1>4. InStep'
  BY <1>1, <1>2, CycleAssumption DEF TypeOK, InStep, Sent, Resting, Deploy
<1>5. AttestationFirst' /\ Judged' /\ Proven'
  BY <1>1, <1>2 DEF TypeOK, AttestationFirst, Judged, Proven
<1> QED
  BY <1>3, <1>4, <1>5

LEMMA AttestedKeeps ==
  ASSUME IInv, NEW ok \in BOOLEAN, Attested(ok)
  PROVE  IInv'
<1>1. Answered(ok) /\ UNCHANGED <<chainVars, decided>>
  BY DEF Attested, Answered
<1> SUFFICES ASSUME ok
             PROVE  IInv'
  BY <1>1, EndKeeps DEF Attested
<1> DEFINE step == IF loop.settled THEN "credit" ELSE "grade"
<1>2. /\ loop.step = "attest"
      /\ loop' = [loop EXCEPT !.step = step, !.awaiting = None]
      /\ step \in {"credit", "grade"}
      /\ step = "credit" => loop.settled
  BY DEF Attested, Goto
<1> HIDE DEF step
<1>3. /\ loop.awaiting = Deploy("attest", loop.cycle, None)
      /\ loop.awaiting \in done
      /\ UNCHANGED <<pending, done, payment, frozen, quiet, decided>>
  BY <1>1, <1>2, AnsweredIs, RequestsTyped
<1> USE DEF IInv, All
<1>4. TypeOK' /\ Begun' /\ Waits' /\ Paid'
  BY <1>2, <1>3 DEF TypeOK, Begun, Resting, Waits, Paid, Executed, Hashes, Steps
<1>5. InStep'
  BY <1>2, <1>3, CycleAssumption DEF TypeOK, InStep, Sent, Resting, Deploy
<1>6. AttestationFirst' /\ Judged' /\ Proven'
  BY <1>2, <1>3 DEF TypeOK, AttestationFirst, Judged, Proven
<1> QED
  BY <1>4, <1>5, <1>6

LEMMA CreditedKeeps ==
  ASSUME IInv, NEW ok \in BOOLEAN, Credited(ok)
  PROVE  IInv'
<1>1. Answered(ok) /\ UNCHANGED <<chainVars, decided>>
  BY DEF Credited, Answered
<1> SUFFICES ASSUME ok
             PROVE  IInv'
  BY <1>1, EndKeeps DEF Credited
<1>2. /\ loop.step = "credit"
      /\ loop' = [loop EXCEPT !.step = "grade", !.awaiting = None]
  BY DEF Credited, Goto
<1>3. /\ loop.awaiting = Deploy("credit", loop.cycle, loop.paid)
      /\ UNCHANGED <<pending, done, payment, frozen, quiet, decided>>
  BY <1>1, <1>2, AnsweredIs, RequestsTyped
<1> USE DEF IInv, All
<1>4. TypeOK' /\ Begun' /\ Waits' /\ Paid'
  BY <1>2, <1>3 DEF TypeOK, Begun, Resting, Waits, Paid, Executed, Hashes, Steps
<1>5. InStep'
  BY <1>2, <1>3, CycleAssumption DEF TypeOK, InStep, Sent, Resting, Deploy
<1>6. AttestationFirst' /\ Judged' /\ Proven'
  BY <1>2, <1>3 DEF TypeOK, AttestationFirst, Judged, Proven
<1> QED
  BY <1>4, <1>5, <1>6

LEMMA GradeKeeps == IInv /\ Grade => IInv'
<1> SUFFICES ASSUME IInv, Grade
             PROVE  IInv'
  OBVIOUS
<1>1. PICK verdict \in Verdicts :
        /\ loop.step = "grade"
        /\ loop' = [loop EXCEPT !.verdict = verdict, !.step = "audit"]
        /\ decided' = [decided EXCEPT ![loop.cycle].verdict = verdict]
        /\ UNCHANGED <<pending, done, payment, frozen, quiet>>
  BY DEF Grade, chainVars
<1> USE DEF IInv, All
<1>2. loop.awaiting = None /\ loop.cycle \in Cycles
  BY <1>1 DEF TypeOK, Begun, Resting, Waits, Requests, Kinds
<1>3. decided'[loop.cycle] = [decided[loop.cycle] EXCEPT !.verdict = verdict]
  BY <1>1, <1>2 DEF TypeOK
<1>4. decided'[loop.cycle] \in [action : Actions, tainted : BOOLEAN,
                                sure : BOOLEAN, verdict : Verdicts]
  BY <1>1, <1>3 DEF Judged
<1>5. /\ loop'.step = "audit" /\ loop'.cycle = loop.cycle
      /\ loop'.awaiting = None /\ loop'.verdict = verdict
      /\ loop'.action = loop.action
  BY <1>1, <1>2 DEF TypeOK
<1>6. TypeOK'
  BY <1>1, <1>4 DEF TypeOK, Steps
<1>7. Begun' /\ Waits' /\ Paid'
  BY <1>1, <1>2 DEF TypeOK, Begun, Resting, Waits, Paid, Executed, Hashes
<1>8. InStep'
  BY <1>1, <1>2, CycleAssumption DEF TypeOK, InStep, Sent, Resting
<1>9. AttestationFirst' /\ Proven'
  BY <1>1 DEF TypeOK, AttestationFirst, Proven
<1>10. Judged'
  <2>1. decided'[loop.cycle].verdict = verdict
        /\ decided'[loop.cycle].action = decided[loop.cycle].action
        /\ decided'[loop.cycle].tainted = decided[loop.cycle].tainted
    BY <1>1, <1>3 DEF Judged
  <2>2. ASSUME NEW d \in All', d.kind = "reallocate"
        PROVE  decided'[d.cycle] = Cleared
    <3>1. d \in All /\ d \in Deploys /\ d # None
      BY <1>1, <2>2, CycleAssumption DEF TypeOK
    <3>2. d.cycle # loop.cycle /\ d.cycle \in Cycles
      BY <1>1, <1>2, <2>2, <3>1 DEF InStep, Sent, Resting, Deploys
    <3>3. decided[d.cycle] = Cleared
      BY <2>2, <3>1 DEF Judged
    <3> QED
      BY <1>1, <3>2, <3>3 DEF TypeOK
  <2> QED
    BY <1>1, <1>4, <1>5, <2>1, <2>2 DEF Judged
<1> QED
  BY <1>6, <1>7, <1>8, <1>9, <1>10

LEMMA AuditAttestedKeeps ==
  ASSUME IInv, NEW ok \in BOOLEAN, AuditAttested(ok)
  PROVE  IInv'
<1>1. /\ Answered(ok) /\ loop.step = "audit"
      /\ loop' = [loop EXCEPT !.step = "judge", !.proof = ok, !.awaiting = None]
  BY DEF AuditAttested
<1>2. /\ loop.awaiting = Deploy("audit", loop.cycle, loop.verdict)
      /\ ok => loop.awaiting \in done
      /\ UNCHANGED <<pending, done, payment, frozen, quiet, decided>>
  BY <1>1, AnsweredIs, RequestsTyped
<1> USE DEF IInv, All
<1>3. TypeOK' /\ Begun' /\ Waits' /\ Paid'
  BY <1>1, <1>2 DEF TypeOK, Begun, Resting, Waits, Paid, Executed, Hashes, Steps
<1>4. InStep'
  BY <1>1, <1>2, CycleAssumption DEF TypeOK, InStep, Sent, Resting, Deploy
<1>5. AttestationFirst' /\ Judged' /\ Proven'
  BY <1>1, <1>2 DEF TypeOK, AttestationFirst, Judged, Proven
<1> QED
  BY <1>3, <1>4, <1>5

LEMMA JudgeKeeps == IInv /\ Judge => IInv'
<1> SUFFICES ASSUME IInv, Judge
             PROVE  IInv'
  OBVIOUS
<1>1. PICK sure \in BOOLEAN :
        /\ decided' = [decided EXCEPT ![loop.cycle].sure = sure]
        /\ \/ End
           \/ /\ sure /\ loop.action = "rebalance"
              /\ \/ loop.verdict = "VETO" /\ loop.proof /\ Goto("slash")
                 \/ loop.verdict = "APPROVE" /\ ToQuorum
  BY DEF Judge
<1>2. loop.step = "judge" /\ UNCHANGED <<pending, done, payment, frozen, quiet>>
  BY DEF Judge, chainVars
<1> USE DEF IInv, All
<1>3. loop.awaiting = None /\ loop.cycle \in Cycles
  BY <1>2 DEF TypeOK, Begun, Resting, Waits, Requests, Kinds
<1>4. decided'[loop.cycle] = [decided[loop.cycle] EXCEPT !.sure = sure]
  BY <1>1, <1>3 DEF TypeOK
<1>5. decided'[loop.cycle] \in [action : Actions, tainted : BOOLEAN,
                                sure : BOOLEAN, verdict : Verdicts]
  BY <1>2, <1>4 DEF Judged
<1>6. decided' \in [Cycles -> [action : Actions, tainted : BOOLEAN,
                               sure : BOOLEAN, verdict : Verdicts] \cup {None}]
  BY <1>1, <1>5 DEF TypeOK
<1>7. ASSUME NEW d \in All', d.kind = "reallocate"
      PROVE  decided'[d.cycle] = Cleared
  <2>1. d \in All /\ d \in Deploys /\ d # None
    BY <1>2, <1>7, CycleAssumption DEF TypeOK
  <2>2. d.cycle # loop.cycle /\ d.cycle \in Cycles
    BY <1>2, <1>3, <1>7, <2>1 DEF InStep, Sent, Resting, Deploys
  <2>3. decided[d.cycle] = Cleared
    BY <1>7, <2>1 DEF Judged
  <2> QED
    BY <1>1, <2>2, <2>3 DEF TypeOK
<1>8. CASE End
  <2>1. loop' = [step |-> "idle", cycle |-> loop.cycle, paid |-> None,
                 settled |-> FALSE, action |-> "escalate", verdict |-> "VETO",
                 proof |-> FALSE, left |-> {}, awaiting |-> None]
    BY <1>8 DEF End, Idle
  <2>2. TypeOK'
    BY <1>2, <1>6, <2>1 DEF TypeOK, Steps, Actions, Verdicts
  <2>3. Begun' /\ Waits' /\ Paid'
    BY <1>2, <2>1 DEF Begun, Resting, Waits, Paid, Executed, Hashes
  <2>4. \A d \in All' : Sent(d)'
    BY <1>2, <2>1 DEF Sent, Resting, Deploys, TypeOK
  <2>5. InStep' /\ AttestationFirst' /\ Judged' /\ Proven'
    BY <1>2, <1>7, <2>1, <2>4 DEF InStep, AttestationFirst, Judged, Proven
  <2> QED
    BY <2>2, <2>3, <2>5
<1>9. CASE loop.verdict = "VETO" /\ loop.proof /\ Goto("slash")
  <2>1. loop' = [loop EXCEPT !.step = "slash", !.awaiting = None]
    BY <1>9 DEF Goto
  <2>2. TypeOK' /\ Begun' /\ Waits' /\ Paid'
    BY <1>2, <1>6, <2>1 DEF TypeOK, Begun, Resting, Waits, Paid, Executed, Hashes, Steps
  <2>3. InStep'
    BY <1>2, <1>3, <2>1, CycleAssumption DEF TypeOK, InStep, Sent, Resting
  <2>4. AttestationFirst' /\ Judged'
    BY <1>2, <1>7, <2>1 DEF TypeOK, AttestationFirst, Judged
  <2>5. Proven'
    BY <1>2, <1>9, <2>1 DEF TypeOK, Proven
  <2> QED
    BY <2>2, <2>3, <2>4, <2>5
<1>10. CASE /\ sure /\ loop.action = "rebalance"
            /\ loop.verdict = "APPROVE" /\ ToQuorum
  <2> DEFINE step == IF Voters = {} THEN "reallocate" ELSE "vote"
  <2>1. /\ loop' = [loop EXCEPT !.left = Voters, !.step = step]
        /\ step \in {"reallocate", "vote"}
    BY <1>10 DEF ToQuorum
  <2> HIDE DEF step
  <2>2. TypeOK' /\ Begun' /\ Waits' /\ Paid'
    BY <1>2, <1>3, <1>6, <2>1 DEF TypeOK, Begun, Resting, Waits, Paid, Executed, Hashes, Steps
  <2>3. InStep'
    BY <1>2, <1>3, <2>1, CycleAssumption DEF TypeOK, InStep, Sent, Resting
  <2>4. AttestationFirst' /\ Proven'
    BY <1>2, <2>1 DEF TypeOK, AttestationFirst, Proven
  <2>5. decided'[loop.cycle] = Cleared
    BY <1>2, <1>4, <1>10 DEF Judged, Cleared
  <2>6. Judged'
    BY <1>2, <1>7, <2>1, <2>5 DEF TypeOK, Judged
  <2> QED
    BY <2>2, <2>3, <2>4, <2>6
<1> QED
  BY <1>1, <1>8, <1>9, <1>10

LEMMA VotedKeeps ==
  ASSUME IInv, NEW ok \in BOOLEAN, Voted(ok)
  PROVE  IInv'
<1> DEFINE left == loop.left \ {loop.awaiting.ref}
           step == IF left = {} THEN "reallocate" ELSE "vote"
<1>1. /\ Answered(ok) /\ loop.step = "vote"
      /\ loop' = [loop EXCEPT !.left = left, !.awaiting = None, !.step = step]
      /\ step \in {"reallocate", "vote"}
  BY DEF Voted
<1>2. /\ loop.awaiting.cycle = loop.cycle /\ loop.awaiting.kind = "vote"
      /\ UNCHANGED <<pending, done, payment, frozen, quiet, decided>>
  BY <1>1, AnsweredIs, RequestsTyped DEF Deploy
<1> HIDE DEF step
<1> USE DEF IInv, All
<1>3. TypeOK' /\ Begun' /\ Waits' /\ Paid'
  BY <1>1, <1>2 DEF TypeOK, Begun, Resting, Waits, Paid, Executed, Hashes, Steps
<1>4. InStep'
  BY <1>1, <1>2, CycleAssumption DEF TypeOK, InStep, Sent, Resting
<1>5. AttestationFirst' /\ Judged' /\ Proven'
  BY <1>1, <1>2 DEF TypeOK, AttestationFirst, Judged, Proven
<1> QED
  BY <1>3, <1>4, <1>5

LEMMA ReallocatedKeeps ==
  ASSUME IInv, NEW ok \in BOOLEAN, Reallocated(ok)
  PROVE  IInv'
<1>1. Answered(ok) /\ UNCHANGED <<chainVars, decided>>
  BY DEF Reallocated, Answered
<1> SUFFICES ASSUME ok
             PROVE  IInv'
  BY <1>1, EndKeeps DEF Reallocated
<1>2. /\ loop.step = "reallocate"
      /\ loop' = [loop EXCEPT !.step = "prove", !.awaiting = None]
  BY DEF Reallocated, Goto
<1>3. /\ loop.awaiting = Deploy("reallocate", loop.cycle, None)
      /\ UNCHANGED <<pending, done, payment, frozen, quiet, decided>>
  BY <1>1, <1>2, AnsweredIs, RequestsTyped
<1> USE DEF IInv, All
<1>4. TypeOK' /\ Begun' /\ Waits' /\ Paid'
  BY <1>2, <1>3 DEF TypeOK, Begun, Resting, Waits, Paid, Executed, Hashes, Steps
<1>5. InStep'
  BY <1>2, <1>3, CycleAssumption DEF TypeOK, InStep, Sent, Resting, Deploy
<1>6. AttestationFirst' /\ Judged' /\ Proven'
  BY <1>2, <1>3 DEF TypeOK, AttestationFirst, Judged, Proven
<1> QED
  BY <1>4, <1>5, <1>6

LEMMA ExecuteKeeps ==
  ASSUME IInv, NEW d \in pending, Execute(d)
  PROVE  IInv'
<1>1. /\ pending' = pending \ {d} /\ done' = done \cup {d} /\ quiet' \in {0, quiet}
      /\ UNCHANGED <<loop, payment, frozen, decided>>
      /\ Admissible(d)
  BY DEF Execute
<1>2. All' = All
  BY <1>1 DEF All
<1> USE DEF IInv
<1>3. TypeOK' /\ Begun' /\ Waits'
  BY <1>1, <1>2, CycleAssumption DEF TypeOK, Begun, Resting, Waits, Requests, Subjects
<1>4. InStep' /\ AttestationFirst' /\ Judged' /\ Proven'
  BY <1>1, <1>2 DEF InStep, Sent, Resting, AttestationFirst, Judged, Proven, Cleared
<1>5. Paid'
  BY <1>1, <1>2 DEF Paid, Executed, Hashes, Admissible
<1> QED
  BY <1>3, <1>4, <1>5

LEMMA RevertKeeps ==
  ASSUME IInv, NEW d \in pending, Revert(d)
  PROVE  IInv'
<1>1. /\ pending' = pending \ {d}
      /\ UNCHANGED <<loop, done, payment, frozen, quiet, decided>>
  BY DEF Revert
<1> USE DEF IInv, All
<1>2. TypeOK' /\ Begun' /\ Waits'
  BY <1>1 DEF TypeOK, Begun, Resting, Waits, Requests, Subjects
<1>3. InStep' /\ AttestationFirst' /\ Judged' /\ Paid' /\ Proven'
  BY <1>1 DEF InStep, Sent, Resting, AttestationFirst, Judged, Paid, Executed, Hashes, Proven, Cleared
<1> QED
  BY <1>2, <1>3

LEMMA SettleKeeps ==
  ASSUME IInv, NEW p \in Cycles, NEW fate \in {"settled", "failed"}, Settle(p, fate)
  PROVE  IInv'
<1>1. /\ payment[p] = "submitted" /\ payment' = [payment EXCEPT ![p] = fate]
      /\ UNCHANGED <<loop, pending, done, frozen, quiet, decided>>
  BY DEF Settle
<1> USE DEF IInv, All
<1>2. TypeOK' /\ Begun' /\ Waits' /\ Paid'
  BY <1>1 DEF TypeOK, Begun, Resting, Waits, Requests, Subjects, Paid, Executed, Hashes, Deploys
<1>3. InStep' /\ AttestationFirst' /\ Judged' /\ Proven'
  BY <1>1 DEF InStep, Sent, Resting, AttestationFirst, Judged, Proven, Cleared
<1> QED
  BY <1>2, <1>3

LEMMA OutsiderVotesKeeps ==
  ASSUME IInv, NEW c \in Cycles, NEW who \in Outsiders, OutsiderVotes(c, who)
  PROVE  IInv'
<1> DEFINE vote == Deploy("vote", c, who)
<1>1. /\ Deploy("attest", c, None) \in done
      /\ done' = done \cup {vote}
      /\ UNCHANGED <<loop, pending, payment, frozen, quiet, decided>>
  BY DEF OutsiderVotes
<1>2. /\ vote \in Deploys /\ vote.kind = "vote" /\ vote.cycle = c
      /\ vote.ref = who
  BY DEF Deploy, Deploys
<1> USE DEF IInv, All
<1>3. vote \notin pending
  BY <1>2, CycleAssumption DEF InStep
<1>4. c <= loop.cycle
  BY <1>1 DEF Begun, Resting, Deploy
<1> HIDE DEF vote
<1>5. TypeOK' /\ Waits'
  BY <1>1, <1>2, <1>3 DEF TypeOK, Waits, Requests, Subjects
<1>6. Begun'
  BY <1>1, <1>2, <1>4 DEF Begun, Resting
<1>7. InStep' /\ AttestationFirst' /\ Judged'
  BY <1>1, <1>2 DEF InStep, Sent, Resting, AttestationFirst, Judged, Cleared
<1>8. Paid' /\ Proven'
  BY <1>1, <1>2 DEF Paid, Executed, Hashes, Proven
<1> QED
  BY <1>5, <1>6, <1>7, <1>8

LEMMA FreezesKeep == IInv /\ (Freeze \/ Unfreeze) => IInv'
<1> SUFFICES ASSUME IInv, Freeze \/ Unfreeze
             PROVE  IInv'
  OBVIOUS
<1>1. /\ frozen' \in BOOLEAN /\ quiet' \in {0, quiet}
      /\ UNCHANGED <<loop, pending, done, payment, decided>>
  BY DEF Freeze, Unfreeze
<1> USE DEF IInv, All
<1>2. TypeOK' /\ Begun' /\ Waits'
  BY <1>1, CycleAssumption DEF TypeOK, Begun, Resting, Waits, Requests, Subjects
<1>3. InStep' /\ AttestationFirst' /\ Judged' /\ Paid' /\ Proven'
  BY <1>1 DEF InStep, Sent, Resting, AttestationFirst, Judged, Paid, Executed, Hashes, Proven, Cleared
<1> QED
  BY <1>2, <1>3

-----------------------------------------------------------------------------

LEMMA InitKeeps == Init => IInv
<1> SUFFICES ASSUME Init
             PROVE  IInv
  OBVIOUS
<1> USE CycleAssumption DEF Init, Idle, IInv, All
<1>1. TypeOK
  <2>1. loop \in [step : Steps, cycle : 0..MaxCycle, paid : Hashes \cup {None},
                  settled : BOOLEAN, action : Actions, verdict : Verdicts,
                  proof : BOOLEAN, left : SUBSET Voters,
                  awaiting : Deploys \cup {None}]
    BY DEF Steps, Actions, Verdicts
  <2> QED
    BY <2>1 DEF TypeOK
<1>2. Begun /\ Waits /\ InStep /\ AttestationFirst /\ Judged /\ Paid /\ Proven
  BY DEF Begun, Resting, Waits, InStep, AttestationFirst, Judged, Paid, Executed, Hashes, Proven
<1> QED
  BY <1>1, <1>2

LEMMA NextKeeps == IInv /\ [Next]_vars => IInv'
<1> SUFFICES ASSUME IInv, [Next]_vars
             PROVE  IInv'
  OBVIOUS
<1>1. CASE AgentStep
  <2>1. ASSUME NEW ok \in BOOLEAN, Slashed(ok) \/ Proved(ok)
        PROVE  IInv'
    BY <2>1, EndKeeps DEF Slashed, Proved, Answered
  <2> QED
    BY <1>1, <2>1, PayKeeps, ReasonKeeps, GradeKeeps, SubmitKeeps, JudgeKeeps,
       VerifyKeeps, DelegatedKeeps, AttestedKeeps, CreditedKeeps, AuditAttestedKeeps, VotedKeeps,
       ReallocatedKeeps DEF AgentStep
<1>2. CASE Crash
  BY <1>2, EndKeeps DEF Crash
<1>3. CASE Hang
  BY <1>3, HangKeeps
<1>4. CASE ChainStep
  BY <1>4, ExecuteKeeps, RevertKeeps, SettleKeeps, OutsiderVotesKeeps, FreezesKeep
     DEF ChainStep
<1>5. CASE UNCHANGED vars
  <2> USE <1>5 DEF vars, IInv, All
  <2>1. TypeOK' /\ Begun' /\ Waits'
    BY DEF TypeOK, Begun, Resting, Waits, Requests, Subjects
  <2>2. InStep' /\ AttestationFirst' /\ Judged' /\ Paid' /\ Proven'
    BY DEF InStep, Sent, Resting, AttestationFirst, Judged, Paid, Executed, Hashes, Proven, Cleared
  <2> QED
    BY <2>1, <2>2
<1> QED
  BY <1>1, <1>2, <1>3, <1>4, <1>5 DEF Next

(* The cycle, its deploys and its history keep their types for any number  *)
(* of cycles, and what the running cycle knows agrees with what is out.    *)
THEOREM CyclesKeepInvariant == Spec => []IInv
<1> QED
  BY InitKeeps, NextKeeps, PTL DEF Spec

(* What is in flight or executed keeps its type, and has one fate          *)
(* (casper.ts:88-109).                                                     *)
THEOREM AgentCycleTyped == Spec => []TypeOK
<1>1. IInv => TypeOK
  BY DEF IInv
<1> QED
  BY <1>1, CyclesKeepInvariant, PTL

(* Whatever is lost, late or cut short, in however many cycles, nothing    *)
(* that follows from a decision is sent before it is attested; only idle   *)
(* funds are staked before (index.ts:189-225).                             *)
THEOREM OnlyStakingComesFirst == Spec => []OnlyStakingBeforeTheAttestation
<1>1. IInv => OnlyStakingBeforeTheAttestation
  BY DEF IInv, AttestationFirst, OnlyStakingBeforeTheAttestation, OfCycle, Kinds, All
<1> QED
  BY <1>1, CyclesKeepInvariant, PTL

(* No threshold of the quorum and no auditor moves funds for a decision    *)
(* that was tainted, unsure or vetoed (index.ts:126-136, :282-333).        *)
THEOREM OnlyClearedMoves == Spec => []MovesWereCleared
<1>1. IInv => MovesWereCleared
  BY DEF IInv, Judged, MovesWereCleared, Deploy, All, Cleared
<1> QED
  BY <1>1, CyclesKeepInvariant, PTL

(* Whatever deploys the seller names and however often, each of them is    *)
(* credited once, and only when it executed; with a seller that names none *)
(* but payments, these settled (index.ts:62-76, :227-242).                 *)
THEOREM OneCreditPerSettlement ==
  Spec => []( /\ CreditsAreExecutedOnce
              /\ Elsewhere = {} => OnlyPaymentsAreCredited )
<1>1. IInv => CreditsAreExecutedOnce
  BY DEF IInv, Paid, CreditsAreExecutedOnce, All
<1>2. IInv /\ Elsewhere = {} => OnlyPaymentsAreCredited
  BY DEF IInv, Paid, TypeOK, Deploys, Hashes, Executed, OnlyPaymentsAreCredited, All
<1> QED
  BY <1>1, <1>2, CyclesKeepInvariant, PTL

(* A slash stands on a veto that is on-chain, and nothing of its cycle     *)
(* moves funds (index.ts:297-314).                                         *)
THEOREM SlashesAreProven == Spec => []SlashedOnProvenVetoOnly
<1>1. IInv => SlashedOnProvenVetoOnly
  BY DEF IInv, Proven, SlashedOnProvenVetoOnly, OfCycle, Deploy, All
<1> QED
  BY <1>1, CyclesKeepInvariant, PTL


-----------------------------------------------------------------------------
(* Medians.                                                                *)

(* A finite set has an element where a function is largest: the one with   *)
(* the fewest above it.                                                    *)
LEMMA Greatest ==
  ASSUME NEW G, IsFiniteSet(G), G # {}, NEW f \in [G -> Int]
  PROVE  \E m \in G : \A o \in G : f[o] <= f[m]
<1> DEFINE above(m) == {o \in G : f[o] > f[m]}
           S == {Cardinality(above(m)) : m \in G}
<1>1. \A m \in G : IsFiniteSet(above(m)) /\ Cardinality(above(m)) \in Nat
  BY FS_Subset, FS_CardinalityType
<1>2. S \in SUBSET Nat /\ S # {}
  BY <1>1
<1>3. PICK m \in G : \A o \in G : Cardinality(above(m)) <= Cardinality(above(o))
  <2>1. PICK n \in S : \A k \in S : n <= k
    BY <1>2, LeastNatural
  <2> QED
    BY <2>1
<1>4. ASSUME NEW o \in G, ~(f[o] <= f[m])
      PROVE  FALSE
  <2>1. f[o] > f[m]
    BY <1>4
  <2>2. above(o) \in SUBSET above(m) /\ o \in above(m) /\ o \notin above(o)
    BY <2>1
  <2>3. Cardinality(above(o)) <= Cardinality(above(m))
        /\ Cardinality(above(o)) # Cardinality(above(m))
    BY <1>1, <2>2, FS_Subset
  <2> QED
    BY <1>1, <1>3, <2>3
<1> QED
  BY <1>4

LEMMA Least ==
  ASSUME NEW G, IsFiniteSet(G), G # {}, NEW f \in [G -> Int]
  PROVE  \E m \in G : \A o \in G : f[m] <= f[o]
<1> DEFINE g == [m \in G |-> -f[m]]
<1>1. g \in [G -> Int]
  OBVIOUS
<1>2. PICK m \in G : \A o \in G : g[o] <= g[m]
  BY <1>1, Greatest
<1> QED
  BY <1>2

(* A group of votes that are moves.                                        *)
MovingGroup(group) ==
  IsFiniteSet(group) /\ group # {} /\ \A m \in group : answers[m].amount \in Int

UpTo(group, n) == {m \in group : answers[m].amount <= n}
Below(group, n) == {m \in group : answers[m].amount < n}

LEMMA Counted ==
  ASSUME NEW group, MovingGroup(group), NEW n
  PROVE  /\ IsFiniteSet(UpTo(group, n)) /\ Cardinality(UpTo(group, n)) \in Nat
         /\ IsFiniteSet(Below(group, n)) /\ Cardinality(Below(group, n)) \in Nat
         /\ Cardinality(group) \in Nat
BY FS_Subset, FS_CardinalityType DEF MovingGroup, UpTo, Below

(* The k-th smallest amount exists: it is the smallest that k members do   *)
(* not exceed.                                                             *)
LEMMA KthExists ==
  ASSUME NEW group, MovingGroup(group), NEW k \in 1..Cardinality(group)
  PROVE  /\ Kth(group, k) \in {answers[m].amount : m \in group}
         /\ Cardinality(Below(group, Kth(group, k))) < k
         /\ Cardinality(UpTo(group, Kth(group, k))) >= k
<1> DEFINE amounts == {answers[m].amount : m \in group}
           enough == {m \in group : Cardinality(UpTo(group, answers[m].amount)) >= k}
           f == [m \in group |-> answers[m].amount]
<1>1. f \in [group -> Int] /\ IsFiniteSet(group) /\ group # {}
  BY DEF MovingGroup
<1>2. PICK last \in group : \A o \in group : f[o] <= f[last]
  BY <1>1, Greatest
<1>3. last \in enough
  <2>1. UpTo(group, answers[last].amount) = group
    BY <1>2 DEF UpTo
  <2> QED
    BY <2>1, Counted
<1>4. PICK m \in enough : \A o \in enough : answers[m].amount <= answers[o].amount
  <2>1. IsFiniteSet(enough)
    BY <1>1, FS_Subset
  <2>2. [o \in enough |-> answers[o].amount] \in [enough -> Int]
    BY DEF MovingGroup
  <2> DEFINE g == [o \in enough |-> answers[o].amount]
  <2>3. PICK m \in enough : \A o \in enough : g[m] <= g[o]
    <3>1. enough # {}
      BY <1>3
    <3>2. IsFiniteSet(enough) /\ g \in [enough -> Int]
      BY <2>1, <2>2
    <3> HIDE DEF g, enough
    <3> QED
      BY <3>1, <3>2, Least
  <2> QED
    BY <2>3
<1> DEFINE n == answers[m].amount
<1>5. Cardinality(Below(group, n)) < k
  <2>1. CASE Below(group, n) = {}
    BY <2>1, FS_EmptySet
  <2>2. CASE Below(group, n) # {}
    <3>1. [o \in Below(group, n) |-> answers[o].amount] \in [Below(group, n) -> Int]
      BY DEF MovingGroup, Below
    <3>2. PICK p \in Below(group, n) :
            \A o \in Below(group, n) : answers[o].amount <= answers[p].amount
      <4> DEFINE g == [o \in Below(group, n) |-> answers[o].amount]
      <4>1. PICK p \in Below(group, n) : \A o \in Below(group, n) : g[o] <= g[p]
        <5> HIDE DEF g
        <5> QED
          BY <2>2, <3>1, Counted, Greatest DEF g
      <4> QED
        BY <4>1
    <3>3. p \in group /\ answers[p].amount < n
      BY <3>2 DEF Below
    <3>4. p \notin enough
      BY <1>4, <3>3 DEF MovingGroup
    <3>5. Below(group, n) \in SUBSET UpTo(group, answers[p].amount)
      BY <3>2 DEF Below, UpTo
    <3>6. Cardinality(Below(group, n)) <= Cardinality(UpTo(group, answers[p].amount))
      BY <3>5, Counted, FS_Subset
    <3> QED
      BY <3>3, <3>4, <3>6, Counted
  <2> QED
    BY <2>1, <2>2
<1>6. \E a \in amounts : /\ Cardinality({o \in group : answers[o].amount < a}) < k
                         /\ Cardinality({o \in group : answers[o].amount <= a}) >= k
  BY <1>4, <1>5 DEF Below, UpTo
<1> QED
  BY <1>6 DEF Kth, Below, UpTo

(* A set of two has another one beside any of its elements.                *)
LEMMA AnotherOne ==
  ASSUME NEW S, IsFiniteSet(S), Cardinality(S) >= 2, NEW m
  PROVE  \E o \in S : o # m
<1>1. SUFFICES ASSUME S \subseteq {m}
               PROVE  FALSE
  OBVIOUS
<1>2. IsFiniteSet({m}) /\ Cardinality({m}) = 1
  BY FS_Singleton
<1>3. Cardinality(S) <= 1
  BY <1>1, <1>2, FS_Subset
<1> QED
  BY <1>3, FS_CardinalityType

(* On both sides of the k-th amount there is a member, and another one     *)
(* unless it is the first or the last.                                     *)
LEMMA KthIsBetween ==
  ASSUME NEW group, MovingGroup(group), NEW k \in 1..Cardinality(group)
  PROVE  /\ Kth(group, k) \in Int
         /\ \E m \in group : answers[m].amount = Kth(group, k)
         /\ k >= 2 => \A m \in group : \E o \in group \ {m} :
                                         answers[o].amount <= Kth(group, k)
         /\ k < Cardinality(group) => \A m \in group : \E o \in group \ {m} :
                                         Kth(group, k) <= answers[o].amount
<1> DEFINE n == Kth(group, k)
           above == group \ Below(group, n)
<1>1. PICK m \in group : answers[m].amount = n
  BY KthExists
<1>2. n \in Int
  BY <1>1 DEF MovingGroup
<1>3. k >= 2 => \A o \in group : \E p \in group \ {o} : answers[p].amount <= n
  <2>1. k >= 2 => Cardinality(UpTo(group, n)) >= 2
    BY KthExists, Counted
  <2> QED
    BY <2>1, Counted, AnotherOne DEF UpTo
<1>4. k < Cardinality(group) => \A o \in group : \E p \in group \ {o} : n <= answers[p].amount
  <2>1. Cardinality(above) = Cardinality(group) - Cardinality(Below(group, n))
        /\ IsFiniteSet(above)
    <3>1. group \cap Below(group, n) = Below(group, n)
      BY DEF Below
    <3>2. IsFiniteSet(group) /\ IsFiniteSet(Below(group, n))
      BY Counted DEF MovingGroup
    <3> QED
      BY <3>1, <3>2, FS_Difference
  <2>2. k < Cardinality(group) => Cardinality(above) >= 2
    BY <2>1, KthExists, Counted
  <2>3. \A p \in above : p \in group /\ n <= answers[p].amount
    BY <1>2 DEF Below, MovingGroup
  <2> QED
    BY <2>1, <2>2, <2>3, AnotherOne
<1> QED
  BY <1>1, <1>2, <1>3, <1>4

LEMMA KthGrows ==
  ASSUME NEW group, MovingGroup(group), NEW k \in Nat, k \in 1..Cardinality(group),
         k + 1 \in 1..Cardinality(group)
  PROVE  Kth(group, k) <= Kth(group, k + 1)
<1> DEFINE n == Kth(group, k)
           p == Kth(group, k + 1)
<1>1. n \in Int /\ p \in Int
  BY KthIsBetween
<1>2. SUFFICES ASSUME p < n
               PROVE  FALSE
  BY <1>1
<1>3. UpTo(group, p) \in SUBSET Below(group, n)
  BY <1>1, <1>2 DEF UpTo, Below, MovingGroup
<1>4. Cardinality(UpTo(group, p)) <= Cardinality(Below(group, n))
  BY <1>3, Counted, FS_Subset
<1>5. Cardinality(Below(group, n)) < k /\ Cardinality(UpTo(group, p)) >= k + 1
  BY KthExists
<1> QED
  BY <1>4, <1>5, Counted

(* The median of a group is between two of its amounts, and if there are   *)
(* three or more, no one of them matters for that.                         *)
LEMMA MedianIsBetween ==
  ASSUME NEW group, MovingGroup(group)
  PROVE  /\ MedianAmount(group) \in Int
         /\ Between(MedianAmount(group), group)
         /\ Cardinality(group) >= 3 =>
              \A m \in group : Between(MedianAmount(group), group \ {m})
<1> DEFINE c == Cardinality(group)
           mid == c \div 2
<1>1. c \in Nat /\ c >= 1
  BY Counted, FS_EmptySet DEF MovingGroup
<1>2. CASE c % 2 = 1
  <2>1. c = 2 * mid + 1 /\ mid \in Nat
    BY <1>1, <1>2
  <2>2. mid + 1 \in 1..c /\ (c >= 3 => mid + 1 >= 2 /\ mid + 1 < c)
    BY <2>1
  <2>3. MedianAmount(group) = Kth(group, mid + 1)
    BY <1>2 DEF MedianAmount
  <2>4. /\ MedianAmount(group) \in Int
        /\ \E m \in group : answers[m].amount = MedianAmount(group)
    BY <2>2, <2>3, KthIsBetween
  <2>5. c >= 3 => \A m \in group :
          /\ \E o \in group \ {m} : answers[o].amount <= MedianAmount(group)
          /\ \E o \in group \ {m} : MedianAmount(group) <= answers[o].amount
    <3> DEFINE k == mid + 1
    <3>1. k \in 1..c /\ (c >= 3 => k >= 2 /\ k < c)
      BY <2>2
    <3> HIDE DEF k
    <3>2. c >= 3 => \A m \in group :
            /\ \E o \in group \ {m} : answers[o].amount <= Kth(group, k)
            /\ \E o \in group \ {m} : Kth(group, k) <= answers[o].amount
      BY <3>1, KthIsBetween
    <3> QED
      BY <2>3, <3>2 DEF k
  <2> QED
    BY <2>4, <2>5 DEF Between
<1>3. CASE c % 2 # 1
  <2> DEFINE low == Kth(group, mid)
             high == Kth(group, mid + 1)
             median == MedianAmount(group)
  <2>1. c = 2 * mid /\ mid \in Nat /\ mid >= 1
    BY <1>1, <1>3
  <2>2. /\ mid \in 1..c /\ mid + 1 \in 1..c /\ mid < c
        /\ c >= 3 => mid >= 2 /\ mid + 1 < c
    BY <2>1
  <2>3. median = (low + high) \div 2
    BY <1>3 DEF MedianAmount
  <2>4. low \in Int /\ high \in Int /\ low <= high
    BY <2>1, <2>2, KthIsBetween, KthGrows
  <2>5. median \in Int /\ low <= median /\ median <= high
    <3> HIDE DEF low, high, median
    <3> QED
      BY <2>3, <2>4
  <2>6. /\ \E m \in group : answers[m].amount = low
        /\ \E m \in group : answers[m].amount = high
    BY <2>2, KthIsBetween
  <2>7. c >= 3 => \A m \in group :
          /\ \E o \in group \ {m} : answers[o].amount <= low
          /\ \E o \in group \ {m} : high <= answers[o].amount
    BY <2>2, KthIsBetween
  <2>8. \A o \in group : answers[o].amount \in Int
    BY DEF MovingGroup
  <2> HIDE DEF low, high, median
  <2>9. Between(median, group)
    BY <2>4, <2>5, <2>6 DEF Between
  <2>10. ASSUME c >= 3, NEW m \in group
         PROVE  Between(median, group \ {m})
    <3>1. PICK o \in group \ {m} : answers[o].amount <= low
      BY <2>7, <2>10
    <3>2. PICK p \in group \ {m} : high <= answers[p].amount
      BY <2>7, <2>10
    <3>3. answers[o].amount <= median /\ median <= answers[p].amount
      BY <2>4, <2>5, <2>8, <3>1, <3>2
    <3> QED
      BY <3>3 DEF Between
  <2> QED
    BY <2>5, <2>9, <2>10 DEF median
<1> QED
  BY <1>2, <1>3

-----------------------------------------------------------------------------
(* The panel.                                                              *)

(* The fields of a decision; its confidence is a mean.                     *)
IsDecision(d) ==
  /\ d = [action |-> d.action, from |-> d.from, to |-> d.to,
          amount |-> d.amount, confidence |-> d.confidence]
  /\ d.from \in Named /\ d.to \in Named

(* What the panel has decided rests on its votes, until a limit or a taint *)
(* turns it into an escalation.                                            *)
ConsensusInv ==
  /\ answers \in [Panel -> Votes \cup {Waiting, Failed}]
  /\ decision = Undecided => limits = Waiting
  /\ decision # Undecided => \A m \in Panel : answers[m] # Waiting
  /\ decision # Undecided => IsDecision(decision)
  /\ Moving => decision.amount \in Int
  /\ MajorityBacksTheMove
  /\ OutlierAmongThreeIsHarmless
  /\ GuardedMovesAreAdmissible

LEMMA TallyKeeps ==
  ASSUME ConsensusInv, Tally
  PROVE  ConsensusInv'
<1>1. /\ UNCHANGED <<answers, limits>> /\ decision = Undecided /\ limits = Waiting
      /\ \A m \in Panel : answers[m] # Waiting
  BY DEF Tally, ConsensusInv
<1>2. limits' \notin Readings
  BY <1>1, ConsensusAssumption
<1>5. \A v \in Votes : IsDecision(v)
  BY ConsensusAssumption DEF Votes, IsDecision, Asset
<1>3. CASE decision' = Escalation
  <2>1. ~Moving' /\ IsDecision(decision')
    BY <1>3, ConsensusAssumption DEF Moving, Escalation, IsDecision, Asset
  <2> QED
    BY <1>1, <2>1 DEF ConsensusInv, MajorityBacksTheMove, OutlierAmongThreeIsHarmless,
      GuardedMovesAreAdmissible
<1>6. ASSUME NEW m \in Cast, NEW x, NEW y,
             decision' = [answers[m] EXCEPT !.amount = x, !.confidence = y]
      PROVE  IsDecision(decision')
  <2>1. answers[m] \in Votes
    BY DEF Cast, ConsensusInv
  <2> DEFINE a == answers[m]
  <2>2. a = [action |-> a.action, from |-> a.from, to |-> a.to,
             amount |-> a.amount, confidence |-> a.confidence]
        /\ a.from \in Named /\ a.to \in Named
    BY <1>5, <2>1 DEF IsDecision
  <2>3. decision' = [action |-> a.action, from |-> a.from, to |-> a.to,
                     amount |-> x, confidence |-> y]
    <3>1. decision' = [a EXCEPT !.amount = x, !.confidence = y]
      BY <1>6
    <3> HIDE DEF a
    <3> QED
      BY <2>2, <3>1
  <2> QED
    BY <2>2, <2>3 DEF IsDecision
<1>4. ASSUME NEW m \in Cast, Majority(Group(m)), Moving',
             decision' = [answers[m] EXCEPT
                            !.amount = IF answers[m].action = "rebalance"
                                       THEN MedianAmount(Group(m)) ELSE 0,
                            !.confidence = MeanConfidence(Group(m))]
      PROVE  decision'.amount \in Int /\ MajorityBacksTheMove' /\ OutlierAmongThreeIsHarmless'
  <2>1. answers[m] \in Votes
    BY DEF Cast, ConsensusInv
  <2>2. /\ answers[m].action = "rebalance" /\ decision'.amount = MedianAmount(Group(m))
        /\ decision'.from = answers[m].from /\ decision'.to = answers[m].to
    BY <1>4, <2>1 DEF Moving, Votes
  <2>3. Backers' = Group(m)
    BY <1>1, <2>2 DEF Backers, Group, Agree, Cast
  <2>4. MovingGroup(Group(m))
    <3>1. Group(m) \in SUBSET Panel /\ m \in Group(m)
      BY DEF Group, Cast, Agree
    <3>2. \A n \in Group(m) : answers[n] \in Votes
      BY DEF Group, Cast, ConsensusInv
    <3>3. \A v \in Votes : v.amount \in Int
      BY ConsensusAssumption DEF Votes
    <3> QED
      BY <3>1, <3>2, <3>3, ConsensusAssumption, FS_Subset DEF MovingGroup
  <2>5. \A a, voters : Between(a, voters)' <=> Between(a, voters)
    BY <1>1 DEF Between
  <2> QED
    BY <1>4, <2>2, <2>3, <2>4, <2>5, MedianIsBetween
       DEF MajorityBacksTheMove, OutlierAmongThreeIsHarmless, Majority
<1> QED
  BY <1>1, <1>2, <1>3, <1>4, <1>6
     DEF Tally, ConsensusInv, MajorityBacksTheMove, OutlierAmongThreeIsHarmless,
         GuardedMovesAreAdmissible

LEMMA ForcedIsDecision ==
  ASSUME NEW d, IsDecision(d)
  PROVE  IsDecision(Forced(d)) /\ Forced(d) \in Decisions
<1>1. PICK e : e = Forced(d)
  OBVIOUS
<1>2. /\ d = [action |-> d.action, from |-> d.from, to |-> d.to,
              amount |-> d.amount, confidence |-> d.confidence]
      /\ d.from \in Named /\ d.to \in Named
  BY DEF IsDecision
<1>3. e = [d EXCEPT !.action = "escalate", !.amount = 0, !.confidence = 0]
  BY <1>1 DEF Forced
<1>4. e = [action |-> "escalate", from |-> d.from, to |-> d.to,
           amount |-> 0, confidence |-> 0]
  BY <1>2, <1>3
<1>5. IsDecision(e) /\ e \in Decisions
  BY <1>2, <1>4 DEF IsDecision, Decisions, KnownActions
<1> QED
  BY <1>1, <1>5

LEMMA GuardKeeps ==
  ASSUME ConsensusInv, Guard
  PROVE  ConsensusInv'
<1>1. PICK read \in Readings \cup {Unreadable}, tainted \in BOOLEAN :
        /\ limits' = read
        /\ decision' = IF tainted \/ (read # Unreadable /\ Violates(decision, read))
                       THEN Forced(decision) ELSE decision
  BY DEF Guard
<1>2. decision # Undecided /\ UNCHANGED answers
  BY DEF Guard
<1>3. CASE Moving'
  <2>1. decision' = decision /\ (read = Unreadable \/ ~Violates(decision, read))
    BY <1>1, <1>3 DEF Moving, Forced
  <2>2. Moving /\ decision.amount \in Int
    BY <1>3, <2>1 DEF Moving, ConsensusInv
  <2>3. MajorityBacksTheMove' /\ OutlierAmongThreeIsHarmless'
    BY <1>2, <2>1 DEF ConsensusInv, MajorityBacksTheMove, OutlierAmongThreeIsHarmless,
      Moving, Backers, Cast, Between
  <2>4. GuardedMovesAreAdmissible'
    <3>1. SUFFICES ASSUME read \in Readings
                   PROVE  GuardedMovesAreAdmissible'
      BY <1>1 DEF GuardedMovesAreAdmissible
    <3>2. ~Violates(decision, read)
      BY <2>1, <3>1, ConsensusAssumption
    <3>3. read.maxPerTx \in Nat /\ \A a \in Asset : read.holdings[a] \in Nat
      BY <3>1, ConsensusAssumption
    <3>4. /\ decision.from # decision.to /\ {decision.from, decision.to} \subseteq Asset
          /\ 0 < decision.amount /\ decision.amount <= read.holdings[decision.from]
          /\ read.maxPerTx > 0 => decision.amount <= read.maxPerTx
      BY <2>2, <3>2, <3>3 DEF Violates, Moving
    <3> QED
      BY <1>1, <2>1, <3>4 DEF GuardedMovesAreAdmissible
  <2> QED
    BY <1>2, <2>1, <2>2, <2>3, <2>4 DEF ConsensusInv
<1>4. CASE ~Moving'
  <2>1. IsDecision(Forced(decision)) /\ Forced(decision) \in Decisions
    BY <1>2, ForcedIsDecision DEF ConsensusInv
  <2>2. decision' # Undecided /\ IsDecision(decision')
    BY <1>1, <1>2, <2>1, ConsensusAssumption DEF ConsensusInv
  <2> QED
    BY <1>2, <1>4, <2>2 DEF ConsensusInv, MajorityBacksTheMove,
      OutlierAmongThreeIsHarmless, GuardedMovesAreAdmissible
<1> QED
  BY <1>3, <1>4

LEMMA PanelKeeps ==
  ASSUME ConsensusInv, [ConsensusNext]_consensusVars
  PROVE  ConsensusInv'
<1>1. ASSUME NEW m \in Panel, Answer(m)
      PROVE  ConsensusInv'
  <2>1. /\ answers' \in [Panel -> Votes \cup {Waiting, Failed}]
        /\ UNCHANGED <<decision, limits>> /\ decision = Undecided
    BY <1>1 DEF Answer, ConsensusInv
  <2>2. ~Moving' /\ ~Moving
    BY <2>1 DEF Moving
  <2> QED
    BY <2>1, <2>2 DEF ConsensusInv, MajorityBacksTheMove, OutlierAmongThreeIsHarmless,
      GuardedMovesAreAdmissible
<1>2. CASE NextCycle
  <2>1. ~Moving' /\ answers' \in [Panel -> Votes \cup {Waiting, Failed}]
    BY <1>2 DEF Moving, NextCycle
  <2> QED
    BY <1>2, <2>1 DEF NextCycle, ConsensusInv, MajorityBacksTheMove,
      OutlierAmongThreeIsHarmless, GuardedMovesAreAdmissible
<1>3. CASE UNCHANGED consensusVars
  BY <1>3 DEF consensusVars, ConsensusInv, Moving, MajorityBacksTheMove, Backers, Cast, Between,
    OutlierAmongThreeIsHarmless, GuardedMovesAreAdmissible
<1> QED
  BY <1>1, <1>2, <1>3, TallyKeeps, GuardKeeps DEF ConsensusNext

LEMMA PanelInvariant == ConsensusSpec => []ConsensusInv
<1>1. ConsensusInit => ConsensusInv
  BY DEF ConsensusInit, ConsensusInv, Moving, MajorityBacksTheMove, OutlierAmongThreeIsHarmless,
    GuardedMovesAreAdmissible
<1> QED
  BY <1>1, PanelKeeps, PTL DEF ConsensusSpec

(* For a panel of any size, whoever fails, abstains or disagrees, funds    *)
(* move only the way and within the amounts that a majority of the whole   *)
(* panel asked for (consensus.ts:67-92).                                   *)
THEOREM MovesAreBacked == ConsensusSpec => []MajorityBacksTheMove
<1>1. ConsensusInv => MajorityBacksTheMove
  BY DEF ConsensusInv
<1> QED
  BY <1>1, PanelInvariant, PTL

(* In a majority of three or more no single model, whatever amount it      *)
(* writes, takes the median out of the others' range (consensus.ts:39-45). *)
THEOREM MediansAreRobust == ConsensusSpec => []OutlierAmongThreeIsHarmless
<1>1. ConsensusInv => OutlierAmongThreeIsHarmless
  BY DEF ConsensusInv
<1> QED
  BY <1>1, PanelInvariant, PTL

(* Whatever integers models write and whatever limits are read, a move     *)
(* that leaves the guard is within them (guard.ts:93-122).                 *)
THEOREM GuardAdmitsWithinLimits == ConsensusSpec => []GuardedMovesAreAdmissible
<1>1. ConsensusInv => GuardedMovesAreAdmissible
  BY DEF ConsensusInv
<1> QED
  BY <1>1, PanelInvariant, PTL

(* The mean of a group's confidences is a number.                          *)
LEMMA MeanIsANumber ==
  ASSUME ConsensusInv, NEW m \in Cast
  PROVE  MeanConfidence(Group(m)) \in Int
<1> DEFINE S == Group(m)
           f == [o \in S |-> answers[o].confidence]
           Adds(g) == g = [s \in SUBSET S |->
                             IF s = {} THEN 0
                             ELSE answers[Picked(s)].confidence + g[s \ {Picked(s)}]]
           sum == MapThenSumSet(LAMBDA o : answers[o].confidence, S)
           n == Cardinality(S)
<1>1. S \in SUBSET Panel /\ m \in S
  BY DEF Group, Cast, Agree
<1>2. IsFiniteSet(S) /\ n \in Nat \ {0}
  <2>1. IsFiniteSet(S)
    BY <1>1, ConsensusAssumption, FS_Subset
  <2> QED
    BY <1>1, <2>1, FS_CardinalityType, FS_EmptySet
<1>3. f \in [S -> Int]
  <2>1. \A o \in S : answers[o] \in Votes
    BY DEF Group, Cast, ConsensusInv
  <2>2. \A v \in Votes : v.confidence \in Int
    BY ConsensusAssumption DEF Votes
  <2> HIDE DEF S
  <2> QED
    BY <2>1, <2>2
<1>4. \A g : Adds(g) <=> AddsUp(g, f, S)
  <2>1. \A s \in SUBSET S : s # {} => f[Picked(s)] = answers[Picked(s)].confidence
    BY DEF Picked
  <2> HIDE DEF S, f
  <2> QED
    BY <2>1 DEF AddsUp
<1> DEFINE F == CHOOSE g : Adds(g)
<1>5. AddsUp(F, f, S)
  <2>1. \E g : AddsUp(g, f, S)
    BY <1>2, AddsUpExists
  <2>2. \E g : Adds(g)
    BY <1>4, <2>1
  <2> HIDE DEF Adds
  <2> QED
    BY <1>4, <2>2
<1>6. sum = F[S]
  BY DEF MapThenSumSet, MapThenFoldSet, Picked
<1>7. sum \in Int
  <2> HIDE DEF S, f, F, sum
  <2> QED
    BY <1>2, <1>3, <1>5, <1>6, IntegersAddUp
<1>8. MeanConfidence(S) = 10 * ((sum + 5 * n) \div (10 * n))
  BY DEF MeanConfidence
<1> HIDE DEF sum, n, S
<1>9. sum + 5 * n \in Int /\ 10 * n \in Nat \ {0}
  BY <1>2, <1>7
<1>10. (sum + 5 * n) \div (10 * n) \in Int
  BY <1>9
<1> QED
  BY <1>8, <1>10 DEF S

LEMMA TallyIsTyped ==
  ASSUME ConsensusInv, ConsensusTypeOK, Tally
  PROVE  ConsensusTypeOK'
<1>1. UNCHANGED <<answers, limits>> /\ ConsensusInv'
  BY TallyKeeps DEF Tally
<1>2. CASE decision' = Escalation
  <2>1. "Gold" \in Named
    BY ConsensusAssumption DEF Asset
  <2>2. Escalation \in Decisions /\ Escalation.amount = 0
    BY <2>1 DEF Escalation, Decisions, KnownActions
  <2> QED
    BY <1>1, <1>2, <2>2 DEF ConsensusTypeOK
<1>3. ASSUME NEW m \in Cast,
             decision' = [answers[m] EXCEPT
                            !.amount = IF answers[m].action = "rebalance"
                                       THEN MedianAmount(Group(m)) ELSE 0,
                            !.confidence = MeanConfidence(Group(m))]
      PROVE  ConsensusTypeOK'
  <2> DEFINE a == answers[m]
             x == IF a.action = "rebalance" THEN MedianAmount(Group(m)) ELSE 0
             y == MeanConfidence(Group(m))
  <2>1. a \in Votes
    BY DEF Cast, ConsensusInv
  <2>2. /\ a = [action |-> a.action, from |-> a.from, to |-> a.to,
                amount |-> a.amount, confidence |-> a.confidence]
        /\ a.action \in {"rebalance", "hold", "escalate", "unknown"}
        /\ a.from \in Named /\ a.to \in Named
    BY <2>1, ConsensusAssumption DEF Votes, Asset
  <2>3. y \in Int
    BY MeanIsANumber
  <2>4. decision' = [action |-> a.action, from |-> a.from, to |-> a.to,
                     amount |-> x, confidence |-> y]
    <3>1. decision' = [a EXCEPT !.amount = x, !.confidence = y]
      BY <1>3
    <3> HIDE DEF a, x, y
    <3> QED
      BY <2>2, <3>1
  <2>5. x \in Int
    <3>1. Group(m) \in SUBSET Panel /\ m \in Group(m)
      BY DEF Group, Cast, Agree
    <3>2. \A n \in Group(m) : answers[n].amount \in Int
      <4>1. \A n \in Group(m) : answers[n] \in Votes
        BY DEF Group, Cast, ConsensusInv
      <4>2. \A v \in Votes : v.amount \in Int
        BY ConsensusAssumption DEF Votes
      <4> QED
        BY <4>1, <4>2
    <3>3. MovingGroup(Group(m))
      BY <3>1, <3>2, ConsensusAssumption, FS_Subset DEF MovingGroup
    <3>4. MedianAmount(Group(m)) \in Int
      BY <3>3, MedianIsBetween
    <3> QED
      BY <3>4
  <2> HIDE DEF a, y
  <2>6. decision' \in Decisions /\ (decision'.action # "rebalance" => decision'.amount = 0)
    BY <2>2, <2>3, <2>4, <2>5 DEF Decisions, KnownActions
  <2> QED
    BY <1>1, <2>6 DEF ConsensusTypeOK
<1> QED
  BY <1>2, <1>3 DEF Tally

(* Whatever models write, the panel's decision is one: its amount and its  *)
(* confidence are numbers, and what moves nothing carries no amount        *)
(* (consensus.ts:67-110, guard.ts:93-122).                                 *)
THEOREM ConsensusTyped == ConsensusSpec => []ConsensusTypeOK
<1>1. ConsensusInit => ConsensusTypeOK
  BY DEF ConsensusInit, ConsensusTypeOK
<1>2. ConsensusInv /\ ConsensusTypeOK /\ [ConsensusNext]_consensusVars => ConsensusTypeOK'
  <2> SUFFICES ASSUME ConsensusInv, ConsensusTypeOK, [ConsensusNext]_consensusVars
               PROVE  ConsensusTypeOK'
    OBVIOUS
  <2>1. answers' \in [Panel -> Votes \cup {Waiting, Failed}]
    BY PanelKeeps DEF ConsensusInv
  <2>2. CASE UNCHANGED <<decision, limits>>
    BY <2>1, <2>2 DEF ConsensusTypeOK
  <2>3. CASE Guard
    <3>1. PICK read \in Readings \cup {Unreadable} :
            limits' = read /\ decision' \in {decision, Forced(decision)}
      BY <2>3 DEF Guard
    <3>2. Forced(decision) \in Decisions /\ Forced(decision).amount = 0
      <4>1. IsDecision(decision)
        BY <2>3 DEF Guard, ConsensusInv
      <4>2. Forced(decision) \in Decisions
        BY <4>1, ForcedIsDecision
      <4> QED
        BY <4>1, <4>2 DEF IsDecision, Forced
    <3> QED
      BY <2>1, <3>1, <3>2 DEF ConsensusTypeOK
  <2>4. CASE NextCycle
    BY <2>1, <2>4 DEF NextCycle, ConsensusTypeOK
  <2> QED
    BY <2>2, <2>3, <2>4, TallyIsTyped DEF ConsensusNext, Answer, consensusVars
<1> QED
  BY <1>1, <1>2, PanelInvariant, PTL DEF ConsensusSpec
=============================================================================
