------------------------------ MODULE Consensus ------------------------------
(***************************************************************************)
(* agent/src/consensus.ts and the output check of guard.ts, as one cycle   *)
(* of index.ts runs them: every model of the panel is asked at once, each  *)
(* answers with a decision or fails, the answers are tallied, and what     *)
(* comes out is checked against limits that are read from the chain after  *)
(* the panel has answered, if they can be read.                            *)
(*                                                                         *)
(* Confidences are in thousandths.  A panel of one is not tallied at all:  *)
(* its decision goes straight to the guard, and is not modelled here.      *)
(***************************************************************************)
EXTENDS Assets, FiniteSets, FiniteSetsExt

CONSTANTS
  Panel,        \* the distinct models that are asked
  Named,        \* asset names that a model may write, known or not
  Pairs,        \* <<from, to>> pairs of names that are explored
  Sizes,        \* amounts that a model may write
  Confidences,  \* what a model may write, after normalize()
  Readings,     \* limits that may be read from the chain
  Waiting, Failed, Unreadable, Undecided

VARIABLES answers, decision, limits

consensusVars == <<answers, decision, limits>>

KnownActions == {"rebalance", "hold", "escalate"}

(* A model may also write an action that the agent does not know.          *)
Decisions ==
  [action : KnownActions \cup {"unknown"}, from : Named, to : Named,
   amount : Int, confidence : Int]

ASSUME ConsensusAssumption ==
  /\ IsFiniteSet(Panel) /\ Cardinality(Panel) >= 2
  /\ Asset \subseteq Named
  /\ Pairs \subseteq Named \X Named
  /\ Sizes \subseteq Int
  /\ Confidences \subseteq Int
  /\ Readings \subseteq [maxPerTx : Nat, holdings : [Asset -> Nat]]
  /\ {Waiting, Unreadable} \cap Readings = {}
  /\ Undecided \notin Decisions

(* normalize() leaves no amount on a vote that moves nothing.              *)
Votes ==
  {[action |-> "rebalance", from |-> p[1], to |-> p[2], amount |-> n,
    confidence |-> c] : p \in Pairs, n \in Sizes, c \in Confidences}
    \cup
  {[action |-> a, from |-> "Gold", to |-> "Gold", amount |-> 0,
    confidence |-> c] : a \in {"hold", "escalate", "unknown"}, c \in Confidences}

(* The answers, the decision and the limits keep their types, and what is  *)
(* not a move carries no amount.                                           *)
ConsensusTypeOK ==
  /\ answers \in [Panel -> Votes \cup {Waiting, Failed}]
  /\ decision \in Decisions \cup {Undecided}
  /\ decision # Undecided /\ decision.action # "rebalance" => decision.amount = 0
  /\ limits \in Readings \cup {Unreadable, Waiting}

-----------------------------------------------------------------------------

ConsensusInit ==
  /\ answers = [m \in Panel |-> Waiting]
  /\ decision = Undecided
  /\ limits = Waiting

Answer(m) ==
  /\ answers[m] = Waiting
  /\ \E answer \in Votes \cup {Failed} :
       answers' = [answers EXCEPT ![m] = answer]
  /\ UNCHANGED <<decision, limits>>

Cast == {m \in Panel : answers[m] \notin {Waiting, Failed}}

(* groupKey: two rebalances agree only if they move the same way.          *)
Agree(v, w) ==
  /\ v.action = w.action
  /\ v.action = "rebalance" => v.from = w.from /\ v.to = w.to

Group(m) == {n \in Cast : Agree(answers[n], answers[m])}

(* Mutant: a majority of the votes that were cast.                         *)
MajorityOfCast(group) == 2 * Cardinality(group) > Cardinality(Cast)

(* Strictly more than half of the full panel, so there is one at most.     *)
Majority(group) == 2 * Cardinality(group) > Cardinality(Panel)

(* The k-th smallest amount of a group.                                    *)
Kth(group, k) ==
  CHOOSE n \in {answers[m].amount : m \in group} :
    /\ Cardinality({m \in group : answers[m].amount < n}) < k
    /\ Cardinality({m \in group : answers[m].amount <= n}) >= k

(* Mutant: the panel takes the largest amount of the group.                *)
LargestAmount(group) == Kth(group, Cardinality(group))

MedianAmount(group) ==
  LET mid == Cardinality(group) \div 2
  IN  IF Cardinality(group) % 2 = 1
      THEN Kth(group, mid + 1)
      ELSE (Kth(group, mid) + Kth(group, mid + 1)) \div 2

(* The mean, rounded to hundredths.                                        *)
MeanConfidence(group) ==
  LET sum == MapThenSumSet(LAMBDA m : answers[m].confidence, group)
      n == Cardinality(group)
  IN  10 * ((sum + 5 * n) \div (10 * n))

Escalation == [action |-> "escalate", from |-> "Gold", to |-> "Gold",
               amount |-> 0, confidence |-> 0]

(* computeConsensus: the first member of the majority stands for it.       *)
Tally ==
  /\ decision = Undecided
  /\ \A m \in Panel : answers[m] # Waiting
  /\ \/ \E m \in Cast :
          /\ Majority(Group(m))
          /\ decision' =
               [answers[m] EXCEPT
                  !.amount = IF answers[m].action = "rebalance"
                             THEN MedianAmount(Group(m)) ELSE 0,
                  !.confidence = MeanConfidence(Group(m))]
     \/ /\ \A m \in Cast : ~Majority(Group(m))
        /\ decision' = Escalation
  /\ UNCHANGED <<answers, limits>>

(* Mutant: what the asset holds is not looked at.                          *)
ViolatesButBalance(d, read) ==
  \/ d.action \notin KnownActions
  \/ d.confidence \notin 0..1000
  \/ /\ d.action = "rebalance"
     /\ \/ ~({d.from, d.to} \subseteq Asset)
        \/ d.from = d.to
        \/ d.amount <= 0
        \/ read.maxPerTx > 0 /\ d.amount > read.maxPerTx

(* validateDecision, when the limits could be read.                        *)
Violates(d, read) ==
  \/ d.action \notin KnownActions
  \/ d.confidence \notin 0..1000
  \/ d.action # "rebalance" /\ d.amount > 0
  \/ /\ d.action = "rebalance"
     /\ \/ ~({d.from, d.to} \subseteq Asset)
        \/ d.from = d.to
        \/ d.amount <= 0
        \/ read.maxPerTx > 0 /\ d.amount > read.maxPerTx
        \/ d.from \in Asset /\ d.amount > read.holdings[d.from]

Forced(d) == [d EXCEPT !.action = "escalate", !.amount = 0, !.confidence = 0]

(* Inputs that address the model taint the cycle, whatever it decided.     *)
Guard ==
  /\ decision # Undecided /\ limits = Waiting
  /\ \E read \in Readings \cup {Unreadable}, tainted \in BOOLEAN :
       /\ limits' = read
       /\ decision' = IF tainted \/ (read # Unreadable /\ Violates(decision, read))
                      THEN Forced(decision) ELSE decision
  /\ UNCHANGED answers

NextCycle ==
  /\ limits # Waiting
  /\ answers' = [m \in Panel |-> Waiting]
  /\ decision' = Undecided
  /\ limits' = Waiting

ConsensusNext == (\E m \in Panel : Answer(m)) \/ Tally \/ Guard \/ NextCycle

ConsensusSpec == ConsensusInit /\ [][ConsensusNext]_consensusVars

-----------------------------------------------------------------------------

Moving == decision # Undecided /\ decision.action = "rebalance"

Backers ==
  {m \in Cast : /\ answers[m].action = "rebalance"
               /\ answers[m].from = decision.from /\ answers[m].to = decision.to}

Between(amount, voters) ==
  \E m, n \in voters : answers[m].amount <= amount /\ amount <= answers[n].amount

(* Funds only move the way more than half of the whole panel voted, with   *)
(* an amount between what two of those models asked for: abstentions and   *)
(* votes for the opposite direction make no majority (consensus.ts:67-92). *)
MajorityBacksTheMove ==
  Moving =>
    /\ 2 * Cardinality(Backers) > Cardinality(Panel)
    /\ Between(decision.amount, Backers)

(* When three models or more agree on a move, none of them can take the    *)
(* amount out of the range of the others (consensus.ts:39-45).             *)
OutlierAmongThreeIsHarmless ==
  Moving /\ Cardinality(Backers) >= 3 =>
    \A m \in Backers : Between(decision.amount, Backers \ {m})

(* "a robust panel amount that no single model can inflate (an outlier     *)
(* high/low vote can't drag the median)" (consensus.ts:39-40).             *)
OutlierIsHarmless ==
  Moving => \A m \in Backers : Between(decision.amount, Backers \ {m})

(* A move that leaves the guard is one the vault and its gate would admit  *)
(* at the limits that were read, whatever the median of the panel's votes  *)
(* came to; a cap of zero is an unknown one (guard.ts:93-122).             *)
GuardedMovesAreAdmissible ==
  Moving /\ limits \in Readings =>
    /\ decision.from # decision.to
    /\ {decision.from, decision.to} \subseteq Asset
    /\ 0 < decision.amount /\ decision.amount <= limits.holdings[decision.from]
    /\ limits.maxPerTx > 0 => decision.amount <= limits.maxPerTx
=============================================================================
