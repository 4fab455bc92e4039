---------------------------- MODULE ServicesProofs ----------------------------
(***************************************************************************)
(* What the programs around the cycle promise, for any number of runs,     *)
(* requests, panels, callers, accounts and decisions, and however their    *)
(* steps interleave with those of the chain and of the people who use      *)
(* them.                                                                   *)
(***************************************************************************)
EXTENDS Services, Sequences, SequenceTheorems, FoldLemmas

(* The programs share nothing: a step of all of them is a step of each, or *)
(* leaves it alone.                                                        *)
LEMMA StepOfEach ==
  ASSUME [ServicesNext]_allVars
  PROVE  /\ [Next]_vars
         /\ [Seller!Next]_sellerVars
         /\ [Reads!Next]_readsVars
         /\ [Cache!Next]_memoVars
         /\ [Connect!Next]_pageVars
         /\ [Tree!Next]_treeVars
         /\ [Paper!Next]_paperVars
         /\ [Feed!Next]_feedVars
         /\ [History!Next]_indexerVars
         /\ [Voting!Next]_votingVars
         /\ [Publish!Next]_publicationVars
BY DEF ServicesNext, allVars

-----------------------------------------------------------------------------
(* Staking.                                                                *)

RunsTyped ==
  /\ run \in [Program -> [step : {"idle", "attest", "delegate"}, nr : Nat,
                          amount : Nat, awaiting : Deploys \cup {None}]]
  /\ purse \in Int
  /\ pending \subseteq Deploys /\ done \subseteq Deploys

(* The deploy that the current run of a program asks for.                  *)
Wanted(p, kind) ==
  [by |-> p, nr |-> run[p].nr, kind |-> kind, amount |-> run[p].amount]

(* A run knows the deploy it waits for, and autostake.ts goes on to stake  *)
(* only what it attested.                                                  *)
RunsKnow ==
  /\ \A p \in Program :
       run[p].awaiting # None => run[p].awaiting = Wanted(p, run[p].step)
  /\ run["autostake"].step = "delegate" => Wanted("autostake", "attest") \in done

StakeInv == RunsTyped /\ RunsKnow /\ AdviceIsAttestedFirst /\ SavedIsDelegated

(* Steps of a program that send nothing.                                   *)
LEMMA RunMoves ==
  ASSUME StakeInv, NEW p \in Program,
         NEW r \in [step : {"idle", "attest", "delegate"}, nr : Nat,
                    amount : Nat, awaiting : {None}],
         p = "autostake" /\ r.step = "delegate" =>
           [by |-> p, nr |-> r.nr, kind |-> "attest", amount |-> r.amount] \in done,
         run' = [run EXCEPT ![p] = r], UNCHANGED chainVars,
         saved' # None => saved' \in done
  PROVE  StakeInv'
<1> USE DEF StakeInv, chainVars
<1>1. RunsTyped'
  BY DEF RunsTyped
<1>2. RunsKnow'
  BY DEF RunsTyped, RunsKnow, Wanted, Program
<1>3. AdviceIsAttestedFirst' /\ SavedIsDelegated'
  BY DEF AdviceIsAttestedFirst, SavedIsDelegated, Delegations
<1> QED
  BY <1>1, <1>2, <1>3

LEMMA StartedKeeps ==
  ASSUME StakeInv, NEW p \in Program, NEW step \in {"attest", "delegate"},
         p = "autostake" => step = "attest", NEW amount \in Nat,
         Started(p, step, amount)
  PROVE  StakeInv'
<1> DEFINE r == At(step, run[p].nr + 1, amount)
<1>1. /\ run' = [run EXCEPT ![p] = r] /\ UNCHANGED chainVars
      /\ saved' = saved
      /\ saved # None => saved \in done
  BY DEF Started, StakeInv, SavedIsDelegated
<1>2. r \in [step : {"idle", "attest", "delegate"}, nr : Nat, amount : Nat,
             awaiting : {None}]
  BY DEF StakeInv, RunsTyped, At
<1>3. p = "autostake" /\ r.step = "delegate" =>
        [by |-> p, nr |-> r.nr, kind |-> "attest", amount |-> r.amount] \in done
  BY DEF At
<1>4. saved' # None => saved' \in done
  BY <1>1
<1> HIDE DEF r
<1> QED
  BY <1>1, <1>2, <1>3, <1>4, RunMoves

LEMMA StartsKeep ==
  ASSUME StakeInv, StartCycle \/ StartAutostake \/ StartStake
  PROVE  StakeInv'
<1>1. ASSUME NEW amount \in Nat, NEW idle
      PROVE  Guarded(amount, idle) \in Nat
  BY DEF Guarded
<1>2. StakingRule(purse) \in Nat
  BY StakingAssumption DEF StakingRule, StakeInv, RunsTyped
<1>3. CASE StartCycle
  <2>1. Guarded(StakingRule(purse), purse) \in Nat
    BY <1>1, <1>2
  <2> QED
    BY <1>3, <2>1, StartedKeeps DEF StartCycle, Program
<1>4. CASE StartAutostake
  <2>1. PICK amount \in Advice :
          Started("autostake", "attest", Guarded(amount, purse))
    BY <1>4 DEF StartAutostake
  <2>2. Guarded(amount, purse) \in Nat
    BY <1>1, StakingAssumption
  <2> QED
    BY <2>1, <2>2, StartedKeeps DEF Program
<1>5. CASE StartStake
  BY <1>5, StartedKeeps, StakingAssumption DEF StartStake, Program
<1> QED
  BY <1>3, <1>4, <1>5

(* A wait that ends, well or at its deadline, and a process that does.     *)
LEMMA AnswersKeep ==
  ASSUME StakeInv, NEW ok \in BOOLEAN,
         \/ CycleDelegated(ok) \/ CycleAttested(ok) \/ AutostakeAttested(ok)
         \/ AutostakeDelegated(ok) \/ StakeDelegated(ok)
  PROVE  StakeInv'
<1> DEFINE Moved(p, step) == At(step, run[p].nr, run[p].amount)
<1>1. ASSUME NEW p \in Program, NEW step \in {"idle", "attest", "delegate"}
      PROVE  /\ Moved(p, step) \in [step : {"idle", "attest", "delegate"}, nr : Nat,
                                    amount : Nat, awaiting : {None}]
             /\ Rest(run[p].nr) \in [step : {"idle", "attest", "delegate"}, nr : Nat,
                                     amount : Nat, awaiting : {None}]
             /\ Proceed(p, step) => run' = [run EXCEPT ![p] = Moved(p, step)]
             /\ End(p) => run' = [run EXCEPT ![p] = Rest(run[p].nr)]
  <2>1. run[p] \in [step : {"idle", "attest", "delegate"}, nr : Nat,
                    amount : Nat, awaiting : Deploys \cup {None}]
    BY DEF StakeInv, RunsTyped
  <2> QED
    BY <2>1 DEF Rest, At, Proceed, End
<1>2. UNCHANGED chainVars /\ (saved # None => saved \in done)
  BY DEF StakeInv, SavedIsDelegated, CycleDelegated, CycleAttested,
         AutostakeAttested, AutostakeDelegated, StakeDelegated, Answered
<1> HIDE DEF Moved
<1>3. CASE CycleDelegated(ok)
  <2>1. run' = [run EXCEPT !["cycle"] = Moved("cycle", "attest")] /\ saved' = saved
    BY <1>1, <1>3 DEF CycleDelegated, Program
  <2> QED
    BY <1>1, <1>2, <2>1, RunMoves DEF Program
<1>4. CASE CycleAttested(ok) \/ AutostakeDelegated(ok)
  <2>1. PICK p \in Program : End(p) /\ saved' = saved
    BY <1>4 DEF CycleAttested, AutostakeDelegated, Program
  <2> QED
    BY <1>1, <1>2, <2>1, RunMoves DEF Rest, At
<1>5. CASE AutostakeAttested(ok) /\ ok /\ run["autostake"].amount > 0
  <2>1. run' = [run EXCEPT !["autostake"] = Moved("autostake", "delegate")]
        /\ saved' = saved
    BY <1>1, <1>5 DEF AutostakeAttested, Program
  <2>2. Wanted("autostake", "attest") \in done
    BY <1>5 DEF AutostakeAttested, Answered, StakeInv, RunsKnow, Program
  <2> QED
    BY <1>1, <1>2, <2>1, <2>2, RunMoves DEF Program, Moved, At, Wanted
<1>6. CASE AutostakeAttested(ok) /\ ~(ok /\ run["autostake"].amount > 0)
  <2>1. End("autostake") /\ saved' = saved
    BY <1>6 DEF AutostakeAttested
  <2> QED
    BY <1>1, <1>2, <2>1, RunMoves DEF Rest, At, Program
<1>7. CASE StakeDelegated(ok)
  <2>1. End("stake") /\ (saved' # None => saved' \in done)
    BY <1>2, <1>7 DEF StakeDelegated, Answered
  <2> QED
    BY <1>1, <1>2, <2>1, RunMoves DEF Rest, At, Program
<1> QED
  BY <1>3, <1>4, <1>5, <1>6, <1>7

LEMMA SubmitKeeps ==
  ASSUME StakeInv, NEW p \in Program, Submit(p)
  PROVE  StakeInv'
<1> DEFINE d == Wanted(p, run[p].step)
<1>1. /\ run[p].step # "idle" /\ run' = [run EXCEPT ![p].awaiting = d]
      /\ pending' \in {pending, pending \cup {d}}
      /\ UNCHANGED <<purse, staked, done, saved>>
  BY DEF Submit, Wanted
<1>2. d \in Deploys
  BY <1>1 DEF StakeInv, RunsTyped, Deploys, Wanted
<1> USE DEF StakeInv
<1>3. RunsTyped'
  BY <1>1, <1>2 DEF RunsTyped
<1>4. RunsKnow'
  BY <1>1 DEF RunsTyped, RunsKnow, Wanted, Program
<1>5. AdviceIsAttestedFirst'
  <2>1. d.by = "autostake" /\ d.kind = "delegate" => Attestation(d) \in done
    BY DEF RunsKnow, Wanted, Attestation
  <2> QED
    BY <1>1, <2>1 DEF AdviceIsAttestedFirst, Delegations, Wanted
<1>6. SavedIsDelegated'
  BY <1>1 DEF SavedIsDelegated
<1> QED
  BY <1>3, <1>4, <1>5, <1>6

(* Deploys that execute, revert or are lost.                               *)
LEMMA ChainKeeps ==
  ASSUME StakeInv, ChainStep
  PROVE  StakeInv'
<1>1. PICK d \in pending :
        /\ pending' = pending \ {d} /\ done' \in {done, done \cup {d}}
        /\ purse' \in Int
        /\ UNCHANGED <<run, saved>>
  BY StakingAssumption
     DEF ChainStep, Execute, Revert, Lose, Fee, StakeInv, RunsTyped, Deploys
<1> USE DEF StakeInv
<1>2. RunsTyped' /\ RunsKnow'
  BY <1>1 DEF RunsTyped, RunsKnow, Wanted
<1>3. AdviceIsAttestedFirst' /\ SavedIsDelegated'
  BY <1>1 DEF AdviceIsAttestedFirst, SavedIsDelegated, Delegations
<1> QED
  BY <1>2, <1>3

LEMMA StakeKeeps ==
  ASSUME StakeInv, [Next]_vars
  PROVE  StakeInv'
<1>1. CASE ProgramStep
  BY <1>1, StartsKeep, SubmitKeeps, AnswersKeep DEF ProgramStep
<1>2. ASSUME NEW p \in Program, Crash(p)
      PROVE  StakeInv'
  <2>1. Rest(run[p].nr) \in [step : {"idle", "attest", "delegate"}, nr : Nat,
                             amount : Nat, awaiting : {None}]
    BY DEF StakeInv, RunsTyped, Rest, At
  <2> QED
    BY <1>2, <2>1, RunMoves
       DEF Crash, End, Rest, At, StakeInv, SavedIsDelegated
<1>3. CASE ChainStep
  BY <1>3, ChainKeeps
<1>4. CASE UNCHANGED vars
  BY <1>4
     DEF vars, StakeInv, RunsTyped, RunsKnow, Wanted, AdviceIsAttestedFirst,
         SavedIsDelegated, Delegations
<1> QED
  BY <1>1, <1>2, <1>3, <1>4 DEF Next

(* .env.stake names a delegation that is on the chain, and autostake.ts    *)
(* stakes what it attested, for any limits, any advice and any number of   *)
(* runs that overlap, crash or give up on their deploys (stake.ts:90-109,  *)
(* autostake.ts:136-146).                                                  *)
THEOREM StakingIsAttested ==
  ServicesSpec => []SavedIsDelegated /\ []AdviceIsAttestedFirst
<1>1. ServicesInit => StakeInv
  BY StakingAssumption
     DEF ServicesInit, Init, Rest, At, StakeInv, RunsTyped, RunsKnow, AdviceIsAttestedFirst,
         SavedIsDelegated, Delegations, Program
<1>2. StakeInv /\ [ServicesNext]_allVars => StakeInv'
  BY StakeKeeps, StepOfEach
<1>3. StakeInv => SavedIsDelegated /\ AdviceIsAttestedFirst
  BY DEF StakeInv
<1> QED
  BY <1>1, <1>2, <1>3, PTL DEF ServicesSpec

-----------------------------------------------------------------------------
(* The seller.                                                             *)

Paid(r) == request[r].auth # None /\ Payee[request[r].auth] = PayTo[request[r].route]

(* A request whose payment is under way or made has its product behind it, *)
(* and what it was verified for stays what it is.                          *)
SellerInv ==
  /\ request \in [Request -> [step : Seller!Steps, route : Route \cup {None},
                              auth : Auth \cup {None},
                              status : {None, 200, 402, 500, 503}]]
  /\ submitted \subseteq Request /\ executed \subseteq Request
  /\ \A r \in Request :
       /\ request[r].step \in {"build", "settle"} => Paid(r)
       /\ r \in submitted \cup executed =>
            Paid(r) /\ request[r].step \in {"settle", "over"}
       /\ request[r].status = 200 => r \in executed
  /\ \A q, r \in executed : request[q].auth = request[r].auth => q = r

LEMMA RequestsKeep ==
  ASSUME SellerInv, NEW r \in Request,
         \/ \E route \in Route, auth \in Auth \cup {None} : Seller!Arrive(r, route, auth)
         \/ Seller!Verified(r) \/ Seller!Built(r) \/ Seller!Settled(r)
  PROVE  SellerInv'
<1> USE DEF SellerInv, Paid, Seller!Steps, Seller!At, Seller!Answer
<1>1. None # 200
  BY ServicesAssumption DEF Seller!SellerAssumption
<1>2. CASE \E route \in Route, auth \in Auth \cup {None} : Seller!Arrive(r, route, auth)
  BY <1>1, <1>2 DEF Seller!Arrive
<1>3. CASE Seller!Verified(r)
  BY <1>3 DEF Seller!Verified, Seller!FoundValid
<1>4. CASE Seller!Built(r)
  BY <1>4 DEF Seller!Built
<1>5. CASE Seller!Settled(r)
  BY <1>5 DEF Seller!Settled
<1> QED
  BY <1>2, <1>3, <1>4, <1>5

LEMMA SellerKeeps ==
  ASSUME SellerInv, [Seller!Next]_sellerVars
  PROVE  SellerInv'
<1> USE DEF SellerInv, Paid, Seller!Steps, Seller!At
<1>1. ASSUME NEW r \in submitted, Seller!Transfer(r) \/ Seller!Refuse(r)
      PROVE  SellerInv'
  BY <1>1 DEF Seller!Transfer, Seller!Refuse
<1>2. CASE Seller!Restart
  BY <1>2 DEF Seller!Restart
<1>3. CASE UNCHANGED sellerVars
  BY <1>3 DEF sellerVars
<1> QED
  BY <1>1, <1>2, <1>3, RequestsKeep DEF Seller!Next

(* Whatever is sent again, lost, late or restarted, each product that was  *)
(* sent has a payment of its own to the account of its route               *)
(* (server.ts:171-193, :209-220).                                          *)
THEOREM ProductsArePaid == ServicesSpec => []DeliveriesArePaid
<1>1. ServicesInit => SellerInv
  BY ServicesAssumption
     DEF ServicesInit, Seller!Init, Seller!SellerAssumption, Seller!Steps, SellerInv, Paid
<1>2. SellerInv /\ [ServicesNext]_allVars => SellerInv'
  BY SellerKeeps, StepOfEach
<1>3. SellerInv => DeliveriesArePaid
  BY DEF SellerInv, Paid, DeliveriesArePaid, Seller!DeliveriesArePaid
<1> QED
  BY <1>1, <1>2, <1>3, PTL DEF ServicesSpec

-----------------------------------------------------------------------------
(* The readers of the chain.                                               *)

(* The figures of a panel are of its root.                                 *)
OneRoot ==
  \A p \in DOMAIN panel :
    /\ panel[p].figures \subseteq {panel[p].root}
    /\ panel[p].step = "root" => panel[p].figures = {}
    /\ DOMAIN panel[p] = {"step", "strict", "root", "left", "figures", "zeros"}

LEMMA BecomesKeeps ==
  ASSUME OneRoot, NEW p \in DOMAIN panel, NEW new, Reads!Becomes(p, new),
         DOMAIN new = DOMAIN panel[p], new.figures \subseteq {new.root},
         new.step = "root" => new.figures = {}
  PROVE  OneRoot'
BY DEF Reads!Becomes, OneRoot

LEMMA ReadsKeep ==
  ASSUME OneRoot, [Reads!Next]_readsVars
  PROVE  OneRoot'
<1>1. CASE Reads!Fetch
  <2>1. PICK ask \in Reads!Requests : \E ps \in Reads!Opened(ask) :
          panel' = [p \in ps |->
            [step |-> "root", strict |-> ask[p].strict, root |-> 0,
             left |-> ask[p].reads, figures |-> {}, zeros |-> 0]]
    BY <1>1 DEF Reads!Fetch
  <2> QED
    BY <2>1 DEF OneRoot
<1>2. ASSUME NEW p \in DOMAIN panel, Reads!NoData(p)
      PROVE  OneRoot'
  <2> DEFINE new == [panel[p] EXCEPT !.step = "null"]
  <2>1. /\ DOMAIN new = DOMAIN panel[p] /\ new.step = "null"
        /\ new.figures = panel[p].figures /\ new.root = panel[p].root
    BY DEF OneRoot
  <2>2. Reads!Becomes(p, new) /\ new.figures \subseteq {new.root}
    BY <1>2, <2>1 DEF Reads!NoData, OneRoot
  <2> HIDE DEF new
  <2> QED
    BY <2>1, <2>2, BecomesKeeps
<1>3. ASSUME NEW p \in DOMAIN panel, Reads!StateRootHash(p)
      PROVE  OneRoot'
  <2>1. panel[p].figures = {}
    BY <1>3 DEF Reads!StateRootHash, OneRoot
  <2>2. ASSUME NEW root \in 1..height,
               Reads!Becomes(p, [panel[p] EXCEPT !.step = "fields", !.root = root])
        PROVE  OneRoot'
    <3> DEFINE new == [panel[p] EXCEPT !.step = "fields", !.root = root]
    <3>1. DOMAIN new = DOMAIN panel[p] /\ new.figures = {}
      BY <2>1 DEF OneRoot
    <3> HIDE DEF new
    <3> QED
      BY <2>2, <3>1, BecomesKeeps DEF new
  <2>3. CASE Reads!Becomes(p, [panel[p] EXCEPT !.step = "shown", !.left = 0,
                                               !.zeros = panel[p].left])
    <3> DEFINE new == [panel[p] EXCEPT !.step = "shown", !.left = 0,
                                       !.zeros = panel[p].left]
    <3>1. DOMAIN new = DOMAIN panel[p] /\ new.figures = {}
      BY <2>1 DEF OneRoot
    <3> HIDE DEF new
    <3> QED
      BY <2>3, <3>1, BecomesKeeps DEF new
  <2> QED
    BY <1>2, <1>3, <2>2, <2>3 DEF Reads!StateRootHash
<1>4. ASSUME NEW p \in DOMAIN panel, Reads!ReadField(p)
      PROVE  OneRoot'
  <2> DEFINE one == [panel[p] EXCEPT
                       !.left = @ - 1,
                       !.step = IF panel[p].left = 1 THEN "shown" ELSE "fields"]
  <2>1. /\ DOMAIN one = DOMAIN panel[p] /\ one.step # "root"
        /\ one.figures = panel[p].figures /\ one.root = panel[p].root
    BY DEF OneRoot
  <2>2. \/ Reads!Becomes(p, [one EXCEPT !.figures = @ \cup {panel[p].root}])
        \/ Reads!Becomes(p, [one EXCEPT !.zeros = @ + 1])
        \/ Reads!NoData(p)
    BY <1>4 DEF Reads!ReadField, Reads!ReadAt
  <2> HIDE DEF one
  <2>3. CASE Reads!Becomes(p, [one EXCEPT !.figures = @ \cup {panel[p].root}])
    <3> DEFINE new == [one EXCEPT !.figures = @ \cup {panel[p].root}]
    <3>1. /\ DOMAIN new = DOMAIN panel[p] /\ new.step # "root"
          /\ new.figures \subseteq {new.root}
      BY <2>1 DEF OneRoot
    <3> HIDE DEF new
    <3> QED
      BY <2>3, <3>1, BecomesKeeps DEF new
  <2>4. CASE Reads!Becomes(p, [one EXCEPT !.zeros = @ + 1])
    <3> DEFINE new == [one EXCEPT !.zeros = @ + 1]
    <3>1. /\ DOMAIN new = DOMAIN panel[p] /\ new.step # "root"
          /\ new.figures \subseteq {new.root}
      BY <2>1 DEF OneRoot
    <3> HIDE DEF new
    <3> QED
      BY <2>4, <3>1, BecomesKeeps DEF new
  <2> QED
    BY <1>2, <2>2, <2>3, <2>4
<1>5. CASE Reads!Block \/ UNCHANGED readsVars
  BY <1>5 DEF Reads!Block, readsVars, OneRoot
<1> QED
  BY <1>1, <1>3, <1>4, <1>5 DEF Reads!Next

(* However many fields a panel has, how its reads and the blocks interleave *)
(* and which of them fail, what it shows is of one state of the chain       *)
(* (cspr.ts:381-386).                                                       *)
THEOREM PanelsAreOfOneState == ServicesSpec => []ShownWasReal
<1>1. ServicesInit => OneRoot
  BY DEF ServicesInit, Reads!Init, OneRoot
<1>2. OneRoot /\ [ServicesNext]_allVars => OneRoot'
  BY ReadsKeep, StepOfEach
<1>3. OneRoot => ShownWasReal
  <2> SUFFICES ASSUME OneRoot, NEW p \in DOMAIN panel
               PROVE  Cardinality(panel[p].figures) <= 1
    BY DEF ShownWasReal, Reads!ShownWasReal, Reads!Shown, Reads!Cardinality, Cardinality
  <2>1. panel[p].figures \subseteq {panel[p].root}
    BY DEF OneRoot
  <2>2. IsFiniteSet({panel[p].root}) /\ Cardinality({panel[p].root}) = 1
    BY FS_Singleton
  <2> QED
    BY <2>1, <2>2, FS_Subset
<1> QED
  BY <1>1, <1>2, <1>3, PTL DEF ServicesSpec

-----------------------------------------------------------------------------
(* The cached answers.                                                     *)

(* The shared promise is one that still runs, and whoever was told         *)
(* something was told it while it was fresh.                               *)
CacheInv ==
  /\ now \in Cache!Time
  /\ memo # None => memo \in Cache!Answers /\ memo.at <= now
  /\ inflight # None => inflight \in [from : Cache!Time, at : {None}]
  /\ answer \in [Caller -> [told : Cache!Answers \cup {None}, time : Cache!Time,
                            waits : BOOLEAN]]
  /\ AnswersAreRecent

LEMMA CacheKeeps ==
  ASSUME CacheInv, [Cache!Next]_memoVars
  PROVE  CacheInv'
<1>1. TTL \in Nat \ {0} /\ MaxTime \in Nat
  BY ServicesAssumption DEF Cache!MemoAssumption
<1> USE <1>1 DEF CacheInv, Cache!Time, Cache!Answers, AnswersAreRecent,
                 Cache!AnswersAreRecent
<1>2. ASSUME NEW c \in Caller, Cache!Call(c)
      PROVE  CacheInv'
  BY <1>2 DEF Cache!Call, Cache!Fresh, Cache!Told
<1>3. CASE Cache!Computed
  BY <1>3 DEF Cache!Computed, Cache!Running, Cache!Finally, Cache!Told
<1>4. CASE Cache!Rejected
  BY <1>4 DEF Cache!Rejected, Cache!Running
<1>5. CASE Cache!Tick
  BY <1>5 DEF Cache!Tick
<1>6. CASE UNCHANGED memoVars
  BY <1>6 DEF memoVars
<1> QED
  BY <1>2, <1>3, <1>4, <1>5, <1>6 DEF Cache!Next

(* For any lifetime, and however long a computation takes and how many     *)
(* share it, what a caller is told was computed within the lifetime        *)
(* (scorecard/route.ts:15-17, :32-39).                                     *)
THEOREM ToldIsRecent == ServicesSpec => []AnswersAreRecent
<1>1. ServicesInit => CacheInv
  BY ServicesAssumption
     DEF ServicesInit, Cache!Init, Cache!MemoAssumption, CacheInv, Cache!Time,
         Cache!Answers, AnswersAreRecent, Cache!AnswersAreRecent
<1>2. CacheInv /\ [ServicesNext]_allVars => CacheInv'
  BY CacheKeeps, StepOfEach
<1>3. CacheInv => AnswersAreRecent
  BY DEF CacheInv
<1> QED
  BY <1>1, <1>2, <1>3, PTL DEF ServicesSpec

-----------------------------------------------------------------------------
(* The connect page.                                                       *)

(* A live request is for the connected account.  An answer without a role  *)
(* has had its redirect, and a timer is set by such an answer only.        *)
PageInv ==
  /\ account \in Key \cup {None} /\ changes \in Nat
  /\ session \in Key \cup {None}
  /\ fetches \subseteq [of : Key, nr : Nat]
  /\ \A f \in fetches : f.nr <= changes /\ (f.nr = changes => f.of = account)
  /\ who # None => who \in [of : Key, says : {"role", "observer", "unreadable"}]
  /\ who # None /\ who.says # "role" => redirected
  /\ timer => who # None /\ who.of = account /\ who.says # "role"

LEMMA AccountKeeps ==
  ASSUME PageInv, NEW k \in Key \cup {None}, Connect!AccountIs(k),
         session' \in {session, None}
  PROVE  PageInv'
<1>1. None \notin Key
  BY ServicesAssumption DEF Connect!PageAssumption
<1> DEFINE f == [of |-> k, nr |-> changes + 1]
<1>2. /\ account' = k /\ changes' = changes + 1
      /\ who' = IF k = None THEN None ELSE who
      /\ fetches' = IF k = None THEN fetches ELSE fetches \cup {f}
  BY DEF Connect!AccountIs
<1>3. fetches' \subseteq [of : Key, nr : Nat]
      /\ \A g \in fetches' : g.nr <= changes' /\ (g.nr = changes' => g.of = account')
  BY <1>2 DEF PageInv
<1>4. timer' => k # None /\ who # None /\ ~redirected /\ who.says # "role"
  BY DEF Connect!AccountIs, Connect!Redirect
<1>5. ~timer'
  BY <1>4 DEF PageInv
<1>6. redirected => redirected'
  BY DEF Connect!AccountIs, Connect!Redirect
<1> QED
  BY <1>2, <1>3, <1>5, <1>6 DEF PageInv

LEMMA AnswerKeeps ==
  ASSUME PageInv, NEW f \in fetches, Connect!Answered(f)
  PROVE  PageInv'
<1>1. /\ fetches' = fetches \ {f} /\ UNCHANGED <<account, changes, session>>
      /\ f \in [of : Key, nr : Nat]
  BY DEF Connect!Answered, PageInv
<1>2. CASE ~Connect!Live(f)
  BY <1>1, <1>2 DEF Connect!Answered, PageInv
<1>3. CASE Connect!Live(f)
  <2>1. f.of = account /\ account # None
    BY <1>3, <1>1, ServicesAssumption DEF Connect!Live, PageInv, Connect!PageAssumption
  <2>2. PICK says \in Connect!Says(f.of) :
          /\ who' = [of |-> f.of, says |-> says]
          /\ IF Connect!StillUnreadable(says) THEN UNCHANGED <<redirected, timer>>
             ELSE Connect!Redirect(account, [of |-> f.of, says |-> says])
    BY <1>3 DEF Connect!Answered
  <2>3. says \in {"role", "observer", "unreadable"}
    BY DEF Connect!Says
  <2>4. who' # None
    BY <1>1, <2>2, <2>3, ServicesAssumption DEF Connect!PageAssumption, Connect!Answers
  <2> QED
    BY <1>1, <2>1, <2>2, <2>3, <2>4
       DEF PageInv, Connect!StillUnreadable, Connect!Redirect
<1> QED
  BY <1>2, <1>3

LEMMA PageKeeps ==
  ASSUME PageInv, [Connect!Next]_pageVars
  PROVE  PageInv'
<1>1. ASSUME NEW k \in Key, Connect!SignedIn(k)
      PROVE  PageInv'
  BY <1>1, AccountKeeps DEF Connect!SignedIn
<1>2. CASE Connect!SignedOut \/ Connect!SessionFound
  BY <1>2, AccountKeeps DEF Connect!SignedOut, Connect!SessionFound, PageInv
<1>3. CASE Connect!Push \/ Connect!Enter \/ UNCHANGED pageVars
  BY <1>3 DEF Connect!Push, Connect!Enter, pageVars, PageInv
<1> QED
  BY <1>1, <1>2, <1>3, AnswerKeeps DEF Connect!Next

(* However accounts are switched, answers are late and reads fail, only a  *)
(* connected key that was found to have no role is sent on                 *)
(* (connect/page.tsx:182-202).                                             *)
THEOREM OnlyObserversAreSentOn == ServicesSpec => RoleHoldersStay
<1> DEFINE Told == page # "sent" /\ page' = "sent" =>
                     who # None /\ who.of = account /\ who.says # "role"
<1>1. ServicesInit => PageInv
  BY DEF ServicesInit, Connect!Init, PageInv
<1>2. PageInv /\ [ServicesNext]_allVars => PageInv'
  BY PageKeeps, StepOfEach
<1>3. PageInv /\ [ServicesNext]_allVars => [Told]_pageVars
  <2> SUFFICES ASSUME PageInv, Connect!Next
               PROVE  Told
    BY StepOfEach
  <2>1. CASE Connect!Push
    BY <2>1 DEF Connect!Push, PageInv
  <2>2. ASSUME page' # "sent" \/ page' = page
        PROVE  Told
    BY <2>2
  <2> QED
    BY <2>1, <2>2
       DEF Connect!Next, Connect!SignedIn, Connect!SignedOut, Connect!SessionFound,
           Connect!AccountIs, Connect!Answered, Connect!Enter
<1> QED
  BY <1>1, <1>2, <1>3, PTL
     DEF ServicesSpec, RoleHoldersStay, Connect!RoleHoldersStay, pageVars,
         Connect!pageVars

-----------------------------------------------------------------------------
(* Voting.                                                                 *)

VotingTyped ==
  /\ quorum \in Voting!Quorum!Storage
  /\ ayes \in [Decision -> SUBSET Voting!Account]
  /\ shown \in [Decision -> Voting!VoteState \cup {None}]
  /\ \A l \in loads : l.hash \in Decision /\ l.pk \in Wallet
  /\ voter \in Wallet \cup {None}
  /\ pressed \subseteq Voting!Button

(* What is being carried out, and what was sent, is a button that was      *)
(* pressed; the card's is for its decision.                                *)
OnlyPressed ==
  /\ acting # None => acting \in pressed /\ (place = "card" => acting.hash = Pending)
  /\ sent \subseteq pressed

VotingInv ==
  VotingTyped /\ OnlyPressed /\ QuorumReachedIsTrue /\ VotesBearTheirButton

LEMMA ProductIsNatural ==
  ASSUME NEW x \in Nat, NEW y \in Nat
  PROVE  x * y \in Nat
OBVIOUS

(* What a byte says of a number, and when it says all.                     *)
LEMMA ByteOfNumber ==
  ASSUME NEW n \in Nat
  PROVE  /\ Voting!FirstByte(n) \in Nat /\ Voting!FirstByte(n) <= n
         /\ n < Byte => Voting!FirstByte(n) = n
<1>1. Byte \in Nat \ {0}
  BY ServicesAssumption DEF Voting!VotingAssumption
<1>2. /\ n % Byte \in 0..(Byte - 1) /\ n \div Byte \in Nat
      /\ n = Byte * (n \div Byte) + (n % Byte)
  BY <1>1
<1>3. n % Byte <= n
  BY <1>1, <1>2, ProductIsNatural
<1>4. n < Byte => n % Byte = n
  BY <1>1
<1> QED
  BY <1>1, <1>2, <1>3, <1>4 DEF Voting!FirstByte

(* What the page does by itself leaves the contract alone.                 *)
LEMMA PageActsKeep ==
  ASSUME VotingInv, UNCHANGED <<quorum, ayes, place>>,
         shown' \in [Decision -> Voting!VoteState \cup {None}],
         VoteThreshold < Byte =>
           \A h \in Decision :
             shown'[h] # None /\ shown'[h].approved => Voting!Quorum!Approved(h),
         \A l \in loads' : l.hash \in Decision /\ l.pk \in Wallet,
         voter' \in Wallet \cup {None},
         pressed \subseteq pressed', pressed' \subseteq Voting!Button,
         OnlyPressed'
  PROVE  VotingInv'
<1>1. VotingTyped' /\ QuorumReachedIsTrue'
  BY DEF VotingInv, VotingTyped, QuorumReachedIsTrue, Voting!QuorumReachedIsTrue,
         Voting!Quorum!Approved
<1>2. VotesBearTheirButton'
  BY DEF VotingInv, VotesBearTheirButton, Voting!VotesBearTheirButton
<1> QED
  BY <1>1, <1>2 DEF VotingInv

LEMMA AccountOfVoterKeeps ==
  ASSUME VotingInv, NEW a \in Wallet \cup {None}, Voting!AccountIs(a)
  PROVE  VotingInv'
<1>1. shown' = shown \/ shown' = [h \in Decision |-> None]
  BY DEF Voting!AccountIs, Voting!Unread
<1>2. \A l \in loads' : l.hash \in Decision /\ l.pk \in Wallet
  <2>1. a # None => \A l \in Voting!Load(a, 0) : l.hash \in Decision /\ l.pk \in Wallet
    BY ServicesAssumption DEF Voting!Load, Voting!Offered, Voting!VotingAssumption
  <2> QED
    BY <2>1 DEF Voting!AccountIs, VotingInv, VotingTyped
<1>3. UNCHANGED <<quorum, ayes, place, acting, sent, pressed>> /\ voter' = a
  BY DEF Voting!AccountIs
<1>4. OnlyPressed'
  BY <1>3 DEF VotingInv, OnlyPressed
<1> QED
  BY <1>1, <1>2, <1>3, <1>4, PageActsKeep
     DEF VotingInv, VotingTyped, QuorumReachedIsTrue, Voting!QuorumReachedIsTrue

LEMMA AnswerToPageKeeps ==
  ASSUME VotingInv, NEW l \in loads, Voting!Answered(l)
  PROVE  VotingInv'
<1>1. /\ UNCHANGED <<quorum, ayes, place, voter, acting, sent, pressed>>
      /\ loads' \subseteq loads
  BY DEF Voting!Answered
<1>2. PICK told \in Voting!QuorumVotes(l.hash, l.pk) :
        shown' = [shown EXCEPT ![l.hash] = told]
  BY DEF Voting!Answered
<1>3. /\ l.hash \in Decision /\ l.pk \in Wallet
      /\ quorum.approvals[l.hash] \in Nat /\ VoteThreshold \in Nat \ {0}
  BY ServicesAssumption
     DEF VotingInv, VotingTyped, Voting!Quorum!Storage, Voting!VotingAssumption
<1>4. ASSUME told # None
      PROVE  /\ told \in Voting!VoteState
             /\ VoteThreshold < Byte /\ told.approved => Voting!Quorum!Approved(l.hash)
  <2> DEFINE n == quorum.approvals[l.hash]
  <2>1. PICK a \in {0, Voting!FirstByte(n)}, t \in {0, Voting!FirstByte(VoteThreshold)},
             r \in {known \in BOOLEAN : known => l.pk \in quorum.auditor_addrs} :
          told = [approved |-> Voting!Reached(a, t), lacksOne |-> (a = t - 1),
                  registered |-> r, of |-> l.pk]
    BY <1>4 DEF Voting!QuorumVotes
  <2>2. Voting!Reached(a, t) \in BOOLEAN /\ (a = t - 1) \in BOOLEAN
    BY DEF Voting!Reached
  <2>3. told \in Voting!VoteState /\ told.approved = Voting!Reached(a, t)
    BY <1>3, <2>1, <2>2 DEF Voting!VoteState
  <2>4. ASSUME VoteThreshold < Byte, Voting!Reached(a, t)
        PROVE  n >= VoteThreshold
    <3>1. /\ Voting!FirstByte(VoteThreshold) = VoteThreshold
          /\ Voting!FirstByte(n) \in Nat /\ Voting!FirstByte(n) <= n
      BY <1>3, <2>4, ByteOfNumber
    <3> QED
      BY <1>3, <2>1, <2>4, <3>1 DEF Voting!Reached
  <2> QED
    BY <2>3, <2>4 DEF Voting!Quorum!Approved
<1>5. told \in Voting!VoteState \cup {None}
  BY <1>4
<1>6. OnlyPressed'
  BY <1>1 DEF VotingInv, OnlyPressed
<1>7. shown' \in [Decision -> Voting!VoteState \cup {None}]
  BY <1>2, <1>5 DEF VotingInv, VotingTyped
<1>8. VoteThreshold < Byte =>
        \A h \in Decision :
          shown'[h] # None /\ shown'[h].approved => Voting!Quorum!Approved(h)
  BY <1>2, <1>4 DEF VotingInv, VotingTyped, QuorumReachedIsTrue,
     Voting!QuorumReachedIsTrue
<1> QED
  BY <1>1, <1>6, <1>7, <1>8, PageActsKeep DEF VotingInv, VotingTyped

LEMMA ActsKeep ==
  ASSUME VotingInv,
         \/ \E h \in Voting!Offered : \E b \in Voting!Buttons(h) : Voting!Press(b)
         \/ Voting!Send \/ Voting!Cancel
  PROVE  VotingInv'
<1>1. /\ shown' = shown /\ UNCHANGED <<quorum, ayes, place, voter>>
  BY DEF Voting!Press, Voting!Send, Voting!Cancel
<1>2. ASSUME NEW h \in Voting!Offered, NEW b \in Voting!Buttons(h), Voting!Press(b)
      PROVE  pressed' \subseteq Voting!Button /\ pressed \subseteq pressed'
             /\ loads' = loads /\ OnlyPressed'
  <2>1. h \in Decision /\ (place = "card" => h = Pending)
    BY ServicesAssumption DEF Voting!Offered, Voting!VotingAssumption
  <2>2. PICK st : b \in Voting!Choices(h, st)
    BY DEF Voting!Buttons, Voting!CardButtons, Voting!InboxButtons
  <2>3. voter \in Wallet
    BY <2>2 DEF Voting!Choices, VotingInv, VotingTyped
  <2>4. b \in [action : {"register", "vote"}, hash : {h}, approve : BOOLEAN, pk : {voter}]
    <3>1. voter # None /\ ~st.approved
      BY <2>2 DEF Voting!Choices
    <3>2. CASE st.registered
      <4>1. b \in [action : {"vote"}, hash : {h}, approve : BOOLEAN, pk : {voter}]
        BY <2>2, <3>1, <3>2 DEF Voting!Choices
      <4> QED
        BY <4>1
    <3>3. CASE ~st.registered
      <4>1. b = [action |-> "register", hash |-> h, approve |-> TRUE, pk |-> voter]
        BY <2>2, <3>1, <3>3 DEF Voting!Choices
      <4> QED
        BY <4>1
    <3> QED
      BY <3>2, <3>3
  <2>5. b \in Voting!Button /\ b.hash = h
    BY <2>1, <2>3, <2>4 DEF Voting!Button
  <2> QED
    BY <1>2, <2>1, <2>5 DEF Voting!Press, VotingInv, VotingTyped, OnlyPressed
<1>3. CASE Voting!Send
  <2>1. acting \in pressed /\ acting \in Voting!Button
        /\ (place = "card" => acting.hash = Pending)
    BY <1>3 DEF Voting!Send, VotingInv, VotingTyped, OnlyPressed
  <2>2. Voting!Built(acting) = acting
    BY <2>1 DEF Voting!Built, Voting!Button
  <2>3. pressed' = pressed /\ sent' = sent \cup {acting} /\ acting' = None
    BY <1>3, <2>2 DEF Voting!Send
  <2>4. \A l \in loads' : l.hash \in Decision /\ l.pk \in Wallet
    BY <1>3, <2>1 DEF Voting!Send, Voting!Button, VotingInv, VotingTyped
  <2>5. OnlyPressed'
    BY <2>1, <2>3 DEF VotingInv, OnlyPressed
  <2> QED
    BY <1>1, <2>3, <2>4, <2>5, PageActsKeep
       DEF VotingInv, VotingTyped, QuorumReachedIsTrue, Voting!QuorumReachedIsTrue
<1>4. CASE Voting!Cancel
  <2>1. UNCHANGED <<pressed, sent, loads>> /\ acting' = None
    BY <1>4 DEF Voting!Cancel
  <2>2. OnlyPressed'
    BY <2>1 DEF VotingInv, OnlyPressed
  <2> QED
    BY <1>1, <2>1, <2>2, PageActsKeep
       DEF VotingInv, VotingTyped, QuorumReachedIsTrue, Voting!QuorumReachedIsTrue
<1> QED
  BY <1>1, <1>2, <1>3, <1>4, PageActsKeep
     DEF VotingInv, VotingTyped, QuorumReachedIsTrue, Voting!QuorumReachedIsTrue

(* What the contract does with a deploy of the page or of somebody else.   *)
LEMMA ContractKeeps ==
  ASSUME VotingInv, UNCHANGED <<place, voter, shown, loads, acting, pressed>>,
         sent' \subseteq sent, NEW u \in Voting!Account,
         \/ Voting!Quorum!OpenRegister(u)
         \/ \E h \in Decision, b \in BOOLEAN :
              /\ Voting!Quorum!VoteAsCaller(u, h, b)
              /\ u \in Wallet =>
                   [action |-> "vote", hash |-> h, approve |-> b, pk |-> u] \in pressed
  PROVE  VotingInv'
<1>1. OnlyPressed'
  BY DEF VotingInv, OnlyPressed
<1>2. CASE Voting!Quorum!OpenRegister(u)
  BY <1>1, <1>2
     DEF Voting!Quorum!OpenRegister, VotingInv, VotingTyped, Voting!Quorum!Storage,
         QuorumReachedIsTrue, Voting!QuorumReachedIsTrue, Voting!Quorum!Approved,
         VotesBearTheirButton, Voting!VotesBearTheirButton
<1>3. ASSUME NEW h \in Decision, NEW b \in BOOLEAN, Voting!Quorum!VoteAsCaller(u, h, b),
             u \in Wallet =>
               [action |-> "vote", hash |-> h, approve |-> b, pk |-> u] \in pressed
      PROVE  VotingInv'
  <2>1. /\ quorum.approvals \in [Decision -> Nat]
        /\ Voting!Quorum!Tally(h, b) \in Nat
        /\ Voting!Quorum!Tally(h, b) >= quorum.approvals[h]
    BY DEF VotingInv, VotingTyped, Voting!Quorum!Storage, Voting!Quorum!Tally
  <2>2. /\ quorum' = [quorum EXCEPT !.voted_addr = @ \cup {<<h, u>>},
                                    !.approvals[h] = Voting!Quorum!Tally(h, b)]
        /\ ayes' = IF b THEN [ayes EXCEPT ![h] = @ \cup {u}] ELSE ayes
    BY <1>3 DEF Voting!Quorum!VoteAsCaller
  <2>3. quorum'.approvals = [quorum.approvals EXCEPT ![h] = Voting!Quorum!Tally(h, b)]
    BY <2>2 DEF VotingInv, VotingTyped, Voting!Quorum!Storage
  <2>4. quorum'.voted_addr = quorum.voted_addr \cup {<<h, u>>}
    BY <2>2 DEF VotingInv, VotingTyped, Voting!Quorum!Storage
  <2>5. VotingTyped'
    <3>1. quorum' \in Voting!Quorum!Storage
      <4>1. <<h, u>> \in Decision \X Voting!Account
        OBVIOUS
      <4>2. quorum \in Voting!Quorum!Storage
        BY DEF VotingInv, VotingTyped
      <4>3. quorum.voted_addr \cup {<<h, u>>} \in SUBSET (Decision \X Voting!Account)
        BY <4>1, <4>2 DEF Voting!Quorum!Storage
      <4>4. [quorum.approvals EXCEPT ![h] = Voting!Quorum!Tally(h, b)] \in [Decision -> Nat]
        BY <2>1
      <4>5. quorum' = [quorum EXCEPT
              !.voted_addr = quorum.voted_addr \cup {<<h, u>>},
              !.approvals = [quorum.approvals EXCEPT ![h] = Voting!Quorum!Tally(h, b)]]
        BY <2>2, <4>2 DEF Voting!Quorum!Storage
      <4> QED
        BY <4>2, <4>3, <4>4, <4>5 DEF Voting!Quorum!Storage
    <3>2. ayes' \in [Decision -> SUBSET Voting!Account]
      BY <2>2 DEF VotingInv, VotingTyped
    <3> QED
      BY <3>1, <3>2 DEF VotingInv, VotingTyped
  <2>6. QuorumReachedIsTrue'
    <3>1. VoteThreshold \in Nat
      BY ServicesAssumption DEF Voting!VotingAssumption
    <3> QED
      BY <2>1, <2>3, <3>1
         DEF VotingInv, QuorumReachedIsTrue, Voting!QuorumReachedIsTrue,
             Voting!Quorum!Approved
  <2>7. VotesBearTheirButton'
    <3> SUFFICES ASSUME NEW g \in Decision, NEW w \in Wallet
                 PROVE  LET voted(v) == [action |-> "vote", hash |-> g, approve |-> v,
                                         pk |-> w] \in pressed
                        IN  /\ w \in ayes'[g] => voted(TRUE)
                            /\ <<g, w>> \in quorum'.voted_addr => \E v \in BOOLEAN : voted(v)
      BY DEF VotesBearTheirButton, Voting!VotesBearTheirButton
    <3>1. CASE g = h /\ w = u
      BY <1>3, <2>2, <3>1
         DEF VotingInv, VotingTyped, VotesBearTheirButton, Voting!VotesBearTheirButton
    <3>2. CASE ~(g = h /\ w = u)
      <4>1. w \in ayes'[g] => w \in ayes[g]
        BY <2>2, <3>2 DEF VotingInv, VotingTyped
      <4>2. <<g, w>> \in quorum'.voted_addr => <<g, w>> \in quorum.voted_addr
        BY <2>4, <3>2
      <4> QED
        BY <4>1, <4>2 DEF VotingInv, VotesBearTheirButton, Voting!VotesBearTheirButton
    <3> QED
      BY <3>1, <3>2
  <2> QED
    BY <1>1, <2>5, <2>6, <2>7 DEF VotingInv
<1> QED
  BY <1>2, <1>3

LEMMA VotingKeeps ==
  ASSUME VotingInv, [Voting!Next]_votingVars
  PROVE  VotingInv'
<1>1. ASSUME NEW tx \in sent, Voting!Execute(tx)
      PROVE  VotingInv'
  <2>1. /\ tx \in pressed /\ tx \in Voting!Button /\ sent' \subseteq sent
        /\ UNCHANGED <<place, voter, shown, loads, acting, pressed>>
    BY <1>1 DEF Voting!Execute, VotingInv, VotingTyped, OnlyPressed
  <2>2. CASE tx.action = "register" /\ Voting!Quorum!OpenRegister(tx.pk)
    BY <2>1, <2>2, ContractKeeps DEF Voting!Button, Voting!Account
  <2>3. CASE tx.action = "vote" /\ Voting!Quorum!VoteAsCaller(tx.pk, tx.hash, tx.approve)
    <3>1. tx = [action |-> "vote", hash |-> tx.hash, approve |-> tx.approve, pk |-> tx.pk]
      BY <2>1, <2>3 DEF Voting!Button
    <3>2. tx.pk \in Voting!Account /\ tx.hash \in Decision /\ tx.approve \in BOOLEAN
      BY <2>1 DEF Voting!Button, Voting!Account
    <3> QED
      BY <2>1, <2>3, <3>1, <3>2, ContractKeeps
  <2>4. CASE UNCHANGED <<quorum, ayes>>
    <3>1. OnlyPressed'
      BY <2>1, <2>4 DEF VotingInv, OnlyPressed
    <3> QED
      BY <2>1, <2>4, <3>1, PageActsKeep
         DEF VotingInv, VotingTyped, QuorumReachedIsTrue, Voting!QuorumReachedIsTrue
  <2> QED
    BY <1>1, <2>2, <2>3, <2>4 DEF Voting!Execute
<1>2. CASE Voting!Elsewhere
  <2>1. PICK u \in Outsider : \/ Voting!Quorum!OpenRegister(u)
                              \/ \E h \in Decision : Voting!Quorum!VoteAsCaller(u, h, TRUE)
    BY <1>2 DEF Voting!Elsewhere
  <2>2. u \in Voting!Account /\ u \notin Wallet
    BY ServicesAssumption DEF Voting!Account, Voting!VotingAssumption
  <2> QED
    BY <1>2, <2>1, <2>2, ContractKeeps DEF Voting!Elsewhere
<1>3. CASE UNCHANGED votingVars
  <2>1. OnlyPressed'
    BY <1>3 DEF votingVars, VotingInv, OnlyPressed
  <2> QED
    BY <1>3, <2>1, PageActsKeep
       DEF votingVars, VotingInv, VotingTyped, QuorumReachedIsTrue,
           Voting!QuorumReachedIsTrue
<1> QED
  BY <1>1, <1>2, <1>3, AccountOfVoterKeeps, AnswerToPageKeeps, ActsKeep DEF Voting!Next

LEMMA VotingInvariant == ServicesSpec => []VotingInv
<1>1. ServicesInit => VotingInv
  BY ServicesAssumption
     DEF ServicesInit, Voting!Init, Voting!Quorum!Init, Voting!Quorum!Storage,
         Voting!Unread, VotingInv, VotingTyped, OnlyPressed, QuorumReachedIsTrue,
         Voting!QuorumReachedIsTrue, VotesBearTheirButton, Voting!VotesBearTheirButton,
         Voting!VotingAssumption
<1>2. VotingInv /\ [ServicesNext]_allVars => VotingInv'
  BY VotingKeeps, StepOfEach
<1> QED
  BY <1>1, <1>2, PTL DEF ServicesSpec

(* Whatever is read late, for another account, not at all, or but for its  *)
(* first byte, no page calls a decision approved that a quorum with a      *)
(* threshold below 256 has not approved (cspr.ts:727-733, govern/page.tsx: *)
(* 127-128).                                                               *)
THEOREM ReachedIsReached == ServicesSpec => []QuorumReachedIsTrue
<1>1. VotingInv => QuorumReachedIsTrue
  BY DEF VotingInv
<1> QED
  BY <1>1, VotingInvariant, PTL

(* Whoever switches accounts and however late a deploy executes, a vote    *)
(* that counts for an account of the page is one it pressed                *)
(* (build-vote/route.ts:23-54).                                            *)
THEOREM CountedVotesWerePressed == ServicesSpec => []VotesBearTheirButton
<1>1. VotingInv => VotesBearTheirButton
  BY DEF VotingInv
<1> QED
  BY <1>1, VotingInvariant, PTL

-----------------------------------------------------------------------------
(* The live feed.                                                          *)

Greets == {"open", "ready"}

(* What the page will show once it has handled all of w: a warning is not  *)
(* followed by a greeting.                                                 *)
EndsOff(s, w) ==
  \/ \E i \in 1..Len(w) :
       w[i].type = "warn" /\ \A j \in 1..Len(w) : j > i => w[j].type \notin Greets
  \/ s = "off" /\ \A j \in 1..Len(w) : w[j].type \notin Greets

FeedInv ==
  /\ socket \in [Contract -> {"none", "connecting", "up", "down"}]
  /\ wire \in Seq(Feed!Message)
  /\ Feed!Serving /\ (\E c \in Contract : socket[c] \notin {"connecting", "up"})
       => EndsOff(status, wire)

(* The feed counts as everybody does.                                      *)
LEMMA SameCount ==
  /\ Feed!IsFiniteSet(Contract) <=> IsFiniteSet(Contract)
  /\ \A S : Feed!Cardinality(S) = Cardinality(S)
<1>1. Feed!IsFiniteSet(Contract) <=> IsFiniteSet(Contract)
  BY Zenon DEF Feed!IsFiniteSet, IsFiniteSet
<1>2. \A S : Feed!Cardinality(S) = Cardinality(S)
  BY Zenon DEF Feed!Cardinality, Cardinality
<1> QED
  BY <1>1, <1>2

LEMMA WarnsAre ==
  ASSUME NEW n \in Nat
  PROVE  /\ Feed!Warns(n) \in Seq(Feed!Message) /\ Len(Feed!Warns(n)) = n
         /\ \A i \in 1..n : Feed!Warns(n)[i].type = "warn"
<1>1. [type |-> "warn"] \in Feed!Message
  BY DEF Feed!Message
<1> QED
  BY <1>1 DEF Feed!Warns

LEMMA AppendedEndsOff ==
  ASSUME NEW s, NEW w \in Seq(Feed!Message), NEW more \in Seq(Feed!Message),
         \A i \in 1..Len(more) : more[i].type \notin Greets,
         \/ EndsOff(s, w)
         \/ Len(more) > 0 /\ more[Len(more)].type = "warn"
  PROVE  EndsOff(s, w \o more)
<1>1. /\ w \o more \in Seq(Feed!Message) /\ Len(w \o more) = Len(w) + Len(more)
      /\ Len(w) \in Nat /\ Len(more) \in Nat
      /\ \A i \in 1..Len(w) : (w \o more)[i] = w[i]
      /\ \A i \in Len(w) + 1..Len(w) + Len(more) : (w \o more)[i] = more[i - Len(w)]
  OBVIOUS
<1>2. \A i \in Len(w) + 1..Len(w) + Len(more) : (w \o more)[i].type \notin Greets
  <2>1. ASSUME NEW i \in Len(w) + 1..Len(w) + Len(more)
        PROVE  i - Len(w) \in 1..Len(more)
    BY <1>1
  <2> QED
    BY <1>1, <2>1
<1>3. CASE Len(more) > 0 /\ more[Len(more)].type = "warn"
  <2> DEFINE last == Len(w) + Len(more)
  <2>1. last \in 1..Len(w \o more) /\ (w \o more)[last].type = "warn"
    BY <1>1, <1>3
  <2>2. \A j \in 1..Len(w \o more) : ~(j > last)
    BY <1>1
  <2> QED
    BY <2>1, <2>2 DEF EndsOff
<1>4. CASE \E i \in 1..Len(w) :
             w[i].type = "warn" /\ \A j \in 1..Len(w) : j > i => w[j].type \notin Greets
  <2>1. PICK i \in 1..Len(w) :
          w[i].type = "warn" /\ \A j \in 1..Len(w) : j > i => w[j].type \notin Greets
    BY <1>4
  <2>2. ASSUME NEW j \in 1..Len(w \o more), j > i
        PROVE  (w \o more)[j].type \notin Greets
    <3>1. CASE j \in 1..Len(w)
      BY <1>1, <2>1, <2>2, <3>1
    <3>2. CASE j \notin 1..Len(w)
      <4>1. j \in Len(w) + 1..Len(w) + Len(more)
        BY <1>1, <3>2
      <4> QED
        BY <1>2, <4>1
    <3> QED
      BY <3>1, <3>2
  <2>3. i \in 1..Len(w \o more) /\ (w \o more)[i].type = "warn"
    BY <1>1, <2>1
  <2> QED
    BY <2>2, <2>3 DEF EndsOff
<1>5. CASE s = "off" /\ \A j \in 1..Len(w) : w[j].type \notin Greets
  <2>1. ASSUME NEW j \in 1..Len(w \o more)
        PROVE  (w \o more)[j].type \notin Greets
    <3>1. CASE j \in 1..Len(w)
      BY <1>1, <1>5, <3>1
    <3>2. CASE j \notin 1..Len(w)
      <4>1. j \in Len(w) + 1..Len(w) + Len(more)
        BY <1>1, <3>2
      <4> QED
        BY <1>2, <4>1
    <3> QED
      BY <3>1, <3>2
  <2> QED
    BY <1>5, <2>1 DEF EndsOff
<1> QED
  BY <1>3, <1>4, <1>5 DEF EndsOff

LEMMA StartKeeps ==
  ASSUME FeedInv, Feed!Start
  PROVE  FeedInv'
<1> DEFINE none == {c \in Contract : socket'[c] = "none"}
           n == Cardinality(none)
           hello == <<[type |-> "open"], [type |-> "ready"]>>
<1>1. IsFiniteSet(none) /\ n \in Nat
  <2>1. IsFiniteSet(Contract) /\ none \in SUBSET Contract
    BY ServicesAssumption, SameCount DEF Feed!FeedAssumption
  <2> QED
    BY <2>1, FS_Subset, FS_CardinalityType
<1>2. socket' \in [Contract -> {"none", "connecting"}] /\ wire' = hello \o Feed!Warns(n)
  <2>1. socket' \in [Contract -> {"none", "connecting"}] /\ wire' = Feed!Greeting(socket')
    BY DEF Feed!Start
  <2>2. Feed!Greeting(socket') = hello \o Feed!Warns(Feed!Refused(socket'))
    BY Zenon DEF Feed!Greeting
  <2>3. Feed!Refused(socket') = n
    BY SameCount, Zenon DEF Feed!Refused
  <2> QED
    BY <2>1, <2>2, <2>3, Zenon
<1>3. hello \in Seq(Feed!Message)
  BY DEF Feed!Message
<1>4. /\ Feed!Warns(n) \in Seq(Feed!Message) /\ Len(Feed!Warns(n)) = n
      /\ \A i \in 1..n : Feed!Warns(n)[i].type = "warn"
  BY <1>1, WarnsAre
<1>5. wire' \in Seq(Feed!Message)
  BY <1>2, <1>3, <1>4
<1>6. ASSUME NEW c \in Contract, socket'[c] \notin {"connecting", "up"}
      PROVE  EndsOff(status', wire')
  <2>1. c \in none
    BY <1>2, <1>6
  <2>2. n > 0
    BY <1>1, <2>1, FS_EmptySet
  <2>3. \A i \in 1..n : Feed!Warns(n)[i].type \notin Greets
    BY <1>4 DEF Greets
  <2>4. Feed!Warns(n)[n].type = "warn"
    BY <1>1, <1>4, <2>2
  <2> HIDE DEF hello, n
  <2>5. EndsOff(status', hello \o Feed!Warns(n))
    BY <1>3, <1>4, <2>2, <2>3, <2>4, AppendedEndsOff
  <2> QED
    BY <1>2, <2>5
<1>7. socket' \in [Contract -> {"none", "connecting", "up", "down"}]
  BY <1>2
<1> QED
  BY <1>5, <1>6, <1>7 DEF FeedInv

LEMMA RelayKeeps ==
  ASSUME FeedInv, NEW c \in Contract,
         Feed!OnOpen(c) \/ Feed!OnMessage(c) \/ Feed!OnClose(c)
  PROVE  FeedInv'
<1>1. status' = status
  BY DEF Feed!OnOpen, Feed!OnMessage, Feed!OnClose
<1>2. CASE Feed!OnMessage(c)
  <2> DEFINE more == <<[type |-> "event", label |-> c]>>
  <2>1. /\ wire' = wire \o more /\ socket' = socket /\ Feed!Serving
        /\ more \in Seq(Feed!Message) /\ \A i \in 1..Len(more) : more[i].type \notin Greets
    BY <1>2 DEF Feed!OnMessage, Feed!Send, Feed!Message, Greets
  <2> HIDE DEF more
  <2>2. EndsOff(status, wire) => EndsOff(status', wire')
    BY <1>1, <2>1, AppendedEndsOff DEF FeedInv
  <2> QED
    BY <1>1, <2>1, <2>2 DEF FeedInv
<1>3. CASE Feed!OnClose(c)
  <2>1. PICK n \in 1..2 : wire' = wire \o Feed!Warns(n)
    BY <1>3 DEF Feed!OnClose, Feed!Send
  <2>2. /\ Feed!Warns(n) \in Seq(Feed!Message) /\ Len(Feed!Warns(n)) = n
        /\ \A i \in 1..n : Feed!Warns(n)[i].type = "warn"
    BY WarnsAre
  <2>3. EndsOff(status', wire')
    <3> DEFINE more == Feed!Warns(n)
    <3>1. /\ more \in Seq(Feed!Message) /\ Len(more) > 0 /\ more[Len(more)].type = "warn"
          /\ \A i \in 1..Len(more) : more[i].type \notin Greets
      BY <2>2 DEF Greets
    <3>2. wire \in Seq(Feed!Message)
      BY DEF FeedInv
    <3> HIDE DEF more
    <3>3. EndsOff(status', wire \o more)
      BY <3>1, <3>2, AppendedEndsOff
    <3> QED
      BY <2>1, <3>3 DEF more
  <2>4. socket' \in [Contract -> {"none", "connecting", "up", "down"}] /\ wire' \in Seq(Feed!Message)
    BY <1>3, <2>1, <2>2 DEF Feed!OnClose, FeedInv
  <2> QED
    BY <2>3, <2>4 DEF FeedInv
<1>4. CASE Feed!OnOpen(c)
  <2>1. /\ socket[c] = "connecting" /\ socket' = [socket EXCEPT ![c] = "up"]
        /\ wire' = wire /\ source' = source
    BY <1>4 DEF Feed!OnOpen
  <2>2. \A k \in Contract :
          socket'[k] \notin {"connecting", "up"} => socket[k] \notin {"connecting", "up"}
    BY <2>1 DEF FeedInv
  <2> QED
    BY <1>1, <2>1, <2>2 DEF FeedInv, Feed!Serving, EndsOff
<1> QED
  BY <1>2, <1>3, <1>4

LEMMA HandleKeeps ==
  ASSUME FeedInv, Feed!Handle
  PROVE  FeedInv'
<1>1. /\ wire # <<>> /\ wire' = Tail(wire) /\ socket' = socket
      /\ status' = CASE Head(wire).type \in {"open", "ready"} -> "live"
                     [] Head(wire).type = "warn" -> "off"
                     [] OTHER -> status
  BY DEF Feed!Handle
<1>2. /\ wire' \in Seq(Feed!Message) /\ Len(wire) > 0 /\ Len(wire) \in Nat
      /\ Len(wire') = Len(wire) - 1 /\ Head(wire) = wire[1]
      /\ \A i \in 1..Len(wire') : wire'[i] = wire[i + 1]
  BY <1>1 DEF FeedInv
<1>3. ASSUME NEW i \in 1..Len(wire), wire[i].type = "warn",
             \A j \in 1..Len(wire) : j > i => wire[j].type \notin Greets
      PROVE  EndsOff(status', wire')
  <2>1. CASE i = 1
    <3>1. status' = "off"
      BY <1>1, <1>2, <1>3, <2>1
    <3>2. \A j \in 1..Len(wire') : wire'[j].type \notin Greets
      <4>1. \A j \in 1..Len(wire') : j + 1 \in 1..Len(wire) /\ j + 1 > i
        BY <1>2, <2>1
      <4> QED
        BY <1>2, <1>3, <4>1
    <3> QED
      BY <3>1, <3>2 DEF EndsOff
  <2>2. CASE i # 1
    <3>1. i - 1 \in 1..Len(wire') /\ wire'[i - 1] = wire[i]
      BY <1>2, <2>2
    <3>2. \A j \in 1..Len(wire') : j > i - 1 => wire'[j].type \notin Greets
      <4>1. \A j \in 1..Len(wire') : j + 1 \in 1..Len(wire) /\ (j > i - 1 => j + 1 > i)
        BY <1>2
      <4> QED
        BY <1>2, <1>3, <4>1
    <3> QED
      BY <1>3, <3>1, <3>2 DEF EndsOff
  <2> QED
    BY <2>1, <2>2
<1>4. ASSUME status = "off", \A j \in 1..Len(wire) : wire[j].type \notin Greets
      PROVE  EndsOff(status', wire')
  <2>1. status' = "off"
    BY <1>1, <1>2, <1>4 DEF Greets
  <2>2. \A j \in 1..Len(wire') : wire'[j].type \notin Greets
    <3>1. \A j \in 1..Len(wire') : j + 1 \in 1..Len(wire)
      BY <1>2
    <3> QED
      BY <1>2, <1>4, <3>1
  <2> QED
    BY <2>1, <2>2 DEF EndsOff
<1>5. EndsOff(status, wire) => EndsOff(status', wire')
  BY <1>3, <1>4 DEF EndsOff
<1> QED
  BY <1>1, <1>2, <1>5 DEF FeedInv, Feed!Serving

LEMMA FeedKeeps ==
  ASSUME FeedInv, [Feed!Next]_feedVars
  PROVE  FeedInv'
<1>1. CASE Feed!Lost
  <2>1. wire' = <<>> /\ source' = "connecting" /\ socket' = [c \in Contract |-> "none"]
    BY <1>1 DEF Feed!Lost, Feed!NoSockets
  <2> QED
    BY <2>1 DEF FeedInv, Feed!Serving
<1>2. CASE Feed!ServiceUnavailable
  <2>1. wire' = wire /\ wire = <<>> /\ source' = "closed" /\ socket' = socket
    BY <1>2 DEF Feed!ServiceUnavailable
  <2> QED
    BY <2>1 DEF FeedInv, Feed!Serving
<1>3. CASE UNCHANGED feedVars
  BY <1>3 DEF feedVars, FeedInv, Feed!Serving, EndsOff
<1> QED
  BY <1>1, <1>2, <1>3, StartKeeps, RelayKeeps, HandleKeeps DEF Feed!Next

(* However often connections are lost, sockets refused, hung and dropped,  *)
(* a page that stays connected and has handled all it was sent is live     *)
(* only if no contract was given up: each is listened to, or still in its  *)
(* handshake (stream/route.ts:54-90).                                      *)
THEOREM LiveMeansNothingLost == ServicesSpec => []LiveHidesNoLoss
<1>1. ServicesInit => FeedInv
  <2>1. SUFFICES ASSUME ServicesInit
                 PROVE  FeedInv
    OBVIOUS
  <2>2. wire = <<>> /\ source = "connecting" /\ socket = [c \in Contract |-> "none"]
    BY <2>1 DEF ServicesInit, Feed!Init, Feed!NoSockets
  <2> QED
    BY <2>2 DEF FeedInv, Feed!Serving
<1>2. FeedInv /\ [ServicesNext]_allVars => FeedInv'
  BY FeedKeeps, StepOfEach
<1>3. FeedInv => LiveHidesNoLoss
  <2>1. SUFFICES ASSUME FeedInv, status = "live", source = "open", wire = <<>>
                 PROVE  \A c \in Contract : socket[c] \in {"connecting", "up"}
    BY DEF LiveHidesNoLoss, Feed!LiveHidesNoLoss
  <2>2. ~EndsOff(status, wire)
    BY <2>1 DEF EndsOff
  <2> QED
    BY <2>1, <2>2 DEF FeedInv, Feed!Serving
<1> QED
  BY <1>1, <1>2, <1>3, PTL DEF ServicesSpec

-----------------------------------------------------------------------------
(* Publication.                                                            *)

LEMMA NewestIsOne ==
  ASSUME NEW S \in SUBSET Publish!Cycles, S # {}
  PROVE  Publish!Max(S) \in S
<1>1. MaxCycle \in Nat
  BY ServicesAssumption DEF Publish!PublicationAssumption
<1>2. S \in SUBSET Nat /\ \A n \in S : n <= MaxCycle
  BY <1>1 DEF Publish!Cycles
<1>3. \E n \in S : \A m \in S : m <= n
  BY <1>1, <1>2, LargestNatural
<1>4. \E n \in S : \A m \in S : n >= m
  BY <1>2, <1>3
<1> QED
  BY <1>4 DEF Publish!Max

(* What is pinned is attested, and so is what the agent is about to pin;   *)
(* an older list has nothing else.                                         *)
PublicInv ==
  /\ agent \in [cycle : 0..MaxCycle, step : Publish!AgentSteps]
  /\ ~Publish!At("idle") => agent.cycle \in Publish!Cycles
  /\ public \in [disk : SUBSET Publish!Cycles, pins : SUBSET Publish!Cycles,
                 verdicts : SUBSET Publish!Cycles, verdictPins : SUBSET Publish!Cycles]
  /\ log \in Seq([of : Publish!Cycles, ok : BOOLEAN])
  /\ flying \subseteq Publish!Cycles
  /\ cached \in public.pins \cup {0}
  /\ console # None => \E b, d, v, r :
       console = [blob |-> b, deploy |-> d, verdict |-> v, read |-> r]
  /\ ~setup.dryRun =>
       /\ public.pins \subseteq Publish!Attested
       /\ Publish!At("pin") => agent.cycle \in Publish!Attested
  /\ ConsoleShowsAttested

LEMMA LogGrows ==
  ASSUME PublicInv, Publish!LogStep
  PROVE  /\ log' \in Seq([of : Publish!Cycles, ok : BOOLEAN])
         /\ Publish!Attested \subseteq Publish!Attested'
<1>1. PICK n \in flying, ok \in BOOLEAN : log' = Append(log, [of |-> n, ok |-> ok])
  BY DEF Publish!LogStep
<1>2. [of |-> n, ok |-> ok] \in [of : Publish!Cycles, ok : BOOLEAN]
  BY DEF PublicInv
<1>3. /\ log' \in Seq([of : Publish!Cycles, ok : BOOLEAN])
      /\ Len(log') = Len(log) + 1 /\ Len(log) \in Nat
      /\ DOMAIN log = 1..Len(log) /\ DOMAIN log' = 1..Len(log')
      /\ \A i \in 1..Len(log) : log'[i] = log[i]
  BY <1>1, <1>2 DEF PublicInv
<1>4. Publish!Attested \subseteq Publish!Attested'
  <2>1. ASSUME NEW i \in DOMAIN log, log[i].ok
        PROVE  log[i].of \in Publish!Attested'
    <3>1. i \in DOMAIN log' /\ log'[i] = log[i]
      BY <1>3
    <3> QED
      BY <2>1, <3>1 DEF Publish!Attested
  <2> QED
    BY <2>1 DEF Publish!Attested
<1> QED
  BY <1>3, <1>4

LEMMA PublishedStays ==
  ASSUME PublicInv, UNCHANGED <<setup, log, flying, cached, console>>,
         agent' \in [cycle : 0..MaxCycle, step : Publish!AgentSteps],
         agent'.step # "idle" => agent'.cycle \in Publish!Cycles,
         public' \in [disk : SUBSET Publish!Cycles, pins : SUBSET Publish!Cycles,
                      verdicts : SUBSET Publish!Cycles, verdictPins : SUBSET Publish!Cycles],
         public.pins \subseteq public'.pins,
         ~setup.dryRun => /\ public'.pins \subseteq Publish!Attested
                          /\ agent'.step = "pin" => agent'.cycle \in Publish!Attested
  PROVE  PublicInv'
BY DEF PublicInv, Publish!At, Publish!Attested, ConsoleShowsAttested,
       Publish!ConsoleShowsAttested

LEMMA PublishesOnly ==
  ASSUME PublicInv, agent.cycle \in Publish!Cycles, Publish!Publishes("disk")
  PROVE  /\ public' \in [disk : SUBSET Publish!Cycles, pins : SUBSET Publish!Cycles,
                         verdicts : SUBSET Publish!Cycles,
                         verdictPins : SUBSET Publish!Cycles]
         /\ public'.pins = public.pins
BY DEF PublicInv, Publish!Publishes

LEMMA PinsOne ==
  ASSUME PublicInv, agent.cycle \in Publish!Cycles, Publish!Publishes("pins")
  PROVE  /\ public' \in [disk : SUBSET Publish!Cycles, pins : SUBSET Publish!Cycles,
                         verdicts : SUBSET Publish!Cycles,
                         verdictPins : SUBSET Publish!Cycles]
         /\ public.pins \subseteq public'.pins
         /\ public'.pins \subseteq public.pins \cup {agent.cycle}
BY DEF PublicInv, Publish!Publishes

LEMMA VerdictsOnly ==
  ASSUME PublicInv, agent.cycle \in Publish!Cycles, Publish!AttestAudit
  PROVE  /\ public' \in [disk : SUBSET Publish!Cycles, pins : SUBSET Publish!Cycles,
                         verdicts : SUBSET Publish!Cycles,
                         verdictPins : SUBSET Publish!Cycles]
         /\ public'.pins = public.pins
<1>1. PICK places \in SUBSET {"verdicts", "verdictPins"} :
        public' = [p \in DOMAIN public |->
                     IF p \in places THEN public[p] \cup {agent.cycle} ELSE public[p]]
  BY DEF Publish!AttestAudit
<1>2. DOMAIN public = {"disk", "pins", "verdicts", "verdictPins"}
  BY DEF PublicInv
<1>3. \A p \in DOMAIN public : public[p] \in SUBSET Publish!Cycles
  BY <1>2 DEF PublicInv
<1>4. DOMAIN public' = {"disk", "pins", "verdicts", "verdictPins"}
      /\ \A p \in DOMAIN public' : public'[p] \in SUBSET Publish!Cycles
  BY <1>1, <1>2, <1>3
<1>5. public' = [disk |-> public'.disk, pins |-> public'.pins,
                 verdicts |-> public'.verdicts, verdictPins |-> public'.verdictPins]
  BY <1>1, <1>2
<1>6. public'.pins = public.pins
  BY <1>1, <1>2
<1> QED
  BY <1>4, <1>5, <1>6

(* A step of the agent, whichever it is.                                   *)
LEMMA AgentKeeps ==
  ASSUME PublicInv,
         \/ Publish!Decide \/ Publish!PersistBlob \/ Publish!Submit
         \/ Publish!WaitForExecution \/ Publish!Throw \/ Publish!PinToIpfs
         \/ Publish!AttestAudit \/ Publish!Judge
  PROVE  PublicInv'
<1>1. /\ UNCHANGED <<setup, log, cached, console>>
      /\ agent \in [cycle : 0..MaxCycle, step : Publish!AgentSteps] /\ MaxCycle \in Nat
  BY ServicesAssumption
     DEF PublicInv, Publish!AgentOnly, Publish!PublicationAssumption, Publish!Decide,
         Publish!PersistBlob, Publish!Submit, Publish!WaitForExecution, Publish!Throw,
         Publish!PinToIpfs, Publish!AttestAudit, Publish!Judge
<1>2. ASSUME NEW s \in Publish!AgentSteps, Publish!GoTo(s)
      PROVE  /\ agent' \in [cycle : 0..MaxCycle, step : Publish!AgentSteps]
             /\ agent'.cycle = agent.cycle /\ agent'.step = s
  BY <1>1, <1>2 DEF Publish!GoTo
<1>3. \A s \in {"idle", "persist", "attest", "await", "pin", "audit", "judge"} :
        s \in Publish!AgentSteps
  BY DEF Publish!AgentSteps
<1>4. agent.step # "idle" => agent.cycle \in Publish!Cycles
  BY DEF PublicInv, Publish!At
<1>5. CASE Publish!Decide
  <2>1. /\ agent' = [cycle |-> agent.cycle + 1, step |-> "persist"]
        /\ agent.cycle < MaxCycle /\ UNCHANGED <<public, flying>>
    BY <1>5 DEF Publish!Decide
  <2>2. agent'.cycle \in Publish!Cycles /\ agent'.cycle \in 0..MaxCycle
    BY <1>1, <2>1 DEF Publish!Cycles
  <2>3. agent' \in [cycle : 0..MaxCycle, step : Publish!AgentSteps]
    BY <1>1, <1>3, <2>1, <2>2
  <2> QED
    BY <1>1, <2>1, <2>2, <2>3, PublishedStays DEF PublicInv
<1>6. CASE Publish!PersistBlob
  <2>1. /\ Publish!GoTo("attest") /\ flying' = flying /\ agent.step = "persist"
        /\ Publish!Publishes("disk")
    BY <1>6 DEF Publish!PersistBlob, Publish!At
  <2> QED
    BY <1>1, <1>2, <1>3, <1>4, <2>1, PublishesOnly, PublishedStays DEF PublicInv
<1>7. CASE Publish!Submit
  <2>1. CASE setup.dryRun
    <3>1. Publish!GoTo("pin") /\ UNCHANGED <<public, flying>> /\ agent.step = "attest"
      BY <1>7, <2>1 DEF Publish!Submit, Publish!At
    <3> QED
      BY <1>1, <1>2, <1>3, <1>4, <2>1, <3>1, PublishedStays DEF PublicInv
  <2>2. CASE ~setup.dryRun
    <3>1. /\ Publish!GoTo("await") /\ UNCHANGED public /\ agent.step = "attest"
          /\ flying' = flying \cup {agent.cycle}
      BY <1>7, <2>2 DEF Publish!Submit, Publish!At
    <3>2. flying' \subseteq Publish!Cycles
      BY <1>4, <3>1 DEF PublicInv
    <3> QED
      BY <1>1, <1>2, <1>3, <1>4, <3>1, <3>2
         DEF PublicInv, Publish!At, Publish!Attested, ConsoleShowsAttested,
             Publish!ConsoleShowsAttested
  <2> QED
    BY <2>1, <2>2
<1>8. CASE Publish!WaitForExecution
  <2>1. /\ Publish!GoTo("pin") /\ UNCHANGED <<public, flying>> /\ agent.step = "await"
        /\ agent.cycle \in Publish!Attested
    BY <1>8 DEF Publish!WaitForExecution, Publish!At, Publish!Executed
  <2> QED
    BY <1>1, <1>2, <1>3, <1>4, <2>1, PublishedStays DEF PublicInv
<1>9. CASE Publish!Throw \/ Publish!Judge
  <2>1. Publish!GoTo("idle") /\ UNCHANGED <<public, flying>>
    BY <1>9 DEF Publish!Throw, Publish!Judge
  <2> QED
    BY <1>1, <1>2, <1>3, <2>1, PublishedStays DEF PublicInv
<1>10. CASE Publish!PinToIpfs
  <2>1. /\ Publish!GoTo("audit") /\ flying' = flying /\ agent.step = "pin"
        /\ Publish!Publishes("pins")
    BY <1>10 DEF Publish!PinToIpfs, Publish!At
  <2>2. ~setup.dryRun => /\ public.pins \subseteq Publish!Attested
                         /\ agent.cycle \in Publish!Attested
    BY <2>1 DEF PublicInv, Publish!At
  <2> QED
    BY <1>1, <1>2, <1>3, <1>4, <2>1, <2>2, PinsOne, PublishedStays
<1>11. CASE Publish!AttestAudit
  <2>1. Publish!GoTo("judge") /\ flying' = flying /\ agent.step = "audit"
    BY <1>11 DEF Publish!AttestAudit, Publish!At
  <2> QED
    BY <1>1, <1>2, <1>3, <1>4, <1>11, <2>1, VerdictsOnly, PublishedStays DEF PublicInv
<1> QED
  BY <1>5, <1>6, <1>7, <1>8, <1>9, <1>10, <1>11

LEMMA ReadersKeep ==
  ASSUME PublicInv, Publish!OpenConsole \/ Publish!GetAgentConsole
  PROVE  PublicInv'
<1>1. UNCHANGED <<setup, agent, reasoning, public, log, flying, escalated>>
  BY DEF Publish!OpenConsole, Publish!GetAgentConsole, Publish!ReaderOnly
<1>2. public.pins \in SUBSET Publish!Cycles
  BY DEF PublicInv
<1>3. CASE Publish!OpenConsole
  <2>1. PICK n \in Publish!LatestBlob :
          /\ console' = IF n = None THEN None
                        ELSE [blob |-> n, deploy |-> None, verdict |-> None, read |-> FALSE]
          /\ cached' \in {cached} \cup
               (IF public.pins = {} THEN {} ELSE {Publish!Max(public.pins)})
    BY <1>3 DEF Publish!OpenConsole
  <2>2. cached' \in public'.pins \cup {0}
    BY <1>1, <1>2, <2>1, NewestIsOne DEF PublicInv
  <2>3. ~setup.local /\ n # None => n \in public.pins
    <3>1. cached # 0 => cached \in public.pins
      BY DEF PublicInv
    <3> QED
      BY <1>2, <2>1, <3>1, NewestIsOne
         DEF Publish!LatestBlob, Publish!LatestBlobFromPinata, Publish!Newest
  <2>4. ConsoleShowsAttested'
    BY <1>1, <2>1, <2>3
       DEF PublicInv, ConsoleShowsAttested, Publish!ConsoleShowsAttested, Publish!Attested
  <2> QED
    BY <1>1, <2>1, <2>2, <2>4 DEF PublicInv, Publish!At, Publish!Attested
<1>4. CASE Publish!GetAgentConsole
  <2>1. PICK b, d, v, r : console = [blob |-> b, deploy |-> d, verdict |-> v, read |-> r]
    BY <1>4 DEF PublicInv, Publish!GetAgentConsole
  <2>2. PICK deploy, verdict :
          console' = [console EXCEPT !.deploy = deploy, !.verdict = verdict, !.read = TRUE]
    BY <1>4 DEF Publish!GetAgentConsole
  <2>3. console' = [blob |-> b, deploy |-> deploy, verdict |-> verdict, read |-> TRUE]
    BY <2>1, <2>2
  <2>4. console # None /\ cached' = cached
    BY <1>4 DEF Publish!GetAgentConsole
  <2>5. ConsoleShowsAttested'
    BY <1>1, <2>1, <2>3, <2>4
       DEF PublicInv, ConsoleShowsAttested, Publish!ConsoleShowsAttested, Publish!Attested
  <2> QED
    BY <1>1, <2>3, <2>4, <2>5 DEF PublicInv, Publish!At, Publish!Attested
<1> QED
  BY <1>3, <1>4

LEMMA PublicKeeps ==
  ASSUME PublicInv, [Publish!Next]_publicationVars
  PROVE  PublicInv'
<1>1. CASE Publish!LogStep
  <2>1. /\ UNCHANGED <<agent, public, setup, cached, console>> /\ flying' \subseteq flying
    BY <1>1 DEF Publish!LogStep, Publish!AgentOnly
  <2> QED
    BY <1>1, <2>1, LogGrows
       DEF PublicInv, Publish!At, ConsoleShowsAttested, Publish!ConsoleShowsAttested
<1>2. CASE UNCHANGED publicationVars
  BY <1>2 DEF publicationVars, PublicInv, Publish!At, Publish!Attested,
    ConsoleShowsAttested, Publish!ConsoleShowsAttested
<1> QED
  BY <1>1, <1>2, AgentKeeps, ReadersKeep DEF Publish!Next

(* Wherever the agent stops, whatever deploy reverts or executes late and  *)
(* however old a list of pins is, a console that reads IPFS shows only     *)
(* reasoning whose attestation is on-chain (attest.ts:54-67).              *)
THEOREM PinnedIsAttested == ServicesSpec => []ConsoleShowsAttested
<1>1. ServicesInit => PublicInv
  <2>1. SUFFICES ASSUME ServicesInit
                 PROVE  PublicInv
    OBVIOUS
  <2>2. /\ agent = [cycle |-> 0, step |-> "idle"] /\ log = <<>> /\ flying = {}
        /\ public = [disk |-> {}, pins |-> {}, verdicts |-> {}, verdictPins |-> {}]
        /\ cached = 0 /\ console = None /\ MaxCycle \in Nat
    BY <2>1, ServicesAssumption
       DEF ServicesInit, Publish!Init, Publish!PublicationAssumption
  <2> QED
    BY <2>2 DEF PublicInv, Publish!At, Publish!AgentSteps, ConsoleShowsAttested,
      Publish!ConsoleShowsAttested
<1>2. PublicInv /\ [ServicesNext]_allVars => PublicInv'
  BY PublicKeeps, StepOfEach
<1>3. PublicInv => ConsoleShowsAttested
  BY DEF PublicInv
<1> QED
  BY <1>1, <1>2, <1>3, PTL DEF ServicesSpec

-----------------------------------------------------------------------------
(* The history of the contracts.                                           *)

(* The indexer counts as everybody does.                                   *)
LEMMA NewestAreLatest == ASSUME NEW S, NEW n PROVE History!Newest(S, n) = Latest(S, n)
<1>1. \A T : History!Cardinality(T) = Cardinality(T)
  BY Zenon DEF History!Cardinality, Cardinality
<1> QED
  BY <1>1 DEF History!Newest, Latest, After

(* The pages of a request are as long as the history once was.             *)
HistoryInv ==
  /\ deploys \in Seq(Calls) /\ Len(deploys) <= MaxDeploys
  /\ reader \in {"trail", "exceptions", "continuity", "mcp"}
  /\ kept \in [Package -> 0..MaxDeploys]
  /\ got \in [Package -> 0..MaxDeploys \cup {None} \cup {-1}]

LEMMA HistoryKeeps == HistoryInv /\ [History!Next]_indexerVars => HistoryInv'
<1> SUFFICES ASSUME HistoryInv, [History!Next]_indexerVars
             PROVE  HistoryInv'
  OBVIOUS
<1>1. MaxDeploys \in Nat /\ Len(deploys) \in 0..MaxDeploys
  BY ServicesAssumption DEF History!IndexerAssumption, HistoryInv
<1>2. ASSUME NEW d \in Calls, History!Deploy(d)
      PROVE  HistoryInv'
  <2>1. Append(deploys, d) \in Seq(Calls) /\ Len(Append(deploys, d)) = Len(deploys) + 1
    BY DEF HistoryInv
  <2> QED
    BY <1>1, <1>2, <2>1 DEF HistoryInv, History!Deploy
<1>3. CASE History!Ask
  BY <1>3 DEF HistoryInv, History!Ask, History!Unasked
<1>4. ASSUME NEW q \in Package, History!CloudGet(q)
      PROVE  HistoryInv'
  <2>1. kept[q] \in 0..MaxDeploys
    BY DEF HistoryInv
  <2>2. PICK value \in 0..MaxDeploys \cup {-1} : got' = [got EXCEPT ![q] = value]
    BY <1>1, <1>4, <2>1 DEF History!CloudGet, History!Becomes, History!Failed
  <2>3. got' \in [Package -> 0..MaxDeploys \cup {None} \cup {-1}]
    BY <2>2 DEF HistoryInv
  <2>4. kept' \in [Package -> 0..MaxDeploys]
    BY <1>1, <1>4 DEF HistoryInv, History!CloudGet
  <2> QED
    BY <1>4, <2>3, <2>4 DEF HistoryInv, History!CloudGet
<1>5. CASE UNCHANGED indexerVars
  BY <1>5 DEF HistoryInv, indexerVars
<1> QED
  BY <1>2, <1>3, <1>4, <1>5 DEF History!Next

LEMMA HistoryInvariant == ServicesSpec => []HistoryInv
<1>1. ServicesInit => HistoryInv
  <2> SUFFICES ASSUME ServicesInit
               PROVE  HistoryInv
    OBVIOUS
  <2>1. /\ deploys = <<>> /\ reader \in {"trail", "exceptions", "continuity", "mcp"}
        /\ kept = [q \in Package |-> 0] /\ got = [q \in Package |-> None]
    BY DEF ServicesInit, History!Init, History!Unasked
  <2>2. MaxDeploys \in Nat
    BY ServicesAssumption DEF History!IndexerAssumption
  <2> QED
    BY <2>1, <2>2 DEF HistoryInv
<1>2. HistoryInv /\ [ServicesNext]_allVars => HistoryInv'
  BY HistoryKeeps, StepOfEach
<1> QED
  BY <1>1, <1>2, PTL DEF ServicesSpec

(* The deploys a page could know of are places of the history.             *)
LEMMA PagesAreLatest ==
  ASSUME HistoryInv, reader = "trail", History!Complete, ~History!AnyFailed,
         NEW q \in History!Read
  PROVE  /\ got[q] # History!Failed
         /\ History!Of(q, got[q]) \in SUBSET (1..MaxDeploys)
         /\ History!PageOf(q, Limit) = Latest(History!Of(q, got[q]), Limit)
<1>1. got[q] # History!Failed
  BY DEF History!AnyFailed
<1>2. q \in Package
  BY DEF History!Read
<1>3. got[q] \in 0..MaxDeploys
  BY <1>1, <1>2 DEF HistoryInv, History!Complete, History!Failed
<1>4. MaxDeploys \in Nat
  BY ServicesAssumption DEF History!IndexerAssumption
<1>5. \A i \in History!Of(q, got[q]) : i \in 1..MaxDeploys
  BY <1>3, <1>4 DEF History!Of
<1>6. History!PageOf(q, Limit) = History!Newest(History!Of(q, got[q]), Limit)
  BY <1>1 DEF History!PageOf
<1> QED
  BY <1>1, <1>5, <1>6, NewestAreLatest

(* However old the pages are that a trail is merged from, and whichever    *)
(* deploys came between them, the trail has every deploy its pages could   *)
(* know of, down to the oldest it shows: and if a page could not be read   *)
(* it shows none (cspr.ts:195-216).                                        *)
THEOREM TrailIsWhole == ServicesSpec => []TrailHasNoGaps
<1>1. HistoryInv => TrailHasNoGaps
  <2> DEFINE trail == History!ContractDeploys
             merged == History!Pages(Limit)
  <2>1. SUFFICES ASSUME HistoryInv, reader = "trail", History!Complete, trail # {},
                        NEW p \in History!Read
                 PROVE  /\ got[p] # History!Failed
                        /\ \A i \in History!Of(p, got[p]) :
                             i > History!Min(trail) \/ History!Cardinality(trail) < Limit
                               => i \in trail
    BY DEF TrailHasNoGaps, History!TrailHasNoGaps
  <2>2. ~History!AnyFailed
    BY <2>1 DEF History!ContractDeploys
  <2>3. MaxDeploys \in Nat /\ Limit \in Nat
    BY ServicesAssumption DEF History!IndexerAssumption
  <2>4. \A q \in History!Read :
          /\ got[q] # History!Failed
          /\ History!Of(q, got[q]) \in SUBSET (1..MaxDeploys)
          /\ History!PageOf(q, Limit) = Latest(History!Of(q, got[q]), Limit)
    BY <2>1, <2>2, PagesAreLatest
  <2>5. \A q \in History!Read : History!PageOf(q, Limit) \subseteq History!Of(q, got[q])
    BY <2>4, InLatest
  <2>6. merged \in SUBSET (1..MaxDeploys)
    BY <2>4, <2>5 DEF History!Pages
  <2>7. trail = Latest(merged, Limit)
    BY <2>2, NewestAreLatest DEF History!ContractDeploys
  <2>8. Latest(History!Of(p, got[p]), Limit) \subseteq merged
    BY <2>1, <2>4 DEF History!Pages
  <2> HIDE DEF merged, trail
  <2>9. History!Min(trail) \in trail
    <3>1. trail \in SUBSET Nat
      <4>1. \A x \in trail : x \in merged
        BY <2>7, InLatest
      <4>2. \A x \in merged : x \in Nat
        BY <2>6
      <4> QED
        BY <4>1, <4>2
    <3>2. \E x \in trail : \A y \in trail : x <= y
      BY <2>1, <3>1, LeastNatural
    <3> QED
      BY <3>2 DEF History!Min
  <2>10. History!Cardinality(trail) = Cardinality(trail)
    BY Zenon DEF History!Cardinality, Cardinality
  <2>11. ASSUME NEW i \in History!Of(p, got[p]),
                i > History!Min(trail) \/ History!Cardinality(trail) < Limit
         PROVE  i \in trail
    <3>1. \/ \E m \in Latest(merged, Limit) : i > m
          \/ Cardinality(Latest(merged, Limit)) < Limit
      BY <2>7, <2>9, <2>10, <2>11
    <3>2. History!Of(p, got[p]) \in SUBSET (1..MaxDeploys)
      BY <2>1, <2>4
    <3> QED
      BY <2>3, <2>6, <2>7, <2>8, <3>1, <3>2, MergedHasNoGaps
  <2> QED
    BY <2>1, <2>4, <2>11
<1> QED
  BY <1>1, HistoryInvariant, PTL

(* Pages, kept ones and the history keep their types (cspr.ts:195-216).    *)
THEOREM HistoryTyped == ServicesSpec => []History!IndexerTypeOK
<1>1. HistoryInv => History!IndexerTypeOK
  BY DEF HistoryInv, History!IndexerTypeOK, History!Length
<1> QED
  BY <1>1, HistoryInvariant, PTL
-----------------------------------------------------------------------------
(* The tree of the liabilities.                                            *)

(* The node above, as verifyInclusion computes it from one hop of a path.  *)
Combine(cur, hop) ==
  IF hop.right THEN Tree!Parent(cur, hop.hash) ELSE Tree!Parent(hop.hash, cur)

(* How the library folds a sequence from the left: over sets of places,    *)
(* the largest first.                                                      *)
FoldsUp(g, leaf, hops, k) ==
  g = [s \in SUBSET (1..k) |->
         IF s = {} THEN leaf ELSE Combine(g[s \ {Tree!Max(s)}], hops[Tree!Max(s)])]

LEMMA LargestPlace ==
  ASSUME NEW k \in Nat, NEW s \in SUBSET (1..(k + 1)), s # {}
  PROVE  /\ Tree!Max(s) \in s /\ \A y \in s : y <= Tree!Max(s)
         /\ s \ {Tree!Max(s)} \in SUBSET (1..k)
<1>1. \E x \in s : \A y \in s : y <= x
  <2>1. s \in SUBSET Nat /\ (\A x \in s : x <= k + 1) /\ k + 1 \in Nat
    OBVIOUS
  <2> QED
    BY Zenon, <2>1, LargestNatural
<1>2. \E x \in s : \A y \in s : x >= y
  <2>1. \A x \in s : x \in Nat
    OBVIOUS
  <2> QED
    BY <1>1, <2>1
<1>3. Tree!Max(s) \in s /\ \A y \in s : Tree!Max(s) >= y
  BY <1>2 DEF Tree!Max
<1>4. \A y \in s : y \in 1..(k + 1)
  OBVIOUS
<1>5. ASSUME NEW y \in s \ {Tree!Max(s)}
      PROVE  y \in 1..k
  <2>1. y \in 1..(k + 1) /\ Tree!Max(s) \in 1..(k + 1)
    BY <1>3, <1>4, <1>5
  <2>2. Tree!Max(s) >= y /\ y # Tree!Max(s)
    BY <1>3, <1>5
  <2> QED
    BY <2>1, <2>2
<1>6. \A y \in s : y <= Tree!Max(s)
  BY <1>3, <1>4
<1> QED
  BY <1>3, <1>5, <1>6

LEMMA FoldsUpExists ==
  ASSUME NEW leaf, NEW hops, NEW n \in Nat
  PROVE  \E g : FoldsUp(g, leaf, hops, n)
<1> DEFINE Good == {k \in Nat : \E g : FoldsUp(g, leaf, hops, k)}
<1>1. 0 \in Good
  <2> DEFINE g == [s \in SUBSET (1..0) |-> leaf]
  <2>1. \A s \in SUBSET (1..0) : s = {}
    OBVIOUS
  <2>2. FoldsUp(g, leaf, hops, 0)
    BY <2>1 DEF FoldsUp
  <2> QED
    BY <2>2
<1>2. ASSUME NEW k \in Nat, k \in Good
      PROVE  k + 1 \in Good
  <2>1. PICK g : FoldsUp(g, leaf, hops, k)
    BY <1>2
  <2> DEFINE Again(f) == [s \in SUBSET (1..(k + 1)) |->
                            IF s = {} THEN leaf
                            ELSE Combine(f[s \ {Tree!Max(s)}], hops[Tree!Max(s)])]
             h == Again(g)
  <2>2. ASSUME NEW s \in SUBSET (1..k)
        PROVE  s \in SUBSET (1..(k + 1)) /\ h[s] = g[s]
    <3>1. s \in SUBSET (1..(k + 1))
      OBVIOUS
    <3>2. g[s] = IF s = {} THEN leaf ELSE Combine(g[s \ {Tree!Max(s)}], hops[Tree!Max(s)])
      BY <2>1 DEF FoldsUp
    <3> QED
      BY <3>1, <3>2
  <2>3. \A s \in SUBSET (1..(k + 1)) : s # {} => s \ {Tree!Max(s)} \in SUBSET (1..k)
    BY LargestPlace
  <2> HIDE DEF h
  <2>4. \A s \in SUBSET (1..(k + 1)) : s # {} => h[s \ {Tree!Max(s)}] = g[s \ {Tree!Max(s)}]
    BY <2>2, <2>3
  <2>5. h = Again(h)
    BY <2>4 DEF h
  <2>6. FoldsUp(h, leaf, hops, k + 1)
    BY <2>5 DEF FoldsUp
  <2> QED
    BY <2>6
<1> HIDE DEF Good
<1>3. n \in Good
  BY <1>1, <1>2, NaturalInduction
<1> QED
  BY <1>3 DEF Good

LEMMA FoldedIsLast ==
  ASSUME NEW leaf, NEW hops, NEW n \in Nat, DOMAIN hops = 1..n
  PROVE  \E g : FoldsUp(g, leaf, hops, n) /\ Tree!Folded(leaf, hops) = g[1..n]
<1> DEFINE g == CHOOSE g : FoldsUp(g, leaf, hops, n)
<1>1. FoldsUp(g, leaf, hops, n)
  BY FoldsUpExists
<1>2. Tree!Folded(leaf, hops) = g[1..n]
  BY DEF Tree!Folded, Tree!FoldLeft, Tree!MapThenFoldSet, FoldsUp, Combine
<1> QED
  BY <1>1, <1>2

(* The fold of the first k hops.                                           *)
Climbs(g, leaf, hops, n) ==
  /\ g[1..0] = leaf
  /\ \A k \in 0..(n - 1) : g[1..(k + 1)] = Combine(g[1..k], hops[k + 1])

LEMMA FoldOfPlaces ==
  ASSUME NEW leaf, NEW hops, NEW n \in Nat, NEW g, FoldsUp(g, leaf, hops, n)
  PROVE  Climbs(g, leaf, hops, n)
<1>1. g[1..0] = leaf
  BY DEF FoldsUp
<1>2. ASSUME NEW k \in 0..(n - 1)
      PROVE  g[1..(k + 1)] = Combine(g[1..k], hops[k + 1])
  <2> DEFINE s == 1..(k + 1)
  <2>1. s \in SUBSET (1..n) /\ s # {} /\ k + 1 \in s /\ s \in SUBSET (1..(k + 1)) /\ k \in Nat
    OBVIOUS
  <2>2. Tree!Max(s) \in s /\ \A y \in s : y <= Tree!Max(s)
    BY <2>1, LargestPlace
  <2>3. Tree!Max(s) = k + 1
    BY <2>1, <2>2
  <2>4. s \ {k + 1} = 1..k
    OBVIOUS
  <2>5. g[s] = Combine(g[s \ {Tree!Max(s)}], hops[Tree!Max(s)])
    <3> HIDE DEF s
    <3> QED
      BY <2>1 DEF FoldsUp
  <2> QED
    BY <2>3, <2>4, <2>5
<1> QED
  BY <1>1, <1>2 DEF Climbs

(* One more hop leads one node further up; no hop leads nowhere.           *)
LEMMA FoldOfOneMore ==
  ASSUME NEW X, NEW hops \in Seq(X), NEW hop \in X, NEW leaf
  PROVE  Tree!Folded(leaf, Append(hops, hop)) = Combine(Tree!Folded(leaf, hops), hop)
<1> DEFINE n == Len(hops)
           more == Append(hops, hop)
<1>1. /\ n \in Nat /\ DOMAIN hops = 1..n /\ DOMAIN more = 1..(n + 1)
      /\ more[n + 1] = hop /\ \A i \in 1..n : more[i] = hops[i]
  <2>1. Append(hops, hop) \in Seq(X)
    BY AppendProperties
  <2> QED
    BY <2>1, AppendProperties, LenProperties
<1> HIDE DEF n, more
<1>2. PICK g : FoldsUp(g, leaf, hops, n) /\ Tree!Folded(leaf, hops) = g[1..n]
  BY <1>1, FoldedIsLast
<1>3. PICK h : FoldsUp(h, leaf, more, n + 1) /\ Tree!Folded(leaf, more) = h[1..(n + 1)]
  <2>1. n + 1 \in Nat
    BY <1>1
  <2> QED
    BY <1>1, <2>1, FoldedIsLast
<1> DEFINE Good == {k \in Nat : k <= n => h[1..k] = g[1..k]}
<1>4. /\ g[1..0] = leaf /\ h[1..0] = leaf
      /\ \A k \in 0..(n - 1) : g[1..(k + 1)] = Combine(g[1..k], hops[k + 1])
      /\ \A k \in 0..n : h[1..(k + 1)] = Combine(h[1..k], more[k + 1])
  <2>1. n + 1 \in Nat /\ (n + 1) - 1 = n
    BY <1>1
  <2>2. /\ g[1..0] = leaf
        /\ \A k \in 0..(n - 1) : g[1..(k + 1)] = Combine(g[1..k], hops[k + 1])
    <3>1. Climbs(g, leaf, hops, n)
      BY <1>1, <1>2, FoldOfPlaces
    <3> QED
      BY <3>1 DEF Climbs
  <2>3. /\ h[1..0] = leaf
        /\ \A k \in 0..((n + 1) - 1) : h[1..(k + 1)] = Combine(h[1..k], more[k + 1])
    <3>1. Climbs(h, leaf, more, n + 1)
      BY <1>3, <2>1, FoldOfPlaces
    <3> QED
      BY <3>1 DEF Climbs
  <2> QED
    BY <2>1, <2>2, <2>3
<1>5. 0 \in Good
  BY <1>4
<1>6. ASSUME NEW k \in Nat, k \in Good
      PROVE  k + 1 \in Good
  <2>1. SUFFICES ASSUME k + 1 <= n
                 PROVE  h[1..(k + 1)] = g[1..(k + 1)]
    BY <1>1
  <2>2. k \in 0..(n - 1) /\ k \in 0..n /\ k <= n /\ k + 1 \in 1..n
    BY <1>1, <2>1
  <2>3. h[1..k] = g[1..k]
    BY <1>6, <2>2
  <2>4. more[k + 1] = hops[k + 1]
    BY <1>1, <2>2
  <2> QED
    BY <1>4, <2>2, <2>3, <2>4
<1>7. n \in Good
  <2> HIDE DEF Good
  <2> QED
    BY <1>1, <1>5, <1>6, NaturalInduction
<1>8. h[1..n] = g[1..n]
  BY <1>1, <1>7
<1>9. h[1..(n + 1)] = Combine(h[1..n], more[n + 1])
  BY <1>1, <1>4
<1> QED
  BY <1>1, <1>2, <1>3, <1>8, <1>9 DEF more

LEMMA FoldOfNothing == ASSUME NEW leaf PROVE Tree!Folded(leaf, <<>>) = leaf
<1>1. DOMAIN <<>> = 1..0
  OBVIOUS
<1>2. PICK g : FoldsUp(g, leaf, <<>>, 0) /\ Tree!Folded(leaf, <<>>) = g[1..0]
  BY <1>1, FoldedIsLast
<1> QED
  BY <1>2, FoldOfPlaces DEF Climbs

LEMMA HalvesOf ==
  ASSUME NEW n \in Nat, NEW i \in 1..n
  PROVE  /\ Tree!Up(i) \in 1..Tree!Up(n) /\ Tree!Up(n) \in Nat /\ Tree!Up(i) \in Nat
         /\ Tree!IsLeft(i) => 2 * Tree!Up(i) = i + 1
         /\ ~Tree!IsLeft(i) => 2 * Tree!Up(i) = i /\ i - 1 \in 1..n
BY DEF Tree!Up, Tree!IsLeft

LEMMA LengthOf ==
  ASSUME NEW n \in Nat, NEW S, NEW s \in [1..n -> S]
  PROVE  s \in Seq(S) /\ Len(s) = n
OBVIOUS

(* Positions are those of the last level; what a client's path leads to is *)
(* its own node of it.                                                     *)
TreeInv ==
  /\ clients \in Nat
  /\ Len(level) \in Nat
  /\ index \in [1..clients -> 1..Len(level)]
  /\ \A c \in 1..clients : \E X : path[c] \in Seq(X)
  /\ EveryClientIsIncluded

Hop(i) == [hash |-> Tree!Sibling(i), right |-> Tree!IsLeft(i)]

(* The hop from a node leads that node to the one above, and no other.     *)
LEMMA HopLeadsUp ==
  ASSUME TreeInv, Tree!BuildLevel, NEW i \in 1..Len(level), NEW cur
  PROVE  Combine(cur, Hop(i)) = level'[Tree!Up(i)] <=> cur = level[i]
<1> DEFINE n == Len(level)
           u == Tree!Up(i)
<1>1. n \in Nat /\ i \in 1..n /\ i \in Nat
  BY DEF TreeInv
<1>2. /\ u \in 1..Tree!Up(n) /\ u \in Nat
      /\ Tree!IsLeft(i) => 2 * u = i + 1
      /\ ~Tree!IsLeft(i) => 2 * u = i
  BY <1>1, HalvesOf
<1>3. level' = [j \in 1..Tree!Up(n) |->
                  Tree!Parent(level[2 * j - 1],
                              IF 2 * j <= n THEN level[2 * j] ELSE level[2 * j - 1])]
  BY DEF Tree!BuildLevel
<1> HIDE DEF n, u
<1>4. level'[u] = Tree!Parent(level[2 * u - 1],
                              IF 2 * u <= n THEN level[2 * u] ELSE level[2 * u - 1])
  BY <1>2, <1>3
<1>5. CASE Tree!IsLeft(i)
  <2>1. 2 * u - 1 = i /\ (2 * u <= n <=> i < n) /\ 2 * u = i + 1
    BY <1>1, <1>2, <1>5
  <2>2. level'[u] = Tree!Parent(level[i], Tree!Sibling(i))
    BY <1>4, <1>5, <2>1 DEF Tree!Sibling, n
  <2>3. Combine(cur, Hop(i)) = Tree!Parent(cur, Tree!Sibling(i))
    BY <1>5 DEF Combine, Hop
  <2> QED
    BY <2>2, <2>3 DEF u, Tree!Parent
<1>6. CASE ~Tree!IsLeft(i)
  <2>1. 2 * u - 1 = i - 1 /\ 2 * u <= n /\ 2 * u = i
    BY <1>1, <1>2, <1>6
  <2>2. level'[u] = Tree!Parent(Tree!Sibling(i), level[i])
    BY <1>4, <1>6, <2>1 DEF Tree!Sibling, n
  <2>3. Combine(cur, Hop(i)) = Tree!Parent(Tree!Sibling(i), cur)
    BY <1>6 DEF Combine, Hop
  <2> QED
    BY <2>2, <2>3 DEF u, Tree!Parent
<1> QED
  BY <1>5, <1>6

LEMMA TreeKeeps ==
  ASSUME TreeInv, [Tree!Next]_treeVars
  PROVE  TreeInv'
<1>1. CASE UNCHANGED treeVars
  BY <1>1 DEF TreeInv, treeVars, EveryClientIsIncluded, Tree!EveryClientIsIncluded,
     Tree!VerifyInclusion
<1>2. CASE Tree!BuildLevel
  <2> DEFINE n == Len(level)
  <2>1. n \in Nat /\ Tree!Up(n) \in Nat /\ clients' = clients /\ clients \in Nat
    <3>1. n \in Nat /\ n \in 1..n
      BY <1>2 DEF TreeInv, Tree!BuildLevel
    <3> HIDE DEF n
    <3> QED
      BY <1>2, <3>1, HalvesOf DEF TreeInv, Tree!BuildLevel
  <2>2. Len(level') = Tree!Up(n)
    <3> DEFINE node(j) == Tree!Parent(level[2 * j - 1],
                            IF 2 * j <= n THEN level[2 * j] ELSE level[2 * j - 1])
    <3>1. level' = [j \in 1..Tree!Up(n) |-> node(j)]
      BY <1>2 DEF Tree!BuildLevel
    <3> HIDE DEF n, node
    <3>2. level' \in [1..Tree!Up(n) -> {node(j) : j \in 1..Tree!Up(n)}]
      BY <3>1
    <3> QED
      BY <2>1, <3>2, LengthOf
  <2>3. \A c \in 1..clients : index[c] \in 1..n /\ index'[c] = Tree!Up(index[c])
    BY <1>2 DEF TreeInv, Tree!BuildLevel
  <2>4. index' \in [1..clients -> 1..Tree!Up(n)]
    <3>1. index' = [c \in 1..clients |-> Tree!Up(index[c])]
      BY <1>2 DEF Tree!BuildLevel
    <3>2. \A c \in 1..clients : Tree!Up(index[c]) \in 1..Tree!Up(n)
      BY <2>1, <2>3, HalvesOf
    <3> QED
      BY <3>1, <3>2
  <2>5. \A c \in 1..clients : path'[c] = Append(path[c], Hop(index[c]))
    BY <1>2 DEF Tree!BuildLevel, Hop
  <2>6. ASSUME NEW d \in 1..clients
        PROVE  /\ \E X : path'[d] \in Seq(X)
               /\ \A c \in 1..clients :
                    Tree!Folded(Tree!Leaf(c), path'[d]) =
                      Combine(Tree!Folded(Tree!Leaf(c), path[d]), Hop(index[d]))
    <3>1. PICK X : path[d] \in Seq(X)
      BY <2>6 DEF TreeInv
    <3> DEFINE Y == X \cup {Hop(index[d])}
    <3>2. path[d] \in Seq(Y) /\ Hop(index[d]) \in Y
      BY <3>1, SeqMonotonic
    <3> HIDE DEF Y
    <3>3. path'[d] \in Seq(Y)
      BY <2>5, <2>6, <3>2, AppendProperties
    <3>4. \A c \in 1..clients :
            Tree!Folded(Tree!Leaf(c), Append(path[d], Hop(index[d]))) =
              Combine(Tree!Folded(Tree!Leaf(c), path[d]), Hop(index[d]))
      BY <3>2, FoldOfOneMore
    <3> QED
      BY <2>5, <2>6, <3>3, <3>4
  <2>7. ASSUME NEW c \in 1..clients, NEW d \in 1..clients
        PROVE  Tree!Folded(Tree!Leaf(c), path'[d]) = level'[index'[d]] <=> c = d
    <3>1. Tree!Folded(Tree!Leaf(c), path[d]) = level[index[d]] <=> c = d
      BY DEF TreeInv, EveryClientIsIncluded, Tree!EveryClientIsIncluded, Tree!VerifyInclusion
    <3>2. Combine(Tree!Folded(Tree!Leaf(c), path[d]), Hop(index[d]))
            = level'[Tree!Up(index[d])]
              <=> Tree!Folded(Tree!Leaf(c), path[d]) = level[index[d]]
      BY <1>2, <2>3, HopLeadsUp
    <3> QED
      BY <2>3, <2>6, <3>1, <3>2
  <2>8. EveryClientIsIncluded'
    BY <2>1, <2>7 DEF EveryClientIsIncluded, Tree!EveryClientIsIncluded, Tree!VerifyInclusion
  <2>9. index' \in [1..clients' -> 1..Len(level')]
    BY <2>1, <2>2, <2>4
  <2>10. \A c \in 1..clients' : \E X : path'[c] \in Seq(X)
    <3> HIDE DEF n
    <3> QED
      BY <2>1, <2>6
  <2>11. clients' \in Nat /\ Len(level') \in Nat
    BY <2>1, <2>2
  <2> QED
    BY <2>8, <2>9, <2>10, <2>11 DEF TreeInv
<1> QED
  BY <1>1, <1>2 DEF Tree!Next

LEMMA TreeInvariant == ServicesSpec => []TreeInv
<1>1. ServicesInit => TreeInv
  <2>1. SUFFICES ASSUME ServicesInit PROVE TreeInv
    OBVIOUS
  <2>2. /\ clients \in Nat
        /\ level = [c \in 1..clients |-> Tree!Leaf(c)]
        /\ index = [c \in 1..clients |-> c]
        /\ path = [c \in 1..clients |-> <<>>]
    BY <2>1 DEF ServicesInit, Tree!Init
  <2>3. Len(level) = clients
    <3>1. level \in [1..clients -> {Tree!Leaf(c) : c \in 1..clients}]
      BY <2>2
    <3> QED
      BY <2>2, <3>1, LengthOf
  <2>4. index \in [1..clients -> 1..Len(level)]
    BY <2>2, <2>3
  <2>5. \A c \in 1..clients : \E X : path[c] \in Seq(X)
    <3>1. <<>> \in Seq({})
      OBVIOUS
    <3> QED
      BY <2>2, <3>1
  <2>6. EveryClientIsIncluded
    <3>1. SUFFICES ASSUME NEW c \in 1..clients, NEW d \in 1..clients
                   PROVE  Tree!Folded(Tree!Leaf(c), path[d]) = level[index[d]] <=> c = d
      BY DEF EveryClientIsIncluded, Tree!EveryClientIsIncluded, Tree!VerifyInclusion
    <3>2. Tree!Folded(Tree!Leaf(c), path[d]) = Tree!Leaf(c)
      BY <2>2, FoldOfNothing
    <3>3. level[index[d]] = Tree!Leaf(d)
      BY <2>2
    <3> QED
      BY <3>2, <3>3 DEF Tree!Leaf
  <2> QED
    BY <2>2, <2>3, <2>4, <2>5, <2>6 DEF TreeInv
<1>2. TreeInv /\ [ServicesNext]_allVars => TreeInv'
  BY StepOfEach, TreeKeeps
<1> QED
  BY <1>1, <1>2, PTL DEF ServicesSpec

(* For every client book: a client's leaf folded up its path is its node   *)
(* of the level built last, nobody else's is, and so each client verifies  *)
(* against the root, with its own path only (liabilities.ts:57-71).        *)
THEOREM ClientsAreIncluded == ServicesSpec => []EveryClientIsIncluded
<1>1. TreeInv => EveryClientIsIncluded
  BY DEF TreeInv
<1> QED
  BY <1>1, TreeInvariant, PTL
-----------------------------------------------------------------------------
(* The paper portfolio.                                                    *)

LEMMA WholeUnits ==
  ASSUME NEW m \in Nat, NEW p \in Nat \ {0}, m % p = 0
  PROVE  m \div p \in Nat /\ (m \div p) * p = m
OBVIOUS

LEMMA QuotientIsNatural ==
  ASSUME NEW m \in Nat, NEW p \in Nat \ {0}
  PROVE  m \div p \in Nat
OBVIOUS

LEMMA MovedWorth ==
  ASSUME NEW x \in Int, NEW q \in Int, NEW p \in Int
  PROVE  (x - q) * p = x * p - q * p /\ (x + q) * p = x * p + q * p
OBVIOUS

(* What a decision may fill, and at which prices.                          *)
LEMMA FillableIsPriced ==
  ASSUME NEW snapshot \in Paper!Snapshot, NEW d \in Paper!Proposal, NEW units,
         Paper!Fillable(units, snapshot, d)
  PROVE  /\ d.from \in Paper!Asset /\ d.to \in Paper!Asset /\ d.from # d.to
         /\ d.amount \in Amounts
         /\ Paper!PriceOf(d.from, snapshot) \in (Figures \cup {Par}) \ {None, NaN, 0}
         /\ Paper!PriceOf(d.to, snapshot) \in (Figures \cup {Par}) \ {None, NaN, 0}
<1>1. d.action = "rebalance" /\ d.from # d.to
  BY DEF Paper!Fillable
<1>2. d \in [action : {"rebalance"}, from : Paper!Asset, to : Paper!Asset, amount : Amounts]
  BY <1>1 DEF Paper!Proposal
<1>3. \A a \in Paper!Asset : Paper!PriceOf(a, snapshot) \in Figures \cup {Par, 0, None, NaN}
  BY DEF Paper!Snapshot, Paper!Price, Paper!PriceOf, Paper!Asset
<1>4. /\ Paper!PriceOf(d.from, snapshot) \notin {None, NaN, 0}
      /\ Paper!PriceOf(d.to, snapshot) \notin {None, NaN, 0}
  BY DEF Paper!Fillable
<1> QED
  BY <1>1, <1>2, <1>3, <1>4

(* A fill takes from one asset what it adds to another, in money.          *)
LEMMA FillMoves ==
  ASSUME NEW snapshot \in Paper!Snapshot, NEW d \in Paper!Proposal,
         NEW units \in [Paper!Asset -> Nat], Paper!Fillable(units, snapshot, d)
  PROVE  LET after == Paper!Filled(units, snapshot, d)
         IN  /\ after \in [Paper!Asset -> Nat]
             /\ Paper!Worth(after, snapshot, d.from)
                  = Paper!Worth(units, snapshot, d.from) - d.amount
             /\ Paper!Worth(after, snapshot, d.to)
                  = Paper!Worth(units, snapshot, d.to) + d.amount
             /\ \A a \in Paper!Asset \ {d.from, d.to} :
                  /\ Paper!Worth(after, snapshot, a) = Paper!Worth(units, snapshot, a)
                  /\ after[a] = units[a]
<1> DEFINE after == Paper!Filled(units, snapshot, d)
           f == d.from
           t == d.to
           m == d.amount
           pf == Paper!PriceOf(f, snapshot)
           pt == Paper!PriceOf(t, snapshot)
<1>1. /\ f \in Paper!Asset /\ t \in Paper!Asset /\ f # t /\ m \in Amounts
      /\ pf \in Figures \cup {Par} /\ pt \in Figures \cup {Par}
      /\ {pf, pt} \cap {None, NaN, 0} = {}
  BY FillableIsPriced
<1>2. /\ m \in Nat /\ pf \in Nat \ {0} /\ pt \in Nat \ {0} /\ m % pf = 0 /\ m % pt = 0
  <2>1. Paper!PaperAssumption
    BY ServicesAssumption
  <2> HIDE DEF m, pf, pt
  <2> QED
    BY <1>1, <2>1 DEF Paper!PaperAssumption
<1>3. after = [units EXCEPT ![f] = @ - m \div pf, ![t] = @ + m \div pt]
  BY DEF Paper!Filled
<1>4. units[f] >= m \div pf
  BY DEF Paper!Fillable
<1> HIDE DEF after, f, t, m, pf, pt
<1>5. /\ m \div pf \in Nat /\ (m \div pf) * pf = m
      /\ m \div pt \in Nat /\ (m \div pt) * pt = m
  BY <1>2, WholeUnits
<1> DEFINE qf == m \div pf
           qt == m \div pt
<1>6. /\ after[f] = units[f] - qf /\ after[t] = units[t] + qt
      /\ \A a \in Paper!Asset \ {f, t} : after[a] = units[a]
      /\ after \in [Paper!Asset -> Nat]
  <2>1. qf \in Nat /\ qt \in Nat /\ after = [units EXCEPT ![f] = @ - qf, ![t] = @ + qt]
        /\ units[f] >= qf /\ units[f] \in Nat /\ units[t] \in Nat
    BY <1>1, <1>3, <1>4, <1>5
  <2> HIDE DEF qf, qt
  <2> QED
    BY <1>1, <2>1
<1>7. /\ qf \in Int /\ qt \in Int /\ units[f] \in Int /\ units[t] \in Int
      /\ pf \in Int /\ pt \in Int /\ qf * pf = m /\ qt * pt = m
  BY <1>1, <1>2, <1>5
<1> HIDE DEF qf, qt
<1>8. /\ (units[f] - qf) * pf = units[f] * pf - qf * pf
      /\ (units[t] + qt) * pt = units[t] * pt + qt * pt
  BY <1>7, MovedWorth
<1>9. /\ Paper!Worth(after, snapshot, f) = after[f] * pf
      /\ Paper!Worth(units, snapshot, f) = units[f] * pf
      /\ Paper!Worth(after, snapshot, t) = after[t] * pt
      /\ Paper!Worth(units, snapshot, t) = units[t] * pt
  BY <1>1 DEF Paper!Worth, pf, pt
<1>10. \A a \in Paper!Asset \ {f, t} :
         Paper!Worth(after, snapshot, a) = Paper!Worth(units, snapshot, a)
  BY <1>6 DEF Paper!Worth
<1> QED
  BY <1>6, <1>7, <1>8, <1>9, <1>10 DEF after, f, t, m

LEMMA WorthIsNatural ==
  ASSUME NEW snapshot \in Paper!Snapshot, NEW units \in [Paper!Asset -> Nat],
         NEW a \in Paper!Asset
  PROVE  Paper!Worth(units, snapshot, a) \in Nat
<1> DEFINE p == Paper!PriceOf(a, snapshot)
<1>1. CASE p \in {None, NaN}
  BY <1>1 DEF Paper!Worth
<1>2. CASE p \notin {None, NaN}
  <2>1. Figures \subseteq Nat /\ Par \in Nat
    BY ServicesAssumption DEF Paper!PaperAssumption
  <2>2. a # "TBond" => snapshot[a] \in Figures \/ snapshot[a] \in {0, None, NaN}
    BY DEF Paper!Snapshot, Paper!Price, Paper!Asset
  <2>3. p \in Figures \/ p = 0 \/ p = Par
    BY <1>2, <2>2 DEF Paper!PriceOf
  <2> HIDE DEF p
  <2>4. p \in Nat
    <3>1. CASE p \in Figures
      BY <2>1, <3>1
    <3>2. CASE p = Par
      BY <2>1, <3>2
    <3>3. CASE p = 0
      BY <3>3
    <3> QED
      BY <2>3, <3>1, <3>2, <3>3
  <2>5. units[a] * p \in Nat
    BY <2>4, ProductIsNatural
  <2> QED
    BY <1>2, <2>5 DEF Paper!Worth, p
<1> QED
  BY <1>1, <1>2

LEMMA ValuedIsNatural ==
  ASSUME NEW snapshot \in Paper!Snapshot, NEW units \in [Paper!Asset -> Nat]
  PROVE  /\ Paper!Valued(units, snapshot) \in Nat
         /\ Paper!Nav(units, snapshot) \in Nat \cup {None, NaN}
<1>1. \A a \in {"Gold", "WTI", "CSPR", "TBond"} : Paper!Worth(units, snapshot, a) \in Nat
  BY WorthIsNatural DEF Paper!Asset, Paper!Priced
<1>2. Paper!Valued(units, snapshot) \in Nat
  BY <1>1 DEF Paper!Valued
<1> QED
  BY <1>2, Zenon DEF Paper!Nav

LEMMA FillIsNeutral ==
  ASSUME NEW snapshot \in Paper!Snapshot, NEW d \in Paper!Proposal,
         NEW units \in [Paper!Asset -> Nat]
  PROVE  /\ Paper!Filled(units, snapshot, d) \in [Paper!Asset -> Nat]
         /\ Paper!FilledNeutrally(units, Paper!Filled(units, snapshot, d), snapshot)
<1>1. CASE ~Paper!Fillable(units, snapshot, d)
  BY <1>1 DEF Paper!Filled, Paper!FilledNeutrally
<1>2. CASE Paper!Fillable(units, snapshot, d)
  <2> DEFINE after == Paper!Filled(units, snapshot, d)
             w(a) == Paper!Worth(units, snapshot, a)
             v(a) == Paper!Worth(after, snapshot, a)
  <2>1. /\ after \in [Paper!Asset -> Nat]
        /\ v(d.from) = w(d.from) - d.amount /\ v(d.to) = w(d.to) + d.amount
        /\ \A a \in Paper!Asset \ {d.from, d.to} : v(a) = w(a)
        /\ \A a \in Paper!Asset \ {d.from, d.to} : after[a] = units[a]
    BY <1>2, FillMoves
  <2>2. d.from \in Paper!Asset /\ d.to \in Paper!Asset /\ d.from # d.to /\ d.amount \in Nat
    <3>1. Amounts \subseteq Nat
      BY ServicesAssumption DEF Paper!PaperAssumption
    <3> QED
      BY <1>2, <3>1, FillableIsPriced
  <2>3. Paper!Valued(after, snapshot) = Paper!Valued(units, snapshot)
    <3>1. \A a \in Paper!Asset : w(a) \in Nat /\ v(a) \in Nat
      BY <2>1, WorthIsNatural
    <3>2. /\ Paper!Valued(units, snapshot) = w("Gold") + w("WTI") + w("CSPR") + w("TBond")
          /\ Paper!Valued(after, snapshot) = v("Gold") + v("WTI") + v("CSPR") + v("TBond")
      BY DEF Paper!Valued
    <3> HIDE DEF after, w, v
    <3>3. w("Gold") + w("WTI") + w("CSPR") + w("TBond")
            = v("Gold") + v("WTI") + v("CSPR") + v("TBond")
      BY <2>1, <2>2, <3>1 DEF Paper!Asset, Paper!Priced
    <3> QED
      BY <3>2, <3>3
  <2>4. ASSUME NEW a \in Paper!Asset, Paper!PriceOf(a, snapshot) \in {NaN, 0}
        PROVE  after[a] = units[a]
    <3>1. a # d.from /\ a # d.to
      BY <1>2, <2>4, FillableIsPriced
    <3> QED
      BY <2>1, <3>1
  <2> QED
    BY <2>1, <2>3, <2>4 DEF Paper!FilledNeutrally
<1> QED
  BY <1>1, <1>2

LEMMA KeptAreKept ==
  ASSUME NEW S, NEW cycles \in Seq(S)
  PROVE  Paper!LastKept(cycles) \in Seq(S) /\ Len(Paper!LastKept(cycles)) <= Kept
<1>1. Kept \in Nat \ {0}
  BY ServicesAssumption DEF Paper!PaperAssumption
<1>2. CASE Len(cycles) <= Kept
  BY <1>2 DEF Paper!LastKept
<1>3. CASE ~(Len(cycles) <= Kept)
  <2>1. Len(cycles) \in Nat /\ Len(cycles) - Kept + 1 \in 1..Len(cycles) + 1
        /\ Len(cycles) \in (Len(cycles) - Kept + 1) - 1..Len(cycles)
    BY <1>1, <1>3, LenProperties
  <2>2. LET last == SubSeq(cycles, Len(cycles) - Kept + 1, Len(cycles))
        IN  last \in Seq(S) /\ Len(last) = Len(cycles) - (Len(cycles) - Kept + 1) + 1
    BY <2>1, SubSeqProperties
  <2> QED
    BY <1>1, <1>3, <2>1, <2>2 DEF Paper!LastKept
<1> QED
  BY <1>2, <1>3

(* A cycle from a portfolio, if it can be valued.                          *)
LEMMA AdvancedIsNeutral ==
  ASSUME NEW st \in Paper!Book, NEW snapshot \in Paper!Snapshot, NEW d \in Paper!Proposal,
         Paper!Advanced(st, snapshot, d) # None
  PROVE  LET new == Paper!Advanced(st, snapshot, d)
         IN  /\ new \in Paper!Book /\ Len(new.cycles) <= Kept
             /\ Paper!FilledNeutrally(st.units, new.units, snapshot)
             /\ Paper!Nav(new.units, snapshot) # None
<1> DEFINE after == Paper!Filled(st.units, snapshot, d)
           nav == Paper!Nav(after, snapshot)
           written == Paper!Written(nav)
           cycles == Paper!LastKept(Append(st.cycles, written))
           new == Paper!Advanced(st, snapshot, d)
<1>1. /\ st.units \in [Paper!Asset -> Nat] /\ st.cycles \in Seq(Nat \cup {None})
      /\ st.startNav \in Nat \cup {None}
      /\ st = [startNav |-> st.startNav, units |-> st.units, cycles |-> st.cycles]
  BY DEF Paper!Book
<1>2. /\ after \in [Paper!Asset -> Nat] /\ Paper!FilledNeutrally(st.units, after, snapshot)
  BY <1>1, FillIsNeutral
<1>3. nav # None /\ new = [st EXCEPT !.units = after, !.cycles = cycles]
  BY DEF Paper!Advanced
<1>4. written \in Nat \cup {None}
  BY <1>2, ValuedIsNatural DEF Paper!Written
<1>5. cycles \in Seq(Nat \cup {None}) /\ Len(cycles) <= Kept
  <2> HIDE DEF written
  <2>1. Append(st.cycles, written) \in Seq(Nat \cup {None})
    BY <1>1, <1>4, AppendProperties
  <2> QED
    BY <2>1, KeptAreKept
<1>6. nav = Paper!Nav(after, snapshot)
  OBVIOUS
<1> HIDE DEF after, nav, cycles, new
<1>7. new \in Paper!Book /\ new.units = after /\ new.cycles = cycles
  BY <1>1, <1>2, <1>3, <1>5 DEF Paper!Book
<1> QED
  BY <1>2, <1>3, <1>5, <1>6, <1>7 DEF new

LEMMA SeededIsBook ==
  ASSUME NEW split \in Split, NEW snapshot \in Paper!Snapshot,
         Paper!Seeded(split, snapshot) # None
  PROVE  Paper!Seeded(split, snapshot) \in Paper!Book
<1> DEFINE bought == [a \in Paper!Asset |-> IF Paper!PriceOf(a, snapshot) = NaN THEN 0
                                           ELSE split[a] \div Paper!PriceOf(a, snapshot)]
           nav == Paper!Nav(bought, snapshot)
<1>1. \A a \in Paper!Asset : Paper!PriceOf(a, snapshot) \notin {None, 0}
  BY DEF Paper!Seeded
<1>2. Paper!Seeded(split, snapshot)
        = [startNav |-> Paper!Written(nav), units |-> bought, cycles |-> <<>>]
  BY <1>1 DEF Paper!Seeded
<1>3. Paper!PaperAssumption
  BY ServicesAssumption
<1>4. \A a \in Paper!Asset :
        /\ split[a] \in Nat
        /\ Paper!PriceOf(a, snapshot) = NaN \/ Paper!PriceOf(a, snapshot) \in Nat \ {0}
  BY <1>1, <1>3
  DEF Paper!PaperAssumption, Paper!Snapshot, Paper!Price, Paper!PriceOf, Paper!Asset
<1>5. bought \in [Paper!Asset -> Nat]
  BY <1>4, QuotientIsNatural
<1> HIDE DEF bought
<1>6. Paper!Written(nav) \in Nat \cup {None}
  BY <1>5, ValuedIsNatural DEF Paper!Written
<1>7. <<>> \in Seq(Nat \cup {None})
  OBVIOUS
<1> QED
  BY <1>2, <1>5, <1>6, <1>7 DEF Paper!Book

LEMMA PaperKeeps ==
  ASSUME Paper!PaperTypeOK, [Paper!Next]_paperVars
  PROVE  /\ Paper!PaperTypeOK'
         /\ book # None /\ book' \notin {None, book} =>
              /\ Paper!Nav(book'.units, prices') # None
              /\ Paper!FilledNeutrally(book.units, book'.units, prices')
<1>1. CASE UNCHANGED paperVars
  BY <1>1 DEF Paper!PaperTypeOK, paperVars
<1>2. CASE Paper!Torn
  BY <1>2 DEF Paper!PaperTypeOK, Paper!Torn
<1>3. CASE Paper!Cycle
  <2>1. round' \in 0..MaxCycles
    <3>1. MaxCycles \in Nat
      BY ServicesAssumption DEF Paper!PaperAssumption
    <3> QED
      BY <1>3, <3>1 DEF Paper!Cycle, Paper!PaperTypeOK
  <2>2. PICK answers \in [Paper!Priced -> Paper!Answer] :
          /\ prices' = Paper!Ingest(answers)
          /\ \E st \in IF book # None THEN {book}
                       ELSE {Paper!Seeded(split, prices') : split \in Split} :
               IF st = None THEN book' = book
               ELSE \E d \in Paper!Proposal :
                      LET new == Paper!Advanced(st, prices', d)
                      IN  book' \in {book, IF new = None THEN book ELSE new}
    <3>1. PICK snapshot \in {Paper!Ingest(answers) : answers \in [Paper!Priced -> Paper!Answer]} :
            /\ prices' = snapshot
            /\ \E st \in IF book # None THEN {book}
                         ELSE {Paper!Seeded(split, prices') : split \in Split} :
                 IF st = None THEN book' = book
                 ELSE \E d \in Paper!Proposal :
                        LET new == Paper!Advanced(st, prices', d)
                        IN  book' \in {book, IF new = None THEN book ELSE new}
      BY <1>3 DEF Paper!Cycle
    <3> QED
      BY <3>1
  <2>3. prices' \in Paper!Snapshot
    <3>1. \A a \in Paper!Priced : answers[a] \in Paper!Answer
      BY <2>2
    <3>2. \A x \in Paper!Answer : x.figure \in Figures \cup {None}
      BY DEF Paper!Answer
    <3>3. \A x \in Paper!Answer :
            {Paper!GoldSpot(x), Paper!WtiSpot(x), Paper!CsprSpot(x)} \subseteq Paper!Price
      BY <3>2, Zenon DEF Paper!GoldSpot, Paper!WtiSpot, Paper!CsprSpot, Paper!Price
    <3> QED
      BY <2>2, <3>1, <3>3 DEF Paper!Ingest, Paper!Snapshot, Paper!Priced
  <2>4. CASE book' = book
    BY <2>1, <2>3, <2>4 DEF Paper!PaperTypeOK
  <2>5. CASE book' # book
    <3>1. PICK st \in IF book # None THEN {book}
                      ELSE {Paper!Seeded(split, prices') : split \in Split} :
            st # None /\ \E d \in Paper!Proposal :
              LET new == Paper!Advanced(st, prices', d)
              IN  book' \in {book, IF new = None THEN book ELSE new}
      BY <2>2, <2>5
    <3>2. PICK d \in Paper!Proposal :
            Paper!Advanced(st, prices', d) # None /\ book' = Paper!Advanced(st, prices', d)
      BY <2>5, <3>1
    <3>3. st \in Paper!Book
      BY <2>3, <3>1, SeededIsBook DEF Paper!PaperTypeOK
    <3>4. /\ book' \in Paper!Book /\ Len(book'.cycles) <= Kept
          /\ Paper!FilledNeutrally(st.units, book'.units, prices')
          /\ Paper!Nav(book'.units, prices') # None
      BY <2>3, <3>2, <3>3, AdvancedIsNeutral
    <3>5. book # None => st = book
      BY <3>1
    <3> QED
      BY <2>1, <2>3, <3>4, <3>5 DEF Paper!PaperTypeOK
  <2> QED
    BY <2>4, <2>5
<1> QED
  BY <1>1, <1>2, <1>3 DEF Paper!Next

PaperInv == Paper!PaperTypeOK

LEMMA PaperInvariant == ServicesSpec => []PaperInv
<1>1. ServicesInit => PaperInv
  <2>1. MaxCycles \in Nat
    BY ServicesAssumption DEF Paper!PaperAssumption
  <2> QED
    BY <2>1
    DEF ServicesInit, Paper!Init, PaperInv, Paper!PaperTypeOK, Paper!Snapshot, Paper!Price
<1>2. PaperInv /\ [ServicesNext]_allVars => PaperInv'
  BY StepOfEach, PaperKeeps DEF PaperInv
<1> QED
  BY <1>1, <1>2, PTL DEF ServicesSpec

(* Snapshots and the file of the paper portfolio keep their types although *)
(* prices may be missing, 0 or not a number: no fill leaves fewer than no  *)
(* units of an asset, and the file stays bounded (simulate.ts:62-121).     *)
THEOREM PaperTyped == ServicesSpec => []Paper!PaperTypeOK
<1>1. PaperInv => Paper!PaperTypeOK
  BY DEF PaperInv
<1> QED
  BY <1>1, PaperInvariant, PTL

(* Whatever the prices and the decision, no price is missing in a cycle    *)
(* that is saved, what has a price is worth the same before and after its  *)
(* fill, and what has none or costs nothing is not filled: paper money is  *)
(* made and lost by prices only (simulate.ts:42-54, :70-103).              *)
THEOREM FillsAreNeutral == ServicesSpec => PaperFillsAreNeutral
<1> DEFINE Neutral ==
             book # None /\ book' \notin {None, book} =>
               /\ Paper!Nav(book'.units, prices') # None
               /\ Paper!FilledNeutrally(book.units, book'.units, prices')
<1>1. PaperInv /\ [ServicesNext]_allVars => [Neutral]_(Paper!paperVars)
  BY StepOfEach, PaperKeeps DEF PaperInv, paperVars, Paper!paperVars
<1>2. ServicesSpec => [][Neutral]_(Paper!paperVars)
  BY <1>1, PaperInvariant, PTL DEF ServicesSpec
<1> QED
  BY <1>2, PTL DEF PaperFillsAreNeutral, Paper!PaperFillsAreNeutral

-----------------------------------------------------------------------------
(* The types of all of them.                                               *)

(* The deploys that a run may still send.                                  *)
Ahead(p) ==
  {kind \in {"attest", "delegate"} :
     \/ run[p].step = kind /\ run[p].awaiting = None
     \/ p = "cycle" /\ run[p].step = "delegate" /\ kind = "attest"
     \/ p = "autostake" /\ run[p].step = "attest" /\ kind = "delegate"}

NotAhead(d) ==
  /\ d.nr <= run[d.by].nr
  /\ d.nr = run[d.by].nr => d.kind \notin Ahead(d.by)

(* No run sends a deploy twice, and the purse pays for what is staked.     *)
SentOnce ==
  /\ \A d \in pending \cup done : NotAhead(d)
  /\ pending \cap done = {}

Solvent == purse \in Nat /\ staked \in Nat /\ purse + staked <= Opening

StakeTypes == StakeInv /\ SentOnce /\ Solvent

(* A run that goes on to less, or that starts anew, sends nothing again.   *)
LEMMA RunGoesOn ==
  ASSUME StakeTypes, UNCHANGED chainVars, NEW p \in Program, NEW r,
         run' = [run EXCEPT ![p] = r], r.nr \in Nat,
         \/ r.nr > run[p].nr
         \/ r.nr = run[p].nr /\ Ahead(p)' \subseteq Ahead(p)
  PROVE  SentOnce' /\ Solvent'
<1>1. ASSUME NEW d \in pending \cup done
      PROVE  NotAhead(d)'
  <2>1. d \in Deploys /\ NotAhead(d) /\ run[d.by].nr \in Nat /\ d.by \in Program /\ d.nr \in Nat
    BY DEF StakeTypes, StakeInv, RunsTyped, SentOnce, Deploys
  <2>2. run \in [Program -> [step : {"idle", "attest", "delegate"}, nr : Nat,
                             amount : Nat, awaiting : Deploys \cup {None}]]
    BY DEF StakeTypes, StakeInv, RunsTyped
  <2>3. CASE d.by = p
    <3>1. run'[d.by] = r
      BY <2>2, <2>3
    <3> QED
      BY <2>1, <2>3, <3>1 DEF NotAhead
  <2>4. CASE d.by # p
    <3>1. run'[d.by] = run[d.by]
      BY <2>1, <2>2, <2>4
    <3> QED
      BY <2>1, <3>1 DEF NotAhead, Ahead
  <2> QED
    BY <2>3, <2>4
<1>2. \A d \in (pending \cup done)' : NotAhead(d)'
  BY <1>1 DEF chainVars
<1> QED
  BY <1>2 DEF StakeTypes, SentOnce, Solvent, chainVars

LEMMA ProgramsSendOnce ==
  ASSUME StakeTypes,
         \/ StartCycle \/ StartAutostake \/ StartStake
         \/ \E p \in Program : Crash(p)
         \/ \E ok \in BOOLEAN :
              \/ CycleDelegated(ok) \/ CycleAttested(ok)
              \/ AutostakeAttested(ok) \/ AutostakeDelegated(ok)
              \/ StakeDelegated(ok)
  PROVE  SentOnce' /\ Solvent'
<1>1. \A p \in Program : run[p] \in [step : {"idle", "attest", "delegate"}, nr : Nat,
                                     amount : Nat, awaiting : Deploys \cup {None}]
  BY DEF StakeTypes, StakeInv, RunsTyped
<1>2. DOMAIN run = Program /\ {"cycle", "autostake", "stake"} = Program
  BY DEF StakeTypes, StakeInv, RunsTyped, Program
<1>3. ASSUME NEW p \in Program, NEW step, NEW amount, Started(p, step, amount)
      PROVE  SentOnce' /\ Solvent'
  <2> DEFINE r == At(step, run[p].nr + 1, amount)
  <2>1. r.nr \in Nat /\ r.nr > run[p].nr
    BY <1>1 DEF At
  <2>2. run' = [run EXCEPT ![p] = r] /\ UNCHANGED chainVars
    BY <1>3 DEF Started
  <2> HIDE DEF r
  <2> QED
    BY <2>1, <2>2, RunGoesOn
<1>4. ASSUME NEW p \in Program, End(p), UNCHANGED chainVars
      PROVE  SentOnce' /\ Solvent'
  <2> DEFINE r == Rest(run[p].nr)
  <2>1. r.nr \in Nat /\ r.nr = run[p].nr /\ r.step = "idle"
    BY <1>1 DEF At, Rest
  <2>2. run' = [run EXCEPT ![p] = r]
    BY <1>4 DEF End
  <2>3. Ahead(p)' = {}
    BY <1>2, <2>1, <2>2 DEF Ahead
  <2> HIDE DEF r
  <2> QED
    BY <1>4, <2>1, <2>2, <2>3, RunGoesOn
<1>5. ASSUME NEW p \in Program, NEW step, Proceed(p, step), UNCHANGED chainVars,
             \/ p = "cycle" /\ run[p].step = "delegate" /\ step = "attest"
             \/ p = "autostake" /\ run[p].step = "attest" /\ step = "delegate"
      PROVE  SentOnce' /\ Solvent'
  <2> DEFINE r == At(step, run[p].nr, run[p].amount)
  <2>1. r.nr \in Nat /\ r.nr = run[p].nr /\ r.step = step
    BY <1>1 DEF At
  <2>2. run' = [run EXCEPT ![p] = r]
    BY <1>5 DEF Proceed
  <2>3. Ahead(p)' \subseteq Ahead(p)
    BY <1>2, <1>5, <2>1, <2>2 DEF Ahead
  <2> HIDE DEF r
  <2> QED
    BY <1>5, <2>1, <2>2, <2>3, RunGoesOn
<1>6. CASE StartCycle \/ StartAutostake \/ StartStake
  BY <1>2, <1>3, <1>6 DEF StartCycle, StartAutostake, StartStake
<1>7. CASE \E p \in Program : Crash(p)
  BY <1>4, <1>7 DEF Crash
<1>8. ASSUME NEW ok \in BOOLEAN,
             \/ CycleDelegated(ok) \/ CycleAttested(ok)
             \/ AutostakeAttested(ok) \/ AutostakeDelegated(ok)
             \/ StakeDelegated(ok)
      PROVE  SentOnce' /\ Solvent'
  BY <1>2, <1>4, <1>5, <1>8
     DEF CycleDelegated, CycleAttested, AutostakeAttested, AutostakeDelegated,
         StakeDelegated, Answered
<1> QED
  BY <1>6, <1>7, <1>8

LEMMA SubmitSendsOnce ==
  ASSUME StakeTypes, NEW p \in Program, Submit(p)
  PROVE  SentOnce' /\ Solvent'
<1>1. PICK d :
      /\ d = Wanted(p, run[p].step)
      /\ run[p].step # "idle" /\ run[p].awaiting = None
      /\ run' = [run EXCEPT ![p].awaiting = d]
      /\ pending' \in {pending, pending \cup {d}}
      /\ UNCHANGED <<purse, staked, done, saved>>
  BY DEF Submit, Wanted
<1>2. run \in [Program -> [step : {"idle", "attest", "delegate"}, nr : Nat,
                           amount : Nat, awaiting : Deploys \cup {None}]]
  BY DEF StakeTypes, StakeInv, RunsTyped
<1>3. d.by = p /\ d.nr = run[p].nr /\ d.kind = run[p].step /\ d # None
  <2>1. d \in Deploys
    BY <1>1, <1>2 DEF Wanted, Deploys
  <2> QED
    BY <1>1, <2>1, StakingAssumption DEF Wanted
<1>4. d.kind \in Ahead(p) /\ d.kind \notin Ahead(p)' /\ Ahead(p)' \subseteq Ahead(p)
  BY <1>1, <1>2, <1>3 DEF Ahead
<1>5. \A q \in Program : run'[q].nr = run[q].nr /\ (q # p => run'[q] = run[q])
  BY <1>1, <1>2
<1>6. \A e \in pending \cup done : NotAhead(e)'
  <2> SUFFICES ASSUME NEW e \in pending \cup done
               PROVE  NotAhead(e)'
    OBVIOUS
  <2>1. e.by \in Program /\ NotAhead(e)
    BY DEF StakeTypes, StakeInv, RunsTyped, SentOnce, Deploys
  <2>2. Ahead(e.by)' \subseteq Ahead(e.by)
    BY <1>4, <1>5, <2>1 DEF Ahead
  <2> QED
    BY <1>5, <2>1, <2>2 DEF NotAhead
<1>7. NotAhead(d)'
  BY <1>2, <1>3, <1>4, <1>5 DEF NotAhead
<1>8. d \notin done
  BY <1>3, <1>4 DEF StakeTypes, SentOnce, NotAhead
<1> QED
  BY <1>1, <1>6, <1>7, <1>8 DEF StakeTypes, SentOnce, Solvent

LEMMA ChainSendsNothing ==
  ASSUME StakeTypes, ChainStep
  PROVE  SentOnce' /\ Solvent'
<1>1. PICK d \in pending : Execute(d) \/ Revert(d) \/ Lose(d)
  BY DEF ChainStep
<1>2. /\ run' = run /\ pending' = pending \ {d} /\ done' \in {done, done \cup {d}}
  BY <1>1 DEF Execute, Revert, Lose
<1>3. SentOnce'
  BY <1>2 DEF StakeTypes, SentOnce, NotAhead, Ahead
<1>4. d.amount \in Nat /\ PAYMENT \in Nat /\ Opening \in Nat
  BY StakingAssumption DEF StakeTypes, StakeInv, RunsTyped, Deploys
<1>5. Solvent'
  BY <1>1, <1>4 DEF StakeTypes, Solvent, Execute, Revert, Lose, Fee
<1> QED
  BY <1>3, <1>5

(* The programs that stake keep their types: a deploy is sent once, and    *)
(* the purse and what is staked never exceed the opening balance.          *)
LEMMA StakingTyped == ServicesSpec => []TypeOK
<1>1. ServicesInit => StakeTypes
  BY StakingAssumption
     DEF ServicesInit, Init, Rest, At, StakeInv, RunsTyped, RunsKnow, AdviceIsAttestedFirst,
         SavedIsDelegated, Delegations, Program, StakeTypes, SentOnce, Solvent
<1>2. StakeTypes /\ [ServicesNext]_allVars => StakeTypes'
  <2> SUFFICES ASSUME StakeTypes, [Next]_vars
               PROVE  StakeTypes'
    BY StepOfEach
  <2>1. StakeInv'
    BY StakeKeeps DEF StakeTypes
  <2>2. CASE UNCHANGED vars
    BY <2>1, <2>2 DEF vars, StakeTypes, SentOnce, NotAhead, Ahead, Solvent
  <2> QED
    BY <2>1, <2>2, ProgramsSendOnce, SubmitSendsOnce, ChainSendsNothing
       DEF StakeTypes, Next, ProgramStep
<1>3. StakeTypes => TypeOK
  BY StakingAssumption
     DEF StakeTypes, StakeInv, RunsTyped, SentOnce, Solvent, SavedIsDelegated, TypeOK
<1> QED
  BY <1>1, <1>2, <1>3, PTL DEF ServicesSpec

(* A transfer that was made is not under way again.                        *)
LEMMA SellerTyped == ServicesSpec => []Seller!SellerTypeOK
<1> DEFINE Typed == /\ SellerInv
                    /\ ready \in BOOLEAN /\ submitted \cap executed = {}
<1>1. ServicesInit => Typed
  BY ServicesAssumption
     DEF ServicesInit, Seller!Init, Seller!SellerAssumption, Seller!Steps, SellerInv, Paid
<1>2. Typed /\ [ServicesNext]_allVars => Typed'
  <2> SUFFICES ASSUME Typed, [Seller!Next]_sellerVars
               PROVE  Typed'
    BY StepOfEach
  <2>1. SellerInv'
    BY SellerKeeps
  <2>2. ASSUME NEW r \in Request,
               \/ \E route \in Route, auth \in Auth \cup {None} : Seller!Arrive(r, route, auth)
               \/ Seller!Verified(r) \/ Seller!Settled(r)
        PROVE  UNCHANGED <<ready, submitted, executed>>
    BY <2>2 DEF Seller!Arrive, Seller!Verified, Seller!Settled
  <2>3. ASSUME NEW r \in Request, Seller!Built(r)
        PROVE  ready' = ready /\ submitted' \cap executed' = {}
    <3>1. r \notin executed
      BY <2>3 DEF Seller!Built, Seller!At, SellerInv
    <3> QED
      BY <2>3, <3>1 DEF Seller!Built
  <2>4. ASSUME NEW r \in submitted, Seller!Transfer(r) \/ Seller!Refuse(r)
        PROVE  ready' = ready /\ submitted' \cap executed' = {}
    BY <2>4 DEF Seller!Transfer, Seller!Refuse
  <2>5. CASE Seller!Restart
    BY <2>1, <2>5 DEF Seller!Restart
  <2>6. CASE UNCHANGED sellerVars
    BY <2>1, <2>6 DEF sellerVars
  <2> QED
    BY <2>1, <2>2, <2>3, <2>4, <2>5, <2>6 DEF Seller!Next
<1>3. Typed => Seller!SellerTypeOK
  BY DEF SellerInv, Seller!SellerTypeOK
<1> QED
  BY <1>1, <1>2, <1>3, PTL DEF ServicesSpec

LEMMA CacheTyped == ServicesSpec => []Cache!MemoTypeOK
<1>1. ServicesInit => CacheInv
  BY ServicesAssumption
     DEF ServicesInit, Cache!Init, Cache!MemoAssumption, CacheInv, Cache!Time,
         Cache!Answers, AnswersAreRecent, Cache!AnswersAreRecent
<1>2. CacheInv /\ [ServicesNext]_allVars => CacheInv'
  BY CacheKeeps, StepOfEach
<1>3. CacheInv => Cache!MemoTypeOK
  BY DEF CacheInv, Cache!MemoTypeOK
<1> QED
  BY <1>1, <1>2, <1>3, PTL DEF ServicesSpec

(* The changes of account are counted, and requests bear their number.     *)
LEMMA PageTyped == ServicesSpec => []Connect!PageTypeOK
<1> DEFINE Typed == PageInv /\ Connect!PageTypeOK
<1>1. ServicesInit => Typed
  <2>1. MaxChanges \in Nat
    BY ServicesAssumption DEF Connect!PageAssumption
  <2>2. ServicesInit => PageInv
    BY DEF ServicesInit, Connect!Init, PageInv
  <2>3. ServicesInit => Connect!PageTypeOK
    <3>1. ServicesInit => Connect!Init
      BY DEF ServicesInit
    <3>2. 0 \in 0..MaxChanges
      BY <2>1
    <3>3. Connect!Init => Connect!PageTypeOK
      BY <3>2, Zenon DEF Connect!Init, Connect!PageTypeOK
    <3> QED
      BY <3>1, <3>3
  <2> QED
    BY <2>2, <2>3
<1>2. Typed /\ [ServicesNext]_allVars => Typed'
  <2> SUFFICES ASSUME Typed, [Connect!Next]_pageVars
               PROVE  Typed'
    BY StepOfEach
  <2>1. PageInv' /\ MaxChanges \in Nat
    BY PageKeeps, ServicesAssumption DEF Connect!PageAssumption
  <2>2. ASSUME NEW k \in Key \cup {None}, Connect!AccountIs(k), session' \in {session, None}
        PROVE  Connect!PageTypeOK'
    <3>1. changes' = changes + 1 /\ changes' \in 0..MaxChanges /\ account' = k
      BY <2>1, <2>2 DEF Connect!AccountIs, Connect!PageTypeOK
    <3>2. fetches' \subseteq Connect!Fetches
      BY <2>2, <3>1 DEF Connect!AccountIs, Connect!PageTypeOK, Connect!Fetches
    <3>3. who' \in {who, None} /\ redirected' \in BOOLEAN /\ timer' \in BOOLEAN /\ page' = page
      BY <2>2 DEF Connect!AccountIs, Connect!Redirect, Connect!PageTypeOK
    <3> QED
      BY <2>2, <3>1, <3>2, <3>3 DEF Connect!PageTypeOK
  <2>3. CASE (\E k \in Key : Connect!SignedIn(k)) \/ Connect!SignedOut \/ Connect!SessionFound
    BY <2>1, <2>2, <2>3
       DEF Connect!SignedIn, Connect!SignedOut, Connect!SessionFound, Connect!PageTypeOK
  <2>4. ASSUME NEW f \in fetches, Connect!Answered(f)
        PROVE  Connect!PageTypeOK'
    <3>1. f.of \in Key
      BY DEF Connect!PageTypeOK, Connect!Fetches
    <3>2. who' \in Connect!Answers \cup {None}
      <4>1. Connect!Says(f.of) \subseteq {"role", "observer", "unreadable"}
        BY DEF Connect!Says
      <4>2. \A says \in Connect!Says(f.of) : [of |-> f.of, says |-> says] \in Connect!Answers
        BY <3>1, <4>1 DEF Connect!Answers
      <4> QED
        BY <2>4, <4>2 DEF Connect!Answered, Connect!PageTypeOK
    <3>3. redirected' \in BOOLEAN /\ timer' \in BOOLEAN
      BY <2>4 DEF Connect!Answered, Connect!Redirect, Connect!PageTypeOK
    <3>4. UNCHANGED <<account, changes, session, page>> /\ fetches' \subseteq fetches
      BY <2>4 DEF Connect!Answered
    <3> QED
      BY <3>2, <3>3, <3>4 DEF Connect!PageTypeOK
  <2>5. CASE Connect!Push \/ Connect!Enter
    BY <2>1, <2>5 DEF Connect!Push, Connect!Enter, Connect!PageTypeOK
  <2>6. CASE UNCHANGED pageVars
    BY <2>1, <2>6 DEF pageVars, Connect!PageTypeOK
  <2> QED
    BY <2>1, <2>3, <2>4, <2>5, <2>6 DEF Connect!Next
<1> QED
  BY <1>1, <1>2, PTL DEF ServicesSpec

(* A button is signed and sent as it was pressed.                          *)
LEMMA VotingPageTyped == ServicesSpec => []Voting!VotingTypeOK
<1> DEFINE More == /\ place \in {"card", "inbox"}
                   /\ loads \subseteq [hash : Decision, pk : Wallet, n : 0..2]
           Typed == VotingInv /\ More
<1>1. ServicesInit => More
  BY DEF ServicesInit, Voting!Init
<1>2. VotingInv /\ More /\ [ServicesNext]_allVars => More'
  <2> SUFFICES ASSUME VotingInv, More, [Voting!Next]_votingVars
               PROVE  More'
    BY StepOfEach
  <2>1. ASSUME NEW a \in Wallet \cup {None}, Voting!AccountIs(a)
        PROVE  More'
    <3>1. a # None => Voting!Load(a, 0) \subseteq [hash : Decision, pk : Wallet, n : 0..2]
      BY ServicesAssumption DEF Voting!Load, Voting!Offered, Voting!VotingAssumption
    <3> QED
      BY <2>1, <3>1 DEF Voting!AccountIs
  <2>2. CASE Voting!Send
    <3>1. acting \in Voting!Button
      BY <2>2 DEF Voting!Send, VotingInv, VotingTyped, OnlyPressed
    <3>2. {[hash |-> acting.hash, pk |-> acting.pk, n |-> n] : n \in 1..2}
            \subseteq [hash : Decision, pk : Wallet, n : 0..2]
      BY <3>1 DEF Voting!Button
    <3> QED
      BY <2>2, <3>2 DEF Voting!Send
  <2>3. CASE \E l \in loads : Voting!Answered(l)
    BY <2>3 DEF Voting!Answered
  <2>4. CASE UNCHANGED <<place, loads>>
    BY <2>4
  <2> QED
    BY <2>1, <2>2, <2>3, <2>4
       DEF Voting!Next, Voting!Press, Voting!Cancel, Voting!Execute, Voting!Elsewhere,
           votingVars
<1>3. VotingInv /\ More => Voting!VotingTypeOK
  BY DEF VotingInv, VotingTyped, OnlyPressed, Voting!VotingTypeOK
<1> HIDE DEF More
<1> QED
  BY <1>1, <1>2, <1>3, VotingInvariant, PTL DEF ServicesSpec

(* What a panel reads is one to eight fields.                              *)
LEMMA PanelsAreSmall ==
  ASSUME NEW ask \in Reads!Requests, NEW p \in DOMAIN ask
  PROVE  ask[p].reads \in 1..8 /\ ask[p].strict \in BOOLEAN
<1> DEFINE Small(f) == f.reads \in 1..8 /\ f.strict \in BOOLEAN
<1> SUFFICES Small(ask[p])
  OBVIOUS
<1>1. /\ \A n \in 1..8 : Small(Reads!Fields(n)) /\ Small(Reads!FieldsOrNull(n))
      /\ {1, 2, 3, 4, 5, 8} \subseteq 1..8
  BY DEF Reads!Fields, Reads!FieldsOrNull
<1> HIDE DEF Small
<1>2. /\ Small(Reads!VaultState) /\ Small(Reads!SpendGateState)
      /\ Small(Reads!ComplianceState) /\ Small(Reads!VaultFrozen)
      /\ Small(Reads!ReservesSolvent) /\ Small(Reads!ZkVerified)
      /\ Small(Reads!ReputationScore) /\ Small(Reads!KeyIdentity)
      /\ Small(Reads!QuorumVote) /\ Small(Reads!PolicySignoff)
      /\ Small(Reads!PolicyParams) /\ Small(Reads!VaultStateBySeed)
      /\ Small(Reads!Timelock) /\ Small(Reads!McpVaultState)
      /\ Small(Reads!McpReputation)
  BY <1>1
     DEF Reads!VaultState, Reads!SpendGateState, Reads!ComplianceState,
         Reads!VaultFrozen, Reads!ReservesSolvent, Reads!ZkVerified,
         Reads!ReputationScore, Reads!KeyIdentity, Reads!QuorumVote,
         Reads!PolicySignoff, Reads!PolicyParams, Reads!VaultStateBySeed,
         Reads!Timelock, Reads!McpVaultState, Reads!McpReputation
<1>3. CASE ask = Reads!Dashboard
  BY <1>2, <1>3 DEF Reads!Dashboard
<1>4. CASE ask = Reads!Scorecard
  BY <1>2, <1>4 DEF Reads!Scorecard
<1>5. CASE ask = Reads!Whoami
  BY <1>2, <1>5 DEF Reads!Whoami
<1>6. CASE ask = Reads!Health
  BY <1>2, <1>6 DEF Reads!Health
<1>7. CASE ask \in {Reads!VoteState, Reads!Alerts, Reads!Mcp}
  BY <1>2, <1>7 DEF Reads!VoteState, Reads!Alerts, Reads!Mcp
<1> QED
  BY <1>3, <1>4, <1>5, <1>6, <1>7 DEF Reads!Requests

PanelStates ==
  [step : {"root", "fields", "shown", "null"}, strict : BOOLEAN,
   root : Reads!Heights \cup {0}, left : 0..8, figures : SUBSET Reads!Heights,
   zeros : 0..8]

(* A panel reads on while fields are left, and no field counts twice.      *)
Counts(q) ==
  /\ q \in PanelStates
  /\ q.left + q.zeros <= 8
  /\ q.step \in {"root", "fields"} => q.left > 0
  /\ q.step = "fields" => q.root # 0

PanelTypes ==
  /\ height \in Reads!Heights
  /\ \A p \in DOMAIN panel : Counts(panel[p])

LEMMA BecomesTyped ==
  ASSUME PanelTypes, NEW p \in DOMAIN panel, NEW new, Reads!Becomes(p, new), Counts(new)
  PROVE  PanelTypes'
<1>1. /\ height' = height /\ DOMAIN panel' = DOMAIN panel
      /\ \A q \in DOMAIN panel : panel'[q] \in {panel[q], new}
  BY DEF Reads!Becomes
<1> QED
  BY <1>1 DEF PanelTypes

LEMMA PanelsKeepTypes ==
  ASSUME PanelTypes, [Reads!Next]_readsVars
  PROVE  PanelTypes'
<1>1. MaxHeight \in Nat \ {0} /\ height \in 1..MaxHeight
  BY ServicesAssumption DEF Reads!ReadsAssumption, PanelTypes, Reads!Heights
<1>2. CASE Reads!Fetch
  <2>1. PICK ask \in Reads!Requests : \E ps \in Reads!Opened(ask) :
          panel' = [p \in ps |->
            [step |-> "root", strict |-> ask[p].strict, root |-> 0,
             left |-> ask[p].reads, figures |-> {}, zeros |-> 0]]
    BY <1>2 DEF Reads!Fetch
  <2>2. PICK ps \in Reads!Opened(ask) :
          panel' = [p \in ps |->
            [step |-> "root", strict |-> ask[p].strict, root |-> 0,
             left |-> ask[p].reads, figures |-> {}, zeros |-> 0]]
    BY <2>1
  <2>3. ASSUME NEW p \in ps
        PROVE  Counts(panel'[p])
    <3>1. p \in DOMAIN ask
      BY DEF Reads!Opened
    <3>2. ask[p].reads \in 1..8 /\ ask[p].strict \in BOOLEAN
      BY <3>1, PanelsAreSmall
    <3>3. panel'[p] = [step |-> "root", strict |-> ask[p].strict, root |-> 0,
                       left |-> ask[p].reads, figures |-> {}, zeros |-> 0]
      BY <2>2
    <3> QED
      BY <3>2, <3>3 DEF Counts, PanelStates
  <2>4. height' = height
    BY <1>2 DEF Reads!Fetch
  <2> QED
    BY <2>2, <2>3, <2>4 DEF PanelTypes
<1>3. ASSUME NEW p \in DOMAIN panel, Reads!NoData(p)
      PROVE  PanelTypes'
  <2> DEFINE new == [panel[p] EXCEPT !.step = "null"]
  <2>1. Counts(new)
    BY DEF PanelTypes, Counts, PanelStates
  <2> HIDE DEF new
  <2> QED
    BY <1>3, <2>1, BecomesTyped DEF Reads!NoData, new
<1>4. ASSUME NEW p \in DOMAIN panel, Reads!StateRootHash(p)
      PROVE  PanelTypes'
  <2>1. Counts(panel[p]) /\ panel[p].step = "root"
    BY <1>4 DEF Reads!StateRootHash, PanelTypes
  <2>2. ASSUME NEW root \in 1..height,
               Reads!Becomes(p, [panel[p] EXCEPT !.step = "fields", !.root = root])
        PROVE  PanelTypes'
    <3> DEFINE new == [panel[p] EXCEPT !.step = "fields", !.root = root]
    <3>1. root \in Reads!Heights /\ root # 0
      BY <1>1 DEF Reads!Heights
    <3>2. Counts(new)
      BY <2>1, <3>1 DEF Counts, PanelStates
    <3> HIDE DEF new
    <3> QED
      BY <2>2, <3>2, BecomesTyped DEF new
  <2>3. CASE Reads!Becomes(p, [panel[p] EXCEPT !.step = "shown", !.left = 0,
                                               !.zeros = panel[p].left])
    <3> DEFINE new == [panel[p] EXCEPT !.step = "shown", !.left = 0,
                                       !.zeros = panel[p].left]
    <3>1. panel[p].left \in 0..8 /\ new \in PanelStates
      <4>1. panel[p] \in PanelStates /\ 0 \in 0..8
        BY <2>1 DEF Counts
      <4>2. panel[p].left \in 0..8
        BY <4>1 DEF PanelStates
      <4> QED
        BY <4>1, <4>2, Zenon DEF PanelStates
    <3>2. new.left = 0 /\ new.zeros = panel[p].left /\ new.step = "shown"
      BY <2>1 DEF Counts, PanelStates
    <3> HIDE DEF new
    <3>3. Counts(new)
      BY <3>1, <3>2 DEF Counts
    <3> QED
      BY <2>3, <3>3, BecomesTyped DEF new
  <2> QED
    BY <1>3, <1>4, <2>2, <2>3 DEF Reads!StateRootHash
<1>5. ASSUME NEW p \in DOMAIN panel, Reads!ReadField(p)
      PROVE  PanelTypes'
  <2> DEFINE one == [panel[p] EXCEPT
                       !.left = @ - 1,
                       !.step = IF panel[p].left = 1 THEN "shown" ELSE "fields"]
  <2>1. Counts(panel[p]) /\ panel[p].step = "fields" /\ panel[p].root \in Reads!Heights
    BY <1>5 DEF Reads!ReadField, PanelTypes, Counts, PanelStates
  <2>2. \/ Reads!Becomes(p, [one EXCEPT !.figures = @ \cup {panel[p].root}])
        \/ Reads!Becomes(p, [one EXCEPT !.zeros = @ + 1])
        \/ Reads!NoData(p)
    BY <1>5 DEF Reads!ReadField, Reads!ReadAt
  <2>3. Counts(one) /\ one.left + one.zeros < 8
    <3>1. panel[p] \in PanelStates /\ panel[p].left > 0
          /\ panel[p].left + panel[p].zeros <= 8
      BY <2>1 DEF Counts
    <3>2. panel[p].left \in 0..8 /\ panel[p].zeros \in 0..8
      BY <3>1 DEF PanelStates
    <3>3. one \in PanelStates
      <4> DEFINE next == IF panel[p].left = 1 THEN "shown" ELSE "fields"
      <4>1. panel[p].left - 1 \in 0..8 /\ next \in {"root", "fields", "shown", "null"}
        BY <3>1, <3>2
      <4>2. one = [panel[p] EXCEPT !.left = panel[p].left - 1, !.step = next]
        OBVIOUS
      <4> HIDE DEF one, next
      <4> QED
        BY <3>1, <4>1, <4>2, Zenon DEF PanelStates
    <3>4. /\ one.left = panel[p].left - 1 /\ one.zeros = panel[p].zeros
          /\ one.step = (IF panel[p].left = 1 THEN "shown" ELSE "fields")
          /\ one.root = panel[p].root
      BY <3>1 DEF PanelStates
    <3> HIDE DEF one
    <3>5. one.root # 0
      BY <2>1, <3>4 DEF Counts
    <3> QED
      BY <3>1, <3>2, <3>3, <3>4, <3>5 DEF Counts
  <2> HIDE DEF one
  <2>4. CASE Reads!Becomes(p, [one EXCEPT !.figures = @ \cup {panel[p].root}])
    <3> DEFINE new == [one EXCEPT !.figures = @ \cup {panel[p].root}]
    <3>1. Counts(new)
      BY <2>1, <2>3 DEF Counts, PanelStates
    <3> HIDE DEF new
    <3> QED
      BY <2>4, <3>1, BecomesTyped DEF new
  <2>5. CASE Reads!Becomes(p, [one EXCEPT !.zeros = @ + 1])
    <3> DEFINE new == [one EXCEPT !.zeros = @ + 1]
    <3>1. Counts(new)
      BY <2>3 DEF Counts, PanelStates
    <3> HIDE DEF new
    <3> QED
      BY <2>5, <3>1, BecomesTyped DEF new
  <2> QED
    BY <1>3, <2>2, <2>4, <2>5
<1>6. CASE Reads!Block \/ UNCHANGED readsVars
  BY <1>1, <1>6 DEF Reads!Block, readsVars, PanelTypes, Reads!Heights
<1> QED
  BY <1>2, <1>4, <1>5, <1>6 DEF Reads!Next

LEMMA PanelsTyped == ServicesSpec => []Reads!ReadsTypeOK
<1>1. ServicesInit => PanelTypes
  <2>1. 1 \in Reads!Heights
    BY ServicesAssumption DEF Reads!ReadsAssumption, Reads!Heights
  <2> QED
    BY <2>1 DEF ServicesInit, Reads!Init, PanelTypes
<1>2. PanelTypes /\ [ServicesNext]_allVars => PanelTypes'
  BY PanelsKeepTypes, StepOfEach
<1>3. PanelTypes => Reads!ReadsTypeOK
  BY DEF PanelTypes, Counts, PanelStates, Reads!ReadsTypeOK
<1> QED
  BY <1>1, <1>2, <1>3, PTL DEF ServicesSpec

(* The page shows no more events than its window has room for.             *)
LEMMA WindowHolds ==
  ASSUME NEW label \in Contract, events \in Seq(Contract), Len(events) <= Window
  PROVE  Feed!Shown(label) \in Seq(Contract) /\ Len(Feed!Shown(label)) <= Window
<1> DEFINE all == <<label>> \o events
           n == IF Len(events) < Window THEN Len(events) + 1 ELSE Window
<1>1. Window \in Nat \ {0} /\ Len(events) \in Nat
  BY ServicesAssumption DEF Feed!FeedAssumption
<1>2. all \in Seq(Contract) /\ Len(all) = Len(events) + 1
  OBVIOUS
<1>3. n \in 1..Len(all) /\ n <= Window
  BY <1>1, <1>2
<1>4. \A i \in 1..n : all[i] \in Contract
  BY <1>2, <1>3
<1> HIDE DEF all, n
<1>5. SubSeq(all, 1, n) \in Seq(Contract) /\ Len(SubSeq(all, 1, n)) = n
  BY <1>2, <1>3, <1>4
<1> QED
  BY <1>3, <1>5 DEF Feed!Shown, all, n

FeedTypes ==
  /\ FeedInv
  /\ source \in {"connecting", "open", "closed"}
  /\ status \in {"connecting", "live", "off"}
  /\ events \in Seq(Contract) /\ Len(events) <= Window
  /\ losses \in 0..MaxLosses

LEMMA FeedKeepsTypes ==
  ASSUME FeedTypes, [Feed!Next]_feedVars
  PROVE  FeedTypes'
<1>1. FeedInv'
  BY FeedKeeps DEF FeedTypes
<1>2. CASE UNCHANGED <<source, status, events, losses>>
  BY <1>1, <1>2 DEF FeedTypes
<1>3. CASE Feed!Handle
  <2> DEFINE m == Head(wire)
  <2>1. /\ status' \in {status, "live", "off"} /\ source' \in {source, "open"}
        /\ losses' = losses
    BY <1>3 DEF Feed!Handle
  <2>2. \/ events' = events
        \/ m.type = "event" /\ events' = Feed!Shown(m.label)
    BY <1>3 DEF Feed!Handle
  <2>3. m \in Feed!Message
    BY <1>3 DEF Feed!Handle, FeedTypes, FeedInv
  <2>4. m.type = "event" => m.label \in Contract
    BY <2>3 DEF Feed!Message
  <2>5. events' \in Seq(Contract) /\ Len(events') <= Window
    BY <2>2, <2>4, WindowHolds DEF FeedTypes
  <2> QED
    BY <1>1, <2>1, <2>5 DEF FeedTypes
<1>4. CASE Feed!Lost
  <2>1. losses' \in 0..MaxLosses /\ events' = events
    BY <1>4, ServicesAssumption DEF Feed!Lost, FeedTypes, Feed!FeedAssumption
  <2>2. source' = "connecting" /\ status' \in {"live", "off"}
    BY <1>4 DEF Feed!Lost, Feed!OnError
  <2> QED
    BY <1>1, <2>1, <2>2 DEF FeedTypes
<1>5. CASE Feed!ServiceUnavailable
  <2>1. source' = "closed" /\ status' \in {"live", "off"} /\ UNCHANGED <<events, losses>>
    BY <1>5 DEF Feed!ServiceUnavailable, Feed!OnError
  <2> QED
    BY <1>1, <2>1 DEF FeedTypes
<1> QED
  BY <1>2, <1>3, <1>4, <1>5
     DEF Feed!Next, Feed!Start, Feed!OnOpen, Feed!OnMessage, Feed!OnClose, feedVars

LEMMA FeedTyped == ServicesSpec => []Feed!FeedTypeOK
<1>1. ServicesInit => FeedTypes
  <2> SUFFICES ASSUME ServicesInit
               PROVE  FeedTypes
    OBVIOUS
  <2>1. /\ wire = <<>> /\ source = "connecting" /\ status = "connecting"
        /\ socket = [c \in Contract |-> "none"] /\ events = <<>> /\ losses = 0
    BY DEF ServicesInit, Feed!Init, Feed!NoSockets
  <2>2. FeedInv
    BY <2>1 DEF FeedInv, Feed!Serving
  <2> QED
    BY <2>1, <2>2, ServicesAssumption DEF FeedTypes, Feed!FeedAssumption
<1>2. FeedTypes /\ [ServicesNext]_allVars => FeedTypes'
  BY FeedKeepsTypes, StepOfEach
<1>3. FeedTypes => Feed!FeedTypeOK
  BY DEF FeedTypes, FeedInv, Feed!FeedTypeOK
<1> QED
  BY <1>1, <1>2, <1>3, PTL DEF ServicesSpec

(* Each cycle has its reasoning, and a console shows some cycle's.         *)
PublicTypes ==
  /\ PublicInv
  /\ setup \in [dryRun : BOOLEAN, local : BOOLEAN]
  /\ reasoning \in Seq(Publish!Blob)
  /\ escalated \subseteq Publish!Cycles
  /\ console = None \/ console.blob \in Publish!Cycles

LEMMA PublicKeepsTypes ==
  ASSUME PublicTypes, [Publish!Next]_publicationVars
  PROVE  PublicTypes'
<1>1. PublicInv'
  BY PublicKeeps DEF PublicTypes
<1>2. public.pins \in SUBSET Publish!Cycles /\ public.disk \in SUBSET Publish!Cycles
      /\ cached \in public.pins \cup {0}
  BY DEF PublicTypes, PublicInv
<1>3. CASE UNCHANGED <<setup, reasoning, escalated, console>>
  BY <1>1, <1>3 DEF PublicTypes
<1>4. CASE Publish!Decide
  <2>1. PICK d \in {b \in Publish!Blob : ~b.forced}, tainted \in BOOLEAN :
          reasoning' = Append(reasoning, Publish!Guarded(d, tainted))
    BY <1>4 DEF Publish!Decide
  <2>2. Publish!Guarded(d, tainted) \in Publish!Blob
    BY DEF Publish!Guarded, Publish!Blob
  <2>3. reasoning' \in Seq(Publish!Blob)
    BY <2>1, <2>2 DEF PublicTypes
  <2> QED
    BY <1>1, <1>4, <2>3 DEF Publish!Decide, Publish!AgentOnly, PublicTypes
<1>5. CASE Publish!Judge
  <2>1. agent.cycle \in Publish!Cycles
    BY <1>5 DEF Publish!Judge, Publish!At, PublicTypes, PublicInv
  <2>2. escalated' \subseteq escalated \cup {agent.cycle}
    BY <1>5 DEF Publish!Judge
  <2> QED
    BY <1>1, <1>5, <2>1, <2>2 DEF Publish!Judge, Publish!AgentOnly, PublicTypes
<1>6. CASE Publish!OpenConsole
  <2>1. PICK n \in Publish!LatestBlob :
          console' = IF n = None THEN None
                     ELSE [blob |-> n, deploy |-> None, verdict |-> None, read |-> FALSE]
    BY <1>6 DEF Publish!OpenConsole
  <2>2. n # None => n \in Publish!Cycles
    BY <1>2, <2>1, NewestIsOne
       DEF Publish!LatestBlob, Publish!LatestBlobFromPinata, Publish!Newest
  <2>3. console' = None \/ console'.blob \in Publish!Cycles
    BY <2>1, <2>2
  <2> QED
    BY <1>1, <1>6, <2>3 DEF Publish!OpenConsole, Publish!ReaderOnly, PublicTypes
<1>7. CASE Publish!GetAgentConsole
  <2>1. PICK deploy, verdict :
          console' = [console EXCEPT !.deploy = deploy, !.verdict = verdict, !.read = TRUE]
    BY <1>7 DEF Publish!GetAgentConsole
  <2>2. console # None /\ console.blob \in Publish!Cycles
    BY <1>7 DEF Publish!GetAgentConsole, PublicTypes
  <2>3. console'.blob = console.blob
    <3>1. PICK b, d, v, r : console = [blob |-> b, deploy |-> d, verdict |-> v, read |-> r]
      BY <2>2 DEF PublicTypes, PublicInv
    <3> QED
      BY <2>1, <3>1
  <2> QED
    BY <1>1, <1>7, <2>2, <2>3 DEF Publish!GetAgentConsole, Publish!ReaderOnly, PublicTypes
<1> QED
  BY <1>3, <1>4, <1>5, <1>6, <1>7
     DEF Publish!Next, Publish!PersistBlob, Publish!Submit, Publish!WaitForExecution,
         Publish!Throw, Publish!PinToIpfs, Publish!AttestAudit, Publish!LogStep,
         Publish!AgentOnly, publicationVars

LEMMA PublicationTyped == ServicesSpec => []Publish!PublicationTypeOK
<1>1. ServicesInit => PublicTypes
  <2>1. SUFFICES ASSUME ServicesInit
                 PROVE  PublicTypes
    OBVIOUS
  <2>2. /\ agent = [cycle |-> 0, step |-> "idle"] /\ log = <<>> /\ flying = {}
        /\ public = [disk |-> {}, pins |-> {}, verdicts |-> {}, verdictPins |-> {}]
        /\ cached = 0 /\ console = None /\ MaxCycle \in Nat
    BY <2>1, ServicesAssumption
       DEF ServicesInit, Publish!Init, Publish!PublicationAssumption
  <2>3. PublicInv
    BY <2>2 DEF PublicInv, Publish!At, Publish!AgentSteps, ConsoleShowsAttested,
      Publish!ConsoleShowsAttested
  <2>4. /\ setup \in [dryRun : BOOLEAN, local : BOOLEAN]
        /\ reasoning = <<>> /\ escalated = {}
    BY <2>1 DEF ServicesInit, Publish!Init
  <2> QED
    BY <2>2, <2>3, <2>4 DEF PublicTypes
<1>2. PublicTypes /\ [ServicesNext]_allVars => PublicTypes'
  BY PublicKeepsTypes, StepOfEach
<1>3. PublicTypes => Publish!PublicationTypeOK
  <2> SUFFICES ASSUME PublicTypes
               PROVE  Publish!PublicationTypeOK
    OBVIOUS
  <2>1. MaxCycle \in Nat /\ public.pins \subseteq Publish!Cycles
        /\ cached \in public.pins \cup {0}
    BY ServicesAssumption DEF PublicTypes, PublicInv, Publish!PublicationAssumption
  <2>2. cached \in 0..MaxCycle
    BY <2>1 DEF Publish!Cycles
  <2> QED
    BY <2>2, Zenon DEF PublicTypes, PublicInv, Publish!PublicationTypeOK
<1> QED
  BY <1>1, <1>2, <1>3, PTL DEF ServicesSpec

(* All programs around the cycle keep their types.  Of these, the ones     *)
(* that say more: no deploy executes twice and the purse pays for what is  *)
(* staked (stake.ts, autostake.ts), no transfer is made again              *)
(* (server.ts:180-197), a panel counts each of its fields once (cspr.ts:   *)
(* 381-386), and the feed shows no more than its window (LiveFeed.tsx).    *)
THEOREM ServicesTyped == ServicesSpec => []ServicesTypeOK
<1> DEFINE T1 == TypeOK
           T2 == Seller!SellerTypeOK
           T3 == Reads!ReadsTypeOK
           T4 == Cache!MemoTypeOK
           T5 == Connect!PageTypeOK
           T6 == Paper!PaperTypeOK
           T7 == Feed!FeedTypeOK
           T8 == History!IndexerTypeOK
           T9 == Voting!VotingTypeOK
           T0 == Publish!PublicationTypeOK
<1>1. T1 /\ T2 /\ T3 /\ T4 /\ T5 /\ T6 /\ T7 /\ T8 /\ T9 /\ T0 => ServicesTypeOK
  BY DEF ServicesTypeOK
<1>2. /\ ServicesSpec => []T1
      /\ ServicesSpec => []T2
      /\ ServicesSpec => []T3
      /\ ServicesSpec => []T4
      /\ ServicesSpec => []T5
      /\ ServicesSpec => []T6
      /\ ServicesSpec => []T7
      /\ ServicesSpec => []T8
      /\ ServicesSpec => []T9
      /\ ServicesSpec => []T0
  BY StakingTyped, SellerTyped, PanelsTyped, CacheTyped, PageTyped, PaperTyped,
     FeedTyped, HistoryTyped, VotingPageTyped, PublicationTyped
<1> HIDE DEF T1, T2, T3, T4, T5, T6, T7, T8, T9, T0
<1> QED
  BY <1>1, <1>2, PTL
=============================================================================
