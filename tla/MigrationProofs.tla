--------------------------- MODULE MigrationProofs ---------------------------
(***************************************************************************)
(* Proofs about Migration, for every set of well-formed scripts and every  *)
(* number of starts.  What carries them: the keys a process holds and the  *)
(* steps it has gone past stand for calls that took effect (MInv), and     *)
(* what took effect is never undone.  Repetitions are counted against the  *)
(* starts: a run that ends leaves at most one step open (Debt).            *)
(***************************************************************************)
EXTENDS Migration, FoldLemmas

(* A key in the process's copy is as good as one on file.                  *)
HeldIsOnChain ==
  \A i \in Steps(script) :
    Key(script, i) \in state /\ script.steps[i].wants = "ok" => effects[i] > 0

(* Every step the process has gone past took effect.                       *)
PassedTookEffect ==
  \A i \in Steps(script) :
    i < at /\ script.steps[i].wants = "ok" => effects[i] > 0

(* An answer belongs to the step the process is at, and is true.           *)
AnswerIsTrue ==
  /\ answer # "none" => at \in Steps(script)
  /\ answer = "ok" => effects[at] > 0

(* A process is one of the counted runs.                                   *)
RunIsCounted == at # 0 => run > 0

MInv ==
  /\ TypeOK
  /\ RunIsCounted
  /\ OnFileIsOnChain
  /\ HeldIsOnChain
  /\ PassedTookEffect
  /\ AnswerIsTrue
  /\ CallsFindWhatTheyNeed

(* What a well-formed script is made of.                                   *)
LEMMA ScriptFacts ==
  ASSUME NEW s \in Scripts
  PROVE  /\ Len(s.steps) \in Nat
         /\ Steps(s) = 1..Len(s.steps)
         /\ \A i \in Steps(s) : s.steps[i].once \in BOOLEAN
         /\ \A i, j \in Steps(s) : Key(s, i) = Key(s, j) => i = j
         /\ \A i \in Steps(s) : s.steps[i].wants = "ok" =>
              \A n \in s.steps[i].needs :
                \E j \in Steps(s) : /\ j < i /\ Key(s, j) = n
                                    /\ s.steps[j].wants = "ok"
<1> DEFINE StepRecord == [key : STRING, needs : SUBSET STRING, once : BOOLEAN,
                          wants : {"ok", "reverted"}, kept : BOOLEAN]
<1>1. WellFormed(s)
  BY MigrationAssumption
<1>2. s.steps \in Seq(StepRecord)
  BY <1>1 DEF WellFormed
<1>3. /\ Len(s.steps) \in Nat
      /\ DOMAIN s.steps = 1..Len(s.steps)
      /\ \A i \in 1..Len(s.steps) : s.steps[i] \in StepRecord
  <2> HIDE DEF StepRecord
  <2> QED BY <1>2
<1>4. \A i \in Steps(s) : s.steps[i].once \in BOOLEAN
  BY <1>3 DEF Steps
<1>5. \A i, j \in Steps(s) : Key(s, i) = Key(s, j) => i = j
  BY <1>1 DEF WellFormed
<1>6. \A i \in Steps(s) : s.steps[i].wants = "ok" =>
        \A n \in s.steps[i].needs :
          \E j \in 1..(i - 1) : Key(s, j) = n /\ s.steps[j].wants = "ok"
  BY <1>1 DEF WellFormed
<1>7. \A i \in Steps(s) : \A j \in 1..(i - 1) : j \in Steps(s) /\ j < i
  BY <1>3 DEF Steps
<1> QED BY <1>3, <1>4, <1>5, <1>6, <1>7 DEF Steps

LEMMA AwaitedIsKnown ==
  ASSUME NEW s \in Scripts, NEW i \in Steps(s)
  PROVE  s.steps[i].wants \in {"ok", "reverted"}
<1> DEFINE StepRecord == [key : STRING, needs : SUBSET STRING, once : BOOLEAN,
                          wants : {"ok", "reverted"}, kept : BOOLEAN]
<1>1. s.steps \in Seq(StepRecord)
  BY MigrationAssumption DEF WellFormed
<1>2. s.steps[i] \in StepRecord
  <2> HIDE DEF StepRecord
  <2> QED
    BY <1>1 DEF Steps
<1> QED
  BY <1>2

(* A process starts from nothing.                                          *)
LEMMA MInit == Init => MInv
<1> SUFFICES ASSUME Init PROVE MInv
  OBVIOUS
<1> USE DEF Init
<1>1. /\ Len(script.steps) \in Nat /\ Steps(script) = 1..Len(script.steps)
      /\ MaxRuns \in Nat
  BY ScriptFacts, MigrationAssumption
<1>2. TypeOK
  BY <1>1 DEF TypeOK
<1>3. PassedTookEffect
  BY <1>1 DEF PassedTookEffect
<1> QED
  BY <1>2, <1>3 DEF MInv, RunIsCounted, OnFileIsOnChain, HeldIsOnChain,
                    AnswerIsTrue, CallsFindWhatTheyNeed

-----------------------------------------------------------------------------
(* The steps of the process.  None of them touches what the chain did, so  *)
(* only the file, the copy and the position are in question.               *)
LEMMA MStart == MInv /\ Start => MInv'
<1> SUFFICES ASSUME MInv, Start PROVE MInv'
  OBVIOUS
<1> USE DEF Start, chainVars, MInv
<1>1. Len(script.steps) \in Nat /\ Steps(script) = 1..Len(script.steps)
  BY ScriptFacts DEF TypeOK
<1>2. state' \subseteq file
  BY DEF Loaded
<1>3. TypeOK'
  BY <1>1, <1>2, MigrationAssumption DEF TypeOK
<1>4. OnFileIsOnChain' /\ HeldIsOnChain'
  BY <1>2 DEF OnFileIsOnChain, HeldIsOnChain
<1>5. PassedTookEffect'
  BY <1>1 DEF PassedTookEffect
<1>6. AnswerIsTrue' /\ RunIsCounted'
  BY <1>1 DEF AnswerIsTrue, RunIsCounted, TypeOK
<1>7. CallsFindWhatTheyNeed'
  BY DEF CallsFindWhatTheyNeed, Effective
<1> QED BY <1>3, <1>4, <1>5, <1>6, <1>7

(* What is skipped is held, and what is held took effect.                  *)
LEMMA MSkip == MInv /\ Skip => MInv'
<1> SUFFICES ASSUME MInv, Skip PROVE MInv'
  OBVIOUS
<1> USE DEF Skip, chainVars, MInv
<1>1. Len(script.steps) \in Nat /\ Steps(script) = 1..Len(script.steps)
  BY ScriptFacts DEF TypeOK
<1>2. at \in Steps(script) /\ Key(script, at) \in state
  BY DEF OnStep, Running, Recorded, Here, Key
<1>3. TypeOK'
  BY <1>1, <1>2 DEF TypeOK
<1>4. OnFileIsOnChain' /\ HeldIsOnChain'
  BY DEF OnFileIsOnChain, HeldIsOnChain
<1>5. script.steps[at].wants = "ok" => effects[at] > 0
  BY <1>2 DEF HeldIsOnChain
<1>6. \A i \in Steps(script) : i < at' => i < at \/ i = at
  BY <1>1, <1>2
<1>7. PassedTookEffect'
  BY <1>5, <1>6 DEF PassedTookEffect
<1>8. AnswerIsTrue' /\ RunIsCounted'
  BY <1>1, <1>2 DEF AnswerIsTrue, RunIsCounted, OnStep
<1>9. CallsFindWhatTheyNeed'
  BY DEF CallsFindWhatTheyNeed, Effective
<1> QED BY <1>3, <1>4, <1>7, <1>8, <1>9

(* What is submitted needs only steps the process has gone past.           *)
LEMMA MSubmit == MInv /\ Submit => MInv'
<1> SUFFICES ASSUME MInv, Submit PROVE MInv'
  OBVIOUS
<1> USE DEF Submit, MInv
<1>1. /\ Len(script.steps) \in Nat /\ Steps(script) = 1..Len(script.steps)
      /\ \A i \in Steps(script) : script.steps[i].wants = "ok" =>
           \A n \in script.steps[i].needs :
             \E j \in Steps(script) : /\ j < i /\ Key(script, j) = n
                                      /\ script.steps[j].wants = "ok"
  BY ScriptFacts DEF TypeOK
<1>2. at \in Steps(script)
  BY DEF OnStep, Running
<1>3. run \in 1..MaxRuns
  BY <1>1, <1>2, MigrationAssumption DEF TypeOK, RunIsCounted
<1>4. TypeOK'
  BY <1>2, <1>3 DEF TypeOK
<1>5. OnFileIsOnChain' /\ HeldIsOnChain' /\ PassedTookEffect'
  BY DEF OnFileIsOnChain, HeldIsOnChain, PassedTookEffect
<1>6. AnswerIsTrue' /\ RunIsCounted'
  BY <1>2 DEF AnswerIsTrue, RunIsCounted
<1>7. script.steps[at].wants = "ok" => script.steps[at].needs \subseteq Effective
  BY <1>1, <1>2 DEF PassedTookEffect, Effective
<1>8. CallsFindWhatTheyNeed'
  BY <1>7 DEF CallsFindWhatTheyNeed, Effective
<1> QED BY <1>4, <1>5, <1>6, <1>8

(* What is saved has been answered, so it took effect.                     *)
LEMMA MSave == MInv /\ Save => MInv'
<1> SUFFICES ASSUME MInv, Save PROVE MInv'
  OBVIOUS
<1> USE DEF Save, chainVars, MInv
<1>1. /\ Len(script.steps) \in Nat /\ Steps(script) = 1..Len(script.steps)
      /\ \A i, j \in Steps(script) : Key(script, i) = Key(script, j) => i = j
  BY ScriptFacts DEF TypeOK
<1>2. at \in Steps(script) /\ Here.key = Key(script, at)
  BY DEF Awaiting, Running, Here, Key
<1>3. script.steps[at].wants = "ok" => effects[at] > 0
  BY DEF Seen, Here, AnswerIsTrue
<1>4. state' \subseteq state \cup {Key(script, at)}
  BY <1>2
<1>5. file' \subseteq file \cup state'
  OBVIOUS
<1>6. TypeOK'
  BY <1>1, <1>2, <1>4, <1>5 DEF TypeOK, Keys
<1>7. HeldIsOnChain'
  BY <1>1, <1>2, <1>3, <1>4 DEF HeldIsOnChain
<1>8. OnFileIsOnChain'
  BY <1>5, <1>7 DEF OnFileIsOnChain, HeldIsOnChain
<1>9. \A i \in Steps(script) : i < at' => i < at \/ i = at
  BY <1>1, <1>2
<1>10. PassedTookEffect'
  BY <1>3, <1>9 DEF PassedTookEffect
<1>11. AnswerIsTrue' /\ RunIsCounted'
  BY <1>1, <1>2 DEF AnswerIsTrue, RunIsCounted
<1>12. CallsFindWhatTheyNeed'
  BY DEF CallsFindWhatTheyNeed, Effective
<1> QED BY <1>6, <1>7, <1>8, <1>10, <1>11, <1>12

(* However a process ends, it leaves nothing on file that it did not hold. *)
LEMMA MStop == MInv /\ (Throw \/ Crash \/ Finish) => MInv'
<1> SUFFICES ASSUME MInv, Throw \/ Crash \/ Finish PROVE MInv'
  OBVIOUS
<1> USE DEF chainVars, MInv
<1>1. Len(script.steps) \in Nat /\ Steps(script) = 1..Len(script.steps)
  BY ScriptFacts DEF TypeOK
<1>2. /\ file' \subseteq file \cup state
      /\ state' = {} /\ at' = 0 /\ run' = run /\ script' = script
      /\ pending' = pending /\ effects' = effects
  BY DEF Throw, Crash, Finish, Flushed
<1>3. answer' = "none"
  BY <1>1 DEF Throw, Crash, Finish, AnswerIsTrue
<1>4. TypeOK'
  BY <1>1, <1>2, <1>3 DEF TypeOK
<1>5. OnFileIsOnChain' /\ HeldIsOnChain'
  BY <1>2 DEF OnFileIsOnChain, HeldIsOnChain
<1>6. PassedTookEffect'
  BY <1>1, <1>2 DEF PassedTookEffect
<1>7. AnswerIsTrue' /\ RunIsCounted'
  BY <1>2, <1>3 DEF AnswerIsTrue, RunIsCounted
<1>8. CallsFindWhatTheyNeed'
  BY <1>2 DEF CallsFindWhatTheyNeed, Effective
<1> QED BY <1>4, <1>5, <1>6, <1>7, <1>8
-----------------------------------------------------------------------------
(* The steps of the chain.  What took effect stays, so what depends on it  *)
(* is not disturbed; an answer is given only to the awaited deploy.        *)
LEMMA MExecute ==
  ASSUME MInv, NEW d \in pending, Execute(d)
  PROVE  MInv'
<1> USE DEF Execute, MInv
<1>1. /\ d[2] \in Steps(script)
      /\ d = <<d[1], d[2]>>
  BY DEF TypeOK
<1>2. /\ effects' \in [Steps(script) -> Nat]
      /\ effects'[d[2]] > 0
      /\ \A i \in Steps(script) : effects[i] > 0 => effects'[i] > 0
  BY <1>1 DEF TypeOK
<1>3. Effective \subseteq Effective'
  BY <1>2 DEF Effective
<1>4. /\ answer' \in {"none", "sent", "ok", "reverted"}
      /\ answer' # "none" => answer # "none"
      /\ answer' = "ok" => answer = "ok" \/ at = d[2]
  BY <1>1 DEF TypeOK, Answer
<1>5. TypeOK'
  BY <1>2, <1>4 DEF TypeOK
<1>6. OnFileIsOnChain' /\ HeldIsOnChain' /\ PassedTookEffect'
  BY <1>2 DEF OnFileIsOnChain, HeldIsOnChain, PassedTookEffect
<1>7. AnswerIsTrue' /\ RunIsCounted'
  BY <1>1, <1>2, <1>4 DEF AnswerIsTrue, RunIsCounted
<1>8. CallsFindWhatTheyNeed'
  BY <1>3 DEF CallsFindWhatTheyNeed
<1> QED BY <1>5, <1>6, <1>7, <1>8

LEMMA MDrop ==
  ASSUME MInv, NEW d \in pending, Revert(d) \/ Expire(d)
  PROVE  MInv'
<1> USE DEF Revert, Expire, MInv
<1>1. /\ answer' \in {"none", "sent", "ok", "reverted"}
      /\ answer' # "none" => answer # "none"
      /\ answer' = "ok" => answer = "ok"
  BY DEF TypeOK, Answer
<1>2. TypeOK'
  BY <1>1 DEF TypeOK
<1>3. OnFileIsOnChain' /\ HeldIsOnChain' /\ PassedTookEffect'
  BY DEF OnFileIsOnChain, HeldIsOnChain, PassedTookEffect
<1>4. AnswerIsTrue' /\ RunIsCounted'
  BY <1>1 DEF AnswerIsTrue, RunIsCounted
<1>5. CallsFindWhatTheyNeed'
  BY DEF CallsFindWhatTheyNeed, Effective
<1> QED BY <1>2, <1>3, <1>4, <1>5

LEMMA MStutter == MInv /\ UNCHANGED vars => MInv'
<1> SUFFICES ASSUME MInv, UNCHANGED vars PROVE MInv'
  OBVIOUS
<1> QED
  BY DEF vars, MInv, TypeOK, RunIsCounted, OnFileIsOnChain, HeldIsOnChain,
         PassedTookEffect, AnswerIsTrue, CallsFindWhatTheyNeed, Effective
-----------------------------------------------------------------------------
(* The invariant that the following theorems rest on.                      *)
THEOREM MigrationInvariant == Spec => []MInv
<1>1. Init => MInv
  BY MInit
<1>2. MInv /\ [Next]_vars => MInv'
  BY MStart, MSkip, MSubmit, MSave, MStop, MExecute, MDrop, MStutter
     DEF Next, ScriptStep, ChainStep
<1> QED BY <1>1, <1>2, PTL DEF Spec

(* The file, the process and the chain's books of every script keep their  *)
(* types (waiting, saving and reading back in agent/src/migrate-*.ts).     *)
THEOREM MigrationTypeCorrect == Spec => []TypeOK
BY MigrationInvariant, PTL DEF MInv

(* A key on file stands for a call that took effect: `save' comes after    *)
(* the wait in every script, so that what a later run skips has been done. *)
THEOREM FileTellsTheTruth == Spec => []OnFileIsOnChain
BY MigrationInvariant, PTL DEF MInv

(* Every call of every well-formed script finds the contracts, balances    *)
(* and permissions that earlier steps provide, whatever was skipped, timed *)
(* out or executed late before.                                            *)
THEOREM NeedsAreMet == Spec => []CallsFindWhatTheyNeed
BY MigrationInvariant, PTL DEF MInv

-----------------------------------------------------------------------------
(* What the first run leaves behind.                                       *)

IsRefusal(i) == script.steps[i].wants = "reverted"

(* In the first run nothing beyond the current step has been sent, and     *)
(* while a refusal is awaited, or was given up, nothing beyond it.         *)
Ahead(i) == \A j \in Steps(script) : j > i => effects[j] = 0 /\ <<1, j>> \notin pending

FirstRun ==
  /\ at # 0 => Ahead(at)
  /\ <<1, at>> \in pending => answer = "sent"
  /\ \A i \in Steps(script) : IsRefusal(i) =>
       /\ effects[i] = 0
       /\ <<1, i>> \in pending => at \in {0, i} /\ Ahead(i)

FirstRunInv ==
  /\ \A d \in pending : d[1] <= run
  /\ run = 0 => at = 0 /\ \A i \in Steps(script) : effects[i] = 0
  /\ run <= 1 => FirstRun

LEMMA FirstRunProcess ==
  ASSUME MInv, FirstRunInv, ScriptStep
  PROVE  FirstRunInv'
<1>1. /\ Len(script.steps) \in Nat /\ Steps(script) = 1..Len(script.steps)
      /\ run \in Nat /\ at \in Nat
      /\ \A i \in Steps(script) : effects[i] \in Nat
      /\ pending \subseteq Nat \X Steps(script)
      /\ script' = script /\ effects' = effects
  BY ScriptFacts, MigrationAssumption
     DEF MInv, TypeOK, ScriptStep, Start, Skip, Submit, Save, Throw, Crash, Finish, chainVars
<1>2. CASE Start
  <2>1. run' = run + 1 /\ at' = 1 /\ pending' = pending /\ answer' = answer /\ at = 0
    BY <1>2 DEF Start, chainVars
  <2>2. ASSUME run' <= 1
        PROVE  run = 0 /\ pending = {} /\ \A i \in Steps(script) : effects[i] = 0
    <3>1. run = 0
      BY <1>1, <2>1, <2>2
    <3>2. \A d \in pending : d[1] >= 1 /\ d[1] <= 0
      BY <3>1 DEF FirstRunInv, MInv, TypeOK
    <3>3. pending = {}
      BY <1>1, <3>2
    <3> QED
      BY <3>1, <3>3 DEF FirstRunInv
  <2>3. \A d \in pending' : d[1] <= run'
    BY <1>1, <2>1 DEF FirstRunInv
  <2> QED
    BY <1>1, <2>1, <2>2, <2>3 DEF FirstRunInv, FirstRun, Ahead
<1>3. ASSUME run' <= 1, Skip \/ Submit \/ Save
      PROVE  FirstRun /\ run = 1 /\ run' = run /\ at \in Steps(script)
  <2>1. run' = run /\ at \in Steps(script)
    BY <1>3 DEF Skip, Submit, Save, chainVars, OnStep, Awaiting, Running
  <2> QED
    BY <1>1, <1>3, <2>1 DEF FirstRunInv, MInv, RunIsCounted
<1>4. CASE Skip \/ Save
  <2>1. /\ pending' = pending /\ run' = run /\ at' = at + 1
        /\ answer' \in {answer, "none"}
    BY <1>4 DEF Skip, Save, chainVars
  <2>2. ASSUME run' <= 1
        PROVE  FirstRun'
    <3>1. FirstRun /\ at \in Steps(script) /\ run = 1
      BY <1>3, <1>4, <2>2
    <3>2. <<1, at>> \notin pending
      <4>1. CASE Skip
        BY <3>1, <4>1 DEF FirstRun, Skip, OnStep
      <4>2. CASE Save
        <5>1. answer \in {"ok", "reverted"}
          <6>1. script.steps[at].wants \in {"ok", "reverted"}
            BY <3>1, AwaitedIsKnown DEF MInv, TypeOK
          <6> QED
            BY <4>2, <6>1 DEF Save, Seen, Here
        <5> QED
          BY <3>1, <5>1 DEF FirstRun
      <4> QED
        BY <1>4, <4>1, <4>2
    <3>3. <<1, at + 1>> \notin pending
      BY <1>1, <3>1 DEF FirstRun, Ahead
    <3>4. Ahead(at)'
      BY <1>1, <2>1, <3>1 DEF FirstRun, Ahead
    <3>5. (<<1, at>> \notin pending)'
      BY <2>1, <3>3
    <3>6. ASSUME NEW i \in Steps(script), IsRefusal(i)
          PROVE  effects[i] = 0 /\ <<1, i>> \notin pending
      <4>1. i = at \/ (at # 0 /\ at \notin {0, i})
        BY <1>1, <3>1
      <4> QED
        BY <3>1, <3>2, <3>6, <4>1 DEF FirstRun
    <3>7. \A i \in Steps(script)' : IsRefusal(i)' =>
            effects'[i] = 0 /\ <<1, i>> \notin pending'
      BY <1>1, <2>1, <3>6 DEF IsRefusal, Steps
    <3> QED
      BY <3>4, <3>5, <3>7 DEF FirstRun
  <2>3. run' # 0 /\ \A d \in pending' : d[1] <= run'
    <3>1. at # 0
      BY <1>1, <1>4 DEF Skip, Save, OnStep, Awaiting, Running
    <3> QED
      BY <2>1, <3>1 DEF FirstRunInv
  <2> QED
    BY <2>2, <2>3 DEF FirstRunInv
<1>5. CASE Submit
  <2>1. /\ pending' = pending \cup {<<run, at>>} /\ run' = run /\ at' = at
        /\ answer' = "sent"
    BY <1>5 DEF Submit
  <2>2. ASSUME run' <= 1
        PROVE  FirstRun'
    <3>1. FirstRun /\ at \in Steps(script) /\ run = 1
      BY <1>3, <1>5, <2>2
    <3>2. Ahead(at)'
      BY <1>1, <2>1, <3>1 DEF FirstRun, Ahead
    <3>3. ASSUME NEW i \in Steps(script), IsRefusal(i)
          PROVE  effects'[i] = 0 /\ (<<1, i>> \in pending' => at' \in {0, i} /\ Ahead(i)')
      <4>1. CASE i = at
        BY <1>1, <2>1, <3>1, <3>2, <3>3, <4>1 DEF FirstRun, Ahead
      <4>2. CASE i # at
        <5>1. <<1, i>> \notin pending'
          BY <1>1, <2>1, <3>1, <3>3, <4>2 DEF FirstRun
        <5> QED
          BY <1>1, <3>1, <3>3, <5>1 DEF FirstRun
      <4> QED
        BY <4>1, <4>2
    <3> QED
      BY <1>1, <2>1, <3>2, <3>3 DEF FirstRun, IsRefusal, Ahead
  <2>3. \A d \in pending' : d[1] <= run'
    BY <1>1, <2>1 DEF FirstRunInv
  <2>4. at \in Steps(script)
    BY <1>5 DEF Submit, OnStep, Running
  <2> QED
    BY <1>1, <2>1, <2>2, <2>3, <2>4 DEF FirstRunInv
<1>6. CASE Throw \/ Crash \/ Finish
  <2>1. pending' = pending /\ run' = run /\ at' = 0
    BY <1>6 DEF Throw, Crash, Finish, chainVars
  <2>2. <<1, 0>> \notin pending
    BY <1>1
  <2> QED
    BY <1>1, <2>1, <2>2 DEF FirstRunInv, FirstRun, IsRefusal, Ahead
<1> QED
  BY <1>2, <1>4, <1>5, <1>6 DEF ScriptStep

LEMMA FirstRunChain ==
  ASSUME MInv, FirstRunInv, NEW d \in pending, Execute(d) \/ Revert(d) \/ Expire(d)
  PROVE  FirstRunInv'
<1>1. /\ UNCHANGED <<script, run, at>> /\ pending' = pending \ {d}
      /\ run \in Nat /\ at \in Nat
      /\ d[2] \in Steps(script) /\ d = <<d[1], d[2]>> /\ d[1] >= 1 /\ d[1] <= run
      /\ answer' = answer \/ (d = <<run, at>>)
      /\ effects \in [Steps(script) -> Nat]
  BY MigrationAssumption
     DEF Execute, Revert, Expire, Answer, MInv, TypeOK, FirstRunInv
<1>2. /\ \A j \in Steps(script) : j # d[2] => effects'[j] = effects[j]
      /\ effects'[d[2]] # effects[d[2]] => Execute(d)
  BY <1>1 DEF Execute, Revert, Expire
<1>3. ASSUME run <= 1
      PROVE  FirstRun'
  <2>1. FirstRun /\ d[1] = 1 /\ run = 1 /\ d = <<1, d[2]>>
    <3>1. d[1] = 1
      BY <1>1, <1>3 DEF MInv, TypeOK
    <3> QED
      BY <1>1, <1>3, <3>1 DEF FirstRunInv
  <2>2. ASSUME NEW i, Ahead(i)
        PROVE  Ahead(i)'
    <3>1. ~(d[2] > i)
      BY <1>1, <2>1, <2>2 DEF Ahead
    <3> QED
      BY <1>1, <1>2, <2>2, <3>1 DEF Ahead
  <2>3. ASSUME NEW i \in Steps(script), IsRefusal(i)
        PROVE  effects'[i] = 0
    <3>1. CASE d[2] # i
      BY <1>2, <2>1, <2>3, <3>1 DEF FirstRun
    <3>2. CASE d[2] = i
      <4>1. Ahead(i) /\ effects[i] = 0
        BY <2>1, <2>3, <3>2 DEF FirstRun
      <4>2. ~Execute(d)
        <5>1. script \in Scripts /\ script.steps[i].wants = "reverted"
          BY <2>3 DEF MInv, TypeOK, IsRefusal
        <5>2. WellFormed(script)
          BY <5>1, MigrationAssumption
        <5>3. PICK n \in script.steps[i].needs :
                \A j \in Steps(script) : Key(script, j) = n => j > i
          BY <2>3, <5>1, <5>2 DEF WellFormed
        <5>4. n \notin Effective
          <6>1. SUFFICES ASSUME NEW j \in Steps(script),
                                effects[j] > 0, Key(script, j) = n
                         PROVE  FALSE
            BY DEF Effective
          <6>2. effects[j] = 0
            BY <4>1, <5>3, <6>1 DEF Ahead
          <6> QED
            BY <6>1, <6>2
        <5> QED
          BY <3>2, <5>4 DEF Execute, Takes
      <4> QED
        BY <1>2, <3>2, <4>1, <4>2
    <3> QED
      BY <3>1, <3>2
  <2>4. <<1, at>> \in pending' => answer' = "sent"
    BY <1>1, <2>1 DEF FirstRun
  <2>5. at' # 0 => Ahead(at)'
    BY <1>1, <2>1, <2>2 DEF FirstRun
  <2>6. \A i \in Steps(script) : IsRefusal(i) /\ <<1, i>> \in pending' =>
          at' \in {0, i} /\ Ahead(i)'
    BY <1>1, <2>1, <2>2 DEF FirstRun
  <2> QED
    BY <1>1, <2>3, <2>4, <2>5, <2>6 DEF FirstRun, IsRefusal, Ahead
<1>4. run # 0
  <2>1. d[1] \in 1..MaxRuns
    BY DEF MInv, TypeOK
  <2> QED
    BY <1>1, <2>1, MigrationAssumption
<1> QED
  BY <1>1, <1>3, <1>4 DEF FirstRunInv

(* A call that is there to be refused goes through only after a run gave   *)
(* up waiting for it, in every script whose refusals ask for what no       *)
(* earlier step provides (migrate-vault-v6.ts:127-140).                    *)
THEOREM RefusalsHoldInOneRun == Spec => []RefusedMovesOnlyAfterAStop
<1>1. Init => FirstRunInv
  <2>1. SUFFICES ASSUME Init
                 PROVE  FirstRunInv
    OBVIOUS
  <2> QED
    BY <2>1 DEF Init, FirstRunInv, FirstRun, Ahead
<1>2. MInv /\ FirstRunInv /\ [Next]_vars => FirstRunInv'
  <2>1. SUFFICES ASSUME MInv, FirstRunInv, UNCHANGED vars
                 PROVE  FirstRunInv'
    BY FirstRunProcess, FirstRunChain DEF Next, ChainStep
  <2> QED
    BY <2>1 DEF vars, FirstRunInv, FirstRun, Ahead, IsRefusal
<1>3. MInv /\ FirstRunInv => RefusedMovesOnlyAfterAStop
  <2>1. SUFFICES ASSUME MInv, FirstRunInv, NEW i \in Steps(script),
                        script.steps[i].wants = "reverted", effects[i] > 0
                 PROVE  run > 1
    BY DEF RefusedMovesOnlyAfterAStop
  <2>2. run \in Nat
    BY <2>1, MigrationAssumption DEF MInv, TypeOK
  <2>3. effects[i] # 0
    BY <2>1 DEF MInv, TypeOK
  <2>4. ~(run <= 1)
    BY <2>1, <2>3 DEF FirstRunInv, FirstRun, IsRefusal
  <2> QED
    BY <2>2, <2>4
<1> QED
  BY <1>1, <1>2, <1>3, MigrationInvariant, PTL DEF Spec
-----------------------------------------------------------------------------
(* Repetitions.                                                            *)

(* How often a step was or still may be carried out.                       *)
Out(i) == {d \in pending : d[2] = i}
Sent(i) == effects[i] + Cardinality(Out(i))

(* A step that was sent and is not on file: a later run sends it again.    *)
Open(i) == Key(script, i) \notin file /\ Sent(i) > 0

(* What a step weighs: the times it is repeated, and once more while it is *)
(* open, for the repetition that will follow.                              *)
Weight(i) == IF Key(script, i) \in file /\ Sent(i) > 0 THEN Sent(i) - 1 ELSE Sent(i)
Weights == [i \in Steps(script) |-> Weight(i)]
Debt == SumFunction(Weights)

(* Each start allows for one: a process that has an open step of its own   *)
(* has used what its start allowed for.                                    *)
RepeatInv ==
  /\ at # 0 => state = file
  /\ answer # "none" => Key(script, at) \notin file
  /\ Debt <= run
  /\ at # 0 /\ answer \in {"none", "reverted"} => Debt < run
  /\ run > 0 /\ Debt = run => \E i \in Steps(script) : Open(i)

Resumable == ReadsBack(script) /\ script.saves = "each"

(* The sums are over finitely many natural numbers.                        *)
Books ==
  /\ IsFiniteSet(Steps(script)) /\ IsFiniteSet(pending)
  /\ \A i \in Steps(script) :
       /\ IsFiniteSet(Out(i)) /\ Cardinality(Out(i)) \in Nat
       /\ Out(i) # {} => Cardinality(Out(i)) > 0
       /\ effects[i] \in Nat /\ Sent(i) \in Nat /\ Weight(i) \in Nat
  /\ Weights \in [Steps(script) -> Nat]
  /\ \A i \in Steps(script) : Weights[i] = Weight(i)
  /\ Debt \in Nat /\ run \in Nat

LEMMA BooksAreFinite == MInv => Books
<1> SUFFICES ASSUME MInv PROVE Books
  OBVIOUS
<1>1. Len(script.steps) \in Nat /\ Steps(script) = 1..Len(script.steps)
      /\ MaxRuns \in Nat /\ pending \subseteq (1..MaxRuns) \X Steps(script)
      /\ effects \in [Steps(script) -> Nat] /\ run \in Nat
  BY ScriptFacts, MigrationAssumption DEF MInv, TypeOK
<1>2. IsFiniteSet(Steps(script)) /\ IsFiniteSet(1..MaxRuns)
  BY <1>1, FS_Interval
<1>3. IsFiniteSet((1..MaxRuns) \X Steps(script))
  BY <1>2, FS_Product
<1>4. IsFiniteSet(pending)
  BY <1>1, <1>3, FS_Subset
<1>5. ASSUME NEW i \in Steps(script)
      PROVE  /\ IsFiniteSet(Out(i)) /\ Cardinality(Out(i)) \in Nat
             /\ Out(i) # {} => Cardinality(Out(i)) > 0
             /\ effects[i] \in Nat /\ Sent(i) \in Nat /\ Weight(i) \in Nat
  <2>1. Out(i) \subseteq pending
    BY DEF Out
  <2>2. IsFiniteSet(Out(i)) /\ Cardinality(Out(i)) \in Nat
    BY <1>4, <2>1, FS_Subset, FS_CardinalityType
  <2>3. Out(i) # {} => Cardinality(Out(i)) > 0
    BY <2>2, FS_EmptySet
  <2> QED
    BY <1>1, <2>2, <2>3 DEF Sent, Weight
<1>6. Weights \in [Steps(script) -> Nat] /\ \A i \in Steps(script) : Weights[i] = Weight(i)
  BY <1>5 DEF Weights
<1>7. Debt \in Nat
  BY <1>2, <1>6, SumOfNaturals DEF Debt
<1> QED
  BY <1>1, <1>2, <1>4, <1>5, <1>6, <1>7 DEF Books

(* A step of which one weight changes changes the debt by that much.       *)
LEMMA OneWeightChanges ==
  ASSUME MInv, MInv', script' = script, NEW a \in Steps(script),
         \A i \in Steps(script) \ {a} : Weight(i)' = Weight(i)
  PROVE  Debt' = Debt - Weight(a) + Weight(a)'
<1>1. Books /\ Books'
  BY BooksAreFinite, PTL
<1>2. Steps(script)' = Steps(script)
  BY DEF Steps
<1>3. /\ IsFiniteSet(Steps(script))
      /\ Weights \in [Steps(script) -> Int] /\ Weights' \in [Steps(script) -> Int]
      /\ \A i \in Steps(script) : Weights[i] = Weight(i) /\ Weights'[i] = Weight(i)'
  BY <1>1, <1>2 DEF Books
<1>4. \A i \in Steps(script) \ {a} : Weights'[i] = Weights[i]
  BY <1>3
<1>5. SumFunction(Weights') = SumFunction(Weights) - Weights[a] + Weights'[a]
  BY <1>3, <1>4, SumOfOneMore
<1> QED
  BY <1>3, <1>5 DEF Debt

(* What is neither sent, saved nor answered changes no debt.               *)
LEMMA DebtStays ==
  ASSUME script' = script, file' = file, pending' = pending, effects' = effects
  PROVE  Debt' = Debt /\ \A i : Open(i)' = Open(i)
BY DEF Debt, Weights, Weight, Open, Sent, Out, Steps, Key

LEMMA StartRepeats ==
  ASSUME MInv, RepeatInv, Resumable, Start
  PROVE  RepeatInv'
<1>1. at = 0 /\ at' = 1 /\ answer' = answer /\ run' = run + 1 /\ state' = Loaded
      /\ script' = script /\ file' = file /\ pending' = pending /\ effects' = effects
  BY DEF Start, chainVars
<1>2. answer = "none"
  BY <1>1, ScriptFacts DEF MInv, AnswerIsTrue, TypeOK
<1>3. state' = file'
  <2>1. script.reads \in {"any", "upper"}
    BY MigrationAssumption DEF MInv, TypeOK, WellFormed
  <2>2. script.reads = "upper" => file \cap MixedCase = {}
    BY DEF Resumable, ReadsBack, MInv, TypeOK
  <2> QED
    BY <1>1, <2>1, <2>2 DEF Loaded
<1>4. Debt' = Debt /\ Debt \in Nat /\ run \in Nat /\ Debt <= run
  BY <1>1, DebtStays, BooksAreFinite DEF Books, RepeatInv
<1> QED
  BY <1>1, <1>2, <1>3, <1>4 DEF RepeatInv

LEMMA SkipRepeats ==
  ASSUME MInv, RepeatInv, Skip
  PROVE  RepeatInv'
<1>1. /\ at \in Steps(script) /\ answer = "none" /\ answer' = answer /\ run' = run
      /\ state' = state /\ at' = at + 1
      /\ script' = script /\ file' = file /\ pending' = pending /\ effects' = effects
  BY DEF Skip, chainVars, OnStep, Running
<1>2. at # 0 /\ at \in Nat
  BY <1>1, ScriptFacts DEF MInv, TypeOK
<1>3. Debt' = Debt /\ Debt \in Nat /\ run \in Nat
  BY <1>1, DebtStays, BooksAreFinite DEF Books
<1> QED
  BY <1>1, <1>2, <1>3 DEF RepeatInv

LEMMA SubmitRepeats ==
  ASSUME MInv, MInv', RepeatInv, Resumable, Submit
  PROVE  RepeatInv'
<1> DEFINE d == <<run, at>>
<1>1. /\ at \in Steps(script) /\ answer = "none" /\ answer' = "sent" /\ run' = run
      /\ state' = state /\ at' = at /\ pending' = pending \cup {d}
      /\ script' = script /\ file' = file /\ effects' = effects
  BY DEF Submit, OnStep, Running
<1>2. at # 0 /\ Key(script, at) \notin file
  BY <1>1, ScriptFacts
     DEF Submit, Recorded, Here, Key, Resumable, ReadsBack, MInv, TypeOK, RepeatInv
<1>3. Books /\ Books'
  BY BooksAreFinite, PTL
<1>4. Out(at)' = Out(at) \cup {d}
  BY <1>1 DEF Out
<1>5. \A i \in Steps(script) \ {at} : Out(i)' = Out(i)
  BY <1>1 DEF Out
<1>6. Cardinality(Out(at)') <= Cardinality(Out(at)) + 1
  <2>1. CASE d \in Out(at)
    <3>1. Out(at)' = Out(at)
      BY <1>4, <2>1
    <3>2. Cardinality(Out(at)) \in Nat
      BY <1>1, <1>3 DEF Books
    <3> QED
      BY <3>1, <3>2
  <2>2. CASE d \notin Out(at)
    <3>1. IsFiniteSet(Out(at)) /\ Cardinality(Out(at)) \in Nat
      BY <1>1, <1>3 DEF Books
    <3>2. Cardinality(Out(at) \cup {d}) = Cardinality(Out(at)) + 1
      BY <2>2, <3>1, FS_AddElement
    <3> QED
      BY <1>4, <3>1, <3>2
  <2> QED
    BY <2>1, <2>2
<1>7. \A i \in Steps(script) \ {at} : Weight(i)' = Weight(i)
  BY <1>1, <1>5 DEF Weight, Sent, Key
<1>8. Debt' = Debt - Weight(at) + Weight(at)'
  BY <1>1, <1>7, OneWeightChanges
<1>9. /\ Steps(script)' = Steps(script)
      /\ at \in Steps(script)'
      /\ Debt \in Nat /\ Debt' \in Nat /\ run \in Nat
  BY <1>1, <1>3 DEF Books, Steps
<1>10. /\ Weight(at) = effects[at] + Cardinality(Out(at))
       /\ Weight(at)' = effects[at] + Cardinality(Out(at)')
       /\ effects[at] \in Nat /\ Cardinality(Out(at)) \in Nat /\ Cardinality(Out(at)') \in Nat
  BY <1>1, <1>2, <1>3, <1>9 DEF Weight, Sent, Key, Books
<1>11. Debt' <= Debt + 1
  BY <1>6, <1>8, <1>9, <1>10
<1>12. Debt < run
  BY <1>1, <1>2 DEF RepeatInv
<1>13. Open(at)'
  <2>1. Out(at)' # {}
    BY <1>4
  <2>2. Cardinality(Out(at)') > 0
    BY <1>1, <1>3, <1>9, <2>1 DEF Books
  <2>3. Sent(at)' > 0
    BY <1>1, <1>10, <2>2 DEF Sent
  <2> QED
    BY <1>1, <1>2, <2>3 DEF Open, Key
<1> QED
  BY <1>1, <1>2, <1>9, <1>11, <1>12, <1>13 DEF RepeatInv, Key

LEMMA SaveRepeats ==
  ASSUME MInv, MInv', RepeatInv, Resumable, Save
  PROVE  RepeatInv'
<1>1. /\ at \in Steps(script) /\ at' = at + 1 /\ answer' = "none" /\ run' = run
      /\ state' = state \cup {Key(script, at)} /\ file' = state'
      /\ answer = script.steps[at].wants /\ answer # "none"
      /\ script' = script /\ pending' = pending /\ effects' = effects
  BY DEF Save, chainVars, Awaiting, Running, Seen, Here, Key, Resumable, ReadsBack
<1>2. /\ at # 0 /\ at' # 0 /\ state = file /\ Key(script, at) \notin file
      /\ \A i, j \in Steps(script) : Key(script, i) = Key(script, j) => i = j
  BY <1>1, ScriptFacts DEF MInv, TypeOK, RepeatInv
<1>3. Books /\ Books'
  BY BooksAreFinite, PTL
<1>4. \A i \in Steps(script) : Sent(i)' = Sent(i)
  BY <1>1 DEF Sent, Out
<1> PICK a \in Steps(script) : a = at
  BY <1>1
<1>5. \A i \in Steps(script) \ {a} : Weight(i)' = Weight(i)
  BY <1>1, <1>2, <1>4 DEF Weight, Key
<1>6. Debt' = Debt - Weight(a) + Weight(a)'
  BY <1>1, <1>5, OneWeightChanges
<1>7. /\ Weight(a) = Sent(a)
      /\ Weight(a)' = IF Sent(a) > 0 THEN Sent(a) - 1 ELSE Sent(a)
  BY <1>1, <1>2, <1>4 DEF Weight, Key
<1>8. /\ Sent(a) \in Nat /\ Debt \in Nat /\ run \in Nat
      /\ effects[a] \in Nat /\ Cardinality(Out(a)) \in Nat
  BY <1>1, <1>3 DEF Books
<1>9. Debt' < run
  <2>1. CASE answer = "reverted"
    <3>1. Debt < run
      BY <1>2, <2>1 DEF RepeatInv
    <3> QED
      BY <1>6, <1>7, <1>8, <3>1
  <2>2. CASE answer = "ok"
    <3>1. Sent(a) > 0
      BY <1>1, <1>8, <2>2 DEF MInv, AnswerIsTrue, Sent
    <3> QED
      BY <1>6, <1>7, <1>8, <3>1 DEF RepeatInv
  <2>3. answer \in {"ok", "reverted"}
    BY <1>1, AwaitedIsKnown DEF MInv, TypeOK
  <2> QED
    BY <2>1, <2>2, <2>3
<1>10. Debt' \in Nat
  BY <1>3 DEF Books
<1> QED
  BY <1>1, <1>2, <1>8, <1>9, <1>10 DEF RepeatInv

LEMMA StopRepeats ==
  ASSUME MInv, RepeatInv, Resumable, Throw \/ Crash \/ Finish
  PROVE  RepeatInv'
<1>1. /\ at' = 0 /\ run' = run /\ file' = file
      /\ script' = script /\ pending' = pending /\ effects' = effects
  BY DEF Throw, Crash, Finish, chainVars, Flushed, Resumable
<1>2. answer' = "none"
  BY ScriptFacts DEF Throw, Crash, Finish, MInv, TypeOK, AnswerIsTrue
<1>3. Debt' = Debt /\ \A i : Open(i)' = Open(i)
  BY <1>1, DebtStays
<1> QED
  BY <1>1, <1>2, <1>3 DEF RepeatInv, Steps

LEMMA ExecuteRepeats ==
  ASSUME MInv, MInv', RepeatInv, NEW d \in pending, Execute(d)
  PROVE  RepeatInv'
<1>1. /\ effects' = [effects EXCEPT ![d[2]] = @ + 1]
      /\ pending' = pending \ {d}
      /\ answer' = answer \/ (answer = "sent" /\ answer' = "ok")
      /\ script' = script /\ file' = file /\ state' = state /\ run' = run /\ at' = at
  BY DEF Execute, Answer
<1>2. Books /\ Books' /\ Steps(script)' = Steps(script)
  <2>1. Books /\ Books'
    BY BooksAreFinite, PTL
  <2> QED
    BY <1>1, <2>1 DEF Steps
<1>3. d[2] \in Steps(script) /\ effects \in [Steps(script) -> Nat]
  BY DEF MInv, TypeOK
<1>4. ASSUME NEW i \in Steps(script)
      PROVE  Sent(i)' = Sent(i)
  <2>1. CASE i = d[2]
    <3>1. d \in Out(i) /\ Out(i)' = Out(i) \ {d} /\ effects'[i] = effects[i] + 1
      BY <1>1, <1>3, <2>1 DEF Out
    <3>2. IsFiniteSet(Out(i)) /\ Cardinality(Out(i)) \in Nat /\ effects[i] \in Nat
      BY <1>2 DEF Books
    <3>3. Cardinality(Out(i) \ {d}) = Cardinality(Out(i)) - 1
      BY <3>1, <3>2, FS_RemoveElement
    <3> QED
      BY <3>1, <3>2, <3>3 DEF Sent
  <2>2. CASE i # d[2]
    <3>1. Out(i)' = Out(i) /\ effects'[i] = effects[i]
      BY <1>1, <1>3, <2>2 DEF Out
    <3> QED
      BY <3>1 DEF Sent
  <2> QED
    BY <2>1, <2>2
<1>5. \A i \in Steps(script) : Weight(i)' = Weight(i) /\ Open(i)' = Open(i)
  BY <1>1, <1>4 DEF Weight, Open, Key
<1>6. Debt' = Debt - Weight(d[2]) + Weight(d[2])'
  BY <1>1, <1>3, <1>5, OneWeightChanges
<1>7. Weight(d[2])' = Weight(d[2]) /\ Weight(d[2]) \in Nat /\ Debt \in Nat
  BY <1>2, <1>3, <1>5 DEF Books
<1>8. Debt' = Debt
  BY <1>6, <1>7
<1> QED
  BY <1>1, <1>2, <1>5, <1>8 DEF RepeatInv, Key

LEMMA DropRepeats ==
  ASSUME MInv, MInv', RepeatInv, NEW d \in pending, Revert(d) \/ Expire(d)
  PROVE  RepeatInv'
<1>1. /\ effects' = effects /\ pending' = pending \ {d}
      /\ answer' = answer \/ (d = <<run, at>> /\ answer = "sent" /\ answer' = "reverted")
      /\ script' = script /\ file' = file /\ state' = state /\ run' = run /\ at' = at
  BY DEF Revert, Expire, Answer
<1>2. Books /\ Books' /\ Steps(script)' = Steps(script)
  <2>1. Books /\ Books'
    BY BooksAreFinite, PTL
  <2> QED
    BY <1>1, <2>1 DEF Steps
<1>3. d[2] \in Steps(script)
  BY DEF MInv, TypeOK
<1>4. Sent(d[2])' = Sent(d[2]) - 1 /\ Sent(d[2]) \in Nat /\ Sent(d[2]) > 0
  <2>1. d \in Out(d[2]) /\ Out(d[2])' = Out(d[2]) \ {d}
    BY <1>1 DEF Out
  <2>2. /\ IsFiniteSet(Out(d[2])) /\ Cardinality(Out(d[2])) \in Nat
        /\ Cardinality(Out(d[2])) > 0 /\ effects[d[2]] \in Nat
    BY <1>2, <1>3, <2>1 DEF Books
  <2>3. Cardinality(Out(d[2]) \ {d}) = Cardinality(Out(d[2])) - 1
    BY <2>1, <2>2, FS_RemoveElement
  <2> QED
    BY <1>1, <2>1, <2>2, <2>3 DEF Sent
<1>5. \A i \in Steps(script) \ {d[2]} : Sent(i)' = Sent(i)
  BY <1>1 DEF Sent, Out
<1>6. \A i \in Steps(script) \ {d[2]} : Weight(i)' = Weight(i) /\ Open(i)' = Open(i)
  BY <1>1, <1>5 DEF Weight, Open, Key
<1>7. Debt' = Debt - Weight(d[2]) + Weight(d[2])'
  BY <1>1, <1>3, <1>6, OneWeightChanges
<1>8. /\ Weight(d[2]) \in Nat /\ Weight(d[2])' \in Nat
      /\ Weight(d[2])' <= Weight(d[2])
      /\ Key(script, d[2]) \notin file => Weight(d[2])' < Weight(d[2])
  BY <1>1, <1>2, <1>3, <1>4 DEF Weight, Key, Books
<1>9. /\ Debt \in Nat /\ Debt' \in Nat /\ run \in Nat
      /\ Debt' <= Debt
      /\ Key(script, d[2]) \notin file => Debt' < Debt
  BY <1>2, <1>7, <1>8 DEF Books
<1>10. answer' # answer => Key(script, d[2]) \notin file
  BY <1>1 DEF RepeatInv
<1>11. at' # 0 /\ answer' \in {"none", "reverted"} => Debt' < run'
  BY <1>1, <1>9, <1>10 DEF RepeatInv
<1>12. ASSUME run' > 0, Debt' = run'
       PROVE  \E i \in Steps(script)' : Open(i)'
  <2>1. Debt = run /\ Key(script, d[2]) \in file
    BY <1>1, <1>9, <1>12 DEF RepeatInv
  <2>2. PICK i \in Steps(script) : Open(i)
    BY <1>1, <1>12, <2>1 DEF RepeatInv
  <2>3. i # d[2]
    BY <2>1, <2>2 DEF Open
  <2> QED
    BY <1>2, <1>6, <2>2, <2>3
<1>13. answer' # "none" => Key(script, at)' \notin file'
  BY <1>1 DEF RepeatInv, Key
<1>14. Debt' <= run'
  BY <1>1, <1>9 DEF RepeatInv
<1>15. at' # 0 => state' = file'
  BY <1>1 DEF RepeatInv
<1> QED
  BY <1>11, <1>12, <1>13, <1>14, <1>15 DEF RepeatInv

(* What is carried out only once is not repeated.                          *)
OnceInv == \A i \in Steps(script) : script.steps[i].once => effects[i] <= 1

LEMMA OnceKeeps == MInv /\ OnceInv /\ [Next]_vars => OnceInv'
<1> SUFFICES ASSUME MInv, OnceInv, [Next]_vars PROVE OnceInv'
  OBVIOUS
<1>1. ASSUME NEW d \in pending, Execute(d)
      PROVE  OnceInv'
  <2>1. /\ effects' = [effects EXCEPT ![d[2]] = @ + 1] /\ script' = script
        /\ script.steps[d[2]].once => effects[d[2]] = 0
    BY <1>1 DEF Execute, Takes
  <2>2. effects \in [Steps(script) -> Nat]
    BY DEF MInv, TypeOK
  <2> QED
    BY <2>1, <2>2 DEF OnceInv, Steps
<1>2. CASE UNCHANGED <<script, effects>>
  BY <1>2 DEF OnceInv, Steps
<1> QED
  BY <1>1, <1>2
     DEF Next, ScriptStep, ChainStep, Start, Skip, Submit, Save, Throw, Crash, Finish,
         Revert, Expire, chainVars, vars

Extra == [i \in Steps(script) |-> IF effects[i] > 1 THEN effects[i] - 1 ELSE 0]

LEMMA SurplusIsExtra ==
  ASSUME MInv
  PROVE  /\ Surplus = SumFunction(Extra)
         /\ Extra \in [Steps(script) -> Nat] /\ IsFiniteSet(Steps(script))
<1>1. \A i \in Steps(script) : effects[i] \in Nat
  BY DEF MInv, TypeOK
<1> QED
  BY <1>1, BooksAreFinite DEF Surplus, Extra, Books

(* A script that saves when it ends repeats nothing.                       *)
LEMMA NothingRepeated ==
  ASSUME MInv, OnceInv, \A i \in Steps(script) : script.steps[i].once
  PROVE  Surplus = 0
<1>1. \A i \in Steps(script) : effects[i] \in Nat /\ effects[i] <= 1
  BY DEF MInv, TypeOK, OnceInv
<1>2. \A i \in Steps(script) : Extra[i] = 0
  BY <1>1 DEF Extra
<1> QED
  BY <1>2, SurplusIsExtra, SumOfNaturals

(* What was repeated is less than the debt by the step that is open.       *)
LEMMA RepeatsAreAllowedFor ==
  ASSUME MInv, RepeatInv, run > 0
  PROVE  Surplus < run
<1>1. Books /\ Extra \in [Steps(script) -> Nat] /\ Surplus = SumFunction(Extra)
  BY BooksAreFinite, SurplusIsExtra
<1>2. ASSUME NEW i \in Steps(script)
      PROVE  /\ Extra[i] <= Weights[i]
             /\ Open(i) => Weights[i] > 0 /\ Extra[i] <= Weights[i] - 1
  <2>1. /\ effects[i] \in Nat /\ Cardinality(Out(i)) \in Nat
        /\ Weights[i] = Weight(i)
        /\ Extra[i] = IF effects[i] > 1 THEN effects[i] - 1 ELSE 0
    BY <1>1 DEF Books, Extra
  <2> QED
    BY <2>1 DEF Open, Weight, Sent
<1>3. Surplus <= Debt /\ Surplus \in Nat
  BY <1>1, <1>2, SumIsMonotone, SumOfNaturals DEF Books, Debt
<1>4. CASE Debt < run
  BY <1>1, <1>3, <1>4 DEF Books
<1>5. CASE Debt = run
  <2>1. PICK a \in Steps(script) : Open(a)
    BY <1>5 DEF RepeatInv
  <2> DEFINE less == [Weights EXCEPT ![a] = @ - 1]
  <2>2. /\ Weights \in [Steps(script) -> Nat] /\ IsFiniteSet(Steps(script))
        /\ Weights[a] > 0
    BY <1>1, <1>2, <2>1 DEF Books
  <2>3. /\ less \in [Steps(script) -> Nat] /\ less \in [Steps(script) -> Int]
        /\ Weights \in [Steps(script) -> Int]
        /\ less[a] = Weights[a] - 1 /\ Weights[a] \in Nat
        /\ \A x \in Steps(script) \ {a} : less[x] = Weights[x]
    BY <2>2
  <2> HIDE DEF less
  <2>4. SumFunction(less) = Debt - Weights[a] + less[a]
    BY <2>2, <2>3, SumOfOneMore DEF Debt
  <2>5. \A x \in Steps(script) : Extra[x] <= less[x]
    BY <1>2, <2>1, <2>3
  <2>6. Surplus <= SumFunction(less)
    BY <1>1, <2>2, <2>3, <2>5, SumIsMonotone
  <2>7. Debt \in Nat /\ run \in Nat
    BY <1>1 DEF Books
  <2> QED
    BY <1>3, <1>5, <2>3, <2>4, <2>6, <2>7
<1>6. Debt < run \/ Debt = run
  BY <1>1 DEF RepeatInv, Books
<1> QED
  BY <1>4, <1>5, <1>6

(* Nothing is repeated before the first start.                             *)
LEMMA RepeatInit == Init => RepeatInv
<1> SUFFICES ASSUME Init PROVE RepeatInv
  OBVIOUS
<1>1. Books
  BY MInit, BooksAreFinite
<1>2. \A i \in Steps(script) : Weights[i] = 0
  <2>1. \A i \in Steps(script) : Out(i) = {} /\ effects[i] = 0
    BY DEF Init, Out
  <2>2. Cardinality({}) = 0
    BY FS_EmptySet
  <2> QED
    BY <1>1, <2>1, <2>2 DEF Books, Weight, Sent
<1>3. Debt = 0
  BY <1>1, <1>2, SumOfNaturals DEF Books, Debt
<1> QED
  BY <1>3 DEF Init, RepeatInv

(* A script that can read back what it wrote repeats at most one call for  *)
(* each time it was stopped, whatever answers it got, gave up waiting for  *)
(* or never saw, and however late its deploys execute                      *)
(* (agent/src/migrate-*.ts: `if (state.X)', waiting and saving).           *)
THEOREM OneRepetitionPerStop == Spec => []StopsRepeatOneStepEach
<1> DEFINE Inv == OnceInv /\ (Resumable => RepeatInv)
<1>1. Init => Inv
  <2>1. Init => OnceInv
    BY DEF Init, OnceInv
  <2> QED
    BY <2>1, RepeatInit
<1>2. MInv /\ MInv' /\ Inv /\ [Next]_vars => Inv'
  <2> SUFFICES ASSUME MInv, MInv', Inv, [Next]_vars PROVE Inv'
    OBVIOUS
  <2>1. OnceInv'
    BY OnceKeeps
  <2>2. script' = script
    BY DEF Next, ScriptStep, ChainStep, Start, Skip, Submit, Save, Throw, Crash, Finish,
           Execute, Revert, Expire, vars
  <2>3. Resumable' = Resumable
    BY <2>2 DEF Resumable
  <2>4. ASSUME Resumable
        PROVE  RepeatInv'
    <3>1. CASE UNCHANGED vars
      BY <2>4, <3>1, DebtStays DEF vars, RepeatInv, Steps, Key
    <3>2. CASE Next
      BY <2>4, <3>2, StartRepeats, SkipRepeats, SubmitRepeats, SaveRepeats, StopRepeats,
         ExecuteRepeats, DropRepeats
         DEF Next, ScriptStep, ChainStep
    <3> QED
      BY <3>1, <3>2
  <2> QED
    BY <2>1, <2>3, <2>4
<1>3. MInv /\ Inv => StopsRepeatOneStepEach
  <2> SUFFICES ASSUME MInv, Inv, ReadsBack(script), run > 0
               PROVE  Surplus < run
    BY DEF StopsRepeatOneStepEach
  <2>1. CASE script.saves = "each"
    BY <2>1, RepeatsAreAllowedFor DEF Resumable
  <2>2. CASE script.saves = "end"
    <3>1. \A i \in Steps(script) : script.steps[i].once
      BY <2>2, MigrationAssumption DEF MInv, TypeOK, WellFormed
    <3> QED
      BY <3>1, NothingRepeated
  <2>3. script.saves \in {"each", "end"}
    BY MigrationAssumption DEF MInv, TypeOK, WellFormed
  <2> QED
    BY <2>1, <2>2, <2>3
<1> QED
  BY <1>1, <1>2, <1>3, MigrationInvariant, PTL DEF Spec
=============================================================================
