------------------------------ MODULE Migration ------------------------------
(***************************************************************************)
(* How the deploy and migration scripts run: each step is skipped if its   *)
(* key is on file; otherwise its deploy is submitted, awaited for three    *)
(* minutes, and its key saved.  Whatever goes wrong ends the process, and  *)
(* someone starts the script again.  A deploy that was given up is still   *)
(* out: it may execute while a later run is at work.                       *)
(*                                                                         *)
(* `file' is the .env.* file of the script, `state' the process's copy;    *)
(* `run' counts the starts, `at' is the step (0: no process), `answer' is  *)
(* what the awaited deploy came to; `pending' are deploys in flight, as    *)
(* pairs of a run and a step, and `effects' counts what executed.          *)
(***************************************************************************)
EXTENDS DeployScripts, Integers, FiniteSets, Functions

CONSTANTS
  Scripts,      \* the scripts that are run
  MaxRuns       \* bound on how often a script is started

VARIABLES script, file, state, run, at, answer, pending, effects

vars == <<script, file, state, run, at, answer, pending, effects>>
chainVars == <<pending, effects>>

Steps(s) == DOMAIN s.steps
Key(s, i) == s.steps[i].key
Keys(s) == {Key(s, i) : i \in Steps(s)}

(* Keys are different; a step needs the keys of earlier steps that make    *)
(* sure of their effect, a refused step something that no earlier step     *)
(* provides.  A script that keeps its progress only until it ends consists *)
(* of calls that the chain takes once.                                     *)
WellFormed(s) ==
  /\ s.steps \in Seq([key : STRING, needs : SUBSET STRING, once : BOOLEAN,
                      wants : {"ok", "reverted"}, kept : BOOLEAN])
  /\ s.saves \in {"each", "end"}
  /\ s.reads \in {"any", "upper"}
  /\ \A i, j \in Steps(s) : Key(s, i) = Key(s, j) => i = j
  /\ \A i \in Steps(s) : s.steps[i].wants = "ok" =>
       \A n \in s.steps[i].needs :
         \E j \in 1..(i - 1) : Key(s, j) = n /\ s.steps[j].wants = "ok"
  /\ \A i \in Steps(s) : s.steps[i].wants = "reverted" =>
       \E n \in s.steps[i].needs : \A j \in Steps(s) : Key(s, j) = n => j > i
  /\ s.saves = "end" => \A i \in Steps(s) : s.steps[i].once

ASSUME MigrationAssumption ==
  /\ MaxRuns \in Nat
  /\ \A s \in Scripts : WellFormed(s)
-----------------------------------------------------------------------------
Here == script.steps[at]
Effective == {Key(script, i) : i \in {j \in Steps(script) : effects[j] > 0}}

(* What the regular expression of the script finds in the file. *)
Loaded == IF script.reads = "any" THEN file ELSE file \ MixedCase

Running == at \in Steps(script)
OnStep == Running /\ answer = "none"
Awaiting == Running /\ answer # "none"

(* The check `if (state.X)' that a mutant forgets, and the real one. *)
NeverRecorded(step) == FALSE
Recorded(step) == step.kept /\ step.key \in state

(* The awaited deploy came to what the script wants of it. *)
SubmittedIsSeen(step) == TRUE
NotOkIsRefused(step) ==
  answer = step.wants \/ (step.wants = "reverted" /\ answer # "ok")
Seen(step) == answer = step.wants

(* What is in the process reaches the file when it ends in an orderly way. *)
Flushed == IF script.saves = "end" THEN state ELSE file
-----------------------------------------------------------------------------
Init ==
  /\ script \in Scripts
  /\ file = {} /\ state = {}
  /\ run = 0 /\ at = 0 /\ answer = "none"
  /\ pending = {}
  /\ effects = [i \in Steps(script) |-> 0]

(* The script is started and reads its file. *)
Start ==
  /\ at = 0 /\ run < MaxRuns
  /\ run' = run + 1
  /\ state' = Loaded
  /\ at' = 1
  /\ UNCHANGED <<script, file, answer, chainVars>>

(* A step on file is skipped. *)
Skip ==
  /\ OnStep /\ Recorded(Here)
  /\ at' = at + 1
  /\ UNCHANGED <<script, file, state, run, answer, chainVars>>

(* A step that is not on file submits its deploy. *)
Submit ==
  /\ OnStep /\ ~Recorded(Here)
  /\ answer' = "sent"
  /\ pending' = pending \cup {<<run, at>>}
  /\ UNCHANGED <<script, file, state, run, at, effects>>

(* The answer is the one the script wants: it saves the key and goes on.   *)
(* Saving writes what the process holds over the file.                     *)
Save ==
  /\ Awaiting /\ Seen(Here)
  /\ state' = IF Here.kept THEN state \cup {Here.key} ELSE state
  /\ file' = IF Here.kept /\ script.saves = "each" THEN state' ELSE file
  /\ at' = at + 1 /\ answer' = "none"
  /\ UNCHANGED <<script, run, chainVars>>

(* Any other answer, no answer in time, a deploy the node does not take or *)
(* a request that fails is thrown: main() reports it and the process ends. *)
Throw ==
  /\ Running /\ (OnStep => ~Recorded(Here))
  /\ file' = Flushed
  /\ at' = 0 /\ answer' = "none" /\ state' = {}
  /\ UNCHANGED <<script, run, chainVars>>

(* The process is killed. *)
Crash ==
  /\ at # 0
  /\ at' = 0 /\ answer' = "none" /\ state' = {}
  /\ UNCHANGED <<script, file, run, chainVars>>

Finish ==
  /\ at = Len(script.steps) + 1
  /\ file' = Flushed
  /\ at' = 0 /\ state' = {}
  /\ UNCHANGED <<script, run, answer, chainVars>>
-----------------------------------------------------------------------------
(* The chain: whether a call can succeed at this point. *)
Takes(i) ==
  /\ script.steps[i].needs \subseteq Effective
  /\ script.steps[i].once => effects[i] = 0

Answer(d, result) ==
  answer' = IF d = <<run, at>> /\ answer = "sent" THEN result ELSE answer

Execute(d) ==
  /\ Takes(d[2])
  /\ effects' = [effects EXCEPT ![d[2]] = @ + 1]
  /\ pending' = pending \ {d}
  /\ Answer(d, "ok")
  /\ UNCHANGED <<script, file, state, run, at>>

(* Calls also revert for want of gas, and calls that wait too long expire  *)
(* without an answer.                                                      *)
Revert(d) ==
  /\ pending' = pending \ {d}
  /\ Answer(d, "reverted")
  /\ UNCHANGED <<script, file, state, run, at, effects>>

Expire(d) ==
  /\ pending' = pending \ {d}
  /\ UNCHANGED <<script, file, state, run, at, answer, effects>>

ScriptStep ==
  Start \/ Skip \/ Submit \/ Save \/ Throw \/ Crash \/ Finish
ChainStep == \E d \in pending : Execute(d) \/ Revert(d) \/ Expire(d)

Next == ScriptStep \/ ChainStep

Spec == Init /\ [][Next]_vars
-----------------------------------------------------------------------------
(* The script's file, its process and the chain's books keep their types.  *)
TypeOK ==
  /\ script \in Scripts
  /\ file \subseteq Keys(script) /\ state \subseteq Keys(script)
  /\ run \in 0..MaxRuns
  /\ at \in 0..(Len(script.steps) + 1)
  /\ answer \in {"none", "sent", "ok", "reverted"}
  /\ pending \subseteq (1..MaxRuns) \X Steps(script)
  /\ effects \in [Steps(script) -> Nat]

(* What a later run skips has been done: a key on file stands for a call   *)
(* that took effect, however earlier runs ended.                           *)
OnFileIsOnChain ==
  \A i \in Steps(script) :
    Key(script, i) \in file /\ script.steps[i].wants = "ok" => effects[i] > 0

(* No call is under way before the contracts, balances and permissions it  *)
(* uses are there.                                                         *)
CallsFindWhatTheyNeed ==
  \A d \in pending :
    script.steps[d[2]].wants = "ok" => script.steps[d[2]].needs \subseteq Effective

(* A script that can read back all it wrote repeats at most one call for   *)
(* each time it was stopped: nothing is seeded, funded or credited again   *)
(* but the one step that was under way.                                    *)
ReadsBack(s) ==
  /\ \A i \in Steps(s) : s.steps[i].kept
  /\ s.reads = "upper" => Keys(s) \cap MixedCase = {}

Surplus == SumFunction([i \in Steps(script) |->
                          IF effects[i] > 1 THEN effects[i] - 1 ELSE 0])

StopsRepeatOneStepEach ==
  ReadsBack(script) /\ run > 0 => Surplus < run

(* A call that is there to be refused can only go through if a run gave up *)
(* waiting for it: in one run, refusal comes before the condition changes. *)
RefusedMovesOnlyAfterAStop ==
  \A i \in Steps(script) :
    script.steps[i].wants = "reverted" /\ effects[i] > 0 => run > 1

(* A step that is on file is not submitted again: the scripts are          *)
(* resumable.                                                              *)
RecordedStepsAreSkipped ==
  [][\A i \in Steps(script) :
       script.steps[i].kept /\ <<run, i>> \in pending' \ pending
         => Key(script, i) \notin file]_vars
=============================================================================
