-------------------------------- MODULE Memo --------------------------------
(***************************************************************************)
(* The in-process cache of /api/scorecard and /api/staking: an answer is   *)
(* kept for TTL, and callers that find none share one computation.  A      *)
(* computation reads the chain; nothing bounds how long it takes.          *)
(*                                                                         *)
(* `memo' is the kept answer: when it was computed (at) and when its reads *)
(* began (from).  `inflight' is the promise that is shared, without an     *)
(* `at' while its computation runs, and `answer' what each caller was told *)
(* last.                                                                   *)
(***************************************************************************)
EXTENDS Naturals

CONSTANTS Caller, TTL, MaxTime, None

VARIABLES now, memo, inflight, answer

memoVars == <<now, memo, inflight, answer>>

MemoAssumption == TTL \in Nat \ {0} /\ MaxTime \in Nat

Time == 0..MaxTime
Answers == [from : Time, at : Time]

MemoTypeOK ==
  /\ now \in Time
  /\ memo \in Answers \cup {None}
  /\ inflight \in Answers \cup {None} \cup [from : Time, at : {None}]
  /\ answer \in [Caller -> [told : Answers \cup {None}, time : Time,
                            waits : BOOLEAN]]

Init ==
  /\ now = 0
  /\ memo = None /\ inflight = None
  /\ answer = [c \in Caller |-> [told |-> None, time |-> 0, waits |-> FALSE]]

Told(a) == [told |-> a, time |-> now, waits |-> FALSE]

Fresh == memo # None /\ now - memo.at < TTL

(* A caller is told what is kept, or else awaits the promise; the first of *)
(* them starts the computation.                                            *)
Call(c) ==
  /\ ~answer[c].waits
  /\ answer' = [answer EXCEPT ![c] =
       IF Fresh THEN Told(memo)
       ELSE IF inflight # None /\ inflight.at # None THEN Told(inflight)
       ELSE [@ EXCEPT !.waits = TRUE]]
  /\ inflight' = IF Fresh \/ inflight # None THEN inflight
                 ELSE [from |-> now, at |-> None]
  /\ UNCHANGED <<now, memo>>

Running == inflight # None /\ inflight.at = None

(* Mutant: the promise stays when it is settled.                           *)
KeptPromise(a) == a

(* finally: the promise is dropped when it is settled.                     *)
Finally(a) == None

(* All who wait are told, and the answer is kept from now on.              *)
Computed ==
  /\ Running
  /\ LET a == [inflight EXCEPT !.at = now]
     IN  /\ memo' = a
         /\ inflight' = Finally(a)
         /\ answer' = [c \in Caller |-> IF answer[c].waits THEN Told(a) ELSE answer[c]]
  /\ UNCHANGED now

(* The computation fails: all who wait get an error.                       *)
Rejected ==
  /\ Running
  /\ inflight' = None
  /\ answer' = [c \in Caller |-> [answer[c] EXCEPT !.waits = FALSE]]
  /\ UNCHANGED <<now, memo>>

Tick ==
  /\ now < MaxTime /\ now' = now + 1
  /\ UNCHANGED <<memo, inflight, answer>>

Next == (\E c \in Caller : Call(c)) \/ Computed \/ Rejected \/ Tick

-----------------------------------------------------------------------------

(* However calls, failures and slow reads overlap, what a caller is told   *)
(* was computed no longer ago than the TTL (scorecard/route.ts:15-17,      *)
(* :32-39).                                                                *)
AnswersAreRecent ==
  \A c \in Caller :
    answer[c].told # None => answer[c].time - answer[c].told.at < TTL
=============================================================================
