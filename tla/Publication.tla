---------------------------- MODULE Publication ----------------------------
(***************************************************************************)
(* How a decision becomes public, and what readers make of it.  The agent  *)
(* writes the reasoning to disk, attests its hash on-chain and, once the   *)
(* deploy has executed, pins it to IPFS; the auditor writes and pins its   *)
(* verdict before it attests it; then the decision may be escalated.  The  *)
(* console reads the newest reasoning, the newest attestation and the      *)
(* newest verdict, each for itself; the inbox lists pins of escalated      *)
(* decisions.  A web beside the agent reads its disk, a deployed one the   *)
(* pins, of which an older list may be cached.                             *)
(*                                                                         *)
(* A cycle's number stands for its reasoning and the hash of it.  `setup'  *)
(* is how agent and web run; `agent' the cycle and its step; `reasoning'   *)
(* what was decided; `public' where what was published; `log' the          *)
(* attestation log's deploys, and `flying' those that may still execute;   *)
(* `escalated' what was given to a human; `cached' the pin of an older     *)
(* list; `console' what a page shows.                                      *)
(***************************************************************************)
EXTENDS Integers, Sequences, FiniteSets, FiniteSetsExt

CONSTANTS MaxCycle, InboxSize, None

VARIABLES
  setup, agent, reasoning, public, log, flying, escalated, cached, console

publicationVars ==
  <<setup, agent, reasoning, public, log, flying, escalated, cached, console>>

PublicationAssumption == MaxCycle \in Nat /\ InboxSize \in Nat \ {0}

Cycles == 1..MaxCycle
Blob == [action : {"rebalance", "hold", "escalate"}, forced : BOOLEAN]
AgentSteps ==
  {"idle", "persist", "attest", "await", "pin", "audit", "judge"}

PublicationTypeOK ==
  /\ setup \in [dryRun : BOOLEAN, local : BOOLEAN]
  /\ agent \in [cycle : 0..MaxCycle, step : AgentSteps]
  /\ reasoning \in Seq(Blob)
  /\ public \in [disk : SUBSET Cycles, pins : SUBSET Cycles,
                 verdicts : SUBSET Cycles, verdictPins : SUBSET Cycles]
  /\ log \in Seq([of : Cycles, ok : BOOLEAN])
  /\ flying \subseteq Cycles /\ escalated \subseteq Cycles
  /\ cached \in 0..MaxCycle
  /\ console = None \/ console.blob \in Cycles

Init ==
  /\ setup \in [dryRun : BOOLEAN, local : BOOLEAN]
  /\ agent = [cycle |-> 0, step |-> "idle"]
  /\ reasoning = <<>>
  /\ public = [disk |-> {}, pins |-> {}, verdicts |-> {}, verdictPins |-> {}]
  /\ log = <<>> /\ flying = {} /\ escalated = {}
  /\ cached = 0 /\ console = None

-----------------------------------------------------------------------------
(* The agent and the chain.                                                *)

At(step) == agent.step = step
GoTo(step) == agent' = [agent EXCEPT !.step = step]
AgentOnly == UNCHANGED <<setup, cached, console>>
Current == reasoning[agent.cycle]

(* A tainted cycle's decision is forced to escalate.                       *)
Guarded(d, tainted) ==
  IF tainted THEN [action |-> "escalate", forced |-> TRUE] ELSE d

Decide ==
  /\ At("idle") /\ agent.cycle < MaxCycle
  /\ agent' = [cycle |-> agent.cycle + 1, step |-> "persist"]
  /\ \E d \in {b \in Blob : ~b.forced}, tainted \in BOOLEAN :
       reasoning' = Append(reasoning, Guarded(d, tainted))
  /\ UNCHANGED <<public, log, flying, escalated>> /\ AgentOnly

Publishes(place) ==
  public' \in {public, [public EXCEPT ![place] = @ \cup {agent.cycle}]}

(* The file is written, or a warning is.                                   *)
PersistBlob ==
  /\ At("persist") /\ Publishes("disk") /\ GoTo("attest")
  /\ UNCHANGED <<reasoning, log, flying, escalated>> /\ AgentOnly

(* A dry run submits nothing and carries on as if it had.                  *)
Submit ==
  /\ At("attest")
  /\ IF setup.dryRun THEN GoTo("pin") /\ UNCHANGED flying
     ELSE GoTo("await") /\ flying' = flying \cup {agent.cycle}
  /\ UNCHANGED <<reasoning, public, log, escalated>> /\ AgentOnly

Attested == {log[i].of : i \in {i \in DOMAIN log : log[i].ok}}

(* Mutant: nobody waits for the deploy.                                    *)
NotAwaited == TRUE
Executed == agent.cycle \in Attested

WaitForExecution ==
  /\ At("await") /\ Executed /\ GoTo("pin")
  /\ UNCHANGED <<reasoning, public, log, flying, escalated>> /\ AgentOnly

(* The deploy was refused, reverted or took too long, or the process ends: *)
(* the cycle is over, whatever it has published.                           *)
Throw ==
  /\ ~At("idle") /\ GoTo("idle")
  /\ UNCHANGED <<reasoning, public, log, flying, escalated>> /\ AgentOnly

PinToIpfs ==
  /\ At("pin") /\ Publishes("pins") /\ GoTo("audit")
  /\ UNCHANGED <<reasoning, log, flying, escalated>> /\ AgentOnly

(* The verdict is written and pinned, each if it can be.                   *)
AttestAudit ==
  /\ At("audit") /\ GoTo("judge")
  /\ \E places \in SUBSET {"verdicts", "verdictPins"} :
       public' = [p \in DOMAIN public |->
                    IF p \in places THEN public[p] \cup {agent.cycle} ELSE public[p]]
  /\ UNCHANGED <<reasoning, log, flying, escalated>> /\ AgentOnly

(* A decision is given to a human if it says so, if the confidence is      *)
(* below the threshold, or if the auditor vetoes a move; or it is held, or *)
(* carried out, which nothing here depends on.                             *)
Judge ==
  /\ At("judge") /\ GoTo("idle")
  /\ \E unsure, vetoed \in BOOLEAN :
       LET human == \/ Current.action = "escalate" \/ unsure
                    \/ Current.action = "rebalance" /\ vetoed
       IN  escalated' = escalated \cup (IF human THEN {agent.cycle} ELSE {})
  /\ UNCHANGED <<reasoning, public, log, flying>> /\ AgentOnly

(* A deploy to the log executes or reverts, in time or late.               *)
LogStep ==
  \E n \in flying, ok \in BOOLEAN :
    /\ log' = Append(log, [of |-> n, ok |-> ok])
    /\ flying' = flying \ {n}
    /\ UNCHANGED <<agent, reasoning, public, escalated>> /\ AgentOnly

-----------------------------------------------------------------------------
(* The readers.                                                            *)

Newest(ns) == IF ns = {} THEN None ELSE Max(ns)

(* A list of pins that is cached for a while, then renewed.                *)
LatestBlobFromPinata ==
  {Newest(public.pins), None} \cup (IF cached = 0 THEN {} ELSE {cached})

(* What a reader takes for the latest: the newest file if there is one     *)
(* that parses, or else the newest pin.                                    *)
LatestBlob ==
  IF setup.local /\ public.disk # {}
  THEN {Max(public.disk)} \cup LatestBlobFromPinata
  ELSE LatestBlobFromPinata

LatestVerdict ==
  IF setup.local /\ public.verdicts # {} THEN {Max(public.verdicts)}
  ELSE {Newest(public.verdictPins), None}

(* The newest deploy to the log, whether it executed or reverted.          *)
LatestDeploy == {0, IF log = <<>> THEN 0 ELSE log[Len(log)].of}

ReaderOnly ==
  UNCHANGED <<setup, agent, reasoning, public, log, flying, escalated>>

(* A page reads the reasoning first, then everything else.                 *)
OpenConsole ==
  /\ \E n \in LatestBlob :
       /\ console' = IF n = None THEN None
                     ELSE [blob |-> n, deploy |-> None, verdict |-> None, read |-> FALSE]
       /\ cached' \in {cached} \cup (IF public.pins = {} THEN {} ELSE {Max(public.pins)})
  /\ ReaderOnly

GetAgentConsole ==
  /\ console # None /\ ~console.read
  /\ \E deploy \in LatestDeploy, n \in LatestVerdict :
       console' = [console EXCEPT !.deploy = deploy, !.verdict = n, !.read = TRUE]
  /\ UNCHANGED cached /\ ReaderOnly

(* What the inbox lists of the newest pins, in its places but the first,   *)
(* which a demonstration has.                                              *)
Inbox ==
  LET listed == {n \in public.pins :
                   /\ Cardinality({m \in public.pins : m > n}) < InboxSize
                   /\ reasoning[n].action = "escalate" \/ reasoning[n].forced}
  IN  {n \in listed : Cardinality({m \in listed : m > n}) < InboxSize - 1}

(* What the MCP server says of a hash: that the file hashes to it.         *)
GetAttestation(n) == n \in public.disk

Next ==
  \/ Decide \/ PersistBlob \/ Submit \/ WaitForExecution \/ Throw \/ PinToIpfs
  \/ AttestAudit \/ Judge \/ LogStep
  \/ OpenConsole \/ GetAgentConsole

-----------------------------------------------------------------------------

(* Whatever deploys revert, expire or execute late and wherever the agent  *)
(* stops, a console that reads IPFS shows only reasoning whose attestation *)
(* is on-chain: it is pinned after the deploy (attest.ts:54-67).           *)
ConsoleShowsAttested ==
  console # None /\ ~setup.local /\ ~setup.dryRun => console.blob \in Attested

(* "attested & verified on-chain" (data.ts:401).                           *)
ShownIsAttested == console # None => console.blob \in Attested

(* "The independent auditor (a second key) grades the decision" (data.ts:  *)
(* 405): the verdict shown is about the decision shown.                    *)
VerdictIsOfTheDecision ==
  console # None /\ console.verdict # None => console.verdict = console.blob

(* "decisions the agent ESCALATED instead of executing" (pending/route.ts: *)
(* 3): those that were pinned are in the inbox.                            *)
EscalatedAreInTheInbox ==
  Cardinality(public.pins) < InboxSize => escalated \cap public.pins \subseteq Inbox
=============================================================================
