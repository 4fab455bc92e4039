# Amanah on Casper: TLA+ models, model-checking runs and proofs

Amanah is an autonomous treasury agent for real-world assets. A TypeScript agent
(`src/agent`) buys a signal, asks a panel of models for a decision, attests the
decision's reasoning hash on Casper, lets an auditor and a quorum judge it, and then
moves allocations inside a vault whose contracts (`src/contracts`, Rust with Odra)
check it once more. This directory holds TLA+ modules of that system, the
configurations under which TLC checks them, and theorems that TLAPS proves for every
value of their constants. Source references are `file:line` under `src/`; contract
files without a directory are in `contracts/src`, agent files in `agent/src`.

Contents: [1 The system](#1-the-system) - [2 The modules](#2-the-modules) -
[3 The runs](#3-the-runs) - [4 The proofs](#4-the-proofs) -
[5 Disagreements](#5-where-the-code-and-its-words-disagree) -
[6 Not modelled](#6-what-is-not-modelled) - [7 Plan](#7-plan)

## 1 The system

### 1.1 Inventory

| component | state it keeps | operations | what makes it correct |
|---|---|---|---|
| Spend gate `spend_gate.rs` | limits, `spent_today`, `day_anchor`, expiry, allowlist, spender, owner | `check`, `set_limits`, `set_spender`, `revoke`, `add_allowlist` | a day's total stays within the limit in force; the kill switch holds |
| Auditor quorum `auditor_quorum.rs` | tally per hash, voted keys, voted accounts, registry, bonds | `vote`, `vote_as_caller`, `register_with_stake`, `open_register`, `slash`, `withdraw_stake` | each vote is counted once; approvals were signed; the purse covers the bonds |
| Compliance registry `compliance_registry.rs` | status and identity per address | `set_status`, `revoke`, `assert_valid` | only a valid agent trades |
| Reputation registry `reputation_registry.rs` | score (i64), used payment proofs | `record_payment`, `adjust` | a payment earns one point, once |
| Vault `rwa_vault.rs` | four allocations, principal, last heartbeat, frozen | `deposit`, `reallocate`, `heartbeat`, `freeze_if_stale`, `unfreeze` | value is conserved, the principal is backed, every check holds at the moment of the move |
| Policy and timelock `policy_engine.rs`, `governance_timelock.rs` | threshold, cap, version, owner; the queued value and its eta | setters, `transfer_ownership`, `queue`, `execute` | a change was announced for the delay, and only the queue makes it |
| Attestation log `attestation_log.rs` | entry per reasoning hash | `attest` | an entry stands for a signature of the agent's key |
| KYC verifier `zk_kyc.rs` | credential per agent, verified flag | `register_credential`, `prove` | verified means verified for the latest credential |
| Reserve verifier `zk_reserves.rs` with `solvency.ts`, `read-vault.ts`, `zk-reserves.ts` | proven total, solvent flag | `prove_reserves`; reading, proving, submitting | what is published as proven is backed, however late it executes |
| Agent cycle `index.ts` and what it awaits | the running cycle, in memory only | pay, verify, decide, stake, attest, credit, audit, slash, vote, move, prove | of a decision's consequences none precedes its attestation; moves were cleared; what is credited executed, and is credited once; a cycle that is answered ends |
| Panel and guard `consensus.ts`, `guard.ts` | the answers of one cycle | ask, tally, median, validate | a majority of the panel backs a move; a guarded move is admissible |
| Staking `autostake.ts`, `stake.ts`, `index.ts:174-196` | `.env.stake` | rule, guard, attest, delegate | advice is attested before it is staked; what is on file happened |
| Deploy and migration scripts `deploy*.ts`, `migrate-*.ts`, ... | one `.env.*` file each | install, call, save, resume | what is on file is on chain; a call finds what it needs |
| Signal service `signal-service/src` | whether it reached its facilitator; the token keeps the payments | challenge, verify, build, settle, deliver | what was delivered was paid for, once per delivery |
| Readers `web/lib/cspr.ts`, `web/app/api`, `mcp` | none; a cached answer in two routes | read a panel, keep an answer | a panel shows one state of the chain; a kept answer is recent |
| History `web/lib/cspr.ts:104-269`, `web/lib/data.ts:51-91`, `compliance-report`, `verify-tx`, `mcp/src/chain.ts:278-338` | pages of the indexer, kept for a minute | trail, exceptions, activity, continuity, evidence pack | a trail has no holes |
| Connect page `web/app/connect`, `useCsprClick.ts` | the account, the answer about it, the redirect | switch, sign out, ask, redirect | who has a role stays to be told |
| Voting card and approval inbox `web/app/connect`, `web/app/govern`, `build-vote`, `vote-state` | the quorum's state as last read, per decision; the button being carried out | read, join, vote, read again | "quorum reached" is true; a vote is what was pressed |
| Publication `attest.ts`, `audit.ts`, `web/lib/data.ts:93-190`, `:272-435`, `pending`, `reasoning` | files and pins of reasoning and verdicts | write, attest, pin, audit, escalate; read the newest of each | what everybody is shown is attested |
| Liabilities `liabilities.ts`, `merkle-verify.ts` | a JSON file | build the tree, verify an inclusion | every client verifies, with its own path only |
| Paper trading `simulate.ts`, `ingest.ts` | a JSON file of units and values | fetch prices, seed, fill, save | fills neither make nor lose paper money; without a price nothing is saved |
| Live feed `api/stream`, `LiveFeed.tsx` | a socket per contract; status and events shown | relay, warn, reconnect | LIVE hides no contract whose socket was lost |
| Alert bell `AlertBell.tsx`, `api/alerts` | alerts seen | poll, ring | not modelled |

### 1.2 How they interact

* The vault calls the gate, the compliance registry, the reputation registry and the
  quorum in one transaction (`rwa_vault.rs:141-186`). A transaction commits all its
  changes or none; between two transactions anybody may call anything.
* The agent talks to the contracts by deploys. A deploy is submitted, then awaited for
  a limited time (`casper.ts:88-109`). A wait that is given up does not take the deploy
  back: it may execute later, while the agent is somewhere else.
* The agent reads the vault one value at a time, each at the state root of that moment
  (`read-vault.ts:82-92`).
* The owner, the custodian, the auditors, watchers of the dead-man's switch and the
  timelock act on the same contracts from outside the agent.
* The agent buys from the signal service over HTTP (402, payment header, product); the
  service settles through a facilitator, and the token executes each authorization once.
* The pages and the MCP server read the same contracts through a node, a panel of fields
  at one state root.
* The agent publishes by files and IPFS pins beside the chain. The readers take the newest
  of each kind, and an indexer's pages of the newest deploys, which the web keeps for a
  minute.
* A person votes with a wallet: the page reads the quorum, the server builds the deploy, the
  wallet signs it, the chain executes it, and any of these may be late or be overtaken by a
  switch of accounts.
* Staking in the cycle, `autostake.ts` and `stake.ts` spend from one purse without
  knowing of each other. The scripts prepare what the agent runs on.

### 1.3 What is hard to test here

Orders of calls of several owners between two moves; the window of a day; a wrapped
64-bit sum or score; an answer that arrives after its deadline, in a later cycle or a
later run of a script; reads that are stale when used; a crash between a deploy and the
line that records it; pages of different ages that are merged; answers for the account of
before; a step that fails between two that were published. The list with a line for each is
`hazards` in `PROJECT.json`, and names the properties that cover it, or says why none does.

## 2 The modules

Chain: `Casper` holds the block time and what every contract sees of its chain: an
action is a committed transaction, a revert is a stuttering step, `Tick` is a later
block. `SaturatingAdd` is `u64::saturating_add`.

| module | models | extends / instances |
|---|---|---|
| `SpendGate` | the gate; `spentOn` and `killed` are history | Casper |
| `AuditorQuorum` | both ways to vote, bonds; `ayesByKey`, `ayesByCaller` say whose approval each unit of a tally is | |
| `ComplianceRegistry`, `ReputationRegistry` | the two registries | Casper / - |
| `Assets`, `Custody` | the four assets; the abstract promise of the treasury | |
| `RwaVault` | the vault composed with the four contracts it calls | the four above; `Promise == INSTANCE Custody` |
| `Governance`, `AttestationLog`, `ZkKyc` | policy with timelock; the log; the KYC verifier | Casper |
| `ZkReserves` | reserve verifier and its prover over a `Custody` vault | Custody |
| `Registers` | all contracts that hold no funds, on one chain | ZkReserves, and instances of the four |
| `AgentCycle` | `runCycle`, one action per awaited step, with the chain's answers | |
| `Consensus` | panel, tally, median, output guard | Assets |
| `AutoStaking` | the three programs that stake, and their purse | |
| `SignalService` | the seller: two gated routes, their requests, the token's transfers | |
| `ChainReads` | panels of contract state, field by field, over a growing chain | |
| `Memo` | the cache of two API routes | |
| `ConnectPage` | the page that connects a wallet | |
| `Liabilities` | the Merkle tree of the client book | |
| `PaperTrading` | prices and their sources, the paper portfolio | |
| `LiveFeed` | the relay of contract events and the page that shows them | |
| `Indexer` | what the readers make of the deploys' history | |
| `VotingPage` | the voting card and the approval inbox, over the quorum they vote in | `Quorum == INSTANCE AuditorQuorum` |
| `Publication` | how a decision becomes public, and what is read of it | |
| `Services` | all programs around the cycle | AutoStaking, and instances of the ten |
| `DeployScripts` | 25 scripts as sequences of steps | |
| `Migration` | the engine that runs a script: skip, submit, save, throw, crash, resume | DeployScripts |
| `*Proofs` | theorems about the module they are named after; those of `Registers` and `Services` are about all they compose, and `AgentProofs` is about `AgentCycle` and `Consensus` | the module, `FoldLemmas`, TLAPS |
| `FoldLemmas` | facts about naturals, sums, and the newest of a set, which several proofs need | |
| `MC*` | values of constants that a cfg file cannot write | the module |

Definitions have the names of the code where TLA+ allows it, and `map` in
`PROJECT.json` gives the lines each one stands for. A definition whose comment calls it
a mutant is a plausible mistake that the module does not use; it is there to show that
a property would notice it.

**SpendGate.** `Check` is `check()`: `SpentSoFar` is the rolled-over total,
`Expired` the expiry that `revoke()` sets to the block time. Limits, expiries and
amounts come from small sets. The day length is a constant.

**AuditorQuorum.** `Sign` is an auditor signing off-chain, for this or another
deployment; `Vote` relays such a signature, `VoteAsCaller` needs a registered caller.
The purse is part of the state, so that `transfer_tokens` can fail.

**RwaVault.** `Reallocate` is the whole transaction, with `Gate!Check` changing the gate
in the same step. `moves` and `movedOn` record what was moved, under which decision and
on which day; `seen` is the agent's last sign of life. `Promise` maps allocations to
holdings, approved hashes to passed decisions, and all means to stop the agent to
`halted`.

**Registers.** The contracts in it neither call nor read each other, so every behaviour
of all is an interleaving of a behaviour of each, and a property over the variables of
one of them is violated by the composition exactly when it is violated by that one
alone. The model therefore picks one (`studied`) and lets it run; the others keep their
initial state. `Governance` has hand-overs of ownership, re-queued values and a delay
that saturates. `AttestationLog` separates signing from recording. `ZkKyc` keeps
transcripts, each made for one credential and context. `ReputationRegistry` wraps at
its width. `ZkReserves` lets the vault move between the four reads of the prover, lets a
proof execute late, and lets others submit sound and unsound claims.

**AgentCycle.** `loop.step` is where `runCycle` waits. `Submit` sends the deploy of the
step, which may or may not have reached the node; the step's own action (`Attested`,
`Credited`, ...) is the line after the await with the outcome `ok`; `Requests` are the deploys a
step may send, each with its subject (the payment, the verdict or the voter). `Execute` needs what
the contract needs (`Admissible`). Not `ok` covers a revert, an error and a timeout. The
reasoning hash is the cycle's number: the blob holds cycle and time, so two cycles do not
share one. Payment hashes are named by the cycle that paid; the seller may name any of them,
or a deploy that executed and is no payment of the agent (`Elsewhere`), as
`verifySettlement` looks at nothing but the execution. An agent with `AutoStake` may
delegate idle funds before it attests, and an error of that is caught
(`index.ts:174-196`). The wait for a deploy has a deadline, a single request has none:
`Hang` is one that is never answered, at any step, after which the loop does nothing more
until the process is started again.

**Consensus.** Amounts, names and confidences that a model may write come from small sets
that include negative and oversized amounts, an unknown asset, and a move from an asset
to itself, and an action the agent does not know. Amounts are whole, so that the rounding
down of `guard.ts:113` does nothing. The median of an even number is the rounded mean, as in the code. The guard
reads its limits after the panel has answered, or cannot read them.

**AutoStaking.** Each program has its step and its decided amount; a delegation costs its
fee even when it reverts. `saved` is `.env.stake`.

**SignalService.** A request is verified, its product built, its payment settled, its
product sent; requests interleave at each of these awaits (`server.ts:162-198`). The
facilitator may find a payment valid that another request uses meanwhile. It reports
success for a transfer that executed, and may report failure, or nothing, for one that
still will. A restart drops the connections and asks the facilitator anew.

**ChainReads.** A figure is the height it was read at, so that "these figures belong
together" is "one height". Panels differ in how many fields they have and in what they do
without a state root; the two ways are in the code (`readBig` reads as 0, the others give
no data). Two panels of a request at a time are enough, as panels share nothing.

**Memo.** An answer has the time its reads began and the time it was computed; callers
share the one promise, and a computation may take any time.

**ConnectPage.** An effect of React is what happens when its dependencies change: its
clean-up, then its body. The wallet makes a new object for each report of an account
(`changes`), so the effects run for a key that stayed the same, too.

**Liabilities.** The tree is built level by level as in the code, with positions from 1;
a hash is what was hashed.

**PaperTrading.** A source gives a figure, or a row in which the figure is absent, null, an
empty or another text, or fails; `Number()` makes `NaN` or 0 of such rows, and each of the
three parsers lets other ones through (`GoldSpot`, `WtiSpot`, `CsprSpot`). `simulate.ts` asks for `null`
only, so `NaN` is a value like any other until it is written, when JSON makes `null` of it
(`Written`). A cycle is one step from the answers of the sources to the file: nothing
else writes it. Prices and amounts divide each other, so that units are whole; the rounding
of floating point is not modelled. `Torn` is a process that ends within `writeFileSync`,
after which `load()` finds no portfolio and the next cycle seeds one.

**LiveFeed.** `Start` is `start()` of the stream, which runs to its end before a socket can
have an event: each socket is still in its handshake when "ready" is sent. `OnOpen` is the end
of a handshake, for which the relay has no handler, and which may never come; `Handle` is one callback of the `EventSource`. A lost connection takes with it
what was under way, the relay closes its sockets, and the browser connects anew; after a 503
it does not.

**Indexer.** Only the history's order matters to the readers, so a deploy is its place, its
package and its outcome. A page is fresh, kept from before (`next: { revalidate: 60 }`), or
failed; the four readers differ in what they make of a failed one, and the definitions named
after them are functions of the pages.

**VotingPage.** The contract is `AuditorQuorum` itself, with accounts only. A page's answer
has each field as it is at that moment or unread; `Buttons` is what is rendered for the
state shown. A tally and a threshold are read as the first byte of the number
(`FirstByte`, for `readByte` of `cspr.ts`), where `Byte` is 256 in the code and small in the
runs. `Built` is what `build-vote` makes of the request, and the switch of accounts is
possible between any two steps.

**Publication.** A cycle's number stands for its reasoning, its hash and its blob. Writing
and pinning may fail without notice, a deploy to the log may execute after the agent gave it
up, and the agent may end anywhere. `setup` says whether the agent runs dry and whether the
web reads its disk.

**Services.** As in `Registers`, the programs in it share no state, and a behaviour
exercises one.

**Migration.** A step of a script is one deploy: a key, what the call depends on, whether
the chain takes it only once (installs under `allow_key_override = false`, replay-guarded
calls), the answer that is wanted (`reverted` for the demonstrations that a guard
refuses), and whether the script looks for the key at all. `file` is the `.env.*` file and
`Loaded` is what the script's regular expression finds in it. The older scripts ran
against the wasm of their own release, which is what their needs are taken from (a
`deposit` in `migrate-custody.ts` needs only its vault; the later vaults ask more of a
move). A deploy that was given up stays in `pending` and may execute in a later run.

## 3 The runs

`tlc -config X.cfg M` for each row. All but the last two columns are in `PROJECT.json`.

| run | module | what is checked | bounds, and why they are enough |
|---|---|---|---|
| SpendGate | MCSpendGate | running total is exact; every day within the limit; kill switch | 3 accounts, 3 days of 2 ms, two limit pairs, amounts 0-2: a limit can be lowered below what was spent, a boundary crossed twice, a spender replaced |
| AuditorQuorum | MCAuditorQuorum | tally, signatures, half the threshold, bonds backed | 2 keys with accounts, 1 hash, 2 deployments, threshold 3 (so that both ways to vote are needed), stakes below and at the minimum |
| RwaVault | MCRwaVault | conservation, principal, daily limit, freeze, the custody promise | 2 traded assets, principal 2, U256 cut at 2, 2 days, threshold 1 with a voter; every contract's calls are enabled |
| RwaVaultQuorum | MCRwaVault | moves were made on a quorum | 2 decisions and a key voter besides the account voter, threshold 2; time stands still |
| RwaVaultReuse | MCRwaVault | *violated*: one approval, one move | see section 5 |
| Registers | MCRegisters | credentials, payments, proven reserves, announced changes | u64 cut at 6 with a delay that overflows it, an i64 of -4..3 that wraps, 3 payments and credentials, 4 foreign claims around the principal of 2 |
| Consensus | MCConsensus | majority, median, guard | 4 models (an even panel, a tie, a failing model); symmetry in the models, which no definition tells apart |
| AgentCycle | AgentCycle | cleared moves; credits of what executed, once each | 2 cycles, so that everything of the first can be late in the second; 1 voter; 1 deploy of somebody else that the seller may name; requests that hang and crashes anywhere; no staking, which no property of the run is about |
| AgentCycleEnds | AgentCycle | only staking before the attestation; slash on a proven veto; an answered cycle ends | 1 cycle of an agent that may stake, 2 voters at hand, 1 elsewhere, threshold 2, a freeze within the cycle; what a cycle sends late is judged by that cycle's own deploys, so one is enough |
| Services | MCServices | staking: saved means delegated; deliveries paid; panels real; answers recent; role holders stay; clients included; paper fills neutral; live hides no lost socket; no holes in the trail; quorum reached is true; votes bear their button; the console shows what is attested | staking: two runs of `stake.ts`, a purse of 9 that some orders empty. Seller: 3 requests, 2 authorizations for one route and 1 for the other, so that one is used twice and one is for the wrong payee. Reads: 3 heights, 2 panels. Cache: a lifetime of 2 within 6. Page: 3 keys, 2 with roles, 4 changes. Tree: 1 to 9 clients, so that a tail is alone on one, two and three levels. Paper: 2 cycles with 2 prices per source, a missing one, and 0, and what is not a number, so that each pair of cycles values, skips or reseeds; the file keeps 1. Feed: 2 contracts, handshakes of any length, 2 lost connections, a window of 2. History: 2 packages and a foreign one, pages of 2 of up to 4 deploys, so that a page is full, cut, older than another, or failed. Voting: 2 wallets, an outsider, threshold 2 and a byte of 3 values, so that a tally of all three voters reads as 0, 2 decisions, 2 buttons and 2 reads under way, so that an answer can be of another account, time or decision. Publication: 2 cycles, so that everything of the first can be late in the second |
| Migration | MCMigration | file, repetitions, refusals | all 25 scripts, up to 3 starts, so that a run can be overtaken by deploys of two earlier ones |
| MigrationResumes | MCMigration | *violated*: recorded steps are skipped | the two scripts concerned |

Type invariants: each module's is a theorem (section 4), so no run repeats it; `Services`
states those of its ten programs as one, and `Registers` those of its contracts.

**Deadlock** is checked in all runs of contracts and of `Consensus`. The agent stops after
`MAX_CYCLES` cycles (`index.ts:360-369`) and the programs and scripts after their last
run, the tree has a root, and the clock of the cache is
bounded, so the cfgs of `AgentCycle`, `Services` and `Migration` say
`CHECK_DEADLOCK FALSE`.

**Fairness** is assumed by one run: `WF_vars(AgentStep)` in `AgentCycle`. A promise that is
resolved or rejected resumes the function, so a step that stays possible is taken. That a
request is answered at all is *not* assumed: `fetch` and the SDK get no deadline
(`casper.ts:95`, `x402.ts:33`, `:49`, `reason.ts:28`, `audit.ts:83`, `attest.ts:104`,
`attested-inference.ts:69`), so `Hang`, which is outside `AgentStep`, may take place at any
step and disables all others of the cycle. Nothing is assumed of the chain, the seller or the
models either: a deploy may stay in flight for ever, as the wait for it is counted
(`casper.ts:88-109`). `EveryAnsweredCycleEnds` says that a cycle ends or hangs;
that it ends, `EveryCycleEnds`, fails (section 5).

**What the refinement shows.** `KeepsCustodyPromise` says that five contracts, called by
anybody in any order, are one simple thing to their owners: holdings change only by
funding, or by a move between two assets that conserves the total while nothing halts the
agent, some decision has passed, and the principal is there.

**Symmetry** is used in `Consensus` only, and no temporal property is checked there.

## 4 The proofs

`tlapm M.tla` for each of the seven `*Proofs` modules and for `FoldLemmas`. The assumptions
are the named `ASSUME`s of the modules; TLC evaluates them in every run. Every proof is about
the whole specification, for all constants that meet them: any number of accounts, keys,
hashes or cycles, any limits, any width of the integers, any time bound. Three assumptions are
there for the sums: the accounts of the bonds and of the registry of scores are finitely many
(an address of the chain is a tag and 32 bytes), and the amounts of paper trading can be
divided by its prices, as units are whole in the model. Two are there for the types: the value
that stands for "no deploy" is no deploy, and the chain has a first height.

| module | theorems | inductive invariant |
|---|---|---|
| SpendGateProofs | `SpendGateTyped`, `SpentIsExact`, `DailyLimitHolds`, `RevocationIsFinal` | types, the exact total, and that a killed gate has an expiry which is over. The daily limit is an action property and follows from the exact total: `Check` compares `spent_today`, which is what was committed on that day |
| AuditorQuorumProofs | `QuorumTyped`, `TallyCountsEachVoterOnce`, `ApprovalsAreSigned`, `PassedByHalfTheThreshold`, `BondsBelongToRegistered`, `BondsStayBacked`, `NoBondIsStuck` | the tally is the sum of two cardinalities *and* who is counted has its vote on file; without the second half a vote could be counted twice. The half-threshold bound follows as a key has one account: an account appears at most twice. That the purse is the sum of the bonds is inductive by itself: each call changes one bond and the purse by as much, and a sum of naturals is no less than each of them, which is why no transfer fails (`NoBondIsStuck`) |
| RwaVaultProofs | `TreasuryTyped`, `NothingMinted`, `PrincipalIsBacked`, `SeparationOfDuties`, `DailyLimitBindsMoves`, `OnlySilenceFreezes`, `ContractsKeepThePromise`, `GateImplemented`, `QuorumImplemented` | the invariants of the four components, lifted through `INSTANCE` (a step of the composition is a step or a stutter of each: `GateImplemented`, `QuorumImplemented`), with the vault's own: total equals what was deposited, a vault that traded has its principal, moved-on-a-day is at most spent-on-that-day, the last heartbeat is no earlier than `seen`, moves were under passed decisions (`VaultInv /\ Components`) |
| RegistersProofs | `ReservesTyped`, `ProvenReservesStay`, `LateProofsAreHarmless`, `ReservesStayOnTheChain`, `EntriesAreSigned`, `VerificationIsCurrent`, `OnlyAnnouncedChanges`, `PaymentsAreWorthOnePoint`, `RegistersTyped` | one per contract, lifted through `INSTANCE` to the composition. `ReservesInv`: types, what is proven is backed, and a contract that accepted nothing has no total and no floor; a vault that keeps the custody promise never lets its total fall, so a proof that was sound when it was made still is when it lands. `LogInv`: no signature is from the future. `KycInv`: types and the property itself, which is inductive. `PolicyInv`: what is queued was the last to be announced, and its time of execution is no earlier than the delay after that, or is the largest number; `PolicyTypes` adds that what is queued was proposed, so that the 0 of an empty timelock never becomes the threshold. `ReputationInv`: types, and the sum of all credits is the number of payments consumed, a finite set that grows by one with each credit |
| MigrationProofs | `MigrationTypeCorrect`, `FileTellsTheTruth`, `NeedsAreMet`, `RefusalsHoldInOneRun`, `OneRepetitionPerStop`, `MigrationInvariant` | `MInv`: a key in the process or on file has its effect; all steps before the current one that are wanted to succeed had theirs; an answer is true of the current step. For refusals, `FirstRunInv`: in the first run nothing beyond the current step was sent, the current step's call is out only while it is awaited, and beyond a call that is to be refused nothing is sent until it has been. For repetitions, `RepeatInv`: the calls made again, together with the step that is open now (`Debt`), are no more than the runs so far, and only a run that has not ended owes one; a step that was answered and saved is never open again. All this holds for every set of well-formed scripts (a call that is to be refused needs something no earlier step provides, and a script that stops at the end makes only calls the chain takes once), and TLC confirms that the 25 scripts are well-formed |
| AgentProofs (`AgentCycle`) | `CyclesKeepInvariant`, `AgentCycleTyped`, `OnlyStakingComesFirst`, `OnlyClearedMoves`, `OneCreditPerSettlement`, `SlashesAreProven` | `IInv`: where the running cycle is says which of its deploys can be out (`InStep`), what it waits for is what its step asked for (`Waits`), what it knows of its decision, its payment and its veto is what was found, and nothing is known of the cycles ahead. The properties alone are not inductive: a deploy that lands late is judged by what was true when it was sent, so each fact is carried over deploys in flight as well as executed ones. A cycle that hangs rests like one that ended. Of a credit the invariant says that the deploy named by the seller had executed when it was sent, which is all that was verified (`Paid`). One lemma per action, and one for all the ways a cycle ends |
| AgentProofs (`Consensus`) | `MovesAreBacked`, `MediansAreRobust`, `GuardAdmitsWithinLimits`, `ConsensusTyped` | `ConsensusInv`: the three properties, with "a decision is made only when nobody is asked any more" (so its votes stay) and "limits are read only for a decision". They rest on `KthExists` and `MedianIsBetween`: the k-th smallest amount of a finite group exists, has a member on each side and, but for the first and the last, another one; so the median, or the mean of the two middle ones, is between two members, whichever member of three or more is left out. That the mean confidence is a number (`MeanIsANumber`) needs that the library's fold adds up integers (`IntegersAddUp`) |
| ServicesProofs | `StakingIsAttested`, `ProductsArePaid`, `PanelsAreOfOneState`, `ToldIsRecent`, `OnlyObserversAreSentOn`, `ReachedIsReached`, `CountedVotesWerePressed`, `LiveMeansNothingLost`, `PinnedIsAttested`, `TrailIsWhole`, `HistoryTyped`, `ClientsAreIncluded`, `PaperTyped`, `FillsAreNeutral`, `ServicesTyped` | one per program, all about `ServicesSpec`; `StepOfEach` says that a step of the composition is a step or a stutter of each. Staking: a run knows the deploy it waits for, and `autostake.ts` is at its delegation only with its attestation on the chain. Seller: a request whose payment is under way or made was verified for its route and has its product, and no two executed requests share an authorization. Panels: the figures are of the panel's root, and there is none before it. Cache: what is kept was computed no later than now, and what callers were told was recent then. Page: a timer is set only by an answer without a role for the connected account. Voting: what is being carried out and what was sent was pressed, and what is shown as approved has the tally, which never falls; a threshold that fits into a byte is read as it is, and a tally as no more than it is (`ByteOfNumber`). Feed (`EndsOff`): while the socket of a contract was refused or is lost, the last greeting or warning under way is a warning. Publication: what is pinned, and what the agent is about to pin, is attested, and an old list of pins has nothing else. History (`HistoryInv`): a page is the newest `Limit` deploys of its package as of some length of the history, which is all the merge needs: where the history is cut, the page that cuts it is full (`MergedHasNoGaps`). Tree (`TreeInv`): besides the property, the node of each client is one of the level and its path a sequence; by the definition of the fold, a path that is one hop longer folds to that hop of what it folded to before (`FoldOfOneMore`), and a hop leads to a node above from that node only, the lone last node included (`HopLeadsUp`). Paper: what is bought for an amount is a whole number of units, worth the amount at that price (`WholeUnits`), and a fill takes no more than there is; what has no price, or one that is no number, is not filled, so NaN never enters the units. Types of all: that purse and stake stay numbers needs that a run sends no deploy twice (`SentOnce`: what it may still send, `Ahead`, is disjoint from what it sent), and that purse plus stake is at most what the run began with |
| FoldLemmas | (lemmas) | the least and largest element of a set of naturals; how a sum over a function changes with one value, and bounds each; which elements the newest n of a finite set are, and that lists of them merged have no holes |

Each property of a passing run is stated by a theorem, except `EveryAnsweredCycleEnds`: liveness and
ENABLED are out of the prover's reach and stay with TLC. Induction over data is out of reach
too, as the library's theorems take an operator as a parameter. Where a property needs it, the
proof uses what the data are made of instead: a set of naturals has a least and a largest
element (`FoldLemmas`, from the well-foundedness of their order), sums of a finite function change
with the value that changes, as the library's fold is defined by a recursive function on the
finite subsets, and the tree's paths are followed one level at a time by the specification's
own steps. Of pure helpers (the fold up a path, a merge, a median) the proofs therefore say
what the properties need, and not what they compute for every input.

Proved and in no run: `BondsBelongToRegistered`, `NoBondIsStuck`, `LateProofsAreHarmless`,
`NeedsAreMet`, `EntriesAreSigned`, the type invariants, and the
two lifted specifications.

## 5 Where the code and its words disagree

Two are runs that end in a violation.

* `RwaVaultReuse`: `rwa_vault.rs:156-157` says the auditors "must have signed APPROVE for
  exactly this decision on-chain", and `reallocate` asks only whether the hash it is given
  was approved. Neither assets nor amount are bound to it and it is not consumed, so
  different moves go through under one approval.
* `MigrationResumes`: `migrate-custody.ts:4` says "Resumable via ../.env.custody"
  (`migrate-compliance.ts:5` alike), and reads the file back with `/^([A-Z0-9_]+)=(.+)$/`
  (`:34`, `migrate-compliance.ts:27`). `SEED_Gold` and `SEED_TBond` do not match, so a
  second run makes both deposits again although they are on file. The later scripts read
  with an expression that matches.

The others are definitions that do not hold. Each row names a configuration: to reproduce it,
put the row's property in the place of the properties of the cfg (as the only `INVARIANT` or
`PROPERTY`), with the changes the row names. In `ServicesWords.cfg`, which states all of its
rows, TLC stops at the first; leave one at a time.

| cfg (module) | property | the words | what the model shows |
|---|---|---|---|
| SpendGate (MCSpendGateRolling), `SPECIFICATION RollingSpec`, `Limits <- MCOneLimit`, `Expiries = {0}`, `CHECK_DEADLOCK FALSE` | RollingLimit | "rolling daily limit" (`spend_gate.rs:1`, `common.rs:52`) | the window is the calendar day: twice the limit within one day's length around midnight |
| AuditorQuorum (MCAuditorQuorum) | ApprovedByThreshold | "each vote is an independent on-chain signature from a distinct key" (`auditor_quorum.rs:7-8`) | a holder of a key who is registered as an account too counts twice; half the threshold is what holds, and is proved |
| a cfg for ComplianceRegistry with `SPECIFICATION Spec`, `Address = {registrar, agent}`, `Registrar = registrar`, `Subjects = {agent}` | RevokedIsPermanent | "Permanently blocked." (`common.rs:39`) | `set_status` makes a revoked address valid again |
| Registers (MCRegisters) | SolventReadsAreProvable | "Prove solvency for the CURRENT vault state" (`solvency.ts:36`); the zero-safe wrapper at `range-proof.ts:29-30` has no counterpart here | an allocation of 0 cannot be committed to (`zk-reserves.ts:59`), so a solvent vault with an empty asset has no proof |
| Consensus (MCConsensus), `Panel = {m1, m2, m3}` | OutlierIsHarmless | "no single model can inflate" (`consensus.ts:39-40`) | the median of two is their mean; with three backers or more it holds (`OutlierAmongThreeIsHarmless`) |
| AgentCycle (AgentCycle) | OnlyPaymentsAreCredited | "credit the x402 payment, but ONLY if it VERIFIABLY settled on-chain" (`index.ts:227-229`) | a deploy that executed is credited, whoever sent it and whatever it did: `x402.ts:79-101` looks at its error only |
| AgentCycleEnds (AgentCycle) | EveryCycleEnds | "a TEE outage never blocks the cycle" (`index.ts:157-158`) | the request to it has no deadline (`attested-inference.ts:69`), nor has any other: one that is never answered stops the loop |
| AgentCycle (AgentCycle) | EveryCycleAsksForProof | "PROVE SOLVENCY - every cycle" (`index.ts:335`) | a hold, an escalation or a veto returns before it |
| AgentCycle (AgentCycle) | MovesHaveAnAuditOnChain | "attests its verdict on-chain" (`index.ts:244-245`) | an audit attestation that fails is caught and the move goes on |
| AgentCycle (AgentCycle), `MaxCycle = 3`, `StaleCycles = 2` | RunningAgentIsNotFrozen | "an agent that heartbeats every cycle (~60s) is never stale" (`rwa_vault.rs:88-89`) | the cycle sends no heartbeat; only moves count as one |
| a cfg for ConnectPage with `SPECIFICATION FairSpec`, `Key = {custodian, visitor}`, `Roles = {custodian}`, `MaxChanges = 3`, `CHECK_DEADLOCK FALSE` | ObserversAreSentOn | "An observer key has nothing to be told, so send it where it wanted to go" (`web/app/connect/page.tsx:193`) | an account change within the 900 ms cancels the timer, and the redirect counts as made; the fairness assumed is that a timer fires and a request is answered |
| ServicesWords (MCServices) | CycleStakingIsAttested | "yield management is attested on-chain" (`index.ts:213-214`) | the cycle stakes first; if it ends before the attestation the stake has none |
| ServicesWords (MCServices) | BufferStaysLiquid | "never stake below this liquid" (`autostake.ts:16`) | two programs that read the same balance both stake |
| ServicesWords (MCServices) | NothingWrongIsShown | "Honest fallbacks: \"-\" (not plausible-but-wrong numbers) until read from chain" (`web/lib/data.ts:450`) | a field whose read fails is 0, and a freeze that cannot be read is "not frozen" (`web/lib/cspr.ts:394`, `:518`) |
| ServicesWords (MCServices) | PricesWereQuoted | "we never fabricate a price" (`ingest.ts:2-3`) | a row without a figure is a price of 0 or NaN (`ingest.ts:50`, `:70`) |
| ServicesWords (MCServices) | SavedWereValued | "or null if prices were too incomplete to value this cycle" (`simulate.ts:58`): such a cycle is not to be saved | a value of NaN passes `== null` (`:49`, `:103`), and the cycle is saved with its fill, its value written as null |
| ServicesWords (MCServices) | LiveListensToAll | "its "LIVE" dot can go amber instead of implying a feed that's actually dead" (`stream/route.ts:87-88`) | "ready" is sent before the handshakes (`:54`, `:61`), which have no deadline: the page is LIVE with no socket open |
| ServicesWords (MCServices) | ReachedAtAnyThreshold | "this decision is approved on-chain" (`connect/page.tsx:80`) | `readByte` (`cspr.ts:471-485`) returns the first byte of a u32: a threshold of 257 reads as 1 and is reached by one approval. For thresholds below 256 it is true, and proved (`ReachedIsReached`) |
| ServicesWords (MCServices) | LiveIsConnected | "reflect it instead of a false \"live\"" (`LiveFeed.tsx:29`) | `onerror` keeps the status while the browser has no connection |
| ServicesWords (MCServices) | EveryRefusalIsListed | "every transaction a control REFUSED" (`web/lib/cspr.ts:105`) | one page of each package is read, and one that fails is an empty one |
| ServicesWords (MCServices) | NoDeploysMeansNone | "No deploys yet" (`mcp/src/chain.ts:334`) | an answer that is not ok is no deploys |
| ServicesWords (MCServices) | RefusalsAreCaughtClaims | "control caught an inflated claim" (`web/lib/cspr.ts:229`) | all errors count, those of the platform too |
| ServicesWords (MCServices) | OthersAreNotOurs | "it's Amanah's; otherwise it isn't" (`verify-tx/route.ts:10-11`) | a deploy of no package has the empty name, which is known when a contract has no hash configured |
| ServicesWords (MCServices) | DecidingVoteDecides | "yours is the deciding vote" (`connect/page.tsx:98-99`) | the tally that was read is older than the vote |
| ServicesWords (MCServices) | ShownForTheConnectedKey | the state is "for the connected key" (`vote-state/route.ts:4`) | an answer for the account of before is not ignored |
| ServicesWords (MCServices) | ShownIsAttested | "attested & verified on-chain" (`web/lib/data.ts:401`) | a blob is written before its attestation and stays when it fails |
| ServicesWords (MCServices) | VerdictIsOfTheDecision | "The independent auditor ... grades the decision on-chain" (`web/lib/data.ts:405`) | the newest of each is read on its own |
| ServicesWords (MCServices) | EscalatedAreInTheInbox | "decisions the agent ESCALATED" are in the inbox (`pending/route.ts:3`) | a decision whose pin failed is not, as the notice is sent all the same |

Not a definition: an entry of the log is "A recorded, signature-verified decision"
(`attestation_log.rs:11`), while the signature covers the reasoning hash only and not the
decision text beside it; a second `attest` under the same hash may bring another text.
`EntriesWereSignedBefore`, which `EntriesAreSigned` proves, therefore speaks of the hash.

## 6 What is not modelled

* **Cryptography.** A signature is the record of what was signed, a Schnorr transcript the
  credential and context it was made for, a commitment what it opens to.
* **The payment token** (`payment_token.rs`) wraps the CEP-18 library of Odra, whose logic
  is not in this repository.
* **Prompts, inference, notifications.** Their results are the nondeterministic inputs of
  `Consensus` and `AgentCycle`; `scanForInjection` (regular expressions over text) is a
  Boolean there. Of the **market data**, `PaperTrading` has the three prices that are units
  of account; the Treasury yield, the second CSPR feed and the two MCP clients feed prompts
  only.
* **The read-back of the staked position** (`stake.ts`, `autostake.ts`) informs a log line.
* **The other pages and the bot** format what they are given.
* **Range proofs** (`range-proof.ts`) are curve arithmetic.
* **The alert bell** (`AlertBell.tsx`) compares what it polls with the names it has seen,
  of which it keeps 200 (`:32`), and the alerts for a freeze and for insolvency have
  constant names (`api/alerts/route.ts:35-36`), so a second freeze is one that was seen. The
  terminal's `stream.ts` prints what the relay would send.
* **A payment whose answer is lost** (`server.ts:180-197` after a settlement) leaves a buyer
  with neither product nor claim; nothing in the service promises otherwise.
* **A hole of an older page**: `TrailHasNoGaps` speaks of the deploys of the pages that are
  merged; when a kept page of one package is older than those of others, its newer deploys are
  missing between theirs.
* **Pins of a dry run** are made with no attestation, and stay when the agent runs live later.
* **The score** of the reputation registry wraps at its width; the model has the wrap and no
  property forbids it.
* **Writing a file** is one step, except in `PaperTrading` (`Torn`): `writeFileSync` truncates
  first, and a process killed in between loses what was there. Key generation and the
  balance check of `deploy-mainnet.ts` are left out as they precede the first deploy.

## 7 Plan

Done, in this order: the gate, the quorum and the registries; the vault over them with the
custody promise; the contracts without funds; the agent cycle; consensus; reserves;
staking; scripts; the services around the cycle; paper trading, the live feed, the
indexer's readers, voting and publication; proofs of every safety and action property.

What is left:

1. Compose `SignalService` with the buyer's `Pay` and `Verify` of `AgentCycle`: the abstract
   sale (a credit stands for a settled payment, a delivery for a payment of its own) as the
   specification both sides implement.
2. `AlertBell` beside the live feed.
3. Theorems about the composed sale, once it is there: credits and deliveries of one payment.
