------------------------------ MODULE Services ------------------------------
(***************************************************************************)
(* The programs around the agent's cycle: those that stake (AutoStaking),  *)
(* the seller of signals, the readers of the chain and of its history, the *)
(* cached answers of the web API, the pages that connect a wallet and let  *)
(* it vote, the liabilities, paper trading, the live feed, and the         *)
(* publication of decisions.  They share no state and do not call each     *)
(* other, so that, as in Registers, a behaviour here exercises one of them *)
(* (`studied').                                                            *)
(***************************************************************************)
EXTENDS AutoStaking

CONSTANTS
  Request, Route, PayTo, Auth, Payee,
  MaxHeight, MaxOpen,
  Caller, TTL, MaxTime,
  Key, Roles, MaxChanges,
  MaxClients,
  Figures, Par, Split, Amounts, Kept, MaxCycles, NaN,
  Contract, Window, MaxWire, MaxLosses,
  Package, Foreign, Calls, Known, Limit, McpPage, MaxDeploys,
  Wallet, Outsider, Decision, Pending, VoteThreshold, Byte, MaxPresses, MaxLoads,
  MaxCycle, InboxSize

VARIABLES
  ready, request, submitted, executed,
  height, panel,
  now, memo, inflight, answer,
  account, changes, session, fetches, who, redirected, timer, page,
  clients, level, index, path,
  prices, book, round,
  socket, wire, source, status, events, losses,
  deploys, reader, kept, got,
  quorum, ayes, place, voter, shown, loads, acting, sent, pressed,
  setup, agent, reasoning, public, log, flying, escalated, cached, console,
  studied

Seller == INSTANCE SignalService
Reads == INSTANCE ChainReads
Cache == INSTANCE Memo
Connect == INSTANCE ConnectPage
Tree == INSTANCE Liabilities
Paper == INSTANCE PaperTrading
Feed == INSTANCE LiveFeed
History == INSTANCE Indexer
Voting == INSTANCE VotingPage
Publish == INSTANCE Publication

sellerVars == <<ready, request, submitted, executed>>
readsVars == <<height, panel>>
memoVars == <<now, memo, inflight, answer>>
pageVars ==
  <<account, changes, session, fetches, who, redirected, timer, page>>
treeVars == <<clients, level, index, path>>
paperVars == <<prices, book, round>>
feedVars == <<socket, wire, source, status, events, losses>>
indexerVars == <<deploys, reader, kept, got>>
votingVars ==
  <<quorum, ayes, place, voter, shown, loads, acting, sent, pressed>>
publicationVars ==
  <<setup, agent, reasoning, public, log, flying, escalated, cached, console>>
allVars ==
  <<vars, sellerVars, readsVars, memoVars, pageVars, treeVars,
    paperVars, feedVars, indexerVars, votingVars, publicationVars, studied>>

ASSUME ServicesAssumption ==
  /\ Seller!SellerAssumption
  /\ Reads!ReadsAssumption
  /\ Cache!MemoAssumption
  /\ Connect!PageAssumption
  /\ Paper!PaperAssumption
  /\ Feed!FeedAssumption
  /\ History!IndexerAssumption
  /\ Voting!VotingAssumption
  /\ Publish!PublicationAssumption

(* What is not studied starts in one of its initial states.                *)
ServicesInit ==
  /\ Init /\ Seller!Init /\ Reads!Init /\ Cache!Init /\ Connect!Init /\ Tree!Init
  /\ Paper!Init /\ Feed!Init /\ History!Init /\ Voting!Init /\ Publish!Init
  /\ studied \in {"staking", "seller", "reads", "cache", "connect", "tree",
                  "paper", "feed", "history", "voting", "publication"}
  /\ studied # "seller" => ready
  /\ studied # "connect" => session = None
  /\ studied # "tree" => clients = 1
  /\ studied # "history" => reader = "trail"
  /\ studied # "voting" => place = "card"
  /\ studied # "publication" => setup.dryRun /\ setup.local

(* A step of the program that is studied; the others rest.                 *)
ServicesNext ==
  /\ UNCHANGED studied
  /\ \/ studied = "staking" /\ Next
     \/ studied # "staking" /\ UNCHANGED vars
  /\ \/ studied = "seller" /\ Seller!Next
     \/ studied # "seller" /\ UNCHANGED sellerVars
  /\ \/ studied = "reads" /\ Reads!Next
     \/ studied # "reads" /\ UNCHANGED readsVars
  /\ \/ studied = "cache" /\ Cache!Next
     \/ studied # "cache" /\ UNCHANGED memoVars
  /\ \/ studied = "connect" /\ Connect!Next
     \/ studied # "connect" /\ UNCHANGED pageVars
  /\ \/ studied = "tree" /\ Tree!Next
     \/ studied # "tree" /\ UNCHANGED treeVars
  /\ \/ studied = "paper" /\ Paper!Next
     \/ studied # "paper" /\ UNCHANGED paperVars
  /\ \/ studied = "feed" /\ Feed!Next
     \/ studied # "feed" /\ UNCHANGED feedVars
  /\ \/ studied = "history" /\ History!Next
     \/ studied # "history" /\ UNCHANGED indexerVars
  /\ \/ studied = "voting" /\ Voting!Next
     \/ studied # "voting" /\ UNCHANGED votingVars
  /\ \/ studied = "publication" /\ Publish!Next
     \/ studied # "publication" /\ UNCHANGED publicationVars

ServicesSpec == ServicesInit /\ [][ServicesNext]_allVars

-----------------------------------------------------------------------------

(* All of them keep their types.                                           *)
ServicesTypeOK ==
  /\ TypeOK /\ Seller!SellerTypeOK /\ Reads!ReadsTypeOK
  /\ Cache!MemoTypeOK /\ Connect!PageTypeOK
  /\ Paper!PaperTypeOK /\ Feed!FeedTypeOK /\ History!IndexerTypeOK
  /\ Voting!VotingTypeOK /\ Publish!PublicationTypeOK

(* Each product that was sent has a payment of its own, made to the        *)
(* account of its route (server.ts:171-193, :209-220).                     *)
DeliveriesArePaid == Seller!DeliveriesArePaid

(* The figures of a panel belong to one state of the chain (cspr.ts:       *)
(* 381-386).                                                               *)
ShownWasReal == Reads!ShownWasReal

(* What a panel shows was read (data.ts:450).  It does not hold.           *)
NothingWrongIsShown == Reads!NothingWrongIsShown

(* What a caller of the cached API is told was computed no longer ago than *)
(* the TTL (scorecard/route.ts:30-38).                                     *)
AnswersAreRecent == Cache!AnswersAreRecent

(* The connect page sends on only the key that is connected, on an answer  *)
(* for this key that names no role (connect/page.tsx:182-202).             *)
RoleHoldersStay == Connect!RoleHoldersStay

(* Each client of the book verifies with its own path only                 *)
(* (liabilities.ts:57-71, :84-91).                                         *)
EveryClientIsIncluded == Tree!EveryClientIsIncluded

(* A paper fill makes and loses nothing at the cycle's prices, and a cycle *)
(* with a missing price leaves no trace (simulate.ts:42-54, :70-103).      *)
PaperFillsAreNeutral == Paper!PaperFillsAreNeutral

(* Connected and with nothing on its way, the page is live only if no      *)
(* contract was given up (stream/route.ts:54-90, LiveFeed.tsx:23-30).      *)
LiveHidesNoLoss == Feed!LiveHidesNoLoss

(* The web's trail shows every deploy its pages could know of that is not  *)
(* older than all it shows (cspr.ts:195-216).                              *)
TrailHasNoGaps == History!TrailHasNoGaps

(* With a threshold of one byte, no page says that a decision is approved  *)
(* which the quorum has not approved (cspr.ts:727-733, govern/page.tsx:    *)
(* 127-128).                                                               *)
QuorumReachedIsTrue == Voting!QuorumReachedIsTrue

(* A vote that is counted for an account is one the account pressed, with  *)
(* the decision and the verdict of the button (build-vote/route.ts:23-54). *)
VotesBearTheirButton == Voting!VotesBearTheirButton

(* A console that reads IPFS shows only reasoning whose attestation is     *)
(* on-chain (attest.ts:54-67).                                             *)
ConsoleShowsAttested == Publish!ConsoleShowsAttested

-----------------------------------------------------------------------------
(* What the words say and the code does not do; none of these holds.       *)

(* "we never fabricate a price" (ingest.ts:2-3).                           *)
PricesWereQuoted == Paper!PricesWereQuoted

(* What cannot be valued is not saved (simulate.ts:58).                    *)
SavedWereValued == Paper!SavedWereValued

(* Live is not "a feed that's actually dead" (stream/route.ts:87-88).      *)
LiveListensToAll == Feed!LiveListensToAll

(* "a false "live"" is not shown (LiveFeed.tsx:29).                        *)
LiveIsConnected == Feed!LiveIsConnected

(* "every transaction a control REFUSED" is listed (cspr.ts:105).          *)
EveryRefusalIsListed == History!EveryRefusalIsListed

(* "No deploys yet" is said when there are none (chain.ts:334).            *)
NoDeploysMeansNone == History!NoDeploysMeansNone

(* A refusal is "control caught an inflated claim" (cspr.ts:229).          *)
RefusalsAreCaughtClaims == History!RefusalsAreCaughtClaims

(* What is not ours is said not to be (verify-tx/route.ts:11).             *)
OthersAreNotOurs == History!OthersAreNotOurs

(* A threshold of any size: "this decision is approved on-chain"           *)
(* (connect/page.tsx:80).                                                  *)
ReachedAtAnyThreshold == Voting!ReachedAtAnyThreshold

(* "yours is the deciding vote" (connect/page.tsx:98-99).                  *)
DecidingVoteDecides == Voting!DecidingVoteDecides

(* The state shown is that of the connected key (vote-state/route.ts:4).   *)
ShownForTheConnectedKey == Voting!ShownForTheConnectedKey

(* "attested & verified on-chain" (data.ts:401).                           *)
ShownIsAttested == Publish!ShownIsAttested

(* The verdict shown grades the decision shown (data.ts:405).              *)
VerdictIsOfTheDecision == Publish!VerdictIsOfTheDecision

(* Escalated decisions are in the inbox (pending/route.ts:3).              *)
EscalatedAreInTheInbox == Publish!EscalatedAreInTheInbox
=============================================================================
