----------------------------- MODULE VotingPage -----------------------------
(***************************************************************************)
(* How a person votes: the card of the connect page offers one pending     *)
(* decision, the approval inbox (govern/page.tsx) those the agent          *)
(* escalated.  The page reads the quorum's state for the connected key,    *)
(* offers to join the registry or to vote, has the server build the        *)
(* transaction and the wallet sign it, and reads again after 6 and 14      *)
(* seconds.  Answers, signatures and blocks come in any order, the wallet  *)
(* may switch accounts, and other auditors vote meanwhile.                 *)
(*                                                                         *)
(* `quorum' and `ayes' are the contract's (AuditorQuorum); `place' is      *)
(* which page this is; `voter' the connected account; `shown' what the     *)
(* page holds of each decision; `loads' the reads under way; `acting' the  *)
(* button being carried out; `sent' the deploys not yet executed.          *)
(* `pressed' is history: the buttons that were pressed.                    *)
(***************************************************************************)
EXTENDS Integers, FiniteSets

CONSTANTS
  Wallet,       \* accounts of the person at the page
  Outsider,     \* accounts that use the quorum elsewhere
  Decision,     \* reasoning hashes
  Pending,      \* the decision that the card offers
  VoteThreshold,
  Byte,         \* the number of values of a byte (256)
  MaxPresses,   \* bound on the buttons pressed
  MaxLoads,     \* bound on the reads under way
  None

VARIABLES quorum, ayes, place, voter, shown, loads, acting, sent, pressed

votingVars ==
  <<quorum, ayes, place, voter, shown, loads, acting, sent, pressed>>

Account == Wallet \cup Outsider

VotingAssumption ==
  /\ Pending \in Decision
  /\ VoteThreshold \in Nat \ {0} /\ Byte \in Nat \ {0}
  /\ MaxPresses \in Nat /\ MaxLoads \in Nat
  /\ IsFiniteSet(Account) /\ Wallet \cap Outsider = {}

(* The contract, of which the pages use the open registry only.            *)
Quorum == INSTANCE AuditorQuorum WITH
  Address <- Account, Key <- Account, AccountOf <- [a \in Account |-> a],
  Hash <- Decision, Auditors <- {}, Threshold <- VoteThreshold,
  InstanceId <- 0, Instances <- {0}, Slasher <- CHOOSE a \in Account : TRUE,
  MinStake <- 0, Funds <- 0, Attachments <- {},
  purse <- 0, signed <- {}, wallet <- [a \in Account |-> 0],
  ayesByKey <- [h \in Decision |-> {}], ayesByCaller <- ayes

(* The tally is kept as far as a page tells it apart: whether the quorum   *)
(* is reached, or short of it by one approval.                             *)
VoteState ==
  [approved : BOOLEAN, lacksOne : BOOLEAN, registered : BOOLEAN, of : Wallet]
Button == [action : {"register", "vote"}, hash : Decision, approve : BOOLEAN, pk : Wallet]

VotingTypeOK ==
  /\ quorum \in Quorum!Storage
  /\ place \in {"card", "inbox"}
  /\ voter \in Wallet \cup {None}
  /\ shown \in [Decision -> VoteState \cup {None}]
  /\ loads \subseteq [hash : Decision, pk : Wallet, n : 0..2]
  /\ acting \in Button \cup {None}
  /\ sent \subseteq Button /\ pressed \subseteq Button

Unread == [h \in Decision |-> None]

Init ==
  /\ Quorum!Init
  /\ place \in {"card", "inbox"}
  /\ voter = None /\ shown = Unread /\ loads = {}
  /\ acting = None /\ sent = {} /\ pressed = {}

(* The decisions of the page.                                              *)
Offered == IF place = "card" THEN {Pending} ELSE Decision

-----------------------------------------------------------------------------
(* Reading.                                                                *)

Load(pk, n) == {[hash |-> h, pk |-> pk, n |-> n] : h \in Offered}

(* The account changes, at which the page reads; a card is made anew for a *)
(* session, and forgotten with it, an inbox stays.                         *)
AccountIs(a) ==
  /\ a # voter
  /\ a # None => Cardinality(loads \cup Load(a, 0)) <= MaxLoads
  /\ voter' = a
  /\ shown' = IF place = "card" /\ None \in {a, voter} THEN Unread ELSE shown
  /\ loads' = IF a # None THEN loads \cup Load(a, 0)
              ELSE IF place = "card" THEN {} ELSE loads
  /\ UNCHANGED <<quorum, ayes, place, acting, sent, pressed>>

(* What is read of a number: the first byte, the least significant one.    *)
FirstByte(n) == n % Byte

(* Mutant: a threshold that could not be read is reached by any tally.     *)
ReachedUnread(a, t) == a >= t

Reached(a, t) == t > 0 /\ a >= t

(* What the server answers: each field as far as a byte tells it, or 0 if  *)
(* it cannot be read at this moment; or nothing.                           *)
QuorumVotes(hash, pk) ==
  {[approved |-> Reached(a, t), lacksOne |-> a = t - 1, registered |-> r, of |-> pk] :
      a \in {0, FirstByte(quorum.approvals[hash])}, t \in {0, FirstByte(VoteThreshold)},
      r \in {known \in BOOLEAN : known => pk \in quorum.auditor_addrs}} \cup {None}

(* An answer comes, whichever was asked for first.                         *)
Answered(l) ==
  /\ loads' = loads \ {l}
  /\ \E answer \in QuorumVotes(l.hash, l.pk) :
       shown' = [shown EXCEPT ![l.hash] = answer]
  /\ UNCHANGED <<quorum, ayes, place, voter, acting, sent, pressed>>

-----------------------------------------------------------------------------
(* Acting.                                                                 *)

(* The buttons for a decision whose state is known to the page.            *)
Choices(hash, st) ==
  IF voter = None \/ st.approved THEN {}
  ELSE IF ~st.registered
  THEN {[action |-> "register", hash |-> hash, approve |-> TRUE, pk |-> voter]}
  ELSE [action : {"vote"}, hash : {hash}, approve : BOOLEAN, pk : {voter}]

(* A card that could not read has none; an inbox then offers to join.      *)
CardButtons(hash) ==
  IF shown[hash] = None THEN {} ELSE Choices(hash, shown[hash])
InboxButtons(hash) ==
  Choices(hash, IF shown[hash] = None
                THEN [approved |-> FALSE, registered |-> FALSE] ELSE shown[hash])
Buttons(hash) ==
  IF place = "card" THEN CardButtons(hash) ELSE InboxButtons(hash)

Press(button) ==
  /\ acting = None /\ Cardinality(pressed) < MaxPresses
  /\ acting' = button /\ pressed' = pressed \cup {button}
  /\ UNCHANGED <<quorum, ayes, place, voter, shown, loads, sent>>

(* Mutants: a vote is always for the card's decision, or always APPROVE.   *)
BuiltForPending(button) == [button EXCEPT !.hash = Pending]
BuiltApproving(button) == [button EXCEPT !.approve = TRUE]

(* The transaction that build-vote makes of what the page asks for; the    *)
(* card names no decision.                                                 *)
Built(button) ==
  IF place = "card" THEN [button EXCEPT !.hash = Pending] ELSE button

(* The wallet of the key that pressed signs and sends it, and the page     *)
(* reads again twice; or it is sent, but the page is told of an error.     *)
Send ==
  /\ acting # None
  /\ sent' = sent \cup {Built(acting)}
  /\ LET again == {[hash |-> acting.hash, pk |-> acting.pk, n |-> n] : n \in 1..2}
     IN  \/ /\ Cardinality(loads \cup again) <= MaxLoads
            /\ loads' = loads \cup again
         \/ UNCHANGED loads
  /\ acting' = None
  /\ UNCHANGED <<quorum, ayes, place, voter, shown, pressed>>

(* The server refuses, the SDK is not there, or the person cancels.        *)
Cancel ==
  /\ acting # None /\ acting' = None
  /\ UNCHANGED <<quorum, ayes, place, voter, shown, loads, sent, pressed>>

(* A deploy executes, or reverts or expires.                               *)
Execute(tx) ==
  /\ sent' = sent \ {tx}
  /\ \/ tx.action = "register" /\ Quorum!OpenRegister(tx.pk)
     \/ tx.action = "vote" /\ Quorum!VoteAsCaller(tx.pk, tx.hash, tx.approve)
     \/ UNCHANGED <<quorum, ayes>>
  /\ UNCHANGED <<place, voter, shown, loads, acting, pressed>>

Elsewhere ==
  /\ \E a \in Outsider : \/ Quorum!OpenRegister(a)
                         \/ \E h \in Decision : Quorum!VoteAsCaller(a, h, TRUE)
  /\ UNCHANGED <<place, voter, shown, loads, acting, sent, pressed>>

Next ==
  \/ \E a \in Wallet \cup {None} : AccountIs(a)
  \/ \E l \in loads : Answered(l)
  \/ \E h \in Offered : \E button \in Buttons(h) : Press(button)
  \/ Send \/ Cancel
  \/ \E tx \in sent : Execute(tx)
  \/ Elsewhere

-----------------------------------------------------------------------------

(* With a threshold that fits a byte, "Approved on-chain - quorum reached" *)
(* is never said of a decision that the quorum has not approved, whatever  *)
(* read fails, comes late, is of another account or of a tally that fits   *)
(* no byte (cspr.ts:727-733, connect/page.tsx:79-80, govern/page.tsx:      *)
(* 127-128).                                                               *)
QuorumReachedIsTrue ==
  VoteThreshold < Byte =>
    \A h \in Decision :
      shown[h] # None /\ shown[h].approved => Quorum!Approved(h)

(* "this decision is approved on-chain" (connect/page.tsx:80), whatever    *)
(* the threshold: one of 257 is read as 1.                                 *)
ReachedAtAnyThreshold ==
  \A h \in Decision :
    shown[h] # None /\ shown[h].approved => Quorum!Approved(h)

(* A vote that the contract counts for an account of this page is one this *)
(* account pressed, for the decision shown beside the button and with the  *)
(* button's verdict, although the account, the answers and the chain may   *)
(* change until it is signed and executed (build-vote/route.ts:23-54,      *)
(* connect/page.tsx:29-49).                                                *)
VotesBearTheirButton ==
  \A h \in Decision : \A u \in Wallet :
    LET voted(b) == [action |-> "vote", hash |-> h, approve |-> b, pk |-> u] \in pressed
    IN  /\ u \in ayes[h] => voted(TRUE)
        /\ <<h, u>> \in quorum.voted_addr => \E b \in BOOLEAN : voted(b)

(* "yours is the deciding vote" (connect/page.tsx:98-99): of a registered  *)
(* account, while the decision is not approved.                            *)
DecidingVoteDecides ==
  place = "card" /\ voter # None =>
    LET v == shown[Pending]
    IN  v # None /\ v.registered /\ ~v.approved => v.lacksOne

(* "Live state of the interactive auditor quorum for the connected key"    *)
(* (vote-state/route.ts:4): once all answers are in.                       *)
ShownForTheConnectedKey ==
  voter # None /\ loads = {} =>
    \A h \in Offered : shown[h] # None => shown[h].of = voter
=============================================================================
