---------------------------- MODULE PaperTrading ----------------------------
(***************************************************************************)
(* Paper mode (agent/src/simulate.ts): a cycle fetches prices from         *)
(* independent sources, decides as ever, and applies the decision to a     *)
(* portfolio of units in a file instead of to the vault.  Any source may   *)
(* fail, or answer without a figure, which is a price that is missing, 0   *)
(* or not a number: with a missing price nothing is saved, the other two   *)
(* are prices as any.                                                      *)
(*                                                                         *)
(* `prices' is the snapshot of the last cycle and `book' the file: None    *)
(* when there is none that parses.  `round' counts the cycles.  Amounts    *)
(* are multiples of every price, so that units stay whole.                 *)
(***************************************************************************)
EXTENDS Integers, Sequences, FiniteSets

CONSTANTS
  Figures,      \* prices that a source may quote
  Par,          \* the price of TBond
  Split,        \* the vault's USD holdings when a portfolio is seeded
  Amounts,      \* USD a decision may move
  Kept,         \* cycles that the file keeps (500 in the code)
  MaxCycles,    \* bound on the cycles
  None,
  NaN           \* what Number() makes of what is no figure

VARIABLES prices, book, round

paperVars == <<prices, book, round>>

Priced == {"Gold", "WTI", "CSPR"}
Asset == Priced \cup {"TBond"}

PaperAssumption ==
  /\ Figures \subseteq Nat \ {0} /\ Par \in Nat \ {0}
  /\ Split \subseteq [Asset -> Nat]
  /\ Amounts \subseteq Nat
  /\ \A m \in Amounts : \A p \in Figures \cup {Par} : m % p = 0
  /\ Kept \in Nat \ {0} /\ MaxCycles \in Nat
  /\ None \notin Nat /\ NaN \notin Nat \cup {None}

Price == Figures \cup {0, None, NaN}
Snapshot == [Priced -> Price]
Book ==
  [startNav : Nat \cup {None}, units : [Asset -> Nat], cycles : Seq(Nat \cup {None})]

PaperTypeOK ==
  /\ prices \in Snapshot
  /\ book \in Book \cup {None}
  /\ book # None => Len(book.cycles) <= Kept
  /\ round \in 0..MaxCycles

Init ==
  /\ prices = [a \in Priced |-> None]
  /\ book = None
  /\ round = 0

-----------------------------------------------------------------------------

(* What a source answers: a figure, or a row in which it is absent, null,  *)
(* an empty text or another text; or an error, or no row.                  *)
Answer ==
  [says : {"figure"}, figure : Figures]
    \cup [says : {"absent", "null", "blank", "text", "error"}, figure : {None}]

(* The price that is taken from it: gold and CSPR reject some of what is   *)
(* no figure, WTI none of it.                                              *)
GoldSpot(answer) == IF answer.says = "text" THEN NaN ELSE answer.figure
CsprSpot(answer) == IF answer.says = "blank" THEN 0 ELSE GoldSpot(answer)
WtiSpot(answer) ==
  CASE answer.says \in {"absent", "text"} -> NaN
    [] answer.says \in {"null", "blank"} -> 0
    [] OTHER -> answer.figure

(* The snapshot of one set of answers: a failure takes its own field only. *)
Ingest(answer) ==
  [Gold |-> GoldSpot(answer["Gold"]), WTI |-> WtiSpot(answer["WTI"]),
   CSPR |-> CsprSpot(answer["CSPR"])]

PriceOf(asset, snapshot) == IF asset = "TBond" THEN Par ELSE snapshot[asset]

Worth(units, snapshot, asset) ==
  IF PriceOf(asset, snapshot) \in {None, NaN} THEN 0
  ELSE units[asset] * PriceOf(asset, snapshot)

(* What the units that have a price are worth.                             *)
Valued(units, snapshot) ==
  Worth(units, snapshot, "Gold") + Worth(units, snapshot, "WTI")
  + Worth(units, snapshot, "CSPR") + Worth(units, snapshot, "TBond")

(* What units are worth, NaN if a price is, or None if one is missing.     *)
Nav(units, snapshot) ==
  LET priced == {PriceOf(a, snapshot) : a \in Asset}
  IN  CASE None \in priced -> None
        [] None \notin priced /\ NaN \in priced -> NaN
        [] OTHER -> Valued(units, snapshot)

(* What the file says of a number, and what is read back of it.            *)
Written(n) == IF n = NaN THEN None ELSE n

(* The portfolio that the vault's split buys, or None.  Of an asset whose  *)
(* price is NaN it holds NaN units, which are written null and count as 0. *)
Seeded(split, snapshot) ==
  IF \E a \in Asset : PriceOf(a, snapshot) \in {None, 0} THEN None
  ELSE LET bought == [a \in Asset |-> IF PriceOf(a, snapshot) = NaN THEN 0
                                      ELSE split[a] \div PriceOf(a, snapshot)]
       IN  [startNav |-> Written(Nav(bought, snapshot)), units |-> bought, cycles |-> <<>>]

Proposal ==
  [action : {"rebalance"}, from : Asset, to : Asset, amount : Amounts]
    \cup {[action |-> "hold"], [action |-> "escalate"]}

Fillable(units, snapshot, d) ==
  /\ d.action = "rebalance" /\ d.amount > 0 /\ d.from # d.to
  /\ {PriceOf(d.from, snapshot), PriceOf(d.to, snapshot)} \cap {None, NaN, 0} = {}
  /\ units[d.from] >= d.amount \div PriceOf(d.from, snapshot)

(* Mutant: bought at the price of what was sold.                           *)
FilledAtOnePrice(units, snapshot, d) ==
  IF ~Fillable(units, snapshot, d) THEN units
  ELSE [units EXCEPT ![d.from] = @ - d.amount \div PriceOf(d.from, snapshot),
                     ![d.to] = @ + d.amount \div PriceOf(d.from, snapshot)]

(* The units after the paper fill of a decision.                           *)
Filled(units, snapshot, d) ==
  IF ~Fillable(units, snapshot, d) THEN units
  ELSE [units EXCEPT ![d.from] = @ - d.amount \div PriceOf(d.from, snapshot),
                     ![d.to] = @ + d.amount \div PriceOf(d.to, snapshot)]

LastKept(cycles) ==
  IF Len(cycles) <= Kept THEN cycles
  ELSE SubSeq(cycles, Len(cycles) - Kept + 1, Len(cycles))

(* What the file holds after a cycle, or None if it is left as it is.      *)
Advanced(st, snapshot, d) ==
  LET after == Filled(st.units, snapshot, d)
      nav == Nav(after, snapshot)
  IN  IF nav = None THEN None
      ELSE [st EXCEPT !.units = after, !.cycles = LastKept(Append(@, Written(nav)))]

Cycle ==
  /\ round < MaxCycles /\ round' = round + 1
  /\ \E snapshot \in {Ingest(answer) : answer \in [Priced -> Answer]} :
       /\ prices' = snapshot
       /\ \E st \in IF book # None THEN {book}
                    ELSE {Seeded(split, prices') : split \in Split} :
            IF st = None THEN book' = book
            ELSE \E d \in Proposal :
                   LET new == Advanced(st, prices', d)
                   \* the vault may be unreadable, the file not writable
                   IN  book' \in {book, IF new = None THEN book ELSE new}

(* The process ends in the middle of the write: the file does not parse.   *)
Torn == book # None /\ book' = None /\ UNCHANGED <<prices, round>>

Next == Cycle \/ Torn

-----------------------------------------------------------------------------

FilledNeutrally(units, after, snapshot) ==
  /\ Valued(after, snapshot) = Valued(units, snapshot)
  /\ \A a \in Asset : PriceOf(a, snapshot) \in {NaN, 0} => after[a] = units[a]

(* Paper money is made and lost by prices only: whatever sources fail or   *)
(* answer and whatever is decided, what of a portfolio has a price is      *)
(* worth the same before and after the fill of a cycle that is saved, what *)
(* has none or costs nothing is not filled, and a cycle for which a price  *)
(* is missing leaves no trace of its fill (simulate.ts:42-54, :70-103).    *)
PaperFillsAreNeutral ==
  [][book # None /\ book' \notin {None, book} =>
       /\ Nav(book'.units, prices') # None
       /\ FilledNeutrally(book.units, book'.units, prices')]_paperVars

(* "we never fabricate a price" (ingest.ts:2-3).                           *)
PricesWereQuoted == \A a \in Priced : prices[a] \notin {0, NaN}

(* "or null if prices were too incomplete to value this cycle"             *)
(* (simulate.ts:58): every cycle in the file has its value.                *)
SavedWereValued == book # None => \A i \in DOMAIN book.cycles : book.cycles[i] # None
=============================================================================
