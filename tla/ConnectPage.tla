---------------------------- MODULE ConnectPage ----------------------------
(***************************************************************************)
(* The page that connects a wallet (connect/page.tsx, useCsprClick.ts): it *)
(* asks the server what the connected key may do, tells a key with a role  *)
(* so, and sends any other on to the dashboard after a moment.  Accounts   *)
(* are switched and signed out while answers are under way.                *)
(*                                                                         *)
(* `account' is the account that is connected and `changes' how often it   *)
(* changed (a new object each time, for the same key too); `session' is    *)
(* the key of an earlier session that is still to be reported; `fetches'   *)
(* are the requests under way, `who' the answer on display; `redirected'   *)
(* and `timer' are the page's redirect.                                    *)
(***************************************************************************)
EXTENDS Naturals

CONSTANTS
  Key,          \* accounts of the wallet
  Roles,        \* those to which the contracts give a role
  MaxChanges,   \* bound on how often the account changes
  None

VARIABLES account, changes, session, fetches, who, redirected, timer, page

pageVars ==
  <<account, changes, session, fetches, who, redirected, timer, page>>

Fetches == [of : Key, nr : 0..MaxChanges]
Answers == [of : Key, says : {"role", "observer", "unreadable"}]

PageAssumption ==
  Roles \subseteq Key /\ MaxChanges \in Nat /\ None \notin Key /\ None \notin Answers

PageTypeOK ==
  /\ account \in Key \cup {None} /\ changes \in 0..MaxChanges
  /\ session \in Key \cup {None}
  /\ fetches \subseteq Fetches
  /\ who \in Answers \cup {None}
  /\ redirected \in BOOLEAN /\ timer \in BOOLEAN
  /\ page \in {"connect", "entered", "sent"}

Init ==
  /\ account = None /\ changes = 0
  /\ session \in Key \cup {None}
  /\ fetches = {} /\ who = None
  /\ redirected = FALSE /\ timer = FALSE
  /\ page = "connect"

-----------------------------------------------------------------------------

(* Mutant: the redirect is not remembered.                                 *)
RedirectAgain(shownTo, answer) ==
  /\ timer' = (shownTo # None /\ answer # None /\ answer.says # "role")
  /\ redirected' = redirected

(* The effect that redirects runs anew for a new account or answer; the    *)
(* one before it is cleaned up, and its timer with it.                     *)
Redirect(shownTo, answer) ==
  LET go == /\ shownTo # None /\ answer # None /\ ~redirected
            /\ answer.says # "role"
  IN  /\ timer' = go
      /\ redirected' = (redirected \/ go)

(* The effect that asks runs anew for a new account: the answer to the     *)
(* question before it will be ignored, and the one on display stays until  *)
(* it comes, unless nobody is connected.                                   *)
AccountIs(k) ==
  /\ page = "connect" /\ changes < MaxChanges
  /\ account' = k /\ changes' = changes + 1
  /\ who' = IF k = None THEN None ELSE who
  /\ fetches' = IF k = None THEN fetches
                ELSE fetches \cup {[of |-> k, nr |-> changes']}
  /\ Redirect(k, who)
  /\ UNCHANGED page

SignedIn(k) == AccountIs(k) /\ UNCHANGED session

SignedOut == account # None /\ AccountIs(None) /\ UNCHANGED session

(* The wallet reports the session it had when it was asked.                *)
SessionFound ==
  /\ session # None /\ AccountIs(session)
  /\ session' = None

(* Is the effect that asked still the last one?                            *)
Live(f) == f.nr = changes

(* whoami: what the contracts say; a field that reads as an error looks    *)
(* like no role.                                                           *)
Says(k) == {"observer", "unreadable"} \cup (IF k \in Roles THEN {"role"} ELSE {})

(* A second failure in a row is no new answer to the page.                 *)
StillUnreadable(says) ==
  who # None /\ who.says = "unreadable" /\ says = "unreadable"

(* An answer comes.                                                        *)
Answered(f) ==
  /\ page = "connect"
  /\ fetches' = fetches \ {f}
  /\ IF Live(f)
     THEN \E says \in Says(f.of) :
            LET answer == [of |-> f.of, says |-> says]
            IN  /\ who' = answer
                /\ IF StillUnreadable(says) THEN UNCHANGED <<redirected, timer>>
                   ELSE Redirect(account, answer)
     ELSE UNCHANGED <<who, redirected, timer>>
  /\ UNCHANGED <<account, changes, session, page>>

(* After 900 ms.                                                           *)
Push ==
  /\ page = "connect" /\ timer
  /\ page' = "sent" /\ timer' = FALSE
  /\ UNCHANGED <<account, changes, session, fetches, who, redirected>>

(* The button.                                                             *)
Enter ==
  /\ page = "connect" /\ account # None
  /\ page' = "entered" /\ timer' = FALSE
  /\ UNCHANGED <<account, changes, session, fetches, who, redirected>>

Next ==
  \/ (\E k \in Key : SignedIn(k)) \/ SignedOut \/ SessionFound
  \/ \E f \in fetches : Answered(f)
  \/ Push \/ Enter

Spec == Init /\ [][Next]_pageVars

FairSpec == Spec /\ WF_pageVars(Push) /\ WF_pageVars(\E f \in fetches : Answered(f))

-----------------------------------------------------------------------------

(* The page sends on only the key that is connected, on an answer that was *)
(* given for this key and names no role: a custodian who has switched from *)
(* another account stays to be told (connect/page.tsx:182-202).            *)
RoleHoldersStay ==
  [][ page # "sent" /\ page' = "sent" =>
        who # None /\ who.of = account /\ who.says # "role" ]_pageVars

(* "An observer key has nothing to be told, so send it where it wanted to  *)
(* go" (connect/page.tsx:193): an observer that stays connected is sent on *)
(* in the end.                                                             *)
ObserversAreSentOn ==
  \A k \in Key \ Roles : <>[](account = k) => <>(page # "connect")
=============================================================================
