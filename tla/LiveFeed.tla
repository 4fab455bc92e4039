------------------------------ MODULE LiveFeed ------------------------------
(***************************************************************************)
(* The live feed of the dashboard: the relay /api/stream holds one socket  *)
(* of CSPR.cloud per contract and passes their events on, as server-sent   *)
(* events, to the page (components/LiveFeed.tsx), which shows the last of  *)
(* them and whether it is live.  The browser reconnects by itself when the *)
(* connection is lost; the page stays.                                     *)
(*                                                                         *)
(* `socket' is the relay's sockets for the current connection, `wire' what *)
(* it has sent and the page not yet handled, `source' the browser's        *)
(* EventSource, `status' and `events' what the page shows.                 *)
(***************************************************************************)
EXTENDS Naturals, Sequences, FiniteSets

CONSTANTS
  Contract,     \* the contracts that are followed
  Window,       \* events the page shows (8 in the code)
  MaxWire,      \* bound on the messages under way
  MaxLosses     \* bound on the connections that are lost

VARIABLES socket, wire, source, status, events, losses

feedVars == <<socket, wire, source, status, events, losses>>

FeedAssumption ==
  IsFiniteSet(Contract) /\ Window \in Nat \ {0} /\ MaxWire \in Nat /\ MaxLosses \in Nat

Message ==
  [type : {"open", "ready", "warn"}] \cup [type : {"event"}, label : Contract]
NoSockets == [c \in Contract |-> "none"]

FeedTypeOK ==
  /\ socket \in [Contract -> {"none", "connecting", "up", "down"}]
  /\ wire \in Seq(Message)
  /\ source \in {"connecting", "open", "closed"}
  /\ status \in {"connecting", "live", "off"}
  /\ events \in Seq(Contract) /\ Len(events) <= Window
  /\ losses \in 0..MaxLosses

Init ==
  /\ socket = NoSockets /\ wire = <<>> /\ source = "connecting"
  /\ status = "connecting" /\ events = <<>> /\ losses = 0

-----------------------------------------------------------------------------
(* The relay.                                                              *)

Warns(n) == [i \in 1..n |-> [type |-> "warn"]]
Refused(sockets) == Cardinality({c \in Contract : sockets[c] = "none"})

(* Mutant: "ready" once the sockets are there.                             *)
GreetingLast(sockets) ==
  <<[type |-> "open"]>> \o Warns(Refused(sockets)) \o <<[type |-> "ready"]>>

(* What a new connection brings: the answer itself, "ready", and a warning *)
(* for each socket that could not even be made.                            *)
Greeting(sockets) ==
  <<[type |-> "open"], [type |-> "ready"]>> \o Warns(Refused(sockets))

(* start(): runs to its end before any socket has an event; each is made   *)
(* and still has its handshake to do, which has no deadline.               *)
Start ==
  /\ source = "connecting" /\ wire = <<>> /\ socket = NoSockets
  /\ socket' \in [Contract -> {"none", "connecting"}]
  /\ wire' = Greeting(socket')
  /\ UNCHANGED <<source, status, events, losses>>

Serving == wire # <<>> \/ source = "open"
Send(messages) ==
  /\ Len(wire) + Len(messages) <= MaxWire
  /\ wire' = wire \o messages

(* The handshake ends; the relay does not ask to be told.                  *)
OnOpen(c) ==
  /\ socket[c] = "connecting"
  /\ socket' = [socket EXCEPT ![c] = "up"]
  /\ UNCHANGED <<wire, source, status, events, losses>>

(* A frame that is an emitted event; other frames are dropped.             *)
OnMessage(c) ==
  /\ Serving /\ socket[c] = "up"
  /\ Send(<<[type |-> "event", label |-> c]>>)
  /\ UNCHANGED <<socket, source, status, events, losses>>

(* A socket closes, with or without an error before it; or its handshake   *)
(* fails.                                                                  *)
OnClose(c) ==
  /\ Serving /\ socket[c] \in {"connecting", "up"}
  /\ socket' = [socket EXCEPT ![c] = "down"]
  /\ \E n \in 1..2 : Send(Warns(n))
  /\ UNCHANGED <<source, status, events, losses>>

-----------------------------------------------------------------------------
(* The page.                                                               *)

Shown(label) == SubSeq(<<label>> \o events, 1,
                       IF Len(events) < Window THEN Len(events) + 1 ELSE Window)

Handle ==
  /\ wire # <<>>
  /\ LET m == Head(wire)
     IN  /\ status' = CASE m.type \in {"open", "ready"} -> "live"
                        [] m.type = "warn" -> "off"
                        [] OTHER -> status
         /\ events' = IF m.type = "event" THEN Shown(m.label) ELSE events
         /\ source' = IF m.type = "open" THEN "open" ELSE source
  /\ wire' = Tail(wire)
  /\ UNCHANGED <<socket, losses>>

OnError(s) == IF s = "live" THEN "live" ELSE "off"

(* The connection is lost, refused, or ended by the host: what was under   *)
(* way is gone, the relay shuts its sockets, and the browser tries again.  *)
Lost ==
  /\ losses < MaxLosses /\ losses' = losses + 1
  /\ source # "closed"
  /\ source' = "connecting"
  /\ status' = OnError(status)
  /\ wire' = <<>> /\ socket' = NoSockets
  /\ UNCHANGED events

(* Without a key the route answers 503, after which a browser gives up.    *)
ServiceUnavailable ==
  /\ source = "connecting" /\ wire = <<>> /\ socket = NoSockets
  /\ source' = "closed"
  /\ status' = OnError(status)
  /\ UNCHANGED <<socket, wire, events, losses>>

Next ==
  \/ Start \/ Handle \/ Lost \/ ServiceUnavailable
  \/ \E c \in Contract : OnOpen(c) \/ OnMessage(c) \/ OnClose(c)

-----------------------------------------------------------------------------

(* While its connection stands and all it was sent is handled, the page is *)
(* live only if no contract was given up: each is listened to, or its      *)
(* handshake is still going on.  No order of reconnecting, refused sockets *)
(* and sockets that drop hides one that is lost (stream/route.ts:54-90,    *)
(* LiveFeed.tsx:23-30).                                                    *)
LiveHidesNoLoss ==
  status = "live" /\ source = "open" /\ wire = <<>> =>
    \A c \in Contract : socket[c] \in {"connecting", "up"}

(* "its "LIVE" dot can go amber instead of implying a feed that's actually *)
(* dead" (stream/route.ts:87-88): but it is live while handshakes go on.   *)
LiveListensToAll ==
  status = "live" /\ source = "open" /\ wire = <<>> =>
    \A c \in Contract : socket[c] = "up"

(* "reflect it instead of a false "live"" (LiveFeed.tsx:29): live without  *)
(* a connection.                                                           *)
LiveIsConnected == status = "live" => source = "open"
=============================================================================
