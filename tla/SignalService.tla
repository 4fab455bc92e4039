---------------------------- MODULE SignalService ----------------------------
(***************************************************************************)
(* The seller of server.ts: two gated routes behind one x402 facilitator.  *)
(* A request is verified, its product is built, its payment is settled,    *)
(* and the product is sent; each of the three is awaited, and any number   *)
(* of requests are between two of them at a time.  The server keeps        *)
(* nothing: what was paid is known to the token alone, which takes a       *)
(* signed authorization once.                                              *)
(*                                                                         *)
(* `request' is what each request asked for, where its handler is, and the *)
(* status it was answered with; `submitted' are the requests whose         *)
(* transfer is under way and `executed' those whose transfer was made.     *)
(***************************************************************************)
EXTENDS Naturals

CONSTANTS
  Request,      \* requests that may come
  Route, PayTo, \* the gated routes, and the account each is paid to
  Auth, Payee,  \* signed authorizations, and whom each one pays
  None          \* no payment header, no answer yet

VARIABLES ready, request, submitted, executed

sellerVars == <<ready, request, submitted, executed>>

SellerAssumption ==
  DOMAIN PayTo = Route /\ DOMAIN Payee = Auth /\ None \notin Auth /\ None # 200

Steps == {"idle", "verify", "build", "settle", "over"}

SellerTypeOK ==
  /\ ready \in BOOLEAN
  /\ request \in [Request -> [step : Steps, route : Route \cup {None},
                              auth : Auth \cup {None},
                              status : {None, 200, 402, 500, 503}]]
  /\ submitted \subseteq Request /\ executed \subseteq Request
  /\ submitted \cap executed = {}

(* The facilitator may be out of reach when the server boots, and the      *)
(* server does not ask again.                                              *)
Init ==
  /\ ready \in BOOLEAN
  /\ request = [r \in Request |->
       [step |-> "idle", route |-> None, auth |-> None, status |-> None]]
  /\ submitted = {} /\ executed = {}

At(r, step) == request[r].step = step

Answer(r, status) ==
  request' = [request EXCEPT ![r].step = "over", ![r].status = status]

-----------------------------------------------------------------------------

Arrive(r, route, auth) ==
  /\ At(r, "idle")
  /\ request' = [request EXCEPT ![r] =
       [step |-> IF ready THEN "verify" ELSE "over",
        route |-> route, auth |-> auth,
        status |-> IF ready THEN None ELSE 503]]
  /\ UNCHANGED <<ready, submitted, executed>>

(* The facilitator finds a payment valid only for the terms of the route;  *)
(* it may find one valid that was used meanwhile.                          *)
FoundValid(r) ==
  /\ request[r].auth # None
  /\ Payee[request[r].auth] = PayTo[request[r].route]

(* processHTTPRequest: the challenge, the product to build, or an error.   *)
(* Both routes are gated, so that "no-payment-required" does not come.     *)
Verified(r) ==
  /\ At(r, "verify")
  /\ \/ Answer(r, 402)
     \/ FoundValid(r) /\ request' = [request EXCEPT ![r].step = "build"]
     \/ Answer(r, 500)
  /\ UNCHANGED <<ready, submitted, executed>>

(* The product is there, with gaps or an error for what could not be read. *)
(* The call to settle may fail to reach the facilitator.                   *)
Built(r) ==
  /\ At(r, "build")
  /\ request' = [request EXCEPT ![r].step = "settle"]
  /\ submitted' \in {submitted, submitted \cup {r}}
  /\ UNCHANGED <<ready, executed>>

(* Mutant: the product is sent whatever became of the payment.             *)
SettledOrNot(r) ==
  /\ At(r, "settle")
  /\ Answer(r, 200)
  /\ UNCHANGED <<ready, submitted, executed>>

(* processSettlement: success is reported for a transfer that was made; a  *)
(* transfer that was not seen in time may still be made.                   *)
Settled(r) ==
  /\ At(r, "settle")
  /\ \/ r \in executed /\ Answer(r, 200)
     \/ Answer(r, 402)
     \/ Answer(r, 500)
  /\ UNCHANGED <<ready, submitted, executed>>

(* The process ends and boots again; the connections are gone.             *)
Restart ==
  /\ \E r \in Request : request[r].step \in {"verify", "build", "settle"}
  /\ request' = [r \in Request |->
       IF At(r, "idle") THEN request[r] ELSE [request[r] EXCEPT !.step = "over"]]
  /\ ready' \in BOOLEAN
  /\ UNCHANGED <<submitted, executed>>

-----------------------------------------------------------------------------

(* transfer_with_authorization: each authorization once.                   *)
Transfer(r) ==
  /\ \A q \in executed : request[q].auth # request[r].auth
  /\ executed' = executed \cup {r}
  /\ submitted' = submitted \ {r}
  /\ UNCHANGED <<ready, request>>

Refuse(r) ==
  /\ submitted' = submitted \ {r}
  /\ UNCHANGED <<ready, request, executed>>

Next ==
  \/ \E r \in Request :
       \/ \E route \in Route, auth \in Auth \cup {None} : Arrive(r, route, auth)
       \/ Verified(r) \/ Built(r) \/ Settled(r)
  \/ \E r \in submitted : Transfer(r) \/ Refuse(r)
  \/ Restart

-----------------------------------------------------------------------------

(* Whatever headers are sent again, answers are lost and transfers are     *)
(* late, each product that was sent has a payment of its own, made to the  *)
(* account of its route: no two share one (server.ts:171-193, :209-220).   *)
DeliveriesArePaid ==
  \A r \in Request :
    request[r].status = 200 =>
      /\ r \in executed
      /\ Payee[request[r].auth] = PayTo[request[r].route]
      /\ \A q \in executed \ {r} : request[q].auth # request[r].auth
=============================================================================
