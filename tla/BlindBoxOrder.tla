---------------------------- MODULE BlindBoxOrder ----------------------------
(***************************************************************************)
(* Cash orders for blind boxes on the server: a checkout inserts a pending *)
(* row before it asks the gateway for a payment page; the row is then      *)
(* ended by the gateway's callback, by its buyer or by the sweeper, each   *)
(* in its own transaction and in any order.  The quantity of an order is   *)
(* abstracted away: boxes[o] counts the batches minted for it.             *)
(***************************************************************************)
EXTENDS Naturals

CONSTANT Orders          \* trade numbers

VARIABLES
    checkout,   \* checkout[o]: how far the POST /blind-box/pay for o has come
    status,     \* status[o]: the row's status, "none" before it is inserted
    fresh,      \* orders whose create_time is still after the expiry cutoff
    boxes,      \* boxes[o]: batches of sealed boxes minted under o's request id
    payable,    \* orders the gateway has opened a payment for
    acked,      \* <<o, n>>: the gateway has seen its notice n answered "success"
    due         \* rows the running sweep has listed and not updated yet

orderVars == <<checkout, status, fresh, boxes, payable, acked, due>>

\* What a notice of the gateway says of the payment: made, or any other status.
Notices == {"paid", "unpaid"}

OrderTypeOK ==
    /\ checkout \in [Orders -> {"new", "sent", "inserted", "offered", "refused"}]
    /\ status \in [Orders -> {"none", "pending", "expired", "success"}]
    /\ fresh \in SUBSET Orders
    /\ boxes \in [Orders -> Nat]
    /\ payable \in SUBSET Orders
    /\ acked \in SUBSET (Orders \X Notices)
    /\ due \in SUBSET Orders

OrderInit ==
    /\ checkout = [o \in Orders |-> "new"]
    /\ status = [o \in Orders |-> "none"]
    /\ fresh = {}
    /\ boxes = [o \in Orders |-> 0]
    /\ payable = {}
    /\ acked = {}
    /\ due = {}

(***************************************************************************)
(* The checkout request.                                                   *)
(***************************************************************************)

\* The purchase is not allowed (limit, disabled, no gateway): nothing is written.
ValidateBlindBoxPurchase(o) ==
    /\ checkout[o] = "sent"
    /\ checkout' = [checkout EXCEPT ![o] = "refused"]
    /\ UNCHANGED <<status, fresh, boxes, payable, acked, due>>

CreatePendingBlindBoxOrder(o) ==
    /\ checkout[o] = "sent"
    /\ checkout' = [checkout EXCEPT ![o] = "inserted"]
    /\ status' = [status EXCEPT ![o] = "pending"]
    /\ fresh' = fresh \union {o}
    /\ UNCHANGED <<boxes, payable, acked, due>>

\* What ExpireBlindBoxOrder and a cancellation make of a status.
Expired(s) == IF s = "pending" THEN "expired" ELSE s

\* The gateway gives a payment page, or the call fails, which does not say
\* whether the gateway opened the payment: then the row is expired, and an
\* error of that update is ignored.
AnswerCheckout(o) ==
    /\ checkout[o] = "inserted"
    /\ \/ /\ checkout' = [checkout EXCEPT ![o] = "offered"]
          /\ payable' = payable \union {o}
          /\ UNCHANGED status
       \/ /\ checkout' = [checkout EXCEPT ![o] = "refused"]
          /\ payable' \in {payable, payable \union {o}}
          /\ status' \in {status, [status EXCEPT ![o] = Expired(@)]}
    /\ UNCHANGED <<fresh, boxes, acked, due>>

(***************************************************************************)
(* The ends of an order.                                                   *)
(***************************************************************************)

\* A batch is minted under a request id derived from the trade number, once.
issuePaidBlindBoxOrderInventoryTx(o) ==
    boxes' = [boxes EXCEPT ![o] = IF @ = 0 THEN 1 ELSE @]

\* Variant: a callback for an expired order is answered but not honoured.
CompletePendingOnly(o) ==
    IF status[o] = "pending"
    THEN /\ status' = [status EXCEPT ![o] = "success"]
         /\ issuePaidBlindBoxOrderInventoryTx(o)
    ELSE UNCHANGED <<status, boxes>>

\* An expired order is accepted too; one that has succeeded is left alone.
CompleteBlindBoxOrder(o) ==
    \/ /\ status[o] = "success"
       /\ UNCHANGED <<status, boxes>>
    \/ /\ status[o] \in {"pending", "expired"}
       /\ status' = [status EXCEPT ![o] = "success"]
       /\ issuePaidBlindBoxOrderInventoryTx(o)

\* The gateway's callback.  A paid order is completed before the answer; a
\* Xunhu notice of any other status is answered "success" as well, with nothing
\* done (Epay's is answered "fail": no step).  The answer may be lost, and then
\* the gateway sends that notice again.
PaymentNotify(o, n) ==
    /\ <<o, n>> \notin acked
    /\ \/ n = "paid" /\ CompleteBlindBoxOrder(o)
       \/ n = "unpaid" /\ UNCHANGED <<status, boxes>>
    /\ acked' \in {acked, acked \union {<<o, n>>}}
    /\ UNCHANGED <<checkout, fresh, payable, due>>

\* The buyer's browser comes back from the gateway with the signed result.
EpayReturn(o) ==
    /\ CompleteBlindBoxOrder(o)
    /\ UNCHANGED <<checkout, fresh, payable, acked, due>>

\* Variant: the status is not checked under the lock.
CancelUnchecked(o) ==
    /\ status[o] # "none"
    /\ status' = [status EXCEPT ![o] = "expired"]
    /\ UNCHANGED <<checkout, fresh, boxes, payable, acked, due>>

\* The buyer gives the order up (the API; the page offers no way to it).
CancelPendingBlindBoxOrder(o) ==
    /\ status[o] # "none"
    /\ status' = [status EXCEPT ![o] = Expired(@)]
    /\ UNCHANGED <<checkout, fresh, boxes, payable, acked, due>>

\* create_time falls behind the cutoff.
Age(o) ==
    /\ o \in fresh
    /\ fresh' = fresh \ {o}
    /\ UNCHANGED <<checkout, status, boxes, payable, acked, due>>

Stale(o) == status[o] = "pending" /\ o \notin fresh

\* The sweep lists the stale rows ...
ListDueOrders ==
    /\ due = {}
    /\ due' = {o \in Orders : Stale(o)}
    /\ UNCHANGED <<checkout, status, fresh, boxes, payable, acked>>

\* ... and updates each where it is still pending.
ExpireDueOrder(o) ==
    /\ o \in due
    /\ due' = due \ {o}
    /\ status' = IF Stale(o) THEN [status EXCEPT ![o] = "expired"] ELSE status
    /\ UNCHANGED <<checkout, fresh, boxes, payable, acked>>

\* The sweep breaks off (an update fails, or the process restarts).
SweepStops ==
    /\ due # {}
    /\ due' = {}
    /\ UNCHANGED <<checkout, status, fresh, boxes, payable, acked>>
=============================================================================
