--------------------------- MODULE BlindBoxPayment ---------------------------
(***************************************************************************)
(* The blind-box page: it posts a checkout, opens the gateway's page in    *)
(* another tab, and polls the order until it ends.  Concurrent GETs of one *)
(* URL share one request, so whoever asks while it is out gets what the    *)
(* server read before.  Composed with the orders on the server and the     *)
(* gateway, which charges whoever pays a payment it has opened, also when  *)
(* the answer that says so never reached the page.                         *)
(***************************************************************************)
EXTENDS BlindBoxOrder

CONSTANT None

VARIABLES
    payment,     \* paymentState: its stage and its order
    paying,      \* the pay button is busy
    awaited,     \* the orders whose POST the page waits for
    retry,       \* the 100 ms timer of handleRetryPayment is running
    polls,       \* <<o, step>>: a poll of o is waiting in that step
    statusGet,   \* statusGet[o]: the shared GET of o's status, once read its answer
    selfGet,     \* the shared GET of /blind-box/self: how far, and the boxes it read
    loading, loadError,   \* fetchSelf
    shown,       \* the orders whose boxes are in the inventory the page shows
    told,        \* the orders whose arrival the page has announced
    charged      \* the orders the gateway has taken the money for

pageVars == <<payment, paying, awaited, retry, polls, statusGet, selfGet,
              loading, loadError, shown, told>>
vars == <<orderVars, pageVars, charged>>

EMPTY_PAYMENT_STATE == [stage |-> "idle", order |-> None]
Steps == {"status", "self", "user"}

TypeOK ==
    /\ OrderTypeOK
    /\ payment \in [stage : {"idle", "pending", "failed"}, order : Orders \union {None}]
    /\ paying \in BOOLEAN /\ retry \in BOOLEAN
    /\ polls \in SUBSET (Orders \X Steps)
    /\ statusGet \in [Orders -> {"none", "sent", "pending", "expired", "success"}]
    /\ selfGet \in [at : {"none", "sent", "read"}, seen : SUBSET Orders]
    /\ loading \in BOOLEAN /\ loadError \in BOOLEAN
    /\ shown \in SUBSET Orders /\ told \in SUBSET Orders
    /\ awaited \in SUBSET Orders /\ charged \in SUBSET Orders

\* GET requests are shared while they are out.
Asked(get) == IF get.at = "none" THEN [get EXCEPT !.at = "sent"] ELSE get
NoSelfGet == [at |-> "none", seen |-> {}]

\* The page mounts and loads the inventory.
Init ==
    /\ OrderInit
    /\ payment = EMPTY_PAYMENT_STATE
    /\ paying = FALSE /\ retry = FALSE
    /\ polls = {}
    /\ statusGet = [o \in Orders |-> "none"]
    /\ selfGet = [NoSelfGet EXCEPT !.at = "sent"]
    /\ loading = TRUE /\ loadError = FALSE
    /\ shown = {} /\ told = {} /\ awaited = {} /\ charged = {}

(***************************************************************************)
(* Paying.                                                                 *)
(***************************************************************************)

\* handlePay up to its await.
PostCheckout(o) ==
    /\ checkout[o] = "new"
    /\ checkout' = [checkout EXCEPT ![o] = "sent"]
    /\ paying' = TRUE
    /\ awaited' = awaited \union {o}
    /\ UNCHANGED <<status, fresh, boxes, payable, acked, due>>

\* The pay button; the dialog of a failed payment is modal.
handlePay(o) ==
    /\ ~paying /\ ~loading /\ ~loadError
    /\ payment.stage # "failed"
    /\ PostCheckout(o)
    /\ UNCHANGED <<payment, retry, polls, statusGet, selfGet, loading, loadError,
                   shown, told, charged>>

\* The order is watched from now on, in place of any other, and its page opens.
PayAnswered(o) ==
    /\ o \in awaited /\ checkout[o] = "offered"
    /\ awaited' = awaited \ {o}
    /\ payment' = [stage |-> "pending", order |-> o]
    /\ paying' = FALSE
    /\ UNCHANGED <<orderVars, retry, polls, statusGet, selfGet, loading, loadError,
                   shown, told, charged>>

\* Refused, or no usable answer (at any point of the server's work, which goes
\* on without the page).
PayFails(o) ==
    /\ o \in awaited
    /\ awaited' = awaited \ {o}
    /\ payment' = [stage |-> "failed", order |-> None]
    /\ paying' = FALSE
    /\ UNCHANGED <<orderVars, retry, polls, statusGet, selfGet, loading, loadError,
                   shown, told, charged>>

\* Closing the dialog, or its button to pay again after 100 ms.
LeaveFailedDialog ==
    /\ payment.stage = "failed"
    /\ payment' = EMPTY_PAYMENT_STATE
    /\ retry' \in {retry, TRUE}
    /\ UNCHANGED <<orderVars, paying, awaited, polls, statusGet, selfGet, loading, loadError,
                   shown, told, charged>>

\* The timer pays whatever the button's state, unless there is no quote.
handleRetryPayment ==
    /\ retry
    /\ retry' = FALSE
    /\ \/ \E o \in Orders : PostCheckout(o)
       \/ UNCHANGED <<orderVars, paying, awaited>>
    /\ UNCHANGED <<payment, polls, statusGet, selfGet, loading, loadError, shown,
                   told, charged>>

(***************************************************************************)
(* Polling the order and loading the inventory.                            *)
(***************************************************************************)

\* The effect of a pending payment, at once and then every two seconds.
pollOrder(o) ==
    /\ payment = [stage |-> "pending", order |-> o]
    /\ polls' = polls \union {<<o, "status">>}
    /\ statusGet' = IF statusGet[o] = "none" THEN [statusGet EXCEPT ![o] = "sent"]
                                             ELSE statusGet
    /\ UNCHANGED <<orderVars, payment, paying, awaited, retry, selfGet, loading, loadError,
                   shown, told, charged>>

\* The server reads the row.
BuildBlindBoxOrderStatusPayload(o) ==
    /\ statusGet[o] = "sent"
    /\ statusGet' = [statusGet EXCEPT ![o] = status[o]]
    /\ UNCHANGED <<orderVars, payment, paying, awaited, retry, polls, selfGet, loading,
                   loadError, shown, told, charged>>

\* Whether the effect that started a poll of o is still the current one.
Active(o) == payment = [stage |-> "pending", order |-> o]

\* Variant: an order that has ended counts as paid.
EndedIsSuccess(s) == s # "pending"

\* The two statuses a poll acts on.
OrderSucceeded(s) == s = "success"
OrderExpired(s) == s = "expired"

\* The answer reaches the polls that wait for it: an inactive one returns, a
\* success goes on to the inventory, an expiry empties the state and reloads.
PollAnswered(o) ==
    /\ statusGet[o] \notin {"none", "sent"}
    /\ statusGet' = [statusGet EXCEPT ![o] = "none"]
    /\ LET waiting == <<o, "status">> \in polls /\ Active(o)
           rest == polls \ {<<o, "status">>}
       IN \/ /\ waiting /\ OrderSucceeded(statusGet[o])
             /\ polls' = rest \union {<<o, "self">>}
             /\ selfGet' = Asked(selfGet)
             /\ UNCHANGED <<payment, loading>>
          \/ /\ waiting /\ OrderExpired(statusGet[o])
             /\ polls' = rest
             /\ payment' = EMPTY_PAYMENT_STATE
             /\ loading' = TRUE
             /\ selfGet' = Asked(selfGet)
          \/ /\ \/ ~waiting
                \/ ~OrderSucceeded(statusGet[o]) /\ ~OrderExpired(statusGet[o])
             /\ polls' = rest
             /\ UNCHANGED <<payment, loading, selfGet>>
    /\ UNCHANGED <<orderVars, paying, awaited, retry, loadError, shown, told, charged>>

\* The status could not be read: the poll gives up, the timer starts another.
PollBroken(o) ==
    /\ statusGet[o] # "none"
    /\ statusGet' = [statusGet EXCEPT ![o] = "none"]
    /\ polls' = polls \ {<<o, "status">>}
    /\ UNCHANGED <<orderVars, payment, paying, awaited, retry, selfGet, loading, loadError,
                   shown, told, charged>>

\* refreshAll: the refresh button, a retry, an opening or a wallet purchase.
refreshAll ==
    /\ ~loading
    /\ loading' = TRUE
    /\ selfGet' = Asked(selfGet)
    /\ UNCHANGED <<orderVars, payment, paying, awaited, retry, polls, statusGet, loadError,
                   shown, told, charged>>

\* The server reads the inventory.
ReadInventory ==
    /\ selfGet.at = "sent"
    /\ selfGet' = [at |-> "read", seen |-> {o \in Orders : boxes[o] > 0}]
    /\ UNCHANGED <<orderVars, payment, paying, awaited, retry, polls, statusGet, loading,
                   loadError, shown, told, charged>>

AtSelf == {o \in Orders : <<o, "self">> \in polls}
WithoutSelf == polls \ (Orders \X {"self"})

\* The inventory reaches fetchSelf and the polls, which announce the boxes and
\* go on to refresh the user.
SelfArrives ==
    /\ selfGet.at = "read"
    /\ selfGet' = NoSelfGet
    /\ shown' = selfGet.seen
    /\ told' = told \union AtSelf
    /\ polls' = WithoutSelf \union (AtSelf \X {"user"})
    /\ loadError' = IF loading THEN FALSE ELSE loadError
    /\ loading' = FALSE
    /\ UNCHANGED <<orderVars, payment, paying, awaited, retry, statusGet, charged>>

\* The inventory is refused (a poll goes on without it) or lost (a poll ends).
SelfFails ==
    /\ selfGet.at # "none"
    /\ selfGet' = NoSelfGet
    /\ polls' \in {WithoutSelf \union (AtSelf \X {"user"}), WithoutSelf}
    /\ loadError' = (loading \/ loadError)
    /\ loading' = FALSE
    /\ UNCHANGED <<orderVars, payment, paying, awaited, retry, statusGet, shown, told,
                   charged>>

\* The user is refreshed: the payment state is emptied, whatever it holds now.
PollEnds(o) ==
    /\ <<o, "user">> \in polls
    /\ polls' = polls \ {<<o, "user">>}
    /\ payment' = EMPTY_PAYMENT_STATE
    /\ UNCHANGED <<orderVars, paying, awaited, retry, statusGet, selfGet, loading, loadError,
                   shown, told, charged>>

(***************************************************************************)
(* The gateway, and the composition.                                       *)
(***************************************************************************)

\* The buyer pays a payment the gateway has opened, at any later time.
Charge(o) ==
    /\ o \in payable \ charged
    /\ charged' = charged \union {o}
    /\ UNCHANGED <<orderVars, pageVars>>

\* A notice that the order is paid follows the charge; one that it is not may
\* come before it or, delayed or repeated, after it.
Notified(o) ==
    /\ \/ o \in charged /\ PaymentNotify(o, "paid")
       \/ o \in payable /\ PaymentNotify(o, "unpaid")
    /\ UNCHANGED <<pageVars, charged>>

Returned(o) == o \in charged /\ EpayReturn(o) /\ UNCHANGED <<pageVars, charged>>

Server(o) ==
    /\ \/ ValidateBlindBoxPurchase(o) \/ CreatePendingBlindBoxOrder(o)
       \/ AnswerCheckout(o) \/ CancelPendingBlindBoxOrder(o)
       \/ Age(o) \/ ExpireDueOrder(o)
    /\ UNCHANGED <<pageVars, charged>>

Sweep == (ListDueOrders \/ SweepStops) /\ UNCHANGED <<pageVars, charged>>

Next ==
    \/ \E o \in Orders :
          \/ handlePay(o) \/ PayAnswered(o) \/ PayFails(o)
          \/ pollOrder(o) \/ BuildBlindBoxOrderStatusPayload(o)
          \/ PollAnswered(o) \/ PollBroken(o) \/ PollEnds(o)
          \/ Charge(o) \/ Notified(o) \/ Returned(o) \/ Server(o)
    \/ LeaveFailedDialog \/ handleRetryPayment
    \/ refreshAll \/ ReadInventory \/ SelfArrives \/ SelfFails
    \/ Sweep

Spec == Init /\ [][Next]_vars

(***************************************************************************)
(* Properties.                                                             *)
(***************************************************************************)

\* Boxes exist for exactly the orders that have succeeded, one batch each, and
\* only for orders the gateway was paid for: whatever the order in which a
\* repeated callback, the browser's return, a cancellation and the sweep hit
\* the row, none undoes or doubles what another has done.
OneBatchPerPaidOrder ==
    \A o \in Orders :
        /\ boxes[o] = IF status[o] = "success" THEN 1 ELSE 0
        /\ boxes[o] > 0 => o \in charged

\* The page announces boxes only of an order whose boxes exist.
AnnouncedBoxesExist == \A o \in told : boxes[o] = 1

\* A notice that an order is paid is answered "success", after which the
\* gateway does not repeat it, only once the boxes of the order exist: also
\* when the order was cancelled or swept before the notice came ("paid boxes
\* still arrive automatically"), and nothing takes them away later.  The
\* "success" given to a Xunhu notice of another status promises no boxes: it
\* may come before the payment, and it does not settle the paid notice.
AckedBoxesMinted == \A o \in Orders : <<o, "paid">> \in acked => boxes[o] = 1
=============================================================================
