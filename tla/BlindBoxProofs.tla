---------------------------- MODULE BlindBoxProofs ----------------------------
(***************************************************************************)
(* The blind-box orders and the page that follows them, for any number of  *)
(* orders.  A batch per order is not inductive alone: a row is inserted    *)
(* only where none was (RowsNew), and what the page announces rests on     *)
(* answers read earlier, which stay true only because a success is final   *)
(* (AnswersTrue, PollsTrue).                                               *)
(***************************************************************************)
EXTENDS BlindBoxPayment, TLAPS

\* A checkout that has not reached the insert has no row.
RowsNew == \A o \in Orders : checkout[o] \in {"new", "sent"} => status[o] = "none"

\* An answer "success" on its way to the page is still true.
AnswersTrue == \A o \in Orders : statusGet[o] = "success" => status[o] = "success"

\* A poll past its first answer, and an announcement, are about a success.
PollsTrue ==
    \A o \in Orders :
        <<o, "self">> \in polls \/ <<o, "user">> \in polls \/ o \in told
            => status[o] = "success"

IInv == TypeOK /\ OneBatchPerPaidOrder /\ RowsNew /\ AnswersTrue /\ PollsTrue

\* The types, one group of variables at a time.
PaymentType == payment \in [stage : {"idle", "pending", "failed"}, order : Orders \union {None}]
FlagsType == paying \in BOOLEAN /\ retry \in BOOLEAN /\ loading \in BOOLEAN /\ loadError \in BOOLEAN
SelfType == selfGet \in [at : {"none", "sent", "read"}, seen : SUBSET Orders]
PollType ==
    /\ polls \in SUBSET (Orders \X Steps)
    /\ statusGet \in [Orders -> {"none", "sent", "pending", "expired", "success"}]
HistoryType ==
    /\ shown \in SUBSET Orders /\ told \in SUBSET Orders
    /\ awaited \in SUBSET Orders /\ charged \in SUBSET Orders

\* TypeOK is the conjunction of the groups ...
LEMMA Types == TypeOK <=> /\ OrderTypeOK /\ PaymentType /\ FlagsType
                          /\ SelfType /\ PollType /\ HistoryType
BY DEF TypeOK, PaymentType, FlagsType, SelfType, PollType, HistoryType

\* ... and so it is after a step.
LEMMA TypesPrimed == TypeOK' <=> /\ OrderTypeOK' /\ PaymentType' /\ FlagsType'
                                 /\ SelfType' /\ PollType' /\ HistoryType'
BY DEF TypeOK, PaymentType, FlagsType, SelfType, PollType, HistoryType

\* What the parts of the invariant are made of.
InvVars == <<status, boxes, checkout, statusGet, polls, told, charged>>

\* A step that leaves those alone keeps everything but the types.
LEMMA Untouched ==
    ASSUME IInv, TypeOK', UNCHANGED InvVars
    PROVE  IInv'
BY DEF IInv, InvVars, OneBatchPerPaidOrder, RowsNew, AnswersTrue, PollsTrue

(***************************************************************************)
(* The server.                                                             *)
(***************************************************************************)

\* The end of an order keeps one batch per success, and a success stays one.
LEMMA CompleteKeeps ==
    ASSUME IInv, NEW o \in Orders, o \in charged, CompleteBlindBoxOrder(o),
           acked' \in SUBSET (Orders \X Notices),
           UNCHANGED <<checkout, fresh, payable, due, pageVars, charged>>
    PROVE  IInv'
<1> USE DEF IInv, CompleteBlindBoxOrder, issuePaidBlindBoxOrderInventoryTx, pageVars
<1>1. TypeOK'
  BY DEF TypeOK, OrderTypeOK
<1>2. OneBatchPerPaidOrder'
  BY DEF TypeOK, OrderTypeOK, OneBatchPerPaidOrder
<1>3. RowsNew'
  BY DEF TypeOK, OrderTypeOK, RowsNew
<1>4. AnswersTrue' /\ PollsTrue'
  BY DEF TypeOK, OrderTypeOK, AnswersTrue, PollsTrue
<1> QED
  BY <1>1, <1>2, <1>3, <1>4

\* A callback or the browser's return completes a charged order, or is the
\* notice of an unpaid one and changes nothing but what was answered.
LEMMA CallbackKeeps ==
    ASSUME IInv, NEW o \in Orders, Notified(o) \/ Returned(o)
    PROVE  IInv'
<1> USE DEF Notified, Returned, PaymentNotify, EpayReturn
<1>1. acked' \in SUBSET (Orders \X Notices)
  <2>1. acked \in SUBSET (Orders \X Notices)
    BY DEF IInv, TypeOK, OrderTypeOK
  <2>2. acked' \in {acked, acked \union {<<o, "paid">>}, acked \union {<<o, "unpaid">>}}
    OBVIOUS
  <2> QED
    BY <2>1, <2>2 DEF Notices
<1>2. CASE o \in charged /\ CompleteBlindBoxOrder(o)
  BY <1>1, <1>2, CompleteKeeps
<1>3. CASE PaymentNotify(o, "unpaid") /\ UNCHANGED <<pageVars, charged>>
  <2>1. UNCHANGED <<checkout, status, fresh, boxes, payable, due, pageVars, charged>>
    BY <1>3
  <2>2. TypeOK'
    BY <1>1, <2>1 DEF IInv, TypeOK, OrderTypeOK, pageVars
  <2>3. UNCHANGED InvVars
    BY <2>1 DEF InvVars, pageVars
  <2> QED
    BY <2>2, <2>3, Untouched
<1> QED
  BY <1>2, <1>3

\* No other step of the server leaves success or reaches it.
LEMMA ServerKeeps ==
    ASSUME IInv, NEW o \in Orders, Server(o)
    PROVE  IInv'
<1> USE DEF IInv, pageVars, Server
<1>1. TypeOK' /\ (\A p \in Orders : status'[p] = "success" <=> status[p] = "success")
      /\ UNCHANGED boxes
      /\ \A p \in Orders : checkout'[p] \in {"new", "sent"}
             => checkout[p] \in {"new", "sent"} /\ status'[p] = status[p]
  <2>1. CASE ValidateBlindBoxPurchase(o)
    BY <2>1 DEF ValidateBlindBoxPurchase, TypeOK, OrderTypeOK
  <2>2. CASE CreatePendingBlindBoxOrder(o)
    BY <2>2 DEF CreatePendingBlindBoxOrder, TypeOK, OrderTypeOK, RowsNew
  <2>3. CASE AnswerCheckout(o)
    BY <2>3 DEF AnswerCheckout, Expired, TypeOK, OrderTypeOK
  <2>4. CASE CancelPendingBlindBoxOrder(o)
    BY <2>4 DEF CancelPendingBlindBoxOrder, Expired, TypeOK, OrderTypeOK, RowsNew
  <2>5. CASE Age(o)
    BY <2>5 DEF Age, TypeOK, OrderTypeOK
  <2>6. CASE ExpireDueOrder(o)
    BY <2>6 DEF ExpireDueOrder, Stale, TypeOK, OrderTypeOK, RowsNew
  <2> QED
    BY <2>1, <2>2, <2>3, <2>4, <2>5, <2>6
<1>2. OneBatchPerPaidOrder'
  BY <1>1 DEF TypeOK, OrderTypeOK, OneBatchPerPaidOrder
<1>3. RowsNew'
  BY <1>1 DEF TypeOK, OrderTypeOK, RowsNew
<1>4. AnswersTrue' /\ PollsTrue'
  BY <1>1 DEF TypeOK, OrderTypeOK, AnswersTrue, PollsTrue
<1> QED
  BY <1>1, <1>2, <1>3, <1>4

\* The steps of the sweep that only list.
LEMMA SweepKeeps ==
    ASSUME IInv, Sweep
    PROVE  IInv'
<1>1. TypeOK'
  BY DEF IInv, Sweep, ListDueOrders, SweepStops, pageVars, TypeOK, OrderTypeOK
<1>2. UNCHANGED InvVars
  BY DEF Sweep, ListDueOrders, SweepStops, pageVars, InvVars
<1> QED
  BY <1>1, <1>2, Untouched

(***************************************************************************)
(* The page.                                                               *)
(***************************************************************************)

\* The page sends the checkout of an order that has none, and hears of it.
LEMMA CheckoutKeeps ==
    ASSUME IInv, NEW o \in Orders, handlePay(o) \/ PayAnswered(o) \/ PayFails(o)
    PROVE  IInv'
<1> USE DEF IInv, handlePay, PostCheckout, PayAnswered, PayFails, orderVars
<1>1. TypeOK'
  <2>1. OrderTypeOK'
    BY DEF TypeOK, OrderTypeOK
  <2>2. PaymentType'
    BY DEF TypeOK, PaymentType
  <2>3. FlagsType'
    BY DEF TypeOK, FlagsType
  <2>4. SelfType' /\ PollType' /\ HistoryType'
    BY DEF TypeOK, SelfType, PollType, HistoryType
  <2> QED
    BY <2>1, <2>2, <2>3, <2>4, TypesPrimed
<1>2. OneBatchPerPaidOrder' /\ AnswersTrue' /\ PollsTrue'
  BY DEF OneBatchPerPaidOrder, AnswersTrue, PollsTrue
<1>3. RowsNew'
  BY DEF TypeOK, OrderTypeOK, RowsNew
<1> QED
  BY <1>1, <1>2, <1>3

\* So does a retry.
LEMMA RetryKeeps ==
    ASSUME IInv, handleRetryPayment
    PROVE  IInv'
<1> USE DEF IInv, handleRetryPayment
<1>1. CASE UNCHANGED <<orderVars, paying, awaited>>
  <2>1. TypeOK' /\ UNCHANGED InvVars
    BY <1>1 DEF TypeOK, OrderTypeOK, orderVars, InvVars
  <2> QED
    BY <2>1, Untouched
<1>2. CASE \E o \in Orders : PostCheckout(o)
  <2> PICK o \in Orders : PostCheckout(o)
    BY <1>2
  <2> USE DEF PostCheckout
  <2>1. TypeOK'
    BY DEF TypeOK, OrderTypeOK
  <2>2. OneBatchPerPaidOrder' /\ AnswersTrue' /\ PollsTrue'
    BY DEF OneBatchPerPaidOrder, AnswersTrue, PollsTrue
  <2>3. RowsNew'
    BY DEF TypeOK, OrderTypeOK, RowsNew
  <2> QED
    BY <2>1, <2>2, <2>3
<1> QED
  BY <1>1, <1>2

\* The page's steps that touch neither polls nor answers.
LEMMA QuietKeeps ==
    ASSUME IInv, LeaveFailedDialog \/ refreshAll \/ ReadInventory
    PROVE  IInv'
<1> USE DEF IInv, LeaveFailedDialog, refreshAll, ReadInventory, orderVars
<1>1. TypeOK'
  <2>1. OrderTypeOK' /\ PollType' /\ HistoryType'
    BY DEF TypeOK, OrderTypeOK, PollType, HistoryType
  <2>2. PaymentType'
    <3>1. payment' \in {payment, EMPTY_PAYMENT_STATE}
      OBVIOUS
    <3> QED
      BY <3>1 DEF TypeOK, PaymentType, EMPTY_PAYMENT_STATE
  <2>3. FlagsType'
    BY DEF TypeOK, FlagsType
  <2>4. SelfType'
    <3>1. CASE LeaveFailedDialog \/ refreshAll
      <4>1. selfGet' \in {selfGet, Asked(selfGet)}
        BY <3>1
      <4> QED
        BY <4>1 DEF TypeOK, SelfType, Asked
    <3>2. CASE ReadInventory
      BY <3>2 DEF TypeOK, SelfType
    <3> QED
      BY <3>1, <3>2
  <2> QED
    BY <2>1, <2>2, <2>3, <2>4, TypesPrimed
<1>2. UNCHANGED InvVars
  BY DEF InvVars
<1> QED
  BY <1>1, <1>2, Untouched

\* A poll advances on an answer that is true, and waits with a success.
LEMMA PollKeeps ==
    ASSUME IInv, NEW o \in Orders,
           \/ pollOrder(o) \/ BuildBlindBoxOrderStatusPayload(o)
           \/ PollAnswered(o) \/ PollBroken(o) \/ PollEnds(o)
    PROVE  IInv'
<1> USE DEF IInv, orderVars
<1>1. CASE pollOrder(o)
  <2>1. TypeOK'
    BY <1>1 DEF pollOrder, TypeOK, OrderTypeOK, Steps
  <2>2. OneBatchPerPaidOrder' /\ RowsNew'
    BY <1>1 DEF pollOrder, OneBatchPerPaidOrder, RowsNew
  <2>3. AnswersTrue' /\ PollsTrue'
    BY <1>1 DEF pollOrder, TypeOK, AnswersTrue, PollsTrue
  <2> QED
    BY <2>1, <2>2, <2>3
<1>2. CASE BuildBlindBoxOrderStatusPayload(o)
  <2>1. TypeOK'
    BY <1>2 DEF BuildBlindBoxOrderStatusPayload, TypeOK, OrderTypeOK
  <2>2. OneBatchPerPaidOrder' /\ RowsNew'
    BY <1>2 DEF BuildBlindBoxOrderStatusPayload, OneBatchPerPaidOrder, RowsNew
  <2>3. AnswersTrue' /\ PollsTrue'
    BY <1>2 DEF BuildBlindBoxOrderStatusPayload, TypeOK, AnswersTrue, PollsTrue
  <2> QED
    BY <2>1, <2>2, <2>3
<1>3. CASE PollAnswered(o)
  <2>1. TypeOK'
    <3>1. OrderTypeOK' /\ HistoryType'
      BY <1>3 DEF PollAnswered, TypeOK, OrderTypeOK, HistoryType
    <3>2. PaymentType'
      BY <1>3 DEF PollAnswered, TypeOK, PaymentType, EMPTY_PAYMENT_STATE
    <3>3. FlagsType'
      BY <1>3 DEF PollAnswered, TypeOK, FlagsType
    <3>4. SelfType'
      BY <1>3 DEF PollAnswered, TypeOK, SelfType, Asked
    <3>5. PollType'
      BY <1>3 DEF PollAnswered, TypeOK, PollType, Steps
    <3> QED
      BY <3>1, <3>2, <3>3, <3>4, <3>5, TypesPrimed
  <2>2. OneBatchPerPaidOrder' /\ RowsNew'
    BY <1>3 DEF PollAnswered, OneBatchPerPaidOrder, RowsNew
  <2>3. AnswersTrue'
    BY <1>3 DEF PollAnswered, TypeOK, AnswersTrue
  <2>4. PollsTrue'
    BY <1>3 DEF PollAnswered, OrderSucceeded, TypeOK, AnswersTrue, PollsTrue
  <2> QED
    BY <2>1, <2>2, <2>3, <2>4
<1>4. CASE PollBroken(o) \/ PollEnds(o)
  <2>1. TypeOK'
    BY <1>4 DEF PollBroken, PollEnds, TypeOK, OrderTypeOK, EMPTY_PAYMENT_STATE
  <2>2. OneBatchPerPaidOrder' /\ RowsNew'
    BY <1>4 DEF PollBroken, PollEnds, OneBatchPerPaidOrder, RowsNew
  <2>3. AnswersTrue' /\ PollsTrue'
    BY <1>4 DEF PollBroken, PollEnds, TypeOK, AnswersTrue, PollsTrue
  <2> QED
    BY <2>1, <2>2, <2>3
<1> QED
  BY <1>1, <1>2, <1>3, <1>4

\* The inventory comes or not; the polls that go on are those that waited.
LEMMA SelfKeeps ==
    ASSUME IInv, SelfArrives \/ SelfFails
    PROVE  IInv'
<1> USE DEF IInv, orderVars, SelfArrives, SelfFails
<1>1. TypeOK'
  <2>1. OrderTypeOK' /\ PaymentType'
    BY DEF TypeOK, OrderTypeOK, PaymentType
  <2>2. FlagsType'
    BY DEF TypeOK, FlagsType
  <2>3. SelfType'
    <3>1. selfGet' = NoSelfGet
      OBVIOUS
    <3> QED
      BY <3>1 DEF SelfType, NoSelfGet
  <2>4. PollType'
    BY DEF TypeOK, PollType, Steps, AtSelf, WithoutSelf
  <2>5. HistoryType'
    BY DEF TypeOK, HistoryType, AtSelf
  <2> QED
    BY <2>1, <2>2, <2>3, <2>4, <2>5, TypesPrimed
<1>2. OneBatchPerPaidOrder' /\ RowsNew' /\ AnswersTrue'
  BY DEF OneBatchPerPaidOrder, RowsNew, AnswersTrue
<1>3. PollsTrue'
  <2>1. polls' \in {WithoutSelf \union (AtSelf \X {"user"}), WithoutSelf}
    OBVIOUS
  <2>2. \A o \in told' : o \in told \/ o \in AtSelf
    OBVIOUS
  <2>3. UNCHANGED status
    OBVIOUS
  <2> HIDE DEF SelfArrives, SelfFails
  <2>4. \A o \in Orders : <<o, "self">> \in polls' \/ <<o, "user">> \in polls'
            => <<o, "self">> \in polls \/ <<o, "user">> \in polls
    <3>1. CASE polls' = WithoutSelf
      BY <3>1 DEF WithoutSelf
    <3>2. CASE polls' = WithoutSelf \union (AtSelf \X {"user"})
      BY <3>2 DEF WithoutSelf, AtSelf
    <3> QED
      BY <2>1, <3>1, <3>2
  <2> QED
    BY <2>2, <2>3, <2>4 DEF PollsTrue, AtSelf
<1> QED
  BY <1>1, <1>2, <1>3

\* The gateway charges.
LEMMA ChargeKeeps ==
    ASSUME IInv, NEW o \in Orders, Charge(o)
    PROVE  IInv'
<1> USE DEF IInv, Charge, orderVars, pageVars
<1>1. TypeOK'
  BY DEF TypeOK, OrderTypeOK
<1>2. OneBatchPerPaidOrder' /\ RowsNew' /\ AnswersTrue' /\ PollsTrue'
  BY DEF OneBatchPerPaidOrder, RowsNew, AnswersTrue, PollsTrue
<1> QED
  BY <1>1, <1>2

(***************************************************************************)
(* The theorems.                                                           *)
(***************************************************************************)

\* The invariant holds for any set of orders, whatever is lost, repeated,
\* cancelled or swept.
THEOREM BlindBoxInvariant == Spec => []IInv
<1>1. Init => IInv
  <2> SUFFICES ASSUME Init PROVE IInv
    OBVIOUS
  <2>1. OrderTypeOK
    BY DEF Init, OrderInit, OrderTypeOK
  <2>2. PaymentType /\ SelfType
    BY DEF Init, PaymentType, SelfType, EMPTY_PAYMENT_STATE, NoSelfGet
  <2>3. FlagsType
    BY DEF Init, FlagsType
  <2>4. PollType /\ HistoryType
    BY DEF Init, PollType, HistoryType
  <2>5. OneBatchPerPaidOrder /\ RowsNew /\ AnswersTrue /\ PollsTrue
    BY DEF Init, OrderInit, OneBatchPerPaidOrder, RowsNew, AnswersTrue, PollsTrue
  <2> QED
    BY <2>1, <2>2, <2>3, <2>4, <2>5, Types DEF IInv
<1>2. IInv /\ [Next]_vars => IInv'
  <2> SUFFICES ASSUME IInv, [Next]_vars PROVE IInv'
    OBVIOUS
  <2>1. CASE UNCHANGED vars
    <3>1. TypeOK' /\ UNCHANGED InvVars
      BY <2>1 DEF vars, orderVars, pageVars, IInv, TypeOK, OrderTypeOK, InvVars
    <3> QED
      BY <3>1, Untouched
  <2>2. CASE Next
    <3>1. ASSUME NEW o \in Orders, Notified(o) \/ Returned(o) PROVE IInv'
      BY <3>1, CallbackKeeps
    <3> QED
      BY <2>2, <3>1, ServerKeeps, SweepKeeps, CheckoutKeeps, RetryKeeps, QuietKeeps,
         PollKeeps, SelfKeeps, ChargeKeeps
      DEF Next
  <2> QED
    BY <2>1, <2>2
<1> QED
  BY <1>1, <1>2, PTL DEF Spec

\* Every variable keeps its type: no status but those the readers know.
THEOREM BlindBoxTypes == Spec => []TypeOK
<1>1. IInv => TypeOK
  BY DEF IInv
<1> QED
  BY <1>1, BlindBoxInvariant, PTL

\* One batch of boxes for every paid order that succeeded, and none else.
THEOREM BoxesOnce == Spec => []OneBatchPerPaidOrder
<1>1. IInv => OneBatchPerPaidOrder
  BY DEF IInv
<1> QED
  BY <1>1, BlindBoxInvariant, PTL

\* What the page announces has happened, however old the answer it rests on.
THEOREM AnnouncementsTrue == Spec => []AnnouncedBoxesExist
<1>1. IInv => AnnouncedBoxesExist
  BY DEF IInv, TypeOK, OneBatchPerPaidOrder, PollsTrue, AnnouncedBoxesExist
<1> QED
  BY <1>1, BlindBoxInvariant, PTL

\* A completion mints the order's batch or finds it, and leaves the others.
LEMMA CompletionMints ==
    ASSUME IInv, NEW o \in Orders, CompleteBlindBoxOrder(o)
    PROVE  /\ boxes'[o] = 1
           /\ \A p \in Orders : boxes[p] = 1 => boxes'[p] = 1
BY DEF IInv, TypeOK, OrderTypeOK, OneBatchPerPaidOrder, CompleteBlindBoxOrder,
       issuePaidBlindBoxOrderInventoryTx

\* No step but a completion mints, and none but a callback is acknowledged.
LEMMA OthersQuiet ==
    ASSUME [Next]_vars, ~ \E o \in Orders : Notified(o) \/ Returned(o)
    PROVE  UNCHANGED <<boxes, acked>>
<1>1. CASE UNCHANGED vars
  BY <1>1 DEF vars, orderVars
<1>2. ASSUME NEW o \in Orders, Server(o) PROVE UNCHANGED <<boxes, acked>>
  BY <1>2 DEF Server, ValidateBlindBoxPurchase, CreatePendingBlindBoxOrder,
              AnswerCheckout, CancelPendingBlindBoxOrder, Age, ExpireDueOrder
<1>3. ASSUME NEW o \in Orders,
             \/ handlePay(o) \/ PayAnswered(o) \/ PayFails(o)
             \/ pollOrder(o) \/ BuildBlindBoxOrderStatusPayload(o)
             \/ PollAnswered(o) \/ PollBroken(o) \/ PollEnds(o) \/ Charge(o)
      PROVE  UNCHANGED <<boxes, acked>>
  BY <1>3 DEF handlePay, PostCheckout, PayAnswered, PayFails, pollOrder,
              BuildBlindBoxOrderStatusPayload, PollAnswered, PollBroken, PollEnds,
              Charge, orderVars
<1>4. ASSUME LeaveFailedDialog \/ handleRetryPayment \/ refreshAll \/ ReadInventory
             \/ SelfArrives \/ SelfFails \/ Sweep
      PROVE  UNCHANGED <<boxes, acked>>
  BY <1>4 DEF LeaveFailedDialog, handleRetryPayment, PostCheckout, refreshAll,
              ReadInventory, SelfArrives, SelfFails, Sweep, ListDueOrders,
              SweepStops, orderVars
<1> QED
  BY <1>1, <1>2, <1>3, <1>4 DEF Next

\* An order whose paid notice was answered "success" has its boxes for good;
\* the same answer to a notice of an unpaid order takes no part in it.
THEOREM AcksTrue == Spec => []AckedBoxesMinted
<1>1. Init => AckedBoxesMinted
  BY DEF Init, OrderInit, AckedBoxesMinted
<1>2. IInv /\ AckedBoxesMinted /\ [Next]_vars => AckedBoxesMinted'
  <2> SUFFICES ASSUME IInv, AckedBoxesMinted, [Next]_vars PROVE AckedBoxesMinted'
    OBVIOUS
  <2>1. ASSUME NEW o \in Orders, Notified(o) \/ Returned(o) PROVE AckedBoxesMinted'
    <3>1. CASE /\ CompleteBlindBoxOrder(o)
               /\ acked' \in {acked, acked \union {<<o, "paid">>}}
      BY <3>1, CompletionMints DEF AckedBoxesMinted
    <3>2. CASE UNCHANGED boxes /\ acked' \in {acked, acked \union {<<o, "unpaid">>}}
      BY <3>2 DEF AckedBoxesMinted
    <3> QED
      BY <2>1, <3>1, <3>2 DEF Notified, Returned, PaymentNotify, EpayReturn
  <2>2. CASE ~ \E o \in Orders : Notified(o) \/ Returned(o)
    BY <2>2, OthersQuiet DEF AckedBoxesMinted
  <2> QED
    BY <2>1, <2>2
<1> QED
  BY <1>1, <1>2, BlindBoxInvariant, PTL DEF Spec
=============================================================================
