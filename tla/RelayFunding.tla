---------------------------- MODULE RelayFunding ----------------------------
(***************************************************************************)
(* LedgerRelayFunding: how a relay request holds, grows, settles and       *)
(* refunds wallet money.  The ledger (Ledger, seen here through one user's *)
(* available balance and the request's reservation) is the balance that    *)
(* counts; users.claude_quota is a projection of it that every operation   *)
(* updates in a transaction of its own, before or after the ledger's, with *)
(* a compensating step when the second of the two fails.  The operations   *)
(* of a user take turns inside one server process (RelayWalletQueue) but   *)
(* not between servers, and any database call may fail.                    *)
(***************************************************************************)
EXTENDS Sums

CONSTANTS Sessions,       \* funding objects, one for every run of a request
          Requests,
          RequestOf,      \* the request id a session bills
          Instances,
          InstanceOf,     \* the server process a session runs in
          NoSession,
          Balance,        \* the user's money at the start
          MaxAmount,      \* the largest quota asked for at once
          MaxFaults,      \* database calls that fail
          MaxCredits,     \* top-ups
          MaxEarnings,    \* marketplace payouts to the user
          Disconnecting   \* sessions whose client may go away

ASSUME FundingAssumption ==
    /\ IsFiniteSet(Sessions) /\ IsFiniteSet(Requests)
    /\ RequestOf \in [Sessions -> Requests] /\ InstanceOf \in [Sessions -> Instances]
    /\ NoSession \notin Sessions /\ Disconnecting \subseteq Sessions
    /\ {Balance, MaxAmount, MaxFaults, MaxCredits, MaxEarnings} \subseteq Nat

VARIABLES available, \* balance_snapshots.available_balance of the wallet
          hold,      \* the reservation of each request and its settlement
          legacy,    \* users.claude_quota
          credits, earnings, \* top-ups and payouts so far
          turn,      \* who is served by each process's wallet queue
          ended,     \* sessions whose request context has ended
          fund,      \* fields of the funding object
          op,        \* the funding method a session is in
          faults,    \* failed database calls so far
          log        \* what a session had to report as failed

ledgerVars == <<available, hold>>
walletVars == <<ledgerVars, legacy, credits, earnings>>
fundingVars == <<walletVars, turn, ended, fund, op, faults, log>>

\* amount is reserved_amount, which a settlement leaves alone; charged is the
\* settlement's actual_amount and key whose idempotency key it was made under.
NoHold == [status |-> "none", amount |-> 0, increases |-> {}, charged |-> 0, key |-> "none"]
NewFunding == [known |-> FALSE, reserved |-> 0, legacyHeld |-> 0]
NoCall == [kind |-> "none", amount |-> 0, cancellable |-> FALSE, at |-> "idle", result |-> "none"]

FundingInit ==
    /\ available = Balance /\ legacy = Balance
    /\ hold = [r \in Requests |-> NoHold]
    /\ credits = 0 /\ earnings = 0 /\ faults = 0
    /\ turn = [i \in Instances |-> NoSession]
    /\ ended = {}
    /\ fund = [s \in Sessions |-> NewFunding]
    /\ op = [s \in Sessions |-> NoCall]
    /\ log = [s \in Sessions |-> "clean"]

H(s) == hold[RequestOf[s]]

-----------------------------------------------------------------------------
\* A database call that works, one that fails and changes nothing, and a
\* failure that no later step makes good.
Works == UNCHANGED <<faults, log>>
Fails(s) ==
    /\ faults < MaxFaults
    /\ faults' = faults + 1
    /\ log' = [log EXCEPT ![s] = IF @ = "clean" THEN "failed" ELSE @]
Unrepaired(s) == log' = [log EXCEPT ![s] = "unrepaired"]
FailsForGood(s) == faults < MaxFaults /\ faults' = faults + 1 /\ Unrepaired(s)

Call(s, kind, amount, cancellable) ==
    op' = [op EXCEPT ![s] = [kind |-> kind, amount |-> amount, cancellable |-> cancellable,
                             at |-> "wait", result |-> "none"]]
GoOn(s, at) == op' = [op EXCEPT ![s].at = at] /\ UNCHANGED turn
Return(s, result) ==
    /\ op' = [op EXCEPT ![s].at = "returned", ![s].result = result]
    /\ turn' = [turn EXCEPT ![InstanceOf[s]] = NoSession]

In(s, kinds, at) == op[s].kind \in kinds /\ op[s].at = at
Returned(s, results) == op[s].at = "returned" /\ op[s].result \in results

\* Variant: settlement and refund keep the request context too.
InterruptedAlways(s) == s \in ended

\* The request context governs the waiting and the SQL of a reservation;
\* settlement and refund run context.WithoutCancel.
Interrupted(s) == op[s].cancellable /\ s \in ended

\* The first thing each method does with its turn.
FirstStep(s) == CASE op[s].kind \in {"reserve", "settle"} -> "find"
                  [] op[s].kind = "increase" -> "ledger"
                  [] op[s].kind = "refund" -> IF fund[s].legacyHeld > 0 THEN "project" ELSE "ledger"

\* waitRelayWallet, and the check that there is a reservation to work on.
WaitTurn(s) ==
    /\ op[s].at = "wait"
    /\ ~Interrupted(s)
    /\ turn[InstanceOf[s]] = NoSession
    /\ \/ /\ op[s].kind = "reserve" \/ fund[s].known
          /\ turn' = [turn EXCEPT ![InstanceOf[s]] = s]
          /\ op' = [op EXCEPT ![s].at = FirstStep(s)]
       \/ /\ op[s].kind # "reserve" /\ ~fund[s].known
          /\ Return(s, IF op[s].kind = "refund" THEN "ok" ELSE "error")
    /\ Works
    /\ UNCHANGED <<walletVars, ended, fund>>

\* The context ends while the request waits, or before its next SQL.
Interrupt(s) ==
    /\ op[s].at \in {"wait", "find", "ledger"}
    /\ Interrupted(s)
    /\ op' = [op EXCEPT ![s].at = "returned", ![s].result = "error"]
    /\ turn' = [i \in Instances |-> IF turn[i] = s THEN NoSession ELSE turn[i]]
    /\ Works
    /\ UNCHANGED <<walletVars, ended, fund>>

-----------------------------------------------------------------------------
\* PreConsume: a run of a request that already has a reservation takes it over.
FindReservation(s) ==
    /\ In(s, {"reserve"}, "find")
    /\ ~Interrupted(s)
    /\ \/ /\ H(s).status = "none"
          /\ GoOn(s, "ledger")
          /\ Works /\ UNCHANGED fund
       \/ /\ H(s).status # "none" /\ H(s).amount = op[s].amount
          /\ fund' = [fund EXCEPT ![s] = [known |-> TRUE, reserved |-> H(s).amount,
                         legacyHeld |-> IF H(s).status = "open" THEN H(s).amount ELSE 0]]
          /\ Return(s, "ok")
          /\ Works
       \/ /\ \/ H(s).status # "none" /\ H(s).amount # op[s].amount /\ Works
             \/ Fails(s)
          /\ Return(s, "error")
          /\ UNCHANGED fund
    /\ UNCHANGED <<walletVars, ended>>

\* CreateReservationTx.
CreateHold(s) ==
    /\ In(s, {"reserve"}, "ledger")
    /\ ~Interrupted(s)
    /\ \/ /\ H(s).status = "none" /\ available >= op[s].amount
          /\ available' = available - op[s].amount
          /\ hold' = [hold EXCEPT ![RequestOf[s]] =
                         [NoHold EXCEPT !.status = "open", !.amount = op[s].amount]]
          /\ GoOn(s, "project")
          /\ Works
       \/ /\ H(s).status # "none" /\ H(s).amount = op[s].amount
          /\ GoOn(s, "project")
          /\ Works /\ UNCHANGED ledgerVars
       \/ /\ H(s).status = "none" /\ available < op[s].amount
          /\ Return(s, "insufficient")
          /\ Works /\ UNCHANGED ledgerVars
       \/ /\ \/ H(s).status # "none" /\ H(s).amount # op[s].amount /\ Works
             \/ Fails(s)
          /\ Return(s, "error")
          /\ UNCHANGED ledgerVars
    /\ UNCHANGED <<legacy, credits, earnings, ended, fund>>

\* ReserveAdditional: IncreaseReservationTx under a key named after the total
\* the session expects, and the check that the total is what it expects.
IncreaseHold(s) ==
    LET target == fund[s].reserved + op[s].amount
        old == {i \in H(s).increases : i.target = target}
        isNew == H(s).status = "open" /\ old = {}
        grown == H(s).amount + op[s].amount
    IN  /\ In(s, {"increase"}, "ledger")
        /\ ~Interrupted(s)
        /\ \/ /\ isNew /\ available >= op[s].amount
              /\ available' = available - op[s].amount
              /\ hold' = [hold EXCEPT ![RequestOf[s]].amount = grown,
                                      ![RequestOf[s]].increases =
                                          @ \cup {[target |-> target, amount |-> op[s].amount]}]
              /\ IF grown = target THEN GoOn(s, "project") ELSE Return(s, "error")
              /\ Works
           \/ /\ isNew /\ available < op[s].amount
              /\ Return(s, "insufficient")
              /\ Works /\ UNCHANGED ledgerVars
           \/ /\ H(s).status = "open" /\ old # {}
              /\ IF H(s).amount = target /\ \A i \in old : i.amount = op[s].amount
                 THEN GoOn(s, "project") ELSE Return(s, "error")
              /\ Works /\ UNCHANGED ledgerVars
           \/ /\ \/ H(s).status # "open" /\ Works
                 \/ Fails(s)
              /\ Return(s, "error")
              /\ UNCHANGED ledgerVars
        /\ UNCHANGED <<legacy, credits, earnings, ended, fund>>

\* projectLegacyDelta after a hold was made or grown.
ProjectHold(s) ==
    /\ In(s, {"reserve", "increase"}, "project")
    /\ \/ /\ legacy' = legacy - op[s].amount
          /\ fund' = [fund EXCEPT ![s] = [known |-> TRUE,
                                          reserved |-> @.reserved + op[s].amount,
                                          legacyHeld |-> @.legacyHeld + op[s].amount]]
          /\ Return(s, "ok")
          /\ Works
       \/ /\ Fails(s)
          /\ GoOn(s, "undo")
          /\ UNCHANGED <<legacy, fund>>
    /\ UNCHANGED <<ledgerVars, credits, earnings, ended>>

\* Variant: a settled reservation is released like an open one.
ReleaseSettled(s) ==
    \/ /\ H(s).status \in {"open", "settled"}
       /\ available' = available + (IF H(s).status = "open" THEN H(s).amount ELSE H(s).charged)
       /\ hold' = [hold EXCEPT ![RequestOf[s]].status = "released"]
    \/ /\ H(s).status = "released"
       /\ UNCHANGED ledgerVars

\* ReleaseReservationTx: a reservation already released is a success.
Release(s) ==
    \/ /\ H(s).status = "open"
       /\ available' = available + H(s).amount
       /\ hold' = [hold EXCEPT ![RequestOf[s]].status = "released"]
    \/ /\ H(s).status = "released"
       /\ UNCHANGED ledgerVars

\* The projection failed: give the whole reservation back.
ReleaseUnprojected(s) ==
    /\ In(s, {"reserve", "increase"}, "undo")
    /\ \/ Release(s) /\ Works
       \/ /\ \/ FailsForGood(s)
             \/ H(s).status = "settled" /\ Unrepaired(s) /\ UNCHANGED faults
          /\ UNCHANGED ledgerVars
    /\ Return(s, "error")
    /\ UNCHANGED <<legacy, credits, earnings, ended, fund>>

-----------------------------------------------------------------------------
\* What the settlement changes: op.amount is the amount to charge.
Delta(s) == op[s].amount - fund[s].reserved

\* There is a settlement under the request's own key: one made by recovery
\* (StaleRecovery) has another, and is not found by it.
HasSettlement(s) == H(s).status = "settled" /\ H(s).key = "relay"

\* findSettlement, whatever amount it was made for.
FindSettlement(s) ==
    /\ In(s, {"settle"}, "find")
    /\ \/ HasSettlement(s) /\ Return(s, "ok") /\ Works
       \/ ~HasSettlement(s) /\ GoOn(s, IF Delta(s) # 0 THEN "project" ELSE "ledger") /\ Works
       \/ Fails(s) /\ Return(s, "error")
    /\ UNCHANGED <<walletVars, ended, fund>>

ProjectSettlement(s) ==
    /\ In(s, {"settle"}, "project")
    /\ \/ /\ legacy' = legacy - Delta(s)
          /\ fund' = [fund EXCEPT ![s].legacyHeld = @ + Delta(s)]
          /\ GoOn(s, "ledger")
          /\ Works
       \/ /\ Fails(s)
          /\ Return(s, "error")
          /\ UNCHANGED <<legacy, fund>>
    /\ UNCHANGED <<ledgerVars, credits, earnings, ended>>

\* Variant: the projection made before a failed ledger step stays.
UndoNever(s, projected) == Return(s, "error")

\* A failed ledger step takes back the projection made before it.
UndoIf(s, projected) == IF projected THEN GoOn(s, "undo") ELSE Return(s, "error")

\* The hold that a settlement under a key ends at n.
SettledAt(h, n, key) == [h EXCEPT !.status = "settled", !.charged = n, !.key = key]

\* SettleReservationTx: a settlement under the same key is a replay when the
\* amount is the same and a conflict otherwise; a hold that was settled under
\* another key (ErrSettlementAlreadyExist) or released is an error.
SettleHold(s) ==
    LET more == op[s].amount - H(s).amount
    IN  /\ In(s, {"settle"}, "ledger")
        /\ \/ /\ H(s).status = "open" /\ available >= more
              /\ available' = available - more
              /\ hold' = [hold EXCEPT ![RequestOf[s]] = SettledAt(@, op[s].amount, "relay")]
              /\ Return(s, "ok")
              /\ Works
           \/ /\ HasSettlement(s) /\ H(s).charged = op[s].amount
              /\ Return(s, "ok")
              /\ Works /\ UNCHANGED ledgerVars
           \/ /\ \/ H(s).status = "open" /\ available < more /\ Works
                 \/ HasSettlement(s) /\ H(s).charged # op[s].amount /\ Works
                 \/ H(s).status \in {"settled", "released"} /\ ~HasSettlement(s) /\ Works
                 \/ Fails(s)
              /\ UndoIf(s, Delta(s) # 0)
              /\ UNCHANGED ledgerVars
        /\ UNCHANGED <<legacy, credits, earnings, ended, fund>>

RestoreSettlement(s) ==
    /\ In(s, {"settle"}, "undo")
    /\ \/ /\ legacy' = legacy + Delta(s)
          /\ fund' = [fund EXCEPT ![s].legacyHeld = @ - Delta(s)]
          /\ Works
       \/ FailsForGood(s) /\ UNCHANGED <<legacy, fund>>
    /\ Return(s, "error")
    /\ UNCHANGED <<ledgerVars, credits, earnings, ended>>

-----------------------------------------------------------------------------
\* Refund.
ProjectRefund(s) ==
    /\ In(s, {"refund"}, "project")
    /\ \/ legacy' = legacy + fund[s].legacyHeld /\ GoOn(s, "ledger") /\ Works
       \/ Fails(s) /\ Return(s, "error") /\ UNCHANGED legacy
    /\ UNCHANGED <<ledgerVars, credits, earnings, ended, fund>>

ReleaseHold(s) ==
    /\ In(s, {"refund"}, "ledger")
    /\ \/ /\ Release(s)
          /\ fund' = [fund EXCEPT ![s].legacyHeld = 0]
          /\ Return(s, "ok")
          /\ Works
       \/ /\ \/ H(s).status = "settled" /\ Works
             \/ Fails(s)
          /\ UndoIf(s, fund[s].legacyHeld > 0)
          /\ UNCHANGED <<ledgerVars, fund>>
    /\ UNCHANGED <<legacy, credits, earnings, ended>>

RestoreRefund(s) ==
    /\ In(s, {"refund"}, "undo")
    /\ \/ legacy' = legacy - fund[s].legacyHeld /\ Works
       \/ FailsForGood(s) /\ UNCHANGED legacy
    /\ Return(s, "error")
    /\ UNCHANGED <<ledgerVars, credits, earnings, ended, fund>>

FundingStep(s) ==
    \/ WaitTurn(s) \/ Interrupt(s)
    \/ FindReservation(s) \/ CreateHold(s) \/ IncreaseHold(s) \/ ProjectHold(s)
    \/ ReleaseUnprojected(s)
    \/ FindSettlement(s) \/ ProjectSettlement(s) \/ SettleHold(s) \/ RestoreSettlement(s)
    \/ ProjectRefund(s) \/ ReleaseHold(s) \/ RestoreRefund(s)

-----------------------------------------------------------------------------
\* What other transactions do to the wallet meanwhile.  A top-up adds to both
\* balances at once; a marketplace payout adds to the ledger and then copies
\* the ledger's balance over the projection.
TopUp ==
    /\ credits < MaxCredits
    /\ credits' = credits + 1
    /\ available' = available + 1
    /\ legacy' = legacy + 1
    /\ UNCHANGED <<hold, earnings, turn, ended, fund, op, faults, log>>

CreditEarnings ==
    /\ earnings < MaxEarnings
    /\ earnings' = earnings + 1
    /\ available' = available + 1
    /\ legacy' = available + 1
    /\ UNCHANGED <<hold, credits, turn, ended, fund, op, faults, log>>

Disconnect(s) ==
    /\ s \in Disconnecting \ ended
    /\ ended' = ended \cup {s}
    /\ UNCHANGED <<walletVars, turn, fund, op, faults, log>>
=============================================================================
