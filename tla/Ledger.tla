------------------------------- MODULE Ledger -------------------------------
(***************************************************************************)
(* The billing ledger (internal/billing/domain): every operation is one    *)
(* database transaction, shown here as one atomic step.  Module LedgerTx   *)
(* splits the transactions into statements.                                *)
(*                                                                         *)
(* Tables are functions from idempotency keys to rows: every table has a   *)
(* unique index on the key, so the key stands for the row's generated id   *)
(* as well.  An operation that is refused, or replayed with a key already  *)
(* applied, changes nothing and is not a step.                             *)
(***************************************************************************)
EXTENDS Sums

CONSTANTS
    Accounts,    \* billing accounts
    Requests,    \* request (or workflow) ids
    Keys,        \* idempotency keys given by the callers
    MaxInt,      \* math.MaxInt64
    MaxAmount,   \* bound on the amount of one operation
    NoRow        \* no row under this key

ASSUME LedgerAssumption ==
    /\ IsFiniteSet(Keys)
    /\ MaxInt \in Nat
    /\ MaxAmount \in Nat

VARIABLES
    snapshots,      \* billing.balance_snapshots
    reservations,   \* billing.reservations
    settlements,    \* billing.settlements
    entries,        \* billing.ledger_entries
    outbox          \* billing.outbox_events

vars == <<snapshots, reservations, settlements, entries, outbox>>

Amounts == 1..MaxAmount

(***************************************************************************)
(* Keys of ledger entries: the caller's key, or "entry:" + the key of the  *)
(* reservation or settlement the entry belongs to.                         *)
(***************************************************************************)
EntryKeys == {"plain", "entry"} \X Keys
Plain(k) == <<"plain", k>>
EntryOf(k) == <<"entry", k>>

EntryTypes == {"reserve_hold", "reserve_release", "settle_debit", "settle_credit",
               "grant_credit", "adjustment"}
ReferenceTypes == {"reservation", "settlement", "other"}

Snapshot == [available : Nat, reserved : Nat, consumed : Nat, refunded : Nat, granted : Nat]
Reservation == [account : Accounts, request : Requests, amount : Nat,
                status : {"open", "settled", "released"}]
Settlement == [reservation : Keys, actual : Nat, delta : Int]
Entry == [account : Accounts, type : EntryTypes, refType : ReferenceTypes,
          ref : Keys \cup {NoRow}, amount : Nat]
EventTypes == {"billing.credit_granted", "billing.reservation_created",
               "billing.reservation_increased", "billing.reservation_released",
               "billing.reservation_settled", "billing.balance_adjusted",
               "billing.adjustment_recorded"}
Event == [account : Accounts, type : EventTypes,
          table : {"ledger_entry", "reservation", "settlement"}, id : Keys]

ASSUME NoRowAssumption ==
    NoRow \notin Keys \cup Reservation \cup Settlement \cup Entry \cup Event

Init ==
    /\ snapshots = [a \in Accounts |->
                      [available |-> 0, reserved |-> 0, consumed |-> 0, refunded |-> 0, granted |-> 0]]
    /\ reservations = [k \in Keys |-> NoRow]
    /\ settlements = [k \in Keys |-> NoRow]
    /\ entries = [e \in EntryKeys |-> NoRow]
    /\ outbox = [k \in Keys |-> NoRow]

-----------------------------------------------------------------------------
(***************************************************************************)
(* RecordOutboxEvent: insert the event, or accept an existing one with the *)
(* same key if it is the same event.  A fresh aggregate never matches.     *)
(***************************************************************************)
RecordOutboxEvent(k, a, type, table, id) ==
    LET event == [account |-> a, type |-> type, table |-> table, id |-> id] IN
    /\ outbox[k] \in {NoRow, event}
    /\ outbox' = [outbox EXCEPT ![k] = event]

\* Variant: the entry is saved over one with the same key.
CreateEntryUpsert(ek, a, type, refType, ref, n) ==
    entries' = [entries EXCEPT ![ek] =
                  [account |-> a, type |-> type, refType |-> refType, ref |-> ref, amount |-> n]]

CreateEntry(ek, a, type, refType, ref, n) ==
    /\ entries[ek] = NoRow
    /\ entries' = [entries EXCEPT ![ek] =
                     [account |-> a, type |-> type, refType |-> refType, ref |-> ref, amount |-> n]]

\* creditAccountTx: the only operation that checks for integer overflow.
CreditAccount(a, n, k) ==
    /\ entries[Plain(k)] = NoRow
    /\ snapshots[a].available <= MaxInt - n
    /\ snapshots[a].granted <= MaxInt - n
    /\ snapshots' = [snapshots EXCEPT ![a].available = @ + n, ![a].granted = @ + n]
    /\ CreateEntry(Plain(k), a, "grant_credit", "other", NoRow, n)
    /\ RecordOutboxEvent(k, a, "billing.credit_granted", "ledger_entry", k)
    /\ UNCHANGED <<reservations, settlements>>

\* createReservationTx and createReservationPostgresTx.
CreateReservation(a, q, n, k) ==
    /\ reservations[k] = NoRow
    /\ snapshots[a].available >= n
    /\ snapshots' = [snapshots EXCEPT ![a].available = @ - n, ![a].reserved = @ + n]
    /\ reservations' = [reservations EXCEPT ![k] =
                          [account |-> a, request |-> q, amount |-> n, status |-> "open"]]
    /\ CreateEntry(EntryOf(k), a, "reserve_hold", "reservation", k, n)
    /\ RecordOutboxEvent(k, a, "billing.reservation_created", "reservation", k)
    /\ UNCHANGED settlements

\* Variant: the status of the locked reservation is not checked.
ExistsAnyStatus(r) == reservations[r] # NoRow

IsOpen(r) == reservations[r] # NoRow /\ reservations[r].status = "open"

\* Variant: the hold moves the funds but the reservation is not saved.
IncreaseUnsaved(r, n, k) ==
    LET a == reservations[r].account IN
    /\ IsOpen(r)
    /\ entries[Plain(k)] = NoRow
    /\ snapshots[a].available >= n
    /\ snapshots' = [snapshots EXCEPT ![a].available = @ - n, ![a].reserved = @ + n]
    /\ CreateEntry(Plain(k), a, "reserve_hold", "reservation", r, n)
    /\ RecordOutboxEvent(k, a, "billing.reservation_increased", "reservation", r)
    /\ UNCHANGED <<reservations, settlements>>

\* increaseReservationTx
IncreaseReservation(r, n, k) ==
    LET a == reservations[r].account IN
    /\ IsOpen(r)
    /\ entries[Plain(k)] = NoRow
    /\ snapshots[a].available >= n
    /\ snapshots' = [snapshots EXCEPT ![a].available = @ - n, ![a].reserved = @ + n]
    /\ reservations' = [reservations EXCEPT ![r].amount = @ + n]
    /\ CreateEntry(Plain(k), a, "reserve_hold", "reservation", r, n)
    /\ RecordOutboxEvent(k, a, "billing.reservation_increased", "reservation", r)
    /\ UNCHANGED settlements

\* releaseReservationTx and releaseReservationPostgresTx.  When the release
\* entry is already there, the code marks the reservation and moves no funds.
ReleaseReservation(r, k) ==
    LET a == reservations[r].account
        n == reservations[r].amount
    IN  /\ IsOpen(r)
        /\ reservations' = [reservations EXCEPT ![r].status = "released"]
        /\ UNCHANGED settlements
        /\ IF entries[Plain(k)] = NoRow
           THEN /\ snapshots[a].reserved >= n
                /\ snapshots' = [snapshots EXCEPT ![a].available = @ + n, ![a].reserved = @ - n]
                /\ CreateEntry(Plain(k), a, "reserve_release", "reservation", r, n)
                /\ RecordOutboxEvent(k, a, "billing.reservation_released", "reservation", r)
           ELSE /\ entries[Plain(k)].type = "reserve_release" /\ entries[Plain(k)].ref = r
                /\ UNCHANGED <<snapshots, entries, outbox>>

\* Variant: a settlement below the held amount keeps the rest.
SettleKeepsRest(r, n, k) ==
    LET a == reservations[r].account
        held == reservations[r].amount
    IN  /\ settlements[k] = NoRow
        /\ IsOpen(r)
        /\ snapshots[a].reserved >= held
        /\ n <= held
        /\ snapshots' = [snapshots EXCEPT ![a].reserved = @ - held, ![a].consumed = @ + n]
        /\ settlements' = [settlements EXCEPT ![k] = [reservation |-> r, actual |-> n, delta |-> 0]]
        /\ reservations' = [reservations EXCEPT ![r].status = "settled"]
        /\ RecordOutboxEvent(k, a, "billing.reservation_settled", "settlement", k)
        /\ UNCHANGED entries

\* settleReservationTx: the actual amount replaces the held one.
SettleReservation(r, n, k) ==
    LET a == reservations[r].account
        delta == n - reservations[r].amount
        more == IF delta > 0 THEN delta ELSE 0
        back == IF delta < 0 THEN -delta ELSE 0
    IN  /\ settlements[k] = NoRow
        /\ IsOpen(r)
        /\ \A j \in Keys : settlements[j] # NoRow => settlements[j].reservation # r
        /\ snapshots[a].reserved >= reservations[r].amount
        /\ snapshots[a].available >= more
        /\ snapshots' = [snapshots EXCEPT ![a].reserved = @ - reservations[r].amount,
                                          ![a].consumed = @ + n,
                                          ![a].available = @ - delta,
                                          ![a].refunded = @ + back]
        /\ settlements' = [settlements EXCEPT ![k] = [reservation |-> r, actual |-> n, delta |-> delta]]
        /\ reservations' = [reservations EXCEPT ![r].status = "settled"]
        /\ IF delta = 0
           THEN UNCHANGED entries
           ELSE CreateEntry(EntryOf(k), a, IF delta > 0 THEN "settle_debit" ELSE "settle_credit",
                            "settlement", k, more + back)
        /\ RecordOutboxEvent(k, a, "billing.reservation_settled", "settlement", k)

\* Variant: usage is taken without looking at the available balance.
ConsumeUnchecked(a, n, k) ==
    /\ entries[Plain(k)] = NoRow
    /\ snapshots' = [snapshots EXCEPT ![a].available = @ - n, ![a].consumed = @ + n]
    /\ CreateEntry(Plain(k), a, "settle_debit", "other", NoRow, n)
    /\ RecordOutboxEvent(k, a, "billing.balance_adjusted", "ledger_entry", k)
    /\ UNCHANGED <<reservations, settlements>>

\* AdjustAvailableBalanceTx with a positive UsageAmount.
ConsumeAvailable(a, n, k) ==
    /\ entries[Plain(k)] = NoRow
    /\ snapshots[a].available >= n
    /\ snapshots' = [snapshots EXCEPT ![a].available = @ - n, ![a].consumed = @ + n]
    /\ CreateEntry(Plain(k), a, "settle_debit", "other", NoRow, n)
    /\ RecordOutboxEvent(k, a, "billing.balance_adjusted", "ledger_entry", k)
    /\ UNCHANGED <<reservations, settlements>>

\* AdjustAvailableBalanceTx with a negative UsageAmount.  The bound on the
\* funds of the account is the model's: the code has no check here.
RefundAvailable(a, n, k) ==
    /\ entries[Plain(k)] = NoRow
    /\ snapshots[a].available + n <= MaxInt
    /\ snapshots' = [snapshots EXCEPT ![a].available = @ + n, ![a].refunded = @ + n]
    /\ CreateEntry(Plain(k), a, "settle_credit", "other", NoRow, n)
    /\ RecordOutboxEvent(k, a, "billing.balance_adjusted", "ledger_entry", k)
    /\ UNCHANGED <<reservations, settlements>>

\* recordAdjustmentTx: an audit entry that moves no funds and takes no lock.
RecordAdjustment(a, k) ==
    /\ CreateEntry(Plain(k), a, "adjustment", "other", NoRow, 0)
    /\ RecordOutboxEvent(k, a, "billing.adjustment_recorded", "ledger_entry", k)
    /\ UNCHANGED <<snapshots, reservations, settlements>>

(***************************************************************************)
(* cleanupPublishedLedgerOutboxBatch: three days after its publication the *)
(* event is deleted, and with it the outbox's memory of the key.           *)
(***************************************************************************)
CleanupOutbox(k) ==
    /\ outbox[k] # NoRow
    /\ outbox' = [outbox EXCEPT ![k] = NoRow]
    /\ UNCHANGED <<snapshots, reservations, settlements, entries>>

-----------------------------------------------------------------------------
(***************************************************************************)
(* aggregateExpectedBalanceSnapshot: the snapshot as the ledger implies    *)
(* it, by SUM(CASE WHEN ... THEN amount ELSE 0 END) over each table.       *)
(***************************************************************************)
EntryAmounts(a, types, refTypes) ==
    [e \in EntryKeys |->
        IF entries[e] # NoRow /\ entries[e].account = a
              /\ entries[e].type \in types /\ entries[e].refType \in refTypes
        THEN entries[e].amount ELSE 0]

SettledOn(k, a) ==
    settlements[k] # NoRow /\ reservations[settlements[k].reservation].account = a

ActualAmounts(a) == [k \in Keys |-> IF SettledOn(k, a) THEN settlements[k].actual ELSE 0]

ReturnedAmounts(a) ==
    [k \in Keys |-> IF SettledOn(k, a) /\ settlements[k].delta < 0 THEN -settlements[k].delta ELSE 0]

OpenAmounts(a) ==
    [r \in Keys |-> IF IsOpen(r) /\ reservations[r].account = a THEN reservations[r].amount ELSE 0]

Credited(a) ==
    Total(EntryAmounts(a, {"grant_credit", "reserve_release", "settle_credit"}, ReferenceTypes))
Debited(a) == Total(EntryAmounts(a, {"reserve_hold", "settle_debit"}, ReferenceTypes))
NotSettlement == ReferenceTypes \ {"settlement"}
DirectConsumed(a) == Total(EntryAmounts(a, {"settle_debit"}, NotSettlement))
DirectRefunded(a) == Total(EntryAmounts(a, {"settle_credit"}, NotSettlement))

ExpectedSnapshot(a) ==
    [available |-> Credited(a) - Debited(a),
     reserved  |-> Total(OpenAmounts(a)),
     consumed  |-> Total(ActualAmounts(a)) + DirectConsumed(a),
     refunded  |-> Total(ReturnedAmounts(a)) + DirectRefunded(a),
     granted   |-> Total(EntryAmounts(a, {"grant_credit"}, ReferenceTypes))]

\* rebuildBalanceSnapshotTx, by the worker, an operator or a workflow.
RebuildSnapshot(a) ==
    /\ snapshots' = [snapshots EXCEPT ![a] = ExpectedSnapshot(a)]
    /\ UNCHANGED <<reservations, settlements, entries, outbox>>

Next ==
    \/ \E a \in Accounts, n \in Amounts, k \in Keys :
          \/ CreditAccount(a, n, k)
          \/ \E q \in Requests : CreateReservation(a, q, n, k)
          \/ ConsumeAvailable(a, n, k)
          \/ RefundAvailable(a, n, k)
    \/ \E r, k \in Keys :
          \/ \E n \in Amounts : IncreaseReservation(r, n, k)
          \/ \E n \in 0..MaxAmount : SettleReservation(r, n, k)
          \/ ReleaseReservation(r, k)
    \/ \E a \in Accounts, k \in Keys : RecordAdjustment(a, k)
    \/ \E k \in Keys : CleanupOutbox(k)
    \/ \E a \in Accounts : RebuildSnapshot(a)

Spec == Init /\ [][Next]_vars

-----------------------------------------------------------------------------
\* No balance is ever negative, and every row has its columns.
TypeOK ==
    /\ snapshots \in [Accounts -> Snapshot]
    /\ reservations \in [Keys -> Reservation \cup {NoRow}]
    /\ settlements \in [Keys -> Settlement \cup {NoRow}]
    /\ entries \in [EntryKeys -> Entry \cup {NoRow}]
    /\ outbox \in [Keys -> Event \cup {NoRow}]

(***************************************************************************)
(* Reconciliation always succeeds: the running snapshot of an account is   *)
(* what its entries, settlements and open reservations add up to, so a     *)
(* rebuild never changes a balance (rule 8.4 of the ledger document).      *)
(***************************************************************************)
SnapshotMatchesLedger == \A a \in Accounts : snapshots[a] = ExpectedSnapshot(a)

(***************************************************************************)
(* No operation creates or destroys funds: what an account was granted, or *)
(* refunded outside a reservation, is available, held or consumed.         *)
(***************************************************************************)
FundsConserved ==
    \A a \in Accounts :
        snapshots[a].available + snapshots[a].reserved + snapshots[a].consumed
            = snapshots[a].granted + DirectRefunded(a)

(***************************************************************************)
(* Every hold comes to exactly one end.  An open reservation has neither a *)
(* release nor a settlement, so the branch of releaseReservationTx that    *)
(* finds its entry already written never gives a hold up without its       *)
(* funds; a released one has one release of the whole amount; a settled    *)
(* one has one settlement.  The hold entries add up to the amount.         *)
(***************************************************************************)
HoldEntries(r) ==
    [e \in EntryKeys |->
        IF entries[e] # NoRow /\ entries[e].type = "reserve_hold" /\ entries[e].ref = r
        THEN entries[e].amount ELSE 0]

ReleasesOf(r) ==
    {e \in EntryKeys : entries[e] # NoRow /\ entries[e].type = "reserve_release" /\ entries[e].ref = r}

SettlementsOf(r) == {k \in Keys : settlements[k] # NoRow /\ settlements[k].reservation = r}

OneEndPerHold ==
    \A r \in Keys : reservations[r] # NoRow =>
        /\ Total(HoldEntries(r)) = reservations[r].amount
        /\ Cardinality(ReleasesOf(r)) = (IF reservations[r].status = "released" THEN 1 ELSE 0)
        /\ Cardinality(SettlementsOf(r)) = (IF reservations[r].status = "settled" THEN 1 ELSE 0)
        /\ \A e \in ReleasesOf(r) : entries[e].amount = reservations[r].amount

(***************************************************************************)
(* The journal is append-only, and a reservation that has ended never      *)
(* opens again, changes its end or its amount (section 3.3 of the ledger   *)
(* document).                                                              *)
(***************************************************************************)
AppendOnly ==
    /\ \A e \in EntryKeys : entries[e] # NoRow => entries'[e] = entries[e]
    /\ \A k \in Keys : settlements[k] # NoRow => settlements'[k] = settlements[k]
    /\ \A r \in Keys : reservations[r] # NoRow =>
          \/ reservations[r].status = "open" /\ reservations'[r] # NoRow
             /\ reservations'[r].account = reservations[r].account
          \/ reservations'[r] = reservations[r]

JournalAppendOnly == [][AppendOnly]_vars
=============================================================================
