------------------------------ MODULE LedgerTx ------------------------------
(***************************************************************************)
(* The ledger's transactions statement by statement.  A process runs one   *)
(* operation at a time in a READ COMMITTED transaction: it looks the key   *)
(* up, locks the reservation and then the balance snapshot, computes on    *)
(* the copies it read, inserts into the unique indexes and commits.  Other *)
(* processes run between any two of these, see only committed rows, and    *)
(* wait for row locks and for index keys that are not committed yet.  A    *)
(* transaction may be rolled back (a lost connection, a crash, a cancelled *)
(* request) before any statement.                                          *)
(*                                                                         *)
(* One operation per transaction is how the relay and the ledger's own     *)
(* exported functions run.  Callers that compose several ...Tx operations  *)
(* in one transaction (transfers between users, marketplace settlement and *)
(* forfeits, stale recovery of several holds, the outbox consumers, a      *)
(* key's drift repair) are not modelled here: see                          *)
(* SingleOperationNoLockCycle for what that restricts.                     *)
(*                                                                         *)
(* Every commit is one step of Ledger: that is ImplementsLedger.           *)
(***************************************************************************)
EXTENDS Sums, Sequences

CONSTANTS Accounts, Requests, Keys, MaxInt, MaxAmount, NoRow,
          Procs,  \* goroutines and servers with a database connection
          Kinds   \* the operations they call

VARIABLES snapshots, reservations, settlements, entries, outbox,
          tx      \* the transaction each process is in

L == INSTANCE Ledger WITH snapshots <- snapshots, reservations <- reservations,
                          settlements <- settlements, entries <- entries, outbox <- outbox

\* The rows are Ledger's.  Callers ask for a release: "mark" is what the release
\* becomes when it finds its entry, never an operation of its own.
ASSUME TxAssumption ==
    /\ IsFiniteSet(Keys)
    /\ MaxInt \in Nat
    /\ MaxAmount \in Nat
    /\ NoRow \notin Keys \cup L!Snapshot \cup L!Reservation \cup L!Settlement \cup L!Entry \cup L!Event
    /\ Kinds \subseteq {"credit", "consume", "refund", "create", "adjust", "increase", "settle",
                        "release", "rebuild"}

tables == <<snapshots, reservations, settlements, entries, outbox>>
vars == <<tables, tx>>

\* The parameters of an operation, as the exported functions accept them.
Ops ==
    [kind : {"credit", "consume", "refund"}, account : Accounts, n : L!Amounts, key : Keys]
      \cup [kind : {"create"}, account : Accounts, request : Requests, n : L!Amounts, key : Keys]
      \cup [kind : {"adjust"}, account : Accounts, key : Keys]
      \cup [kind : {"increase"}, res : Keys, n : L!Amounts, key : Keys]
      \cup [kind : {"settle"}, res : Keys, n : 0..MaxAmount, key : Keys]
      \cup [kind : {"release", "mark"}, res : Keys, key : Keys]
      \cup [kind : {"rebuild"}, account : Accounts]

OnReservation(op) == op.kind \in {"increase", "settle", "release", "mark"}

\* Row locks and uncommitted index keys.
Locks == ({"reservation"} \X Keys) \cup ({"snapshot"} \X Accounts)
           \cup ({"reservations", "settlements", "outbox"} \X Keys)
           \cup ({"entries"} \X L!EntryKeys)

Idle == [pc |-> "idle", op |-> NoRow, snap |-> NoRow, res |-> NoRow, todo |-> <<>>, locks |-> {}]

Init == L!Init /\ tx = [p \in Procs |-> Idle]

-----------------------------------------------------------------------------
\* Go on with the transaction, or end it without a write.
Goto(p, pc) == tx' = [tx EXCEPT ![p].pc = pc]
End(p) == tx' = [tx EXCEPT ![p] = Idle]

Free(l, p) == \A q \in Procs \ {p} : l \notin tx[q].locks

\* Begin the transaction of one operation (composed transactions are left out),
\* with its first statement still to come.  The id of a reservation is a random
\* UUID: callers have it from its creation.
Begin(p, op) ==
    /\ tx[p].pc = "idle"
    /\ op.kind \in Kinds
    /\ OnReservation(op) => reservations[op.res] # NoRow
    /\ tx' = [tx EXCEPT ![p] = [Idle EXCEPT !.op = op,
                !.pc = CASE op.kind = "rebuild" -> "lockSnapshot"
                         [] op.kind \in {"increase", "release"} -> "lockReservation"
                         [] OTHER -> "find"]]
    /\ UNCHANGED tables

(***************************************************************************)
(* find...ByIdempotency, before any lock for most operations and under the *)
(* reservation's lock for an increase or a release.  A key already used is *)
(* a replay or a conflict, and ends the transaction unchanged; only a      *)
(* release that finds its own entry goes on to mark the reservation.       *)
(***************************************************************************)
KeyUsed(op) ==
    CASE op.kind = "create" -> reservations[op.key] # NoRow
      [] op.kind = "settle" -> settlements[op.key] # NoRow
      [] OTHER -> entries[L!Plain(op.key)] # NoRow

OwnRelease(op) ==
    /\ op.kind = "release"
    /\ entries[L!Plain(op.key)].type = "reserve_release"
    /\ entries[L!Plain(op.key)].ref = op.res

Find(p) ==
    LET op == tx[p].op IN
    /\ tx[p].pc = "find"
    /\ CASE ~KeyUsed(op) ->
              Goto(p, CASE op.kind = "settle" -> "lockReservation"
                        [] op.kind = "adjust" -> "write"
                        [] OTHER -> "lockSnapshot")
         [] KeyUsed(op) /\ OwnRelease(op) ->
              tx' = [tx EXCEPT ![p].op.kind = "mark", ![p].pc = "write"]
         [] OTHER -> End(p)
    /\ UNCHANGED tables

\* Variant: the reservation is read without FOR UPDATE.
ReadReservationUnlocked(p) ==
    LET r == tx[p].op.res IN
    /\ tx[p].pc = "lockReservation"
    /\ IF reservations[r].status # "open"
       THEN End(p)
       ELSE tx' = [tx EXCEPT ![p].res = reservations[r],
                             ![p].pc = IF tx[p].op.kind = "settle" THEN "lockSnapshot" ELSE "find"]
    /\ UNCHANGED tables

\* lockReservation: SELECT ... FOR UPDATE, then the check of the status.
LockReservation(p) ==
    LET r == tx[p].op.res IN
    /\ tx[p].pc = "lockReservation"
    /\ Free(<<"reservation", r>>, p)
    /\ IF reservations[r].status # "open"
       THEN End(p)
       ELSE tx' = [tx EXCEPT ![p].res = reservations[r],
                             ![p].locks = @ \cup {<<"reservation", r>>},
                             ![p].pc = IF tx[p].op.kind = "settle" THEN "lockSnapshot" ELSE "find"]
    /\ UNCHANGED tables

Account(p) == IF OnReservation(tx[p].op) THEN tx[p].res.account ELSE tx[p].op.account

\* Variant: the snapshot is read without FOR UPDATE.
ReadSnapshotUnlocked(p) ==
    /\ tx[p].pc = "lockSnapshot"
    /\ tx' = [tx EXCEPT ![p].snap = snapshots[Account(p)],
                        ![p].pc = CASE tx[p].op.kind = "create" -> "recheck"
                                    [] tx[p].op.kind = "rebuild" -> "sumEntries"
                                    [] OTHER -> "write"]
    /\ UNCHANGED tables

\* ensureAndLockBalanceSnapshot, lockReservationSnapshotPostgres
LockSnapshot(p) ==
    /\ tx[p].pc = "lockSnapshot"
    /\ Free(<<"snapshot", Account(p)>>, p)
    /\ tx' = [tx EXCEPT ![p].snap = snapshots[Account(p)],
                        ![p].locks = @ \cup {<<"snapshot", Account(p)>>},
                        ![p].pc = CASE tx[p].op.kind = "create" -> "recheck"
                                    [] tx[p].op.kind = "rebuild" -> "sumEntries"
                                    [] OTHER -> "write"]
    /\ UNCHANGED tables

\* createReservationPostgresTx looks the key up again under the account's lock.
Recheck(p) ==
    /\ tx[p].pc = "recheck"
    /\ IF KeyUsed(tx[p].op) THEN End(p) ELSE Goto(p, "write")
    /\ UNCHANGED tables

(***************************************************************************)
(* aggregateExpectedBalanceSnapshot: three queries, each of which sees     *)
(* what is committed when it runs.                                         *)
(***************************************************************************)
SumEntries(p) ==
    LET a == Account(p) IN
    /\ tx[p].pc = "sumEntries"
    /\ tx' = [tx EXCEPT ![p].pc = "sumSettlements",
                        ![p].snap = [@ EXCEPT !.available = L!Credited(a) - L!Debited(a),
                                              !.granted = L!ExpectedSnapshot(a).granted,
                                              !.consumed = L!DirectConsumed(a),
                                              !.refunded = L!DirectRefunded(a)]]
    /\ UNCHANGED tables

SumSettlements(p) ==
    LET a == Account(p)
        s == tx[p].snap
    IN
    /\ tx[p].pc = "sumSettlements"
    /\ tx' = [tx EXCEPT ![p].pc = "sumReservations",
                        ![p].snap = [s EXCEPT !.consumed = s.consumed + Total(L!ActualAmounts(a)),
                                              !.refunded = s.refunded + Total(L!ReturnedAmounts(a))]]
    /\ UNCHANGED tables

SumReservations(p) ==
    /\ tx[p].pc = "sumReservations"
    /\ tx' = [tx EXCEPT ![p].pc = "insert",
                        ![p].snap = [@ EXCEPT !.reserved = Total(L!OpenAmounts(Account(p)))]]
    /\ UNCHANGED tables

-----------------------------------------------------------------------------
\* The checks on the locked copies, and what is saved of them.
Allowed(op, s, r) ==
    CASE op.kind = "credit" -> s.available <= MaxInt - op.n /\ s.granted <= MaxInt - op.n
      [] op.kind \in {"create", "increase", "consume"} -> s.available >= op.n
      [] op.kind = "refund" -> s.available + op.n <= MaxInt
      [] op.kind = "release" -> s.reserved >= r.amount
      [] op.kind = "settle" -> s.reserved >= r.amount /\ s.available >= op.n - r.amount
      [] OTHER -> TRUE

SavedSnapshot(op, s, r) ==
    CASE op.kind = "credit" -> [s EXCEPT !.available = @ + op.n, !.granted = @ + op.n]
      [] op.kind \in {"create", "increase"} -> [s EXCEPT !.available = @ - op.n, !.reserved = @ + op.n]
      [] op.kind = "consume" -> [s EXCEPT !.available = @ - op.n, !.consumed = @ + op.n]
      [] op.kind = "refund" -> [s EXCEPT !.available = @ + op.n, !.refunded = @ + op.n]
      [] op.kind = "release" -> [s EXCEPT !.available = @ + r.amount, !.reserved = @ - r.amount]
      [] op.kind = "settle" ->
           [s EXCEPT !.reserved = @ - r.amount, !.consumed = @ + op.n, !.available = @ - (op.n - r.amount),
                     !.refunded = IF op.n < r.amount THEN @ + (r.amount - op.n) ELSE @]
      [] OTHER -> s

SavedReservation(op, r) ==
    CASE op.kind = "create" -> [account |-> op.account, request |-> op.request, amount |-> op.n, status |-> "open"]
      [] op.kind = "increase" -> [r EXCEPT !.amount = @ + op.n]
      [] op.kind = "settle" -> [r EXCEPT !.status = "settled"]
      [] op.kind \in {"release", "mark"} -> [r EXCEPT !.status = "released"]
      [] OTHER -> NoRow

EntryKey(op) == IF op.kind \in {"create", "settle"} THEN L!EntryOf(op.key) ELSE L!Plain(op.key)

\* Variant: a release records its event before its entry.
IndexKeysSwapped(op, r) ==
    CASE op.kind \in {"rebuild", "mark"} -> <<>>
      [] op.kind = "create" -> <<<<"reservations", op.key>>, <<"entries", EntryKey(op)>>, <<"outbox", op.key>>>>
      [] op.kind = "settle" /\ op.n = r.amount -> <<<<"settlements", op.key>>, <<"outbox", op.key>>>>
      [] op.kind = "settle" /\ op.n # r.amount ->
           <<<<"settlements", op.key>>, <<"entries", EntryKey(op)>>, <<"outbox", op.key>>>>
      [] op.kind = "release" -> <<<<"outbox", op.key>>, <<"entries", EntryKey(op)>>>>
      [] OTHER -> <<<<"entries", EntryKey(op)>>, <<"outbox", op.key>>>>

\* The rows a transaction inserts, in the order of its statements.
IndexKeys(op, r) ==
    CASE op.kind \in {"rebuild", "mark"} -> <<>>
      [] op.kind = "create" -> <<<<"reservations", op.key>>, <<"entries", EntryKey(op)>>, <<"outbox", op.key>>>>
      [] op.kind = "settle" /\ op.n = r.amount -> <<<<"settlements", op.key>>, <<"outbox", op.key>>>>
      [] op.kind = "settle" /\ op.n # r.amount ->
           <<<<"settlements", op.key>>, <<"entries", EntryKey(op)>>, <<"outbox", op.key>>>>
      [] OTHER -> <<<<"entries", EntryKey(op)>>, <<"outbox", op.key>>>>

Write(p) ==
    LET op == tx[p].op IN
    /\ tx[p].pc = "write"
    /\ IF Allowed(op, tx[p].snap, tx[p].res)
       THEN tx' = [tx EXCEPT ![p].snap = SavedSnapshot(op, @, tx[p].res),
                             ![p].todo = IndexKeys(op, tx[p].res),
                             ![p].pc = "insert"]
       ELSE End(p)
    /\ UNCHANGED tables

(***************************************************************************)
(* One insert.  A committed row with the key is a unique violation (or, in *)
(* the outbox, another event: ErrLedgerConflict); an uncommitted one makes *)
(* the insert wait for the other transaction.                              *)
(***************************************************************************)
Taken(ix) ==
    CASE ix[1] = "reservations" -> reservations[ix[2]] # NoRow
      [] ix[1] = "settlements" -> settlements[ix[2]] # NoRow
      [] ix[1] = "entries" -> entries[ix[2]] # NoRow
      [] ix[1] = "outbox" -> outbox[ix[2]] # NoRow

Insert(p) ==
    /\ tx[p].pc = "insert"
    /\ tx[p].todo # <<>>
    /\ LET ix == Head(tx[p].todo) IN
       IF Taken(ix) \/ (ix[1] = "settlements" /\ L!SettlementsOf(tx[p].op.res) # {})
       THEN End(p)
       ELSE /\ Free(ix, p)
            /\ tx' = [tx EXCEPT ![p].todo = Tail(@), ![p].locks = @ \cup {ix}]
    /\ UNCHANGED tables

Delta(p) == tx[p].op.n - tx[p].res.amount

EntryRow(p) ==
    LET op == tx[p].op
        row(type, refType, ref, n) ==
          [account |-> Account(p), type |-> type, refType |-> refType, ref |-> ref, amount |-> n]
    IN  CASE op.kind = "credit" -> row("grant_credit", "other", NoRow, op.n)
          [] op.kind = "consume" -> row("settle_debit", "other", NoRow, op.n)
          [] op.kind = "refund" -> row("settle_credit", "other", NoRow, op.n)
          [] op.kind = "adjust" -> row("adjustment", "other", NoRow, 0)
          [] op.kind = "create" -> row("reserve_hold", "reservation", op.key, op.n)
          [] op.kind = "increase" -> row("reserve_hold", "reservation", op.res, op.n)
          [] op.kind = "release" -> row("reserve_release", "reservation", op.res, tx[p].res.amount)
          [] op.kind = "settle" /\ Delta(p) > 0 -> row("settle_debit", "settlement", op.key, Delta(p))
          [] op.kind = "settle" /\ Delta(p) < 0 -> row("settle_credit", "settlement", op.key, -Delta(p))

EventRow(p) ==
    LET op == tx[p].op
        event(type, table, id) == [account |-> Account(p), type |-> type, table |-> table, id |-> id]
    IN  CASE op.kind = "credit" -> event("billing.credit_granted", "ledger_entry", op.key)
          [] op.kind \in {"consume", "refund"} -> event("billing.balance_adjusted", "ledger_entry", op.key)
          [] op.kind = "adjust" -> event("billing.adjustment_recorded", "ledger_entry", op.key)
          [] op.kind = "create" -> event("billing.reservation_created", "reservation", op.key)
          [] op.kind = "increase" -> event("billing.reservation_increased", "reservation", op.res)
          [] op.kind = "release" -> event("billing.reservation_released", "reservation", op.res)
          [] op.kind = "settle" -> event("billing.reservation_settled", "settlement", op.key)

\* The saved copies overwrite the rows, and the inserted rows become visible.
Commit(p) ==
    LET op == tx[p].op
        inserted(t) == {l[2] : l \in {m \in tx[p].locks : m[1] = t}}
        row == SavedReservation(op, tx[p].res)
    IN  /\ tx[p].pc = "insert" /\ tx[p].todo = <<>>
        /\ snapshots' = IF tx[p].snap = NoRow THEN snapshots
                        ELSE [snapshots EXCEPT ![Account(p)] = tx[p].snap]
        /\ reservations' = IF row = NoRow THEN reservations
                           ELSE [reservations EXCEPT ![IF op.kind = "create" THEN op.key ELSE op.res] = row]
        /\ settlements' = [k \in Keys |-> IF k \in inserted("settlements")
                             THEN [reservation |-> op.res, actual |-> op.n, delta |-> Delta(p)]
                             ELSE settlements[k]]
        /\ entries' = [e \in L!EntryKeys |-> IF e \in inserted("entries") THEN EntryRow(p) ELSE entries[e]]
        /\ outbox' = [k \in Keys |-> IF k \in inserted("outbox") THEN EventRow(p) ELSE outbox[k]]
        /\ End(p)

\* The database ends the transaction: its locks go, its writes never were.
Rollback(p) ==
    /\ tx[p].pc # "idle"
    /\ End(p)
    /\ UNCHANGED tables

CleanupOutbox(k) == L!CleanupOutbox(k) /\ UNCHANGED tx

Statement(p) ==
    \/ Find(p) \/ LockReservation(p) \/ LockSnapshot(p) \/ Recheck(p)
    \/ SumEntries(p) \/ SumSettlements(p) \/ SumReservations(p)
    \/ Write(p) \/ Insert(p) \/ Commit(p)

Next ==
    \/ \E p \in Procs : \/ \E op \in Ops : Begin(p, op)
                        \/ Statement(p)
                        \/ Rollback(p)
    \/ \E k \in Keys : CleanupOutbox(k)

Spec == Init /\ [][Next]_vars

-----------------------------------------------------------------------------
(***************************************************************************)
(* Transactions that interleave, wait, fail and roll back have together    *)
(* the effect of atomic ledger operations: each commit is one operation of *)
(* Ledger, no statement before it is visible, and no update is lost.       *)
(***************************************************************************)
ImplementsLedger == L!Spec

(***************************************************************************)
(* The copy a transaction computes on is the committed row, from the read  *)
(* FOR UPDATE until it commits: nothing it decided on is stale.            *)
(***************************************************************************)
CopiesCurrent ==
    \A p \in Procs :
        /\ tx[p].res # NoRow => reservations[tx[p].op.res] = tx[p].res
        /\ tx[p].pc \in {"recheck", "write"} /\ tx[p].snap # NoRow =>
              snapshots[Account(p)] = tx[p].snap

(***************************************************************************)
(* Transactions that run one ledger operation do not deadlock among        *)
(* themselves: whatever locks and index keys they hold, in every group of  *)
(* them one waits for nobody in the group (reservation before snapshot     *)
(* before index keys, in one order).  This is about the operations as the  *)
(* domain layer writes them, not about every transaction of the program: a *)
(* composed one holds the index keys of its first operation while it waits *)
(* for the snapshot of its second, against this order, and can be in a     *)
(* cycle.  PostgreSQL ends such a cycle by aborting a member (40P01);      *)
(* wallet transfers then retry.                                            *)
(***************************************************************************)
Wants(p) ==
    CASE tx[p].pc = "lockReservation" -> {<<"reservation", tx[p].op.res>>}
      [] tx[p].pc = "lockSnapshot" -> {<<"snapshot", Account(p)>>}
      [] tx[p].pc = "insert" /\ tx[p].todo # <<>> -> {Head(tx[p].todo)}
      [] OTHER -> {}

SingleOperationNoLockCycle ==
    \A S \in (SUBSET Procs) \ {{}} :
        \E p \in S : \A q \in S \ {p} : Wants(p) \cap tx[q].locks = {}
=============================================================================
