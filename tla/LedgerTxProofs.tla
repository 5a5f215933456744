--------------------------- MODULE LedgerTxProofs ---------------------------
(***************************************************************************)
(* The transactions implement the atomic ledger, for every set of          *)
(* processes, keys and accounts.  The inductive invariant says of each     *)
(* transaction which locks it holds at which statement, that the rows it   *)
(* has locked are the ones it read, and that the index keys it has         *)
(* inserted are still free in the tables.                                  *)
(*                                                                         *)
(* The last section is about the worker that publishes the events these    *)
(* transactions record.                                                    *)
(***************************************************************************)
EXTENDS LedgerTx, OutboxWorker, FiniteSetTheorems, SequenceTheorems, TLAPS

\* The proofs about the atomic ledger, over the same tables.
LP == INSTANCE LedgerProofs

PCs == {"idle", "find", "lockReservation", "lockSnapshot", "recheck", "sumEntries",
        "sumSettlements", "sumReservations", "write", "insert"}

Tx == [pc : PCs, op : Ops \cup {NoRow}, snap : L!Snapshot \cup {NoRow},
       res : L!Reservation \cup {NoRow}, todo : Seq(Locks), locks : SUBSET Locks]

TxTypes == tx \in [Procs -> Tx]

\* The operation a process is in, and which statements its kind has.
Running(p) ==
    LET kind == tx[p].op.kind
        pc == tx[p].pc
    IN  /\ tx[p].op \in Ops
        /\ kind # "mark"
        /\ OnReservation(tx[p].op) => reservations[tx[p].op.res] # NoRow
        /\ pc = "find" => kind # "rebuild"
        /\ pc = "lockReservation" => OnReservation(tx[p].op)
        /\ pc = "lockSnapshot" => kind # "adjust"
        /\ pc = "recheck" => kind = "create"
        /\ pc \in {"sumEntries", "sumSettlements", "sumReservations"} => kind = "rebuild"
        /\ pc = "write" => kind # "rebuild"

\* The statements between which the reservation and the snapshot are locked.
HoldsReservation(p) ==
    /\ tx[p].pc \notin {"idle", "lockReservation"}
    /\ OnReservation(tx[p].op)
    /\ ~(tx[p].pc = "find" /\ tx[p].op.kind = "settle")
HoldsSnapshot(p) ==
    /\ tx[p].pc \notin {"idle", "find", "lockReservation", "lockSnapshot"}
    /\ tx[p].op.kind # "adjust"

RowLocks(p) ==
    (IF HoldsReservation(p) THEN {<<"reservation", tx[p].op.res>>} ELSE {})
      \cup (IF HoldsSnapshot(p) THEN {<<"snapshot", Account(p)>>} ELSE {})

\* The reservation a transaction has locked is open and the one it read.
ReservationHeld(p) ==
    IF HoldsReservation(p)
    THEN /\ tx[p].res \in L!Reservation
         /\ tx[p].res.status = "open"
         /\ reservations[tx[p].op.res] = tx[p].res
    ELSE tx[p].res = NoRow

(***************************************************************************)
(* The copy of the snapshot at each statement: the committed row, then the *)
(* row with the sums a rebuild has so far, and before the commit the row   *)
(* as it will be saved.                                                    *)
(***************************************************************************)
SnapshotHeld(p) ==
    LET a == Account(p)
        op == tx[p].op
    IN  IF ~HoldsSnapshot(p) THEN tx[p].snap = NoRow
        ELSE /\ tx[p].snap \in L!Snapshot
             /\ tx[p].pc \in {"recheck", "write", "sumEntries", "sumReservations"} => tx[p].snap = snapshots[a]
             /\ tx[p].pc = "sumSettlements" =>
                  tx[p].snap = [snapshots[a] EXCEPT !.consumed = L!DirectConsumed(a), !.refunded = L!DirectRefunded(a)]
             /\ tx[p].pc = "insert" =>
                  /\ Allowed(op, snapshots[a], tx[p].res)
                  /\ tx[p].snap = SavedSnapshot(op, snapshots[a], tx[p].res)

\* The first n of the rows to insert are in, the others to do.
Progress(keys, todo, locks, rows) ==
    \E n \in 0..Len(keys) :
        /\ locks = rows \cup {keys[i] : i \in 1..n}
        /\ todo = [i \in 1..(Len(keys) - n) |-> keys[i + n]]

LocksHeld(p) ==
    IF tx[p].pc = "insert"
    THEN Progress(IndexKeys(tx[p].op, tx[p].res), tx[p].todo, tx[p].locks, RowLocks(p))
    ELSE tx[p].todo = <<>> /\ tx[p].locks = RowLocks(p)

\* Nobody else has committed a row under an index key that is inserted.
IndexTables == {"reservations", "settlements", "entries", "outbox"}
InsertsFree(p) == \A l \in tx[p].locks : l[1] \in IndexTables => ~Taken(l)

Good(p) ==
    IF tx[p].pc = "idle" THEN tx[p] = Idle
    ELSE Running(p) /\ ReservationHeld(p) /\ SnapshotHeld(p) /\ LocksHeld(p) /\ InsertsFree(p)

LocksExclusive == \A p, q \in Procs : p # q => tx[p].locks \cap tx[q].locks = {}

TxInv ==
    /\ LP!LInv
    /\ TxTypes
    /\ \A p \in Procs : Good(p)
    /\ LocksExclusive

-----------------------------------------------------------------------------
(***************************************************************************)
(* LedgerProofs is over its own copy of Ledger's definitions, which are    *)
(* the same formulas.                                                      *)
(***************************************************************************)
LEMMA LedgerConstants ==
    /\ LP!IsFiniteSet(Keys)
    /\ NoRow \notin Keys \cup LP!Reservation \cup LP!Settlement \cup LP!Entry \cup LP!Event
<1>1. LP!IsFiniteSet(Keys)  BY TxAssumption DEF LP!IsFiniteSet, IsFiniteSet
<1>2. NoRow \notin Keys \cup LP!Reservation \cup LP!Settlement \cup LP!Entry \cup LP!Event
  BY TxAssumption
     DEF LP!Reservation, LP!Settlement, LP!Entry, LP!Event, LP!EventTypes, LP!EntryTypes, LP!ReferenceTypes,
         L!Reservation, L!Settlement, L!Entry, L!Event, L!EventTypes, L!EntryTypes, L!ReferenceTypes
<1> QED  BY <1>1, <1>2

\* A step of the atomic ledger preserves the ledger's invariant.
LEMMA LedgerStep == LP!LInv /\ [L!Next]_(L!vars) => LP!LInv'
<1>1. [L!Next]_(L!vars) => [LP!Next]_(LP!vars)
  BY Zenon DEF L!Next, LP!Next, L!vars, LP!vars, L!Amounts, LP!Amounts,
         L!CreditAccount, LP!CreditAccount, L!CreateReservation, LP!CreateReservation,
         L!ConsumeAvailable, LP!ConsumeAvailable, L!RefundAvailable, LP!RefundAvailable,
         L!IncreaseReservation, LP!IncreaseReservation, L!SettleReservation, LP!SettleReservation,
         L!ReleaseReservation, LP!ReleaseReservation, L!RecordAdjustment, LP!RecordAdjustment,
         L!CleanupOutbox, LP!CleanupOutbox, L!RebuildSnapshot, LP!RebuildSnapshot,
         L!ExpectedSnapshot, LP!ExpectedSnapshot, L!Credited, LP!Credited, L!Debited, LP!Debited,
         L!DirectConsumed, LP!DirectConsumed, L!DirectRefunded, LP!DirectRefunded,
         L!NotSettlement, LP!NotSettlement, L!ReferenceTypes, LP!ReferenceTypes,
         L!EntryAmounts, LP!EntryAmounts, L!ActualAmounts, LP!ActualAmounts,
         L!ReturnedAmounts, LP!ReturnedAmounts, L!OpenAmounts, LP!OpenAmounts,
         L!IsOpen, LP!IsOpen, L!SettledOn, LP!SettledOn, L!EntryKeys, LP!EntryKeys,
         L!Plain, LP!Plain, L!EntryOf, LP!EntryOf, L!CreateEntry, LP!CreateEntry,
         L!RecordOutboxEvent, LP!RecordOutboxEvent, L!Total, LP!Total, L!Units, LP!Units,
         L!UnitsOf, LP!UnitsOf, L!Cardinality, LP!Cardinality, L!IsFiniteSet, LP!IsFiniteSet
<1> QED  BY <1>1, LP!NextInv, LedgerConstants, TxAssumption

\* The empty tables satisfy it.
LEMMA LedgerStart == L!Init => LP!LInv
<1>1. L!Init => LP!Init
  BY DEF L!Init, LP!Init, L!EntryKeys, LP!EntryKeys
<1> QED  BY <1>1, LP!InitInv, LedgerConstants, TxAssumption

\* What the proofs about transactions use of the ledger's invariant.
LEMMA LedgerFacts ==
    ASSUME LP!LInv
    PROVE  /\ L!TypeOK
           /\ \A a \in Accounts : snapshots[a] = L!ExpectedSnapshot(a)
           /\ \A e \in L!EntryKeys : entries[e] # NoRow /\ entries[e].type = "reserve_release" =>
                /\ entries[e].ref \in Keys /\ reservations[entries[e].ref] # NoRow
                /\ reservations[entries[e].ref].status = "released"
           /\ \A k \in Keys : settlements[k] # NoRow =>
                /\ reservations[settlements[k].reservation] # NoRow
                /\ reservations[settlements[k].reservation].status = "settled"
           /\ \A a \in Accounts :
                /\ L!DirectConsumed(a) \in Nat /\ L!DirectRefunded(a) \in Nat
                /\ Total(L!ActualAmounts(a)) \in Nat /\ Total(L!ReturnedAmounts(a)) \in Nat
<1>1. LP!TypeOK /\ LP!SnapshotMatchesLedger /\ LP!SettlementsRefer /\ LP!ReleasesRefer
  BY DEF LP!LInv, LP!CoreInv
<1>2. L!TypeOK
  BY <1>1 DEF LP!TypeOK, L!TypeOK, LP!Snapshot, LP!Reservation, LP!Settlement, LP!Entry, LP!Event,
              LP!EventTypes, LP!EntryTypes, LP!ReferenceTypes, LP!EntryKeys, L!Snapshot, L!Reservation,
              L!Settlement, L!Entry, L!Event, L!EventTypes, L!EntryTypes, L!ReferenceTypes, L!EntryKeys
<1>3. \A a \in Accounts : snapshots[a] = L!ExpectedSnapshot(a)
  BY <1>1, ZenonT(30) DEF LP!SnapshotMatchesLedger, L!ExpectedSnapshot, LP!ExpectedSnapshot, L!Credited, LP!Credited,
         L!Debited, LP!Debited, L!DirectConsumed, LP!DirectConsumed, L!DirectRefunded, LP!DirectRefunded,
         L!NotSettlement, LP!NotSettlement, L!ReferenceTypes, LP!ReferenceTypes,
         L!EntryAmounts, LP!EntryAmounts, L!ActualAmounts, LP!ActualAmounts,
         L!ReturnedAmounts, LP!ReturnedAmounts, L!OpenAmounts, LP!OpenAmounts,
         L!IsOpen, LP!IsOpen, L!SettledOn, LP!SettledOn, L!EntryKeys, LP!EntryKeys,
         L!Total, LP!Total, L!Units, LP!Units, L!UnitsOf, LP!UnitsOf, L!Cardinality, LP!Cardinality,
         L!IsFiniteSet, LP!IsFiniteSet
<1>4. \A a \in Accounts :
        /\ L!DirectConsumed(a) \in Nat /\ L!DirectRefunded(a) \in Nat
        /\ Total(L!ActualAmounts(a)) \in Nat /\ Total(L!ReturnedAmounts(a)) \in Nat
  <2> SUFFICES ASSUME NEW a \in Accounts
               PROVE  /\ L!DirectConsumed(a) \in Nat /\ L!DirectRefunded(a) \in Nat
                      /\ Total(L!ActualAmounts(a)) \in Nat /\ Total(L!ReturnedAmounts(a)) \in Nat
    OBVIOUS
  <2>1. /\ LP!DirectConsumed(a) \in Nat /\ LP!DirectRefunded(a) \in Nat
        /\ LP!Total(LP!ActualAmounts(a)) \in Nat /\ LP!Total(LP!ReturnedAmounts(a)) \in Nat
    BY <1>1, LP!SumsType, LedgerConstants, TxAssumption
  <2> QED
    BY <2>1, Zenon DEF L!DirectConsumed, LP!DirectConsumed, L!DirectRefunded, LP!DirectRefunded,
         L!NotSettlement, LP!NotSettlement, L!ReferenceTypes, LP!ReferenceTypes,
         L!EntryAmounts, LP!EntryAmounts, L!ActualAmounts, LP!ActualAmounts,
         L!ReturnedAmounts, LP!ReturnedAmounts, L!SettledOn, LP!SettledOn, L!EntryKeys, LP!EntryKeys,
         L!Total, LP!Total, L!Units, LP!Units, L!UnitsOf, LP!UnitsOf, L!Cardinality, LP!Cardinality,
         Total, Units, UnitsOf, Cardinality, L!IsFiniteSet, LP!IsFiniteSet, IsFiniteSet
<1>5. \A e \in L!EntryKeys : entries[e] # NoRow /\ entries[e].type = "reserve_release" =>
        /\ entries[e].ref \in Keys /\ reservations[entries[e].ref] # NoRow
        /\ reservations[entries[e].ref].status = "released"
  BY <1>1 DEF LP!ReleasesRefer, L!EntryKeys, LP!EntryKeys
<1>6. \A k \in Keys : settlements[k] # NoRow =>
        /\ reservations[settlements[k].reservation] # NoRow
        /\ reservations[settlements[k].reservation].status = "settled"
  BY <1>1 DEF LP!SettlementsRefer
<1> QED  BY <1>2, <1>3, <1>4, <1>5, <1>6

-----------------------------------------------------------------------------
\* The parameters an operation of each kind has.
LEMMA OpFields ==
    ASSUME NEW op \in Ops
    PROVE  /\ op.kind \in {"credit", "consume", "refund", "create", "adjust", "increase", "settle",
                           "release", "mark", "rebuild"}
           /\ op.kind \in {"increase", "settle", "release", "mark"} => op.res \in Keys
           /\ op.kind \in {"credit", "consume", "refund", "create", "adjust", "rebuild"} => op.account \in Accounts
           /\ op.kind \in {"credit", "consume", "refund", "create", "increase"} => op.n \in L!Amounts
           /\ op.kind = "settle" => op.n \in 0..MaxAmount
           /\ op.kind = "create" => op.request \in Requests
           /\ op.kind # "rebuild" => op.key \in Keys
BY DEF Ops

LEMMA AmountsNat == L!Amounts \subseteq Nat /\ 0..MaxAmount \subseteq Nat
BY TxAssumption DEF L!Amounts

LEMMA EntryKeyType ==
    ASSUME NEW op, op.key \in Keys
    PROVE  EntryKey(op) \in L!EntryKeys
BY DEF EntryKey, L!EntryKeys, L!EntryOf, L!Plain

\* The rows to insert are index keys of their tables.
LEMMA IndexKeysType ==
    ASSUME NEW op \in Ops, NEW r
    PROVE  IndexKeys(op, r) \in Seq(Locks)
<1>1. CASE op.kind \in {"rebuild", "mark"}  BY <1>1 DEF IndexKeys
<1>2. CASE op.kind \notin {"rebuild", "mark"}
  <2>1. /\ <<"reservations", op.key>> \in Locks /\ <<"settlements", op.key>> \in Locks
        /\ <<"outbox", op.key>> \in Locks /\ <<"entries", EntryKey(op)>> \in Locks
    BY <1>2, OpFields, EntryKeyType DEF Locks
  <2> QED  BY <1>2, <2>1 DEF IndexKeys
<1> QED  BY <1>1, <1>2

LEMMA NothingToInsert == <<>> \in Seq(Locks)
OBVIOUS

(***************************************************************************)
(* What a statement does to the record of its process, field by field; the *)
(* other processes keep theirs.                                            *)
(***************************************************************************)
Others(p) == \A q \in Procs \ {p} : tx'[q] = tx[q]

Fields(p, pc, op, snap, res, todo, locks) ==
    /\ TxTypes' /\ Others(p)
    /\ tx'[p].pc = pc /\ tx'[p].op = op /\ tx'[p].snap = snap /\ tx'[p].res = res
    /\ tx'[p].todo = todo /\ tx'[p].locks = locks

LEMMA BeginFields ==
    ASSUME TxTypes, NEW p \in Procs, NEW op \in Ops, NEW pc \in PCs,
           tx' = [tx EXCEPT ![p] = [Idle EXCEPT !.op = op, !.pc = pc]]
    PROVE  Fields(p, pc, op, NoRow, NoRow, <<>>, {})
BY NothingToInsert DEF Fields, Others, TxTypes, Tx, Idle

LEMMA GotoFields ==
    ASSUME TxTypes, NEW p \in Procs, NEW pc \in PCs, Goto(p, pc)
    PROVE  Fields(p, pc, tx[p].op, tx[p].snap, tx[p].res, tx[p].todo, tx[p].locks)
BY DEF Goto, Fields, Others, TxTypes, Tx

LEMMA ReservationFields ==
    ASSUME TxTypes, NEW p \in Procs, NEW pc \in PCs, NEW res \in L!Reservation, NEW l \in Locks,
           tx' = [tx EXCEPT ![p].res = res, ![p].locks = @ \cup {l}, ![p].pc = pc]
    PROVE  Fields(p, pc, tx[p].op, tx[p].snap, res, tx[p].todo, tx[p].locks \cup {l})
BY DEF Fields, Others, TxTypes, Tx

LEMMA SnapshotFields ==
    ASSUME TxTypes, NEW p \in Procs, NEW pc \in PCs, NEW snap \in L!Snapshot, NEW l \in Locks,
           tx' = [tx EXCEPT ![p].snap = snap, ![p].locks = @ \cup {l}, ![p].pc = pc]
    PROVE  Fields(p, pc, tx[p].op, snap, tx[p].res, tx[p].todo, tx[p].locks \cup {l})
BY DEF Fields, Others, TxTypes, Tx

LEMMA SumFields ==
    ASSUME TxTypes, NEW p \in Procs, NEW pc \in PCs, NEW snap \in L!Snapshot,
           tx' = [tx EXCEPT ![p].pc = pc, ![p].snap = snap]
    PROVE  Fields(p, pc, tx[p].op, snap, tx[p].res, tx[p].todo, tx[p].locks)
BY DEF Fields, Others, TxTypes, Tx

LEMMA WriteFields ==
    ASSUME TxTypes, NEW p \in Procs, NEW pc \in PCs, NEW snap \in L!Snapshot \cup {NoRow}, NEW todo \in Seq(Locks),
           tx' = [tx EXCEPT ![p].snap = snap, ![p].todo = todo, ![p].pc = pc]
    PROVE  Fields(p, pc, tx[p].op, snap, tx[p].res, todo, tx[p].locks)
BY DEF Fields, Others, TxTypes, Tx

LEMMA InsertFields ==
    ASSUME TxTypes, NEW p \in Procs, NEW todo \in Seq(Locks), NEW l \in Locks,
           tx' = [tx EXCEPT ![p].todo = todo, ![p].locks = @ \cup {l}]
    PROVE  Fields(p, tx[p].pc, tx[p].op, tx[p].snap, tx[p].res, todo, tx[p].locks \cup {l})
BY DEF Fields, Others, TxTypes, Tx

LEMMA EndFields ==
    ASSUME TxTypes, NEW p \in Procs, End(p)
    PROVE  TxTypes' /\ Others(p) /\ tx'[p] = Idle
BY NothingToInsert DEF End, Others, TxTypes, Tx, Idle, PCs

\* Without a change to the tables or its record, a process stays good.
LEMMA GoodKept ==
    ASSUME UNCHANGED tables, NEW q \in Procs, tx'[q] = tx[q], Good(q)
    PROVE  Good(q)'
<1>1. Account(q)' = Account(q)  BY DEF Account
<1>2. HoldsReservation(q)' = HoldsReservation(q) /\ HoldsSnapshot(q)' = HoldsSnapshot(q)
  BY DEF HoldsReservation, HoldsSnapshot
<1>3. RowLocks(q)' = RowLocks(q)  BY <1>1, <1>2 DEF RowLocks
<1>4. Running(q) => Running(q)'  BY DEF Running, tables
<1>5. ReservationHeld(q) => ReservationHeld(q)'  BY <1>2 DEF ReservationHeld, tables
<1>6. LocksHeld(q) => LocksHeld(q)'  BY <1>3 DEF LocksHeld
<1>7. InsertsFree(q) => InsertsFree(q)'  BY DEF InsertsFree, Taken, tables
<1>8. SnapshotHeld(q) => SnapshotHeld(q)'
  <2>1. \A a \in {Account(q)} : L!DirectConsumed(a)' = L!DirectConsumed(a) /\ L!DirectRefunded(a)' = L!DirectRefunded(a)
    BY DEF L!DirectConsumed, L!DirectRefunded, L!EntryAmounts, tables
  <2> QED  BY <1>1, <1>2, <2>1 DEF SnapshotHeld, tables
<1> QED  BY <1>4, <1>5, <1>6, <1>7, <1>8 DEF Good

(***************************************************************************)
(* A statement that writes no table: it is enough that its own transaction *)
(* stays good and shares no lock.                                          *)
(***************************************************************************)
LEMMA LocalStep ==
    ASSUME TxInv, UNCHANGED tables, NEW p \in Procs, TxTypes', Others(p),
           Good(p)', \A q \in Procs \ {p} : tx'[p].locks \cap tx[q].locks = {}
    PROVE  TxInv'
<1>1. \A q \in Procs \ {p} : tx'[q] = tx[q]  BY DEF Others
<1>2. LP!LInv'
  <2>1. UNCHANGED L!vars  BY DEF tables, L!vars
  <2> QED  BY <2>1, LedgerStep DEF TxInv
<1>3. \A q \in Procs : Good(q)'  BY <1>1, GoodKept DEF TxInv
<1>4. LocksExclusive'  BY <1>1 DEF LocksExclusive, TxInv
<1> QED  BY <1>2, <1>3, <1>4 DEF TxInv

\* A transaction that ends without a write.
LEMMA EndStep ==
    ASSUME TxInv, UNCHANGED tables, NEW p \in Procs, End(p)
    PROVE  TxInv'
<1>1. TxTypes' /\ Others(p) /\ tx'[p] = Idle  BY EndFields DEF TxInv
<1>2. Good(p)'  BY <1>1 DEF Good, Idle
<1>3. tx'[p].locks = {}  BY <1>1 DEF Idle
<1> QED  BY <1>1, <1>2, <1>3, LocalStep

\* A transaction before its inserts.
LEMMA RowOf ==
    ASSUME TxInv, NEW p \in Procs, tx[p].pc \notin {"idle", "insert"}
    PROVE  /\ TxTypes
           /\ tx[p].op \in Ops /\ tx[p].snap \in L!Snapshot \cup {NoRow}
           /\ tx[p].res \in L!Reservation \cup {NoRow} /\ tx[p].locks \in SUBSET Locks
           /\ tx[p].todo = <<>> /\ tx[p].locks = RowLocks(p)
           /\ Running(p) /\ ReservationHeld(p) /\ SnapshotHeld(p)
<1>1. tx[p] \in Tx /\ Good(p)  BY DEF TxInv, TxTypes
<1>2. Running(p) /\ ReservationHeld(p) /\ SnapshotHeld(p) /\ LocksHeld(p)  BY <1>1 DEF Good
<1>3. tx[p].todo = <<>> /\ tx[p].locks = RowLocks(p)  BY <1>2 DEF LocksHeld
<1>4. tx[p].op \in Ops  BY <1>2 DEF Running
<1> QED  BY <1>1, <1>2, <1>3, <1>4 DEF Tx, TxInv

(***************************************************************************)
(* A transaction that holds row locks and has inserted nothing is good if  *)
(* its statement, its locks and its copies agree.                          *)
(***************************************************************************)
LEMMA RowStep ==
    ASSUME TxInv, UNCHANGED tables, NEW p \in Procs, TxTypes', Others(p),
           tx'[p].pc \notin {"idle", "insert"}, tx'[p].todo = <<>>,
           Running(p)', ReservationHeld(p)', SnapshotHeld(p)', tx'[p].locks = RowLocks(p)',
           \A q \in Procs \ {p} : tx'[p].locks \cap tx[q].locks = {}
    PROVE  TxInv'
<1>1. LocksHeld(p)'  BY DEF LocksHeld
<1>2. InsertsFree(p)'
  <2>1. \A l \in RowLocks(p)' : l[1] \in {"reservation", "snapshot"}  BY DEF RowLocks
  <2> QED  BY <2>1 DEF InsertsFree, IndexTables
<1>3. Good(p)'  BY <1>1, <1>2 DEF Good
<1> QED  BY <1>3, LocalStep

-----------------------------------------------------------------------------
\* Begin: no lock, no copy.
LEMMA BeginStep ==
    ASSUME TxInv, NEW p \in Procs, NEW op \in Ops, Begin(p, op)
    PROVE  TxInv'
<1> DEFINE pc == CASE op.kind = "rebuild" -> "lockSnapshot"
                   [] op.kind \in {"increase", "release"} -> "lockReservation"
                   [] OTHER -> "find"
<1>1. tx' = [tx EXCEPT ![p] = [Idle EXCEPT !.op = op, !.pc = pc]] /\ UNCHANGED tables
  BY DEF Begin
<1>2. /\ pc \in {"lockSnapshot", "lockReservation", "find"}
      /\ pc = "lockSnapshot" => op.kind = "rebuild"
      /\ pc = "lockReservation" => op.kind \in {"increase", "release"}
      /\ pc = "find" => op.kind \notin {"rebuild", "increase", "release"}
  OBVIOUS
<1>3. op.kind # "mark" /\ (OnReservation(op) => reservations[op.res] # NoRow)
  BY TxAssumption DEF Begin
<1> HIDE DEF pc
<1>4. Fields(p, pc, op, NoRow, NoRow, <<>>, {})  BY <1>1, <1>2, BeginFields DEF PCs, TxInv
<1>5. Running(p)'  BY <1>1, <1>2, <1>3, <1>4 DEF Running, OnReservation, tables, Fields
<1>6. ~HoldsReservation(p)' /\ ~HoldsSnapshot(p)'
  BY <1>2, <1>3, <1>4 DEF HoldsReservation, HoldsSnapshot, OnReservation, Fields
<1>7. ReservationHeld(p)' /\ SnapshotHeld(p)' /\ RowLocks(p)' = {}
  BY <1>4, <1>6 DEF ReservationHeld, SnapshotHeld, RowLocks, Fields
<1> QED  BY <1>1, <1>2, <1>4, <1>5, <1>7, RowStep DEF Fields

(***************************************************************************)
(* Find: a release that finds its own entry would mark the reservation,    *)
(* but the entry says the reservation is released, and it is locked open.  *)
(***************************************************************************)
LEMMA FindStep ==
    ASSUME TxInv, NEW p \in Procs, Find(p)
    PROVE  TxInv'
<1> DEFINE op == tx[p].op
           pc == CASE op.kind = "settle" -> "lockReservation"
                   [] op.kind = "adjust" -> "write"
                   [] OTHER -> "lockSnapshot"
<1>1. tx[p].pc = "find" /\ UNCHANGED tables  BY DEF Find
<1>2. /\ TxTypes /\ op \in Ops /\ tx[p].todo = <<>> /\ tx[p].locks = RowLocks(p)
      /\ Running(p) /\ ReservationHeld(p) /\ SnapshotHeld(p)
  BY <1>1, RowOf
<1>3. op.kind \notin {"mark", "rebuild"}  BY <1>1, <1>2 DEF Running
<1>4. CASE End(p)  BY <1>1, <1>4, EndStep
<1>5. CASE Goto(p, pc)
  <2>1. /\ pc \in {"lockReservation", "write", "lockSnapshot"}
        /\ pc = "lockReservation" => op.kind = "settle"
        /\ pc = "write" => op.kind = "adjust"
        /\ pc = "lockSnapshot" => op.kind \notin {"settle", "adjust"}
    OBVIOUS
  <2> HIDE DEF pc
  <2>2. Fields(p, pc, op, tx[p].snap, tx[p].res, tx[p].todo, tx[p].locks)
    BY <1>2, <1>5, <2>1, GotoFields DEF PCs
  <2>3. Running(p)'  BY <1>1, <1>2, <1>3, <2>1, <2>2 DEF Running, OnReservation, tables, Fields
  <2>4. HoldsReservation(p)' = HoldsReservation(p)
    BY <1>1, <2>1, <2>2 DEF HoldsReservation, OnReservation, Fields
  <2>5. ~HoldsSnapshot(p) /\ ~HoldsSnapshot(p)'
    BY <1>1, <2>1, <2>2 DEF HoldsSnapshot, Fields
  <2>6. ReservationHeld(p)'  BY <1>1, <1>2, <2>2, <2>4 DEF ReservationHeld, tables, Fields
  <2>7. SnapshotHeld(p)'  BY <1>2, <2>2, <2>5 DEF SnapshotHeld, Fields
  <2>8. RowLocks(p)' = tx'[p].locks  BY <1>2, <2>2, <2>4, <2>5 DEF RowLocks, Fields
  <2>9. \A q \in Procs \ {p} : tx'[p].locks \cap tx[q].locks = {}
    BY <2>2 DEF TxInv, LocksExclusive, Fields
  <2> QED  BY <1>1, <1>2, <2>1, <2>2, <2>3, <2>6, <2>7, <2>8, <2>9, RowStep DEF Fields
<1>6. ASSUME KeyUsed(op), OwnRelease(op) PROVE FALSE
  <2>1. op.kind = "release"  BY <1>6 DEF OwnRelease
  <2>2. op.key \in Keys /\ op.res \in Keys  BY <1>2, <2>1, OpFields
  <2>3. L!Plain(op.key) \in L!EntryKeys  BY <2>2 DEF L!Plain, L!EntryKeys
  <2>4. entries[L!Plain(op.key)] # NoRow  BY <1>6, <2>1 DEF KeyUsed
  <2>5. reservations[op.res].status = "released"
    BY <1>6, <2>3, <2>4, LedgerFacts DEF OwnRelease, TxInv
  <2>6. HoldsReservation(p)  BY <1>1, <2>1 DEF HoldsReservation, OnReservation
  <2> QED  BY <1>2, <2>5, <2>6 DEF ReservationHeld
<1> QED  BY <1>4, <1>5, <1>6 DEF Find

\* LockReservation: the copy is the committed row, which is open.
LEMMA LockReservationStep ==
    ASSUME TxInv, NEW p \in Procs, LockReservation(p)
    PROVE  TxInv'
<1> DEFINE op == tx[p].op
           r == op.res
           l == <<"reservation", r>>
           pc == IF op.kind = "settle" THEN "lockSnapshot" ELSE "find"
<1>1. tx[p].pc = "lockReservation" /\ UNCHANGED tables /\ Free(l, p)  BY DEF LockReservation
<1>2. /\ TxTypes /\ op \in Ops /\ tx[p].todo = <<>> /\ tx[p].locks = RowLocks(p)
      /\ Running(p) /\ SnapshotHeld(p)
  BY <1>1, RowOf
<1>3. ~HoldsReservation(p) /\ ~HoldsSnapshot(p)  BY <1>1 DEF HoldsReservation, HoldsSnapshot
<1>4. tx[p].snap = NoRow /\ tx[p].locks = {}  BY <1>2, <1>3 DEF SnapshotHeld, RowLocks
<1>5. op.kind \in {"increase", "settle", "release"} /\ reservations[r] # NoRow
  BY <1>1, <1>2 DEF Running, OnReservation
<1>6. r \in Keys /\ l \in Locks  BY <1>2, <1>5, OpFields DEF Locks
<1>7. reservations[r] \in L!Reservation  BY <1>5, <1>6, LedgerFacts DEF L!TypeOK, TxInv
<1>8. CASE End(p)  BY <1>1, <1>8, EndStep
<1>9. CASE reservations[r].status = "open" /\ ~End(p)
  <2>1. tx' = [tx EXCEPT ![p].res = reservations[r], ![p].locks = @ \cup {l}, ![p].pc = pc]
    BY <1>9 DEF LockReservation
  <2>2. /\ pc \in {"lockSnapshot", "find"}
        /\ pc = "lockSnapshot" <=> op.kind = "settle"
    OBVIOUS
  <2> HIDE DEF pc
  <2>3. Fields(p, pc, op, NoRow, reservations[r], <<>>, {l})
    <3> HIDE DEF l, r
    <3>1. pc \in PCs  BY <2>2 DEF PCs
    <3>2. Fields(p, pc, op, tx[p].snap, reservations[r], tx[p].todo, tx[p].locks \cup {l})
      BY <1>2, <1>6, <1>7, <2>1, <3>1, ReservationFields
    <3>3. {} \cup {l} = {l}  OBVIOUS
    <3> QED  BY <1>2, <1>4, <3>2, <3>3
  <2>4. Running(p)'  BY <1>1, <1>2, <1>5, <2>2, <2>3 DEF Running, OnReservation, tables, Fields
  <2>5. HoldsReservation(p)' /\ ~HoldsSnapshot(p)'
    BY <1>5, <2>2, <2>3 DEF HoldsReservation, HoldsSnapshot, OnReservation, Fields
  <2>6. ReservationHeld(p)'  BY <1>1, <1>7, <1>9, <2>3, <2>5 DEF ReservationHeld, tables, Fields
  <2>7. SnapshotHeld(p)'  BY <2>3, <2>5 DEF SnapshotHeld, Fields
  <2>8. RowLocks(p)' = tx'[p].locks  BY <2>3, <2>5 DEF RowLocks, Fields
  <2>9. \A q \in Procs \ {p} : tx'[p].locks \cap tx[q].locks = {}  BY <1>1, <2>3 DEF Free, Fields
  <2> QED  BY <1>1, <2>2, <2>3, <2>4, <2>6, <2>7, <2>8, <2>9, RowStep DEF Fields
<1> QED  BY <1>8, <1>9 DEF LockReservation

\* The account of a transaction that needs its snapshot.
LEMMA AccountKnown ==
    ASSUME NEW p \in Procs, Running(p), ReservationHeld(p),
           OnReservation(tx[p].op) => HoldsReservation(p)
    PROVE  Account(p) \in Accounts
<1>1. CASE OnReservation(tx[p].op)
  <2>1. tx[p].res \in L!Reservation  BY <1>1 DEF ReservationHeld
  <2> QED  BY <1>1, <2>1 DEF Account, L!Reservation
<1>2. CASE ~OnReservation(tx[p].op)
  BY <1>2, OpFields DEF Running, Account, OnReservation
<1> QED  BY <1>1, <1>2

\* LockSnapshot: the copy is the committed row of the account.
LEMMA LockSnapshotStep ==
    ASSUME TxInv, NEW p \in Procs, LockSnapshot(p)
    PROVE  TxInv'
<1> DEFINE op == tx[p].op
           a == Account(p)
           l == <<"snapshot", a>>
           pc == CASE op.kind = "create" -> "recheck"
                   [] op.kind = "rebuild" -> "sumEntries"
                   [] OTHER -> "write"
<1>1. tx[p].pc = "lockSnapshot" /\ UNCHANGED tables /\ Free(l, p)  BY DEF LockSnapshot
<1>2. /\ TxTypes /\ op \in Ops /\ tx[p].todo = <<>> /\ tx[p].locks = RowLocks(p)
      /\ Running(p) /\ ReservationHeld(p) /\ SnapshotHeld(p)
  BY <1>1, RowOf
<1>3. op.kind \notin {"adjust", "mark"}  BY <1>1, <1>2 DEF Running
<1>4. OnReservation(op) => HoldsReservation(p)  BY <1>1 DEF HoldsReservation
<1>5. a \in Accounts  BY <1>2, <1>4, AccountKnown
<1>6. snapshots[a] \in L!Snapshot /\ l \in Locks  BY <1>5, LedgerFacts DEF L!TypeOK, TxInv, Locks
<1>7. tx' = [tx EXCEPT ![p].snap = snapshots[a], ![p].locks = @ \cup {l}, ![p].pc = pc]
  BY DEF LockSnapshot
<1>8. /\ pc \in {"recheck", "sumEntries", "write"}
      /\ pc = "recheck" <=> op.kind = "create"
      /\ pc = "sumEntries" <=> op.kind = "rebuild"
  OBVIOUS
<1> HIDE DEF pc
<1>9. Fields(p, pc, op, snapshots[a], tx[p].res, <<>>, tx[p].locks \cup {l})
  <2> HIDE DEF l, a
  <2>1. pc \in PCs  BY <1>8 DEF PCs
  <2>2. Fields(p, pc, op, snapshots[a], tx[p].res, tx[p].todo, tx[p].locks \cup {l})
    BY <1>2, <1>6, <1>7, <2>1, SnapshotFields
  <2> QED  BY <1>2, <2>2
<1>10. Running(p)'  BY <1>1, <1>2, <1>3, <1>8, <1>9 DEF Running, OnReservation, tables, Fields
<1>11. HoldsReservation(p)' = HoldsReservation(p) /\ HoldsSnapshot(p)' /\ ~HoldsSnapshot(p)
  BY <1>1, <1>3, <1>8, <1>9 DEF HoldsReservation, HoldsSnapshot, OnReservation, Fields
<1>12. Account(p)' = a  BY <1>9 DEF Account, Fields
<1>13. ReservationHeld(p)'  BY <1>1, <1>2, <1>9, <1>11 DEF ReservationHeld, tables, Fields
<1>14. SnapshotHeld(p)'  BY <1>1, <1>6, <1>8, <1>9, <1>11, <1>12 DEF SnapshotHeld, tables, Fields
<1>15. RowLocks(p)' = tx'[p].locks  BY <1>2, <1>9, <1>11, <1>12 DEF RowLocks, Fields
<1>16. \A q \in Procs \ {p} : tx'[p].locks \cap tx[q].locks = {}
  BY <1>1, <1>9 DEF Free, TxInv, LocksExclusive, Fields
<1> QED  BY <1>1, <1>8, <1>9, <1>10, <1>13, <1>14, <1>15, <1>16, RowStep DEF Fields

(***************************************************************************)
(* A statement under the locks that keeps the transaction's locks, its     *)
(* operation and its reservation.                                          *)
(***************************************************************************)
LEMMA SnapshotStay ==
    ASSUME TxInv, UNCHANGED tables, NEW p \in Procs, NEW pc, NEW snap,
           tx[p].pc \in {"recheck", "sumEntries", "sumSettlements"},
           pc \in {"write", "sumSettlements", "sumReservations"},
           Fields(p, pc, tx[p].op, snap, tx[p].res, tx[p].todo, tx[p].locks),
           pc = "write" <=> tx[p].op.kind = "create",
           SnapshotHeld(p)'
    PROVE  TxInv'
<1>1. /\ tx[p].op \in Ops /\ tx[p].todo = <<>> /\ tx[p].locks = RowLocks(p)
      /\ Running(p) /\ ReservationHeld(p)
  BY RowOf
<1>2. tx[p].op.kind \in {"create", "rebuild"}  BY <1>1 DEF Running
<1>3. Running(p)'  BY <1>1, <1>2 DEF Running, OnReservation, tables, Fields
<1>4. HoldsReservation(p)' = HoldsReservation(p) /\ HoldsSnapshot(p)' = HoldsSnapshot(p)
  BY <1>2 DEF HoldsReservation, HoldsSnapshot, OnReservation, Fields
<1>5. Account(p)' = Account(p)  BY DEF Account, Fields
<1>6. ReservationHeld(p)'  BY <1>1, <1>4 DEF ReservationHeld, tables, Fields
<1>7. RowLocks(p)' = tx'[p].locks  BY <1>1, <1>4, <1>5 DEF RowLocks, Fields
<1>8. \A q \in Procs \ {p} : tx'[p].locks \cap tx[q].locks = {}
  BY DEF TxInv, LocksExclusive, Fields
<1> QED  BY <1>1, <1>3, <1>6, <1>7, <1>8, RowStep DEF Fields

\* Recheck: the copy of the snapshot is still the locked row.
LEMMA RecheckStep ==
    ASSUME TxInv, NEW p \in Procs, Recheck(p)
    PROVE  TxInv'
<1>1. tx[p].pc = "recheck" /\ UNCHANGED tables  BY DEF Recheck
<1>2. CASE End(p)  BY <1>1, <1>2, EndStep
<1>3. CASE Goto(p, "write")
  <2>1. TxTypes /\ Running(p) /\ SnapshotHeld(p)  BY <1>1, RowOf
  <2>2. Fields(p, "write", tx[p].op, tx[p].snap, tx[p].res, tx[p].todo, tx[p].locks)
    BY <1>3, <2>1, GotoFields DEF PCs
  <2>3. tx[p].op.kind = "create"  BY <1>1, <2>1 DEF Running
  <2>4. HoldsSnapshot(p) /\ HoldsSnapshot(p)'  BY <1>1, <2>2, <2>3 DEF HoldsSnapshot, Fields
  <2>5. Account(p)' = Account(p)  BY <2>2 DEF Account, Fields
  <2>6. SnapshotHeld(p)'  BY <1>1, <2>1, <2>2, <2>4, <2>5 DEF SnapshotHeld, tables, Fields
  <2> QED  BY <1>1, <2>2, <2>3, <2>6, SnapshotStay
<1> QED  BY <1>2, <1>3 DEF Recheck

\* A rebuild at one of its three queries.
LEMMA RebuildFacts ==
    ASSUME TxInv, NEW p \in Procs, tx[p].pc \in {"sumEntries", "sumSettlements", "sumReservations"}
    PROVE  /\ TxTypes /\ Running(p) /\ SnapshotHeld(p) /\ HoldsSnapshot(p)
           /\ tx[p].op.kind = "rebuild" /\ Account(p) \in Accounts
           /\ snapshots[Account(p)] \in L!Snapshot
           /\ snapshots[Account(p)] = L!ExpectedSnapshot(Account(p))
           /\ L!DirectConsumed(Account(p)) \in Nat /\ L!DirectRefunded(Account(p)) \in Nat
           /\ Total(L!ActualAmounts(Account(p))) \in Nat /\ Total(L!ReturnedAmounts(Account(p))) \in Nat
<1>1. TxTypes /\ Running(p) /\ SnapshotHeld(p) /\ ReservationHeld(p)  BY RowOf
<1>2. tx[p].op.kind = "rebuild"  BY <1>1 DEF Running
<1>3. HoldsSnapshot(p)  BY <1>2 DEF HoldsSnapshot
<1>4. Account(p) \in Accounts  BY <1>1, <1>2, AccountKnown DEF OnReservation
<1> QED  BY <1>1, <1>2, <1>3, <1>4, LedgerFacts DEF L!TypeOK, TxInv

\* SumEntries: available and granted are what the snapshot already says.
LEMMA SumEntriesStep ==
    ASSUME TxInv, NEW p \in Procs, SumEntries(p)
    PROVE  TxInv'
<1> DEFINE a == Account(p)
           s == snapshots[a]
           snap == [tx[p].snap EXCEPT !.available = L!Credited(a) - L!Debited(a),
                                      !.granted = L!ExpectedSnapshot(a).granted,
                                      !.consumed = L!DirectConsumed(a), !.refunded = L!DirectRefunded(a)]
           part == [s EXCEPT !.consumed = L!DirectConsumed(a), !.refunded = L!DirectRefunded(a)]
<1>1. tx[p].pc = "sumEntries" /\ UNCHANGED tables  BY DEF SumEntries
<1>2. /\ TxTypes /\ SnapshotHeld(p) /\ HoldsSnapshot(p) /\ tx[p].op.kind = "rebuild"
      /\ s \in L!Snapshot /\ s = L!ExpectedSnapshot(a)
      /\ L!DirectConsumed(a) \in Nat /\ L!DirectRefunded(a) \in Nat
  BY <1>1, RebuildFacts
<1>3. tx[p].snap = s  BY <1>1, <1>2 DEF SnapshotHeld
<1>4. s.available = L!Credited(a) - L!Debited(a) /\ s.granted = L!ExpectedSnapshot(a).granted
  <2>1. L!ExpectedSnapshot(a).available = L!Credited(a) - L!Debited(a)  BY DEF L!ExpectedSnapshot
  <2> QED  BY <1>2, <2>1
<1>5. snap = part /\ part \in L!Snapshot
  <2>1. part \in L!Snapshot  BY <1>2 DEF L!Snapshot
  <2>2. snap = part
    BY <1>2, <1>3, <1>4 DEF L!Snapshot
  <2> QED  BY <2>1, <2>2
<1>6. tx' = [tx EXCEPT ![p].pc = "sumSettlements", ![p].snap = snap]  BY DEF SumEntries
<1>7. Fields(p, "sumSettlements", tx[p].op, part, tx[p].res, tx[p].todo, tx[p].locks)
  <2> HIDE DEF snap, part
  <2> QED  BY <1>2, <1>5, <1>6, SumFields DEF PCs
<1>8. HoldsSnapshot(p)'  BY <1>2, <1>7 DEF HoldsSnapshot, Fields
<1>9. Account(p)' = a  BY <1>7 DEF Account, Fields
<1>10. SnapshotHeld(p)'
  <2>1. snapshots' = snapshots  BY <1>1 DEF tables
  <2>2. L!DirectConsumed(Account(p))' = L!DirectConsumed(a) /\ L!DirectRefunded(Account(p))' = L!DirectRefunded(a)
    BY <1>1, <1>9 DEF L!DirectConsumed, L!DirectRefunded, L!EntryAmounts, tables
  <2>3. tx'[p].snap = [snapshots[a] EXCEPT !.consumed = L!DirectConsumed(a), !.refunded = L!DirectRefunded(a)]
    BY <1>7 DEF Fields
  <2>4. tx'[p].snap \in L!Snapshot /\ tx'[p].pc = "sumSettlements"  BY <1>5, <1>7 DEF Fields
  <2> QED  BY <1>8, <1>9, <2>1, <2>2, <2>3, <2>4 DEF SnapshotHeld
<1> HIDE DEF part
<1> QED  BY <1>1, <1>2, <1>7, <1>10, SnapshotStay

\* SumSettlements: consumed and refunded are complete.
LEMMA SumSettlementsStep ==
    ASSUME TxInv, NEW p \in Procs, SumSettlements(p)
    PROVE  TxInv'
<1> DEFINE a == Account(p)
           s == snapshots[a]
           snap == [tx[p].snap EXCEPT !.consumed = tx[p].snap.consumed + Total(L!ActualAmounts(a)),
                                      !.refunded = tx[p].snap.refunded + Total(L!ReturnedAmounts(a))]
<1>1. tx[p].pc = "sumSettlements" /\ UNCHANGED tables  BY DEF SumSettlements
<1>2. /\ TxTypes /\ SnapshotHeld(p) /\ HoldsSnapshot(p) /\ tx[p].op.kind = "rebuild"
      /\ s \in L!Snapshot /\ s = L!ExpectedSnapshot(a)
      /\ L!DirectConsumed(a) \in Nat /\ L!DirectRefunded(a) \in Nat
      /\ Total(L!ActualAmounts(a)) \in Nat /\ Total(L!ReturnedAmounts(a)) \in Nat
  BY <1>1, RebuildFacts
<1>3. tx[p].snap = [s EXCEPT !.consumed = L!DirectConsumed(a), !.refunded = L!DirectRefunded(a)]
  BY <1>1, <1>2 DEF SnapshotHeld
<1>4. /\ s.consumed = L!DirectConsumed(a) + Total(L!ActualAmounts(a))
      /\ s.refunded = L!DirectRefunded(a) + Total(L!ReturnedAmounts(a))
  <2>1. \A f : L!Total(f) = Total(f)
    BY DEF L!Total, L!Units, L!UnitsOf, L!Cardinality, L!IsFiniteSet, Total, Units, UnitsOf, Cardinality, IsFiniteSet
  <2>2. /\ L!ExpectedSnapshot(a).consumed = L!Total(L!ActualAmounts(a)) + L!DirectConsumed(a)
        /\ L!ExpectedSnapshot(a).refunded = L!Total(L!ReturnedAmounts(a)) + L!DirectRefunded(a)
    BY DEF L!ExpectedSnapshot
  <2> QED  BY <1>2, <2>1, <2>2
<1>5. snap = s
  BY <1>2, <1>3, <1>4 DEF L!Snapshot
<1>6. tx' = [tx EXCEPT ![p].pc = "sumReservations", ![p].snap = snap]  BY DEF SumSettlements
<1>7. Fields(p, "sumReservations", tx[p].op, s, tx[p].res, tx[p].todo, tx[p].locks)
  <2> HIDE DEF snap, s
  <2> QED  BY <1>2, <1>5, <1>6, SumFields DEF PCs
<1>8. HoldsSnapshot(p)'  BY <1>2, <1>7 DEF HoldsSnapshot, Fields
<1>9. Account(p)' = a  BY <1>7 DEF Account, Fields
<1>10. SnapshotHeld(p)'  BY <1>1, <1>2, <1>7, <1>8, <1>9 DEF SnapshotHeld, tables, Fields
<1> QED  BY <1>1, <1>2, <1>7, <1>10, SnapshotStay

-----------------------------------------------------------------------------
\* Progress through the inserts: none done, one more, all done.
LEMMA ProgressStart ==
    ASSUME NEW keys \in Seq(Locks), NEW rows
    PROVE  Progress(keys, keys, rows, rows)
<1>1. Len(keys) \in Nat /\ keys = [i \in 1..Len(keys) |-> keys[i]]  OBVIOUS
<1>2. rows = rows \cup {keys[i] : i \in 1..0}  OBVIOUS
<1>3. keys = [i \in 1..(Len(keys) - 0) |-> keys[i + 0]]  BY <1>1
<1>4. 0 \in 0..Len(keys)  BY <1>1
<1> QED  BY <1>2, <1>3, <1>4 DEF Progress

LEMMA ProgressNext ==
    ASSUME NEW keys \in Seq(Locks), NEW todo \in Seq(Locks), NEW locks, NEW rows,
           Progress(keys, todo, locks, rows), todo # <<>>
    PROVE  /\ Head(todo) \in {keys[i] : i \in 1..Len(keys)} /\ Head(todo) \in Locks
           /\ Tail(todo) \in Seq(Locks)
           /\ Progress(keys, Tail(todo), locks \cup {Head(todo)}, rows)
<1>1. PICK n \in 0..Len(keys) : /\ locks = rows \cup {keys[i] : i \in 1..n}
                                /\ todo = [i \in 1..(Len(keys) - n) |-> keys[i + n]]
  BY DEF Progress
<1>2. Len(keys) \in Nat /\ n \in Nat /\ Len(todo) = Len(keys) - n  BY <1>1
<1>3. n < Len(keys)  BY <1>1, <1>2
<1>4. Head(todo) = keys[n + 1]  BY <1>1, <1>2, <1>3
<1>5. n + 1 \in 1..Len(keys) /\ n + 1 \in 0..Len(keys)  BY <1>2, <1>3
<1>6. locks \cup {Head(todo)} = rows \cup {keys[i] : i \in 1..(n + 1)}
  <2>1. 1..(n + 1) = (1..n) \cup {n + 1}  BY <1>2
  <2> QED  BY <1>1, <1>4, <2>1
<1>7. Tail(todo) = [i \in 1..(Len(keys) - (n + 1)) |-> keys[i + (n + 1)]]
  <2>1. Tail(todo) = [i \in 1..(Len(todo) - 1) |-> todo[i + 1]]
    <3>1. /\ Tail(todo) \in Seq(Locks) /\ Len(Tail(todo)) = Len(todo) - 1
          /\ \A i \in 1..(Len(todo) - 1) : Tail(todo)[i] = todo[i + 1]
      BY HeadTailProperties
    <3>2. Tail(todo) = [i \in 1..Len(Tail(todo)) |-> Tail(todo)[i]]  BY <3>1, LenProperties
    <3> QED  BY <3>1, <3>2
  <2>2. \A i \in 1..(Len(todo) - 1) : todo[i + 1] = keys[i + (n + 1)]  BY <1>1, <1>2
  <2>3. Len(todo) - 1 = Len(keys) - (n + 1)  BY <1>2
  <2> QED  BY <2>1, <2>2, <2>3
<1>8. Progress(keys, Tail(todo), locks \cup {Head(todo)}, rows)  BY <1>5, <1>6, <1>7 DEF Progress
<1>9. Head(todo) \in Locks /\ Tail(todo) \in Seq(Locks)  BY HeadTailProperties
<1> QED  BY <1>4, <1>5, <1>8, <1>9

LEMMA ProgressEnd ==
    ASSUME NEW keys \in Seq(Locks), NEW todo \in Seq(Locks), NEW locks, NEW rows,
           Progress(keys, todo, locks, rows), todo = <<>>
    PROVE  locks = rows \cup {keys[i] : i \in 1..Len(keys)}
<1>1. PICK n \in 0..Len(keys) : /\ locks = rows \cup {keys[i] : i \in 1..n}
                                /\ todo = [i \in 1..(Len(keys) - n) |-> keys[i + n]]
  BY DEF Progress
<1>2. Len(keys) \in Nat /\ n \in Nat /\ n <= Len(keys)  BY <1>1
<1>3. 1 \notin 1..(Len(keys) - n)
  <2>1. DOMAIN todo = 1..(Len(keys) - n)  BY <1>1
  <2>2. DOMAIN todo = 1..Len(todo) /\ Len(todo) = 0  BY LenProperties
  <2>3. 1 \notin 1..0  OBVIOUS
  <2> QED  BY <2>1, <2>2, <2>3
<1>4. n = Len(keys)  BY <1>2, <1>3
<1> QED  BY <1>1, <1>4

\* What a transaction holds at any moment is rows, or among the rows to insert.
LEMMA ProgressLocks ==
    ASSUME NEW keys, NEW todo, NEW locks, NEW rows, Len(keys) \in Nat, Progress(keys, todo, locks, rows), NEW l \in locks
    PROVE  l \in rows \/ \E i \in 1..Len(keys) : l = keys[i]
BY DEF Progress

(***************************************************************************)
(* A statement after which only inserts are left: the row locks stay, and  *)
(* the copy of the snapshot is the one to save.                            *)
(***************************************************************************)
LEMMA InsertsStart ==
    ASSUME TxInv, UNCHANGED tables, NEW p \in Procs, NEW snap,
           tx[p].pc \in {"write", "sumReservations"},
           Fields(p, "insert", tx[p].op, snap, tx[p].res, IndexKeys(tx[p].op, tx[p].res), tx[p].locks),
           IF HoldsSnapshot(p)
           THEN /\ snap \in L!Snapshot
                /\ Allowed(tx[p].op, snapshots[Account(p)], tx[p].res)
                /\ snap = SavedSnapshot(tx[p].op, snapshots[Account(p)], tx[p].res)
           ELSE snap = NoRow
    PROVE  TxInv'
<1> DEFINE op == tx[p].op
           res == tx[p].res
           keys == IndexKeys(op, res)
<1>1. op \in Ops /\ tx[p].locks = RowLocks(p) /\ Running(p) /\ ReservationHeld(p)  BY RowOf
<1>2. Running(p)'  BY <1>1 DEF Running, OnReservation, tables, Fields
<1>3. HoldsReservation(p)' = HoldsReservation(p) /\ HoldsSnapshot(p)' = HoldsSnapshot(p)
  BY DEF HoldsReservation, HoldsSnapshot, OnReservation, Fields
<1>4. Account(p)' = Account(p)  BY DEF Account, Fields
<1>5. ReservationHeld(p)'  BY <1>1, <1>3 DEF ReservationHeld, tables, Fields
<1>6. RowLocks(p)' = tx'[p].locks  BY <1>1, <1>3, <1>4 DEF RowLocks, Fields
<1>7. SnapshotHeld(p)'
  <2>1. snapshots' = snapshots /\ tx'[p].snap = snap /\ tx'[p].op = op /\ tx'[p].res = res /\ tx'[p].pc = "insert"
    BY DEF tables, Fields
  <2>2. CASE ~HoldsSnapshot(p)  BY <1>3, <2>1, <2>2 DEF SnapshotHeld
  <2>3. CASE HoldsSnapshot(p)
    <3>1. Allowed(op, snapshots[Account(p)], res)' = Allowed(op, snapshots[Account(p)], res)
      BY <1>4, <2>1 DEF Allowed
    <3>2. SavedSnapshot(op, snapshots[Account(p)], res)' = SavedSnapshot(op, snapshots[Account(p)], res)
      BY <1>4, <2>1 DEF SavedSnapshot
    <3> QED  BY <1>3, <2>1, <2>3, <3>1, <3>2 DEF SnapshotHeld
  <2> QED  BY <2>2, <2>3
<1>8. LocksHeld(p)'
  <2>1. keys \in Seq(Locks)  BY <1>1, IndexKeysType
  <2>2. Progress(keys, keys, RowLocks(p), RowLocks(p))  BY <2>1, ProgressStart
  <2>3. tx'[p].todo = keys /\ IndexKeys(tx[p].op, tx[p].res)' = keys  BY DEF Fields, IndexKeys, EntryKey
  <2>4. tx'[p].locks = RowLocks(p) /\ tx'[p].pc = "insert"  BY <1>1 DEF Fields
  <2> HIDE DEF keys
  <2> QED  BY <1>6, <2>2, <2>3, <2>4 DEF LocksHeld
<1>9. InsertsFree(p)'
  <2>1. \A l \in RowLocks(p)' : l[1] \in {"reservation", "snapshot"}  BY DEF RowLocks
  <2> QED  BY <1>6, <2>1 DEF InsertsFree, IndexTables
<1>10. Good(p)'  BY <1>2, <1>5, <1>7, <1>8, <1>9 DEF Good, Fields
<1>11. \A q \in Procs \ {p} : tx'[p].locks \cap tx[q].locks = {}
  BY DEF TxInv, LocksExclusive, Fields
<1> QED  BY <1>10, <1>11, LocalStep DEF Fields

\* SumReservations: the sums are the committed row, and nothing is inserted.
LEMMA SumReservationsStep ==
    ASSUME TxInv, NEW p \in Procs, SumReservations(p)
    PROVE  TxInv'
<1> DEFINE a == Account(p)
           s == snapshots[a]
           snap == [tx[p].snap EXCEPT !.reserved = Total(L!OpenAmounts(a))]
<1>1. tx[p].pc = "sumReservations" /\ UNCHANGED tables  BY DEF SumReservations
<1>2. /\ TxTypes /\ SnapshotHeld(p) /\ HoldsSnapshot(p) /\ tx[p].op.kind = "rebuild"
      /\ s \in L!Snapshot /\ s = L!ExpectedSnapshot(a)
  BY <1>1, RebuildFacts
<1>3. tx[p].snap = s  BY <1>1, <1>2 DEF SnapshotHeld
<1>4. s.reserved = Total(L!OpenAmounts(a))
  <2>1. L!Total(L!OpenAmounts(a)) = Total(L!OpenAmounts(a))
    BY DEF L!Total, L!Units, L!UnitsOf, L!Cardinality, L!IsFiniteSet, Total, Units, UnitsOf, Cardinality, IsFiniteSet
  <2>2. L!ExpectedSnapshot(a).reserved = L!Total(L!OpenAmounts(a))  BY DEF L!ExpectedSnapshot
  <2> QED  BY <1>2, <2>1, <2>2
<1>5. snap = s  BY <1>2, <1>3, <1>4 DEF L!Snapshot
<1>6. tx' = [tx EXCEPT ![p].pc = "insert", ![p].snap = snap]  BY DEF SumReservations
<1>7. Fields(p, "insert", tx[p].op, s, tx[p].res, tx[p].todo, tx[p].locks)
  <2> HIDE DEF snap, s
  <2> QED  BY <1>2, <1>5, <1>6, SumFields DEF PCs
<1>8. tx[p].todo = IndexKeys(tx[p].op, tx[p].res)  BY <1>1, <1>2, RowOf DEF IndexKeys
<1>9. Allowed(tx[p].op, s, tx[p].res) /\ SavedSnapshot(tx[p].op, s, tx[p].res) = s
  BY <1>2 DEF Allowed, SavedSnapshot
<1> QED  BY <1>1, <1>2, <1>7, <1>8, <1>9, InsertsStart

\* What Write saves of an allowed operation has no negative balance.
LEMMA SavedType ==
    ASSUME NEW op \in Ops, NEW s \in L!Snapshot, NEW r \in L!Reservation \cup {NoRow},
           OnReservation(op) => r \in L!Reservation, Allowed(op, s, r)
    PROVE  SavedSnapshot(op, s, r) \in L!Snapshot
<1>1. /\ s.available \in Nat /\ s.reserved \in Nat /\ s.consumed \in Nat /\ s.refunded \in Nat /\ s.granted \in Nat
  BY DEF L!Snapshot
<1>2. OnReservation(op) => r.amount \in Nat  BY DEF L!Reservation
<1>3. op.kind \in {"credit", "consume", "refund", "create", "increase", "settle"} => op.n \in Nat
  BY OpFields, AmountsNat
<1>4. CASE op.kind = "credit"
  <2> DEFINE t == [s EXCEPT !.available = s.available + op.n, !.granted = s.granted + op.n]
  <2>1. SavedSnapshot(op, s, r) = t  BY <1>4 DEF SavedSnapshot
  <2>2. s.available + op.n \in Nat /\ s.granted + op.n \in Nat  BY <1>1, <1>3, <1>4
  <2>3. t \in L!Snapshot  BY <2>2 DEF L!Snapshot
  <2> QED  BY <2>1, <2>3
<1>5. CASE op.kind \in {"create", "increase"}
  <2> DEFINE t == [s EXCEPT !.available = s.available - op.n, !.reserved = s.reserved + op.n]
  <2>1. s.available >= op.n  BY <1>5 DEF Allowed
  <2>2. SavedSnapshot(op, s, r) = t  BY <1>5 DEF SavedSnapshot
  <2>3. s.available - op.n \in Nat /\ s.reserved + op.n \in Nat  BY <1>1, <1>3, <1>5, <2>1
  <2>4. t \in L!Snapshot  BY <2>3 DEF L!Snapshot
  <2> QED  BY <2>2, <2>4
<1>6. CASE op.kind = "consume"
  <2> DEFINE t == [s EXCEPT !.available = s.available - op.n, !.consumed = s.consumed + op.n]
  <2>1. s.available >= op.n  BY <1>6 DEF Allowed
  <2>2. SavedSnapshot(op, s, r) = t  BY <1>6 DEF SavedSnapshot
  <2>3. s.available - op.n \in Nat /\ s.consumed + op.n \in Nat  BY <1>1, <1>3, <1>6, <2>1
  <2>4. t \in L!Snapshot  BY <2>3 DEF L!Snapshot
  <2> QED  BY <2>2, <2>4
<1>7. CASE op.kind = "refund"
  <2> DEFINE t == [s EXCEPT !.available = s.available + op.n, !.refunded = s.refunded + op.n]
  <2>1. SavedSnapshot(op, s, r) = t  BY <1>7 DEF SavedSnapshot
  <2>2. s.available + op.n \in Nat /\ s.refunded + op.n \in Nat  BY <1>1, <1>3, <1>7
  <2>3. t \in L!Snapshot  BY <2>2 DEF L!Snapshot
  <2> QED  BY <2>1, <2>3
<1>8. CASE op.kind = "release"
  <2> DEFINE t == [s EXCEPT !.available = s.available + r.amount, !.reserved = s.reserved - r.amount]
  <2>1. s.reserved >= r.amount /\ r.amount \in Nat  BY <1>2, <1>8 DEF Allowed, OnReservation
  <2>2. SavedSnapshot(op, s, r) = t  BY <1>8 DEF SavedSnapshot
  <2>3. s.available + r.amount \in Nat /\ s.reserved - r.amount \in Nat  BY <1>1, <2>1
  <2>4. t \in L!Snapshot  BY <2>3 DEF L!Snapshot
  <2> QED  BY <2>2, <2>4
<1>9. CASE op.kind = "settle"
  <2> DEFINE back == IF op.n < r.amount THEN s.refunded + (r.amount - op.n) ELSE s.refunded
             t == [s EXCEPT !.reserved = s.reserved - r.amount, !.consumed = s.consumed + op.n,
                            !.available = s.available - (op.n - r.amount), !.refunded = back]
  <2>1. s.reserved >= r.amount /\ s.available >= op.n - r.amount /\ r.amount \in Nat
    BY <1>2, <1>9 DEF Allowed, OnReservation
  <2>2. SavedSnapshot(op, s, r) = t  BY <1>9 DEF SavedSnapshot
  <2>3. /\ s.available - (op.n - r.amount) \in Nat /\ s.reserved - r.amount \in Nat
        /\ s.consumed + op.n \in Nat /\ back \in Nat
    BY <1>1, <1>3, <1>9, <2>1
  <2> HIDE DEF back
  <2>4. t \in L!Snapshot  BY <2>3 DEF L!Snapshot
  <2> QED  BY <2>2, <2>4
<1>10. CASE op.kind \in {"adjust", "mark", "rebuild"}  BY <1>10 DEF SavedSnapshot
<1> QED  BY <1>4, <1>5, <1>6, <1>7, <1>8, <1>9, <1>10, OpFields

\* Write: the checks are made on the committed rows.
LEMMA WriteStep ==
    ASSUME TxInv, NEW p \in Procs, Write(p)
    PROVE  TxInv'
<1> DEFINE op == tx[p].op
           res == tx[p].res
           snap == SavedSnapshot(op, tx[p].snap, res)
           todo == IndexKeys(op, res)
<1>1. tx[p].pc = "write" /\ UNCHANGED tables  BY DEF Write
<1>2. /\ TxTypes /\ op \in Ops /\ res \in L!Reservation \cup {NoRow}
      /\ Running(p) /\ ReservationHeld(p) /\ SnapshotHeld(p)
  BY <1>1, RowOf
<1>3. CASE End(p)  BY <1>1, <1>3, EndStep
<1>4. CASE Allowed(op, tx[p].snap, res)
  <2>1. tx' = [tx EXCEPT ![p].snap = snap, ![p].todo = todo, ![p].pc = "insert"]  BY <1>4 DEF Write
  <2>2. OnReservation(op) => res \in L!Reservation
    <3>1. OnReservation(op) => HoldsReservation(p)  BY <1>1 DEF HoldsReservation
    <3> QED  BY <1>2, <3>1 DEF ReservationHeld
  <2>3. CASE HoldsSnapshot(p)
    <3>1. tx[p].snap = snapshots[Account(p)] /\ tx[p].snap \in L!Snapshot
      BY <1>1, <1>2, <2>3 DEF SnapshotHeld
    <3>2. snap \in L!Snapshot  BY <1>2, <1>4, <2>2, <3>1, SavedType
    <3>3. todo \in Seq(Locks)  BY <1>2, IndexKeysType
    <3>4. Fields(p, "insert", op, snap, res, todo, tx[p].locks)
      <4> HIDE DEF snap, todo
      <4> QED  BY <1>2, <2>1, <3>2, <3>3, WriteFields DEF PCs
    <3> HIDE DEF todo
    <3>5. snap = SavedSnapshot(op, snapshots[Account(p)], res)  BY <3>1
    <3>6. Allowed(op, snapshots[Account(p)], res)  BY <1>4, <3>1
    <3> HIDE DEF snap
    <3> USE DEF todo
    <3> QED  BY <1>1, <2>3, <3>2, <3>4, <3>5, <3>6, InsertsStart
  <2>4. CASE ~HoldsSnapshot(p)
    <3>1. tx[p].snap = NoRow /\ op.kind = "adjust"  BY <1>1, <1>2, <2>4 DEF SnapshotHeld, HoldsSnapshot
    <3>2. snap = NoRow  BY <3>1 DEF SavedSnapshot
    <3>3. todo \in Seq(Locks)  BY <1>2, IndexKeysType
    <3>4. Fields(p, "insert", op, NoRow, res, todo, tx[p].locks)
      <4> HIDE DEF snap, todo
      <4> QED  BY <1>2, <2>1, <3>2, <3>3, WriteFields DEF PCs
    <3> QED  BY <1>1, <2>4, <3>4, InsertsStart
  <2> QED  BY <2>3, <2>4
<1> QED  BY <1>3, <1>4 DEF Write

\* A transaction at its inserts.
LEMMA InsertOf ==
    ASSUME TxInv, NEW p \in Procs, tx[p].pc = "insert"
    PROVE  /\ TxTypes /\ tx[p].op \in Ops /\ tx[p].todo \in Seq(Locks)
           /\ IndexKeys(tx[p].op, tx[p].res) \in Seq(Locks)
           /\ Running(p) /\ ReservationHeld(p) /\ SnapshotHeld(p) /\ InsertsFree(p)
           /\ Progress(IndexKeys(tx[p].op, tx[p].res), tx[p].todo, tx[p].locks, RowLocks(p))
<1>1. tx[p] \in Tx /\ Good(p)  BY DEF TxInv, TxTypes
<1>2. Running(p) /\ ReservationHeld(p) /\ SnapshotHeld(p) /\ LocksHeld(p) /\ InsertsFree(p)  BY <1>1 DEF Good
<1>3. tx[p].op \in Ops  BY <1>2 DEF Running
<1> QED  BY <1>1, <1>2, <1>3, IndexKeysType DEF Tx, LocksHeld, TxInv

\* Insert: the key is free in the table and held by nobody else.
LEMMA InsertStep ==
    ASSUME TxInv, NEW p \in Procs, Insert(p)
    PROVE  TxInv'
<1> DEFINE ix == Head(tx[p].todo)
           keys == IndexKeys(tx[p].op, tx[p].res)
           rest == Tail(tx[p].todo)
<1>1. tx[p].pc = "insert" /\ tx[p].todo # <<>> /\ UNCHANGED tables  BY DEF Insert
<1>2. CASE End(p)  BY <1>1, <1>2, EndStep
<1>3. CASE ~End(p)
  <2>1. /\ ~Taken(ix) /\ Free(ix, p)
        /\ tx' = [tx EXCEPT ![p].todo = rest, ![p].locks = @ \cup {ix}]
    BY <1>3 DEF Insert
  <2>2. /\ TxTypes /\ tx[p].op \in Ops /\ tx[p].todo \in Seq(Locks) /\ keys \in Seq(Locks)
        /\ Running(p) /\ ReservationHeld(p) /\ SnapshotHeld(p) /\ InsertsFree(p)
        /\ Progress(keys, tx[p].todo, tx[p].locks, RowLocks(p))
    BY <1>1, InsertOf
  <2>3. ix \in Locks /\ rest \in Seq(Locks) /\ Progress(keys, rest, tx[p].locks \cup {ix}, RowLocks(p))
    <3> HIDE DEF keys
    <3> QED  BY <1>1, <2>2, ProgressNext
  <2>4. Fields(p, "insert", tx[p].op, tx[p].snap, tx[p].res, rest, tx[p].locks \cup {ix})
    <3> HIDE DEF rest, ix
    <3> QED  BY <1>1, <2>1, <2>2, <2>3, InsertFields
  <2> HIDE DEF rest, ix, keys
  <2>5. Running(p)'  BY <1>1, <2>2, <2>4 DEF Running, OnReservation, tables, Fields
  <2>6. HoldsReservation(p)' = HoldsReservation(p) /\ HoldsSnapshot(p)' = HoldsSnapshot(p)
    BY <1>1, <2>4 DEF HoldsReservation, HoldsSnapshot, OnReservation, Fields
  <2>7. Account(p)' = Account(p)  BY <2>4 DEF Account, Fields
  <2>8. ReservationHeld(p)'  BY <1>1, <2>2, <2>4, <2>6 DEF ReservationHeld, tables, Fields
  <2>9. RowLocks(p)' = RowLocks(p)  BY <2>4, <2>6, <2>7 DEF RowLocks, Fields
  <2>10. SnapshotHeld(p)'
    <3>1. snapshots' = snapshots /\ tx'[p].snap = tx[p].snap /\ tx'[p].op = tx[p].op /\ tx'[p].res = tx[p].res
          /\ tx'[p].pc = "insert"
      BY <1>1, <2>4 DEF tables, Fields
    <3>2. CASE ~HoldsSnapshot(p)  BY <2>2, <2>6, <3>1, <3>2 DEF SnapshotHeld
    <3>3. CASE HoldsSnapshot(p)
      <4>1. Allowed(tx[p].op, snapshots[Account(p)], tx[p].res)' = Allowed(tx[p].op, snapshots[Account(p)], tx[p].res)
        BY <2>7, <3>1 DEF Allowed
      <4>2. SavedSnapshot(tx[p].op, snapshots[Account(p)], tx[p].res)'
              = SavedSnapshot(tx[p].op, snapshots[Account(p)], tx[p].res)
        BY <2>7, <3>1 DEF SavedSnapshot
      <4>3. /\ tx[p].snap \in L!Snapshot
            /\ Allowed(tx[p].op, snapshots[Account(p)], tx[p].res)
            /\ tx[p].snap = SavedSnapshot(tx[p].op, snapshots[Account(p)], tx[p].res)
        BY <1>1, <2>2, <3>3 DEF SnapshotHeld
      <4> QED  BY <2>6, <3>1, <3>3, <4>1, <4>2, <4>3 DEF SnapshotHeld
    <3> QED  BY <3>2, <3>3
  <2>11. LocksHeld(p)'
    <3>1. IndexKeys(tx[p].op, tx[p].res)' = keys  BY <2>4 DEF Fields, IndexKeys, EntryKey, keys
    <3>2. tx'[p].todo = rest /\ tx'[p].locks = tx[p].locks \cup {ix} /\ tx'[p].pc = "insert"  BY <2>4 DEF Fields
    <3> QED  BY <2>3, <2>9, <3>1, <3>2 DEF LocksHeld
  <2>12. InsertsFree(p)'
    <3>1. \A l : Taken(l)' = Taken(l)  BY <1>1 DEF Taken, tables
    <3> QED  BY <2>1, <2>2, <2>4, <3>1 DEF InsertsFree, Fields
  <2>13. Good(p)'  BY <2>4, <2>5, <2>8, <2>10, <2>11, <2>12 DEF Good, Fields
  <2>14. \A q \in Procs \ {p} : tx'[p].locks \cap tx[q].locks = {}
    BY <2>1, <2>4 DEF Free, TxInv, LocksExclusive, Fields
  <2> QED  BY <1>1, <2>4, <2>13, <2>14, LocalStep DEF Fields
<1> QED  BY <1>2, <1>3

\* Rollback: the transaction is as if it had never been.
LEMMA RollbackStep ==
    ASSUME TxInv, NEW p \in Procs, Rollback(p)
    PROVE  TxInv'
BY EndStep DEF Rollback

-----------------------------------------------------------------------------
(***************************************************************************)
(* Commit.  The rows a transaction inserts, as sets of keys per table.     *)
(***************************************************************************)
HasEntry(op, r) == op.kind \notin {"rebuild", "mark"} /\ ~(op.kind = "settle" /\ op.n = r.amount)

InsertedRows(op, r) ==
    (IF op.kind = "create" THEN {<<"reservations", op.key>>} ELSE {})
      \cup (IF op.kind = "settle" THEN {<<"settlements", op.key>>} ELSE {})
      \cup (IF HasEntry(op, r) THEN {<<"entries", EntryKey(op)>>} ELSE {})
      \cup (IF op.kind \notin {"rebuild", "mark"} THEN {<<"outbox", op.key>>} ELSE {})

LEMMA IndexKeysRange ==
    ASSUME NEW op \in Ops, NEW r
    PROVE  {IndexKeys(op, r)[i] : i \in 1..Len(IndexKeys(op, r))} = InsertedRows(op, r)
<1> DEFINE R == <<"reservations", op.key>>
           S == <<"settlements", op.key>>
           E == <<"entries", EntryKey(op)>>
           O == <<"outbox", op.key>>
<1>1. ASSUME NEW x, NEW y, NEW z
      PROVE  /\ {<<x, y, z>>[i] : i \in 1..Len(<<x, y, z>>)} = {x, y, z}
             /\ {<<x, y>>[i] : i \in 1..Len(<<x, y>>)} = {x, y}
  <2>1. Len(<<x, y, z>>) = 3 /\ 1..3 = {1, 2, 3} /\ Len(<<x, y>>) = 2 /\ 1..2 = {1, 2}  OBVIOUS
  <2>2. <<x, y, z>>[1] = x /\ <<x, y, z>>[2] = y /\ <<x, y, z>>[3] = z /\ <<x, y>>[1] = x /\ <<x, y>>[2] = y  OBVIOUS
  <2> QED  BY <2>1, <2>2
<1>2. CASE op.kind \in {"rebuild", "mark"}
  <2>1. IndexKeys(op, r) = <<>>  BY <1>2 DEF IndexKeys
  <2>2. InsertedRows(op, r) = {}  BY <1>2 DEF InsertedRows, HasEntry
  <2>3. Len(<<>>) = 0 /\ 1..0 = {}  OBVIOUS
  <2> QED  BY <2>1, <2>2, <2>3
<1>3. CASE op.kind = "create"
  <2>1. IndexKeys(op, r) = <<R, E, O>>  BY <1>3 DEF IndexKeys
  <2>2. InsertedRows(op, r) = {R, E, O}  BY <1>3 DEF InsertedRows, HasEntry
  <2> HIDE DEF R, E, O
  <2> QED  BY <1>1, <2>1, <2>2
<1>4. CASE op.kind = "settle" /\ op.n = r.amount
  <2>1. IndexKeys(op, r) = <<S, O>>  BY <1>4 DEF IndexKeys
  <2>2. InsertedRows(op, r) = {S, O}  BY <1>4 DEF InsertedRows, HasEntry
  <2> HIDE DEF S, O
  <2> QED  BY <1>1, <2>1, <2>2
<1>5. CASE op.kind = "settle" /\ op.n # r.amount
  <2>1. IndexKeys(op, r) = <<S, E, O>>  BY <1>5 DEF IndexKeys
  <2>2. InsertedRows(op, r) = {S, E, O}  BY <1>5 DEF InsertedRows, HasEntry
  <2> HIDE DEF S, E, O
  <2> QED  BY <1>1, <2>1, <2>2
<1>6. CASE op.kind \notin {"rebuild", "mark", "create", "settle"}
  <2>1. IndexKeys(op, r) = <<E, O>>  BY <1>6 DEF IndexKeys
  <2>2. InsertedRows(op, r) = {E, O}  BY <1>6 DEF InsertedRows, HasEntry
  <2> HIDE DEF E, O
  <2> QED  BY <1>1, <2>1, <2>2
<1> QED  BY <1>2, <1>3, <1>4, <1>5, <1>6

\* What is known of a transaction when it commits.
LEMMA CommitFacts ==
    ASSUME TxInv, NEW p \in Procs, Commit(p)
    PROVE  /\ tx[p].op \in Ops /\ tx[p].op.kind # "mark"
           /\ TxTypes /\ L!TypeOK /\ Running(p)
           /\ tx[p].locks = RowLocks(p) \cup InsertedRows(tx[p].op, tx[p].res)
           /\ \A l \in InsertedRows(tx[p].op, tx[p].res) : ~Taken(l)
           /\ Account(p) \in Accounts
           /\ OnReservation(tx[p].op) =>
                /\ <<"reservation", tx[p].op.res>> \in tx[p].locks
                /\ tx[p].res \in L!Reservation /\ tx[p].res.status = "open"
                /\ reservations[tx[p].op.res] = tx[p].res
           /\ tx[p].op.kind = "adjust" => tx[p].snap = NoRow
           /\ tx[p].op.kind # "adjust" =>
                /\ <<"snapshot", Account(p)>> \in tx[p].locks
                /\ tx[p].snap \in L!Snapshot /\ tx[p].snap # NoRow
                /\ Allowed(tx[p].op, snapshots[Account(p)], tx[p].res)
                /\ tx[p].snap = SavedSnapshot(tx[p].op, snapshots[Account(p)], tx[p].res)
<1> DEFINE op == tx[p].op
           keys == IndexKeys(op, tx[p].res)
           rows == InsertedRows(op, tx[p].res)
<1>1. tx[p].pc = "insert" /\ tx[p].todo = <<>>  BY DEF Commit
<1>2. /\ TxTypes /\ op \in Ops /\ tx[p].todo \in Seq(Locks) /\ keys \in Seq(Locks)
      /\ Running(p) /\ ReservationHeld(p) /\ SnapshotHeld(p) /\ InsertsFree(p)
      /\ Progress(keys, tx[p].todo, tx[p].locks, RowLocks(p))
  BY <1>1, InsertOf
<1>3. op.kind # "mark"  BY <1>2 DEF Running
<1>4. tx[p].locks = RowLocks(p) \cup rows
  <2>1. tx[p].locks = RowLocks(p) \cup {keys[i] : i \in 1..Len(keys)}
    <3> HIDE DEF keys
    <3> QED  BY <1>1, <1>2, ProgressEnd
  <2>2. {keys[i] : i \in 1..Len(keys)} = rows  BY <1>2, IndexKeysRange
  <2> QED  BY <2>1, <2>2
<1>5. \A l \in rows : ~Taken(l)
  <2>1. \A l \in rows : l[1] \in IndexTables  BY DEF InsertedRows, IndexTables
  <2> QED  BY <1>2, <1>4, <2>1 DEF InsertsFree
<1>6. OnReservation(op) <=> HoldsReservation(p)  BY <1>1 DEF HoldsReservation
<1>7. op.kind # "adjust" <=> HoldsSnapshot(p)  BY <1>1 DEF HoldsSnapshot
<1>8. Account(p) \in Accounts  BY <1>2, <1>6, AccountKnown
<1>9. OnReservation(op) =>
        /\ <<"reservation", op.res>> \in tx[p].locks
        /\ tx[p].res \in L!Reservation /\ tx[p].res.status = "open"
        /\ reservations[op.res] = tx[p].res
  BY <1>2, <1>4, <1>6 DEF ReservationHeld, RowLocks
<1>10. op.kind # "adjust" =>
        /\ <<"snapshot", Account(p)>> \in tx[p].locks
        /\ tx[p].snap \in L!Snapshot
        /\ Allowed(op, snapshots[Account(p)], tx[p].res)
        /\ tx[p].snap = SavedSnapshot(op, snapshots[Account(p)], tx[p].res)
  BY <1>1, <1>2, <1>4, <1>7 DEF SnapshotHeld, RowLocks
<1>11. op.kind = "adjust" => tx[p].snap = NoRow  BY <1>2, <1>7 DEF SnapshotHeld
<1>12. NoRow \notin L!Snapshot  BY TxAssumption
<1>13. L!TypeOK  BY LedgerFacts DEF TxInv
<1> QED  BY <1>2, <1>3, <1>4, <1>5, <1>8, <1>9, <1>10, <1>11, <1>12, <1>13

LEMMA SecondOf ==
    ASSUME NEW S, NEW t, NEW x
    PROVE  /\ S = {<<t, x>>} => {l[2] : l \in S} = {x}
           /\ S = {} => {l[2] : l \in S} = {}
<1>1. <<t, x>>[2] = x  OBVIOUS
<1> QED  BY <1>1

\* The tables after the commit of a transaction, row by row.
LEMMA CommitEffect ==
    ASSUME TxInv, NEW p \in Procs, Commit(p)
    PROVE  LET op == tx[p].op
               a == Account(p)
               res == tx[p].res
           IN  /\ snapshots' = IF op.kind = "adjust" THEN snapshots
                               ELSE [snapshots EXCEPT ![a] = SavedSnapshot(op, snapshots[a], res)]
               /\ op.kind = "create" =>
                    reservations' = [reservations EXCEPT ![op.key] = SavedReservation(op, res)]
               /\ OnReservation(op) =>
                    reservations' = [reservations EXCEPT ![op.res] = SavedReservation(op, res)]
               /\ op.kind # "create" /\ ~OnReservation(op) => reservations' = reservations
               /\ op.kind = "create" \/ OnReservation(op) => SavedReservation(op, res) # NoRow
               /\ settlements' = IF op.kind = "settle"
                                 THEN [settlements EXCEPT ![op.key] =
                                         [reservation |-> op.res, actual |-> op.n, delta |-> op.n - res.amount]]
                                 ELSE settlements
               /\ entries' = IF HasEntry(op, res) THEN [entries EXCEPT ![EntryKey(op)] = EntryRow(p)] ELSE entries
               /\ outbox' = IF op.kind # "rebuild" THEN [outbox EXCEPT ![op.key] = EventRow(p)] ELSE outbox
<1> DEFINE op == tx[p].op
           a == Account(p)
           res == tx[p].res
           inserted(t) == {l[2] : l \in {m \in tx[p].locks : m[1] = t}}
           row == SavedReservation(op, res)
<1>1. /\ op \in Ops /\ op.kind # "mark" /\ L!TypeOK
      /\ tx[p].locks = RowLocks(p) \cup InsertedRows(op, res)
      /\ OnReservation(op) => res \in L!Reservation
      /\ op.kind = "adjust" => tx[p].snap = NoRow
      /\ op.kind # "adjust" => tx[p].snap # NoRow /\ tx[p].snap = SavedSnapshot(op, snapshots[a], res)
  BY CommitFacts
<1>2. snapshots' = IF op.kind = "adjust" THEN snapshots
                   ELSE [snapshots EXCEPT ![a] = SavedSnapshot(op, snapshots[a], res)]
  BY <1>1 DEF Commit
<1>3. \A l \in RowLocks(p) : l[1] \notin {"settlements", "entries", "outbox"}  BY DEF RowLocks
<1>4. inserted("settlements") = IF op.kind = "settle" THEN {op.key} ELSE {}
  <2>1. {m \in tx[p].locks : m[1] = "settlements"} = IF op.kind = "settle" THEN {<<"settlements", op.key>>} ELSE {}
    BY <1>1, <1>3 DEF InsertedRows
  <2> QED  BY <2>1, SecondOf
<1>5. inserted("entries") = IF HasEntry(op, res) THEN {EntryKey(op)} ELSE {}
  <2>1. {m \in tx[p].locks : m[1] = "entries"} = IF HasEntry(op, res) THEN {<<"entries", EntryKey(op)>>} ELSE {}
    BY <1>1, <1>3 DEF InsertedRows
  <2> QED  BY <2>1, SecondOf
<1>6. inserted("outbox") = IF op.kind # "rebuild" THEN {op.key} ELSE {}
  <2>1. {m \in tx[p].locks : m[1] = "outbox"} = IF op.kind # "rebuild" THEN {<<"outbox", op.key>>} ELSE {}
    BY <1>1, <1>3 DEF InsertedRows
  <2> QED  BY <2>1, SecondOf
<1>7. settlements' = IF op.kind = "settle"
                     THEN [settlements EXCEPT ![op.key] =
                             [reservation |-> op.res, actual |-> op.n, delta |-> op.n - res.amount]]
                     ELSE settlements
  <2>1. settlements' = [k \in Keys |-> IF k \in inserted("settlements")
                          THEN [reservation |-> op.res, actual |-> op.n, delta |-> op.n - res.amount]
                          ELSE settlements[k]]
    BY DEF Commit, Delta
  <2>2. settlements = [k \in Keys |-> settlements[k]]  BY <1>1 DEF L!TypeOK
  <2> HIDE DEF inserted
  <2> QED  BY <1>4, <2>1, <2>2
<1>8. entries' = IF HasEntry(op, res) THEN [entries EXCEPT ![EntryKey(op)] = EntryRow(p)] ELSE entries
  <2>1. entries' = [e \in L!EntryKeys |-> IF e \in inserted("entries") THEN EntryRow(p) ELSE entries[e]]
    BY DEF Commit
  <2>2. entries = [e \in L!EntryKeys |-> entries[e]]  BY <1>1 DEF L!TypeOK
  <2> HIDE DEF inserted
  <2> QED  BY <1>5, <2>1, <2>2
<1>9. outbox' = IF op.kind # "rebuild" THEN [outbox EXCEPT ![op.key] = EventRow(p)] ELSE outbox
  <2>1. outbox' = [k \in Keys |-> IF k \in inserted("outbox") THEN EventRow(p) ELSE outbox[k]]
    BY DEF Commit
  <2>2. outbox = [k \in Keys |-> outbox[k]]  BY <1>1 DEF L!TypeOK
  <2> HIDE DEF inserted
  <2> QED  BY <1>6, <2>1, <2>2
<1>10. reservations' = IF row = NoRow THEN reservations
                       ELSE [reservations EXCEPT ![IF op.kind = "create" THEN op.key ELSE op.res] = row]
  BY DEF Commit
<1>11. op.kind = "create" \/ OnReservation(op) => row # NoRow
  <2>1. NoRow \notin L!Reservation  BY TxAssumption
  <2>0. /\ op.kind \in {"create", "increase"} => op.n \in Nat
        /\ op.kind = "create" => op.account \in Accounts /\ op.request \in Requests
    BY <1>1, OpFields, AmountsNat
  <2>2. CASE op.kind = "create"
    <3>1. row = [account |-> op.account, request |-> op.request, amount |-> op.n, status |-> "open"]
      BY <2>2 DEF SavedReservation
    <3>2. row \in L!Reservation  BY <2>0, <2>2, <3>1 DEF L!Reservation
    <3> QED  BY <2>1, <3>2
  <2>3. CASE op.kind = "increase"
    <3>1. row = [res EXCEPT !.amount = res.amount + op.n]  BY <2>3 DEF SavedReservation
    <3>2. res.amount + op.n \in Nat  BY <1>1, <2>0, <2>3 DEF L!Reservation, OnReservation
    <3>3. row \in L!Reservation  BY <1>1, <2>3, <3>1, <3>2 DEF L!Reservation, OnReservation
    <3> QED  BY <2>1, <3>3
  <2>4. CASE op.kind \in {"settle", "release"}
    <3>1. row = [res EXCEPT !.status = IF op.kind = "settle" THEN "settled" ELSE "released"]
      BY <2>4 DEF SavedReservation
    <3>2. row \in L!Reservation  BY <1>1, <2>4, <3>1 DEF L!Reservation, OnReservation
    <3> QED  BY <2>1, <3>2
  <2> QED  BY <1>1, <2>2, <2>3, <2>4 DEF OnReservation
<1>12. op.kind # "create" /\ ~OnReservation(op) => row = NoRow
  BY DEF SavedReservation, OnReservation
<1> HIDE DEF row
<1>13. /\ op.kind = "create" => reservations' = [reservations EXCEPT ![op.key] = row]
       /\ OnReservation(op) => reservations' = [reservations EXCEPT ![op.res] = row]
       /\ op.kind # "create" /\ ~OnReservation(op) => reservations' = reservations
  BY <1>10, <1>11, <1>12 DEF OnReservation
<1> USE DEF row
<1> QED  BY <1>2, <1>7, <1>8, <1>9, <1>11, <1>13

\* The rows a committing transaction inserts are not in the tables.
LEMMA CommitFree ==
    ASSUME TxInv, NEW p \in Procs, Commit(p)
    PROVE  /\ tx[p].op.kind = "create" => reservations[tx[p].op.key] = NoRow
           /\ tx[p].op.kind = "settle" => settlements[tx[p].op.key] = NoRow
           /\ HasEntry(tx[p].op, tx[p].res) => entries[EntryKey(tx[p].op)] = NoRow
           /\ tx[p].op.kind # "rebuild" => outbox[tx[p].op.key] = NoRow
<1> DEFINE op == tx[p].op
           rows == InsertedRows(op, tx[p].res)
<1>1. op.kind # "mark" /\ \A l \in rows : ~Taken(l)  BY CommitFacts
<1>2. op.kind = "create" => reservations[op.key] = NoRow
  <2>1. op.kind = "create" => <<"reservations", op.key>> \in rows  BY DEF InsertedRows
  <2>2. ~Taken(<<"reservations", op.key>>) => reservations[op.key] = NoRow  BY DEF Taken
  <2> QED  BY <1>1, <2>1, <2>2
<1>3. op.kind = "settle" => settlements[op.key] = NoRow
  <2>1. op.kind = "settle" => <<"settlements", op.key>> \in rows  BY DEF InsertedRows
  <2>2. ~Taken(<<"settlements", op.key>>) => settlements[op.key] = NoRow  BY DEF Taken
  <2> QED  BY <1>1, <2>1, <2>2
<1>4. HasEntry(op, tx[p].res) => entries[EntryKey(op)] = NoRow
  <2>1. HasEntry(op, tx[p].res) => <<"entries", EntryKey(op)>> \in rows  BY DEF InsertedRows
  <2>2. ~Taken(<<"entries", EntryKey(op)>>) => entries[EntryKey(op)] = NoRow  BY DEF Taken
  <2> QED  BY <1>1, <2>1, <2>2
<1>5. op.kind # "rebuild" => outbox[op.key] = NoRow
  <2>1. op.kind # "rebuild" => <<"outbox", op.key>> \in rows  BY <1>1 DEF InsertedRows
  <2>2. ~Taken(<<"outbox", op.key>>) => outbox[op.key] = NoRow  BY DEF Taken
  <2> QED  BY <1>1, <2>1, <2>2
<1> QED  BY <1>2, <1>3, <1>4, <1>5

(***************************************************************************)
(* The commit of an operation on a balance is that operation of Ledger:    *)
(* its guards hold of the committed rows, not only of the copies.          *)
(***************************************************************************)
LEMMA CommitDirect ==
    ASSUME TxInv, NEW p \in Procs, Commit(p), tx[p].op.kind \in {"credit", "consume", "refund", "adjust"}
    PROVE  L!Next
<1> DEFINE op == tx[p].op
           a == op.account
           k == op.key
           s == snapshots[a]
<1>1. /\ op \in Ops /\ L!TypeOK
      /\ op.kind # "adjust" => Allowed(op, snapshots[Account(p)], tx[p].res)
  BY CommitFacts
<1>2. Account(p) = a /\ a \in Accounts /\ k \in Keys /\ (op.kind # "adjust" => op.n \in L!Amounts)
  BY <1>1, OpFields DEF Account, OnReservation
<1>3. EntryKey(op) = L!Plain(k) /\ HasEntry(op, tx[p].res)  BY DEF EntryKey, HasEntry
<1>4. /\ entries[L!Plain(k)] = NoRow /\ outbox[k] = NoRow
      /\ entries' = [entries EXCEPT ![L!Plain(k)] = EntryRow(p)]
      /\ outbox' = [outbox EXCEPT ![k] = EventRow(p)]
      /\ UNCHANGED <<reservations, settlements>>
  BY <1>3, CommitEffect, CommitFree DEF OnReservation
<1>5. op.kind # "adjust" => snapshots' = [snapshots EXCEPT ![a] = SavedSnapshot(op, s, tx[p].res)]
  BY <1>2, CommitEffect
<1>6. s \in L!Snapshot /\ snapshots \in [Accounts -> L!Snapshot]  BY <1>1, <1>2 DEF L!TypeOK
<1>7. CASE op.kind = "credit"
  <2>1. s.available <= MaxInt - op.n /\ s.granted <= MaxInt - op.n  BY <1>1, <1>2, <1>7 DEF Allowed
  <2>2. snapshots' = [snapshots EXCEPT ![a].available = @ + op.n, ![a].granted = @ + op.n]
    BY <1>2, <1>5, <1>6, <1>7 DEF SavedSnapshot
  <2>3. EntryRow(p) = [account |-> a, type |-> "grant_credit", refType |-> "other", ref |-> NoRow, amount |-> op.n]
    BY <1>2, <1>7 DEF EntryRow
  <2>4. EventRow(p) = [account |-> a, type |-> "billing.credit_granted", table |-> "ledger_entry", id |-> k]
    BY <1>2, <1>7 DEF EventRow
  <2>5. L!CreditAccount(a, op.n, k)
    BY <1>4, <2>1, <2>2, <2>3, <2>4 DEF L!CreditAccount, L!CreateEntry, L!RecordOutboxEvent
  <2> QED  BY <1>2, <1>7, <2>5 DEF L!Next
<1>8. CASE op.kind = "consume"
  <2>1. s.available >= op.n  BY <1>1, <1>2, <1>8 DEF Allowed
  <2>2. snapshots' = [snapshots EXCEPT ![a].available = @ - op.n, ![a].consumed = @ + op.n]
    BY <1>2, <1>5, <1>6, <1>8 DEF SavedSnapshot
  <2>3. EntryRow(p) = [account |-> a, type |-> "settle_debit", refType |-> "other", ref |-> NoRow, amount |-> op.n]
    BY <1>2, <1>8 DEF EntryRow
  <2>4. EventRow(p) = [account |-> a, type |-> "billing.balance_adjusted", table |-> "ledger_entry", id |-> k]
    BY <1>2, <1>8 DEF EventRow
  <2>5. L!ConsumeAvailable(a, op.n, k)
    BY <1>4, <2>1, <2>2, <2>3, <2>4 DEF L!ConsumeAvailable, L!CreateEntry, L!RecordOutboxEvent
  <2> QED  BY <1>2, <1>8, <2>5 DEF L!Next
<1>9. CASE op.kind = "refund"
  <2>1. s.available + op.n <= MaxInt  BY <1>1, <1>2, <1>9 DEF Allowed
  <2>2. snapshots' = [snapshots EXCEPT ![a].available = @ + op.n, ![a].refunded = @ + op.n]
    BY <1>2, <1>5, <1>6, <1>9 DEF SavedSnapshot
  <2>3. EntryRow(p) = [account |-> a, type |-> "settle_credit", refType |-> "other", ref |-> NoRow, amount |-> op.n]
    BY <1>2, <1>9 DEF EntryRow
  <2>4. EventRow(p) = [account |-> a, type |-> "billing.balance_adjusted", table |-> "ledger_entry", id |-> k]
    BY <1>2, <1>9 DEF EventRow
  <2>5. L!RefundAvailable(a, op.n, k)
    BY <1>4, <2>1, <2>2, <2>3, <2>4 DEF L!RefundAvailable, L!CreateEntry, L!RecordOutboxEvent
  <2> QED  BY <1>2, <1>9, <2>5 DEF L!Next
<1>10. CASE op.kind = "adjust"
  <2>1. UNCHANGED snapshots  BY <1>10, CommitEffect
  <2>2. EntryRow(p) = [account |-> a, type |-> "adjustment", refType |-> "other", ref |-> NoRow, amount |-> 0]
    BY <1>2, <1>10 DEF EntryRow
  <2>3. EventRow(p) = [account |-> a, type |-> "billing.adjustment_recorded", table |-> "ledger_entry", id |-> k]
    BY <1>2, <1>10 DEF EventRow
  <2>4. L!RecordAdjustment(a, k)
    BY <1>4, <2>1, <2>2, <2>3 DEF L!RecordAdjustment, L!CreateEntry, L!RecordOutboxEvent
  <2> QED  BY <1>2, <2>4 DEF L!Next
<1> QED  BY <1>7, <1>8, <1>9, <1>10

\* So are the commits of a new hold and of one more of it.
LEMMA CommitHold ==
    ASSUME TxInv, NEW p \in Procs, Commit(p), tx[p].op.kind \in {"create", "increase"}
    PROVE  L!Next
<1> DEFINE op == tx[p].op
           res == tx[p].res
           a == Account(p)
           k == op.key
           s == snapshots[a]
<1>1. /\ op \in Ops /\ L!TypeOK /\ a \in Accounts /\ Allowed(op, s, res)
      /\ OnReservation(op) => res \in L!Reservation /\ res.status = "open" /\ reservations[op.res] = res
  BY CommitFacts
<1>2. k \in Keys /\ op.n \in L!Amounts  BY <1>1, OpFields
<1>3. HasEntry(op, res)  BY DEF HasEntry
<1>4. /\ entries[EntryKey(op)] = NoRow /\ outbox[k] = NoRow
      /\ entries' = [entries EXCEPT ![EntryKey(op)] = EntryRow(p)]
      /\ outbox' = [outbox EXCEPT ![k] = EventRow(p)]
      /\ UNCHANGED settlements
      /\ snapshots' = [snapshots EXCEPT ![a] = SavedSnapshot(op, s, res)]
  BY <1>3, CommitEffect, CommitFree
<1>5. s \in L!Snapshot /\ snapshots \in [Accounts -> L!Snapshot]  BY <1>1 DEF L!TypeOK
<1>6. s.available >= op.n  BY <1>1 DEF Allowed
<1>7. snapshots' = [snapshots EXCEPT ![a].available = @ - op.n, ![a].reserved = @ + op.n]
  BY <1>1, <1>4, <1>5 DEF SavedSnapshot
<1>8. CASE op.kind = "create"
  <2>1. a = op.account /\ op.request \in Requests /\ EntryKey(op) = L!EntryOf(k)
    BY <1>1, <1>8, OpFields DEF Account, OnReservation, EntryKey
  <2>2. reservations[k] = NoRow  BY <1>8, CommitFree
  <2>3. reservations' = [reservations EXCEPT ![k] =
                           [account |-> a, request |-> op.request, amount |-> op.n, status |-> "open"]]
    <3>1. SavedReservation(op, res) = [account |-> a, request |-> op.request, amount |-> op.n, status |-> "open"]
      BY <1>8, <2>1 DEF SavedReservation
    <3> QED  BY <1>8, <3>1, CommitEffect
  <2>4. EntryRow(p) = [account |-> a, type |-> "reserve_hold", refType |-> "reservation", ref |-> k, amount |-> op.n]
    BY <1>8 DEF EntryRow
  <2>5. EventRow(p) = [account |-> a, type |-> "billing.reservation_created", table |-> "reservation", id |-> k]
    BY <1>8 DEF EventRow
  <2> HIDE DEF a, s
  <2>6. L!CreateReservation(a, op.request, op.n, k)
    BY <1>4, <1>6, <1>7, <2>1, <2>2, <2>3, <2>4, <2>5
       DEF L!CreateReservation, L!CreateEntry, L!RecordOutboxEvent, s
  <2> QED  BY <1>1, <1>2, <2>1, <2>6 DEF L!Next
<1>9. CASE op.kind = "increase"
  <2>1. OnReservation(op) /\ op.res \in Keys /\ EntryKey(op) = L!Plain(k)
    BY <1>1, <1>9, OpFields DEF OnReservation, EntryKey
  <2>2. a = reservations[op.res].account  BY <1>1, <2>1 DEF Account
  <2>3. L!IsOpen(op.res)
    <3>1. NoRow \notin L!Reservation  BY TxAssumption
    <3> QED  BY <1>1, <2>1, <3>1 DEF L!IsOpen
  <2>4. reservations' = [reservations EXCEPT ![op.res].amount = @ + op.n]
    <3>1. reservations' = [reservations EXCEPT ![op.res] = SavedReservation(op, res)]  BY <2>1, CommitEffect
    <3>2. SavedReservation(op, res) = [res EXCEPT !.amount = @ + op.n]  BY <1>9 DEF SavedReservation
    <3>3. reservations \in [Keys -> L!Reservation \cup {NoRow}]  BY <1>1 DEF L!TypeOK
    <3> QED  BY <1>1, <2>1, <3>1, <3>2, <3>3
  <2>5. EntryRow(p) = [account |-> a, type |-> "reserve_hold", refType |-> "reservation", ref |-> op.res,
                       amount |-> op.n]
    BY <1>9 DEF EntryRow
  <2>6. EventRow(p) = [account |-> a, type |-> "billing.reservation_increased", table |-> "reservation",
                       id |-> op.res]
    BY <1>9 DEF EventRow
  <2> HIDE DEF a, s
  <2>7. L!IncreaseReservation(op.res, op.n, k)
    BY <1>4, <1>6, <1>7, <2>1, <2>2, <2>3, <2>4, <2>5, <2>6
       DEF L!IncreaseReservation, L!CreateEntry, L!RecordOutboxEvent, s
  <2> QED  BY <1>2, <2>1, <2>7 DEF L!Next
<1> QED  BY <1>8, <1>9

\* And of its release.
LEMMA CommitRelease ==
    ASSUME TxInv, NEW p \in Procs, Commit(p), tx[p].op.kind = "release"
    PROVE  L!Next
<1> DEFINE op == tx[p].op
           res == tx[p].res
           a == Account(p)
           k == op.key
           s == snapshots[a]
           m == res.amount
<1>1. /\ op \in Ops /\ L!TypeOK /\ a \in Accounts /\ Allowed(op, s, res)
      /\ res \in L!Reservation /\ res.status = "open" /\ reservations[op.res] = res
  BY CommitFacts DEF OnReservation
<1>2. k \in Keys /\ op.res \in Keys  BY <1>1, OpFields
<1>3. HasEntry(op, res) /\ EntryKey(op) = L!Plain(k) /\ OnReservation(op)  BY DEF HasEntry, EntryKey, OnReservation
<1>4. /\ entries[L!Plain(k)] = NoRow /\ outbox[k] = NoRow
      /\ entries' = [entries EXCEPT ![L!Plain(k)] = EntryRow(p)]
      /\ outbox' = [outbox EXCEPT ![k] = EventRow(p)]
      /\ UNCHANGED settlements
      /\ snapshots' = [snapshots EXCEPT ![a] = SavedSnapshot(op, s, res)]
      /\ reservations' = [reservations EXCEPT ![op.res] = SavedReservation(op, res)]
  BY <1>3, CommitEffect, CommitFree
<1>5. /\ s \in L!Snapshot /\ snapshots \in [Accounts -> L!Snapshot]
      /\ reservations \in [Keys -> L!Reservation \cup {NoRow}]
  BY <1>1 DEF L!TypeOK
<1>6. s.reserved >= m  BY <1>1 DEF Allowed
<1>7. snapshots' = [snapshots EXCEPT ![a].available = @ + m, ![a].reserved = @ - m]
  BY <1>1, <1>4, <1>5 DEF SavedSnapshot
<1>8. reservations' = [reservations EXCEPT ![op.res].status = "released"]
  <2>1. SavedReservation(op, res) = [res EXCEPT !.status = "released"]  BY DEF SavedReservation
  <2> QED  BY <1>1, <1>2, <1>4, <1>5, <2>1
<1>9. L!IsOpen(op.res)
  <2>1. NoRow \notin L!Reservation  BY TxAssumption
  <2> QED  BY <1>1, <2>1 DEF L!IsOpen
<1>10. EntryRow(p) = [account |-> a, type |-> "reserve_release", refType |-> "reservation", ref |-> op.res,
                      amount |-> m]
  BY DEF EntryRow
<1>11. EventRow(p) = [account |-> a, type |-> "billing.reservation_released", table |-> "reservation",
                      id |-> op.res]
  BY DEF EventRow
<1>12. a = reservations[op.res].account /\ m = reservations[op.res].amount  BY <1>1, <1>3 DEF Account
<1> HIDE DEF a, s, m
<1>13. L!ReleaseReservation(op.res, k)
  BY <1>4, <1>6, <1>7, <1>8, <1>9, <1>10, <1>11, <1>12
     DEF L!ReleaseReservation, L!CreateEntry, L!RecordOutboxEvent, s
<1> QED  BY <1>2, <1>13 DEF L!Next

(***************************************************************************)
(* And of its settlement.  The reservation is locked open, so no other     *)
(* settlement of it has been committed.                                    *)
(***************************************************************************)
LEMMA CommitSettle ==
    ASSUME TxInv, NEW p \in Procs, Commit(p), tx[p].op.kind = "settle"
    PROVE  L!Next
<1> DEFINE op == tx[p].op
           res == tx[p].res
           a == Account(p)
           k == op.key
           s == snapshots[a]
           m == res.amount
           delta == op.n - m
           more == IF delta > 0 THEN delta ELSE 0
           back == IF delta < 0 THEN -delta ELSE 0
<1>1. /\ op \in Ops /\ L!TypeOK /\ a \in Accounts /\ Allowed(op, s, res)
      /\ res \in L!Reservation /\ res.status = "open" /\ reservations[op.res] = res
  BY CommitFacts DEF OnReservation
<1>2. k \in Keys /\ op.res \in Keys /\ op.n \in 0..MaxAmount  BY <1>1, OpFields
<1>3. OnReservation(op) /\ EntryKey(op) = L!EntryOf(k)  BY DEF EntryKey, OnReservation
<1>4. /\ settlements[k] = NoRow /\ outbox[k] = NoRow
      /\ settlements' = [settlements EXCEPT ![k] = [reservation |-> op.res, actual |-> op.n, delta |-> delta]]
      /\ outbox' = [outbox EXCEPT ![k] = EventRow(p)]
      /\ snapshots' = [snapshots EXCEPT ![a] = SavedSnapshot(op, s, res)]
      /\ reservations' = [reservations EXCEPT ![op.res] = SavedReservation(op, res)]
  BY <1>3, CommitEffect, CommitFree
<1>5. /\ s \in L!Snapshot /\ snapshots \in [Accounts -> L!Snapshot]
      /\ reservations \in [Keys -> L!Reservation \cup {NoRow}]
  BY <1>1 DEF L!TypeOK
<1>6. op.n \in Nat /\ m \in Nat  BY <1>1, <1>2, AmountsNat DEF L!Reservation
<1>7. s.reserved >= m /\ s.available >= more
  <2>1. s.reserved >= m /\ s.available >= delta  BY <1>1 DEF Allowed
  <2>2. s.available \in Nat  BY <1>5 DEF L!Snapshot
  <2> QED  BY <1>6, <2>1, <2>2
<1>8. snapshots' = [snapshots EXCEPT ![a].reserved = @ - m, ![a].consumed = @ + op.n,
                                     ![a].available = @ - delta, ![a].refunded = @ + back]
  <2>1. s.refunded + back = IF op.n < m THEN s.refunded + (m - op.n) ELSE s.refunded
    BY <1>5, <1>6 DEF L!Snapshot
  <2>2. SavedSnapshot(op, s, res) = [s EXCEPT !.reserved = s.reserved - m, !.consumed = s.consumed + op.n,
                                              !.available = s.available - delta, !.refunded = s.refunded + back]
    BY <1>5, <2>1 DEF SavedSnapshot, L!Snapshot
  <2> HIDE DEF back, delta, m
  <2> QED  BY <1>1, <1>4, <1>5, <2>2 DEF L!Snapshot
<1>9. reservations' = [reservations EXCEPT ![op.res].status = "settled"]
  <2>1. SavedReservation(op, res) = [res EXCEPT !.status = "settled"]  BY DEF SavedReservation
  <2> QED  BY <1>1, <1>2, <1>4, <1>5, <2>1
<1>10. L!IsOpen(op.res)
  <2>1. NoRow \notin L!Reservation  BY TxAssumption
  <2> QED  BY <1>1, <2>1 DEF L!IsOpen
<1>11. \A j \in Keys : settlements[j] # NoRow => settlements[j].reservation # op.res
  <2>1. \A j \in Keys : settlements[j] # NoRow => reservations[settlements[j].reservation].status = "settled"
    BY LedgerFacts DEF TxInv
  <2> QED  BY <1>1, <2>1
<1>12. IF delta = 0 THEN UNCHANGED entries
       ELSE L!CreateEntry(L!EntryOf(k), a, IF delta > 0 THEN "settle_debit" ELSE "settle_credit",
                          "settlement", k, more + back)
  <2>1. CASE delta = 0
    <3>1. ~HasEntry(op, res)  BY <1>6, <2>1 DEF HasEntry
    <3> QED  BY <2>1, <3>1, CommitEffect
  <2>2. CASE delta # 0
    <3>1. HasEntry(op, res)  BY <1>6, <2>2 DEF HasEntry
    <3>2. entries[L!EntryOf(k)] = NoRow /\ entries' = [entries EXCEPT ![L!EntryOf(k)] = EntryRow(p)]
      BY <1>3, <3>1, CommitEffect, CommitFree
    <3>3. delta \in Int /\ Delta(p) = delta  BY <1>6 DEF Delta
    <3>4. CASE delta > 0
      <4>1. EntryRow(p) = [account |-> a, type |-> "settle_debit", refType |-> "settlement", ref |-> k,
                           amount |-> delta]
        BY <3>3, <3>4 DEF EntryRow
      <4>2. more + back = delta  BY <3>3, <3>4
      <4> QED  BY <3>2, <3>4, <4>1, <4>2, <2>2 DEF L!CreateEntry
    <3>5. CASE delta < 0
      <4>1. EntryRow(p) = [account |-> a, type |-> "settle_credit", refType |-> "settlement", ref |-> k,
                           amount |-> -delta]
        BY <3>3, <3>5 DEF EntryRow
      <4>2. more + back = -delta /\ ~(delta > 0)  BY <3>3, <3>5
      <4> QED  BY <3>2, <4>1, <4>2, <2>2 DEF L!CreateEntry
    <3> QED  BY <2>2, <3>3, <3>4, <3>5
  <2> QED  BY <2>1, <2>2
<1>13. EventRow(p) = [account |-> a, type |-> "billing.reservation_settled", table |-> "settlement", id |-> k]
  BY DEF EventRow
<1>14. a = reservations[op.res].account /\ m = reservations[op.res].amount  BY <1>1, <1>3 DEF Account
<1>15. L!SettleReservation(op.res, op.n, k)
  <2>1. L!RecordOutboxEvent(k, a, "billing.reservation_settled", "settlement", k)
    BY <1>4, <1>13 DEF L!RecordOutboxEvent
  <2> HIDE DEF a, s, m
  <2> QED
    BY <1>4, <1>7, <1>8, <1>9, <1>10, <1>11, <1>12, <1>14, <2>1 DEF L!SettleReservation, s
<1> QED  BY <1>2, <1>15 DEF L!Next

\* The commit of a rebuild changes nothing.
LEMMA CommitRebuild ==
    ASSUME TxInv, NEW p \in Procs, Commit(p), tx[p].op.kind = "rebuild"
    PROVE  UNCHANGED L!vars
<1> DEFINE a == Account(p)
<1>1. L!TypeOK /\ a \in Accounts  BY CommitFacts
<1>2. SavedSnapshot(tx[p].op, snapshots[a], tx[p].res) = snapshots[a]  BY DEF SavedSnapshot
<1>3. snapshots' = [snapshots EXCEPT ![a] = snapshots[a]]  BY <1>2, CommitEffect
<1>4. snapshots' = snapshots  BY <1>1, <1>3 DEF L!TypeOK
<1>5. ~HasEntry(tx[p].op, tx[p].res) /\ ~OnReservation(tx[p].op)  BY DEF HasEntry, OnReservation
<1>6. UNCHANGED <<reservations, settlements, entries, outbox>>  BY <1>5, CommitEffect
<1> QED  BY <1>4, <1>6 DEF L!vars

\* Every commit is one step of the atomic ledger, or changes nothing.
LEMMA CommitImplements ==
    ASSUME TxInv, NEW p \in Procs, Commit(p)
    PROVE  [L!Next]_(L!vars)
<1>1. tx[p].op \in Ops /\ tx[p].op.kind # "mark"  BY CommitFacts
<1>2. tx[p].op.kind \in {"credit", "consume", "refund", "create", "adjust", "increase", "settle", "release", "rebuild"}
  BY <1>1, OpFields
<1> QED  BY <1>2, CommitDirect, CommitHold, CommitRelease, CommitSettle, CommitRebuild

-----------------------------------------------------------------------------
(***************************************************************************)
(* What a change of the tables leaves to the transactions that do not hold *)
(* the locks in held: the rows they have locked, the sums of the accounts  *)
(* they have locked, and the index keys they have inserted.                *)
(***************************************************************************)
TablesKept(held) ==
    /\ \A r \in Keys : reservations[r] # NoRow =>
          /\ reservations'[r] # NoRow
          /\ <<"reservation", r>> \notin held => reservations'[r] = reservations[r]
    /\ \A b \in Accounts : <<"snapshot", b>> \notin held =>
          /\ snapshots'[b] = snapshots[b]
          /\ L!DirectConsumed(b)' = L!DirectConsumed(b)
          /\ L!DirectRefunded(b)' = L!DirectRefunded(b)
    /\ \A l \in Locks : l[1] \in IndexTables /\ Taken(l)' => Taken(l) \/ l \in held

\* A transaction holds its row locks at every statement.
LEMMA RowLocksHeld ==
    ASSUME NEW q \in Procs, LocksHeld(q)
    PROVE  RowLocks(q) \subseteq tx[q].locks
BY DEF LocksHeld, Progress

LEMMA OthersKept ==
    ASSUME TxInv, NEW q \in Procs, tx'[q] = tx[q], NEW held, held \cap tx[q].locks = {}, TablesKept(held)
    PROVE  Good(q)'
<1>1. Account(q)' = Account(q)  BY DEF Account
<1>2. HoldsReservation(q)' = HoldsReservation(q) /\ HoldsSnapshot(q)' = HoldsSnapshot(q)
  BY DEF HoldsReservation, HoldsSnapshot
<1>3. RowLocks(q)' = RowLocks(q)  BY <1>1, <1>2 DEF RowLocks
<1>4. CASE tx[q].pc = "idle"  BY <1>4 DEF Good, TxInv
<1>5. CASE tx[q].pc # "idle"
  <2>1. Running(q) /\ ReservationHeld(q) /\ SnapshotHeld(q) /\ LocksHeld(q) /\ InsertsFree(q) /\ tx[q].locks \subseteq Locks
    BY <1>5 DEF Good, TxInv, TxTypes, Tx
  <2>2. RowLocks(q) \subseteq tx[q].locks  BY <2>1, RowLocksHeld
  <2>3. OnReservation(tx[q].op) => tx[q].op.res \in Keys  BY <2>1, OpFields DEF Running, OnReservation
  <2>4. Running(q)'  BY <2>1, <2>3 DEF Running, TablesKept
  <2>5. ReservationHeld(q)'
    <3>1. CASE HoldsReservation(q)
      <4>1. tx[q].op.res \in Keys /\ reservations[tx[q].op.res] # NoRow
        BY <2>1, <2>3, <3>1 DEF Running, HoldsReservation
      <4>2. <<"reservation", tx[q].op.res>> \notin held  BY <2>2, <3>1 DEF RowLocks
      <4>3. reservations'[tx[q].op.res] = reservations[tx[q].op.res]  BY <4>1, <4>2 DEF TablesKept
      <4> QED  BY <1>2, <2>1, <3>1, <4>3 DEF ReservationHeld
    <3>2. CASE ~HoldsReservation(q)  BY <1>2, <2>1, <3>2 DEF ReservationHeld
    <3> QED  BY <3>1, <3>2
  <2>6. SnapshotHeld(q)'
    <3>1. CASE ~HoldsSnapshot(q)  BY <1>2, <2>1, <3>1 DEF SnapshotHeld
    <3>2. CASE HoldsSnapshot(q)
      <4>1. OnReservation(tx[q].op) => HoldsReservation(q)  BY <3>2 DEF HoldsReservation, HoldsSnapshot
      <4>2. Account(q) \in Accounts  BY <2>1, <4>1, AccountKnown
      <4>3. <<"snapshot", Account(q)>> \notin held  BY <2>2, <3>2 DEF RowLocks
      <4>4. /\ snapshots'[Account(q)] = snapshots[Account(q)]
            /\ \A b \in Accounts : b = Account(q) =>
                 L!DirectConsumed(b)' = L!DirectConsumed(b) /\ L!DirectRefunded(b)' = L!DirectRefunded(b)
        BY <4>2, <4>3 DEF TablesKept
      <4>5. L!DirectConsumed(Account(q))' = L!DirectConsumed(Account(q))
            /\ L!DirectRefunded(Account(q))' = L!DirectRefunded(Account(q))
        BY <1>1, <4>2, <4>4 DEF L!DirectConsumed, L!DirectRefunded, L!EntryAmounts
      <4>6. snapshots[Account(q)]' = snapshots[Account(q)]  BY <1>1, <4>4
      <4>7. Allowed(tx[q].op, snapshots[Account(q)], tx[q].res)' = Allowed(tx[q].op, snapshots[Account(q)], tx[q].res)
        BY <4>6 DEF Allowed
      <4>8. SavedSnapshot(tx[q].op, snapshots[Account(q)], tx[q].res)'
              = SavedSnapshot(tx[q].op, snapshots[Account(q)], tx[q].res)
        BY <4>6 DEF SavedSnapshot
      <4> QED  BY <1>2, <2>1, <3>2, <4>5, <4>6, <4>7, <4>8 DEF SnapshotHeld
    <3> QED  BY <3>1, <3>2
  <2>7. LocksHeld(q)'  BY <1>3, <2>1 DEF LocksHeld, IndexKeys, EntryKey
  <2>8. InsertsFree(q)'
    <3> SUFFICES ASSUME NEW l \in tx[q].locks, l[1] \in IndexTables, Taken(l)'
                 PROVE  FALSE
      BY DEF InsertsFree
    <3>1. l \in Locks /\ l \notin held  BY <2>1
    <3>2. Taken(l)  BY <3>1 DEF TablesKept
    <3> QED  BY <2>1, <3>2 DEF InsertsFree
  <2> QED  BY <1>5, <2>4, <2>5, <2>6, <2>7, <2>8 DEF Good
<1> QED  BY <1>4, <1>5

(***************************************************************************)
(* A commit leaves everything but its own locks: the entry it inserts is   *)
(* of the account it has locked, or moves no funds.                        *)
(***************************************************************************)
LEMMA CommitKept ==
    ASSUME TxInv, NEW p \in Procs, Commit(p)
    PROVE  TablesKept(tx[p].locks)
<1> DEFINE op == tx[p].op
           res == tx[p].res
           held == tx[p].locks
           rows == InsertedRows(op, res)
<1>1. /\ op \in Ops /\ op.kind # "mark" /\ L!TypeOK /\ held = RowLocks(p) \cup rows /\ Account(p) \in Accounts
      /\ OnReservation(op) => <<"reservation", op.res>> \in held /\ res \in L!Reservation /\ reservations[op.res] = res
      /\ op.kind # "adjust" => <<"snapshot", Account(p)>> \in held
  BY CommitFacts
<1>2. NoRow \notin L!Reservation  BY TxAssumption
<1>4. ASSUME NEW r \in Keys, reservations[r] # NoRow
      PROVE  reservations'[r] # NoRow /\ (<<"reservation", r>> \notin held => reservations'[r] = reservations[r])
  <2>1. reservations \in [Keys -> L!Reservation \cup {NoRow}]  BY <1>1 DEF L!TypeOK
  <2>2. CASE op.kind = "create"
    <3>1. r # op.key  BY <1>4, <2>2, CommitFree
    <3> QED  BY <1>4, <2>1, <2>2, <3>1, CommitEffect
  <2>3. CASE OnReservation(op)
    <3>1. /\ reservations' = [reservations EXCEPT ![op.res] = SavedReservation(op, res)]
          /\ SavedReservation(op, res) # NoRow
      BY <2>3, CommitEffect
    <3> QED  BY <1>1, <1>4, <2>1, <2>3, <3>1
  <2>4. CASE op.kind # "create" /\ ~OnReservation(op)  BY <1>4, <2>4, CommitEffect
  <2> QED  BY <2>2, <2>3, <2>4
<1>5. ASSUME NEW b \in Accounts, <<"snapshot", b>> \notin held
      PROVE  /\ snapshots'[b] = snapshots[b]
             /\ L!DirectConsumed(b)' = L!DirectConsumed(b)
             /\ L!DirectRefunded(b)' = L!DirectRefunded(b)
  <2>1. op.kind = "adjust" \/ b # Account(p)  BY <1>1, <1>5
  <2>2. snapshots'[b] = snapshots[b]
    <3>1. snapshots \in [Accounts -> L!Snapshot]  BY <1>1 DEF L!TypeOK
    <3>2. CASE op.kind = "adjust"  BY <3>2, CommitEffect
    <3>3. CASE op.kind # "adjust"
      <4>1. snapshots' = [snapshots EXCEPT ![Account(p)] = SavedSnapshot(op, snapshots[Account(p)], res)]
        BY <3>3, CommitEffect
      <4> QED  BY <2>1, <3>1, <3>3, <4>1
    <3> QED  BY <3>2, <3>3
  <2>3. ASSUME HasEntry(op, res)
        PROVE  EntryRow(p).account = Account(p) /\ (op.kind = "adjust" => EntryRow(p).type = "adjustment")
    <3>1. op.kind = "settle" => Delta(p) > 0 \/ Delta(p) < 0
      <4>1. op.kind = "settle" => op.n \in Nat /\ res.amount \in Nat
        BY <1>1, OpFields, AmountsNat DEF L!Reservation, OnReservation
      <4> QED  BY <2>3, <4>1 DEF HasEntry, Delta
    <3>2. op.kind \in {"credit", "consume", "refund", "create", "adjust", "increase", "settle", "release"}
      BY <1>1, <2>3, OpFields DEF HasEntry
    <3> QED  BY <3>1, <3>2 DEF EntryRow
  <2>4. ASSUME NEW type \in {"settle_debit", "settle_credit"}
        PROVE  L!EntryAmounts(b, {type}, L!NotSettlement)' = L!EntryAmounts(b, {type}, L!NotSettlement)
    <3>1. CASE ~HasEntry(op, res)
      <4>1. entries' = entries  BY <3>1, CommitEffect
      <4> QED  BY <4>1 DEF L!EntryAmounts
    <3>2. CASE HasEntry(op, res)
      <4> DEFINE ek == EntryKey(op)
      <4>1. entries' = [entries EXCEPT ![ek] = EntryRow(p)] /\ entries[ek] = NoRow
        BY <3>2, CommitEffect, CommitFree
      <4>2. DOMAIN entries = L!EntryKeys  BY <1>1 DEF L!TypeOK
      <4>3. \A e \in L!EntryKeys : e # ek => entries'[e] = entries[e]  BY <4>1, <4>2
      <4>4. ek \in L!EntryKeys
        <5>1. op.key \in Keys  BY <1>1, <3>2, OpFields DEF HasEntry
        <5> QED  BY <5>1, EntryKeyType
      <4>5. entries'[ek] = EntryRow(p)  BY <4>1, <4>2, <4>4
      <4>6. ~(entries'[ek].account = b /\ entries'[ek].type \in {type})
        BY <2>1, <2>3, <3>2, <4>5
      <4> HIDE DEF ek
      <4> QED  BY <4>1, <4>3, <4>6 DEF L!EntryAmounts
    <3> QED  BY <3>1, <3>2
  <2>5. L!DirectConsumed(b)' = L!DirectConsumed(b)  BY <2>4 DEF L!DirectConsumed
  <2>6. L!DirectRefunded(b)' = L!DirectRefunded(b)  BY <2>4 DEF L!DirectRefunded
  <2> QED  BY <2>2, <2>5, <2>6
<1>6. ASSUME NEW l \in Locks, l[1] \in IndexTables, Taken(l)', ~Taken(l)
      PROVE  l \in held
  <2>1. l = <<l[1], l[2]>>  BY DEF Locks
  <2>2. CASE l[1] = "reservations"
    <3>1. l[2] \in Keys  BY <2>2 DEF Locks
    <3>2. reservations'[l[2]] # NoRow /\ reservations[l[2]] = NoRow  BY <1>6, <2>2 DEF Taken
    <3>3. reservations \in [Keys -> L!Reservation \cup {NoRow}]  BY <1>1 DEF L!TypeOK
    <3>4. ~OnReservation(op)
      <4>1. SUFFICES ASSUME OnReservation(op) PROVE FALSE  OBVIOUS
      <4>2. reservations' = [reservations EXCEPT ![op.res] = SavedReservation(op, res)]  BY <4>1, CommitEffect
      <4>3. reservations[op.res] # NoRow  BY <1>1, <1>2, <4>1
      <4> QED  BY <3>1, <3>2, <3>3, <4>2, <4>3
    <3>5. op.kind = "create"  BY <3>2, <3>4, CommitEffect
    <3>6. reservations' = [reservations EXCEPT ![op.key] = SavedReservation(op, res)]  BY <3>5, CommitEffect
    <3>7. l[2] = op.key  BY <3>1, <3>2, <3>3, <3>6
    <3>8. <<"reservations", op.key>> \in rows  BY <3>5 DEF InsertedRows
    <3> QED  BY <1>1, <2>1, <2>2, <3>7, <3>8
  <2>3. CASE l[1] = "settlements"
    <3>1. l[2] \in Keys  BY <2>3 DEF Locks
    <3>2. settlements'[l[2]] # NoRow /\ settlements[l[2]] = NoRow  BY <1>6, <2>3 DEF Taken
    <3>3. settlements \in [Keys -> L!Settlement \cup {NoRow}]  BY <1>1 DEF L!TypeOK
    <3>4. op.kind = "settle"  BY <3>2, CommitEffect
    <3>5. l[2] = op.key
      <4>1. settlements' = [settlements EXCEPT ![op.key] =
                              [reservation |-> op.res, actual |-> op.n, delta |-> op.n - res.amount]]
        BY <3>4, CommitEffect
      <4> QED  BY <3>1, <3>2, <3>3, <4>1
    <3>6. <<"settlements", op.key>> \in rows  BY <3>4 DEF InsertedRows
    <3> QED  BY <1>1, <2>1, <2>3, <3>5, <3>6
  <2>4. CASE l[1] = "entries"
    <3>1. l[2] \in L!EntryKeys  BY <2>4 DEF Locks
    <3>2. entries'[l[2]] # NoRow /\ entries[l[2]] = NoRow  BY <1>6, <2>4 DEF Taken
    <3>3. entries \in [L!EntryKeys -> L!Entry \cup {NoRow}]  BY <1>1 DEF L!TypeOK
    <3>4. HasEntry(op, res)  BY <3>2, CommitEffect
    <3>5. l[2] = EntryKey(op)
      <4>1. entries' = [entries EXCEPT ![EntryKey(op)] = EntryRow(p)]  BY <3>4, CommitEffect
      <4> QED  BY <3>1, <3>2, <3>3, <4>1
    <3>6. <<"entries", EntryKey(op)>> \in rows  BY <3>4 DEF InsertedRows
    <3> QED  BY <1>1, <2>1, <2>4, <3>5, <3>6
  <2>5. CASE l[1] = "outbox"
    <3>1. l[2] \in Keys  BY <2>5 DEF Locks
    <3>2. outbox'[l[2]] # NoRow /\ outbox[l[2]] = NoRow  BY <1>6, <2>5 DEF Taken
    <3>3. outbox \in [Keys -> L!Event \cup {NoRow}]  BY <1>1 DEF L!TypeOK
    <3>4. op.kind # "rebuild"  BY <3>2, CommitEffect
    <3>5. l[2] = op.key
      <4>1. outbox' = [outbox EXCEPT ![op.key] = EventRow(p)]  BY <3>4, CommitEffect
      <4> QED  BY <3>1, <3>2, <3>3, <4>1
    <3>6. <<"outbox", op.key>> \in rows  BY <1>1, <3>4 DEF InsertedRows
    <3> QED  BY <1>1, <2>1, <2>5, <3>5, <3>6
  <2> QED  BY <1>6, <2>2, <2>3, <2>4, <2>5 DEF IndexTables
<1> QED  BY <1>4, <1>5, <1>6 DEF TablesKept

-----------------------------------------------------------------------------
\* Commit: a step of the ledger that the other transactions do not notice.
LEMMA CommitStep ==
    ASSUME TxInv, NEW p \in Procs, Commit(p)
    PROVE  TxInv'
<1>1. TxTypes' /\ Others(p) /\ tx'[p] = Idle  BY EndFields DEF Commit, TxInv
<1>2. LP!LInv'  BY CommitImplements, LedgerStep DEF TxInv
<1>3. Good(p)'  BY <1>1 DEF Good, Idle
<1>4. ASSUME NEW q \in Procs, q # p  PROVE Good(q)'
  <2>1. tx'[q] = tx[q] /\ tx[p].locks \cap tx[q].locks = {}
    BY <1>1, <1>4 DEF Others, TxInv, LocksExclusive
  <2> QED  BY <2>1, CommitKept, OthersKept
<1>5. LocksExclusive'  BY <1>1 DEF LocksExclusive, TxInv, Others, Idle
<1> QED  BY <1>1, <1>2, <1>3, <1>4, <1>5 DEF TxInv

\* CleanupOutbox: an event is deleted while transactions run.
LEMMA CleanupStep ==
    ASSUME TxInv, NEW k \in Keys, CleanupOutbox(k)
    PROVE  TxInv' /\ L!Next
<1>1. L!CleanupOutbox(k) /\ tx' = tx  BY DEF CleanupOutbox
<1>2. L!Next  BY <1>1 DEF L!Next
<1>3. LP!LInv'  BY <1>2, LedgerStep DEF TxInv
<1>4. TablesKept({})
  <2>1. /\ UNCHANGED <<snapshots, reservations, settlements, entries>>
        /\ outbox' = [outbox EXCEPT ![k] = NoRow]
    BY <1>1 DEF L!CleanupOutbox
  <2>2. outbox \in [Keys -> L!Event \cup {NoRow}]  BY LedgerFacts DEF TxInv, L!TypeOK
  <2>3. \A b \in Accounts : L!DirectConsumed(b)' = L!DirectConsumed(b) /\ L!DirectRefunded(b)' = L!DirectRefunded(b)
    BY <2>1 DEF L!DirectConsumed, L!DirectRefunded, L!EntryAmounts
  <2>4. ASSUME NEW l \in Locks, l[1] \in IndexTables, Taken(l)'  PROVE Taken(l)
    <3>1. CASE l[1] = "outbox"
      <4>1. l[2] \in Keys /\ outbox'[l[2]] # NoRow  BY <2>4, <3>1 DEF Locks, Taken
      <4>2. outbox[l[2]] # NoRow  BY <2>1, <2>2, <4>1
      <4> QED  BY <3>1, <4>2 DEF Taken
    <3>2. CASE l[1] # "outbox"  BY <2>1, <2>4, <3>2 DEF Taken, IndexTables
    <3> QED  BY <3>1, <3>2
  <2> QED  BY <2>1, <2>3, <2>4 DEF TablesKept
<1>5. \A q \in Procs : Good(q)'
  <2> SUFFICES ASSUME NEW q \in Procs PROVE Good(q)'  OBVIOUS
  <2>1. tx'[q] = tx[q] /\ {} \cap tx[q].locks = {}  BY <1>1
  <2> QED  BY <1>4, <2>1, OthersKept
<1>6. TxTypes' /\ LocksExclusive'  BY <1>1 DEF TxTypes, LocksExclusive, TxInv
<1> QED  BY <1>2, <1>3, <1>5, <1>6 DEF TxInv

\* No transaction has begun.
LEMMA TxStart == Init => TxInv
<1> SUFFICES ASSUME Init PROVE TxInv  OBVIOUS
<1>1. LP!LInv  BY LedgerStart DEF Init
<1>2. Idle \in Tx  BY NothingToInsert DEF Idle, Tx, PCs
<1>3. \A p \in Procs : tx[p] = Idle  BY DEF Init
<1>4. TxTypes  BY <1>2 DEF Init, TxTypes
<1>5. \A p \in Procs : Good(p) /\ tx[p].locks = {}
  <2>1. Idle.pc = "idle" /\ Idle.locks = {}  BY DEF Idle
  <2> QED  BY <1>3, <2>1 DEF Good
<1> QED  BY <1>1, <1>4, <1>5 DEF TxInv, LocksExclusive

LEMMA TxUnchanged == TxInv /\ UNCHANGED vars => TxInv' /\ UNCHANGED L!vars
<1> SUFFICES ASSUME TxInv, UNCHANGED vars PROVE TxInv' /\ UNCHANGED L!vars  OBVIOUS
<1>1. UNCHANGED tables /\ tx' = tx  BY DEF vars
<1>2. UNCHANGED L!vars  BY <1>1 DEF tables, L!vars
<1>3. LP!LInv'  BY <1>2, LedgerStep DEF TxInv
<1>4. \A p \in Procs : Good(p)'  BY <1>1, GoodKept DEF TxInv
<1> QED  BY <1>1, <1>2, <1>3, <1>4 DEF TxInv, TxTypes, LocksExclusive

\* Every statement of every transaction preserves the invariant.
LEMMA TxNext == TxInv /\ [Next]_vars => TxInv'
<1> SUFFICES ASSUME TxInv, [Next]_vars PROVE TxInv'  OBVIOUS
<1>1. ASSUME NEW p \in Procs, NEW op \in Ops, Begin(p, op) PROVE TxInv'  BY <1>1, BeginStep
<1>2. ASSUME NEW p \in Procs, Statement(p) PROVE TxInv'
  <2>1. CASE Find(p)  BY <2>1, FindStep
  <2>2. CASE LockReservation(p)  BY <2>2, LockReservationStep
  <2>3. CASE LockSnapshot(p)  BY <2>3, LockSnapshotStep
  <2>4. CASE Recheck(p)  BY <2>4, RecheckStep
  <2>5. CASE SumEntries(p)  BY <2>5, SumEntriesStep
  <2>6. CASE SumSettlements(p)  BY <2>6, SumSettlementsStep
  <2>7. CASE SumReservations(p)  BY <2>7, SumReservationsStep
  <2>8. CASE Write(p)  BY <2>8, WriteStep
  <2>9. CASE Insert(p)  BY <2>9, InsertStep
  <2>10. CASE Commit(p)  BY <2>10, CommitStep
  <2> QED  BY <1>2, <2>1, <2>2, <2>3, <2>4, <2>5, <2>6, <2>7, <2>8, <2>9, <2>10 DEF Statement
<1>3. ASSUME NEW p \in Procs, Rollback(p) PROVE TxInv'  BY <1>3, RollbackStep
<1>4. ASSUME NEW k \in Keys, CleanupOutbox(k) PROVE TxInv'  BY <1>4, CleanupStep
<1>5. CASE UNCHANGED vars  BY <1>5, TxUnchanged
<1> QED  BY <1>1, <1>2, <1>3, <1>4, <1>5 DEF Next

\* Only a commit and the cleanup write the tables, and both as Ledger does.
LEMMA TxSteps == TxInv /\ [Next]_vars => [L!Next]_(L!vars)
<1> SUFFICES ASSUME TxInv, [Next]_vars PROVE [L!Next]_(L!vars)  OBVIOUS
<1>1. ASSUME UNCHANGED tables PROVE UNCHANGED L!vars  BY <1>1 DEF tables, L!vars
<1>2. ASSUME NEW p \in Procs, NEW op \in Ops, Begin(p, op) PROVE UNCHANGED tables  BY <1>2 DEF Begin
<1>3. ASSUME NEW p \in Procs, Rollback(p) PROVE UNCHANGED tables  BY <1>3 DEF Rollback
<1>4. ASSUME NEW p \in Procs, Statement(p), ~Commit(p) PROVE UNCHANGED tables
  BY <1>4 DEF Statement, Find, LockReservation, LockSnapshot, Recheck, SumEntries, SumSettlements,
              SumReservations, Write, Insert
<1>5. ASSUME NEW p \in Procs, Commit(p) PROVE [L!Next]_(L!vars)  BY <1>5, CommitImplements
<1>6. ASSUME NEW k \in Keys, CleanupOutbox(k) PROVE L!Next  BY <1>6, CleanupStep
<1>7. CASE UNCHANGED vars  BY <1>1, <1>7 DEF vars
<1> QED  BY <1>1, <1>2, <1>3, <1>4, <1>5, <1>6, <1>7 DEF Next

(***************************************************************************)
(* TxInv is an invariant: at every statement a transaction holds exactly   *)
(* its locks, the rows it has locked are the ones it read, what it has     *)
(* inserted is still free, and no two transactions hold the same lock.     *)
(***************************************************************************)
THEOREM TxInvariant == Spec => []TxInv
<1> QED  BY TxStart, TxNext, PTL DEF Spec

(***************************************************************************)
(* The transactions implement the atomic ledger: whatever they interleave, *)
(* wait for or roll back, the tables change by whole operations of Ledger. *)
(***************************************************************************)
THEOREM TxImplementsLedger == Spec => ImplementsLedger
<1>1. Init => L!Init  BY DEF Init
<1> QED  BY <1>1, TxSteps, TxInvariant, PTL DEF Spec, ImplementsLedger, L!Spec

(***************************************************************************)
(* CopiesCurrent: what lockReservation and lockSnapshot read FOR UPDATE is *)
(* still the committed row when the transaction computes on it.            *)
(***************************************************************************)
THEOREM TxCopiesCurrent == Spec => []CopiesCurrent
<1>1. TxInv => CopiesCurrent
  <2> SUFFICES ASSUME TxInv, NEW p \in Procs
               PROVE  /\ tx[p].res # NoRow => reservations[tx[p].op.res] = tx[p].res
                      /\ tx[p].pc \in {"recheck", "write"} /\ tx[p].snap # NoRow =>
                            snapshots[Account(p)] = tx[p].snap
    BY DEF CopiesCurrent
  <2>1. CASE tx[p].pc = "idle"
    <3>1. tx[p] = Idle  BY <2>1 DEF TxInv, Good
    <3> QED  BY <3>1 DEF Idle
  <2>2. CASE tx[p].pc # "idle"
    <3>1. ReservationHeld(p) /\ SnapshotHeld(p)  BY <2>2 DEF TxInv, Good
    <3> QED  BY <3>1 DEF ReservationHeld, SnapshotHeld
  <2> QED  BY <2>1, <2>2
<1> QED  BY <1>1, TxInvariant, PTL

-----------------------------------------------------------------------------
(***************************************************************************)
(* The order in which every transaction takes its locks.                   *)
(***************************************************************************)
Level(l) ==
    CASE l[1] = "reservation" -> 1
      [] l[1] = "snapshot" -> 2
      [] l[1] \in {"reservations", "settlements"} -> 3
      [] l[1] = "entries" -> 4
      [] l[1] = "outbox" -> 5

LEMMA LevelType == \A l \in Locks : Level(l) \in 1..5
BY DEF Locks, Level

\* The rows are inserted in that order, after the row locks.
LEMMA IndexKeysOrdered ==
    ASSUME NEW op \in Ops, NEW r, NEW j \in 1..Len(IndexKeys(op, r))
    PROVE  /\ Level(IndexKeys(op, r)[j]) \in 3..5
           /\ \A i \in 1..(j - 1) : Level(IndexKeys(op, r)[i]) < Level(IndexKeys(op, r)[j])
<1> DEFINE R == <<"reservations", op.key>>
           S == <<"settlements", op.key>>
           E == <<"entries", EntryKey(op)>>
           O == <<"outbox", op.key>>
           keys == IndexKeys(op, r)
<1>1. Level(R) = 3 /\ Level(S) = 3 /\ Level(E) = 4 /\ Level(O) = 5  BY DEF Level
<1>2. keys \in {<<>>, <<R, E, O>>, <<S, O>>, <<S, E, O>>, <<E, O>>}  BY DEF IndexKeys
<1> HIDE DEF R, S, E, O, keys
<1>3. CASE keys = <<>>  BY <1>3 DEF keys
<1>4. ASSUME NEW x, NEW y, keys = <<x, y>>, Level(x) \in 3..5, Level(y) \in 3..5, Level(x) < Level(y)
      PROVE  Level(keys[j]) \in 3..5 /\ \A i \in 1..(j - 1) : Level(keys[i]) < Level(keys[j])
  <2>1. j \in {1, 2} /\ keys[1] = x /\ keys[2] = y  BY <1>4 DEF keys
  <2>2. \A i \in 1..(j - 1) : i = 1 /\ j = 2  BY <2>1
  <2> QED  BY <1>4, <2>1, <2>2
<1>5. ASSUME NEW x, NEW y, NEW z, keys = <<x, y, z>>, Level(x) = 3, Level(y) = 4, Level(z) = 5
      PROVE  Level(keys[j]) \in 3..5 /\ \A i \in 1..(j - 1) : Level(keys[i]) < Level(keys[j])
  <2>1. j \in {1, 2, 3} /\ keys[1] = x /\ keys[2] = y /\ keys[3] = z  BY <1>5 DEF keys
  <2>2. \A i \in 1..(j - 1) : (i = 1 /\ j \in {2, 3}) \/ (i = 2 /\ j = 3)  BY <2>1
  <2> QED  BY <1>5, <2>1, <2>2
<1> QED  BY <1>1, <1>2, <1>3, <1>4, <1>5 DEF keys

\* A transaction waits for a lock above all those it holds.
LEMMA HeldBelowWanted ==
    ASSUME TxInv, NEW p \in Procs, NEW l \in tx[p].locks, NEW w \in Wants(p)
    PROVE  Level(l) < Level(w)
<1>1. CASE tx[p].pc = "lockReservation"
  <2>1. tx[p].locks = RowLocks(p)  BY <1>1, RowOf
  <2>2. RowLocks(p) = {}  BY <1>1 DEF RowLocks, HoldsReservation, HoldsSnapshot
  <2> QED  BY <2>1, <2>2
<1>2. CASE tx[p].pc = "lockSnapshot"
  <2>1. tx[p].locks = RowLocks(p)  BY <1>2, RowOf
  <2>2. l[1] = "reservation"  BY <1>2, <2>1 DEF RowLocks, HoldsSnapshot
  <2>3. w[1] = "snapshot"  BY <1>2 DEF Wants
  <2> QED  BY <2>2, <2>3 DEF Level
<1>3. CASE tx[p].pc = "insert"
  <2> DEFINE keys == IndexKeys(tx[p].op, tx[p].res)
             todo == tx[p].todo
  <2>1. /\ tx[p].op \in Ops /\ todo \in Seq(Locks) /\ keys \in Seq(Locks)
        /\ Progress(keys, todo, tx[p].locks, RowLocks(p))
    BY <1>3, InsertOf
  <2>2. todo # <<>> /\ w = Head(todo)  BY <1>3 DEF Wants
  <2> HIDE DEF keys
  <2>3. PICK n \in 0..Len(keys) : /\ tx[p].locks = RowLocks(p) \cup {keys[i] : i \in 1..n}
                                  /\ todo = [i \in 1..(Len(keys) - n) |-> keys[i + n]]
    BY <2>1 DEF Progress
  <2>4. Len(keys) \in Nat /\ n \in Nat /\ Len(todo) = Len(keys) - n  BY <2>1, <2>3
  <2>5. n < Len(keys)  BY <2>1, <2>2, <2>3, <2>4
  <2>6. w = keys[n + 1]  BY <2>1, <2>2, <2>3, <2>4, <2>5
  <2>7. n + 1 \in 1..Len(keys) /\ (n + 1) - 1 = n  BY <2>4, <2>5
  <2>8. Level(keys[n + 1]) \in 3..5 /\ \A i \in 1..n : Level(keys[i]) < Level(keys[n + 1])
    BY <2>1, <2>7, IndexKeysOrdered DEF keys
  <2>9. CASE l \in RowLocks(p)
    <3>1. l[1] \in {"reservation", "snapshot"}  BY <2>9 DEF RowLocks
    <3>2. Level(l) \in {1, 2}  BY <3>1 DEF Level
    <3> QED  BY <2>6, <2>8, <3>2
  <2>10. CASE l \notin RowLocks(p)  BY <2>3, <2>6, <2>8, <2>10
  <2> QED  BY <2>9, <2>10
<1> QED  BY <1>1, <1>2, <1>3 DEF Wants

LEMMA WantsLocks ==
    ASSUME TxInv, NEW p \in Procs, NEW w \in Wants(p)
    PROVE  w \in Locks
<1>1. CASE tx[p].pc = "lockReservation"
  <2>1. Running(p) /\ tx[p].op \in Ops  BY <1>1, RowOf
  <2>2. tx[p].op.res \in Keys  BY <1>1, <2>1, OpFields DEF Running, OnReservation
  <2> QED  BY <1>1, <2>2 DEF Wants, Locks
<1>2. CASE tx[p].pc = "lockSnapshot"
  <2>1. Running(p) /\ ReservationHeld(p)  BY <1>2, RowOf
  <2>2. OnReservation(tx[p].op) => HoldsReservation(p)  BY <1>2 DEF HoldsReservation
  <2>3. Account(p) \in Accounts  BY <2>1, <2>2, AccountKnown
  <2> QED  BY <1>2, <2>3 DEF Wants, Locks
<1>3. CASE tx[p].pc = "insert"
  <2>1. tx[p].todo \in Seq(Locks)  BY <1>3, InsertOf
  <2>2. tx[p].todo # <<>> /\ w = Head(tx[p].todo)  BY <1>3 DEF Wants
  <2> QED  BY <2>1, <2>2, HeadTailProperties
<1> QED  BY <1>1, <1>2, <1>3 DEF Wants

(***************************************************************************)
(* SingleOperationNoLockCycle, for any set of transactions of one ledger   *)
(* operation each: the member of a group that waits for the highest lock   *)
(* waits for nobody in the group.                                          *)
(***************************************************************************)
THEOREM TxSingleOperationNoLockCycle == Spec => []SingleOperationNoLockCycle
<1>1. TxInv => SingleOperationNoLockCycle
  <2> SUFFICES ASSUME TxInv, NEW S \in (SUBSET Procs) \ {{}}
               PROVE  \E p \in S : \A q \in S \ {p} : Wants(p) \cap tx[q].locks = {}
    BY DEF SingleOperationNoLockCycle
  <2>1. CASE \E p \in S : Wants(p) = {}  BY <2>1
  <2>2. CASE \A p \in S : Wants(p) # {}
    <3> DEFINE At(p, i) == \E w \in Wants(p) : Level(w) = i
    <3>1. \A p \in S : \A v, w \in Wants(p) : v = w  BY DEF Wants
    <3>2. \A p \in S : \A l \in tx[p].locks : l \in Locks  BY DEF TxInv, TxTypes, Tx
    <3>3. \A p \in S : \A l \in tx[p].locks, w \in Wants(p) : Level(l) < Level(w)
      BY HeldBelowWanted
    <3>4. ASSUME NEW p \in S, NEW i \in 1..5, At(p, i), \A q \in S : \A j \in (i + 1)..5 : ~At(q, j)
          PROVE  \A q \in S \ {p} : Wants(p) \cap tx[q].locks = {}
      <4> SUFFICES ASSUME NEW q \in S, NEW l \in Wants(p), l \in tx[q].locks PROVE FALSE  OBVIOUS
      <4>1. Level(l) = i  BY <3>1, <3>4
      <4>2. PICK w \in Wants(q) : TRUE  BY <2>2
      <4>3. i < Level(w)  BY <3>3, <4>1, <4>2
      <4>4. Level(w) \in 1..5  BY <2>2, <4>2, WantsLocks, LevelType
      <4>5. Level(w) \in (i + 1)..5 /\ At(q, Level(w))  BY <4>2, <4>3, <4>4
      <4> QED  BY <3>4, <4>5
    <3>5. PICK i \in 1..5 : /\ \E p \in S : At(p, i)
                            /\ \A q \in S : \A j \in (i + 1)..5 : ~At(q, j)
      <4>1. \E p \in S : \E i \in 1..5 : At(p, i)
        <5>1. PICK p \in S : TRUE  OBVIOUS
        <5>2. PICK w \in Wants(p) : TRUE  BY <2>2
        <5>3. Level(w) \in 1..5  BY WantsLocks, LevelType
        <5> QED  BY <5>3
      <4> HIDE DEF At
      <4> DEFINE some(i) == \E p \in S : At(p, i)
      <4>2. \E i \in 1..5 : some(i) /\ \A j \in (i + 1)..5 : ~some(j)
        <5>1. some(1) \/ some(2) \/ some(3) \/ some(4) \/ some(5)  BY <4>1
        <5> HIDE DEF some
        <5>2. CASE some(5)  BY <5>2
        <5>3. CASE some(4) /\ ~some(5)  BY <5>3
        <5>4. CASE some(3) /\ ~some(4) /\ ~some(5)  BY <5>4
        <5>5. CASE some(2) /\ ~some(3) /\ ~some(4) /\ ~some(5)  BY <5>5
        <5>6. CASE some(1) /\ ~some(2) /\ ~some(3) /\ ~some(4) /\ ~some(5)  BY <5>6
        <5> QED  BY <5>1, <5>2, <5>3, <5>4, <5>5, <5>6
      <4> QED  BY <4>2
    <3>6. PICK p \in S : At(p, i)  BY <3>5
    <3>7. \A q \in S \ {p} : Wants(p) \cap tx[q].locks = {}
      <4> HIDE DEF At
      <4> QED  BY <3>4, <3>5, <3>6
    <3> QED  BY <3>7
  <2> QED  BY <2>1, <2>2
<1> QED  BY <1>1, TxInvariant, PTL

-----------------------------------------------------------------------------
(***************************************************************************)
(* The outbox worker publishes what these transactions record.  Its        *)
(* invariant adds to EffectsOnce what a worker's lists hold at each line:  *)
(* the events it goes through are of the account it is at.                 *)
(***************************************************************************)
WorkerRow == [pc : {"idle", "account", "lock", "commit", "mark"},
              accounts : Seq(AccountIDs), events : Seq(Events)]

WorkerTypes ==
    /\ status \in [Events -> {"none", "pending", "published", "deleted"}]
    /\ attempts \in [Events -> Nat] /\ effects \in [Events -> Nat]
    /\ worker \in [Workers -> WorkerRow]

\* What a worker's lists hold.
ListsOfPc(r) ==
    /\ r.pc # "idle" => Len(r.accounts) > 0
    /\ r.pc = "commit" => Len(r.events) > 0
    /\ r.pc \in {"lock", "commit"} =>
          \A i \in 1..Len(r.events) : AccountOf[r.events[i]] = Head(r.accounts)

\* A worker that is in an event's transaction has found it pending and holds its lock.
Locked ==
    \A w \in Workers : worker[w].pc = "commit" =>
        /\ status[Event(w)] = "pending"
        /\ \A v \in Workers \ {w} : worker[v].pc = "commit" => Event(v) # Event(w)

OnceEach ==
    \A e \in Events : effects[e] = IF status[e] \in {"published", "deleted"} THEN 1 ELSE 0

WorkerInv ==
    WorkerTypes /\ (\A w \in Workers : ListsOfPc(worker[w])) /\ Locked /\ OnceEach

\* The rows a query lists are rows of its table.
LEMMA PendingFinite ==
    ASSUME NEW a
    PROVE  IsFiniteSet(Pending(a)) /\ Pending(a) \subseteq Events
<1>1. Pending(a) \subseteq Events  BY DEF Pending
<1> QED  BY <1>1, WorkerAssumption, FS_Subset

LEMMA PendingAccountsFinite ==
    IsFiniteSet({a \in AccountIDs : Pending(a) # {}})
<1> DEFINE S == {a \in AccountIDs : Pending(a) # {}}
           T == {AccountOf[e] : e \in Events}
<1>1. S \subseteq T  BY DEF Pending
<1>2. IsFiniteSet(T)
  <2>1. [e \in Events |-> AccountOf[e]] \in Surjection(Events, T)  BY DEF Surjection
  <2> QED  BY <2>1, WorkerAssumption, FS_Surjection
<1> QED  BY <1>1, <1>2, FS_Subset

\* A list of the first rows of S is a sequence over S, and over any set with it.
LEMMA FirstRowsSeq ==
    ASSUME NEW S, NEW U, S \subseteq U, IsFiniteSet(S), NEW n \in Nat, NEW k,
           k = (IF Cardinality(S) < n THEN Cardinality(S) ELSE n), NEW list \in [1..k -> S]
    PROVE  list \in Seq(U) /\ \A i \in 1..Len(list) : list[i] \in S
<1>1. Cardinality(S) \in Nat  BY FS_CardinalityType
<1>2. k \in Nat  BY <1>1
<1>3. list \in [1..k -> U]  OBVIOUS
<1>4. list \in Seq(U) /\ Len(list) = k  BY <1>2, <1>3
<1> QED  BY <1>4

LEMMA AccountList ==
    ASSUME NEW list \in pendingLedgerOutboxAccountIDs
    PROVE  list \in Seq(AccountIDs)
<1> DEFINE S == {a \in AccountIDs : Pending(a) # {}}
           k == IF Cardinality(S) < AccountBatch THEN Cardinality(S) ELSE AccountBatch
<1>1. list \in [1..k -> S]  BY DEF pendingLedgerOutboxAccountIDs, FirstRows
<1>2. IsFiniteSet(S) /\ S \subseteq AccountIDs  BY PendingAccountsFinite
<1>3. AccountBatch \in Nat  BY WorkerAssumption
<1> HIDE DEF S
<1> QED  BY <1>1, <1>2, <1>3, FirstRowsSeq

LEMMA EventList ==
    ASSUME NEW a, NEW list \in pendingEvents(a)
    PROVE  /\ list \in Seq(Events)
           /\ \A i \in 1..Len(list) : AccountOf[list[i]] = a
<1> DEFINE S == Pending(a)
           k == IF Cardinality(S) < EventBatch THEN Cardinality(S) ELSE EventBatch
<1>1. list \in [1..k -> S]  BY DEF pendingEvents, FirstRows
<1>2. IsFiniteSet(S) /\ S \subseteq Events  BY PendingFinite
<1>3. EventBatch \in Nat  BY WorkerAssumption
<1>4. list \in Seq(Events) /\ \A i \in 1..Len(list) : list[i] \in S
  BY <1>1, <1>2, <1>3, FirstRowsSeq
<1>5. \A e \in S : AccountOf[e] = a  BY DEF Pending
<1> QED  BY <1>4, <1>5

\* The lists of a worker that goes on to the next account or the next event.
LEMMA NextAccountRow ==
    ASSUME NEW w \in Workers, WorkerTypes, ListsOfPc(worker[w]), worker[w].pc # "idle",
           NextAccount(w)
    PROVE  \E r \in WorkerRow : /\ worker' = [worker EXCEPT ![w] = r]
                                /\ ListsOfPc(r) /\ r.pc \in {"idle", "account"}
<1> DEFINE r == [pc |-> IF Len(worker[w].accounts) > 1 THEN "account" ELSE "idle",
                 accounts |-> Tail(worker[w].accounts), events |-> <<>>]
<1>1. worker[w] \in WorkerRow  BY DEF WorkerTypes
<1>2. worker[w].accounts \in Seq(AccountIDs) /\ Len(worker[w].accounts) > 0
  BY <1>1 DEF WorkerRow, ListsOfPc
<1>3. /\ Tail(worker[w].accounts) \in Seq(AccountIDs)
      /\ Len(Tail(worker[w].accounts)) = Len(worker[w].accounts) - 1
  BY <1>2
<1>4. <<>> \in Seq(Events)  OBVIOUS
<1>5. r \in WorkerRow  BY <1>3, <1>4 DEF WorkerRow
<1>6. r.pc \in {"idle", "account"}  OBVIOUS
<1>7. ListsOfPc(r)  BY <1>2, <1>3, <1>6 DEF ListsOfPc
<1> QED  BY <1>5, <1>6, <1>7 DEF NextAccount, Set

LEMMA NextEventRow ==
    ASSUME NEW w \in Workers, WorkerTypes, ListsOfPc(worker[w]),
           worker[w].pc \in {"lock", "commit"}, Len(worker[w].events) > 0, NextEvent(w)
    PROVE  \E r \in WorkerRow : /\ worker' = [worker EXCEPT ![w] = r]
                                /\ ListsOfPc(r) /\ r.pc = "lock"
<1> DEFINE q == worker[w]
           r == [pc |-> "lock", accounts |-> q.accounts, events |-> Tail(q.events)]
<1>1. q \in WorkerRow  BY DEF WorkerTypes
<1>3. worker' = [worker EXCEPT ![w] = r]  BY DEF NextEvent, WithEvents, Set
<1>4. q.accounts \in Seq(AccountIDs) /\ q.events \in Seq(Events)  BY <1>1 DEF WorkerRow
<1>5. /\ Tail(q.events) \in Seq(Events) /\ Len(Tail(q.events)) = Len(q.events) - 1
      /\ \A i \in 1..Len(Tail(q.events)) : /\ i + 1 \in 1..Len(q.events)
                                           /\ Tail(q.events)[i] = q.events[i + 1]
  BY <1>4
<1>6. r \in WorkerRow  BY <1>4, <1>5 DEF WorkerRow
<1>7. ListsOfPc(r)  BY <1>5 DEF ListsOfPc
<1> QED  BY <1>3, <1>6, <1>7

LEMMA MoveToRow ==
    ASSUME NEW w \in Workers, WorkerTypes, NEW c \in {"commit", "mark"}, MoveTo(w, c)
    PROVE  /\ worker' = [worker EXCEPT ![w] = [pc |-> c, accounts |-> worker[w].accounts,
                                               events |-> worker[w].events]]
           /\ [pc |-> c, accounts |-> worker[w].accounts, events |-> worker[w].events] \in WorkerRow
<1> DEFINE q == worker[w]
<1>1. q \in WorkerRow  BY DEF WorkerTypes
<1>2. [q EXCEPT !.pc = c] = [pc |-> c, accounts |-> q.accounts, events |-> q.events]
  <2> HIDE DEF q
  <2> QED  BY <1>1 DEF WorkerRow
<1>3. worker' = [worker EXCEPT ![w] = [pc |-> c, accounts |-> q.accounts, events |-> q.events]]
  BY <1>2 DEF MoveTo, Set
<1>4. [pc |-> c, accounts |-> q.accounts, events |-> q.events] \in WorkerRow
  BY <1>1 DEF WorkerRow
<1> QED  BY <1>3, <1>4

\* A step that changes the row of one worker and leaves the rows of the outbox
\* keeps the invariant when the new row is sound and, at "commit", locks an event
\* that is pending and that nobody else has locked.
LEMMA WorkerRowStep ==
    ASSUME WorkerInv, NEW w \in Workers, NEW r \in WorkerRow, worker' = [worker EXCEPT ![w] = r],
           ListsOfPc(r), status' = status, effects' = effects, attempts' \in [Events -> Nat],
           r.pc = "commit" => /\ r.events = worker[w].events /\ status[Event(w)] = "pending"
                              /\ NotLocked(Event(w), w)
    PROVE  WorkerInv'
<1> USE DEF WorkerInv
<1>1. worker \in [Workers -> WorkerRow]  BY DEF WorkerTypes
<1>2. worker'[w] = r /\ \A v \in Workers \ {w} : worker'[v] = worker[v]  BY <1>1
<1>3. WorkerTypes'  BY <1>1 DEF WorkerTypes
<1>4. (\A v \in Workers : ListsOfPc(worker[v]))'  BY <1>2 DEF ListsOfPc
<1>5. Locked'
  BY <1>2 DEF Locked, Event, NotLocked
<1>6. OnceEach'  BY DEF OnceEach
<1> QED  BY <1>3, <1>4, <1>5, <1>6

LEMMA WaitingRow == Waiting \in WorkerRow /\ ListsOfPc(Waiting) /\ Waiting.pc = "idle"
<1>1. <<>> \in Seq(AccountIDs) /\ <<>> \in Seq(Events)  OBVIOUS
<1> QED  BY <1>1 DEF Waiting, WorkerRow, ListsOfPc

LEMMA WorkerInitInv == WorkerInit => WorkerInv
<1> SUFFICES ASSUME WorkerInit PROVE WorkerInv  OBVIOUS
<1> USE DEF WorkerInit
<1>1. \A w \in Workers : worker[w] = Waiting  OBVIOUS
<1>2. WorkerTypes  BY WaitingRow DEF WorkerTypes
<1>3. \A w \in Workers : ListsOfPc(worker[w])  BY <1>1, WaitingRow
<1>4. Locked  BY <1>1, WaitingRow DEF Locked
<1>5. OnceEach  BY DEF OnceEach
<1> QED  BY <1>2, <1>3, <1>4, <1>5 DEF WorkerInv

LEMMA BatchInv ==
    ASSUME WorkerInv, NEW w \in Workers, RunLedgerWorkerBatch(w)
    PROVE  WorkerInv'
<1> PICK list \in pendingLedgerOutboxAccountIDs :
        Set(w, [pc |-> IF Len(list) = 0 THEN "idle" ELSE "account",
                accounts |-> list, events |-> <<>>])
  BY DEF RunLedgerWorkerBatch
<1> DEFINE r == [pc |-> IF Len(list) = 0 THEN "idle" ELSE "account",
                 accounts |-> list, events |-> <<>>]
<1>1. list \in Seq(AccountIDs)  BY AccountList
<1>2. <<>> \in Seq(Events)  OBVIOUS
<1>3. r \in WorkerRow  BY <1>1, <1>2 DEF WorkerRow
<1>4. Len(list) \in Nat  BY <1>1
<1>5. ListsOfPc(r)  BY <1>4 DEF ListsOfPc
<1>6. r.pc # "commit"  OBVIOUS
<1>7. worker' = [worker EXCEPT ![w] = r]  BY DEF Set
<1>8. status' = status /\ effects' = effects /\ attempts' \in [Events -> Nat]
  BY DEF RunLedgerWorkerBatch, outboxRows, WorkerInv, WorkerTypes
<1> HIDE DEF r
<1> QED  BY <1>3, <1>5, <1>6, <1>7, <1>8, WorkerRowStep

LEMMA SelectInv ==
    ASSUME WorkerInv, NEW w \in Workers, SelectEvents(w)
    PROVE  WorkerInv'
<1> DEFINE q == worker[w]
<1>1. status' = status /\ effects' = effects /\ attempts' \in [Events -> Nat]
  BY DEF SelectEvents, outboxRows, WorkerInv, WorkerTypes
<1>2. WorkerTypes /\ ListsOfPc(q) /\ q \in WorkerRow /\ q.pc = "account"
  BY DEF WorkerInv, WorkerTypes, SelectEvents
<1>3. CASE MoveTo(w, "mark")
  <2> DEFINE r == [pc |-> "mark", accounts |-> q.accounts, events |-> q.events]
  <2>1. worker' = [worker EXCEPT ![w] = r] /\ r \in WorkerRow  BY <1>2, <1>3, MoveToRow
  <2>2. ListsOfPc(r) /\ r.pc # "commit"  BY <1>2 DEF ListsOfPc
  <2> HIDE DEF r
  <2> QED  BY <1>1, <2>1, <2>2, WorkerRowStep
<1>4. CASE \E list \in pendingEvents(AccountID(w)) : WithEvents(w, list)
  <2> PICK list \in pendingEvents(AccountID(w)) : WithEvents(w, list)
    BY <1>4
  <2> DEFINE r == [pc |-> "lock", accounts |-> q.accounts, events |-> list]
  <2>1. /\ list \in Seq(Events)
        /\ \A i \in 1..Len(list) : AccountOf[list[i]] = AccountID(w)
    BY EventList
  <2>3. worker' = [worker EXCEPT ![w] = r]  BY DEF WithEvents, Set
  <2>4. r \in WorkerRow  BY <1>2, <2>1 DEF WorkerRow
  <2>5. ListsOfPc(r) /\ r.pc # "commit"  BY <1>2, <2>1 DEF ListsOfPc, AccountID
  <2> HIDE DEF r
  <2> QED  BY <1>1, <2>3, <2>4, <2>5, WorkerRowStep
<1> QED  BY <1>3, <1>4 DEF SelectEvents

LEMMA LockInv ==
    ASSUME WorkerInv, NEW w \in Workers, LockEvent(w)
    PROVE  WorkerInv'
<1> DEFINE q == worker[w]
<1>1. status' = status /\ effects' = effects /\ attempts' \in [Events -> Nat]
  BY DEF LockEvent, outboxRows, WorkerInv, WorkerTypes
<1>2. WorkerTypes /\ ListsOfPc(q) /\ q \in WorkerRow /\ q.pc = "lock" /\ q.events \in Seq(Events)
  BY DEF WorkerInv, WorkerTypes, LockEvent, WorkerRow
<1>3. CASE NextAccount(w)
  <2>1. PICK r \in WorkerRow : /\ worker' = [worker EXCEPT ![w] = r]
                               /\ ListsOfPc(r) /\ r.pc \in {"idle", "account"}
    BY <1>2, <1>3, NextAccountRow
  <2>2. r.pc # "commit"  BY <2>1
  <2> QED  BY <1>1, <2>1, <2>2, WorkerRowStep
<1>4. CASE q.events # <<>> /\ NextEvent(w)
  <2>1. Len(q.events) > 0  BY <1>2, <1>4
  <2>2. PICK r \in WorkerRow : /\ worker' = [worker EXCEPT ![w] = r]
                               /\ ListsOfPc(r) /\ r.pc = "lock"
    BY <1>2, <1>4, <2>1, NextEventRow
  <2>3. r.pc # "commit"  BY <2>2
  <2> QED  BY <1>1, <2>2, <2>3, WorkerRowStep
<1>5. CASE /\ q.events # <<>> /\ NotLocked(Event(w), w) /\ status[Event(w)] = "pending"
           /\ MoveTo(w, "commit")
  <2> DEFINE r == [pc |-> "commit", accounts |-> q.accounts, events |-> q.events]
  <2>1. worker' = [worker EXCEPT ![w] = r] /\ r \in WorkerRow  BY <1>2, <1>5, MoveToRow
  <2>2. Len(q.events) > 0  BY <1>2, <1>5
  <2>3. ListsOfPc(r)  BY <1>2, <2>2 DEF ListsOfPc
  <2>4. r.events = worker[w].events  OBVIOUS
  <2> HIDE DEF r
  <2> QED  BY <1>1, <1>5, <2>1, <2>3, <2>4, WorkerRowStep
<1> QED  BY <1>3, <1>4, <1>5 DEF LockEvent

\* The commit publishes an event nobody else has locked.
LEMMA CommitInv ==
    ASSUME WorkerInv, NEW w \in Workers, CommitEvent(w)
    PROVE  WorkerInv'
<1> DEFINE q == worker[w]
<1>1. attempts' = attempts /\ attempts' \in [Events -> Nat]
  BY DEF CommitEvent, WorkerInv, WorkerTypes
<1>2. WorkerTypes /\ ListsOfPc(q) /\ q \in WorkerRow /\ q.pc = "commit" /\ q.events \in Seq(Events)
  BY DEF WorkerInv, WorkerTypes, CommitEvent, WorkerRow
<1>3. Len(q.events) > 0 /\ Event(w) \in Events  BY <1>2 DEF ListsOfPc, Event
<1>4. CASE MoveTo(w, "mark") /\ UNCHANGED <<status, effects>>
  <2> DEFINE r == [pc |-> "mark", accounts |-> q.accounts, events |-> q.events]
  <2>1. worker' = [worker EXCEPT ![w] = r] /\ r \in WorkerRow  BY <1>2, <1>4, MoveToRow
  <2>2. ListsOfPc(r) /\ r.pc # "commit"  BY <1>2 DEF ListsOfPc
  <2> HIDE DEF r
  <2> QED  BY <1>1, <1>4, <2>1, <2>2, WorkerRowStep
<1>5. CASE /\ status' = [status EXCEPT ![Event(w)] = "published"]
           /\ effects' = [effects EXCEPT ![Event(w)] = @ + 1]
           /\ NextEvent(w)
  <2>1. PICK r \in WorkerRow : /\ worker' = [worker EXCEPT ![w] = r]
                               /\ ListsOfPc(r) /\ r.pc = "lock"
    BY <1>2, <1>3, <1>5, NextEventRow
  <2>2. worker \in [Workers -> WorkerRow]  BY <1>2 DEF WorkerTypes
  <2>3. worker'[w] = r /\ \A v \in Workers \ {w} : worker'[v] = worker[v]  BY <2>1, <2>2
  <2>4. WorkerTypes'  BY <1>1, <1>2, <1>3, <1>5, <2>1 DEF WorkerTypes
  <2>5. (\A v \in Workers : ListsOfPc(worker[v]))'  BY <2>1, <2>3 DEF ListsOfPc, WorkerInv
  <2>6. Locked /\ OnceEach /\ status[Event(w)] = "pending"  BY <1>2 DEF WorkerInv, Locked
  <2>7. \A e \in Events \ {Event(w)} : status'[e] = status[e] /\ effects'[e] = effects[e]
    BY <1>2, <1>5 DEF WorkerTypes
  <2>8. status'[Event(w)] = "published" /\ effects'[Event(w)] = effects[Event(w)] + 1
    BY <1>2, <1>3, <1>5 DEF WorkerTypes
  <2>9. ASSUME NEW v \in Workers, worker'[v].pc = "commit"
        PROVE  v # w /\ worker'[v] = worker[v] /\ Event(v) \in Events \ {Event(w)}
    <3>1. v # w /\ worker'[v] = worker[v]  BY <2>1, <2>3, <2>9
    <3>2. Event(v) # Event(w)  BY <1>2, <2>6, <2>9, <3>1 DEF Locked
    <3>3. worker[v] \in WorkerRow /\ ListsOfPc(worker[v]) /\ worker[v].pc = "commit"
      BY <2>9, <3>1 DEF WorkerInv, WorkerTypes
    <3>4. worker[v].events \in Seq(Events) /\ Len(worker[v].events) > 0
      BY <3>3 DEF WorkerRow, ListsOfPc
    <3>5. Event(v) \in Events  BY <3>4 DEF Event
    <3> QED  BY <3>1, <3>2, <3>5
  <2>10. Locked'
    <3> SUFFICES ASSUME NEW v \in Workers, worker'[v].pc = "commit"
                 PROVE  /\ status'[Event(v)'] = "pending"
                        /\ \A u \in Workers \ {v} : worker'[u].pc = "commit" => Event(u)' # Event(v)'
      BY DEF Locked
    <3>1. Event(v)' = Event(v) /\ Event(v) \in Events \ {Event(w)} /\ worker[v].pc = "commit"
      BY <2>9 DEF Event
    <3>2. status'[Event(v)'] = "pending"  BY <2>6, <2>7, <3>1 DEF Locked
    <3>3. ASSUME NEW u \in Workers \ {v}, worker'[u].pc = "commit" PROVE Event(u)' # Event(v)'
      <4>1. Event(u)' = Event(u) /\ worker[u].pc = "commit"  BY <2>9, <3>3 DEF Event
      <4> QED  BY <2>6, <3>1, <4>1 DEF Locked
    <3> QED  BY <3>2, <3>3
  <2>11. OnceEach'  BY <1>3, <2>6, <2>7, <2>8 DEF OnceEach
  <2> QED  BY <2>4, <2>5, <2>10, <2>11 DEF WorkerInv
<1> QED  BY <1>4, <1>5 DEF CommitEvent

LEMMA MarkInv ==
    ASSUME WorkerInv, NEW w \in Workers, MarkFailure(w)
    PROVE  WorkerInv'
<1>1. status' = status /\ effects' = effects  BY DEF MarkFailure
<1>2. WorkerTypes /\ ListsOfPc(worker[w]) /\ worker[w].pc # "idle"
  BY DEF WorkerInv, MarkFailure
<1>3. attempts' \in [Events -> Nat]  BY <1>2 DEF MarkFailure, WorkerTypes
<1>4. CASE NextAccount(w)
  <2>1. PICK r \in WorkerRow : /\ worker' = [worker EXCEPT ![w] = r]
                               /\ ListsOfPc(r) /\ r.pc \in {"idle", "account"}
    BY <1>2, <1>4, NextAccountRow
  <2>2. r.pc # "commit"  BY <2>1
  <2> QED  BY <1>1, <1>3, <2>1, <2>2, WorkerRowStep
<1>5. CASE Set(w, Waiting)
  <2>1. Waiting.pc # "commit"  BY WaitingRow
  <2> QED  BY <1>1, <1>3, <1>5, <2>1, WaitingRow, WorkerRowStep DEF Set
<1> QED  BY <1>4, <1>5 DEF MarkFailure

LEMMA CrashInv ==
    ASSUME WorkerInv, NEW w \in Workers, Crash(w)
    PROVE  WorkerInv'
<1>1. status' = status /\ effects' = effects /\ attempts' \in [Events -> Nat]
  BY DEF Crash, outboxRows, WorkerInv, WorkerTypes
<1>2. worker' = [worker EXCEPT ![w] = Waiting]  BY DEF Crash, Set
<1>3. Waiting.pc # "commit"  BY WaitingRow
<1> QED  BY <1>1, <1>2, <1>3, WaitingRow, WorkerRowStep

\* Recording and cleaning up touch no pending event.
LEMMA RowsInv ==
    ASSUME WorkerInv, NEW e \in Events, Record(e) \/ Cleanup(e)
    PROVE  WorkerInv'
<1>1. worker' = worker /\ attempts' = attempts /\ effects' = effects /\ status[e] # "pending"
  BY DEF Record, Cleanup
<1>2. WorkerTypes /\ Locked /\ OnceEach /\ \A w \in Workers : ListsOfPc(worker[w])
  BY DEF WorkerInv
<1>3. /\ status' \in [Events -> {"none", "pending", "published", "deleted"}]
      /\ \A x \in Events \ {e} : status'[x] = status[x]
      /\ status'[e] \in {"published", "deleted"} <=> status[e] \in {"published", "deleted"}
  BY <1>2 DEF Record, Cleanup, WorkerTypes
<1>4. WorkerTypes'  BY <1>1, <1>2, <1>3 DEF WorkerTypes
<1>5. (\A w \in Workers : ListsOfPc(worker[w]))'  BY <1>1, <1>2 DEF ListsOfPc
<1>6. OnceEach'  BY <1>1, <1>2, <1>3 DEF OnceEach
<1>7. Locked'
  <2>1. \A w \in Workers : Event(w)' = Event(w)  BY <1>1 DEF Event
  <2>2. ASSUME NEW w \in Workers, worker[w].pc = "commit" PROVE status'[Event(w)] = "pending"
    <3>1. worker[w].events \in Seq(Events) /\ Len(worker[w].events) > 0
      BY <1>2, <2>2 DEF WorkerTypes, WorkerRow, ListsOfPc
    <3>2. Event(w) \in Events  BY <3>1 DEF Event
    <3>3. status[Event(w)] = "pending"  BY <1>2, <2>2 DEF Locked
    <3> QED  BY <1>1, <1>3, <3>2, <3>3
  <2> QED  BY <1>1, <1>2, <2>1, <2>2 DEF Locked
<1> QED  BY <1>4, <1>5, <1>6, <1>7 DEF WorkerInv

LEMMA WorkerNextInv == WorkerInv /\ [WorkerNext]_workerVars => WorkerInv'
<1> SUFFICES ASSUME WorkerInv, [WorkerNext]_workerVars PROVE WorkerInv'  OBVIOUS
<1>1. CASE \E w \in Workers : WorkerStep(w) \/ Crash(w)
  <2> PICK w \in Workers : WorkerStep(w) \/ Crash(w)  BY <1>1
  <2> QED  BY BatchInv, SelectInv, LockInv, CommitInv, MarkInv, CrashInv DEF WorkerStep
<1>2. CASE \E e \in Events : Record(e) \/ Cleanup(e)
  BY <1>2, RowsInv
<1>3. CASE UNCHANGED workerVars
  BY <1>3 DEF workerVars, WorkerInv, WorkerTypes, Locked, OnceEach, ListsOfPc, Event
<1> QED  BY <1>1, <1>2, <1>3 DEF WorkerNext

LEMMA WorkerInvEffects == WorkerInv => EffectsOnce
<1> SUFFICES ASSUME WorkerInv PROVE EffectsOnce  OBVIOUS
<1>1. ASSUME NEW w \in Workers, worker[w].pc = "commit" PROVE AccountOf[Event(w)] = AccountID(w)
  <2>1. /\ worker[w].events \in Seq(Events) /\ Len(worker[w].events) > 0
        /\ \A i \in 1..Len(worker[w].events) :
              AccountOf[worker[w].events[i]] = Head(worker[w].accounts)
    BY <1>1 DEF WorkerInv, WorkerTypes, WorkerRow, ListsOfPc
  <2>2. Event(w) = worker[w].events[1] /\ 1 \in 1..Len(worker[w].events)  BY <2>1 DEF Event
  <2> QED  BY <2>1, <2>2 DEF AccountID
<1> QED  BY <1>1 DEF EffectsOnce, WorkerInv, Locked, OnceEach

\* Whatever workers run and die, the consumers of an event commit exactly once,
\* with its publication, in a transaction that found the event pending and of
\* the account the worker is at, and no two workers are in one event's transaction.
THEOREM OutboxEffectsOnce == WorkerSpec => []EffectsOnce
<1>1. WorkerSpec => []WorkerInv  BY WorkerInitInv, WorkerNextInv, PTL DEF WorkerSpec
<1> QED  BY <1>1, WorkerInvEffects, PTL
=============================================================================
