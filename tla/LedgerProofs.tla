---------------------------- MODULE LedgerProofs ----------------------------
(***************************************************************************)
(* The ledger's invariants for every set of accounts, requests and keys    *)
(* and every amount.  The sums of the reconciliation query are followed    *)
(* through each transaction with TotalUpdate: a transaction writes one row *)
(* of each table.                                                          *)
(***************************************************************************)
EXTENDS Ledger, FiniteSetTheorems, TLAPS

\* A settlement belongs to a reservation that was settled.
SettlementsRefer ==
    \A k \in Keys : settlements[k] # NoRow =>
        /\ reservations[settlements[k].reservation] # NoRow
        /\ reservations[settlements[k].reservation].status = "settled"

\* A release entry belongs to a reservation that was released.
ReleasesRefer ==
    \A e \in EntryKeys : entries[e] # NoRow /\ entries[e].type = "reserve_release" =>
        /\ entries[e].ref \in Keys /\ reservations[entries[e].ref] # NoRow
        /\ reservations[entries[e].ref].status = "released"

\* A reservation that has ended is not written again.
ReservationsKept ==
    \A r \in Keys : reservations[r] # NoRow =>
        \/ reservations[r].status = "open" /\ reservations'[r] # NoRow
           /\ reservations'[r].account = reservations[r].account
        \/ reservations'[r] = reservations[r]

CoreInv == TypeOK /\ SnapshotMatchesLedger /\ SettlementsRefer /\ FundsConserved

LInv == CoreInv /\ ReleasesRefer

-----------------------------------------------------------------------------
\* A row with amount n holds n units.
LEMMA UnitsOfRow ==
    ASSUME NEW f, NEW x, f[x] \in Nat
    PROVE  IsFiniteSet(UnitsOf(f, x)) /\ Cardinality(UnitsOf(f, x)) = f[x]
<1> DEFINE n == f[x]
<1>1. IsFiniteSet({x}) /\ Cardinality({x}) = 1  BY FS_Singleton
<1>2. IsFiniteSet(1..n) /\ Cardinality(1..n) = n  BY FS_Interval
<1>3. /\ IsFiniteSet({x} \X (1..n))
      /\ Cardinality({x} \X (1..n)) = Cardinality({x}) * Cardinality(1..n)
  BY <1>1, <1>2, FS_Product
<1>4. 1 * n = n  OBVIOUS
<1> QED  BY <1>1, <1>2, <1>3, <1>4 DEF UnitsOf

\* A sum over finitely many amounts is a number.
LEMMA TotalFinite ==
    ASSUME NEW S, IsFiniteSet(S), NEW f \in [S -> Nat]
    PROVE  IsFiniteSet(Units(f)) /\ Total(f) \in Nat
<1> DEFINE G == {UnitsOf(f, x) : x \in S}
<1>1. DOMAIN f = S  OBVIOUS
<1>2. \A T \in G : IsFiniteSet(T)  BY UnitsOfRow
<1>3. IsFiniteSet(G)
  <2> DEFINE g == [x \in S |-> UnitsOf(f, x)]
  <2>1. g \in Surjection(S, G)  BY DEF Surjection
  <2> QED  BY <2>1, FS_Surjection
<1>4. IsFiniteSet(UNION G)  BY <1>2, <1>3, FS_UNION
<1>5. Units(f) = UNION G  BY <1>1 DEF Units
<1> QED  BY <1>4, <1>5, FS_CardinalityType DEF Total

\* A sum of zeros is zero.
LEMMA TotalZero ==
    ASSUME NEW S, NEW f \in [S -> Nat], \A x \in S : f[x] = 0
    PROVE  Total(f) = 0
<1>1. Units(f) = {}
  <2> SUFFICES ASSUME NEW x \in S PROVE UnitsOf(f, x) = {}
    BY DEF Units
  <2>1. 1..f[x] = {}  OBVIOUS
  <2> QED  BY <2>1 DEF UnitsOf
<1> QED  BY <1>1, FS_EmptySet DEF Total

\* The units of one row and those of the others make up the whole.
LEMMA TotalSplit ==
    ASSUME NEW S, IsFiniteSet(S), NEW f \in [S -> Nat], NEW k \in S
    PROVE  LET rest == UNION {UnitsOf(f, x) : x \in S \ {k}} IN
           /\ IsFiniteSet(rest)
           /\ Cardinality(rest) \in Nat
           /\ Total(f) = Cardinality(rest) + f[k]
<1> DEFINE rest == UNION {UnitsOf(f, x) : x \in S \ {k}}
<1>1. DOMAIN f = S  OBVIOUS
<1>2. Units(f) = rest \cup UnitsOf(f, k)  BY <1>1 DEF Units
<1>3. IsFiniteSet(Units(f))  BY TotalFinite
<1>4. IsFiniteSet(rest)  BY <1>2, <1>3, FS_Subset
<1>5. rest \cap UnitsOf(f, k) = {}  BY DEF UnitsOf
<1>6. IsFiniteSet(UnitsOf(f, k)) /\ Cardinality(UnitsOf(f, k)) = f[k]  BY UnitsOfRow
<1>7. Cardinality(rest \cup UnitsOf(f, k))
        = Cardinality(rest) + Cardinality(UnitsOf(f, k)) - Cardinality(rest \cap UnitsOf(f, k))
  BY <1>4, <1>6, FS_Union
<1>8. Cardinality(rest \cap UnitsOf(f, k)) = 0  BY <1>5, FS_EmptySet
<1>9. Cardinality(rest) \in Nat  BY <1>4, FS_CardinalityType
<1> QED  BY <1>2, <1>4, <1>6, <1>7, <1>8, <1>9 DEF Total

\* Writing one row changes a SUM by the difference between its new and its
\* old amount, and no row holds more than the sum.
LEMMA TotalUpdate ==
    ASSUME NEW S, IsFiniteSet(S), NEW f \in [S -> Nat], NEW g \in [S -> Nat],
           NEW k \in S, \A x \in S \ {k} : g[x] = f[x]
    PROVE  /\ Total(f) \in Nat /\ Total(g) \in Nat
           /\ f[k] <= Total(f)
           /\ Total(g) = Total(f) - f[k] + g[k]
<1> DEFINE restf == UNION {UnitsOf(f, x) : x \in S \ {k}}
           restg == UNION {UnitsOf(g, x) : x \in S \ {k}}
<1>1. Cardinality(restf) \in Nat /\ Total(f) = Cardinality(restf) + f[k]  BY TotalSplit
<1>2. Cardinality(restg) \in Nat /\ Total(g) = Cardinality(restg) + g[k]  BY TotalSplit
<1>3. restf = restg  BY DEF UnitsOf
<1>4. f[k] \in Nat /\ g[k] \in Nat  OBVIOUS
<1> HIDE DEF restf, restg
<1> QED  BY <1>1, <1>2, <1>3, <1>4

-----------------------------------------------------------------------------
\* Rows of the tables as the transactions build them.
SnapshotRow(v, s, c, f, g) ==
    [available |-> v, reserved |-> s, consumed |-> c, refunded |-> f, granted |-> g]
EntryRow(a, type, refType, ref, n) ==
    [account |-> a, type |-> type, refType |-> refType, ref |-> ref, amount |-> n]
ReservationRow(a, q, n, status) ==
    [account |-> a, request |-> q, amount |-> n, status |-> status]
EventRow(a, type, table, id) == [account |-> a, type |-> type, table |-> table, id |-> id]
Granted(a) == Total(EntryAmounts(a, {"grant_credit"}, ReferenceTypes))

LEMMA EntryKeysFinite == IsFiniteSet(EntryKeys)
<1>1. IsFiniteSet({"plain", "entry"})
  <2>1. IsFiniteSet({"plain"}) /\ IsFiniteSet({"entry"})  BY FS_Singleton
  <2>2. {"plain", "entry"} = {"plain"} \cup {"entry"}  OBVIOUS
  <2> QED  BY <2>1, <2>2, FS_Union
<1> QED  BY <1>1, LedgerAssumption, FS_Product DEF EntryKeys

\* The plain and the prefixed key of a caller's key are entry keys.
LEMMA KeysOfEntries ==
    ASSUME NEW k \in Keys PROVE Plain(k) \in EntryKeys /\ EntryOf(k) \in EntryKeys
BY DEF Plain, EntryOf, EntryKeys

\* Inserting a ledger entry adds its amount to the sums it belongs to.
LEMMA EntryInsert ==
    ASSUME TypeOK, NEW e \in EntryKeys, entries[e] = NoRow, NEW row \in Entry,
           entries' = [entries EXCEPT ![e] = row],
           NEW a \in Accounts, NEW T, NEW R
    PROVE  /\ Total(EntryAmounts(a, T, R)) \in Nat
           /\ Total(EntryAmounts(a, T, R)') =
                Total(EntryAmounts(a, T, R))
                  + (IF row.account = a /\ row.type \in T /\ row.refType \in R THEN row.amount ELSE 0)
<1> DEFINE f == EntryAmounts(a, T, R)
           g == EntryAmounts(a, T, R)'
<1>0. row # NoRow /\ row.amount \in Nat  BY NoRowAssumption DEF Entry
<1>1. f \in [EntryKeys -> Nat]
  <2> SUFFICES ASSUME NEW x \in EntryKeys, entries[x] # NoRow PROVE entries[x].amount \in Nat
    BY DEF EntryAmounts
  <2> QED  BY DEF TypeOK, Entry
<1>2. \A x \in EntryKeys \ {e} : g[x] = f[x]  BY DEF EntryAmounts, TypeOK
<1>3. f[e] = 0  BY DEF EntryAmounts
<1>4. g[e] = IF row.account = a /\ row.type \in T /\ row.refType \in R THEN row.amount ELSE 0
  BY <1>0 DEF EntryAmounts, TypeOK
<1>5. g = [x \in EntryKeys |-> g[x]]  BY DEF EntryAmounts
<1>6. \A x \in EntryKeys : g[x] \in Nat
  BY <1>0, <1>1, <1>2, <1>4
<1>7. g \in [EntryKeys -> Nat]  BY <1>5, <1>6
<1> HIDE DEF f, g
<1>8. /\ Total(f) \in Nat
      /\ Total(g) = Total(f) - f[e] + g[e]
  BY <1>1, <1>2, <1>7, EntryKeysFinite, TotalUpdate
<1>9. Total(g) = Total(f) + g[e]  BY <1>3, <1>6, <1>8
<1> QED  BY <1>4, <1>8, <1>9 DEF f, g

\* The five sums over the entries, when one entry is inserted.
LEMMA EntrySums ==
    ASSUME TypeOK, NEW e \in EntryKeys, entries[e] = NoRow, NEW row \in Entry,
           entries' = [entries EXCEPT ![e] = row], NEW a \in Accounts
    PROVE  LET n(T, R) == IF row.account = a /\ row.type \in T /\ row.refType \in R THEN row.amount ELSE 0 IN
           /\ Credited(a) \in Nat /\ Debited(a) \in Nat /\ DirectConsumed(a) \in Nat
           /\ DirectRefunded(a) \in Nat /\ Granted(a) \in Nat
           /\ Credited(a)' = Credited(a) + n({"grant_credit", "reserve_release", "settle_credit"}, ReferenceTypes)
           /\ Debited(a)' = Debited(a) + n({"reserve_hold", "settle_debit"}, ReferenceTypes)
           /\ DirectConsumed(a)' = DirectConsumed(a) + n({"settle_debit"}, NotSettlement)
           /\ DirectRefunded(a)' = DirectRefunded(a) + n({"settle_credit"}, NotSettlement)
           /\ Granted(a)' = Granted(a) + n({"grant_credit"}, ReferenceTypes)
<1>1. \A T, R :
        /\ Total(EntryAmounts(a, T, R)) \in Nat
        /\ Total(EntryAmounts(a, T, R)') =
             Total(EntryAmounts(a, T, R))
               + (IF row.account = a /\ row.type \in T /\ row.refType \in R THEN row.amount ELSE 0)
  BY EntryInsert
<1>2. /\ Credited(a) \in Nat
      /\ Credited(a)' = Credited(a)
           + (IF row.account = a /\ row.type \in {"grant_credit", "reserve_release", "settle_credit"}
                    /\ row.refType \in ReferenceTypes THEN row.amount ELSE 0)
  BY <1>1 DEF Credited
<1>3. /\ Debited(a) \in Nat
      /\ Debited(a)' = Debited(a)
           + (IF row.account = a /\ row.type \in {"reserve_hold", "settle_debit"}
                    /\ row.refType \in ReferenceTypes THEN row.amount ELSE 0)
  BY <1>1 DEF Debited
<1>4. /\ DirectConsumed(a) \in Nat
      /\ DirectConsumed(a)' = DirectConsumed(a)
           + (IF row.account = a /\ row.type \in {"settle_debit"}
                    /\ row.refType \in NotSettlement THEN row.amount ELSE 0)
  BY <1>1 DEF DirectConsumed
<1>5. /\ DirectRefunded(a) \in Nat
      /\ DirectRefunded(a)' = DirectRefunded(a)
           + (IF row.account = a /\ row.type \in {"settle_credit"}
                    /\ row.refType \in NotSettlement THEN row.amount ELSE 0)
  BY <1>1 DEF DirectRefunded
<1>6. /\ Granted(a) \in Nat
      /\ Granted(a)' = Granted(a)
           + (IF row.account = a /\ row.type \in {"grant_credit"}
                    /\ row.refType \in ReferenceTypes THEN row.amount ELSE 0)
  BY <1>1 DEF Granted
<1> QED  BY <1>2, <1>3, <1>4, <1>5, <1>6

\* The sums over the entries are numbers.
LEMMA EntrySumsType ==
    ASSUME TypeOK, NEW a \in Accounts
    PROVE  /\ Credited(a) \in Nat /\ Debited(a) \in Nat /\ DirectConsumed(a) \in Nat
           /\ DirectRefunded(a) \in Nat /\ Granted(a) \in Nat
<1>1. \A T, R : Total(EntryAmounts(a, T, R)) \in Nat
  <2> SUFFICES ASSUME NEW T, NEW R PROVE Total(EntryAmounts(a, T, R)) \in Nat
    OBVIOUS
  <2>1. \A x \in EntryKeys : entries[x] # NoRow => entries[x].amount \in Nat  BY DEF TypeOK, Entry
  <2>2. EntryAmounts(a, T, R) \in [EntryKeys -> Nat]  BY <2>1 DEF EntryAmounts
  <2> QED  BY <2>2, EntryKeysFinite, TotalFinite
<1> QED  BY <1>1 DEF Credited, Debited, DirectConsumed, DirectRefunded, Granted

\* Writing one reservation changes the sum of open holds by what the row held.
LEMMA OpenUpdate ==
    ASSUME TypeOK, NEW r \in Keys, NEW row \in Reservation,
           reservations' = [reservations EXCEPT ![r] = row], NEW a \in Accounts
    PROVE  LET old == IF IsOpen(r) /\ reservations[r].account = a THEN reservations[r].amount ELSE 0
               new == IF row.status = "open" /\ row.account = a THEN row.amount ELSE 0
           IN  /\ Total(OpenAmounts(a)) \in Nat
               /\ old <= Total(OpenAmounts(a))
               /\ Total(OpenAmounts(a)') = Total(OpenAmounts(a)) - old + new
<1> DEFINE f == OpenAmounts(a)
           g == OpenAmounts(a)'
           old == IF IsOpen(r) /\ reservations[r].account = a THEN reservations[r].amount ELSE 0
           new == IF row.status = "open" /\ row.account = a THEN row.amount ELSE 0
<1>0. row # NoRow /\ row.amount \in Nat  BY NoRowAssumption DEF Reservation
<1>1. f \in [Keys -> Nat]
  <2> SUFFICES ASSUME NEW x \in Keys, reservations[x] # NoRow PROVE reservations[x].amount \in Nat
    BY DEF OpenAmounts, IsOpen
  <2> QED  BY DEF TypeOK, Reservation
<1>2. \A x \in Keys \ {r} : g[x] = f[x]  BY DEF OpenAmounts, IsOpen, TypeOK
<1>3. f[r] = old  BY DEF OpenAmounts
<1>4. g[r] = new  BY <1>0 DEF OpenAmounts, IsOpen, TypeOK
<1>5. g = [x \in Keys |-> g[x]]  BY DEF OpenAmounts
<1>6. \A x \in Keys : g[x] \in Nat  BY <1>0, <1>1, <1>2, <1>4
<1>7. g \in [Keys -> Nat]  BY <1>5, <1>6
<1> HIDE DEF f, g
<1>8. /\ Total(f) \in Nat /\ f[r] <= Total(f)
      /\ Total(g) = Total(f) - f[r] + g[r]
  BY <1>1, <1>2, <1>7, LedgerAssumption, TotalUpdate
<1> QED  BY <1>3, <1>4, <1>8 DEF f, g

\* Reservations keep their account, so sums over older settlements stay.
LEMMA SettledSame ==
    ASSUME TypeOK, SettlementsRefer, NEW a \in Accounts,
           \A r \in Keys : reservations[r] # NoRow =>
               reservations'[r] # NoRow /\ reservations'[r].account = reservations[r].account,
           NEW k \in Keys, settlements'[k] = settlements[k]
    PROVE  /\ ActualAmounts(a)'[k] = ActualAmounts(a)[k]
           /\ ReturnedAmounts(a)'[k] = ReturnedAmounts(a)[k]
<1>1. settlements[k] # NoRow =>
         /\ settlements[k].reservation \in Keys
         /\ reservations'[settlements[k].reservation].account = reservations[settlements[k].reservation].account
  BY DEF SettlementsRefer, TypeOK, Settlement
<1>2. SettledOn(k, a)' <=> SettledOn(k, a)  BY <1>1 DEF SettledOn
<1> QED  BY <1>2 DEF ActualAmounts, ReturnedAmounts

\* The columns the settlement sums add up are amounts.
LEMMA SettledTypes ==
    ASSUME TypeOK, NEW a \in Accounts
    PROVE  ActualAmounts(a) \in [Keys -> Nat] /\ ReturnedAmounts(a) \in [Keys -> Nat]
<1> SUFFICES ASSUME NEW k \in Keys, settlements[k] # NoRow
             PROVE  /\ settlements[k].actual \in Nat
                    /\ settlements[k].delta < 0 => -settlements[k].delta \in Nat
  BY DEF ActualAmounts, ReturnedAmounts, SettledOn
<1>1. settlements[k] \in Settlement  BY DEF TypeOK
<1>2. settlements[k].actual \in Nat /\ settlements[k].delta \in Int  BY <1>1 DEF Settlement
<1> QED  BY <1>2

\* A transaction that writes no settlement leaves their sums alone.
LEMMA SettlementsSame ==
    ASSUME TypeOK, SettlementsRefer, NEW a \in Accounts,
           \A r \in Keys : reservations[r] # NoRow =>
               reservations'[r] # NoRow /\ reservations'[r].account = reservations[r].account,
           UNCHANGED settlements
    PROVE  /\ Total(ActualAmounts(a)') = Total(ActualAmounts(a))
           /\ Total(ReturnedAmounts(a)') = Total(ReturnedAmounts(a))
<1>1. \A k \in Keys : /\ ActualAmounts(a)'[k] = ActualAmounts(a)[k]
                      /\ ReturnedAmounts(a)'[k] = ReturnedAmounts(a)[k]
  BY SettledSame
<1>2. ActualAmounts(a)' = ActualAmounts(a)  BY <1>1 DEF ActualAmounts
<1>3. ReturnedAmounts(a)' = ReturnedAmounts(a)  BY <1>1 DEF ReturnedAmounts
<1> QED  BY <1>2, <1>3

\* A settlement adds its actual amount, and what it returns, to the sums.
LEMMA SettlementInsert ==
    ASSUME TypeOK, SettlementsRefer, NEW a \in Accounts,
           \A r \in Keys : reservations[r] # NoRow =>
               reservations'[r] # NoRow /\ reservations'[r].account = reservations[r].account,
           NEW k \in Keys, settlements[k] = NoRow, NEW row \in Settlement,
           settlements' = [settlements EXCEPT ![k] = row]
    PROVE  LET here == reservations'[row.reservation].account = a IN
           /\ Total(ActualAmounts(a)') = Total(ActualAmounts(a)) + (IF here THEN row.actual ELSE 0)
           /\ Total(ReturnedAmounts(a)') =
                Total(ReturnedAmounts(a)) + (IF here /\ row.delta < 0 THEN -row.delta ELSE 0)
<1> DEFINE here == reservations'[row.reservation].account = a
           f == ActualAmounts(a)
           g == ActualAmounts(a)'
           p == ReturnedAmounts(a)
           q == ReturnedAmounts(a)'
<1>0. row # NoRow /\ row.actual \in Nat /\ row.delta \in Int  BY NoRowAssumption DEF Settlement
<1>1. f \in [Keys -> Nat] /\ p \in [Keys -> Nat]  BY SettledTypes
<1>2. \A x \in Keys \ {k} : settlements'[x] = settlements[x]  BY DEF TypeOK
<1>3. \A x \in Keys \ {k} : g[x] = f[x] /\ q[x] = p[x]  BY <1>2, SettledSame
<1>4. f[k] = 0 /\ p[k] = 0  BY DEF ActualAmounts, ReturnedAmounts, SettledOn
<1>5. SettledOn(k, a)' <=> here  BY <1>0 DEF SettledOn, TypeOK
<1>6. g[k] = (IF here THEN row.actual ELSE 0)
  BY <1>5 DEF ActualAmounts, TypeOK
<1>7. q[k] = (IF here /\ row.delta < 0 THEN -row.delta ELSE 0)
  BY <1>5 DEF ReturnedAmounts, TypeOK
<1>8. g[k] \in Nat /\ q[k] \in Nat  BY <1>0, <1>6, <1>7
<1>9. g = [x \in Keys |-> g[x]] /\ q = [x \in Keys |-> q[x]]
  BY DEF ActualAmounts, ReturnedAmounts
<1> HIDE DEF f, g, p, q, here
<1>10. g \in [Keys -> Nat] /\ q \in [Keys -> Nat]  BY <1>1, <1>3, <1>8, <1>9
<1>11. Total(f) \in Nat /\ Total(g) = Total(f) - f[k] + g[k]
  BY <1>1, <1>3, <1>10, LedgerAssumption, TotalUpdate
<1>12. Total(p) \in Nat /\ Total(q) = Total(p) - p[k] + q[k]
  BY <1>1, <1>3, <1>10, LedgerAssumption, TotalUpdate
<1>13. Total(g) = Total(f) + g[k] /\ Total(q) = Total(p) + q[k]
  BY <1>4, <1>8, <1>11, <1>12
<1> QED  BY <1>6, <1>7, <1>13 DEF f, g, p, q, here

\* Every sum of the reconciliation query is a number.
LEMMA SumsType ==
    ASSUME TypeOK, NEW a \in Accounts
    PROVE  /\ Credited(a) \in Nat /\ Debited(a) \in Nat /\ DirectConsumed(a) \in Nat
           /\ DirectRefunded(a) \in Nat /\ Granted(a) \in Nat
           /\ Total(OpenAmounts(a)) \in Nat
           /\ Total(ActualAmounts(a)) \in Nat /\ Total(ReturnedAmounts(a)) \in Nat
<1>1. OpenAmounts(a) \in [Keys -> Nat]
  <2> SUFFICES ASSUME NEW x \in Keys, reservations[x] # NoRow PROVE reservations[x].amount \in Nat
    BY DEF OpenAmounts, IsOpen
  <2> QED  BY DEF TypeOK, Reservation
<1>2. Total(OpenAmounts(a)) \in Nat  BY <1>1, LedgerAssumption, TotalFinite
<1>3. Total(ActualAmounts(a)) \in Nat /\ Total(ReturnedAmounts(a)) \in Nat
  BY SettledTypes, LedgerAssumption, TotalFinite
<1> QED  BY <1>2, <1>3, EntrySumsType

\* What a snapshot's columns are when it matches the ledger.
LEMMA MatchFields ==
    ASSUME SnapshotMatchesLedger, NEW a \in Accounts
    PROVE  /\ snapshots[a].available = Credited(a) - Debited(a)
           /\ snapshots[a].reserved = Total(OpenAmounts(a))
           /\ snapshots[a].consumed = Total(ActualAmounts(a)) + DirectConsumed(a)
           /\ snapshots[a].refunded = Total(ReturnedAmounts(a)) + DirectRefunded(a)
           /\ snapshots[a].granted = Granted(a)
<1>1. snapshots[a] = ExpectedSnapshot(a)  BY DEF SnapshotMatchesLedger
<1> QED  BY <1>1 DEF ExpectedSnapshot, Granted

(***************************************************************************)
(* A transaction keeps the snapshots in step with the ledger when every    *)
(* column moves by what the transaction adds to the sum behind it.         *)
(***************************************************************************)
LEMMA MatchStep ==
    ASSUME TypeOK, SnapshotMatchesLedger, snapshots' \in [Accounts -> Snapshot],
           \A b \in Accounts :
               /\ snapshots'[b].available - snapshots[b].available
                    = (Credited(b)' - Debited(b)') - (Credited(b) - Debited(b))
               /\ snapshots'[b].reserved - snapshots[b].reserved
                    = Total(OpenAmounts(b)') - Total(OpenAmounts(b))
               /\ snapshots'[b].consumed - snapshots[b].consumed
                    = (Total(ActualAmounts(b)') + DirectConsumed(b)')
                        - (Total(ActualAmounts(b)) + DirectConsumed(b))
               /\ snapshots'[b].refunded - snapshots[b].refunded
                    = (Total(ReturnedAmounts(b)') + DirectRefunded(b)')
                        - (Total(ReturnedAmounts(b)) + DirectRefunded(b))
               /\ snapshots'[b].granted - snapshots[b].granted = Granted(b)' - Granted(b)
               /\ Credited(b)' \in Nat /\ Debited(b)' \in Nat /\ DirectConsumed(b)' \in Nat
               /\ DirectRefunded(b)' \in Nat /\ Granted(b)' \in Nat /\ Total(OpenAmounts(b)') \in Nat
               /\ Total(ActualAmounts(b)') \in Nat /\ Total(ReturnedAmounts(b)') \in Nat
    PROVE  SnapshotMatchesLedger'
<1> SUFFICES ASSUME NEW b \in Accounts PROVE snapshots'[b] = ExpectedSnapshot(b)'
  BY DEF SnapshotMatchesLedger
<1>1. ExpectedSnapshot(b)' =
        SnapshotRow(Credited(b)' - Debited(b)', Total(OpenAmounts(b)'),
                    Total(ActualAmounts(b)') + DirectConsumed(b)',
                    Total(ReturnedAmounts(b)') + DirectRefunded(b)', Granted(b)')
  BY DEF ExpectedSnapshot, SnapshotRow, Granted
<1>2. /\ snapshots[b].available = Credited(b) - Debited(b)
      /\ snapshots[b].reserved = Total(OpenAmounts(b))
      /\ snapshots[b].consumed = Total(ActualAmounts(b)) + DirectConsumed(b)
      /\ snapshots[b].refunded = Total(ReturnedAmounts(b)) + DirectRefunded(b)
      /\ snapshots[b].granted = Granted(b)
  BY MatchFields
<1>3. /\ Credited(b) \in Nat /\ Debited(b) \in Nat /\ DirectConsumed(b) \in Nat
      /\ DirectRefunded(b) \in Nat /\ Granted(b) \in Nat
      /\ Total(OpenAmounts(b)) \in Nat
      /\ Total(ActualAmounts(b)) \in Nat /\ Total(ReturnedAmounts(b)) \in Nat
  BY SumsType
<1>4. /\ snapshots'[b] = SnapshotRow(snapshots'[b].available, snapshots'[b].reserved,
             snapshots'[b].consumed, snapshots'[b].refunded, snapshots'[b].granted)
      /\ snapshots'[b].available \in Nat /\ snapshots'[b].reserved \in Nat
      /\ snapshots'[b].consumed \in Nat /\ snapshots'[b].refunded \in Nat
      /\ snapshots'[b].granted \in Nat
  <2>1. snapshots'[b] \in Snapshot  OBVIOUS
  <2> QED  BY <2>1 DEF Snapshot, SnapshotRow
<1>5. /\ snapshots'[b].available = Credited(b)' - Debited(b)'
      /\ snapshots'[b].reserved = Total(OpenAmounts(b)')
      /\ snapshots'[b].consumed = Total(ActualAmounts(b)') + DirectConsumed(b)'
      /\ snapshots'[b].refunded = Total(ReturnedAmounts(b)') + DirectRefunded(b)'
      /\ snapshots'[b].granted = Granted(b)'
  <2>1. /\ snapshots'[b].available - snapshots[b].available
             = (Credited(b)' - Debited(b)') - (Credited(b) - Debited(b))
        /\ snapshots'[b].reserved - snapshots[b].reserved
             = Total(OpenAmounts(b)') - Total(OpenAmounts(b))
        /\ snapshots'[b].granted - snapshots[b].granted = Granted(b)' - Granted(b)
        /\ Credited(b)' \in Nat /\ Debited(b)' \in Nat
        /\ Granted(b)' \in Nat /\ Total(OpenAmounts(b)') \in Nat
    OBVIOUS
  <2>4. snapshots'[b].available = Credited(b)' - Debited(b)'
    <3> DEFINE x == snapshots'[b].available
               y == snapshots[b].available
               u == Credited(b)' - Debited(b)'
               v == Credited(b) - Debited(b)
    <3>1. x \in Int /\ y \in Int /\ u \in Int /\ v \in Int  BY <1>2, <1>3, <1>4, <2>1
    <3>2. x - y = u - v  BY <2>1
    <3>3. y = v  BY <1>2
    <3> HIDE DEF x, y, u, v
    <3>4. x = u  BY <3>1, <3>2, <3>3
    <3> QED  BY <3>4 DEF x, u
  <2>5. snapshots'[b].reserved = Total(OpenAmounts(b)')
    <3> DEFINE x == snapshots'[b].reserved
               y == snapshots[b].reserved
               u == Total(OpenAmounts(b)')
               v == Total(OpenAmounts(b))
    <3>1. x \in Int /\ y \in Int /\ u \in Int /\ v \in Int  BY <1>2, <1>3, <1>4, <2>1
    <3>2. x - y = u - v  BY <2>1
    <3>3. y = v  BY <1>2
    <3> HIDE DEF x, y, u, v
    <3>4. x = u  BY <3>1, <3>2, <3>3
    <3> QED  BY <3>4 DEF x, u
  <2>6. snapshots'[b].granted = Granted(b)'
    <3> DEFINE x == snapshots'[b].granted
               y == snapshots[b].granted
               u == Granted(b)'
               v == Granted(b)
    <3>1. x \in Int /\ y \in Int /\ u \in Int /\ v \in Int  BY <1>2, <1>3, <1>4, <2>1
    <3>2. x - y = u - v  BY <2>1
    <3>3. y = v  BY <1>2
    <3> HIDE DEF x, y, u, v
    <3>4. x = u  BY <3>1, <3>2, <3>3
    <3> QED  BY <3>4 DEF x, u
  <2>7. snapshots'[b].consumed = Total(ActualAmounts(b)') + DirectConsumed(b)'
    BY <1>2, <1>3, <1>4
  <2>8. snapshots'[b].refunded = Total(ReturnedAmounts(b)') + DirectRefunded(b)'
    BY <1>2, <1>3, <1>4
  <2> QED  BY <2>4, <2>5, <2>6, <2>7, <2>8
<1> QED  BY <1>1, <1>4, <1>5

-----------------------------------------------------------------------------
\* The five columns of a well-typed snapshot.
LEMMA SnapshotFields ==
    ASSUME TypeOK, NEW a \in Accounts
    PROVE  /\ snapshots[a].available \in Nat /\ snapshots[a].reserved \in Nat
           /\ snapshots[a].consumed \in Nat /\ snapshots[a].refunded \in Nat
           /\ snapshots[a].granted \in Nat
<1>1. snapshots[a] \in Snapshot  BY DEF TypeOK
<1> QED  BY <1>1 DEF Snapshot

\* Recording an event keeps the outbox well typed.
LEMMA OutboxType ==
    ASSUME TypeOK, NEW k \in Keys, NEW event \in Event, outbox' = [outbox EXCEPT ![k] = event]
    PROVE  outbox' \in [Keys -> Event \cup {NoRow}]
BY DEF TypeOK

\* Inserting an entry keeps the journal well typed.
LEMMA EntriesType ==
    ASSUME TypeOK, NEW e \in EntryKeys, NEW row \in Entry, entries' = [entries EXCEPT ![e] = row]
    PROVE  entries' \in [EntryKeys -> Entry \cup {NoRow}]
BY DEF TypeOK

(***************************************************************************)
(* A transaction that writes one entry and no settlement keeps the         *)
(* snapshots in step, if it moves the columns as the query reads the entry *)
(* and the reserved column as the open holds change.                       *)
(***************************************************************************)
LEMMA JournalStep ==
    ASSUME TypeOK, SnapshotMatchesLedger, SettlementsRefer, FundsConserved,
           NEW e \in EntryKeys, entries[e] = NoRow, NEW row \in Entry, row.refType # "settlement",
           entries' = [entries EXCEPT ![e] = row],
           \A r \in Keys : reservations[r] # NoRow =>
               reservations'[r] # NoRow /\ reservations'[r].account = reservations[r].account,
           UNCHANGED settlements,
           snapshots' \in [Accounts -> Snapshot],
           \A b \in Accounts :
               /\ Total(OpenAmounts(b)') \in Nat
               /\ snapshots'[b].reserved - snapshots[b].reserved
                    = Total(OpenAmounts(b)') - Total(OpenAmounts(b))
               /\ snapshots'[b].available = snapshots[b].available
                    + (IF row.account = b /\ row.type \in {"grant_credit", "reserve_release", "settle_credit"}
                       THEN row.amount ELSE 0)
                    - (IF row.account = b /\ row.type \in {"reserve_hold", "settle_debit"}
                       THEN row.amount ELSE 0)
               /\ snapshots'[b].reserved = snapshots[b].reserved
                    + (IF row.account = b /\ row.type = "reserve_hold" THEN row.amount ELSE 0)
                    - (IF row.account = b /\ row.type = "reserve_release" THEN row.amount ELSE 0)
               /\ snapshots'[b].consumed = snapshots[b].consumed
                    + (IF row.account = b /\ row.type = "settle_debit" /\ row.refType # "settlement"
                       THEN row.amount ELSE 0)
               /\ snapshots'[b].refunded = snapshots[b].refunded
                    + (IF row.account = b /\ row.type = "settle_credit" /\ row.refType # "settlement"
                       THEN row.amount ELSE 0)
               /\ snapshots'[b].granted = snapshots[b].granted
                    + (IF row.account = b /\ row.type = "grant_credit" THEN row.amount ELSE 0)
    PROVE  SnapshotMatchesLedger' /\ FundsConserved'
<1>0. /\ row.refType \in ReferenceTypes /\ row.amount \in Nat
      /\ row.refType \in NotSettlement <=> row.refType # "settlement"
  BY DEF Entry, NotSettlement
<1>1. \A b \in Accounts :
      /\ snapshots[b].available \in Nat /\ snapshots[b].reserved \in Nat /\ snapshots[b].consumed \in Nat
      /\ snapshots[b].refunded \in Nat /\ snapshots[b].granted \in Nat
  BY SnapshotFields
<1>2. \A b \in Accounts :
      /\ Credited(b) \in Nat /\ Debited(b) \in Nat /\ DirectConsumed(b) \in Nat
      /\ DirectRefunded(b) \in Nat /\ Granted(b) \in Nat
      /\ Total(ActualAmounts(b)) \in Nat /\ Total(ReturnedAmounts(b)) \in Nat
  BY SumsType
<1>3. \A b \in Accounts :
      /\ Total(ActualAmounts(b)') = Total(ActualAmounts(b))
      /\ Total(ReturnedAmounts(b)') = Total(ReturnedAmounts(b))
  BY SettlementsSame
<1>4. \A b \in Accounts :
      /\ Credited(b)' = Credited(b)
           + (IF row.account = b /\ row.type \in {"grant_credit", "reserve_release", "settle_credit"}
                    /\ row.refType \in ReferenceTypes THEN row.amount ELSE 0)
      /\ Debited(b)' = Debited(b)
           + (IF row.account = b /\ row.type \in {"reserve_hold", "settle_debit"}
                    /\ row.refType \in ReferenceTypes THEN row.amount ELSE 0)
      /\ DirectConsumed(b)' = DirectConsumed(b)
           + (IF row.account = b /\ row.type \in {"settle_debit"}
                    /\ row.refType \in NotSettlement THEN row.amount ELSE 0)
      /\ DirectRefunded(b)' = DirectRefunded(b)
           + (IF row.account = b /\ row.type \in {"settle_credit"}
                    /\ row.refType \in NotSettlement THEN row.amount ELSE 0)
      /\ Granted(b)' = Granted(b)
           + (IF row.account = b /\ row.type \in {"grant_credit"}
                    /\ row.refType \in ReferenceTypes THEN row.amount ELSE 0)
  BY EntrySums
<1>5. \A b \in Accounts :
      /\ snapshots'[b].available - snapshots[b].available
           = (Credited(b)' - Debited(b)') - (Credited(b) - Debited(b))
      /\ snapshots'[b].granted - snapshots[b].granted = Granted(b)' - Granted(b)
      /\ Credited(b)' \in Nat /\ Debited(b)' \in Nat /\ Granted(b)' \in Nat
  BY <1>0, <1>1, <1>2, <1>4
<1>6. \A b \in Accounts :
      /\ snapshots'[b].consumed - snapshots[b].consumed
           = (Total(ActualAmounts(b)') + DirectConsumed(b)')
               - (Total(ActualAmounts(b)) + DirectConsumed(b))
      /\ snapshots'[b].refunded - snapshots[b].refunded
           = (Total(ReturnedAmounts(b)') + DirectRefunded(b)')
               - (Total(ReturnedAmounts(b)) + DirectRefunded(b))
      /\ DirectConsumed(b)' \in Nat /\ DirectRefunded(b)' \in Nat
      /\ Total(ActualAmounts(b)') \in Nat /\ Total(ReturnedAmounts(b)') \in Nat
  BY <1>0, <1>1, <1>2, <1>3, <1>4
<1>7. SnapshotMatchesLedger'  BY <1>5, <1>6, MatchStep
<1>8. FundsConserved'
  <2> SUFFICES ASSUME NEW b \in Accounts
               PROVE  snapshots'[b].available + snapshots'[b].reserved + snapshots'[b].consumed
                        = snapshots'[b].granted + DirectRefunded(b)'
    BY DEF FundsConserved
  <2>1. snapshots[b].available + snapshots[b].reserved + snapshots[b].consumed
          = snapshots[b].granted + DirectRefunded(b)
    BY DEF FundsConserved
  <2>2. DirectRefunded(b)' = DirectRefunded(b)
          + (IF row.account = b /\ row.type = "settle_credit" /\ row.refType # "settlement"
             THEN row.amount ELSE 0)
    BY <1>0, <1>4
  <2> QED  BY <1>0, <1>1, <1>2, <2>1, <2>2
<1> QED  BY <1>7, <1>8

\* creditAccountTx, AdjustAvailableBalanceTx and recordAdjustmentTx.
LEMMA DirectInv ==
    ASSUME LInv, NEW a \in Accounts, NEW n \in Nat, NEW k \in Keys,
           CreditAccount(a, n, k) \/ ConsumeAvailable(a, n, k) \/ RefundAvailable(a, n, k)
             \/ RecordAdjustment(a, k)
    PROVE  CoreInv'
<1>0. TypeOK /\ SnapshotMatchesLedger /\ SettlementsRefer /\ FundsConserved  BY DEF LInv, CoreInv
<1> USE <1>0
<1>1. /\ UNCHANGED <<reservations, settlements>>
      /\ entries[Plain(k)] = NoRow /\ Plain(k) \in EntryKeys
  BY KeysOfEntries DEF CreditAccount, ConsumeAvailable, RefundAvailable, RecordAdjustment, CreateEntry
<1>2. SettlementsRefer'  BY <1>1 DEF SettlementsRefer
<1>3. \A b \in Accounts : Total(OpenAmounts(b)') = Total(OpenAmounts(b)) /\ Total(OpenAmounts(b)') \in Nat
  <2> SUFFICES ASSUME NEW b \in Accounts PROVE Total(OpenAmounts(b)') = Total(OpenAmounts(b))
    BY SumsType
  <2>1. OpenAmounts(b)' = OpenAmounts(b)  BY <1>1 DEF OpenAmounts, IsOpen
  <2> QED  BY <2>1
<1>4. \A r \in Keys : reservations[r] # NoRow =>
         reservations'[r] # NoRow /\ reservations'[r].account = reservations[r].account
  BY <1>1
<1>5. /\ snapshots[a].available \in Nat /\ snapshots[a].reserved \in Nat
      /\ snapshots[a].consumed \in Nat /\ snapshots[a].refunded \in Nat
      /\ snapshots[a].granted \in Nat
      /\ snapshots[a].available + n \in Nat /\ snapshots[a].granted + n \in Nat
      /\ snapshots[a].consumed + n \in Nat /\ snapshots[a].refunded + n \in Nat
  BY SnapshotFields
<1>6. \A type \in EntryTypes, m \in Nat : EntryRow(a, type, "other", NoRow, m) \in Entry
  BY DEF EntryRow, Entry, ReferenceTypes
<1>7. reservations' \in [Keys -> Reservation \cup {NoRow}] /\ settlements' \in [Keys -> Settlement \cup {NoRow}]
  BY <1>1 DEF TypeOK
<1>9. \A b \in Accounts :
      /\ snapshots[b].available \in Nat /\ snapshots[b].reserved \in Nat
      /\ snapshots[b].consumed \in Nat /\ snapshots[b].refunded \in Nat
      /\ snapshots[b].granted \in Nat
      /\ Total(OpenAmounts(b)) \in Nat
  BY SnapshotFields, SumsType
<1>10. CASE CreditAccount(a, n, k)
  <2> DEFINE row == EntryRow(a, "grant_credit", "other", NoRow, n)
  <2>1. entries' = [entries EXCEPT ![Plain(k)] = row]
    BY <1>10 DEF CreditAccount, CreateEntry, EntryRow
  <2>2. /\ row \in Entry /\ row.account = a /\ row.type = "grant_credit"
        /\ row.refType = "other" /\ row.amount = n
    BY <1>6 DEF EntryTypes, EntryRow
  <2>3. /\ snapshots' = [b \in Accounts |-> snapshots'[b]]
        /\ \A b \in Accounts \ {a} : snapshots'[b] = snapshots[b]
    BY <1>10 DEF CreditAccount, TypeOK
  <2>4. snapshots'[a] = SnapshotRow(snapshots[a].available + n, snapshots[a].reserved,
            snapshots[a].consumed, snapshots[a].refunded, snapshots[a].granted + n)
    BY <1>10 DEF CreditAccount, SnapshotRow, TypeOK, Snapshot
  <2>6. snapshots' \in [Accounts -> Snapshot]
    <3>1. snapshots'[a] \in Snapshot  BY <1>5, <2>4 DEF SnapshotRow, Snapshot
    <3> QED  BY <2>3, <3>1 DEF TypeOK
  <2> HIDE DEF row
  <2>7. SnapshotMatchesLedger' /\ FundsConserved'
    <3>1. \A b \in Accounts :
        /\ snapshots'[b].reserved = snapshots[b].reserved
        /\ snapshots'[b].available = (IF b = a THEN snapshots[a].available + n ELSE snapshots[b].available)
        /\ snapshots'[b].consumed = (IF b = a THEN snapshots[a].consumed ELSE snapshots[b].consumed)
        /\ snapshots'[b].refunded = (IF b = a THEN snapshots[a].refunded ELSE snapshots[b].refunded)
        /\ snapshots'[b].granted = (IF b = a THEN snapshots[a].granted + n ELSE snapshots[b].granted)
      BY <2>3, <2>4 DEF SnapshotRow
    <3>2. \A b \in Accounts :
        /\ snapshots'[b].reserved - snapshots[b].reserved
             = Total(OpenAmounts(b)') - Total(OpenAmounts(b))
        /\ snapshots'[b].available = snapshots[b].available
             + (IF row.account = b /\ row.type \in {"grant_credit", "reserve_release", "settle_credit"}
                THEN row.amount ELSE 0)
             - (IF row.account = b /\ row.type \in {"reserve_hold", "settle_debit"}
                THEN row.amount ELSE 0)
        /\ snapshots'[b].reserved = snapshots[b].reserved
             + (IF row.account = b /\ row.type = "reserve_hold" THEN row.amount ELSE 0)
             - (IF row.account = b /\ row.type = "reserve_release" THEN row.amount ELSE 0)
        /\ snapshots'[b].consumed = snapshots[b].consumed
             + (IF row.account = b /\ row.type = "settle_debit" /\ row.refType # "settlement"
                THEN row.amount ELSE 0)
        /\ snapshots'[b].refunded = snapshots[b].refunded
             + (IF row.account = b /\ row.type = "settle_credit" /\ row.refType # "settlement"
                THEN row.amount ELSE 0)
        /\ snapshots'[b].granted = snapshots[b].granted
             + (IF row.account = b /\ row.type = "grant_credit" THEN row.amount ELSE 0)
      BY <1>3, <1>9, <2>2, <3>1
    <3> QED  BY <1>1, <1>3, <1>4, <2>1, <2>2, <2>6, <3>2, JournalStep
  <2>8. entries' \in [EntryKeys -> Entry \cup {NoRow}]  BY <1>1, <2>1, <2>2, EntriesType
  <2>9. outbox' \in [Keys -> Event \cup {NoRow}]
    <3>1. outbox' = [outbox EXCEPT ![k] = EventRow(a, "billing.credit_granted", "ledger_entry", k)]
      BY <1>10 DEF CreditAccount, RecordOutboxEvent, EventRow
    <3>2. EventRow(a, "billing.credit_granted", "ledger_entry", k) \in Event  BY DEF EventRow, Event, EventTypes
    <3> QED  BY <3>1, <3>2, OutboxType
  <2> QED  BY <1>2, <1>7, <2>6, <2>7, <2>8, <2>9 DEF CoreInv, TypeOK
<1>11. CASE ConsumeAvailable(a, n, k)
  <2> DEFINE row == EntryRow(a, "settle_debit", "other", NoRow, n)
  <2>1. entries' = [entries EXCEPT ![Plain(k)] = row]
    BY <1>11 DEF ConsumeAvailable, CreateEntry, EntryRow
  <2>2. /\ row \in Entry /\ row.account = a /\ row.type = "settle_debit"
        /\ row.refType = "other" /\ row.amount = n
    BY <1>6 DEF EntryTypes, EntryRow
  <2>3. /\ snapshots' = [b \in Accounts |-> snapshots'[b]]
        /\ \A b \in Accounts \ {a} : snapshots'[b] = snapshots[b]
    BY <1>11 DEF ConsumeAvailable, TypeOK
  <2>4. snapshots'[a] = SnapshotRow(snapshots[a].available - n, snapshots[a].reserved,
            snapshots[a].consumed + n, snapshots[a].refunded, snapshots[a].granted)
    BY <1>11 DEF ConsumeAvailable, SnapshotRow, TypeOK, Snapshot
  <2>5. snapshots[a].available - n \in Nat  BY <1>5, <1>11 DEF ConsumeAvailable
  <2>6. snapshots' \in [Accounts -> Snapshot]
    <3>1. snapshots'[a] \in Snapshot  BY <1>5, <2>4, <2>5 DEF SnapshotRow, Snapshot
    <3> QED  BY <2>3, <3>1 DEF TypeOK
  <2> HIDE DEF row
  <2>7. SnapshotMatchesLedger' /\ FundsConserved'
    <3>1. \A b \in Accounts :
        /\ snapshots'[b].reserved = snapshots[b].reserved
        /\ snapshots'[b].available = (IF b = a THEN snapshots[a].available - n ELSE snapshots[b].available)
        /\ snapshots'[b].consumed = (IF b = a THEN snapshots[a].consumed + n ELSE snapshots[b].consumed)
        /\ snapshots'[b].refunded = (IF b = a THEN snapshots[a].refunded ELSE snapshots[b].refunded)
        /\ snapshots'[b].granted = (IF b = a THEN snapshots[a].granted ELSE snapshots[b].granted)
      BY <2>3, <2>4 DEF SnapshotRow
    <3>2. \A b \in Accounts :
        /\ snapshots'[b].reserved - snapshots[b].reserved
             = Total(OpenAmounts(b)') - Total(OpenAmounts(b))
        /\ snapshots'[b].available = snapshots[b].available
             + (IF row.account = b /\ row.type \in {"grant_credit", "reserve_release", "settle_credit"}
                THEN row.amount ELSE 0)
             - (IF row.account = b /\ row.type \in {"reserve_hold", "settle_debit"}
                THEN row.amount ELSE 0)
        /\ snapshots'[b].reserved = snapshots[b].reserved
             + (IF row.account = b /\ row.type = "reserve_hold" THEN row.amount ELSE 0)
             - (IF row.account = b /\ row.type = "reserve_release" THEN row.amount ELSE 0)
        /\ snapshots'[b].consumed = snapshots[b].consumed
             + (IF row.account = b /\ row.type = "settle_debit" /\ row.refType # "settlement"
                THEN row.amount ELSE 0)
        /\ snapshots'[b].refunded = snapshots[b].refunded
             + (IF row.account = b /\ row.type = "settle_credit" /\ row.refType # "settlement"
                THEN row.amount ELSE 0)
        /\ snapshots'[b].granted = snapshots[b].granted
             + (IF row.account = b /\ row.type = "grant_credit" THEN row.amount ELSE 0)
      BY <1>3, <1>9, <2>2, <3>1
    <3> QED  BY <1>1, <1>3, <1>4, <2>1, <2>2, <2>6, <3>2, JournalStep
  <2>8. entries' \in [EntryKeys -> Entry \cup {NoRow}]  BY <1>1, <2>1, <2>2, EntriesType
  <2>9. outbox' \in [Keys -> Event \cup {NoRow}]
    <3>1. outbox' = [outbox EXCEPT ![k] = EventRow(a, "billing.balance_adjusted", "ledger_entry", k)]
      BY <1>11 DEF ConsumeAvailable, RecordOutboxEvent, EventRow
    <3>2. EventRow(a, "billing.balance_adjusted", "ledger_entry", k) \in Event  BY DEF EventRow, Event, EventTypes
    <3> QED  BY <3>1, <3>2, OutboxType
  <2> QED  BY <1>2, <1>7, <2>6, <2>7, <2>8, <2>9 DEF CoreInv, TypeOK
<1>12. CASE RefundAvailable(a, n, k)
  <2> DEFINE row == EntryRow(a, "settle_credit", "other", NoRow, n)
  <2>1. entries' = [entries EXCEPT ![Plain(k)] = row]
    BY <1>12 DEF RefundAvailable, CreateEntry, EntryRow
  <2>2. /\ row \in Entry /\ row.account = a /\ row.type = "settle_credit"
        /\ row.refType = "other" /\ row.amount = n
    BY <1>6 DEF EntryTypes, EntryRow
  <2>3. /\ snapshots' = [b \in Accounts |-> snapshots'[b]]
        /\ \A b \in Accounts \ {a} : snapshots'[b] = snapshots[b]
    BY <1>12 DEF RefundAvailable, TypeOK
  <2>4. snapshots'[a] = SnapshotRow(snapshots[a].available + n, snapshots[a].reserved,
            snapshots[a].consumed, snapshots[a].refunded + n, snapshots[a].granted)
    BY <1>12 DEF RefundAvailable, SnapshotRow, TypeOK, Snapshot
  <2>6. snapshots' \in [Accounts -> Snapshot]
    <3>1. snapshots'[a] \in Snapshot  BY <1>5, <2>4 DEF SnapshotRow, Snapshot
    <3> QED  BY <2>3, <3>1 DEF TypeOK
  <2> HIDE DEF row
  <2>7. SnapshotMatchesLedger' /\ FundsConserved'
    <3>1. \A b \in Accounts :
        /\ snapshots'[b].reserved = snapshots[b].reserved
        /\ snapshots'[b].available = (IF b = a THEN snapshots[a].available + n ELSE snapshots[b].available)
        /\ snapshots'[b].consumed = (IF b = a THEN snapshots[a].consumed ELSE snapshots[b].consumed)
        /\ snapshots'[b].refunded = (IF b = a THEN snapshots[a].refunded + n ELSE snapshots[b].refunded)
        /\ snapshots'[b].granted = (IF b = a THEN snapshots[a].granted ELSE snapshots[b].granted)
      BY <2>3, <2>4 DEF SnapshotRow
    <3>2. \A b \in Accounts :
        /\ snapshots'[b].reserved - snapshots[b].reserved
             = Total(OpenAmounts(b)') - Total(OpenAmounts(b))
        /\ snapshots'[b].available = snapshots[b].available
             + (IF row.account = b /\ row.type \in {"grant_credit", "reserve_release", "settle_credit"}
                THEN row.amount ELSE 0)
             - (IF row.account = b /\ row.type \in {"reserve_hold", "settle_debit"}
                THEN row.amount ELSE 0)
        /\ snapshots'[b].reserved = snapshots[b].reserved
             + (IF row.account = b /\ row.type = "reserve_hold" THEN row.amount ELSE 0)
             - (IF row.account = b /\ row.type = "reserve_release" THEN row.amount ELSE 0)
        /\ snapshots'[b].consumed = snapshots[b].consumed
             + (IF row.account = b /\ row.type = "settle_debit" /\ row.refType # "settlement"
                THEN row.amount ELSE 0)
        /\ snapshots'[b].refunded = snapshots[b].refunded
             + (IF row.account = b /\ row.type = "settle_credit" /\ row.refType # "settlement"
                THEN row.amount ELSE 0)
        /\ snapshots'[b].granted = snapshots[b].granted
             + (IF row.account = b /\ row.type = "grant_credit" THEN row.amount ELSE 0)
      BY <1>3, <1>9, <2>2, <3>1
    <3> QED  BY <1>1, <1>3, <1>4, <2>1, <2>2, <2>6, <3>2, JournalStep
  <2>8. entries' \in [EntryKeys -> Entry \cup {NoRow}]  BY <1>1, <2>1, <2>2, EntriesType
  <2>9. outbox' \in [Keys -> Event \cup {NoRow}]
    <3>1. outbox' = [outbox EXCEPT ![k] = EventRow(a, "billing.balance_adjusted", "ledger_entry", k)]
      BY <1>12 DEF RefundAvailable, RecordOutboxEvent, EventRow
    <3>2. EventRow(a, "billing.balance_adjusted", "ledger_entry", k) \in Event  BY DEF EventRow, Event, EventTypes
    <3> QED  BY <3>1, <3>2, OutboxType
  <2> QED  BY <1>2, <1>7, <2>6, <2>7, <2>8, <2>9 DEF CoreInv, TypeOK
<1>13. CASE RecordAdjustment(a, k)
  <2> DEFINE row == EntryRow(a, "adjustment", "other", NoRow, 0)
  <2>1. entries' = [entries EXCEPT ![Plain(k)] = row]
    BY <1>13 DEF RecordAdjustment, CreateEntry, EntryRow
  <2>2. /\ row \in Entry /\ row.account = a /\ row.type = "adjustment"
        /\ row.refType = "other" /\ row.amount = 0
    BY <1>6 DEF EntryTypes, EntryRow
  <2>3. /\ snapshots' = [b \in Accounts |-> snapshots'[b]]
        /\ \A b \in Accounts \ {a} : snapshots'[b] = snapshots[b]
    BY <1>13 DEF RecordAdjustment, TypeOK
  <2>4. snapshots'[a] = SnapshotRow(snapshots[a].available, snapshots[a].reserved,
            snapshots[a].consumed, snapshots[a].refunded, snapshots[a].granted)
    BY <1>13 DEF RecordAdjustment, SnapshotRow, TypeOK, Snapshot
  <2>6. snapshots' \in [Accounts -> Snapshot]
    <3>1. snapshots'[a] \in Snapshot  BY <1>5, <2>4 DEF SnapshotRow, Snapshot
    <3> QED  BY <2>3, <3>1 DEF TypeOK
  <2> HIDE DEF row
  <2>7. SnapshotMatchesLedger' /\ FundsConserved'
    <3>1. \A b \in Accounts :
        /\ snapshots'[b].reserved = snapshots[b].reserved
        /\ snapshots'[b].available = (IF b = a THEN snapshots[a].available ELSE snapshots[b].available)
        /\ snapshots'[b].consumed = (IF b = a THEN snapshots[a].consumed ELSE snapshots[b].consumed)
        /\ snapshots'[b].refunded = (IF b = a THEN snapshots[a].refunded ELSE snapshots[b].refunded)
        /\ snapshots'[b].granted = (IF b = a THEN snapshots[a].granted ELSE snapshots[b].granted)
      BY <2>3, <2>4 DEF SnapshotRow
    <3>2. \A b \in Accounts :
        /\ snapshots'[b].reserved - snapshots[b].reserved
             = Total(OpenAmounts(b)') - Total(OpenAmounts(b))
        /\ snapshots'[b].available = snapshots[b].available
             + (IF row.account = b /\ row.type \in {"grant_credit", "reserve_release", "settle_credit"}
                THEN row.amount ELSE 0)
             - (IF row.account = b /\ row.type \in {"reserve_hold", "settle_debit"}
                THEN row.amount ELSE 0)
        /\ snapshots'[b].reserved = snapshots[b].reserved
             + (IF row.account = b /\ row.type = "reserve_hold" THEN row.amount ELSE 0)
             - (IF row.account = b /\ row.type = "reserve_release" THEN row.amount ELSE 0)
        /\ snapshots'[b].consumed = snapshots[b].consumed
             + (IF row.account = b /\ row.type = "settle_debit" /\ row.refType # "settlement"
                THEN row.amount ELSE 0)
        /\ snapshots'[b].refunded = snapshots[b].refunded
             + (IF row.account = b /\ row.type = "settle_credit" /\ row.refType # "settlement"
                THEN row.amount ELSE 0)
        /\ snapshots'[b].granted = snapshots[b].granted
             + (IF row.account = b /\ row.type = "grant_credit" THEN row.amount ELSE 0)
      BY <1>3, <1>9, <2>2, <3>1
    <3> QED  BY <1>1, <1>3, <1>4, <2>1, <2>2, <2>6, <3>2, JournalStep
  <2>8. entries' \in [EntryKeys -> Entry \cup {NoRow}]  BY <1>1, <2>1, <2>2, EntriesType
  <2>9. outbox' \in [Keys -> Event \cup {NoRow}]
    <3>1. outbox' = [outbox EXCEPT ![k] = EventRow(a, "billing.adjustment_recorded", "ledger_entry", k)]
      BY <1>13 DEF RecordAdjustment, RecordOutboxEvent, EventRow
    <3>2. EventRow(a, "billing.adjustment_recorded", "ledger_entry", k) \in Event  BY DEF EventRow, Event, EventTypes
    <3> QED  BY <3>1, <3>2, OutboxType
  <2> QED  BY <1>2, <1>7, <2>6, <2>7, <2>8, <2>9 DEF CoreInv, TypeOK
<1> QED  BY <1>10, <1>11, <1>12, <1>13

\* createReservationTx
LEMMA CreateInv ==
    ASSUME LInv, NEW a \in Accounts, NEW q \in Requests, NEW n \in Nat, NEW k \in Keys, CreateReservation(a, q, n, k)
    PROVE  CoreInv'
<1>0. TypeOK /\ SnapshotMatchesLedger /\ SettlementsRefer /\ FundsConserved  BY DEF LInv, CoreInv
<1> USE <1>0
<1> DEFINE acc == a
           old == 0
           new == n
           held == ReservationRow(a, q, n, "open")
           row == EntryRow(acc, "reserve_hold", "reservation", k, n)
<1>1. acc \in Accounts /\ n \in Nat /\ reservations[k] = NoRow /\ ~IsOpen(k)
  BY DEF CreateReservation, IsOpen
<1>2. reservations' = [reservations EXCEPT ![k] = held]
  BY DEF CreateReservation, ReservationRow
<1>3. UNCHANGED settlements /\ entries[EntryOf(k)] = NoRow /\ EntryOf(k) \in EntryKeys
  BY KeysOfEntries DEF CreateReservation, CreateEntry
<1>4. \A x \in Keys : x # k => reservations'[x] = reservations[x]  BY <1>2 DEF TypeOK
<1>5. reservations'[k] = held  BY <1>2 DEF TypeOK
<1>6. held \in Reservation /\ held # NoRow
  BY <1>1, NoRowAssumption DEF ReservationRow, Reservation
<1>7. reservations' \in [Keys -> Reservation \cup {NoRow}]  BY <1>2, <1>6 DEF TypeOK
<1>8. \A x \in Keys : reservations[x] # NoRow =>
         reservations'[x] # NoRow /\ reservations'[x].account = reservations[x].account
  BY <1>1, <1>4, <1>5, <1>6 DEF ReservationRow
<1>9. SettlementsRefer'
  <2> SUFFICES ASSUME NEW x \in Keys, settlements[x] # NoRow
               PROVE  /\ reservations'[settlements[x].reservation] # NoRow
                      /\ reservations'[settlements[x].reservation].status = "settled"
    BY <1>3 DEF SettlementsRefer
  <2>1. settlements[x].reservation \in Keys  BY DEF TypeOK, Settlement
  <2>2. settlements[x].reservation # k  BY <1>1 DEF SettlementsRefer
  <2> QED  BY <1>4, <2>1, <2>2 DEF SettlementsRefer
<1>10. entries' = [entries EXCEPT ![EntryOf(k)] = row]
  BY <1>1 DEF CreateReservation, CreateEntry, EntryRow
<1>11. /\ row \in Entry /\ row.account = acc /\ row.type = "reserve_hold"
       /\ row.refType = "reservation" /\ row.amount = n
  BY <1>1 DEF EntryRow, Entry, EntryTypes, ReferenceTypes
<1>12. /\ snapshots[acc].available \in Nat /\ snapshots[acc].reserved \in Nat
       /\ snapshots[acc].consumed \in Nat /\ snapshots[acc].refunded \in Nat
       /\ snapshots[acc].granted \in Nat
       /\ snapshots[acc].available - n \in Nat /\ snapshots[acc].reserved + n \in Nat
  BY <1>1, SnapshotFields DEF CreateReservation
<1>13. /\ snapshots' = [b \in Accounts |-> snapshots'[b]]
       /\ \A b \in Accounts \ {acc} : snapshots'[b] = snapshots[b]
  BY DEF CreateReservation, TypeOK
<1>14. snapshots'[acc] = SnapshotRow(snapshots[acc].available - n, snapshots[acc].reserved + n,
           snapshots[acc].consumed, snapshots[acc].refunded, snapshots[acc].granted)
  BY <1>1 DEF CreateReservation, SnapshotRow, TypeOK, Snapshot
<1>15. snapshots' \in [Accounts -> Snapshot]
  <2>1. snapshots'[acc] \in Snapshot  BY <1>12, <1>14 DEF SnapshotRow, Snapshot
  <2> QED  BY <1>13, <2>1 DEF TypeOK
<1>16. \A b \in Accounts :
         /\ Total(OpenAmounts(b)) \in Nat
         /\ (IF b = acc THEN old ELSE 0) <= Total(OpenAmounts(b))
         /\ Total(OpenAmounts(b)') = Total(OpenAmounts(b)) - (IF b = acc THEN old ELSE 0)
                                        + (IF b = acc THEN new ELSE 0)
  <2> SUFFICES ASSUME NEW b \in Accounts
               PROVE  /\ Total(OpenAmounts(b)) \in Nat
                      /\ (IF b = acc THEN old ELSE 0) <= Total(OpenAmounts(b))
                      /\ Total(OpenAmounts(b)') = Total(OpenAmounts(b)) - (IF b = acc THEN old ELSE 0)
                                                     + (IF b = acc THEN new ELSE 0)
    OBVIOUS
  <2> DEFINE was == IF IsOpen(k) /\ reservations[k].account = b THEN reservations[k].amount ELSE 0
             is == IF held.status = "open" /\ held.account = b THEN held.amount ELSE 0
  <2>1. /\ Total(OpenAmounts(b)) \in Nat
        /\ was <= Total(OpenAmounts(b))
        /\ Total(OpenAmounts(b)') = Total(OpenAmounts(b)) - was + is
    BY <1>1, <1>2, <1>6, OpenUpdate
  <2>2. was = (IF b = acc THEN old ELSE 0)  BY <1>1 DEF IsOpen
  <2>3. is = (IF b = acc THEN new ELSE 0)  BY <1>1 DEF ReservationRow
  <2> HIDE DEF was, is
  <2> QED  BY <2>1, <2>2, <2>3
<1>17. old \in Nat /\ new \in Nat /\ n \in Nat /\ new - old = n  BY <1>1
<1> HIDE DEF row, held, old, new
<1>18. \A b \in Accounts :
         /\ snapshots[b].available \in Nat /\ snapshots[b].reserved \in Nat
         /\ snapshots[b].consumed \in Nat /\ snapshots[b].refunded \in Nat
         /\ snapshots[b].granted \in Nat
  BY SnapshotFields
<1>19. \A b \in Accounts :
         /\ snapshots'[b].available = (IF b = acc THEN snapshots[b].available - n ELSE snapshots[b].available)
         /\ snapshots'[b].reserved = (IF b = acc THEN snapshots[b].reserved + n ELSE snapshots[b].reserved)
         /\ snapshots'[b].consumed = snapshots[b].consumed
         /\ snapshots'[b].refunded = snapshots[b].refunded
         /\ snapshots'[b].granted = snapshots[b].granted
  BY <1>13, <1>14 DEF SnapshotRow
<1>20. \A b \in Accounts :
         /\ Total(OpenAmounts(b)') \in Nat
         /\ snapshots'[b].reserved - snapshots[b].reserved
              = Total(OpenAmounts(b)') - Total(OpenAmounts(b))
  BY <1>16, <1>17, <1>18, <1>19
<1>21. \A b \in Accounts :
         /\ snapshots'[b].available = snapshots[b].available
              + (IF row.account = b /\ row.type \in {"grant_credit", "reserve_release", "settle_credit"}
                 THEN row.amount ELSE 0)
              - (IF row.account = b /\ row.type \in {"reserve_hold", "settle_debit"}
                 THEN row.amount ELSE 0)
         /\ snapshots'[b].reserved = snapshots[b].reserved
              + (IF row.account = b /\ row.type = "reserve_hold" THEN row.amount ELSE 0)
              - (IF row.account = b /\ row.type = "reserve_release" THEN row.amount ELSE 0)
         /\ snapshots'[b].consumed = snapshots[b].consumed
              + (IF row.account = b /\ row.type = "settle_debit" /\ row.refType # "settlement"
                 THEN row.amount ELSE 0)
         /\ snapshots'[b].refunded = snapshots[b].refunded
              + (IF row.account = b /\ row.type = "settle_credit" /\ row.refType # "settlement"
                 THEN row.amount ELSE 0)
         /\ snapshots'[b].granted = snapshots[b].granted
              + (IF row.account = b /\ row.type = "grant_credit" THEN row.amount ELSE 0)
  BY <1>11, <1>17, <1>18, <1>19
<1>22. SnapshotMatchesLedger' /\ FundsConserved'
  BY <1>3, <1>8, <1>10, <1>11, <1>15, <1>20, <1>21, JournalStep
<1>23. entries' \in [EntryKeys -> Entry \cup {NoRow}]  BY <1>3, <1>10, <1>11, EntriesType
<1>24. outbox' \in [Keys -> Event \cup {NoRow}]
  <2>1. outbox' = [outbox EXCEPT ![k] = EventRow(acc, "billing.reservation_created", "reservation", k)]
    BY DEF CreateReservation, RecordOutboxEvent, EventRow
  <2>2. EventRow(acc, "billing.reservation_created", "reservation", k) \in Event
    BY <1>1 DEF EventRow, Event, EventTypes
  <2> QED  BY <2>1, <2>2, OutboxType
<1>25. settlements' \in [Keys -> Settlement \cup {NoRow}]  BY <1>3 DEF TypeOK
<1> QED  BY <1>7, <1>9, <1>15, <1>22, <1>23, <1>24, <1>25 DEF CoreInv, TypeOK

\* Moving funds between the available and the reserved column of an account.
LEMMA HoldColumns ==
    ASSUME TypeOK, NEW a \in Accounts, NEW n \in Int,
           snapshots' = [snapshots EXCEPT ![a].available = @ - n, ![a].reserved = @ + n]
    PROVE  snapshots'[a] = SnapshotRow(snapshots[a].available - n, snapshots[a].reserved + n,
               snapshots[a].consumed, snapshots[a].refunded, snapshots[a].granted)
BY DEF SnapshotRow, TypeOK, Snapshot

LEMMA ReturnColumns ==
    ASSUME TypeOK, NEW a \in Accounts, NEW n \in Int,
           snapshots' = [snapshots EXCEPT ![a].available = @ + n, ![a].reserved = @ - n]
    PROVE  snapshots'[a] = SnapshotRow(snapshots[a].available + n, snapshots[a].reserved - n,
               snapshots[a].consumed, snapshots[a].refunded, snapshots[a].granted)
BY DEF SnapshotRow, TypeOK, Snapshot

\* increaseReservationTx
LEMMA IncreaseInv ==
    ASSUME LInv, NEW r \in Keys, NEW n \in Nat, NEW k \in Keys, IncreaseReservation(r, n, k)
    PROVE  CoreInv' /\ ReservationsKept
<1>0. TypeOK /\ SnapshotMatchesLedger /\ SettlementsRefer /\ FundsConserved  BY DEF LInv, CoreInv
<1> USE <1>0
<1> DEFINE acc == reservations[r].account
           old == reservations[r].amount
           new == reservations[r].amount + n
           held == ReservationRow(acc, reservations[r].request, reservations[r].amount + n, "open")
           row == EntryRow(acc, "reserve_hold", "reservation", r, n)
<1>1. /\ reservations[r] \in Reservation /\ reservations[r] # NoRow /\ IsOpen(r)
      /\ reservations[r].status = "open"
      /\ acc \in Accounts /\ reservations[r].request \in Requests /\ reservations[r].amount \in Nat
      /\ r \in Keys
  BY DEF IncreaseReservation, IsOpen, TypeOK, Reservation
<1>2. reservations' = [reservations EXCEPT ![r] = held]
  <2>1. held = [reservations[r] EXCEPT !.amount = @ + n]
    BY <1>1 DEF ReservationRow, Reservation
  <2>2. reservations' = [reservations EXCEPT ![r].amount = @ + n]  BY DEF IncreaseReservation
  <2> HIDE DEF held
  <2> QED  BY <2>1, <2>2
<1>3. UNCHANGED settlements /\ entries[Plain(k)] = NoRow /\ Plain(k) \in EntryKeys
  BY KeysOfEntries DEF IncreaseReservation, CreateEntry
<1>4. \A x \in Keys : x # r => reservations'[x] = reservations[x]  BY <1>2 DEF TypeOK
<1>5. reservations'[r] = held  BY <1>2 DEF TypeOK
<1>6. held \in Reservation /\ held # NoRow
  BY <1>1, NoRowAssumption DEF ReservationRow, Reservation
<1>7. reservations' \in [Keys -> Reservation \cup {NoRow}]  BY <1>2, <1>6 DEF TypeOK
<1>8. \A x \in Keys : reservations[x] # NoRow =>
         reservations'[x] # NoRow /\ reservations'[x].account = reservations[x].account
  BY <1>1, <1>4, <1>5, <1>6 DEF ReservationRow
<1>9. SettlementsRefer'
  <2> SUFFICES ASSUME NEW x \in Keys, settlements[x] # NoRow
               PROVE  /\ reservations'[settlements[x].reservation] # NoRow
                      /\ reservations'[settlements[x].reservation].status = "settled"
    BY <1>3 DEF SettlementsRefer
  <2>1. settlements[x].reservation \in Keys  BY DEF TypeOK, Settlement
  <2>2. settlements[x].reservation # r  BY <1>1 DEF SettlementsRefer
  <2> QED  BY <1>4, <2>1, <2>2 DEF SettlementsRefer
<1>10. entries' = [entries EXCEPT ![Plain(k)] = row]
  BY <1>1 DEF IncreaseReservation, CreateEntry, EntryRow
<1>11. /\ row \in Entry /\ row.account = acc /\ row.type = "reserve_hold"
       /\ row.refType = "reservation" /\ row.amount = n
  BY <1>1 DEF EntryRow, Entry, EntryTypes, ReferenceTypes
<1>12. /\ snapshots[acc].available \in Nat /\ snapshots[acc].reserved \in Nat
       /\ snapshots[acc].consumed \in Nat /\ snapshots[acc].refunded \in Nat
       /\ snapshots[acc].granted \in Nat
       /\ snapshots[acc].available - n \in Nat /\ snapshots[acc].reserved + n \in Nat
  BY <1>1, SnapshotFields DEF IncreaseReservation
<1>13. /\ snapshots' = [b \in Accounts |-> snapshots'[b]]
       /\ \A b \in Accounts \ {acc} : snapshots'[b] = snapshots[b]
  BY DEF IncreaseReservation, TypeOK
<1>14. snapshots'[acc] = SnapshotRow(snapshots[acc].available - n, snapshots[acc].reserved + n,
           snapshots[acc].consumed, snapshots[acc].refunded, snapshots[acc].granted)
  <2>1. snapshots' = [snapshots EXCEPT ![acc].available = @ - n, ![acc].reserved = @ + n]
    BY DEF IncreaseReservation
  <2>2. acc \in Accounts /\ n \in Int  BY <1>1
  <2> HIDE DEF acc
  <2> QED  BY <2>1, <2>2, HoldColumns
<1>15. snapshots' \in [Accounts -> Snapshot]
  <2>1. snapshots'[acc] \in Snapshot  BY <1>12, <1>14 DEF SnapshotRow, Snapshot
  <2> QED  BY <1>13, <2>1 DEF TypeOK
<1>16. \A b \in Accounts :
         /\ Total(OpenAmounts(b)) \in Nat
         /\ (IF b = acc THEN old ELSE 0) <= Total(OpenAmounts(b))
         /\ Total(OpenAmounts(b)') = Total(OpenAmounts(b)) - (IF b = acc THEN old ELSE 0)
                                        + (IF b = acc THEN new ELSE 0)
  <2> SUFFICES ASSUME NEW b \in Accounts
               PROVE  /\ Total(OpenAmounts(b)) \in Nat
                      /\ (IF b = acc THEN old ELSE 0) <= Total(OpenAmounts(b))
                      /\ Total(OpenAmounts(b)') = Total(OpenAmounts(b)) - (IF b = acc THEN old ELSE 0)
                                                     + (IF b = acc THEN new ELSE 0)
    OBVIOUS
  <2> DEFINE was == IF IsOpen(r) /\ reservations[r].account = b THEN reservations[r].amount ELSE 0
             is == IF held.status = "open" /\ held.account = b THEN held.amount ELSE 0
  <2>1. /\ Total(OpenAmounts(b)) \in Nat
        /\ was <= Total(OpenAmounts(b))
        /\ Total(OpenAmounts(b)') = Total(OpenAmounts(b)) - was + is
    BY <1>1, <1>2, <1>6, OpenUpdate
  <2>2. was = (IF b = acc THEN old ELSE 0)  BY <1>1 DEF IsOpen
  <2>3. is = (IF b = acc THEN new ELSE 0)  BY <1>1 DEF ReservationRow
  <2> HIDE DEF was, is
  <2> QED  BY <2>1, <2>2, <2>3
<1>17. old \in Nat /\ new \in Nat /\ n \in Nat /\ new - old = n  BY <1>1
<1> HIDE DEF row, held, old, new
<1>18. \A b \in Accounts :
         /\ snapshots[b].available \in Nat /\ snapshots[b].reserved \in Nat
         /\ snapshots[b].consumed \in Nat /\ snapshots[b].refunded \in Nat
         /\ snapshots[b].granted \in Nat
  BY SnapshotFields
<1>19. \A b \in Accounts :
         /\ snapshots'[b].available = (IF b = acc THEN snapshots[b].available - n ELSE snapshots[b].available)
         /\ snapshots'[b].reserved = (IF b = acc THEN snapshots[b].reserved + n ELSE snapshots[b].reserved)
         /\ snapshots'[b].consumed = snapshots[b].consumed
         /\ snapshots'[b].refunded = snapshots[b].refunded
         /\ snapshots'[b].granted = snapshots[b].granted
  BY <1>13, <1>14 DEF SnapshotRow
<1>20. \A b \in Accounts :
         /\ Total(OpenAmounts(b)') \in Nat
         /\ snapshots'[b].reserved - snapshots[b].reserved
              = Total(OpenAmounts(b)') - Total(OpenAmounts(b))
  BY <1>16, <1>17, <1>18, <1>19
<1>21. \A b \in Accounts :
         /\ snapshots'[b].available = snapshots[b].available
              + (IF row.account = b /\ row.type \in {"grant_credit", "reserve_release", "settle_credit"}
                 THEN row.amount ELSE 0)
              - (IF row.account = b /\ row.type \in {"reserve_hold", "settle_debit"}
                 THEN row.amount ELSE 0)
         /\ snapshots'[b].reserved = snapshots[b].reserved
              + (IF row.account = b /\ row.type = "reserve_hold" THEN row.amount ELSE 0)
              - (IF row.account = b /\ row.type = "reserve_release" THEN row.amount ELSE 0)
         /\ snapshots'[b].consumed = snapshots[b].consumed
              + (IF row.account = b /\ row.type = "settle_debit" /\ row.refType # "settlement"
                 THEN row.amount ELSE 0)
         /\ snapshots'[b].refunded = snapshots[b].refunded
              + (IF row.account = b /\ row.type = "settle_credit" /\ row.refType # "settlement"
                 THEN row.amount ELSE 0)
         /\ snapshots'[b].granted = snapshots[b].granted
              + (IF row.account = b /\ row.type = "grant_credit" THEN row.amount ELSE 0)
  BY <1>11, <1>17, <1>18, <1>19
<1>22. SnapshotMatchesLedger' /\ FundsConserved'
  BY <1>3, <1>8, <1>10, <1>11, <1>15, <1>20, <1>21, JournalStep
<1>23. entries' \in [EntryKeys -> Entry \cup {NoRow}]  BY <1>3, <1>10, <1>11, EntriesType
<1>24. outbox' \in [Keys -> Event \cup {NoRow}]
  <2>1. outbox' = [outbox EXCEPT ![k] = EventRow(acc, "billing.reservation_increased", "reservation", r)]
    BY DEF IncreaseReservation, RecordOutboxEvent, EventRow
  <2>2. EventRow(acc, "billing.reservation_increased", "reservation", r) \in Event
    BY <1>1 DEF EventRow, Event, EventTypes
  <2> QED  BY <2>1, <2>2, OutboxType
<1>25. settlements' \in [Keys -> Settlement \cup {NoRow}]  BY <1>3 DEF TypeOK
<1>26. ReservationsKept  BY <1>1, <1>4, <1>8 DEF ReservationsKept
<1> QED  BY <1>26, <1>7, <1>9, <1>15, <1>22, <1>23, <1>24, <1>25 DEF CoreInv, TypeOK

\* releaseReservationTx
LEMMA ReleaseInv ==
    ASSUME LInv, NEW r \in Keys, NEW k \in Keys, ReleaseReservation(r, k)
    PROVE  CoreInv' /\ ReservationsKept
<1>0. TypeOK /\ SnapshotMatchesLedger /\ SettlementsRefer /\ FundsConserved  BY DEF LInv, CoreInv
<1> USE <1>0
<1> DEFINE acc == reservations[r].account
           old == reservations[r].amount
           new == 0
           held == ReservationRow(acc, reservations[r].request, reservations[r].amount, "released")
           row == EntryRow(acc, "reserve_release", "reservation", r, reservations[r].amount)
<1>1. /\ reservations[r] \in Reservation /\ reservations[r] # NoRow /\ IsOpen(r)
      /\ reservations[r].status = "open"
      /\ acc \in Accounts /\ reservations[r].request \in Requests /\ reservations[r].amount \in Nat
      /\ r \in Keys
  BY DEF ReleaseReservation, IsOpen, TypeOK, Reservation
<1>fresh. entries[Plain(k)] = NoRow
  <2>1. Plain(k) \in EntryKeys  BY KeysOfEntries
  <2> QED  BY <1>1, <2>1 DEF LInv, ReleasesRefer, ReleaseReservation
<1>2. reservations' = [reservations EXCEPT ![r] = held]
  <2>1. held = [reservations[r] EXCEPT !.status = "released"]
    BY <1>1 DEF ReservationRow, Reservation
  <2>2. reservations' = [reservations EXCEPT ![r].status = "released"]  BY DEF ReleaseReservation
  <2> HIDE DEF held
  <2> QED  BY <2>1, <2>2
<1>3. UNCHANGED settlements /\ entries[Plain(k)] = NoRow /\ Plain(k) \in EntryKeys
  BY <1>fresh, KeysOfEntries DEF ReleaseReservation, CreateEntry
<1>4. \A x \in Keys : x # r => reservations'[x] = reservations[x]  BY <1>2 DEF TypeOK
<1>5. reservations'[r] = held  BY <1>2 DEF TypeOK
<1>6. held \in Reservation /\ held # NoRow
  BY <1>1, NoRowAssumption DEF ReservationRow, Reservation
<1>7. reservations' \in [Keys -> Reservation \cup {NoRow}]  BY <1>2, <1>6 DEF TypeOK
<1>8. \A x \in Keys : reservations[x] # NoRow =>
         reservations'[x] # NoRow /\ reservations'[x].account = reservations[x].account
  BY <1>1, <1>4, <1>5, <1>6 DEF ReservationRow
<1>9. SettlementsRefer'
  <2> SUFFICES ASSUME NEW x \in Keys, settlements[x] # NoRow
               PROVE  /\ reservations'[settlements[x].reservation] # NoRow
                      /\ reservations'[settlements[x].reservation].status = "settled"
    BY <1>3 DEF SettlementsRefer
  <2>1. settlements[x].reservation \in Keys  BY DEF TypeOK, Settlement
  <2>2. settlements[x].reservation # r  BY <1>1 DEF SettlementsRefer
  <2> QED  BY <1>4, <2>1, <2>2 DEF SettlementsRefer
<1>10. entries' = [entries EXCEPT ![Plain(k)] = row]
  BY <1>1, <1>fresh DEF ReleaseReservation, CreateEntry, EntryRow
<1>11. /\ row \in Entry /\ row.account = acc /\ row.type = "reserve_release"
       /\ row.refType = "reservation" /\ row.amount = reservations[r].amount
  BY <1>1 DEF EntryRow, Entry, EntryTypes, ReferenceTypes
<1>12. /\ snapshots[acc].available \in Nat /\ snapshots[acc].reserved \in Nat
       /\ snapshots[acc].consumed \in Nat /\ snapshots[acc].refunded \in Nat
       /\ snapshots[acc].granted \in Nat
       /\ snapshots[acc].available + reservations[r].amount \in Nat /\ snapshots[acc].reserved - reservations[r].amount \in Nat
  BY <1>1, <1>fresh, SnapshotFields DEF ReleaseReservation
<1>13. /\ snapshots' = [b \in Accounts |-> snapshots'[b]]
       /\ \A b \in Accounts \ {acc} : snapshots'[b] = snapshots[b]
  BY <1>fresh DEF ReleaseReservation, TypeOK
<1>14. snapshots'[acc] = SnapshotRow(snapshots[acc].available + reservations[r].amount, snapshots[acc].reserved - reservations[r].amount,
           snapshots[acc].consumed, snapshots[acc].refunded, snapshots[acc].granted)
  <2>1. snapshots' = [snapshots EXCEPT ![acc].available = @ + old, ![acc].reserved = @ - old]
    BY <1>fresh DEF ReleaseReservation
  <2>2. acc \in Accounts /\ old \in Int  BY <1>1
  <2>3. snapshots'[acc] = SnapshotRow(snapshots[acc].available + old, snapshots[acc].reserved - old,
            snapshots[acc].consumed, snapshots[acc].refunded, snapshots[acc].granted)
    <3> HIDE DEF acc, old
    <3> QED  BY <2>1, <2>2, ReturnColumns
  <2> QED  BY <2>3
<1>15. snapshots' \in [Accounts -> Snapshot]
  <2>1. snapshots'[acc] \in Snapshot  BY <1>12, <1>14 DEF SnapshotRow, Snapshot
  <2> QED  BY <1>13, <2>1 DEF TypeOK
<1>16. \A b \in Accounts :
         /\ Total(OpenAmounts(b)) \in Nat
         /\ (IF b = acc THEN old ELSE 0) <= Total(OpenAmounts(b))
         /\ Total(OpenAmounts(b)') = Total(OpenAmounts(b)) - (IF b = acc THEN old ELSE 0)
                                        + (IF b = acc THEN new ELSE 0)
  <2> SUFFICES ASSUME NEW b \in Accounts
               PROVE  /\ Total(OpenAmounts(b)) \in Nat
                      /\ (IF b = acc THEN old ELSE 0) <= Total(OpenAmounts(b))
                      /\ Total(OpenAmounts(b)') = Total(OpenAmounts(b)) - (IF b = acc THEN old ELSE 0)
                                                     + (IF b = acc THEN new ELSE 0)
    OBVIOUS
  <2> DEFINE was == IF IsOpen(r) /\ reservations[r].account = b THEN reservations[r].amount ELSE 0
             is == IF held.status = "open" /\ held.account = b THEN held.amount ELSE 0
  <2>1. /\ Total(OpenAmounts(b)) \in Nat
        /\ was <= Total(OpenAmounts(b))
        /\ Total(OpenAmounts(b)') = Total(OpenAmounts(b)) - was + is
    BY <1>1, <1>2, <1>6, OpenUpdate
  <2>2. was = (IF b = acc THEN old ELSE 0)  BY <1>1 DEF IsOpen
  <2>3. is = (IF b = acc THEN new ELSE 0)  BY <1>1 DEF ReservationRow
  <2> HIDE DEF was, is
  <2> QED  BY <2>1, <2>2, <2>3
<1>17. old \in Nat /\ new \in Nat /\ new = 0 /\ row.amount = old  BY <1>1, <1>11
<1> HIDE DEF row, held, new
<1>18. \A b \in Accounts :
         /\ snapshots[b].available \in Nat /\ snapshots[b].reserved \in Nat
         /\ snapshots[b].consumed \in Nat /\ snapshots[b].refunded \in Nat
         /\ snapshots[b].granted \in Nat
  BY SnapshotFields
<1>19. \A b \in Accounts :
         /\ snapshots'[b].available = (IF b = acc THEN snapshots[b].available + old ELSE snapshots[b].available)
         /\ snapshots'[b].reserved = (IF b = acc THEN snapshots[b].reserved - old ELSE snapshots[b].reserved)
         /\ snapshots'[b].consumed = snapshots[b].consumed
         /\ snapshots'[b].refunded = snapshots[b].refunded
         /\ snapshots'[b].granted = snapshots[b].granted
  BY <1>13, <1>14 DEF SnapshotRow
<1> HIDE DEF acc, old
<1>20. \A b \in Accounts :
         /\ Total(OpenAmounts(b)') \in Nat
         /\ snapshots'[b].reserved - snapshots[b].reserved
              = Total(OpenAmounts(b)') - Total(OpenAmounts(b))
  BY <1>16, <1>17, <1>18, <1>19
<1>21. \A b \in Accounts :
         /\ snapshots'[b].available = snapshots[b].available
              + (IF row.account = b /\ row.type \in {"grant_credit", "reserve_release", "settle_credit"}
                 THEN row.amount ELSE 0)
              - (IF row.account = b /\ row.type \in {"reserve_hold", "settle_debit"}
                 THEN row.amount ELSE 0)
         /\ snapshots'[b].reserved = snapshots[b].reserved
              + (IF row.account = b /\ row.type = "reserve_hold" THEN row.amount ELSE 0)
              - (IF row.account = b /\ row.type = "reserve_release" THEN row.amount ELSE 0)
         /\ snapshots'[b].consumed = snapshots[b].consumed
              + (IF row.account = b /\ row.type = "settle_debit" /\ row.refType # "settlement"
                 THEN row.amount ELSE 0)
         /\ snapshots'[b].refunded = snapshots[b].refunded
              + (IF row.account = b /\ row.type = "settle_credit" /\ row.refType # "settlement"
                 THEN row.amount ELSE 0)
         /\ snapshots'[b].granted = snapshots[b].granted
              + (IF row.account = b /\ row.type = "grant_credit" THEN row.amount ELSE 0)
  BY <1>11, <1>17, <1>18, <1>19
<1>22. SnapshotMatchesLedger' /\ FundsConserved'
  BY <1>3, <1>8, <1>10, <1>11, <1>15, <1>20, <1>21, JournalStep
<1>23. entries' \in [EntryKeys -> Entry \cup {NoRow}]  BY <1>3, <1>10, <1>11, EntriesType
<1>24. outbox' \in [Keys -> Event \cup {NoRow}]
  <2>1. outbox' = [outbox EXCEPT ![k] = EventRow(acc, "billing.reservation_released", "reservation", r)]
    BY <1>fresh DEF acc, ReleaseReservation, RecordOutboxEvent, EventRow
  <2>2. EventRow(acc, "billing.reservation_released", "reservation", r) \in Event
    BY <1>1 DEF acc, EventRow, Event, EventTypes
  <2> QED  BY <2>1, <2>2, OutboxType
<1>25. settlements' \in [Keys -> Settlement \cup {NoRow}]  BY <1>3 DEF TypeOK
<1>26. ReservationsKept  BY <1>1, <1>4, <1>8 DEF ReservationsKept
<1> QED  BY <1>26, <1>7, <1>9, <1>15, <1>22, <1>23, <1>24, <1>25 DEF CoreInv, TypeOK

\* A settlement row as settleReservationTx builds it.
SettlementRow(r, n, delta) == [reservation |-> r, actual |-> n, delta |-> delta]

\* What settleReservationTx does to the sums over the entries.
LEMMA SettleEntries ==
    ASSUME TypeOK, NEW a \in Accounts, NEW k \in Keys, NEW delta \in Int,
           NEW more \in Nat, NEW back \in Nat,
           more = (IF delta > 0 THEN delta ELSE 0), back = (IF delta < 0 THEN -delta ELSE 0),
           IF delta = 0
           THEN UNCHANGED entries
           ELSE CreateEntry(EntryOf(k), a, IF delta > 0 THEN "settle_debit" ELSE "settle_credit",
                            "settlement", k, more + back)
    PROVE  /\ entries' \in [EntryKeys -> Entry \cup {NoRow}]
           /\ \A b \in Accounts :
                /\ Credited(b)' = Credited(b) + (IF b = a THEN back ELSE 0)
                /\ Debited(b)' = Debited(b) + (IF b = a THEN more ELSE 0)
                /\ DirectConsumed(b)' = DirectConsumed(b)
                /\ DirectRefunded(b)' = DirectRefunded(b)
                /\ Granted(b)' = Granted(b)
<1>0. \A b \in Accounts :
        /\ Credited(b) \in Nat /\ Debited(b) \in Nat /\ DirectConsumed(b) \in Nat
        /\ DirectRefunded(b) \in Nat /\ Granted(b) \in Nat
  BY EntrySumsType
<1>1. CASE delta = 0
  <2>1. UNCHANGED entries /\ more = 0 /\ back = 0  BY <1>1
  <2>2. \A b \in Accounts : /\ Credited(b)' = Credited(b) /\ Debited(b)' = Debited(b)
                            /\ DirectConsumed(b)' = DirectConsumed(b)
                            /\ DirectRefunded(b)' = DirectRefunded(b) /\ Granted(b)' = Granted(b)
    <3> SUFFICES ASSUME NEW b \in Accounts
                 PROVE  /\ Credited(b)' = Credited(b) /\ Debited(b)' = Debited(b)
                        /\ DirectConsumed(b)' = DirectConsumed(b)
                        /\ DirectRefunded(b)' = DirectRefunded(b) /\ Granted(b)' = Granted(b)
      OBVIOUS
    <3>1. \A T, R : EntryAmounts(b, T, R)' = EntryAmounts(b, T, R)  BY <2>1 DEF EntryAmounts
    <3> QED  BY <3>1 DEF Credited, Debited, DirectConsumed, DirectRefunded, Granted
  <2>3. entries' \in [EntryKeys -> Entry \cup {NoRow}]  BY <2>1 DEF TypeOK
  <2> QED  BY <1>0, <2>1, <2>2, <2>3
<1>2. CASE delta # 0
  <2> DEFINE type == IF delta > 0 THEN "settle_debit" ELSE "settle_credit"
             row == EntryRow(a, type, "settlement", k, more + back)
  <2>1. /\ entries[EntryOf(k)] = NoRow /\ EntryOf(k) \in EntryKeys
        /\ entries' = [entries EXCEPT ![EntryOf(k)] = row]
    BY <1>2, KeysOfEntries DEF CreateEntry, EntryRow
  <2>2. type \in EntryTypes /\ more + back \in Nat  BY DEF EntryTypes
  <2>3. row \in Entry  BY <2>2 DEF EntryRow, Entry, ReferenceTypes
  <2>4. row.account = a /\ row.type = type /\ row.refType = "settlement" /\ row.amount = more + back
    BY DEF EntryRow
  <2>5. /\ "settlement" \in ReferenceTypes /\ "settlement" \notin NotSettlement
        /\ type \notin {"grant_credit"}
        /\ type \in {"grant_credit", "reserve_release", "settle_credit"} <=> ~(delta > 0)
        /\ type \in {"reserve_hold", "settle_debit"} <=> delta > 0
    BY DEF ReferenceTypes, NotSettlement
  <2>6. delta > 0 => more + back = more /\ back = 0  OBVIOUS
  <2>7. ~(delta > 0) => more + back = back /\ more = 0  BY <1>2
  <2> HIDE DEF row, type
  <2>8. \A b \in Accounts :
      /\ Credited(b)' = Credited(b)
           + (IF row.account = b /\ row.type \in {"grant_credit", "reserve_release", "settle_credit"}
                    /\ row.refType \in ReferenceTypes THEN row.amount ELSE 0)
      /\ Debited(b)' = Debited(b)
           + (IF row.account = b /\ row.type \in {"reserve_hold", "settle_debit"}
                    /\ row.refType \in ReferenceTypes THEN row.amount ELSE 0)
      /\ DirectConsumed(b)' = DirectConsumed(b)
           + (IF row.account = b /\ row.type \in {"settle_debit"}
                    /\ row.refType \in NotSettlement THEN row.amount ELSE 0)
      /\ DirectRefunded(b)' = DirectRefunded(b)
           + (IF row.account = b /\ row.type \in {"settle_credit"}
                    /\ row.refType \in NotSettlement THEN row.amount ELSE 0)
      /\ Granted(b)' = Granted(b)
           + (IF row.account = b /\ row.type \in {"grant_credit"}
                    /\ row.refType \in ReferenceTypes THEN row.amount ELSE 0)
    BY <2>1, <2>3, EntrySums
  <2>9. \A b \in Accounts :
      /\ Credited(b)' = Credited(b) + (IF b = a /\ ~(delta > 0) THEN more + back ELSE 0)
      /\ Debited(b)' = Debited(b) + (IF b = a /\ delta > 0 THEN more + back ELSE 0)
    BY <2>4, <2>5, <2>8
  <2>10. \A b \in Accounts :
      /\ DirectConsumed(b)' = DirectConsumed(b) /\ DirectRefunded(b)' = DirectRefunded(b)
      /\ Granted(b)' = Granted(b)
    BY <1>0, <2>4, <2>5, <2>8
  <2>11. entries' \in [EntryKeys -> Entry \cup {NoRow}]  BY <2>1, <2>3, EntriesType
  <2> QED  BY <1>0, <2>6, <2>7, <2>9, <2>10, <2>11
<1> QED  BY <1>1, <1>2

\* settleReservationTx
LEMMA SettleInv ==
    ASSUME LInv, NEW r \in Keys, NEW n \in Nat, NEW k \in Keys, SettleReservation(r, n, k)
    PROVE  CoreInv' /\ ReservationsKept
<1>0. TypeOK /\ SnapshotMatchesLedger /\ SettlementsRefer /\ FundsConserved  BY DEF LInv, CoreInv
<1> USE <1>0
<1> DEFINE acc == reservations[r].account
           old == reservations[r].amount
           delta == n - reservations[r].amount
           more == IF delta > 0 THEN delta ELSE 0
           back == IF delta < 0 THEN -delta ELSE 0
           held == ReservationRow(acc, reservations[r].request, reservations[r].amount, "settled")
           srow == SettlementRow(r, n, delta)
<1>1. /\ reservations[r] \in Reservation /\ reservations[r] # NoRow /\ IsOpen(r)
      /\ reservations[r].status = "open"
      /\ acc \in Accounts /\ reservations[r].request \in Requests /\ old \in Nat
  BY DEF SettleReservation, IsOpen, TypeOK, Reservation
<1>2. reservations' = [reservations EXCEPT ![r] = held]
  <2>1. held = [reservations[r] EXCEPT !.status = "settled"]
    BY <1>1 DEF ReservationRow, Reservation
  <2>2. reservations' = [reservations EXCEPT ![r].status = "settled"]  BY DEF SettleReservation
  <2> HIDE DEF held
  <2> QED  BY <2>1, <2>2
<1>3. /\ settlements[k] = NoRow /\ settlements' = [settlements EXCEPT ![k] = srow]
  BY DEF SettleReservation, SettlementRow
<1>4. \A x \in Keys : x # r => reservations'[x] = reservations[x]  BY <1>2 DEF TypeOK
<1>5. reservations'[r] = held  BY <1>2 DEF TypeOK
<1>6. held \in Reservation /\ held # NoRow
  BY <1>1, NoRowAssumption DEF ReservationRow, Reservation
<1>7. reservations' \in [Keys -> Reservation \cup {NoRow}]  BY <1>2, <1>6 DEF TypeOK
<1>8. \A x \in Keys : reservations[x] # NoRow =>
         reservations'[x] # NoRow /\ reservations'[x].account = reservations[x].account
  BY <1>1, <1>4, <1>5, <1>6 DEF ReservationRow
<1>9. /\ delta \in Int /\ more \in Nat /\ back \in Nat /\ delta = more - back
      /\ delta = n - old
  BY <1>1
<1>10. srow \in Settlement  BY <1>9 DEF SettlementRow, Settlement
<1>11. srow.reservation = r /\ srow.actual = n /\ srow.delta = delta  BY DEF SettlementRow
<1>12. settlements' \in [Keys -> Settlement \cup {NoRow}]  BY <1>3, <1>10 DEF TypeOK
<1>13. SettlementsRefer'
  <2> SUFFICES ASSUME NEW x \in Keys, settlements'[x] # NoRow
               PROVE  /\ reservations'[settlements'[x].reservation] # NoRow
                      /\ reservations'[settlements'[x].reservation].status = "settled"
    BY DEF SettlementsRefer
  <2>1. CASE x = k
    <3>1. settlements'[x] = srow  BY <1>3, <2>1 DEF TypeOK
    <3>2. held.status = "settled"  BY DEF ReservationRow
    <3> HIDE DEF held, srow
    <3> QED  BY <1>5, <1>6, <1>11, <3>1, <3>2
  <2>2. CASE x # k
    <3>1. settlements'[x] = settlements[x]  BY <1>3, <2>2 DEF TypeOK
    <3>2. settlements[x].reservation \in Keys  BY <3>1 DEF TypeOK, Settlement
    <3>3. settlements[x].reservation # r  BY <1>1, <3>1 DEF SettlementsRefer
    <3> QED  BY <1>4, <3>1, <3>2, <3>3 DEF SettlementsRefer
  <2> QED  BY <2>1, <2>2
<1>14. /\ snapshots' = [snapshots EXCEPT ![acc].reserved = @ - old, ![acc].consumed = @ + n,
                                         ![acc].available = @ - delta, ![acc].refunded = @ + back]
       /\ snapshots[acc].reserved >= old /\ snapshots[acc].available >= more
  BY DEF SettleReservation
<1>15. /\ entries' \in [EntryKeys -> Entry \cup {NoRow}]
       /\ \A b \in Accounts :
            /\ Credited(b)' = Credited(b) + (IF b = acc THEN back ELSE 0)
            /\ Debited(b)' = Debited(b) + (IF b = acc THEN more ELSE 0)
            /\ DirectConsumed(b)' = DirectConsumed(b)
            /\ DirectRefunded(b)' = DirectRefunded(b)
            /\ Granted(b)' = Granted(b)
  <2>1. IF delta = 0
        THEN UNCHANGED entries
        ELSE CreateEntry(EntryOf(k), acc, IF delta > 0 THEN "settle_debit" ELSE "settle_credit",
                         "settlement", k, more + back)
    BY DEF SettleReservation
  <2>2. more = (IF delta > 0 THEN delta ELSE 0) /\ back = (IF delta < 0 THEN -delta ELSE 0)  OBVIOUS
  <2>3. TypeOK /\ acc \in Accounts /\ delta \in Int /\ more \in Nat /\ back \in Nat  BY <1>1, <1>9
  <2> HIDE <1>0 DEF acc, delta, more, back
  <2> QED  BY <2>1, <2>2, <2>3, SettleEntries
<1>16. \A b \in Accounts :
         /\ Total(OpenAmounts(b)) \in Nat
         /\ Total(OpenAmounts(b)') = Total(OpenAmounts(b)) - (IF b = acc THEN old ELSE 0)
         /\ Total(OpenAmounts(b)') \in Nat
  <2> SUFFICES ASSUME NEW b \in Accounts
               PROVE  /\ Total(OpenAmounts(b)) \in Nat
                      /\ Total(OpenAmounts(b)') = Total(OpenAmounts(b)) - (IF b = acc THEN old ELSE 0)
                      /\ Total(OpenAmounts(b)') \in Nat
    OBVIOUS
  <2> DEFINE was == IF IsOpen(r) /\ reservations[r].account = b THEN reservations[r].amount ELSE 0
             is == IF held.status = "open" /\ held.account = b THEN held.amount ELSE 0
  <2>1. /\ Total(OpenAmounts(b)) \in Nat
        /\ was <= Total(OpenAmounts(b))
        /\ Total(OpenAmounts(b)') = Total(OpenAmounts(b)) - was + is
    BY <1>1, <1>2, <1>6, OpenUpdate
  <2>2. was = (IF b = acc THEN old ELSE 0) /\ was \in Nat  BY <1>1 DEF IsOpen
  <2>3. is = 0  BY DEF ReservationRow
  <2> HIDE DEF was, is
  <2> QED  BY <2>1, <2>2, <2>3
<1>17. \A b \in Accounts :
         /\ Total(ActualAmounts(b)') = Total(ActualAmounts(b)) + (IF b = acc THEN n ELSE 0)
         /\ Total(ReturnedAmounts(b)') = Total(ReturnedAmounts(b)) + (IF b = acc THEN back ELSE 0)
  <2> SUFFICES ASSUME NEW b \in Accounts
               PROVE  /\ Total(ActualAmounts(b)') = Total(ActualAmounts(b)) + (IF b = acc THEN n ELSE 0)
                      /\ Total(ReturnedAmounts(b)') = Total(ReturnedAmounts(b)) + (IF b = acc THEN back ELSE 0)
    OBVIOUS
  <2> DEFINE here == reservations'[srow.reservation].account = b
  <2>1. here <=> b = acc  BY <1>5, <1>11 DEF ReservationRow
  <2>2. /\ Total(ActualAmounts(b)') = Total(ActualAmounts(b)) + (IF here THEN srow.actual ELSE 0)
        /\ Total(ReturnedAmounts(b)') =
             Total(ReturnedAmounts(b)) + (IF here /\ srow.delta < 0 THEN -srow.delta ELSE 0)
    <3> HIDE DEF srow
    <3> QED  BY <1>3, <1>8, <1>10, SettlementInsert
  <2>3. (IF here /\ srow.delta < 0 THEN -srow.delta ELSE 0) = (IF b = acc THEN back ELSE 0)
    <3>1. srow.delta = delta  BY <1>11
    <3>2. back = (IF delta < 0 THEN -delta ELSE 0)  OBVIOUS
    <3> HIDE DEF here, srow, acc, delta, back
    <3> QED  BY <2>1, <3>1, <3>2
  <2>4. (IF here THEN srow.actual ELSE 0) = (IF b = acc THEN n ELSE 0)
    <3> HIDE DEF here, srow, acc
    <3> QED  BY <1>11, <2>1
  <2> HIDE DEF here, srow, acc, back
  <2> QED  BY <2>2, <2>3, <2>4
<1>18. outbox' \in [Keys -> Event \cup {NoRow}]
  <2>1. outbox' = [outbox EXCEPT ![k] = EventRow(acc, "billing.reservation_settled", "settlement", k)]
    BY DEF SettleReservation, RecordOutboxEvent, EventRow
  <2>2. EventRow(acc, "billing.reservation_settled", "settlement", k) \in Event
    BY <1>1 DEF EventRow, Event, EventTypes
  <2> QED  BY <2>1, <2>2, OutboxType
<1>19. acc \in Accounts /\ old \in Nat  BY <1>1
<1> HIDE DEF acc, old, delta, more, back, held, srow
<1>20. snapshots'[acc] = SnapshotRow(snapshots[acc].available - delta, snapshots[acc].reserved - old,
           snapshots[acc].consumed + n, snapshots[acc].refunded + back, snapshots[acc].granted)
  <2>1. snapshots[acc] = SnapshotRow(snapshots[acc].available, snapshots[acc].reserved,
            snapshots[acc].consumed, snapshots[acc].refunded, snapshots[acc].granted)
    BY <1>19 DEF SnapshotRow, TypeOK, Snapshot
  <2>2. snapshots'[acc] = [snapshots[acc] EXCEPT !.reserved = @ - old, !.consumed = @ + n,
                                                 !.available = @ - delta, !.refunded = @ + back]
    BY <1>14, <1>19 DEF TypeOK
  <2> QED  BY <2>1, <2>2 DEF SnapshotRow
<1>21. /\ snapshots' = [b \in Accounts |-> snapshots'[b]]
       /\ \A b \in Accounts \ {acc} : snapshots'[b] = snapshots[b]
  BY <1>14, <1>19 DEF TypeOK
<1>22. \A b \in Accounts :
         /\ snapshots[b].available \in Nat /\ snapshots[b].reserved \in Nat
         /\ snapshots[b].consumed \in Nat /\ snapshots[b].refunded \in Nat
         /\ snapshots[b].granted \in Nat
  BY SnapshotFields
<1>23. snapshots' \in [Accounts -> Snapshot]
  <2>1. /\ snapshots[acc].available - delta \in Nat /\ snapshots[acc].reserved - old \in Nat
        /\ snapshots[acc].consumed + n \in Nat /\ snapshots[acc].refunded + back \in Nat
        /\ snapshots[acc].granted \in Nat
    BY <1>9, <1>14, <1>19, <1>22
  <2>2. snapshots'[acc] \in Snapshot  BY <1>20, <2>1 DEF SnapshotRow, Snapshot
  <2> QED  BY <1>21, <2>2 DEF TypeOK
<1>24. \A b \in Accounts :
         /\ snapshots'[b].available = (IF b = acc THEN snapshots[b].available - delta ELSE snapshots[b].available)
         /\ snapshots'[b].reserved = (IF b = acc THEN snapshots[b].reserved - old ELSE snapshots[b].reserved)
         /\ snapshots'[b].consumed = (IF b = acc THEN snapshots[b].consumed + n ELSE snapshots[b].consumed)
         /\ snapshots'[b].refunded = (IF b = acc THEN snapshots[b].refunded + back ELSE snapshots[b].refunded)
         /\ snapshots'[b].granted = snapshots[b].granted
  BY <1>20, <1>21 DEF SnapshotRow
<1>25. \A b \in Accounts :
      /\ Credited(b) \in Nat /\ Debited(b) \in Nat /\ DirectConsumed(b) \in Nat
      /\ DirectRefunded(b) \in Nat /\ Granted(b) \in Nat
      /\ Total(ActualAmounts(b)) \in Nat /\ Total(ReturnedAmounts(b)) \in Nat
  BY SumsType
<1>26. \A b \in Accounts :
      /\ snapshots'[b].available - snapshots[b].available
           = (Credited(b)' - Debited(b)') - (Credited(b) - Debited(b))
      /\ snapshots'[b].reserved - snapshots[b].reserved
           = Total(OpenAmounts(b)') - Total(OpenAmounts(b))
      /\ snapshots'[b].granted - snapshots[b].granted = Granted(b)' - Granted(b)
      /\ Credited(b)' \in Nat /\ Debited(b)' \in Nat /\ Granted(b)' \in Nat
  BY <1>9, <1>15, <1>16, <1>19, <1>22, <1>24, <1>25
<1>27. \A b \in Accounts :
      /\ snapshots'[b].consumed - snapshots[b].consumed
           = (Total(ActualAmounts(b)') + DirectConsumed(b)')
               - (Total(ActualAmounts(b)) + DirectConsumed(b))
      /\ snapshots'[b].refunded - snapshots[b].refunded
           = (Total(ReturnedAmounts(b)') + DirectRefunded(b)')
               - (Total(ReturnedAmounts(b)) + DirectRefunded(b))
      /\ DirectConsumed(b)' \in Nat /\ DirectRefunded(b)' \in Nat
      /\ Total(ActualAmounts(b)') \in Nat /\ Total(ReturnedAmounts(b)') \in Nat
  BY <1>9, <1>15, <1>17, <1>22, <1>24, <1>25
<1>28. SnapshotMatchesLedger'  BY <1>16, <1>23, <1>26, <1>27, MatchStep
<1>30. FundsConserved'
  <2> SUFFICES ASSUME NEW b \in Accounts
               PROVE  snapshots'[b].available + snapshots'[b].reserved + snapshots'[b].consumed
                        = snapshots'[b].granted + DirectRefunded(b)'
    BY DEF FundsConserved
  <2>1. snapshots[b].available + snapshots[b].reserved + snapshots[b].consumed
          = snapshots[b].granted + DirectRefunded(b)
    BY DEF FundsConserved
  <2>2. /\ snapshots[b].available \in Nat /\ snapshots[b].reserved \in Nat
        /\ snapshots[b].consumed \in Nat /\ snapshots[b].granted \in Nat
        /\ DirectRefunded(b) \in Nat
        /\ DirectRefunded(b)' = DirectRefunded(b) /\ snapshots'[b].granted = snapshots[b].granted
    BY <1>15, <1>22, <1>24, <1>25
  <2> HIDE <1>0
  <2>3. CASE b = acc
    <3>1. /\ snapshots'[b].available = snapshots[b].available - delta
          /\ snapshots'[b].reserved = snapshots[b].reserved - old
          /\ snapshots'[b].consumed = snapshots[b].consumed + n
      BY <1>24, <2>3
    <3>2. delta \in Int /\ old \in Nat /\ delta = n - old  BY <1>9, <1>19
    <3> QED  BY <2>1, <2>2, <3>1, <3>2
  <2>4. CASE b # acc
    <3>1. /\ snapshots'[b].available = snapshots[b].available
          /\ snapshots'[b].reserved = snapshots[b].reserved
          /\ snapshots'[b].consumed = snapshots[b].consumed
      BY <1>24, <2>4
    <3> QED  BY <2>1, <2>2, <3>1
  <2> QED  BY <2>3, <2>4
<1>29. ReservationsKept  BY <1>1, <1>4, <1>8 DEF ReservationsKept
<1> QED  BY <1>29, <1>7, <1>12, <1>13, <1>15, <1>18, <1>23, <1>28, <1>30 DEF CoreInv, TypeOK

\* A rebuild changes nothing, because the snapshot already matches.
LEMMA RebuildInv ==
    ASSUME LInv, NEW a \in Accounts, RebuildSnapshot(a)
    PROVE  UNCHANGED vars
<1>1. snapshots[a] = ExpectedSnapshot(a)  BY DEF LInv, CoreInv, SnapshotMatchesLedger
<1>2. snapshots' = snapshots  BY <1>1 DEF RebuildSnapshot, LInv, CoreInv, TypeOK
<1> QED  BY <1>2 DEF RebuildSnapshot, vars

\* A step that leaves the four ledger tables alone.
LEMMA QuietInv ==
    ASSUME LInv, UNCHANGED <<snapshots, reservations, settlements, entries>>,
           outbox' \in [Keys -> Event \cup {NoRow}]
    PROVE  CoreInv'
<1>1. TypeOK'  BY DEF LInv, CoreInv, TypeOK
<1>2. SettlementsRefer'  BY DEF LInv, CoreInv, SettlementsRefer
<1>3. \A a \in Accounts : ExpectedSnapshot(a)' = ExpectedSnapshot(a)
  BY DEF ExpectedSnapshot, Credited, Debited, DirectConsumed, DirectRefunded, EntryAmounts,
         ActualAmounts, ReturnedAmounts, OpenAmounts, SettledOn, IsOpen
<1>4. SnapshotMatchesLedger'  BY <1>3 DEF LInv, CoreInv, SnapshotMatchesLedger
<1>5. \A a \in Accounts : DirectRefunded(a)' = DirectRefunded(a)  BY DEF DirectRefunded, EntryAmounts
<1>6. FundsConserved'  BY <1>5 DEF LInv, CoreInv, FundsConserved
<1> QED  BY <1>1, <1>2, <1>4, <1>6 DEF CoreInv

\* The empty tables add up to the empty snapshots.
LEMMA InitInv == Init => LInv
<1> SUFFICES ASSUME Init PROVE LInv  OBVIOUS
<1>1. TypeOK
  <2>1. snapshots \in [Accounts -> Snapshot]  BY DEF Init, Snapshot
  <2> QED  BY <2>1 DEF Init, TypeOK
<1>2. SettlementsRefer  BY DEF Init, SettlementsRefer
<1>3. SnapshotMatchesLedger
  <2> SUFFICES ASSUME NEW a \in Accounts PROVE snapshots[a] = ExpectedSnapshot(a)
    BY DEF SnapshotMatchesLedger
  <2>1. \A T, R : Total(EntryAmounts(a, T, R)) = 0
    <3> SUFFICES ASSUME NEW T, NEW R PROVE Total(EntryAmounts(a, T, R)) = 0  OBVIOUS
    <3>1. EntryAmounts(a, T, R) = [e \in EntryKeys |-> 0]  BY DEF EntryAmounts, Init
    <3> QED  BY <3>1, TotalZero
  <2>2. Total(OpenAmounts(a)) = 0
    <3>1. OpenAmounts(a) = [r \in Keys |-> 0]  BY DEF OpenAmounts, IsOpen, Init
    <3> QED  BY <3>1, TotalZero
  <2>3. Total(ActualAmounts(a)) = 0 /\ Total(ReturnedAmounts(a)) = 0
    <3>1. ActualAmounts(a) = [k \in Keys |-> 0]  BY DEF ActualAmounts, SettledOn, Init
    <3>2. ReturnedAmounts(a) = [k \in Keys |-> 0]  BY DEF ReturnedAmounts, SettledOn, Init
    <3> QED  BY <3>1, <3>2, TotalZero
  <2>4. /\ Credited(a) = 0 /\ Debited(a) = 0 /\ DirectConsumed(a) = 0 /\ DirectRefunded(a) = 0
        /\ Total(EntryAmounts(a, {"grant_credit"}, ReferenceTypes)) = 0
    BY <2>1 DEF Credited, Debited, DirectConsumed, DirectRefunded
  <2>5. ExpectedSnapshot(a) = SnapshotRow(0, 0, 0, 0, 0)
    BY <2>2, <2>3, <2>4 DEF ExpectedSnapshot, SnapshotRow
  <2> QED  BY <2>5 DEF Init, SnapshotRow
<1>4. FundsConserved
  <2> SUFFICES ASSUME NEW a \in Accounts
               PROVE  snapshots[a].available + snapshots[a].reserved + snapshots[a].consumed
                        = snapshots[a].granted + DirectRefunded(a)
    BY DEF FundsConserved
  <2>1. EntryAmounts(a, {"settle_credit"}, NotSettlement) = [e \in EntryKeys |-> 0]
    BY DEF EntryAmounts, Init
  <2>2. DirectRefunded(a) = 0  BY <2>1, TotalZero DEF DirectRefunded
  <2> QED  BY <2>2 DEF Init
<1>5. ReleasesRefer  BY DEF ReleasesRefer, Init
<1> QED  BY <1>1, <1>2, <1>3, <1>4, <1>5 DEF LInv, CoreInv

\* Every transaction preserves the core of the inductive invariant.
LEMMA CoreStep == LInv /\ [Next]_vars => CoreInv'
<1> SUFFICES ASSUME LInv, [Next]_vars PROVE CoreInv'  OBVIOUS
<1>0. Amounts \subseteq Nat /\ 0..MaxAmount \subseteq Nat  BY LedgerAssumption DEF Amounts
<1>1. ASSUME NEW a \in Accounts, NEW n \in Amounts, NEW k \in Keys,
             CreditAccount(a, n, k) \/ ConsumeAvailable(a, n, k) \/ RefundAvailable(a, n, k)
      PROVE  CoreInv'
  BY <1>0, <1>1, DirectInv
<1>2. ASSUME NEW a \in Accounts, NEW k \in Keys, RecordAdjustment(a, k) PROVE CoreInv'
  <2>1. 0 \in Nat  OBVIOUS
  <2> QED  BY <1>2, <2>1, DirectInv
<1>3. ASSUME NEW a \in Accounts, NEW q \in Requests, NEW n \in Amounts, NEW k \in Keys,
             CreateReservation(a, q, n, k)
      PROVE  CoreInv'
  BY <1>0, <1>3, CreateInv
<1>4. ASSUME NEW r \in Keys, NEW n \in Amounts, NEW k \in Keys, IncreaseReservation(r, n, k) PROVE CoreInv'
  BY <1>0, <1>4, IncreaseInv
<1>5. ASSUME NEW r \in Keys, NEW n \in 0..MaxAmount, NEW k \in Keys, SettleReservation(r, n, k) PROVE CoreInv'
  BY <1>0, <1>5, SettleInv
<1>6. ASSUME NEW r \in Keys, NEW k \in Keys, ReleaseReservation(r, k) PROVE CoreInv'
  BY <1>6, ReleaseInv
<1>7. ASSUME NEW k \in Keys, CleanupOutbox(k) PROVE CoreInv'
  <2>1. outbox' \in [Keys -> Event \cup {NoRow}]  BY <1>7 DEF CleanupOutbox, LInv, CoreInv, TypeOK
  <2> QED  BY <1>7, <2>1, QuietInv DEF CleanupOutbox
<1>8. ASSUME UNCHANGED vars PROVE CoreInv'
  <2>1. outbox' \in [Keys -> Event \cup {NoRow}]  BY <1>8 DEF vars, LInv, CoreInv, TypeOK
  <2> QED  BY <1>8, <2>1, QuietInv DEF vars
<1>9. ASSUME NEW a \in Accounts, RebuildSnapshot(a) PROVE CoreInv'
  BY <1>8, <1>9, RebuildInv
<1> QED  BY <1>1, <1>2, <1>3, <1>4, <1>5, <1>6, <1>7, <1>8, <1>9 DEF Next

\* An insert under a free key, or no insert, keeps the rows there are.
LEMMA EntriesKept ==
    ASSUME TypeOK, NEW e \in EntryKeys, entries[e] = NoRow, NEW row,
           entries' = [entries EXCEPT ![e] = row]
    PROVE  \A x \in EntryKeys : entries[x] # NoRow => entries'[x] = entries[x]
BY DEF TypeOK

\* One transaction appends to the journal and leaves ended holds alone.
LEMMA AppendStep == LInv /\ [Next]_vars => [AppendOnly]_vars
<1> SUFFICES ASSUME LInv, Next PROVE AppendOnly  OBVIOUS
<1>0. TypeOK  BY DEF LInv, CoreInv
<1> USE <1>0
<1> USE LedgerAssumption, KeysOfEntries DEF Amounts
<1> DEFINE EK == \A e \in EntryKeys : entries[e] # NoRow => entries'[e] = entries[e]
           SK == \A k \in Keys : settlements[k] # NoRow => settlements'[k] = settlements[k]
<1>q. (EK /\ SK /\ ReservationsKept) => AppendOnly  BY DEF AppendOnly, ReservationsKept
<1>u. UNCHANGED settlements => SK  OBVIOUS
<1>v. UNCHANGED reservations => ReservationsKept  BY DEF ReservationsKept
<1> HIDE DEF EK, SK
<1>1. ASSUME NEW a \in Accounts, NEW n, NEW k \in Keys,
             CreditAccount(a, n, k) \/ ConsumeAvailable(a, n, k) \/ RefundAvailable(a, n, k)
               \/ RecordAdjustment(a, k)
      PROVE  AppendOnly
  <2>1. EK  BY <1>1, EntriesKept DEF EK, CreditAccount, ConsumeAvailable, RefundAvailable, RecordAdjustment, CreateEntry
  <2>2. UNCHANGED <<reservations, settlements>>
    BY <1>1 DEF CreditAccount, ConsumeAvailable, RefundAvailable, RecordAdjustment
  <2> QED  BY <1>q, <1>u, <1>v, <2>1, <2>2
<1>2. ASSUME NEW a \in Accounts, NEW q \in Requests, NEW n \in Amounts, NEW k \in Keys,
             CreateReservation(a, q, n, k)
      PROVE  AppendOnly
  <2>1. EK  BY <1>2, EntriesKept DEF EK, CreateReservation, CreateEntry
  <2>2. ReservationsKept  BY <1>2 DEF ReservationsKept, CreateReservation, TypeOK
  <2>3. UNCHANGED settlements  BY <1>2 DEF CreateReservation
  <2> QED  BY <1>q, <1>u, <2>1, <2>2, <2>3
<1>3. ASSUME NEW r \in Keys, NEW n \in Amounts, NEW k \in Keys, IncreaseReservation(r, n, k)
      PROVE  AppendOnly
  <2>1. EK  BY <1>3, EntriesKept DEF EK, IncreaseReservation, CreateEntry
  <2>2. ReservationsKept  BY <1>3, IncreaseInv
  <2>3. UNCHANGED settlements  BY <1>3 DEF IncreaseReservation
  <2> QED  BY <1>q, <1>u, <2>1, <2>2, <2>3
<1>4. ASSUME NEW r \in Keys, NEW k \in Keys, ReleaseReservation(r, k) PROVE AppendOnly
  <2>1. EK
    <3>1. CASE UNCHANGED entries  BY <3>1 DEF EK
    <3>2. CASE ~UNCHANGED entries
      BY <1>4, <3>2, EntriesKept DEF EK, ReleaseReservation, CreateEntry
    <3> QED  BY <3>1, <3>2
  <2>2. ReservationsKept  BY <1>4, ReleaseInv
  <2>3. UNCHANGED settlements  BY <1>4 DEF ReleaseReservation
  <2> QED  BY <1>q, <1>u, <2>1, <2>2, <2>3
<1>5. ASSUME NEW r \in Keys, NEW n \in 0..MaxAmount, NEW k \in Keys, SettleReservation(r, n, k)
      PROVE  AppendOnly
  <2>1. EK
    <3>1. CASE UNCHANGED entries  BY <3>1 DEF EK
    <3>2. CASE ~UNCHANGED entries
      BY <1>5, <3>2, EntriesKept DEF EK, SettleReservation, CreateEntry
    <3> QED  BY <3>1, <3>2
  <2>2. ReservationsKept  BY <1>5, SettleInv
  <2>3. SK  BY <1>5 DEF SK, SettleReservation, TypeOK
  <2> QED  BY <1>q, <2>1, <2>2, <2>3
<1>6. ASSUME UNCHANGED <<reservations, settlements, entries>> PROVE AppendOnly
  BY <1>6 DEF AppendOnly
<1>7. ASSUME NEW k \in Keys, CleanupOutbox(k) PROVE AppendOnly  BY <1>6, <1>7 DEF CleanupOutbox
<1>8. ASSUME NEW a \in Accounts, RebuildSnapshot(a) PROVE AppendOnly  BY <1>6, <1>8 DEF RebuildSnapshot
<1> HIDE LedgerAssumption, KeysOfEntries DEF Amounts
<1> QED  BY <1>1, <1>2, <1>3, <1>4, <1>5, <1>7, <1>8 DEF Next

\* Release entries keep to released reservations.
LEMMA ReleasesStep == LInv /\ [Next]_vars => ReleasesRefer'
<1> SUFFICES ASSUME LInv, [Next]_vars,
                    NEW e \in EntryKeys, entries'[e] # NoRow, entries'[e].type = "reserve_release"
             PROVE  /\ entries'[e].ref \in Keys /\ reservations'[entries'[e].ref] # NoRow
                    /\ reservations'[entries'[e].ref].status = "released"
  BY DEF ReleasesRefer
<1>0. TypeOK /\ ReleasesRefer  BY DEF LInv, CoreInv
<1>1. CASE UNCHANGED vars  BY <1>0, <1>1 DEF vars, ReleasesRefer
<1>2. CASE Next /\ entries[e] # NoRow
  <2>1. AppendOnly \/ UNCHANGED vars  BY AppendStep
  <2>2. entries'[e] = entries[e]  BY <1>2, <2>1 DEF AppendOnly, vars
  <2>3. reservations'[entries[e].ref] = reservations[entries[e].ref]
    BY <1>0, <1>2, <2>1, <2>2 DEF AppendOnly, ReleasesRefer, vars
  <2> QED  BY <1>0, <1>2, <2>2, <2>3 DEF ReleasesRefer
<1>3. CASE Next /\ entries[e] = NoRow
  <2>1. \A ek \in EntryKeys : \A a, type, refType, ref, n :
           CreateEntry(ek, a, type, refType, ref, n) =>
               /\ e = ek
               /\ entries'[e].type = type /\ entries'[e].ref = ref
    <3> SUFFICES ASSUME NEW ek \in EntryKeys, NEW a, NEW type, NEW refType, NEW ref, NEW n,
                        CreateEntry(ek, a, type, refType, ref, n)
                 PROVE  e = ek /\ entries'[e].type = type /\ entries'[e].ref = ref
      OBVIOUS
    <3>1. entries' = [entries EXCEPT ![ek] = EntryRow(a, type, refType, ref, n)]
      BY DEF CreateEntry, EntryRow
    <3>2. e = ek /\ entries'[e] = EntryRow(a, type, refType, ref, n)
      BY <1>0, <1>3, <3>1 DEF TypeOK
    <3> QED  BY <3>2 DEF EntryRow
  <2>2. ASSUME NEW a \in Accounts, NEW n, NEW k \in Keys,
               CreditAccount(a, n, k) \/ ConsumeAvailable(a, n, k) \/ RefundAvailable(a, n, k)
                 \/ RecordAdjustment(a, k)
        PROVE  FALSE
    BY <2>1, <2>2, KeysOfEntries
       DEF CreditAccount, ConsumeAvailable, RefundAvailable, RecordAdjustment
  <2>3. ASSUME NEW a \in Accounts, NEW q \in Requests, NEW n \in Amounts, NEW k \in Keys,
               CreateReservation(a, q, n, k)
        PROVE  FALSE
    BY <2>1, <2>3, KeysOfEntries DEF CreateReservation
  <2>4. ASSUME NEW r \in Keys, NEW n \in Amounts, NEW k \in Keys, IncreaseReservation(r, n, k)
        PROVE  FALSE
    BY <2>1, <2>4, KeysOfEntries DEF IncreaseReservation
  <2>5. ASSUME NEW r \in Keys, NEW n \in 0..MaxAmount, NEW k \in Keys, SettleReservation(r, n, k)
        PROVE  FALSE
    <3>1. ~UNCHANGED entries  BY <1>3
    <3>2. \E type \in {"settle_debit", "settle_credit"} : \E a, n1 :
             CreateEntry(EntryOf(k), a, type, "settlement", k, n1)
      BY <2>5, <3>1 DEF SettleReservation
    <3> QED  BY <2>1, <3>2, KeysOfEntries
  <2>6. ASSUME NEW r \in Keys, NEW k \in Keys, ReleaseReservation(r, k)
        PROVE  /\ entries'[e].ref \in Keys /\ reservations'[entries'[e].ref] # NoRow
               /\ reservations'[entries'[e].ref].status = "released"
    <3>1. entries'[e].ref = r  BY <1>3, <2>1, <2>6, KeysOfEntries DEF ReleaseReservation
    <3>2. reservations'[r].status = "released"  BY <1>0, <2>6 DEF ReleaseReservation, TypeOK, Reservation, IsOpen
    <3>3. reservations'[r] # NoRow  BY <2>6, ReleaseInv DEF ReservationsKept, ReleaseReservation, IsOpen
    <3> QED  BY <3>1, <3>2, <3>3
  <2>7. ASSUME NEW k \in Keys, CleanupOutbox(k) PROVE FALSE  BY <1>3, <2>7 DEF CleanupOutbox
  <2>8. ASSUME NEW a \in Accounts, RebuildSnapshot(a) PROVE FALSE  BY <1>3, <2>8 DEF RebuildSnapshot
  <2> QED  BY <1>3, <2>2, <2>3, <2>4, <2>5, <2>6, <2>7, <2>8 DEF Next
<1> QED  BY <1>1, <1>2, <1>3

\* Every transaction preserves the inductive invariant.
LEMMA NextInv == LInv /\ [Next]_vars => LInv'
BY CoreStep, ReleasesStep DEF LInv

-----------------------------------------------------------------------------
\* The inductive invariant holds in every reachable state.
THEOREM LedgerInvariant == Spec => []LInv
<1> QED  BY InitInv, NextInv, PTL DEF Spec

(***************************************************************************)
(* No balance column ever becomes negative, whatever transactions run in   *)
(* whatever order.                                                         *)
(***************************************************************************)
THEOREM LedgerTypeOK == Spec => []TypeOK
<1>1. LInv => TypeOK  BY DEF LInv, CoreInv
<1> QED  BY <1>1, LedgerInvariant, PTL

(***************************************************************************)
(* Every snapshot is what the reconciliation query computes from the       *)
(* journal, so the repair jobs never find or make a difference.            *)
(***************************************************************************)
THEOREM LedgerReconciles == Spec => []SnapshotMatchesLedger
<1>1. LInv => SnapshotMatchesLedger  BY DEF LInv, CoreInv
<1> QED  BY <1>1, LedgerInvariant, PTL

(***************************************************************************)
(* No operation creates or destroys funds of an account: every grant and   *)
(* every refund outside a reservation is available, held or consumed.      *)
(***************************************************************************)
THEOREM LedgerConserves == Spec => []FundsConserved
<1>1. LInv => FundsConserved  BY DEF LInv, CoreInv, CoreInv
<1> QED  BY <1>1, LedgerInvariant, PTL

(***************************************************************************)
(* No transaction changes or removes a ledger entry or a settlement, and   *)
(* none writes a reservation that was settled or released.                 *)
(***************************************************************************)
THEOREM LedgerAppendOnly == Spec => JournalAppendOnly
<1> QED  BY LedgerInvariant, AppendStep, PTL DEF Spec, JournalAppendOnly

-----------------------------------------------------------------------------
(***************************************************************************)
(* How holds end.  The hold entries of a reservation must refer to it      *)
(* before the next operation, so that a new reservation starts without     *)
(* any; releases and settlements already refer to ended ones.              *)
(***************************************************************************)
HoldsRefer ==
    \A e \in EntryKeys : entries[e] # NoRow /\ entries[e].type = "reserve_hold" =>
        entries[e].ref \in Keys /\ reservations[entries[e].ref] # NoRow

OneEnd(r) ==
    /\ Total(HoldEntries(r)) = reservations[r].amount
    /\ Cardinality(ReleasesOf(r)) = (IF reservations[r].status = "released" THEN 1 ELSE 0)
    /\ Cardinality(SettlementsOf(r)) = (IF reservations[r].status = "settled" THEN 1 ELSE 0)
    /\ \A e \in ReleasesOf(r) : entries[e].amount = reservations[r].amount

HInv == LInv /\ HoldsRefer /\ OneEndPerHold

\* What inserting one entry does to the holds and releases of a reservation.
HoldEffect(e, row, r) ==
    /\ Total(HoldEntries(r)) \in Nat
    /\ Total(HoldEntries(r)') =
         Total(HoldEntries(r)) + (IF row.type = "reserve_hold" /\ row.ref = r THEN row.amount ELSE 0)
    /\ ReleasesOf(r)' =
         ReleasesOf(r) \cup (IF row.type = "reserve_release" /\ row.ref = r THEN {e} ELSE {})
    /\ \A x \in ReleasesOf(r) : entries'[x] = entries[x]

LEMMA HoldInsert ==
    ASSUME TypeOK, NEW e \in EntryKeys, entries[e] = NoRow, NEW row \in Entry,
           entries' = [entries EXCEPT ![e] = row], NEW r \in Keys
    PROVE  HoldEffect(e, row, r)
<1> DEFINE f == HoldEntries(r)
           g == HoldEntries(r)'
<1>0. row # NoRow /\ row.amount \in Nat  BY NoRowAssumption DEF Entry
<1>1. f \in [EntryKeys -> Nat]
  <2> SUFFICES ASSUME NEW x \in EntryKeys, entries[x] # NoRow PROVE entries[x].amount \in Nat
    BY DEF HoldEntries
  <2> QED  BY DEF TypeOK, Entry
<1>2. \A x \in EntryKeys \ {e} : g[x] = f[x]  BY DEF HoldEntries, TypeOK
<1>3. f[e] = 0  BY DEF HoldEntries
<1>4. g[e] = IF row.type = "reserve_hold" /\ row.ref = r THEN row.amount ELSE 0
  BY <1>0 DEF HoldEntries, TypeOK
<1>5. g = [x \in EntryKeys |-> g[x]]  BY DEF HoldEntries
<1>6. \A x \in EntryKeys : g[x] \in Nat  BY <1>0, <1>1, <1>2, <1>4
<1>7. g \in [EntryKeys -> Nat]  BY <1>5, <1>6
<1> HIDE DEF f, g
<1>8. Total(f) \in Nat /\ Total(g) = Total(f) - f[e] + g[e]
  BY <1>1, <1>2, <1>7, EntryKeysFinite, TotalUpdate
<1>9. Total(g) = Total(f) + g[e]  BY <1>3, <1>6, <1>8
<1>10. entries'[e] = row /\ \A x \in EntryKeys \ {e} : entries'[x] = entries[x]  BY DEF TypeOK
<1>11. ReleasesOf(r)' =
         ReleasesOf(r) \cup (IF row.type = "reserve_release" /\ row.ref = r THEN {e} ELSE {})
  <2>1. \A x \in EntryKeys : x \in ReleasesOf(r)' <=>
           \/ x \in ReleasesOf(r)
           \/ x = e /\ row.type = "reserve_release" /\ row.ref = r
    BY <1>0, <1>10 DEF ReleasesOf
  <2>2. ReleasesOf(r)' \subseteq EntryKeys /\ ReleasesOf(r) \subseteq EntryKeys  BY DEF ReleasesOf
  <2> QED  BY <2>1, <2>2
<1>12. \A x \in ReleasesOf(r) : entries'[x] = entries[x]  BY <1>10 DEF ReleasesOf
<1> QED  BY <1>4, <1>8, <1>9, <1>11, <1>12 DEF f, g, HoldEffect

\* A key without a reservation has no holds, releases or settlements.
LEMMA NothingHeld ==
    ASSUME HInv, NEW r \in Keys, reservations[r] = NoRow
    PROVE  Total(HoldEntries(r)) = 0 /\ ReleasesOf(r) = {} /\ SettlementsOf(r) = {}
<1>1. HoldEntries(r) = [e \in EntryKeys |-> 0]  BY DEF HInv, HoldsRefer, HoldEntries
<1>2. Total(HoldEntries(r)) = 0  BY <1>1, TotalZero
<1> QED  BY <1>2 DEF HInv, LInv, CoreInv, ReleasesRefer, SettlementsRefer, ReleasesOf, SettlementsOf

\* An open reservation has no release and no settlement.
LEMMA OpenHasNoEnd ==
    ASSUME HInv, NEW r \in Keys, IsOpen(r)
    PROVE  ReleasesOf(r) = {} /\ SettlementsOf(r) = {}
BY DEF HInv, LInv, CoreInv, ReleasesRefer, SettlementsRefer, ReleasesOf, SettlementsOf, IsOpen

LEMMA Counts == Cardinality({}) = 0 /\ \A x : Cardinality({x}) = 1
BY FS_EmptySet, FS_Singleton

\* A reservation whose row, entries and settlements stay keeps its one end.
LEMMA EndKept ==
    ASSUME HInv, NEW r \in Keys, reservations[r] # NoRow, reservations'[r] = reservations[r],
           Total(HoldEntries(r)') = Total(HoldEntries(r)), ReleasesOf(r)' = ReleasesOf(r),
           \A x \in ReleasesOf(r) : entries'[x] = entries[x], SettlementsOf(r)' = SettlementsOf(r)
    PROVE  OneEnd(r)'
<1>1. OneEnd(r)  BY DEF HInv, OneEndPerHold, OneEnd
<1> QED  BY <1>1 DEF OneEnd

\* Credits, direct adjustments and audit entries touch no hold.
LEMMA DirectEnds ==
    ASSUME HInv, NEW a \in Accounts, NEW n \in Nat, NEW k \in Keys,
           CreditAccount(a, n, k) \/ ConsumeAvailable(a, n, k) \/ RefundAvailable(a, n, k)
             \/ RecordAdjustment(a, k),
           NEW r \in Keys, reservations'[r] # NoRow
    PROVE  OneEnd(r)'
<1>1. UNCHANGED <<reservations, settlements>>
  BY DEF CreditAccount, ConsumeAvailable, RefundAvailable, RecordAdjustment
<1>2. PICK type \in EntryTypes \ {"reserve_hold", "reserve_release"}, m \in Nat :
        CreateEntry(Plain(k), a, type, "other", NoRow, m)
  BY DEF CreditAccount, ConsumeAvailable, RefundAvailable, RecordAdjustment, EntryTypes
<1> DEFINE row == EntryRow(a, type, "other", NoRow, m)
<1>3. row \in Entry /\ row.type = type  BY DEF EntryRow, Entry, ReferenceTypes
<1>4. entries[Plain(k)] = NoRow /\ entries' = [entries EXCEPT ![Plain(k)] = row]
  BY <1>2 DEF CreateEntry, EntryRow
<1>5. TypeOK  BY DEF HInv, LInv, CoreInv
<1>6. /\ Total(HoldEntries(r)') = Total(HoldEntries(r)) + 0 /\ Total(HoldEntries(r)) \in Nat
      /\ ReleasesOf(r)' = ReleasesOf(r) \cup {}
      /\ \A x \in ReleasesOf(r) : entries'[x] = entries[x]
  <2> HIDE DEF row
  <2>1. HoldEffect(Plain(k), row, r)  BY <1>2, <1>3, <1>4, <1>5, KeysOfEntries, HoldInsert
  <2> QED  BY <2>1, <1>2, <1>3, <1>4, <1>5 DEF HoldEffect
<1>7. SettlementsOf(r)' = SettlementsOf(r)  BY <1>1 DEF SettlementsOf
<1> QED  BY <1>1, <1>6, <1>7, EndKept

\* A new reservation starts with one hold entry of its amount.
LEMMA CreateEnds ==
    ASSUME HInv, NEW a \in Accounts, NEW q \in Requests, NEW n \in Nat, NEW k \in Keys,
           CreateReservation(a, q, n, k), NEW r \in Keys, reservations'[r] # NoRow
    PROVE  OneEnd(r)'
<1> DEFINE row == EntryRow(a, "reserve_hold", "reservation", k, n)
<1>1. row \in Entry /\ row.type = "reserve_hold" /\ row.ref = k /\ row.amount = n
  BY DEF EntryRow, Entry, EntryTypes, ReferenceTypes
<1>2. entries[EntryOf(k)] = NoRow /\ entries' = [entries EXCEPT ![EntryOf(k)] = row]
  BY DEF CreateReservation, CreateEntry, EntryRow
<1>3. TypeOK  BY DEF HInv, LInv, CoreInv
<1>4. /\ Total(HoldEntries(r)') = Total(HoldEntries(r)) + (IF k = r THEN n ELSE 0)
      /\ Total(HoldEntries(r)) \in Nat
      /\ ReleasesOf(r)' = ReleasesOf(r) \cup {}
      /\ \A x \in ReleasesOf(r) : entries'[x] = entries[x]
  <2> HIDE DEF row
  <2>1. HoldEffect(EntryOf(k), row, r)  BY <1>1, <1>2, <1>3, KeysOfEntries, HoldInsert
  <2> QED  BY <2>1, <1>1, <1>2, <1>3 DEF HoldEffect
<1>5. SettlementsOf(r)' = SettlementsOf(r)  BY DEF CreateReservation, SettlementsOf
<1>6. reservations[k] = NoRow /\ reservations' = [reservations EXCEPT ![k] = ReservationRow(a, q, n, "open")]
  BY DEF CreateReservation, ReservationRow
<1>7. CASE r = k
  <2>1. reservations'[k].amount = n /\ reservations'[k].status = "open"
    BY <1>3, <1>6 DEF TypeOK, ReservationRow
  <2>2. Total(HoldEntries(k)) = 0 /\ ReleasesOf(k) = {} /\ SettlementsOf(k) = {}
    BY <1>6, NothingHeld
  <2> QED  BY <1>4, <1>5, <1>7, <2>1, <2>2, Counts DEF OneEnd
<1>8. CASE r # k
  <2>1. reservations'[r] = reservations[r]  BY <1>3, <1>6, <1>8 DEF TypeOK
  <2> QED  BY <1>4, <1>5, <1>8, <2>1, EndKept
<1> QED  BY <1>7, <1>8

\* An increase adds a hold entry of what it adds to the amount.
LEMMA IncreaseEnds ==
    ASSUME HInv, NEW i \in Keys, NEW n \in Nat, NEW k \in Keys,
           IncreaseReservation(i, n, k), NEW r \in Keys, reservations'[r] # NoRow
    PROVE  OneEnd(r)'
<1> DEFINE row == EntryRow(reservations[i].account, "reserve_hold", "reservation", i, n)
<1>0. TypeOK  BY DEF HInv, LInv, CoreInv
<1>1. /\ IsOpen(i)
      /\ reservations[i] \in Reservation
      /\ reservations' = [reservations EXCEPT ![i].amount = @ + n]
      /\ UNCHANGED settlements
  BY <1>0 DEF IncreaseReservation, IsOpen, TypeOK
<1>2. row \in Entry /\ row.type = "reserve_hold" /\ row.ref = i /\ row.amount = n
  BY <1>1 DEF EntryRow, Entry, EntryTypes, ReferenceTypes, Reservation
<1>3. entries[Plain(k)] = NoRow /\ entries' = [entries EXCEPT ![Plain(k)] = row]
  BY DEF IncreaseReservation, CreateEntry, EntryRow
<1>4. /\ Total(HoldEntries(r)') = Total(HoldEntries(r)) + (IF i = r THEN n ELSE 0)
      /\ Total(HoldEntries(r)) \in Nat
      /\ ReleasesOf(r)' = ReleasesOf(r) \cup {}
      /\ \A x \in ReleasesOf(r) : entries'[x] = entries[x]
  <2> HIDE DEF row
  <2>1. HoldEffect(Plain(k), row, r)  BY <1>0, <1>2, <1>3, KeysOfEntries, HoldInsert
  <2> QED  BY <2>1, <1>0, <1>2, <1>3 DEF HoldEffect
<1>5. SettlementsOf(r)' = SettlementsOf(r)  BY <1>1 DEF SettlementsOf
<1>6. CASE r = i
  <2>1. reservations'[i].amount = reservations[i].amount + n /\ reservations'[i].status = "open"
    BY <1>0, <1>1 DEF TypeOK, Reservation, IsOpen
  <2>2. Total(HoldEntries(i)) = reservations[i].amount
    BY <1>1 DEF HInv, OneEndPerHold, IsOpen
  <2>3. ReleasesOf(i) = {} /\ SettlementsOf(i) = {}  BY <1>1, OpenHasNoEnd
  <2> QED  BY <1>4, <1>5, <1>6, <2>1, <2>2, <2>3, Counts DEF OneEnd
<1>7. CASE r # i
  <2>1. reservations'[r] = reservations[r]  BY <1>0, <1>1, <1>7 DEF TypeOK
  <2> QED  BY <1>4, <1>5, <1>7, <2>1, EndKept
<1> QED  BY <1>6, <1>7

(***************************************************************************)
(* A release inserts the only release entry of the reservation: the branch *)
(* that finds one already there is never taken by an open reservation.     *)
(***************************************************************************)
LEMMA ReleaseEnds ==
    ASSUME HInv, NEW i \in Keys, NEW k \in Keys,
           ReleaseReservation(i, k), NEW r \in Keys, reservations'[r] # NoRow
    PROVE  OneEnd(r)'
<1> DEFINE n == reservations[i].amount
           row == EntryRow(reservations[i].account, "reserve_release", "reservation", i, n)
<1>0. TypeOK  BY DEF HInv, LInv, CoreInv
<1>1. /\ IsOpen(i)
      /\ reservations[i] \in Reservation /\ n \in Nat
      /\ reservations' = [reservations EXCEPT ![i].status = "released"]
      /\ UNCHANGED settlements
  BY <1>0 DEF ReleaseReservation, IsOpen, TypeOK, Reservation
<1>2. ReleasesOf(i) = {} /\ SettlementsOf(i) = {}  BY <1>1, OpenHasNoEnd
<1>3. entries[Plain(k)] = NoRow /\ entries' = [entries EXCEPT ![Plain(k)] = row]
  <2>1. entries[Plain(k)] = NoRow
    BY <1>2, KeysOfEntries DEF ReleaseReservation, ReleasesOf
  <2> QED  BY <2>1 DEF ReleaseReservation, CreateEntry, EntryRow
<1>4. row \in Entry /\ row.type = "reserve_release" /\ row.ref = i /\ row.amount = n
  BY <1>1 DEF EntryRow, Entry, EntryTypes, ReferenceTypes, Reservation
<1>5. /\ Total(HoldEntries(r)') = Total(HoldEntries(r)) + 0 /\ Total(HoldEntries(r)) \in Nat
      /\ ReleasesOf(r)' = ReleasesOf(r) \cup (IF i = r THEN {Plain(k)} ELSE {})
      /\ \A x \in ReleasesOf(r) : entries'[x] = entries[x]
  <2> HIDE DEF row, n
  <2>1. HoldEffect(Plain(k), row, r)  BY <1>0, <1>3, <1>4, KeysOfEntries, HoldInsert
  <2> QED  BY <2>1, <1>0, <1>3, <1>4 DEF HoldEffect
<1>6. SettlementsOf(r)' = SettlementsOf(r)  BY <1>1 DEF SettlementsOf
<1>7. CASE r = i
  <2>1. reservations'[i].amount = n /\ reservations'[i].status = "released"
    BY <1>0, <1>1 DEF TypeOK, Reservation
  <2>2. Total(HoldEntries(i)) = n  BY <1>1 DEF HInv, OneEndPerHold, IsOpen
  <2>3. ReleasesOf(i)' = {Plain(k)}  BY <1>2, <1>5, <1>7
  <2>4. entries'[Plain(k)].amount = n
    BY <1>0, <1>3, <1>4, KeysOfEntries DEF TypeOK
  <2>5. Total(HoldEntries(i)') = n  BY <1>5, <1>7, <2>2
  <2>6. Cardinality(ReleasesOf(i)') = 1 /\ Cardinality(SettlementsOf(i)') = 0
    BY <1>2, <1>6, <1>7, <2>3, Counts
  <2> HIDE DEF n, row
  <2> QED  BY <1>7, <2>1, <2>3, <2>4, <2>5, <2>6 DEF OneEnd
<1>8. CASE r # i
  <2>1. reservations'[r] = reservations[r]  BY <1>0, <1>1, <1>8 DEF TypeOK
  <2> QED  BY <1>5, <1>6, <1>8, <2>1, EndKept
<1> QED  BY <1>7, <1>8

\* A settlement is the only one of its reservation, and adds no hold.
LEMMA SettleEnds ==
    ASSUME HInv, NEW i \in Keys, NEW n \in Nat, NEW k \in Keys,
           SettleReservation(i, n, k), NEW r \in Keys, reservations'[r] # NoRow
    PROVE  OneEnd(r)'
<1> DEFINE held == reservations[i].amount
           delta == n - held
           row == EntryRow(reservations[i].account,
                           IF delta > 0 THEN "settle_debit" ELSE "settle_credit", "settlement", k,
                           (IF delta > 0 THEN delta ELSE 0) + (IF delta < 0 THEN -delta ELSE 0))
<1>0. TypeOK  BY DEF HInv, LInv, CoreInv
<1>1. /\ IsOpen(i) /\ settlements[k] = NoRow
      /\ reservations[i] \in Reservation /\ held \in Nat
      /\ reservations' = [reservations EXCEPT ![i].status = "settled"]
      /\ settlements' = [settlements EXCEPT ![k] = [reservation |-> i, actual |-> n, delta |-> delta]]
  BY <1>0 DEF SettleReservation, IsOpen, TypeOK, Reservation
<1>2. ReleasesOf(i) = {} /\ SettlementsOf(i) = {}  BY <1>1, OpenHasNoEnd
<1>3. /\ Total(HoldEntries(r)') = Total(HoldEntries(r))
      /\ ReleasesOf(r)' = ReleasesOf(r)
      /\ \A x \in ReleasesOf(r) : entries'[x] = entries[x]
  <2>1. CASE delta = 0
    <3>1. UNCHANGED entries  BY <2>1 DEF SettleReservation
    <3> QED  BY <3>1 DEF HoldEntries, ReleasesOf
  <2>2. CASE delta # 0
    <3>1. delta \in Int  BY <1>1
    <3>2. (IF delta > 0 THEN delta ELSE 0) + (IF delta < 0 THEN -delta ELSE 0) \in Nat  BY <3>1
    <3>3. row \in Entry /\ row.type # "reserve_hold" /\ row.type # "reserve_release"
      BY <1>1, <3>2 DEF EntryRow, Entry, EntryTypes, ReferenceTypes, Reservation
    <3>4. entries[EntryOf(k)] = NoRow /\ entries' = [entries EXCEPT ![EntryOf(k)] = row]
      BY <2>2 DEF SettleReservation, CreateEntry, EntryRow
    <3> HIDE DEF row
    <3>5. HoldEffect(EntryOf(k), row, r)  BY <1>0, <3>3, <3>4, KeysOfEntries, HoldInsert
    <3> QED  BY <3>3, <3>5 DEF HoldEffect
  <2> QED  BY <2>1, <2>2
<1>4. SettlementsOf(r)' = SettlementsOf(r) \cup (IF r = i THEN {k} ELSE {})
  <2> DEFINE new == [reservation |-> i, actual |-> n, delta |-> delta]
  <2>1. settlements'[k] = new /\ \A x \in Keys \ {k} : settlements'[x] = settlements[x]
    BY <1>0, <1>1 DEF TypeOK
  <2>2. new # NoRow /\ new.reservation = i
    <3>1. delta \in Int  BY <1>1
    <3>2. new \in Settlement  BY <3>1 DEF Settlement
    <3> QED  BY <3>2, NoRowAssumption
  <2>3. \A x \in Keys : x \in SettlementsOf(r)' <=> x \in SettlementsOf(r) \/ (x = k /\ r = i)
    BY <1>1, <2>1, <2>2 DEF SettlementsOf
  <2>4. SettlementsOf(r)' \subseteq Keys /\ SettlementsOf(r) \subseteq Keys  BY DEF SettlementsOf
  <2> QED  BY <2>3, <2>4
<1>5. CASE r = i
  <2>1. reservations'[i].amount = held /\ reservations'[i].status = "settled"
    BY <1>0, <1>1 DEF TypeOK, Reservation
  <2>2. Total(HoldEntries(i)) = held  BY <1>1 DEF HInv, OneEndPerHold, IsOpen
  <2>3. ReleasesOf(i)' = {} /\ SettlementsOf(i)' = {k}  BY <1>2, <1>3, <1>4, <1>5
  <2> HIDE DEF held, delta, row
  <2> QED  BY <1>3, <1>5, <2>1, <2>2, <2>3, Counts DEF OneEnd
<1>6. CASE r # i
  <2>1. reservations'[r] = reservations[r]  BY <1>0, <1>1, <1>6 DEF TypeOK
  <2>2. reservations[r] # NoRow  BY <2>1
  <2> HIDE DEF held, delta, row
  <2> QED  BY <1>3, <1>4, <1>6, <2>1, <2>2, EndKept
<1> QED  BY <1>5, <1>6

\* Hold entries keep to reservations that exist.
LEMMA HoldsStep == HInv /\ [Next]_vars => HoldsRefer'
<1> SUFFICES ASSUME HInv, [Next]_vars,
                    NEW e \in EntryKeys, entries'[e] # NoRow, entries'[e].type = "reserve_hold"
             PROVE  entries'[e].ref \in Keys /\ reservations'[entries'[e].ref] # NoRow
  BY DEF HoldsRefer
<1>0. TypeOK /\ LInv /\ HoldsRefer  BY DEF HInv, LInv, CoreInv
<1>1. CASE UNCHANGED vars  BY <1>0, <1>1 DEF vars, HoldsRefer
<1>2. CASE Next /\ entries[e] # NoRow
  <2>1. AppendOnly \/ UNCHANGED vars  BY <1>0, <1>2, AppendStep
  <2>2. entries'[e] = entries[e]  BY <1>2, <2>1 DEF AppendOnly, vars
  <2>3. entries[e].ref \in Keys /\ reservations[entries[e].ref] # NoRow
    BY <1>0, <1>2, <2>2 DEF HoldsRefer
  <2>4. reservations'[entries[e].ref] # NoRow  BY <2>1, <2>3 DEF AppendOnly, vars
  <2> QED  BY <2>2, <2>3, <2>4
<1>3. CASE Next /\ entries[e] = NoRow
  <2>1. \A ek \in EntryKeys : \A a, type, refType, ref, n :
           CreateEntry(ek, a, type, refType, ref, n) =>
               e = ek /\ entries'[e].type = type /\ entries'[e].ref = ref
    <3> SUFFICES ASSUME NEW ek \in EntryKeys, NEW a, NEW type, NEW refType, NEW ref, NEW n,
                        CreateEntry(ek, a, type, refType, ref, n)
                 PROVE  e = ek /\ entries'[e].type = type /\ entries'[e].ref = ref
      OBVIOUS
    <3>1. entries' = [entries EXCEPT ![ek] = EntryRow(a, type, refType, ref, n)]
      BY DEF CreateEntry, EntryRow
    <3>2. e = ek /\ entries'[e] = EntryRow(a, type, refType, ref, n)
      BY <1>0, <1>3, <3>1 DEF TypeOK
    <3> QED  BY <3>2 DEF EntryRow
  <2>2. ASSUME NEW a \in Accounts, NEW n, NEW k \in Keys,
               CreditAccount(a, n, k) \/ ConsumeAvailable(a, n, k) \/ RefundAvailable(a, n, k)
                 \/ RecordAdjustment(a, k)
        PROVE  FALSE
    BY <2>1, <2>2, KeysOfEntries
       DEF CreditAccount, ConsumeAvailable, RefundAvailable, RecordAdjustment
  <2>3. ASSUME NEW a \in Accounts, NEW q \in Requests, NEW n \in Amounts, NEW k \in Keys,
               CreateReservation(a, q, n, k)
        PROVE  entries'[e].ref \in Keys /\ reservations'[entries'[e].ref] # NoRow
    <3>1. entries'[e].ref = k  BY <2>1, <2>3, KeysOfEntries DEF CreateReservation
    <3>2. ReservationRow(a, q, n, "open") # NoRow
      BY LedgerAssumption, NoRowAssumption DEF ReservationRow, Reservation, Amounts
    <3>3. reservations'[k] = ReservationRow(a, q, n, "open")
      BY <1>0, <2>3 DEF CreateReservation, ReservationRow, TypeOK
    <3> QED  BY <3>1, <3>2, <3>3
  <2>4. ASSUME NEW r \in Keys, NEW n \in Amounts, NEW k \in Keys, IncreaseReservation(r, n, k)
        PROVE  entries'[e].ref \in Keys /\ reservations'[entries'[e].ref] # NoRow
    <3>1. entries'[e].ref = r  BY <2>1, <2>4, KeysOfEntries DEF IncreaseReservation
    <3>2. n \in Nat  BY LedgerAssumption DEF Amounts
    <3>3. reservations'[r] # NoRow
      BY <1>0, <2>4, <3>2, IncreaseInv DEF ReservationsKept, IncreaseReservation, IsOpen
    <3> QED  BY <3>1, <3>3
  <2>5. ASSUME NEW r \in Keys, NEW n \in 0..MaxAmount, NEW k \in Keys, SettleReservation(r, n, k)
        PROVE  FALSE
    <3>1. ~UNCHANGED entries  BY <1>3
    <3>2. \E type \in {"settle_debit", "settle_credit"} : \E a, n1 :
             CreateEntry(EntryOf(k), a, type, "settlement", k, n1)
      BY <2>5, <3>1 DEF SettleReservation
    <3> QED  BY <2>1, <3>2, KeysOfEntries
  <2>6. ASSUME NEW r \in Keys, NEW k \in Keys, ReleaseReservation(r, k) PROVE FALSE
    BY <1>3, <2>1, <2>6, KeysOfEntries DEF ReleaseReservation
  <2>7. ASSUME NEW k \in Keys, CleanupOutbox(k) PROVE FALSE  BY <1>3, <2>7 DEF CleanupOutbox
  <2>8. ASSUME NEW a \in Accounts, RebuildSnapshot(a) PROVE FALSE  BY <1>3, <2>8 DEF RebuildSnapshot
  <2> QED  BY <1>3, <2>2, <2>3, <2>4, <2>5, <2>6, <2>7, <2>8 DEF Next
<1> QED  BY <1>1, <1>2, <1>3

\* Every transaction keeps one end per hold.
LEMMA EndsStep == HInv /\ [Next]_vars => OneEndPerHold'
<1> SUFFICES ASSUME HInv, [Next]_vars, NEW r \in Keys, reservations'[r] # NoRow PROVE OneEnd(r)'
  BY DEF OneEndPerHold, OneEnd
<1>0. /\ Amounts \subseteq Nat /\ 0..MaxAmount \subseteq Nat /\ 0 \in Nat
      /\ LInv
  BY LedgerAssumption DEF Amounts, HInv
<1>1. ASSUME NEW a \in Accounts, NEW n \in Amounts, NEW k \in Keys,
             CreditAccount(a, n, k) \/ ConsumeAvailable(a, n, k) \/ RefundAvailable(a, n, k)
      PROVE  OneEnd(r)'
  BY <1>0, <1>1, DirectEnds
<1>2. ASSUME NEW a \in Accounts, NEW k \in Keys, RecordAdjustment(a, k) PROVE OneEnd(r)'
  BY <1>0, <1>2, DirectEnds
<1>3. ASSUME NEW a \in Accounts, NEW q \in Requests, NEW n \in Amounts, NEW k \in Keys,
             CreateReservation(a, q, n, k)
      PROVE  OneEnd(r)'
  BY <1>0, <1>3, CreateEnds
<1>4. ASSUME NEW i \in Keys, NEW n \in Amounts, NEW k \in Keys, IncreaseReservation(i, n, k) PROVE OneEnd(r)'
  BY <1>0, <1>4, IncreaseEnds
<1>5. ASSUME NEW i \in Keys, NEW n \in 0..MaxAmount, NEW k \in Keys, SettleReservation(i, n, k) PROVE OneEnd(r)'
  BY <1>0, <1>5, SettleEnds
<1>6. ASSUME NEW i \in Keys, NEW k \in Keys, ReleaseReservation(i, k) PROVE OneEnd(r)'
  BY <1>6, ReleaseEnds
<1>7. ASSUME UNCHANGED <<reservations, settlements, entries>> PROVE OneEnd(r)'
  <2>1. HoldEntries(r)' = HoldEntries(r) /\ ReleasesOf(r)' = ReleasesOf(r) /\ SettlementsOf(r)' = SettlementsOf(r)
    BY <1>7 DEF HoldEntries, ReleasesOf, SettlementsOf
  <2> QED  BY <1>7, <2>1, EndKept
<1>8. ASSUME NEW k \in Keys, CleanupOutbox(k) PROVE OneEnd(r)'  BY <1>7, <1>8 DEF CleanupOutbox
<1>9. ASSUME NEW a \in Accounts, RebuildSnapshot(a) PROVE OneEnd(r)'  BY <1>7, <1>9 DEF RebuildSnapshot
<1>10. ASSUME UNCHANGED vars PROVE OneEnd(r)'  BY <1>7, <1>10 DEF vars
<1> QED  BY <1>1, <1>2, <1>3, <1>4, <1>5, <1>6, <1>8, <1>9, <1>10 DEF Next

(***************************************************************************)
(* Every hold comes to exactly one end: no reservation is both released    *)
(* and settled, released twice, or given up without its funds, and its     *)
(* hold entries add up to its amount.                                      *)
(***************************************************************************)
THEOREM LedgerOneEndPerHold == Spec => []OneEndPerHold
<1>1. Init => HInv
  <2>1. Init => HoldsRefer /\ OneEndPerHold  BY DEF Init, HoldsRefer, OneEndPerHold
  <2> QED  BY <2>1, InitInv DEF HInv
<1>2. HInv /\ [Next]_vars => HInv'
  BY NextInv, HoldsStep, EndsStep DEF HInv
<1>3. HInv => OneEndPerHold  BY DEF HInv
<1> QED  BY <1>1, <1>2, <1>3, PTL DEF Spec
=============================================================================
