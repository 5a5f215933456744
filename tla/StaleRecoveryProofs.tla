------------------------ MODULE StaleRecoveryProofs ------------------------
(***************************************************************************)
(* The billing of requests and the recovery of what they leave behind, for *)
(* any number of requests, runs, servers, faults, crashes and retries.     *)
(***************************************************************************)
EXTENDS StaleRecovery, FiniteSetTheorems, TLAPS

\* The lines at which a session can stand, and the types of its rows.
PCs == {"new", "reserving", "refundReserved", "returnToken", "live", "reserveToken",
        "reserveFunding", "reserveUndo", "grow", "readBalance", "growPart", "settle",
        "settleToken", "exhaust", "drain", "refund", "refundFunding", "refundToken",
        "done", "crashed"}

Holds == [status : {"none", "open", "settled", "released"}, amount : Nat,
          increases : SUBSET [target : Int, amount : Nat], charged : Nat,
          key : {"none", "relay", "recovery"}]
Funds == [known : BOOLEAN, reserved : Nat, legacyHeld : Int]
Calls == [kind : {"none", "reserve", "increase", "settle", "refund"}, amount : Nat,
          cancellable : BOOLEAN,
          at : {"idle", "wait", "find", "ledger", "project", "undo", "returned"},
          result : {"none", "ok", "insufficient", "error"}]
SessionObjects == [goal : Nat, tokenErr : {"none", "ok", "failed"}, preConsumed : Nat,
                   tokenConsumed : Nat, retries : Nat, used : Nat, charged : Nat,
                   settled : BOOLEAN, refunded : BOOLEAN, admitted : BOOLEAN]

\* The types that hold for every value of the constants; TypeOK bounds the amounts too.
Types ==
    /\ available \in Nat /\ legacy \in Int /\ credits \in Nat /\ earnings \in Nat
    /\ token \in Nat
    /\ hold \in [Requests -> Holds]
    /\ turn \in [Instances -> Sessions \cup {NoSession}]
    /\ fund \in [Sessions -> Funds]
    /\ op \in [Sessions -> Calls]
    /\ log \in [Sessions -> {"clean", "failed", "unrepaired"}]
    /\ sess \in [Sessions -> SessionObjects]
    /\ pc \in [Sessions -> PCs]

(***************************************************************************)
(* Where the handler is says which funding call it is in, and what it has  *)
(* taken and learnt so far.  Several runs of a request may share its hold, *)
(* so the hold is only known to have ended where it has.                   *)
(***************************************************************************)
Calling == {"reserving", "refundReserved", "reserveFunding", "grow", "growPart", "settle",
            "refundFunding"}

\* The funding call.
CallOfPc(s) ==
    /\ pc[s] = "new" => sess[s] = NewSession /\ op[s] = NoCall /\ fund[s] = NewFunding
    /\ pc[s] \notin Calling => op[s].at \in {"idle", "returned"}
    /\ pc[s] = "reserving" => /\ op[s].kind = "reserve" /\ op[s].amount = sess[s].goal
                              /\ sess[s].goal > 0
    /\ pc[s] = "reserveFunding" => op[s].kind = "increase" /\ op[s].amount = Growth(s)
    /\ pc[s] \in {"grow", "growPart"} => /\ op[s].kind = "increase" /\ ~op[s].cancellable
                                         /\ op[s].amount > 0
                                         /\ op[s].amount <= sess[s].used - sess[s].preConsumed
    /\ pc[s] = "settle" => /\ op[s].kind = "settle" /\ ~op[s].cancellable
                           /\ op[s].amount <= sess[s].used
    /\ pc[s] \in {"refundReserved", "refundFunding"} => op[s].kind = "refund" /\ ~op[s].cancellable
    /\ op[s].kind = "settle" => pc[s] \in {"settle", "settleToken", "exhaust", "drain", "done"}
    /\ op[s].kind = "refund" => pc[s] \in {"refundReserved", "refundFunding", "refundToken", "done"}
    /\ op[s].at # "idle" => op[s].kind # "none"
    /\ op[s].at = "find" => op[s].kind \in {"reserve", "settle"}
    /\ op[s].at \notin {"idle", "wait", "returned"} /\ op[s].kind # "reserve" => fund[s].known

\* The amounts.
AmountsOfPc(s) ==
    /\ pc[s] \in {"new", "reserving", "live", "reserveToken", "reserveFunding"} => sess[s].used = 0
    /\ pc[s] = "reserving" => sess[s].tokenConsumed = 0 /\ sess[s].preConsumed = 0
    /\ pc[s] \in {"reserveToken", "reserveFunding", "reserveUndo"} =>
         sess[s].goal > sess[s].preConsumed
    /\ pc[s] \in {"grow", "readBalance", "growPart"} => sess[s].used > sess[s].preConsumed
    /\ pc[s] \in {"exhaust", "drain"} => log[s] = "unrepaired"
    /\ pc[s] \in {"settleToken", "exhaust", "drain"} \/ sess[s].settled =>
         sess[s].charged <= sess[s].used

\* The end of the hold.
EndOfPc(s) ==
    /\ sess[s].settled => pc[s] = "done"
    /\ sess[s].refunded => pc[s] \in {"refundFunding", "refundToken", "done", "crashed"}
    /\ sess[s].refunded /\ pc[s] = "done" => H(s).status = "released"
    /\ pc[s] \in {"settleToken", "exhaust", "drain"} \/ sess[s].settled => H(s).status = "settled"
    /\ pc[s] = "settle" /\ Returned(s, {"ok"}) => H(s).status = "settled"
    /\ pc[s] \in {"reserving", "reserveFunding"} /\ Returned(s, {"ok"}) => fund[s].known
    /\ (/\ pc[s] \in {"live", "reserveToken", "reserveFunding", "reserveUndo", "refund",
                       "refundFunding"}
        /\ sess[s].tokenConsumed > 0) => fund[s].known
    /\ pc[s] = "refundFunding" => sess[s].tokenConsumed > 0
    /\ pc[s] = "refundFunding" /\ Returned(s, {"ok"}) => H(s).status = "released"
    /\ pc[s] = "refundToken" => H(s).status = "released"

\* The inductive invariant of one session, whoever shares its hold.
Control(s) == CallOfPc(s) /\ AmountsOfPc(s) /\ EndOfPc(s)

BillingInv == Types /\ \A s \in Sessions : Control(s)

(***************************************************************************)
(* The rows of the two sums.                                               *)
(***************************************************************************)
Charged == [r \in Requests |-> TakenFor(hold[r])]
TokenShares == [s \in Sessions |-> Cost(s, TokenShare(s))]

\* What recovery goes by: nothing is logged that the request did not use.
LogTrue ==
    \A r \in Requests : usageLog[r] # NoLog =>
        \E s \in Sessions : RequestOf[s] = r /\ usageLog[r] <= sess[s].used

RecoveryTypes ==
    /\ report \in [Sessions -> {"none", "due", "over"}]
    /\ usageLog \in [Requests -> Nat \cup {NoLog}]
    /\ expired \subseteq Requests
    /\ overlapped \in BOOLEAN

-----------------------------------------------------------------------------
(***************************************************************************)
(* One run per request.                                                    *)
(***************************************************************************)
OneRun == \A s, t \in Sessions : RequestOf[s] = RequestOf[t] => s = t

\* Before its settlement a request has not been charged.
Unsettled(s) ==
    \/ pc[s] \notin {"settle", "settleToken", "exhaust", "drain", "done", "crashed"}
    \/ pc[s] = "settle" /\ ~Returned(s, {"ok"})

\* The hold has grown, and the session does not know it yet.
Growing(s) == op[s].kind = "increase" /\ op[s].at \in {"project", "undo"}

\* A compensation failed for good: the request is on its way out.
Failing(s) ==
    \/ pc[s] \in {"returnToken", "reserveUndo", "refund", "refundFunding", "refundToken",
                  "exhaust", "drain", "done", "crashed"}
    \/ pc[s] \in Calling /\ Returned(s, {"error"})

\* The reservation, and what the session knows of it.
HoldKnown(s) ==
    /\ op[s].kind = "reserve" /\ op[s].at # "returned" => fund[s] = NewFunding
    /\ op[s].kind = "reserve" /\ op[s].at \in {"wait", "find", "ledger"} => H(s).status = "none"
    /\ op[s].kind = "reserve" /\ op[s].at = "project" =>
         H(s).status \in {"open", "released"} /\ H(s).amount = op[s].amount
    /\ H(s).status = "none" => fund[s] = NewFunding
    /\ ~fund[s].known => fund[s] = NewFunding
    /\ H(s).status = "open" => \A i \in H(s).increases : i.target <= H(s).amount
    /\ pc[s] = "new" => H(s).status = "none"
    /\ Unsettled(s) => H(s).status # "settled"
    /\ pc[s] = "settle" /\ Returned(s, {"ok"}) => H(s).charged = op[s].amount
    /\ pc[s] \in {"settleToken", "exhaust", "drain"} \/ sess[s].settled =>
         H(s).charged = sess[s].charged
    /\ log[s] = "unrepaired" => Failing(s)
    /\ H(s).status = "open" /\ fund[s].known /\ pc[s] # "crashed" /\ log[s] # "unrepaired" =>
         H(s).amount = fund[s].reserved + (IF Growing(s) THEN op[s].amount ELSE 0)
    /\ H(s).status = "open" /\ pc[s] # "crashed" /\ log[s] # "unrepaired" =>
         fund[s].known \/ (op[s].kind = "reserve" /\ op[s].at \in {"project", "undo"})

\* What the session reserved.
ReservedOfPc(s) ==
    /\ (/\ pc[s] \in {"live", "reserveToken", "reserveFunding", "reserveUndo", "refund"}
        /\ fund[s].known) => sess[s].tokenConsumed > 0
    /\ pc[s] = "reserving" /\ fund[s].known => fund[s].reserved = sess[s].goal
    /\ pc[s] \in {"live", "reserveToken", "readBalance"} /\ fund[s].known =>
         fund[s].reserved = sess[s].preConsumed
    /\ pc[s] \in {"reserveFunding", "grow", "growPart"} /\ fund[s].known =>
         fund[s].reserved = sess[s].preConsumed + (IF Returned(s, {"ok"}) THEN op[s].amount ELSE 0)
    /\ pc[s] = "settle" /\ fund[s].known => op[s].amount <= fund[s].reserved

\* What the session has projected: the hold, or what it settles for.
SettleProjected(s) == op[s].at \in {"ledger", "undo"} \/ Returned(s, {"ok"})
Projected(s) ==
    /\ fund[s].legacyHeld \in Nat
    /\ fund[s].known /\ pc[s] # "crashed" =>
         \/ op[s].kind = "settle" /\ SettleProjected(s) /\ fund[s].legacyHeld = op[s].amount
         \/ op[s].kind = "settle" /\ Returned(s, {"error"}) /\ log[s] = "unrepaired"
         \/ op[s].kind = "refund" /\ Returned(s, {"ok"}) /\ fund[s].legacyHeld = 0
         \/ /\ ~(op[s].kind = "settle" /\ SettleProjected(s))
            /\ ~(op[s].kind = "refund" /\ Returned(s, {"ok"}))
            /\ fund[s].legacyHeld = fund[s].reserved

\* A hold that stays open has a reason that was reported.
OpenOfPc(s) ==
    H(s).status = "open" /\ log[s] = "clean" /\ pc[s] # "crashed" =>
        /\ op[s].at # "undo"
        /\ fund[s].known \/ (op[s].kind = "reserve" /\ op[s].at = "project")
        /\ pc[s] \notin {"returnToken", "done"}
        /\ op[s].at = "returned" => \/ op[s].result = "ok" /\ op[s].kind \in {"reserve", "increase"}
                                    \/ op[s].result = "insufficient" /\ op[s].kind = "increase"
                                    \/ op[s].result = "error" /\ op[s].cancellable
                                       /\ op[s].kind = "increase"

\* Without recovery, what is charged was charged by the session's settlement.
SettledKnown(s) ==
    H(s).status = "settled" /\ pc[s] # "crashed" =>
        op[s].kind = "settle" /\ Returned(s, {"ok"}) /\ H(s).charged = op[s].amount /\ fund[s].known

\* The same, where recovery may have charged a session that is over.
SettledLive(s) == pc[s] # "done" => SettledKnown(s)

\* A settlement or a refund that reported success has ended the hold.
CallFinal(s) ==
    /\ op[s].kind = "settle" /\ Returned(s, {"ok"}) => H(s).status = "settled"
    /\ op[s].kind = "refund" /\ Returned(s, {"ok"}) /\ fund[s].known => H(s).status = "released"

\* The inductive invariant of a session whose hold no other run shares.
Single(s) == HoldKnown(s) /\ ReservedOfPc(s) /\ Projected(s) /\ OpenOfPc(s)

\* The consume log is written once the handler is over.
LogLast == \A s \in Sessions : usageLog[RequestOf[s]] # NoLog => pc[s] = "done"

SingleInv == \A s \in Sessions : Single(s)

-----------------------------------------------------------------------------
\* The projection as it stands: what the session has taken out of users.claude_quota.
InProjection(s) ==
    IF op[s].kind = "refund" /\ op[s].at \in {"ledger", "undo"} THEN 0 ELSE fund[s].legacyHeld

\* By how much the projection is behind or ahead of what the ledger took for the session.
Behind == [s \in Sessions |-> IF InProjection(s) > Taken(s) THEN InProjection(s) - Taken(s) ELSE 0]
Ahead == [s \in Sessions |-> IF InProjection(s) < Taken(s) THEN Taken(s) - InProjection(s) ELSE 0]

\* The projection differs from the balance by exactly these gaps.
ProjectionSum ==
    earnings = 0 /\ (\A s \in Sessions : log[s] # "unrepaired" /\ pc[s] # "crashed")
      => legacy + Total(Behind) = available + Total(Ahead)

\* A run that will not give its hold back any more, and a hold that only
\* recovery will end.
Closing(s) == Over(s) \/ (op[s].kind = "refund" /\ op[s].at = "returned")
Abandoned(s) == H(s).status = "open" /\ Closing(s)

\* The most and the least that the projection still misses of the balance.
OpenHolds == [s \in Sessions |-> IF H(s).status = "open" THEN H(s).amount ELSE 0]
AtMost == [s \in Sessions |-> IF H(s).status = "settled" THEN 0 ELSE InProjection(s)]
AtLeast == [s \in Sessions |->
              IF H(s).status = "settled" \/ (H(s).status = "released" /\ Closing(s))
              THEN 0 ELSE InProjection(s)]
ProjectionBounds ==
    earnings = 0 /\ ~overlapped /\ (\A s \in Sessions : ~Abandoned(s)) =>
        /\ available + Total(OpenHolds) <= legacy + Total(AtMost)
        /\ legacy + Total(AtLeast) <= available + Total(OpenHolds)

-----------------------------------------------------------------------------
\* What a sum does when one row changes.
\* A row with amount n holds n units.
LEMMA UnitsOfRow ==
    ASSUME NEW f, NEW x, f[x] \in Nat
    PROVE  IsFiniteSet(UnitsOf(f, x)) /\ Cardinality(UnitsOf(f, x)) = f[x]
<1> DEFINE n == f[x]
<1>1. IsFiniteSet({x}) /\ Cardinality({x}) = 1  BY FS_Singleton
<1>2. IsFiniteSet(1..n) /\ Cardinality(1..n) = n  BY FS_Interval
<1>3. /\ IsFiniteSet({x} \X (1..n))
      /\ Cardinality({x} \X (1..n)) = Cardinality({x}) * Cardinality(1..n)
  BY <1>1, <1>2, FS_Product
<1>4. 1 * n = n  OBVIOUS
<1> QED  BY <1>1, <1>2, <1>3, <1>4 DEF UnitsOf

\* A sum over finitely many amounts is a number.
LEMMA TotalFinite ==
    ASSUME NEW S, IsFiniteSet(S), NEW f \in [S -> Nat]
    PROVE  IsFiniteSet(Units(f)) /\ Total(f) \in Nat
<1> DEFINE G == {UnitsOf(f, x) : x \in S}
<1>1. DOMAIN f = S  OBVIOUS
<1>2. \A T \in G : IsFiniteSet(T)  BY UnitsOfRow
<1>3. IsFiniteSet(G)
  <2> DEFINE g == [x \in S |-> UnitsOf(f, x)]
  <2>1. g \in Surjection(S, G)  BY DEF Surjection
  <2> QED  BY <2>1, FS_Surjection
<1>4. IsFiniteSet(UNION G)  BY <1>2, <1>3, FS_UNION
<1>5. Units(f) = UNION G  BY <1>1 DEF Units
<1> QED  BY <1>4, <1>5, FS_CardinalityType DEF Total

\* A sum of zeros is zero.
LEMMA TotalZero ==
    ASSUME NEW S, NEW f \in [S -> Nat], \A x \in S : f[x] = 0
    PROVE  Total(f) = 0
<1>1. Units(f) = {}
  <2> SUFFICES ASSUME NEW x \in S PROVE UnitsOf(f, x) = {}
    BY DEF Units
  <2>1. 1..f[x] = {}  OBVIOUS
  <2> QED  BY <2>1 DEF UnitsOf
<1> QED  BY <1>1, FS_EmptySet DEF Total

\* The units of one row and those of the others make up the whole.
LEMMA TotalSplit ==
    ASSUME NEW S, IsFiniteSet(S), NEW f \in [S -> Nat], NEW k \in S
    PROVE  LET rest == UNION {UnitsOf(f, x) : x \in S \ {k}} IN
           /\ IsFiniteSet(rest)
           /\ Cardinality(rest) \in Nat
           /\ Total(f) = Cardinality(rest) + f[k]
<1> DEFINE rest == UNION {UnitsOf(f, x) : x \in S \ {k}}
<1>1. DOMAIN f = S  OBVIOUS
<1>2. Units(f) = rest \cup UnitsOf(f, k)  BY <1>1 DEF Units
<1>3. IsFiniteSet(Units(f))  BY TotalFinite
<1>4. IsFiniteSet(rest)  BY <1>2, <1>3, FS_Subset
<1>5. rest \cap UnitsOf(f, k) = {}  BY DEF UnitsOf
<1>6. IsFiniteSet(UnitsOf(f, k)) /\ Cardinality(UnitsOf(f, k)) = f[k]  BY UnitsOfRow
<1>7. Cardinality(rest \cup UnitsOf(f, k))
        = Cardinality(rest) + Cardinality(UnitsOf(f, k)) - Cardinality(rest \cap UnitsOf(f, k))
  BY <1>4, <1>6, FS_Union
<1>8. Cardinality(rest \cap UnitsOf(f, k)) = 0  BY <1>5, FS_EmptySet
<1>9. Cardinality(rest) \in Nat  BY <1>4, FS_CardinalityType
<1> QED  BY <1>2, <1>4, <1>6, <1>7, <1>8, <1>9 DEF Total

\* Writing one row changes a SUM by the difference between its new and its
\* old amount, and no row holds more than the sum.
LEMMA TotalUpdate ==
    ASSUME NEW S, IsFiniteSet(S), NEW f \in [S -> Nat], NEW g \in [S -> Nat],
           NEW k \in S, \A x \in S \ {k} : g[x] = f[x]
    PROVE  /\ Total(f) \in Nat /\ Total(g) \in Nat
           /\ f[k] <= Total(f)
           /\ Total(g) = Total(f) - f[k] + g[k]
<1> DEFINE restf == UNION {UnitsOf(f, x) : x \in S \ {k}}
           restg == UNION {UnitsOf(g, x) : x \in S \ {k}}
<1>1. Cardinality(restf) \in Nat /\ Total(f) = Cardinality(restf) + f[k]  BY TotalSplit
<1>2. Cardinality(restg) \in Nat /\ Total(g) = Cardinality(restg) + g[k]  BY TotalSplit
<1>3. restf = restg  BY DEF UnitsOf
<1>4. f[k] \in Nat /\ g[k] \in Nat  OBVIOUS
<1> HIDE DEF restf, restg
<1> QED  BY <1>1, <1>2, <1>3, <1>4

\* A column that is nowhere larger has no larger sum.
LEMMA TotalMono ==
    ASSUME NEW S, IsFiniteSet(S), NEW f \in [S -> Nat], NEW g \in [S -> Nat],
           \A x \in S : f[x] <= g[x]
    PROVE  Total(f) \in Nat /\ Total(g) \in Nat /\ Total(f) <= Total(g)
<1>1. DOMAIN f = S /\ DOMAIN g = S  OBVIOUS
<1>2. ASSUME NEW x \in S PROVE UnitsOf(f, x) \subseteq UnitsOf(g, x)
  <2>1. 1..f[x] \subseteq 1..g[x]  OBVIOUS
  <2> QED  BY <2>1 DEF UnitsOf
<1>3. Units(f) \subseteq Units(g)  BY <1>1, <1>2 DEF Units
<1>4. IsFiniteSet(Units(g)) /\ Total(f) \in Nat /\ Total(g) \in Nat  BY TotalFinite
<1>5. Cardinality(Units(f)) <= Cardinality(Units(g))  BY <1>3, <1>4, FS_Subset
<1> QED  BY <1>4, <1>5 DEF Total

-----------------------------------------------------------------------------
(***************************************************************************)
(* What a step of session s does: it leaves the rows of other sessions and *)
(* the holds of other requests alone, never changes a hold that has ended, *)
(* keeps what its pc says, and moves the same amounts on both sides of     *)
(* each balance.                                                           *)
(***************************************************************************)
Others(s) ==
    \A t \in Sessions \ {s} : /\ sess'[t] = sess[t] /\ pc'[t] = pc[t] /\ op'[t] = op[t]
                              /\ fund'[t] = fund[t] /\ log'[t] = log[t]

\* A hold that was charged or released never changes again.
EndsFinal == \A r \in Requests : hold[r].status \in {"settled", "released"} => hold'[r] = hold[r]

\* The holds of other requests stay.
OtherHolds(s) == \A r \in Requests \ {RequestOf[s]} : hold'[r] = hold[r]

\* What leaves the key is what the session now owes it, unless a compensation failed.
TokenMoves(s) ==
    log'[s] # "unrepaired" =>
        token' + Cost(s, TokenShare(s)') = token + Cost(s, TokenShare(s))

\* What leaves the balance goes into the hold, and the other way round.
WalletMoves(s) == available' + Taken(s)' = available + Taken(s)

\* A hold is charged only by the settlement that reports it, for no more than was used.
ChargeMoves(s) ==
    /\ sess'[s].used >= sess[s].used
    /\ H(s)'.status = "settled" =>
         \/ H(s).status = "settled"
         \/ /\ H(s)'.charged <= sess'[s].used /\ H(s)'.charged = op'[s].amount
            /\ op'[s].kind = "settle" /\ Returned(s, {"ok"})' /\ fund'[s].known
            /\ pc'[s] # "crashed"

\* users.claude_quota moves by what the session records as projected, or a failed
\* compensation is reported.
ProjectionMoves(s) ==
    \/ legacy' + InProjection(s)' = legacy + InProjection(s)
    \/ /\ legacy' = legacy /\ InProjection(s) = 0 /\ fund'[s] = fund[s] /\ hold' = hold
       /\ Closing(s)' /\ log'[s] = "unrepaired"

\* All of it: what every action below is shown to do.
GoodStep(s) ==
    /\ Types' /\ Control(s)' /\ Others(s) /\ EndsFinal /\ OtherHolds(s)
    /\ UNCHANGED <<credits, earnings>>
    /\ TokenMoves(s) /\ WalletMoves(s) /\ ChargeMoves(s)
    /\ pc[s] \notin {"done", "crashed"}
    /\ log[s] = "unrepaired" => log'[s] = "unrepaired"
    /\ Closing(s) \/ op[s].at = "returned" => legacy' = legacy /\ hold' = hold
    /\ Closing(s) /\ pc[s] # "new" => Closing(s)'
    /\ SettledKnown(s) => SettledKnown(s)'
    /\ CallFinal(s) => CallFinal(s)'
    /\ Single(s) => Single(s)' /\ ProjectionMoves(s)

(***************************************************************************)
(* What the elementary steps do to the rows of a session.                  *)
(***************************************************************************)
PcRow(s, l) ==
    /\ pc' \in [Sessions -> PCs]
    /\ pc'[s] = l
    /\ \A t \in Sessions \ {s} : pc'[t] = pc[t]

\* The session object of s becomes c.
SessRow(s, c) ==
    /\ sess' \in [Sessions -> SessionObjects]
    /\ sess'[s] = c
    /\ \A t \in Sessions \ {s} : sess'[t] = sess[t]

\* Only the call of s changes.
OpRow(s) ==
    /\ op' \in [Sessions -> Calls]
    /\ \A t \in Sessions \ {s} : op'[t] = op[t]

\* Only the outcome of s changes.
LogRow(s) ==
    /\ log' \in [Sessions -> {"clean", "failed", "unrepaired"}]
    /\ \A t \in Sessions \ {s} : log'[t] = log[t]
    /\ log[s] = "unrepaired" => log'[s] = "unrepaired"

\* The funding calls.
Calls4 == {"reserve", "increase", "settle", "refund"}

\* Setting a field of a session object to a value of its type gives a session object.
LEMMA SessionFields ==
    ASSUME NEW c \in SessionObjects
    PROVE  /\ \A n \in Nat : /\ [c EXCEPT !.goal = n] \in SessionObjects
                             /\ [c EXCEPT !.preConsumed = n] \in SessionObjects
                             /\ [c EXCEPT !.tokenConsumed = n] \in SessionObjects
                             /\ [c EXCEPT !.retries = n] \in SessionObjects
                             /\ [c EXCEPT !.used = n] \in SessionObjects
                             /\ [c EXCEPT !.charged = n] \in SessionObjects
           /\ \A b \in BOOLEAN : /\ [c EXCEPT !.settled = b] \in SessionObjects
                                 /\ [c EXCEPT !.refunded = b] \in SessionObjects
                                 /\ [c EXCEPT !.admitted = b] \in SessionObjects
           /\ \A e \in {"none", "ok", "failed"} : [c EXCEPT !.tokenErr = e] \in SessionObjects
<1>1. ASSUME NEW n \in Nat PROVE [c EXCEPT !.goal = n] \in SessionObjects  BY DEF SessionObjects
<1>2. ASSUME NEW n \in Nat PROVE [c EXCEPT !.preConsumed = n] \in SessionObjects
  BY DEF SessionObjects
<1>3. ASSUME NEW n \in Nat PROVE [c EXCEPT !.tokenConsumed = n] \in SessionObjects
  BY DEF SessionObjects
<1>4. ASSUME NEW n \in Nat PROVE [c EXCEPT !.retries = n] \in SessionObjects  BY DEF SessionObjects
<1>5. ASSUME NEW n \in Nat PROVE [c EXCEPT !.used = n] \in SessionObjects  BY DEF SessionObjects
<1>6. ASSUME NEW n \in Nat PROVE [c EXCEPT !.charged = n] \in SessionObjects  BY DEF SessionObjects
<1>7. ASSUME NEW b \in BOOLEAN PROVE [c EXCEPT !.settled = b] \in SessionObjects
  BY DEF SessionObjects
<1>8. ASSUME NEW b \in BOOLEAN PROVE [c EXCEPT !.refunded = b] \in SessionObjects
  BY DEF SessionObjects
<1>9. ASSUME NEW b \in BOOLEAN PROVE [c EXCEPT !.admitted = b] \in SessionObjects
  BY DEF SessionObjects
<1>10. ASSUME NEW e \in {"none", "ok", "failed"} PROVE [c EXCEPT !.tokenErr = e] \in SessionObjects
  BY DEF SessionObjects
<1> QED  BY <1>1, <1>2, <1>3, <1>4, <1>5, <1>6, <1>7, <1>8, <1>9, <1>10

\* The amounts of a session are numbers.
LEMMA SessionNats ==
    ASSUME NEW c \in SessionObjects
    PROVE  /\ c.goal \in Nat /\ c.preConsumed \in Nat /\ c.tokenConsumed \in Nat
           /\ c.retries + 1 \in Nat /\ c.used \in Nat /\ c.charged \in Nat
BY DEF SessionObjects

\* The types of the values that a handler step of s reads.
SessionTypes(s) ==
    /\ sess[s] \in SessionObjects /\ token \in Nat /\ available \in Nat
    /\ sess[s].goal \in Nat /\ sess[s].preConsumed \in Nat /\ sess[s].tokenConsumed \in Nat
    /\ sess[s].retries + 1 \in Nat /\ sess[s].used \in Nat /\ sess[s].charged \in Nat

LEMMA SessionTypesHold ==
    ASSUME Types, NEW s \in Sessions
    PROVE  SessionTypes(s)
BY SessionNats DEF Types, SessionTypes

\* Moving on changes the line of s alone.
LEMMA GotoRow ==
    ASSUME Types, NEW s \in Sessions, NEW l \in PCs, Goto(s, l)
    PROVE  PcRow(s, l)
BY DEF Types, Goto, PcRow

\* Replacing the session object of s changes no other one.
LEMMA SessionRow ==
    ASSUME Types, NEW s \in Sessions, NEW c \in SessionObjects, sess' = [sess EXCEPT ![s] = c]
    PROVE  SessRow(s, c)
BY DEF Types, SessRow

\* A variable that is left alone has its rows.
LEMMA SameRows ==
    ASSUME Types, NEW s \in Sessions
    PROVE  /\ UNCHANGED sess => SessRow(s, sess[s])
           /\ UNCHANGED op => OpRow(s) /\ op'[s] = op[s]
           /\ UNCHANGED pc => PcRow(s, pc[s])
BY DEF Types, SessRow, OpRow, PcRow

\* Starting a funding call.
LEMMA CallRow ==
    ASSUME Types, NEW s \in Sessions, NEW k \in Calls4, NEW n \in Nat, NEW b \in BOOLEAN,
           Call(s, k, n, b)
    PROVE  /\ OpRow(s)
           /\ op'[s].kind = k /\ op'[s].amount = n /\ op'[s].cancellable = b
           /\ op'[s].at = "wait" /\ op'[s].result = "none"
<1> DEFINE c == [kind |-> k, amount |-> n, cancellable |-> b, at |-> "wait", result |-> "none"]
<1>1. c \in Calls  BY DEF Calls, Calls4
<1>2. op' = [op EXCEPT ![s] = c]  BY DEF Call
<1>3. op'[s] = c  BY <1>2 DEF Types
<1> HIDE DEF c
<1>4. OpRow(s)  BY <1>1, <1>2 DEF Types, OpRow
<1> QED  BY <1>3, <1>4 DEF c

\* A step works, fails, or fails for good; the last is never forgotten.
LEMMA LogMoves ==
    ASSUME Types, NEW s \in Sessions, Works \/ Fails(s) \/ FailsForGood(s) \/ Unrepaired(s)
    PROVE  /\ LogRow(s)
           /\ log[s] # "clean" => log'[s] # "clean"
           /\ log[s] = "unrepaired" => log'[s] = "unrepaired"
           /\ Works => log'[s] = log[s]
           /\ Fails(s) => log'[s] # "clean" /\ (log'[s] = "unrepaired" => log[s] = "unrepaired")
           /\ FailsForGood(s) \/ Unrepaired(s) => log'[s] = "unrepaired"
BY DEF Types, Works, Fails, FailsForGood, Unrepaired, LogRow

\* The key covers what is taken from it.
LEMMA TakeCovered ==
    ASSUME Types, NEW s \in Sessions, NEW n \in Int, Covers(s, n) \/ n <= 0, Take(s, n)
    PROVE  token' \in Nat /\ token' = token - Cost(s, n)
BY DEF Types, Covers, Take, Cost

\* What a session has taken from the key, case by case.
ShareValue(s, share) ==
    /\ sess[s].settled => share = sess[s].charged
    /\ pc[s] = "reserving" => share = (IF sess[s].tokenErr = "ok" THEN sess[s].goal ELSE 0)
    /\ pc[s] \in {"reserveFunding", "reserveUndo"} =>
         share = sess[s].goal - sess[s].preConsumed + sess[s].tokenConsumed
    /\ ~sess[s].settled /\ pc[s] \notin {"reserving", "reserveFunding", "reserveUndo"} =>
         share = sess[s].tokenConsumed

\* What a session owes the key, by where it stands, now and after a step.
LEMMA ShareCases ==
    ASSUME Types, NEW s \in Sessions, Control(s)
    PROVE  ShareValue(s, TokenShare(s)) /\ TokenShare(s) \in Nat
<1>1. sess[s] \in SessionObjects  BY DEF Types
<1>2. ShareValue(s, TokenShare(s))  BY DEF TokenShare, ShareValue, Control, EndOfPc
<1>3. sess[s].settled => pc[s] = "done"  BY DEF Control, EndOfPc
<1>4. pc[s] \in {"reserveFunding", "reserveUndo"} => sess[s].goal > sess[s].preConsumed
  BY DEF Control, AmountsOfPc
<1> QED  BY <1>1, <1>2, <1>3, <1>4 DEF ShareValue, SessionObjects

LEMMA ShareValueNext ==
    ASSUME NEW s \in Sessions, Control(s)'
    PROVE  ShareValue(s, TokenShare(s))'
BY DEF TokenShare, ShareValue, Control, EndOfPc

\* A step of the handler leaves wallet, holds and funding objects alone, and
\* starts a funding call only when none is under way.
LEMMA HandlerGood ==
    ASSUME Types, NEW s \in Sessions, Control(s), Quiet,
           NEW l \in PCs, PcRow(s, l), NEW c \in SessionObjects, SessRow(s, c),
           OpRow(s), LogRow(s), token' \in Nat,
           \/ op'[s] = op[s]
           \/ /\ op[s].at \in {"idle", "returned"} /\ op'[s].at = "wait"
              /\ ~Closing(s) /\ op[s].kind # "settle"
           \/ pc[s] = "new" /\ op'[s].at = "wait",
           c.used >= sess[s].used, pc[s] \notin {"done", "crashed"},
           Closing(s)
           /\ pc[s] # "new" => l = "done" \/ (l = "refundToken" /\ pc[s] = "refundFunding"),
           Control(s)', TokenMoves(s), Single(s) => Single(s)'
    PROVE  GoodStep(s)
<1>1. /\ UNCHANGED <<available, legacy, credits, earnings, turn>>
      /\ hold' = hold /\ fund' = fund
  BY DEF Quiet, walletVars, ledgerVars
<1>2. Types'
  BY <1>1 DEF Types, PcRow, SessRow, OpRow, LogRow
<1>3. Others(s) /\ EndsFinal /\ OtherHolds(s)
  BY <1>1 DEF Others, EndsFinal, OtherHolds, PcRow, SessRow, OpRow, LogRow
<1>4. H(s)' = H(s)  BY <1>1 DEF H
<1>5. WalletMoves(s) /\ ChargeMoves(s)
  <2>1. Taken(s)' = Taken(s)  BY <1>4 DEF Taken, TakenFor
  <2>2. WalletMoves(s)  BY <1>1, <2>1 DEF WalletMoves
  <2>3. sess'[s].used >= sess[s].used  BY DEF SessRow
  <2> QED  BY <1>4, <2>2, <2>3 DEF ChargeMoves
<1>6. ProjectionMoves(s)
  <2>1. pc[s] = "new" => op[s] = NoCall  BY DEF Control, CallOfPc
  <2>2. InProjection(s)' = InProjection(s)
    BY <1>1, <2>1 DEF InProjection, NoCall
  <2> QED  BY <1>1, <2>2 DEF ProjectionMoves
<1>7. Closing(s) /\ pc[s] # "new" => Closing(s)'
  <2> SUFFICES ASSUME Closing(s), pc[s] # "new" PROVE Closing(s)'  OBVIOUS
  <2>1. pc'[s] = l  BY DEF PcRow
  <2>2. CASE l = "done"  BY <2>1, <2>2 DEF Closing, Over
  <2>3. CASE l = "refundToken" /\ pc[s] = "refundFunding"
    <3>1. op'[s] = op[s]  BY <2>3
    <3>2. op[s].kind = "refund" /\ op[s].at = "returned"  BY <2>3 DEF Closing, Over
    <3> QED  BY <3>1, <3>2 DEF Closing
  <2> QED  BY <2>2, <2>3
<1>8. SettledKnown(s) => SettledKnown(s)'
  <2>1. pc[s] = "new" => op[s].kind = "none"  BY DEF Control, CallOfPc, NoCall
  <2> QED  BY <1>1, <1>4, <2>1 DEF SettledKnown, Returned
<1>9. log[s] = "unrepaired" => log'[s] = "unrepaired"  BY DEF LogRow
<1>10. CallFinal(s) => CallFinal(s)'  BY <1>1, <1>4 DEF CallFinal, Returned
<1> QED  BY <1>1, <1>2, <1>3, <1>5, <1>6, <1>7, <1>8, <1>9, <1>10 DEF GoodStep

\* Reserve only asks for more than the session holds.
LEMMA GrowthNat ==
    ASSUME Types, NEW s \in Sessions, Control(s),
           pc[s] \in {"reserveToken", "reserveFunding", "reserveUndo"}
    PROVE  Growth(s) \in Nat /\ Growth(s) > 0 /\ Growth(s) = sess[s].goal - sess[s].preConsumed
<1>1. sess[s] \in SessionObjects  BY DEF Types
<1> QED  BY <1>1 DEF Control, AmountsOfPc, Growth, SessionObjects

\* The amount of a call is a number.
LEMMA AmountNat ==
    ASSUME Types, NEW s \in Sessions
    PROVE  op[s].amount \in Nat /\ op[s].at # "none"
BY DEF Types, Calls

\* newWalletBillingSession: no reservation is needed, it is started, or the request is refused.
LEMMA OpenGood ==
    ASSUME Types, NEW s \in Sessions, Control(s), NEW q \in 0..MaxAmount, Open(s, q)
    PROVE  GoodStep(s)
<1> DEFINE c0 == sess[s]
<1>1. SessionTypes(s) /\ q \in Nat  BY FundingAssumption, SessionTypesHold
<1>2. pc[s] = "new" /\ c0 = NewSession /\ op[s] = NoCall /\ fund[s] = NewFunding /\ token' = token
  BY DEF Open, Control, CallOfPc
<1>3. Quiet /\ hold' = hold /\ fund' = fund
  BY DEF Open, Quiet, walletVars, ledgerVars
<1>4. /\ LogRow(s)
      /\ log'[s] = "unrepaired" <=> log[s] = "unrepaired"
      /\ log'[s] = "clean" => log[s] = "clean"
  BY LogMoves DEF Open
<1> USE <1>1, <1>2, <1>3, <1>4 DEF SessionTypes
<1>5. CASE sess' = [sess EXCEPT ![s] = [c0 EXCEPT !.admitted = TRUE]] /\ Goto(s, "live")
           /\ UNCHANGED op
  <2> DEFINE c1 == [c0 EXCEPT !.admitted = TRUE]
  <2>1. c1 \in SessionObjects
    BY <1>5, SessionFields
  <2>2. /\ c1.goal = c0.goal /\ c1.tokenErr = c0.tokenErr /\ c1.preConsumed = c0.preConsumed
        /\ c1.tokenConsumed = c0.tokenConsumed /\ c1.retries = c0.retries /\ c1.used = c0.used
        /\ c1.charged = c0.charged /\ c1.settled = c0.settled /\ c1.refunded = c0.refunded
        /\ c1.admitted = TRUE
    BY <2>1 DEF SessionObjects
  <2>3. SessRow(s, c1)  BY <1>5, <2>1, SessionRow
  <2> HIDE DEF c1
  <2>4. PcRow(s, "live")  BY <1>5, GotoRow DEF PCs
  <2>5. OpRow(s) /\ op'[s] = op[s]  BY <1>5, SameRows
  <2>6. sess'[s] = c1 /\ pc'[s] = "live"  BY <2>3, <2>4 DEF SessRow, PcRow
  <2> USE <1>5, <2>2, <2>5, <2>6
  <2>7. Control(s)'
    BY DEF Control, CallOfPc, AmountsOfPc, EndOfPc, Calling, Returned, Growth, H,
           SessionObjects, NewSession, NoCall, NewFunding
  <2>8. Single(s) => Single(s)'
    <3> SUFFICES ASSUME Single(s) PROVE Single(s)'  OBVIOUS
    <3> USE DEF Single, Control, CallOfPc, AmountsOfPc, EndOfPc, Calling, Returned, H,
                SessionObjects, NewSession, NoCall, NewFunding
    <3>1. HoldKnown(s)'  BY DEF HoldKnown, Unsettled, Growing, Failing
    <3>2. ReservedOfPc(s)'  BY DEF HoldKnown, ReservedOfPc
    <3>3. Projected(s)'  BY DEF Projected, SettleProjected
    <3>4. OpenOfPc(s)'  BY DEF HoldKnown, ReservedOfPc, OpenOfPc
    <3> QED  BY <3>1, <3>2, <3>3, <3>4
  <2>9. TokenMoves(s)
    <3>1. ShareValue(s, TokenShare(s)) /\ TokenShare(s) \in Nat  BY ShareCases
    <3>2. ShareValue(s, TokenShare(s))'  BY <2>7, ShareValueNext
    <3> QED
      BY <3>1, <3>2
         DEF TokenMoves, ShareValue, Cost, Control, EndOfPc, AmountsOfPc, SessionObjects, Growth,
             NewSession, NoCall, NewFunding
  <2>10. /\ ~Closing(s) \/ pc[s] = "new"
    BY DEF Closing, Over, Control, CallOfPc, Calling, Returned, NewSession, NoCall, NewFunding
  <2> QED
    BY <2>1, <2>3, <2>4, <2>7, <2>8, <2>9, <2>10, HandlerGood DEF PCs
<1>6. CASE q > 0 /\ sess' = [sess EXCEPT ![s] = [c0 EXCEPT !.goal = q]] /\ Goto(s, "reserving")
           /\ Call(s, "reserve", q, TRUE)
  <2> DEFINE c1 == [c0 EXCEPT !.goal = q]
  <2>1. c1 \in SessionObjects
    BY <1>6, SessionFields
  <2>2. /\ c1.goal = q /\ c1.tokenErr = c0.tokenErr /\ c1.preConsumed = c0.preConsumed
        /\ c1.tokenConsumed = c0.tokenConsumed /\ c1.retries = c0.retries /\ c1.used = c0.used
        /\ c1.charged = c0.charged /\ c1.settled = c0.settled /\ c1.refunded = c0.refunded
        /\ c1.admitted = c0.admitted
    BY <2>1 DEF SessionObjects
  <2>3. SessRow(s, c1)  BY <1>6, <2>1, SessionRow
  <2> HIDE DEF c1
  <2>4. PcRow(s, "reserving")  BY <1>6, GotoRow DEF PCs
  <2>5. /\ OpRow(s)
        /\ op'[s].kind = "reserve" /\ op'[s].amount = q /\ op'[s].cancellable = TRUE
        /\ op'[s].at = "wait" /\ op'[s].result = "none"
    BY <1>6, CallRow DEF Calls4
  <2>6. sess'[s] = c1 /\ pc'[s] = "reserving"  BY <2>3, <2>4 DEF SessRow, PcRow
  <2> USE <1>6, <2>2, <2>5, <2>6
  <2>7. Control(s)'
    BY DEF Control, CallOfPc, AmountsOfPc, EndOfPc, Calling, Returned, Growth, H,
           SessionObjects, NewSession, NoCall, NewFunding
  <2>8. Single(s) => Single(s)'
    <3> SUFFICES ASSUME Single(s) PROVE Single(s)'  OBVIOUS
    <3> USE DEF Single, Control, CallOfPc, AmountsOfPc, EndOfPc, Calling, Returned, H,
                SessionObjects, NewSession, NoCall, NewFunding
    <3>1. HoldKnown(s)'  BY DEF HoldKnown, Unsettled, Growing, Failing
    <3>2. ReservedOfPc(s)'  BY DEF HoldKnown, ReservedOfPc
    <3>3. Projected(s)'  BY DEF Projected, SettleProjected
    <3>4. OpenOfPc(s)'  BY DEF HoldKnown, ReservedOfPc, OpenOfPc
    <3> QED  BY <3>1, <3>2, <3>3, <3>4
  <2>9. TokenMoves(s)
    <3>1. ShareValue(s, TokenShare(s)) /\ TokenShare(s) \in Nat  BY ShareCases
    <3>2. ShareValue(s, TokenShare(s))'  BY <2>7, ShareValueNext
    <3> QED
      BY <3>1, <3>2
         DEF TokenMoves, ShareValue, Cost, Control, EndOfPc, AmountsOfPc, SessionObjects, Growth,
             NewSession, NoCall, NewFunding
  <2>10. /\ ~Closing(s) \/ pc[s] = "new"
         /\ pc[s] = "new" \/ (op[s].at \in {"idle", "returned"} /\ op[s].kind # "settle")
    BY DEF Closing, Over, Control, CallOfPc, Calling, Returned, NewSession, NoCall, NewFunding
  <2> QED
    BY <2>1, <2>3, <2>4, <2>7, <2>8, <2>9, <2>10, HandlerGood DEF PCs
<1>7. CASE Goto(s, "done") /\ UNCHANGED <<op, sess>>
  <2>1. SessRow(s, c0)  BY <1>7, SameRows
  <2>2. PcRow(s, "done")  BY <1>7, GotoRow DEF PCs
  <2>3. OpRow(s) /\ op'[s] = op[s]  BY <1>7, SameRows
  <2>4. sess'[s] = c0 /\ pc'[s] = "done"  BY <2>1, <2>2 DEF SessRow, PcRow
  <2> USE <1>7, <2>3, <2>4
  <2>5. Control(s)'
    BY DEF Control, CallOfPc, AmountsOfPc, EndOfPc, Calling, Returned, Growth, H,
           SessionObjects, NewSession, NoCall, NewFunding
  <2>6. Single(s) => Single(s)'
    <3> SUFFICES ASSUME Single(s) PROVE Single(s)'  OBVIOUS
    <3> USE DEF Single, Control, CallOfPc, AmountsOfPc, EndOfPc, Calling, Returned, H,
                SessionObjects, NewSession, NoCall, NewFunding
    <3>1. HoldKnown(s)'  BY DEF HoldKnown, Unsettled, Growing, Failing
    <3>2. ReservedOfPc(s)'  BY DEF HoldKnown, ReservedOfPc
    <3>3. Projected(s)'  BY DEF Projected, SettleProjected
    <3>4. OpenOfPc(s)'  BY DEF HoldKnown, ReservedOfPc, OpenOfPc
    <3> QED  BY <3>1, <3>2, <3>3, <3>4
  <2>7. TokenMoves(s)
    <3>1. ShareValue(s, TokenShare(s)) /\ TokenShare(s) \in Nat  BY ShareCases
    <3>2. ShareValue(s, TokenShare(s))'  BY <2>5, ShareValueNext
    <3> QED
      BY <3>1, <3>2
         DEF TokenMoves, ShareValue, Cost, Control, EndOfPc, AmountsOfPc, SessionObjects, Growth,
             NewSession, NoCall, NewFunding
  <2> QED
    BY <2>1, <2>2, <2>5, <2>6, <2>7, HandlerGood DEF PCs
<1>8. \/ sess' = [sess EXCEPT ![s] = [c0 EXCEPT !.admitted = TRUE]] /\ Goto(s, "live")
         /\ UNCHANGED op
      \/ q > 0 /\ sess' = [sess EXCEPT ![s] = [c0 EXCEPT !.goal = q]] /\ Goto(s, "reserving")
         /\ Call(s, "reserve", q, TRUE)
      \/ Goto(s, "done") /\ UNCHANGED <<op, sess>>
  <2>1. \/ IF q = 0
           THEN sess' = [sess EXCEPT ![s] = [c0 EXCEPT !.admitted = TRUE]] /\ Goto(s, "live")
                /\ UNCHANGED op
           ELSE /\ sess' = [sess EXCEPT ![s] = [c0 EXCEPT !.goal = q]]
                /\ Goto(s, "reserving") /\ Call(s, "reserve", q, TRUE)
        \/ Goto(s, "done") /\ UNCHANGED <<op, sess>>
    BY Zenon DEF Open, NoFundingCall
  <2>2. q = 0 \/ q > 0  BY <1>1
  <2> QED  BY <2>1, <2>2
<1> QED  BY <1>8, <1>5, <1>6, <1>7

\* preConsumeSources: the key is charged beside the funding call, or refuses.
LEMMA PreConsumeTokenGood ==
    ASSUME Types, NEW s \in Sessions, Control(s), PreConsumeToken(s)
    PROVE  GoodStep(s)
<1> DEFINE c0 == sess[s]
<1>1. SessionTypes(s)  BY SessionTypesHold
<1>2. pc[s] = "reserving" /\ c0.tokenErr = "none"
  BY DEF PreConsumeToken
<1>3. Quiet /\ hold' = hold /\ fund' = fund
  BY DEF PreConsumeToken, Quiet, walletVars, ledgerVars
<1>4. /\ LogRow(s)
      /\ log'[s] = "unrepaired" <=> log[s] = "unrepaired"
      /\ log'[s] = "clean" => log[s] = "clean"
  BY LogMoves DEF PreConsumeToken, KeyFails
<1> USE <1>1, <1>2, <1>3, <1>4 DEF SessionTypes
<1>5. CASE /\ Covers(s, c0.goal) /\ Take(s, c0.goal) /\ UNCHANGED <<op, pc>>
           /\ sess' = [sess EXCEPT ![s] = [c0 EXCEPT !.tokenErr = "ok"]]
  <2> DEFINE c1 == [c0 EXCEPT !.tokenErr = "ok"]
  <2>1. c1 \in SessionObjects
    BY <1>5, SessionFields
  <2>2. /\ c1.goal = c0.goal /\ c1.tokenErr = "ok" /\ c1.preConsumed = c0.preConsumed
        /\ c1.tokenConsumed = c0.tokenConsumed /\ c1.retries = c0.retries /\ c1.used = c0.used
        /\ c1.charged = c0.charged /\ c1.settled = c0.settled /\ c1.refunded = c0.refunded
        /\ c1.admitted = c0.admitted
    BY <2>1 DEF SessionObjects
  <2>3. SessRow(s, c1)  BY <1>5, <2>1, SessionRow
  <2> HIDE DEF c1
  <2>4. PcRow(s, pc[s])  BY <1>5, SameRows
  <2>5. OpRow(s) /\ op'[s] = op[s]  BY <1>5, SameRows
  <2>6. sess'[s] = c1 /\ pc'[s] = pc[s]  BY <2>3, <2>4 DEF SessRow, PcRow
  <2> USE <1>5, <2>2, <2>5, <2>6
  <2>7. Control(s)'
    BY DEF Control, CallOfPc, AmountsOfPc, EndOfPc, Calling, Returned, Growth, H,
           SessionObjects
  <2>8. Single(s) => Single(s)'
    <3> SUFFICES ASSUME Single(s) PROVE Single(s)'  OBVIOUS
    <3> USE DEF Single, Control, CallOfPc, AmountsOfPc, EndOfPc, Calling, Returned, H,
                SessionObjects
    <3>1. HoldKnown(s)'  BY DEF HoldKnown, Unsettled, Growing, Failing
    <3>2. ReservedOfPc(s)'  BY DEF HoldKnown, ReservedOfPc
    <3>3. Projected(s)'  BY DEF Projected, SettleProjected
    <3>4. OpenOfPc(s)'  BY DEF HoldKnown, ReservedOfPc, OpenOfPc
    <3> QED  BY <3>1, <3>2, <3>3, <3>4
  <2>9. token' \in Nat /\ token' = token - Cost(s, c0.goal)
    BY <1>5, TakeCovered DEF SessionObjects
  <2>10. TokenMoves(s)
    <3>1. ShareValue(s, TokenShare(s)) /\ TokenShare(s) \in Nat  BY ShareCases
    <3>2. ShareValue(s, TokenShare(s))'  BY <2>7, ShareValueNext
    <3> QED
      BY <2>9, <3>1, <3>2
         DEF TokenMoves, ShareValue, Cost, Control, EndOfPc, AmountsOfPc, SessionObjects, Growth
  <2>11. /\ ~Closing(s) \/ pc[s] = "new"
    BY DEF Closing, Over, Control, CallOfPc, Calling, Returned
  <2> QED
    BY <2>1, <2>3, <2>4, <2>7, <2>8, <2>9, <2>10, <2>11, HandlerGood DEF PCs
<1>6. CASE /\ token' = token /\ UNCHANGED <<op, pc>>
           /\ sess' = [sess EXCEPT ![s] = [c0 EXCEPT !.tokenErr = "failed"]]
  <2> DEFINE c1 == [c0 EXCEPT !.tokenErr = "failed"]
  <2>1. c1 \in SessionObjects
    BY <1>6, SessionFields
  <2>2. /\ c1.goal = c0.goal /\ c1.tokenErr = "failed" /\ c1.preConsumed = c0.preConsumed
        /\ c1.tokenConsumed = c0.tokenConsumed /\ c1.retries = c0.retries /\ c1.used = c0.used
        /\ c1.charged = c0.charged /\ c1.settled = c0.settled /\ c1.refunded = c0.refunded
        /\ c1.admitted = c0.admitted
    BY <2>1 DEF SessionObjects
  <2>3. SessRow(s, c1)  BY <1>6, <2>1, SessionRow
  <2> HIDE DEF c1
  <2>4. PcRow(s, pc[s])  BY <1>6, SameRows
  <2>5. OpRow(s) /\ op'[s] = op[s]  BY <1>6, SameRows
  <2>6. sess'[s] = c1 /\ pc'[s] = pc[s]  BY <2>3, <2>4 DEF SessRow, PcRow
  <2> USE <1>6, <2>2, <2>5, <2>6
  <2>7. Control(s)'
    BY DEF Control, CallOfPc, AmountsOfPc, EndOfPc, Calling, Returned, Growth, H,
           SessionObjects
  <2>8. Single(s) => Single(s)'
    <3> SUFFICES ASSUME Single(s) PROVE Single(s)'  OBVIOUS
    <3> USE DEF Single, Control, CallOfPc, AmountsOfPc, EndOfPc, Calling, Returned, H,
                SessionObjects
    <3>1. HoldKnown(s)'  BY DEF HoldKnown, Unsettled, Growing, Failing
    <3>2. ReservedOfPc(s)'  BY DEF HoldKnown, ReservedOfPc
    <3>3. Projected(s)'  BY DEF Projected, SettleProjected
    <3>4. OpenOfPc(s)'  BY DEF HoldKnown, ReservedOfPc, OpenOfPc
    <3> QED  BY <3>1, <3>2, <3>3, <3>4
  <2>9. TokenMoves(s)
    <3>1. ShareValue(s, TokenShare(s)) /\ TokenShare(s) \in Nat  BY ShareCases
    <3>2. ShareValue(s, TokenShare(s))'  BY <2>7, ShareValueNext
    <3> QED
      BY <3>1, <3>2
         DEF TokenMoves, ShareValue, Cost, Control, EndOfPc, AmountsOfPc, SessionObjects, Growth
  <2>10. /\ ~Closing(s) \/ pc[s] = "new"
    BY DEF Closing, Over, Control, CallOfPc, Calling, Returned
  <2> QED
    BY <2>1, <2>3, <2>4, <2>7, <2>8, <2>9, <2>10, HandlerGood DEF PCs
<1>7. \/ /\ Covers(s, c0.goal) /\ Take(s, c0.goal) /\ UNCHANGED <<op, pc>>
         /\ sess' = [sess EXCEPT ![s] = [c0 EXCEPT !.tokenErr = "ok"]]
      \/ /\ token' = token /\ UNCHANGED <<op, pc>>
         /\ sess' = [sess EXCEPT ![s] = [c0 EXCEPT !.tokenErr = "failed"]]
  BY DEF PreConsumeToken, NoFundingCall
<1> QED  BY <1>7, <1>5, <1>6

\* preConsume: both results are in; go live, undo the one that worked, or refuse.
LEMMA JoinGood ==
    ASSUME Types, NEW s \in Sessions, Control(s), Join(s)
    PROVE  GoodStep(s)
<1> DEFINE c0 == sess[s]
<1>1. SessionTypes(s)  BY SessionTypesHold
<1>2. pc[s] = "reserving" /\ c0.tokenErr # "none" /\ token' = token
  BY DEF Join
<1>3. Quiet /\ hold' = hold /\ fund' = fund
  BY DEF Join, Quiet, walletVars, ledgerVars
<1>4. LogRow(s) /\ log'[s] = log[s]  BY LogMoves DEF Join
<1> USE <1>1, <1>2, <1>3, <1>4 DEF SessionTypes
<1>5. CASE /\ Returned(s, {"ok"}) /\ c0.tokenErr = "ok" /\ s \notin ended
           /\ sess' = [sess EXCEPT ![s].preConsumed = c0.goal, ![s].tokenConsumed = c0.goal,
                                   ![s].admitted = TRUE]
           /\ Goto(s, "live") /\ UNCHANGED op
  <2> DEFINE c1 == [c0 EXCEPT !.preConsumed = c0.goal]
             c2 == [c1 EXCEPT !.tokenConsumed = c0.goal]
             c3 == [c2 EXCEPT !.admitted = TRUE]
  <2>1. c1 \in SessionObjects
    BY <1>5, SessionFields
  <2>2. c2 \in SessionObjects
    BY <1>5, <2>1, SessionFields
  <2>3. c3 \in SessionObjects
    BY <1>5, <2>2, SessionFields
  <2>4. /\ c3.goal = c0.goal /\ c3.tokenErr = c0.tokenErr /\ c3.preConsumed = c0.goal
        /\ c3.tokenConsumed = c0.goal /\ c3.retries = c0.retries /\ c3.used = c0.used
        /\ c3.charged = c0.charged /\ c3.settled = c0.settled /\ c3.refunded = c0.refunded
        /\ c3.admitted = TRUE
    BY <2>1, <2>2, <2>3 DEF SessionObjects
  <2>5. sess' = [sess EXCEPT ![s] = c3]  BY <1>5 DEF Types
  <2>6. SessRow(s, c3)  BY <2>5, <2>3, SessionRow
  <2> HIDE DEF c1, c2, c3
  <2>7. PcRow(s, "live")  BY <1>5, GotoRow DEF PCs
  <2>8. OpRow(s) /\ op'[s] = op[s]  BY <1>5, SameRows
  <2>9. sess'[s] = c3 /\ pc'[s] = "live"  BY <2>6, <2>7 DEF SessRow, PcRow
  <2> USE <1>5, <2>4, <2>8, <2>9
  <2>10. Control(s)'
    BY DEF Control, CallOfPc, AmountsOfPc, EndOfPc, Calling, Returned, Growth, H,
            SessionObjects
  <2>11. Single(s) => Single(s)'
    <3> SUFFICES ASSUME Single(s) PROVE Single(s)'  OBVIOUS
    <3> USE DEF Single, Control, CallOfPc, AmountsOfPc, EndOfPc, Calling, Returned, H,
                SessionObjects
    <3>1. HoldKnown(s)'  BY DEF HoldKnown, Unsettled, Growing, Failing
    <3>2. ReservedOfPc(s)'  BY DEF HoldKnown, ReservedOfPc
    <3>3. Projected(s)'  BY DEF Projected, SettleProjected
    <3>4. OpenOfPc(s)'  BY DEF HoldKnown, ReservedOfPc, OpenOfPc
    <3> QED  BY <3>1, <3>2, <3>3, <3>4
  <2>12. TokenMoves(s)
    <3>1. ShareValue(s, TokenShare(s)) /\ TokenShare(s) \in Nat  BY ShareCases
    <3>2. ShareValue(s, TokenShare(s))'  BY <2>10, ShareValueNext
    <3> QED
      BY <3>1, <3>2
         DEF TokenMoves, ShareValue, Cost, Control, EndOfPc, AmountsOfPc, SessionObjects, Growth
  <2>13. /\ ~Closing(s) \/ pc[s] = "new"
    BY DEF Closing, Over, Control, CallOfPc, Calling, Returned
  <2> QED
    BY <2>3, <2>6, <2>7, <2>10, <2>11, <2>12, <2>13, HandlerGood DEF PCs
<1>6. CASE /\ Returned(s, {"ok"}) /\ c0.tokenErr = "ok" /\ s \in ended
           /\ sess' = [sess EXCEPT ![s].preConsumed = c0.goal, ![s].tokenConsumed = c0.goal,
                                   ![s].admitted = FALSE]
           /\ Goto(s, "refund") /\ UNCHANGED op
  <2> DEFINE c1 == [c0 EXCEPT !.preConsumed = c0.goal]
             c2 == [c1 EXCEPT !.tokenConsumed = c0.goal]
             c3 == [c2 EXCEPT !.admitted = FALSE]
  <2>1. c1 \in SessionObjects
    BY <1>6, SessionFields
  <2>2. c2 \in SessionObjects
    BY <1>6, <2>1, SessionFields
  <2>3. c3 \in SessionObjects
    BY <1>6, <2>2, SessionFields
  <2>4. /\ c3.goal = c0.goal /\ c3.tokenErr = c0.tokenErr /\ c3.preConsumed = c0.goal
        /\ c3.tokenConsumed = c0.goal /\ c3.retries = c0.retries /\ c3.used = c0.used
        /\ c3.charged = c0.charged /\ c3.settled = c0.settled /\ c3.refunded = c0.refunded
        /\ c3.admitted = FALSE
    BY <2>1, <2>2, <2>3 DEF SessionObjects
  <2>5. sess' = [sess EXCEPT ![s] = c3]  BY <1>6 DEF Types
  <2>6. SessRow(s, c3)  BY <2>5, <2>3, SessionRow
  <2> HIDE DEF c1, c2, c3
  <2>7. PcRow(s, "refund")  BY <1>6, GotoRow DEF PCs
  <2>8. OpRow(s) /\ op'[s] = op[s]  BY <1>6, SameRows
  <2>9. sess'[s] = c3 /\ pc'[s] = "refund"  BY <2>6, <2>7 DEF SessRow, PcRow
  <2> USE <1>6, <2>4, <2>8, <2>9
  <2>10. Control(s)'
    BY DEF Control, CallOfPc, AmountsOfPc, EndOfPc, Calling, Returned, Growth, H,
            SessionObjects
  <2>11. Single(s) => Single(s)'
    <3> SUFFICES ASSUME Single(s) PROVE Single(s)'  OBVIOUS
    <3> USE DEF Single, Control, CallOfPc, AmountsOfPc, EndOfPc, Calling, Returned, H,
                SessionObjects
    <3>1. HoldKnown(s)'  BY DEF HoldKnown, Unsettled, Growing, Failing
    <3>2. ReservedOfPc(s)'  BY DEF HoldKnown, ReservedOfPc
    <3>3. Projected(s)'  BY DEF Projected, SettleProjected
    <3>4. OpenOfPc(s)'  BY DEF HoldKnown, ReservedOfPc, OpenOfPc
    <3> QED  BY <3>1, <3>2, <3>3, <3>4
  <2>12. TokenMoves(s)
    <3>1. ShareValue(s, TokenShare(s)) /\ TokenShare(s) \in Nat  BY ShareCases
    <3>2. ShareValue(s, TokenShare(s))'  BY <2>10, ShareValueNext
    <3> QED
      BY <3>1, <3>2
         DEF TokenMoves, ShareValue, Cost, Control, EndOfPc, AmountsOfPc, SessionObjects, Growth
  <2>13. /\ ~Closing(s) \/ pc[s] = "new"
    BY DEF Closing, Over, Control, CallOfPc, Calling, Returned
  <2> QED
    BY <2>3, <2>6, <2>7, <2>10, <2>11, <2>12, <2>13, HandlerGood DEF PCs
<1>7. CASE /\ Returned(s, {"ok"}) /\ c0.tokenErr = "failed"
           /\ Call(s, "refund", 0, FALSE) /\ Goto(s, "refundReserved") /\ UNCHANGED sess
  <2>1. SessRow(s, c0)  BY <1>7, SameRows
  <2>2. PcRow(s, "refundReserved")  BY <1>7, GotoRow DEF PCs
  <2>3. /\ OpRow(s)
        /\ op'[s].kind = "refund" /\ op'[s].amount = 0 /\ op'[s].cancellable = FALSE
        /\ op'[s].at = "wait" /\ op'[s].result = "none"
    BY <1>7, CallRow DEF Calls4
  <2>4. sess'[s] = c0 /\ pc'[s] = "refundReserved"  BY <2>1, <2>2 DEF SessRow, PcRow
  <2> USE <1>7, <2>3, <2>4
  <2>5. Control(s)'
    BY DEF Control, CallOfPc, AmountsOfPc, EndOfPc, Calling, Returned, Growth, H,
           SessionObjects
  <2>6. Single(s) => Single(s)'
    <3> SUFFICES ASSUME Single(s) PROVE Single(s)'  OBVIOUS
    <3> USE DEF Single, Control, CallOfPc, AmountsOfPc, EndOfPc, Calling, Returned, H,
                SessionObjects
    <3>1. HoldKnown(s)'  BY DEF HoldKnown, Unsettled, Growing, Failing
    <3>2. ReservedOfPc(s)'  BY DEF HoldKnown, ReservedOfPc
    <3>3. Projected(s)'  BY DEF Projected, SettleProjected
    <3>4. OpenOfPc(s)'  BY DEF HoldKnown, ReservedOfPc, OpenOfPc
    <3> QED  BY <3>1, <3>2, <3>3, <3>4
  <2>7. TokenMoves(s)
    <3>1. ShareValue(s, TokenShare(s)) /\ TokenShare(s) \in Nat  BY ShareCases
    <3>2. ShareValue(s, TokenShare(s))'  BY <2>5, ShareValueNext
    <3> QED
      BY <3>1, <3>2
         DEF TokenMoves, ShareValue, Cost, Control, EndOfPc, AmountsOfPc, SessionObjects, Growth
  <2>8. /\ ~Closing(s) \/ pc[s] = "new"
        /\ pc[s] = "new" \/ (op[s].at \in {"idle", "returned"} /\ op[s].kind # "settle")
    BY DEF Closing, Over, Control, CallOfPc, Calling, Returned
  <2> QED
    BY <2>1, <2>2, <2>5, <2>6, <2>7, <2>8, HandlerGood DEF PCs
<1>8. CASE /\ Returned(s, {"insufficient", "error"}) /\ c0.tokenErr = "ok"
           /\ sess' = [sess EXCEPT ![s] = [c0 EXCEPT !.tokenConsumed = c0.goal]]
           /\ Goto(s, "returnToken") /\ UNCHANGED op
  <2> DEFINE c1 == [c0 EXCEPT !.tokenConsumed = c0.goal]
  <2>1. c1 \in SessionObjects
    BY <1>8, SessionFields
  <2>2. /\ c1.goal = c0.goal /\ c1.tokenErr = c0.tokenErr /\ c1.preConsumed = c0.preConsumed
        /\ c1.tokenConsumed = c0.goal /\ c1.retries = c0.retries /\ c1.used = c0.used
        /\ c1.charged = c0.charged /\ c1.settled = c0.settled /\ c1.refunded = c0.refunded
        /\ c1.admitted = c0.admitted
    BY <2>1 DEF SessionObjects
  <2>3. SessRow(s, c1)  BY <1>8, <2>1, SessionRow
  <2> HIDE DEF c1
  <2>4. PcRow(s, "returnToken")  BY <1>8, GotoRow DEF PCs
  <2>5. OpRow(s) /\ op'[s] = op[s]  BY <1>8, SameRows
  <2>6. sess'[s] = c1 /\ pc'[s] = "returnToken"  BY <2>3, <2>4 DEF SessRow, PcRow
  <2> USE <1>8, <2>2, <2>5, <2>6
  <2>7. Control(s)'
    BY DEF Control, CallOfPc, AmountsOfPc, EndOfPc, Calling, Returned, Growth, H,
           SessionObjects
  <2>8. Single(s) => Single(s)'
    <3> SUFFICES ASSUME Single(s) PROVE Single(s)'  OBVIOUS
    <3> USE DEF Single, Control, CallOfPc, AmountsOfPc, EndOfPc, Calling, Returned, H,
                SessionObjects
    <3>1. HoldKnown(s)'  BY DEF HoldKnown, Unsettled, Growing, Failing
    <3>2. ReservedOfPc(s)'  BY DEF HoldKnown, ReservedOfPc
    <3>3. Projected(s)'  BY DEF Projected, SettleProjected
    <3>4. OpenOfPc(s)'  BY DEF HoldKnown, ReservedOfPc, OpenOfPc
    <3> QED  BY <3>1, <3>2, <3>3, <3>4
  <2>9. TokenMoves(s)
    <3>1. ShareValue(s, TokenShare(s)) /\ TokenShare(s) \in Nat  BY ShareCases
    <3>2. ShareValue(s, TokenShare(s))'  BY <2>7, ShareValueNext
    <3> QED
      BY <3>1, <3>2
         DEF TokenMoves, ShareValue, Cost, Control, EndOfPc, AmountsOfPc, SessionObjects, Growth
  <2>10. /\ ~Closing(s) \/ pc[s] = "new"
    BY DEF Closing, Over, Control, CallOfPc, Calling, Returned
  <2> QED
    BY <2>1, <2>3, <2>4, <2>7, <2>8, <2>9, <2>10, HandlerGood DEF PCs
<1>9. CASE /\ Returned(s, {"insufficient", "error"}) /\ c0.tokenErr = "failed"
           /\ Goto(s, "done") /\ UNCHANGED <<op, sess>>
  <2>1. SessRow(s, c0)  BY <1>9, SameRows
  <2>2. PcRow(s, "done")  BY <1>9, GotoRow DEF PCs
  <2>3. OpRow(s) /\ op'[s] = op[s]  BY <1>9, SameRows
  <2>4. sess'[s] = c0 /\ pc'[s] = "done"  BY <2>1, <2>2 DEF SessRow, PcRow
  <2> USE <1>9, <2>3, <2>4
  <2>5. Control(s)'
    BY DEF Control, CallOfPc, AmountsOfPc, EndOfPc, Calling, Returned, Growth, H,
           SessionObjects
  <2>6. Single(s) => Single(s)'
    <3> SUFFICES ASSUME Single(s) PROVE Single(s)'  OBVIOUS
    <3> USE DEF Single, Control, CallOfPc, AmountsOfPc, EndOfPc, Calling, Returned, H,
                SessionObjects
    <3>1. HoldKnown(s)'  BY DEF HoldKnown, Unsettled, Growing, Failing
    <3>2. ReservedOfPc(s)'  BY DEF HoldKnown, ReservedOfPc
    <3>3. Projected(s)'  BY DEF Projected, SettleProjected
    <3>4. OpenOfPc(s)'  BY DEF HoldKnown, ReservedOfPc, OpenOfPc
    <3> QED  BY <3>1, <3>2, <3>3, <3>4
  <2>7. TokenMoves(s)
    <3>1. ShareValue(s, TokenShare(s)) /\ TokenShare(s) \in Nat  BY ShareCases
    <3>2. ShareValue(s, TokenShare(s))'  BY <2>5, ShareValueNext
    <3> QED
      BY <3>1, <3>2
         DEF TokenMoves, ShareValue, Cost, Control, EndOfPc, AmountsOfPc, SessionObjects, Growth
  <2> QED
    BY <2>1, <2>2, <2>5, <2>6, <2>7, HandlerGood DEF PCs
<1>10. \/ /\ Returned(s, {"ok"}) /\ c0.tokenErr = "ok" /\ s \notin ended
          /\ sess' = [sess EXCEPT ![s].preConsumed = c0.goal, ![s].tokenConsumed = c0.goal,
                                  ![s].admitted = TRUE]
          /\ Goto(s, "live") /\ UNCHANGED op
       \/ /\ Returned(s, {"ok"}) /\ c0.tokenErr = "ok" /\ s \in ended
          /\ sess' = [sess EXCEPT ![s].preConsumed = c0.goal, ![s].tokenConsumed = c0.goal,
                                  ![s].admitted = FALSE]
          /\ Goto(s, "refund") /\ UNCHANGED op
       \/ /\ Returned(s, {"ok"}) /\ c0.tokenErr = "failed"
          /\ Call(s, "refund", 0, FALSE) /\ Goto(s, "refundReserved") /\ UNCHANGED sess
       \/ /\ Returned(s, {"insufficient", "error"}) /\ c0.tokenErr = "ok"
          /\ sess' = [sess EXCEPT ![s] = [c0 EXCEPT !.tokenConsumed = c0.goal]]
          /\ Goto(s, "returnToken") /\ UNCHANGED op
       \/ /\ Returned(s, {"insufficient", "error"}) /\ c0.tokenErr = "failed"
          /\ Goto(s, "done") /\ UNCHANGED <<op, sess>>
  BY Zenon DEF Join, NoFundingCall
<1> QED  BY <1>10, <1>5, <1>6, <1>7, <1>8, <1>9

\* preConsume: the reservation is refunded since the key refused.
LEMMA ReservedRefundedGood ==
    ASSUME Types, NEW s \in Sessions, Control(s), ReservedRefunded(s)
    PROVE  GoodStep(s)
<1> DEFINE c0 == sess[s]
<1>1. SessionTypes(s)  BY SessionTypesHold
<1>2. pc[s] = "refundReserved" /\ op[s].at = "returned" /\ token' = token
  BY DEF ReservedRefunded
<1>3. Quiet /\ hold' = hold /\ fund' = fund
  BY DEF ReservedRefunded, Quiet, walletVars, ledgerVars
<1>4. LogRow(s) /\ log'[s] = log[s]  BY LogMoves DEF ReservedRefunded
<1> USE <1>1, <1>2, <1>3, <1>4 DEF SessionTypes
<1>5. CASE Goto(s, "done") /\ UNCHANGED <<op, sess>>
  <2>1. SessRow(s, c0)  BY <1>5, SameRows
  <2>2. PcRow(s, "done")  BY <1>5, GotoRow DEF PCs
  <2>3. OpRow(s) /\ op'[s] = op[s]  BY <1>5, SameRows
  <2>4. sess'[s] = c0 /\ pc'[s] = "done"  BY <2>1, <2>2 DEF SessRow, PcRow
  <2> USE <1>5, <2>3, <2>4
  <2>5. Control(s)'
    BY DEF Control, CallOfPc, AmountsOfPc, EndOfPc, Calling, Returned, Growth, H,
           SessionObjects
  <2>6. Single(s) => Single(s)'
    <3> SUFFICES ASSUME Single(s) PROVE Single(s)'  OBVIOUS
    <3> USE DEF Single, Control, CallOfPc, AmountsOfPc, EndOfPc, Calling, Returned, H,
                SessionObjects
    <3>1. HoldKnown(s)'  BY DEF HoldKnown, Unsettled, Growing, Failing
    <3>2. ReservedOfPc(s)'  BY DEF HoldKnown, ReservedOfPc
    <3>3. Projected(s)'  BY DEF Projected, SettleProjected
    <3>4. OpenOfPc(s)'  BY DEF HoldKnown, ReservedOfPc, OpenOfPc
    <3> QED  BY <3>1, <3>2, <3>3, <3>4
  <2>7. TokenMoves(s)
    <3>1. ShareValue(s, TokenShare(s)) /\ TokenShare(s) \in Nat  BY ShareCases
    <3>2. ShareValue(s, TokenShare(s))'  BY <2>5, ShareValueNext
    <3> QED
      BY <3>1, <3>2
         DEF TokenMoves, ShareValue, Cost, Control, EndOfPc, AmountsOfPc, SessionObjects, Growth
  <2> QED
    BY <2>1, <2>2, <2>5, <2>6, <2>7, HandlerGood DEF PCs
<1>6. \/ Goto(s, "done") /\ UNCHANGED <<op, sess>>
  BY DEF ReservedRefunded, NoFundingCall
<1> QED  BY <1>6, <1>5

\* preConsume: the key is given back since the reservation failed.
LEMMA ReturnTokenGood ==
    ASSUME Types, NEW s \in Sessions, Control(s), ReturnToken(s)
    PROVE  GoodStep(s)
<1> DEFINE c0 == sess[s]
<1>1. SessionTypes(s)  BY SessionTypesHold
<1>2. pc[s] = "returnToken"
  BY DEF ReturnToken
<1>3. Quiet /\ hold' = hold /\ fund' = fund
  BY DEF ReturnToken, Quiet, walletVars, ledgerVars
<1>4. /\ LogRow(s)
      /\ log[s] = "unrepaired" => log'[s] = "unrepaired"
      /\ log'[s] = "clean" => log[s] = "clean"
      /\ log'[s] = log[s] \/ log'[s] = "unrepaired"
  BY LogMoves DEF ReturnToken, KeyFailsForGood
<1> USE <1>1, <1>2, <1>3, <1>4 DEF SessionTypes
<1>5. CASE /\ Take(s, -c0.tokenConsumed)
              /\ sess' = [sess EXCEPT ![s] = [c0 EXCEPT !.tokenConsumed = 0]]
           /\ Goto(s, "done") /\ UNCHANGED op
  <2> DEFINE c1 == [c0 EXCEPT !.tokenConsumed = 0]
  <2>1. c1 \in SessionObjects
    BY <1>5, SessionFields
  <2>2. /\ c1.goal = c0.goal /\ c1.tokenErr = c0.tokenErr /\ c1.preConsumed = c0.preConsumed
        /\ c1.tokenConsumed = 0 /\ c1.retries = c0.retries /\ c1.used = c0.used
        /\ c1.charged = c0.charged /\ c1.settled = c0.settled /\ c1.refunded = c0.refunded
        /\ c1.admitted = c0.admitted
    BY <2>1 DEF SessionObjects
  <2>3. SessRow(s, c1)  BY <1>5, <2>1, SessionRow
  <2> HIDE DEF c1
  <2>4. PcRow(s, "done")  BY <1>5, GotoRow DEF PCs
  <2>5. OpRow(s) /\ op'[s] = op[s]  BY <1>5, SameRows
  <2>6. sess'[s] = c1 /\ pc'[s] = "done"  BY <2>3, <2>4 DEF SessRow, PcRow
  <2> USE <1>5, <2>2, <2>5, <2>6
  <2>7. Control(s)'
    BY DEF Control, CallOfPc, AmountsOfPc, EndOfPc, Calling, Returned, Growth, H,
           SessionObjects
  <2>8. Single(s) => Single(s)'
    <3> SUFFICES ASSUME Single(s) PROVE Single(s)'  OBVIOUS
    <3> USE DEF Single, Control, CallOfPc, AmountsOfPc, EndOfPc, Calling, Returned, H,
                SessionObjects
    <3>1. HoldKnown(s)'  BY DEF HoldKnown, Unsettled, Growing, Failing
    <3>2. ReservedOfPc(s)'  BY DEF HoldKnown, ReservedOfPc
    <3>3. Projected(s)'  BY DEF Projected, SettleProjected
    <3>4. OpenOfPc(s)'  BY DEF HoldKnown, ReservedOfPc, OpenOfPc
    <3> QED  BY <3>1, <3>2, <3>3, <3>4
  <2>9. token' \in Nat /\ token' = token - Cost(s, -c0.tokenConsumed)
    BY <1>5, TakeCovered DEF SessionObjects
  <2>10. TokenMoves(s)
    <3>1. ShareValue(s, TokenShare(s)) /\ TokenShare(s) \in Nat  BY ShareCases
    <3>2. ShareValue(s, TokenShare(s))'  BY <2>7, ShareValueNext
    <3> QED
      BY <2>9, <3>1, <3>2
         DEF TokenMoves, ShareValue, Cost, Control, EndOfPc, AmountsOfPc, SessionObjects, Growth
  <2> QED
    BY <2>1, <2>3, <2>4, <2>7, <2>8, <2>9, <2>10, HandlerGood DEF PCs
<1>6. CASE /\ log'[s] = "unrepaired" /\ token' = token
           /\ Goto(s, "done") /\ UNCHANGED <<op, sess>>
  <2>1. SessRow(s, c0)  BY <1>6, SameRows
  <2>2. PcRow(s, "done")  BY <1>6, GotoRow DEF PCs
  <2>3. OpRow(s) /\ op'[s] = op[s]  BY <1>6, SameRows
  <2>4. sess'[s] = c0 /\ pc'[s] = "done"  BY <2>1, <2>2 DEF SessRow, PcRow
  <2> USE <1>6, <2>3, <2>4
  <2>5. Control(s)'
    BY DEF Control, CallOfPc, AmountsOfPc, EndOfPc, Calling, Returned, Growth, H,
           SessionObjects
  <2>6. Single(s) => Single(s)'
    <3> SUFFICES ASSUME Single(s) PROVE Single(s)'  OBVIOUS
    <3> USE DEF Single, Control, CallOfPc, AmountsOfPc, EndOfPc, Calling, Returned, H,
                SessionObjects
    <3>1. HoldKnown(s)'  BY DEF HoldKnown, Unsettled, Growing, Failing
    <3>2. ReservedOfPc(s)'  BY DEF HoldKnown, ReservedOfPc
    <3>3. Projected(s)'  BY DEF Projected, SettleProjected
    <3>4. OpenOfPc(s)'  BY DEF HoldKnown, ReservedOfPc, OpenOfPc
    <3> QED  BY <3>1, <3>2, <3>3, <3>4
  <2>7. TokenMoves(s)  BY DEF TokenMoves, Control, AmountsOfPc
  <2> QED
    BY <2>1, <2>2, <2>5, <2>6, <2>7, HandlerGood DEF PCs
<1>7. \/ /\ Take(s, -c0.tokenConsumed)
            /\ sess' = [sess EXCEPT ![s] = [c0 EXCEPT !.tokenConsumed = 0]]
         /\ Goto(s, "done") /\ UNCHANGED op
      \/ /\ log'[s] = "unrepaired" /\ token' = token
         /\ Goto(s, "done") /\ UNCHANGED <<op, sess>>
  BY LogMoves DEF ReturnToken, KeyFailsForGood, NoFundingCall
<1> QED  BY <1>7, <1>5, <1>6

\* reserveLocked: a larger target, or one that is already reserved.
LEMMA ReserveGood ==
    ASSUME Types, NEW s \in Sessions, Control(s), NEW q \in 0..MaxAmount, Reserve(s, q)
    PROVE  GoodStep(s)
<1> DEFINE c0 == sess[s]
<1>1. SessionTypes(s) /\ q \in Nat  BY FundingAssumption, SessionTypesHold
<1>2. pc[s] = "live" /\ q > c0.preConsumed /\ token' = token
  BY DEF Reserve
<1>3. Quiet /\ hold' = hold /\ fund' = fund
  BY DEF Reserve, Quiet, walletVars, ledgerVars
<1>4. LogRow(s) /\ log'[s] = log[s]  BY LogMoves DEF Reserve
<1> USE <1>1, <1>2, <1>3, <1>4 DEF SessionTypes
<1>5. CASE /\ sess' = [sess EXCEPT ![s].goal = q, ![s].retries = c0.retries + 1]
           /\ Goto(s, "reserveToken") /\ UNCHANGED op
  <2> DEFINE c1 == [c0 EXCEPT !.goal = q]
             c2 == [c1 EXCEPT !.retries = c0.retries + 1]
  <2>1. c1 \in SessionObjects
    BY <1>5, SessionFields
  <2>2. c2 \in SessionObjects
    BY <1>5, <2>1, SessionFields
  <2>3. /\ c2.goal = q /\ c2.tokenErr = c0.tokenErr /\ c2.preConsumed = c0.preConsumed
        /\ c2.tokenConsumed = c0.tokenConsumed /\ c2.retries = (c0.retries + 1) /\ c2.used = c0.used
        /\ c2.charged = c0.charged /\ c2.settled = c0.settled /\ c2.refunded = c0.refunded
        /\ c2.admitted = c0.admitted
    BY <2>1, <2>2 DEF SessionObjects
  <2>4. sess' = [sess EXCEPT ![s] = c2]  BY <1>5 DEF Types
  <2>5. SessRow(s, c2)  BY <2>4, <2>2, SessionRow
  <2> HIDE DEF c1, c2
  <2>6. PcRow(s, "reserveToken")  BY <1>5, GotoRow DEF PCs
  <2>7. OpRow(s) /\ op'[s] = op[s]  BY <1>5, SameRows
  <2>8. sess'[s] = c2 /\ pc'[s] = "reserveToken"  BY <2>5, <2>6 DEF SessRow, PcRow
  <2> USE <1>5, <2>3, <2>7, <2>8
  <2>9. Control(s)'
    BY DEF Control, CallOfPc, AmountsOfPc, EndOfPc, Calling, Returned, Growth, H,
           SessionObjects
  <2>10. Single(s) => Single(s)'
    <3> SUFFICES ASSUME Single(s) PROVE Single(s)'  OBVIOUS
    <3> USE DEF Single, Control, CallOfPc, AmountsOfPc, EndOfPc, Calling, Returned, H,
                SessionObjects
    <3>1. HoldKnown(s)'  BY DEF HoldKnown, Unsettled, Growing, Failing
    <3>2. ReservedOfPc(s)'  BY DEF HoldKnown, ReservedOfPc
    <3>3. Projected(s)'  BY DEF Projected, SettleProjected
    <3>4. OpenOfPc(s)'  BY DEF HoldKnown, ReservedOfPc, OpenOfPc
    <3> QED  BY <3>1, <3>2, <3>3, <3>4
  <2>11. TokenMoves(s)
    <3>1. ShareValue(s, TokenShare(s)) /\ TokenShare(s) \in Nat  BY ShareCases
    <3>2. ShareValue(s, TokenShare(s))'  BY <2>9, ShareValueNext
    <3> QED
      BY <3>1, <3>2
         DEF TokenMoves, ShareValue, Cost, Control, EndOfPc, AmountsOfPc, SessionObjects, Growth
  <2>12. /\ ~Closing(s) \/ pc[s] = "new"
    BY DEF Closing, Over, Control, CallOfPc, Calling, Returned
  <2> QED
    BY <2>2, <2>5, <2>6, <2>9, <2>10, <2>11, <2>12, HandlerGood DEF PCs
<1>6. \/ /\ sess' = [sess EXCEPT ![s].goal = q, ![s].retries = c0.retries + 1]
         /\ Goto(s, "reserveToken") /\ UNCHANGED op
  BY DEF Reserve, NoFundingCall
<1> QED  BY <1>6, <1>5

\* reserveToken: the key pays the difference first.
LEMMA ReserveTokenGood ==
    ASSUME Types, NEW s \in Sessions, Control(s), ReserveToken(s)
    PROVE  GoodStep(s)
<1> DEFINE c0 == sess[s]
<1>1. SessionTypes(s)  BY SessionTypesHold
<1>2. pc[s] = "reserveToken"
  BY DEF ReserveToken
<1>3. Quiet /\ hold' = hold /\ fund' = fund
  BY DEF ReserveToken, Quiet, walletVars, ledgerVars
<1>4. /\ LogRow(s)
      /\ log'[s] = "unrepaired" <=> log[s] = "unrepaired"
      /\ log'[s] = "clean" => log[s] = "clean"
  BY LogMoves DEF ReserveToken, KeyFails
<1> USE <1>1, <1>2, <1>3, <1>4 DEF SessionTypes
<1>g. /\ Growth(s) \in Nat /\ Growth(s) > 0 /\ Growth(s) = c0.goal - c0.preConsumed
      /\ c0.preConsumed + Growth(s) \in Nat /\ c0.tokenConsumed + Growth(s) \in Nat
  BY GrowthNat
<1>5. CASE /\ Covers(s, Growth(s)) /\ Take(s, Growth(s)) /\ Call(s, "increase", Growth(s), TRUE)
           /\ Goto(s, "reserveFunding") /\ UNCHANGED sess
  <2>1. SessRow(s, c0)  BY <1>5, SameRows
  <2>2. PcRow(s, "reserveFunding")  BY <1>5, GotoRow DEF PCs
  <2>3. /\ OpRow(s)
        /\ op'[s].kind = "increase" /\ op'[s].amount = Growth(s) /\ op'[s].cancellable = TRUE
        /\ op'[s].at = "wait" /\ op'[s].result = "none"
    BY <1>5, <1>g, CallRow DEF Calls4
  <2>4. sess'[s] = c0 /\ pc'[s] = "reserveFunding"  BY <2>1, <2>2 DEF SessRow, PcRow
  <2> USE <1>5, <2>3, <2>4, <1>g
  <2>5. Control(s)'
    BY DEF Control, CallOfPc, AmountsOfPc, EndOfPc, Calling, Returned, Growth, H,
           SessionObjects
  <2>6. Single(s) => Single(s)'
    <3> SUFFICES ASSUME Single(s) PROVE Single(s)'  OBVIOUS
    <3> USE DEF Single, Control, CallOfPc, AmountsOfPc, EndOfPc, Calling, Returned, H,
                SessionObjects
    <3>1. HoldKnown(s)'  BY DEF HoldKnown, Unsettled, Growing, Failing
    <3>2. ReservedOfPc(s)'  BY DEF HoldKnown, ReservedOfPc
    <3>3. Projected(s)'  BY DEF Projected, SettleProjected
    <3>4. OpenOfPc(s)'  BY DEF HoldKnown, ReservedOfPc, OpenOfPc
    <3> QED  BY <3>1, <3>2, <3>3, <3>4
  <2>7. token' \in Nat /\ token' = token - Cost(s, Growth(s))
    BY <1>5, <1>g, TakeCovered
  <2>8. TokenMoves(s)
    <3>1. ShareValue(s, TokenShare(s)) /\ TokenShare(s) \in Nat  BY ShareCases
    <3>2. ShareValue(s, TokenShare(s))'  BY <2>5, ShareValueNext
    <3> QED
      BY <2>7, <3>1, <3>2
         DEF TokenMoves, ShareValue, Cost, Control, EndOfPc, AmountsOfPc, SessionObjects, Growth
  <2>9. /\ ~Closing(s) \/ pc[s] = "new"
        /\ pc[s] = "new" \/ (op[s].at \in {"idle", "returned"} /\ op[s].kind # "settle")
    BY DEF Closing, Over, Control, CallOfPc, Calling, Returned
  <2> QED
    BY <2>1, <2>2, <2>5, <2>6, <2>7, <2>8, <2>9, HandlerGood DEF PCs
<1>6. CASE /\ token' = token /\ Goto(s, "refund") /\ UNCHANGED <<op, sess>>
  <2>1. SessRow(s, c0)  BY <1>6, SameRows
  <2>2. PcRow(s, "refund")  BY <1>6, GotoRow DEF PCs
  <2>3. OpRow(s) /\ op'[s] = op[s]  BY <1>6, SameRows
  <2>4. sess'[s] = c0 /\ pc'[s] = "refund"  BY <2>1, <2>2 DEF SessRow, PcRow
  <2> USE <1>6, <2>3, <2>4
  <2>5. Control(s)'
    BY DEF Control, CallOfPc, AmountsOfPc, EndOfPc, Calling, Returned, Growth, H,
           SessionObjects
  <2>6. Single(s) => Single(s)'
    <3> SUFFICES ASSUME Single(s) PROVE Single(s)'  OBVIOUS
    <3> USE DEF Single, Control, CallOfPc, AmountsOfPc, EndOfPc, Calling, Returned, H,
                SessionObjects
    <3>1. HoldKnown(s)'  BY DEF HoldKnown, Unsettled, Growing, Failing
    <3>2. ReservedOfPc(s)'  BY DEF HoldKnown, ReservedOfPc
    <3>3. Projected(s)'  BY DEF Projected, SettleProjected
    <3>4. OpenOfPc(s)'  BY DEF HoldKnown, ReservedOfPc, OpenOfPc
    <3> QED  BY <3>1, <3>2, <3>3, <3>4
  <2>7. TokenMoves(s)
    <3>1. ShareValue(s, TokenShare(s)) /\ TokenShare(s) \in Nat  BY ShareCases
    <3>2. ShareValue(s, TokenShare(s))'  BY <2>5, ShareValueNext
    <3> QED
      BY <3>1, <3>2
         DEF TokenMoves, ShareValue, Cost, Control, EndOfPc, AmountsOfPc, SessionObjects, Growth
  <2>8. /\ ~Closing(s) \/ pc[s] = "new"
    BY DEF Closing, Over, Control, CallOfPc, Calling, Returned
  <2> QED
    BY <2>1, <2>2, <2>5, <2>6, <2>7, <2>8, HandlerGood DEF PCs
<1>7. \/ /\ Covers(s, Growth(s)) /\ Take(s, Growth(s)) /\ Call(s, "increase", Growth(s), TRUE)
         /\ Goto(s, "reserveFunding") /\ UNCHANGED sess
      \/ /\ token' = token /\ Goto(s, "refund") /\ UNCHANGED <<op, sess>>
  BY DEF ReserveToken
<1> QED  BY <1>7, <1>5, <1>6

\* reserveFunding: the funding grew, or the key is given back.
LEMMA ReserveFundingGood ==
    ASSUME Types, NEW s \in Sessions, Control(s), ReserveFunding(s)
    PROVE  GoodStep(s)
<1> DEFINE c0 == sess[s]
<1>1. SessionTypes(s)  BY SessionTypesHold
<1>2. pc[s] = "reserveFunding" /\ token' = token
  BY DEF ReserveFunding
<1>3. Quiet /\ hold' = hold /\ fund' = fund
  BY DEF ReserveFunding, Quiet, walletVars, ledgerVars
<1>4. LogRow(s) /\ log'[s] = log[s]  BY LogMoves DEF ReserveFunding
<1> USE <1>1, <1>2, <1>3, <1>4 DEF SessionTypes
<1>g. /\ Growth(s) \in Nat /\ Growth(s) > 0 /\ Growth(s) = c0.goal - c0.preConsumed
      /\ c0.preConsumed + Growth(s) \in Nat /\ c0.tokenConsumed + Growth(s) \in Nat
  BY GrowthNat
<1>5. CASE /\ Returned(s, {"ok"})
           /\ sess' = [sess EXCEPT ![s].preConsumed = @ + Growth(s),
                                   ![s].tokenConsumed = @ + Growth(s)]
           /\ Goto(s, "live") /\ UNCHANGED op
  <2> DEFINE c1 == [c0 EXCEPT !.preConsumed = c0.preConsumed + Growth(s)]
             c2 == [c1 EXCEPT !.tokenConsumed = c0.tokenConsumed + Growth(s)]
  <2>1. c1 \in SessionObjects
    BY <1>5, <1>g, SessionFields
  <2>2. c2 \in SessionObjects
    BY <1>5, <1>g, <2>1, SessionFields
  <2>3. /\ c2.goal = c0.goal /\ c2.tokenErr = c0.tokenErr
           /\ c2.preConsumed = (c0.preConsumed + Growth(s))
        /\ c2.tokenConsumed = (c0.tokenConsumed + Growth(s)) /\ c2.retries = c0.retries
           /\ c2.used = c0.used
        /\ c2.charged = c0.charged /\ c2.settled = c0.settled /\ c2.refunded = c0.refunded
        /\ c2.admitted = c0.admitted
    BY <2>1, <2>2 DEF SessionObjects
  <2>4. sess' = [sess EXCEPT ![s] = c2]  BY <1>5 DEF Types
  <2>5. SessRow(s, c2)  BY <2>4, <2>2, SessionRow
  <2> HIDE DEF c1, c2
  <2>6. PcRow(s, "live")  BY <1>5, GotoRow DEF PCs
  <2>7. OpRow(s) /\ op'[s] = op[s]  BY <1>5, SameRows
  <2>8. sess'[s] = c2 /\ pc'[s] = "live"  BY <2>5, <2>6 DEF SessRow, PcRow
  <2> USE <1>5, <2>3, <2>7, <2>8, <1>g
  <2>9. Control(s)'
    BY DEF Control, CallOfPc, AmountsOfPc, EndOfPc, Calling, Returned, Growth, H,
           SessionObjects
  <2>10. Single(s) => Single(s)'
    <3> SUFFICES ASSUME Single(s) PROVE Single(s)'  OBVIOUS
    <3> USE DEF Single, Control, CallOfPc, AmountsOfPc, EndOfPc, Calling, Returned, H,
                SessionObjects
    <3>1. HoldKnown(s)'  BY DEF HoldKnown, Unsettled, Growing, Failing
    <3>2. ReservedOfPc(s)'  BY DEF HoldKnown, ReservedOfPc
    <3>3. Projected(s)'  BY DEF Projected, SettleProjected
    <3>4. OpenOfPc(s)'  BY DEF HoldKnown, ReservedOfPc, OpenOfPc
    <3> QED  BY <3>1, <3>2, <3>3, <3>4
  <2>11. TokenMoves(s)
    <3>1. ShareValue(s, TokenShare(s)) /\ TokenShare(s) \in Nat  BY ShareCases
    <3>2. ShareValue(s, TokenShare(s))'  BY <2>9, ShareValueNext
    <3> QED
      BY <3>1, <3>2
         DEF TokenMoves, ShareValue, Cost, Control, EndOfPc, AmountsOfPc, SessionObjects, Growth
  <2>12. /\ ~Closing(s) \/ pc[s] = "new"
    BY DEF Closing, Over, Control, CallOfPc, Calling, Returned
  <2> QED
    BY <2>2, <2>5, <2>6, <2>9, <2>10, <2>11, <2>12, HandlerGood DEF PCs
<1>6. CASE /\ Returned(s, {"insufficient", "error"})
           /\ Goto(s, "reserveUndo") /\ UNCHANGED <<op, sess>>
  <2>1. SessRow(s, c0)  BY <1>6, SameRows
  <2>2. PcRow(s, "reserveUndo")  BY <1>6, GotoRow DEF PCs
  <2>3. OpRow(s) /\ op'[s] = op[s]  BY <1>6, SameRows
  <2>4. sess'[s] = c0 /\ pc'[s] = "reserveUndo"  BY <2>1, <2>2 DEF SessRow, PcRow
  <2> USE <1>6, <2>3, <2>4
  <2>5. Control(s)'
    BY DEF Control, CallOfPc, AmountsOfPc, EndOfPc, Calling, Returned, Growth, H,
           SessionObjects
  <2>6. Single(s) => Single(s)'
    <3> SUFFICES ASSUME Single(s) PROVE Single(s)'  OBVIOUS
    <3> USE DEF Single, Control, CallOfPc, AmountsOfPc, EndOfPc, Calling, Returned, H,
                SessionObjects
    <3>1. HoldKnown(s)'  BY DEF HoldKnown, Unsettled, Growing, Failing
    <3>2. ReservedOfPc(s)'  BY DEF HoldKnown, ReservedOfPc
    <3>3. Projected(s)'  BY DEF Projected, SettleProjected
    <3>4. OpenOfPc(s)'  BY DEF HoldKnown, ReservedOfPc, OpenOfPc
    <3> QED  BY <3>1, <3>2, <3>3, <3>4
  <2>7. TokenMoves(s)
    <3>1. ShareValue(s, TokenShare(s)) /\ TokenShare(s) \in Nat  BY ShareCases
    <3>2. ShareValue(s, TokenShare(s))'  BY <2>5, ShareValueNext
    <3> QED
      BY <3>1, <3>2
         DEF TokenMoves, ShareValue, Cost, Control, EndOfPc, AmountsOfPc, SessionObjects, Growth
  <2>8. /\ ~Closing(s) \/ pc[s] = "new"
    BY DEF Closing, Over, Control, CallOfPc, Calling, Returned
  <2> QED
    BY <2>1, <2>2, <2>5, <2>6, <2>7, <2>8, HandlerGood DEF PCs
<1>7. \/ /\ Returned(s, {"ok"})
         /\ sess' = [sess EXCEPT ![s].preConsumed = @ + Growth(s),
                                 ![s].tokenConsumed = @ + Growth(s)]
         /\ Goto(s, "live") /\ UNCHANGED op
      \/ /\ Returned(s, {"insufficient", "error"})
         /\ Goto(s, "reserveUndo") /\ UNCHANGED <<op, sess>>
  BY DEF ReserveFunding, NoFundingCall
<1> QED  BY <1>7, <1>5, <1>6

\* reserveLocked: the key is given back.
LEMMA ReserveUndoGood ==
    ASSUME Types, NEW s \in Sessions, Control(s), ReserveUndo(s)
    PROVE  GoodStep(s)
<1> DEFINE c0 == sess[s]
<1>1. SessionTypes(s)  BY SessionTypesHold
<1>2. pc[s] = "reserveUndo"
  BY DEF ReserveUndo
<1>3. Quiet /\ hold' = hold /\ fund' = fund
  BY DEF ReserveUndo, Quiet, walletVars, ledgerVars
<1>4. /\ LogRow(s)
      /\ log[s] = "unrepaired" => log'[s] = "unrepaired"
      /\ log'[s] = "clean" => log[s] = "clean"
      /\ log'[s] = log[s] \/ log'[s] = "unrepaired"
  BY LogMoves DEF ReserveUndo, KeyFailsForGood
<1> USE <1>1, <1>2, <1>3, <1>4 DEF SessionTypes
<1>g. /\ Growth(s) \in Nat /\ Growth(s) > 0 /\ Growth(s) = c0.goal - c0.preConsumed
      /\ c0.preConsumed + Growth(s) \in Nat /\ c0.tokenConsumed + Growth(s) \in Nat
  BY GrowthNat
<1>5. CASE /\ Take(s, -Growth(s)) /\ Goto(s, "refund") /\ UNCHANGED <<op, sess>>
  <2>1. SessRow(s, c0)  BY <1>5, SameRows
  <2>2. PcRow(s, "refund")  BY <1>5, GotoRow DEF PCs
  <2>3. OpRow(s) /\ op'[s] = op[s]  BY <1>5, SameRows
  <2>4. sess'[s] = c0 /\ pc'[s] = "refund"  BY <2>1, <2>2 DEF SessRow, PcRow
  <2> USE <1>5, <2>3, <2>4, <1>g
  <2>5. Control(s)'
    BY DEF Control, CallOfPc, AmountsOfPc, EndOfPc, Calling, Returned, Growth, H,
           SessionObjects
  <2>6. Single(s) => Single(s)'
    <3> SUFFICES ASSUME Single(s) PROVE Single(s)'  OBVIOUS
    <3> USE DEF Single, Control, CallOfPc, AmountsOfPc, EndOfPc, Calling, Returned, H,
                SessionObjects
    <3>1. HoldKnown(s)'  BY DEF HoldKnown, Unsettled, Growing, Failing
    <3>2. ReservedOfPc(s)'  BY DEF HoldKnown, ReservedOfPc
    <3>3. Projected(s)'  BY DEF Projected, SettleProjected
    <3>4. OpenOfPc(s)'  BY DEF HoldKnown, ReservedOfPc, OpenOfPc
    <3> QED  BY <3>1, <3>2, <3>3, <3>4
  <2>7. token' \in Nat /\ token' = token - Cost(s, -Growth(s))
    BY <1>5, <1>g, TakeCovered
  <2>8. TokenMoves(s)
    <3>1. ShareValue(s, TokenShare(s)) /\ TokenShare(s) \in Nat  BY ShareCases
    <3>2. ShareValue(s, TokenShare(s))'  BY <2>5, ShareValueNext
    <3> QED
      BY <2>7, <3>1, <3>2
         DEF TokenMoves, ShareValue, Cost, Control, EndOfPc, AmountsOfPc, SessionObjects, Growth
  <2>9. /\ ~Closing(s) \/ pc[s] = "new"
    BY DEF Closing, Over, Control, CallOfPc, Calling, Returned
  <2> QED
    BY <2>1, <2>2, <2>5, <2>6, <2>7, <2>8, <2>9, HandlerGood DEF PCs
<1>6. CASE /\ log'[s] = "unrepaired" /\ token' = token
           /\ Goto(s, "refund") /\ UNCHANGED <<op, sess>>
  <2>1. SessRow(s, c0)  BY <1>6, SameRows
  <2>2. PcRow(s, "refund")  BY <1>6, GotoRow DEF PCs
  <2>3. OpRow(s) /\ op'[s] = op[s]  BY <1>6, SameRows
  <2>4. sess'[s] = c0 /\ pc'[s] = "refund"  BY <2>1, <2>2 DEF SessRow, PcRow
  <2> USE <1>6, <2>3, <2>4
  <2>5. Control(s)'
    BY DEF Control, CallOfPc, AmountsOfPc, EndOfPc, Calling, Returned, Growth, H,
           SessionObjects
  <2>6. Single(s) => Single(s)'
    <3> SUFFICES ASSUME Single(s) PROVE Single(s)'  OBVIOUS
    <3> USE DEF Single, Control, CallOfPc, AmountsOfPc, EndOfPc, Calling, Returned, H,
                SessionObjects
    <3>1. HoldKnown(s)'  BY DEF HoldKnown, Unsettled, Growing, Failing
    <3>2. ReservedOfPc(s)'  BY DEF HoldKnown, ReservedOfPc
    <3>3. Projected(s)'  BY DEF Projected, SettleProjected
    <3>4. OpenOfPc(s)'  BY DEF HoldKnown, ReservedOfPc, OpenOfPc
    <3> QED  BY <3>1, <3>2, <3>3, <3>4
  <2>7. TokenMoves(s)  BY DEF TokenMoves, Control, AmountsOfPc
  <2>8. /\ ~Closing(s) \/ pc[s] = "new"
    BY DEF Closing, Over, Control, CallOfPc, Calling, Returned
  <2> QED
    BY <2>1, <2>2, <2>5, <2>6, <2>7, <2>8, HandlerGood DEF PCs
<1>7. \/ /\ Take(s, -Growth(s)) /\ Goto(s, "refund") /\ UNCHANGED <<op, sess>>
      \/ /\ log'[s] = "unrepaired" /\ token' = token
         /\ Goto(s, "refund") /\ UNCHANGED <<op, sess>>
  BY LogMoves DEF ReserveUndo, KeyFailsForGood, NoFundingCall
<1> QED  BY <1>7, <1>5, <1>6

\* Settle: the use is known; the hold grows first if it was reserved too small.
LEMMA SettleGood ==
    ASSUME Types, NEW s \in Sessions, Control(s), NEW q \in 0..MaxAmount, Settle(s, q)
    PROVE  GoodStep(s)
<1> DEFINE c0 == sess[s]
<1>1. SessionTypes(s) /\ q \in Nat  BY FundingAssumption, SessionTypesHold
<1>2. pc[s] = "live" /\ token' = token /\ sess' = [sess EXCEPT ![s] = [c0 EXCEPT !.used = q]]
  BY DEF Settle
<1>3. Quiet /\ hold' = hold /\ fund' = fund
  BY DEF Settle, Quiet, walletVars, ledgerVars
<1>4. LogRow(s) /\ log'[s] = log[s]  BY LogMoves DEF Settle
<1> USE <1>1, <1>2, <1>3, <1>4 DEF SessionTypes
<1>g. q > c0.preConsumed => q - c0.preConsumed \in Nat  BY <1>1
<1>5. CASE /\ q > c0.preConsumed /\ Call(s, "increase", q - c0.preConsumed, FALSE)
           /\ Goto(s, "grow") /\ sess' = [sess EXCEPT ![s] = [c0 EXCEPT !.used = q]]
  <2> DEFINE c1 == [c0 EXCEPT !.used = q]
  <2>1. c1 \in SessionObjects
    BY <1>5, <1>g, SessionFields
  <2>2. /\ c1.goal = c0.goal /\ c1.tokenErr = c0.tokenErr /\ c1.preConsumed = c0.preConsumed
        /\ c1.tokenConsumed = c0.tokenConsumed /\ c1.retries = c0.retries /\ c1.used = q
        /\ c1.charged = c0.charged /\ c1.settled = c0.settled /\ c1.refunded = c0.refunded
        /\ c1.admitted = c0.admitted
    BY <2>1 DEF SessionObjects
  <2>3. SessRow(s, c1)  BY <1>5, <2>1, SessionRow
  <2> HIDE DEF c1
  <2>4. PcRow(s, "grow")  BY <1>5, GotoRow DEF PCs
  <2>5. /\ OpRow(s)
        /\ op'[s].kind = "increase" /\ op'[s].amount = q - c0.preConsumed
           /\ op'[s].cancellable = FALSE
        /\ op'[s].at = "wait" /\ op'[s].result = "none"
    BY <1>5, <1>g, CallRow DEF Calls4
  <2>6. sess'[s] = c1 /\ pc'[s] = "grow"  BY <2>3, <2>4 DEF SessRow, PcRow
  <2> USE <1>5, <2>2, <2>5, <2>6, <1>g
  <2>7. Control(s)'
    BY DEF Control, CallOfPc, AmountsOfPc, EndOfPc, Calling, Returned, Growth, H,
           SessionObjects
  <2>8. Single(s) => Single(s)'
    <3> SUFFICES ASSUME Single(s) PROVE Single(s)'  OBVIOUS
    <3> USE DEF Single, Control, CallOfPc, AmountsOfPc, EndOfPc, Calling, Returned, H,
                SessionObjects
    <3>1. HoldKnown(s)'  BY DEF HoldKnown, Unsettled, Growing, Failing
    <3>2. ReservedOfPc(s)'  BY DEF HoldKnown, ReservedOfPc
    <3>3. Projected(s)'  BY DEF Projected, SettleProjected
    <3>4. OpenOfPc(s)'  BY DEF HoldKnown, ReservedOfPc, OpenOfPc
    <3> QED  BY <3>1, <3>2, <3>3, <3>4
  <2>9. TokenMoves(s)
    <3>1. ShareValue(s, TokenShare(s)) /\ TokenShare(s) \in Nat  BY ShareCases
    <3>2. ShareValue(s, TokenShare(s))'  BY <2>7, ShareValueNext
    <3> QED
      BY <3>1, <3>2
         DEF TokenMoves, ShareValue, Cost, Control, EndOfPc, AmountsOfPc, SessionObjects, Growth
  <2>10. /\ ~Closing(s) \/ pc[s] = "new"
         /\ pc[s] = "new" \/ (op[s].at \in {"idle", "returned"} /\ op[s].kind # "settle")
    BY DEF Closing, Over, Control, CallOfPc, Calling, Returned
  <2>11. c1.used >= sess[s].used  BY DEF SessionObjects, Control, AmountsOfPc
  <2> QED
    BY <2>1, <2>3, <2>4, <2>7, <2>8, <2>9, <2>10, <2>11, HandlerGood DEF PCs
<1>6. CASE /\ q <= c0.preConsumed /\ Call(s, "settle", q, FALSE)
           /\ Goto(s, "settle") /\ sess' = [sess EXCEPT ![s] = [c0 EXCEPT !.used = q]]
  <2> DEFINE c1 == [c0 EXCEPT !.used = q]
  <2>1. c1 \in SessionObjects
    BY <1>6, SessionFields
  <2>2. /\ c1.goal = c0.goal /\ c1.tokenErr = c0.tokenErr /\ c1.preConsumed = c0.preConsumed
        /\ c1.tokenConsumed = c0.tokenConsumed /\ c1.retries = c0.retries /\ c1.used = q
        /\ c1.charged = c0.charged /\ c1.settled = c0.settled /\ c1.refunded = c0.refunded
        /\ c1.admitted = c0.admitted
    BY <2>1 DEF SessionObjects
  <2>3. SessRow(s, c1)  BY <1>6, <2>1, SessionRow
  <2> HIDE DEF c1
  <2>4. PcRow(s, "settle")  BY <1>6, GotoRow DEF PCs
  <2>5. /\ OpRow(s)
        /\ op'[s].kind = "settle" /\ op'[s].amount = q /\ op'[s].cancellable = FALSE
        /\ op'[s].at = "wait" /\ op'[s].result = "none"
    BY <1>6, CallRow DEF Calls4
  <2>6. sess'[s] = c1 /\ pc'[s] = "settle"  BY <2>3, <2>4 DEF SessRow, PcRow
  <2> USE <1>6, <2>2, <2>5, <2>6
  <2>7. Control(s)'
    BY DEF Control, CallOfPc, AmountsOfPc, EndOfPc, Calling, Returned, Growth, H,
           SessionObjects
  <2>8. Single(s) => Single(s)'
    <3> SUFFICES ASSUME Single(s) PROVE Single(s)'  OBVIOUS
    <3> USE DEF Single, Control, CallOfPc, AmountsOfPc, EndOfPc, Calling, Returned, H,
                SessionObjects
    <3>1. HoldKnown(s)'  BY DEF HoldKnown, Unsettled, Growing, Failing
    <3>2. ReservedOfPc(s)'  BY DEF HoldKnown, ReservedOfPc
    <3>3. Projected(s)'  BY DEF Projected, SettleProjected
    <3>4. OpenOfPc(s)'  BY DEF HoldKnown, ReservedOfPc, OpenOfPc
    <3> QED  BY <3>1, <3>2, <3>3, <3>4
  <2>9. TokenMoves(s)
    <3>1. ShareValue(s, TokenShare(s)) /\ TokenShare(s) \in Nat  BY ShareCases
    <3>2. ShareValue(s, TokenShare(s))'  BY <2>7, ShareValueNext
    <3> QED
      BY <3>1, <3>2
         DEF TokenMoves, ShareValue, Cost, Control, EndOfPc, AmountsOfPc, SessionObjects, Growth
  <2>10. /\ ~Closing(s) \/ pc[s] = "new"
         /\ pc[s] = "new" \/ (op[s].at \in {"idle", "returned"} /\ op[s].kind # "settle")
    BY DEF Closing, Over, Control, CallOfPc, Calling, Returned
  <2>11. c1.used >= sess[s].used  BY DEF SessionObjects, Control, AmountsOfPc
  <2> QED
    BY <2>1, <2>3, <2>4, <2>7, <2>8, <2>9, <2>10, <2>11, HandlerGood DEF PCs
<1>7. \/ /\ q > c0.preConsumed /\ Call(s, "increase", q - c0.preConsumed, FALSE)
         /\ Goto(s, "grow") /\ sess' = [sess EXCEPT ![s] = [c0 EXCEPT !.used = q]]
      \/ /\ q <= c0.preConsumed /\ Call(s, "settle", q, FALSE)
         /\ Goto(s, "settle") /\ sess' = [sess EXCEPT ![s] = [c0 EXCEPT !.used = q]]
  <2>1. IF q > c0.preConsumed
        THEN Call(s, "increase", q - c0.preConsumed, FALSE) /\ Goto(s, "grow")
        ELSE Call(s, "settle", q, FALSE) /\ Goto(s, "settle")
    BY Zenon DEF Settle, CallSettle
  <2>2. q > c0.preConsumed \/ q <= c0.preConsumed  BY <1>1
  <2>3. ~(q > c0.preConsumed /\ q <= c0.preConsumed)  BY <1>1
  <2> QED  BY <1>2, <2>1, <2>2, <2>3
<1> QED  BY <1>7, <1>5, <1>6

\* reserveSettlementIncrease: the hold grew, or the balance was short.
LEMMA HoldGrownGood ==
    ASSUME Types, NEW s \in Sessions, Control(s), HoldGrown(s)
    PROVE  GoodStep(s)
<1> DEFINE c0 == sess[s]
<1>1. SessionTypes(s)  BY SessionTypesHold
<1>2. pc[s] \in {"grow", "growPart"} /\ token' = token
  BY DEF HoldGrown
<1>3. Quiet /\ hold' = hold /\ fund' = fund
  BY DEF HoldGrown, Quiet, walletVars, ledgerVars
<1>4. LogRow(s) /\ log'[s] = log[s]  BY LogMoves DEF HoldGrown
<1> USE <1>1, <1>2, <1>3, <1>4 DEF SessionTypes
<1>g. op[s].amount \in Nat /\ c0.preConsumed + op[s].amount \in Nat  BY <1>1, AmountNat
<1>5. CASE /\ Returned(s, {"ok"})
              /\ sess' = [sess EXCEPT ![s] = [c0 EXCEPT !.preConsumed = c0.preConsumed + op[s].amount]]
           /\ Call(s, "settle", c0.preConsumed + op[s].amount, FALSE) /\ Goto(s, "settle")
  <2> DEFINE c1 == [c0 EXCEPT !.preConsumed = c0.preConsumed + op[s].amount]
  <2>1. c1 \in SessionObjects
    BY <1>5, <1>g, SessionFields
  <2>2. /\ c1.goal = c0.goal /\ c1.tokenErr = c0.tokenErr
           /\ c1.preConsumed = (c0.preConsumed + op[s].amount)
        /\ c1.tokenConsumed = c0.tokenConsumed /\ c1.retries = c0.retries /\ c1.used = c0.used
        /\ c1.charged = c0.charged /\ c1.settled = c0.settled /\ c1.refunded = c0.refunded
        /\ c1.admitted = c0.admitted
    BY <2>1 DEF SessionObjects
  <2>3. SessRow(s, c1)  BY <1>5, <2>1, SessionRow
  <2> HIDE DEF c1
  <2>4. PcRow(s, "settle")  BY <1>5, GotoRow DEF PCs
  <2>5. /\ OpRow(s)
        /\ op'[s].kind = "settle" /\ op'[s].amount = c0.preConsumed + op[s].amount
           /\ op'[s].cancellable = FALSE
        /\ op'[s].at = "wait" /\ op'[s].result = "none"
    BY <1>5, <1>g, CallRow DEF Calls4
  <2>6. sess'[s] = c1 /\ pc'[s] = "settle"  BY <2>3, <2>4 DEF SessRow, PcRow
  <2> USE <1>5, <2>2, <2>5, <2>6, <1>g
  <2>7. Control(s)'
    BY DEF Control, CallOfPc, AmountsOfPc, EndOfPc, Calling, Returned, Growth, H,
           SessionObjects
  <2>8. Single(s) => Single(s)'
    <3> SUFFICES ASSUME Single(s) PROVE Single(s)'  OBVIOUS
    <3> USE DEF Single, Control, CallOfPc, AmountsOfPc, EndOfPc, Calling, Returned, H,
                SessionObjects
    <3>1. HoldKnown(s)'  BY DEF HoldKnown, Unsettled, Growing, Failing
    <3>2. ReservedOfPc(s)'  BY DEF HoldKnown, ReservedOfPc
    <3>3. Projected(s)'  BY DEF Projected, SettleProjected
    <3>4. OpenOfPc(s)'  BY DEF HoldKnown, ReservedOfPc, OpenOfPc
    <3> QED  BY <3>1, <3>2, <3>3, <3>4
  <2>9. TokenMoves(s)
    <3>1. ShareValue(s, TokenShare(s)) /\ TokenShare(s) \in Nat  BY ShareCases
    <3>2. ShareValue(s, TokenShare(s))'  BY <2>7, ShareValueNext
    <3> QED
      BY <3>1, <3>2
         DEF TokenMoves, ShareValue, Cost, Control, EndOfPc, AmountsOfPc, SessionObjects, Growth
  <2>10. /\ ~Closing(s) \/ pc[s] = "new"
         /\ pc[s] = "new" \/ (op[s].at \in {"idle", "returned"} /\ op[s].kind # "settle")
    BY DEF Closing, Over, Control, CallOfPc, Calling, Returned
  <2> QED
    BY <2>1, <2>3, <2>4, <2>7, <2>8, <2>9, <2>10, HandlerGood DEF PCs
<1>6. CASE /\ Returned(s, {"insufficient"}) /\ pc[s] = "grow"
           /\ Goto(s, "readBalance") /\ UNCHANGED <<op, sess>>
  <2>1. SessRow(s, c0)  BY <1>6, SameRows
  <2>2. PcRow(s, "readBalance")  BY <1>6, GotoRow DEF PCs
  <2>3. OpRow(s) /\ op'[s] = op[s]  BY <1>6, SameRows
  <2>4. sess'[s] = c0 /\ pc'[s] = "readBalance"  BY <2>1, <2>2 DEF SessRow, PcRow
  <2> USE <1>6, <2>3, <2>4
  <2>5. Control(s)'
    BY DEF Control, CallOfPc, AmountsOfPc, EndOfPc, Calling, Returned, Growth, H,
           SessionObjects
  <2>6. Single(s) => Single(s)'
    <3> SUFFICES ASSUME Single(s) PROVE Single(s)'  OBVIOUS
    <3> USE DEF Single, Control, CallOfPc, AmountsOfPc, EndOfPc, Calling, Returned, H,
                SessionObjects
    <3>1. HoldKnown(s)'  BY DEF HoldKnown, Unsettled, Growing, Failing
    <3>2. ReservedOfPc(s)'  BY DEF HoldKnown, ReservedOfPc
    <3>3. Projected(s)'  BY DEF Projected, SettleProjected
    <3>4. OpenOfPc(s)'  BY DEF HoldKnown, ReservedOfPc, OpenOfPc
    <3> QED  BY <3>1, <3>2, <3>3, <3>4
  <2>7. TokenMoves(s)
    <3>1. ShareValue(s, TokenShare(s)) /\ TokenShare(s) \in Nat  BY ShareCases
    <3>2. ShareValue(s, TokenShare(s))'  BY <2>5, ShareValueNext
    <3> QED
      BY <3>1, <3>2
         DEF TokenMoves, ShareValue, Cost, Control, EndOfPc, AmountsOfPc, SessionObjects, Growth
  <2>8. /\ ~Closing(s) \/ pc[s] = "new"
    BY DEF Closing, Over, Control, CallOfPc, Calling, Returned
  <2> QED
    BY <2>1, <2>2, <2>5, <2>6, <2>7, <2>8, HandlerGood DEF PCs
<1>7. CASE /\ Returned(s, {"insufficient"}) /\ pc[s] = "growPart"
           /\ Call(s, "settle", c0.preConsumed, FALSE) /\ Goto(s, "settle") /\ UNCHANGED sess
  <2>1. SessRow(s, c0)  BY <1>7, SameRows
  <2>2. PcRow(s, "settle")  BY <1>7, GotoRow DEF PCs
  <2>3. /\ OpRow(s)
        /\ op'[s].kind = "settle" /\ op'[s].amount = c0.preConsumed /\ op'[s].cancellable = FALSE
        /\ op'[s].at = "wait" /\ op'[s].result = "none"
    BY <1>7, CallRow DEF Calls4
  <2>4. sess'[s] = c0 /\ pc'[s] = "settle"  BY <2>1, <2>2 DEF SessRow, PcRow
  <2> USE <1>7, <2>3, <2>4
  <2>5. Control(s)'
    BY DEF Control, CallOfPc, AmountsOfPc, EndOfPc, Calling, Returned, Growth, H,
           SessionObjects
  <2>6. Single(s) => Single(s)'
    <3> SUFFICES ASSUME Single(s) PROVE Single(s)'  OBVIOUS
    <3> USE DEF Single, Control, CallOfPc, AmountsOfPc, EndOfPc, Calling, Returned, H,
                SessionObjects
    <3>1. HoldKnown(s)'  BY DEF HoldKnown, Unsettled, Growing, Failing
    <3>2. ReservedOfPc(s)'  BY DEF HoldKnown, ReservedOfPc
    <3>3. Projected(s)'  BY DEF Projected, SettleProjected
    <3>4. OpenOfPc(s)'  BY DEF HoldKnown, ReservedOfPc, OpenOfPc
    <3> QED  BY <3>1, <3>2, <3>3, <3>4
  <2>7. TokenMoves(s)
    <3>1. ShareValue(s, TokenShare(s)) /\ TokenShare(s) \in Nat  BY ShareCases
    <3>2. ShareValue(s, TokenShare(s))'  BY <2>5, ShareValueNext
    <3> QED
      BY <3>1, <3>2
         DEF TokenMoves, ShareValue, Cost, Control, EndOfPc, AmountsOfPc, SessionObjects, Growth
  <2>8. /\ ~Closing(s) \/ pc[s] = "new"
        /\ pc[s] = "new" \/ (op[s].at \in {"idle", "returned"} /\ op[s].kind # "settle")
    BY DEF Closing, Over, Control, CallOfPc, Calling, Returned
  <2> QED
    BY <2>1, <2>2, <2>5, <2>6, <2>7, <2>8, HandlerGood DEF PCs
<1>8. CASE /\ Returned(s, {"error"}) /\ Goto(s, "done") /\ UNCHANGED <<op, sess>>
  <2>1. SessRow(s, c0)  BY <1>8, SameRows
  <2>2. PcRow(s, "done")  BY <1>8, GotoRow DEF PCs
  <2>3. OpRow(s) /\ op'[s] = op[s]  BY <1>8, SameRows
  <2>4. sess'[s] = c0 /\ pc'[s] = "done"  BY <2>1, <2>2 DEF SessRow, PcRow
  <2> USE <1>8, <2>3, <2>4
  <2>5. Control(s)'
    BY DEF Control, CallOfPc, AmountsOfPc, EndOfPc, Calling, Returned, Growth, H,
           SessionObjects
  <2>6. Single(s) => Single(s)'
    <3> SUFFICES ASSUME Single(s) PROVE Single(s)'  OBVIOUS
    <3> USE DEF Single, Control, CallOfPc, AmountsOfPc, EndOfPc, Calling, Returned, H,
                SessionObjects
    <3>1. HoldKnown(s)'  BY DEF HoldKnown, Unsettled, Growing, Failing
    <3>2. ReservedOfPc(s)'  BY DEF HoldKnown, ReservedOfPc
    <3>3. Projected(s)'  BY DEF Projected, SettleProjected
    <3>4. OpenOfPc(s)'  BY DEF HoldKnown, ReservedOfPc, OpenOfPc
    <3> QED  BY <3>1, <3>2, <3>3, <3>4
  <2>7. TokenMoves(s)
    <3>1. ShareValue(s, TokenShare(s)) /\ TokenShare(s) \in Nat  BY ShareCases
    <3>2. ShareValue(s, TokenShare(s))'  BY <2>5, ShareValueNext
    <3> QED
      BY <3>1, <3>2
         DEF TokenMoves, ShareValue, Cost, Control, EndOfPc, AmountsOfPc, SessionObjects, Growth
  <2> QED
    BY <2>1, <2>2, <2>5, <2>6, <2>7, HandlerGood DEF PCs
<1>9. \/ /\ Returned(s, {"ok"})
            /\ sess' = [sess EXCEPT ![s] = [c0 EXCEPT !.preConsumed = c0.preConsumed + op[s].amount]]
         /\ Call(s, "settle", c0.preConsumed + op[s].amount, FALSE) /\ Goto(s, "settle")
      \/ /\ Returned(s, {"insufficient"}) /\ pc[s] = "grow"
         /\ Goto(s, "readBalance") /\ UNCHANGED <<op, sess>>
      \/ /\ Returned(s, {"insufficient"}) /\ pc[s] = "growPart"
         /\ Call(s, "settle", c0.preConsumed, FALSE) /\ Goto(s, "settle") /\ UNCHANGED sess
      \/ /\ Returned(s, {"error"}) /\ Goto(s, "done") /\ UNCHANGED <<op, sess>>
  BY DEF HoldGrown, CallSettle
<1> QED  BY <1>9, <1>5, <1>6, <1>7, <1>8

\* AvailableBalance: what is left of the balance is taken instead.
LEMMA ReadBalanceGood ==
    ASSUME Types, NEW s \in Sessions, Control(s), ReadBalance(s)
    PROVE  GoodStep(s)
<1> DEFINE c0 == sess[s]
           wanted == sess[s].used - sess[s].preConsumed
           part == IF available < wanted THEN available ELSE wanted
<1>1. SessionTypes(s)  BY SessionTypesHold
<1>2. pc[s] = "readBalance" /\ token' = token
  BY DEF ReadBalance
<1>3. Quiet /\ hold' = hold /\ fund' = fund
  BY DEF ReadBalance, Quiet, walletVars, ledgerVars
<1>4. /\ LogRow(s)
      /\ log'[s] = "unrepaired" <=> log[s] = "unrepaired"
      /\ log'[s] = "clean" => log[s] = "clean"
  BY LogMoves DEF ReadBalance
<1> USE <1>1, <1>2, <1>3, <1>4 DEF SessionTypes
<1>g. part \in Nat /\ part <= c0.used - c0.preConsumed
  <2>1. c0.used > c0.preConsumed  BY <1>2 DEF Control, AmountsOfPc
  <2> QED  BY <1>1, <2>1 DEF part
<1> HIDE DEF part
<1>5. CASE /\ 0 < part /\ UNCHANGED sess /\ Goto(s, "growPart")
           /\ Call(s, "increase", part, FALSE)
  <2>1. SessRow(s, c0)  BY <1>5, SameRows
  <2>2. PcRow(s, "growPart")  BY <1>5, GotoRow DEF PCs
  <2>3. /\ OpRow(s)
        /\ op'[s].kind = "increase" /\ op'[s].amount = part /\ op'[s].cancellable = FALSE
        /\ op'[s].at = "wait" /\ op'[s].result = "none"
    BY <1>5, <1>g, CallRow DEF Calls4
  <2>4. sess'[s] = c0 /\ pc'[s] = "growPart"  BY <2>1, <2>2 DEF SessRow, PcRow
  <2> USE <1>5, <2>3, <2>4, <1>g
  <2>5. Control(s)'
    BY DEF Control, CallOfPc, AmountsOfPc, EndOfPc, Calling, Returned, Growth, H,
           SessionObjects
  <2>6. Single(s) => Single(s)'
    <3> SUFFICES ASSUME Single(s) PROVE Single(s)'  OBVIOUS
    <3> USE DEF Single, Control, CallOfPc, AmountsOfPc, EndOfPc, Calling, Returned, H,
                SessionObjects
    <3>1. HoldKnown(s)'  BY DEF HoldKnown, Unsettled, Growing, Failing
    <3>2. ReservedOfPc(s)'  BY DEF HoldKnown, ReservedOfPc
    <3>3. Projected(s)'  BY DEF Projected, SettleProjected
    <3>4. OpenOfPc(s)'  BY DEF HoldKnown, ReservedOfPc, OpenOfPc
    <3> QED  BY <3>1, <3>2, <3>3, <3>4
  <2>7. TokenMoves(s)
    <3>1. ShareValue(s, TokenShare(s)) /\ TokenShare(s) \in Nat  BY ShareCases
    <3>2. ShareValue(s, TokenShare(s))'  BY <2>5, ShareValueNext
    <3> QED
      BY <3>1, <3>2
         DEF TokenMoves, ShareValue, Cost, Control, EndOfPc, AmountsOfPc, SessionObjects, Growth
  <2>8. /\ ~Closing(s) \/ pc[s] = "new"
        /\ pc[s] = "new" \/ (op[s].at \in {"idle", "returned"} /\ op[s].kind # "settle")
    BY DEF Closing, Over, Control, CallOfPc, Calling, Returned
  <2> QED
    BY <2>1, <2>2, <2>5, <2>6, <2>7, <2>8, HandlerGood DEF PCs
<1>6. CASE Call(s, "settle", c0.preConsumed, FALSE) /\ Goto(s, "settle") /\ UNCHANGED sess
  <2>1. SessRow(s, c0)  BY <1>6, SameRows
  <2>2. PcRow(s, "settle")  BY <1>6, GotoRow DEF PCs
  <2>3. /\ OpRow(s)
        /\ op'[s].kind = "settle" /\ op'[s].amount = c0.preConsumed /\ op'[s].cancellable = FALSE
        /\ op'[s].at = "wait" /\ op'[s].result = "none"
    BY <1>6, CallRow DEF Calls4
  <2>4. sess'[s] = c0 /\ pc'[s] = "settle"  BY <2>1, <2>2 DEF SessRow, PcRow
  <2> USE <1>6, <2>3, <2>4
  <2>5. Control(s)'
    BY DEF Control, CallOfPc, AmountsOfPc, EndOfPc, Calling, Returned, Growth, H,
           SessionObjects
  <2>6. Single(s) => Single(s)'
    <3> SUFFICES ASSUME Single(s) PROVE Single(s)'  OBVIOUS
    <3> USE DEF Single, Control, CallOfPc, AmountsOfPc, EndOfPc, Calling, Returned, H,
                SessionObjects
    <3>1. HoldKnown(s)'  BY DEF HoldKnown, Unsettled, Growing, Failing
    <3>2. ReservedOfPc(s)'  BY DEF HoldKnown, ReservedOfPc
    <3>3. Projected(s)'  BY DEF Projected, SettleProjected
    <3>4. OpenOfPc(s)'  BY DEF HoldKnown, ReservedOfPc, OpenOfPc
    <3> QED  BY <3>1, <3>2, <3>3, <3>4
  <2>7. TokenMoves(s)
    <3>1. ShareValue(s, TokenShare(s)) /\ TokenShare(s) \in Nat  BY ShareCases
    <3>2. ShareValue(s, TokenShare(s))'  BY <2>5, ShareValueNext
    <3> QED
      BY <3>1, <3>2
         DEF TokenMoves, ShareValue, Cost, Control, EndOfPc, AmountsOfPc, SessionObjects, Growth
  <2>8. /\ ~Closing(s) \/ pc[s] = "new"
        /\ pc[s] = "new" \/ (op[s].at \in {"idle", "returned"} /\ op[s].kind # "settle")
    BY DEF Closing, Over, Control, CallOfPc, Calling, Returned
  <2> QED
    BY <2>1, <2>2, <2>5, <2>6, <2>7, <2>8, HandlerGood DEF PCs
<1>7. CASE log'[s] # "clean" /\ Goto(s, "done") /\ UNCHANGED <<op, sess>>
  <2>1. SessRow(s, c0)  BY <1>7, SameRows
  <2>2. PcRow(s, "done")  BY <1>7, GotoRow DEF PCs
  <2>3. OpRow(s) /\ op'[s] = op[s]  BY <1>7, SameRows
  <2>4. sess'[s] = c0 /\ pc'[s] = "done"  BY <2>1, <2>2 DEF SessRow, PcRow
  <2> USE <1>7, <2>3, <2>4
  <2>5. Control(s)'
    BY DEF Control, CallOfPc, AmountsOfPc, EndOfPc, Calling, Returned, Growth, H,
           SessionObjects
  <2>6. Single(s) => Single(s)'
    <3> SUFFICES ASSUME Single(s) PROVE Single(s)'  OBVIOUS
    <3> USE DEF Single, Control, CallOfPc, AmountsOfPc, EndOfPc, Calling, Returned, H,
                SessionObjects
    <3>1. HoldKnown(s)'  BY DEF HoldKnown, Unsettled, Growing, Failing
    <3>2. ReservedOfPc(s)'  BY DEF HoldKnown, ReservedOfPc
    <3>3. Projected(s)'  BY DEF Projected, SettleProjected
    <3>4. OpenOfPc(s)'  BY DEF HoldKnown, ReservedOfPc, OpenOfPc
    <3> QED  BY <3>1, <3>2, <3>3, <3>4
  <2>7. TokenMoves(s)
    <3>1. ShareValue(s, TokenShare(s)) /\ TokenShare(s) \in Nat  BY ShareCases
    <3>2. ShareValue(s, TokenShare(s))'  BY <2>5, ShareValueNext
    <3> QED
      BY <3>1, <3>2
         DEF TokenMoves, ShareValue, Cost, Control, EndOfPc, AmountsOfPc, SessionObjects, Growth
  <2> QED
    BY <2>1, <2>2, <2>5, <2>6, <2>7, HandlerGood DEF PCs
<1>8. \/ /\ 0 < part /\ UNCHANGED sess /\ Goto(s, "growPart")
         /\ Call(s, "increase", part, FALSE)
      \/ Call(s, "settle", c0.preConsumed, FALSE) /\ Goto(s, "settle") /\ UNCHANGED sess
      \/ log'[s] # "clean" /\ Goto(s, "done") /\ UNCHANGED <<op, sess>>
  <2>1. \/ part > 0 /\ Call(s, "increase", part, FALSE) /\ Goto(s, "growPart") /\ UNCHANGED sess
        \/ Call(s, "settle", c0.preConsumed, FALSE) /\ Goto(s, "settle") /\ UNCHANGED sess
        \/ Fails(s) /\ Goto(s, "done") /\ UNCHANGED <<op, sess>>
    BY Zenon DEF ReadBalance, CallSettle, part
  <2>2. Fails(s) => log'[s] # "clean"  BY LogMoves
  <2>3. part > 0 => 0 < part  BY <1>g
  <2> QED  BY <2>1, <2>2, <2>3
<1> QED  BY <1>8, <1>5, <1>6, <1>7

\* Settle: the funding settlement is in.
LEMMA FundingSettledGood ==
    ASSUME Types, NEW s \in Sessions, Control(s), FundingSettled(s)
    PROVE  GoodStep(s)
<1> DEFINE c0 == sess[s]
<1>1. SessionTypes(s)  BY SessionTypesHold
<1>2. pc[s] = "settle" /\ token' = token
  BY DEF FundingSettled
<1>3. Quiet /\ hold' = hold /\ fund' = fund
  BY DEF FundingSettled, Quiet, walletVars, ledgerVars
<1>4. LogRow(s) /\ log'[s] = log[s]  BY LogMoves DEF FundingSettled
<1> USE <1>1, <1>2, <1>3, <1>4 DEF SessionTypes
<1>g. op[s].amount \in Nat /\ c0.preConsumed + op[s].amount \in Nat  BY <1>1, AmountNat
<1>5. CASE /\ Returned(s, {"ok"})
              /\ sess' = [sess EXCEPT ![s] = [c0 EXCEPT !.charged = op[s].amount]]
           /\ Goto(s, "settleToken") /\ UNCHANGED op
  <2> DEFINE c1 == [c0 EXCEPT !.charged = op[s].amount]
  <2>1. c1 \in SessionObjects
    BY <1>5, <1>g, SessionFields
  <2>2. /\ c1.goal = c0.goal /\ c1.tokenErr = c0.tokenErr /\ c1.preConsumed = c0.preConsumed
        /\ c1.tokenConsumed = c0.tokenConsumed /\ c1.retries = c0.retries /\ c1.used = c0.used
        /\ c1.charged = op[s].amount /\ c1.settled = c0.settled /\ c1.refunded = c0.refunded
        /\ c1.admitted = c0.admitted
    BY <2>1 DEF SessionObjects
  <2>3. SessRow(s, c1)  BY <1>5, <2>1, SessionRow
  <2> HIDE DEF c1
  <2>4. PcRow(s, "settleToken")  BY <1>5, GotoRow DEF PCs
  <2>5. OpRow(s) /\ op'[s] = op[s]  BY <1>5, SameRows
  <2>6. sess'[s] = c1 /\ pc'[s] = "settleToken"  BY <2>3, <2>4 DEF SessRow, PcRow
  <2> USE <1>5, <2>2, <2>5, <2>6, <1>g
  <2>7. Control(s)'
    BY DEF Control, CallOfPc, AmountsOfPc, EndOfPc, Calling, Returned, Growth, H,
           SessionObjects
  <2>8. Single(s) => Single(s)'
    <3> SUFFICES ASSUME Single(s) PROVE Single(s)'  OBVIOUS
    <3> USE DEF Single, Control, CallOfPc, AmountsOfPc, EndOfPc, Calling, Returned, H,
                SessionObjects
    <3>1. HoldKnown(s)'  BY DEF HoldKnown, Unsettled, Growing, Failing
    <3>2. ReservedOfPc(s)'  BY DEF HoldKnown, ReservedOfPc
    <3>3. Projected(s)'  BY DEF Projected, SettleProjected
    <3>4. OpenOfPc(s)'  BY DEF HoldKnown, ReservedOfPc, OpenOfPc
    <3> QED  BY <3>1, <3>2, <3>3, <3>4
  <2>9. TokenMoves(s)
    <3>1. ShareValue(s, TokenShare(s)) /\ TokenShare(s) \in Nat  BY ShareCases
    <3>2. ShareValue(s, TokenShare(s))'  BY <2>7, ShareValueNext
    <3> QED
      BY <3>1, <3>2
         DEF TokenMoves, ShareValue, Cost, Control, EndOfPc, AmountsOfPc, SessionObjects, Growth
  <2>10. /\ ~Closing(s) \/ pc[s] = "new"
    BY DEF Closing, Over, Control, CallOfPc, Calling, Returned
  <2> QED
    BY <2>1, <2>3, <2>4, <2>7, <2>8, <2>9, <2>10, HandlerGood DEF PCs
<1>6. CASE Returned(s, {"error"}) /\ Goto(s, "done") /\ UNCHANGED <<op, sess>>
  <2>1. SessRow(s, c0)  BY <1>6, SameRows
  <2>2. PcRow(s, "done")  BY <1>6, GotoRow DEF PCs
  <2>3. OpRow(s) /\ op'[s] = op[s]  BY <1>6, SameRows
  <2>4. sess'[s] = c0 /\ pc'[s] = "done"  BY <2>1, <2>2 DEF SessRow, PcRow
  <2> USE <1>6, <2>3, <2>4
  <2>5. Control(s)'
    BY DEF Control, CallOfPc, AmountsOfPc, EndOfPc, Calling, Returned, Growth, H,
           SessionObjects
  <2>6. Single(s) => Single(s)'
    <3> SUFFICES ASSUME Single(s) PROVE Single(s)'  OBVIOUS
    <3> USE DEF Single, Control, CallOfPc, AmountsOfPc, EndOfPc, Calling, Returned, H,
                SessionObjects
    <3>1. HoldKnown(s)'  BY DEF HoldKnown, Unsettled, Growing, Failing
    <3>2. ReservedOfPc(s)'  BY DEF HoldKnown, ReservedOfPc
    <3>3. Projected(s)'  BY DEF Projected, SettleProjected
    <3>4. OpenOfPc(s)'  BY DEF HoldKnown, ReservedOfPc, OpenOfPc
    <3> QED  BY <3>1, <3>2, <3>3, <3>4
  <2>7. TokenMoves(s)
    <3>1. ShareValue(s, TokenShare(s)) /\ TokenShare(s) \in Nat  BY ShareCases
    <3>2. ShareValue(s, TokenShare(s))'  BY <2>5, ShareValueNext
    <3> QED
      BY <3>1, <3>2
         DEF TokenMoves, ShareValue, Cost, Control, EndOfPc, AmountsOfPc, SessionObjects, Growth
  <2> QED
    BY <2>1, <2>2, <2>5, <2>6, <2>7, HandlerGood DEF PCs
<1>7. \/ /\ Returned(s, {"ok"}) /\ sess' = [sess EXCEPT ![s] = [c0 EXCEPT !.charged = op[s].amount]]
         /\ Goto(s, "settleToken") /\ UNCHANGED op
      \/ Returned(s, {"error"}) /\ Goto(s, "done") /\ UNCHANGED <<op, sess>>
  BY DEF FundingSettled, NoFundingCall
<1> QED  BY <1>7, <1>5, <1>6

\* Settle: the key pays, or is given back, the difference.
LEMMA SettleTokenGood ==
    ASSUME Types, NEW s \in Sessions, Control(s), SettleToken(s)
    PROVE  GoodStep(s)
<1> DEFINE c0 == sess[s]
<1>1. SessionTypes(s)  BY SessionTypesHold
<1>2. pc[s] = "settleToken"
  BY DEF SettleToken
<1>3. Quiet /\ hold' = hold /\ fund' = fund
  BY DEF SettleToken, Quiet, walletVars, ledgerVars
<1>4. /\ LogRow(s)
      /\ log[s] = "unrepaired" => log'[s] = "unrepaired"
      /\ log'[s] = "clean" => log[s] = "clean"
      /\ log'[s] = log[s] \/ log'[s] = "unrepaired"
  BY LogMoves DEF SettleToken, KeyFailsForGood
<1> USE <1>1, <1>2, <1>3, <1>4 DEF SessionTypes
<1>5. CASE /\ Covers(s, c0.charged - c0.tokenConsumed) /\ Take(s, c0.charged - c0.tokenConsumed)
           /\ sess' = [sess EXCEPT ![s] = [c0 EXCEPT !.settled = TRUE]] /\ Goto(s, "done")
              /\ UNCHANGED op
  <2> DEFINE c1 == [c0 EXCEPT !.settled = TRUE]
  <2>1. c1 \in SessionObjects
    BY <1>5, SessionFields
  <2>2. /\ c1.goal = c0.goal /\ c1.tokenErr = c0.tokenErr /\ c1.preConsumed = c0.preConsumed
        /\ c1.tokenConsumed = c0.tokenConsumed /\ c1.retries = c0.retries /\ c1.used = c0.used
        /\ c1.charged = c0.charged /\ c1.settled = TRUE /\ c1.refunded = c0.refunded
        /\ c1.admitted = c0.admitted
    BY <2>1 DEF SessionObjects
  <2>3. SessRow(s, c1)  BY <1>5, <2>1, SessionRow
  <2> HIDE DEF c1
  <2>4. PcRow(s, "done")  BY <1>5, GotoRow DEF PCs
  <2>5. OpRow(s) /\ op'[s] = op[s]  BY <1>5, SameRows
  <2>6. sess'[s] = c1 /\ pc'[s] = "done"  BY <2>3, <2>4 DEF SessRow, PcRow
  <2> USE <1>5, <2>2, <2>5, <2>6
  <2>7. Control(s)'
    BY DEF Control, CallOfPc, AmountsOfPc, EndOfPc, Calling, Returned, Growth, H,
           SessionObjects
  <2>8. Single(s) => Single(s)'
    <3> SUFFICES ASSUME Single(s) PROVE Single(s)'  OBVIOUS
    <3> USE DEF Single, Control, CallOfPc, AmountsOfPc, EndOfPc, Calling, Returned, H,
                SessionObjects
    <3>1. HoldKnown(s)'  BY DEF HoldKnown, Unsettled, Growing, Failing
    <3>2. ReservedOfPc(s)'  BY DEF HoldKnown, ReservedOfPc
    <3>3. Projected(s)'  BY DEF Projected, SettleProjected
    <3>4. OpenOfPc(s)'  BY DEF HoldKnown, ReservedOfPc, OpenOfPc
    <3> QED  BY <3>1, <3>2, <3>3, <3>4
  <2>9. token' \in Nat /\ token' = token - Cost(s, c0.charged - c0.tokenConsumed)
    BY <1>5, TakeCovered DEF SessionObjects
  <2>10. TokenMoves(s)
    <3>1. ShareValue(s, TokenShare(s)) /\ TokenShare(s) \in Nat  BY ShareCases
    <3>2. ShareValue(s, TokenShare(s))'  BY <2>7, ShareValueNext
    <3> QED
      BY <2>9, <3>1, <3>2
         DEF TokenMoves, ShareValue, Cost, Control, EndOfPc, AmountsOfPc, SessionObjects, Growth
  <2> QED
    BY <2>1, <2>3, <2>4, <2>7, <2>8, <2>9, <2>10, HandlerGood DEF PCs
<1>6. CASE /\ log'[s] = "unrepaired" /\ token' = token /\ Goto(s, "exhaust")
              /\ UNCHANGED <<op, sess>>
  <2>1. SessRow(s, c0)  BY <1>6, SameRows
  <2>2. PcRow(s, "exhaust")  BY <1>6, GotoRow DEF PCs
  <2>3. OpRow(s) /\ op'[s] = op[s]  BY <1>6, SameRows
  <2>4. sess'[s] = c0 /\ pc'[s] = "exhaust"  BY <2>1, <2>2 DEF SessRow, PcRow
  <2> USE <1>6, <2>3, <2>4
  <2>5. Control(s)'
    BY DEF Control, CallOfPc, AmountsOfPc, EndOfPc, Calling, Returned, Growth, H,
           SessionObjects
  <2>6. Single(s) => Single(s)'
    <3> SUFFICES ASSUME Single(s) PROVE Single(s)'  OBVIOUS
    <3> USE DEF Single, Control, CallOfPc, AmountsOfPc, EndOfPc, Calling, Returned, H,
                SessionObjects
    <3>1. HoldKnown(s)'  BY DEF HoldKnown, Unsettled, Growing, Failing
    <3>2. ReservedOfPc(s)'  BY DEF HoldKnown, ReservedOfPc
    <3>3. Projected(s)'  BY DEF Projected, SettleProjected
    <3>4. OpenOfPc(s)'  BY DEF HoldKnown, ReservedOfPc, OpenOfPc
    <3> QED  BY <3>1, <3>2, <3>3, <3>4
  <2>7. TokenMoves(s)  BY DEF TokenMoves, Control, AmountsOfPc
  <2>8. /\ ~Closing(s) \/ pc[s] = "new"
    BY DEF Closing, Over, Control, CallOfPc, Calling, Returned
  <2> QED
    BY <2>1, <2>2, <2>5, <2>6, <2>7, <2>8, HandlerGood DEF PCs
<1>7. CASE /\ log'[s] = "unrepaired" /\ token' = token
           /\ sess' = [sess EXCEPT ![s] = [c0 EXCEPT !.settled = TRUE]] /\ Goto(s, "done")
              /\ UNCHANGED op
  <2> DEFINE c1 == [c0 EXCEPT !.settled = TRUE]
  <2>1. c1 \in SessionObjects
    BY <1>7, SessionFields
  <2>2. /\ c1.goal = c0.goal /\ c1.tokenErr = c0.tokenErr /\ c1.preConsumed = c0.preConsumed
        /\ c1.tokenConsumed = c0.tokenConsumed /\ c1.retries = c0.retries /\ c1.used = c0.used
        /\ c1.charged = c0.charged /\ c1.settled = TRUE /\ c1.refunded = c0.refunded
        /\ c1.admitted = c0.admitted
    BY <2>1 DEF SessionObjects
  <2>3. SessRow(s, c1)  BY <1>7, <2>1, SessionRow
  <2> HIDE DEF c1
  <2>4. PcRow(s, "done")  BY <1>7, GotoRow DEF PCs
  <2>5. OpRow(s) /\ op'[s] = op[s]  BY <1>7, SameRows
  <2>6. sess'[s] = c1 /\ pc'[s] = "done"  BY <2>3, <2>4 DEF SessRow, PcRow
  <2> USE <1>7, <2>2, <2>5, <2>6
  <2>7. Control(s)'
    BY DEF Control, CallOfPc, AmountsOfPc, EndOfPc, Calling, Returned, Growth, H,
           SessionObjects
  <2>8. Single(s) => Single(s)'
    <3> SUFFICES ASSUME Single(s) PROVE Single(s)'  OBVIOUS
    <3> USE DEF Single, Control, CallOfPc, AmountsOfPc, EndOfPc, Calling, Returned, H,
                SessionObjects
    <3>1. HoldKnown(s)'  BY DEF HoldKnown, Unsettled, Growing, Failing
    <3>2. ReservedOfPc(s)'  BY DEF HoldKnown, ReservedOfPc
    <3>3. Projected(s)'  BY DEF Projected, SettleProjected
    <3>4. OpenOfPc(s)'  BY DEF HoldKnown, ReservedOfPc, OpenOfPc
    <3> QED  BY <3>1, <3>2, <3>3, <3>4
  <2>9. TokenMoves(s)  BY DEF TokenMoves, Control, AmountsOfPc
  <2> QED
    BY <2>1, <2>3, <2>4, <2>7, <2>8, <2>9, HandlerGood DEF PCs
<1>8. \/ /\ Covers(s, c0.charged - c0.tokenConsumed) /\ Take(s, c0.charged - c0.tokenConsumed)
         /\ sess' = [sess EXCEPT ![s] = [c0 EXCEPT !.settled = TRUE]] /\ Goto(s, "done")
            /\ UNCHANGED op
      \/ /\ log'[s] = "unrepaired" /\ token' = token /\ Goto(s, "exhaust") /\ UNCHANGED <<op, sess>>
      \/ /\ log'[s] = "unrepaired" /\ token' = token
         /\ sess' = [sess EXCEPT ![s] = [c0 EXCEPT !.settled = TRUE]] /\ Goto(s, "done")
            /\ UNCHANGED op
  BY LogMoves DEF SettleToken, KeyFailsForGood, NoFundingCall, Settled
<1> QED  BY <1>8, <1>5, <1>6, <1>7

\* ExhaustTokenQuota: the key could not pay, so its balance is read.
LEMMA ReadTokenGood ==
    ASSUME Types, NEW s \in Sessions, Control(s), ReadToken(s)
    PROVE  GoodStep(s)
<1> DEFINE c0 == sess[s]
<1>1. SessionTypes(s)  BY SessionTypesHold
<1>2. pc[s] = "exhaust" /\ token' = token
  BY DEF ReadToken
<1>3. Quiet /\ hold' = hold /\ fund' = fund
  BY DEF ReadToken, Quiet, walletVars, ledgerVars
<1>4. /\ LogRow(s)
      /\ log'[s] = "unrepaired" <=> log[s] = "unrepaired"
      /\ log'[s] = "clean" => log[s] = "clean"
  BY LogMoves DEF ReadToken
<1> USE <1>1, <1>2, <1>3, <1>4 DEF SessionTypes
<1>5. CASE sess' = [sess EXCEPT ![s] = [c0 EXCEPT !.goal = token]] /\ Goto(s, "drain")
           /\ UNCHANGED op
  <2> DEFINE c1 == [c0 EXCEPT !.goal = token]
  <2>1. c1 \in SessionObjects
    BY <1>5, SessionFields
  <2>2. /\ c1.goal = token /\ c1.tokenErr = c0.tokenErr /\ c1.preConsumed = c0.preConsumed
        /\ c1.tokenConsumed = c0.tokenConsumed /\ c1.retries = c0.retries /\ c1.used = c0.used
        /\ c1.charged = c0.charged /\ c1.settled = c0.settled /\ c1.refunded = c0.refunded
        /\ c1.admitted = c0.admitted
    BY <2>1 DEF SessionObjects
  <2>3. SessRow(s, c1)  BY <1>5, <2>1, SessionRow
  <2> HIDE DEF c1
  <2>4. PcRow(s, "drain")  BY <1>5, GotoRow DEF PCs
  <2>5. OpRow(s) /\ op'[s] = op[s]  BY <1>5, SameRows
  <2>6. sess'[s] = c1 /\ pc'[s] = "drain"  BY <2>3, <2>4 DEF SessRow, PcRow
  <2> USE <1>5, <2>2, <2>5, <2>6
  <2>7. Control(s)'
    BY DEF Control, CallOfPc, AmountsOfPc, EndOfPc, Calling, Returned, Growth, H,
           SessionObjects
  <2>8. Single(s) => Single(s)'
    <3> SUFFICES ASSUME Single(s) PROVE Single(s)'  OBVIOUS
    <3> USE DEF Single, Control, CallOfPc, AmountsOfPc, EndOfPc, Calling, Returned, H,
                SessionObjects
    <3>1. HoldKnown(s)'  BY DEF HoldKnown, Unsettled, Growing, Failing
    <3>2. ReservedOfPc(s)'  BY DEF HoldKnown, ReservedOfPc
    <3>3. Projected(s)'  BY DEF Projected, SettleProjected
    <3>4. OpenOfPc(s)'  BY DEF HoldKnown, ReservedOfPc, OpenOfPc
    <3> QED  BY <3>1, <3>2, <3>3, <3>4
  <2>9. TokenMoves(s)
    <3>1. ShareValue(s, TokenShare(s)) /\ TokenShare(s) \in Nat  BY ShareCases
    <3>2. ShareValue(s, TokenShare(s))'  BY <2>7, ShareValueNext
    <3> QED
      BY <3>1, <3>2
         DEF TokenMoves, ShareValue, Cost, Control, EndOfPc, AmountsOfPc, SessionObjects, Growth
  <2>10. /\ ~Closing(s) \/ pc[s] = "new"
    BY DEF Closing, Over, Control, CallOfPc, Calling, Returned
  <2> QED
    BY <2>1, <2>3, <2>4, <2>7, <2>8, <2>9, <2>10, HandlerGood DEF PCs
<1>6. CASE sess' = [sess EXCEPT ![s] = [c0 EXCEPT !.settled = TRUE]] /\ Goto(s, "done")
           /\ UNCHANGED op
  <2> DEFINE c1 == [c0 EXCEPT !.settled = TRUE]
  <2>1. c1 \in SessionObjects
    BY <1>6, SessionFields
  <2>2. /\ c1.goal = c0.goal /\ c1.tokenErr = c0.tokenErr /\ c1.preConsumed = c0.preConsumed
        /\ c1.tokenConsumed = c0.tokenConsumed /\ c1.retries = c0.retries /\ c1.used = c0.used
        /\ c1.charged = c0.charged /\ c1.settled = TRUE /\ c1.refunded = c0.refunded
        /\ c1.admitted = c0.admitted
    BY <2>1 DEF SessionObjects
  <2>3. SessRow(s, c1)  BY <1>6, <2>1, SessionRow
  <2> HIDE DEF c1
  <2>4. PcRow(s, "done")  BY <1>6, GotoRow DEF PCs
  <2>5. OpRow(s) /\ op'[s] = op[s]  BY <1>6, SameRows
  <2>6. sess'[s] = c1 /\ pc'[s] = "done"  BY <2>3, <2>4 DEF SessRow, PcRow
  <2> USE <1>6, <2>2, <2>5, <2>6
  <2>7. Control(s)'
    BY DEF Control, CallOfPc, AmountsOfPc, EndOfPc, Calling, Returned, Growth, H,
           SessionObjects
  <2>8. Single(s) => Single(s)'
    <3> SUFFICES ASSUME Single(s) PROVE Single(s)'  OBVIOUS
    <3> USE DEF Single, Control, CallOfPc, AmountsOfPc, EndOfPc, Calling, Returned, H,
                SessionObjects
    <3>1. HoldKnown(s)'  BY DEF HoldKnown, Unsettled, Growing, Failing
    <3>2. ReservedOfPc(s)'  BY DEF HoldKnown, ReservedOfPc
    <3>3. Projected(s)'  BY DEF Projected, SettleProjected
    <3>4. OpenOfPc(s)'  BY DEF HoldKnown, ReservedOfPc, OpenOfPc
    <3> QED  BY <3>1, <3>2, <3>3, <3>4
  <2>9. TokenMoves(s)  BY DEF TokenMoves, Control, AmountsOfPc
  <2> QED
    BY <2>1, <2>3, <2>4, <2>7, <2>8, <2>9, HandlerGood DEF PCs
<1>7. \/ sess' = [sess EXCEPT ![s] = [c0 EXCEPT !.goal = token]] /\ Goto(s, "drain") /\ UNCHANGED op
      \/ sess' = [sess EXCEPT ![s] = [c0 EXCEPT !.settled = TRUE]] /\ Goto(s, "done")
         /\ UNCHANGED op
  BY DEF ReadToken, NoFundingCall, Settled
<1> QED  BY <1>7, <1>5, <1>6

\* ExhaustTokenQuota: the key is drained.
LEMMA DrainTokenGood ==
    ASSUME Types, NEW s \in Sessions, Control(s), DrainToken(s)
    PROVE  GoodStep(s)
<1> DEFINE c0 == sess[s]
<1>1. SessionTypes(s)  BY SessionTypesHold
<1>2. pc[s] = "drain"
  BY DEF DrainToken
<1>3. Quiet /\ hold' = hold /\ fund' = fund
  BY DEF DrainToken, Quiet, walletVars, ledgerVars
<1>4. /\ LogRow(s)
      /\ log'[s] = "unrepaired" <=> log[s] = "unrepaired"
      /\ log'[s] = "clean" => log[s] = "clean"
  BY LogMoves DEF DrainToken
<1> USE <1>1, <1>2, <1>3, <1>4 DEF SessionTypes
<1>5. CASE /\ token >= c0.goal /\ Take(s, c0.goal)
           /\ sess' = [sess EXCEPT ![s] = [c0 EXCEPT !.settled = TRUE]] /\ Goto(s, "done")
              /\ UNCHANGED op
  <2> DEFINE c1 == [c0 EXCEPT !.settled = TRUE]
  <2>1. c1 \in SessionObjects
    BY <1>5, SessionFields
  <2>2. /\ c1.goal = c0.goal /\ c1.tokenErr = c0.tokenErr /\ c1.preConsumed = c0.preConsumed
        /\ c1.tokenConsumed = c0.tokenConsumed /\ c1.retries = c0.retries /\ c1.used = c0.used
        /\ c1.charged = c0.charged /\ c1.settled = TRUE /\ c1.refunded = c0.refunded
        /\ c1.admitted = c0.admitted
    BY <2>1 DEF SessionObjects
  <2>3. SessRow(s, c1)  BY <1>5, <2>1, SessionRow
  <2> HIDE DEF c1
  <2>4. PcRow(s, "done")  BY <1>5, GotoRow DEF PCs
  <2>5. OpRow(s) /\ op'[s] = op[s]  BY <1>5, SameRows
  <2>6. sess'[s] = c1 /\ pc'[s] = "done"  BY <2>3, <2>4 DEF SessRow, PcRow
  <2> USE <1>5, <2>2, <2>5, <2>6
  <2>7. Control(s)'
    BY DEF Control, CallOfPc, AmountsOfPc, EndOfPc, Calling, Returned, Growth, H,
           SessionObjects
  <2>8. Single(s) => Single(s)'
    <3> SUFFICES ASSUME Single(s) PROVE Single(s)'  OBVIOUS
    <3> USE DEF Single, Control, CallOfPc, AmountsOfPc, EndOfPc, Calling, Returned, H,
                SessionObjects
    <3>1. HoldKnown(s)'  BY DEF HoldKnown, Unsettled, Growing, Failing
    <3>2. ReservedOfPc(s)'  BY DEF HoldKnown, ReservedOfPc
    <3>3. Projected(s)'  BY DEF Projected, SettleProjected
    <3>4. OpenOfPc(s)'  BY DEF HoldKnown, ReservedOfPc, OpenOfPc
    <3> QED  BY <3>1, <3>2, <3>3, <3>4
  <2>9. token' \in Nat /\ token' = token - Cost(s, c0.goal)
    BY <1>5, TakeCovered DEF SessionObjects, Covers, Cost
  <2>10. TokenMoves(s)  BY DEF TokenMoves, Control, AmountsOfPc
  <2> QED
    BY <2>1, <2>3, <2>4, <2>7, <2>8, <2>9, <2>10, HandlerGood DEF PCs
<1>6. CASE token' = token /\ sess' = [sess EXCEPT ![s] = [c0 EXCEPT !.settled = TRUE]]
           /\ Goto(s, "done") /\ UNCHANGED op
  <2> DEFINE c1 == [c0 EXCEPT !.settled = TRUE]
  <2>1. c1 \in SessionObjects
    BY <1>6, SessionFields
  <2>2. /\ c1.goal = c0.goal /\ c1.tokenErr = c0.tokenErr /\ c1.preConsumed = c0.preConsumed
        /\ c1.tokenConsumed = c0.tokenConsumed /\ c1.retries = c0.retries /\ c1.used = c0.used
        /\ c1.charged = c0.charged /\ c1.settled = TRUE /\ c1.refunded = c0.refunded
        /\ c1.admitted = c0.admitted
    BY <2>1 DEF SessionObjects
  <2>3. SessRow(s, c1)  BY <1>6, <2>1, SessionRow
  <2> HIDE DEF c1
  <2>4. PcRow(s, "done")  BY <1>6, GotoRow DEF PCs
  <2>5. OpRow(s) /\ op'[s] = op[s]  BY <1>6, SameRows
  <2>6. sess'[s] = c1 /\ pc'[s] = "done"  BY <2>3, <2>4 DEF SessRow, PcRow
  <2> USE <1>6, <2>2, <2>5, <2>6
  <2>7. Control(s)'
    BY DEF Control, CallOfPc, AmountsOfPc, EndOfPc, Calling, Returned, Growth, H,
           SessionObjects
  <2>8. Single(s) => Single(s)'
    <3> SUFFICES ASSUME Single(s) PROVE Single(s)'  OBVIOUS
    <3> USE DEF Single, Control, CallOfPc, AmountsOfPc, EndOfPc, Calling, Returned, H,
                SessionObjects
    <3>1. HoldKnown(s)'  BY DEF HoldKnown, Unsettled, Growing, Failing
    <3>2. ReservedOfPc(s)'  BY DEF HoldKnown, ReservedOfPc
    <3>3. Projected(s)'  BY DEF Projected, SettleProjected
    <3>4. OpenOfPc(s)'  BY DEF HoldKnown, ReservedOfPc, OpenOfPc
    <3> QED  BY <3>1, <3>2, <3>3, <3>4
  <2>9. TokenMoves(s)  BY DEF TokenMoves, Control, AmountsOfPc
  <2> QED
    BY <2>1, <2>3, <2>4, <2>7, <2>8, <2>9, HandlerGood DEF PCs
<1>7. \/ /\ token >= c0.goal /\ Take(s, c0.goal)
         /\ sess' = [sess EXCEPT ![s] = [c0 EXCEPT !.settled = TRUE]] /\ Goto(s, "done")
            /\ UNCHANGED op
      \/ token' = token /\ sess' = [sess EXCEPT ![s] = [c0 EXCEPT !.settled = TRUE]]
         /\ Goto(s, "done") /\ UNCHANGED op
  BY DEF DrainToken, NoFundingCall, Settled
<1> QED  BY <1>7, <1>5, <1>6

\* refundRelayBillingIfNeeded: the handler gives the request up.
LEMMA FailRequestGood ==
    ASSUME Types, NEW s \in Sessions, Control(s), FailRequest(s)
    PROVE  GoodStep(s)
<1> DEFINE c0 == sess[s]
<1>1. SessionTypes(s)  BY SessionTypesHold
<1>2. pc[s] = "live" /\ token' = token
  BY DEF FailRequest
<1>3. Quiet /\ hold' = hold /\ fund' = fund
  BY DEF FailRequest, Quiet, walletVars, ledgerVars
<1>4. LogRow(s) /\ log'[s] = log[s]  BY LogMoves DEF FailRequest
<1> USE <1>1, <1>2, <1>3, <1>4 DEF SessionTypes
<1>5. CASE Goto(s, "refund") /\ UNCHANGED <<op, sess>>
  <2>1. SessRow(s, c0)  BY <1>5, SameRows
  <2>2. PcRow(s, "refund")  BY <1>5, GotoRow DEF PCs
  <2>3. OpRow(s) /\ op'[s] = op[s]  BY <1>5, SameRows
  <2>4. sess'[s] = c0 /\ pc'[s] = "refund"  BY <2>1, <2>2 DEF SessRow, PcRow
  <2> USE <1>5, <2>3, <2>4
  <2>5. Control(s)'
    BY DEF Control, CallOfPc, AmountsOfPc, EndOfPc, Calling, Returned, Growth, H,
           SessionObjects
  <2>6. Single(s) => Single(s)'
    <3> SUFFICES ASSUME Single(s) PROVE Single(s)'  OBVIOUS
    <3> USE DEF Single, Control, CallOfPc, AmountsOfPc, EndOfPc, Calling, Returned, H,
                SessionObjects
    <3>1. HoldKnown(s)'  BY DEF HoldKnown, Unsettled, Growing, Failing
    <3>2. ReservedOfPc(s)'  BY DEF HoldKnown, ReservedOfPc
    <3>3. Projected(s)'  BY DEF Projected, SettleProjected
    <3>4. OpenOfPc(s)'  BY DEF HoldKnown, ReservedOfPc, OpenOfPc
    <3> QED  BY <3>1, <3>2, <3>3, <3>4
  <2>7. TokenMoves(s)
    <3>1. ShareValue(s, TokenShare(s)) /\ TokenShare(s) \in Nat  BY ShareCases
    <3>2. ShareValue(s, TokenShare(s))'  BY <2>5, ShareValueNext
    <3> QED
      BY <3>1, <3>2
         DEF TokenMoves, ShareValue, Cost, Control, EndOfPc, AmountsOfPc, SessionObjects, Growth
  <2>8. /\ ~Closing(s) \/ pc[s] = "new"
    BY DEF Closing, Over, Control, CallOfPc, Calling, Returned
  <2> QED
    BY <2>1, <2>2, <2>5, <2>6, <2>7, <2>8, HandlerGood DEF PCs
<1>6. \/ Goto(s, "refund") /\ UNCHANGED <<op, sess>>
  BY DEF FailRequest, NoFundingCall
<1> QED  BY <1>6, <1>5

\* RefundSync: a session that owes something refunds once.
LEMMA RefundSyncGood ==
    ASSUME Types, NEW s \in Sessions, Control(s), RefundSync(s)
    PROVE  GoodStep(s)
<1> DEFINE c0 == sess[s]
<1>1. SessionTypes(s)  BY SessionTypesHold
<1>2. pc[s] = "refund" /\ token' = token
  BY DEF RefundSync
<1>3. Quiet /\ hold' = hold /\ fund' = fund
  BY DEF RefundSync, Quiet, walletVars, ledgerVars
<1>4. LogRow(s) /\ log'[s] = log[s]  BY LogMoves DEF RefundSync
<1> USE <1>1, <1>2, <1>3, <1>4 DEF SessionTypes
<1>5. CASE /\ c0.tokenConsumed > 0 /\ sess' = [sess EXCEPT ![s] = [c0 EXCEPT !.refunded = TRUE]]
           /\ Call(s, "refund", 0, FALSE) /\ Goto(s, "refundFunding")
  <2> DEFINE c1 == [c0 EXCEPT !.refunded = TRUE]
  <2>1. c1 \in SessionObjects
    BY <1>5, SessionFields
  <2>2. /\ c1.goal = c0.goal /\ c1.tokenErr = c0.tokenErr /\ c1.preConsumed = c0.preConsumed
        /\ c1.tokenConsumed = c0.tokenConsumed /\ c1.retries = c0.retries /\ c1.used = c0.used
        /\ c1.charged = c0.charged /\ c1.settled = c0.settled /\ c1.refunded = TRUE
        /\ c1.admitted = c0.admitted
    BY <2>1 DEF SessionObjects
  <2>3. SessRow(s, c1)  BY <1>5, <2>1, SessionRow
  <2> HIDE DEF c1
  <2>4. PcRow(s, "refundFunding")  BY <1>5, GotoRow DEF PCs
  <2>5. /\ OpRow(s)
        /\ op'[s].kind = "refund" /\ op'[s].amount = 0 /\ op'[s].cancellable = FALSE
        /\ op'[s].at = "wait" /\ op'[s].result = "none"
    BY <1>5, CallRow DEF Calls4
  <2>6. sess'[s] = c1 /\ pc'[s] = "refundFunding"  BY <2>3, <2>4 DEF SessRow, PcRow
  <2> USE <1>5, <2>2, <2>5, <2>6
  <2>7. Control(s)'
    BY DEF Control, CallOfPc, AmountsOfPc, EndOfPc, Calling, Returned, Growth, H,
           SessionObjects
  <2>8. Single(s) => Single(s)'
    <3> SUFFICES ASSUME Single(s) PROVE Single(s)'  OBVIOUS
    <3> USE DEF Single, Control, CallOfPc, AmountsOfPc, EndOfPc, Calling, Returned, H,
                SessionObjects
    <3>1. HoldKnown(s)'  BY DEF HoldKnown, Unsettled, Growing, Failing
    <3>2. ReservedOfPc(s)'  BY DEF HoldKnown, ReservedOfPc
    <3>3. Projected(s)'  BY DEF Projected, SettleProjected
    <3>4. OpenOfPc(s)'  BY DEF HoldKnown, ReservedOfPc, OpenOfPc
    <3> QED  BY <3>1, <3>2, <3>3, <3>4
  <2>9. TokenMoves(s)
    <3>1. ShareValue(s, TokenShare(s)) /\ TokenShare(s) \in Nat  BY ShareCases
    <3>2. ShareValue(s, TokenShare(s))'  BY <2>7, ShareValueNext
    <3> QED
      BY <3>1, <3>2
         DEF TokenMoves, ShareValue, Cost, Control, EndOfPc, AmountsOfPc, SessionObjects, Growth
  <2>10. /\ ~Closing(s) \/ pc[s] = "new"
         /\ pc[s] = "new" \/ (op[s].at \in {"idle", "returned"} /\ op[s].kind # "settle")
    BY DEF Closing, Over, Control, CallOfPc, Calling, Returned
  <2> QED
    BY <2>1, <2>3, <2>4, <2>7, <2>8, <2>9, <2>10, HandlerGood DEF PCs
<1>6. CASE ~(c0.tokenConsumed > 0) /\ Goto(s, "done") /\ UNCHANGED <<op, sess>>
  <2>1. SessRow(s, c0)  BY <1>6, SameRows
  <2>2. PcRow(s, "done")  BY <1>6, GotoRow DEF PCs
  <2>3. OpRow(s) /\ op'[s] = op[s]  BY <1>6, SameRows
  <2>4. sess'[s] = c0 /\ pc'[s] = "done"  BY <2>1, <2>2 DEF SessRow, PcRow
  <2> USE <1>6, <2>3, <2>4
  <2>5. Control(s)'
    BY DEF Control, CallOfPc, AmountsOfPc, EndOfPc, Calling, Returned, Growth, H,
           SessionObjects
  <2>6. Single(s) => Single(s)'
    <3> SUFFICES ASSUME Single(s) PROVE Single(s)'  OBVIOUS
    <3> USE DEF Single, Control, CallOfPc, AmountsOfPc, EndOfPc, Calling, Returned, H,
                SessionObjects
    <3>1. HoldKnown(s)'  BY DEF HoldKnown, Unsettled, Growing, Failing
    <3>2. ReservedOfPc(s)'  BY DEF HoldKnown, ReservedOfPc
    <3>3. Projected(s)'  BY DEF Projected, SettleProjected
    <3>4. OpenOfPc(s)'  BY DEF HoldKnown, ReservedOfPc, OpenOfPc
    <3> QED  BY <3>1, <3>2, <3>3, <3>4
  <2>7. TokenMoves(s)
    <3>1. ShareValue(s, TokenShare(s)) /\ TokenShare(s) \in Nat  BY ShareCases
    <3>2. ShareValue(s, TokenShare(s))'  BY <2>5, ShareValueNext
    <3> QED
      BY <3>1, <3>2
         DEF TokenMoves, ShareValue, Cost, Control, EndOfPc, AmountsOfPc, SessionObjects, Growth
  <2> QED
    BY <2>1, <2>2, <2>5, <2>6, <2>7, HandlerGood DEF PCs
<1>7. \/ /\ c0.tokenConsumed > 0 /\ sess' = [sess EXCEPT ![s] = [c0 EXCEPT !.refunded = TRUE]]
         /\ Call(s, "refund", 0, FALSE) /\ Goto(s, "refundFunding")
      \/ ~(c0.tokenConsumed > 0) /\ Goto(s, "done") /\ UNCHANGED <<op, sess>>
  BY <1>2 DEF RefundSync, NeedsRefund, Control, EndOfPc
<1> QED  BY <1>7, <1>5, <1>6

\* RefundSync: the funding refund is in.
LEMMA RefundFundingGood ==
    ASSUME Types, NEW s \in Sessions, Control(s), RefundFunding(s)
    PROVE  GoodStep(s)
<1> DEFINE c0 == sess[s]
<1>1. SessionTypes(s)  BY SessionTypesHold
<1>2. pc[s] = "refundFunding" /\ op[s].at = "returned" /\ token' = token
  BY DEF RefundFunding, Returned
<1>3. Quiet /\ hold' = hold /\ fund' = fund
  BY DEF RefundFunding, Quiet, walletVars, ledgerVars
<1>4. LogRow(s) /\ log'[s] = log[s]  BY LogMoves DEF RefundFunding
<1> USE <1>1, <1>2, <1>3, <1>4 DEF SessionTypes
<1>5. CASE Returned(s, {"ok"}) /\ Goto(s, "refundToken") /\ UNCHANGED <<op, sess>>
  <2>1. SessRow(s, c0)  BY <1>5, SameRows
  <2>2. PcRow(s, "refundToken")  BY <1>5, GotoRow DEF PCs
  <2>3. OpRow(s) /\ op'[s] = op[s]  BY <1>5, SameRows
  <2>4. sess'[s] = c0 /\ pc'[s] = "refundToken"  BY <2>1, <2>2 DEF SessRow, PcRow
  <2> USE <1>5, <2>3, <2>4
  <2>5. Control(s)'
    BY DEF Control, CallOfPc, AmountsOfPc, EndOfPc, Calling, Returned, Growth, H,
           SessionObjects
  <2>6. Single(s) => Single(s)'
    <3> SUFFICES ASSUME Single(s) PROVE Single(s)'  OBVIOUS
    <3> USE DEF Single, Control, CallOfPc, AmountsOfPc, EndOfPc, Calling, Returned, H,
                SessionObjects
    <3>1. HoldKnown(s)'  BY DEF HoldKnown, Unsettled, Growing, Failing
    <3>2. ReservedOfPc(s)'  BY DEF HoldKnown, ReservedOfPc
    <3>3. Projected(s)'  BY DEF Projected, SettleProjected
    <3>4. OpenOfPc(s)'  BY DEF HoldKnown, ReservedOfPc, OpenOfPc
    <3> QED  BY <3>1, <3>2, <3>3, <3>4
  <2>7. TokenMoves(s)
    <3>1. ShareValue(s, TokenShare(s)) /\ TokenShare(s) \in Nat  BY ShareCases
    <3>2. ShareValue(s, TokenShare(s))'  BY <2>5, ShareValueNext
    <3> QED
      BY <3>1, <3>2
         DEF TokenMoves, ShareValue, Cost, Control, EndOfPc, AmountsOfPc, SessionObjects, Growth
  <2> QED
    BY <2>1, <2>2, <2>5, <2>6, <2>7, HandlerGood DEF PCs
<1>6. CASE /\ Returned(s, {"error"}) /\ sess' = [sess EXCEPT ![s] = [c0 EXCEPT !.refunded = FALSE]]
           /\ Goto(s, "done") /\ UNCHANGED op
  <2> DEFINE c1 == [c0 EXCEPT !.refunded = FALSE]
  <2>1. c1 \in SessionObjects
    BY <1>6, SessionFields
  <2>2. /\ c1.goal = c0.goal /\ c1.tokenErr = c0.tokenErr /\ c1.preConsumed = c0.preConsumed
        /\ c1.tokenConsumed = c0.tokenConsumed /\ c1.retries = c0.retries /\ c1.used = c0.used
        /\ c1.charged = c0.charged /\ c1.settled = c0.settled /\ c1.refunded = FALSE
        /\ c1.admitted = c0.admitted
    BY <2>1 DEF SessionObjects
  <2>3. SessRow(s, c1)  BY <1>6, <2>1, SessionRow
  <2> HIDE DEF c1
  <2>4. PcRow(s, "done")  BY <1>6, GotoRow DEF PCs
  <2>5. OpRow(s) /\ op'[s] = op[s]  BY <1>6, SameRows
  <2>6. sess'[s] = c1 /\ pc'[s] = "done"  BY <2>3, <2>4 DEF SessRow, PcRow
  <2> USE <1>6, <2>2, <2>5, <2>6
  <2>7. Control(s)'
    BY DEF Control, CallOfPc, AmountsOfPc, EndOfPc, Calling, Returned, Growth, H,
           SessionObjects
  <2>8. Single(s) => Single(s)'
    <3> SUFFICES ASSUME Single(s) PROVE Single(s)'  OBVIOUS
    <3> USE DEF Single, Control, CallOfPc, AmountsOfPc, EndOfPc, Calling, Returned, H,
                SessionObjects
    <3>1. HoldKnown(s)'  BY DEF HoldKnown, Unsettled, Growing, Failing
    <3>2. ReservedOfPc(s)'  BY DEF HoldKnown, ReservedOfPc
    <3>3. Projected(s)'  BY DEF Projected, SettleProjected
    <3>4. OpenOfPc(s)'  BY DEF HoldKnown, ReservedOfPc, OpenOfPc
    <3> QED  BY <3>1, <3>2, <3>3, <3>4
  <2>9. TokenMoves(s)
    <3>1. ShareValue(s, TokenShare(s)) /\ TokenShare(s) \in Nat  BY ShareCases
    <3>2. ShareValue(s, TokenShare(s))'  BY <2>7, ShareValueNext
    <3> QED
      BY <3>1, <3>2
         DEF TokenMoves, ShareValue, Cost, Control, EndOfPc, AmountsOfPc, SessionObjects, Growth
  <2> QED
    BY <2>1, <2>3, <2>4, <2>7, <2>8, <2>9, HandlerGood DEF PCs
<1>7. \/ Returned(s, {"ok"}) /\ Goto(s, "refundToken") /\ UNCHANGED <<op, sess>>
      \/ /\ Returned(s, {"error"}) /\ sess' = [sess EXCEPT ![s] = [c0 EXCEPT !.refunded = FALSE]]
         /\ Goto(s, "done") /\ UNCHANGED op
  BY DEF RefundFunding, NoFundingCall
<1> QED  BY <1>7, <1>5, <1>6

\* RefundSync: the key is given back.
LEMMA RefundTokenGood ==
    ASSUME Types, NEW s \in Sessions, Control(s), RefundToken(s)
    PROVE  GoodStep(s)
<1> DEFINE c0 == sess[s]
<1>1. SessionTypes(s)  BY SessionTypesHold
<1>2. pc[s] = "refundToken"
  BY DEF RefundToken
<1>3. Quiet /\ hold' = hold /\ fund' = fund
  BY DEF RefundToken, Quiet, walletVars, ledgerVars
<1>4. /\ LogRow(s)
      /\ log'[s] = "unrepaired" <=> log[s] = "unrepaired"
      /\ log'[s] = "clean" => log[s] = "clean"
  BY LogMoves DEF RefundToken, KeyFails
<1> USE <1>1, <1>2, <1>3, <1>4 DEF SessionTypes
<1>5. CASE /\ Take(s, -c0.tokenConsumed)
              /\ sess' = [sess EXCEPT ![s] = [c0 EXCEPT !.tokenConsumed = 0]]
           /\ Goto(s, "done") /\ UNCHANGED op
  <2> DEFINE c1 == [c0 EXCEPT !.tokenConsumed = 0]
  <2>1. c1 \in SessionObjects
    BY <1>5, SessionFields
  <2>2. /\ c1.goal = c0.goal /\ c1.tokenErr = c0.tokenErr /\ c1.preConsumed = c0.preConsumed
        /\ c1.tokenConsumed = 0 /\ c1.retries = c0.retries /\ c1.used = c0.used
        /\ c1.charged = c0.charged /\ c1.settled = c0.settled /\ c1.refunded = c0.refunded
        /\ c1.admitted = c0.admitted
    BY <2>1 DEF SessionObjects
  <2>3. SessRow(s, c1)  BY <1>5, <2>1, SessionRow
  <2> HIDE DEF c1
  <2>4. PcRow(s, "done")  BY <1>5, GotoRow DEF PCs
  <2>5. OpRow(s) /\ op'[s] = op[s]  BY <1>5, SameRows
  <2>6. sess'[s] = c1 /\ pc'[s] = "done"  BY <2>3, <2>4 DEF SessRow, PcRow
  <2> USE <1>5, <2>2, <2>5, <2>6
  <2>7. Control(s)'
    BY DEF Control, CallOfPc, AmountsOfPc, EndOfPc, Calling, Returned, Growth, H,
           SessionObjects
  <2>8. Single(s) => Single(s)'
    <3> SUFFICES ASSUME Single(s) PROVE Single(s)'  OBVIOUS
    <3> USE DEF Single, Control, CallOfPc, AmountsOfPc, EndOfPc, Calling, Returned, H,
                SessionObjects
    <3>1. HoldKnown(s)'  BY DEF HoldKnown, Unsettled, Growing, Failing
    <3>2. ReservedOfPc(s)'  BY DEF HoldKnown, ReservedOfPc
    <3>3. Projected(s)'  BY DEF Projected, SettleProjected
    <3>4. OpenOfPc(s)'  BY DEF HoldKnown, ReservedOfPc, OpenOfPc
    <3> QED  BY <3>1, <3>2, <3>3, <3>4
  <2>9. token' \in Nat /\ token' = token - Cost(s, -c0.tokenConsumed)
    BY <1>5, TakeCovered DEF SessionObjects
  <2>10. TokenMoves(s)
    <3>1. ShareValue(s, TokenShare(s)) /\ TokenShare(s) \in Nat  BY ShareCases
    <3>2. ShareValue(s, TokenShare(s))'  BY <2>7, ShareValueNext
    <3> QED
      BY <2>9, <3>1, <3>2
         DEF TokenMoves, ShareValue, Cost, Control, EndOfPc, AmountsOfPc, SessionObjects, Growth
  <2> QED
    BY <2>1, <2>3, <2>4, <2>7, <2>8, <2>9, <2>10, HandlerGood DEF PCs
<1>6. CASE /\ token' = token /\ sess' = [sess EXCEPT ![s] = [c0 EXCEPT !.refunded = FALSE]]
           /\ Goto(s, "done") /\ UNCHANGED op
  <2> DEFINE c1 == [c0 EXCEPT !.refunded = FALSE]
  <2>1. c1 \in SessionObjects
    BY <1>6, SessionFields
  <2>2. /\ c1.goal = c0.goal /\ c1.tokenErr = c0.tokenErr /\ c1.preConsumed = c0.preConsumed
        /\ c1.tokenConsumed = c0.tokenConsumed /\ c1.retries = c0.retries /\ c1.used = c0.used
        /\ c1.charged = c0.charged /\ c1.settled = c0.settled /\ c1.refunded = FALSE
        /\ c1.admitted = c0.admitted
    BY <2>1 DEF SessionObjects
  <2>3. SessRow(s, c1)  BY <1>6, <2>1, SessionRow
  <2> HIDE DEF c1
  <2>4. PcRow(s, "done")  BY <1>6, GotoRow DEF PCs
  <2>5. OpRow(s) /\ op'[s] = op[s]  BY <1>6, SameRows
  <2>6. sess'[s] = c1 /\ pc'[s] = "done"  BY <2>3, <2>4 DEF SessRow, PcRow
  <2> USE <1>6, <2>2, <2>5, <2>6
  <2>7. Control(s)'
    BY DEF Control, CallOfPc, AmountsOfPc, EndOfPc, Calling, Returned, Growth, H,
           SessionObjects
  <2>8. Single(s) => Single(s)'
    <3> SUFFICES ASSUME Single(s) PROVE Single(s)'  OBVIOUS
    <3> USE DEF Single, Control, CallOfPc, AmountsOfPc, EndOfPc, Calling, Returned, H,
                SessionObjects
    <3>1. HoldKnown(s)'  BY DEF HoldKnown, Unsettled, Growing, Failing
    <3>2. ReservedOfPc(s)'  BY DEF HoldKnown, ReservedOfPc
    <3>3. Projected(s)'  BY DEF Projected, SettleProjected
    <3>4. OpenOfPc(s)'  BY DEF HoldKnown, ReservedOfPc, OpenOfPc
    <3> QED  BY <3>1, <3>2, <3>3, <3>4
  <2>9. TokenMoves(s)
    <3>1. ShareValue(s, TokenShare(s)) /\ TokenShare(s) \in Nat  BY ShareCases
    <3>2. ShareValue(s, TokenShare(s))'  BY <2>7, ShareValueNext
    <3> QED
      BY <3>1, <3>2
         DEF TokenMoves, ShareValue, Cost, Control, EndOfPc, AmountsOfPc, SessionObjects, Growth
  <2> QED
    BY <2>1, <2>3, <2>4, <2>7, <2>8, <2>9, HandlerGood DEF PCs
<1>7. \/ /\ Take(s, -c0.tokenConsumed)
            /\ sess' = [sess EXCEPT ![s] = [c0 EXCEPT !.tokenConsumed = 0]]
         /\ Goto(s, "done") /\ UNCHANGED op
      \/ /\ token' = token /\ sess' = [sess EXCEPT ![s] = [c0 EXCEPT !.refunded = FALSE]]
         /\ Goto(s, "done") /\ UNCHANGED op
  BY DEF RefundToken, NoFundingCall
<1> QED  BY <1>7, <1>5, <1>6

-----------------------------------------------------------------------------
(***************************************************************************)
(* The funding calls.                                                      *)
(***************************************************************************)
CallAt(s, l, result) ==
    /\ OpRow(s)
    /\ op'[s].kind = op[s].kind /\ op'[s].amount = op[s].amount
    /\ op'[s].cancellable = op[s].cancellable
    /\ op'[s].at = l /\ op'[s].result = result
    /\ turn' \in [Instances -> Sessions \cup {NoSession}]

\* The funding object of s becomes f.
FundRow(s, f) ==
    /\ fund' \in [Sessions -> Funds]
    /\ fund'[s] = f
    /\ \A t \in Sessions \ {s} : fund'[t] = fund[t]

\* The hold of s's request becomes h.
HoldRow(s, h) ==
    /\ hold' \in [Requests -> Holds]
    /\ H(s)' = h
    /\ OtherHolds(s)

\* The steps of a call.
Places == {"idle", "wait", "find", "ledger", "project", "undo", "returned"}

\* A call that moves on, and one that returns, changes its own row alone.
LEMMA OpMoves ==
    ASSUME Types, NEW s \in Sessions, NEW l \in Places, op' = [op EXCEPT ![s].at = l]
    PROVE  /\ OpRow(s)
           /\ op'[s].kind = op[s].kind /\ op'[s].amount = op[s].amount
           /\ op'[s].cancellable = op[s].cancellable
           /\ op'[s].at = l /\ op'[s].result = op[s].result
<1> DEFINE c == [op[s] EXCEPT !.at = l]
<1>1. op[s] \in Calls  BY DEF Types
<1>2. c \in Calls  BY <1>1 DEF Calls, Places
<1>3. op' = [op EXCEPT ![s] = c]  OBVIOUS
<1>4. /\ c.kind = op[s].kind /\ c.amount = op[s].amount /\ c.cancellable = op[s].cancellable
      /\ c.at = l /\ c.result = op[s].result
  BY <1>1 DEF Calls
<1> HIDE DEF c
<1>5. op'[s] = c  BY <1>3 DEF Types
<1>6. OpRow(s)  BY <1>2, <1>3 DEF Types, OpRow
<1> QED  BY <1>4, <1>5, <1>6

LEMMA OpReturns ==
    ASSUME Types, NEW s \in Sessions, NEW r \in {"ok", "insufficient", "error"},
           op' = [op EXCEPT ![s].at = "returned", ![s].result = r]
    PROVE  /\ OpRow(s)
           /\ op'[s].kind = op[s].kind /\ op'[s].amount = op[s].amount
           /\ op'[s].cancellable = op[s].cancellable
           /\ op'[s].at = "returned" /\ op'[s].result = r
<1> DEFINE b == [op[s] EXCEPT !.at = "returned"]
           c == [b EXCEPT !.result = r]
<1>1. op[s] \in Calls  BY DEF Types
<1>2. b \in Calls  BY <1>1 DEF Calls
<1>3. c \in Calls  BY <1>2 DEF Calls
<1>4. op' = [op EXCEPT ![s] = c]  BY DEF Types
<1>5. /\ b.kind = op[s].kind /\ b.amount = op[s].amount /\ b.cancellable = op[s].cancellable
      /\ b.at = "returned"
  BY <1>1 DEF Calls
<1>6. /\ c.kind = b.kind /\ c.amount = b.amount /\ c.cancellable = b.cancellable
      /\ c.at = b.at /\ c.result = r
  BY <1>2 DEF Calls
<1> HIDE DEF b, c
<1>7. op'[s] = c  BY <1>4 DEF Types
<1>8. OpRow(s)  BY <1>3, <1>4 DEF Types, OpRow
<1> QED  BY <1>5, <1>6, <1>7, <1>8

LEMMA GoOnRow ==
    ASSUME Types, NEW s \in Sessions, NEW l \in Places, GoOn(s, l)
    PROVE  CallAt(s, l, op[s].result)
BY OpMoves DEF GoOn, CallAt, Types

LEMMA ReturnRow ==
    ASSUME Types, NEW s \in Sessions, NEW r \in {"ok", "insufficient", "error"}, Return(s, r)
    PROVE  CallAt(s, "returned", r)
<1>1. turn' \in [Instances -> Sessions \cup {NoSession}]
  BY DEF Return, Types
<1> QED  BY <1>1, OpReturns DEF Return, CallAt

\* Replacing a funding object, or a hold, changes no other one.
LEMMA FundingRow ==
    ASSUME Types, NEW s \in Sessions, NEW f \in Funds, fund' = [fund EXCEPT ![s] = f]
    PROVE  FundRow(s, f)
BY DEF Types, FundRow

LEMMA ReservationRow ==
    ASSUME Types, NEW s \in Sessions, NEW h \in Holds, hold' = [hold EXCEPT ![RequestOf[s]] = h]
    PROVE  HoldRow(s, h)
<1>1. RequestOf[s] \in Requests  BY FundingAssumption
<1> QED  BY <1>1 DEF Types, HoldRow, H, OtherHolds

\* A settlement ends the hold and records the charge; what was reserved stays.
LEMMA SettledRow ==
    ASSUME NEW h \in Holds, NEW n \in Nat, NEW k \in {"relay", "recovery"}
    PROVE  /\ SettledAt(h, n, k) \in Holds
           /\ SettledAt(h, n, k).status = "settled" /\ SettledAt(h, n, k).charged = n
           /\ SettledAt(h, n, k).amount = h.amount /\ SettledAt(h, n, k).increases = h.increases
<1> DEFINE a == [h EXCEPT !.status = "settled"]
           b == [a EXCEPT !.charged = n]
           c == [b EXCEPT !.key = k]
<1>1. SettledAt(h, n, k) = c  BY DEF SettledAt
<1>2. a \in Holds /\ a.status = "settled" /\ a.amount = h.amount /\ a.increases = h.increases
  BY DEF Holds
<1>3. /\ b \in Holds /\ b.status = a.status /\ b.amount = a.amount /\ b.increases = a.increases
      /\ b.charged = n
  BY <1>2 DEF Holds
<1>4. /\ c \in Holds /\ c.status = b.status /\ c.amount = b.amount /\ c.increases = b.increases
      /\ c.charged = b.charged
  BY <1>3 DEF Holds
<1> HIDE DEF a, b, c
<1> QED  BY <1>1, <1>2, <1>3, <1>4

LEMMA SameFundingRows ==
    ASSUME Types, NEW s \in Sessions
    PROVE  /\ UNCHANGED fund => FundRow(s, fund[s])
           /\ UNCHANGED hold => HoldRow(s, H(s))
BY DEF Types, FundRow, HoldRow, H, OtherHolds

\* Where the handler is while a funding call is under way.
\* The types of the values that a funding call of s reads.
RowTypes(s) ==
    /\ op[s] \in Calls /\ fund[s] \in Funds /\ H(s) \in Holds /\ sess[s] \in SessionObjects
    /\ available \in Nat /\ legacy \in Int /\ op[s].amount \in Nat
    /\ fund[s].known \in BOOLEAN /\ fund[s].reserved \in Nat /\ fund[s].legacyHeld \in Int
    /\ H(s).status \in {"none", "open", "settled", "released"} /\ H(s).amount \in Nat
    /\ H(s).charged \in Nat
    /\ H(s).increases \in SUBSET [target : Int, amount : Nat]
    /\ sess[s].goal \in Nat /\ sess[s].preConsumed \in Nat /\ sess[s].used \in Nat

LEMMA RowTypesHold ==
    ASSUME Types, NEW s \in Sessions
    PROVE  RowTypes(s)
<1>1. op[s] \in Calls /\ fund[s] \in Funds /\ sess[s] \in SessionObjects  BY DEF Types
<1>2. H(s) \in Holds  BY FundingAssumption DEF Types, H
<1> QED  BY <1>1, <1>2 DEF Types, Calls, Funds, Holds, SessionObjects, RowTypes

\* Where the session waits while a call of each kind runs.
CallFacts(s) ==
    /\ pc[s] \in Calling /\ ~Closing(s)
    /\ op[s].kind = "reserve" => pc[s] = "reserving"
    /\ op[s].kind = "increase" => pc[s] \in {"reserveFunding", "grow", "growPart"}
    /\ op[s].kind = "settle" => pc[s] = "settle"
    /\ op[s].kind = "refund" => pc[s] \in {"refundReserved", "refundFunding"}
    /\ op[s].kind \in Calls4
    /\ op[s].cancellable => op[s].kind \in {"reserve", "increase"}
    /\ op[s].kind \in {"reserve", "increase"} => op[s].amount > 0

LEMMA CallFactsHold ==
    ASSUME Types, NEW s \in Sessions, Control(s), op[s].at \notin {"idle", "returned"}
    PROVE  CallFacts(s)
<1>1. pc[s] \in Calling  BY DEF Control, CallOfPc
<1>2. op[s].kind \in Calls4 \cup {"none"} /\ sess[s] \in SessionObjects  BY DEF Types, Calls, Calls4
<1>3. op[s].kind \in Calls4  BY <1>2 DEF Control, CallOfPc
<1>4. ~Closing(s)  BY <1>1 DEF Closing, Over, Calling
<1>5. op[s].kind \in {"reserve", "increase"} => op[s].amount > 0
  BY <1>1, <1>2 DEF Control, CallOfPc, AmountsOfPc, Calling, Growth, SessionObjects
<1> QED  BY <1>1, <1>3, <1>4, <1>5 DEF Control, CallOfPc, Calling, Calls4, CallFacts

\* What is left to show for a funding step, once its new rows are known.
LEMMA FundingGood ==
    ASSUME Types, NEW s \in Sessions, Control(s), op[s].at \notin {"idle", "returned"},
           UNCHANGED <<token, sess, pc, credits, earnings>>,
           NEW l, NEW r, CallAt(s, l, r), LogRow(s),
           NEW f \in Funds, FundRow(s, f), NEW h \in Holds, HoldRow(s, h),
           available' \in Nat, legacy' \in Int,
           H(s).status \in {"settled", "released"} => h = H(s),
           Control(s)', WalletMoves(s), Single(s) => Single(s)' /\ ProjectionMoves(s),
           h.status = "settled" =>
               \/ H(s).status = "settled"
               \/ /\ h.charged <= sess[s].used /\ h.charged = op[s].amount /\ f.known
                  /\ op[s].kind = "settle" /\ l = "returned" /\ r = "ok",
           op[s].kind = "refund" /\ l = "returned" /\ r = "ok" /\ f.known => h.status = "released"
    PROVE  GoodStep(s)
<1>1. Types'
  BY DEF Types, CallAt, OpRow, LogRow, FundRow, HoldRow
<1>2. Others(s) /\ OtherHolds(s)
  BY DEF Others, CallAt, OpRow, LogRow, FundRow, HoldRow
<1>3. EndsFinal
  BY DEF EndsFinal, HoldRow, OtherHolds, H
<1>4. TokenMoves(s)
  <2>1. TokenShare(s)' = TokenShare(s)  BY DEF TokenShare
  <2>2. Cost(s, TokenShare(s)') = Cost(s, TokenShare(s))  BY <2>1 DEF Cost
  <2> QED  BY <2>2 DEF TokenMoves
<1>5. ChargeMoves(s)
  <2>1. sess[s].used \in Nat  BY DEF Types, SessionObjects
  <2>2. pc[s] # "crashed"  BY CallFactsHold DEF Calling, CallFacts
  <2>3. H(s)' = h /\ fund'[s] = f  BY DEF HoldRow, FundRow
  <2> QED  BY <2>1, <2>2, <2>3 DEF ChargeMoves, CallAt, Returned
<1>6. ~Closing(s) /\ pc[s] \in Calling  BY CallFactsHold DEF CallFacts
<1>7. SettledKnown(s) => SettledKnown(s)'
  <2> SUFFICES ASSUME SettledKnown(s), H(s)'.status = "settled"
               PROVE  /\ op'[s].kind = "settle" /\ Returned(s, {"ok"})'
                      /\ H(s)'.charged = op'[s].amount /\ fund'[s].known
    BY DEF SettledKnown
  <2>1. H(s).status # "settled"  BY <1>6 DEF SettledKnown, Returned, Calling
  <2>2. H(s)' = h /\ fund'[s] = f  BY DEF HoldRow, FundRow
  <2> QED  BY <2>1, <2>2 DEF CallAt, Returned
<1>8. log[s] = "unrepaired" => log'[s] = "unrepaired"  BY DEF LogRow
<1>9. CallFinal(s) => CallFinal(s)'
  <2>1. H(s)' = h /\ fund'[s] = f /\ op'[s].kind = op[s].kind /\ op'[s].at = l /\ op'[s].result = r
    BY DEF HoldRow, FundRow, CallAt
  <2>2. op[s].kind = "settle" /\ Returned(s, {"ok"})' => h.status = "settled"
    <3>1. op[s].kind = "settle" => pc[s] = "settle"  BY CallFactsHold DEF CallFacts
    <3> QED  BY <2>1, <3>1 DEF Control, EndOfPc
  <2> QED  BY <2>1, <2>2 DEF CallFinal, Returned
<1> QED  BY <1>1, <1>2, <1>3, <1>4, <1>5, <1>6, <1>7, <1>8, <1>9 DEF GoodStep, Calling

\* The rows of a call that leaves its hold and its funding object alone.
LEMMA CallOnly ==
    ASSUME Types, NEW s \in Sessions, NEW l, NEW r, CallAt(s, l, r), UNCHANGED <<hold, fund>>
    PROVE  /\ fund[s] \in Funds /\ FundRow(s, fund[s]) /\ H(s) \in Holds /\ HoldRow(s, H(s))
           /\ fund'[s] = fund[s] /\ H(s)' = H(s)
           /\ op'[s].kind = op[s].kind /\ op'[s].amount = op[s].amount
           /\ op'[s].cancellable = op[s].cancellable
           /\ op'[s].at = l /\ op'[s].result = r
<1>1. fund[s] \in Funds /\ H(s) \in Holds  BY FundingAssumption DEF Types, H
<1>2. FundRow(s, fund[s]) /\ HoldRow(s, H(s))  BY SameFundingRows
<1> QED  BY <1>1, <1>2 DEF CallAt, FundRow, HoldRow

\* preConsume: the reservation of an earlier run is taken up if it is the same.
LEMMA FindReservationGood ==
    ASSUME Types, NEW s \in Sessions, Control(s), FindReservation(s),
           UNCHANGED <<token, sess, pc, crashes>>
    PROVE  GoodStep(s)
<1> DEFINE o0 == op[s]
           f0 == fund[s]
           h0 == H(s)
<1>1. RowTypes(s)  BY RowTypesHold
<1>2. o0.kind = "reserve" /\ o0.at = "find" /\ CallFacts(s)
  BY CallFactsHold DEF FindReservation, In
<1>3. UNCHANGED <<token, sess, pc, credits, earnings>>
  BY DEF FindReservation, walletVars
<1>4. Works \/ Fails(s) \/ FailsForGood(s) \/ Unrepaired(s)
  BY DEF FindReservation
<1> USE <1>1, <1>2, <1>3 DEF RowTypes, CallFacts
<1>5. CASE /\ h0.status = "none"
           /\ GoOn(s, "ledger")
           /\ Works
           /\ available' = available /\ legacy' = legacy /\ fund' = fund /\ hold' = hold
  <2>1. CallAt(s, "ledger", o0.result)
    BY <1>5, GoOnRow DEF Places
  <2>2. LogRow(s) /\ log'[s] = log[s]
    BY <1>4, <1>5, LogMoves
  <2>3. /\ FundRow(s, f0) /\ HoldRow(s, h0) /\ fund'[s] = f0 /\ H(s)' = h0
        /\ op'[s].kind = o0.kind /\ op'[s].amount = o0.amount
        /\ op'[s].cancellable = o0.cancellable
        /\ op'[s].at = "ledger" /\ op'[s].result = o0.result
    BY <1>5, <2>1, CallOnly
  <2> USE <1>5, <2>2, <2>3
  <2>4. Control(s)'
    BY DEF Control, CallOfPc, AmountsOfPc, EndOfPc, Calling, Returned, Growth, NoCall, NewFunding
  <2>5. WalletMoves(s)  BY DEF WalletMoves, Taken, TakenFor
  <2>6. Single(s) => Single(s)' /\ ProjectionMoves(s)
    <3> SUFFICES ASSUME Single(s) PROVE Single(s)' /\ ProjectionMoves(s)  OBVIOUS
    <3> USE DEF Single, HoldKnown, Control, CallOfPc, AmountsOfPc, EndOfPc, Calling, Returned,
                Growing, Failing, SessionObjects, NewFunding, Holds
    <3>1. HoldKnown(s)'  BY DEF ReservedOfPc, Unsettled
    <3>2. ReservedOfPc(s)'  BY DEF ReservedOfPc
    <3>3. Projected(s)'
      BY DEF ReservedOfPc, Unsettled, Projected, SettleProjected, Delta
    <3>4. OpenOfPc(s)'  BY DEF OpenOfPc, ReservedOfPc
    <3>5. ProjectionMoves(s)
      BY DEF ProjectionMoves, InProjection, Closing, Projected, Delta
    <3> QED  BY <3>1, <3>2, <3>3, <3>4, <3>5
  <2> QED
    BY <2>1, <2>4, <2>5, <2>6, FundingGood
<1>6. CASE /\ h0.status # "none"
           /\ h0.amount = o0.amount
           /\ Return(s, "ok")
           /\ Works
           /\ fund' = [fund EXCEPT ![s] = [known |-> TRUE, reserved |-> h0.amount,
                               legacyHeld |-> IF h0.status = "open" THEN h0.amount ELSE 0]]
           /\ available' = available /\ legacy' = legacy /\ hold' = hold
  <2> DEFINE f1 == [known |-> TRUE, reserved |-> h0.amount,
                     legacyHeld |-> IF h0.status = "open" THEN h0.amount ELSE 0]
  <2>1. CallAt(s, "returned", "ok")
    BY <1>6, ReturnRow DEF Places
  <2>2. LogRow(s) /\ log'[s] = log[s]
    BY <1>4, <1>6, LogMoves
  <2>3. /\ f1 \in Funds /\ FundRow(s, f1)
        /\ f1.known = TRUE /\ f1.reserved = h0.amount
        /\ f1.legacyHeld = (IF h0.status = "open" THEN h0.amount ELSE 0)
    <3>1. f1 \in Funds  BY <1>6 DEF Funds
    <3>2. fund' = [fund EXCEPT ![s] = f1]  BY <1>6 DEF Types
    <3>3. /\ f1.known = TRUE /\ f1.reserved = h0.amount
          /\ f1.legacyHeld = (IF h0.status = "open" THEN h0.amount ELSE 0)
      BY DEF Funds
    <3> HIDE DEF f1
    <3> QED  BY <3>1, <3>2, <3>3, FundingRow
  <2>4. h0 \in Holds /\ HoldRow(s, h0)  BY <1>6, SameFundingRows
  <2> HIDE DEF f1
  <2>5. /\ available' \in Nat /\ legacy' \in Int
        /\ fund'[s] = f1 /\ H(s)' = h0
    BY <1>6, <2>3, <2>4 DEF FundRow, HoldRow
  <2>6. /\ op'[s].kind = o0.kind /\ op'[s].amount = o0.amount
        /\ op'[s].cancellable = o0.cancellable
        /\ op'[s].at = "returned" /\ op'[s].result = "ok"
    BY <2>1 DEF CallAt
  <2> USE <1>6, <2>2, <2>3, <2>4, <2>5, <2>6
  <2>7. Control(s)'
    BY DEF Control, CallOfPc, AmountsOfPc, EndOfPc, Calling, Returned, Growth, NoCall, NewFunding
  <2>8. WalletMoves(s)  BY DEF WalletMoves, Taken, TakenFor
  <2>9. Single(s) => Single(s)' /\ ProjectionMoves(s)
    <3> SUFFICES ASSUME Single(s) PROVE Single(s)' /\ ProjectionMoves(s)  OBVIOUS
    <3> USE DEF Single, HoldKnown, Control, CallOfPc, AmountsOfPc, EndOfPc, Calling, Returned,
                Growing, Failing, SessionObjects, NewFunding, Holds
    <3>1. HoldKnown(s)'  BY DEF ReservedOfPc, Unsettled
    <3>2. ReservedOfPc(s)'  BY DEF ReservedOfPc
    <3>3. Projected(s)'
      BY DEF ReservedOfPc, Unsettled, Projected, SettleProjected, Delta
    <3>4. OpenOfPc(s)'  BY DEF OpenOfPc, ReservedOfPc
    <3>5. ProjectionMoves(s)
      BY DEF ProjectionMoves, InProjection, Closing, Projected, Delta
    <3> QED  BY <3>1, <3>2, <3>3, <3>4, <3>5
  <2>10. /\ o0.kind = "refund" => h0.status = "released"
    BY DEF Control, CallOfPc
  <2> QED
    BY <2>1, <2>7, <2>8, <2>9, <2>10, FundingGood
<1>7. CASE /\ h0.status # "none"
           /\ Return(s, "error")
           /\ Works
           /\ available' = available /\ legacy' = legacy /\ fund' = fund /\ hold' = hold
  <2>1. CallAt(s, "returned", "error")
    BY <1>7, ReturnRow DEF Places
  <2>2. LogRow(s) /\ log'[s] = log[s]
    BY <1>4, <1>7, LogMoves
  <2>3. /\ FundRow(s, f0) /\ HoldRow(s, h0) /\ fund'[s] = f0 /\ H(s)' = h0
        /\ op'[s].kind = o0.kind /\ op'[s].amount = o0.amount
        /\ op'[s].cancellable = o0.cancellable
        /\ op'[s].at = "returned" /\ op'[s].result = "error"
    BY <1>7, <2>1, CallOnly
  <2> USE <1>7, <2>2, <2>3
  <2>4. Control(s)'
    BY DEF Control, CallOfPc, AmountsOfPc, EndOfPc, Calling, Returned, Growth, NoCall, NewFunding
  <2>5. WalletMoves(s)  BY DEF WalletMoves, Taken, TakenFor
  <2>6. Single(s) => Single(s)' /\ ProjectionMoves(s)
    <3> SUFFICES ASSUME Single(s) PROVE Single(s)' /\ ProjectionMoves(s)  OBVIOUS
    <3> USE DEF Single, HoldKnown, Control, CallOfPc, AmountsOfPc, EndOfPc, Calling, Returned,
                Growing, Failing, SessionObjects, NewFunding, Holds
    <3>1. HoldKnown(s)'  BY DEF ReservedOfPc, Unsettled
    <3>2. ReservedOfPc(s)'  BY DEF ReservedOfPc
    <3>3. Projected(s)'
      BY DEF ReservedOfPc, Unsettled, Projected, SettleProjected, Delta
    <3>4. OpenOfPc(s)'  BY DEF OpenOfPc, ReservedOfPc
    <3>5. ProjectionMoves(s)
      BY DEF ProjectionMoves, InProjection, Closing, Projected, Delta
    <3> QED  BY <3>1, <3>2, <3>3, <3>4, <3>5
  <2> QED
    BY <2>1, <2>4, <2>5, <2>6, FundingGood
<1>8. CASE /\ Return(s, "error")
           /\ Fails(s)
           /\ available' = available /\ legacy' = legacy /\ fund' = fund /\ hold' = hold
  <2>1. CallAt(s, "returned", "error")
    BY <1>8, ReturnRow DEF Places
  <2>2. /\ LogRow(s) /\ log'[s] # "clean"
        /\ log'[s] = "unrepaired" <=> log[s] = "unrepaired"
    BY <1>4, <1>8, LogMoves
  <2>3. /\ FundRow(s, f0) /\ HoldRow(s, h0) /\ fund'[s] = f0 /\ H(s)' = h0
        /\ op'[s].kind = o0.kind /\ op'[s].amount = o0.amount
        /\ op'[s].cancellable = o0.cancellable
        /\ op'[s].at = "returned" /\ op'[s].result = "error"
    BY <1>8, <2>1, CallOnly
  <2> USE <1>8, <2>2, <2>3
  <2>4. Control(s)'
    BY DEF Control, CallOfPc, AmountsOfPc, EndOfPc, Calling, Returned, Growth, NoCall, NewFunding
  <2>5. WalletMoves(s)  BY DEF WalletMoves, Taken, TakenFor
  <2>6. Single(s) => Single(s)' /\ ProjectionMoves(s)
    <3> SUFFICES ASSUME Single(s) PROVE Single(s)' /\ ProjectionMoves(s)  OBVIOUS
    <3> USE DEF Single, HoldKnown, Control, CallOfPc, AmountsOfPc, EndOfPc, Calling, Returned,
                Growing, Failing, SessionObjects, NewFunding, Holds
    <3>1. HoldKnown(s)'  BY DEF ReservedOfPc, Unsettled
    <3>2. ReservedOfPc(s)'  BY DEF ReservedOfPc
    <3>3. Projected(s)'
      BY DEF ReservedOfPc, Unsettled, Projected, SettleProjected, Delta
    <3>4. OpenOfPc(s)'  BY DEF OpenOfPc, ReservedOfPc
    <3>5. ProjectionMoves(s)
      BY DEF ProjectionMoves, InProjection, Closing, Projected, Delta
    <3> QED  BY <3>1, <3>2, <3>3, <3>4, <3>5
  <2> QED
    BY <2>1, <2>4, <2>5, <2>6, FundingGood
<1>9. \/ /\ h0.status = "none"
         /\ GoOn(s, "ledger")
         /\ Works
         /\ available' = available /\ legacy' = legacy /\ fund' = fund /\ hold' = hold
      \/ /\ h0.status # "none"
         /\ h0.amount = o0.amount
         /\ Return(s, "ok")
         /\ Works
         /\ fund' = [fund EXCEPT ![s] = [known |-> TRUE, reserved |-> h0.amount,
                             legacyHeld |-> IF h0.status = "open" THEN h0.amount ELSE 0]]
         /\ available' = available /\ legacy' = legacy /\ hold' = hold
      \/ /\ h0.status # "none"
         /\ Return(s, "error")
         /\ Works
         /\ available' = available /\ legacy' = legacy /\ fund' = fund /\ hold' = hold
      \/ /\ Return(s, "error")
         /\ Fails(s)
         /\ available' = available /\ legacy' = legacy /\ fund' = fund /\ hold' = hold
  BY Zenon DEF FindReservation, walletVars, ledgerVars
<1> QED  BY <1>9, <1>5, <1>6, <1>7, <1>8

\* preConsume: the ledger opens the hold.
LEMMA CreateHoldGood ==
    ASSUME Types, NEW s \in Sessions, Control(s), CreateHold(s),
           UNCHANGED <<token, sess, pc, crashes>>
    PROVE  GoodStep(s)
<1> DEFINE o0 == op[s]
           f0 == fund[s]
           h0 == H(s)
<1>1. RowTypes(s)  BY RowTypesHold
<1>2. o0.kind = "reserve" /\ o0.at = "ledger" /\ CallFacts(s)
  BY CallFactsHold DEF CreateHold, In
<1>3. UNCHANGED <<token, sess, pc, credits, earnings>>
  BY DEF CreateHold, walletVars
<1>4. Works \/ Fails(s) \/ FailsForGood(s) \/ Unrepaired(s)
  BY DEF CreateHold
<1> USE <1>1, <1>2, <1>3 DEF RowTypes, CallFacts
<1>5. CASE /\ h0.status = "none"
           /\ available >= o0.amount
           /\ GoOn(s, "project")
           /\ Works
           /\ available' = available - o0.amount
           /\ hold' = [hold EXCEPT ![RequestOf[s]] =
                        [NoHold EXCEPT !.status = "open", !.amount = o0.amount]]
           /\ legacy' = legacy /\ fund' = fund
  <2> DEFINE h1 == [NoHold EXCEPT !.status = "open"]
             h2 == [h1 EXCEPT !.amount = o0.amount]
  <2>1. CallAt(s, "project", o0.result)
    BY <1>5, GoOnRow DEF Places
  <2>2. LogRow(s) /\ log'[s] = log[s]
    BY <1>4, <1>5, LogMoves
  <2>3. f0 \in Funds /\ FundRow(s, f0)  BY <1>5, SameFundingRows
  <2>4. /\ h2 \in Holds /\ HoldRow(s, h2)
        /\ h2.status = "open" /\ h2.amount = o0.amount /\ h2.increases = {}
    <3>1. h1 \in Holds /\ h1.status = "open" /\ h1.increases = {}  BY DEF Holds, NoHold
    <3>2. /\ h2 \in Holds
          /\ h2.status = h1.status /\ h2.amount = o0.amount /\ h2.increases = h1.increases
      BY <3>1 DEF Holds
    <3>3. hold' = [hold EXCEPT ![RequestOf[s]] = h2]  BY <1>5
    <3> HIDE DEF h1, h2
    <3> QED  BY <3>1, <3>2, <3>3, ReservationRow
  <2> HIDE DEF h1, h2
  <2>5. /\ available' \in Nat /\ legacy' \in Int
        /\ fund'[s] = f0 /\ H(s)' = h2
    BY <1>5, <2>3, <2>4 DEF FundRow, HoldRow
  <2>6. /\ op'[s].kind = o0.kind /\ op'[s].amount = o0.amount
        /\ op'[s].cancellable = o0.cancellable
        /\ op'[s].at = "project" /\ op'[s].result = o0.result
    BY <2>1 DEF CallAt
  <2> USE <1>5, <2>2, <2>3, <2>4, <2>5, <2>6
  <2>7. Control(s)'
    BY DEF Control, CallOfPc, AmountsOfPc, EndOfPc, Calling, Returned, Growth, NoCall, NewFunding
  <2>8. WalletMoves(s)  BY DEF WalletMoves, Taken, TakenFor
  <2>9. Single(s) => Single(s)' /\ ProjectionMoves(s)
    <3> SUFFICES ASSUME Single(s) PROVE Single(s)' /\ ProjectionMoves(s)  OBVIOUS
    <3> USE DEF Single, HoldKnown, Control, CallOfPc, AmountsOfPc, EndOfPc, Calling, Returned,
                Growing, Failing, SessionObjects, NewFunding, Holds
    <3>1. HoldKnown(s)'  BY DEF ReservedOfPc, Unsettled
    <3>2. ReservedOfPc(s)'  BY DEF ReservedOfPc
    <3>3. Projected(s)'
      BY DEF ReservedOfPc, Unsettled, Projected, SettleProjected, Delta
    <3>4. OpenOfPc(s)'  BY DEF OpenOfPc, ReservedOfPc
    <3>5. ProjectionMoves(s)
      BY DEF ProjectionMoves, InProjection, Closing, Projected, Delta
    <3> QED  BY <3>1, <3>2, <3>3, <3>4, <3>5
  <2>10. /\ h0.status \in {"settled", "released"} => h2 = h0
         /\ h2.status = "settled" /\ h0.status # "settled" =>
              /\ h2.charged <= sess[s].used /\ h2.charged = o0.amount /\ f0.known
              /\ o0.kind = "settle" /\ "project" = "returned" /\ o0.result = "ok"
    BY DEF Control, CallOfPc
  <2> QED
    BY <2>1, <2>7, <2>8, <2>9, <2>10, FundingGood
<1>6. CASE /\ h0.status # "none"
           /\ h0.amount = o0.amount
           /\ GoOn(s, "project")
           /\ Works
           /\ available' = available /\ legacy' = legacy /\ fund' = fund /\ hold' = hold
  <2>1. CallAt(s, "project", o0.result)
    BY <1>6, GoOnRow DEF Places
  <2>2. LogRow(s) /\ log'[s] = log[s]
    BY <1>4, <1>6, LogMoves
  <2>3. /\ FundRow(s, f0) /\ HoldRow(s, h0) /\ fund'[s] = f0 /\ H(s)' = h0
        /\ op'[s].kind = o0.kind /\ op'[s].amount = o0.amount
        /\ op'[s].cancellable = o0.cancellable
        /\ op'[s].at = "project" /\ op'[s].result = o0.result
    BY <1>6, <2>1, CallOnly
  <2> USE <1>6, <2>2, <2>3
  <2>4. Control(s)'
    BY DEF Control, CallOfPc, AmountsOfPc, EndOfPc, Calling, Returned, Growth, NoCall, NewFunding
  <2>5. WalletMoves(s)  BY DEF WalletMoves, Taken, TakenFor
  <2>6. Single(s) => Single(s)' /\ ProjectionMoves(s)
    <3> SUFFICES ASSUME Single(s) PROVE Single(s)' /\ ProjectionMoves(s)  OBVIOUS
    <3> USE DEF Single, HoldKnown, Control, CallOfPc, AmountsOfPc, EndOfPc, Calling, Returned,
                Growing, Failing, SessionObjects, NewFunding, Holds
    <3>1. HoldKnown(s)'  BY DEF ReservedOfPc, Unsettled
    <3>2. ReservedOfPc(s)'  BY DEF ReservedOfPc
    <3>3. Projected(s)'
      BY DEF ReservedOfPc, Unsettled, Projected, SettleProjected, Delta
    <3>4. OpenOfPc(s)'  BY DEF OpenOfPc, ReservedOfPc
    <3>5. ProjectionMoves(s)
      BY DEF ProjectionMoves, InProjection, Closing, Projected, Delta
    <3> QED  BY <3>1, <3>2, <3>3, <3>4, <3>5
  <2> QED
    BY <2>1, <2>4, <2>5, <2>6, FundingGood
<1>7. CASE /\ h0.status = "none"
           /\ Return(s, "insufficient")
           /\ Works
           /\ available' = available /\ legacy' = legacy /\ fund' = fund /\ hold' = hold
  <2>1. CallAt(s, "returned", "insufficient")
    BY <1>7, ReturnRow DEF Places
  <2>2. LogRow(s) /\ log'[s] = log[s]
    BY <1>4, <1>7, LogMoves
  <2>3. /\ FundRow(s, f0) /\ HoldRow(s, h0) /\ fund'[s] = f0 /\ H(s)' = h0
        /\ op'[s].kind = o0.kind /\ op'[s].amount = o0.amount
        /\ op'[s].cancellable = o0.cancellable
        /\ op'[s].at = "returned" /\ op'[s].result = "insufficient"
    BY <1>7, <2>1, CallOnly
  <2> USE <1>7, <2>2, <2>3
  <2>4. Control(s)'
    BY DEF Control, CallOfPc, AmountsOfPc, EndOfPc, Calling, Returned, Growth, NoCall, NewFunding
  <2>5. WalletMoves(s)  BY DEF WalletMoves, Taken, TakenFor
  <2>6. Single(s) => Single(s)' /\ ProjectionMoves(s)
    <3> SUFFICES ASSUME Single(s) PROVE Single(s)' /\ ProjectionMoves(s)  OBVIOUS
    <3> USE DEF Single, HoldKnown, Control, CallOfPc, AmountsOfPc, EndOfPc, Calling, Returned,
                Growing, Failing, SessionObjects, NewFunding, Holds
    <3>1. HoldKnown(s)'  BY DEF ReservedOfPc, Unsettled
    <3>2. ReservedOfPc(s)'  BY DEF ReservedOfPc
    <3>3. Projected(s)'
      BY DEF ReservedOfPc, Unsettled, Projected, SettleProjected, Delta
    <3>4. OpenOfPc(s)'  BY DEF OpenOfPc, ReservedOfPc
    <3>5. ProjectionMoves(s)
      BY DEF ProjectionMoves, InProjection, Closing, Projected, Delta
    <3> QED  BY <3>1, <3>2, <3>3, <3>4, <3>5
  <2> QED
    BY <2>1, <2>4, <2>5, <2>6, FundingGood
<1>8. CASE /\ h0.status # "none"
           /\ Return(s, "error")
           /\ Works
           /\ available' = available /\ legacy' = legacy /\ fund' = fund /\ hold' = hold
  <2>1. CallAt(s, "returned", "error")
    BY <1>8, ReturnRow DEF Places
  <2>2. LogRow(s) /\ log'[s] = log[s]
    BY <1>4, <1>8, LogMoves
  <2>3. /\ FundRow(s, f0) /\ HoldRow(s, h0) /\ fund'[s] = f0 /\ H(s)' = h0
        /\ op'[s].kind = o0.kind /\ op'[s].amount = o0.amount
        /\ op'[s].cancellable = o0.cancellable
        /\ op'[s].at = "returned" /\ op'[s].result = "error"
    BY <1>8, <2>1, CallOnly
  <2> USE <1>8, <2>2, <2>3
  <2>4. Control(s)'
    BY DEF Control, CallOfPc, AmountsOfPc, EndOfPc, Calling, Returned, Growth, NoCall, NewFunding
  <2>5. WalletMoves(s)  BY DEF WalletMoves, Taken, TakenFor
  <2>6. Single(s) => Single(s)' /\ ProjectionMoves(s)
    <3> SUFFICES ASSUME Single(s) PROVE Single(s)' /\ ProjectionMoves(s)  OBVIOUS
    <3> USE DEF Single, HoldKnown, Control, CallOfPc, AmountsOfPc, EndOfPc, Calling, Returned,
                Growing, Failing, SessionObjects, NewFunding, Holds
    <3>1. HoldKnown(s)'  BY DEF ReservedOfPc, Unsettled
    <3>2. ReservedOfPc(s)'  BY DEF ReservedOfPc
    <3>3. Projected(s)'
      BY DEF ReservedOfPc, Unsettled, Projected, SettleProjected, Delta
    <3>4. OpenOfPc(s)'  BY DEF OpenOfPc, ReservedOfPc
    <3>5. ProjectionMoves(s)
      BY DEF ProjectionMoves, InProjection, Closing, Projected, Delta
    <3> QED  BY <3>1, <3>2, <3>3, <3>4, <3>5
  <2> QED
    BY <2>1, <2>4, <2>5, <2>6, FundingGood
<1>9. CASE /\ Return(s, "error")
           /\ Fails(s)
           /\ available' = available /\ legacy' = legacy /\ fund' = fund /\ hold' = hold
  <2>1. CallAt(s, "returned", "error")
    BY <1>9, ReturnRow DEF Places
  <2>2. /\ LogRow(s) /\ log'[s] # "clean"
        /\ log'[s] = "unrepaired" <=> log[s] = "unrepaired"
    BY <1>4, <1>9, LogMoves
  <2>3. /\ FundRow(s, f0) /\ HoldRow(s, h0) /\ fund'[s] = f0 /\ H(s)' = h0
        /\ op'[s].kind = o0.kind /\ op'[s].amount = o0.amount
        /\ op'[s].cancellable = o0.cancellable
        /\ op'[s].at = "returned" /\ op'[s].result = "error"
    BY <1>9, <2>1, CallOnly
  <2> USE <1>9, <2>2, <2>3
  <2>4. Control(s)'
    BY DEF Control, CallOfPc, AmountsOfPc, EndOfPc, Calling, Returned, Growth, NoCall, NewFunding
  <2>5. WalletMoves(s)  BY DEF WalletMoves, Taken, TakenFor
  <2>6. Single(s) => Single(s)' /\ ProjectionMoves(s)
    <3> SUFFICES ASSUME Single(s) PROVE Single(s)' /\ ProjectionMoves(s)  OBVIOUS
    <3> USE DEF Single, HoldKnown, Control, CallOfPc, AmountsOfPc, EndOfPc, Calling, Returned,
                Growing, Failing, SessionObjects, NewFunding, Holds
    <3>1. HoldKnown(s)'  BY DEF ReservedOfPc, Unsettled
    <3>2. ReservedOfPc(s)'  BY DEF ReservedOfPc
    <3>3. Projected(s)'
      BY DEF ReservedOfPc, Unsettled, Projected, SettleProjected, Delta
    <3>4. OpenOfPc(s)'  BY DEF OpenOfPc, ReservedOfPc
    <3>5. ProjectionMoves(s)
      BY DEF ProjectionMoves, InProjection, Closing, Projected, Delta
    <3> QED  BY <3>1, <3>2, <3>3, <3>4, <3>5
  <2> QED
    BY <2>1, <2>4, <2>5, <2>6, FundingGood
<1>10. \/ /\ h0.status = "none"
          /\ available >= o0.amount
          /\ GoOn(s, "project")
          /\ Works
          /\ available' = available - o0.amount
          /\ hold' = [hold EXCEPT ![RequestOf[s]] =
                       [NoHold EXCEPT !.status = "open", !.amount = o0.amount]]
          /\ legacy' = legacy /\ fund' = fund
       \/ /\ h0.status # "none"
          /\ h0.amount = o0.amount
          /\ GoOn(s, "project")
          /\ Works
          /\ available' = available /\ legacy' = legacy /\ fund' = fund /\ hold' = hold
       \/ /\ h0.status = "none"
          /\ Return(s, "insufficient")
          /\ Works
          /\ available' = available /\ legacy' = legacy /\ fund' = fund /\ hold' = hold
       \/ /\ h0.status # "none"
          /\ Return(s, "error")
          /\ Works
          /\ available' = available /\ legacy' = legacy /\ fund' = fund /\ hold' = hold
       \/ /\ Return(s, "error")
          /\ Fails(s)
          /\ available' = available /\ legacy' = legacy /\ fund' = fund /\ hold' = hold
  BY Zenon DEF CreateHold, ledgerVars
<1> QED  BY <1>10, <1>5, <1>6, <1>7, <1>8, <1>9

\* reserveAdditional: the ledger grows the hold, or finds that it already has.
LEMMA IncreaseHoldGood ==
    ASSUME Types, NEW s \in Sessions, Control(s), IncreaseHold(s),
           UNCHANGED <<token, sess, pc, crashes>>
    PROVE  GoodStep(s)
<1> DEFINE o0 == op[s]
           f0 == fund[s]
           h0 == H(s)
<1>1. RowTypes(s)  BY RowTypesHold
<1>2. o0.kind = "increase" /\ o0.at = "ledger" /\ CallFacts(s)
  BY CallFactsHold DEF IncreaseHold, In
<1>3. UNCHANGED <<token, sess, pc, credits, earnings>>
  BY DEF IncreaseHold, walletVars
<1>4. Works \/ Fails(s) \/ FailsForGood(s) \/ Unrepaired(s)
  BY DEF IncreaseHold
<1> USE <1>1, <1>2, <1>3 DEF RowTypes, CallFacts
<1> DEFINE target == f0.reserved + o0.amount
           old == {i \in h0.increases : i.target = target}
           grown == h0.amount + o0.amount
           more == h0.increases \cup {[target |-> target, amount |-> o0.amount]}
<1>g. grown \in Nat /\ target \in Nat /\ more \in SUBSET [target : Int, amount : Nat]  OBVIOUS
<1>5. CASE /\ h0.status = "open"
           /\ old = {}
           /\ available >= o0.amount
           /\ grown = target
           /\ GoOn(s, "project")
           /\ Works
           /\ available' = available - o0.amount
           /\ hold' = [hold EXCEPT ![RequestOf[s]].amount = grown,
                                        ![RequestOf[s]].increases =
                                            @ \cup {[target |-> target, amount |-> o0.amount]}]
           /\ legacy' = legacy /\ fund' = fund
  <2> DEFINE h1 == [h0 EXCEPT !.amount = grown]
             h2 == [h1 EXCEPT !.increases = more]
  <2>1. CallAt(s, "project", o0.result)
    BY <1>5, GoOnRow DEF Places
  <2>2. LogRow(s) /\ log'[s] = log[s]
    BY <1>4, <1>5, LogMoves
  <2>3. f0 \in Funds /\ FundRow(s, f0)  BY <1>5, SameFundingRows
  <2>4. /\ h2 \in Holds /\ HoldRow(s, h2)
        /\ h2.status = h0.status /\ h2.amount = grown /\ h2.increases = more
    <3>1. /\ h1 \in Holds
          /\ h1.status = h0.status /\ h1.amount = grown /\ h1.increases = h0.increases
      BY <1>5, <1>g DEF Holds
    <3>2. /\ h2 \in Holds
          /\ h2.status = h1.status /\ h2.amount = h1.amount /\ h2.increases = more
      BY <1>5, <1>g, <3>1 DEF Holds
    <3>3. hold' = [hold EXCEPT ![RequestOf[s]] = h2]  BY <1>5, FundingAssumption DEF Types, H
    <3> HIDE DEF h1, h2
    <3> QED  BY <1>g, <3>1, <3>2, <3>3, ReservationRow
  <2> HIDE DEF h1, h2
  <2>5. /\ available' \in Nat /\ legacy' \in Int
        /\ fund'[s] = f0 /\ H(s)' = h2
    BY <1>5, <2>3, <2>4 DEF FundRow, HoldRow
  <2>6. /\ op'[s].kind = o0.kind /\ op'[s].amount = o0.amount
        /\ op'[s].cancellable = o0.cancellable
        /\ op'[s].at = "project" /\ op'[s].result = o0.result
    BY <2>1 DEF CallAt
  <2> USE <1>5, <2>2, <2>3, <2>4, <2>5, <2>6
  <2>7. Control(s)'
    BY DEF Control, CallOfPc, AmountsOfPc, EndOfPc, Calling, Returned, Growth, NoCall, NewFunding
  <2>8. WalletMoves(s)  BY DEF WalletMoves, Taken, TakenFor
  <2>9. Single(s) => Single(s)' /\ ProjectionMoves(s)
    <3> SUFFICES ASSUME Single(s) PROVE Single(s)' /\ ProjectionMoves(s)  OBVIOUS
    <3> USE DEF Single, HoldKnown, Control, CallOfPc, AmountsOfPc, EndOfPc, Calling, Returned,
                Growing, Failing, SessionObjects, NewFunding, Holds
    <3>1. HoldKnown(s)'  BY DEF ReservedOfPc, Unsettled
    <3>2. ReservedOfPc(s)'  BY DEF ReservedOfPc
    <3>3. Projected(s)'
      BY DEF ReservedOfPc, Unsettled, Projected, SettleProjected, Delta
    <3>4. OpenOfPc(s)'  BY DEF OpenOfPc, ReservedOfPc
    <3>5. ProjectionMoves(s)
      BY DEF ProjectionMoves, InProjection, Closing, Projected, Delta
    <3> QED  BY <3>1, <3>2, <3>3, <3>4, <3>5
  <2>10. /\ h0.status \in {"settled", "released"} => h2 = h0
         /\ h2.status = "settled" /\ h0.status # "settled" =>
              /\ h2.charged <= sess[s].used /\ h2.charged = o0.amount /\ f0.known
              /\ o0.kind = "settle" /\ "project" = "returned" /\ o0.result = "ok"
    BY DEF Control, CallOfPc
  <2> QED
    BY <2>1, <2>7, <2>8, <2>9, <2>10, FundingGood
<1>6. CASE /\ h0.status = "open"
           /\ old = {}
           /\ available >= o0.amount
           /\ grown # target
           /\ Return(s, "error")
           /\ Works
           /\ available' = available - o0.amount
           /\ hold' = [hold EXCEPT ![RequestOf[s]].amount = grown,
                                        ![RequestOf[s]].increases =
                                            @ \cup {[target |-> target, amount |-> o0.amount]}]
           /\ legacy' = legacy /\ fund' = fund
  <2> DEFINE h1 == [h0 EXCEPT !.amount = grown]
             h2 == [h1 EXCEPT !.increases = more]
  <2>1. CallAt(s, "returned", "error")
    BY <1>6, ReturnRow DEF Places
  <2>2. LogRow(s) /\ log'[s] = log[s]
    BY <1>4, <1>6, LogMoves
  <2>3. f0 \in Funds /\ FundRow(s, f0)  BY <1>6, SameFundingRows
  <2>4. /\ h2 \in Holds /\ HoldRow(s, h2)
        /\ h2.status = h0.status /\ h2.amount = grown /\ h2.increases = more
    <3>1. /\ h1 \in Holds
          /\ h1.status = h0.status /\ h1.amount = grown /\ h1.increases = h0.increases
      BY <1>6, <1>g DEF Holds
    <3>2. /\ h2 \in Holds
          /\ h2.status = h1.status /\ h2.amount = h1.amount /\ h2.increases = more
      BY <1>6, <1>g, <3>1 DEF Holds
    <3>3. hold' = [hold EXCEPT ![RequestOf[s]] = h2]  BY <1>6, FundingAssumption DEF Types, H
    <3> HIDE DEF h1, h2
    <3> QED  BY <1>g, <3>1, <3>2, <3>3, ReservationRow
  <2> HIDE DEF h1, h2
  <2>5. /\ available' \in Nat /\ legacy' \in Int
        /\ fund'[s] = f0 /\ H(s)' = h2
    BY <1>6, <2>3, <2>4 DEF FundRow, HoldRow
  <2>6. /\ op'[s].kind = o0.kind /\ op'[s].amount = o0.amount
        /\ op'[s].cancellable = o0.cancellable
        /\ op'[s].at = "returned" /\ op'[s].result = "error"
    BY <2>1 DEF CallAt
  <2> USE <1>6, <2>2, <2>3, <2>4, <2>5, <2>6
  <2>7. Control(s)'
    BY DEF Control, CallOfPc, AmountsOfPc, EndOfPc, Calling, Returned, Growth, NoCall, NewFunding
  <2>8. WalletMoves(s)  BY DEF WalletMoves, Taken, TakenFor
  <2>9. Single(s) => Single(s)' /\ ProjectionMoves(s)
    <3> SUFFICES ASSUME Single(s) PROVE Single(s)' /\ ProjectionMoves(s)  OBVIOUS
    <3> USE DEF Single, HoldKnown, Control, CallOfPc, AmountsOfPc, EndOfPc, Calling, Returned,
                Growing, Failing, SessionObjects, NewFunding, Holds
    <3>1. HoldKnown(s)'  BY DEF ReservedOfPc, Unsettled
    <3>2. ReservedOfPc(s)'  BY DEF ReservedOfPc
    <3>3. Projected(s)'
      BY DEF ReservedOfPc, Unsettled, Projected, SettleProjected, Delta
    <3>4. OpenOfPc(s)'  BY DEF OpenOfPc, ReservedOfPc
    <3>5. ProjectionMoves(s)
      BY DEF ProjectionMoves, InProjection, Closing, Projected, Delta
    <3> QED  BY <3>1, <3>2, <3>3, <3>4, <3>5
  <2>10. /\ h0.status \in {"settled", "released"} => h2 = h0
         /\ h2.status = "settled" /\ h0.status # "settled" =>
              /\ h2.charged <= sess[s].used /\ h2.charged = o0.amount /\ f0.known
              /\ o0.kind = "settle" /\ "returned" = "returned" /\ "error" = "ok"
    BY DEF Control, CallOfPc
  <2> QED
    BY <2>1, <2>7, <2>8, <2>9, <2>10, FundingGood
<1>7. CASE /\ h0.status = "open"
           /\ available < o0.amount
           /\ Return(s, "insufficient")
           /\ Works
           /\ available' = available /\ legacy' = legacy /\ fund' = fund /\ hold' = hold
  <2>1. CallAt(s, "returned", "insufficient")
    BY <1>7, ReturnRow DEF Places
  <2>2. LogRow(s) /\ log'[s] = log[s]
    BY <1>4, <1>7, LogMoves
  <2>3. /\ FundRow(s, f0) /\ HoldRow(s, h0) /\ fund'[s] = f0 /\ H(s)' = h0
        /\ op'[s].kind = o0.kind /\ op'[s].amount = o0.amount
        /\ op'[s].cancellable = o0.cancellable
        /\ op'[s].at = "returned" /\ op'[s].result = "insufficient"
    BY <1>7, <2>1, CallOnly
  <2> USE <1>7, <2>2, <2>3
  <2>4. Control(s)'
    BY DEF Control, CallOfPc, AmountsOfPc, EndOfPc, Calling, Returned, Growth, NoCall, NewFunding
  <2>5. WalletMoves(s)  BY DEF WalletMoves, Taken, TakenFor
  <2>6. Single(s) => Single(s)' /\ ProjectionMoves(s)
    <3> SUFFICES ASSUME Single(s) PROVE Single(s)' /\ ProjectionMoves(s)  OBVIOUS
    <3> USE DEF Single, HoldKnown, Control, CallOfPc, AmountsOfPc, EndOfPc, Calling, Returned,
                Growing, Failing, SessionObjects, NewFunding, Holds
    <3>1. HoldKnown(s)'  BY DEF ReservedOfPc, Unsettled
    <3>2. ReservedOfPc(s)'  BY DEF ReservedOfPc
    <3>3. Projected(s)'
      BY DEF ReservedOfPc, Unsettled, Projected, SettleProjected, Delta
    <3>4. OpenOfPc(s)'  BY DEF OpenOfPc, ReservedOfPc
    <3>5. ProjectionMoves(s)
      BY DEF ProjectionMoves, InProjection, Closing, Projected, Delta
    <3> QED  BY <3>1, <3>2, <3>3, <3>4, <3>5
  <2> QED
    BY <2>1, <2>4, <2>5, <2>6, FundingGood
<1>8. CASE /\ h0.status = "open"
           /\ old # {}
           /\ h0.amount = target
           /\ GoOn(s, "project")
           /\ Works
           /\ available' = available /\ legacy' = legacy /\ fund' = fund /\ hold' = hold
  <2>1. CallAt(s, "project", o0.result)
    BY <1>8, GoOnRow DEF Places
  <2>2. LogRow(s) /\ log'[s] = log[s]
    BY <1>4, <1>8, LogMoves
  <2>3. /\ FundRow(s, f0) /\ HoldRow(s, h0) /\ fund'[s] = f0 /\ H(s)' = h0
        /\ op'[s].kind = o0.kind /\ op'[s].amount = o0.amount
        /\ op'[s].cancellable = o0.cancellable
        /\ op'[s].at = "project" /\ op'[s].result = o0.result
    BY <1>8, <2>1, CallOnly
  <2> USE <1>8, <2>2, <2>3
  <2>4. Control(s)'
    BY DEF Control, CallOfPc, AmountsOfPc, EndOfPc, Calling, Returned, Growth, NoCall, NewFunding
  <2>5. WalletMoves(s)  BY DEF WalletMoves, Taken, TakenFor
  <2>6. Single(s) => Single(s)' /\ ProjectionMoves(s)
    <3> SUFFICES ASSUME Single(s) PROVE Single(s)' /\ ProjectionMoves(s)  OBVIOUS
    <3> USE DEF Single, HoldKnown, Control, CallOfPc, AmountsOfPc, EndOfPc, Calling, Returned,
                Growing, Failing, SessionObjects, NewFunding, Holds
    <3>1. HoldKnown(s)'  BY DEF ReservedOfPc, Unsettled
    <3>2. ReservedOfPc(s)'  BY DEF ReservedOfPc
    <3>3. Projected(s)'
      BY DEF ReservedOfPc, Unsettled, Projected, SettleProjected, Delta
    <3>4. OpenOfPc(s)'  BY DEF OpenOfPc, ReservedOfPc
    <3>5. ProjectionMoves(s)
      BY DEF ProjectionMoves, InProjection, Closing, Projected, Delta
    <3> QED  BY <3>1, <3>2, <3>3, <3>4, <3>5
  <2> QED
    BY <2>1, <2>4, <2>5, <2>6, FundingGood
<1>9. CASE /\ h0.status = "open"
           /\ old # {}
           /\ Return(s, "error")
           /\ Works
           /\ available' = available /\ legacy' = legacy /\ fund' = fund /\ hold' = hold
  <2>1. CallAt(s, "returned", "error")
    BY <1>9, ReturnRow DEF Places
  <2>2. LogRow(s) /\ log'[s] = log[s]
    BY <1>4, <1>9, LogMoves
  <2>3. /\ FundRow(s, f0) /\ HoldRow(s, h0) /\ fund'[s] = f0 /\ H(s)' = h0
        /\ op'[s].kind = o0.kind /\ op'[s].amount = o0.amount
        /\ op'[s].cancellable = o0.cancellable
        /\ op'[s].at = "returned" /\ op'[s].result = "error"
    BY <1>9, <2>1, CallOnly
  <2> USE <1>9, <2>2, <2>3
  <2>4. Control(s)'
    BY DEF Control, CallOfPc, AmountsOfPc, EndOfPc, Calling, Returned, Growth, NoCall, NewFunding
  <2>5. WalletMoves(s)  BY DEF WalletMoves, Taken, TakenFor
  <2>6. Single(s) => Single(s)' /\ ProjectionMoves(s)
    <3> SUFFICES ASSUME Single(s) PROVE Single(s)' /\ ProjectionMoves(s)  OBVIOUS
    <3> USE DEF Single, HoldKnown, Control, CallOfPc, AmountsOfPc, EndOfPc, Calling, Returned,
                Growing, Failing, SessionObjects, NewFunding, Holds
    <3>1. HoldKnown(s)'  BY DEF ReservedOfPc, Unsettled
    <3>2. ReservedOfPc(s)'  BY DEF ReservedOfPc
    <3>3. Projected(s)'
      BY DEF ReservedOfPc, Unsettled, Projected, SettleProjected, Delta
    <3>4. OpenOfPc(s)'  BY DEF OpenOfPc, ReservedOfPc
    <3>5. ProjectionMoves(s)
      BY DEF ProjectionMoves, InProjection, Closing, Projected, Delta
    <3> QED  BY <3>1, <3>2, <3>3, <3>4, <3>5
  <2> QED
    BY <2>1, <2>4, <2>5, <2>6, FundingGood
<1>10. CASE /\ h0.status # "open"
            /\ Return(s, "error")
            /\ Works
            /\ available' = available /\ legacy' = legacy /\ fund' = fund /\ hold' = hold
  <2>1. CallAt(s, "returned", "error")
    BY <1>10, ReturnRow DEF Places
  <2>2. LogRow(s) /\ log'[s] = log[s]
    BY <1>4, <1>10, LogMoves
  <2>3. /\ FundRow(s, f0) /\ HoldRow(s, h0) /\ fund'[s] = f0 /\ H(s)' = h0
        /\ op'[s].kind = o0.kind /\ op'[s].amount = o0.amount
        /\ op'[s].cancellable = o0.cancellable
        /\ op'[s].at = "returned" /\ op'[s].result = "error"
    BY <1>10, <2>1, CallOnly
  <2> USE <1>10, <2>2, <2>3
  <2>4. Control(s)'
    BY DEF Control, CallOfPc, AmountsOfPc, EndOfPc, Calling, Returned, Growth, NoCall, NewFunding
  <2>5. WalletMoves(s)  BY DEF WalletMoves, Taken, TakenFor
  <2>6. Single(s) => Single(s)' /\ ProjectionMoves(s)
    <3> SUFFICES ASSUME Single(s) PROVE Single(s)' /\ ProjectionMoves(s)  OBVIOUS
    <3> USE DEF Single, HoldKnown, Control, CallOfPc, AmountsOfPc, EndOfPc, Calling, Returned,
                Growing, Failing, SessionObjects, NewFunding, Holds
    <3>1. HoldKnown(s)'  BY DEF ReservedOfPc, Unsettled
    <3>2. ReservedOfPc(s)'  BY DEF ReservedOfPc
    <3>3. Projected(s)'
      BY DEF ReservedOfPc, Unsettled, Projected, SettleProjected, Delta
    <3>4. OpenOfPc(s)'  BY DEF OpenOfPc, ReservedOfPc
    <3>5. ProjectionMoves(s)
      BY DEF ProjectionMoves, InProjection, Closing, Projected, Delta
    <3> QED  BY <3>1, <3>2, <3>3, <3>4, <3>5
  <2> QED
    BY <2>1, <2>4, <2>5, <2>6, FundingGood
<1>11. CASE /\ Return(s, "error")
            /\ Fails(s)
            /\ available' = available /\ legacy' = legacy /\ fund' = fund /\ hold' = hold
  <2>1. CallAt(s, "returned", "error")
    BY <1>11, ReturnRow DEF Places
  <2>2. /\ LogRow(s) /\ log'[s] # "clean"
        /\ log'[s] = "unrepaired" <=> log[s] = "unrepaired"
    BY <1>4, <1>11, LogMoves
  <2>3. /\ FundRow(s, f0) /\ HoldRow(s, h0) /\ fund'[s] = f0 /\ H(s)' = h0
        /\ op'[s].kind = o0.kind /\ op'[s].amount = o0.amount
        /\ op'[s].cancellable = o0.cancellable
        /\ op'[s].at = "returned" /\ op'[s].result = "error"
    BY <1>11, <2>1, CallOnly
  <2> USE <1>11, <2>2, <2>3
  <2>4. Control(s)'
    BY DEF Control, CallOfPc, AmountsOfPc, EndOfPc, Calling, Returned, Growth, NoCall, NewFunding
  <2>5. WalletMoves(s)  BY DEF WalletMoves, Taken, TakenFor
  <2>6. Single(s) => Single(s)' /\ ProjectionMoves(s)
    <3> SUFFICES ASSUME Single(s) PROVE Single(s)' /\ ProjectionMoves(s)  OBVIOUS
    <3> USE DEF Single, HoldKnown, Control, CallOfPc, AmountsOfPc, EndOfPc, Calling, Returned,
                Growing, Failing, SessionObjects, NewFunding, Holds
    <3>1. HoldKnown(s)'  BY DEF ReservedOfPc, Unsettled
    <3>2. ReservedOfPc(s)'  BY DEF ReservedOfPc
    <3>3. Projected(s)'
      BY DEF ReservedOfPc, Unsettled, Projected, SettleProjected, Delta
    <3>4. OpenOfPc(s)'  BY DEF OpenOfPc, ReservedOfPc
    <3>5. ProjectionMoves(s)
      BY DEF ProjectionMoves, InProjection, Closing, Projected, Delta
    <3> QED  BY <3>1, <3>2, <3>3, <3>4, <3>5
  <2> QED
    BY <2>1, <2>4, <2>5, <2>6, FundingGood
<1>12. \/ /\ h0.status = "open"
          /\ old = {}
          /\ available >= o0.amount
          /\ grown = target
          /\ GoOn(s, "project")
          /\ Works
          /\ available' = available - o0.amount
          /\ hold' = [hold EXCEPT ![RequestOf[s]].amount = grown,
                                       ![RequestOf[s]].increases =
                                           @ \cup {[target |-> target, amount |-> o0.amount]}]
          /\ legacy' = legacy /\ fund' = fund
       \/ /\ h0.status = "open"
          /\ old = {}
          /\ available >= o0.amount
          /\ grown # target
          /\ Return(s, "error")
          /\ Works
          /\ available' = available - o0.amount
          /\ hold' = [hold EXCEPT ![RequestOf[s]].amount = grown,
                                       ![RequestOf[s]].increases =
                                           @ \cup {[target |-> target, amount |-> o0.amount]}]
          /\ legacy' = legacy /\ fund' = fund
       \/ /\ h0.status = "open"
          /\ available < o0.amount
          /\ Return(s, "insufficient")
          /\ Works
          /\ available' = available /\ legacy' = legacy /\ fund' = fund /\ hold' = hold
       \/ /\ h0.status = "open"
          /\ old # {}
          /\ h0.amount = target
          /\ GoOn(s, "project")
          /\ Works
          /\ available' = available /\ legacy' = legacy /\ fund' = fund /\ hold' = hold
       \/ /\ h0.status = "open"
          /\ old # {}
          /\ Return(s, "error")
          /\ Works
          /\ available' = available /\ legacy' = legacy /\ fund' = fund /\ hold' = hold
       \/ /\ h0.status # "open"
          /\ Return(s, "error")
          /\ Works
          /\ available' = available /\ legacy' = legacy /\ fund' = fund /\ hold' = hold
       \/ /\ Return(s, "error")
          /\ Fails(s)
          /\ available' = available /\ legacy' = legacy /\ fund' = fund /\ hold' = hold
  BY Zenon DEF IncreaseHold, ledgerVars
<1> QED  BY <1>12, <1>5, <1>6, <1>7, <1>8, <1>9, <1>10, <1>11

\* preConsume, reserveAdditional: users.claude_quota follows the ledger, or the hold is given back.
LEMMA ProjectHoldGood ==
    ASSUME Types, NEW s \in Sessions, Control(s), ProjectHold(s),
           UNCHANGED <<token, sess, pc, crashes>>
    PROVE  GoodStep(s)
<1> DEFINE o0 == op[s]
           f0 == fund[s]
           h0 == H(s)
<1>1. RowTypes(s)  BY RowTypesHold
<1>2. o0.kind \in {"reserve", "increase"} /\ o0.at = "project" /\ CallFacts(s)
  BY CallFactsHold DEF ProjectHold, In
<1>3. UNCHANGED <<token, sess, pc, credits, earnings>>
  BY DEF ProjectHold, walletVars
<1>4. Works \/ Fails(s) \/ FailsForGood(s) \/ Unrepaired(s)
  BY DEF ProjectHold
<1> USE <1>1, <1>2, <1>3 DEF RowTypes, CallFacts
<1>5. CASE /\ Return(s, "ok")
           /\ Works
           /\ legacy' = legacy - o0.amount
           /\ fund' = [fund EXCEPT ![s] = [known |-> TRUE, reserved |-> @.reserved + o0.amount,
                                            legacyHeld |-> @.legacyHeld + o0.amount]]
           /\ available' = available /\ hold' = hold
  <2> DEFINE f1 == [known |-> TRUE, reserved |-> f0.reserved + o0.amount,
                     legacyHeld |-> f0.legacyHeld + o0.amount]
  <2>1. CallAt(s, "returned", "ok")
    BY <1>5, ReturnRow DEF Places
  <2>2. LogRow(s) /\ log'[s] = log[s]
    BY <1>4, <1>5, LogMoves
  <2>3. /\ f1 \in Funds /\ FundRow(s, f1)
        /\ f1.known = TRUE /\ f1.reserved = f0.reserved + o0.amount
        /\ f1.legacyHeld = f0.legacyHeld + o0.amount
    <3>1. f1 \in Funds  BY <1>5 DEF Funds
    <3>2. fund' = [fund EXCEPT ![s] = f1]  BY <1>5 DEF Types
    <3>3. /\ f1.known = TRUE /\ f1.reserved = f0.reserved + o0.amount
          /\ f1.legacyHeld = f0.legacyHeld + o0.amount
      BY DEF Funds
    <3> HIDE DEF f1
    <3> QED  BY <3>1, <3>2, <3>3, FundingRow
  <2>4. h0 \in Holds /\ HoldRow(s, h0)  BY <1>5, SameFundingRows
  <2> HIDE DEF f1
  <2>5. /\ available' \in Nat /\ legacy' \in Int
        /\ fund'[s] = f1 /\ H(s)' = h0
    BY <1>5, <2>3, <2>4 DEF FundRow, HoldRow
  <2>6. /\ op'[s].kind = o0.kind /\ op'[s].amount = o0.amount
        /\ op'[s].cancellable = o0.cancellable
        /\ op'[s].at = "returned" /\ op'[s].result = "ok"
    BY <2>1 DEF CallAt
  <2> USE <1>5, <2>2, <2>3, <2>4, <2>5, <2>6
  <2>7. Control(s)'
    BY DEF Control, CallOfPc, AmountsOfPc, EndOfPc, Calling, Returned, Growth, NoCall, NewFunding
  <2>8. WalletMoves(s)  BY DEF WalletMoves, Taken, TakenFor
  <2>9. Single(s) => Single(s)' /\ ProjectionMoves(s)
    <3> SUFFICES ASSUME Single(s) PROVE Single(s)' /\ ProjectionMoves(s)  OBVIOUS
    <3> USE DEF Single, HoldKnown, Control, CallOfPc, AmountsOfPc, EndOfPc, Calling, Returned,
                Growing, Failing, SessionObjects, NewFunding, Holds
    <3>1. HoldKnown(s)'  BY DEF ReservedOfPc, Unsettled
    <3>2. ReservedOfPc(s)'  BY DEF ReservedOfPc
    <3>3. Projected(s)'
      BY DEF ReservedOfPc, Unsettled, Projected, SettleProjected, Delta
    <3>4. OpenOfPc(s)'  BY DEF OpenOfPc, ReservedOfPc
    <3>5. ProjectionMoves(s)
      BY DEF ProjectionMoves, InProjection, Closing, Projected, Delta
    <3> QED  BY <3>1, <3>2, <3>3, <3>4, <3>5
  <2>10. /\ o0.kind = "refund" => h0.status = "released"
    BY DEF Control, CallOfPc
  <2> QED
    BY <2>1, <2>7, <2>8, <2>9, <2>10, FundingGood
<1>6. CASE /\ GoOn(s, "undo")
           /\ Fails(s)
           /\ available' = available /\ legacy' = legacy /\ fund' = fund /\ hold' = hold
  <2>1. CallAt(s, "undo", o0.result)
    BY <1>6, GoOnRow DEF Places
  <2>2. /\ LogRow(s) /\ log'[s] # "clean"
        /\ log'[s] = "unrepaired" <=> log[s] = "unrepaired"
    BY <1>4, <1>6, LogMoves
  <2>3. /\ FundRow(s, f0) /\ HoldRow(s, h0) /\ fund'[s] = f0 /\ H(s)' = h0
        /\ op'[s].kind = o0.kind /\ op'[s].amount = o0.amount
        /\ op'[s].cancellable = o0.cancellable
        /\ op'[s].at = "undo" /\ op'[s].result = o0.result
    BY <1>6, <2>1, CallOnly
  <2> USE <1>6, <2>2, <2>3
  <2>4. Control(s)'
    BY DEF Control, CallOfPc, AmountsOfPc, EndOfPc, Calling, Returned, Growth, NoCall, NewFunding
  <2>5. WalletMoves(s)  BY DEF WalletMoves, Taken, TakenFor
  <2>6. Single(s) => Single(s)' /\ ProjectionMoves(s)
    <3> SUFFICES ASSUME Single(s) PROVE Single(s)' /\ ProjectionMoves(s)  OBVIOUS
    <3> USE DEF Single, HoldKnown, Control, CallOfPc, AmountsOfPc, EndOfPc, Calling, Returned,
                Growing, Failing, SessionObjects, NewFunding, Holds
    <3>1. HoldKnown(s)'  BY DEF ReservedOfPc, Unsettled
    <3>2. ReservedOfPc(s)'  BY DEF ReservedOfPc
    <3>3. Projected(s)'
      BY DEF ReservedOfPc, Unsettled, Projected, SettleProjected, Delta
    <3>4. OpenOfPc(s)'  BY DEF OpenOfPc, ReservedOfPc
    <3>5. ProjectionMoves(s)
      BY DEF ProjectionMoves, InProjection, Closing, Projected, Delta
    <3> QED  BY <3>1, <3>2, <3>3, <3>4, <3>5
  <2> QED
    BY <2>1, <2>4, <2>5, <2>6, FundingGood
<1>7. \/ /\ Return(s, "ok")
         /\ Works
         /\ legacy' = legacy - o0.amount
         /\ fund' = [fund EXCEPT ![s] = [known |-> TRUE, reserved |-> @.reserved + o0.amount,
                                          legacyHeld |-> @.legacyHeld + o0.amount]]
         /\ available' = available /\ hold' = hold
      \/ /\ GoOn(s, "undo")
         /\ Fails(s)
         /\ available' = available /\ legacy' = legacy /\ fund' = fund /\ hold' = hold
  BY Zenon DEF ProjectHold, ledgerVars
<1> QED  BY <1>7, <1>5, <1>6

\* preConsume, reserveAdditional: the hold is given back since the projection failed.
LEMMA ReleaseUnprojectedGood ==
    ASSUME Types, NEW s \in Sessions, Control(s), ReleaseUnprojected(s),
           UNCHANGED <<token, sess, pc, crashes>>
    PROVE  GoodStep(s)
<1> DEFINE o0 == op[s]
           f0 == fund[s]
           h0 == H(s)
<1>1. RowTypes(s)  BY RowTypesHold
<1>2. o0.kind \in {"reserve", "increase"} /\ o0.at = "undo" /\ CallFacts(s)
  BY CallFactsHold DEF ReleaseUnprojected, In
<1>3. UNCHANGED <<token, sess, pc, credits, earnings>>
  BY DEF ReleaseUnprojected, walletVars
<1>4. Works \/ Fails(s) \/ FailsForGood(s) \/ Unrepaired(s)
  BY DEF ReleaseUnprojected
<1> USE <1>1, <1>2, <1>3 DEF RowTypes, CallFacts
<1>5. CASE /\ h0.status = "open"
           /\ Return(s, "error")
           /\ Works
           /\ available' = available + h0.amount
           /\ hold' = [hold EXCEPT ![RequestOf[s]].status = "released"]
           /\ legacy' = legacy /\ fund' = fund
  <2> DEFINE h1 == [h0 EXCEPT !.status = "released"]
  <2>1. CallAt(s, "returned", "error")
    BY <1>5, ReturnRow DEF Places
  <2>2. LogRow(s) /\ log'[s] = log[s]
    BY <1>4, <1>5, LogMoves
  <2>3. f0 \in Funds /\ FundRow(s, f0)  BY <1>5, SameFundingRows
  <2>4. /\ h1 \in Holds /\ HoldRow(s, h1)
        /\ h1.status = "released" /\ h1.amount = h0.amount /\ h1.increases = h0.increases
    <3>1. /\ h1 \in Holds
          /\ h1.status = "released" /\ h1.amount = h0.amount /\ h1.increases = h0.increases
      BY <1>5 DEF Holds
    <3>2. hold' = [hold EXCEPT ![RequestOf[s]] = h1]  BY <1>5, FundingAssumption DEF Types, H
    <3> HIDE DEF h1
    <3> QED  BY <3>1, <3>2, ReservationRow
  <2> HIDE DEF h1
  <2>5. /\ available' \in Nat /\ legacy' \in Int
        /\ fund'[s] = f0 /\ H(s)' = h1
    BY <1>5, <2>3, <2>4 DEF FundRow, HoldRow
  <2>6. /\ op'[s].kind = o0.kind /\ op'[s].amount = o0.amount
        /\ op'[s].cancellable = o0.cancellable
        /\ op'[s].at = "returned" /\ op'[s].result = "error"
    BY <2>1 DEF CallAt
  <2> USE <1>5, <2>2, <2>3, <2>4, <2>5, <2>6
  <2>7. Control(s)'
    BY DEF Control, CallOfPc, AmountsOfPc, EndOfPc, Calling, Returned, Growth, NoCall, NewFunding
  <2>8. WalletMoves(s)  BY DEF WalletMoves, Taken, TakenFor
  <2>9. Single(s) => Single(s)' /\ ProjectionMoves(s)
    <3> SUFFICES ASSUME Single(s) PROVE Single(s)' /\ ProjectionMoves(s)  OBVIOUS
    <3> USE DEF Single, HoldKnown, Control, CallOfPc, AmountsOfPc, EndOfPc, Calling, Returned,
                Growing, Failing, SessionObjects, NewFunding, Holds
    <3>1. HoldKnown(s)'  BY DEF ReservedOfPc, Unsettled
    <3>2. ReservedOfPc(s)'  BY DEF ReservedOfPc
    <3>3. Projected(s)'
      BY DEF ReservedOfPc, Unsettled, Projected, SettleProjected, Delta
    <3>4. OpenOfPc(s)'  BY DEF OpenOfPc, ReservedOfPc
    <3>5. ProjectionMoves(s)
      BY DEF ProjectionMoves, InProjection, Closing, Projected, Delta
    <3> QED  BY <3>1, <3>2, <3>3, <3>4, <3>5
  <2>10. /\ h0.status \in {"settled", "released"} => h1 = h0
         /\ h1.status = "settled" /\ h0.status # "settled" =>
              /\ h1.charged <= sess[s].used /\ h1.charged = o0.amount /\ f0.known
              /\ o0.kind = "settle" /\ "returned" = "returned" /\ "error" = "ok"
    BY DEF Control, CallOfPc
  <2> QED
    BY <2>1, <2>7, <2>8, <2>9, <2>10, FundingGood
<1>6. CASE /\ h0.status = "released"
           /\ Return(s, "error")
           /\ Works
           /\ available' = available /\ legacy' = legacy /\ fund' = fund /\ hold' = hold
  <2>1. CallAt(s, "returned", "error")
    BY <1>6, ReturnRow DEF Places
  <2>2. LogRow(s) /\ log'[s] = log[s]
    BY <1>4, <1>6, LogMoves
  <2>3. /\ FundRow(s, f0) /\ HoldRow(s, h0) /\ fund'[s] = f0 /\ H(s)' = h0
        /\ op'[s].kind = o0.kind /\ op'[s].amount = o0.amount
        /\ op'[s].cancellable = o0.cancellable
        /\ op'[s].at = "returned" /\ op'[s].result = "error"
    BY <1>6, <2>1, CallOnly
  <2> USE <1>6, <2>2, <2>3
  <2>4. Control(s)'
    BY DEF Control, CallOfPc, AmountsOfPc, EndOfPc, Calling, Returned, Growth, NoCall, NewFunding
  <2>5. WalletMoves(s)  BY DEF WalletMoves, Taken, TakenFor
  <2>6. Single(s) => Single(s)' /\ ProjectionMoves(s)
    <3> SUFFICES ASSUME Single(s) PROVE Single(s)' /\ ProjectionMoves(s)  OBVIOUS
    <3> USE DEF Single, HoldKnown, Control, CallOfPc, AmountsOfPc, EndOfPc, Calling, Returned,
                Growing, Failing, SessionObjects, NewFunding, Holds
    <3>1. HoldKnown(s)'  BY DEF ReservedOfPc, Unsettled
    <3>2. ReservedOfPc(s)'  BY DEF ReservedOfPc
    <3>3. Projected(s)'
      BY DEF ReservedOfPc, Unsettled, Projected, SettleProjected, Delta
    <3>4. OpenOfPc(s)'  BY DEF OpenOfPc, ReservedOfPc
    <3>5. ProjectionMoves(s)
      BY DEF ProjectionMoves, InProjection, Closing, Projected, Delta
    <3> QED  BY <3>1, <3>2, <3>3, <3>4, <3>5
  <2> QED
    BY <2>1, <2>4, <2>5, <2>6, FundingGood
<1>7. CASE /\ Return(s, "error")
           /\ log'[s] = "unrepaired"
           /\ available' = available /\ legacy' = legacy /\ fund' = fund /\ hold' = hold
  <2>1. CallAt(s, "returned", "error")
    BY <1>7, ReturnRow DEF Places
  <2>2. LogRow(s) /\ log'[s] = "unrepaired"
    BY <1>4, <1>7, LogMoves
  <2>3. /\ FundRow(s, f0) /\ HoldRow(s, h0) /\ fund'[s] = f0 /\ H(s)' = h0
        /\ op'[s].kind = o0.kind /\ op'[s].amount = o0.amount
        /\ op'[s].cancellable = o0.cancellable
        /\ op'[s].at = "returned" /\ op'[s].result = "error"
    BY <1>7, <2>1, CallOnly
  <2> USE <1>7, <2>2, <2>3
  <2>4. Control(s)'
    BY DEF Control, CallOfPc, AmountsOfPc, EndOfPc, Calling, Returned, Growth, NoCall, NewFunding
  <2>5. WalletMoves(s)  BY DEF WalletMoves, Taken, TakenFor
  <2>6. Single(s) => Single(s)' /\ ProjectionMoves(s)
    <3> SUFFICES ASSUME Single(s) PROVE Single(s)' /\ ProjectionMoves(s)  OBVIOUS
    <3> USE DEF Single, HoldKnown, Control, CallOfPc, AmountsOfPc, EndOfPc, Calling, Returned,
                Growing, Failing, SessionObjects, NewFunding, Holds
    <3>1. HoldKnown(s)'  BY DEF ReservedOfPc, Unsettled
    <3>2. ReservedOfPc(s)'  BY DEF ReservedOfPc
    <3>3. Projected(s)'
      BY DEF ReservedOfPc, Unsettled, Projected, SettleProjected, Delta
    <3>4. OpenOfPc(s)'  BY DEF OpenOfPc, ReservedOfPc
    <3>5. ProjectionMoves(s)
      BY DEF ProjectionMoves, InProjection, Closing, Projected, Delta
    <3> QED  BY <3>1, <3>2, <3>3, <3>4, <3>5
  <2> QED
    BY <2>1, <2>4, <2>5, <2>6, FundingGood
<1>8. \/ /\ h0.status = "open"
         /\ Return(s, "error")
         /\ Works
         /\ available' = available + h0.amount
         /\ hold' = [hold EXCEPT ![RequestOf[s]].status = "released"]
         /\ legacy' = legacy /\ fund' = fund
      \/ /\ h0.status = "released"
         /\ Return(s, "error")
         /\ Works
         /\ available' = available /\ legacy' = legacy /\ fund' = fund /\ hold' = hold
      \/ /\ Return(s, "error")
         /\ log'[s] = "unrepaired"
         /\ available' = available /\ legacy' = legacy /\ fund' = fund /\ hold' = hold
  BY LogMoves DEF ReleaseUnprojected, Release, ledgerVars
<1> QED  BY <1>8, <1>5, <1>6, <1>7

\* settleWithMarketplaceUsage: an earlier settlement of the hold is taken up.
LEMMA FindSettlementGood ==
    ASSUME Types, NEW s \in Sessions, Control(s), FindSettlement(s),
           UNCHANGED <<token, sess, pc, crashes>>
    PROVE  GoodStep(s)
<1> DEFINE o0 == op[s]
           f0 == fund[s]
           h0 == H(s)
<1>1. RowTypes(s)  BY RowTypesHold
<1>2. o0.kind = "settle" /\ o0.at = "find" /\ CallFacts(s)
  BY CallFactsHold DEF FindSettlement, HasSettlement, In
<1>3. UNCHANGED <<token, sess, pc, credits, earnings>>
  BY DEF FindSettlement, HasSettlement, walletVars
<1>4. Works \/ Fails(s) \/ FailsForGood(s) \/ Unrepaired(s)
  BY DEF FindSettlement
<1> USE <1>1, <1>2, <1>3 DEF RowTypes, CallFacts
<1>5. CASE /\ h0.status = "settled"
           /\ Return(s, "ok")
           /\ Works
           /\ available' = available /\ legacy' = legacy /\ fund' = fund /\ hold' = hold
  <2>1. CallAt(s, "returned", "ok")
    BY <1>5, ReturnRow DEF Places
  <2>2. LogRow(s) /\ log'[s] = log[s]
    BY <1>4, <1>5, LogMoves
  <2>3. /\ FundRow(s, f0) /\ HoldRow(s, h0) /\ fund'[s] = f0 /\ H(s)' = h0
        /\ op'[s].kind = o0.kind /\ op'[s].amount = o0.amount
        /\ op'[s].cancellable = o0.cancellable
        /\ op'[s].at = "returned" /\ op'[s].result = "ok"
    BY <1>5, <2>1, CallOnly
  <2> USE <1>5, <2>2, <2>3
  <2>4. Control(s)'
    BY DEF Control, CallOfPc, AmountsOfPc, EndOfPc, Calling, Returned, Growth, NoCall, NewFunding
  <2>5. WalletMoves(s)  BY DEF WalletMoves, Taken, TakenFor
  <2>6. Single(s) => Single(s)' /\ ProjectionMoves(s)
    <3> SUFFICES ASSUME Single(s) PROVE Single(s)' /\ ProjectionMoves(s)  OBVIOUS
    <3> USE DEF Single, HoldKnown, Control, CallOfPc, AmountsOfPc, EndOfPc, Calling, Returned,
                Growing, Failing, SessionObjects, NewFunding, Holds
    <3>1. HoldKnown(s)'  BY DEF ReservedOfPc, Unsettled
    <3>2. ReservedOfPc(s)'  BY DEF ReservedOfPc
    <3>3. Projected(s)'
      BY DEF ReservedOfPc, Unsettled, Projected, SettleProjected, Delta
    <3>4. OpenOfPc(s)'  BY DEF OpenOfPc, ReservedOfPc
    <3>5. ProjectionMoves(s)
      BY DEF ProjectionMoves, InProjection, Closing, Projected, Delta
    <3> QED  BY <3>1, <3>2, <3>3, <3>4, <3>5
  <2> QED
    BY <2>1, <2>4, <2>5, <2>6, FundingGood
<1>6. CASE /\ Delta(s) # 0
           /\ GoOn(s, "project")
           /\ Works
           /\ available' = available /\ legacy' = legacy /\ fund' = fund /\ hold' = hold
  <2>1. CallAt(s, "project", o0.result)
    BY <1>6, GoOnRow DEF Places
  <2>2. LogRow(s) /\ log'[s] = log[s]
    BY <1>4, <1>6, LogMoves
  <2>3. /\ FundRow(s, f0) /\ HoldRow(s, h0) /\ fund'[s] = f0 /\ H(s)' = h0
        /\ op'[s].kind = o0.kind /\ op'[s].amount = o0.amount
        /\ op'[s].cancellable = o0.cancellable
        /\ op'[s].at = "project" /\ op'[s].result = o0.result
    BY <1>6, <2>1, CallOnly
  <2> USE <1>6, <2>2, <2>3
  <2>4. Control(s)'
    BY DEF Control, CallOfPc, AmountsOfPc, EndOfPc, Calling, Returned, Growth, NoCall, NewFunding
  <2>5. WalletMoves(s)  BY DEF WalletMoves, Taken, TakenFor
  <2>6. Single(s) => Single(s)' /\ ProjectionMoves(s)
    <3> SUFFICES ASSUME Single(s) PROVE Single(s)' /\ ProjectionMoves(s)  OBVIOUS
    <3> USE DEF Single, HoldKnown, Control, CallOfPc, AmountsOfPc, EndOfPc, Calling, Returned,
                Growing, Failing, SessionObjects, NewFunding, Holds
    <3>1. HoldKnown(s)'  BY DEF ReservedOfPc, Unsettled
    <3>2. ReservedOfPc(s)'  BY DEF ReservedOfPc
    <3>3. Projected(s)'
      BY DEF ReservedOfPc, Unsettled, Projected, SettleProjected, Delta
    <3>4. OpenOfPc(s)'  BY DEF OpenOfPc, ReservedOfPc
    <3>5. ProjectionMoves(s)
      BY DEF ProjectionMoves, InProjection, Closing, Projected, Delta
    <3> QED  BY <3>1, <3>2, <3>3, <3>4, <3>5
  <2> QED
    BY <2>1, <2>4, <2>5, <2>6, FundingGood
<1>7. CASE /\ Delta(s) = 0
           /\ GoOn(s, "ledger")
           /\ Works
           /\ available' = available /\ legacy' = legacy /\ fund' = fund /\ hold' = hold
  <2>1. CallAt(s, "ledger", o0.result)
    BY <1>7, GoOnRow DEF Places
  <2>2. LogRow(s) /\ log'[s] = log[s]
    BY <1>4, <1>7, LogMoves
  <2>3. /\ FundRow(s, f0) /\ HoldRow(s, h0) /\ fund'[s] = f0 /\ H(s)' = h0
        /\ op'[s].kind = o0.kind /\ op'[s].amount = o0.amount
        /\ op'[s].cancellable = o0.cancellable
        /\ op'[s].at = "ledger" /\ op'[s].result = o0.result
    BY <1>7, <2>1, CallOnly
  <2> USE <1>7, <2>2, <2>3
  <2>4. Control(s)'
    BY DEF Control, CallOfPc, AmountsOfPc, EndOfPc, Calling, Returned, Growth, NoCall, NewFunding
  <2>5. WalletMoves(s)  BY DEF WalletMoves, Taken, TakenFor
  <2>6. Single(s) => Single(s)' /\ ProjectionMoves(s)
    <3> SUFFICES ASSUME Single(s) PROVE Single(s)' /\ ProjectionMoves(s)  OBVIOUS
    <3> USE DEF Single, HoldKnown, Control, CallOfPc, AmountsOfPc, EndOfPc, Calling, Returned,
                Growing, Failing, SessionObjects, NewFunding, Holds
    <3>1. HoldKnown(s)'  BY DEF ReservedOfPc, Unsettled
    <3>2. ReservedOfPc(s)'  BY DEF ReservedOfPc
    <3>3. Projected(s)'
      BY DEF ReservedOfPc, Unsettled, Projected, SettleProjected, Delta
    <3>4. OpenOfPc(s)'  BY DEF OpenOfPc, ReservedOfPc
    <3>5. ProjectionMoves(s)
      BY DEF ProjectionMoves, InProjection, Closing, Projected, Delta
    <3> QED  BY <3>1, <3>2, <3>3, <3>4, <3>5
  <2> QED
    BY <2>1, <2>4, <2>5, <2>6, FundingGood
<1>8. CASE /\ Return(s, "error")
           /\ Fails(s)
           /\ available' = available /\ legacy' = legacy /\ fund' = fund /\ hold' = hold
  <2>1. CallAt(s, "returned", "error")
    BY <1>8, ReturnRow DEF Places
  <2>2. /\ LogRow(s) /\ log'[s] # "clean"
        /\ log'[s] = "unrepaired" <=> log[s] = "unrepaired"
    BY <1>4, <1>8, LogMoves
  <2>3. /\ FundRow(s, f0) /\ HoldRow(s, h0) /\ fund'[s] = f0 /\ H(s)' = h0
        /\ op'[s].kind = o0.kind /\ op'[s].amount = o0.amount
        /\ op'[s].cancellable = o0.cancellable
        /\ op'[s].at = "returned" /\ op'[s].result = "error"
    BY <1>8, <2>1, CallOnly
  <2> USE <1>8, <2>2, <2>3
  <2>4. Control(s)'
    BY DEF Control, CallOfPc, AmountsOfPc, EndOfPc, Calling, Returned, Growth, NoCall, NewFunding
  <2>5. WalletMoves(s)  BY DEF WalletMoves, Taken, TakenFor
  <2>6. Single(s) => Single(s)' /\ ProjectionMoves(s)
    <3> SUFFICES ASSUME Single(s) PROVE Single(s)' /\ ProjectionMoves(s)  OBVIOUS
    <3> USE DEF Single, HoldKnown, Control, CallOfPc, AmountsOfPc, EndOfPc, Calling, Returned,
                Growing, Failing, SessionObjects, NewFunding, Holds
    <3>1. HoldKnown(s)'  BY DEF ReservedOfPc, Unsettled
    <3>2. ReservedOfPc(s)'  BY DEF ReservedOfPc
    <3>3. Projected(s)'
      BY DEF ReservedOfPc, Unsettled, Projected, SettleProjected, Delta
    <3>4. OpenOfPc(s)'  BY DEF OpenOfPc, ReservedOfPc
    <3>5. ProjectionMoves(s)
      BY DEF ProjectionMoves, InProjection, Closing, Projected, Delta
    <3> QED  BY <3>1, <3>2, <3>3, <3>4, <3>5
  <2> QED
    BY <2>1, <2>4, <2>5, <2>6, FundingGood
<1>9. \/ /\ h0.status = "settled"
         /\ Return(s, "ok")
         /\ Works
         /\ available' = available /\ legacy' = legacy /\ fund' = fund /\ hold' = hold
      \/ /\ Delta(s) # 0
         /\ GoOn(s, "project")
         /\ Works
         /\ available' = available /\ legacy' = legacy /\ fund' = fund /\ hold' = hold
      \/ /\ Delta(s) = 0
         /\ GoOn(s, "ledger")
         /\ Works
         /\ available' = available /\ legacy' = legacy /\ fund' = fund /\ hold' = hold
      \/ /\ Return(s, "error")
         /\ Fails(s)
         /\ available' = available /\ legacy' = legacy /\ fund' = fund /\ hold' = hold
  BY Zenon DEF FindSettlement, HasSettlement, walletVars, ledgerVars
<1> QED  BY <1>9, <1>5, <1>6, <1>7, <1>8

\* settleWithMarketplaceUsage: the difference is projected before the ledger settles.
LEMMA ProjectSettlementGood ==
    ASSUME Types, NEW s \in Sessions, Control(s), ProjectSettlement(s),
           UNCHANGED <<token, sess, pc, crashes>>
    PROVE  GoodStep(s)
<1> DEFINE o0 == op[s]
           f0 == fund[s]
           h0 == H(s)
<1>1. RowTypes(s)  BY RowTypesHold
<1>2. o0.kind = "settle" /\ o0.at = "project" /\ CallFacts(s)
  BY CallFactsHold DEF ProjectSettlement, In
<1>3. UNCHANGED <<token, sess, pc, credits, earnings>>
  BY DEF ProjectSettlement, walletVars
<1>4. Works \/ Fails(s) \/ FailsForGood(s) \/ Unrepaired(s)
  BY DEF ProjectSettlement
<1> USE <1>1, <1>2, <1>3 DEF RowTypes, CallFacts
<1>g. Delta(s) \in Int  BY DEF Delta
<1>5. CASE /\ GoOn(s, "ledger")
           /\ Works
           /\ legacy' = legacy - Delta(s)
           /\ fund' = [fund EXCEPT ![s].legacyHeld = @ + Delta(s)]
           /\ available' = available /\ hold' = hold
  <2> DEFINE f1 == [f0 EXCEPT !.legacyHeld = f0.legacyHeld + Delta(s)]
  <2>1. CallAt(s, "ledger", o0.result)
    BY <1>5, GoOnRow DEF Places
  <2>2. LogRow(s) /\ log'[s] = log[s]
    BY <1>4, <1>5, LogMoves
  <2>3. /\ f1 \in Funds /\ FundRow(s, f1)
        /\ f1.known = f0.known /\ f1.reserved = f0.reserved
        /\ f1.legacyHeld = f0.legacyHeld + Delta(s)
    <3>1. f1 \in Funds  BY <1>5, <1>g DEF Funds
    <3>2. fund' = [fund EXCEPT ![s] = f1]  BY <1>5 DEF Types
    <3>3. /\ f1.known = f0.known /\ f1.reserved = f0.reserved
          /\ f1.legacyHeld = f0.legacyHeld + Delta(s)
      BY DEF Funds
    <3> HIDE DEF f1
    <3> QED  BY <3>1, <3>2, <3>3, FundingRow
  <2>4. h0 \in Holds /\ HoldRow(s, h0)  BY <1>5, SameFundingRows
  <2> HIDE DEF f1
  <2>5. /\ available' \in Nat /\ legacy' \in Int
        /\ fund'[s] = f1 /\ H(s)' = h0
    BY <1>5, <1>g, <2>3, <2>4 DEF FundRow, HoldRow
  <2>6. /\ op'[s].kind = o0.kind /\ op'[s].amount = o0.amount
        /\ op'[s].cancellable = o0.cancellable
        /\ op'[s].at = "ledger" /\ op'[s].result = o0.result
    BY <2>1 DEF CallAt
  <2> USE <1>5, <2>2, <2>3, <2>4, <2>5, <2>6, <1>g
  <2>7. Control(s)'
    BY DEF Control, CallOfPc, AmountsOfPc, EndOfPc, Calling, Returned, Growth, NoCall, NewFunding
  <2>8. WalletMoves(s)  BY DEF WalletMoves, Taken, TakenFor
  <2>9. Single(s) => Single(s)' /\ ProjectionMoves(s)
    <3> SUFFICES ASSUME Single(s) PROVE Single(s)' /\ ProjectionMoves(s)  OBVIOUS
    <3> USE DEF Single, HoldKnown, Control, CallOfPc, AmountsOfPc, EndOfPc, Calling, Returned,
                Growing, Failing, SessionObjects, NewFunding, Holds
    <3>1. HoldKnown(s)'  BY DEF ReservedOfPc, Unsettled
    <3>2. ReservedOfPc(s)'  BY DEF ReservedOfPc
    <3>3. Projected(s)'
      BY DEF ReservedOfPc, Unsettled, Projected, SettleProjected, Delta
    <3>4. OpenOfPc(s)'  BY DEF OpenOfPc, ReservedOfPc
    <3>5. ProjectionMoves(s)
      BY DEF ProjectionMoves, InProjection, Closing, Projected, Delta
    <3> QED  BY <3>1, <3>2, <3>3, <3>4, <3>5
  <2> QED
    BY <2>1, <2>7, <2>8, <2>9, FundingGood
<1>6. CASE /\ Return(s, "error")
           /\ Fails(s)
           /\ available' = available /\ legacy' = legacy /\ fund' = fund /\ hold' = hold
  <2>1. CallAt(s, "returned", "error")
    BY <1>6, ReturnRow DEF Places
  <2>2. /\ LogRow(s) /\ log'[s] # "clean"
        /\ log'[s] = "unrepaired" <=> log[s] = "unrepaired"
    BY <1>4, <1>6, LogMoves
  <2>3. /\ FundRow(s, f0) /\ HoldRow(s, h0) /\ fund'[s] = f0 /\ H(s)' = h0
        /\ op'[s].kind = o0.kind /\ op'[s].amount = o0.amount
        /\ op'[s].cancellable = o0.cancellable
        /\ op'[s].at = "returned" /\ op'[s].result = "error"
    BY <1>6, <2>1, CallOnly
  <2> USE <1>6, <2>2, <2>3
  <2>4. Control(s)'
    BY DEF Control, CallOfPc, AmountsOfPc, EndOfPc, Calling, Returned, Growth, NoCall, NewFunding
  <2>5. WalletMoves(s)  BY DEF WalletMoves, Taken, TakenFor
  <2>6. Single(s) => Single(s)' /\ ProjectionMoves(s)
    <3> SUFFICES ASSUME Single(s) PROVE Single(s)' /\ ProjectionMoves(s)  OBVIOUS
    <3> USE DEF Single, HoldKnown, Control, CallOfPc, AmountsOfPc, EndOfPc, Calling, Returned,
                Growing, Failing, SessionObjects, NewFunding, Holds
    <3>1. HoldKnown(s)'  BY DEF ReservedOfPc, Unsettled
    <3>2. ReservedOfPc(s)'  BY DEF ReservedOfPc
    <3>3. Projected(s)'
      BY DEF ReservedOfPc, Unsettled, Projected, SettleProjected, Delta
    <3>4. OpenOfPc(s)'  BY DEF OpenOfPc, ReservedOfPc
    <3>5. ProjectionMoves(s)
      BY DEF ProjectionMoves, InProjection, Closing, Projected, Delta
    <3> QED  BY <3>1, <3>2, <3>3, <3>4, <3>5
  <2> QED
    BY <2>1, <2>4, <2>5, <2>6, FundingGood
<1>7. \/ /\ GoOn(s, "ledger")
         /\ Works
         /\ legacy' = legacy - Delta(s)
         /\ fund' = [fund EXCEPT ![s].legacyHeld = @ + Delta(s)]
         /\ available' = available /\ hold' = hold
      \/ /\ Return(s, "error")
         /\ Fails(s)
         /\ available' = available /\ legacy' = legacy /\ fund' = fund /\ hold' = hold
  BY Zenon DEF ProjectSettlement, ledgerVars
<1> QED  BY <1>7, <1>5, <1>6

\* settleWithMarketplaceUsage: the ledger charges the hold, or the projection must be restored.
LEMMA SettleHoldGood ==
    ASSUME Types, NEW s \in Sessions, Control(s), SettleHold(s),
           UNCHANGED <<token, sess, pc, crashes>>
    PROVE  GoodStep(s)
<1> DEFINE o0 == op[s]
           f0 == fund[s]
           h0 == H(s)
<1>1. RowTypes(s)  BY RowTypesHold
<1>2. o0.kind = "settle" /\ o0.at = "ledger" /\ CallFacts(s)
  BY CallFactsHold DEF SettleHold, In
<1>3. UNCHANGED <<token, sess, pc, credits, earnings>>
  BY DEF SettleHold, walletVars
<1>4. Works \/ Fails(s) \/ FailsForGood(s) \/ Unrepaired(s)
  BY DEF SettleHold
<1> USE <1>1, <1>2, <1>3 DEF RowTypes, CallFacts
<1>5. CASE /\ h0.status = "open"
           /\ available >= o0.amount - h0.amount
           /\ Return(s, "ok")
           /\ Works
           /\ available' = available - (o0.amount - h0.amount)
           /\ hold' = [hold EXCEPT ![RequestOf[s]] = SettledAt(@, o0.amount, "relay")]
           /\ legacy' = legacy /\ fund' = fund
  <2> DEFINE h2 == SettledAt(h0, o0.amount, "relay")
  <2>1. CallAt(s, "returned", "ok")
    BY <1>5, ReturnRow DEF Places
  <2>2. LogRow(s) /\ log'[s] = log[s]
    BY <1>4, <1>5, LogMoves
  <2>3. f0 \in Funds /\ FundRow(s, f0)  BY <1>5, SameFundingRows
  <2>4. /\ h2 \in Holds /\ HoldRow(s, h2)
        /\ h2.status = "settled" /\ h2.charged = o0.amount
        /\ h2.amount = h0.amount /\ h2.increases = h0.increases
    <3>1. /\ h2 \in Holds /\ h2.status = "settled" /\ h2.charged = o0.amount
          /\ h2.amount = h0.amount /\ h2.increases = h0.increases
      BY SettledRow
    <3>2. hold' = [hold EXCEPT ![RequestOf[s]] = h2]  BY <1>5, FundingAssumption DEF Types, H
    <3> HIDE DEF h2
    <3> QED  BY <3>1, <3>2, ReservationRow
  <2> HIDE DEF h2
  <2>5. /\ available' \in Nat /\ legacy' \in Int
        /\ fund'[s] = f0 /\ H(s)' = h2
    BY <1>5, <2>3, <2>4 DEF FundRow, HoldRow
  <2>6. /\ op'[s].kind = o0.kind /\ op'[s].amount = o0.amount
        /\ op'[s].cancellable = o0.cancellable
        /\ op'[s].at = "returned" /\ op'[s].result = "ok"
    BY <2>1 DEF CallAt
  <2> USE <1>5, <2>2, <2>3, <2>4, <2>5, <2>6
  <2>7. Control(s)'
    BY DEF Control, CallOfPc, AmountsOfPc, EndOfPc, Calling, Returned, Growth, NoCall, NewFunding
  <2>8. WalletMoves(s)  BY DEF WalletMoves, Taken, TakenFor
  <2>9. Single(s) => Single(s)' /\ ProjectionMoves(s)
    <3> SUFFICES ASSUME Single(s) PROVE Single(s)' /\ ProjectionMoves(s)  OBVIOUS
    <3> USE DEF Single, HoldKnown, Control, CallOfPc, AmountsOfPc, EndOfPc, Calling, Returned,
                Growing, Failing, SessionObjects, NewFunding, Holds
    <3>1. HoldKnown(s)'  BY DEF ReservedOfPc, Unsettled
    <3>2. ReservedOfPc(s)'  BY DEF ReservedOfPc
    <3>3. Projected(s)'
      BY DEF ReservedOfPc, Unsettled, Projected, SettleProjected, Delta
    <3>4. OpenOfPc(s)'  BY DEF OpenOfPc, ReservedOfPc
    <3>5. ProjectionMoves(s)
      BY DEF ProjectionMoves, InProjection, Closing, Projected, Delta
    <3> QED  BY <3>1, <3>2, <3>3, <3>4, <3>5
  <2>10. /\ h0.status \in {"settled", "released"} => h2 = h0
         /\ h2.status = "settled" /\ h0.status # "settled" =>
              /\ h2.charged <= sess[s].used /\ h2.charged = o0.amount /\ f0.known
              /\ o0.kind = "settle"
         /\ o0.kind = "refund" => h2.status = "released"
    BY DEF Control, CallOfPc
  <2> QED
    BY <2>1, <2>7, <2>8, <2>9, <2>10, FundingGood
<1>6. CASE /\ h0.status = "settled"
           /\ h0.charged = o0.amount
           /\ Return(s, "ok")
           /\ Works
           /\ available' = available /\ legacy' = legacy /\ fund' = fund /\ hold' = hold
  <2>1. CallAt(s, "returned", "ok")
    BY <1>6, ReturnRow DEF Places
  <2>2. LogRow(s) /\ log'[s] = log[s]
    BY <1>4, <1>6, LogMoves
  <2>3. /\ FundRow(s, f0) /\ HoldRow(s, h0) /\ fund'[s] = f0 /\ H(s)' = h0
        /\ op'[s].kind = o0.kind /\ op'[s].amount = o0.amount
        /\ op'[s].cancellable = o0.cancellable
        /\ op'[s].at = "returned" /\ op'[s].result = "ok"
    BY <1>6, <2>1, CallOnly
  <2> USE <1>6, <2>2, <2>3
  <2>4. Control(s)'
    BY DEF Control, CallOfPc, AmountsOfPc, EndOfPc, Calling, Returned, Growth, NoCall, NewFunding
  <2>5. WalletMoves(s)  BY DEF WalletMoves, Taken, TakenFor
  <2>6. Single(s) => Single(s)' /\ ProjectionMoves(s)
    <3> SUFFICES ASSUME Single(s) PROVE Single(s)' /\ ProjectionMoves(s)  OBVIOUS
    <3> USE DEF Single, HoldKnown, Control, CallOfPc, AmountsOfPc, EndOfPc, Calling, Returned,
                Growing, Failing, SessionObjects, NewFunding, Holds
    <3>1. HoldKnown(s)'  BY DEF ReservedOfPc, Unsettled
    <3>2. ReservedOfPc(s)'  BY DEF ReservedOfPc
    <3>3. Projected(s)'
      BY DEF ReservedOfPc, Unsettled, Projected, SettleProjected, Delta
    <3>4. OpenOfPc(s)'  BY DEF OpenOfPc, ReservedOfPc
    <3>5. ProjectionMoves(s)
      BY DEF ProjectionMoves, InProjection, Closing, Projected, Delta
    <3> QED  BY <3>1, <3>2, <3>3, <3>4, <3>5
  <2> QED
    BY <2>1, <2>4, <2>5, <2>6, FundingGood
<1>7. CASE /\ Delta(s) # 0
           /\ h0.status = "open"
           /\ available < o0.amount - h0.amount
           /\ GoOn(s, "undo")
           /\ Works
           /\ available' = available /\ legacy' = legacy /\ fund' = fund /\ hold' = hold
  <2>1. CallAt(s, "undo", o0.result)
    BY <1>7, GoOnRow DEF Places
  <2>2. LogRow(s) /\ log'[s] = log[s]
    BY <1>4, <1>7, LogMoves
  <2>3. /\ FundRow(s, f0) /\ HoldRow(s, h0) /\ fund'[s] = f0 /\ H(s)' = h0
        /\ op'[s].kind = o0.kind /\ op'[s].amount = o0.amount
        /\ op'[s].cancellable = o0.cancellable
        /\ op'[s].at = "undo" /\ op'[s].result = o0.result
    BY <1>7, <2>1, CallOnly
  <2> USE <1>7, <2>2, <2>3
  <2>4. Control(s)'
    BY DEF Control, CallOfPc, AmountsOfPc, EndOfPc, Calling, Returned, Growth, NoCall, NewFunding
  <2>5. WalletMoves(s)  BY DEF WalletMoves, Taken, TakenFor
  <2>6. Single(s) => Single(s)' /\ ProjectionMoves(s)
    <3> SUFFICES ASSUME Single(s) PROVE Single(s)' /\ ProjectionMoves(s)  OBVIOUS
    <3> USE DEF Single, HoldKnown, Control, CallOfPc, AmountsOfPc, EndOfPc, Calling, Returned,
                Growing, Failing, SessionObjects, NewFunding, Holds
    <3>1. HoldKnown(s)'  BY DEF ReservedOfPc, Unsettled
    <3>2. ReservedOfPc(s)'  BY DEF ReservedOfPc
    <3>3. Projected(s)'
      BY DEF ReservedOfPc, Unsettled, Projected, SettleProjected, Delta
    <3>4. OpenOfPc(s)'  BY DEF OpenOfPc, ReservedOfPc
    <3>5. ProjectionMoves(s)
      BY DEF ProjectionMoves, InProjection, Closing, Projected, Delta
    <3> QED  BY <3>1, <3>2, <3>3, <3>4, <3>5
  <2> QED
    BY <2>1, <2>4, <2>5, <2>6, FundingGood
<1>8. CASE /\ Delta(s) = 0
           /\ h0.status = "open"
           /\ available < o0.amount - h0.amount
           /\ Return(s, "error")
           /\ Works
           /\ available' = available /\ legacy' = legacy /\ fund' = fund /\ hold' = hold
  <2>1. CallAt(s, "returned", "error")
    BY <1>8, ReturnRow DEF Places
  <2>2. LogRow(s) /\ log'[s] = log[s]
    BY <1>4, <1>8, LogMoves
  <2>3. /\ FundRow(s, f0) /\ HoldRow(s, h0) /\ fund'[s] = f0 /\ H(s)' = h0
        /\ op'[s].kind = o0.kind /\ op'[s].amount = o0.amount
        /\ op'[s].cancellable = o0.cancellable
        /\ op'[s].at = "returned" /\ op'[s].result = "error"
    BY <1>8, <2>1, CallOnly
  <2> USE <1>8, <2>2, <2>3
  <2>4. Control(s)'
    BY DEF Control, CallOfPc, AmountsOfPc, EndOfPc, Calling, Returned, Growth, NoCall, NewFunding
  <2>5. WalletMoves(s)  BY DEF WalletMoves, Taken, TakenFor
  <2>6. Single(s) => Single(s)' /\ ProjectionMoves(s)
    <3> SUFFICES ASSUME Single(s) PROVE Single(s)' /\ ProjectionMoves(s)  OBVIOUS
    <3> USE DEF Single, HoldKnown, Control, CallOfPc, AmountsOfPc, EndOfPc, Calling, Returned,
                Growing, Failing, SessionObjects, NewFunding, Holds
    <3>1. HoldKnown(s)'  BY DEF ReservedOfPc, Unsettled
    <3>2. ReservedOfPc(s)'  BY DEF ReservedOfPc
    <3>3. Projected(s)'
      BY DEF ReservedOfPc, Unsettled, Projected, SettleProjected, Delta
    <3>4. OpenOfPc(s)'  BY DEF OpenOfPc, ReservedOfPc
    <3>5. ProjectionMoves(s)
      BY DEF ProjectionMoves, InProjection, Closing, Projected, Delta
    <3> QED  BY <3>1, <3>2, <3>3, <3>4, <3>5
  <2> QED
    BY <2>1, <2>4, <2>5, <2>6, FundingGood
<1>9. CASE /\ Delta(s) # 0
           /\ h0.status \in {"settled", "released"}
           /\ GoOn(s, "undo")
           /\ Works
           /\ available' = available /\ legacy' = legacy /\ fund' = fund /\ hold' = hold
  <2>1. CallAt(s, "undo", o0.result)
    BY <1>9, GoOnRow DEF Places
  <2>2. LogRow(s) /\ log'[s] = log[s]
    BY <1>4, <1>9, LogMoves
  <2>3. /\ FundRow(s, f0) /\ HoldRow(s, h0) /\ fund'[s] = f0 /\ H(s)' = h0
        /\ op'[s].kind = o0.kind /\ op'[s].amount = o0.amount
        /\ op'[s].cancellable = o0.cancellable
        /\ op'[s].at = "undo" /\ op'[s].result = o0.result
    BY <1>9, <2>1, CallOnly
  <2> USE <1>9, <2>2, <2>3
  <2>4. Control(s)'
    BY DEF Control, CallOfPc, AmountsOfPc, EndOfPc, Calling, Returned, Growth, NoCall, NewFunding
  <2>5. WalletMoves(s)  BY DEF WalletMoves, Taken, TakenFor
  <2>6. Single(s) => Single(s)' /\ ProjectionMoves(s)
    <3> SUFFICES ASSUME Single(s) PROVE Single(s)' /\ ProjectionMoves(s)  OBVIOUS
    <3> USE DEF Single, HoldKnown, Control, CallOfPc, AmountsOfPc, EndOfPc, Calling, Returned,
                Growing, Failing, SessionObjects, NewFunding, Holds
    <3>1. HoldKnown(s)'  BY DEF ReservedOfPc, Unsettled
    <3>2. ReservedOfPc(s)'  BY DEF ReservedOfPc
    <3>3. Projected(s)'
      BY DEF ReservedOfPc, Unsettled, Projected, SettleProjected, Delta
    <3>4. OpenOfPc(s)'  BY DEF OpenOfPc, ReservedOfPc
    <3>5. ProjectionMoves(s)
      BY DEF ProjectionMoves, InProjection, Closing, Projected, Delta
    <3> QED  BY <3>1, <3>2, <3>3, <3>4, <3>5
  <2> QED
    BY <2>1, <2>4, <2>5, <2>6, FundingGood
<1>10. CASE /\ Delta(s) = 0
            /\ h0.status \in {"settled", "released"}
            /\ Return(s, "error")
            /\ Works
            /\ available' = available /\ legacy' = legacy /\ fund' = fund /\ hold' = hold
  <2>1. CallAt(s, "returned", "error")
    BY <1>10, ReturnRow DEF Places
  <2>2. LogRow(s) /\ log'[s] = log[s]
    BY <1>4, <1>10, LogMoves
  <2>3. /\ FundRow(s, f0) /\ HoldRow(s, h0) /\ fund'[s] = f0 /\ H(s)' = h0
        /\ op'[s].kind = o0.kind /\ op'[s].amount = o0.amount
        /\ op'[s].cancellable = o0.cancellable
        /\ op'[s].at = "returned" /\ op'[s].result = "error"
    BY <1>10, <2>1, CallOnly
  <2> USE <1>10, <2>2, <2>3
  <2>4. Control(s)'
    BY DEF Control, CallOfPc, AmountsOfPc, EndOfPc, Calling, Returned, Growth, NoCall, NewFunding
  <2>5. WalletMoves(s)  BY DEF WalletMoves, Taken, TakenFor
  <2>6. Single(s) => Single(s)' /\ ProjectionMoves(s)
    <3> SUFFICES ASSUME Single(s) PROVE Single(s)' /\ ProjectionMoves(s)  OBVIOUS
    <3> USE DEF Single, HoldKnown, Control, CallOfPc, AmountsOfPc, EndOfPc, Calling, Returned,
                Growing, Failing, SessionObjects, NewFunding, Holds
    <3>1. HoldKnown(s)'  BY DEF ReservedOfPc, Unsettled
    <3>2. ReservedOfPc(s)'  BY DEF ReservedOfPc
    <3>3. Projected(s)'
      BY DEF ReservedOfPc, Unsettled, Projected, SettleProjected, Delta
    <3>4. OpenOfPc(s)'  BY DEF OpenOfPc, ReservedOfPc
    <3>5. ProjectionMoves(s)
      BY DEF ProjectionMoves, InProjection, Closing, Projected, Delta
    <3> QED  BY <3>1, <3>2, <3>3, <3>4, <3>5
  <2> QED
    BY <2>1, <2>4, <2>5, <2>6, FundingGood
<1>11. CASE /\ Delta(s) # 0
            /\ GoOn(s, "undo")
            /\ Fails(s)
            /\ available' = available /\ legacy' = legacy /\ fund' = fund /\ hold' = hold
  <2>1. CallAt(s, "undo", o0.result)
    BY <1>11, GoOnRow DEF Places
  <2>2. /\ LogRow(s) /\ log'[s] # "clean"
        /\ log'[s] = "unrepaired" <=> log[s] = "unrepaired"
    BY <1>4, <1>11, LogMoves
  <2>3. /\ FundRow(s, f0) /\ HoldRow(s, h0) /\ fund'[s] = f0 /\ H(s)' = h0
        /\ op'[s].kind = o0.kind /\ op'[s].amount = o0.amount
        /\ op'[s].cancellable = o0.cancellable
        /\ op'[s].at = "undo" /\ op'[s].result = o0.result
    BY <1>11, <2>1, CallOnly
  <2> USE <1>11, <2>2, <2>3
  <2>4. Control(s)'
    BY DEF Control, CallOfPc, AmountsOfPc, EndOfPc, Calling, Returned, Growth, NoCall, NewFunding
  <2>5. WalletMoves(s)  BY DEF WalletMoves, Taken, TakenFor
  <2>6. Single(s) => Single(s)' /\ ProjectionMoves(s)
    <3> SUFFICES ASSUME Single(s) PROVE Single(s)' /\ ProjectionMoves(s)  OBVIOUS
    <3> USE DEF Single, HoldKnown, Control, CallOfPc, AmountsOfPc, EndOfPc, Calling, Returned,
                Growing, Failing, SessionObjects, NewFunding, Holds
    <3>1. HoldKnown(s)'  BY DEF ReservedOfPc, Unsettled
    <3>2. ReservedOfPc(s)'  BY DEF ReservedOfPc
    <3>3. Projected(s)'
      BY DEF ReservedOfPc, Unsettled, Projected, SettleProjected, Delta
    <3>4. OpenOfPc(s)'  BY DEF OpenOfPc, ReservedOfPc
    <3>5. ProjectionMoves(s)
      BY DEF ProjectionMoves, InProjection, Closing, Projected, Delta
    <3> QED  BY <3>1, <3>2, <3>3, <3>4, <3>5
  <2> QED
    BY <2>1, <2>4, <2>5, <2>6, FundingGood
<1>12. CASE /\ Delta(s) = 0
            /\ Return(s, "error")
            /\ Fails(s)
            /\ available' = available /\ legacy' = legacy /\ fund' = fund /\ hold' = hold
  <2>1. CallAt(s, "returned", "error")
    BY <1>12, ReturnRow DEF Places
  <2>2. /\ LogRow(s) /\ log'[s] # "clean"
        /\ log'[s] = "unrepaired" <=> log[s] = "unrepaired"
    BY <1>4, <1>12, LogMoves
  <2>3. /\ FundRow(s, f0) /\ HoldRow(s, h0) /\ fund'[s] = f0 /\ H(s)' = h0
        /\ op'[s].kind = o0.kind /\ op'[s].amount = o0.amount
        /\ op'[s].cancellable = o0.cancellable
        /\ op'[s].at = "returned" /\ op'[s].result = "error"
    BY <1>12, <2>1, CallOnly
  <2> USE <1>12, <2>2, <2>3
  <2>4. Control(s)'
    BY DEF Control, CallOfPc, AmountsOfPc, EndOfPc, Calling, Returned, Growth, NoCall, NewFunding
  <2>5. WalletMoves(s)  BY DEF WalletMoves, Taken, TakenFor
  <2>6. Single(s) => Single(s)' /\ ProjectionMoves(s)
    <3> SUFFICES ASSUME Single(s) PROVE Single(s)' /\ ProjectionMoves(s)  OBVIOUS
    <3> USE DEF Single, HoldKnown, Control, CallOfPc, AmountsOfPc, EndOfPc, Calling, Returned,
                Growing, Failing, SessionObjects, NewFunding, Holds
    <3>1. HoldKnown(s)'  BY DEF ReservedOfPc, Unsettled
    <3>2. ReservedOfPc(s)'  BY DEF ReservedOfPc
    <3>3. Projected(s)'
      BY DEF ReservedOfPc, Unsettled, Projected, SettleProjected, Delta
    <3>4. OpenOfPc(s)'  BY DEF OpenOfPc, ReservedOfPc
    <3>5. ProjectionMoves(s)
      BY DEF ProjectionMoves, InProjection, Closing, Projected, Delta
    <3> QED  BY <3>1, <3>2, <3>3, <3>4, <3>5
  <2> QED
    BY <2>1, <2>4, <2>5, <2>6, FundingGood
<1>13. \/ /\ h0.status = "open"
          /\ available >= o0.amount - h0.amount
          /\ Return(s, "ok")
          /\ Works
          /\ available' = available - (o0.amount - h0.amount)
          /\ hold' = [hold EXCEPT ![RequestOf[s]] = SettledAt(@, o0.amount, "relay")]
          /\ legacy' = legacy /\ fund' = fund
       \/ /\ h0.status = "settled"
          /\ h0.charged = o0.amount
          /\ Return(s, "ok")
          /\ Works
          /\ available' = available /\ legacy' = legacy /\ fund' = fund /\ hold' = hold
       \/ /\ Delta(s) # 0
          /\ h0.status = "open"
          /\ available < o0.amount - h0.amount
          /\ GoOn(s, "undo")
          /\ Works
          /\ available' = available /\ legacy' = legacy /\ fund' = fund /\ hold' = hold
       \/ /\ Delta(s) = 0
          /\ h0.status = "open"
          /\ available < o0.amount - h0.amount
          /\ Return(s, "error")
          /\ Works
          /\ available' = available /\ legacy' = legacy /\ fund' = fund /\ hold' = hold
       \/ /\ Delta(s) # 0
          /\ h0.status \in {"settled", "released"}
          /\ GoOn(s, "undo")
          /\ Works
          /\ available' = available /\ legacy' = legacy /\ fund' = fund /\ hold' = hold
       \/ /\ Delta(s) = 0
          /\ h0.status \in {"settled", "released"}
          /\ Return(s, "error")
          /\ Works
          /\ available' = available /\ legacy' = legacy /\ fund' = fund /\ hold' = hold
       \/ /\ Delta(s) # 0
          /\ GoOn(s, "undo")
          /\ Fails(s)
          /\ available' = available /\ legacy' = legacy /\ fund' = fund /\ hold' = hold
       \/ /\ Delta(s) = 0
          /\ Return(s, "error")
          /\ Fails(s)
          /\ available' = available /\ legacy' = legacy /\ fund' = fund /\ hold' = hold
  BY DEF SettleHold, HasSettlement, UndoIf, ledgerVars
<1> QED  BY <1>13, <1>5, <1>6, <1>7, <1>8, <1>9, <1>10, <1>11, <1>12

\* settleWithMarketplaceUsage: the projection is restored since the ledger refused.
LEMMA RestoreSettlementGood ==
    ASSUME Types, NEW s \in Sessions, Control(s), RestoreSettlement(s),
           UNCHANGED <<token, sess, pc, crashes>>
    PROVE  GoodStep(s)
<1> DEFINE o0 == op[s]
           f0 == fund[s]
           h0 == H(s)
<1>1. RowTypes(s)  BY RowTypesHold
<1>2. o0.kind = "settle" /\ o0.at = "undo" /\ CallFacts(s)
  BY CallFactsHold DEF RestoreSettlement, In
<1>3. UNCHANGED <<token, sess, pc, credits, earnings>>
  BY DEF RestoreSettlement, walletVars
<1>4. Works \/ Fails(s) \/ FailsForGood(s) \/ Unrepaired(s)
  BY DEF RestoreSettlement
<1> USE <1>1, <1>2, <1>3 DEF RowTypes, CallFacts
<1>g. Delta(s) \in Int  BY DEF Delta
<1>5. CASE /\ Return(s, "error")
           /\ Works
           /\ legacy' = legacy + Delta(s)
           /\ fund' = [fund EXCEPT ![s].legacyHeld = @ - Delta(s)]
           /\ available' = available /\ hold' = hold
  <2> DEFINE f1 == [f0 EXCEPT !.legacyHeld = f0.legacyHeld - Delta(s)]
  <2>1. CallAt(s, "returned", "error")
    BY <1>5, ReturnRow DEF Places
  <2>2. LogRow(s) /\ log'[s] = log[s]
    BY <1>4, <1>5, LogMoves
  <2>3. /\ f1 \in Funds /\ FundRow(s, f1)
        /\ f1.known = f0.known /\ f1.reserved = f0.reserved
        /\ f1.legacyHeld = f0.legacyHeld - Delta(s)
    <3>1. f1 \in Funds  BY <1>5, <1>g DEF Funds
    <3>2. fund' = [fund EXCEPT ![s] = f1]  BY <1>5 DEF Types
    <3>3. /\ f1.known = f0.known /\ f1.reserved = f0.reserved
          /\ f1.legacyHeld = f0.legacyHeld - Delta(s)
      BY DEF Funds
    <3> HIDE DEF f1
    <3> QED  BY <3>1, <3>2, <3>3, FundingRow
  <2>4. h0 \in Holds /\ HoldRow(s, h0)  BY <1>5, SameFundingRows
  <2> HIDE DEF f1
  <2>5. /\ available' \in Nat /\ legacy' \in Int
        /\ fund'[s] = f1 /\ H(s)' = h0
    BY <1>5, <1>g, <2>3, <2>4 DEF FundRow, HoldRow
  <2>6. /\ op'[s].kind = o0.kind /\ op'[s].amount = o0.amount
        /\ op'[s].cancellable = o0.cancellable
        /\ op'[s].at = "returned" /\ op'[s].result = "error"
    BY <2>1 DEF CallAt
  <2> USE <1>5, <2>2, <2>3, <2>4, <2>5, <2>6, <1>g
  <2>7. Control(s)'
    BY DEF Control, CallOfPc, AmountsOfPc, EndOfPc, Calling, Returned, Growth, NoCall, NewFunding
  <2>8. WalletMoves(s)  BY DEF WalletMoves, Taken, TakenFor
  <2>9. Single(s) => Single(s)' /\ ProjectionMoves(s)
    <3> SUFFICES ASSUME Single(s) PROVE Single(s)' /\ ProjectionMoves(s)  OBVIOUS
    <3> USE DEF Single, HoldKnown, Control, CallOfPc, AmountsOfPc, EndOfPc, Calling, Returned,
                Growing, Failing, SessionObjects, NewFunding, Holds
    <3>1. HoldKnown(s)'  BY DEF ReservedOfPc, Unsettled
    <3>2. ReservedOfPc(s)'  BY DEF ReservedOfPc
    <3>3. Projected(s)'
      BY DEF ReservedOfPc, Unsettled, Projected, SettleProjected, Delta
    <3>4. OpenOfPc(s)'  BY DEF OpenOfPc, ReservedOfPc
    <3>5. ProjectionMoves(s)
      BY DEF ProjectionMoves, InProjection, Closing, Projected, Delta
    <3> QED  BY <3>1, <3>2, <3>3, <3>4, <3>5
  <2> QED
    BY <2>1, <2>7, <2>8, <2>9, FundingGood
<1>6. CASE /\ Return(s, "error")
           /\ log'[s] = "unrepaired"
           /\ available' = available /\ legacy' = legacy /\ fund' = fund /\ hold' = hold
  <2>1. CallAt(s, "returned", "error")
    BY <1>6, ReturnRow DEF Places
  <2>2. LogRow(s) /\ log'[s] = "unrepaired"
    BY <1>4, <1>6, LogMoves
  <2>3. /\ FundRow(s, f0) /\ HoldRow(s, h0) /\ fund'[s] = f0 /\ H(s)' = h0
        /\ op'[s].kind = o0.kind /\ op'[s].amount = o0.amount
        /\ op'[s].cancellable = o0.cancellable
        /\ op'[s].at = "returned" /\ op'[s].result = "error"
    BY <1>6, <2>1, CallOnly
  <2> USE <1>6, <2>2, <2>3
  <2>4. Control(s)'
    BY DEF Control, CallOfPc, AmountsOfPc, EndOfPc, Calling, Returned, Growth, NoCall, NewFunding
  <2>5. WalletMoves(s)  BY DEF WalletMoves, Taken, TakenFor
  <2>6. Single(s) => Single(s)' /\ ProjectionMoves(s)
    <3> SUFFICES ASSUME Single(s) PROVE Single(s)' /\ ProjectionMoves(s)  OBVIOUS
    <3> USE DEF Single, HoldKnown, Control, CallOfPc, AmountsOfPc, EndOfPc, Calling, Returned,
                Growing, Failing, SessionObjects, NewFunding, Holds
    <3>1. HoldKnown(s)'  BY DEF ReservedOfPc, Unsettled
    <3>2. ReservedOfPc(s)'  BY DEF ReservedOfPc
    <3>3. Projected(s)'
      BY DEF ReservedOfPc, Unsettled, Projected, SettleProjected, Delta
    <3>4. OpenOfPc(s)'  BY DEF OpenOfPc, ReservedOfPc
    <3>5. ProjectionMoves(s)
      BY DEF ProjectionMoves, InProjection, Closing, Projected, Delta
    <3> QED  BY <3>1, <3>2, <3>3, <3>4, <3>5
  <2> QED
    BY <2>1, <2>4, <2>5, <2>6, FundingGood
<1>7. \/ /\ Return(s, "error")
         /\ Works
         /\ legacy' = legacy + Delta(s)
         /\ fund' = [fund EXCEPT ![s].legacyHeld = @ - Delta(s)]
         /\ available' = available /\ hold' = hold
      \/ /\ Return(s, "error")
         /\ log'[s] = "unrepaired"
         /\ available' = available /\ legacy' = legacy /\ fund' = fund /\ hold' = hold
  BY LogMoves DEF RestoreSettlement, ledgerVars
<1> QED  BY <1>7, <1>5, <1>6

\* Refund: users.claude_quota is given back what the session projected.
LEMMA ProjectRefundGood ==
    ASSUME Types, NEW s \in Sessions, Control(s), ProjectRefund(s),
           UNCHANGED <<token, sess, pc, crashes>>
    PROVE  GoodStep(s)
<1> DEFINE o0 == op[s]
           f0 == fund[s]
           h0 == H(s)
<1>1. RowTypes(s)  BY RowTypesHold
<1>2. o0.kind = "refund" /\ o0.at = "project" /\ CallFacts(s)
  BY CallFactsHold DEF ProjectRefund, In
<1>3. UNCHANGED <<token, sess, pc, credits, earnings>>
  BY DEF ProjectRefund, walletVars
<1>4. Works \/ Fails(s) \/ FailsForGood(s) \/ Unrepaired(s)
  BY DEF ProjectRefund
<1> USE <1>1, <1>2, <1>3 DEF RowTypes, CallFacts
<1>5. CASE /\ GoOn(s, "ledger")
           /\ Works
           /\ legacy' = legacy + f0.legacyHeld
           /\ available' = available /\ fund' = fund /\ hold' = hold
  <2>1. CallAt(s, "ledger", o0.result)
    BY <1>5, GoOnRow DEF Places
  <2>2. LogRow(s) /\ log'[s] = log[s]
    BY <1>4, <1>5, LogMoves
  <2>3. /\ FundRow(s, f0) /\ HoldRow(s, h0) /\ fund'[s] = f0 /\ H(s)' = h0
        /\ op'[s].kind = o0.kind /\ op'[s].amount = o0.amount
        /\ op'[s].cancellable = o0.cancellable
        /\ op'[s].at = "ledger" /\ op'[s].result = o0.result
    BY <1>5, <2>1, CallOnly
  <2>4. legacy' \in Int  BY <1>5
  <2> USE <1>5, <2>2, <2>3, <2>4
  <2>5. Control(s)'
    BY DEF Control, CallOfPc, AmountsOfPc, EndOfPc, Calling, Returned, Growth, NoCall, NewFunding
  <2>6. WalletMoves(s)  BY DEF WalletMoves, Taken, TakenFor
  <2>7. Single(s) => Single(s)' /\ ProjectionMoves(s)
    <3> SUFFICES ASSUME Single(s) PROVE Single(s)' /\ ProjectionMoves(s)  OBVIOUS
    <3> USE DEF Single, HoldKnown, Control, CallOfPc, AmountsOfPc, EndOfPc, Calling, Returned,
                Growing, Failing, SessionObjects, NewFunding, Holds
    <3>1. HoldKnown(s)'  BY DEF ReservedOfPc, Unsettled
    <3>2. ReservedOfPc(s)'  BY DEF ReservedOfPc
    <3>3. Projected(s)'
      BY DEF ReservedOfPc, Unsettled, Projected, SettleProjected, Delta
    <3>4. OpenOfPc(s)'  BY DEF OpenOfPc, ReservedOfPc
    <3>5. ProjectionMoves(s)
      BY DEF ProjectionMoves, InProjection, Closing, Projected, Delta
    <3> QED  BY <3>1, <3>2, <3>3, <3>4, <3>5
  <2> QED
    BY <2>1, <2>5, <2>6, <2>7, FundingGood
<1>6. CASE /\ Return(s, "error")
           /\ Fails(s)
           /\ available' = available /\ legacy' = legacy /\ fund' = fund /\ hold' = hold
  <2>1. CallAt(s, "returned", "error")
    BY <1>6, ReturnRow DEF Places
  <2>2. /\ LogRow(s) /\ log'[s] # "clean"
        /\ log'[s] = "unrepaired" <=> log[s] = "unrepaired"
    BY <1>4, <1>6, LogMoves
  <2>3. /\ FundRow(s, f0) /\ HoldRow(s, h0) /\ fund'[s] = f0 /\ H(s)' = h0
        /\ op'[s].kind = o0.kind /\ op'[s].amount = o0.amount
        /\ op'[s].cancellable = o0.cancellable
        /\ op'[s].at = "returned" /\ op'[s].result = "error"
    BY <1>6, <2>1, CallOnly
  <2> USE <1>6, <2>2, <2>3
  <2>4. Control(s)'
    BY DEF Control, CallOfPc, AmountsOfPc, EndOfPc, Calling, Returned, Growth, NoCall, NewFunding
  <2>5. WalletMoves(s)  BY DEF WalletMoves, Taken, TakenFor
  <2>6. Single(s) => Single(s)' /\ ProjectionMoves(s)
    <3> SUFFICES ASSUME Single(s) PROVE Single(s)' /\ ProjectionMoves(s)  OBVIOUS
    <3> USE DEF Single, HoldKnown, Control, CallOfPc, AmountsOfPc, EndOfPc, Calling, Returned,
                Growing, Failing, SessionObjects, NewFunding, Holds
    <3>1. HoldKnown(s)'  BY DEF ReservedOfPc, Unsettled
    <3>2. ReservedOfPc(s)'  BY DEF ReservedOfPc
    <3>3. Projected(s)'
      BY DEF ReservedOfPc, Unsettled, Projected, SettleProjected, Delta
    <3>4. OpenOfPc(s)'  BY DEF OpenOfPc, ReservedOfPc
    <3>5. ProjectionMoves(s)
      BY DEF ProjectionMoves, InProjection, Closing, Projected, Delta
    <3> QED  BY <3>1, <3>2, <3>3, <3>4, <3>5
  <2> QED
    BY <2>1, <2>4, <2>5, <2>6, FundingGood
<1>7. \/ /\ GoOn(s, "ledger")
         /\ Works
         /\ legacy' = legacy + f0.legacyHeld
         /\ available' = available /\ fund' = fund /\ hold' = hold
      \/ /\ Return(s, "error")
         /\ Fails(s)
         /\ available' = available /\ legacy' = legacy /\ fund' = fund /\ hold' = hold
  BY Zenon DEF ProjectRefund, ledgerVars
<1> QED  BY <1>7, <1>5, <1>6

\* Refund: the ledger releases the hold, or the projection must be restored.
LEMMA ReleaseHoldGood ==
    ASSUME Types, NEW s \in Sessions, Control(s), ReleaseHold(s),
           UNCHANGED <<token, sess, pc, crashes>>
    PROVE  GoodStep(s)
<1> DEFINE o0 == op[s]
           f0 == fund[s]
           h0 == H(s)
<1>1. RowTypes(s)  BY RowTypesHold
<1>2. o0.kind = "refund" /\ o0.at = "ledger" /\ CallFacts(s)
  BY CallFactsHold DEF ReleaseHold, In
<1>3. UNCHANGED <<token, sess, pc, credits, earnings>>
  BY DEF ReleaseHold, walletVars
<1>4. Works \/ Fails(s) \/ FailsForGood(s) \/ Unrepaired(s)
  BY DEF ReleaseHold
<1> USE <1>1, <1>2, <1>3 DEF RowTypes, CallFacts
<1>5. CASE /\ h0.status = "open"
           /\ Return(s, "ok")
           /\ Works
           /\ available' = available + h0.amount
           /\ fund' = [fund EXCEPT ![s].legacyHeld = 0]
           /\ hold' = [hold EXCEPT ![RequestOf[s]].status = "released"]
           /\ legacy' = legacy
  <2> DEFINE h1 == [h0 EXCEPT !.status = "released"]
  <2> DEFINE f1 == [f0 EXCEPT !.legacyHeld = 0]
  <2>1. CallAt(s, "returned", "ok")
    BY <1>5, ReturnRow DEF Places
  <2>2. LogRow(s) /\ log'[s] = log[s]
    BY <1>4, <1>5, LogMoves
  <2>3. /\ f1 \in Funds /\ FundRow(s, f1)
        /\ f1.known = f0.known /\ f1.reserved = f0.reserved
        /\ f1.legacyHeld = 0
    <3>1. f1 \in Funds  BY <1>5 DEF Funds
    <3>2. fund' = [fund EXCEPT ![s] = f1]  BY <1>5 DEF Types
    <3>3. /\ f1.known = f0.known /\ f1.reserved = f0.reserved
          /\ f1.legacyHeld = 0
      BY DEF Funds
    <3> HIDE DEF f1
    <3> QED  BY <3>1, <3>2, <3>3, FundingRow
  <2>4. /\ h1 \in Holds /\ HoldRow(s, h1)
        /\ h1.status = "released" /\ h1.amount = h0.amount /\ h1.increases = h0.increases
    <3>1. /\ h1 \in Holds
          /\ h1.status = "released" /\ h1.amount = h0.amount /\ h1.increases = h0.increases
      BY <1>5 DEF Holds
    <3>2. hold' = [hold EXCEPT ![RequestOf[s]] = h1]  BY <1>5, FundingAssumption DEF Types, H
    <3> HIDE DEF h1
    <3> QED  BY <3>1, <3>2, ReservationRow
  <2> HIDE DEF f1, h1
  <2>5. /\ available' \in Nat /\ legacy' \in Int
        /\ fund'[s] = f1 /\ H(s)' = h1
    BY <1>5, <2>3, <2>4 DEF FundRow, HoldRow
  <2>6. /\ op'[s].kind = o0.kind /\ op'[s].amount = o0.amount
        /\ op'[s].cancellable = o0.cancellable
        /\ op'[s].at = "returned" /\ op'[s].result = "ok"
    BY <2>1 DEF CallAt
  <2> USE <1>5, <2>2, <2>3, <2>4, <2>5, <2>6
  <2>7. Control(s)'
    BY DEF Control, CallOfPc, AmountsOfPc, EndOfPc, Calling, Returned, Growth, NoCall, NewFunding
  <2>8. WalletMoves(s)  BY DEF WalletMoves, Taken, TakenFor
  <2>9. Single(s) => Single(s)' /\ ProjectionMoves(s)
    <3> SUFFICES ASSUME Single(s) PROVE Single(s)' /\ ProjectionMoves(s)  OBVIOUS
    <3> USE DEF Single, HoldKnown, Control, CallOfPc, AmountsOfPc, EndOfPc, Calling, Returned,
                Growing, Failing, SessionObjects, NewFunding, Holds
    <3>1. HoldKnown(s)'  BY DEF ReservedOfPc, Unsettled
    <3>2. ReservedOfPc(s)'  BY DEF ReservedOfPc
    <3>3. Projected(s)'
      BY DEF ReservedOfPc, Unsettled, Projected, SettleProjected, Delta
    <3>4. OpenOfPc(s)'  BY DEF OpenOfPc, ReservedOfPc
    <3>5. ProjectionMoves(s)
      BY DEF ProjectionMoves, InProjection, Closing, Projected, Delta
    <3> QED  BY <3>1, <3>2, <3>3, <3>4, <3>5
  <2>10. /\ h0.status \in {"settled", "released"} => h1 = h0
         /\ h1.status = "settled" /\ h0.status # "settled" =>
              /\ h1.charged <= sess[s].used /\ h1.charged = o0.amount /\ f1.known
              /\ o0.kind = "settle"
         /\ o0.kind = "refund" => h1.status = "released"
    BY DEF Control, CallOfPc
  <2> QED
    BY <2>1, <2>7, <2>8, <2>9, <2>10, FundingGood
<1>6. CASE /\ h0.status = "released"
           /\ Return(s, "ok")
           /\ Works
           /\ fund' = [fund EXCEPT ![s].legacyHeld = 0]
           /\ available' = available /\ legacy' = legacy /\ hold' = hold
  <2> DEFINE f1 == [f0 EXCEPT !.legacyHeld = 0]
  <2>1. CallAt(s, "returned", "ok")
    BY <1>6, ReturnRow DEF Places
  <2>2. LogRow(s) /\ log'[s] = log[s]
    BY <1>4, <1>6, LogMoves
  <2>3. /\ f1 \in Funds /\ FundRow(s, f1)
        /\ f1.known = f0.known /\ f1.reserved = f0.reserved
        /\ f1.legacyHeld = 0
    <3>1. f1 \in Funds  BY <1>6 DEF Funds
    <3>2. fund' = [fund EXCEPT ![s] = f1]  BY <1>6 DEF Types
    <3>3. /\ f1.known = f0.known /\ f1.reserved = f0.reserved
          /\ f1.legacyHeld = 0
      BY DEF Funds
    <3> HIDE DEF f1
    <3> QED  BY <3>1, <3>2, <3>3, FundingRow
  <2>4. h0 \in Holds /\ HoldRow(s, h0)  BY <1>6, SameFundingRows
  <2> HIDE DEF f1
  <2>5. /\ available' \in Nat /\ legacy' \in Int
        /\ fund'[s] = f1 /\ H(s)' = h0
    BY <1>6, <2>3, <2>4 DEF FundRow, HoldRow
  <2>6. /\ op'[s].kind = o0.kind /\ op'[s].amount = o0.amount
        /\ op'[s].cancellable = o0.cancellable
        /\ op'[s].at = "returned" /\ op'[s].result = "ok"
    BY <2>1 DEF CallAt
  <2> USE <1>6, <2>2, <2>3, <2>4, <2>5, <2>6
  <2>7. Control(s)'
    BY DEF Control, CallOfPc, AmountsOfPc, EndOfPc, Calling, Returned, Growth, NoCall, NewFunding
  <2>8. WalletMoves(s)  BY DEF WalletMoves, Taken, TakenFor
  <2>9. Single(s) => Single(s)' /\ ProjectionMoves(s)
    <3> SUFFICES ASSUME Single(s) PROVE Single(s)' /\ ProjectionMoves(s)  OBVIOUS
    <3> USE DEF Single, HoldKnown, Control, CallOfPc, AmountsOfPc, EndOfPc, Calling, Returned,
                Growing, Failing, SessionObjects, NewFunding, Holds
    <3>1. HoldKnown(s)'  BY DEF ReservedOfPc, Unsettled
    <3>2. ReservedOfPc(s)'  BY DEF ReservedOfPc
    <3>3. Projected(s)'
      BY DEF ReservedOfPc, Unsettled, Projected, SettleProjected, Delta
    <3>4. OpenOfPc(s)'  BY DEF OpenOfPc, ReservedOfPc
    <3>5. ProjectionMoves(s)
      BY DEF ProjectionMoves, InProjection, Closing, Projected, Delta
    <3> QED  BY <3>1, <3>2, <3>3, <3>4, <3>5
  <2>10. /\ o0.kind = "refund" => h0.status = "released"
    BY DEF Control, CallOfPc
  <2> QED
    BY <2>1, <2>7, <2>8, <2>9, <2>10, FundingGood
<1>7. CASE /\ h0.status = "settled"
           /\ f0.legacyHeld > 0
           /\ GoOn(s, "undo")
           /\ Works
           /\ available' = available /\ legacy' = legacy /\ fund' = fund /\ hold' = hold
  <2>1. CallAt(s, "undo", o0.result)
    BY <1>7, GoOnRow DEF Places
  <2>2. LogRow(s) /\ log'[s] = log[s]
    BY <1>4, <1>7, LogMoves
  <2>3. /\ FundRow(s, f0) /\ HoldRow(s, h0) /\ fund'[s] = f0 /\ H(s)' = h0
        /\ op'[s].kind = o0.kind /\ op'[s].amount = o0.amount
        /\ op'[s].cancellable = o0.cancellable
        /\ op'[s].at = "undo" /\ op'[s].result = o0.result
    BY <1>7, <2>1, CallOnly
  <2> USE <1>7, <2>2, <2>3
  <2>4. Control(s)'
    BY DEF Control, CallOfPc, AmountsOfPc, EndOfPc, Calling, Returned, Growth, NoCall, NewFunding
  <2>5. WalletMoves(s)  BY DEF WalletMoves, Taken, TakenFor
  <2>6. Single(s) => Single(s)' /\ ProjectionMoves(s)
    <3> SUFFICES ASSUME Single(s) PROVE Single(s)' /\ ProjectionMoves(s)  OBVIOUS
    <3> USE DEF Single, HoldKnown, Control, CallOfPc, AmountsOfPc, EndOfPc, Calling, Returned,
                Growing, Failing, SessionObjects, NewFunding, Holds
    <3>1. HoldKnown(s)'  BY DEF ReservedOfPc, Unsettled
    <3>2. ReservedOfPc(s)'  BY DEF ReservedOfPc
    <3>3. Projected(s)'
      BY DEF ReservedOfPc, Unsettled, Projected, SettleProjected, Delta
    <3>4. OpenOfPc(s)'  BY DEF OpenOfPc, ReservedOfPc
    <3>5. ProjectionMoves(s)
      BY DEF ProjectionMoves, InProjection, Closing, Projected, Delta
    <3> QED  BY <3>1, <3>2, <3>3, <3>4, <3>5
  <2> QED
    BY <2>1, <2>4, <2>5, <2>6, FundingGood
<1>8. CASE /\ h0.status = "settled"
           /\ f0.legacyHeld <= 0
           /\ Return(s, "error")
           /\ Works
           /\ available' = available /\ legacy' = legacy /\ fund' = fund /\ hold' = hold
  <2>1. CallAt(s, "returned", "error")
    BY <1>8, ReturnRow DEF Places
  <2>2. LogRow(s) /\ log'[s] = log[s]
    BY <1>4, <1>8, LogMoves
  <2>3. /\ FundRow(s, f0) /\ HoldRow(s, h0) /\ fund'[s] = f0 /\ H(s)' = h0
        /\ op'[s].kind = o0.kind /\ op'[s].amount = o0.amount
        /\ op'[s].cancellable = o0.cancellable
        /\ op'[s].at = "returned" /\ op'[s].result = "error"
    BY <1>8, <2>1, CallOnly
  <2> USE <1>8, <2>2, <2>3
  <2>4. Control(s)'
    BY DEF Control, CallOfPc, AmountsOfPc, EndOfPc, Calling, Returned, Growth, NoCall, NewFunding
  <2>5. WalletMoves(s)  BY DEF WalletMoves, Taken, TakenFor
  <2>6. Single(s) => Single(s)' /\ ProjectionMoves(s)
    <3> SUFFICES ASSUME Single(s) PROVE Single(s)' /\ ProjectionMoves(s)  OBVIOUS
    <3> USE DEF Single, HoldKnown, Control, CallOfPc, AmountsOfPc, EndOfPc, Calling, Returned,
                Growing, Failing, SessionObjects, NewFunding, Holds
    <3>1. HoldKnown(s)'  BY DEF ReservedOfPc, Unsettled
    <3>2. ReservedOfPc(s)'  BY DEF ReservedOfPc
    <3>3. Projected(s)'
      BY DEF ReservedOfPc, Unsettled, Projected, SettleProjected, Delta
    <3>4. OpenOfPc(s)'  BY DEF OpenOfPc, ReservedOfPc
    <3>5. ProjectionMoves(s)
      BY DEF ProjectionMoves, InProjection, Closing, Projected, Delta
    <3> QED  BY <3>1, <3>2, <3>3, <3>4, <3>5
  <2> QED
    BY <2>1, <2>4, <2>5, <2>6, FundingGood
<1>9. CASE /\ f0.legacyHeld > 0
           /\ GoOn(s, "undo")
           /\ Fails(s)
           /\ available' = available /\ legacy' = legacy /\ fund' = fund /\ hold' = hold
  <2>1. CallAt(s, "undo", o0.result)
    BY <1>9, GoOnRow DEF Places
  <2>2. /\ LogRow(s) /\ log'[s] # "clean"
        /\ log'[s] = "unrepaired" <=> log[s] = "unrepaired"
    BY <1>4, <1>9, LogMoves
  <2>3. /\ FundRow(s, f0) /\ HoldRow(s, h0) /\ fund'[s] = f0 /\ H(s)' = h0
        /\ op'[s].kind = o0.kind /\ op'[s].amount = o0.amount
        /\ op'[s].cancellable = o0.cancellable
        /\ op'[s].at = "undo" /\ op'[s].result = o0.result
    BY <1>9, <2>1, CallOnly
  <2> USE <1>9, <2>2, <2>3
  <2>4. Control(s)'
    BY DEF Control, CallOfPc, AmountsOfPc, EndOfPc, Calling, Returned, Growth, NoCall, NewFunding
  <2>5. WalletMoves(s)  BY DEF WalletMoves, Taken, TakenFor
  <2>6. Single(s) => Single(s)' /\ ProjectionMoves(s)
    <3> SUFFICES ASSUME Single(s) PROVE Single(s)' /\ ProjectionMoves(s)  OBVIOUS
    <3> USE DEF Single, HoldKnown, Control, CallOfPc, AmountsOfPc, EndOfPc, Calling, Returned,
                Growing, Failing, SessionObjects, NewFunding, Holds
    <3>1. HoldKnown(s)'  BY DEF ReservedOfPc, Unsettled
    <3>2. ReservedOfPc(s)'  BY DEF ReservedOfPc
    <3>3. Projected(s)'
      BY DEF ReservedOfPc, Unsettled, Projected, SettleProjected, Delta
    <3>4. OpenOfPc(s)'  BY DEF OpenOfPc, ReservedOfPc
    <3>5. ProjectionMoves(s)
      BY DEF ProjectionMoves, InProjection, Closing, Projected, Delta
    <3> QED  BY <3>1, <3>2, <3>3, <3>4, <3>5
  <2> QED
    BY <2>1, <2>4, <2>5, <2>6, FundingGood
<1>10. CASE /\ f0.legacyHeld <= 0
            /\ Return(s, "error")
            /\ Fails(s)
            /\ available' = available /\ legacy' = legacy /\ fund' = fund /\ hold' = hold
  <2>1. CallAt(s, "returned", "error")
    BY <1>10, ReturnRow DEF Places
  <2>2. /\ LogRow(s) /\ log'[s] # "clean"
        /\ log'[s] = "unrepaired" <=> log[s] = "unrepaired"
    BY <1>4, <1>10, LogMoves
  <2>3. /\ FundRow(s, f0) /\ HoldRow(s, h0) /\ fund'[s] = f0 /\ H(s)' = h0
        /\ op'[s].kind = o0.kind /\ op'[s].amount = o0.amount
        /\ op'[s].cancellable = o0.cancellable
        /\ op'[s].at = "returned" /\ op'[s].result = "error"
    BY <1>10, <2>1, CallOnly
  <2> USE <1>10, <2>2, <2>3
  <2>4. Control(s)'
    BY DEF Control, CallOfPc, AmountsOfPc, EndOfPc, Calling, Returned, Growth, NoCall, NewFunding
  <2>5. WalletMoves(s)  BY DEF WalletMoves, Taken, TakenFor
  <2>6. Single(s) => Single(s)' /\ ProjectionMoves(s)
    <3> SUFFICES ASSUME Single(s) PROVE Single(s)' /\ ProjectionMoves(s)  OBVIOUS
    <3> USE DEF Single, HoldKnown, Control, CallOfPc, AmountsOfPc, EndOfPc, Calling, Returned,
                Growing, Failing, SessionObjects, NewFunding, Holds
    <3>1. HoldKnown(s)'  BY DEF ReservedOfPc, Unsettled
    <3>2. ReservedOfPc(s)'  BY DEF ReservedOfPc
    <3>3. Projected(s)'
      BY DEF ReservedOfPc, Unsettled, Projected, SettleProjected, Delta
    <3>4. OpenOfPc(s)'  BY DEF OpenOfPc, ReservedOfPc
    <3>5. ProjectionMoves(s)
      BY DEF ProjectionMoves, InProjection, Closing, Projected, Delta
    <3> QED  BY <3>1, <3>2, <3>3, <3>4, <3>5
  <2> QED
    BY <2>1, <2>4, <2>5, <2>6, FundingGood
<1>11. \/ /\ h0.status = "open"
          /\ Return(s, "ok")
          /\ Works
          /\ available' = available + h0.amount
          /\ fund' = [fund EXCEPT ![s].legacyHeld = 0]
          /\ hold' = [hold EXCEPT ![RequestOf[s]].status = "released"]
          /\ legacy' = legacy
       \/ /\ h0.status = "released"
          /\ Return(s, "ok")
          /\ Works
          /\ fund' = [fund EXCEPT ![s].legacyHeld = 0]
          /\ available' = available /\ legacy' = legacy /\ hold' = hold
       \/ /\ h0.status = "settled"
          /\ f0.legacyHeld > 0
          /\ GoOn(s, "undo")
          /\ Works
          /\ available' = available /\ legacy' = legacy /\ fund' = fund /\ hold' = hold
       \/ /\ h0.status = "settled"
          /\ f0.legacyHeld <= 0
          /\ Return(s, "error")
          /\ Works
          /\ available' = available /\ legacy' = legacy /\ fund' = fund /\ hold' = hold
       \/ /\ f0.legacyHeld > 0
          /\ GoOn(s, "undo")
          /\ Fails(s)
          /\ available' = available /\ legacy' = legacy /\ fund' = fund /\ hold' = hold
       \/ /\ f0.legacyHeld <= 0
          /\ Return(s, "error")
          /\ Fails(s)
          /\ available' = available /\ legacy' = legacy /\ fund' = fund /\ hold' = hold
  BY DEF ReleaseHold, Release, UndoIf, ledgerVars
<1> QED  BY <1>11, <1>5, <1>6, <1>7, <1>8, <1>9, <1>10

\* Refund: the projection is restored since the ledger refused.
LEMMA RestoreRefundGood ==
    ASSUME Types, NEW s \in Sessions, Control(s), RestoreRefund(s),
           UNCHANGED <<token, sess, pc, crashes>>
    PROVE  GoodStep(s)
<1> DEFINE o0 == op[s]
           f0 == fund[s]
           h0 == H(s)
<1>1. RowTypes(s)  BY RowTypesHold
<1>2. o0.kind = "refund" /\ o0.at = "undo" /\ CallFacts(s)
  BY CallFactsHold DEF RestoreRefund, In
<1>3. UNCHANGED <<token, sess, pc, credits, earnings>>
  BY DEF RestoreRefund, walletVars
<1>4. Works \/ Fails(s) \/ FailsForGood(s) \/ Unrepaired(s)
  BY DEF RestoreRefund
<1> USE <1>1, <1>2, <1>3 DEF RowTypes, CallFacts
<1>5. CASE /\ Return(s, "error")
           /\ Works
           /\ legacy' = legacy - f0.legacyHeld
           /\ available' = available /\ fund' = fund /\ hold' = hold
  <2>1. CallAt(s, "returned", "error")
    BY <1>5, ReturnRow DEF Places
  <2>2. LogRow(s) /\ log'[s] = log[s]
    BY <1>4, <1>5, LogMoves
  <2>3. /\ FundRow(s, f0) /\ HoldRow(s, h0) /\ fund'[s] = f0 /\ H(s)' = h0
        /\ op'[s].kind = o0.kind /\ op'[s].amount = o0.amount
        /\ op'[s].cancellable = o0.cancellable
        /\ op'[s].at = "returned" /\ op'[s].result = "error"
    BY <1>5, <2>1, CallOnly
  <2>4. legacy' \in Int  BY <1>5
  <2> USE <1>5, <2>2, <2>3, <2>4
  <2>5. Control(s)'
    BY DEF Control, CallOfPc, AmountsOfPc, EndOfPc, Calling, Returned, Growth, NoCall, NewFunding
  <2>6. WalletMoves(s)  BY DEF WalletMoves, Taken, TakenFor
  <2>7. Single(s) => Single(s)' /\ ProjectionMoves(s)
    <3> SUFFICES ASSUME Single(s) PROVE Single(s)' /\ ProjectionMoves(s)  OBVIOUS
    <3> USE DEF Single, HoldKnown, Control, CallOfPc, AmountsOfPc, EndOfPc, Calling, Returned,
                Growing, Failing, SessionObjects, NewFunding, Holds
    <3>1. HoldKnown(s)'  BY DEF ReservedOfPc, Unsettled
    <3>2. ReservedOfPc(s)'  BY DEF ReservedOfPc
    <3>3. Projected(s)'
      BY DEF ReservedOfPc, Unsettled, Projected, SettleProjected, Delta
    <3>4. OpenOfPc(s)'  BY DEF OpenOfPc, ReservedOfPc
    <3>5. ProjectionMoves(s)
      BY DEF ProjectionMoves, InProjection, Closing, Projected, Delta
    <3> QED  BY <3>1, <3>2, <3>3, <3>4, <3>5
  <2> QED
    BY <2>1, <2>5, <2>6, <2>7, FundingGood
<1>6. CASE /\ Return(s, "error")
           /\ log'[s] = "unrepaired"
           /\ available' = available /\ legacy' = legacy /\ fund' = fund /\ hold' = hold
  <2>1. CallAt(s, "returned", "error")
    BY <1>6, ReturnRow DEF Places
  <2>2. LogRow(s) /\ log'[s] = "unrepaired"
    BY <1>4, <1>6, LogMoves
  <2>3. /\ FundRow(s, f0) /\ HoldRow(s, h0) /\ fund'[s] = f0 /\ H(s)' = h0
        /\ op'[s].kind = o0.kind /\ op'[s].amount = o0.amount
        /\ op'[s].cancellable = o0.cancellable
        /\ op'[s].at = "returned" /\ op'[s].result = "error"
    BY <1>6, <2>1, CallOnly
  <2> USE <1>6, <2>2, <2>3
  <2>4. Control(s)'
    BY DEF Control, CallOfPc, AmountsOfPc, EndOfPc, Calling, Returned, Growth, NoCall, NewFunding
  <2>5. WalletMoves(s)  BY DEF WalletMoves, Taken, TakenFor
  <2>6. Single(s) => Single(s)' /\ ProjectionMoves(s)
    <3> SUFFICES ASSUME Single(s) PROVE Single(s)' /\ ProjectionMoves(s)  OBVIOUS
    <3> USE DEF Single, HoldKnown, Control, CallOfPc, AmountsOfPc, EndOfPc, Calling, Returned,
                Growing, Failing, SessionObjects, NewFunding, Holds
    <3>1. HoldKnown(s)'  BY DEF ReservedOfPc, Unsettled
    <3>2. ReservedOfPc(s)'  BY DEF ReservedOfPc
    <3>3. Projected(s)'
      BY DEF ReservedOfPc, Unsettled, Projected, SettleProjected, Delta
    <3>4. OpenOfPc(s)'  BY DEF OpenOfPc, ReservedOfPc
    <3>5. ProjectionMoves(s)
      BY DEF ProjectionMoves, InProjection, Closing, Projected, Delta
    <3> QED  BY <3>1, <3>2, <3>3, <3>4, <3>5
  <2> QED
    BY <2>1, <2>4, <2>5, <2>6, FundingGood
<1>7. \/ /\ Return(s, "error")
         /\ Works
         /\ legacy' = legacy - f0.legacyHeld
         /\ available' = available /\ fund' = fund /\ hold' = hold
      \/ /\ Return(s, "error")
         /\ log'[s] = "unrepaired"
         /\ available' = available /\ legacy' = legacy /\ fund' = fund /\ hold' = hold
  BY LogMoves DEF RestoreRefund, ledgerVars
<1> QED  BY <1>7, <1>5, <1>6

\* The call waits for its turn in the instance's queue.
LEMMA WaitTurnGood ==
    ASSUME Types, NEW s \in Sessions, Control(s), WaitTurn(s),
           UNCHANGED <<token, sess, pc, crashes>>
    PROVE  GoodStep(s)
<1> DEFINE o0 == op[s]
           f0 == fund[s]
           h0 == H(s)
<1>1. RowTypes(s)  BY RowTypesHold
<1>2. o0.at = "wait" /\ CallFacts(s)
  BY CallFactsHold DEF WaitTurn, In
<1>3. UNCHANGED <<token, sess, pc, credits, earnings>>
  BY DEF WaitTurn, walletVars
<1>4. Works \/ Fails(s) \/ FailsForGood(s) \/ Unrepaired(s)
  BY DEF WaitTurn
<1> USE <1>1, <1>2, <1>3 DEF RowTypes, CallFacts
<1>g. /\ FirstStep(s) \in {"find", "ledger", "project"}
      /\ FirstStep(s) = "find" <=> o0.kind \in {"reserve", "settle"}
      /\ o0.kind = "increase" => FirstStep(s) = "ledger"
      /\ o0.kind = "refund" => FirstStep(s) = (IF f0.legacyHeld > 0 THEN "project" ELSE "ledger")
  BY DEF FirstStep, Calls4
<1>5. CASE /\ FirstStep(s) \in {"find", "ledger", "project"}
           /\ f0.known \/ o0.kind = "reserve"
           /\ turn' = [turn EXCEPT ![InstanceOf[s]] = s]
           /\ op' = [op EXCEPT ![s].at = FirstStep(s)]
           /\ Works
           /\ available' = available /\ legacy' = legacy /\ fund' = fund /\ hold' = hold
  <2>1. CallAt(s, FirstStep(s), o0.result)
    <3>1. turn' \in [Instances -> Sessions \cup {NoSession}]  BY <1>5 DEF Types
    <3>2. FirstStep(s) \in Places  BY <1>5 DEF Places
    <3> QED  BY <1>5, <3>1, <3>2, OpMoves DEF CallAt
  <2>2. LogRow(s) /\ log'[s] = log[s]
    BY <1>4, <1>5, LogMoves
  <2>3. UNCHANGED <<hold, fund>>  BY <1>5
  <2>4. /\ FundRow(s, f0) /\ HoldRow(s, h0) /\ fund'[s] = f0 /\ H(s)' = h0
        /\ op'[s].kind = o0.kind /\ op'[s].amount = o0.amount
        /\ op'[s].cancellable = o0.cancellable
        /\ op'[s].at = FirstStep(s) /\ op'[s].result = o0.result
    BY <2>3, <2>1, CallOnly
  <2> USE <1>5, <2>2, <2>4, <1>g
  <2>5. Control(s)'
    BY DEF Control, CallOfPc, AmountsOfPc, EndOfPc, Calling, Returned, Growth, NoCall, NewFunding
  <2>6. WalletMoves(s)  BY DEF WalletMoves, Taken, TakenFor
  <2>7. Single(s) => Single(s)' /\ ProjectionMoves(s)
    <3> SUFFICES ASSUME Single(s) PROVE Single(s)' /\ ProjectionMoves(s)  OBVIOUS
    <3> USE DEF Single, HoldKnown, Control, CallOfPc, AmountsOfPc, EndOfPc, Calling, Returned,
                Growing, Failing, SessionObjects, NewFunding, Holds
    <3>1. HoldKnown(s)'  BY DEF ReservedOfPc, Unsettled
    <3>2. ReservedOfPc(s)'  BY DEF ReservedOfPc
    <3>3. Projected(s)'
      BY DEF ReservedOfPc, Unsettled, Projected, SettleProjected, Delta
    <3>4. OpenOfPc(s)'  BY DEF OpenOfPc, ReservedOfPc
    <3>5. ProjectionMoves(s)
      BY DEF ProjectionMoves, InProjection, Closing, Projected, Delta
    <3> QED  BY <3>1, <3>2, <3>3, <3>4, <3>5
  <2> QED
    BY <2>1, <2>5, <2>6, <2>7, FundingGood
<1>6. CASE /\ o0.kind = "refund"
           /\ ~f0.known
           /\ Return(s, "ok")
           /\ Works
           /\ available' = available /\ legacy' = legacy /\ fund' = fund /\ hold' = hold
  <2>1. CallAt(s, "returned", "ok")
    BY <1>6, ReturnRow DEF Places
  <2>2. LogRow(s) /\ log'[s] = log[s]
    BY <1>4, <1>6, LogMoves
  <2>3. /\ FundRow(s, f0) /\ HoldRow(s, h0) /\ fund'[s] = f0 /\ H(s)' = h0
        /\ op'[s].kind = o0.kind /\ op'[s].amount = o0.amount
        /\ op'[s].cancellable = o0.cancellable
        /\ op'[s].at = "returned" /\ op'[s].result = "ok"
    BY <1>6, <2>1, CallOnly
  <2> USE <1>6, <2>2, <2>3
  <2>4. Control(s)'
    BY DEF Control, CallOfPc, AmountsOfPc, EndOfPc, Calling, Returned, Growth, NoCall, NewFunding
  <2>5. WalletMoves(s)  BY DEF WalletMoves, Taken, TakenFor
  <2>6. Single(s) => Single(s)' /\ ProjectionMoves(s)
    <3> SUFFICES ASSUME Single(s) PROVE Single(s)' /\ ProjectionMoves(s)  OBVIOUS
    <3> USE DEF Single, HoldKnown, Control, CallOfPc, AmountsOfPc, EndOfPc, Calling, Returned,
                Growing, Failing, SessionObjects, NewFunding, Holds
    <3>1. HoldKnown(s)'  BY DEF ReservedOfPc, Unsettled
    <3>2. ReservedOfPc(s)'  BY DEF ReservedOfPc
    <3>3. Projected(s)'
      BY DEF ReservedOfPc, Unsettled, Projected, SettleProjected, Delta
    <3>4. OpenOfPc(s)'  BY DEF OpenOfPc, ReservedOfPc
    <3>5. ProjectionMoves(s)
      BY DEF ProjectionMoves, InProjection, Closing, Projected, Delta
    <3> QED  BY <3>1, <3>2, <3>3, <3>4, <3>5
  <2> QED
    BY <2>1, <2>4, <2>5, <2>6, FundingGood
<1>7. CASE /\ o0.kind \notin {"reserve", "refund"}
           /\ ~f0.known
           /\ Return(s, "error")
           /\ Works
           /\ available' = available /\ legacy' = legacy /\ fund' = fund /\ hold' = hold
  <2>1. CallAt(s, "returned", "error")
    BY <1>7, ReturnRow DEF Places
  <2>2. LogRow(s) /\ log'[s] = log[s]
    BY <1>4, <1>7, LogMoves
  <2>3. /\ FundRow(s, f0) /\ HoldRow(s, h0) /\ fund'[s] = f0 /\ H(s)' = h0
        /\ op'[s].kind = o0.kind /\ op'[s].amount = o0.amount
        /\ op'[s].cancellable = o0.cancellable
        /\ op'[s].at = "returned" /\ op'[s].result = "error"
    BY <1>7, <2>1, CallOnly
  <2> USE <1>7, <2>2, <2>3
  <2>4. Control(s)'
    BY DEF Control, CallOfPc, AmountsOfPc, EndOfPc, Calling, Returned, Growth, NoCall, NewFunding
  <2>5. WalletMoves(s)  BY DEF WalletMoves, Taken, TakenFor
  <2>6. Single(s) => Single(s)' /\ ProjectionMoves(s)
    <3> SUFFICES ASSUME Single(s) PROVE Single(s)' /\ ProjectionMoves(s)  OBVIOUS
    <3> USE DEF Single, HoldKnown, Control, CallOfPc, AmountsOfPc, EndOfPc, Calling, Returned,
                Growing, Failing, SessionObjects, NewFunding, Holds
    <3>1. HoldKnown(s)'  BY DEF ReservedOfPc, Unsettled
    <3>2. ReservedOfPc(s)'  BY DEF ReservedOfPc
    <3>3. Projected(s)'
      BY DEF ReservedOfPc, Unsettled, Projected, SettleProjected, Delta
    <3>4. OpenOfPc(s)'  BY DEF OpenOfPc, ReservedOfPc
    <3>5. ProjectionMoves(s)
      BY DEF ProjectionMoves, InProjection, Closing, Projected, Delta
    <3> QED  BY <3>1, <3>2, <3>3, <3>4, <3>5
  <2> QED
    BY <2>1, <2>4, <2>5, <2>6, FundingGood
<1>8. \/ /\ FirstStep(s) \in {"find", "ledger", "project"}
         /\ f0.known \/ o0.kind = "reserve"
         /\ turn' = [turn EXCEPT ![InstanceOf[s]] = s]
         /\ op' = [op EXCEPT ![s].at = FirstStep(s)]
         /\ Works
         /\ available' = available /\ legacy' = legacy /\ fund' = fund /\ hold' = hold
      \/ /\ o0.kind = "refund"
         /\ ~f0.known
         /\ Return(s, "ok")
         /\ Works
         /\ available' = available /\ legacy' = legacy /\ fund' = fund /\ hold' = hold
      \/ /\ o0.kind \notin {"reserve", "refund"}
         /\ ~f0.known
         /\ Return(s, "error")
         /\ Works
         /\ available' = available /\ legacy' = legacy /\ fund' = fund /\ hold' = hold
  BY <1>g DEF WaitTurn, walletVars, ledgerVars
<1> QED  BY <1>8, <1>5, <1>6, <1>7

\* A call whose request was cancelled leaves the queue.
LEMMA InterruptGood ==
    ASSUME Types, NEW s \in Sessions, Control(s), Interrupt(s),
           UNCHANGED <<token, sess, pc, crashes>>
    PROVE  GoodStep(s)
<1> DEFINE o0 == op[s]
           f0 == fund[s]
           h0 == H(s)
<1>1. RowTypes(s)  BY RowTypesHold
<1>2. o0.at \in {"wait", "find", "ledger"} /\ CallFacts(s)
  BY CallFactsHold DEF Interrupt, In
<1>3. UNCHANGED <<token, sess, pc, credits, earnings>>
  BY DEF Interrupt, walletVars
<1>4. Works \/ Fails(s) \/ FailsForGood(s) \/ Unrepaired(s)
  BY DEF Interrupt
<1> USE <1>1, <1>2, <1>3 DEF RowTypes, CallFacts
<1>5. CASE /\ o0.cancellable
           /\ turn' = [i \in Instances |-> IF turn[i] = s THEN NoSession ELSE turn[i]]
           /\ op' = [op EXCEPT ![s].at = "returned", ![s].result = "error"]
           /\ Works
           /\ available' = available /\ legacy' = legacy /\ fund' = fund /\ hold' = hold
  <2>1. CallAt(s, "returned", "error")
    <3>1. turn' \in [Instances -> Sessions \cup {NoSession}]  BY <1>5 DEF Types
    <3> QED  BY <1>5, <3>1, OpReturns DEF CallAt
  <2>2. LogRow(s) /\ log'[s] = log[s]
    BY <1>4, <1>5, LogMoves
  <2>3. UNCHANGED <<hold, fund>>  BY <1>5
  <2>4. /\ FundRow(s, f0) /\ HoldRow(s, h0) /\ fund'[s] = f0 /\ H(s)' = h0
        /\ op'[s].kind = o0.kind /\ op'[s].amount = o0.amount
        /\ op'[s].cancellable = o0.cancellable
        /\ op'[s].at = "returned" /\ op'[s].result = "error"
    BY <2>3, <2>1, CallOnly
  <2> USE <1>5, <2>2, <2>4
  <2>5. Control(s)'
    BY DEF Control, CallOfPc, AmountsOfPc, EndOfPc, Calling, Returned, Growth, NoCall, NewFunding
  <2>6. WalletMoves(s)  BY DEF WalletMoves, Taken, TakenFor
  <2>7. Single(s) => Single(s)' /\ ProjectionMoves(s)
    <3> SUFFICES ASSUME Single(s) PROVE Single(s)' /\ ProjectionMoves(s)  OBVIOUS
    <3> USE DEF Single, HoldKnown, Control, CallOfPc, AmountsOfPc, EndOfPc, Calling, Returned,
                Growing, Failing, SessionObjects, NewFunding, Holds
    <3>1. HoldKnown(s)'  BY DEF ReservedOfPc, Unsettled
    <3>2. ReservedOfPc(s)'  BY DEF ReservedOfPc
    <3>3. Projected(s)'
      BY DEF ReservedOfPc, Unsettled, Projected, SettleProjected, Delta
    <3>4. OpenOfPc(s)'  BY DEF OpenOfPc, ReservedOfPc
    <3>5. ProjectionMoves(s)
      BY DEF ProjectionMoves, InProjection, Closing, Projected, Delta
    <3> QED  BY <3>1, <3>2, <3>3, <3>4, <3>5
  <2> QED
    BY <2>1, <2>5, <2>6, <2>7, FundingGood
<1>6. \/ /\ o0.cancellable
         /\ turn' = [i \in Instances |-> IF turn[i] = s THEN NoSession ELSE turn[i]]
         /\ op' = [op EXCEPT ![s].at = "returned", ![s].result = "error"]
         /\ Works
         /\ available' = available /\ legacy' = legacy /\ fund' = fund /\ hold' = hold
  BY DEF Interrupt, Interrupted, walletVars, ledgerVars
<1> QED  BY <1>6, <1>5

-----------------------------------------------------------------------------
(***************************************************************************)
(* A step of the system keeps what is known of every session.              *)
(***************************************************************************)
LEMMA StepGood ==
    ASSUME Types, NEW s \in Sessions, Control(s), Step(s)
    PROVE  GoodStep(s)
<1>1. ASSUME NEW q \in 0..MaxAmount, Open(s, q) \/ Reserve(s, q) \/ Settle(s, q)
      PROVE  GoodStep(s)
  BY <1>1, OpenGood, ReserveGood, SettleGood
<1>2. CASE PreConsumeToken(s) \/ Join(s) \/ ReservedRefunded(s) \/ ReturnToken(s)
  BY <1>2, PreConsumeTokenGood, JoinGood, ReservedRefundedGood, ReturnTokenGood
<1>3. CASE ReserveToken(s) \/ ReserveFunding(s) \/ ReserveUndo(s)
  BY <1>3, ReserveTokenGood, ReserveFundingGood, ReserveUndoGood
<1>4. CASE HoldGrown(s) \/ ReadBalance(s) \/ FundingSettled(s)
  BY <1>4, HoldGrownGood, ReadBalanceGood, FundingSettledGood
<1>5. CASE SettleToken(s) \/ ReadToken(s) \/ DrainToken(s)
  BY <1>5, SettleTokenGood, ReadTokenGood, DrainTokenGood
<1>6. CASE FailRequest(s) \/ RefundSync(s) \/ RefundFunding(s) \/ RefundToken(s)
  BY <1>6, FailRequestGood, RefundSyncGood, RefundFundingGood, RefundTokenGood
<1>7. CASE FundingStep(s) /\ UNCHANGED <<token, sess, pc, crashes>>
  <2>1. CASE WaitTurn(s) \/ Interrupt(s)  BY <1>7, <2>1, WaitTurnGood, InterruptGood
  <2>2. CASE FindReservation(s) \/ CreateHold(s) \/ IncreaseHold(s)
    BY <1>7, <2>2, FindReservationGood, CreateHoldGood, IncreaseHoldGood
  <2>3. CASE ProjectHold(s) \/ ReleaseUnprojected(s)
    BY <1>7, <2>3, ProjectHoldGood, ReleaseUnprojectedGood
  <2>4. CASE FindSettlement(s) \/ ProjectSettlement(s) \/ SettleHold(s) \/ RestoreSettlement(s)
    BY <1>7, <2>4, FindSettlementGood, ProjectSettlementGood, SettleHoldGood, RestoreSettlementGood
  <2>5. CASE ProjectRefund(s) \/ ReleaseHold(s) \/ RestoreRefund(s)
    BY <1>7, <2>5, ProjectRefundGood, ReleaseHoldGood, RestoreRefundGood
  <2> QED  BY <1>7, <2>1, <2>2, <2>3, <2>4, <2>5 DEF FundingStep
<1> QED  BY <1>1, <1>2, <1>3, <1>4, <1>5, <1>6, <1>7 DEF Step, SessionStep

\* Sessions that do not move keep what is known of them, however their holds end.
LEMMA ControlStays ==
    ASSUME NEW t \in Sessions, Control(t), EndsFinal,
           sess'[t] = sess[t], pc'[t] = pc[t], op'[t] = op[t], fund'[t] = fund[t], log'[t] = log[t]
    PROVE  Control(t)'
<1>1. RequestOf[t] \in Requests  BY FundingAssumption
<1>2. H(t).status \in {"settled", "released"} => H(t)' = H(t)  BY <1>1 DEF EndsFinal, H
<1>3. CallOfPc(t)'  BY DEF Control, CallOfPc, Growth
<1>4. AmountsOfPc(t)'  BY DEF Control, AmountsOfPc
<1>5. EndOfPc(t)'  BY <1>2 DEF Control, EndOfPc, Returned
<1> QED  BY <1>3, <1>4, <1>5 DEF Control

\* A step of one session keeps the invariant of all.
LEMMA StepControl ==
    ASSUME BillingInv, NEW s \in Sessions, Step(s)
    PROVE  BillingInv' /\ GoodStep(s)
<1>1. GoodStep(s)  BY StepGood DEF BillingInv
<1>2. ASSUME NEW t \in Sessions, t # s PROVE Control(t)'
  BY <1>1, <1>2, ControlStays DEF GoodStep, Others, BillingInv
<1> QED  BY <1>1, <1>2 DEF GoodStep, BillingInv

\* The environment and the recovery leave handlers and keys alone.
Rest == UNCHANGED <<sess, pc, op, fund, log, token>>

\* What no session does - payments, disconnects, stuttering - keeps it too.
LEMMA RestControl ==
    ASSUME BillingInv, Rest, EndsFinal, Types'
    PROVE  BillingInv'
<1>1. ASSUME NEW t \in Sessions PROVE Control(t)'
  BY ControlStays DEF Rest, BillingInv
<1> QED  BY <1>1 DEF BillingInv

LEMMA PaymentRest ==
    ASSUME BillingInv, TopUp \/ CreditEarnings \/ (\E s \in Sessions : Disconnect(s)),
           UNCHANGED <<token, sess, pc, crashes>>
    PROVE  Rest /\ UNCHANGED hold /\ BillingInv'
<1>1. Rest /\ UNCHANGED hold
  BY DEF TopUp, CreditEarnings, Disconnect, Rest, walletVars, ledgerVars
<1>2. Types'
  BY <1>1 DEF BillingInv, Types, Rest, TopUp, CreditEarnings, Disconnect, walletVars, ledgerVars
<1>3. EndsFinal  BY <1>1 DEF EndsFinal
<1> QED  BY <1>1, <1>2, <1>3, RestControl

LEMMA IdleRest ==
    ASSUME BillingInv, UNCHANGED vars
    PROVE  /\ Rest /\ UNCHANGED <<hold, available, legacy, credits, earnings>> /\ BillingInv'
<1>1. Rest /\ UNCHANGED <<hold, available, legacy, credits, earnings, turn>>
  BY DEF vars, fundingVars, walletVars, ledgerVars, Rest
<1>2. Types'  BY <1>1 DEF BillingInv, Types, Rest
<1>3. EndsFinal  BY <1>1 DEF EndsFinal
<1> QED  BY <1>1, <1>2, <1>3, RestControl

\* What a crash leaves: the sessions it hits are gone, the databases stay.
Crashed(t) ==
    /\ pc[t] \notin {"new", "done"} /\ pc'[t] = "crashed" /\ op'[t] = NoCall

\* A crash stops the sessions of one server where they stand.
LEMMA CrashControl ==
    ASSUME BillingInv, NEW i \in Instances, Crash(i)
    PROVE  /\ BillingInv'
           /\ UNCHANGED <<sess, fund, log, token, hold, available, legacy, credits, earnings>>
           /\ \A t \in Sessions : Crashed(t) \/ (pc'[t] = pc[t] /\ op'[t] = op[t])
<1>1. UNCHANGED <<sess, fund, log, token, hold, available, legacy, credits, earnings>>
  BY DEF Crash, walletVars, ledgerVars
<1>2. \A t \in Sessions : Crashed(t) \/ (pc'[t] = pc[t] /\ op'[t] = op[t])
  BY DEF Crash, Crashed
<1>3. Types'
  <2>1. turn' \in [Instances -> Sessions \cup {NoSession}]  BY DEF Crash, BillingInv, Types
  <2>2. NoCall \in Calls  BY DEF NoCall, Calls
  <2>3. op' \in [Sessions -> Calls] /\ pc' \in [Sessions -> PCs]
    BY <2>2 DEF Crash, BillingInv, Types, PCs
  <2> QED  BY <1>1, <2>1, <2>3 DEF BillingInv, Types
<1>4. ASSUME NEW t \in Sessions PROVE Control(t)'
  <2>1. CASE pc'[t] = pc[t] /\ op'[t] = op[t]
    BY <1>1, <2>1, ControlStays DEF BillingInv, EndsFinal
  <2>2. CASE Crashed(t)
    <3>1. ~sess[t].settled  BY <2>2 DEF Crashed, BillingInv, Control, EndOfPc
    <3>2. CallOfPc(t)'  BY <2>2 DEF Crashed, CallOfPc, NoCall, Calling
    <3>3. AmountsOfPc(t)'  BY <1>1, <2>2, <3>1 DEF Crashed, AmountsOfPc
    <3>4. EndOfPc(t)'  BY <1>1, <2>2, <3>1 DEF Crashed, EndOfPc
    <3> QED  BY <3>2, <3>3, <3>4 DEF Control
  <2> QED  BY <1>2, <2>1, <2>2
<1> QED  BY <1>1, <1>2, <1>3, <1>4 DEF BillingInv

\* recoverStaleReservation ends one open hold, at no more than was logged.
RecoveredRow(r) ==
    /\ hold[r].status = "open"
    /\ \A q \in Requests \ {r} : hold'[q] = hold[q]
    /\ hold'[r].amount = hold[r].amount /\ hold'[r].charged \in Nat
    /\ \/ /\ hold'[r].status = "settled" /\ usageLog[r] \in Nat
          /\ hold'[r].charged <= usageLog[r]
          /\ available' = available + hold[r].amount - hold'[r].charged
       \/ /\ hold'[r].status = "released" /\ usageLog[r] = NoLog
          /\ available' = available + hold[r].amount
    /\ legacy' = available'

\* The smaller of two numbers.
LEMMA MinOfTwo ==
    ASSUME NEW m \in Nat, NEW n \in Nat
    PROVE  /\ Min({m, n}) \in Nat
           /\ Min({m, n}) <= m /\ Min({m, n}) <= n
<1>1. \E x \in {m, n} : \A y \in {m, n} : x <= y
  <2>1. CASE m <= n  BY <2>1
  <2>2. CASE n <= m  BY <2>2
  <2> QED  BY <2>1, <2>2
<1>2. Min({m, n}) \in {m, n} /\ \A y \in {m, n} : Min({m, n}) <= y
  BY <1>1 DEF Min
<1> QED  BY <1>2

\* Recovery ends the hold of one request and touches no session.
LEMMA RecoverControl ==
    ASSUME BillingInv, RecoveryTypes, NEW r \in Requests, Recover(r)
    PROVE  /\ BillingInv' /\ Rest /\ RecoveredRow(r)
           /\ UNCHANGED <<credits, earnings, report, usageLog, expired, crashes>>
<1>1. /\ Rest /\ UNCHANGED <<credits, earnings, report, usageLog, expired, crashes, turn>>
      /\ hold[r].status = "open" /\ legacy' = available'
  BY DEF Recover, Eligible, Rest, syncRecoveredProjection
<1>2. /\ hold \in [Requests -> Holds] /\ hold[r] \in Holds /\ available \in Nat
      /\ hold[r].amount \in Nat /\ usageLog[r] \in Nat \cup {NoLog} /\ NoLog \notin Nat
  BY DEF BillingInv, Types, RecoveryTypes, Holds, NoLog
<1>3. RecoveredRow(r) /\ hold' \in [Requests -> Holds] /\ available' \in Nat
  <2>1. CASE /\ usageLog[r] # NoLog
             /\ hold' = [hold EXCEPT ![r] = SettledAt(@, Charge(r), "recovery")]
             /\ available' = available + hold[r].amount - Charge(r)
    <3> DEFINE h2 == SettledAt(hold[r], Charge(r), "recovery")
    <3>1. usageLog[r] \in Nat /\ hold[r].amount + available \in Nat  BY <1>2, <2>1
    <3>2. /\ Charge(r) \in Nat /\ Charge(r) <= usageLog[r]
          /\ Charge(r) <= hold[r].amount + available
      BY <3>1, MinOfTwo DEF Charge
    <3>3. /\ h2 \in Holds /\ h2.status = "settled" /\ h2.charged = Charge(r)
          /\ h2.amount = hold[r].amount
      BY <1>2, <3>2, SettledRow
    <3>4. hold' = [hold EXCEPT ![r] = h2]  BY <1>2, <2>1
    <3> HIDE DEF h2
    <3>5. hold' \in [Requests -> Holds] /\ hold'[r] = h2
          /\ \A q \in Requests \ {r} : hold'[q] = hold[q]
      BY <1>2, <3>3, <3>4
    <3>6. available' \in Nat  BY <1>2, <2>1, <3>2
    <3> QED  BY <1>1, <1>2, <2>1, <3>1, <3>2, <3>3, <3>5, <3>6 DEF RecoveredRow
  <2>2. CASE /\ usageLog[r] = NoLog
             /\ hold' = [hold EXCEPT ![r].status = "released"]
             /\ available' = available + hold[r].amount
    <3> DEFINE h1 == [hold[r] EXCEPT !.status = "released"]
    <3>1. h1 \in Holds /\ h1.status = "released" /\ h1.amount = hold[r].amount
          /\ h1.charged \in Nat
      BY <1>2 DEF Holds
    <3>2. hold' = [hold EXCEPT ![r] = h1]  BY <1>2, <2>2
    <3> HIDE DEF h1
    <3>3. hold' \in [Requests -> Holds] /\ hold'[r] = h1
          /\ \A q \in Requests \ {r} : hold'[q] = hold[q]
      BY <1>2, <3>1, <3>2
    <3>4. available' \in Nat  BY <1>2, <2>2
    <3>5. /\ hold'[r].amount = hold[r].amount /\ hold'[r].charged \in Nat
          /\ hold'[r].status = "released"
      BY <3>1, <3>3
    <3> QED  BY <1>1, <2>2, <3>3, <3>4, <3>5 DEF RecoveredRow
  <2> QED  BY <2>1, <2>2 DEF Recover
<1>4. Types'  BY <1>1, <1>3 DEF BillingInv, Types, Rest
<1>5. EndsFinal  BY <1>3 DEF EndsFinal, RecoveredRow
<1> QED  BY <1>1, <1>3, <1>4, <1>5, RestControl

\* The two columns are columns of numbers.
LEMMA ColumnTypes ==
    ASSUME BillingInv
    PROVE  Charged \in [Requests -> Nat] /\ TokenShares \in [Sessions -> Nat]
<1>1. ASSUME NEW r \in Requests
      PROVE  TakenFor(hold[r]) \in Nat
  BY DEF BillingInv, Types, Holds, TakenFor
<1>2. ASSUME NEW s \in Sessions PROVE Cost(s, TokenShare(s)) \in Nat
  BY ShareCases DEF BillingInv, Cost
<1> QED  BY <1>1, <1>2 DEF Charged, TokenShares

LEMMA ColumnTypesNext ==
    ASSUME BillingInv'
    PROVE  Charged' \in [Requests -> Nat] /\ TokenShares' \in [Sessions -> Nat]
<1>1. ASSUME NEW r \in Requests
      PROVE  TakenFor(hold'[r]) \in Nat
  BY DEF BillingInv, Types, Holds, TakenFor
<1>2. ASSUME NEW s \in Sessions PROVE Cost(s, TokenShare(s)') \in Nat
  <2>1. Control(s)' /\ sess'[s] \in SessionObjects  BY DEF BillingInv, Types
  <2>2. ShareValue(s, TokenShare(s))'  BY <2>1, ShareValueNext
  <2>3. sess'[s].settled => pc'[s] = "done"  BY <2>1 DEF Control, EndOfPc
  <2>4. pc'[s] \in {"reserveFunding", "reserveUndo"} => sess'[s].goal > sess'[s].preConsumed
    BY <2>1 DEF Control, AmountsOfPc
  <2>5. TokenShare(s)' \in Nat  BY <2>1, <2>2, <2>3, <2>4 DEF ShareValue, SessionObjects
  <2> QED  BY <2>5 DEF Cost
<1> QED  BY <1>1, <1>2 DEF Charged, TokenShares, Cost

\* One hold moves against the balance: the sum stays.
LEMMA RequestsSum ==
    ASSUME BillingInv, BillingInv', NEW r \in Requests,
           \A q \in Requests \ {r} : hold'[q] = hold[q],
           available' + Charged'[r] = available + Charged[r]
    PROVE  available' + Total(Charged') = available + Total(Charged)
<1>1. Charged \in [Requests -> Nat] /\ Charged' \in [Requests -> Nat]
  BY ColumnTypes, ColumnTypesNext
<1>2. ASSUME NEW q \in Requests \ {r} PROVE Charged'[q] = Charged[q]
  BY <1>2 DEF Charged
<1>3. /\ Total(Charged) \in Nat /\ Total(Charged') \in Nat
      /\ Total(Charged') = Total(Charged) - Charged[r] + Charged'[r]
  BY <1>1, <1>2, FundingAssumption, TotalUpdate
<1>4. available \in Nat /\ available' \in Nat /\ Charged[r] \in Nat /\ Charged'[r] \in Nat
  BY <1>1 DEF BillingInv, Types
<1> QED  BY <1>3, <1>4

\* What holds of the sessions, however many runs share a request.
SessionInv == BillingInv /\ TokenBalanced /\ ChargedAtMostUse /\ WalletConserved

\* It holds at the start,
LEMMA SessionInit ==
    ASSUME Init
    PROVE  SessionInv
<1>1. Types
  <2>1. available \in Nat /\ legacy \in Int /\ credits \in Nat /\ earnings \in Nat /\ token \in Nat
    BY FundingAssumption, SessionAssumption DEF Init, FundingInit
  <2>2. NoHold \in Holds /\ NewFunding \in Funds /\ NoCall \in Calls
        /\ NewSession \in SessionObjects
    BY DEF NoHold, Holds, NewFunding, Funds, NoCall, Calls, NewSession, SessionObjects
  <2> QED  BY <2>1, <2>2 DEF Init, FundingInit, Types, PCs
<1>2. ASSUME NEW s \in Sessions PROVE Control(s)
  <2>1. /\ pc[s] = "new" /\ sess[s] = NewSession /\ op[s] = NoCall /\ fund[s] = NewFunding
        /\ log[s] = "clean"
    BY DEF Init, FundingInit
  <2> QED  BY <2>1 DEF Control, CallOfPc, AmountsOfPc, EndOfPc, Calling, NewSession, NoCall,
                       NewFunding, Returned
<1>3. BillingInv  BY <1>1, <1>2 DEF BillingInv
<1>4. Charged \in [Requests -> Nat] /\ TokenShares \in [Sessions -> Nat]  BY <1>3, ColumnTypes
<1>5. WalletConserved
  <2>1. \A r \in Requests : Charged[r] = 0
    BY DEF Init, FundingInit, NoHold, Charged, TakenFor
  <2>2. Total(Charged) = 0  BY <1>4, <2>1, TotalZero
  <2>3. available + 0 = Balance + credits + earnings
    BY FundingAssumption DEF Init, FundingInit
  <2> QED  BY <2>2, <2>3 DEF WalletConserved, Charged
<1>6. TokenBalanced
  <2>1. \A s \in Sessions : TokenShares[s] = 0
    BY DEF Init, FundingInit, NewSession, TokenShares, TokenShare, Cost
  <2>2. Total(TokenShares) = 0  BY <1>4, <2>1, TotalZero
  <2>3. token + 0 = TokenBalance  BY SessionAssumption DEF Init
  <2> QED  BY <2>2, <2>3 DEF TokenBalanced, TokenShares
<1>7. ChargedAtMostUse  BY DEF Init, FundingInit, NoHold, ChargedAtMostUse
<1> QED  BY <1>3, <1>5, <1>6, <1>7 DEF SessionInv

\* The usage that covers a charge is never taken back.
LEMMA StepCharges ==
    ASSUME SessionInv, NEW s \in Sessions, GoodStep(s), BillingInv'
    PROVE  /\ \A t \in Sessions : sess'[t].used >= sess[t].used
           /\ ChargedAtMostUse'
<1>1. ASSUME NEW t \in Sessions
      PROVE  /\ sess'[t].used >= sess[t].used
             /\ sess'[t].used \in Nat /\ sess[t].used \in Nat
  <2>1. sess'[t].used \in Nat /\ sess[t].used \in Nat
    BY DEF SessionInv, BillingInv, Types, SessionObjects
  <2> QED  BY <2>1 DEF GoodStep, ChargeMoves, Others
<1>2. ASSUME NEW r \in Requests, hold'[r].status = "settled"
      PROVE  \E t \in Sessions : RequestOf[t] = r /\ hold'[r].charged <= sess'[t].used
  <2>0. hold[r].charged \in Nat /\ hold'[r].charged \in Nat
    BY DEF SessionInv, BillingInv, Types, Holds
  <2>1. CASE hold[r].status = "settled"
    <3>1. hold'[r] = hold[r]  BY <2>1 DEF GoodStep, EndsFinal
    <3>2. PICK t \in Sessions : RequestOf[t] = r /\ hold[r].charged <= sess[t].used
      BY <2>1 DEF SessionInv, ChargedAtMostUse
    <3>3. hold'[r].charged <= sess'[t].used  BY <1>1, <2>0, <3>1, <3>2
    <3> QED  BY <3>2, <3>3
  <2>2. CASE hold[r].status # "settled"
    <3>1. r = RequestOf[s]  BY <1>2, <2>2 DEF GoodStep, OtherHolds
    <3>2. hold'[r].charged <= sess'[s].used
      BY <1>2, <2>2, <3>1 DEF GoodStep, ChargeMoves, H
    <3> QED  BY <3>1, <3>2
  <2> QED  BY <2>1, <2>2
<1> QED  BY <1>1, <1>2 DEF ChargedAtMostUse

\* The balance and the holds move together,
LEMMA StepWallet ==
    ASSUME SessionInv, NEW s \in Sessions, GoodStep(s), BillingInv'
    PROVE  WalletConserved'
<1> DEFINE r == RequestOf[s]
<1>1. r \in Requests  BY FundingAssumption
<1>2. Charged[r] = Taken(s) /\ Charged'[r] = Taken(s)'
  BY <1>1 DEF Charged, Taken, H
<1>3. available' + Total(Charged') = available + Total(Charged)
  BY <1>1, <1>2, RequestsSum DEF GoodStep, WalletMoves, OtherHolds, SessionInv
<1>4. available + Total(Charged) = Balance + credits + earnings
  BY DEF SessionInv, WalletConserved, Charged
<1>5. available' + Total(Charged') = Balance + credits' + earnings'
  BY <1>3, <1>4 DEF GoodStep
<1> QED  BY <1>5 DEF WalletConserved, Charged

\* and so do the key and what the sessions owe it.
LEMMA StepToken ==
    ASSUME SessionInv, NEW s \in Sessions, GoodStep(s), BillingInv'
    PROVE  TokenBalanced'
<1> SUFFICES ASSUME \A t \in Sessions : log'[t] # "unrepaired" /\ pc'[t] # "crashed"
             PROVE  token' + Total(TokenShares') = TokenBalance
  BY DEF TokenBalanced, TokenShares
<1>1. \A t \in Sessions : log[t] # "unrepaired" /\ pc[t] # "crashed"
  BY DEF GoodStep, Others
<1>2. token + Total(TokenShares) = TokenBalance
  BY <1>1 DEF SessionInv, TokenBalanced, TokenShares
<1>3. TokenShares \in [Sessions -> Nat] /\ TokenShares' \in [Sessions -> Nat]
  BY ColumnTypes, ColumnTypesNext DEF SessionInv
<1>4. ASSUME NEW t \in Sessions \ {s} PROVE TokenShares'[t] = TokenShares[t]
  <2>1. TokenShare(t)' = TokenShare(t)  BY DEF GoodStep, Others, TokenShare
  <2> QED  BY <2>1 DEF TokenShares, Cost
<1>5. /\ Total(TokenShares) \in Nat /\ Total(TokenShares') \in Nat
      /\ Total(TokenShares') = Total(TokenShares) - TokenShares[s] + TokenShares'[s]
  BY <1>3, <1>4, FundingAssumption, TotalUpdate
<1>6. TokenShares[s] = Cost(s, TokenShare(s)) /\ TokenShares'[s] = Cost(s, TokenShare(s)')
  BY DEF TokenShares, Cost
<1>7. token' + TokenShares'[s] = token + TokenShares[s]
  BY <1>6 DEF GoodStep, TokenMoves
<1>8. token \in Nat /\ token' \in Nat /\ TokenShares[s] \in Nat /\ TokenShares'[s] \in Nat
  BY <1>3 DEF SessionInv, BillingInv, Types
<1> QED  BY <1>2, <1>5, <1>7, <1>8

\* A payment adds to the balance and to what was paid in.
LEMMA RestMoney ==
    ASSUME SessionInv, Rest, UNCHANGED hold, BillingInv',
           available' + credits + earnings = available + credits' + earnings'
    PROVE  SessionInv'
<1>1. TokenBalanced'  BY DEF SessionInv, Rest, TokenBalanced, TokenShare, Cost
<1>2. ChargedAtMostUse'  BY DEF SessionInv, Rest, ChargedAtMostUse
<1>3. Charged' = Charged  BY DEF Charged
<1>4. Total(Charged) \in Nat  BY FundingAssumption, ColumnTypes, TotalFinite DEF SessionInv
<1>5. available + Total(Charged) = Balance + credits + earnings
  BY DEF SessionInv, WalletConserved, Charged
<1>6. available' + Total(Charged) = Balance + credits' + earnings'
  <2>1. /\ available \in Nat /\ credits \in Nat /\ earnings \in Nat
        /\ available' \in Nat /\ credits' \in Nat /\ earnings' \in Nat
    BY DEF SessionInv, BillingInv, Types
  <2>2. Balance \in Nat  BY FundingAssumption
  <2> QED  BY <1>4, <1>5, <2>1, <2>2
<1>7. WalletConserved'  BY <1>3, <1>6 DEF WalletConserved, Charged
<1> QED  BY <1>1, <1>2, <1>7 DEF SessionInv

\* A crash moves no money.
LEMMA CrashMoney ==
    ASSUME SessionInv, NEW i \in Instances, Crash(i)
    PROVE  SessionInv'
<1>1. /\ BillingInv'
      /\ UNCHANGED <<sess, fund, log, token, hold, available, legacy, credits, earnings>>
      /\ \A t \in Sessions : Crashed(t) \/ (pc'[t] = pc[t] /\ op'[t] = op[t])
  BY CrashControl DEF SessionInv
<1>2. TokenBalanced'
  <2> SUFFICES ASSUME \A t \in Sessions : log'[t] # "unrepaired" /\ pc'[t] # "crashed"
               PROVE  token' + Total(TokenShares') = TokenBalance
    BY DEF TokenBalanced, TokenShares
  <2>1. \A t \in Sessions : pc'[t] = pc[t]  BY <1>1 DEF Crashed
  <2>2. \A t \in Sessions : TokenShare(t)' = TokenShare(t)  BY <1>1, <2>1 DEF TokenShare
  <2>3. TokenShares' = TokenShares  BY <2>2 DEF TokenShares, Cost
  <2> QED  BY <1>1, <2>1, <2>3 DEF SessionInv, TokenBalanced, TokenShares
<1>3. ChargedAtMostUse' /\ WalletConserved'
  BY <1>1 DEF SessionInv, ChargedAtMostUse, WalletConserved
<1> QED  BY <1>1, <1>2, <1>3 DEF SessionInv

\* Every step keeps what holds of the sessions.
LEMMA SessionNext ==
    ASSUME SessionInv, [Next]_vars
    PROVE  SessionInv' /\ \A t \in Sessions : sess'[t].used >= sess[t].used
<1>0. \A t \in Sessions : sess[t].used \in Nat
  BY DEF SessionInv, BillingInv, Types, SessionObjects
<1>1. ASSUME NEW s \in Sessions, Step(s)
      PROVE  SessionInv' /\ \A t \in Sessions : sess'[t].used >= sess[t].used
  <2>1. BillingInv' /\ GoodStep(s)  BY <1>1, StepControl DEF SessionInv
  <2> QED  BY <2>1, StepCharges, StepWallet, StepToken DEF SessionInv
<1>2. ASSUME TopUp \/ CreditEarnings \/ (\E s \in Sessions : Disconnect(s)),
             UNCHANGED <<token, sess, pc, crashes>>
      PROVE  SessionInv' /\ \A t \in Sessions : sess'[t].used >= sess[t].used
  <2>1. Rest /\ UNCHANGED hold /\ BillingInv'  BY <1>2, PaymentRest DEF SessionInv
  <2>2. available' + credits + earnings = available + credits' + earnings'
    <3>1. available \in Nat /\ credits \in Nat /\ earnings \in Nat
      BY DEF SessionInv, BillingInv, Types
    <3> QED  BY <1>2, <3>1 DEF TopUp, CreditEarnings, Disconnect, walletVars, ledgerVars
  <2>3. SessionInv'  BY <2>1, <2>2, RestMoney
  <2> QED  BY <1>0, <2>1, <2>3 DEF Rest
<1>3. ASSUME NEW i \in Instances, Crash(i)
      PROVE  SessionInv' /\ \A t \in Sessions : sess'[t].used >= sess[t].used
  <2>1. SessionInv'  BY <1>3, CrashMoney
  <2>2. UNCHANGED sess  BY <1>3 DEF Crash
  <2> QED  BY <1>0, <2>1, <2>2
<1>4. CASE UNCHANGED vars
  <2>1. Rest /\ UNCHANGED <<hold, available, credits, earnings>> /\ BillingInv'
    BY <1>4, IdleRest DEF SessionInv
  <2>2. SessionInv'  BY <2>1, RestMoney
  <2> QED  BY <1>0, <2>1, <2>2 DEF Rest
<1> QED  BY <1>1, <1>2, <1>3, <1>4 DEF Next, NextUp, Environment, Finished

-----------------------------------------------------------------------------
(***************************************************************************)
(* What holds for any number of runs of a request.                         *)
(***************************************************************************)

\* The sessions' types, what each line of the billing handlers says of the call,
\* the amounts and the end of the hold, and the three balances, in every state.
THEOREM SessionInvariant == Spec => []SessionInv
<1>1. Init => SessionInv  BY SessionInit
<1>2. SessionInv /\ [Next]_vars => SessionInv'  BY SessionNext
<1> QED  BY <1>1, <1>2, PTL DEF Spec

\* Every run's report agrees with how the ledger ended the reservation: a run
\* that says it settled finds it charged, one that says it refunded finds it
\* released, also when several runs of one request and crashes interleave.
THEOREM SessionEndsAgree == Spec => []EndsAgree
<1>1. SessionInv => EndsAgree
  BY DEF SessionInv, BillingInv, Control, EndOfPc, EndsAgree
<1> QED  BY <1>1, SessionInvariant, PTL

\* The wallet is charged at most what some run of the request used.
THEOREM SessionChargedAtMostUse == Spec => []ChargedAtMostUse
<1>1. SessionInv => ChargedAtMostUse  BY DEF SessionInv
<1> QED  BY <1>1, SessionInvariant, PTL

\* The key is short by exactly what the sessions took from it.
THEOREM SessionTokenBalanced == Spec => []TokenBalanced
<1>1. SessionInv => TokenBalanced  BY DEF SessionInv
<1> QED  BY <1>1, SessionInvariant, PTL

-----------------------------------------------------------------------------
\* The same, with the consume log and the recovery.
RecoveryInv == SessionInv /\ RecoveryTypes /\ LogTrue

LEMMA RecoveryInvInit ==
    ASSUME RecoveryInit
    PROVE  RecoveryInv
<1>1. SessionInv  BY SessionInit DEF RecoveryInit
<1>2. RecoveryTypes  BY DEF RecoveryInit, RecoveryTypes
<1>3. LogTrue  BY DEF RecoveryInit, LogTrue
<1> QED  BY <1>1, <1>2, <1>3 DEF RecoveryInv

\* A billing step leaves the consume log alone,
LEMMA BillingKeeps ==
    ASSUME RecoveryInv, [Next]_vars, UNCHANGED <<usageLog, expired, overlapped>>,
           report' \in [Sessions -> {"none", "due", "over"}]
    PROVE  RecoveryInv'
<1>1. SessionInv' /\ \A t \in Sessions : sess'[t].used >= sess[t].used
  BY SessionNext DEF RecoveryInv
<1>2. RecoveryTypes'  BY DEF RecoveryInv, RecoveryTypes
<1>3. LogTrue'
  <2> SUFFICES ASSUME NEW r \in Requests, usageLog[r] # NoLog
               PROVE  \E s \in Sessions : RequestOf[s] = r /\ usageLog[r] <= sess'[s].used
    BY DEF LogTrue
  <2>1. PICK s \in Sessions : RequestOf[s] = r /\ usageLog[r] <= sess[s].used
    BY DEF RecoveryInv, LogTrue
  <2>2. usageLog[r] \in Nat  BY DEF RecoveryInv, RecoveryTypes
  <2>3. sess[s].used \in Nat /\ sess'[s].used \in Nat
    BY <1>1 DEF RecoveryInv, SessionInv, BillingInv, Types, SessionObjects
  <2>4. usageLog[r] <= sess'[s].used  BY <1>1, <2>1, <2>2, <2>3
  <2> QED  BY <2>1, <2>4
<1> QED  BY <1>1, <1>2, <1>3 DEF RecoveryInv

\* a log line records what its session used,
LEMMA LogUsageKeeps ==
    ASSUME RecoveryInv, NEW s \in Sessions, LogUsage(s)
    PROVE  RecoveryInv'
<1> DEFINE u == IF sess[s].settled THEN sess[s].charged ELSE sess[s].used
<1>1. [Next]_vars /\ UNCHANGED <<vars, expired, overlapped>>  BY DEF LogUsage
<1>2. SessionInv'  BY <1>1, SessionNext DEF RecoveryInv
<1>3. RequestOf[s] \in Requests  BY FundingAssumption
<1>4. u \in Nat /\ u <= sess[s].used
  <2>1. sess[s] \in SessionObjects  BY DEF RecoveryInv, SessionInv, BillingInv, Types
  <2>2. sess[s].settled => sess[s].charged <= sess[s].used
    BY DEF RecoveryInv, SessionInv, BillingInv, Control, AmountsOfPc
  <2> QED  BY <2>1, <2>2 DEF SessionObjects
<1>5. usageLog' = usageLog \/ usageLog' = [usageLog EXCEPT ![RequestOf[s]] = u]
  BY DEF LogUsage
<1>6. UNCHANGED sess  BY <1>1 DEF vars
<1> HIDE DEF u
<1>7. RecoveryTypes'
  BY <1>1, <1>3, <1>4, <1>5 DEF RecoveryInv, RecoveryTypes, LogUsage
<1>8. LogTrue'
  <2> SUFFICES ASSUME NEW r \in Requests, usageLog'[r] # NoLog
               PROVE  \E t \in Sessions : RequestOf[t] = r /\ usageLog'[r] <= sess[t].used
    BY <1>6 DEF LogTrue
  <2>1. CASE usageLog'[r] = usageLog[r]
    BY <2>1 DEF RecoveryInv, LogTrue
  <2>2. CASE r = RequestOf[s] /\ usageLog'[r] = u
    BY <1>4, <2>2
  <2> QED  BY <1>3, <1>5, <2>1, <2>2 DEF RecoveryInv, RecoveryTypes
<1> QED  BY <1>2, <1>7, <1>8 DEF RecoveryInv

\* and recovery charges no more than a line of the log says.
LEMMA RecoverKeeps ==
    ASSUME RecoveryInv, NEW r \in Requests, Recover(r)
    PROVE  RecoveryInv'
<1>1. /\ BillingInv' /\ Rest /\ RecoveredRow(r)
      /\ UNCHANGED <<credits, earnings, report, usageLog, expired, crashes>>
  BY RecoverControl DEF RecoveryInv, SessionInv
<1>2. TokenBalanced'
  BY <1>1 DEF RecoveryInv, SessionInv, Rest, TokenBalanced, TokenShare, Cost
<1>3. ChargedAtMostUse'
  <2> SUFFICES ASSUME NEW q \in Requests, hold'[q].status = "settled"
               PROVE  \E s \in Sessions : RequestOf[s] = q /\ hold'[q].charged <= sess[s].used
    BY <1>1 DEF ChargedAtMostUse, Rest
  <2>1. CASE q # r
    BY <1>1, <2>1 DEF RecoveryInv, SessionInv, ChargedAtMostUse, RecoveredRow
  <2>2. CASE q = r
    <3>1. usageLog[r] \in Nat /\ hold'[r].charged \in Nat /\ hold'[r].charged <= usageLog[r]
      BY <1>1, <2>2 DEF RecoveredRow
    <3>2. usageLog[r] # NoLog  BY <3>1 DEF NoLog
    <3>3. PICK s \in Sessions : RequestOf[s] = r /\ usageLog[r] <= sess[s].used
      BY <3>2 DEF RecoveryInv, LogTrue
    <3>4. sess[s].used \in Nat  BY DEF RecoveryInv, SessionInv, BillingInv, Types, SessionObjects
    <3>5. hold'[r].charged <= sess[s].used  BY <3>1, <3>3, <3>4
    <3> QED  BY <2>2, <3>3, <3>5
  <2> QED  BY <2>1, <2>2
<1>4. WalletConserved'
  <2>1. Charged[r] = hold[r].amount  BY <1>1 DEF Charged, TakenFor, RecoveredRow
  <2>2. Charged'[r] = (IF hold'[r].status = "settled" THEN hold'[r].charged ELSE 0)
    BY <1>1 DEF Charged, TakenFor, RecoveredRow
  <2>3. /\ available \in Nat /\ hold[r].amount \in Nat /\ hold'[r].charged \in Nat
        /\ available' \in Nat
    BY <1>1 DEF RecoveryInv, SessionInv, BillingInv, Types, Holds
  <2>4. available' + Charged'[r] = available + Charged[r]
    BY <1>1, <2>1, <2>2, <2>3 DEF RecoveredRow
  <2>5. available' + Total(Charged') = available + Total(Charged)
    BY <1>1, <2>4, RequestsSum DEF RecoveredRow, RecoveryInv, SessionInv
  <2>6. available + Total(Charged) = Balance + credits + earnings
    BY DEF RecoveryInv, SessionInv, WalletConserved, Charged
  <2>7. available' + Total(Charged') = Balance + credits' + earnings'
    BY <1>1, <2>5, <2>6
  <2> QED  BY <2>7 DEF WalletConserved, Charged
<1>5. RecoveryTypes'
  BY <1>1 DEF RecoveryInv, RecoveryTypes, Recover
<1>6. LogTrue'  BY <1>1 DEF RecoveryInv, LogTrue, Rest
<1> QED  BY <1>1, <1>2, <1>3, <1>4, <1>5, <1>6 DEF RecoveryInv, SessionInv

LEMMA RecoveryInvNext ==
    ASSUME RecoveryInv, [RecoveryNext]_allVars
    PROVE  RecoveryInv'
<1>1. CASE Billing
  <2>1. report' \in [Sessions -> {"none", "due", "over"}]
    BY <1>1 DEF Billing, RecoveryInv, RecoveryTypes
  <2> QED  BY <1>1, <2>1, BillingKeeps DEF Billing
<1>2. ASSUME NEW s \in Sessions, LogUsage(s) PROVE RecoveryInv'  BY <1>2, LogUsageKeeps
<1>3. ASSUME NEW r \in Requests, Expire(r) PROVE RecoveryInv'
  <2>1. [Next]_vars /\ UNCHANGED <<report, usageLog, overlapped>> /\ expired' = expired \cup {r}
    BY <1>3 DEF Expire
  <2>2. SessionInv'  BY <2>1, SessionNext DEF RecoveryInv
  <2>3. RecoveryTypes'  BY <2>1 DEF RecoveryInv, RecoveryTypes
  <2>4. UNCHANGED sess  BY <1>3 DEF Expire, vars
  <2>5. LogTrue'  BY <2>1, <2>4 DEF RecoveryInv, LogTrue
  <2> QED  BY <2>2, <2>3, <2>5 DEF RecoveryInv
<1>4. ASSUME NEW r \in Requests, Recover(r) PROVE RecoveryInv'  BY <1>4, RecoverKeeps
<1>5. CASE UNCHANGED allVars
  <2>1. report' \in [Sessions -> {"none", "due", "over"}]
    BY <1>5 DEF allVars, recoveryVars, RecoveryInv, RecoveryTypes
  <2> QED  BY <1>5, <2>1, BillingKeeps DEF allVars, recoveryVars
<1> QED  BY <1>1, <1>2, <1>3, <1>4, <1>5 DEF RecoveryNext

\* The same holds while recovery runs beside the sessions, and the consume log
\* it charges by never says more than a run of the request used.
THEOREM RecoveryInvariant == RecoverySpec => []RecoveryInv
<1>1. RecoveryInit => RecoveryInv  BY RecoveryInvInit
<1>2. RecoveryInv /\ [RecoveryNext]_allVars => RecoveryInv'  BY RecoveryInvNext
<1> QED  BY <1>1, <1>2, PTL DEF RecoverySpec

\* Recovery neither makes nor loses the user's money.
THEOREM RecoveryWalletConserved == RecoverySpec => []WalletConserved
<1>1. RecoveryInv => WalletConserved  BY DEF RecoveryInv, SessionInv
<1> QED  BY <1>1, RecoveryInvariant, PTL

-----------------------------------------------------------------------------
(***************************************************************************)
(* One run per request: the hold of a request is its session's own.        *)
(***************************************************************************)
LEMMA SingleStays ==
    ASSUME NEW t \in Sessions, H(t)' = H(t),
           sess'[t] = sess[t], pc'[t] = pc[t], op'[t] = op[t], fund'[t] = fund[t], log'[t] = log[t]
    PROVE  /\ Single(t) => Single(t)'
           /\ SettledKnown(t) => SettledKnown(t)'
<1>1. HoldKnown(t) => HoldKnown(t)'
  BY DEF HoldKnown, Unsettled, Growing, Failing, Returned
<1>2. ReservedOfPc(t) => ReservedOfPc(t)'  BY DEF ReservedOfPc, Returned
<1>3. Projected(t) => Projected(t)'  BY DEF Projected, SettleProjected, Returned
<1>4. OpenOfPc(t) => OpenOfPc(t)'  BY DEF OpenOfPc
<1>5. SettledKnown(t) => SettledKnown(t)'  BY DEF SettledKnown, Returned
<1> QED  BY <1>1, <1>2, <1>3, <1>4, <1>5 DEF Single

\* What holds of a single run: at the start,
LEMMA SingleInit ==
    ASSUME Init, NEW s \in Sessions
    PROVE  Single(s) /\ SettledKnown(s)
<1>1. /\ pc[s] = "new" /\ sess[s] = NewSession /\ op[s] = NoCall /\ fund[s] = NewFunding
      /\ log[s] = "clean" /\ H(s) = NoHold
  BY FundingAssumption DEF Init, FundingInit, H
<1> QED
  BY <1>1 DEF Single, HoldKnown, ReservedOfPc, Projected, OpenOfPc, SettledKnown, Unsettled,
              NewSession, NoCall, NewFunding, NoHold, Growing, SettleProjected, Returned, Calling

\* by the session's own step and those of others,
LEMMA SingleStep ==
    ASSUME OneRun, NEW s \in Sessions, GoodStep(s)
    PROVE  /\ SingleInv => SingleInv'
           /\ (\A t \in Sessions : SettledKnown(t)) => (\A t \in Sessions : SettledKnown(t)')
<1>1. ASSUME NEW t \in Sessions, t # s
      PROVE  (Single(t) => Single(t)') /\ (SettledKnown(t) => SettledKnown(t)')
  <2>1. RequestOf[t] \in Requests \ {RequestOf[s]}  BY <1>1, FundingAssumption DEF OneRun
  <2>2. H(t)' = H(t)  BY <2>1 DEF GoodStep, OtherHolds, H
  <2> QED  BY <1>1, <2>2, SingleStays DEF GoodStep, Others
<1>2. (Single(s) => Single(s)') /\ (SettledKnown(s) => SettledKnown(s)')  BY DEF GoodStep
<1> QED  BY <1>1, <1>2 DEF SingleInv

\* by what no session does,
LEMMA SingleRest ==
    ASSUME Rest, UNCHANGED hold, NEW t \in Sessions
    PROVE  (Single(t) => Single(t)') /\ (SettledKnown(t) => SettledKnown(t)')
BY SingleStays DEF Rest, H

\* and by a crash.
LEMMA SingleCrash ==
    ASSUME BillingInv, NEW i \in Instances, Crash(i), NEW t \in Sessions
    PROVE  (Single(t) => Single(t)') /\ (SettledKnown(t) => SettledKnown(t)')
<1>1. /\ UNCHANGED <<sess, fund, log, hold>>
      /\ Crashed(t) \/ (pc'[t] = pc[t] /\ op'[t] = op[t])
  BY CrashControl
<1>2. H(t)' = H(t)  BY <1>1 DEF H
<1>3. CASE pc'[t] = pc[t] /\ op'[t] = op[t]  BY <1>1, <1>2, <1>3, SingleStays
<1>4. CASE Crashed(t)
  <2>1. ~sess[t].settled  BY <1>4 DEF Crashed, BillingInv, Control, EndOfPc
  <2>2. HoldKnown(t) => HoldKnown(t)'
    BY <1>1, <1>2, <1>4, <2>1 DEF Crashed, HoldKnown, Unsettled, Failing, NoCall
  <2>3. ReservedOfPc(t)'  BY <1>4 DEF Crashed, ReservedOfPc
  <2>4. Projected(t) => Projected(t)'  BY <1>1, <1>4 DEF Crashed, Projected
  <2>5. OpenOfPc(t)' /\ SettledKnown(t)'  BY <1>4 DEF Crashed, OpenOfPc, SettledKnown
  <2> QED  BY <2>2, <2>3, <2>4, <2>5 DEF Single
<1> QED  BY <1>1, <1>3, <1>4

LEMMA SingleNext ==
    ASSUME OneRun, BillingInv, [Next]_vars
    PROVE  /\ SingleInv => SingleInv'
           /\ (\A t \in Sessions : SettledKnown(t)) => (\A t \in Sessions : SettledKnown(t)')
<1>1. ASSUME NEW s \in Sessions, Step(s)
      PROVE  /\ SingleInv => SingleInv'
             /\ (\A t \in Sessions : SettledKnown(t)) => (\A t \in Sessions : SettledKnown(t)')
  BY <1>1, StepControl, SingleStep
<1>2. CASE /\ TopUp \/ CreditEarnings \/ (\E s \in Sessions : Disconnect(s))
           /\ UNCHANGED <<token, sess, pc, crashes>>
  BY <1>2, PaymentRest, SingleRest DEF SingleInv
<1>3. ASSUME NEW i \in Instances, Crash(i)
      PROVE  /\ SingleInv => SingleInv'
             /\ (\A t \in Sessions : SettledKnown(t)) => (\A t \in Sessions : SettledKnown(t)')
  BY <1>3, SingleCrash DEF SingleInv
<1>4. CASE UNCHANGED vars  BY <1>4, IdleRest, SingleRest DEF SingleInv
<1> QED  BY <1>1, <1>2, <1>3, <1>4 DEF Next, NextUp, Environment, Finished

\* The invariant of the billing alone, with one run per request.
OwnInv == SessionInv /\ SingleInv /\ \A s \in Sessions : SettledKnown(s)

LEMMA OwnInvariant ==
    ASSUME OneRun
    PROVE  Spec => []OwnInv
<1>1. Init => OwnInv  BY SessionInit, SingleInit DEF OwnInv, SingleInv
<1>2. OwnInv /\ [Next]_vars => OwnInv'
  BY SessionNext, SingleNext DEF OwnInv, SessionInv
<1> QED  BY <1>1, <1>2, PTL DEF Spec

\* With one run per request every amount of money is a natural number: what is
\* available, held, reserved, projected and taken from the key.
THEOREM SessionTypeOK ==
    ASSUME OneRun
    PROVE  Spec => []TypeOK
<1>1. OwnInv => TypeOK
  <2> SUFFICES ASSUME OwnInv PROVE TypeOK  OBVIOUS
  <2>1. Types  BY DEF OwnInv, SessionInv, BillingInv
  <2>2. ASSUME NEW s \in Sessions
        PROVE  /\ fund[s] \in [known : BOOLEAN, reserved : Nat, legacyHeld : Nat]
               /\ sess[s].preConsumed \in Nat /\ sess[s].tokenConsumed \in Nat
    <3>1. fund[s] \in Funds /\ sess[s] \in SessionObjects  BY <2>1 DEF Types
    <3>2. fund[s].legacyHeld \in Nat  BY DEF OwnInv, SingleInv, Single, Projected
    <3> QED  BY <3>1, <3>2 DEF Funds, SessionObjects
  <2>3. ASSUME NEW r \in Requests
        PROVE  /\ hold[r].status \in {"none", "open", "settled", "released"}
               /\ hold[r].amount \in Nat /\ hold[r].charged \in Nat
    BY <2>1 DEF Types, Holds
  <2> QED  BY <2>1, <2>2, <2>3 DEF TypeOK, Types
<1> QED  BY <1>1, OwnInvariant, PTL

\* A request that is over leaves no money on hold unless a database call failed.
THEOREM SessionNoHoldLeftBehind ==
    ASSUME OneRun
    PROVE  Spec => []NoHoldLeftBehind
<1>1. OwnInv => NoHoldLeftBehind
  BY DEF OwnInv, SingleInv, Single, OpenOfPc, NoHoldLeftBehind
<1> QED  BY <1>1, OwnInvariant, PTL

\* The receipt of a settled session.
LEMMA ReceiptOfInv ==
    ASSUME BillingInv, SingleInv
    PROVE  ReceiptMatchesLedger
BY DEF BillingInv, Control, EndOfPc, AmountsOfPc, SingleInv, Single, HoldKnown, ReceiptMatchesLedger

\* A settled session's receipt shows what the ledger charged, never more than
\* was used.
THEOREM SessionReceiptMatchesLedger ==
    ASSUME OneRun
    PROVE  Spec => []ReceiptMatchesLedger
<1>1. OwnInv => ReceiptMatchesLedger  BY ReceiptOfInv DEF OwnInv, SessionInv
<1> QED  BY <1>1, OwnInvariant, PTL

-----------------------------------------------------------------------------
(***************************************************************************)
(* Recovery with one run per request.  The consume log comes last, so a    *)
(* hold that is settled by recovery belongs to a session that is over.     *)
(***************************************************************************)
LEMMA SingleRecover ==
    ASSUME BillingInv, SingleInv, LogLast, RecoveryTypes, NEW r \in Requests, Recover(r)
    PROVE  SingleInv'
<1>1. Rest /\ RecoveredRow(r)  BY RecoverControl
<1>2. ASSUME NEW t \in Sessions, RequestOf[t] # r PROVE Single(t)'
  <2>1. H(t)' = H(t)  BY <1>1, <1>2, FundingAssumption DEF RecoveredRow, H
  <2> QED  BY <1>1, <2>1, SingleStays DEF Rest, SingleInv
<1>3. ASSUME NEW t \in Sessions, RequestOf[t] = r PROVE Single(t)'
  <2>1. H(t).status = "open"  BY <1>1, <1>3 DEF RecoveredRow, H
  <2>2. H(t)'.status = "settled" => pc[t] = "done"
    BY <1>1, <1>3 DEF RecoveredRow, H, LogLast, NoLog
  <2>3. H(t)'.status \in {"settled", "released"}  BY <1>1, <1>3 DEF RecoveredRow, H
  <2>4. H(t)'.status = "released" => H(t)'.amount = H(t).amount
    BY <1>1, <1>3 DEF RecoveredRow, H
  <2>5. Control(t) /\ Single(t)  BY DEF BillingInv, SingleInv
  <2>6. UNCHANGED <<sess, pc, op, fund, log>>  BY <1>1 DEF Rest
  <2>7. /\ pc[t] = "settle" => ~Returned(t, {"ok"})
        /\ ~(pc[t] \in {"settleToken", "exhaust", "drain"} \/ sess[t].settled)
    BY <2>1, <2>5 DEF Control, EndOfPc
  <2>8. pc[t] = "done" => op[t].at \in {"idle", "returned"}
    BY <2>5 DEF Control, CallOfPc, Calling
  <2>9. HoldKnown(t)'
    BY <2>1, <2>2, <2>3, <2>4, <2>5, <2>6, <2>7, <2>8
       DEF Single, HoldKnown, Unsettled, Failing, Returned
  <2>10. ReservedOfPc(t)'  BY <2>5, <2>6 DEF Single, ReservedOfPc, Returned
  <2>11. Projected(t)'  BY <2>5, <2>6 DEF Single, Projected, SettleProjected, Returned
  <2>12. OpenOfPc(t)'  BY <2>3 DEF OpenOfPc
  <2> QED  BY <2>9, <2>10, <2>11, <2>12 DEF Single
<1> QED  BY <1>2, <1>3 DEF SingleInv

\* A logged session takes no further step.
LEMMA LogLastNext ==
    ASSUME BillingInv, LogLast, [Next]_vars, UNCHANGED usageLog
    PROVE  LogLast'
<1>1. ASSUME NEW s \in Sessions, Step(s) PROVE LogLast'
  BY <1>1, StepControl DEF GoodStep, Others, LogLast
<1>2. CASE /\ TopUp \/ CreditEarnings \/ (\E s \in Sessions : Disconnect(s))
           /\ UNCHANGED <<token, sess, pc, crashes>>
  BY <1>2 DEF LogLast
<1>3. ASSUME NEW i \in Instances, Crash(i) PROVE LogLast'
  BY <1>3, CrashControl DEF Crashed, LogLast
<1>4. CASE UNCHANGED vars  BY <1>4 DEF vars, LogLast
<1> QED  BY <1>1, <1>2, <1>3, <1>4 DEF Next, NextUp, Environment, Finished

\* The invariant of billing and recovery, with one run per request.
RecoveryOwnInv == RecoveryInv /\ SingleInv /\ LogLast

LEMMA RecoveryOwnInit ==
    ASSUME RecoveryInit
    PROVE  RecoveryOwnInv
<1>1. RecoveryInv /\ SingleInv  BY RecoveryInvInit, SingleInit DEF RecoveryInit, SingleInv
<1>2. LogLast  BY FundingAssumption DEF RecoveryInit, LogLast
<1> QED  BY <1>1, <1>2 DEF RecoveryOwnInv

LEMMA RecoveryOwnNext ==
    ASSUME OneRun, RecoveryOwnInv, [RecoveryNext]_allVars
    PROVE  RecoveryOwnInv'
<1>1. RecoveryInv'  BY RecoveryInvNext DEF RecoveryOwnInv
<1>2. BillingInv /\ SingleInv /\ LogLast /\ RecoveryTypes
  BY DEF RecoveryOwnInv, RecoveryInv, SessionInv
<1>3. CASE Billing
  BY <1>1, <1>2, <1>3, SingleNext, LogLastNext DEF Billing, RecoveryOwnInv
<1>4. ASSUME NEW s \in Sessions, LogUsage(s) PROVE RecoveryOwnInv'
  <2>1. UNCHANGED vars /\ pc[s] = "done" /\ UNCHANGED pc  BY <1>4 DEF LogUsage, vars
  <2>2. SingleInv'  BY <1>2, <2>1, SingleNext
  <2>3. \A t \in Sessions \ {s} : RequestOf[t] # RequestOf[s]  BY DEF OneRun
  <2>4. \A t \in Sessions \ {s} : usageLog'[RequestOf[t]] = usageLog[RequestOf[t]]
    BY <1>2, <1>4, <2>3, FundingAssumption DEF LogUsage, RecoveryTypes
  <2>5. LogLast'  BY <1>2, <2>1, <2>4 DEF LogLast
  <2> QED  BY <1>1, <2>2, <2>5 DEF RecoveryOwnInv
<1>5. ASSUME NEW r \in Requests, Expire(r) PROVE RecoveryOwnInv'
  <2>1. UNCHANGED vars /\ UNCHANGED usageLog  BY <1>5 DEF Expire
  <2> QED  BY <1>1, <1>2, <2>1, SingleNext, LogLastNext DEF RecoveryOwnInv
<1>6. ASSUME NEW r \in Requests, Recover(r) PROVE RecoveryOwnInv'
  <2>1. SingleInv'  BY <1>2, <1>6, SingleRecover
  <2>2. UNCHANGED <<pc, usageLog>>  BY <1>6 DEF Recover
  <2>3. LogLast'  BY <1>2, <2>2 DEF LogLast
  <2> QED  BY <1>1, <2>1, <2>3 DEF RecoveryOwnInv
<1>7. CASE UNCHANGED allVars
  <2>1. UNCHANGED vars /\ UNCHANGED usageLog  BY <1>7 DEF allVars, recoveryVars
  <2> QED  BY <1>1, <1>2, <2>1, SingleNext, LogLastNext DEF RecoveryOwnInv
<1> QED  BY <1>3, <1>4, <1>5, <1>6, <1>7 DEF RecoveryNext

LEMMA RecoveryOwnInvariant ==
    ASSUME OneRun
    PROVE  RecoverySpec => []RecoveryOwnInv
<1>1. RecoveryInit => RecoveryOwnInv  BY RecoveryOwnInit
<1>2. RecoveryOwnInv /\ [RecoveryNext]_allVars => RecoveryOwnInv'  BY RecoveryOwnNext
<1> QED  BY <1>1, <1>2, PTL DEF RecoverySpec

\* A late session and the recovery agree on how its hold ended, and a settled
\* session's receipt is still what the ledger charged.
THEOREM RecoveryLateEndsAgree ==
    ASSUME OneRun
    PROVE  RecoverySpec => []LateEndsAgree
<1>1. RecoveryOwnInv => LateEndsAgree
  <2> SUFFICES ASSUME RecoveryOwnInv PROVE LateEndsAgree  OBVIOUS
  <2>1. BillingInv /\ SingleInv  BY DEF RecoveryOwnInv, RecoveryInv, SessionInv
  <2>2. EndsAgree  BY <2>1 DEF BillingInv, Control, EndOfPc, EndsAgree
  <2> QED  BY <2>1, <2>2, ReceiptOfInv DEF LateEndsAgree
<1> QED  BY <1>1, RecoveryOwnInvariant, PTL

-----------------------------------------------------------------------------
(***************************************************************************)
(* The projection users.claude_quota and the ledger's balance.             *)
(***************************************************************************)
LEMMA ProjectionNat ==
    ASSUME BillingInv, SingleInv, NEW s \in Sessions
    PROVE  InProjection(s) \in Nat /\ Taken(s) \in Nat
<1>1. fund[s].legacyHeld \in Nat  BY DEF SingleInv, Single, Projected
<1>2. H(s).amount \in Nat /\ H(s).charged \in Nat
  BY FundingAssumption DEF BillingInv, Types, Holds, H
<1> QED  BY <1>1, <1>2 DEF InProjection, Taken, TakenFor

LEMMA ProjectionNatNext ==
    ASSUME BillingInv', SingleInv', NEW s \in Sessions
    PROVE  InProjection(s)' \in Nat /\ Taken(s)' \in Nat
<1>1. fund'[s].legacyHeld \in Nat  BY DEF SingleInv, Single, Projected
<1>2. H(s)'.amount \in Nat /\ H(s)'.charged \in Nat
  BY FundingAssumption DEF BillingInv, Types, Holds, H
<1> QED  BY <1>1, <1>2 DEF InProjection, Taken, TakenFor

\* With one run per request a step of s leaves the rows of other sessions.
LEMMA OtherRows ==
    ASSUME OneRun, NEW s \in Sessions, GoodStep(s), NEW t \in Sessions \ {s}
    PROVE  /\ H(t)' = H(t) /\ InProjection(t)' = InProjection(t) /\ Taken(t)' = Taken(t)
           /\ pc'[t] = pc[t] /\ op'[t] = op[t] /\ fund'[t] = fund[t] /\ log'[t] = log[t]
           /\ Closing(t)' = Closing(t)
<1>1. RequestOf[t] \in Requests \ {RequestOf[s]}  BY FundingAssumption DEF OneRun
<1>2. H(t)' = H(t)  BY <1>1 DEF GoodStep, OtherHolds, H
<1>3. /\ pc'[t] = pc[t] /\ op'[t] = op[t] /\ fund'[t] = fund[t] /\ log'[t] = log[t]
  BY DEF GoodStep, Others
<1>4. InProjection(t)' = InProjection(t)  BY <1>3 DEF InProjection
<1>5. Taken(t)' = Taken(t)  BY <1>2 DEF Taken, TakenFor
<1>6. Closing(t)' = Closing(t)  BY <1>3 DEF Closing, Over
<1> QED  BY <1>2, <1>3, <1>4, <1>5, <1>6

\* The gaps are numbers, now and after a step.
LEMMA GapTypes ==
    ASSUME BillingInv, SingleInv
    PROVE  Behind \in [Sessions -> Nat] /\ Ahead \in [Sessions -> Nat]
<1>1. ASSUME NEW s \in Sessions
      PROVE  /\ (IF InProjection(s) > Taken(s) THEN InProjection(s) - Taken(s) ELSE 0) \in Nat
             /\ (IF InProjection(s) < Taken(s) THEN Taken(s) - InProjection(s) ELSE 0) \in Nat
  BY ProjectionNat
<1> QED  BY <1>1 DEF Behind, Ahead

LEMMA GapTypesNext ==
    ASSUME BillingInv', SingleInv'
    PROVE  Behind' \in [Sessions -> Nat] /\ Ahead' \in [Sessions -> Nat]
<1>1. ASSUME NEW s \in Sessions
      PROVE  /\ (IF InProjection(s)' > Taken(s)' THEN InProjection(s)' - Taken(s)' ELSE 0) \in Nat
             /\ (IF InProjection(s)' < Taken(s)' THEN Taken(s)' - InProjection(s)' ELSE 0) \in Nat
  BY ProjectionNatNext
<1> QED  BY <1>1 DEF Behind, Ahead

\* A step of a session moves its own gap with the projection and the balance.
LEMMA GapStep ==
    ASSUME OneRun, BillingInv, SingleInv, BillingInv', SingleInv', ProjectionSum,
           NEW s \in Sessions, GoodStep(s)
    PROVE  ProjectionSum'
<1> SUFFICES ASSUME earnings' = 0, \A t \in Sessions : log'[t] # "unrepaired" /\ pc'[t] # "crashed"
             PROVE  legacy' + Total(Behind') = available' + Total(Ahead')
  BY DEF ProjectionSum
<1>1. \A t \in Sessions : log[t] # "unrepaired" /\ pc[t] # "crashed"
  BY DEF GoodStep, Others
<1>2. legacy + Total(Behind) = available + Total(Ahead)
  BY <1>1 DEF ProjectionSum, GoodStep
<1>3. Behind \in [Sessions -> Nat] /\ Ahead \in [Sessions -> Nat]  BY GapTypes
<1>4. Behind' \in [Sessions -> Nat] /\ Ahead' \in [Sessions -> Nat]  BY GapTypesNext
<1>5. ASSUME NEW t \in Sessions \ {s} PROVE Behind'[t] = Behind[t] /\ Ahead'[t] = Ahead[t]
  BY OtherRows DEF Behind, Ahead
<1>6. /\ Total(Behind) \in Nat /\ Total(Behind') \in Nat
      /\ Total(Behind') = Total(Behind) - Behind[s] + Behind'[s]
  BY <1>3, <1>4, <1>5, FundingAssumption, TotalUpdate
<1>7. /\ Total(Ahead) \in Nat /\ Total(Ahead') \in Nat
      /\ Total(Ahead') = Total(Ahead) - Ahead[s] + Ahead'[s]
  BY <1>3, <1>4, <1>5, FundingAssumption, TotalUpdate
<1>8. /\ InProjection(s) \in Nat /\ Taken(s) \in Nat
      /\ InProjection(s)' \in Nat /\ Taken(s)' \in Nat
  BY ProjectionNat, ProjectionNatNext
<1>9. Behind[s] - Ahead[s] = InProjection(s) - Taken(s)  BY <1>8 DEF Behind, Ahead
<1>10. Behind'[s] - Ahead'[s] = InProjection(s)' - Taken(s)'  BY <1>8 DEF Behind, Ahead
<1>11. legacy' + InProjection(s)' = legacy + InProjection(s)
  BY DEF GoodStep, ProjectionMoves, SingleInv
<1>12. available' + Taken(s)' = available + Taken(s)  BY DEF GoodStep, WalletMoves
<1>13. legacy \in Int /\ legacy' \in Int /\ available \in Nat /\ available' \in Nat
  BY DEF BillingInv, Types
<1>14. Behind[s] \in Nat /\ Behind'[s] \in Nat /\ Ahead[s] \in Nat /\ Ahead'[s] \in Nat
  BY <1>3, <1>4
<1>15. Total(Behind') - Total(Ahead') = Total(Behind) - Total(Ahead) - (InProjection(s) - Taken(s))
                                      + (InProjection(s)' - Taken(s)')
  BY <1>6, <1>7, <1>8, <1>9, <1>10, <1>14
<1>16. legacy' - available' = legacy - available + (InProjection(s) - Taken(s))
                                - (InProjection(s)' - Taken(s)')
  BY <1>8, <1>11, <1>12, <1>13
<1>17. Total(Behind') - Total(Ahead') = available' - legacy'
  BY <1>2, <1>6, <1>7, <1>8, <1>13, <1>15, <1>16
<1> QED  BY <1>6, <1>7, <1>13, <1>17

\* So does every step.
LEMMA GapNext ==
    ASSUME OneRun, BillingInv, SingleInv, BillingInv', SingleInv', ProjectionSum, [Next]_vars
    PROVE  ProjectionSum'
<1>1. ASSUME NEW s \in Sessions, Step(s) PROVE ProjectionSum'
  BY <1>1, StepControl, GapStep
<1>2. legacy \in Int /\ available \in Nat /\ earnings \in Nat  BY DEF BillingInv, Types
<1>3. Total(Behind) \in Nat /\ Total(Ahead) \in Nat
  BY GapTypes, TotalFinite, FundingAssumption
<1>4. ASSUME Rest, UNCHANGED hold
      PROVE  Behind' = Behind /\ Ahead' = Ahead
  BY <1>4 DEF Rest, Behind, Ahead, InProjection, Taken, TakenFor, H
<1>5. ASSUME TopUp, UNCHANGED <<token, sess, pc, crashes>> PROVE ProjectionSum'
  <2>1. Behind' = Behind /\ Ahead' = Ahead /\ UNCHANGED <<log, pc>>
    BY <1>4, <1>5, PaymentRest DEF Rest
  <2>2. legacy' = legacy + 1 /\ available' = available + 1 /\ earnings' = earnings
    BY <1>5 DEF TopUp
  <2> QED  BY <1>2, <1>3, <2>1, <2>2 DEF ProjectionSum
<1>6. ASSUME CreditEarnings PROVE ProjectionSum'
  <2>1. earnings' # 0  BY <1>2, <1>6 DEF CreditEarnings
  <2> QED  BY <2>1 DEF ProjectionSum
<1>7. ASSUME NEW s \in Sessions, Disconnect(s), UNCHANGED <<token, sess, pc, crashes>>
      PROVE  ProjectionSum'
  <2>1. Behind' = Behind /\ Ahead' = Ahead /\ UNCHANGED <<log, pc>>
    BY <1>4, <1>7, PaymentRest DEF Rest
  <2>2. UNCHANGED <<legacy, available, earnings>>  BY <1>7 DEF Disconnect, walletVars, ledgerVars
  <2> QED  BY <2>1, <2>2 DEF ProjectionSum
<1>8. ASSUME NEW i \in Instances, Crash(i) PROVE ProjectionSum'
  <2>1. \E t \in Sessions : pc'[t] = "crashed"  BY <1>8 DEF Crash
  <2> QED  BY <2>1 DEF ProjectionSum
<1>9. CASE UNCHANGED vars
  <2>1. Behind' = Behind /\ Ahead' = Ahead /\ UNCHANGED <<log, pc, legacy, available, earnings>>
    BY <1>4, <1>9, IdleRest DEF Rest
  <2> QED  BY <2>1 DEF ProjectionSum
<1> QED  BY <1>1, <1>5, <1>6, <1>7, <1>8, <1>9 DEF Next, NextUp, Environment, Finished

\* A settlement or refund that reported success stays final.
LEMMA CallFinalNext ==
    ASSUME OneRun, BillingInv, \A t \in Sessions : CallFinal(t), [Next]_vars, NEW t \in Sessions
    PROVE  CallFinal(t)'
<1>1. ASSUME op'[t] = op[t], fund'[t] = fund[t], H(t)' = H(t) PROVE CallFinal(t)'
  BY <1>1 DEF CallFinal, Returned
<1>2. ASSUME NEW s \in Sessions, Step(s) PROVE CallFinal(t)'
  <2>1. GoodStep(s)  BY <1>2, StepControl
  <2>2. CASE t = s  BY <2>1, <2>2 DEF GoodStep
  <2>3. CASE t # s  BY <1>1, <2>1, <2>3, OtherRows
  <2> QED  BY <2>2, <2>3
<1>3. CASE /\ TopUp \/ CreditEarnings \/ (\E s \in Sessions : Disconnect(s))
           /\ UNCHANGED <<token, sess, pc, crashes>>
  BY <1>1, <1>3, PaymentRest DEF Rest, H
<1>4. ASSUME NEW i \in Instances, Crash(i) PROVE CallFinal(t)'
  <2>1. /\ fund' = fund /\ hold' = hold
        /\ op'[t] = NoCall \/ op'[t] = op[t]
    BY <1>4, CrashControl DEF Crashed
  <2>2. CASE op'[t] = op[t]  BY <1>1, <2>1, <2>2 DEF H
  <2>3. CASE op'[t] = NoCall  BY <2>3 DEF CallFinal, NoCall
  <2> QED  BY <2>1, <2>2, <2>3
<1>5. CASE UNCHANGED vars  BY <1>1, <1>5, IdleRest DEF Rest, H
<1> QED  BY <1>2, <1>3, <1>4, <1>5 DEF Next, NextUp, Environment, Finished

\* The invariant behind the alignment of the projection.
AlignedInv == OwnInv /\ ProjectionSum /\ \A s \in Sessions : CallFinal(s)

LEMMA AlignedInvariant ==
    ASSUME OneRun
    PROVE  Spec => []AlignedInv
<1>1. Init => AlignedInv
  <2> SUFFICES ASSUME Init PROVE AlignedInv  OBVIOUS
  <2>1. OwnInv  BY SessionInit, SingleInit DEF OwnInv, SingleInv
  <2>2. Behind \in [Sessions -> Nat] /\ Ahead \in [Sessions -> Nat]
    BY <2>1, GapTypes DEF OwnInv, SessionInv
  <2>3. ASSUME NEW s \in Sessions PROVE InProjection(s) = 0 /\ Taken(s) = 0 /\ op[s] = NoCall
    BY FundingAssumption DEF Init, FundingInit, InProjection, Taken, TakenFor, H, NoHold, NewFunding, NoCall
  <2>4. \A s \in Sessions : Behind[s] = 0 /\ Ahead[s] = 0  BY <2>3 DEF Behind, Ahead
  <2>5. Total(Behind) = 0 /\ Total(Ahead) = 0  BY <2>2, <2>4, TotalZero
  <2>6. legacy + 0 = available + 0  BY DEF Init, FundingInit
  <2>7. \A s \in Sessions : CallFinal(s)  BY <2>3 DEF CallFinal, NoCall
  <2> QED  BY <2>1, <2>5, <2>6, <2>7 DEF AlignedInv, ProjectionSum
<1>2. AlignedInv /\ [Next]_vars => AlignedInv'
  <2> SUFFICES ASSUME AlignedInv, [Next]_vars PROVE AlignedInv'  OBVIOUS
  <2>1. OwnInv'  BY SessionNext, SingleNext DEF AlignedInv, OwnInv, SessionInv
  <2>2. ProjectionSum'  BY <2>1, GapNext DEF AlignedInv, OwnInv, SessionInv
  <2>3. \A s \in Sessions : CallFinal(s)'  BY CallFinalNext DEF AlignedInv, OwnInv, SessionInv
  <2> QED  BY <2>1, <2>2, <2>3 DEF AlignedInv
<1> QED  BY <1>1, <1>2, PTL DEF Spec

\* A session between calls has projected what the ledger holds or charged for
\* it; only of a released hold may something be left.
LEMMA AtRest ==
    ASSUME OwnInv, NEW s \in Sessions, CallFinal(s), op[s].at \in {"idle", "wait", "returned"},
           log[s] # "unrepaired", pc[s] # "crashed"
    PROVE  /\ InProjection(s) = fund[s].legacyHeld /\ fund[s].legacyHeld \in Nat
           /\ Taken(s) = (IF H(s).status = "released" THEN 0 ELSE fund[s].legacyHeld)
<1>1. InProjection(s) = fund[s].legacyHeld  BY DEF InProjection
<1>2. Single(s) /\ SettledKnown(s) /\ fund[s].legacyHeld \in Nat
  BY DEF OwnInv, SingleInv, Single, Projected
<1>3. /\ H(s).status \in {"none", "open", "settled", "released"} /\ H(s).amount \in Nat
      /\ fund[s].reserved \in Nat
  BY FundingAssumption DEF OwnInv, SessionInv, BillingInv, Types, Holds, H, Funds
<1> SUFFICES Taken(s) = (IF H(s).status = "released" THEN 0 ELSE fund[s].legacyHeld)
  BY <1>1, <1>2
<1>4. CASE H(s).status = "none"  BY <1>2, <1>4 DEF Single, HoldKnown, NewFunding, Taken, TakenFor
<1>5. CASE H(s).status = "open"
  <2>1. fund[s].known  BY <1>2, <1>5 DEF Single, HoldKnown
  <2>2. H(s).amount = fund[s].reserved
    BY <1>2, <1>3, <1>5, <2>1 DEF Single, HoldKnown, Growing
  <2>3. fund[s].legacyHeld = fund[s].reserved
    BY <1>2, <1>5, <2>1 DEF Single, Projected, SettleProjected, CallFinal, Returned
  <2> QED  BY <1>5, <2>2, <2>3 DEF Taken, TakenFor
<1>6. CASE H(s).status = "settled"
  <2>1. /\ op[s].kind = "settle" /\ Returned(s, {"ok"}) /\ H(s).charged = op[s].amount
        /\ fund[s].known
    BY <1>2, <1>6 DEF SettledKnown
  <2>2. fund[s].legacyHeld = op[s].amount
    BY <1>2, <2>1 DEF Single, Projected, SettleProjected, Returned
  <2> QED  BY <1>6, <2>1, <2>2 DEF Taken, TakenFor
<1>7. CASE H(s).status = "released"  BY <1>7 DEF Taken, TakenFor
<1> QED  BY <1>3, <1>4, <1>5, <1>6, <1>7

\* With one run per request, and until a server dies or a payout copies the
\* ledger's balance in the middle of a funding call, users.claude_quota is the
\* ledger's available balance whenever no session is inside a funding call,
\* short of what is left of released holds.
THEOREM SessionProjectionAligned ==
    ASSUME OneRun
    PROVE  Spec => [](earnings = 0 /\ (\A s \in Sessions : pc[s] # "crashed") => ProjectionAligned)
<1>1. AlignedInv => (earnings = 0 /\ (\A s \in Sessions : pc[s] # "crashed") => ProjectionAligned)
  <2> SUFFICES ASSUME AlignedInv, earnings = 0, \A s \in Sessions : pc[s] # "crashed",
                      \A s \in Sessions : op[s].at \in {"idle", "wait", "returned"},
                      \A s \in Sessions : log[s] # "unrepaired"
               PROVE  legacy = available - Total(Stranded)
    BY DEF ProjectionAligned
  <2>1. OwnInv /\ BillingInv /\ SingleInv /\ legacy + Total(Behind) = available + Total(Ahead)
    BY DEF AlignedInv, OwnInv, SessionInv, ProjectionSum
  <2>2. Behind \in [Sessions -> Nat] /\ Ahead \in [Sessions -> Nat]  BY <2>1, GapTypes
  <2>3. ASSUME NEW s \in Sessions
        PROVE  Ahead[s] = 0 /\ Behind[s] = Stranded[s] /\ Stranded[s] \in Nat
    <3>1. /\ InProjection(s) = fund[s].legacyHeld /\ fund[s].legacyHeld \in Nat
          /\ Taken(s) = (IF H(s).status = "released" THEN 0 ELSE fund[s].legacyHeld)
      BY <2>1, AtRest DEF AlignedInv
    <3> QED  BY <3>1 DEF Ahead, Behind, Stranded
  <2>4. Total(Ahead) = 0  BY <2>2, <2>3, TotalZero
  <2>5. Behind = Stranded  BY <2>2, <2>3 DEF Stranded
  <2>6. Total(Behind) \in Nat /\ legacy \in Int /\ available \in Nat
    BY <2>1, <2>2, TotalFinite, FundingAssumption DEF BillingInv, Types
  <2> QED  BY <2>1, <2>4, <2>5, <2>6
<1> QED  BY <1>1, AlignedInvariant, PTL

-----------------------------------------------------------------------------
(***************************************************************************)
(* What recovery does to the projection.                                   *)
(***************************************************************************)
LEMMA BoundTypes ==
    ASSUME BillingInv, SingleInv
    PROVE  /\ OpenHolds \in [Sessions -> Nat] /\ AtMost \in [Sessions -> Nat]
           /\ AtLeast \in [Sessions -> Nat]
<1>1. ASSUME NEW s \in Sessions PROVE InProjection(s) \in Nat /\ H(s).amount \in Nat
  BY ProjectionNat, FundingAssumption DEF BillingInv, Types, Holds, H
<1> QED  BY <1>1 DEF OpenHolds, AtMost, AtLeast

LEMMA BoundTypesNext ==
    ASSUME BillingInv', SingleInv'
    PROVE  /\ OpenHolds' \in [Sessions -> Nat] /\ AtMost' \in [Sessions -> Nat]
           /\ AtLeast' \in [Sessions -> Nat]
<1>1. ASSUME NEW s \in Sessions PROVE InProjection(s)' \in Nat /\ H(s)'.amount \in Nat
  BY ProjectionNatNext, FundingAssumption DEF BillingInv, Types, Holds, H
<1> QED  BY <1>1 DEF OpenHolds, AtMost, AtLeast

\* What the three columns say of a session, before and after.
LEMMA BoundRows ==
    ASSUME NEW s \in Sessions
    PROVE  /\ OpenHolds[s] = (IF H(s).status = "open" THEN H(s).amount ELSE 0)
           /\ AtMost[s] = (IF H(s).status = "settled" THEN 0 ELSE InProjection(s))
           /\ AtLeast[s] = (IF H(s).status = "settled" \/ (H(s).status = "released" /\ Closing(s))
                            THEN 0 ELSE InProjection(s))
           /\ OpenHolds'[s] = (IF H(s)'.status = "open" THEN H(s)'.amount ELSE 0)
           /\ AtMost'[s] = (IF H(s)'.status = "settled" THEN 0 ELSE InProjection(s)')
           /\ AtLeast'[s] = (IF H(s)'.status = "settled" \/ (H(s)'.status = "released" /\ Closing(s)')
                             THEN 0 ELSE InProjection(s)')
BY DEF OpenHolds, AtMost, AtLeast

\* A run that gives its hold up stays as it is: nothing was abandoned before.
LEMMA StillNone ==
    ASSUME OneRun, BillingInv, SingleInv, NEW s \in Sessions, GoodStep(s),
           \A t \in Sessions : ~Abandoned(t)'
    PROVE  \A t \in Sessions : ~Abandoned(t)
<1>1. ASSUME NEW t \in Sessions \ {s} PROVE ~Abandoned(t)
  <2>1. H(t)' = H(t) /\ Closing(t)' = Closing(t)  BY OtherRows
  <2> QED  BY <2>1 DEF Abandoned
<1>2. ~Abandoned(s)
  <2> SUFFICES ASSUME H(s).status = "open", Closing(s) PROVE FALSE  BY DEF Abandoned
  <2>1. pc[s] # "new"  BY DEF SingleInv, Single, HoldKnown
  <2>2. Closing(s)' /\ hold' = hold  BY <2>1 DEF GoodStep
  <2> QED  BY <2>2 DEF Abandoned, H
<1> QED  BY <1>1, <1>2

\* What a step of s does to its own rows: the open hold and the upper bound
\* move with the two balances, the lower bound never runs ahead of them.
LEMMA StepRow ==
    ASSUME BillingInv, SingleInv, BillingInv', SingleInv', NEW s \in Sessions, GoodStep(s),
           SettledLive(s), ~Abandoned(s)'
    PROVE  /\ available' + OpenHolds'[s] + legacy + AtMost[s]
                <= available + OpenHolds[s] + legacy' + AtMost'[s]
           /\ available + OpenHolds[s] + legacy' + AtLeast'[s]
                <= available' + OpenHolds'[s] + legacy + AtLeast[s]
<1>1. /\ InProjection(s) \in Nat /\ Taken(s) \in Nat
      /\ InProjection(s)' \in Nat /\ Taken(s)' \in Nat
  BY ProjectionNat, ProjectionNatNext
<1>2. legacy \in Int /\ legacy' \in Int /\ available \in Nat /\ available' \in Nat
  BY DEF BillingInv, Types
<1>3. available' + Taken(s)' = available + Taken(s)  BY DEF GoodStep, WalletMoves
<1>4. ProjectionMoves(s)  BY DEF GoodStep, SingleInv
<1>5. /\ H(s).status \in {"none", "open", "settled", "released"} /\ H(s).amount \in Nat
      /\ H(s)'.status \in {"none", "open", "settled", "released"} /\ H(s)'.amount \in Nat
  BY FundingAssumption DEF BillingInv, Types, Holds, H
<1>6. H(s).status \in {"settled", "released"} => H(s)' = H(s)
  BY FundingAssumption DEF GoodStep, EndsFinal, H
<1>7. CASE H(s).status = "settled"
  <2>1. op[s].at = "returned"  BY <1>7 DEF SettledLive, SettledKnown, GoodStep, Returned
  <2>2. legacy' = legacy  BY <2>1 DEF GoodStep
  <2>3. H(s)' = H(s)  BY <1>6, <1>7
  <2>4. available' = available  BY <1>1, <1>2, <1>3, <2>3 DEF Taken, TakenFor
  <2>5. /\ OpenHolds[s] = 0 /\ OpenHolds'[s] = 0 /\ AtMost[s] = 0 /\ AtMost'[s] = 0
        /\ AtLeast[s] = 0 /\ AtLeast'[s] = 0
    BY <1>7, <2>3, BoundRows
  <2> QED  BY <1>2, <2>2, <2>4, <2>5
<1>8. CASE H(s).status # "settled" /\ H(s)'.status = "settled"
  <2>1. /\ H(s)'.charged = op'[s].amount /\ op'[s].kind = "settle" /\ Returned(s, {"ok"})'
        /\ fund'[s].known /\ pc'[s] # "crashed"
    BY <1>8 DEF GoodStep, ChargeMoves
  <2>2. fund'[s].legacyHeld = op'[s].amount
    BY <2>1 DEF SingleInv, Single, Projected, SettleProjected, Returned
  <2>3. InProjection(s)' = Taken(s)'  BY <1>8, <2>1, <2>2 DEF InProjection, Taken, TakenFor
  <2>4. legacy' + InProjection(s)' = legacy + InProjection(s)
    BY <1>4, <1>8 DEF ProjectionMoves, H
  <2>5. H(s).status # "released"  BY <1>6, <1>8
  <2>6. /\ OpenHolds[s] = Taken(s) /\ AtMost[s] = InProjection(s) /\ AtLeast[s] = InProjection(s)
        /\ OpenHolds'[s] = 0 /\ AtMost'[s] = 0 /\ AtLeast'[s] = 0
    BY <1>5, <1>8, <2>5, BoundRows DEF Taken, TakenFor
  <2> QED  BY <1>1, <1>2, <1>3, <2>3, <2>4, <2>6
<1>9. CASE H(s).status # "settled" /\ H(s)'.status # "settled"
  <2>1. /\ OpenHolds[s] = Taken(s) /\ AtMost[s] = InProjection(s)
        /\ OpenHolds'[s] = Taken(s)' /\ AtMost'[s] = InProjection(s)'
    BY <1>5, <1>9, BoundRows DEF Taken, TakenFor
  <2>2. /\ AtLeast[s] = (IF H(s).status = "released" /\ Closing(s) THEN 0 ELSE InProjection(s))
        /\ AtLeast'[s] = (IF H(s)'.status = "released" /\ Closing(s)' THEN 0 ELSE InProjection(s)')
    BY <1>9, BoundRows
  <2>3. CASE legacy' + InProjection(s)' = legacy + InProjection(s)
    <3>1. CASE H(s).status = "released" /\ Closing(s)
      <4>1. pc[s] # "new"  BY <3>1 DEF SingleInv, Single, HoldKnown
      <4>2. Closing(s)' /\ legacy' = legacy /\ H(s)' = H(s)  BY <1>6, <3>1, <4>1 DEF GoodStep
      <4>3. AtLeast[s] = 0 /\ AtLeast'[s] = 0  BY <2>2, <3>1, <4>2
      <4> QED  BY <1>1, <1>2, <1>3, <2>1, <2>3, <4>2, <4>3
    <3>2. CASE ~(H(s).status = "released" /\ Closing(s))
      <4>1. AtLeast[s] = InProjection(s) /\ AtLeast'[s] \in {0, InProjection(s)'}
        BY <2>2, <3>2
      <4> QED  BY <1>1, <1>2, <1>3, <2>1, <2>3, <4>1
    <3> QED  BY <3>1, <3>2
  <2>4. CASE /\ legacy' = legacy /\ InProjection(s) = 0 /\ fund'[s] = fund[s] /\ hold' = hold
             /\ Closing(s)' /\ log'[s] = "unrepaired"
    <3>1. H(s)' = H(s)  BY <2>4 DEF H
    <3>2. available' = available  BY <1>1, <1>2, <1>3, <3>1 DEF Taken, TakenFor
    <3>3. H(s)'.status = "none" => InProjection(s)' = 0
      BY DEF SingleInv, Single, HoldKnown, NewFunding, InProjection
    <3>4. H(s)'.status # "open"  BY <2>4 DEF Abandoned
    <3>5. AtLeast[s] = 0 /\ AtLeast'[s] = 0  BY <1>5, <1>9, <2>2, <2>4, <3>3, <3>4
    <3>6. Taken(s)' = Taken(s)  BY <3>1 DEF Taken, TakenFor
    <3> QED  BY <1>1, <1>2, <2>1, <2>4, <3>2, <3>5, <3>6
  <2> QED  BY <1>4, <2>3, <2>4 DEF ProjectionMoves
<1> QED  BY <1>7, <1>8, <1>9

\* Two balances with a column each: when the row moves with the balances the
\* sums keep their order.
LEMMA OrderKept ==
    ASSUME NEW a \in Int, NEW a1 \in Int, NEW l \in Int, NEW l1 \in Int,
           NEW T \in Int, NEW T1 \in Int, NEW U \in Int, NEW U1 \in Int,
           NEW x \in Int, NEW x1 \in Int, NEW y \in Int, NEW y1 \in Int,
           T1 = T - x + x1, U1 = U - y + y1, a + T <= l + U,
           a1 + x1 + l + y <= a + x + l1 + y1
    PROVE  a1 + T1 <= l1 + U1
OBVIOUS

\* A step of a session keeps both bounds.
LEMMA BoundsStep ==
    ASSUME OneRun, BillingInv, SingleInv, BillingInv', SingleInv', ProjectionBounds,
           NEW s \in Sessions, GoodStep(s), SettledLive(s), UNCHANGED overlapped
    PROVE  ProjectionBounds'
<1> SUFFICES ASSUME earnings' = 0, ~overlapped', \A t \in Sessions : ~Abandoned(t)'
             PROVE  /\ available' + Total(OpenHolds') <= legacy' + Total(AtMost')
                    /\ legacy' + Total(AtLeast') <= available' + Total(OpenHolds')
  BY DEF ProjectionBounds
<1>1. \A t \in Sessions : ~Abandoned(t)  BY StillNone
<1>2. /\ available + Total(OpenHolds) <= legacy + Total(AtMost)
      /\ legacy + Total(AtLeast) <= available + Total(OpenHolds)
  BY <1>1 DEF ProjectionBounds, GoodStep
<1>3. /\ OpenHolds \in [Sessions -> Nat] /\ AtMost \in [Sessions -> Nat]
      /\ AtLeast \in [Sessions -> Nat]
  BY BoundTypes
<1>4. /\ OpenHolds' \in [Sessions -> Nat] /\ AtMost' \in [Sessions -> Nat]
      /\ AtLeast' \in [Sessions -> Nat]
  BY BoundTypesNext
<1>5. ASSUME NEW t \in Sessions \ {s}
      PROVE  OpenHolds'[t] = OpenHolds[t] /\ AtMost'[t] = AtMost[t] /\ AtLeast'[t] = AtLeast[t]
  BY OtherRows, BoundRows
<1>6. /\ Total(OpenHolds) \in Nat /\ Total(OpenHolds') \in Nat
      /\ Total(OpenHolds') = Total(OpenHolds) - OpenHolds[s] + OpenHolds'[s]
  <2>1. \A t \in Sessions \ {s} : OpenHolds'[t] = OpenHolds[t]  BY <1>5
  <2>2. OpenHolds \in [Sessions -> Nat] /\ OpenHolds' \in [Sessions -> Nat]  BY <1>3, <1>4
  <2> QED  BY <2>1, <2>2, FundingAssumption, TotalUpdate
<1>7. /\ Total(AtMost) \in Nat /\ Total(AtMost') \in Nat
      /\ Total(AtMost') = Total(AtMost) - AtMost[s] + AtMost'[s]
  <2>1. \A t \in Sessions \ {s} : AtMost'[t] = AtMost[t]  BY <1>5
  <2>2. AtMost \in [Sessions -> Nat] /\ AtMost' \in [Sessions -> Nat]  BY <1>3, <1>4
  <2> QED  BY <2>1, <2>2, FundingAssumption, TotalUpdate
<1>8. /\ Total(AtLeast) \in Nat /\ Total(AtLeast') \in Nat
      /\ Total(AtLeast') = Total(AtLeast) - AtLeast[s] + AtLeast'[s]
  <2>1. \A t \in Sessions \ {s} : AtLeast'[t] = AtLeast[t]  BY <1>5
  <2>2. AtLeast \in [Sessions -> Nat] /\ AtLeast' \in [Sessions -> Nat]  BY <1>3, <1>4
  <2> QED  BY <2>1, <2>2, FundingAssumption, TotalUpdate
<1>9. /\ available' + OpenHolds'[s] + legacy + AtMost[s]
           <= available + OpenHolds[s] + legacy' + AtMost'[s]
      /\ available + OpenHolds[s] + legacy' + AtLeast'[s]
           <= available' + OpenHolds'[s] + legacy + AtLeast[s]
  BY StepRow
<1>10. legacy \in Int /\ legacy' \in Int /\ available \in Nat /\ available' \in Nat
  BY DEF BillingInv, Types
<1>11. /\ OpenHolds[s] \in Nat /\ OpenHolds'[s] \in Nat /\ AtMost[s] \in Nat /\ AtMost'[s] \in Nat
       /\ AtLeast[s] \in Nat /\ AtLeast'[s] \in Nat
  BY <1>3, <1>4
<1>12. available' + Total(OpenHolds') <= legacy' + Total(AtMost')
  <2>1. available' + OpenHolds'[s] + legacy + AtMost[s]
          <= available + OpenHolds[s] + legacy' + AtMost'[s]
    BY <1>9
  <2> QED  BY <1>2, <1>6, <1>7, <1>10, <1>11, <2>1, OrderKept
<1>13. legacy' + Total(AtLeast') <= available' + Total(OpenHolds')
  <2>1. legacy' + AtLeast'[s] + available + OpenHolds[s]
          <= legacy + AtLeast[s] + available' + OpenHolds'[s]
    BY <1>9, <1>10, <1>11
  <2> QED  BY <1>2, <1>6, <1>8, <1>10, <1>11, <2>1, OrderKept
<1> QED  BY <1>12, <1>13

\* A crash freezes what a session has projected where it is.
LEMMA BoundsCrash ==
    ASSUME BillingInv, SingleInv, BillingInv', SingleInv', ProjectionBounds,
           NEW i \in Instances, Crash(i), UNCHANGED overlapped
    PROVE  ProjectionBounds'
<1> SUFFICES ASSUME earnings' = 0, ~overlapped', \A t \in Sessions : ~Abandoned(t)'
             PROVE  /\ available' + Total(OpenHolds') <= legacy' + Total(AtMost')
                    /\ legacy' + Total(AtLeast') <= available' + Total(OpenHolds')
  BY DEF ProjectionBounds
<1>1. /\ UNCHANGED <<fund, hold, available, legacy, earnings>>
      /\ \A t \in Sessions : Crashed(t) \/ (pc'[t] = pc[t] /\ op'[t] = op[t])
  BY CrashControl
<1>2. \A t \in Sessions : H(t)' = H(t)  BY <1>1 DEF H
<1>3. ASSUME NEW t \in Sessions PROVE Closing(t) => Closing(t)'
  BY <1>1 DEF Closing, Over, Crashed
<1>4. \A t \in Sessions : ~Abandoned(t)  BY <1>2, <1>3 DEF Abandoned
<1>5. /\ available + Total(OpenHolds) <= legacy + Total(AtMost)
      /\ legacy + Total(AtLeast) <= available + Total(OpenHolds)
  BY <1>1, <1>4 DEF ProjectionBounds
<1>6. /\ OpenHolds \in [Sessions -> Nat] /\ AtMost \in [Sessions -> Nat]
      /\ AtLeast \in [Sessions -> Nat]
      /\ OpenHolds' \in [Sessions -> Nat] /\ AtMost' \in [Sessions -> Nat]
      /\ AtLeast' \in [Sessions -> Nat]
  BY BoundTypes, BoundTypesNext
<1>7. OpenHolds' = OpenHolds  BY <1>2 DEF OpenHolds
<1>8. ASSUME NEW t \in Sessions PROVE AtMost[t] <= AtMost'[t] /\ AtLeast'[t] <= AtLeast[t]
  <2>1. CASE pc'[t] = pc[t] /\ op'[t] = op[t]
    <3>1. InProjection(t)' = InProjection(t) /\ Closing(t)' = Closing(t)
      BY <1>1, <2>1 DEF InProjection, Closing, Over
    <3>2. AtMost[t] = AtMost'[t] /\ AtLeast'[t] = AtLeast[t]  BY <1>2, <3>1, BoundRows
    <3> QED  BY <1>6, <3>2
  <2>2. CASE Crashed(t)
    <3>1. Closing(t)' /\ InProjection(t)' = fund[t].legacyHeld
      BY <1>1, <2>2 DEF Crashed, Closing, Over, InProjection, NoCall
    <3>2. fund[t].legacyHeld \in Nat /\ InProjection(t) <= fund[t].legacyHeld
      BY DEF SingleInv, Single, Projected, InProjection
    <3>3. H(t).status # "open"  BY <1>2, <3>1 DEF Abandoned
    <3>4. H(t).status = "none" => fund[t].legacyHeld = 0
      BY DEF SingleInv, Single, HoldKnown, NewFunding
    <3>5. H(t).status \in {"none", "open", "settled", "released"}
      BY FundingAssumption DEF BillingInv, Types, Holds, H
    <3>6. AtLeast'[t] = 0  BY <1>2, <3>1, <3>3, <3>4, <3>5, BoundRows
    <3>7. AtMost[t] <= AtMost'[t]  BY <1>2, <3>1, <3>2, BoundRows
    <3> QED  BY <1>6, <3>6, <3>7
  <2> QED  BY <1>1, <2>1, <2>2
<1>9. /\ Total(AtMost) \in Nat /\ Total(AtMost') \in Nat /\ Total(AtMost) <= Total(AtMost')
      /\ Total(AtLeast) \in Nat /\ Total(AtLeast') \in Nat /\ Total(AtLeast') <= Total(AtLeast)
  BY <1>6, <1>8, FundingAssumption, TotalMono
<1>10. Total(OpenHolds) \in Nat /\ legacy \in Int /\ available \in Nat
  BY <1>6, FundingAssumption, TotalFinite DEF BillingInv, Types
<1> QED  BY <1>1, <1>5, <1>7, <1>9, <1>10

\* Recovery copies the balance: beside sessions between calls, what each has
\* projected is what it holds.
LEMMA BoundsRecover ==
    ASSUME OneRun, RecoveryOwnInv, BillingInv', SingleInv', NEW r \in Requests, Recover(r)
    PROVE  ProjectionBounds'
<1> SUFFICES ASSUME ~overlapped', \A t \in Sessions : ~Abandoned(t)'
             PROVE  /\ available' + Total(OpenHolds') <= legacy' + Total(AtMost')
                    /\ legacy' + Total(AtLeast') <= available' + Total(OpenHolds')
  BY DEF ProjectionBounds
<1>1. BillingInv /\ SingleInv /\ RecoveryTypes  BY DEF RecoveryOwnInv, RecoveryInv, SessionInv
<1>2. Rest /\ RecoveredRow(r)  BY <1>1, RecoverControl
<1>3. ~Overlaps(r)  BY <1>1 DEF Recover, RecoveryTypes
<1>4. /\ OpenHolds' \in [Sessions -> Nat] /\ AtMost' \in [Sessions -> Nat]
      /\ AtLeast' \in [Sessions -> Nat]
  BY BoundTypesNext
<1>5. ASSUME NEW s \in Sessions PROVE OpenHolds'[s] <= AtMost'[s] /\ AtLeast'[s] <= OpenHolds'[s]
  <2>1. /\ ~MidCall(s)
        /\ ~Over(s) => RequestOf[s] # r /\ fund[s].legacyHeld = Taken(s)
    BY <1>3 DEF Overlaps
  <2>2. InProjection(s)' = fund[s].legacyHeld /\ fund[s].legacyHeld \in Nat
    BY <1>1, <1>2, <2>1 DEF Rest, InProjection, MidCall, SingleInv, Single, Projected
  <2>3. Over(s)' = Over(s) /\ (Over(s) => Closing(s)')  BY <1>2 DEF Rest, Over, Closing
  <2>4. /\ H(s)'.status \in {"none", "open", "settled", "released"} /\ H(s)'.amount \in Nat
    BY FundingAssumption DEF BillingInv, Types, Holds, H
  <2>5. H(s)'.status = "none" => fund[s].legacyHeld = 0
    BY <1>2 DEF Rest, SingleInv, Single, HoldKnown, NewFunding
  <2>6. CASE Over(s)
    <3>1. H(s)'.status # "open"  BY <2>3, <2>6 DEF Abandoned
    <3>2. OpenHolds'[s] = 0 /\ AtLeast'[s] = 0
      BY <2>2, <2>3, <2>4, <2>5, <2>6, <3>1, BoundRows
    <3>3. AtMost'[s] \in Nat  BY <1>4
    <3> QED  BY <3>2, <3>3
  <2>7. CASE ~Over(s)
    <3>1. H(s)' = H(s)  BY <1>2, <2>1, <2>7, FundingAssumption DEF RecoveredRow, H
    <3>2. /\ H(s)'.status = "open" => InProjection(s)' = H(s)'.amount
          /\ H(s)'.status \in {"none", "released"} => InProjection(s)' = 0
      BY <2>1, <2>2, <2>7, <3>1 DEF Taken, TakenFor
    <3>3. OpenHolds'[s] = AtMost'[s] /\ AtLeast'[s] = OpenHolds'[s]
      BY <2>4, <3>2, BoundRows
    <3> QED  BY <1>4, <3>3
  <2> QED  BY <2>6, <2>7
<1>6. /\ Total(OpenHolds') \in Nat /\ Total(AtMost') \in Nat /\ Total(OpenHolds') <= Total(AtMost')
  <2>1. \A s \in Sessions : OpenHolds'[s] <= AtMost'[s]  BY <1>5
  <2> QED  BY <1>4, <2>1, FundingAssumption, TotalMono
<1>7. /\ Total(AtLeast') \in Nat /\ Total(AtLeast') <= Total(OpenHolds')
  <2>1. \A s \in Sessions : AtLeast'[s] <= OpenHolds'[s]  BY <1>5
  <2> QED  BY <1>4, <2>1, FundingAssumption, TotalMono
<1>8. legacy' = available' /\ available' \in Nat  BY <1>2 DEF RecoveredRow, BillingInv, Types
<1> QED  BY <1>6, <1>7, <1>8

\* Nothing that the bounds are about changes.
LEMMA BoundsRest ==
    ASSUME Rest, UNCHANGED <<hold, overlapped>>
    PROVE  /\ OpenHolds' = OpenHolds /\ AtMost' = AtMost /\ AtLeast' = AtLeast
           /\ \A s \in Sessions : Abandoned(s)' = Abandoned(s)
           /\ UNCHANGED <<available, legacy, earnings>> /\ ProjectionBounds => ProjectionBounds'
<1>1. ASSUME NEW s \in Sessions
      PROVE  /\ H(s)' = H(s) /\ InProjection(s)' = InProjection(s) /\ Closing(s)' = Closing(s)
             /\ Abandoned(s)' = Abandoned(s)
  BY DEF Rest, H, InProjection, Closing, Over, Abandoned
<1>2. OpenHolds' = OpenHolds /\ AtMost' = AtMost /\ AtLeast' = AtLeast
  BY <1>1 DEF OpenHolds, AtMost, AtLeast
<1> QED  BY <1>1, <1>2 DEF ProjectionBounds

\* So does every billing step.
LEMMA BoundsNext ==
    ASSUME OneRun, BillingInv, SingleInv, BillingInv', SingleInv', ProjectionBounds,
           \A s \in Sessions : SettledLive(s), [Next]_vars, UNCHANGED overlapped
    PROVE  ProjectionBounds'
<1>1. ASSUME NEW s \in Sessions, Step(s) PROVE ProjectionBounds'
  BY <1>1, StepControl, BoundsStep
<1>2. /\ legacy \in Int /\ available \in Nat /\ earnings \in Nat
      /\ Total(OpenHolds) \in Nat /\ Total(AtMost) \in Nat /\ Total(AtLeast) \in Nat
  BY BoundTypes, TotalFinite, FundingAssumption DEF BillingInv, Types
<1>3. ASSUME TopUp, UNCHANGED <<token, sess, pc, crashes>> PROVE ProjectionBounds'
  <2>1. Rest /\ UNCHANGED hold  BY <1>3, PaymentRest
  <2>2. /\ OpenHolds' = OpenHolds /\ AtMost' = AtMost /\ AtLeast' = AtLeast
        /\ \A s \in Sessions : Abandoned(s)' = Abandoned(s)
    BY <2>1, BoundsRest
  <2>3. legacy' = legacy + 1 /\ available' = available + 1 /\ earnings' = earnings
    BY <1>3 DEF TopUp
  <2> QED  BY <1>2, <2>2, <2>3 DEF ProjectionBounds
<1>4. ASSUME CreditEarnings PROVE ProjectionBounds'
  <2>1. earnings' # 0  BY <1>2, <1>4 DEF CreditEarnings
  <2> QED  BY <2>1 DEF ProjectionBounds
<1>5. ASSUME NEW s \in Sessions, Disconnect(s), UNCHANGED <<token, sess, pc, crashes>>
      PROVE  ProjectionBounds'
  <2>1. Rest /\ UNCHANGED hold  BY <1>5, PaymentRest
  <2>2. UNCHANGED <<legacy, available, earnings>>  BY <1>5 DEF Disconnect, walletVars, ledgerVars
  <2> QED  BY <2>1, <2>2, BoundsRest
<1>6. ASSUME NEW i \in Instances, Crash(i) PROVE ProjectionBounds'  BY <1>6, BoundsCrash
<1>7. CASE UNCHANGED vars  BY <1>7, IdleRest, BoundsRest
<1> QED  BY <1>1, <1>3, <1>4, <1>5, <1>6, <1>7 DEF Next, NextUp, Environment, Finished

\* A billing step charges only the session that settles.
LEMMA SettledLiveNext ==
    ASSUME OneRun, BillingInv, \A t \in Sessions : SettledLive(t), [Next]_vars, NEW t \in Sessions
    PROVE  SettledLive(t)'
<1>1. ASSUME pc'[t] = pc[t], op'[t] = op[t], fund'[t] = fund[t], H(t)' = H(t) PROVE SettledLive(t)'
  BY <1>1 DEF SettledLive, SettledKnown, Returned
<1>2. ASSUME NEW s \in Sessions, Step(s) PROVE SettledLive(t)'
  <2>1. GoodStep(s)  BY <1>2, StepControl
  <2>2. CASE t = s  BY <2>1, <2>2 DEF GoodStep, SettledLive
  <2>3. CASE t # s  BY <1>1, <2>1, <2>3, OtherRows
  <2> QED  BY <2>2, <2>3
<1>3. CASE /\ TopUp \/ CreditEarnings \/ (\E s \in Sessions : Disconnect(s))
           /\ UNCHANGED <<token, sess, pc, crashes>>
  BY <1>1, <1>3, PaymentRest DEF Rest, H
<1>4. ASSUME NEW i \in Instances, Crash(i) PROVE SettledLive(t)'
  <2>1. /\ fund' = fund /\ hold' = hold
        /\ pc'[t] = "crashed" \/ (pc'[t] = pc[t] /\ op'[t] = op[t])
    BY <1>4, CrashControl DEF Crashed
  <2>2. CASE pc'[t] = pc[t] /\ op'[t] = op[t]  BY <1>1, <2>1, <2>2 DEF H
  <2>3. CASE pc'[t] = "crashed"  BY <2>3 DEF SettledLive, SettledKnown
  <2> QED  BY <2>1, <2>2, <2>3
<1>5. CASE UNCHANGED vars  BY <1>1, <1>5, IdleRest DEF Rest, H
<1> QED  BY <1>2, <1>3, <1>4, <1>5 DEF Next, NextUp, Environment, Finished

\* The invariant behind the realignment by recovery.
RealignInv == RecoveryOwnInv /\ ProjectionBounds /\ \A s \in Sessions : SettledLive(s)

LEMMA RealignInit ==
    ASSUME RecoveryInit
    PROVE  RealignInv
<1>1. RecoveryOwnInv /\ BillingInv /\ SingleInv
  BY RecoveryOwnInit DEF RecoveryOwnInv, RecoveryInv, SessionInv
<1>2. Init  BY DEF RecoveryInit
<1>3. ASSUME NEW s \in Sessions
      PROVE  InProjection(s) = 0 /\ H(s).status = "none"
  BY <1>2, FundingAssumption DEF Init, FundingInit, InProjection, H, NoHold, NewFunding, NoCall
<1>4. /\ OpenHolds \in [Sessions -> Nat] /\ AtMost \in [Sessions -> Nat]
      /\ AtLeast \in [Sessions -> Nat]
  BY <1>1, BoundTypes
<1>5. \A s \in Sessions : OpenHolds[s] = 0 /\ AtMost[s] = 0 /\ AtLeast[s] = 0
  BY <1>3, BoundRows
<1>6. Total(OpenHolds) = 0 /\ Total(AtMost) = 0 /\ Total(AtLeast) = 0
  BY <1>4, <1>5, TotalZero
<1>7. legacy = available /\ available \in Nat
  BY <1>1, <1>2 DEF Init, FundingInit, BillingInv, Types
<1>8. ProjectionBounds  BY <1>6, <1>7 DEF ProjectionBounds
<1>9. \A s \in Sessions : SettledLive(s)  BY <1>3 DEF SettledLive, SettledKnown
<1> QED  BY <1>1, <1>8, <1>9 DEF RealignInv

LEMMA RealignNext ==
    ASSUME OneRun, RealignInv, [RecoveryNext]_allVars
    PROVE  RealignInv'
<1>1. RecoveryOwnInv'  BY RecoveryOwnNext DEF RealignInv
<1>2. /\ BillingInv /\ SingleInv /\ BillingInv' /\ SingleInv'
      /\ ProjectionBounds /\ \A s \in Sessions : SettledLive(s)
  BY <1>1 DEF RealignInv, RecoveryOwnInv, RecoveryInv, SessionInv
<1>3. ASSUME [Next]_vars, UNCHANGED overlapped PROVE RealignInv'
  BY <1>1, <1>2, <1>3, BoundsNext, SettledLiveNext DEF RealignInv
<1>4. CASE Billing  BY <1>3, <1>4 DEF Billing
<1>5. ASSUME NEW s \in Sessions, LogUsage(s) PROVE RealignInv'  BY <1>3, <1>5 DEF LogUsage
<1>6. ASSUME NEW r \in Requests, Expire(r) PROVE RealignInv'  BY <1>3, <1>6 DEF Expire
<1>7. ASSUME NEW r \in Requests, Recover(r) PROVE RealignInv'
  <2>1. ProjectionBounds'  BY <1>2, <1>7, BoundsRecover DEF RealignInv
  <2>2. Rest /\ RecoveredRow(r)
    BY <1>7, RecoverControl DEF RealignInv, RecoveryOwnInv, RecoveryInv, SessionInv
  <2>3. ASSUME NEW s \in Sessions PROVE SettledLive(s)'
    <3>1. CASE RequestOf[s] # r
      <4>1. H(s)' = H(s)  BY <2>2, <3>1, FundingAssumption DEF RecoveredRow, H
      <4> QED  BY <1>2, <2>2, <4>1 DEF Rest, SettledLive, SettledKnown, Returned
    <3>2. CASE RequestOf[s] = r
      <4>1. H(s)'.status = "settled" => pc[s] = "done"
        BY <2>2, <3>2 DEF RecoveredRow, H, LogLast, NoLog, RealignInv, RecoveryOwnInv
      <4> QED  BY <2>2, <4>1 DEF Rest, SettledLive, SettledKnown
    <3> QED  BY <3>1, <3>2
  <2> QED  BY <1>1, <2>1, <2>3 DEF RealignInv
<1>8. CASE UNCHANGED allVars  BY <1>3, <1>8 DEF allVars, recoveryVars
<1> QED  BY <1>4, <1>5, <1>6, <1>7, <1>8 DEF RecoveryNext

LEMMA RealignInvariant ==
    ASSUME OneRun
    PROVE  RecoverySpec => []RealignInv
<1>1. RecoveryInit => RealignInv  BY RealignInit
<1>2. RealignInv /\ [RecoveryNext]_allVars => RealignInv'  BY RealignNext
<1> QED  BY <1>1, <1>2, PTL DEF RecoverySpec

\* Once every request is over and recovery has ended every hold, whatever
\* crashed or failed before, users.claude_quota shows the ledger's balance
\* short of what is left of released holds; unless a recovery overlapped a
\* funding call or a payout copied the balance in the middle of one.
THEOREM RecoveryRealignsProjection ==
    ASSUME OneRun
    PROVE  RecoverySpec => [](earnings = 0 => RecoveryRealigns)
<1>1. RealignInv => (earnings = 0 => RecoveryRealigns)
  <2> SUFFICES ASSUME RealignInv, earnings = 0, \A s \in Sessions : Over(s),
                      \A r \in Requests : hold[r].status # "open", ~overlapped
               PROVE  available - Total(Stranded) <= legacy /\ legacy <= available
    BY DEF RecoveryRealigns
  <2>1. BillingInv /\ SingleInv  BY DEF RealignInv, RecoveryOwnInv, RecoveryInv, SessionInv
  <2>2. /\ OpenHolds \in [Sessions -> Nat] /\ AtMost \in [Sessions -> Nat]
        /\ AtLeast \in [Sessions -> Nat]
    BY <2>1, BoundTypes
  <2>3. ASSUME NEW s \in Sessions
        PROVE  /\ OpenHolds[s] = 0 /\ AtLeast[s] = 0 /\ AtMost[s] = Stranded[s] /\ ~Abandoned(s)
    <3>1. H(s).status \in {"none", "settled", "released"}
      BY <2>1, FundingAssumption DEF BillingInv, Types, Holds, H
    <3>2. InProjection(s) = fund[s].legacyHeld
      BY <2>1 DEF BillingInv, Control, CallOfPc, Calling, Over, InProjection
    <3>3. H(s).status = "none" => fund[s].legacyHeld = 0
      BY <2>1 DEF SingleInv, Single, HoldKnown, NewFunding
    <3>4. Closing(s)  BY DEF Closing
    <3> QED  BY <3>1, <3>2, <3>3, <3>4, BoundRows DEF Stranded, Abandoned
  <2>4. Total(OpenHolds) = 0 /\ Total(AtLeast) = 0  BY <2>2, <2>3, TotalZero
  <2>5. AtMost = Stranded  BY <2>2, <2>3 DEF Stranded
  <2>6. /\ available + Total(OpenHolds) <= legacy + Total(AtMost)
        /\ legacy + Total(AtLeast) <= available + Total(OpenHolds)
    BY <2>3 DEF RealignInv, ProjectionBounds
  <2>7. Total(AtMost) \in Nat /\ legacy \in Int /\ available \in Nat
    BY <2>1, <2>2, TotalFinite, FundingAssumption DEF BillingInv, Types
  <2> QED  BY <2>4, <2>5, <2>6, <2>7
<1> QED  BY <1>1, RealignInvariant, PTL
=============================================================================
