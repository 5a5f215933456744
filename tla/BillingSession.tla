--------------------------- MODULE BillingSession ---------------------------
(***************************************************************************)
(* BillingSession: a relay request pays from two balances, the user's      *)
(* wallet (RelayFunding) and the quota of the API key.  The session takes  *)
(* both in parallel before the request goes upstream, grows both when a    *)
(* retry costs more, and in the end settles the usage or refunds the hold; *)
(* every step that fails is compensated on the other balance.  Requests of *)
(* one user run side by side and share the wallet and the key.             *)
(*                                                                         *)
(* A background job that another server picks up again runs a second       *)
(* session for the same request id.                                        *)
(***************************************************************************)
EXTENDS RelayFunding

CONSTANTS TokenBalance, \* the key's quota at the start
          Exempt,       \* playground sessions, whose key is not charged
          MaxRetries,   \* times a session is asked to grow
          MaxCrashes    \* server processes that die

ASSUME SessionAssumption ==
    /\ Exempt \subseteq Sessions
    /\ {TokenBalance, MaxRetries, MaxCrashes} \subseteq Nat

VARIABLES token,   \* tokens.remain_quota of the key
          sess,    \* fields of the session object
          pc,      \* where the request's handler is
          crashes

vars == <<fundingVars, token, sess, pc, crashes>>

NewSession == [goal |-> 0, tokenErr |-> "none", preConsumed |-> 0, tokenConsumed |-> 0,
               retries |-> 0, used |-> 0, charged |-> 0, settled |-> FALSE, refunded |-> FALSE,
               admitted |-> FALSE]

Init ==
    /\ FundingInit
    /\ token = TokenBalance
    /\ sess = [s \in Sessions |-> NewSession]
    /\ pc = [s \in Sessions |-> "new"]
    /\ crashes = 0

Goto(s, l) == pc' = [pc EXCEPT ![s] = l]
Quiet == UNCHANGED <<walletVars, turn, ended, fund>>
NoFundingCall == UNCHANGED op

\* Variant: the quota left is not compared.
CoversAlways(s, n) == TRUE

\* AdjustTokenQuota by a positive or negative number of units: refused when
\* the key does not cover it, not called at all for exempt sessions.
Cost(s, n) == IF s \in Exempt THEN 0 ELSE n
Covers(s, n) == Cost(s, n) <= token
Take(s, n) == token' = token - Cost(s, n)
KeyFails(s) == s \notin Exempt /\ Fails(s)
KeyFailsForGood(s) == s \notin Exempt /\ FailsForGood(s)

-----------------------------------------------------------------------------
\* newWalletBillingSession reads the balance outside any lock, then starts
\* preConsumeSources.  A quota of 0 holds nothing.  Another session of the
\* same request starts only when an earlier one went upstream.
Open(s, q) ==
    /\ pc[s] = "new"
    /\ LET runs == {t \in Sessions : RequestOf[t] = RequestOf[s]}
       IN  (\A t \in runs : pc[t] = "new") \/ (\E t \in runs : sess[t].admitted)
    /\ \/ /\ s \notin ended /\ available > 0 /\ available >= q
          /\ IF q = 0
             THEN /\ sess' = [sess EXCEPT ![s].admitted = TRUE]
                  /\ Goto(s, "live") /\ NoFundingCall
             ELSE /\ sess' = [sess EXCEPT ![s].goal = q]
                  /\ Goto(s, "reserving") /\ Call(s, "reserve", q, TRUE)
          /\ Works
       \/ /\ \/ (s \in ended \/ available = 0 \/ available < q) /\ Works
             \/ Fails(s)
          /\ Goto(s, "done")
          /\ UNCHANGED <<op, sess>>
    /\ Quiet /\ UNCHANGED <<token, crashes>>

PreConsumeToken(s) ==
    /\ pc[s] = "reserving" /\ sess[s].tokenErr = "none"
    /\ \/ /\ Covers(s, sess[s].goal)
          /\ Take(s, sess[s].goal)
          /\ sess' = [sess EXCEPT ![s].tokenErr = "ok"]
          /\ Works
       \/ /\ \/ ~Covers(s, sess[s].goal) /\ Works
             \/ KeyFails(s)
          /\ sess' = [sess EXCEPT ![s].tokenErr = "failed"]
          /\ UNCHANGED token
    /\ Quiet /\ NoFundingCall /\ UNCHANGED <<pc, crashes>>

\* preConsume after both have answered: go on, or undo the one that worked.
Join(s) ==
    LET q == sess[s].goal
    IN  /\ pc[s] = "reserving" /\ sess[s].tokenErr # "none"
        /\ \/ /\ Returned(s, {"ok"}) /\ sess[s].tokenErr = "ok"
              /\ sess' = [sess EXCEPT ![s].preConsumed = q, ![s].tokenConsumed = q,
                                      ![s].admitted = s \notin ended]
              /\ Goto(s, IF s \in ended THEN "refund" ELSE "live")
              /\ NoFundingCall
           \/ /\ Returned(s, {"ok"}) /\ sess[s].tokenErr = "failed"
              /\ Call(s, "refund", 0, FALSE)
              /\ Goto(s, "refundReserved") /\ UNCHANGED sess
           \/ /\ Returned(s, {"insufficient", "error"}) /\ sess[s].tokenErr = "ok"
              /\ sess' = [sess EXCEPT ![s].tokenConsumed = q]
              /\ Goto(s, "returnToken") /\ NoFundingCall
           \/ /\ Returned(s, {"insufficient", "error"}) /\ sess[s].tokenErr = "failed"
              /\ Goto(s, "done") /\ NoFundingCall /\ UNCHANGED sess
        /\ Works /\ Quiet /\ UNCHANGED <<token, crashes>>

ReservedRefunded(s) ==
    /\ pc[s] = "refundReserved" /\ op[s].at = "returned"
    /\ Goto(s, "done")
    /\ Works /\ Quiet /\ NoFundingCall /\ UNCHANGED <<token, sess, crashes>>

ReturnToken(s) ==
    /\ pc[s] = "returnToken"
    /\ \/ /\ Take(s, -sess[s].tokenConsumed)
          /\ sess' = [sess EXCEPT ![s].tokenConsumed = 0]
          /\ Works
       \/ KeyFailsForGood(s) /\ UNCHANGED <<token, sess>>
    /\ Goto(s, "done")
    /\ Quiet /\ NoFundingCall /\ UNCHANGED crashes

-----------------------------------------------------------------------------
\* Reserve: a retry on a dearer channel, or more realtime usage.
Reserve(s, target) ==
    /\ pc[s] = "live" /\ sess[s].retries < MaxRetries
    /\ target > sess[s].preConsumed
    /\ sess' = [sess EXCEPT ![s].goal = target, ![s].retries = @ + 1]
    /\ Goto(s, "reserveToken")
    /\ Works /\ Quiet /\ NoFundingCall /\ UNCHANGED <<token, crashes>>

Growth(s) == sess[s].goal - sess[s].preConsumed

ReserveToken(s) ==
    /\ pc[s] = "reserveToken"
    /\ \/ /\ Covers(s, Growth(s))
          /\ Take(s, Growth(s))
          /\ Call(s, "increase", Growth(s), TRUE)
          /\ Goto(s, "reserveFunding")
          /\ Works
       \/ /\ \/ ~Covers(s, Growth(s)) /\ Works
             \/ KeyFails(s)
          /\ Goto(s, "refund")
          /\ UNCHANGED <<token, op>>
    /\ Quiet /\ UNCHANGED <<sess, crashes>>

ReserveFunding(s) ==
    /\ pc[s] = "reserveFunding"
    /\ \/ /\ Returned(s, {"ok"})
          /\ sess' = [sess EXCEPT ![s].preConsumed = @ + Growth(s),
                                  ![s].tokenConsumed = @ + Growth(s)]
          /\ Goto(s, "live")
       \/ /\ Returned(s, {"insufficient", "error"})
          /\ Goto(s, "reserveUndo")
          /\ UNCHANGED sess
    /\ Works /\ Quiet /\ NoFundingCall /\ UNCHANGED <<token, crashes>>

\* Variant: the wallet's refusal leaves the key charged.
ReserveUndoForgotten(s) ==
    /\ pc[s] = "reserveUndo"
    /\ Goto(s, "refund")
    /\ Works /\ Quiet /\ NoFundingCall /\ UNCHANGED <<token, sess, crashes>>

ReserveUndo(s) ==
    /\ pc[s] = "reserveUndo"
    /\ \/ Take(s, -Growth(s)) /\ Works
       \/ KeyFailsForGood(s) /\ UNCHANGED token
    /\ Goto(s, "refund")
    /\ Quiet /\ NoFundingCall /\ UNCHANGED <<sess, crashes>>

-----------------------------------------------------------------------------
\* Settle: usage above the hold grows the hold first, by what the wallet has
\* when it cannot cover all of it; the amount charged is never above the hold.
CallSettle(s, charge) ==
    /\ Call(s, "settle", charge, FALSE)
    /\ Goto(s, "settle")

\* Variant: the hold is charged in full when less was used.
SettleWholeHold(s, used) ==
    /\ pc[s] = "live"
    /\ sess' = [sess EXCEPT ![s].used = used]
    /\ IF used > sess[s].preConsumed
       THEN Call(s, "increase", used - sess[s].preConsumed, FALSE) /\ Goto(s, "grow")
       ELSE CallSettle(s, sess[s].preConsumed)
    /\ Works /\ Quiet /\ UNCHANGED <<token, crashes>>

Settle(s, used) ==
    /\ pc[s] = "live"
    /\ sess' = [sess EXCEPT ![s].used = used]
    /\ IF used > sess[s].preConsumed
       THEN Call(s, "increase", used - sess[s].preConsumed, FALSE) /\ Goto(s, "grow")
       ELSE CallSettle(s, used)
    /\ Works /\ Quiet /\ UNCHANGED <<token, crashes>>

\* The additional reservation answered; "grow" asked for all, "growPart" for
\* what AvailableBalance reported.
HoldGrown(s) ==
    /\ pc[s] \in {"grow", "growPart"}
    /\ \/ /\ Returned(s, {"ok"})
          /\ sess' = [sess EXCEPT ![s].preConsumed = @ + op[s].amount]
          /\ CallSettle(s, sess[s].preConsumed + op[s].amount)
       \/ /\ Returned(s, {"insufficient"}) /\ pc[s] = "grow"
          /\ Goto(s, "readBalance") /\ UNCHANGED <<op, sess>>
       \/ /\ Returned(s, {"insufficient"}) /\ pc[s] = "growPart"
          /\ CallSettle(s, sess[s].preConsumed) /\ UNCHANGED sess
       \/ /\ Returned(s, {"error"})
          /\ Goto(s, "done") /\ UNCHANGED <<op, sess>>
    /\ Works /\ Quiet /\ UNCHANGED <<token, crashes>>

\* Variant: an empty wallet is asked again.
ReadBalanceAgain(s) ==
    LET wanted == sess[s].used - sess[s].preConsumed
        partial == IF available < wanted THEN available ELSE wanted
    IN  /\ pc[s] = "readBalance"
        /\ Call(s, "increase", IF partial > 0 THEN partial ELSE wanted, FALSE)
        /\ Goto(s, IF partial > 0 THEN "growPart" ELSE "grow")
        /\ Works /\ Quiet /\ UNCHANGED <<token, sess, crashes>>

ReadBalance(s) ==
    LET wanted == sess[s].used - sess[s].preConsumed
        partial == IF available < wanted THEN available ELSE wanted
    IN  /\ pc[s] = "readBalance"
        /\ \/ /\ partial > 0
              /\ Call(s, "increase", partial, FALSE) /\ Goto(s, "growPart")
              /\ Works
           \/ partial = 0 /\ CallSettle(s, sess[s].preConsumed) /\ Works
           \/ Fails(s) /\ Goto(s, "done") /\ UNCHANGED op
        /\ Quiet /\ UNCHANGED <<token, sess, crashes>>

\* Variant: the receipt shows the usage, not what was charged.
FundingSettledAtUse(s) ==
    /\ pc[s] = "settle"
    /\ \/ /\ Returned(s, {"ok"})
          /\ sess' = [sess EXCEPT ![s].charged = sess[s].used]
          /\ Goto(s, "settleToken")
       \/ Returned(s, {"error"}) /\ Goto(s, "done") /\ UNCHANGED sess
    /\ Works /\ Quiet /\ NoFundingCall /\ UNCHANGED <<token, crashes>>

FundingSettled(s) ==
    /\ pc[s] = "settle"
    /\ \/ /\ Returned(s, {"ok"})
          /\ sess' = [sess EXCEPT ![s].charged = op[s].amount]
          /\ Goto(s, "settleToken")
       \/ Returned(s, {"error"}) /\ Goto(s, "done") /\ UNCHANGED sess
    /\ Works /\ Quiet /\ NoFundingCall /\ UNCHANGED <<token, crashes>>

\* The session is settled whatever becomes of the key's quota.
Settled(s) == sess' = [sess EXCEPT ![s].settled = TRUE] /\ Goto(s, "done")

SettleToken(s) ==
    LET delta == sess[s].charged - sess[s].tokenConsumed
    IN  /\ pc[s] = "settleToken"
        /\ \/ Covers(s, delta) /\ Take(s, delta) /\ Settled(s) /\ Works
           \/ /\ ~Covers(s, delta)
              /\ Goto(s, "exhaust") /\ Unrepaired(s) /\ UNCHANGED <<faults, token, sess>>
           \/ delta # 0 /\ KeyFailsForGood(s) /\ Settled(s) /\ UNCHANGED token
        /\ Quiet /\ NoFundingCall /\ UNCHANGED crashes

\* ExhaustTokenQuota reads the quota in one statement and takes it in another.
ReadToken(s) ==
    /\ pc[s] = "exhaust"
    /\ \/ /\ token > 0
          /\ sess' = [sess EXCEPT ![s].goal = token] /\ Goto(s, "drain")
          /\ Works
       \/ token = 0 /\ Settled(s) /\ Works
       \/ Fails(s) /\ Settled(s)
    /\ Quiet /\ NoFundingCall /\ UNCHANGED <<token, crashes>>

DrainToken(s) ==
    /\ pc[s] = "drain"
    /\ \/ token >= sess[s].goal /\ Take(s, sess[s].goal) /\ Works
       \/ token < sess[s].goal /\ UNCHANGED token /\ Works
       \/ Fails(s) /\ UNCHANGED token
    /\ Settled(s)
    /\ Quiet /\ NoFundingCall /\ UNCHANGED crashes

-----------------------------------------------------------------------------
\* The attempt failed for good: the handler refunds.
FailRequest(s) ==
    /\ pc[s] = "live"
    /\ Goto(s, "refund")
    /\ Works /\ Quiet /\ NoFundingCall /\ UNCHANGED <<token, sess, crashes>>

NeedsRefund(s) == ~sess[s].settled /\ ~sess[s].refunded /\ sess[s].tokenConsumed > 0

RefundSync(s) ==
    /\ pc[s] = "refund"
    /\ IF NeedsRefund(s)
       THEN /\ sess' = [sess EXCEPT ![s].refunded = TRUE]
            /\ Call(s, "refund", 0, FALSE) /\ Goto(s, "refundFunding")
       ELSE Goto(s, "done") /\ UNCHANGED <<op, sess>>
    /\ Works /\ Quiet /\ UNCHANGED <<token, crashes>>

RefundFunding(s) ==
    /\ pc[s] = "refundFunding"
    /\ \/ Returned(s, {"ok"}) /\ Goto(s, "refundToken") /\ UNCHANGED sess
       \/ /\ Returned(s, {"error"})
          /\ sess' = [sess EXCEPT ![s].refunded = FALSE] /\ Goto(s, "done")
    /\ Works /\ Quiet /\ NoFundingCall /\ UNCHANGED <<token, crashes>>

RefundToken(s) ==
    /\ pc[s] = "refundToken"
    /\ \/ /\ Take(s, -sess[s].tokenConsumed)
          /\ sess' = [sess EXCEPT ![s].tokenConsumed = 0]
          /\ Works
       \/ /\ KeyFails(s)
          /\ sess' = [sess EXCEPT ![s].refunded = FALSE]
          /\ UNCHANGED token
    /\ Goto(s, "done")
    /\ Quiet /\ NoFundingCall /\ UNCHANGED crashes

-----------------------------------------------------------------------------
SessionStep(s) ==
    \/ \E q \in 0..MaxAmount : Open(s, q) \/ Reserve(s, q) \/ Settle(s, q)
    \/ PreConsumeToken(s) \/ Join(s) \/ ReservedRefunded(s) \/ ReturnToken(s)
    \/ ReserveToken(s) \/ ReserveFunding(s) \/ ReserveUndo(s)
    \/ HoldGrown(s) \/ ReadBalance(s) \/ FundingSettled(s)
    \/ SettleToken(s) \/ ReadToken(s) \/ DrainToken(s)
    \/ FailRequest(s) \/ RefundSync(s) \/ RefundFunding(s) \/ RefundToken(s)

Step(s) == SessionStep(s) \/ (FundingStep(s) /\ UNCHANGED <<token, sess, pc, crashes>>)

\* A server process dies with everything it keeps in memory.
Crash(i) ==
    LET lost == {s \in Sessions : InstanceOf[s] = i /\ pc[s] \notin {"new", "done"}}
    IN  /\ crashes < MaxCrashes /\ lost # {}
        /\ crashes' = crashes + 1
        /\ pc' = [s \in Sessions |-> IF s \in lost THEN "crashed" ELSE pc[s]]
        /\ op' = [s \in Sessions |-> IF s \in lost THEN NoCall ELSE op[s]]
        /\ turn' = [turn EXCEPT ![i] = NoSession]
        /\ UNCHANGED <<walletVars, ended, fund, faults, log, token, sess>>

Environment ==
    /\ TopUp \/ CreditEarnings \/ \E s \in Sessions : pc[s] # "done" /\ Disconnect(s)
    /\ UNCHANGED <<token, sess, pc, crashes>>

\* Nothing is under way.
Finished == (\A s \in Sessions : pc[s] \in {"new", "done", "crashed"}) /\ UNCHANGED vars

\* While the servers are up; and with servers that die.
NextUp == (\E s \in Sessions : Step(s)) \/ Environment \/ Finished
Next == NextUp \/ \E i \in Instances : Crash(i)

Spec == Init /\ [][Next]_vars

\* The servers stay up (what a dead one leaves behind is StaleRecovery's).  A
\* handler whose next step can run runs it, and the wallet queue serves
\* whoever keeps waiting (RelayWalletQueue!EveryWaitEnds).
FairSpec ==
    /\ Init /\ [][NextUp]_vars
    /\ \A s \in Sessions :
         WF_vars(Step(s)) /\ SF_vars(WaitTurn(s) /\ UNCHANGED <<token, sess, pc, crashes>>)

-----------------------------------------------------------------------------
\* Money is held in non-negative amounts, whatever the order of the requests.
TypeOK ==
    /\ available \in Nat /\ legacy \in Int /\ token \in Nat
    /\ \A r \in Requests : /\ hold[r].status \in {"none", "open", "settled", "released"}
                           /\ hold[r].amount \in Nat /\ hold[r].charged \in Nat
    /\ \A s \in Sessions :
         /\ fund[s] \in [known : BOOLEAN, reserved : Nat, legacyHeld : Nat]
         /\ sess[s].preConsumed \in Nat /\ sess[s].tokenConsumed \in Nat
    /\ turn \in [Instances -> Sessions \cup {NoSession}]

\* Between funding calls the projection users.claude_quota is the ledger's
\* available balance, short of what a session still holds of a reservation
\* that was given back because its projection failed; unless some session
\* had to report that a compensation failed too.
Stranded == [s \in Sessions |-> IF H(s).status = "released" THEN fund[s].legacyHeld ELSE 0]
ProjectionAligned ==
    (/\ \A s \in Sessions : op[s].at \in {"idle", "wait", "returned"}
     /\ \A s \in Sessions : log[s] # "unrepaired")
      => legacy = available - Total(Stranded)

\* Between its steps on the key, a session has taken from the key exactly what
\* it still holds or, once settled, what the wallet was charged; unless a
\* session had to report that adjusting the key failed.
TokenShare(s) == CASE sess[s].settled -> sess[s].charged
                   [] pc[s] = "reserving" -> IF sess[s].tokenErr = "ok" THEN sess[s].goal ELSE 0
                   [] pc[s] \in {"reserveFunding", "reserveUndo"} -> sess[s].goal - sess[s].preConsumed + sess[s].tokenConsumed
                   [] OTHER -> sess[s].tokenConsumed
TokenBalanced ==
    (\A s \in Sessions : log[s] # "unrepaired" /\ pc[s] # "crashed")
      => token + Total([s \in Sessions |-> Cost(s, TokenShare(s))]) = TokenBalance

\* A request that is over leaves no money on hold, unless one of its database
\* calls failed: the client may disconnect, the key or the wallet may be short
\* at any point.
NoHoldLeftBehind ==
    \A s \in Sessions : pc[s] = "done" /\ H(s).status = "open" => log[s] # "clean"

\* The session's receipt is the ledger's: what a settled session reports as
\* charged was taken from the wallet under its reservation, and the wallet is
\* never charged more than was used.
ReceiptMatchesLedger ==
    \A s \in Sessions : sess[s].settled =>
        /\ H(s).status = "settled" /\ H(s).charged = sess[s].charged
        /\ sess[s].charged <= sess[s].used

\* Two runs of one request, also across a crash, never end it both ways: a
\* run that reports a settlement finds the reservation charged, a run that
\* reports a refund finds it released.
EndsAgree ==
    \A s \in Sessions :
        /\ sess[s].settled => H(s).status = "settled"
        /\ sess[s].refunded /\ pc[s] = "done" => H(s).status = "released"

\* However many runs a request has, its wallet is charged once, and no more
\* than some run of it used.
ChargedAtMostUse ==
    \A r \in Requests : hold[r].status = "settled" =>
        \E s \in Sessions : RequestOf[s] = r /\ hold[r].charged <= sess[s].used

\* Every request that starts ends its billing while its server is up: no
\* session waits for ever for its turn or for a compensation.
EverySessionEnds ==
    \A s \in Sessions : pc[s] # "new" ~> pc[s] = "done"
=============================================================================
