--------------------------- MODULE StaleRecovery ---------------------------
(***************************************************************************)
(* RecoverStaleRelayReservations: the ledger worker ends the holds that    *)
(* their requests left behind.  A day after it was made an open hold has   *)
(* expired; one transaction locks it, settles it at the usage the request  *)
(* logged, or releases it when nothing was logged, and copies the ledger's *)
(* balance over users.claude_quota.  The request may have died, failed to  *)
(* settle, or still be running.                                            *)
(***************************************************************************)
EXTENDS BillingSession, FiniteSetsExt

VARIABLES report,     \* a handler that settles logs its usage afterwards
          usageLog,   \* the consume log of each request
          expired,    \* requests whose hold has expired
          overlapped  \* a recovery ran beside a funding call, on a live request, or beside
                      \* one whose projection was waiting to be put right

recoveryVars == <<report, usageLog, expired, overlapped>>
allVars == <<vars, recoveryVars>>

NoLog == -1

RecoveryInit ==
    /\ Init
    /\ report = [s \in Sessions |-> "none"]
    /\ usageLog = [r \in Requests |-> NoLog]
    /\ expired = {}
    /\ overlapped = FALSE

\* A step of the billing; a call of Settle is followed by the log.
Billing ==
    /\ Next
    /\ report' = [s \in Sessions |->
                    IF pc[s] = "live" /\ pc'[s] \in {"grow", "settle"} THEN "due" ELSE report[s]]
    /\ UNCHANGED <<usageLog, expired, overlapped>>

\* RecordConsumeLog with BillingQuotaForLog, whether or not the settlement
\* worked; the insert may fail, and the server may die before it.
LogUsage(s) ==
    /\ pc[s] = "done" /\ report[s] = "due"
    /\ report' = [report EXCEPT ![s] = "over"]
    /\ \/ usageLog' = [usageLog EXCEPT ![RequestOf[s]] =
                          IF sess[s].settled THEN sess[s].charged ELSE sess[s].used]
       \/ UNCHANGED usageLog
    /\ UNCHANGED <<vars, expired, overlapped>>

\* relayReservationExpiry: a day has passed.
Expire(r) ==
    /\ hold[r].status = "open" /\ r \notin expired
    /\ expired' = expired \cup {r}
    /\ UNCHANGED <<vars, report, usageLog, overlapped>>

Over(s) == pc[s] \in {"new", "done", "crashed"}
MidCall(s) == op[s].at \notin {"idle", "wait", "returned"}
TakenFor(h) == CASE h.status = "open" -> h.amount [] h.status = "settled" -> h.charged [] OTHER -> 0
Taken(s) == TakenFor(H(s))
Overlaps(r) ==
    \E s \in Sessions :
        MidCall(s) \/ (~Over(s) /\ (RequestOf[s] = r \/ fund[s].legacyHeld # Taken(s)))

\* Variant: the hold is charged in full.
ChargeHold(r) == hold[r].amount

\* settleRecoveredReservations: no more than the hold and the balance.
Charge(r) == Min({usageLog[r], hold[r].amount + available})

\* Variant: the status is not checked again under the lock.
EligibleOnce(r) == r \in expired /\ hold[r].status # "none"

\* lockRecoveryTarget
Eligible(r) == r \in expired /\ hold[r].status = "open"

\* Variant: the hold goes back to the wallet only.
syncNothing == UNCHANGED legacy

syncRecoveredProjection == legacy' = available'

\* Variant: a request without a log is left for later.
RecoverOnlyLogged(r) ==
    /\ Eligible(r) /\ usageLog[r] # NoLog
    /\ hold' = [hold EXCEPT ![r] = SettledAt(@, Charge(r), "recovery")]
    /\ available' = available + hold[r].amount - Charge(r)
    /\ syncRecoveredProjection
    /\ overlapped' = (overlapped \/ Overlaps(r))
    /\ UNCHANGED <<credits, earnings, turn, ended, fund, op, faults, log, token, sess, pc, crashes,
                   report, usageLog, expired>>

\* recoverStaleReservation, under the key stale-recovery:<id>:settle.
Recover(r) ==
    /\ Eligible(r)
    /\ \/ /\ usageLog[r] # NoLog
          /\ hold' = [hold EXCEPT ![r] = SettledAt(@, Charge(r), "recovery")]
          /\ available' = available + hold[r].amount - Charge(r)
       \/ /\ usageLog[r] = NoLog
          /\ hold' = [hold EXCEPT ![r].status = "released"]
          /\ available' = available + hold[r].amount
    /\ syncRecoveredProjection
    /\ overlapped' = (overlapped \/ Overlaps(r))
    /\ UNCHANGED <<credits, earnings, turn, ended, fund, op, faults, log, token, sess, pc, crashes,
                   report, usageLog, expired>>

RecoveryNext ==
    \/ Billing
    \/ \E s \in Sessions : LogUsage(s)
    \/ \E r \in Requests : Expire(r) \/ Recover(r)

RecoverySpec == RecoveryInit /\ [][RecoveryNext]_allVars

\* Time passes, and the worker scans every minute.
FairRecoverySpec ==
    RecoverySpec /\ \A r \in Requests : WF_allVars(Expire(r)) /\ WF_allVars(Recover(r))

-----------------------------------------------------------------------------
\* Recovery neither makes nor loses the user's money, also when the request
\* settles or refunds late: what was put in is available, held, or charged.
WalletConserved ==
    available + Total([r \in Requests |-> TakenFor(hold[r])]) = Balance + credits + earnings

\* A crash or a failed compensation leaves the projection wrong only until the
\* hold is recovered: with every request over and no hold open it shows the
\* ledger's balance again (short of a released hold's projection, see
\* ProjectionAligned), unless a recovery ran in the middle of another funding
\* call, on a request that was still running, or beside one that still had a
\* failed projection to take back: the copy already contains the correction.
RecoveryRealigns ==
    (/\ \A s \in Sessions : Over(s)
     /\ \A r \in Requests : hold[r].status # "open"
     /\ ~overlapped)
      => available - Total(Stranded) <= legacy /\ legacy <= available

\* A late session and the recovery agree on how its hold ended: a session
\* that reports a charge finds that charge in the ledger, one that reports a
\* refund does not find its hold settled.
LateEndsAgree == ReceiptMatchesLedger /\ EndsAgree

\* No money stays on hold for ever, whatever happened to the request.
EveryHoldEnds == \A r \in Requests : hold[r].status = "open" ~> hold[r].status # "open"
=============================================================================
