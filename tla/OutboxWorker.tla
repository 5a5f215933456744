---------------------------- MODULE OutboxWorker ----------------------------
(***************************************************************************)
(* RunLedgerWorkerBatch: the ledger worker publishes the outbox.  Every    *)
(* tick takes the accounts with pending events, the least retried first,   *)
(* and publishes each account's events in turn.  The list of events is     *)
(* read outside any transaction; each event then has a transaction of its  *)
(* own that locks the row, runs the consumers and marks it published.  A   *)
(* failure counts one attempt for every pending event of the account.      *)
(* Several workers run during a deployment, and any of them may die.       *)
(*                                                                         *)
(* Events are numbered in the order of created_at.                         *)
(***************************************************************************)
EXTENDS Naturals, Sequences, FiniteSetsExt

CONSTANTS AccountIDs,   \* account ids are numbers, as account_id breaks ties
          Events, AccountOf,
          Broken,       \* events whose consumers always fail
          Workers,
          AccountBatch, \* ledgerWorkerAccountBatchSize
          EventBatch,   \* ledgerWorkerEventBatchSize
          MaxAttempts,  \* bound on the attempts counter
          MaxFaults     \* database failures and crashes of a worker

ASSUME WorkerAssumption ==
    /\ AccountIDs \subseteq Nat /\ Events \subseteq Nat /\ IsFiniteSet(Events)
    /\ AccountOf \in [Events -> AccountIDs] /\ Broken \subseteq Events
    /\ {AccountBatch, EventBatch} \subseteq Nat \ {0} /\ {MaxAttempts, MaxFaults} \subseteq Nat

VARIABLES status,    \* of each row of billing.outbox_events
          attempts,
          effects,   \* times the consumers of an event have committed
          worker,
          faults

workerVars == <<status, attempts, effects, worker, faults>>
outboxRows == <<status, attempts, effects>>

Waiting == [pc |-> "idle", accounts |-> <<>>, events |-> <<>>]

WorkerInit ==
    /\ status = [e \in Events |-> "none"]
    /\ attempts = [e \in Events |-> 0]
    /\ effects = [e \in Events |-> 0]
    /\ worker = [w \in Workers |-> Waiting]
    /\ faults = 0

\* RecordOutboxEvent, in the transaction of a ledger operation.
Record(e) ==
    /\ status[e] = "none"
    /\ status' = [status EXCEPT ![e] = "pending"]
    /\ UNCHANGED <<attempts, effects, worker, faults>>

-----------------------------------------------------------------------------
Pending(a) == {e \in Events : status[e] = "pending" /\ AccountOf[e] = a}
MaxTries(a) == Max({attempts[e] : e \in Pending(a)})

\* Variant: the oldest event decides, however often it failed.
OldestFirst(a, b) == Min(Pending(a)) < Min(Pending(b))

\* ORDER BY MAX(attempts), MIN(created_at), account_id
Before(a, b) ==
    \/ MaxTries(a) < MaxTries(b)
    \/ MaxTries(a) = MaxTries(b) /\ Min(Pending(a)) < Min(Pending(b))

\* ORDER BY ... LIMIT n: each row listed comes after just the ones before it.
FirstRows(S, Precedes(_, _), n) ==
    LET k == IF Cardinality(S) < n THEN Cardinality(S) ELSE n
    IN  {list \in [1..k -> S] : \A i \in 1..k :
            {x \in S : Precedes(x, list[i])} = {list[j] : j \in 1..(i - 1)}}

pendingLedgerOutboxAccountIDs ==
    FirstRows({a \in AccountIDs : Pending(a) # {}}, Before, AccountBatch)

pendingEvents(a) == FirstRows(Pending(a), <, EventBatch)

AccountID(w) == Head(worker[w].accounts)
Event(w) == Head(worker[w].events)
Set(w, r) == worker' = [worker EXCEPT ![w] = r]
MoveTo(w, pc) == Set(w, [worker[w] EXCEPT !.pc = pc])
NextAccount(w) ==
    Set(w, [pc |-> IF Len(worker[w].accounts) > 1 THEN "account" ELSE "idle",
            accounts |-> Tail(worker[w].accounts), events |-> <<>>])
WithEvents(w, events) ==
    Set(w, [pc |-> "lock", accounts |-> worker[w].accounts, events |-> events])
NextEvent(w) == WithEvents(w, Tail(worker[w].events))
Works == UNCHANGED faults
Fails == faults < MaxFaults /\ faults' = faults + 1

\* One tick of the ticker.
RunLedgerWorkerBatch(w) ==
    /\ worker[w].pc = "idle"
    /\ \E accountIDs \in pendingLedgerOutboxAccountIDs :
          Set(w, [pc |-> IF Len(accountIDs) = 0 THEN "idle" ELSE "account",
                  accounts |-> accountIDs, events |-> <<>>])
    /\ Works /\ UNCHANGED outboxRows

\* processLedgerOutboxAccount up to the list of events; the reconciliation or
\* the query may fail.
SelectEvents(w) ==
    /\ worker[w].pc = "account"
    /\ \/ /\ \E events \in pendingEvents(AccountID(w)) : WithEvents(w, events)
          /\ Works
       \/ Fails /\ MoveTo(w, "mark")
    /\ UNCHANGED outboxRows

NotLocked(e, w) == \A v \in Workers \ {w} : worker[v].pc = "commit" => Event(v) # e

\* SELECT ... FOR UPDATE of the event if it is still pending.
LockEvent(w) ==
    /\ worker[w].pc = "lock"
    /\ \/ worker[w].events = <<>> /\ NextAccount(w)
       \/ /\ worker[w].events # <<>> /\ NotLocked(Event(w), w)
          /\ IF status[Event(w)] = "pending" THEN MoveTo(w, "commit") ELSE NextEvent(w)
    /\ Works /\ UNCHANGED outboxRows

\* The consumers, the publication and the commit, or the rollback of all.
CommitEvent(w) ==
    /\ worker[w].pc = "commit"
    /\ \/ /\ Event(w) \notin Broken
          /\ status' = [status EXCEPT ![Event(w)] = "published"]
          /\ effects' = [effects EXCEPT ![Event(w)] = @ + 1]
          /\ NextEvent(w)
          /\ Works
       \/ /\ (Event(w) \in Broken /\ Works) \/ Fails
          /\ MoveTo(w, "mark")
          /\ UNCHANGED <<status, effects>>
    /\ UNCHANGED attempts

\* markLedgerOutboxAccountFailure waits for the rows that are locked; when it
\* fails too, the rest of the batch is left for the next tick.
MarkFailure(w) ==
    /\ worker[w].pc = "mark"
    /\ \A e \in Pending(AccountID(w)) : NotLocked(e, w)
    /\ \/ /\ attempts' = [e \in Events |-> IF e \in Pending(AccountID(w)) /\ attempts[e] < MaxAttempts
                                           THEN attempts[e] + 1 ELSE attempts[e]]
          /\ NextAccount(w)
          /\ Works
       \/ Fails /\ Set(w, Waiting) /\ UNCHANGED attempts
    /\ UNCHANGED <<status, effects>>

Crash(w) ==
    /\ worker[w].pc # "idle"
    /\ Fails /\ Set(w, Waiting)
    /\ UNCHANGED outboxRows

\* Variant: old events are deleted whatever their status.
CleanupAny(e) ==
    /\ status[e] \in {"pending", "published"}
    /\ status' = [status EXCEPT ![e] = "deleted"]
    /\ UNCHANGED <<attempts, effects, worker, faults>>

\* cleanupPublishedLedgerOutboxBatch, three days after the publication.
Cleanup(e) ==
    /\ status[e] = "published"
    /\ status' = [status EXCEPT ![e] = "deleted"]
    /\ UNCHANGED <<attempts, effects, worker, faults>>

WorkerStep(w) ==
    \/ RunLedgerWorkerBatch(w) \/ SelectEvents(w) \/ LockEvent(w)
    \/ CommitEvent(w) \/ MarkFailure(w)

WorkerNext ==
    \/ \E w \in Workers : WorkerStep(w) \/ Crash(w)
    \/ \E e \in Events : Record(e) \/ Cleanup(e)

WorkerSpec == WorkerInit /\ [][WorkerNext]_workerVars

\* A worker's next step runs; row locks are released in the end.
WorkerFairSpec == WorkerSpec /\ \A w \in Workers : WF_workerVars(WorkerStep(w))

-----------------------------------------------------------------------------
\* The consumers of an event commit exactly once, together with its
\* publication: two workers with the same event in their lists, a crash
\* between the list and the lock, and the cleanup lose and repeat nothing.  The
\* publication of a locked event always finds it pending, so the error
\* "publication changed while locked" cannot happen.
EffectsOnce ==
    /\ \A e \in Events : effects[e] = IF status[e] \in {"published", "deleted"} THEN 1 ELSE 0
    /\ \A w \in Workers : worker[w].pc = "commit" =>
          /\ status[Event(w)] = "pending" /\ AccountOf[Event(w)] = AccountID(w)
          /\ \A v \in Workers \ {w} : worker[v].pc = "commit" => Event(v) # Event(w)

\* An event that can be published is, though an account that keeps failing
\* is older and every tick takes a bounded number of accounts.
Blocked(e) == \E b \in Broken : AccountOf[b] = AccountOf[e] /\ b <= e
EveryEventPublished ==
    \A e \in Events : ~Blocked(e) => (status[e] = "pending" ~> status[e] # "pending")
=============================================================================
