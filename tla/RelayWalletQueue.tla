-------------------------- MODULE RelayWalletQueue --------------------------
(***************************************************************************)
(* The in-process queue in front of a user's wallet account                *)
(* (internal/billing/app/ledger_relay_sequence.go).  Relay operations of   *)
(* one user pass waitRelayWallet before they borrow a SQL connection.  The *)
(* queue is a map from user to a wait object: a one-slot channel holding   *)
(* the turn, and a count of the operations that refer to the object.  The  *)
(* object is created by the first operation and dropped from the map by    *)
(* the last one, so an object may be replaced while operations come and    *)
(* go.                                                                     *)
(***************************************************************************)
EXTENDS Naturals, FiniteSets

CONSTANTS
    Users,        \* user ids
    Operations,   \* relay operations: PreConsume, ReserveAdditional, Settle, Refund
    UserOf,       \* the user each operation belongs to
    Detached,     \* operations run under context.WithoutCancel: Settle and Refund
    Waits,        \* wait objects
    NoWait        \* a nil *relayWalletWait

ASSUME QueueAssumption ==
    /\ IsFiniteSet(Operations)
    /\ UserOf \in [Operations -> Users]
    /\ Detached \subseteq Operations
    /\ NoWait \notin Waits

VARIABLES
    accounts,     \* relayWalletSequence.accounts
    references,   \* wait.references
    available,    \* tokens in the channel wait.available (capacity 1)
    pc,           \* where an operation stands in waitRelayWallet
    on,           \* the wait object an operation holds a pointer to
    cancelled     \* ctx.Err() # nil

vars == <<accounts, references, available, pc, on, cancelled>>

Init ==
    /\ accounts = [u \in Users |-> NoWait]
    /\ references = [w \in Waits |-> 0]
    /\ available = [w \in Waits |-> 0]
    /\ pc = [r \in Operations |-> "idle"]
    /\ on = [r \in Operations |-> NoWait]
    /\ cancelled = [r \in Operations |-> FALSE]

(***************************************************************************)
(* A request's context ends at any moment the operation is under way.      *)
(***************************************************************************)
Cancel(r) ==
    /\ r \notin Detached
    /\ pc[r] # "idle"
    /\ ~cancelled[r]
    /\ cancelled' = [cancelled EXCEPT ![r] = TRUE]
    /\ UNCHANGED <<accounts, references, available, pc, on>>

(***************************************************************************)
(* The first critical section: find or create the user's wait object and   *)
(* count this operation in.  A fresh object starts with the turn in its    *)
(* channel.                                                                *)
(***************************************************************************)
Enter(r) ==
    LET u == UserOf[r] IN
    /\ pc[r] = "idle"
    /\ pc' = [pc EXCEPT ![r] = "queued"]
    /\ \/ /\ accounts[u] # NoWait
          /\ references' = [references EXCEPT ![accounts[u]] = @ + 1]
          /\ on' = [on EXCEPT ![r] = accounts[u]]
          /\ UNCHANGED <<accounts, available>>
       \/ /\ accounts[u] = NoWait
          /\ \E w \in Waits :
                /\ references[w] = 0
                /\ accounts' = [accounts EXCEPT ![u] = w]
                /\ references' = [references EXCEPT ![w] = 1]
                /\ available' = [available EXCEPT ![w] = 1]
                /\ on' = [on EXCEPT ![r] = w]
    /\ UNCHANGED cancelled

\* The parts of leave that concern the operation alone.
Return(r) ==
    /\ pc' = [pc EXCEPT ![r] = "idle"]
    /\ on' = [on EXCEPT ![r] = NoWait]
    /\ cancelled' = [cancelled EXCEPT ![r] = FALSE]

\* Variants of Leave: the entry dropped one reference early, never
\* dropped, and the turn given back although it was not taken.
LeaveDropsEarly(r, acquired) ==
    /\ available' = IF acquired THEN [available EXCEPT ![on[r]] = @ + 1] ELSE available
    /\ references' = [references EXCEPT ![on[r]] = @ - 1]
    /\ accounts' = IF references[on[r]] <= 2 THEN [accounts EXCEPT ![UserOf[r]] = NoWait] ELSE accounts
    /\ Return(r)

LeaveKeepsEntry(r, acquired) ==
    /\ available' = IF acquired THEN [available EXCEPT ![on[r]] = @ + 1] ELSE available
    /\ references' = [references EXCEPT ![on[r]] = @ - 1]
    /\ accounts' = accounts
    /\ Return(r)

LeaveAlwaysSends(r, acquired) ==
    /\ available' = [available EXCEPT ![on[r]] = @ + 1]
    /\ references' = [references EXCEPT ![on[r]] = @ - 1]
    /\ accounts' = IF references[on[r]] = 1 THEN [accounts EXCEPT ![UserOf[r]] = NoWait] ELSE accounts
    /\ Return(r)

(***************************************************************************)
(* The closure leave(acquired): give the turn back if it was taken, count  *)
(* the operation out, and drop the user's entry with the last reference.   *)
(***************************************************************************)
Leave(r, acquired) ==
    LET w == on[r]
        u == UserOf[r]
    IN  /\ available' = IF acquired THEN [available EXCEPT ![w] = @ + 1] ELSE available
        /\ references' = [references EXCEPT ![w] = @ - 1]
        /\ accounts' = IF references[w] = 1 THEN [accounts EXCEPT ![u] = NoWait] ELSE accounts
        /\ Return(r)

\* case <-wait.available: the operation takes the turn.
Receive(r) ==
    /\ pc[r] = "queued"
    /\ available[on[r]] > 0
    /\ available' = [available EXCEPT ![on[r]] = @ - 1]
    /\ pc' = [pc EXCEPT ![r] = "received"]
    /\ UNCHANGED <<accounts, references, on, cancelled>>

\* case <-ctx.Done(): give up without the turn.
GiveUp(r) ==
    /\ pc[r] = "queued"
    /\ cancelled[r]
    /\ Leave(r, FALSE)

\* Variant: the turn is not given back on cancellation.
RecheckLosesTurn(r) ==
    /\ pc[r] = "received"
    /\ \/ /\ cancelled[r]
          /\ Leave(r, FALSE)
       \/ /\ ~cancelled[r]
          /\ pc' = [pc EXCEPT ![r] = "holding"]
          /\ UNCHANGED <<accounts, references, available, on, cancelled>>

\* The context is checked again once the turn is taken; cancellation wins.
Recheck(r) ==
    /\ pc[r] = "received"
    /\ \/ /\ cancelled[r]
          /\ Leave(r, TRUE)
       \/ /\ ~cancelled[r]
          /\ pc' = [pc EXCEPT ![r] = "holding"]
          /\ UNCHANGED <<accounts, references, available, on, cancelled>>

\* The caller's deferred unlock().
Unlock(r) ==
    /\ pc[r] = "holding"
    /\ Leave(r, TRUE)

Next ==
    \E r \in Operations :
        \/ Cancel(r)
        \/ Enter(r)
        \/ Receive(r)
        \/ GiveUp(r)
        \/ Recheck(r)
        \/ Unlock(r)

Spec == Init /\ [][Next]_vars

(***************************************************************************)
(* Fairness.  An operation that holds the turn runs to its deferred unlock *)
(* (the SQL calls it makes are bounded by their context).  Receivers of a  *)
(* Go channel are served in arrival order, so a waiting operation that     *)
(* finds the channel filled again and again is eventually served.          *)
(***************************************************************************)
Fairness ==
    \A r \in Operations :
        /\ SF_vars(Receive(r))
        /\ WF_vars(GiveUp(r))
        /\ WF_vars(Recheck(r))
        /\ WF_vars(Unlock(r))

FairSpec == Spec /\ Fairness

-----------------------------------------------------------------------------
Operating(r) == pc[r] \in {"received", "holding"}

\* The queue's counters stay natural numbers: no operation is counted out more
\* often than in, and no turn is taken from an empty channel.
TypeOK ==
    /\ accounts \in [Users -> Waits \cup {NoWait}]
    /\ references \in [Waits -> Nat]
    /\ available \in [Waits -> Nat]
    /\ pc \in [Operations -> {"idle", "queued", "received", "holding"}]
    /\ on \in [Operations -> Waits \cup {NoWait}]
    /\ cancelled \in [Operations -> BOOLEAN]

(***************************************************************************)
(* Two operations of one user never run at once, although they may have    *)
(* found the queue through different wait objects.                         *)
(***************************************************************************)
OneTurnPerUser ==
    \A r, s \in Operations :
        UserOf[r] = UserOf[s] /\ Operating(r) /\ Operating(s) => r = s

(***************************************************************************)
(* leave sends on the one-slot channel while it holds the process-wide     *)
(* mutex: if the slot could be full there, every wallet in the process     *)
(* would stall.  The slot of an object whose turn is taken is empty.       *)
(***************************************************************************)
SendNeverBlocks ==
    \A r \in Operations : Operating(r) => available[on[r]] = 0

(***************************************************************************)
(* The map neither leaks entries nor drops one in use: a user has an entry *)
(* exactly while one of its operations is under way, and every operation   *)
(* under way is on the user's entry.                                       *)
(***************************************************************************)
EntryWhileReferenced ==
    \A u \in Users :
        LET mine == {r \in Operations : UserOf[r] = u /\ pc[r] # "idle"} IN
        /\ (accounts[u] = NoWait) <=> (mine = {})
        /\ \A r \in mine : on[r] = accounts[u]

(***************************************************************************)
(* An operation that queues gets the turn or, its context being over,      *)
(* leaves.  In particular a detached settlement always gets its turn.      *)
(***************************************************************************)
EveryWaitEnds ==
    \A r \in Operations :
        pc[r] = "queued" ~> (pc[r] = "holding" \/ cancelled[r] \/ pc[r] = "idle")
=============================================================================
