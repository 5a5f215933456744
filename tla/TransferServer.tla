--------------------------- MODULE TransferServer ---------------------------
(***************************************************************************)
(* The server's side of one user's wallet transfers.  Every node keeps in  *)
(* memory the operation it runs for the user and the recent ones; the      *)
(* database keeps a row for each completed transfer, unique by request id. *)
(* A POST starts an operation or joins the one of the same request; the    *)
(* operation outlives the POST.  Operations end, are forgotten after a     *)
(* time, and are lost when a node restarts.                                *)
(***************************************************************************)
EXTENDS Integers, Sequences, FiniteSets

CONSTANTS Nodes,
          Amounts,        \* amounts a transfer may have
          InitialBalance, \* the sender's
          MaxPosts        \* POSTs the sender makes

ASSUME TransferAssumption ==
    Amounts \subseteq Nat \ {0} /\ InitialBalance \in Nat /\ MaxPosts \in Nat

VARIABLES rows,       \* wallet_transfers of the sender
          balance,    \* the sender's wallet
          ops,        \* operations by number, in the order started
          active,     \* node -> the sender's running operation, 0 for none
          recent,     \* node -> operations that ended, by number
          forgotten,  \* ids whose operation a node ran to an end and dropped
          posts       \* POSTs by number

serverVars == <<rows, balance, ops, active, recent, forgotten>>

None == [id |-> 0, amount |-> 0]

ServerInit ==
    /\ rows = {} /\ balance = InitialBalance /\ ops = <<>>
    /\ active = [n \in Nodes |-> 0] /\ recent = [n \in Nodes |-> {}]
    /\ forgotten = {} /\ posts = <<>>

\* One per cent, rounded up, without a product that could overflow.
walletTransferFee(amount) ==
    (amount \div 10000) * 100 + ((amount % 10000) * 100 + 9999) \div 10000
TotalDebit(intent) == intent.amount + walletTransferFee(intent.amount)

Row(id) == {r \in rows : r.id = id}

-----------------------------------------------------------------------------
\* An operation: "authorizing", "executing", "ended" with its result not yet
\* published, "done"; or "dead" with its node.  walletTransferRejection knows
\* the results that prove a rollback.
Rejections == {"rejected", "locked"}
Done(o) == ops[o].phase = "done"
walletTransferRejection(o) == ops[o].result \in Rejections

Remembered(n, id) ==
    IF active[n] # 0 THEN {active[n]} ELSE {o \in recent[n] : ops[o].intent.id = id}

\* Variant: an operation whose outcome is not known may be started again.
ReplayableAlways(o) == Done(o)

\* A known rollback is the only ended operation that a POST starts again.
Replayable(o) == Done(o) /\ walletTransferRejection(o)

\* Nobody reads the answer to a POST that was aborted.
Reply(p, answer) ==
    posts' = [posts EXCEPT ![p].at = "over", ![p].password = FALSE, ![p].op = 0,
                              ![p].answer = IF posts[p].gone THEN "none" ELSE answer]

\* admit: the POST is refused, joins the operation it finds, or starts one.
\* Other senders may take all the capacity there is.
admit(p, n) ==
    LET intent == posts[p].intent
        found == Remembered(n, intent.id)
        forget == recent' = [recent EXCEPT ![n] = @ \ found]
        answerBusy == Reply(p, "busy") /\ UNCHANGED <<ops, active>>
        join(o) == /\ posts' = [posts EXCEPT ![p].at = "waiting", ![p].op = o]
                   /\ UNCHANGED <<ops, active, recent>>
        start == /\ ops' = Append(ops, [intent |-> intent, node |-> n, post |-> p, password |-> posts[p].password,
                                        phase |-> "authorizing", result |-> "none"])
                 /\ active' = [active EXCEPT ![n] = Len(ops) + 1]
                 /\ posts' = [posts EXCEPT ![p].at = "waiting", ![p].op = Len(ops) + 1]
    IN  /\ posts[p].at = "sent"
        /\ \/ (\A o \in found : ops[o].intent = intent /\ Replayable(o)) /\ forget /\ (start \/ answerBusy)
           \/ \E o \in found : ops[o].intent # intent /\ answerBusy /\ UNCHANGED recent
           \/ \E o \in found : ops[o].intent = intent /\ ~Replayable(o) /\ join(o)
        /\ UNCHANGED <<rows, balance, forgotten>>

\* finish: the result is published, the slot is free.
Publish(o, result) ==
    /\ ops' = [ops EXCEPT ![o].phase = "done", ![o].result = result, ![o].password = FALSE, ![o].post = 0]
    /\ active' = [active EXCEPT ![ops[o].node] = 0]
    /\ recent' = [recent EXCEPT ![ops[o].node] = @ \cup {o}]

\* AuthorizeWalletTransfer runs on the POST's own context: a wrong or locked
\* password refuses, a broken connection or a slow database leaves it unknown.
AuthorizeWalletTransfer(o) ==
    /\ ops[o].phase = "authorizing"
    /\ \/ /\ ops[o].password
          /\ ops' = [ops EXCEPT ![o].phase = "executing", ![o].password = FALSE, ![o].post = 0]
          /\ UNCHANGED <<active, recent>>
       \/ ~ops[o].password /\ Publish(o, "rejected")
       \/ Publish(o, "locked")
       \/ Publish(o, "unknown")
    /\ UNCHANGED <<rows, balance, forgotten, posts>>

End(o, result) == ops' = [ops EXCEPT ![o].phase = "ended", ![o].result = result]

\* TransferAuthorizedWalletQuota: one transaction under the locks of both
\* users.  A row of the same request is the result.  The recipient may be gone
\* before that is looked up; the balance may not do.  The commit may go through
\* or not when its answer is lost.
Reject(o) == End(o, "rejected") /\ UNCHANGED <<rows, balance>>
Commit(o) ==
    LET intent == ops[o].intent
    IN  /\ Row(intent.id) = {} /\ balance >= TotalDebit(intent)
        /\ rows' = rows \cup {intent}
        /\ balance' = balance - TotalDebit(intent)
        /\ \E result \in {"completed", "unknown"} : End(o, result)
TransferAuthorizedWalletQuota(o) ==
    /\ ops[o].phase = "executing"
    /\ \/ Reject(o)
       \/ Commit(o)
       \/ ops[o].intent \in rows /\ End(o, "completed") /\ UNCHANGED <<rows, balance>>
       \/ End(o, "unknown") /\ UNCHANGED <<rows, balance>>
    /\ UNCHANGED <<active, recent, forgotten, posts>>

finish(o) ==
    /\ ops[o].phase = "ended"
    /\ Publish(o, ops[o].result)
    /\ UNCHANGED <<rows, balance, forgotten, posts>>

\* The POST is answered with the outcome, or after a second as processing; the
\* POST that started the operation waits for its password check.
Outcome(o) == CASE ops[o].result = "completed" -> "completed"
                [] walletTransferRejection(o) -> ops[o].result
                [] OTHER -> "unconfirmed"
Answer(p) ==
    LET o == posts[p].op
    IN  /\ posts[p].at = "waiting"
        /\ \/ Done(o) /\ Reply(p, Outcome(o))
           \/ /\ ops[o].phase \in {"authorizing", "executing", "ended"}
              /\ ops[o].phase = "authorizing" => ops[o].post # p
              /\ Reply(p, "processing")
        /\ UNCHANGED serverVars

-----------------------------------------------------------------------------
\* Ten minutes or 128 newer operations later, an ended operation is dropped.
Drops(dropped) ==
    forgotten' = forgotten \cup {ops[o].intent.id : o \in {d \in dropped : ~walletTransferRejection(d)}}
expire(n, o) ==
    /\ o \in recent[n]
    /\ recent' = [recent EXCEPT ![n] = @ \ {o}]
    /\ Drops({o})
    /\ UNCHANGED <<rows, balance, ops, active, posts>>

\* A node restarts: its memory, its operation and its POSTs are gone.
Restart(n) ==
    LET running == {o \in {active[n]} : o # 0}
    IN  /\ running \cup recent[n] # {}
        /\ ops' = [o \in DOMAIN ops |-> IF o \in running THEN [ops[o] EXCEPT !.phase = "dead", !.result = "none", !.password = FALSE, !.post = 0]
                                        ELSE ops[o]]
        /\ active' = [active EXCEPT ![n] = 0] /\ recent' = [recent EXCEPT ![n] = {}]
        /\ Drops(running \cup recent[n])
        /\ posts' = [p \in DOMAIN posts |->
                       IF posts[p].at = "waiting" /\ ops[posts[p].op].node = n
                       THEN [posts[p] EXCEPT !.at = "over", !.password = FALSE, !.op = 0] ELSE posts[p]]
        /\ UNCHANGED <<rows, balance>>

\* getWalletTransferRequest looks for the row first; what the memory says of a
\* request without one, a cached success included, is only a status.
StatusOf(n, id) ==
    LET running == {o \in {active[n]} : o # 0 /\ ops[o].intent.id = id}
        found == IF running # {} THEN running ELSE {o \in recent[n] : ops[o].intent.id = id}
    IN  IF found = {} THEN "unconfirmed"
        ELSE LET o == CHOOSE o \in found : TRUE
             IN  CASE ~Done(o) -> "processing"
                   [] Done(o) /\ walletTransferRejection(o) -> ops[o].result
                   [] OTHER -> "unconfirmed"

ServerStep ==
    \/ \E p \in DOMAIN posts : Answer(p) \/ \E n \in Nodes : admit(p, n)
    \/ \E o \in DOMAIN ops : AuthorizeWalletTransfer(o) \/ TransferAuthorizedWalletQuota(o) \/ finish(o)
    \/ \E n \in Nodes : Restart(n) \/ \E o \in recent[n] : expire(n, o)
=============================================================================
