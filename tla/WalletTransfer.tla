--------------------------- MODULE WalletTransfer ---------------------------
(***************************************************************************)
(* A wallet transfer from the sender's page to the server and back.  The   *)
(* page writes the intent, with its request id, to the session storage of  *)
(* its tab before it sends it, and keeps it until a receipt of the server  *)
(* says it is completed: POSTs are refused, lost or answered late, the     *)
(* page is left or loaded again, storage fails.  TransferServer is the     *)
(* other side.                                                             *)
(***************************************************************************)
EXTENDS TransferServer

CONSTANT MaxIds   \* request ids the page makes

ASSUME IdsAssumption == MaxIds \in Nat

VARIABLES pendingIntent,  \* of the form, None for none
          stored,         \* in session storage
          submitting,     \* the POST the form awaits, 0 for none
          polling,        \* pollWalletTransferIntent is running
          missing,        \* the node that had no row for the read under way, if any
          storageBlocked,
          acknowledged,   \* ids the page showed as completed
          made            \* request ids made so far

formVars == <<pendingIntent, submitting, polling, missing, storageBlocked>>
clientVars == <<formVars, stored, acknowledged, made>>
vars == <<serverVars, posts, clientVars>>

Init ==
    /\ ServerInit
    /\ pendingIntent = None /\ stored = None /\ submitting = 0 /\ polling = FALSE
    /\ missing = {} /\ storageBlocked = FALSE /\ acknowledged = {} /\ made = 0

-----------------------------------------------------------------------------
\* The draft of the form: the pending intent, or a new one with a new id.
Drafts == IF pendingIntent # None THEN {pendingIntent}
          ELSE {[id |-> made + 1, amount |-> a] : a \in Amounts}

Send(intent, password) ==
    posts' = Append(posts, [intent |-> intent, password |-> password, at |-> "sent",
                            gone |-> FALSE, op |-> 0, answer |-> "none"])

\* Variant: the intent is sent without having been stored.
PersistLater(intent) == UNCHANGED stored

\* Persist before sending.
Persist(intent) == stored' = intent

\* submitTransfer with submitWalletTransferIntent, up to its await.  An intent
\* found in storage takes the place of the draft.  Storage that fails stops it
\* before anything is sent.
submitTransfer(draft, password) ==
    /\ submitting = 0 /\ ~polling /\ ~storageBlocked
    /\ Len(posts) < MaxPosts /\ draft.id <= MaxIds
    /\ made' = IF pendingIntent = None THEN made + 1 ELSE made
    /\ pendingIntent' = draft
    /\ LET intent == IF stored # None THEN stored ELSE draft
       IN  \/ /\ Persist(intent) /\ Send(intent, password)
              /\ submitting' = Len(posts) + 1
              /\ UNCHANGED <<polling, storageBlocked>>
           \/ /\ storageBlocked' = TRUE
              /\ polling' \in IF pendingIntent = draft THEN BOOLEAN ELSE {TRUE}
              /\ UNCHANGED <<stored, posts, submitting>>
    /\ UNCHANGED <<serverVars, missing, acknowledged>>

\* Only the intent that the receipt is for is removed.
clearWalletTransferIntent(intent) == stored' = IF stored.id = intent.id THEN None ELSE stored

\* completeTransfer: the receipt releases the intent; when storage cannot be
\* cleared the form stays blocked until the page is loaded again.
completeTransfer(intent) ==
    /\ acknowledged' = acknowledged \cup {intent.id}
    /\ pendingIntent' = None /\ polling' = FALSE /\ missing' = {}
    /\ \/ clearWalletTransferIntent(intent) /\ UNCHANGED storageBlocked
       \/ storageBlocked' = TRUE /\ UNCHANGED stored

\* Variant: a rejection releases the intent as a receipt does.
releaseRejected(intent) ==
    /\ pendingIntent' = None /\ stored' = None /\ polling' = FALSE
    /\ UNCHANGED <<missing, storageBlocked, acknowledged>>

\* Any other answer keeps it: only a completed receipt releases the intent.
keepRejected(intent) ==
    /\ pendingIntent' = intent /\ polling' = TRUE
    /\ UNCHANGED <<stored, missing, storageBlocked, acknowledged>>
keepUnknown(intent) ==
    /\ pendingIntent' = intent /\ polling' = TRUE
    /\ UNCHANGED <<stored, missing, storageBlocked, acknowledged>>

\* What the form does with the answer of its POST: 503 and 429 are errors to
\* axios, and as unknown as no answer; the poll starts when it is not completed.
Handle(intent, answer) ==
    CASE answer = "completed" -> completeTransfer(intent)
      [] answer = "rejected" -> keepRejected(intent)
      [] OTHER -> keepUnknown(intent)

\* The page waits no more for POST p.
Abandon(p) == posts' = [q \in DOMAIN posts |-> IF q = p THEN [posts[q] EXCEPT !.gone = TRUE, !.answer = "none"]
                                               ELSE posts[q]]

Receive ==
    /\ submitting # 0
    /\ LET post == posts[submitting]
       IN  \/ Handle(post.intent, "lost")
           \/ post.answer # "none" /\ Handle(post.intent, post.answer)
    /\ Abandon(submitting)
    /\ submitting' = 0
    /\ UNCHANGED <<serverVars, made>>

-----------------------------------------------------------------------------
\* Variant: the row is looked for only when the node's memory has nothing.
ReceiptUnlessKnown(n) ==
    pendingIntent \in rows /\ \A o \in recent[n] \cup {active[n]} : o = 0 \/ ops[o].intent # pendingIntent

\* LookupWalletTransferReceipt: a row that matches the intent.
Receipt(n) == pendingIntent \in rows

\* One read of the poll at node n: the row, or none and then the node's memory.
readReceipt(n) ==
    /\ polling /\ missing = {}
    /\ IF Receipt(n)
       THEN completeTransfer(pendingIntent)
       ELSE missing' = {n} /\ UNCHANGED <<pendingIntent, polling, stored, storageBlocked, acknowledged>>
    /\ UNCHANGED <<serverVars, posts, submitting, made>>

\* A rejection ends the poll, any other status has it read again; a 429 is an
\* error to axios.
readStatus ==
    /\ missing # {}
    /\ missing' = {}
    /\ polling' = \A n \in missing : StatusOf(n, pendingIntent.id) # "rejected"
    /\ UNCHANGED <<serverVars, posts, pendingIntent, submitting, stored, storageBlocked, acknowledged, made>>

\* Three minutes are over; or the user asks again.
PollEnds ==
    /\ polling
    /\ polling' = FALSE /\ missing' = {}
    /\ UNCHANGED <<serverVars, posts, pendingIntent, submitting, stored, storageBlocked, acknowledged, made>>
CheckStatus ==
    /\ pendingIntent # None /\ submitting = 0 /\ ~polling
    /\ polling' = TRUE
    /\ UNCHANGED <<serverVars, posts, pendingIntent, submitting, missing, stored, storageBlocked, acknowledged, made>>

\* The form is left, which aborts its requests, and shown again from storage,
\* in this page or after the page is loaded again; storage may not be readable.
restoreWalletTransferIntent(readable) == IF readable THEN stored ELSE None
Remount(readable) ==
    /\ Abandon(submitting) /\ submitting' = 0 /\ missing' = {}
    /\ pendingIntent' = restoreWalletTransferIntent(readable)
    /\ polling' = (pendingIntent' # None)
    /\ storageBlocked' = ~readable
    /\ UNCHANGED <<serverVars, stored, acknowledged, made>>

Next ==
    \/ ServerStep /\ UNCHANGED clientVars
    \/ \E draft \in Drafts, password \in BOOLEAN : submitTransfer(draft, password)
    \/ Receive
    \/ \E n \in Nodes : readReceipt(n)
    \/ readStatus \/ PollEnds \/ CheckStatus
    \/ \E readable \in BOOLEAN : Remount(readable)

Spec == Init /\ [][Next]_vars

\* The reads of a poll are answered again and again, its result is awaited, the
\* user asks again and loads the page when it says so.
Fairness ==
    /\ SF_vars(\E n \in Nodes : readReceipt(n))
    /\ WF_vars(readStatus) /\ WF_vars(Receive) /\ WF_vars(CheckStatus)
    /\ WF_vars(storageBlocked /\ pendingIntent = None /\ Remount(TRUE))
FairSpec == Spec /\ Fairness

-----------------------------------------------------------------------------
\* Money that has moved is either shown to the sender as completed or still
\* pending in the tab's storage, whatever was lost, refused or restarted: the
\* page never calls a transfer over that the server has executed.
AcknowledgedOrPending ==
    \A r \in rows : r.id \in acknowledged \/ r = stored

\* The sender never has two requests whose outcome the page does not know: no
\* second id is sent while the first may still move money.
SentIds == {posts[p].intent.id : p \in DOMAIN posts}
OneUnresolved == Cardinality(SentIds \ acknowledged) <= 1

\* "Unknown outcomes and successful results never replay here": a request that
\* moved money is refused later only by a node that has dropped, or never ran,
\* the operation that did.
RejectedNotCommitted ==
    [][\A o \in DOMAIN ops :
         /\ ops'[o].result \in Rejections /\ ops[o].result \notin Rejections
         /\ Row(ops[o].intent.id) # {}
         => \/ ops[o].intent.id \in forgotten
            \/ \E q \in DOMAIN ops : ops[q].intent = ops[o].intent /\ ops[q].node # ops[o].node]_vars

\* A transfer that moved money is shown as completed in the end.
EveryTransferAcknowledged ==
    \A id \in 1..MaxIds : (Row(id) # {}) ~> (id \in acknowledged)
=============================================================================
