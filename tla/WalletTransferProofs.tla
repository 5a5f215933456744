------------------------- MODULE WalletTransferProofs -------------------------
(***************************************************************************)
(* For every number of nodes, POSTs, request ids and amounts: money that   *)
(* moved is acknowledged or still pending, at most one request is          *)
(* unresolved, and a request that moved money is refused later only where  *)
(* its operation is unknown. The inductive invariant follows an intent     *)
(* through the system: what is on its way, what an operation holds and     *)
(* what a row records was stored before it was sent, and leaves storage    *)
(* only when the page has acknowledged its id.                             *)
(***************************************************************************)
EXTENDS WalletTransfer, FiniteSetTheorems, SequenceTheorems, TLAPS

Intents == [id : Nat \ {0}, amount : Nat]
Phases == {"authorizing", "executing", "ended", "done", "dead"}
Results == {"none", "completed", "unknown"} \cup Rejections
Answers == Results \cup {"processing", "unconfirmed", "busy"}

PostType == [intent : Intents, password : BOOLEAN, at : {"sent", "waiting", "over"},
             gone : BOOLEAN, op : Nat, answer : Answers]
OpType == [intent : Intents, node : Nodes, post : Nat, password : BOOLEAN,
           phase : Phases, result : Results]

TypeOK ==
    /\ rows \subseteq Intents
    /\ ops \in Seq(OpType) /\ posts \in Seq(PostType)
    /\ active \in [Nodes -> Nat] /\ recent \in [Nodes -> SUBSET Nat]
    /\ pendingIntent \in Intents \cup {None} /\ stored \in Intents \cup {None}
    /\ submitting \in {0} \cup DOMAIN posts
    /\ made \in Nat

\* The page still knows of the intent, or has acknowledged it.
Known(intent) == intent.id \in acknowledged \/ intent = stored

PostsKnown == \A p \in DOMAIN posts : Known(posts[p].intent)
OpsKnown == \A o \in DOMAIN ops : Known(ops[o].intent)
RowsKnown == \A r \in rows : Known(r)
IInv == TypeOK /\ PostsKnown /\ OpsKnown /\ RowsKnown

\* How a step of the server passes intents on: POSTs keep theirs, an operation
\* has that of a POST, a row that of an operation.
SamePosts ==
    /\ posts' \in Seq(PostType) /\ DOMAIN posts' = DOMAIN posts
    /\ \A p \in DOMAIN posts : posts'[p].intent = posts[p].intent
OpsFromPosts ==
    /\ ops' \in Seq(OpType)
    /\ \A o \in DOMAIN ops' : \/ \E q \in DOMAIN ops : ops'[o].intent = ops[q].intent
                              \/ \E p \in DOMAIN posts : ops'[o].intent = posts[p].intent
MemoryTyped == active' \in [Nodes -> Nat] /\ recent' \in [Nodes -> SUBSET Nat]
RowsFromOps == \A r \in rows' : r \in rows \/ \E o \in DOMAIN ops : r = ops[o].intent

-----------------------------------------------------------------------------
\* A function on 1..n is a sequence of length n.
LEMMA FunctionIsSeq ==
    ASSUME NEW T, NEW n \in Nat, NEW f \in [1..n -> T]
    PROVE  f \in Seq(T) /\ Len(f) = n /\ DOMAIN f = 1..n
<1>1. f \in Seq(T)
  BY SeqDef
<1>2. Len(f) \in Nat /\ DOMAIN f = 1..Len(f)
  BY <1>1, LenProperties
<1> QED
  BY <1>1, <1>2

\* The types of the two sequences as functions.
LEMMA SequenceTypes ==
    ASSUME TypeOK
    PROVE  /\ Len(posts) \in Nat /\ DOMAIN posts = 1..Len(posts) /\ posts \in [1..Len(posts) -> PostType]
           /\ Len(ops) \in Nat /\ DOMAIN ops = 1..Len(ops) /\ ops \in [1..Len(ops) -> OpType]
BY LenProperties DEF TypeOK

\* A step that changes fields of POST p other than its intent.
LEMMA PostChanged ==
    ASSUME TypeOK, NEW p \in DOMAIN posts, NEW e \in PostType, e.intent = posts[p].intent,
           posts' = [posts EXCEPT ![p] = e]
    PROVE  SamePosts
<1>1. posts' \in [1..Len(posts) -> PostType]
  BY SequenceTypes
<1>2. posts' \in Seq(PostType) /\ DOMAIN posts' = 1..Len(posts)
  BY <1>1, FunctionIsSeq, SequenceTypes
<1> QED
  BY <1>2, SequenceTypes DEF SamePosts

\* A step that changes fields of operation o other than its intent.
LEMMA OpChanged ==
    ASSUME TypeOK, NEW o \in DOMAIN ops, NEW e \in OpType, e.intent = ops[o].intent,
           ops' = [ops EXCEPT ![o] = e]
    PROVE  OpsFromPosts
<1>1. ops' \in [1..Len(ops) -> OpType]
  BY SequenceTypes
<1>2. ops' \in Seq(OpType) /\ DOMAIN ops' = 1..Len(ops)
  BY <1>1, FunctionIsSeq, SequenceTypes
<1> QED
  BY <1>2, SequenceTypes DEF OpsFromPosts

\* Reply and Publish change a POST and an operation in that way.
LEMMA ReplyKeeps ==
    ASSUME TypeOK, NEW p \in DOMAIN posts, NEW answer \in Answers, Reply(p, answer)
    PROVE  SamePosts
<1> DEFINE e == [posts[p] EXCEPT !.at = "over", !.password = FALSE, !.op = 0,
                                 !.answer = IF posts[p].gone THEN "none" ELSE answer]
<1>1. posts[p] \in PostType
  BY SequenceTypes
<1>2. e \in PostType /\ e.intent = posts[p].intent
  BY <1>1 DEF PostType, Answers, Results
<1>3. posts' = [posts EXCEPT ![p] = e]
  BY SequenceTypes, <1>1 DEF Reply, PostType
<1> QED
  BY <1>2, <1>3, PostChanged

\* Steps that leave a part of the server's state as it is.
LEMMA PostsUnchanged ==
    ASSUME TypeOK, UNCHANGED posts
    PROVE  SamePosts
BY DEF TypeOK, SamePosts

LEMMA OpsUnchanged ==
    ASSUME TypeOK, UNCHANGED ops
    PROVE  OpsFromPosts
BY DEF TypeOK, OpsFromPosts

LEMMA RowsUnchanged ==
    ASSUME UNCHANGED rows
    PROVE  RowsFromOps
BY DEF RowsFromOps

LEMMA WaitKeeps ==
    ASSUME TypeOK, NEW p \in DOMAIN posts, NEW o \in Nat,
           posts' = [posts EXCEPT ![p].at = "waiting", ![p].op = o]
    PROVE  SamePosts
<1> DEFINE e == [posts[p] EXCEPT !.at = "waiting", !.op = o]
<1>1. posts[p] \in PostType
  BY SequenceTypes
<1>2. e \in PostType /\ e.intent = posts[p].intent
  BY <1>1 DEF PostType
<1>3. posts' = [posts EXCEPT ![p] = e]
  BY SequenceTypes, <1>1 DEF PostType
<1> QED
  BY <1>2, <1>3, PostChanged

LEMMA EndKeeps ==
    ASSUME TypeOK, NEW o \in DOMAIN ops, NEW result \in Results, End(o, result)
    PROVE  OpsFromPosts
<1> DEFINE e == [ops[o] EXCEPT !.phase = "ended", !.result = result]
<1>1. ops[o] \in OpType
  BY SequenceTypes
<1>2. e \in OpType /\ e.intent = ops[o].intent
  BY <1>1 DEF OpType, Phases
<1>3. ops' = [ops EXCEPT ![o] = e]
  BY SequenceTypes, <1>1 DEF End, OpType
<1> QED
  BY <1>2, <1>3, OpChanged

LEMMA PublishKeeps ==
    ASSUME TypeOK, NEW o \in DOMAIN ops, NEW result \in Results, Publish(o, result)
    PROVE  OpsFromPosts /\ MemoryTyped
<1> DEFINE e == [ops[o] EXCEPT !.phase = "done", !.result = result, !.password = FALSE, !.post = 0]
<1>1. ops[o] \in OpType
  BY SequenceTypes
<1>2. e \in OpType /\ e.intent = ops[o].intent
  BY <1>1 DEF OpType, Phases
<1>3. ops' = [ops EXCEPT ![o] = e]
  BY SequenceTypes, <1>1 DEF Publish, OpType
<1>4. o \in Nat
  BY SequenceTypes
<1>5. MemoryTyped
  BY <1>1, <1>4 DEF Publish, TypeOK, OpType, MemoryTyped
<1> QED
  BY <1>2, <1>3, <1>5, OpChanged

\* What a step of the server may do with intents.
Passes == SamePosts /\ OpsFromPosts /\ RowsFromOps /\ MemoryTyped

LEMMA admitPasses ==
    ASSUME TypeOK, NEW p \in DOMAIN posts, NEW n \in Nodes, admit(p, n)
    PROVE  Passes
<1> DEFINE intent == posts[p].intent
           op == [intent |-> intent, node |-> n, post |-> p, password |-> posts[p].password,
                  phase |-> "authorizing", result |-> "none"]
<1>0. posts[p] \in PostType /\ p \in Nat
  BY SequenceTypes
<1>1. RowsFromOps
  BY RowsUnchanged DEF admit
<1>2. CASE Reply(p, "busy") /\ UNCHANGED <<ops, active>>
  <2>1. MemoryTyped
    BY <1>2, <1>0 DEF admit, TypeOK, MemoryTyped
  <2> QED
    BY <1>1, <1>2, <2>1, ReplyKeeps, OpsUnchanged DEF Passes, Answers
<1>3. CASE /\ \E o \in Remembered(n, intent.id) : posts' = [posts EXCEPT ![p].at = "waiting", ![p].op = o]
           /\ UNCHANGED <<ops, active, recent>>
  <2>1. PICK o \in Remembered(n, intent.id) : posts' = [posts EXCEPT ![p].at = "waiting", ![p].op = o]
    BY <1>3
  <2>2. o \in Nat
    BY <2>1 DEF Remembered, TypeOK
  <2>3. SamePosts
    BY <2>1, <2>2, WaitKeeps
  <2>4. MemoryTyped
    BY <1>3 DEF TypeOK, MemoryTyped
  <2> QED
    BY <1>1, <1>3, <2>3, <2>4, OpsUnchanged DEF Passes
<1>4. CASE /\ ops' = Append(ops, op) /\ active' = [active EXCEPT ![n] = Len(ops) + 1]
           /\ recent' = [recent EXCEPT ![n] = @ \ Remembered(n, intent.id)]
           /\ posts' = [posts EXCEPT ![p].at = "waiting", ![p].op = Len(ops) + 1]
  <2>1. Len(ops) + 1 \in Nat
    BY SequenceTypes
  <2>2. SamePosts
    BY <1>4, <2>1, WaitKeeps
  <2>3. MemoryTyped
    BY <1>4, <2>1 DEF TypeOK, MemoryTyped
  <2>4. op \in OpType
    BY <1>0 DEF PostType, OpType, Phases, Results
  <2>5. /\ ops' \in Seq(OpType) /\ DOMAIN ops' = 1..(Len(ops) + 1)
        /\ \A o \in 1..(Len(ops) + 1) : ops'[o] = IF o = Len(ops) + 1 THEN op ELSE ops[o]
    BY <1>4, <2>4, SequenceTypes DEF TypeOK
  <2>6. OpsFromPosts
    BY <2>5, SequenceTypes DEF OpsFromPosts
  <2> QED
    BY <1>1, <2>2, <2>3, <2>6 DEF Passes
<1> QED
  BY <1>2, <1>3, <1>4 DEF admit

LEMMA AuthorizePasses ==
    ASSUME TypeOK, NEW o \in DOMAIN ops, AuthorizeWalletTransfer(o)
    PROVE  Passes
<1>1. SamePosts /\ RowsFromOps
  BY PostsUnchanged, RowsUnchanged DEF AuthorizeWalletTransfer
<1>2. ASSUME NEW result \in Results, Publish(o, result)
      PROVE  Passes
  BY <1>1, <1>2, PublishKeeps DEF Passes
<1>3. CASE ops' = [ops EXCEPT ![o].phase = "executing", ![o].password = FALSE, ![o].post = 0]
           /\ UNCHANGED <<active, recent>>
  <2> DEFINE e == [ops[o] EXCEPT !.phase = "executing", !.password = FALSE, !.post = 0]
  <2>1. ops[o] \in OpType
    BY SequenceTypes
  <2>2. e \in OpType /\ e.intent = ops[o].intent
    BY <2>1 DEF OpType, Phases
  <2>3. ops' = [ops EXCEPT ![o] = e]
    BY <1>3, SequenceTypes, <2>1 DEF OpType
  <2>4. OpsFromPosts
    BY <2>2, <2>3, OpChanged
  <2> QED
    BY <1>1, <1>3, <2>4 DEF Passes, MemoryTyped, TypeOK
<1> QED
  BY <1>2, <1>3 DEF AuthorizeWalletTransfer, Results, Rejections

LEMMA TransferPasses ==
    ASSUME TypeOK, NEW o \in DOMAIN ops, TransferAuthorizedWalletQuota(o)
    PROVE  Passes
<1>1. SamePosts /\ MemoryTyped
  BY PostsUnchanged DEF TransferAuthorizedWalletQuota, MemoryTyped, TypeOK
<1>2. \E result \in Results : End(o, result)
  BY DEF TransferAuthorizedWalletQuota, Reject, Commit, Results, Rejections
<1>3. rows' = rows \/ rows' = rows \cup {ops[o].intent}
  BY DEF TransferAuthorizedWalletQuota, Reject, Commit
<1> QED
  BY <1>1, <1>2, <1>3, EndKeeps DEF Passes, RowsFromOps

LEMMA finishPasses ==
    ASSUME TypeOK, NEW o \in DOMAIN ops, finish(o)
    PROVE  Passes
<1>1. ops[o].result \in Results
  BY SequenceTypes DEF OpType
<1> QED
  BY <1>1, PublishKeeps, PostsUnchanged, RowsUnchanged DEF finish, Passes

LEMMA AnswerPasses ==
    ASSUME TypeOK, NEW p \in DOMAIN posts, Answer(p)
    PROVE  Passes
<1>1. PICK o : o = posts[p].op
  OBVIOUS
<1>2. \E answer \in Answers : Reply(p, answer)
  <2>1. CASE Reply(p, "processing")
    BY <2>1 DEF Answers
  <2>2. CASE Reply(p, Outcome(o))
    <3>1. Outcome(o) \in Answers
      BY DEF Outcome, walletTransferRejection, Answers, Results
    <3> QED
      BY <2>2, <3>1
  <2> QED
    BY <1>1, <2>1, <2>2 DEF Answer
<1> QED
  BY <1>2, ReplyKeeps, OpsUnchanged, RowsUnchanged DEF Answer, serverVars, Passes, MemoryTyped, TypeOK

LEMMA expirePasses ==
    ASSUME TypeOK, NEW n \in Nodes, NEW o \in recent[n], expire(n, o)
    PROVE  Passes
BY OpsUnchanged, PostsUnchanged, RowsUnchanged DEF expire, Passes, MemoryTyped, TypeOK

LEMMA RestartPasses ==
    ASSUME TypeOK, NEW n \in Nodes, Restart(n)
    PROVE  Passes
<1> DEFINE running == {o \in {active[n]} : o # 0}
           dead(o) == [ops[o] EXCEPT !.phase = "dead", !.result = "none", !.password = FALSE, !.post = 0]
           over(p) == [posts[p] EXCEPT !.at = "over", !.password = FALSE, !.op = 0]
<1>1. \A o \in DOMAIN ops : dead(o) \in OpType /\ dead(o).intent = ops[o].intent /\ ops[o] \in OpType
  BY SequenceTypes DEF OpType, Phases, Results
<1>2. \A p \in DOMAIN posts : over(p) \in PostType /\ over(p).intent = posts[p].intent /\ posts[p] \in PostType
  BY SequenceTypes DEF PostType
<1>3. ops' = [o \in DOMAIN ops |-> IF o \in running THEN dead(o) ELSE ops[o]]
  BY DEF Restart
<1>4. posts' = [p \in DOMAIN posts |->
                   IF posts[p].at = "waiting" /\ ops[posts[p].op].node = n THEN over(p) ELSE posts[p]]
  BY DEF Restart
<1> HIDE DEF dead, over, running
<1>5. ops' \in [1..Len(ops) -> OpType] /\ \A o \in DOMAIN ops : ops'[o].intent = ops[o].intent
  BY <1>1, <1>3, SequenceTypes
<1>6. posts' \in [1..Len(posts) -> PostType] /\ \A p \in DOMAIN posts : posts'[p].intent = posts[p].intent
  BY <1>2, <1>4, SequenceTypes
<1>7. OpsFromPosts
  BY <1>5, SequenceTypes, FunctionIsSeq DEF OpsFromPosts
<1>8. SamePosts
  BY <1>6, SequenceTypes, FunctionIsSeq DEF SamePosts
<1>9. MemoryTyped /\ RowsFromOps
  BY RowsUnchanged DEF Restart, MemoryTyped, TypeOK
<1> QED
  BY <1>7, <1>8, <1>9 DEF Passes

-----------------------------------------------------------------------------
\* A server step that only passes intents on keeps them known, since the page
\* does not move.
LEMMA PassesKeepsKnown ==
    ASSUME IInv, Passes, UNCHANGED clientVars
    PROVE  IInv'
<1> USE DEF clientVars, formVars
<1>1. \A i : Known(i)' <=> Known(i)
  BY DEF Known
<1>2. PostsKnown'
  BY <1>1 DEF IInv, PostsKnown, Passes, SamePosts
<1>3. OpsKnown'
  BY <1>1 DEF IInv, PostsKnown, OpsKnown, Passes, OpsFromPosts
<1>4. RowsKnown'
  BY <1>1 DEF IInv, RowsKnown, OpsKnown, Passes, RowsFromOps
<1>5. rows' \subseteq Intents
  <2>1. \A o \in DOMAIN ops : ops[o].intent \in Intents
    BY SequenceTypes DEF IInv, OpType
  <2> QED
    BY <2>1 DEF IInv, TypeOK, Passes, RowsFromOps
<1>6. TypeOK'
  BY <1>5 DEF IInv, TypeOK, Passes, SamePosts, OpsFromPosts, MemoryTyped
<1> QED
  BY <1>2, <1>3, <1>4, <1>6 DEF IInv

LEMMA ServerKeeps ==
    ASSUME IInv, ServerStep, UNCHANGED clientVars
    PROVE  IInv'
<1>1. TypeOK
  BY DEF IInv
<1>2. Passes
  BY <1>1, admitPasses, AnswerPasses, AuthorizePasses, TransferPasses, finishPasses, RestartPasses,
     expirePasses DEF ServerStep
<1> QED
  BY <1>2, PassesKeepsKnown

\* A step of the page that leaves POSTs, operations and rows alone and keeps
\* everything known.
StillKnown == \A i \in Intents : Known(i) => Known(i)'
FormTyped ==
    /\ pendingIntent' \in Intents \cup {None} /\ stored' \in Intents \cup {None}
    /\ made' \in Nat

LEMMA PageKeeps ==
    ASSUME IInv, StillKnown, FormTyped, SamePosts, UNCHANGED serverVars,
           submitting' \in {0} \cup DOMAIN posts
    PROVE  IInv'
<1>1. \A p \in DOMAIN posts : posts[p].intent \in Intents
  BY SequenceTypes DEF IInv, PostType
<1>2. \A o \in DOMAIN ops : ops[o].intent \in Intents
  BY SequenceTypes DEF IInv, OpType
<1>3. PostsKnown'
  BY <1>1 DEF IInv, PostsKnown, SamePosts, StillKnown
<1>4. OpsKnown'
  BY <1>2 DEF IInv, OpsKnown, serverVars, StillKnown
<1>5. RowsKnown'
  BY DEF IInv, TypeOK, RowsKnown, serverVars, StillKnown
<1>6. TypeOK'
  BY DEF IInv, TypeOK, FormTyped, SamePosts, serverVars
<1> QED
  BY <1>3, <1>4, <1>5, <1>6 DEF IInv

\* The page forgets a stored intent only together with acknowledging its id.
LEMMA completeKeeps ==
    ASSUME TypeOK, NEW intent \in Intents, completeTransfer(intent)
    PROVE  StillKnown /\ stored' \in Intents \cup {None} /\ pendingIntent' \in Intents \cup {None}
BY DEF TypeOK, completeTransfer, clearWalletTransferIntent, StillKnown, Known, None, Intents

LEMMA HandleKeeps ==
    ASSUME TypeOK, NEW intent \in Intents, NEW answer, Handle(intent, answer)
    PROVE  StillKnown /\ stored' \in Intents \cup {None} /\ pendingIntent' \in Intents \cup {None}
BY completeKeeps DEF TypeOK, Handle, keepRejected, keepUnknown, StillKnown, Known

LEMMA AbandonKeeps ==
    ASSUME TypeOK, NEW q, Abandon(q)
    PROVE  SamePosts
<1> DEFINE left(p) == [posts[p] EXCEPT !.gone = TRUE, !.answer = "none"]
<1>1. ASSUME NEW p \in DOMAIN posts
      PROVE  left(p) \in PostType /\ left(p).intent = posts[p].intent /\ posts[p] \in PostType
  <2>1. posts[p] \in PostType
    BY SequenceTypes
  <2>2. "none" \in Answers
    BY DEF Answers, Results
  <2> QED
    BY <2>1, <2>2 DEF PostType
<1>2. posts' = [p \in DOMAIN posts |-> IF p = q THEN left(p) ELSE posts[p]]
  BY DEF Abandon
<1> HIDE DEF left
<1>3. posts' \in [1..Len(posts) -> PostType] /\ \A p \in DOMAIN posts : posts'[p].intent = posts[p].intent
  BY <1>1, <1>2, SequenceTypes
<1> QED
  BY <1>3, SequenceTypes, FunctionIsSeq DEF SamePosts

-----------------------------------------------------------------------------
\* The steps of the page, one by one.
LEMMA submitKeeps ==
    ASSUME IInv, NEW draft \in Drafts, NEW password \in BOOLEAN, submitTransfer(draft, password)
    PROVE  IInv'
<1> DEFINE intent == IF stored # None THEN stored ELSE draft
<1>0. TypeOK /\ draft \in Intents /\ intent \in Intents /\ made' \in Nat
  BY TransferAssumption DEF IInv, TypeOK, Drafts, submitTransfer, Intents
<1>1. CASE UNCHANGED <<stored, posts, submitting>>
  <2>1. StillKnown /\ FormTyped
    BY <1>0, <1>1 DEF submitTransfer, StillKnown, FormTyped, Known, TypeOK
  <2>2. submitting' \in {0} \cup DOMAIN posts /\ UNCHANGED serverVars
    BY <1>0, <1>1 DEF TypeOK, submitTransfer
  <2> QED
    BY <1>0, <1>1, <2>1, <2>2, PostsUnchanged, PageKeeps
<1>2. CASE Persist(intent) /\ Send(intent, password) /\ submitting' = Len(posts) + 1
  <2> DEFINE post == [intent |-> intent, password |-> password, at |-> "sent",
                      gone |-> FALSE, op |-> 0, answer |-> "none"]
  <2>1. stored' = intent /\ posts' = Append(posts, post)
    BY <1>2 DEF Persist, Send
  <2>2. StillKnown
    BY <1>0, <2>1 DEF submitTransfer, StillKnown, Known, None, Intents
  <2>3. post \in PostType /\ post.intent = intent
    BY <1>0 DEF PostType, Answers, Results
  <2> HIDE DEF post
  <2>4. /\ posts' \in Seq(PostType) /\ DOMAIN posts' = 1..(Len(posts) + 1)
        /\ \A p \in 1..(Len(posts) + 1) : posts'[p] = IF p = Len(posts) + 1 THEN post ELSE posts[p]
    BY <1>0, <2>1, <2>3, SequenceTypes DEF TypeOK
  <2>5. \A p \in DOMAIN posts : posts[p].intent \in Intents
    BY <1>0, SequenceTypes DEF PostType
  <2>6. PostsKnown'
    BY <1>0, <2>1, <2>2, <2>3, <2>4, <2>5, SequenceTypes DEF IInv, PostsKnown, StillKnown, Known
  <2>7. \A o \in DOMAIN ops : ops[o].intent \in Intents
    BY <1>0, SequenceTypes DEF OpType
  <2>8. OpsKnown' /\ RowsKnown'
    BY <1>0, <2>2, <2>7 DEF IInv, TypeOK, OpsKnown, RowsKnown, submitTransfer, serverVars, StillKnown
  <2>9. TypeOK'
    BY <1>0, <1>2, <2>1, <2>4, SequenceTypes DEF TypeOK, submitTransfer, serverVars
  <2> QED
    BY <2>6, <2>8, <2>9 DEF IInv
<1> QED
  BY <1>1, <1>2 DEF submitTransfer

LEMMA ReceiveKeeps ==
    ASSUME IInv, Receive
    PROVE  IInv'
<1> DEFINE post == posts[submitting]
<1>0. TypeOK /\ submitting \in DOMAIN posts
  BY DEF IInv, TypeOK, Receive
<1>1. post.intent \in Intents
  BY <1>0, SequenceTypes DEF PostType
<1>2. \E answer : Handle(post.intent, answer)
  BY DEF Receive
<1>3. StillKnown /\ FormTyped
  BY <1>0, <1>1, <1>2, HandleKeeps DEF FormTyped, Receive, TypeOK
<1>4. SamePosts
  BY <1>0, AbandonKeeps DEF Receive
<1> QED
  BY <1>3, <1>4, PageKeeps DEF Receive

LEMMA PollKeeps ==
    ASSUME IInv, \/ \E n \in Nodes : readReceipt(n)
                 \/ readStatus \/ PollEnds \/ CheckStatus
    PROVE  IInv'
<1>0. TypeOK
  BY DEF IInv
<1> USE DEF readReceipt, readStatus, PollEnds, CheckStatus
<1>1. SamePosts /\ UNCHANGED serverVars /\ submitting' \in {0} \cup DOMAIN posts
  BY <1>0, PostsUnchanged DEF TypeOK
<1>2. StillKnown /\ FormTyped
  <2>1. CASE \E n \in Nodes : readReceipt(n) /\ Receipt(n)
    <3>1. pendingIntent \in Intents /\ completeTransfer(pendingIntent)
      BY <1>0, <2>1 DEF Receipt, TypeOK
    <3> QED
      BY <1>0, <2>1, <3>1, completeKeeps DEF FormTyped, TypeOK
  <2>2. CASE UNCHANGED <<pendingIntent, stored, acknowledged, made>>
    BY <1>0, <2>2 DEF StillKnown, FormTyped, Known, TypeOK
  <2> QED
    BY <2>1, <2>2
<1> QED
  BY <1>1, <1>2, PageKeeps

LEMMA RemountKeeps ==
    ASSUME IInv, NEW readable \in BOOLEAN, Remount(readable)
    PROVE  IInv'
<1>0. TypeOK
  BY DEF IInv
<1>1. StillKnown /\ FormTyped
  BY <1>0 DEF Remount, restoreWalletTransferIntent, StillKnown, FormTyped, Known, TypeOK
<1>2. SamePosts
  BY <1>0, AbandonKeeps DEF Remount
<1> QED
  BY <1>1, <1>2, PageKeeps DEF Remount

\* The invariant holds throughout, for every set of nodes and amounts and all
\* bounds on POSTs and ids.
THEOREM IntentsKnown == Spec => []IInv
<1>1. Init => IInv
  BY EmptySeq DEF Init, ServerInit, IInv, TypeOK, PostsKnown, OpsKnown, RowsKnown
<1>2. IInv /\ [Next]_vars => IInv'
  <2> SUFFICES ASSUME IInv, [Next]_vars PROVE IInv'
    OBVIOUS
  <2>1. CASE UNCHANGED vars
    BY <2>1 DEF vars, serverVars, clientVars, formVars, IInv, TypeOK, PostsKnown, OpsKnown, RowsKnown, Known
  <2>2. CASE Next
    BY <2>2, ServerKeeps, submitKeeps, ReceiveKeeps, PollKeeps, RemountKeeps DEF Next
  <2> QED
    BY <2>1, <2>2
<1> QED
  BY <1>1, <1>2, PTL DEF Spec

\* Money that has moved was acknowledged to the sender or is still pending in
\* the tab, whatever the nodes, the network and the storage did.
THEOREM NoMoneyMovesUnseen == Spec => []AcknowledgedOrPending
<1>1. IInv => AcknowledgedOrPending
  BY DEF IInv, RowsKnown, Known, AcknowledgedOrPending
<1> QED
  BY <1>1, IntentsKnown, PTL

\* At most one request that was sent is unresolved: it is the stored one.
THEOREM AtMostOneUnresolved == Spec => []OneUnresolved
<1>1. IInv => OneUnresolved
  <2> SUFFICES ASSUME IInv PROVE OneUnresolved
    OBVIOUS
  <2>1. SentIds \ acknowledged \subseteq {stored.id}
    BY DEF IInv, PostsKnown, Known, SentIds
  <2>2. IsFiniteSet({stored.id}) /\ Cardinality({stored.id}) = 1
    BY FS_Singleton
  <2>3. Cardinality(SentIds \ acknowledged) <= Cardinality({stored.id})
    BY <2>1, <2>2, FS_Subset
  <2> QED
    BY <2>2, <2>3 DEF OneUnresolved
<1> QED
  BY <1>1, IntentsKnown, PTL
-----------------------------------------------------------------------------
(***************************************************************************)
(* What a node still knows of an operation that moved money.  A node runs  *)
(* one operation of the sender at a time, keeps the ended ones, and starts *)
(* a request again only if all it remembers of it are known rollbacks.  So *)
(* an operation that is still to execute a request with a row runs on      *)
(* another node than the one that made the row, or after it was dropped.   *)
(***************************************************************************)
Early == {"authorizing", "executing"}
Running == Early \cup {"ended"}
Moved == {"completed", "unknown"}

\* A node's operations are where its memory says.
OpsCurrent ==
    /\ \A n \in Nodes : active[n] # 0 =>
         active[n] \in DOMAIN ops /\ ops[active[n]].node = n /\ ops[active[n]].phase \in Running
    /\ \A o \in DOMAIN ops : ops[o].phase \in Running => active[ops[o].node] = o
    /\ \A o \in DOMAIN ops : ops[o].phase \in Early => ops[o].result = "none"
    /\ \A n \in Nodes : \A o \in recent[n] : o \in DOMAIN ops /\ ops[o].node = n /\ Done(o)

\* A request id stands for one intent, wherever it has come.
Intended ==
    {posts[p].intent : p \in DOMAIN posts} \cup {ops[o].intent : o \in DOMAIN ops} \cup rows
    \cup ({stored, pendingIntent} \ {None})
IdsUsedOnce ==
    /\ \A i, j \in Intended : i.id = j.id => i = j
    /\ \A i \in Intended : i.id <= made

\* The operation that made a row is remembered by its node, or was dropped.
Remembers(q) == active[ops[q].node] = q \/ q \in recent[ops[q].node]
MadeBy(r, q) == ops[q].intent = r /\ ops[q].result \in Moved /\ Remembers(q)
RowsRemembered ==
    \A r \in rows : r.id \in forgotten \/ \E q \in DOMAIN ops : MadeBy(r, q)

\* An operation that is still to execute a request with a row has an excuse.
Excused(o) ==
    \/ ops[o].intent.id \in forgotten
    \/ \E q \in DOMAIN ops : ops[q].intent = ops[o].intent /\ ops[q].node # ops[o].node
LateExcused ==
    \A o \in DOMAIN ops : ops[o].phase \in Early /\ Row(ops[o].intent.id) # {} => Excused(o)

MemoryInv == OpsCurrent /\ RowsRemembered /\ LateExcused

\* The body of RejectedNotCommitted.
Refuses(o) == ops'[o].result \in Rejections /\ ops[o].result \notin Rejections
RefusedExcused ==
    \A o \in DOMAIN ops : Refuses(o) /\ Row(ops[o].intent.id) # {} => Excused(o)

\* A step of the server keeps all of this.
Remembering == MemoryInv' /\ RefusedExcused

-----------------------------------------------------------------------------
\* Operations keep their intents and nodes, and what was dropped stays so:
\* an excuse remains one.
OpsGrow ==
    /\ \A o \in DOMAIN ops : /\ o \in DOMAIN ops'
                             /\ ops'[o].intent = ops[o].intent /\ ops'[o].node = ops[o].node
    /\ forgotten \subseteq forgotten'

LEMMA ExcuseStays ==
    ASSUME OpsGrow, NEW o \in DOMAIN ops, Excused(o)
    PROVE  Excused(o)'
BY DEF OpsGrow, Excused

\* No row is new and nothing starts.
LEMMA OldExcuses ==
    ASSUME MemoryInv, OpsGrow, UNCHANGED rows,
           \A x \in DOMAIN ops' : ops'[x].phase \in Early => x \in DOMAIN ops /\ ops[x].phase \in Early
    PROVE  LateExcused'
<1> SUFFICES ASSUME NEW x \in DOMAIN ops', ops'[x].phase \in Early, Row(ops[x].intent.id)' # {}
             PROVE  Excused(x)'
  BY DEF LateExcused
<1>1. x \in DOMAIN ops /\ ops[x].phase \in Early /\ ops'[x].intent = ops[x].intent
  BY DEF OpsGrow
<1>2. Row(ops[x].intent.id) # {}  BY <1>1 DEF Row
<1>3. Excused(x)  BY <1>1, <1>2 DEF MemoryInv, LateExcused
<1> QED  BY <1>1, <1>3, ExcuseStays

\* One operation changes.
LEMMA OneOpChanges ==
    ASSUME TypeOK, NEW o \in DOMAIN ops, NEW e \in OpType, ops' = [ops EXCEPT ![o] = e],
           e.intent = ops[o].intent, e.node = ops[o].node, UNCHANGED forgotten
    PROVE  /\ DOMAIN ops' = DOMAIN ops /\ ops'[o] = e
           /\ \A q \in DOMAIN ops \ {o} : ops'[q] = ops[q]
           /\ OpsGrow
<1>1. /\ DOMAIN ops' = DOMAIN ops /\ ops'[o] = e
      /\ \A q \in DOMAIN ops \ {o} : ops'[q] = ops[q]
  BY SequenceTypes
<1> QED  BY <1>1 DEF OpsGrow

LEMMA OpFacts ==
    ASSUME TypeOK, OpsCurrent, NEW o \in DOMAIN ops
    PROVE  /\ ops[o] \in OpType /\ ops[o].node \in Nodes /\ o \in Nat /\ o # 0
           /\ ops[o].phase \in Early => ops[o].result \notin Moved
<1>1. ops[o] \in OpType /\ o \in Nat /\ o # 0  BY SequenceTypes
<1> QED  BY <1>1 DEF OpType, OpsCurrent, Moved

\* finish and a refused authorization publish a result: the operation moves
\* from the node's slot to its recent ones.
LEMMA PublishRemembers ==
    ASSUME TypeOK, MemoryInv, NEW o \in DOMAIN ops, ops[o].phase \in Running,
           NEW result \in Results, Publish(o, result), UNCHANGED <<rows, forgotten>>,
           ops[o].phase = "authorizing" \/ result = ops[o].result
    PROVE  Remembering
<1> DEFINE e == [ops[o] EXCEPT !.phase = "done", !.result = result, !.password = FALSE, !.post = 0]
           n == ops[o].node
<1>1. ops[o] \in OpType /\ n \in Nodes /\ o \in Nat /\ o # 0
  BY OpFacts DEF MemoryInv
<1>2. /\ e \in OpType /\ e.intent = ops[o].intent /\ e.node = n
      /\ e.phase = "done" /\ e.result = result
  BY <1>1 DEF OpType, Phases
<1>3. ops' = [ops EXCEPT ![o] = e]
  BY SequenceTypes, <1>1 DEF Publish, OpType
<1> HIDE DEF e
<1>4. /\ DOMAIN ops' = DOMAIN ops /\ ops'[o] = e
      /\ \A q \in DOMAIN ops \ {o} : ops'[q] = ops[q]
      /\ OpsGrow
  BY <1>2, <1>3, OneOpChanges
<1>5. /\ active[n] = o /\ active'[n] = 0 /\ recent'[n] = recent[n] \cup {o}
      /\ \A m \in Nodes \ {n} : active'[m] = active[m] /\ recent'[m] = recent[m]
  BY <1>1 DEF MemoryInv, OpsCurrent, Publish, TypeOK
<1>6. OpsCurrent'
  BY <1>1, <1>2, <1>4, <1>5, OpFacts DEF MemoryInv, OpsCurrent, Done, Running, Early
<1>7. RowsRemembered'
  <2> SUFFICES ASSUME NEW r \in rows, r.id \notin forgotten
               PROVE  \E q \in DOMAIN ops' : MadeBy(r, q)'
    BY DEF RowsRemembered
  <2>1. PICK q \in DOMAIN ops : MadeBy(r, q)  BY DEF MemoryInv, RowsRemembered
  <2>2. ops[q].node \in Nodes  BY OpFacts DEF MemoryInv
  <2>3. CASE q = o
    <3>1. ops[o].result \in Moved /\ ops[o].phase # "authorizing"
      BY <2>1, <2>3, OpFacts DEF MadeBy, Early, MemoryInv
    <3> QED  BY <1>2, <1>4, <1>5, <2>1, <2>3, <3>1 DEF MadeBy, Remembers
  <2>4. CASE q # o
    BY <1>4, <1>5, <2>1, <2>2, <2>4 DEF MadeBy, Remembers
  <2> QED  BY <2>3, <2>4
<1>8. LateExcused'
  BY <1>2, <1>4, OldExcuses DEF Early
<1>9. RefusedExcused
  BY <1>2, <1>4 DEF RefusedExcused, Refuses, MemoryInv, LateExcused, Early
<1> QED  BY <1>6, <1>7, <1>8, <1>9 DEF Remembering, MemoryInv

LEMMA AuthorizeRemembers ==
    ASSUME TypeOK, MemoryInv, NEW o \in DOMAIN ops, AuthorizeWalletTransfer(o)
    PROVE  Remembering
<1>1. ops[o].phase = "authorizing" /\ UNCHANGED <<rows, forgotten>>
  BY DEF AuthorizeWalletTransfer
<1>2. ASSUME NEW result \in Results, Publish(o, result)
      PROVE  Remembering
  BY <1>1, <1>2, PublishRemembers DEF Running, Early
<1>3. CASE /\ ops' = [ops EXCEPT ![o].phase = "executing", ![o].password = FALSE, ![o].post = 0]
           /\ UNCHANGED <<active, recent>>
  <2> DEFINE e == [ops[o] EXCEPT !.phase = "executing", !.password = FALSE, !.post = 0]
  <2>1. ops[o] \in OpType
    BY SequenceTypes
  <2>2. /\ e \in OpType /\ e.intent = ops[o].intent /\ e.node = ops[o].node
        /\ e.phase = "executing" /\ e.result = ops[o].result
    BY <2>1 DEF OpType, Phases
  <2>3. ops' = [ops EXCEPT ![o] = e]
    BY <1>3, SequenceTypes, <2>1 DEF OpType
  <2> HIDE DEF e
  <2>4. /\ DOMAIN ops' = DOMAIN ops /\ ops'[o] = e
        /\ \A q \in DOMAIN ops \ {o} : ops'[q] = ops[q]
        /\ OpsGrow
    BY <1>1, <2>2, <2>3, OneOpChanges
  <2>5. OpsCurrent'
    BY <1>1, <1>3, <2>2, <2>4 DEF MemoryInv, OpsCurrent, Done, Running, Early
  <2>6. RowsRemembered'
    BY <1>1, <1>3, <2>2, <2>4 DEF MemoryInv, RowsRemembered, MadeBy, Remembers
  <2>7. LateExcused'
    BY <1>1, <2>4, OldExcuses DEF Early
  <2>8. RefusedExcused
    BY <2>2, <2>4 DEF RefusedExcused, Refuses
  <2> QED  BY <2>5, <2>6, <2>7, <2>8 DEF Remembering, MemoryInv
<1> QED
  BY <1>2, <1>3 DEF AuthorizeWalletTransfer, Results, Rejections

LEMMA finishRemembers ==
    ASSUME TypeOK, MemoryInv, NEW o \in DOMAIN ops, finish(o)
    PROVE  Remembering
<1>1. ops[o].result \in Results /\ ops[o].phase \in Running
  BY SequenceTypes DEF OpType, finish, Running
<1> QED
  BY <1>1, PublishRemembers DEF finish

\* The transaction: the row it makes is remembered by the operation itself, and
\* whoever is still to execute the same request does so on another node.
LEMMA TransferRemembers ==
    ASSUME TypeOK, MemoryInv, IdsUsedOnce, NEW o \in DOMAIN ops, TransferAuthorizedWalletQuota(o)
    PROVE  Remembering
<1>1. /\ ops[o].phase = "executing" /\ UNCHANGED <<active, recent, forgotten>>
      /\ active[ops[o].node] = o
  BY DEF TransferAuthorizedWalletQuota, MemoryInv, OpsCurrent, Running, Early
<1>2. PICK result \in Results :
        /\ End(o, result)
        /\ \/ rows' = rows
           \/ rows' = rows \cup {ops[o].intent} /\ result \in Moved
  BY DEF TransferAuthorizedWalletQuota, Reject, Commit, Results, Rejections, Moved
<1> DEFINE e == [ops[o] EXCEPT !.phase = "ended", !.result = result]
<1>3. ops[o] \in OpType
  BY SequenceTypes
<1>4. /\ e \in OpType /\ e.intent = ops[o].intent /\ e.node = ops[o].node
      /\ e.phase = "ended" /\ e.result = result
  BY <1>3 DEF OpType, Phases
<1>5. ops' = [ops EXCEPT ![o] = e]
  BY <1>2, SequenceTypes, <1>3 DEF End, OpType
<1> HIDE DEF e
<1>6. /\ DOMAIN ops' = DOMAIN ops /\ ops'[o] = e
      /\ \A q \in DOMAIN ops \ {o} : ops'[q] = ops[q]
      /\ OpsGrow
  BY <1>1, <1>4, <1>5, OneOpChanges
<1>7. OpsCurrent'
  BY <1>1, <1>4, <1>6 DEF MemoryInv, OpsCurrent, Done, Running, Early
<1>8. RowsRemembered'
  <2> SUFFICES ASSUME NEW r \in rows', r.id \notin forgotten
               PROVE  \E q \in DOMAIN ops' : MadeBy(r, q)'
    BY <1>1 DEF RowsRemembered
  <2>1. CASE r \in rows
    <3>1. PICK q \in DOMAIN ops : MadeBy(r, q)  BY <2>1 DEF MemoryInv, RowsRemembered
    <3>2. q # o  BY <1>1, <3>1, OpFacts DEF MadeBy, Early, MemoryInv
    <3> QED  BY <1>1, <1>6, <3>1, <3>2 DEF MadeBy, Remembers
  <2>2. CASE r \notin rows
    BY <1>1, <1>2, <1>4, <1>6, <2>2 DEF MadeBy, Remembers
  <2> QED  BY <2>1, <2>2
<1>9. LateExcused'
  <2> SUFFICES ASSUME NEW x \in DOMAIN ops', ops'[x].phase \in Early, Row(ops[x].intent.id)' # {}
               PROVE  Excused(x)'
    BY DEF LateExcused
  <2>1. x \in DOMAIN ops /\ x # o /\ ops'[x] = ops[x]
    BY <1>4, <1>6 DEF Early
  <2>2. CASE Row(ops[x].intent.id) # {}
    <3>1. Excused(x)  BY <2>1, <2>2 DEF MemoryInv, LateExcused
    <3> QED  BY <1>6, <2>1, <3>1, ExcuseStays
  <2>3. CASE Row(ops[x].intent.id) = {}
    <3>1. ops[o].intent.id = ops[x].intent.id
      BY <1>2, <2>1, <2>3 DEF Row
    <3>2. ops[o].intent = ops[x].intent
      BY <2>1, <3>1 DEF IdsUsedOnce, Intended
    <3>3. ops[o].node # ops[x].node
      BY <1>1, <2>1 DEF MemoryInv, OpsCurrent, Running
    <3> QED  BY <1>4, <1>6, <2>1, <3>2, <3>3 DEF Excused
  <2> QED  BY <2>2, <2>3
<1>10. RefusedExcused
  BY <1>1, <1>4, <1>6 DEF RefusedExcused, Refuses, MemoryInv, LateExcused, Early
<1> QED  BY <1>7, <1>8, <1>9, <1>10 DEF Remembering, MemoryInv

\* A step that leaves the server's memory alone.
LEMMA SameMemory ==
    ASSUME MemoryInv, UNCHANGED serverVars
    PROVE  Remembering
BY DEF serverVars, Remembering, MemoryInv, OpsCurrent, RowsRemembered, MadeBy, Remembers, LateExcused,
       Excused, Row, Done, RefusedExcused, Refuses

\* A node that drops operations remembers the ones that moved money, or their
\* ids are among those dropped.
LEMMA DroppedRemembers ==
    ASSUME TypeOK, MemoryInv, UNCHANGED <<ops, rows, active>>, forgotten \subseteq forgotten',
           NEW n \in Nodes, NEW dropped, recent' = [recent EXCEPT ![n] = @ \ dropped],
           \A o \in recent[n] \cap dropped :
               ops[o].result \in Rejections \/ ops[o].intent.id \in forgotten'
    PROVE  Remembering
<1>1. /\ recent'[n] = recent[n] \ dropped
      /\ \A m \in Nodes \ {n} : recent'[m] = recent[m]
  BY DEF TypeOK
<1>2. OpsCurrent'
  BY <1>1 DEF MemoryInv, OpsCurrent, Done
<1>3. OpsGrow
  BY DEF OpsGrow
<1>4. RowsRemembered'
  <2> SUFFICES ASSUME NEW r \in rows, r.id \notin forgotten'
               PROVE  \E q \in DOMAIN ops : MadeBy(r, q)'
    BY DEF RowsRemembered
  <2>1. PICK q \in DOMAIN ops : MadeBy(r, q)  BY DEF MemoryInv, RowsRemembered
  <2>2. ops[q].node \in Nodes  BY OpFacts DEF MemoryInv
  <2>3. q \notin recent[n] \cap dropped
    BY <2>1 DEF MadeBy, Moved, Rejections
  <2> QED  BY <1>1, <2>1, <2>2, <2>3 DEF MadeBy, Remembers
<1>5. LateExcused'
  BY <1>3, OldExcuses
<1>6. RefusedExcused
  BY DEF RefusedExcused, Refuses
<1> QED  BY <1>2, <1>4, <1>5, <1>6 DEF Remembering, MemoryInv

LEMMA expireRemembers ==
    ASSUME TypeOK, MemoryInv, NEW n \in Nodes, NEW o \in recent[n], expire(n, o)
    PROVE  Remembering
<1> DEFINE dropped == {o}
<1>1. /\ UNCHANGED <<ops, rows, active>> /\ forgotten \subseteq forgotten'
      /\ recent' = [recent EXCEPT ![n] = @ \ dropped]
  BY DEF expire, Drops
<1>2. \A d \in recent[n] \cap dropped : ops[d].result \in Rejections \/ ops[d].intent.id \in forgotten'
  BY DEF expire, Drops, walletTransferRejection
<1> HIDE DEF dropped
<1> QED  BY <1>1, <1>2, DroppedRemembers

\* A POST starts an operation only if the node runs none, and all it remembers
\* of the request are rollbacks: none of them made a row.
LEMMA admitRemembers ==
    ASSUME TypeOK, MemoryInv, IdsUsedOnce, NEW p \in DOMAIN posts, NEW n \in Nodes, admit(p, n)
    PROVE  Remembering
<1> DEFINE intent == posts[p].intent
           found == Remembered(n, intent.id)
           o == Len(ops) + 1
           op == [intent |-> intent, node |-> n, post |-> p, password |-> posts[p].password,
                  phase |-> "authorizing", result |-> "none"]
<1>1. UNCHANGED <<rows, forgotten>>  BY DEF admit
<1>2. CASE UNCHANGED <<ops, active, recent>>
  BY <1>1, <1>2, SameMemory DEF serverVars, admit
<1>3. ASSUME \A q \in found : Replayable(q)
      PROVE  /\ active[n] = 0 /\ found = {q \in recent[n] : ops[q].intent.id = intent.id}
             /\ \A q \in found : ops[q].result \in Rejections
  <2>1. active[n] = 0
    BY <1>3 DEF Remembered, Replayable, Done, MemoryInv, OpsCurrent, Running, Early
  <2> QED  BY <1>3, <2>1 DEF Remembered, Replayable, walletTransferRejection
<1>4. CASE /\ \A q \in found : Replayable(q)
           /\ recent' = [recent EXCEPT ![n] = @ \ found] /\ UNCHANGED <<ops, active>>
  BY <1>1, <1>3, <1>4, DroppedRemembers
<1>5. CASE /\ \A q \in found : Replayable(q)
           /\ recent' = [recent EXCEPT ![n] = @ \ found]
           /\ ops' = Append(ops, op) /\ active' = [active EXCEPT ![n] = o]
  <2>1. /\ active[n] = 0 /\ found = {q \in recent[n] : ops[q].intent.id = intent.id}
        /\ \A q \in found : ops[q].result \in Rejections
    BY <1>3, <1>5
  <2>2. posts[p] \in PostType /\ p \in Nat /\ o \in Nat /\ o \notin DOMAIN ops
    BY SequenceTypes
  <2>3. op \in OpType /\ op.intent = intent /\ op.node = n /\ op.phase = "authorizing" /\ op.result = "none"
    BY <2>2 DEF PostType, OpType, Phases, Results
  <2> HIDE DEF op
  <2>4. /\ DOMAIN ops' = DOMAIN ops \cup {o} /\ ops'[o] = op
        /\ \A q \in DOMAIN ops : ops'[q] = ops[q]
    <3>1. /\ DOMAIN ops' = 1..(Len(ops) + 1)
          /\ \A q \in 1..(Len(ops) + 1) : ops'[q] = IF q = Len(ops) + 1 THEN op ELSE ops[q]
      BY <1>5, <2>3, SequenceTypes DEF TypeOK
    <3> QED  BY <3>1, SequenceTypes
  <2> HIDE DEF found, o
  <2>5. /\ active'[n] = o /\ recent'[n] = recent[n] \ found
        /\ \A m \in Nodes \ {n} : active'[m] = active[m] /\ recent'[m] = recent[m]
    BY <1>5 DEF TypeOK
  <2>6. OpsCurrent'
    <3>1. ASSUME NEW q \in DOMAIN ops PROVE ops[q].node \in Nodes /\ q # 0
      BY OpFacts DEF MemoryInv
    <3> QED  BY <2>1, <2>2, <2>3, <2>4, <2>5, <3>1 DEF MemoryInv, OpsCurrent, Done, Running, Early
  <2>7. OpsGrow
    BY <1>1, <2>4 DEF OpsGrow
  <2>8. ASSUME NEW r \in rows, NEW q \in DOMAIN ops, MadeBy(r, q)
        PROVE  q \notin found /\ MadeBy(r, q)' /\ (ops[q].node = n => r.id # intent.id)
    <3>1. ops[q].node \in Nodes /\ q # 0  BY OpFacts DEF MemoryInv
    <3>2. q \notin found  BY <2>1, <2>8 DEF MadeBy, Moved, Rejections
    <3>3. ops[q].node = n => q \in recent[n]  BY <2>1, <2>8, <3>1 DEF MadeBy, Remembers
    <3>4. MadeBy(r, q)'
      BY <2>4, <2>5, <2>8, <3>1, <3>2, <3>3 DEF MadeBy, Remembers
    <3> QED  BY <2>1, <2>8, <3>2, <3>3, <3>4 DEF MadeBy
  <2>9. RowsRemembered'
    BY <1>1, <2>4, <2>8 DEF MemoryInv, RowsRemembered
  <2>10. LateExcused'
    <3> SUFFICES ASSUME NEW x \in DOMAIN ops', ops'[x].phase \in Early, Row(ops[x].intent.id)' # {}
                 PROVE  Excused(x)'
      BY DEF LateExcused
    <3>1. CASE x \in DOMAIN ops
      <4>1. Row(ops[x].intent.id) # {} /\ ops[x].phase \in Early  BY <1>1, <2>4, <3>1 DEF Row
      <4>2. Excused(x)  BY <3>1, <4>1 DEF MemoryInv, LateExcused
      <4> QED  BY <2>7, <3>1, <4>2, ExcuseStays
    <3>2. CASE x = o
      <4>1. PICK r \in rows : r.id = intent.id  BY <1>1, <2>3, <2>4, <3>2 DEF Row
      <4>2. r = intent  BY <4>1 DEF IdsUsedOnce, Intended
      <4>3. CASE r.id \in forgotten
        BY <1>1, <2>3, <2>4, <3>2, <4>1, <4>3 DEF Excused
      <4>4. CASE r.id \notin forgotten
        <5>1. PICK q \in DOMAIN ops : MadeBy(r, q)  BY <4>4 DEF MemoryInv, RowsRemembered
        <5>2. ops[q].intent = intent /\ ops[q].node # n  BY <2>8, <4>1, <4>2, <5>1 DEF MadeBy
        <5> QED  BY <2>3, <2>4, <3>2, <5>2 DEF Excused
      <4> QED  BY <4>3, <4>4
    <3> QED  BY <2>4, <3>1, <3>2
  <2>11. RefusedExcused
    BY <2>4 DEF RefusedExcused, Refuses
  <2> QED  BY <2>6, <2>9, <2>10, <2>11 DEF Remembering, MemoryInv
<1> QED
  BY <1>2, <1>4, <1>5 DEF admit

\* A restart drops all that the node remembers.
LEMMA RestartRemembers ==
    ASSUME TypeOK, MemoryInv, NEW n \in Nodes, Restart(n)
    PROVE  Remembering
<1> DEFINE running == {o \in {active[n]} : o # 0}
           dead(o) == [ops[o] EXCEPT !.phase = "dead", !.result = "none", !.password = FALSE, !.post = 0]
<1>1. ASSUME NEW o \in DOMAIN ops
      PROVE  /\ dead(o).intent = ops[o].intent /\ dead(o).node = ops[o].node
             /\ dead(o).phase = "dead" /\ dead(o).result = "none"
  BY SequenceTypes DEF OpType
<1>2. /\ ops' = [o \in DOMAIN ops |-> IF o \in running THEN dead(o) ELSE ops[o]]
      /\ UNCHANGED rows /\ Drops(running \cup recent[n])
  BY DEF Restart
<1>3. /\ active'[n] = 0 /\ recent'[n] = {}
      /\ \A m \in Nodes \ {n} : active'[m] = active[m] /\ recent'[m] = recent[m]
  BY DEF Restart, TypeOK
<1> HIDE DEF dead
<1>4. \A o \in running : o \in DOMAIN ops /\ ops[o].node = n
  BY DEF MemoryInv, OpsCurrent
<1>5. \A o \in DOMAIN ops : ops[o].node = n /\ ops[o].phase \in Running => o \in running
  BY OpFacts DEF MemoryInv, OpsCurrent
<1>6. OpsGrow
  BY <1>1, <1>2 DEF OpsGrow, Drops
<1>7. \A o \in DOMAIN ops : /\ o \in running => ops'[o].phase = "dead" /\ ops'[o].result = "none"
                            /\ o \notin running => ops'[o] = ops[o]
  BY <1>1, <1>2
<1>8. DOMAIN ops' = DOMAIN ops /\ \A o \in DOMAIN ops : ops[o].node \in Nodes
  BY <1>2, OpFacts DEF MemoryInv
<1>9. \A o \in DOMAIN ops : o \in running => ops'[o].node = n
  BY <1>4, <1>6 DEF OpsGrow
<1>10. \A m \in Nodes : \A o \in recent[m] : o \notin running
  BY DEF MemoryInv, OpsCurrent, Done, Running, Early
<1> HIDE DEF running
<1>11. OpsCurrent'
  BY <1>3, <1>4, <1>5, <1>7, <1>8, <1>9, <1>10 DEF MemoryInv, OpsCurrent, Done, Running, Early
<1>12. RowsRemembered'
  <2> SUFFICES ASSUME NEW r \in rows, r.id \notin forgotten'
               PROVE  \E q \in DOMAIN ops' : MadeBy(r, q)'
    BY <1>2 DEF RowsRemembered
  <2>1. PICK q \in DOMAIN ops : MadeBy(r, q)  BY <1>6 DEF MemoryInv, RowsRemembered, OpsGrow
  <2>2. q \notin running \cup recent[n]
    BY <1>2, <2>1 DEF Drops, walletTransferRejection, MadeBy, Moved, Rejections
  <2>3. ops[q].node # n
    BY <2>1, <2>2, OpFacts DEF MadeBy, Remembers, running, MemoryInv
  <2> QED  BY <1>3, <1>7, <1>8, <2>1, <2>2, <2>3 DEF MadeBy, Remembers
<1>13. LateExcused'
  BY <1>2, <1>6, <1>7, <1>8, OldExcuses DEF Early
<1>14. RefusedExcused
  BY <1>7 DEF RefusedExcused, Refuses, Rejections
<1> QED  BY <1>11, <1>12, <1>13, <1>14 DEF Remembering, MemoryInv

\* All steps of the server.
LEMMA ServerRemembers ==
    ASSUME TypeOK, MemoryInv, IdsUsedOnce, ServerStep
    PROVE  Remembering
<1>1. ASSUME NEW p \in DOMAIN posts, Answer(p) PROVE Remembering
  BY <1>1, SameMemory DEF Answer
<1> QED
  BY <1>1, admitRemembers, AuthorizeRemembers, TransferRemembers, finishRemembers, RestartRemembers,
     expireRemembers DEF ServerStep

-----------------------------------------------------------------------------
\* The server makes no intents.
LEMMA ServerIds ==
    ASSUME IInv, IdsUsedOnce, ServerStep, UNCHANGED clientVars
    PROVE  IdsUsedOnce'
<1>1. Passes
  BY admitPasses, AnswerPasses, AuthorizePasses, TransferPasses, finishPasses, RestartPasses,
     expirePasses DEF ServerStep, IInv
<1>2. Intended' \subseteq Intended /\ made' = made
  BY <1>1 DEF Intended, Passes, SamePosts, OpsFromPosts, RowsFromOps, clientVars, formVars
<1> QED  BY <1>2 DEF IdsUsedOnce

\* Nor does the page, but for a new draft, which has the next number.
LEMMA PageIds ==
    ASSUME IInv, IdsUsedOnce, UNCHANGED serverVars, SamePosts,
           {stored', pendingIntent'} \subseteq {posts[p].intent : p \in DOMAIN posts} \cup {stored, pendingIntent, None},
           made' = made
    PROVE  IdsUsedOnce'
<1>1. Intended' \subseteq Intended
  BY DEF Intended, SamePosts, serverVars
<1> QED  BY <1>1 DEF IdsUsedOnce

LEMMA submitIds ==
    ASSUME IInv, IdsUsedOnce, NEW draft \in Drafts, NEW password \in BOOLEAN,
           submitTransfer(draft, password)
    PROVE  IdsUsedOnce'
<1> DEFINE intent == IF stored # None THEN stored ELSE draft
<1>1. /\ \/ draft \in Intended /\ made' = made
         \/ draft.id = made + 1 /\ made' = made + 1
      /\ made \in Nat /\ pendingIntent' = draft /\ UNCHANGED serverVars
  BY DEF submitTransfer, Drafts, Intended, IInv, TypeOK
<1>2. \A i \in Intended : i.id \in Nat
  <2>1. \A p \in DOMAIN posts : posts[p].intent \in Intents  BY SequenceTypes DEF IInv, PostType
  <2>2. \A o \in DOMAIN ops : ops[o].intent \in Intents  BY SequenceTypes DEF IInv, OpType
  <2> QED  BY <2>1, <2>2 DEF IInv, TypeOK, Intended, Intents
<1>3. Intended' \subseteq Intended \cup {draft}
  <2>1. CASE UNCHANGED <<stored, posts>>
    BY <1>1, <2>1 DEF Intended, serverVars
  <2>2. CASE stored' = intent /\ Send(intent, password)
    <3>1. intent \in Intended \cup {draft}  BY DEF Intended
    <3> HIDE DEF intent
    <3>2. \A p \in DOMAIN posts' : posts'[p].intent = intent \/ (p \in DOMAIN posts /\ posts'[p] = posts[p])
      BY <2>2, SequenceTypes DEF Send, IInv, TypeOK
    <3> QED  BY <1>1, <2>2, <3>1, <3>2 DEF Intended, serverVars
  <2> QED  BY <2>1, <2>2 DEF submitTransfer, Persist
<1> QED  BY <1>1, <1>2, <1>3 DEF IdsUsedOnce

LEMMA IdsKept ==
    ASSUME IInv, IdsUsedOnce, [Next]_vars
    PROVE  IdsUsedOnce'
<1>0. TypeOK  BY DEF IInv
<1>1. CASE ServerStep /\ UNCHANGED clientVars
  BY <1>1, ServerIds
<1>2. ASSUME NEW draft \in Drafts, NEW password \in BOOLEAN, submitTransfer(draft, password)
      PROVE  IdsUsedOnce'
  BY <1>2, submitIds
<1>3. CASE Receive
  <2>1. SamePosts  BY <1>0, <1>3, AbandonKeeps DEF Receive
  <2>2. PICK answer : Handle(posts[submitting].intent, answer)  BY <1>3 DEF Receive
  <2>3. submitting \in DOMAIN posts  BY <1>0, <1>3 DEF TypeOK, Receive
  <2>4. {stored', pendingIntent'} \subseteq {posts[submitting].intent, stored, pendingIntent, None}
    BY <2>2 DEF Handle, completeTransfer, clearWalletTransferIntent, keepRejected, keepUnknown
  <2> QED  BY <1>3, <2>1, <2>3, <2>4, PageIds DEF Receive
<1>4. CASE \/ \E n \in Nodes : readReceipt(n)
           \/ readStatus \/ PollEnds \/ CheckStatus
  <2>1. UNCHANGED <<serverVars, posts, made>>
    BY <1>4 DEF readReceipt, readStatus, PollEnds, CheckStatus
  <2>2. {stored', pendingIntent'} \subseteq {stored, pendingIntent, None}
    BY <1>4 DEF readReceipt, readStatus, PollEnds, CheckStatus, completeTransfer, clearWalletTransferIntent
  <2> QED  BY <1>0, <2>1, <2>2, PostsUnchanged, PageIds
<1>5. ASSUME NEW readable \in BOOLEAN, Remount(readable) PROVE IdsUsedOnce'
  <2>1. SamePosts  BY <1>0, <1>5, AbandonKeeps DEF Remount
  <2> QED  BY <1>5, <2>1, PageIds DEF Remount, restoreWalletTransferIntent
<1>6. CASE UNCHANGED vars
  BY <1>0, <1>6, PostsUnchanged, PageIds DEF vars, clientVars, formVars
<1> QED  BY <1>1, <1>2, <1>3, <1>4, <1>5, <1>6 DEF Next

LEMMA MemoryKept ==
    ASSUME IInv, IdsUsedOnce, MemoryInv, [Next]_vars
    PROVE  Remembering
<1>1. CASE ServerStep
  BY <1>1, ServerRemembers DEF IInv
<1>2. CASE UNCHANGED serverVars
  BY <1>2, SameMemory
<1> QED
  BY <1>1, <1>2 DEF Next, vars, submitTransfer, Receive, readReceipt, readStatus, PollEnds, CheckStatus, Remount

\* Unknown outcomes and successes are never replayed: for every number of nodes,
\* POSTs, ids and restarts, a request that moved money is refused later only by
\* a node that has dropped the operation, or by another node than the one that
\* ran it.
THEOREM RefusalsHonest == Spec => RejectedNotCommitted
<1>1. Init => IdsUsedOnce /\ MemoryInv
  <2> SUFFICES ASSUME Init PROVE IdsUsedOnce /\ MemoryInv
    OBVIOUS
  <2>1. DOMAIN ops = {} /\ DOMAIN posts = {} /\ rows = {}
    BY EmptySeq DEF Init, ServerInit
  <2>2. Intended = {}
    BY <2>1 DEF Init, Intended
  <2> QED
    BY <2>1, <2>2 DEF Init, ServerInit, IdsUsedOnce, MemoryInv, OpsCurrent, RowsRemembered, LateExcused
<1>2. IInv /\ IdsUsedOnce /\ MemoryInv /\ [Next]_vars => (IdsUsedOnce /\ MemoryInv)'
  BY IdsKept, MemoryKept DEF Remembering
<1>3. IInv /\ IdsUsedOnce /\ MemoryInv /\ [Next]_vars => RefusedExcused
  BY MemoryKept DEF Remembering
<1>4. RefusedExcused =>
        [\A o \in DOMAIN ops :
            /\ ops'[o].result \in Rejections /\ ops[o].result \notin Rejections
            /\ Row(ops[o].intent.id) # {}
            => \/ ops[o].intent.id \in forgotten
               \/ \E q \in DOMAIN ops : ops[q].intent = ops[o].intent /\ ops[q].node # ops[o].node]_vars
  BY DEF RefusedExcused, Refuses, Excused
<1> QED
  BY <1>1, <1>2, <1>3, <1>4, IntentsKnown, PTL DEF Spec, RejectedNotCommitted
=============================================================================
