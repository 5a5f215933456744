------------------------ MODULE PlaygroundChatProofs ------------------------
(***************************************************************************)
(* The playground's invariants, for any number of requests, sessions and   *)
(* messages.  Generations tell a request that was stopped from the one     *)
(* that is under way, the answer under way is the last message of the      *)
(* session on display, and every answer of the page has an owner of its    *)
(* own.                                                                    *)
(***************************************************************************)
EXTENDS PlaygroundChat, SequenceTheorems, TLAPS

Statuses == {"none", "loading", "streaming", "complete", "error", "cancelled"}
Phases == {"fetch", "reading", "text", "cancel", "over"}

Message == [from : {"user", "assistant"}, status : Statuses, owner : Nat, by : SUBSET Nat]
Session == [id : SessionIds, messages : Seq(Message)]
Request == [session : SessionIds, stream : BOOLEAN, generation : Nat, phase : Phases,
            aborted : BOOLEAN, terminalChunk : BOOLEAN]

Types ==
    /\ sessions \in Seq(Session) /\ stored \in Seq(Session) /\ requests \in Seq(Request)
    /\ activeId \in SessionIds /\ usedIds \in SUBSET SessionIds
    /\ mounted \in BOOLEAN /\ busyRef \in BOOLEAN
    /\ controllerRef \in Nat /\ requestRef \in Nat /\ requestGeneration \in Nat

\* A question has no owner; an answer belongs to one of n requests and holds
\* text of that request only.
Proper(m, n) ==
    /\ m.by \subseteq {m.owner}
    /\ IF m.from = "user" THEN m.owner = None /\ m.status = "none" ELSE m.owner \in 1..n

UniqueIds(ss) == \A i, j \in DOMAIN ss : ss[i].id = ss[j].id => i = j

AllProper(ss, n) ==
    \A i \in DOMAIN ss : \A j \in DOMAIN ss[i].messages : Proper(ss[i].messages[j], n)

\* No two answers, of one session or of two, have the same owner.
UniqueOwners(ss) ==
    \A i, k \in DOMAIN ss : \A j \in DOMAIN ss[i].messages, l \in DOMAIN ss[k].messages :
        /\ ss[i].messages[j].owner = ss[k].messages[l].owner
        /\ ss[i].messages[j].owner # None
        => i = k /\ j = l

\* What a list of sessions is, in memory or in localStorage.
Conversations(ss, ids, n) ==
    /\ ss \in Seq(Session)
    /\ \A i \in DOMAIN ss : ss[i].id \in ids
    /\ UniqueIds(ss)
    /\ AllProper(ss, n)
    /\ UniqueOwners(ss)

\* What the repair on load rests on: a saved session has one answer to repair.
OneUnfinished(ss) ==
    \A i \in DOMAIN ss : \A j, k \in DOMAIN ss[i].messages :
        /\ ss[i].messages[j].status \in Unfinished
        /\ ss[i].messages[k].status \in Unfinished
        => j = k

\* A stopped request is of an older generation, so that its end leaves the
\* flag of a later one alone.
Generations ==
    \A r \in Requests : requests[r].phase # "over" =>
        IF requests[r].aborted THEN requests[r].generation < requestGeneration
                               ELSE requests[r].generation = requestGeneration

\* Message m is the answer that request r is filling.
Filling(m, r) == m.from = "assistant" /\ m.owner = r /\ m.status \in Unfinished

\* The answer under way is the last message of the active session, and no
\* other message is unfinished.
AnswerInPlace(ss, id, live) ==
    /\ \A i \in DOMAIN ss : ss[i].id = id => \A r \in live :
          ss[i].messages # <<>> /\ Filling(ss[i].messages[Len(ss[i].messages)], r)
    /\ \A i \in DOMAIN ss : \A j \in DOMAIN ss[i].messages :
          ss[i].messages[j].status \in Unfinished =>
              live # {} /\ ss[i].id = id /\ j = Len(ss[i].messages)

PageShown ==
    IF mounted THEN \E i \in DOMAIN sessions : sessions[i].id = activeId
               ELSE sessions = <<>> /\ Live = {}

ChatInv ==
    /\ Types
    /\ Conversations(sessions, usedIds, Len(requests))
    /\ stored # <<>> /\ Conversations(stored, usedIds, Len(requests)) /\ OneUnfinished(stored)
    /\ BusyWhileLive
    /\ Generations
    /\ PageShown
    /\ AnswerInPlace(sessions, activeId, Live)
    /\ \A r \in Live : requests[r].session = activeId

-----------------------------------------------------------------------------
\* The sessions after the messages of one of them were replaced.
Replaced(ss, id, messages) ==
    [i \in DOMAIN ss |-> IF ss[i].id = id THEN [ss[i] EXCEPT !.messages = messages] ELSE ss[i]]

LEMMA ReplacedShape ==
    ASSUME NEW ss \in Seq(Session), NEW id, NEW messages \in Seq(Message)
    PROVE  LET tt == Replaced(ss, id, messages) IN
           /\ tt \in Seq(Session)
           /\ DOMAIN tt = DOMAIN ss
           /\ \A i \in DOMAIN ss :
                 /\ tt[i].id = ss[i].id
                 /\ tt[i].messages = IF ss[i].id = id THEN messages ELSE ss[i].messages
<1> DEFINE tt == Replaced(ss, id, messages)
<1>1. \A i \in DOMAIN ss : ss[i] \in Session  BY ElementOfSeq
<1>2. ASSUME NEW i \in DOMAIN ss
      PROVE  /\ tt[i] \in Session /\ tt[i].id = ss[i].id
             /\ tt[i].messages = IF ss[i].id = id THEN messages ELSE ss[i].messages
  BY <1>1 DEF Replaced, Session
<1>3. tt \in [1..Len(ss) -> Session]
  <2>1. DOMAIN ss = 1..Len(ss)  OBVIOUS
  <2>2. tt = [i \in 1..Len(ss) |-> tt[i]]  BY <2>1 DEF Replaced
  <2> QED  BY <1>2, <2>1, <2>2
<1>4. Len(ss) \in Nat  OBVIOUS
<1>5. tt \in Seq(Session)  BY <1>3, <1>4
<1> QED  BY <1>2, <1>5 DEF Replaced

\* A message of a session, and its type.
LEMMA MessageType ==
    ASSUME NEW ss \in Seq(Session), NEW i \in DOMAIN ss
    PROVE  /\ ss[i] \in Session /\ ss[i].messages \in Seq(Message)
           /\ \A j \in DOMAIN ss[i].messages : ss[i].messages[j] \in Message
<1>1. ss[i] \in Session  BY ElementOfSeq
<1>2. ss[i].messages \in Seq(Message)  BY <1>1 DEF Session
<1> QED  BY <1>1, <1>2

\* Replacing messages keeps the ids.
LEMMA ReplacedIds ==
    ASSUME NEW ss \in Seq(Session), NEW id, NEW messages \in Seq(Message), NEW ids, NEW n,
           Conversations(ss, ids, n)
    PROVE  LET tt == Replaced(ss, id, messages) IN
           UniqueIds(tt) /\ \A i \in DOMAIN tt : tt[i].id \in ids
<1> DEFINE tt == Replaced(ss, id, messages)
<1>1. DOMAIN tt = DOMAIN ss /\ \A i \in DOMAIN ss : tt[i].id = ss[i].id  BY ReplacedShape
<1> HIDE DEF tt
<1>2. UniqueIds(tt) /\ \A i \in DOMAIN tt : tt[i].id \in ids
  BY <1>1 DEF Conversations, UniqueIds
<1> QED  BY <1>2 DEF tt

WithLast(messages, m) == [messages EXCEPT ![Len(messages)] = m]

\* The last message is rewritten and keeps its owner.
LEMMA LastRewritten ==
    ASSUME NEW ss \in Seq(Session), NEW ids, NEW n, Conversations(ss, ids, n),
           NEW a \in DOMAIN ss, ss[a].messages # <<>>,
           NEW m \in Message, Proper(m, n),
           m.owner = ss[a].messages[Len(ss[a].messages)].owner,
           NEW tt, tt = Replaced(ss, ss[a].id, WithLast(ss[a].messages, m))
    PROVE  /\ Conversations(tt, ids, n)
           /\ DOMAIN tt = DOMAIN ss
           /\ \A i \in DOMAIN ss : tt[i].id = ss[i].id /\ Len(tt[i].messages) = Len(ss[i].messages)
           /\ \A i \in DOMAIN ss : \A j \in DOMAIN tt[i].messages :
                 tt[i].messages[j] = IF i = a /\ j = Len(ss[a].messages) THEN m
                                                                       ELSE ss[i].messages[j]
<1> DEFINE last == Len(ss[a].messages)
           new == WithLast(ss[a].messages, m)
<1>1. ss[a].messages \in Seq(Message) /\ last \in 1..last
  BY MessageType
<1>2. new \in Seq(Message) /\ Len(new) = last
      /\ \A j \in 1..last : new[j] = IF j = last THEN m ELSE ss[a].messages[j]
  BY <1>1 DEF WithLast
<1>0. tt = Replaced(ss, ss[a].id, new)  OBVIOUS
<1> HIDE DEF new
<1>3. /\ tt \in Seq(Session) /\ DOMAIN tt = DOMAIN ss
      /\ \A i \in DOMAIN ss : tt[i].id = ss[i].id
                /\ tt[i].messages = IF ss[i].id = ss[a].id THEN new ELSE ss[i].messages
  BY <1>0, <1>2, ReplacedShape
<1>4. \A i \in DOMAIN ss : tt[i].messages = IF i = a THEN new ELSE ss[i].messages
  BY <1>3 DEF Conversations, UniqueIds
<1>5. UniqueIds(tt) /\ \A i \in DOMAIN tt : tt[i].id \in ids
  BY <1>0, <1>2, ReplacedIds
<1>6. \A i \in DOMAIN ss : ss[i].messages \in Seq(Message)  BY MessageType
<1>7. \A i \in DOMAIN ss : Len(tt[i].messages) = Len(ss[i].messages)
                           /\ DOMAIN tt[i].messages = DOMAIN ss[i].messages
  <2> SUFFICES ASSUME NEW i \in DOMAIN ss
               PROVE  Len(tt[i].messages) = Len(ss[i].messages)
                      /\ DOMAIN tt[i].messages = DOMAIN ss[i].messages
    OBVIOUS
  <2>1. CASE i = a  BY <2>1, <1>1, <1>2, <1>4
  <2>2. CASE i # a  BY <2>2, <1>4
  <2> QED  BY <2>1, <2>2
<1>8. \A i \in DOMAIN ss : \A j \in DOMAIN tt[i].messages :
         tt[i].messages[j] = IF i = a /\ j = last THEN m ELSE ss[i].messages[j]
  <2> SUFFICES ASSUME NEW i \in DOMAIN ss, NEW j \in DOMAIN tt[i].messages
               PROVE  tt[i].messages[j] = IF i = a /\ j = last THEN m ELSE ss[i].messages[j]
    OBVIOUS
  <2>1. CASE i = a
    <3>1. j \in 1..last  BY <2>1, <1>1, <1>2, <1>4
    <3> QED  BY <2>1, <3>1, <1>2, <1>4
  <2>2. CASE i # a  BY <2>2, <1>4
  <2> QED  BY <2>1, <2>2
<1>9. AllProper(tt, n)
  BY <1>3, <1>7, <1>8 DEF AllProper, Conversations
<1>10. UniqueOwners(tt)
  <2>1. \A i \in DOMAIN ss : \A j \in DOMAIN ss[i].messages :
           tt[i].messages[j].owner = ss[i].messages[j].owner
    BY <1>7, <1>8
  <2> SUFFICES ASSUME NEW i \in DOMAIN ss, NEW k \in DOMAIN ss,
                      NEW j \in DOMAIN ss[i].messages, NEW l \in DOMAIN ss[k].messages,
                      tt[i].messages[j].owner = tt[k].messages[l].owner,
                      tt[i].messages[j].owner # None
               PROVE  i = k /\ j = l
    BY <1>3, <1>7 DEF UniqueOwners
  <2> QED  BY <2>1 DEF UniqueOwners, Conversations
<1>11. Conversations(tt, ids, n)
  BY <1>3, <1>5, <1>9, <1>10 DEF Conversations
<1> QED  BY <1>3, <1>7, <1>8, <1>11

\* A request puts its answer behind a part of the conversation; the answer's
\* owner is new.
LEMMA AnswerAppended ==
    ASSUME NEW ss \in Seq(Session), NEW ids, NEW n \in Nat, Conversations(ss, ids, n),
           NEW a \in DOMAIN ss, NEW kept \in Seq(Message),
           \A j \in DOMAIN kept : \/ kept[j] = UserMessage
                                  \/ j \in DOMAIN ss[a].messages /\ kept[j] = ss[a].messages[j]
    PROVE  LET tt == Replaced(ss, ss[a].id, Append(kept, LoadingMessage(n + 1)))
           IN  /\ Conversations(tt, ids, n + 1)
               /\ DOMAIN tt = DOMAIN ss
               /\ \A i \in DOMAIN ss : tt[i].id = ss[i].id
               /\ \A i \in DOMAIN ss \ {a} : tt[i].messages = ss[i].messages
               /\ tt[a].messages = Append(kept, LoadingMessage(n + 1))
<1> DEFINE m == LoadingMessage(n + 1)
           new == Append(kept, m)
           tt == Replaced(ss, ss[a].id, new)
<1>1. m \in Message /\ m.owner = n + 1 /\ m.from = "assistant" /\ m.by = {}
  BY DEF LoadingMessage, Message, Statuses
<1> HIDE DEF m
<1>2. /\ new \in Seq(Message) /\ Len(new) = Len(kept) + 1 /\ new[Len(kept) + 1] = m
      /\ \A j \in 1..Len(kept) : new[j] = kept[j]
  BY <1>1, AppendProperties
<1> HIDE DEF new
<1>3. /\ tt \in Seq(Session) /\ DOMAIN tt = DOMAIN ss
      /\ \A i \in DOMAIN ss : tt[i].id = ss[i].id
                /\ tt[i].messages = IF ss[i].id = ss[a].id THEN new ELSE ss[i].messages
  BY <1>2, ReplacedShape
<1>4. \A i \in DOMAIN ss : tt[i].messages = IF i = a THEN new ELSE ss[i].messages
  BY <1>3 DEF Conversations, UniqueIds
<1>5. UniqueIds(tt) /\ \A i \in DOMAIN tt : tt[i].id \in ids
  BY <1>2, ReplacedIds
<1> HIDE DEF tt
<1>6. UserMessage.owner = None /\ UserMessage.from = "user" /\ UserMessage.status = "none"
      /\ UserMessage.by = {}
  BY DEF UserMessage
\* Where each message comes from.
<1>7. ASSUME NEW i \in DOMAIN ss, NEW j \in DOMAIN tt[i].messages
      PROVE  \/ i = a /\ j = Len(kept) + 1 /\ tt[i].messages[j] = m
             \/ tt[i].messages[j] = UserMessage
             \/ j \in DOMAIN ss[i].messages /\ tt[i].messages[j] = ss[i].messages[j]
  <2>1. CASE i = a
    <3>1. j \in 1..(Len(kept) + 1) /\ tt[i].messages[j] = new[j]
      BY <2>1, <1>2, <1>4
    <3>2. CASE j = Len(kept) + 1  BY <2>1, <3>1, <3>2, <1>2
    <3>3. CASE j # Len(kept) + 1
      <4>1. j \in DOMAIN kept /\ new[j] = kept[j]  BY <3>1, <3>3, <1>2
      <4> QED  BY <2>1, <3>1, <4>1
    <3> QED  BY <3>2, <3>3
  <2>2. CASE i # a  BY <2>2, <1>4
  <2> QED  BY <2>1, <2>2
<1>8. ASSUME NEW i \in DOMAIN ss, NEW j \in DOMAIN ss[i].messages
      PROVE  ss[i].messages[j] \in Message /\ Proper(ss[i].messages[j], n)
  BY MessageType DEF Conversations, AllProper
<1>9. AllProper(tt, n + 1)
  <2> SUFFICES ASSUME NEW i \in DOMAIN ss, NEW j \in DOMAIN tt[i].messages
               PROVE  Proper(tt[i].messages[j], n + 1)
    BY <1>3 DEF AllProper
  <2>1. CASE tt[i].messages[j] = m  BY <2>1, <1>1 DEF Proper
  <2>2. CASE tt[i].messages[j] = UserMessage  BY <2>2, <1>6 DEF Proper
  <2>3. CASE j \in DOMAIN ss[i].messages /\ tt[i].messages[j] = ss[i].messages[j]
    <3>1. Proper(ss[i].messages[j], n)  BY <2>3, <1>8
    <3> QED  BY <2>3, <3>1 DEF Proper
  <2> QED  BY <2>1, <2>2, <2>3, <1>7
<1>10. UniqueOwners(tt)
  <2> SUFFICES ASSUME NEW i \in DOMAIN ss, NEW k \in DOMAIN ss,
                      NEW j \in DOMAIN tt[i].messages, NEW l \in DOMAIN tt[k].messages,
                      tt[i].messages[j].owner = tt[k].messages[l].owner,
                      tt[i].messages[j].owner # None
               PROVE  i = k /\ j = l
    BY <1>3 DEF UniqueOwners
  <2>1. ASSUME NEW x \in DOMAIN ss, NEW y \in DOMAIN tt[x].messages,
               tt[x].messages[y].owner # None
        PROVE  \/ x = a /\ y = Len(kept) + 1 /\ tt[x].messages[y].owner = n + 1
               \/ y \in DOMAIN ss[x].messages /\ tt[x].messages[y] = ss[x].messages[y]
                  /\ tt[x].messages[y].owner # n + 1
    <3>1. CASE x = a /\ y = Len(kept) + 1 /\ tt[x].messages[y] = m  BY <3>1, <1>1
    <3>2. CASE tt[x].messages[y] = UserMessage  BY <2>1, <3>2, <1>6
    <3>3. CASE y \in DOMAIN ss[x].messages /\ tt[x].messages[y] = ss[x].messages[y]
      <4>1. Proper(ss[x].messages[y], n)  BY <3>3, <1>8
      <4> QED  BY <3>3, <4>1, <2>1 DEF Proper, None
    <3> QED  BY <3>1, <3>2, <3>3, <1>7
  <2>2. CASE tt[i].messages[j].owner = n + 1
    BY <2>1, <2>2
  <2>3. CASE tt[i].messages[j].owner # n + 1
    <3>1. j \in DOMAIN ss[i].messages /\ tt[i].messages[j] = ss[i].messages[j]  BY <2>1, <2>3
    <3>2. l \in DOMAIN ss[k].messages /\ tt[k].messages[l] = ss[k].messages[l]  BY <2>1, <2>3
    <3> QED  BY <3>1, <3>2 DEF Conversations, UniqueOwners
  <2> QED  BY <2>2, <2>3
<1>11. Conversations(tt, ids, n + 1)
  BY <1>3, <1>5, <1>9, <1>10 DEF Conversations
<1> QED  BY <1>3, <1>4, <1>11 DEF tt, new, m

\* What RemoveAt leaves.
LEMMA RemovedShape ==
    ASSUME NEW S, NEW s \in Seq(S), NEW k \in 1..Len(s)
    PROVE  /\ RemoveAt(s, k) \in Seq(S) /\ Len(RemoveAt(s, k)) = Len(s) - 1
           /\ \A j \in 1..(Len(s) - 1) :
                 RemoveAt(s, k)[j] = IF j < k THEN s[j] ELSE s[j + 1]
<1> DEFINE p == SubSeq(s, 1, k - 1)
           q == SubSeq(s, k + 1, Len(s))
<1>1. RemoveAt(s, k) = p \o q  BY DEF RemoveAt
<1>2. p \in Seq(S) /\ Len(p) = k - 1 /\ \A j \in 1..(k - 1) : p[j] = s[j]
  OBVIOUS
<1>3. q \in Seq(S) /\ Len(q) = Len(s) - k /\ \A j \in 1..(Len(s) - k) : q[j] = s[j + k]
  OBVIOUS
<1> HIDE DEF p, q
<1>4. /\ p \o q \in Seq(S) /\ Len(p \o q) = Len(p) + Len(q)
      /\ \A j \in 1..(Len(p) + Len(q)) :
            (p \o q)[j] = IF j <= Len(p) THEN p[j] ELSE q[j - Len(p)]
  BY <1>2, <1>3, ConcatProperties
<1>5. ASSUME NEW j \in 1..(Len(s) - 1)
      PROVE  (p \o q)[j] = IF j < k THEN s[j] ELSE s[j + 1]
  <2>1. CASE j < k  BY <2>1, <1>2, <1>3, <1>4
  <2>2. CASE ~(j < k)
    <3>1. j - (k - 1) \in 1..(Len(s) - k) /\ j - (k - 1) + k = j + 1  BY <2>2
    <3>2. (p \o q)[j] = q[j - (k - 1)]  BY <2>2, <1>2, <1>3, <1>4
    <3>3. q[j - (k - 1)] = s[j - (k - 1) + k]  BY <3>1, <1>3
    <3> QED  BY <2>2, <3>1, <3>2, <3>3
  <2> QED  BY <2>1, <2>2
<1> QED  BY <1>1, <1>2, <1>3, <1>4, <1>5

LEMMA MessageRemoved ==
    ASSUME NEW ss \in Seq(Session), NEW ids, NEW n \in Nat, Conversations(ss, ids, n),
           NEW a \in DOMAIN ss, NEW d \in DOMAIN ss[a].messages
    PROVE  LET tt == Replaced(ss, ss[a].id, RemoveAt(ss[a].messages, d))
           IN  /\ Conversations(tt, ids, n)
               /\ DOMAIN tt = DOMAIN ss
               /\ \A i \in DOMAIN ss : tt[i].id = ss[i].id
               /\ \A i \in DOMAIN ss : \A j \in DOMAIN tt[i].messages :
                     \E l \in DOMAIN ss[i].messages : tt[i].messages[j] = ss[i].messages[l]
<1> DEFINE new == RemoveAt(ss[a].messages, d)
           tt == Replaced(ss, ss[a].id, new)
           Old(i, j) == IF i = a /\ j >= d THEN j + 1 ELSE j
<1>1. ss[a].messages \in Seq(Message) /\ d \in 1..Len(ss[a].messages)  BY MessageType
<1>2. /\ new \in Seq(Message) /\ Len(new) = Len(ss[a].messages) - 1
      /\ \A j \in 1..(Len(ss[a].messages) - 1) :
            new[j] = IF j < d THEN ss[a].messages[j] ELSE ss[a].messages[j + 1]
  BY <1>1, RemovedShape
<1> HIDE DEF new
<1>3. /\ tt \in Seq(Session) /\ DOMAIN tt = DOMAIN ss
      /\ \A i \in DOMAIN ss : tt[i].id = ss[i].id
                /\ tt[i].messages = IF ss[i].id = ss[a].id THEN new ELSE ss[i].messages
  BY <1>2, ReplacedShape
<1>4. \A i \in DOMAIN ss : tt[i].messages = IF i = a THEN new ELSE ss[i].messages
  BY <1>3 DEF Conversations, UniqueIds
<1>5. UniqueIds(tt) /\ \A i \in DOMAIN tt : tt[i].id \in ids
  BY <1>2, ReplacedIds
<1> HIDE DEF tt
<1>6. ASSUME NEW i \in DOMAIN ss, NEW j \in DOMAIN tt[i].messages
      PROVE  /\ j \in Nat /\ Old(i, j) \in DOMAIN ss[i].messages
             /\ tt[i].messages[j] = ss[i].messages[Old(i, j)]
  <2>0. ss[i].messages \in Seq(Message)  BY MessageType
  <2>1. CASE i = a
    <3>1. tt[i].messages = new  BY <2>1, <1>4
    <3>2. j \in 1..(Len(ss[a].messages) - 1)  BY <3>1, <1>2, <1>1
    <3> QED  BY <2>1, <3>1, <3>2, <1>1, <1>2
  <2>2. CASE i # a
    <3>1. tt[i].messages = ss[i].messages  BY <2>2, <1>4
    <3> QED  BY <2>0, <2>2, <3>1
  <2> QED  BY <2>1, <2>2
<1>7. AllProper(tt, n)
  <2> SUFFICES ASSUME NEW i \in DOMAIN ss, NEW j \in DOMAIN tt[i].messages
               PROVE  Proper(tt[i].messages[j], n)
    BY <1>3 DEF AllProper
  <2> QED  BY <1>6 DEF Conversations, AllProper
<1>8. UniqueOwners(tt)
  <2> SUFFICES ASSUME NEW i \in DOMAIN ss, NEW k \in DOMAIN ss,
                      NEW j \in DOMAIN tt[i].messages, NEW l \in DOMAIN tt[k].messages,
                      tt[i].messages[j].owner = tt[k].messages[l].owner,
                      tt[i].messages[j].owner # None
               PROVE  i = k /\ j = l
    BY <1>3 DEF UniqueOwners
  <2>1. /\ j \in Nat /\ Old(i, j) \in DOMAIN ss[i].messages
        /\ tt[i].messages[j] = ss[i].messages[Old(i, j)]  BY <1>6
  <2>2. /\ l \in Nat /\ Old(k, l) \in DOMAIN ss[k].messages
        /\ tt[k].messages[l] = ss[k].messages[Old(k, l)]  BY <1>6
  <2>3. i = k /\ Old(i, j) = Old(k, l)
    <3> HIDE DEF Old
    <3> QED  BY <2>1, <2>2 DEF Conversations, UniqueOwners
  <2> QED  BY <2>1, <2>2, <2>3, <1>1
<1>9. Conversations(tt, ids, n)
  BY <1>3, <1>5, <1>7, <1>8 DEF Conversations
<1>10. ASSUME NEW i \in DOMAIN ss, NEW j \in DOMAIN tt[i].messages
       PROVE  \E l \in DOMAIN ss[i].messages : tt[i].messages[j] = ss[i].messages[l]
  <2>1. /\ Old(i, j) \in DOMAIN ss[i].messages
        /\ tt[i].messages[j] = ss[i].messages[Old(i, j)]  BY <1>6
  <2> HIDE DEF Old
  <2> QED  BY <2>1
<1> QED  BY <1>3, <1>9, <1>10 DEF tt, new

\* Two lists of sessions, the second made of sessions of the first.
LEMMA SessionRemoved ==
    ASSUME NEW ss \in Seq(Session), NEW ids, NEW n, Conversations(ss, ids, n),
           NEW d \in DOMAIN ss
    PROVE  /\ Conversations(RemoveAt(ss, d), ids, n)
           /\ Len(RemoveAt(ss, d)) = Len(ss) - 1
           /\ \A i \in DOMAIN RemoveAt(ss, d) : \E k \in DOMAIN ss \ {d} : RemoveAt(ss, d)[i] = ss[k]
           /\ \A k \in DOMAIN ss \ {d} : \E i \in DOMAIN RemoveAt(ss, d) : RemoveAt(ss, d)[i] = ss[k]
<1> DEFINE tt == RemoveAt(ss, d)
           Old(i) == IF i < d THEN i ELSE i + 1
<1>1. d \in 1..Len(ss) /\ DOMAIN ss = 1..Len(ss) /\ Len(ss) \in Nat  OBVIOUS
<1>2. /\ tt \in Seq(Session) /\ Len(tt) = Len(ss) - 1
      /\ \A i \in 1..(Len(ss) - 1) : tt[i] = IF i < d THEN ss[i] ELSE ss[i + 1]
  BY <1>1, RemovedShape
<1> HIDE DEF tt
<1>3. DOMAIN tt = 1..(Len(ss) - 1)  BY <1>2
<1>4. ASSUME NEW i \in DOMAIN tt
      PROVE  i \in Nat /\ Old(i) \in DOMAIN ss \ {d} /\ tt[i] = ss[Old(i)]
  BY <1>1, <1>2, <1>3
<1>5. ASSUME NEW k \in DOMAIN ss \ {d} PROVE \E i \in DOMAIN tt : tt[i] = ss[k]
  <2>1. CASE k < d  BY <2>1, <1>1, <1>2, <1>3
  <2>2. CASE k > d
    <3>1. k - 1 \in DOMAIN tt /\ ~(k - 1 < d) /\ (k - 1) + 1 = k  BY <2>2, <1>1, <1>3
    <3>2. tt[k - 1] = ss[k]  BY <3>1, <1>2, <1>3
    <3> QED  BY <3>1, <3>2
  <2> QED  BY <2>1, <2>2, <1>1
<1>6. ASSUME NEW i \in DOMAIN tt, NEW j \in DOMAIN tt, Old(i) = Old(j) PROVE i = j
  BY <1>4, <1>6, <1>1
<1> HIDE DEF Old
<1>7. UniqueIds(tt) /\ (\A i \in DOMAIN tt : tt[i].id \in ids) /\ AllProper(tt, n)
  <2>1. UniqueIds(tt)
    <3> SUFFICES ASSUME NEW i \in DOMAIN tt, NEW j \in DOMAIN tt, tt[i].id = tt[j].id PROVE i = j
      BY DEF UniqueIds
    <3>1. Old(i) = Old(j)  BY <1>4 DEF Conversations, UniqueIds
    <3> QED  BY <3>1, <1>6
  <2> QED  BY <2>1, <1>4 DEF Conversations, AllProper
<1>8. UniqueOwners(tt)
  <2> SUFFICES ASSUME NEW i \in DOMAIN tt, NEW k \in DOMAIN tt,
                      NEW j \in DOMAIN tt[i].messages, NEW l \in DOMAIN tt[k].messages,
                      tt[i].messages[j].owner = tt[k].messages[l].owner,
                      tt[i].messages[j].owner # None
               PROVE  i = k /\ j = l
    BY DEF UniqueOwners
  <2>1. Old(i) \in DOMAIN ss /\ tt[i] = ss[Old(i)] /\ Old(k) \in DOMAIN ss /\ tt[k] = ss[Old(k)]
    BY <1>4
  <2>2. Old(i) = Old(k) /\ j = l  BY <2>1 DEF Conversations, UniqueOwners
  <2> QED  BY <2>2, <1>6
<1>9. Conversations(tt, ids, n)  BY <1>2, <1>7, <1>8 DEF Conversations
<1> QED  BY <1>2, <1>4, <1>5, <1>9 DEF tt

\* A session without messages is put first.
LEMMA SessionAdded ==
    ASSUME NEW ss \in Seq(Session), NEW ids \in SUBSET SessionIds, NEW n, Conversations(ss, ids, n),
           NEW id \in SessionIds \ ids
    PROVE  LET tt == <<createSession(id)>> \o ss
           IN  /\ Conversations(tt, ids \cup {id}, n)
               /\ tt # <<>> /\ tt[1] = createSession(id)
               /\ \A i \in DOMAIN tt \ {1} : \E k \in DOMAIN ss : tt[i] = ss[k]
<1> DEFINE c == createSession(id)
           tt == <<c>> \o ss
<1>1. c \in Session /\ c.id = id /\ c.messages = <<>>  BY DEF createSession, Session
<1> HIDE DEF c
<1>2. /\ tt \in Seq(Session) /\ Len(tt) = Len(ss) + 1 /\ tt[1] = c
      /\ \A i \in 2..(Len(ss) + 1) : tt[i] = ss[i - 1]
  BY <1>1
<1> HIDE DEF tt
<1>3. DOMAIN tt = 1..(Len(ss) + 1) /\ DOMAIN ss = 1..Len(ss) /\ Len(ss) \in Nat  BY <1>2
<1>4. ASSUME NEW i \in DOMAIN tt, i # 1
      PROVE  i \in Nat /\ i - 1 \in DOMAIN ss /\ tt[i] = ss[i - 1]
  BY <1>2, <1>3, <1>4
<1>5. 1 \in DOMAIN tt  BY <1>3
<1>6. UniqueIds(tt) /\ (\A i \in DOMAIN tt : tt[i].id \in ids \cup {id})
  <2>1. ASSUME NEW i \in DOMAIN tt
        PROVE  IF i = 1 THEN tt[i].id = id ELSE tt[i].id \in ids /\ tt[i].id # id
    BY <1>1, <1>2, <1>4 DEF Conversations
  <2>2. ASSUME NEW i \in DOMAIN tt, NEW j \in DOMAIN tt, tt[i].id = tt[j].id PROVE i = j
    <3>1. CASE i = 1 \/ j = 1  BY <3>1, <2>1, <2>2
    <3>2. CASE i # 1 /\ j # 1
      <4>1. i - 1 = j - 1  BY <3>2, <1>4, <2>2 DEF Conversations, UniqueIds
      <4> QED  BY <4>1, <3>2, <1>4
    <3> QED  BY <3>1, <3>2
  <2> QED  BY <2>1, <2>2 DEF UniqueIds
<1>7. DOMAIN tt[1].messages = {}
  <2>1. tt[1].messages = <<>>  BY <1>1, <1>2
  <2> QED  BY <2>1
<1>8. AllProper(tt, n)
  <2> SUFFICES ASSUME NEW i \in DOMAIN tt, NEW j \in DOMAIN tt[i].messages
               PROVE  Proper(tt[i].messages[j], n)
    BY DEF AllProper
  <2>1. i # 1  BY <1>7
  <2> QED  BY <2>1, <1>4 DEF Conversations, AllProper
<1>9. UniqueOwners(tt)
  <2> SUFFICES ASSUME NEW i \in DOMAIN tt, NEW k \in DOMAIN tt,
                      NEW j \in DOMAIN tt[i].messages, NEW l \in DOMAIN tt[k].messages,
                      tt[i].messages[j].owner = tt[k].messages[l].owner,
                      tt[i].messages[j].owner # None
               PROVE  i = k /\ j = l
    BY DEF UniqueOwners
  <2>1. i # 1 /\ k # 1  BY <1>7
  <2>2. i - 1 = k - 1 /\ j = l  BY <2>1, <1>4 DEF Conversations, UniqueOwners
  <2> QED  BY <2>1, <2>2, <1>4
<1>10. Conversations(tt, ids \cup {id}, n)  BY <1>2, <1>6, <1>8, <1>9 DEF Conversations
<1>11. \A i \in DOMAIN tt \ {1} : \E k \in DOMAIN ss : tt[i] = ss[k]  BY <1>4
<1>12. tt # <<>>  BY <1>2, <1>3
<1> QED  BY <1>2, <1>10, <1>11, <1>12 DEF tt, c

\* The only session is new.
LEMMA SessionAlone ==
    ASSUME NEW ids \in SUBSET SessionIds, NEW n, NEW id \in SessionIds
    PROVE  LET tt == <<createSession(id)>>
           IN  /\ Conversations(tt, ids \cup {id}, n)
               /\ tt # <<>> /\ DOMAIN tt = {1} /\ tt[1].id = id /\ DOMAIN tt[1].messages = {}
<1> DEFINE c == createSession(id)
           tt == <<c>>
<1>1. c \in Session /\ c.id = id /\ c.messages = <<>>  BY DEF createSession, Session
<1> HIDE DEF c
<1>2. tt \in Seq(Session) /\ DOMAIN tt = {1} /\ tt[1] = c /\ tt # <<>>  BY <1>1
<1> HIDE DEF tt
<1>3. DOMAIN tt[1].messages = {}
  <2>1. tt[1].messages = <<>>  BY <1>1, <1>2
  <2> QED  BY <2>1
<1>4. Conversations(tt, ids \cup {id}, n)
  BY <1>1, <1>2, <1>3 DEF Conversations, UniqueIds, AllProper, UniqueOwners
<1> QED  BY <1>1, <1>2, <1>3, <1>4 DEF tt, c

\* The repair on load: a message it changes was the unfinished one, keeps its
\* owner and its text, and is finished then.
LEMMA Repaired ==
    ASSUME NEW s \in Seq(Message),
           \A j, k \in DOMAIN s : s[j].status \in Unfinished /\ s[k].status \in Unfinished => j = k
    PROVE  LET t == sanitizeMessagesOnLoad(s)
           IN  /\ t \in Seq(Message) /\ DOMAIN t = DOMAIN s
               /\ \A j \in DOMAIN s :
                     /\ t[j].status \notin Unfinished
                     /\ t[j].from = s[j].from /\ t[j].owner = s[j].owner /\ t[j].by = s[j].by
                     /\ s[j].status \notin Unfinished => t[j] = s[j]
<1> DEFINE stuck == {i \in DOMAIN s : s[i].status \in Unfinished}
           t == sanitizeMessagesOnLoad(s)
<1>1. CASE stuck = {}
  <2>1. t = s  BY <1>1 DEF sanitizeMessagesOnLoad
  <2> QED  BY <1>1, <2>1
<1>2. CASE stuck # {}
  <2> DEFINE u == CHOOSE i \in stuck : \A j \in stuck : j <= i
             m == Ended(s[u], IF s[u].by # {} THEN "cancelled" ELSE "error")
  <2>1. PICK x \in stuck : TRUE  BY <1>2
  <2>2. x \in DOMAIN s /\ \A j \in stuck : j = x
    BY <2>1
  <2>3. \A j \in stuck : j <= x  BY <2>2
  <2>4. u \in stuck  BY <2>1, <2>3
  <2>5. u = x  BY <2>2, <2>4
  <2>6. t = [s EXCEPT ![u] = m]
    BY <1>2 DEF sanitizeMessagesOnLoad
  <2>7. /\ m \in Message /\ m.status \notin Unfinished
        /\ m.from = s[u].from /\ m.owner = s[u].owner /\ m.by = s[u].by
    <3>1. s[u] \in Message  BY <2>2, <2>5
    <3>2. CASE s[u].by # {}  BY <3>1, <3>2 DEF Ended, Message, Statuses, Unfinished
    <3>3. CASE s[u].by = {}  BY <3>1, <3>3 DEF Ended, Message, Statuses, Unfinished
    <3> QED  BY <3>2, <3>3
  <2> HIDE DEF u, m
  <2>8. /\ t \in Seq(Message) /\ DOMAIN t = DOMAIN s
        /\ \A j \in DOMAIN s : t[j] = IF j = u THEN m ELSE s[j]
    BY <2>2, <2>5, <2>6, <2>7, ExceptSeq
  <2>9. \A j \in DOMAIN s : j # u => s[j].status \notin Unfinished
    BY <2>2, <2>5
  <2>10. s[u].status \in Unfinished  BY <2>4
  <2> HIDE DEF t
  <2> QED  BY <2>7, <2>8, <2>9, <2>10 DEF t
<1> QED  BY <1>1, <1>2

LEMMA SessionsLoaded ==
    ASSUME NEW ss \in Seq(Session), NEW ids, NEW n, Conversations(ss, ids, n), OneUnfinished(ss)
    PROVE  LET tt == [i \in DOMAIN ss |-> [ss[i] EXCEPT !.messages = sanitizeMessagesOnLoad(@)]]
           IN  /\ Conversations(tt, ids, n)
               /\ DOMAIN tt = DOMAIN ss
               /\ \A i \in DOMAIN ss : tt[i].id = ss[i].id
               /\ \A i \in DOMAIN ss : \A j \in DOMAIN tt[i].messages :
                     tt[i].messages[j].status \notin Unfinished
<1> DEFINE tt == [i \in DOMAIN ss |-> [ss[i] EXCEPT !.messages = sanitizeMessagesOnLoad(@)]]
<1>1. ASSUME NEW i \in DOMAIN ss
      PROVE  LET t == sanitizeMessagesOnLoad(ss[i].messages)
                 s == ss[i].messages
             IN  /\ t \in Seq(Message) /\ DOMAIN t = DOMAIN s
                 /\ \A j \in DOMAIN s :
                       /\ t[j].status \notin Unfinished
                       /\ t[j].from = s[j].from /\ t[j].owner = s[j].owner /\ t[j].by = s[j].by
                       /\ s[j].status \notin Unfinished => t[j] = s[j]
  <2>1. ss[i].messages \in Seq(Message)  BY MessageType
  <2>2. \A j, k \in DOMAIN ss[i].messages :
           ss[i].messages[j].status \in Unfinished /\ ss[i].messages[k].status \in Unfinished => j = k
    BY DEF OneUnfinished
  <2> QED  BY <2>1, <2>2, Repaired
<1>2. ASSUME NEW i \in DOMAIN ss
      PROVE  tt[i] \in Session /\ tt[i].id = ss[i].id
             /\ tt[i].messages = sanitizeMessagesOnLoad(ss[i].messages)
  <2>1. ss[i] \in Session  BY ElementOfSeq
  <2>2. sanitizeMessagesOnLoad(ss[i].messages) \in Seq(Message)  BY <1>1
  <2> QED  BY <2>1, <2>2 DEF Session
<1>3. tt \in Seq(Session) /\ DOMAIN tt = DOMAIN ss
  <2>1. DOMAIN ss = 1..Len(ss) /\ Len(ss) \in Nat  OBVIOUS
  <2>2. tt \in [1..Len(ss) -> Session]  BY <1>2, <2>1
  <2> QED  BY <2>1, <2>2
<1> HIDE DEF tt
<1>4. ASSUME NEW i \in DOMAIN ss
      PROVE  DOMAIN tt[i].messages = DOMAIN ss[i].messages
  BY <1>1, <1>2
<1>5. ASSUME NEW i \in DOMAIN ss, NEW j \in DOMAIN tt[i].messages
      PROVE  /\ j \in DOMAIN ss[i].messages
             /\ tt[i].messages[j].status \notin Unfinished
             /\ tt[i].messages[j].from = ss[i].messages[j].from
             /\ tt[i].messages[j].owner = ss[i].messages[j].owner
             /\ tt[i].messages[j].by = ss[i].messages[j].by
             /\ ss[i].messages[j].status \notin Unfinished =>
                   tt[i].messages[j] = ss[i].messages[j]
  BY <1>1, <1>2, <1>4
<1>6. AllProper(tt, n)
  <2> SUFFICES ASSUME NEW i \in DOMAIN ss, NEW j \in DOMAIN tt[i].messages
               PROVE  Proper(tt[i].messages[j], n)
    BY <1>3 DEF AllProper
  <2>1. Proper(ss[i].messages[j], n)  BY <1>5 DEF Conversations, AllProper
  <2>2. ss[i].messages[j].from = "user" => tt[i].messages[j].status = "none"
    <3> HAVE ss[i].messages[j].from = "user"
    <3>1. ss[i].messages[j].status = "none"  BY <2>1 DEF Proper
    <3> QED  BY <3>1, <1>5 DEF Unfinished
  <2> QED  BY <2>1, <2>2, <1>5 DEF Proper
<1>7. UniqueOwners(tt)
  <2> SUFFICES ASSUME NEW i \in DOMAIN ss, NEW k \in DOMAIN ss,
                      NEW j \in DOMAIN tt[i].messages, NEW l \in DOMAIN tt[k].messages,
                      tt[i].messages[j].owner = tt[k].messages[l].owner,
                      tt[i].messages[j].owner # None
               PROVE  i = k /\ j = l
    BY <1>3 DEF UniqueOwners
  <2>1. /\ j \in DOMAIN ss[i].messages /\ tt[i].messages[j].owner = ss[i].messages[j].owner
        /\ l \in DOMAIN ss[k].messages /\ tt[k].messages[l].owner = ss[k].messages[l].owner
    BY <1>5
  <2>2. ss[i].messages[j].owner = ss[k].messages[l].owner /\ ss[i].messages[j].owner # None
    BY <2>1
  <2>3. UniqueOwners(ss)  BY DEF Conversations
  <2> QED  BY <2>1, <2>2, <2>3 DEF UniqueOwners
<1>8. UniqueIds(tt) /\ \A i \in DOMAIN tt : tt[i].id \in ids
  BY <1>2, <1>3 DEF Conversations, UniqueIds
<1>9. Conversations(tt, ids, n)  BY <1>3, <1>6, <1>7, <1>8 DEF Conversations
<1> QED  BY <1>2, <1>3, <1>5, <1>9 DEF tt

-----------------------------------------------------------------------------
(***************************************************************************)
(* What CancelledStays says of two lists of sessions, and why it holds:    *)
(* every message of the new list is one of the old, or its owner had no    *)
(* cancelled answer.                                                       *)
(***************************************************************************)
Keeps(ss, tt) ==
    \A i \in DOMAIN ss, k \in DOMAIN tt :
        \A j \in DOMAIN ss[i].messages, l \in DOMAIN tt[k].messages :
            /\ ss[i].messages[j].status = "cancelled"
            /\ tt[k].messages[l].owner = ss[i].messages[j].owner
            => tt[k].messages[l] = ss[i].messages[j]

LEMMA SameOwner ==
    ASSUME NEW ss, UniqueOwners(ss), NEW i \in DOMAIN ss, NEW k \in DOMAIN ss,
           NEW j \in DOMAIN ss[i].messages, NEW l \in DOMAIN ss[k].messages,
           ss[i].messages[j].owner = ss[k].messages[l].owner, ss[i].messages[j].owner # None
    PROVE  i = k /\ j = l
BY DEF UniqueOwners

LEMMA OldOrOther ==
    ASSUME NEW ss, NEW tt, NEW ids, NEW n, Conversations(ss, ids, n),
           \A k \in DOMAIN tt : \A l \in DOMAIN tt[k].messages :
              \/ tt[k].messages[l].owner \notin 1..n
              \/ \E i \in DOMAIN ss : \E j \in DOMAIN ss[i].messages :
                    /\ tt[k].messages[l].owner = ss[i].messages[j].owner
                    /\ \/ tt[k].messages[l] = ss[i].messages[j]
                       \/ ss[i].messages[j].status # "cancelled"
    PROVE  Keeps(ss, tt)
<1> SUFFICES ASSUME NEW i \in DOMAIN ss, NEW k \in DOMAIN tt,
                    NEW j \in DOMAIN ss[i].messages, NEW l \in DOMAIN tt[k].messages,
                    ss[i].messages[j].status = "cancelled",
                    tt[k].messages[l].owner = ss[i].messages[j].owner
             PROVE  tt[k].messages[l] = ss[i].messages[j]
  BY DEF Keeps
<1>1. Proper(ss[i].messages[j], n)  BY DEF Conversations, AllProper
<1>2. ss[i].messages[j].owner \in 1..n  BY <1>1 DEF Proper
<1>3. PICK x \in DOMAIN ss : \E y \in DOMAIN ss[x].messages :
         /\ tt[k].messages[l].owner = ss[x].messages[y].owner
         /\ \/ tt[k].messages[l] = ss[x].messages[y]
            \/ ss[x].messages[y].status # "cancelled"
  BY <1>2
<1>4. PICK y \in DOMAIN ss[x].messages :
         /\ tt[k].messages[l].owner = ss[x].messages[y].owner
         /\ \/ tt[k].messages[l] = ss[x].messages[y]
            \/ ss[x].messages[y].status # "cancelled"
  BY <1>3
<1>5. ss[i].messages[j].owner # None  BY <1>2 DEF None
<1>6. UniqueOwners(ss)  BY DEF Conversations
<1>7. ss[i].messages[j].owner = ss[x].messages[y].owner  BY <1>4
<1>8. i = x /\ j = y  BY <1>5, <1>6, <1>7, SameOwner
<1> QED  BY <1>4, <1>8

\* The same for lists whose messages are all old.
LEMMA OldOnly ==
    ASSUME NEW ss, NEW tt, NEW ids, NEW n, Conversations(ss, ids, n),
           \A k \in DOMAIN tt : \A l \in DOMAIN tt[k].messages :
              \E i \in DOMAIN ss : \E j \in DOMAIN ss[i].messages :
                 tt[k].messages[l] = ss[i].messages[j]
    PROVE  Keeps(ss, tt)
<1>1. \A k \in DOMAIN tt : \A l \in DOMAIN tt[k].messages :
         \E i \in DOMAIN ss : \E j \in DOMAIN ss[i].messages :
            /\ tt[k].messages[l].owner = ss[i].messages[j].owner
            /\ tt[k].messages[l] = ss[i].messages[j]
  OBVIOUS
<1> QED  BY <1>1, OldOrOther

-----------------------------------------------------------------------------
\* The active session of a page that is shown.
LEMMA ActiveSession ==
    ASSUME ChatInv, mounted
    PROVE  /\ Position(activeId) \in DOMAIN sessions
           /\ sessions[Position(activeId)].id = activeId
           /\ \A i \in DOMAIN sessions : sessions[i].id = activeId => i = Position(activeId)
           /\ Messages(activeId) = sessions[Position(activeId)].messages
           /\ Messages(activeId) \in Seq(Message)
<1>1. \E i \in DOMAIN sessions : sessions[i].id = activeId  BY DEF ChatInv, PageShown
<1>2. /\ Position(activeId) \in DOMAIN sessions
      /\ sessions[Position(activeId)].id = activeId
  BY <1>1 DEF Position
<1>3. \A i \in DOMAIN sessions : sessions[i].id = activeId => i = Position(activeId)
  BY <1>2 DEF ChatInv, Conversations, UniqueIds
<1>4. Messages(activeId) = sessions[Position(activeId)].messages  BY DEF Messages
<1>5. sessions \in Seq(Session)  BY DEF ChatInv, Types
<1> QED  BY <1>2, <1>3, <1>4, <1>5, MessageType

\* The request under way, its session and its answer.
LEMMA LiveRequest ==
    ASSUME ChatInv, NEW r \in Live
    PROVE  /\ mounted /\ r \in Requests /\ r \in Nat /\ r # None /\ Live = {r}
           /\ requests[r].session = activeId
           /\ Messages(activeId) # <<>>
           /\ Filling(Messages(activeId)[Len(Messages(activeId))], r)
<1>1. mounted
  <2> SUFFICES ASSUME ~mounted PROVE FALSE  OBVIOUS
  <2>1. Live = {}  BY DEF ChatInv, PageShown
  <2> QED  BY <2>1
<1>2. r \in Requests /\ r \in Nat /\ r # None
  BY DEF Live, Requests, None, ChatInv, Types
<1>3. Live = {r}  BY DEF ChatInv, BusyWhileLive
<1>4. requests[r].session = activeId  BY DEF ChatInv
<1>5. /\ Position(activeId) \in DOMAIN sessions
      /\ sessions[Position(activeId)].id = activeId
      /\ Messages(activeId) = sessions[Position(activeId)].messages
  BY <1>1, ActiveSession
<1>6. /\ sessions[Position(activeId)].messages # <<>>
      /\ Filling(sessions[Position(activeId)].messages[Len(sessions[Position(activeId)].messages)], r)
  BY <1>5 DEF ChatInv, AnswerInPlace
<1> QED  BY <1>1, <1>2, <1>3, <1>4, <1>5, <1>6

\* The answer under way is rewritten.
LEMMA AnswerRewritten ==
    ASSUME ChatInv, NEW r \in Live, NEW m \in Message,
           m.from = "assistant", m.owner = r, m.by \subseteq {r},
           sessions' = Replaced(sessions, activeId, WithLast(Messages(activeId), m))
    PROVE  /\ Conversations(sessions', usedIds, Len(requests))
           /\ \E i \in DOMAIN sessions' : sessions'[i].id = activeId
           /\ AnswerInPlace(sessions', activeId, IF m.status \in Unfinished THEN {r} ELSE {})
           /\ Keeps(sessions, sessions')
<1> DEFINE a == Position(activeId)
           last == Len(sessions[a].messages)
           n == Len(requests)
           tt == Replaced(sessions, sessions[a].id, WithLast(sessions[a].messages, m))
<1>1. /\ mounted /\ r \in Requests /\ Live = {r} /\ Messages(activeId) # <<>>
      /\ Filling(Messages(activeId)[Len(Messages(activeId))], r)
  BY LiveRequest
<1>2. /\ a \in DOMAIN sessions /\ sessions[a].id = activeId
      /\ \A i \in DOMAIN sessions : sessions[i].id = activeId => i = a
      /\ Messages(activeId) = sessions[a].messages
      /\ sessions[a].messages \in Seq(Message)
  BY <1>1, ActiveSession
<1> HIDE DEF a
<1>3. sessions[a].messages # <<>> /\ Filling(sessions[a].messages[last], r)
  BY <1>1, <1>2
<1>4. Proper(m, n)
  BY <1>1 DEF Proper, Requests
<1>5. sessions \in Seq(Session) /\ Conversations(sessions, usedIds, n)
  BY DEF ChatInv, Types
<1>6. sessions' = tt  BY <1>2
<1>7. m.owner = sessions[a].messages[last].owner  BY <1>3 DEF Filling
<1>8. /\ Conversations(tt, usedIds, n)
      /\ DOMAIN tt = DOMAIN sessions
      /\ \A i \in DOMAIN sessions : tt[i].id = sessions[i].id /\ Len(tt[i].messages) = Len(sessions[i].messages)
      /\ \A i \in DOMAIN sessions : \A j \in DOMAIN tt[i].messages :
            tt[i].messages[j] = IF i = a /\ j = last THEN m ELSE sessions[i].messages[j]
  BY <1>2, <1>3, <1>4, <1>5, <1>7, LastRewritten
<1>9. \A i \in DOMAIN sessions : DOMAIN tt[i].messages = DOMAIN sessions[i].messages
  <2> SUFFICES ASSUME NEW i \in DOMAIN sessions
               PROVE  DOMAIN tt[i].messages = DOMAIN sessions[i].messages
    OBVIOUS
  <2>1. tt \in Seq(Session)  BY <1>8 DEF Conversations
  <2>2. tt[i].messages \in Seq(Message) /\ sessions[i].messages \in Seq(Message)
    BY <1>5, <1>8, <2>1, MessageType
  <2> QED  BY <1>8, <2>2
<1> HIDE DEF tt
<1>10. last \in DOMAIN sessions[a].messages  BY <1>2, <1>3
<1>11. tt[a].messages # <<>> /\ tt[a].messages[Len(tt[a].messages)] = m
  <2>1. tt[a].messages[last] = m /\ Len(tt[a].messages) = last
    BY <1>2, <1>8, <1>9, <1>10
  <2>2. DOMAIN tt[a].messages # {}  BY <1>2, <1>9, <1>10
  <2> QED  BY <2>1, <2>2
<1>12. AnswerInPlace(tt, activeId, IF m.status \in Unfinished THEN {r} ELSE {})
  <2> DEFINE live == IF m.status \in Unfinished THEN {r} ELSE {}
  <2>1. ASSUME NEW i \in DOMAIN tt, tt[i].id = activeId, NEW q \in live
        PROVE  tt[i].messages # <<>> /\ Filling(tt[i].messages[Len(tt[i].messages)], q)
    <3>1. i = a  BY <2>1, <1>2, <1>8
    <3>2. q = r /\ m.status \in Unfinished  OBVIOUS
    <3> QED  BY <3>1, <3>2, <1>11 DEF Filling
  <2>2. ASSUME NEW i \in DOMAIN tt, NEW j \in DOMAIN tt[i].messages,
               tt[i].messages[j].status \in Unfinished
        PROVE  live # {} /\ tt[i].id = activeId /\ j = Len(tt[i].messages)
    <3>1. CASE i = a /\ j = last  BY <2>2, <3>1, <1>2, <1>8
    <3>2. CASE ~(i = a /\ j = last)
      <4>1. j \in DOMAIN sessions[i].messages /\ sessions[i].messages[j].status \in Unfinished
        BY <2>2, <3>2, <1>8, <1>9
      <4>2. sessions[i].id = activeId /\ j = Len(sessions[i].messages)
        BY <4>1, <1>8 DEF ChatInv, AnswerInPlace
      <4> QED  BY <3>2, <4>2, <1>2, <1>8
    <3> QED  BY <3>1, <3>2
  <2> HIDE DEF live
  <2>3. AnswerInPlace(tt, activeId, live)  BY <2>1, <2>2 DEF AnswerInPlace
  <2> QED  BY <2>3 DEF live
<1>13. Keeps(sessions, tt)
  <2>1. ASSUME NEW k \in DOMAIN tt, NEW l \in DOMAIN tt[k].messages
        PROVE  \E i \in DOMAIN sessions : \E j \in DOMAIN sessions[i].messages :
                  /\ tt[k].messages[l].owner = sessions[i].messages[j].owner
                  /\ \/ tt[k].messages[l] = sessions[i].messages[j]
                     \/ sessions[i].messages[j].status # "cancelled"
    <3>1. l \in DOMAIN sessions[k].messages  BY <1>8, <1>9
    <3>2. CASE k = a /\ l = last
      BY <3>1, <3>2, <1>3, <1>7, <1>8 DEF Filling, Unfinished
    <3>3. CASE ~(k = a /\ l = last)
      BY <3>1, <3>3, <1>8
    <3> QED  BY <3>2, <3>3
  <2> QED  BY <2>1, <1>5, OldOrOther
<1> QED  BY <1>2, <1>6, <1>8, <1>12, <1>13

-----------------------------------------------------------------------------
\* One request changes its phase.
LEMMA PhaseChanged ==
    ASSUME NEW rs \in Seq(Request), NEW r \in 1..Len(rs), NEW p \in Phases,
           NEW ts, ts = [rs EXCEPT ![r].phase = p]
    PROVE  /\ ts \in Seq(Request) /\ Len(ts) = Len(rs)
           /\ \A q \in 1..Len(rs) :
                 /\ ts[q].session = rs[q].session /\ ts[q].generation = rs[q].generation
                 /\ ts[q].aborted = rs[q].aborted
                 /\ ts[q].phase = IF q = r THEN p ELSE rs[q].phase
<1> DEFINE e == [rs[r] EXCEPT !.phase = p]
<1>1. rs[r] \in Request  OBVIOUS
<1>2. /\ e \in Request /\ e.session = rs[r].session /\ e.generation = rs[r].generation
      /\ e.aborted = rs[r].aborted /\ e.phase = p
  BY <1>1 DEF Request
<1>3. ts = [rs EXCEPT ![r] = e]  BY <1>1
<1> HIDE DEF e
<1>4. /\ ts \in Seq(Request) /\ Len(ts) = Len(rs)
      /\ \A q \in 1..Len(rs) : ts[q] = IF q = r THEN e ELSE rs[q]
  BY <1>2, <1>3
<1> QED  BY <1>2, <1>4

Recorded(rs, r, t, p) == [rs EXCEPT ![r].terminalChunk = t, ![r].phase = p]

LEMMA ReadRecorded ==
    ASSUME NEW rs \in Seq(Request), NEW r \in 1..Len(rs), NEW p \in Phases, NEW t \in BOOLEAN,
           NEW ts, ts = Recorded(rs, r, t, p)
    PROVE  /\ ts \in Seq(Request) /\ Len(ts) = Len(rs)
           /\ \A q \in 1..Len(rs) :
                 /\ ts[q].session = rs[q].session /\ ts[q].generation = rs[q].generation
                 /\ ts[q].aborted = rs[q].aborted
                 /\ ts[q].phase = IF q = r THEN p ELSE rs[q].phase
<1> DEFINE e == [rs[r] EXCEPT !.terminalChunk = t, !.phase = p]
<1>1. rs[r] \in Request  OBVIOUS
<1>2. /\ e \in Request /\ e.session = rs[r].session /\ e.generation = rs[r].generation
      /\ e.aborted = rs[r].aborted /\ e.phase = p
  BY <1>1 DEF Request
<1>3. ts = [rs EXCEPT ![r] = e]  BY <1>1 DEF Recorded
<1> HIDE DEF e
<1>4. /\ ts \in Seq(Request) /\ Len(ts) = Len(rs)
      /\ \A q \in 1..Len(rs) : ts[q] = IF q = r THEN e ELSE rs[q]
  BY <1>2, <1>3
<1> QED  BY <1>2, <1>4

\* A request ends: it is not live any more, and the flag and the controllers
\* are cleared by the live request only.
LEMMA RequestOver ==
    ASSUME ChatInv, NEW r \in Requests, requests[r].phase # "over", Over(r)
    PROVE  /\ requests' \in Seq(Request) /\ Len(requests') = Len(requests)
           /\ Live' = Live \ {r}
           /\ \A q \in Requests : requests'[q].session = requests[q].session
           /\ controllerRef' \in Nat /\ requestRef' \in Nat /\ busyRef' \in BOOLEAN
           /\ requestGeneration' = requestGeneration
           /\ BusyWhileLive' /\ Generations'
<1>1. /\ requests \in Seq(Request) /\ controllerRef \in Nat /\ requestRef \in Nat
      /\ busyRef \in BOOLEAN /\ requestGeneration \in Nat
  BY DEF ChatInv, Types
<1>2. r \in 1..Len(requests) /\ "over" \in Phases /\ r \in Nat /\ r # None
  BY <1>1 DEF Requests, Phases, None
<1>3. requests' = [requests EXCEPT ![r].phase = "over"]  BY DEF Over, Goto
<1>4. /\ requests' \in Seq(Request) /\ Len(requests') = Len(requests)
      /\ \A q \in 1..Len(requests) :
            /\ requests'[q].session = requests[q].session
            /\ requests'[q].generation = requests[q].generation
            /\ requests'[q].aborted = requests[q].aborted
            /\ requests'[q].phase = IF q = r THEN "over" ELSE requests[q].phase
  BY <1>1, <1>2, <1>3, PhaseChanged
<1>5. Live' = Live \ {r}
  <2>1. Requests' = Requests  BY <1>4 DEF Requests
  <2> QED  BY <1>2, <1>4, <2>1 DEF Live, Requests
<1>6. /\ controllerRef' = IF controllerRef = r THEN None ELSE controllerRef
      /\ requestRef' = IF requestRef = r THEN None ELSE requestRef
      /\ busyRef' = (busyRef /\ requests[r].generation # requestGeneration)
      /\ requestGeneration' = requestGeneration
  BY DEF Over, Finally
<1>7. controllerRef' \in Nat /\ requestRef' \in Nat /\ busyRef' \in BOOLEAN
  BY <1>1, <1>6 DEF None
<1>8. Generations'
  BY <1>4, <1>6 DEF Generations, Requests, ChatInv
<1>9. /\ Live = {controllerRef, requestRef} \ {None}
      /\ \A x, y \in Live : x = y
      /\ busyRef = (Live # {})
  BY DEF ChatInv, BusyWhileLive
<1>10. Live' = {controllerRef', requestRef'} \ {None}
  BY <1>2, <1>5, <1>6, <1>9
<1>11. busyRef' = (Live' # {})
  <2>1. CASE requests[r].aborted
    <3>1. r \notin Live  BY <2>1 DEF Live
    <3>2. requests[r].generation < requestGeneration
      BY <2>1 DEF ChatInv, Generations
    <3>3. requests[r].generation \in Nat
      <4>1. requests[r] \in Request  BY <1>1, <1>2
      <4> QED  BY <4>1 DEF Request
    <3>4. requests[r].generation # requestGeneration  BY <3>2, <3>3, <1>1
    <3>5. busyRef' = busyRef  BY <3>4, <1>1, <1>6
    <3> QED  BY <3>1, <3>5, <1>5, <1>9
  <2>2. CASE ~requests[r].aborted
    <3>1. r \in Live  BY <2>2 DEF Live
    <3>2. requests[r].generation = requestGeneration
      BY <2>2 DEF ChatInv, Generations
    <3>3. busyRef' = FALSE  BY <3>2, <1>6
    <3>4. Live' = {}  BY <3>1, <1>5, <1>9
    <3> QED  BY <3>3, <3>4
  <2> QED  BY <2>1, <2>2
<1>12. \A x, y \in Live' : x = y  BY <1>5, <1>9
<1>13. BusyWhileLive'  BY <1>10, <1>11, <1>12 DEF BusyWhileLive
<1> QED  BY <1>4, <1>5, <1>6, <1>7, <1>8, <1>13 DEF Requests

\* A request goes on.
LEMMA RequestGoesOn ==
    ASSUME ChatInv, NEW r \in Requests, requests[r].phase # "over",
           NEW p \in Phases \ {"over"}, NEW t \in BOOLEAN,
           \/ requests' = [requests EXCEPT ![r].phase = p]
           \/ requests' = Recorded(requests, r, t, p),
           UNCHANGED refs
    PROVE  /\ requests' \in Seq(Request) /\ Len(requests') = Len(requests)
           /\ Live' = Live
           /\ \A q \in Requests : requests'[q].session = requests[q].session
           /\ controllerRef' \in Nat /\ requestRef' \in Nat /\ busyRef' \in BOOLEAN
           /\ requestGeneration' = requestGeneration
           /\ BusyWhileLive' /\ Generations'
<1>1. /\ requests \in Seq(Request) /\ controllerRef \in Nat /\ requestRef \in Nat
      /\ busyRef \in BOOLEAN /\ requestGeneration \in Nat
  BY DEF ChatInv, Types
<1>2. r \in 1..Len(requests)  BY DEF Requests
<1>3. /\ requests' \in Seq(Request) /\ Len(requests') = Len(requests)
      /\ \A q \in 1..Len(requests) :
            /\ requests'[q].session = requests[q].session
            /\ requests'[q].generation = requests[q].generation
            /\ requests'[q].aborted = requests[q].aborted
            /\ requests'[q].phase = IF q = r THEN p ELSE requests[q].phase
  <2>1. CASE requests' = [requests EXCEPT ![r].phase = p]
    BY <2>1, <1>1, <1>2, PhaseChanged
  <2>2. CASE requests' = Recorded(requests, r, t, p)
    BY <2>2, <1>1, <1>2, ReadRecorded
  <2> QED  BY <2>1, <2>2
<1>4. /\ controllerRef' = controllerRef /\ requestRef' = requestRef /\ busyRef' = busyRef
      /\ requestGeneration' = requestGeneration
  BY DEF refs
<1>5. Live' = Live
  <2>1. Requests' = Requests  BY <1>3 DEF Requests
  <2> QED  BY <1>2, <1>3, <2>1 DEF Live, Requests
<1>6. Generations'
  BY <1>3, <1>4 DEF Generations, Requests, ChatInv
<1>7. BusyWhileLive'  BY <1>4, <1>5 DEF BusyWhileLive, ChatInv
<1> QED  BY <1>1, <1>3, <1>4, <1>5, <1>6, <1>7 DEF Requests

\* What an answer that arrives does to its message.
LEMMA ApplyShape ==
    ASSUME ChatInv, NEW r \in Live, NEW wrote \in BOOLEAN, NEW end \in {Going, "error", "complete"},
           Apply(r, wrote, end)
    PROVE  \E m \in Message :
              /\ m.from = "assistant" /\ m.owner = r /\ m.by \subseteq {r}
              /\ sessions' = Replaced(sessions, activeId, WithLast(Messages(activeId), m))
              /\ (m.status \in Unfinished) <=> (end = Going)
<1> DEFINE ms == Messages(activeId)
           old == ms[Len(ms)]
           m == Effect(old, r, wrote, end)
<1>1. /\ mounted /\ r \in Nat /\ requests[r].session = activeId /\ ms # <<>> /\ Filling(old, r)
  BY LiveRequest
<1>2. ms \in Seq(Message)  BY <1>1, ActiveSession
<1> HIDE DEF ms
<1>3. Len(ms) \in DOMAIN ms /\ old \in Message  BY <1>1, <1>2
<1>4. Last(ms) = old  BY DEF Last
<1>5. old.by \subseteq {r}
  <2>1. /\ Position(activeId) \in DOMAIN sessions
        /\ ms = sessions[Position(activeId)].messages
    BY <1>1, ActiveSession DEF ms
  <2>2. Proper(old, Len(requests))
    BY <2>1, <1>3 DEF ChatInv, Conversations, AllProper
  <2> QED  BY <2>2, <1>1 DEF Proper, Filling
<1> HIDE DEF old
<1>6. /\ m \in Message /\ m.from = "assistant" /\ m.owner = r /\ m.by \subseteq {r}
      /\ (m.status \in Unfinished) <=> (end = Going)
  <2> DEFINE w == IF wrote THEN Wrote(old, r) ELSE old
  <2>1. w \in Message /\ w.from = "assistant" /\ w.owner = r /\ w.by \subseteq {r}
        /\ w.status \in Unfinished
    <3>1. CASE wrote
      BY <3>1, <1>1, <1>3, <1>5 DEF Wrote, Message, Statuses, Filling, Unfinished
    <3>2. CASE ~wrote  BY <3>2, <1>1, <1>3, <1>5 DEF Filling
    <3> QED  BY <3>1, <3>2
  <2>2. m = IF end = Going THEN w ELSE Ended(w, end)  BY DEF Effect
  <2> HIDE DEF w, m
  <2>3. CASE end = Going  BY <2>1, <2>2, <2>3
  <2>4. CASE end # Going
    BY <2>1, <2>2, <2>4 DEF Ended, Message, Statuses, Unfinished
  <2> QED  BY <2>3, <2>4
<1>7. SetMessages(activeId, updateLastAssistantMessage(ms, m))
  BY <1>1, <1>4 DEF Apply, ms
<1>8. updateLastAssistantMessage(ms, m) = WithLast(ms, m)
  BY <1>1, <1>4 DEF updateLastAssistantMessage, WithLast, Filling
<1> HIDE DEF m
<1>9. sessions' = Replaced(sessions, activeId, WithLast(ms, m))
  BY <1>7, <1>8 DEF SetMessages, Replaced
<1> QED  BY <1>6, <1>9 DEF ms

\* The parts of the invariant, put together for a step that keeps the page.
LEMMA PageKept ==
    ASSUME ChatInv, mounted, UNCHANGED <<activeId, usedIds, stored, mounted>>,
           requests' \in Seq(Request), Len(requests') = Len(requests),
           controllerRef' \in Nat, requestRef' \in Nat, busyRef' \in BOOLEAN,
           requestGeneration' \in Nat, BusyWhileLive', Generations',
           \A r \in Live' : requests'[r].session = activeId,
           Conversations(sessions', usedIds, Len(requests)),
           \E i \in DOMAIN sessions' : sessions'[i].id = activeId,
           AnswerInPlace(sessions', activeId, Live')
    PROVE  ChatInv'
<1>1. Types'  BY DEF ChatInv, Types, Conversations
<1>2. Conversations(sessions', usedIds', Len(requests'))  OBVIOUS
<1>3. stored' # <<>> /\ Conversations(stored', usedIds', Len(requests')) /\ OneUnfinished(stored')
  BY DEF ChatInv
<1>4. PageShown'  BY DEF PageShown
<1>5. AnswerInPlace(sessions', activeId', Live')  OBVIOUS
<1>6. \A r \in Live' : requests'[r].session = activeId'  OBVIOUS
<1> QED  BY <1>1, <1>2, <1>3, <1>4, <1>5, <1>6 DEF ChatInv

\* The answer ends, well or not.
LEMMA AnswerEnds ==
    ASSUME ChatInv, NEW r \in Live, NEW wrote \in BOOLEAN, NEW end \in {"error", "complete"},
           Apply(r, wrote, end), Over(r), UNCHANGED <<activeId, usedIds, stored, mounted>>
    PROVE  ChatInv' /\ Keeps(sessions, sessions')
<1>1. mounted /\ r \in Requests /\ Live = {r}  BY LiveRequest
<1>2. requests[r].phase # "over"  BY DEF Live
<1>3. end # Going /\ end \in {Going, "error", "complete"}  BY DEF Going
<1>4. PICK m \in Message :
         /\ m.from = "assistant" /\ m.owner = r /\ m.by \subseteq {r}
         /\ sessions' = Replaced(sessions, activeId, WithLast(Messages(activeId), m))
         /\ (m.status \in Unfinished) <=> (end = Going)
  BY <1>3, ApplyShape
<1>5. /\ Conversations(sessions', usedIds, Len(requests))
      /\ \E i \in DOMAIN sessions' : sessions'[i].id = activeId
      /\ AnswerInPlace(sessions', activeId, IF m.status \in Unfinished THEN {r} ELSE {})
      /\ Keeps(sessions, sessions')
  BY <1>4, AnswerRewritten
<1>6. /\ requests' \in Seq(Request) /\ Len(requests') = Len(requests)
      /\ Live' = Live \ {r}
      /\ controllerRef' \in Nat /\ requestRef' \in Nat /\ busyRef' \in BOOLEAN
      /\ requestGeneration' = requestGeneration
      /\ BusyWhileLive' /\ Generations'
  BY <1>1, <1>2, RequestOver
<1>7. Live' = {}  BY <1>1, <1>6
<1>8. AnswerInPlace(sessions', activeId, Live')  BY <1>3, <1>4, <1>5, <1>7
<1>9. requestGeneration' \in Nat  BY <1>6 DEF ChatInv, Types
<1>10. \A q \in Live' : requests'[q].session = activeId  BY <1>7
<1>11. ChatInv'  BY <1>1, <1>5, <1>6, <1>8, <1>9, <1>10, PageKept
<1> QED  BY <1>5, <1>11

\* The answer goes on, with or without new text.
LEMMA AnswerGoesOn ==
    ASSUME ChatInv, NEW r \in Live, NEW wrote \in BOOLEAN, Apply(r, wrote, Going),
           NEW p \in Phases \ {"over"}, NEW t \in BOOLEAN,
           requests' = Recorded(requests, r, t, p), UNCHANGED refs,
           UNCHANGED <<activeId, usedIds, stored, mounted>>
    PROVE  ChatInv' /\ Keeps(sessions, sessions')
<1>1. mounted /\ r \in Requests /\ Live = {r} /\ requests[r].session = activeId  BY LiveRequest
<1>2. requests[r].phase # "over"  BY DEF Live
<1>3. Going \in {Going, "error", "complete"}  OBVIOUS
<1>4. PICK m \in Message :
         /\ m.from = "assistant" /\ m.owner = r /\ m.by \subseteq {r}
         /\ sessions' = Replaced(sessions, activeId, WithLast(Messages(activeId), m))
         /\ (m.status \in Unfinished) <=> (Going = Going)
  BY <1>3, ApplyShape
<1>5. /\ Conversations(sessions', usedIds, Len(requests))
      /\ \E i \in DOMAIN sessions' : sessions'[i].id = activeId
      /\ AnswerInPlace(sessions', activeId, IF m.status \in Unfinished THEN {r} ELSE {})
      /\ Keeps(sessions, sessions')
  BY <1>4, AnswerRewritten
<1>6. /\ requests' \in Seq(Request) /\ Len(requests') = Len(requests)
      /\ Live' = Live /\ \A q \in Requests : requests'[q].session = requests[q].session
      /\ controllerRef' \in Nat /\ requestRef' \in Nat /\ busyRef' \in BOOLEAN
      /\ requestGeneration' = requestGeneration
      /\ BusyWhileLive' /\ Generations'
  BY <1>1, <1>2, RequestGoesOn
<1>7. Live' = {r}  BY <1>1, <1>6
<1>8. AnswerInPlace(sessions', activeId, Live')  BY <1>4, <1>5, <1>7
<1>9. requestGeneration' \in Nat  BY <1>6 DEF ChatInv, Types
<1>10. \A q \in Live' : requests'[q].session = activeId  BY <1>1, <1>6, <1>7
<1>11. ChatInv'  BY <1>1, <1>5, <1>6, <1>8, <1>9, <1>10, PageKept
<1> QED  BY <1>5, <1>11

\* The sessions do not change.
LEMMA SameSessions == ChatInv /\ sessions' = sessions => Keeps(sessions, sessions')
<1> HAVE ChatInv /\ sessions' = sessions
<1>1. Conversations(sessions, usedIds, Len(requests))  BY DEF ChatInv
<1>2. \A k \in DOMAIN sessions : \A l \in DOMAIN sessions[k].messages :
         \E i \in DOMAIN sessions : \E j \in DOMAIN sessions[i].messages :
            sessions[k].messages[l] = sessions[i].messages[j]
  OBVIOUS
<1>3. Keeps(sessions, sessions)  BY <1>1, <1>2, OldOnly
<1> QED  BY <1>3

LEMMA AwaitsLive ==
    ASSUME NEW r \in Requests, NEW p \in Phases \ {"over"}, Awaits(r, p)
    PROVE  r \in Live /\ mounted
BY DEF Awaits, Live

LEMMA RespondStep ==
    ASSUME ChatInv, NEW r \in Requests, Respond(r)
    PROVE  ChatInv' /\ Keeps(sessions, sessions')
<1>0. "fetch" \in Phases \ {"over"}  BY DEF Phases
<1>1. r \in Live /\ mounted /\ UNCHANGED <<activeId, usedIds, stored, mounted>>
  BY <1>0, AwaitsLive DEF Respond
<1>2. ASSUME NEW p \in {"reading", "text"}, Goto(r, p), UNCHANGED <<sessions, refs>>
      PROVE  ChatInv' /\ Keeps(sessions, sessions')
  <2>1. p \in Phases \ {"over"}  BY DEF Phases
  <2>2. requests' = [requests EXCEPT ![r].phase = p] /\ UNCHANGED refs /\ sessions' = sessions
    BY <1>2 DEF Goto
  <2>3. requests[r].phase # "over" /\ TRUE \in BOOLEAN  BY <1>1 DEF Live
  <2>4. /\ requests' \in Seq(Request) /\ Len(requests') = Len(requests)
        /\ Live' = Live /\ \A q \in Requests : requests'[q].session = requests[q].session
        /\ controllerRef' \in Nat /\ requestRef' \in Nat /\ busyRef' \in BOOLEAN
        /\ requestGeneration' = requestGeneration
        /\ BusyWhileLive' /\ Generations'
    BY <2>1, <2>2, <2>3, RequestGoesOn
  <2>5. requestGeneration' \in Nat  BY <2>4 DEF ChatInv, Types
  <2>6. /\ Conversations(sessions', usedIds, Len(requests))
        /\ \E i \in DOMAIN sessions' : sessions'[i].id = activeId
        /\ AnswerInPlace(sessions', activeId, Live')
    BY <1>1, <2>2, <2>4 DEF ChatInv, PageShown
  <2>7. \A q \in Live' : requests'[q].session = activeId
    BY <2>4 DEF ChatInv, Live
  <2>8. ChatInv'  BY <1>1, <2>4, <2>5, <2>6, <2>7, PageKept
  <2> QED  BY <2>2, <2>8, SameSessions
<1>3. CASE Goto(r, "reading") /\ UNCHANGED <<sessions, refs>>  BY <1>2, <1>3
<1>4. CASE Goto(r, "text") /\ UNCHANGED <<sessions, refs>>  BY <1>2, <1>4
<1>5. CASE onError(r)
  BY <1>1, <1>5, AnswerEnds DEF onError
<1> QED  BY <1>3, <1>4, <1>5 DEF Respond

LEMMA ErrorTextStep ==
    ASSUME ChatInv, NEW r \in Requests, ErrorText(r)
    PROVE  ChatInv' /\ Keeps(sessions, sessions')
<1>1. "text" \in Phases \ {"over"}  BY DEF Phases
<1>2. r \in Live  BY <1>1, AwaitsLive DEF ErrorText
<1> QED  BY <1>2, AnswerEnds DEF ErrorText, onError

LEMMA FinishStep ==
    ASSUME ChatInv, NEW r \in Requests, Finish(r)
    PROVE  ChatInv' /\ Keeps(sessions, sessions')
<1>1. "cancel" \in Phases \ {"over"}  BY DEF Phases
<1>2. r \in Live  BY <1>1, AwaitsLive DEF Finish
<1>3. CASE onComplete(r)  BY <1>2, <1>3, AnswerEnds DEF Finish, onComplete
<1>4. CASE onError(r)  BY <1>2, <1>4, AnswerEnds DEF Finish, onError
<1> QED  BY <1>3, <1>4 DEF Finish

LEMMA AnswerStep ==
    ASSUME ChatInv, NEW r \in Requests, Answer(r)
    PROVE  ChatInv' /\ Keeps(sessions, sessions')
<1>1. "fetch" \in Phases \ {"over"}  BY DEF Phases
<1>2. r \in Live  BY <1>1, AwaitsLive DEF Answer
<1>3. CASE Apply(r, TRUE, "complete") /\ Over(r)  BY <1>2, <1>3, AnswerEnds DEF Answer
<1>4. CASE onError(r)  BY <1>2, <1>4, AnswerEnds DEF Answer, onError
<1> QED  BY <1>3, <1>4 DEF Answer

LEMMA ReadStep ==
    ASSUME ChatInv, NEW r \in Requests, NEW events, NEW done \in BOOLEAN, Read(r, events, done)
    PROVE  ChatInv' /\ Keeps(sessions, sessions')
<1> DEFINE seen == Processed(events)
           terminal == requests[r].terminalChunk \/ Contains(seen, "terminal")
           failed == \/ Contains(events, "bad")
                     \/ done /\ ~Contains(seen, "done") /\ ~terminal
           wrote == Contains(seen, "content")
           p == IF done \/ Contains(seen, "done") THEN "cancel" ELSE "reading"
<1>1. "reading" \in Phases \ {"over"} /\ p \in Phases \ {"over"}  BY DEF Phases
<1>2. r \in Live /\ UNCHANGED <<activeId, usedIds, stored, mounted>>
  BY <1>1, AwaitsLive DEF Read
<1>3. Apply(r, wrote, IF failed THEN "error" ELSE Going)  BY DEF Read
<1>4. wrote \in BOOLEAN /\ terminal \in BOOLEAN  BY DEF Contains
<1>5. (failed /\ Over(r)) \/ (~failed /\ requests' = Recorded(requests, r, terminal, p) /\ UNCHANGED refs)
  BY DEF Read, Recorded
<1> HIDE DEF wrote, terminal, p, failed
<1>6. CASE failed /\ Over(r)  BY <1>2, <1>3, <1>4, <1>6, AnswerEnds
<1>7. CASE ~failed /\ requests' = Recorded(requests, r, terminal, p) /\ UNCHANGED refs
  BY <1>1, <1>2, <1>3, <1>4, <1>7, AnswerGoesOn
<1> QED  BY <1>5, <1>6, <1>7

LEMMA UnwindStep ==
    ASSUME ChatInv, NEW r \in Requests, Unwind(r)
    PROVE  ChatInv' /\ Keeps(sessions, sessions')
<1>1. /\ mounted /\ requests[r].aborted /\ requests[r].phase # "over" /\ Over(r)
      /\ sessions' = sessions /\ UNCHANGED <<activeId, usedIds, stored, mounted>>
  BY DEF Unwind
<1>2. /\ requests' \in Seq(Request) /\ Len(requests') = Len(requests)
      /\ Live' = Live \ {r} /\ \A q \in Requests : requests'[q].session = requests[q].session
      /\ controllerRef' \in Nat /\ requestRef' \in Nat /\ busyRef' \in BOOLEAN
      /\ requestGeneration' = requestGeneration
      /\ BusyWhileLive' /\ Generations'
  BY <1>1, RequestOver
<1>3. Live' = Live  BY <1>1, <1>2 DEF Live
<1>4. requestGeneration' \in Nat  BY <1>2 DEF ChatInv, Types
<1>5. /\ Conversations(sessions', usedIds, Len(requests))
      /\ \E i \in DOMAIN sessions' : sessions'[i].id = activeId
      /\ AnswerInPlace(sessions', activeId, Live')
  BY <1>1, <1>3 DEF ChatInv, PageShown
<1>6. \A q \in Live' : requests'[q].session = activeId
  BY <1>2, <1>3 DEF ChatInv, Live
<1>7. ChatInv'  BY <1>1, <1>2, <1>4, <1>5, <1>6, PageKept
<1> QED  BY <1>1, <1>7, SameSessions

-----------------------------------------------------------------------------
LEMMA MoreRequests ==
    ASSUME NEW ss, NEW ids, NEW more, ids \subseteq more, NEW n \in Nat, NEW k \in Nat, n <= k,
           Conversations(ss, ids, n)
    PROVE  Conversations(ss, more, k)
<1>1. \A m : Proper(m, n) => Proper(m, k)  BY DEF Proper
<1>2. AllProper(ss, k)  BY <1>1 DEF Conversations, AllProper
<1> QED  BY <1>2 DEF Conversations

\* The parts of the invariant, put together for a step of the user.
LEMMA PageStep ==
    ASSUME ChatInv, mounted' = TRUE, UNCHANGED stored,
           usedIds \subseteq usedIds', usedIds' \in SUBSET SessionIds, activeId' \in SessionIds,
           requests' \in Seq(Request), Len(requests) <= Len(requests'),
           controllerRef' \in Nat, requestRef' \in Nat, busyRef' \in BOOLEAN,
           requestGeneration' \in Nat, BusyWhileLive', Generations',
           \A r \in Live' : requests'[r].session = activeId',
           Conversations(sessions', usedIds', Len(requests')),
           \E i \in DOMAIN sessions' : sessions'[i].id = activeId',
           AnswerInPlace(sessions', activeId', Live')
    PROVE  ChatInv'
<1>1. Types'  BY DEF ChatInv, Types, Conversations
<1>2. stored' # <<>> /\ Conversations(stored', usedIds', Len(requests')) /\ OneUnfinished(stored')
  <2>1. stored # <<>> /\ Conversations(stored, usedIds, Len(requests)) /\ OneUnfinished(stored)
    BY DEF ChatInv
  <2>2. Len(requests) \in Nat /\ Len(requests') \in Nat  BY DEF ChatInv, Types
  <2>3. Conversations(stored, usedIds', Len(requests'))  BY <2>1, <2>2, MoreRequests
  <2> QED  BY <2>1, <2>3
<1>3. PageShown'  BY DEF PageShown
<1> QED  BY <1>1, <1>2, <1>3 DEF ChatInv

\* Nothing is under way, and no message is unfinished.
LEMMA IdlePage ==
    ASSUME ChatInv, ~isGenerating
    PROVE  /\ Live = {} /\ controllerRef = None /\ requestRef = None /\ busyRef = FALSE
           /\ \A i \in DOMAIN sessions : \A j \in DOMAIN sessions[i].messages :
                 sessions[i].messages[j].status \notin Unfinished
<1>1. controllerRef = None /\ requestRef = None  BY DEF isGenerating
<1>2. Live = {controllerRef, requestRef} \ {None}  BY DEF ChatInv, BusyWhileLive
<1>3. Live = {}  BY <1>1, <1>2
<1>4. busyRef = FALSE  BY <1>3 DEF ChatInv, BusyWhileLive
<1>5. \A i \in DOMAIN sessions : \A j \in DOMAIN sessions[i].messages :
         sessions[i].messages[j].status \notin Unfinished
  BY <1>3 DEF ChatInv, AnswerInPlace
<1> QED  BY <1>1, <1>3, <1>4, <1>5

\* A step that only rearranges finished messages.
LEMMA PanelStep ==
    ASSUME ChatInv, mounted, ~isGenerating, UNCHANGED <<stored, mounted, requests, refs>>,
           usedIds \subseteq usedIds', usedIds' \in SUBSET SessionIds, activeId' \in SessionIds,
           Conversations(sessions', usedIds', Len(requests)),
           \E i \in DOMAIN sessions' : sessions'[i].id = activeId',
           \A k \in DOMAIN sessions' : \A l \in DOMAIN sessions'[k].messages :
              \E i \in DOMAIN sessions : \E j \in DOMAIN sessions[i].messages :
                 sessions'[k].messages[l] = sessions[i].messages[j]
    PROVE  ChatInv' /\ Keeps(sessions, sessions')
<1>1. /\ Live = {}
      /\ \A i \in DOMAIN sessions : \A j \in DOMAIN sessions[i].messages :
            sessions[i].messages[j].status \notin Unfinished
  BY IdlePage
<1>2. Live' = Live  BY DEF Live, Requests
<1>3. BusyWhileLive'  BY <1>2 DEF ChatInv, BusyWhileLive, refs
<1>4. Generations'  BY DEF ChatInv, Generations, Requests, refs
<1>5. /\ requests' \in Seq(Request) /\ Len(requests) <= Len(requests') /\ Len(requests') = Len(requests)
      /\ controllerRef' \in Nat /\ requestRef' \in Nat /\ busyRef' \in BOOLEAN
      /\ requestGeneration' \in Nat
  BY DEF ChatInv, Types, refs
<1>6. AnswerInPlace(sessions', activeId', Live')
  <2>1. \A k \in DOMAIN sessions' : \A l \in DOMAIN sessions'[k].messages :
           sessions'[k].messages[l].status \notin Unfinished
    BY <1>1
  <2> QED  BY <1>1, <1>2, <2>1 DEF AnswerInPlace
<1>7. \A r \in Live' : requests'[r].session = activeId'  BY <1>1, <1>2
<1>8. ChatInv'
  <2>1. mounted' = TRUE
    <3>1. mounted \in BOOLEAN  BY DEF ChatInv, Types
    <3> QED  BY <3>1
  <2> QED  BY <1>3, <1>4, <1>5, <1>6, <1>7, <2>1, PageStep
<1>9. Keeps(sessions, sessions')
  <2>1. Conversations(sessions, usedIds, Len(requests))  BY DEF ChatInv
  <2> QED  BY <2>1, OldOnly
<1> QED  BY <1>8, <1>9

\* The request that a click starts is the only one under way.
LEMMA RequestStarted ==
    ASSUME ChatInv, ~isGenerating, NEW stream \in BOOLEAN, sendChat(stream)
    PROVE  LET n == Len(requests) IN
           /\ requests' \in Seq(Request) /\ Len(requests') = n + 1 /\ n \in Nat
           /\ Live' = {n + 1} /\ requests'[n + 1].session = activeId
           /\ controllerRef' \in Nat /\ requestRef' \in Nat /\ busyRef' \in BOOLEAN
           /\ requestGeneration' \in Nat /\ BusyWhileLive' /\ Generations'
<1> DEFINE n == Len(requests)
           new == [session |-> activeId, stream |-> stream, generation |-> requestGeneration + 1,
                   phase |-> "fetch", aborted |-> FALSE, terminalChunk |-> FALSE]
           same == [q \in Requests |-> IF stream /\ q = controllerRef
                                       THEN [requests[q] EXCEPT !.aborted = TRUE] ELSE requests[q]]
<1>1. Live = {} /\ controllerRef = None /\ requestRef = None /\ busyRef = FALSE  BY IdlePage
<1>2. requests \in Seq(Request) /\ n \in Nat /\ requestGeneration \in Nat /\ activeId \in SessionIds
  BY DEF ChatInv, Types
<1>3. same = requests
  <2>1. \A q \in Requests : q # controllerRef  BY <1>1, <1>2 DEF Requests, None
  <2>2. same = [q \in 1..Len(requests) |-> requests[q]]  BY <2>1 DEF Requests
  <2>3. requests \in [1..Len(requests) -> Request]  BY <1>2, LenProperties
  <2>4. requests = [q \in 1..Len(requests) |-> requests[q]]  BY <2>3
  <2> QED  BY <2>2, <2>4
<1>4. /\ requests' = Append(same, new) /\ busyRef' = TRUE
      /\ requestGeneration' = requestGeneration + 1
      /\ controllerRef' = IF stream THEN n + 1 ELSE controllerRef
      /\ requestRef' = IF stream THEN requestRef ELSE n + 1
  BY <1>1 DEF sendChat
<1>5. requests' = Append(requests, new)  BY <1>3, <1>4
<1> HIDE DEF same
<1>6. /\ new \in Request /\ new.session = activeId /\ new.generation = requestGeneration + 1
      /\ new.phase = "fetch" /\ new.aborted = FALSE
  BY <1>2 DEF Request, Phases
<1> HIDE DEF new
<1>7. /\ requests' \in Seq(Request) /\ Len(requests') = n + 1 /\ requests'[n + 1] = new
      /\ \A q \in 1..n : requests'[q] = requests[q]
  BY <1>2, <1>5, <1>6
<1>8. Requests' = 1..(n + 1) /\ Requests = 1..n  BY <1>7 DEF Requests
<1> HIDE DEF n
<1>9. \A q \in 1..(n + 1) : q = n + 1 \/ q \in 1..n  BY <1>2
<1>10. n + 1 \in 1..(n + 1)  BY <1>2
<1>11. \A q \in 1..n : requests[q].aborted \/ requests[q].phase = "over"
  BY <1>1, <1>8 DEF Live
<1>12. Live' = {n + 1}
  <2>1. Live' = {q \in 1..(n + 1) : ~requests'[q].aborted /\ requests'[q].phase # "over"}
    BY <1>8 DEF Live
  <2>2. ~requests'[n + 1].aborted /\ requests'[n + 1].phase # "over"  BY <1>6, <1>7
  <2>3. \A q \in 1..n : requests'[q].aborted \/ requests'[q].phase = "over"  BY <1>7, <1>11
  <2> QED  BY <2>1, <2>2, <2>3, <1>9, <1>10
<1>13. BusyWhileLive'
  <2>1. {controllerRef', requestRef'} \ {None} = {n + 1}
    BY <1>1, <1>2, <1>4 DEF None, n
  <2>2. busyRef' = (Live' # {})  BY <1>4, <1>12
  <2> QED  BY <2>1, <2>2, <1>12 DEF BusyWhileLive
<1>14. Generations'
  <2> SUFFICES ASSUME NEW q \in 1..(n + 1), requests'[q].phase # "over"
               PROVE  IF requests'[q].aborted THEN requests'[q].generation < requestGeneration'
                                              ELSE requests'[q].generation = requestGeneration'
    BY <1>8 DEF Generations
  <2>1. CASE q = n + 1  BY <2>1, <1>4, <1>6, <1>7
  <2>2. CASE q \in 1..n
    <3>1. requests'[q] = requests[q] /\ requests[q].aborted  BY <2>2, <1>7, <1>11
    <3>2. requests[q].generation < requestGeneration
      BY <2>2, <3>1, <1>8 DEF ChatInv, Generations
    <3>3. requests[q].generation \in Nat
      <4>1. requests[q] \in Request  BY <1>2, <2>2 DEF n
      <4> QED  BY <4>1 DEF Request
    <3> QED  BY <3>1, <3>2, <3>3, <1>2, <1>4
  <2> QED  BY <2>1, <2>2, <1>9
<1>15. controllerRef' \in Nat /\ requestRef' \in Nat /\ busyRef' \in BOOLEAN /\ requestGeneration' \in Nat
  BY <1>1, <1>2, <1>4 DEF None, n
<1> QED  BY <1>2, <1>6, <1>7, <1>12, <1>13, <1>14, <1>15 DEF n

LEMMA StartStep ==
    ASSUME ChatInv, NEW stream \in BOOLEAN, NEW kept \in Seq(Message),
           \A j \in DOMAIN kept : \/ kept[j] = UserMessage
                                  \/ j \in DOMAIN Messages(activeId) /\ kept[j] = Messages(activeId)[j],
           startRequest(kept, stream)
    PROVE  ChatInv' /\ Keeps(sessions, sessions')
<1> DEFINE a == Position(activeId)
           n == Len(requests)
           m == LoadingMessage(n + 1)
           tt == Replaced(sessions, sessions[a].id, Append(kept, m))
<1>1. /\ mounted /\ ~isGenerating /\ sendChat(stream)
      /\ SetMessages(activeId, Append(kept, m)) /\ UNCHANGED <<activeId, usedIds, stored, mounted>>
  BY DEF startRequest
<1>2. /\ a \in DOMAIN sessions /\ sessions[a].id = activeId
      /\ \A i \in DOMAIN sessions : sessions[i].id = activeId => i = a
      /\ Messages(activeId) = sessions[a].messages
  BY <1>1, ActiveSession
<1> HIDE DEF a
<1>3. /\ requests' \in Seq(Request) /\ Len(requests') = n + 1 /\ n \in Nat
      /\ Live' = {n + 1} /\ requests'[n + 1].session = activeId
      /\ controllerRef' \in Nat /\ requestRef' \in Nat /\ busyRef' \in BOOLEAN
      /\ requestGeneration' \in Nat /\ BusyWhileLive' /\ Generations'
  BY <1>1, RequestStarted
<1>4. sessions \in Seq(Session) /\ Conversations(sessions, usedIds, n)  BY DEF ChatInv, Types
<1>5. sessions' = tt  BY <1>1, <1>2 DEF SetMessages, Replaced
<1>6. \A j \in DOMAIN kept : \/ kept[j] = UserMessage
                             \/ j \in DOMAIN sessions[a].messages /\ kept[j] = sessions[a].messages[j]
  BY <1>2
<1>7. /\ Conversations(tt, usedIds, n + 1)
      /\ DOMAIN tt = DOMAIN sessions
      /\ \A i \in DOMAIN sessions : tt[i].id = sessions[i].id
      /\ \A i \in DOMAIN sessions \ {a} : tt[i].messages = sessions[i].messages
      /\ tt[a].messages = Append(kept, m)
  BY <1>2, <1>3, <1>4, <1>6, AnswerAppended
<1> HIDE DEF tt
<1>8. /\ m \in Message /\ m.owner = n + 1 /\ m.from = "assistant" /\ m.status = "loading"
  BY <1>3 DEF LoadingMessage, Message, Statuses
<1> HIDE DEF m
<1>9. /\ tt[a].messages # <<>> /\ Len(tt[a].messages) = Len(kept) + 1
      /\ tt[a].messages[Len(kept) + 1] = m /\ DOMAIN tt[a].messages = 1..(Len(kept) + 1)
      /\ \A j \in 1..Len(kept) : tt[a].messages[j] = kept[j]
  BY <1>7, <1>8, AppendProperties
<1>10. Live = {} /\ \A i \in DOMAIN sessions : \A j \in DOMAIN sessions[i].messages :
                       sessions[i].messages[j].status \notin Unfinished
  BY <1>1, IdlePage
<1>11. UserMessage.owner = None /\ UserMessage.status = "none"  BY DEF UserMessage
\* Where the messages come from.
<1>12. ASSUME NEW k \in DOMAIN tt, NEW l \in DOMAIN tt[k].messages
       PROVE  \/ k = a /\ l = Len(tt[k].messages) /\ tt[k].messages[l] = m
              \/ tt[k].messages[l] = UserMessage
              \/ l \in DOMAIN sessions[k].messages /\ tt[k].messages[l] = sessions[k].messages[l]
  <2>1. CASE k # a  BY <2>1, <1>7
  <2>2. CASE k = a
    <3>0. Len(kept) \in Nat  OBVIOUS
    <3>1. l = Len(kept) + 1 \/ l \in 1..Len(kept)  BY <2>2, <3>0, <1>9
    <3>2. CASE l = Len(kept) + 1  BY <2>2, <3>2, <1>9
    <3>3. CASE l \in 1..Len(kept)
      <4>1. l \in DOMAIN kept /\ tt[a].messages[l] = kept[l]  BY <3>3, <1>9
      <4> QED  BY <2>2, <4>1, <1>6
    <3> QED  BY <3>1, <3>2, <3>3
  <2> QED  BY <2>1, <2>2
<1>13. AnswerInPlace(tt, activeId, {n + 1})
  <2>1. ASSUME NEW i \in DOMAIN tt, tt[i].id = activeId, NEW r \in {n + 1}
        PROVE  tt[i].messages # <<>> /\ Filling(tt[i].messages[Len(tt[i].messages)], r)
    <3>1. i = a  BY <2>1, <1>2, <1>7
    <3> QED  BY <3>1, <1>8, <1>9 DEF Filling, Unfinished
  <2>2. ASSUME NEW i \in DOMAIN tt, NEW j \in DOMAIN tt[i].messages,
               tt[i].messages[j].status \in Unfinished
        PROVE  tt[i].id = activeId /\ j = Len(tt[i].messages)
    <3>1. i = a /\ j = Len(tt[i].messages)
      BY <2>2, <1>7, <1>10, <1>11, <1>12 DEF Unfinished
    <3> QED  BY <3>1, <1>2, <1>7
  <2> QED  BY <2>1, <2>2 DEF AnswerInPlace
<1>14. Keeps(sessions, tt)
  <2>1. ASSUME NEW k \in DOMAIN tt, NEW l \in DOMAIN tt[k].messages
        PROVE  \/ tt[k].messages[l].owner \notin 1..n
               \/ \E i \in DOMAIN sessions : \E j \in DOMAIN sessions[i].messages :
                     /\ tt[k].messages[l].owner = sessions[i].messages[j].owner
                     /\ \/ tt[k].messages[l] = sessions[i].messages[j]
                        \/ sessions[i].messages[j].status # "cancelled"
    <3>1. CASE tt[k].messages[l] = m  BY <3>1, <1>3, <1>8
    <3>2. CASE tt[k].messages[l] = UserMessage  BY <3>2, <1>3, <1>11 DEF None
    <3>3. CASE l \in DOMAIN sessions[k].messages /\ tt[k].messages[l] = sessions[k].messages[l]
      BY <3>3, <1>7
    <3> QED  BY <3>1, <3>2, <3>3, <1>12
  <2> QED  BY <2>1, <1>4, OldOrOther
<1>15. ChatInv'
  <2>1. mounted' = TRUE
    <3>1. mounted \in BOOLEAN  BY DEF ChatInv, Types
    <3> QED  BY <3>1, <1>1
  <2>2. usedIds \subseteq usedIds' /\ usedIds' \in SUBSET SessionIds /\ activeId' \in SessionIds
        /\ activeId' = activeId /\ UNCHANGED stored
    BY <1>1 DEF ChatInv, Types
  <2>3. Len(requests) <= Len(requests')  BY <1>3
  <2>4. \A r \in Live' : requests'[r].session = activeId'  BY <1>3, <2>2
  <2>5. Conversations(sessions', usedIds', Len(requests'))  BY <1>1, <1>3, <1>5, <1>7
  <2>6. \E i \in DOMAIN sessions' : sessions'[i].id = activeId'  BY <1>2, <1>5, <1>7, <2>2
  <2>7. AnswerInPlace(sessions', activeId', Live')  BY <1>3, <1>5, <1>13, <2>2
  <2> QED  BY <1>3, <2>1, <2>2, <2>3, <2>4, <2>5, <2>6, <2>7, PageStep
<1> QED  BY <1>5, <1>14, <1>15

LEMMA SendStep ==
    ASSUME ChatInv, mounted, NEW stream \in BOOLEAN, sendMessage(stream)
    PROVE  ChatInv' /\ Keeps(sessions, sessions')
<1> DEFINE ms == Messages(activeId)
<1>1. ms \in Seq(Message)  BY ActiveSession
<1>2. UserMessage \in Message  BY DEF UserMessage, Message, Statuses, None
<1>3. startRequest(Append(ms, UserMessage), stream)  BY DEF sendMessage
<1> HIDE DEF ms
<1> DEFINE kept == Append(ms, UserMessage)
<1>4. /\ kept \in Seq(Message) /\ DOMAIN kept = 1..(Len(ms) + 1) /\ Len(ms) \in Nat
      /\ kept[Len(ms) + 1] = UserMessage /\ \A j \in 1..Len(ms) : kept[j] = ms[j]
  BY <1>1, <1>2
<1> HIDE DEF kept
<1>5. \A j \in DOMAIN kept : kept[j] = UserMessage \/ (j \in DOMAIN ms /\ kept[j] = ms[j])
  <2> SUFFICES ASSUME NEW j \in 1..(Len(ms) + 1)
               PROVE  kept[j] = UserMessage \/ (j \in DOMAIN ms /\ kept[j] = ms[j])
    BY <1>4
  <2>1. CASE j = Len(ms) + 1  BY <2>1, <1>4
  <2>2. CASE j # Len(ms) + 1
    <3>1. j \in 1..Len(ms) /\ DOMAIN ms = 1..Len(ms)  BY <2>2, <1>1, <1>4
    <3> QED  BY <3>1, <1>4
  <2> QED  BY <2>1, <2>2
<1>6. startRequest(kept, stream)  BY <1>3 DEF kept
<1> QED  BY <1>4, <1>5, <1>6, StartStep DEF ms

\* Keeping the first k messages of the conversation.
LEMMA PrefixStep ==
    ASSUME ChatInv, mounted, NEW stream \in BOOLEAN, NEW k \in Nat, k <= Len(Messages(activeId)),
           startRequest(SubSeq(Messages(activeId), 1, k), stream)
    PROVE  ChatInv' /\ Keeps(sessions, sessions')
<1> DEFINE ms == Messages(activeId)
           kept == SubSeq(ms, 1, k)
<1>1. ms \in Seq(Message)  BY ActiveSession
<1>2. startRequest(kept, stream)  OBVIOUS
<1>3. k <= Len(ms)  OBVIOUS
<1> HIDE DEF ms
<1>4. kept \in Seq(Message) /\ DOMAIN kept = 1..k /\ \A j \in 1..k : kept[j] = ms[j]
  BY <1>1, <1>3
<1>5. 1..k \subseteq DOMAIN ms  BY <1>1, <1>3
<1>6. \A j \in DOMAIN kept : kept[j] = UserMessage \/ (j \in DOMAIN ms /\ kept[j] = ms[j])
  BY <1>4, <1>5
<1> HIDE DEF kept
<1> QED  BY <1>2, <1>4, <1>6, StartStep DEF ms

LEMMA RegenerateStep ==
    ASSUME ChatInv, mounted, NEW stream \in BOOLEAN, NEW i \in DOMAIN Messages(activeId),
           regenerate(i, stream) \/ applyEdit(i, stream)
    PROVE  ChatInv' /\ Keeps(sessions, sessions')
<1> DEFINE ms == Messages(activeId)
<1>1. ms \in Seq(Message)  BY ActiveSession
<1>2. i \in 1..Len(ms) /\ Len(ms) \in Nat  BY <1>1
<1>3. i - 1 \in Nat /\ i \in Nat /\ i - 1 <= Len(ms) /\ i <= Len(ms)  BY <1>2
<1>4. CASE regenerate(i, stream)  BY <1>3, <1>4, PrefixStep DEF regenerate
<1>5. CASE applyEdit(i, stream)  BY <1>3, <1>5, PrefixStep DEF applyEdit
<1> QED  BY <1>4, <1>5

LEMMA DeleteMessageStep ==
    ASSUME ChatInv, NEW d \in DOMAIN Messages(activeId), deleteMessage(d)
    PROVE  ChatInv' /\ Keeps(sessions, sessions')
<1> DEFINE a == Position(activeId)
           n == Len(requests)
           tt == Replaced(sessions, sessions[a].id, RemoveAt(sessions[a].messages, d))
<1>1. /\ mounted /\ ~isGenerating /\ SetMessages(activeId, RemoveAt(Messages(activeId), d))
      /\ UNCHANGED <<activeId, usedIds, stored, mounted, requests, refs>>
  BY DEF deleteMessage
<1>2. /\ a \in DOMAIN sessions /\ sessions[a].id = activeId
      /\ Messages(activeId) = sessions[a].messages /\ d \in DOMAIN sessions[a].messages
  BY <1>1, ActiveSession
<1> HIDE DEF a
<1>3. sessions \in Seq(Session) /\ Conversations(sessions, usedIds, n) /\ n \in Nat
  BY DEF ChatInv, Types
<1>4. sessions' = tt  BY <1>1, <1>2 DEF SetMessages, Replaced
<1>5. /\ Conversations(tt, usedIds, n)
      /\ DOMAIN tt = DOMAIN sessions
      /\ \A i \in DOMAIN sessions : tt[i].id = sessions[i].id
      /\ \A i \in DOMAIN sessions : \A j \in DOMAIN tt[i].messages :
            \E l \in DOMAIN sessions[i].messages : tt[i].messages[j] = sessions[i].messages[l]
  BY <1>2, <1>3, MessageRemoved
<1> HIDE DEF tt
<1>6. usedIds \subseteq usedIds' /\ usedIds' \in SUBSET SessionIds /\ activeId' \in SessionIds
  BY <1>1 DEF ChatInv, Types
<1>7. Conversations(sessions', usedIds', n) /\ \E i \in DOMAIN sessions' : sessions'[i].id = activeId'
  BY <1>1, <1>2, <1>4, <1>5
<1>8. \A k \in DOMAIN sessions' : \A l \in DOMAIN sessions'[k].messages :
         \E i \in DOMAIN sessions : \E j \in DOMAIN sessions[i].messages :
            sessions'[k].messages[l] = sessions[i].messages[j]
  BY <1>4, <1>5
<1> QED  BY <1>1, <1>6, <1>7, <1>8, PanelStep

LEMMA SelectSessionStep ==
    ASSUME ChatInv, NEW id \in {sessions[i].id : i \in DOMAIN sessions}, selectSession(id)
    PROVE  ChatInv' /\ Keeps(sessions, sessions')
<1>1. /\ mounted /\ ~isGenerating /\ UNCHANGED <<stored, mounted, requests, refs>>
      /\ activeId' = id /\ sessions' = sessions /\ usedIds' = usedIds
  BY DEF selectSession, SessionPanel
<1>2. sessions \in Seq(Session) /\ Conversations(sessions, usedIds, Len(requests))
  BY DEF ChatInv, Types
<1>3. PICK i \in DOMAIN sessions : sessions[i].id = id  OBVIOUS
<1>4. usedIds \in SUBSET SessionIds /\ id \in usedIds
  BY <1>2, <1>3 DEF Conversations, ChatInv, Types
<1>5. usedIds \subseteq usedIds' /\ usedIds' \in SUBSET SessionIds /\ activeId' \in SessionIds
  BY <1>1, <1>4
<1>6. Conversations(sessions', usedIds', Len(requests))  BY <1>1, <1>2
<1>7. \E k \in DOMAIN sessions' : sessions'[k].id = activeId'  BY <1>1, <1>3
<1>8. \A k \in DOMAIN sessions' : \A l \in DOMAIN sessions'[k].messages :
         \E x \in DOMAIN sessions : \E j \in DOMAIN sessions[x].messages :
            sessions'[k].messages[l] = sessions[x].messages[j]
  BY <1>1
<1> QED  BY <1>1, <1>5, <1>6, <1>7, <1>8, PanelStep

LEMMA NewSessionStep ==
    ASSUME ChatInv, NEW id \in SessionIds \ usedIds, newSession(id)
    PROVE  ChatInv' /\ Keeps(sessions, sessions')
<1> DEFINE tt == <<createSession(id)>> \o sessions
<1>1. /\ mounted /\ ~isGenerating /\ UNCHANGED <<stored, mounted, requests, refs>>
      /\ activeId' = id /\ sessions' = tt /\ usedIds' = usedIds \cup {id}
  BY DEF newSession, SessionPanel
<1>2. /\ sessions \in Seq(Session) /\ Conversations(sessions, usedIds, Len(requests))
      /\ usedIds \in SUBSET SessionIds
  BY DEF ChatInv, Types
<1>3. /\ Conversations(tt, usedIds \cup {id}, Len(requests))
      /\ tt # <<>> /\ tt[1] = createSession(id)
      /\ \A i \in DOMAIN tt \ {1} : \E k \in DOMAIN sessions : tt[i] = sessions[k]
  BY <1>2, SessionAdded
<1> HIDE DEF tt
<1>4. createSession(id).id = id /\ DOMAIN createSession(id).messages = {}  BY DEF createSession
<1>5. 1 \in DOMAIN tt
  <2>1. tt \in Seq(Session)  BY <1>3 DEF Conversations
  <2> QED  BY <1>3, <2>1
<1>6. usedIds \subseteq usedIds' /\ usedIds' \in SUBSET SessionIds /\ activeId' \in SessionIds
  BY <1>1, <1>2
<1>7. Conversations(sessions', usedIds', Len(requests)) /\ \E k \in DOMAIN sessions' : sessions'[k].id = activeId'
  BY <1>1, <1>3, <1>4, <1>5
<1>8. \A k \in DOMAIN sessions' : \A l \in DOMAIN sessions'[k].messages :
         \E x \in DOMAIN sessions : \E j \in DOMAIN sessions[x].messages :
            sessions'[k].messages[l] = sessions[x].messages[j]
  <2> SUFFICES ASSUME NEW k \in DOMAIN tt, NEW l \in DOMAIN tt[k].messages
               PROVE  \E x \in DOMAIN sessions : \E j \in DOMAIN sessions[x].messages :
                         tt[k].messages[l] = sessions[x].messages[j]
    BY <1>1
  <2>1. k # 1  BY <1>3, <1>4
  <2>2. PICK x \in DOMAIN sessions : tt[k] = sessions[x]  BY <2>1, <1>3
  <2> QED  BY <2>2
<1> QED  BY <1>1, <1>6, <1>7, <1>8, PanelStep

\* A page with one new session.
LEMMA FreshPage ==
    ASSUME ChatInv, NEW id \in SessionIds, SessionPanel,
           sessions' = <<createSession(id)>>, activeId' = id, usedIds' = usedIds \cup {id}
    PROVE  ChatInv' /\ Keeps(sessions, sessions')
<1> DEFINE tt == <<createSession(id)>>
<1>1. mounted /\ ~isGenerating /\ UNCHANGED <<stored, mounted, requests, refs>>
  BY DEF SessionPanel
<1>2. usedIds \in SUBSET SessionIds  BY DEF ChatInv, Types
<1>3. /\ Conversations(tt, usedIds \cup {id}, Len(requests))
      /\ tt # <<>> /\ DOMAIN tt = {1} /\ tt[1].id = id /\ DOMAIN tt[1].messages = {}
  BY <1>2, SessionAlone
<1>4. sessions' = tt  OBVIOUS
<1> HIDE DEF tt
<1>5. usedIds \subseteq usedIds' /\ usedIds' \in SUBSET SessionIds /\ activeId' \in SessionIds
  BY <1>2
<1>6. Conversations(sessions', usedIds', Len(requests)) /\ \E k \in DOMAIN sessions' : sessions'[k].id = activeId'
  BY <1>3, <1>4
<1>7. \A k \in DOMAIN sessions' : \A l \in DOMAIN sessions'[k].messages :
         \E x \in DOMAIN sessions : \E j \in DOMAIN sessions[x].messages :
            sessions'[k].messages[l] = sessions[x].messages[j]
  BY <1>3, <1>4
<1> QED  BY <1>1, <1>5, <1>6, <1>7, PanelStep

LEMMA ClearSessionsStep ==
    ASSUME ChatInv, NEW id \in SessionIds \ usedIds, clearSessions(id)
    PROVE  ChatInv' /\ Keeps(sessions, sessions')
BY FreshPage DEF clearSessions

LEMMA DeleteSessionStep ==
    ASSUME ChatInv, NEW id \in {sessions[i].id : i \in DOMAIN sessions},
           NEW fresh \in IF Len(sessions) = 1 THEN SessionIds \ usedIds ELSE {None},
           deleteSession(id, fresh)
    PROVE  ChatInv' /\ Keeps(sessions, sessions')
<1> DEFINE d == Position(id)
           rest == RemoveAt(sessions, d)
<1>1. /\ sessions \in Seq(Session) /\ Conversations(sessions, usedIds, Len(requests))
      /\ usedIds \in SUBSET SessionIds /\ activeId \in SessionIds
  BY DEF ChatInv, Types
<1>2. d \in DOMAIN sessions /\ sessions[d].id = id
  <2>1. \E i \in DOMAIN sessions : sessions[i].id = id  OBVIOUS
  <2> QED  BY <2>1 DEF Position
<1>3. /\ SessionPanel /\ mounted /\ ~isGenerating /\ UNCHANGED <<stored, mounted, requests, refs>>
      /\ sessions' = IF rest = <<>> THEN <<createSession(fresh)>> ELSE rest
      /\ activeId' = IF activeId = id
                     THEN (IF rest = <<>> THEN <<createSession(fresh)>> ELSE rest)[1].id
                     ELSE activeId
      /\ usedIds' = IF rest = <<>> THEN usedIds \cup {fresh} ELSE usedIds
  BY DEF deleteSession, SessionPanel
<1> HIDE DEF d
<1>4. /\ Conversations(rest, usedIds, Len(requests))
      /\ Len(rest) = Len(sessions) - 1
      /\ \A i \in DOMAIN rest : \E k \in DOMAIN sessions \ {d} : rest[i] = sessions[k]
      /\ \A k \in DOMAIN sessions \ {d} : \E i \in DOMAIN rest : rest[i] = sessions[k]
  BY <1>1, <1>2, SessionRemoved
<1> HIDE DEF rest
<1>5. rest \in Seq(Session)  BY <1>4 DEF Conversations
<1>6. PICK a \in DOMAIN sessions : sessions[a].id = activeId
  BY <1>3 DEF ChatInv, PageShown
<1>7. CASE rest = <<>>
  <2>1. Len(sessions) = 1  BY <1>1, <1>4, <1>7
  <2>2. fresh \in SessionIds  BY <2>1
  <2>3. activeId = id
    <3>1. DOMAIN sessions = {1}  BY <1>1, <2>1
    <3> QED  BY <1>2, <1>6, <3>1
  <2>4. <<createSession(fresh)>>[1].id = fresh  BY DEF createSession
  <2>5. sessions' = <<createSession(fresh)>> /\ activeId' = fresh /\ usedIds' = usedIds \cup {fresh}
    BY <1>3, <1>7, <2>3, <2>4
  <2> QED  BY <1>3, <2>2, <2>5, FreshPage
<1>8. CASE rest # <<>>
  <2>1. sessions' = rest /\ usedIds' = usedIds /\ activeId' = IF activeId = id THEN rest[1].id ELSE activeId
    BY <1>3, <1>8
  <2>2. \E i \in DOMAIN rest : rest[i].id = activeId'
    <3>1. CASE activeId = id
      <4>1. 1 \in DOMAIN rest  BY <1>5, <1>8
      <4> QED  BY <2>1, <3>1, <4>1
    <3>2. CASE activeId # id
      <4>1. a \in DOMAIN sessions \ {d}  BY <1>2, <1>6, <3>2
      <4> QED  BY <1>4, <1>6, <2>1, <3>2, <4>1
    <3> QED  BY <3>1, <3>2
  <2>3. activeId' \in SessionIds
    <3>1. PICK i \in DOMAIN rest : rest[i].id = activeId'  BY <2>2
    <3>2. rest[i].id \in usedIds  BY <1>4 DEF Conversations
    <3> QED  BY <1>1, <3>1, <3>2
  <2>4. usedIds \subseteq usedIds' /\ usedIds' \in SUBSET SessionIds  BY <1>1, <2>1
  <2>5. Conversations(sessions', usedIds', Len(requests)) /\ \E k \in DOMAIN sessions' : sessions'[k].id = activeId'
    BY <1>4, <2>1, <2>2
  <2>6. \A k \in DOMAIN sessions' : \A l \in DOMAIN sessions'[k].messages :
           \E x \in DOMAIN sessions : \E j \in DOMAIN sessions[x].messages :
              sessions'[k].messages[l] = sessions[x].messages[j]
    <3> SUFFICES ASSUME NEW k \in DOMAIN rest, NEW l \in DOMAIN rest[k].messages
                 PROVE  \E x \in DOMAIN sessions : \E j \in DOMAIN sessions[x].messages :
                           rest[k].messages[l] = sessions[x].messages[j]
      BY <2>1
    <3>1. PICK x \in DOMAIN sessions : rest[k] = sessions[x]  BY <1>4
    <3> QED  BY <3>1
  <2> QED  BY <1>3, <2>3, <2>4, <2>5, <2>6, PanelStep
<1> QED  BY <1>7, <1>8

\* Stop aborts some requests.
AbortedIn(rs, S) ==
    [q \in 1..Len(rs) |-> IF q \in S THEN [rs[q] EXCEPT !.aborted = TRUE] ELSE rs[q]]

LEMMA RequestsAborted ==
    ASSUME NEW rs \in Seq(Request), NEW S, NEW ts, ts = AbortedIn(rs, S)
    PROVE  /\ ts \in Seq(Request) /\ Len(ts) = Len(rs)
           /\ \A q \in 1..Len(rs) :
                 /\ ts[q].session = rs[q].session /\ ts[q].generation = rs[q].generation
                 /\ ts[q].aborted = (rs[q].aborted \/ q \in S)
                 /\ ts[q].phase = rs[q].phase
<1>1. Len(rs) \in Nat /\ \A q \in 1..Len(rs) : rs[q] \in Request  OBVIOUS
<1>2. ASSUME NEW q \in 1..Len(rs)
      PROVE  /\ ts[q] \in Request
             /\ ts[q].session = rs[q].session /\ ts[q].generation = rs[q].generation
             /\ ts[q].aborted = (rs[q].aborted \/ q \in S)
             /\ ts[q].phase = rs[q].phase
  <2>1. rs[q] \in Request  BY <1>1
  <2>2. CASE q \in S
    <3>1. ts[q] = [rs[q] EXCEPT !.aborted = TRUE]  BY <2>2 DEF AbortedIn
    <3> QED  BY <2>1, <2>2, <3>1 DEF Request
  <2>3. CASE q \notin S
    <3>1. ts[q] = rs[q]  BY <2>3 DEF AbortedIn
    <3>2. rs[q].aborted \in BOOLEAN  BY <2>1 DEF Request
    <3> QED  BY <2>1, <2>3, <3>1, <3>2
  <2> QED  BY <2>2, <2>3
<1>3. ts \in [1..Len(rs) -> Request]
  <2>1. ts = [q \in 1..Len(rs) |-> ts[q]]  BY DEF AbortedIn
  <2> QED  BY <1>2, <2>1
<1>4. ts \in Seq(Request) /\ Len(ts) = Len(rs)  BY <1>1, <1>3
<1> QED  BY <1>2, <1>4

LEMMA StopStep ==
    ASSUME ChatInv, stopGeneration
    PROVE  ChatInv' /\ Keeps(sessions, sessions')
<1> DEFINE ms == Messages(activeId)
           old == Last(ms)
           m == IF old.status \in Unfinished THEN Ended(old, "cancelled") ELSE old
           S == {controllerRef, requestRef}
<1>1. /\ mounted /\ isGenerating
      /\ requests' = [q \in Requests |-> IF q \in S THEN [requests[q] EXCEPT !.aborted = TRUE]
                                                    ELSE requests[q]]
      /\ requestGeneration' = requestGeneration + 1
      /\ busyRef' = FALSE /\ controllerRef' = None /\ requestRef' = None
      /\ SetMessages(activeId, updateLastAssistantMessage(ms, m))
      /\ UNCHANGED <<activeId, usedIds, stored, mounted>>
  BY DEF stopGeneration
<1>2. requests \in Seq(Request) /\ Len(requests) \in Nat /\ requestGeneration \in Nat
  BY DEF ChatInv, Types
<1>3. Live = S \ {None} /\ Live # {}
  <2>1. Live = S \ {None}  BY DEF ChatInv, BusyWhileLive
  <2> QED  BY <1>1, <2>1 DEF isGenerating
<1>4. PICK r \in Live : TRUE  BY <1>3
<1>5. /\ r \in Nat /\ Live = {r} /\ ms # <<>> /\ Filling(ms[Len(ms)], r)
  BY <1>4, LiveRequest
<1>6. ms \in Seq(Message)  BY <1>1, ActiveSession
<1>7. old = ms[Len(ms)] /\ old \in Message /\ Filling(old, r)
  BY <1>5, <1>6 DEF Last
<1>8. old.by \subseteq {r}
  <2>1. Position(activeId) \in DOMAIN sessions /\ ms = sessions[Position(activeId)].messages
    BY <1>1, ActiveSession
  <2>2. Len(ms) \in DOMAIN ms  BY <1>5, <1>6
  <2>3. Proper(old, Len(requests))
    BY <2>1, <2>2, <1>7 DEF ChatInv, Conversations, AllProper
  <2> QED  BY <2>3, <1>7 DEF Proper, Filling
<1> HIDE DEF ms, old
<1>9. /\ m \in Message /\ m.from = "assistant" /\ m.owner = r /\ m.by \subseteq {r}
      /\ m.status \notin Unfinished
  <2>1. m = Ended(old, "cancelled")  BY <1>7 DEF Filling
  <2> HIDE DEF m
  <2> QED  BY <2>1, <1>7, <1>8 DEF Ended, Message, Statuses, Unfinished, Filling
<1> HIDE DEF m
<1>10. updateLastAssistantMessage(ms, m) = WithLast(ms, m)
  BY <1>5, <1>7 DEF updateLastAssistantMessage, WithLast, Filling, old
<1>11. sessions' = Replaced(sessions, activeId, WithLast(ms, m))
  BY <1>1, <1>10 DEF SetMessages, Replaced
<1>12. /\ Conversations(sessions', usedIds, Len(requests))
       /\ \E i \in DOMAIN sessions' : sessions'[i].id = activeId
       /\ AnswerInPlace(sessions', activeId, {})
       /\ Keeps(sessions, sessions')
  <2>1. (IF m.status \in Unfinished THEN {r} ELSE {}) = {}  BY <1>9
  <2> QED  BY <1>9, <1>11, <2>1, AnswerRewritten DEF ms
<1>13. Requests = 1..Len(requests)  BY DEF Requests
<1>14. /\ requests' \in Seq(Request) /\ Len(requests') = Len(requests)
       /\ \A q \in 1..Len(requests) :
             /\ requests'[q].session = requests[q].session
             /\ requests'[q].generation = requests[q].generation
             /\ requests'[q].aborted = (requests[q].aborted \/ q \in S)
             /\ requests'[q].phase = requests[q].phase
  <2>1. requests' = AbortedIn(requests, S)  BY <1>1, <1>13 DEF AbortedIn
  <2> HIDE DEF S
  <2> QED  BY <1>2, <2>1, RequestsAborted
<1>15. Requests' = 1..Len(requests)  BY <1>14 DEF Requests
<1>16. Live' = {}
  <2> SUFFICES ASSUME NEW q \in 1..Len(requests), ~requests'[q].aborted, requests'[q].phase # "over"
               PROVE  FALSE
    BY <1>15 DEF Live
  <2>1. ~requests[q].aborted /\ requests[q].phase # "over" /\ q \notin S  BY <1>14
  <2>2. q \in Live  BY <2>1, <1>13 DEF Live
  <2> QED  BY <2>1, <2>2, <1>3
<1>17. BusyWhileLive'  BY <1>1, <1>16 DEF BusyWhileLive
<1>18. Generations'
  <2> SUFFICES ASSUME NEW q \in 1..Len(requests), requests'[q].phase # "over"
               PROVE  requests'[q].aborted /\ requests'[q].generation < requestGeneration'
    BY <1>15 DEF Generations
  <2>1. requests'[q].aborted  BY <1>15, <1>16 DEF Live
  <2>2. requests[q].generation <= requestGeneration /\ requests[q].generation \in Nat
    <3>1. requests[q] \in Request  BY <1>2
    <3>2. requests[q].generation \in Nat  BY <3>1 DEF Request
    <3>3. requests[q].phase # "over"  BY <1>14
    <3>4. CASE requests[q].aborted
      BY <3>2, <3>3, <3>4, <1>2, <1>13 DEF ChatInv, Generations
    <3>5. CASE ~requests[q].aborted
      BY <3>2, <3>3, <3>5, <1>2, <1>13 DEF ChatInv, Generations
    <3> QED  BY <3>2, <3>4, <3>5
  <2>3. requestGeneration' = requestGeneration + 1  BY <1>1
  <2>4. requests'[q].generation = requests[q].generation  BY <1>14
  <2> QED  BY <2>1, <2>2, <2>3, <2>4, <1>2
<1>19. controllerRef' \in Nat /\ requestRef' \in Nat /\ busyRef' \in BOOLEAN /\ requestGeneration' \in Nat
  <2>1. requestGeneration' = requestGeneration + 1 /\ controllerRef' = None /\ requestRef' = None
    BY <1>1
  <2>2. busyRef' \in BOOLEAN  BY <1>1
  <2>3. requestGeneration' \in Nat  BY <2>1, <1>2
  <2>4. controllerRef' \in Nat /\ requestRef' \in Nat  BY <2>1 DEF None
  <2> QED  BY <2>2, <2>3, <2>4
<1>20. AnswerInPlace(sessions', activeId, Live') /\ \A q \in Live' : requests'[q].session = activeId
  BY <1>12, <1>16
<1>21. ChatInv'  BY <1>1, <1>12, <1>14, <1>17, <1>18, <1>19, <1>20, PageKept
<1> QED  BY <1>12, <1>21

\* What is saved can be repaired on load.
LEMMA SaveStep ==
    ASSUME ChatInv, saveSessions
    PROVE  ChatInv' /\ Keeps(sessions, sessions')
<1>1. /\ mounted /\ stored' = sessions /\ sessions' = sessions
      /\ UNCHANGED <<activeId, usedIds, mounted, requests, refs>>
  BY DEF saveSessions
<1>2. OneUnfinished(sessions)
  <2> SUFFICES ASSUME NEW i \in DOMAIN sessions,
                      NEW j \in DOMAIN sessions[i].messages, NEW k \in DOMAIN sessions[i].messages,
                      sessions[i].messages[j].status \in Unfinished,
                      sessions[i].messages[k].status \in Unfinished
               PROVE  j = k
    BY DEF OneUnfinished
  <2>1. j = Len(sessions[i].messages)  BY DEF ChatInv, AnswerInPlace
  <2>2. k = Len(sessions[i].messages)  BY DEF ChatInv, AnswerInPlace
  <2> QED  BY <2>1, <2>2
<1>3. sessions # <<>>
  <2>1. PICK i \in DOMAIN sessions : TRUE  BY <1>1 DEF ChatInv, PageShown
  <2> QED  BY <2>1
<1>4. Live' = Live  BY <1>1 DEF Live, Requests
<1>5. BusyWhileLive' /\ Generations'
  BY <1>1, <1>4 DEF ChatInv, BusyWhileLive, Generations, Requests, refs
<1>6. Types'  BY <1>1 DEF ChatInv, Types, refs
<1>7. PageShown'  BY <1>1 DEF ChatInv, PageShown
<1>8. /\ Conversations(sessions', usedIds', Len(requests'))
      /\ stored' # <<>> /\ Conversations(stored', usedIds', Len(requests')) /\ OneUnfinished(stored')
  BY <1>1, <1>2, <1>3 DEF ChatInv
<1>9. /\ AnswerInPlace(sessions', activeId', Live')
      /\ \A r \in Live' : requests'[r].session = activeId'
  BY <1>1, <1>4 DEF ChatInv
<1>10. ChatInv'  BY <1>5, <1>6, <1>7, <1>8, <1>9 DEF ChatInv
<1> QED  BY <1>1, <1>10, SameSessions

LEMMA UnmountStep ==
    ASSUME ChatInv, Unmount
    PROVE  ChatInv' /\ mounted' = FALSE
<1>1. /\ mounted' = FALSE /\ sessions' = <<>>
      /\ requests' = [q \in Requests |-> [requests[q] EXCEPT !.aborted = TRUE, !.phase = "over"]]
      /\ busyRef' = FALSE /\ controllerRef' = None /\ requestRef' = None /\ requestGeneration' = 0
      /\ UNCHANGED <<activeId, usedIds, stored>>
  BY DEF Unmount
<1>2. requests \in Seq(Request) /\ Len(requests) \in Nat /\ Requests = 1..Len(requests)
  BY DEF ChatInv, Types, Requests
<1>3. ASSUME NEW q \in 1..Len(requests)
      PROVE  requests'[q] \in Request /\ requests'[q].phase = "over"
  <2>1. requests[q] \in Request  BY <1>2
  <2>2. requests'[q] = [requests[q] EXCEPT !.aborted = TRUE, !.phase = "over"]  BY <1>1, <1>2
  <2> QED  BY <2>1, <2>2 DEF Request, Phases
<1>4. requests' \in [1..Len(requests) -> Request]
  <2>1. requests' = [q \in 1..Len(requests) |-> requests'[q]]  BY <1>1, <1>2
  <2> QED  BY <1>3, <2>1
<1>5. requests' \in Seq(Request) /\ Len(requests') = Len(requests)  BY <1>2, <1>4
<1>6. Requests' = 1..Len(requests)  BY <1>5 DEF Requests
<1>7. Live' = {}  BY <1>3, <1>6 DEF Live
<1>8. BusyWhileLive'  BY <1>1, <1>7 DEF BusyWhileLive
<1>9. Generations'  BY <1>3, <1>6 DEF Generations
<1>10. sessions' \in Seq(Session) /\ DOMAIN sessions' = {}
  <2>1. sessions' = <<>>  BY <1>1
  <2> QED  BY <2>1
<1>11. Types'  BY <1>1, <1>5, <1>10 DEF ChatInv, Types, None
<1>12. PageShown'  BY <1>1, <1>7 DEF PageShown
<1>13. Conversations(sessions', usedIds', Len(requests'))
  BY <1>10 DEF Conversations, UniqueIds, AllProper, UniqueOwners
<1>14. stored' # <<>> /\ Conversations(stored', usedIds', Len(requests')) /\ OneUnfinished(stored')
  BY <1>1, <1>5 DEF ChatInv
<1>15. AnswerInPlace(sessions', activeId', Live')  BY <1>10 DEF AnswerInPlace
<1>16. \A r \in Live' : requests'[r].session = activeId'  BY <1>7
<1> QED  BY <1>1, <1>8, <1>9, <1>11, <1>12, <1>13, <1>14, <1>15, <1>16 DEF ChatInv

LEMMA MountStep ==
    ASSUME ChatInv, Mount
    PROVE  ChatInv' /\ Keeps(sessions, sessions')
<1> DEFINE tt == [i \in DOMAIN stored |-> [stored[i] EXCEPT !.messages = sanitizeMessagesOnLoad(@)]]
<1>1. /\ ~mounted /\ mounted' = TRUE /\ sessions' = tt /\ activeId' = stored[1].id
      /\ UNCHANGED <<usedIds, stored, requests, refs>>
  BY DEF Mount
<1>2. /\ stored \in Seq(Session) /\ stored # <<>> /\ Conversations(stored, usedIds, Len(requests))
      /\ OneUnfinished(stored) /\ usedIds \in SUBSET SessionIds
  BY DEF ChatInv, Types
<1>3. /\ Conversations(tt, usedIds, Len(requests))
      /\ DOMAIN tt = DOMAIN stored
      /\ \A i \in DOMAIN stored : tt[i].id = stored[i].id
      /\ \A i \in DOMAIN stored : \A j \in DOMAIN tt[i].messages :
            tt[i].messages[j].status \notin Unfinished
  BY <1>2, SessionsLoaded
<1> HIDE DEF tt
<1>4. sessions = <<>> /\ Live = {}  BY <1>1 DEF ChatInv, PageShown
<1>5. Live' = {}  BY <1>1, <1>4 DEF Live, Requests
<1>6. BusyWhileLive'  BY <1>1, <1>4, <1>5 DEF ChatInv, BusyWhileLive, refs
<1>7. Generations'  BY <1>1 DEF ChatInv, Generations, Requests, refs
<1>8. 1 \in DOMAIN stored  BY <1>2
<1>9. activeId' \in SessionIds
  <2>1. stored[1].id \in usedIds  BY <1>2, <1>8 DEF Conversations
  <2> QED  BY <1>1, <1>2, <2>1
<1>10. \E i \in DOMAIN sessions' : sessions'[i].id = activeId'  BY <1>1, <1>3, <1>8
<1>11. AnswerInPlace(sessions', activeId', Live')  BY <1>1, <1>3, <1>5 DEF AnswerInPlace
<1>12. \A r \in Live' : requests'[r].session = activeId'  BY <1>5
<1>13. /\ requests' \in Seq(Request) /\ Len(requests) <= Len(requests')
       /\ controllerRef' \in Nat /\ requestRef' \in Nat /\ busyRef' \in BOOLEAN
       /\ requestGeneration' \in Nat /\ UNCHANGED stored
       /\ usedIds \subseteq usedIds' /\ usedIds' \in SUBSET SessionIds
  BY <1>1 DEF ChatInv, Types, refs
<1>14. Conversations(sessions', usedIds', Len(requests'))  BY <1>1, <1>3
<1>15. ChatInv'
  BY <1>1, <1>6, <1>7, <1>9, <1>10, <1>11, <1>12, <1>13, <1>14, PageStep
<1>16. Keeps(sessions, sessions')  BY <1>4 DEF Keeps
<1> QED  BY <1>15, <1>16

-----------------------------------------------------------------------------
LEMMA InitChat == Init => ChatInv
<1> SUFFICES ASSUME Init PROVE ChatInv  OBVIOUS
<1>1. PICK id \in SessionIds :
         /\ sessions = <<createSession(id)>> /\ activeId = id /\ usedIds = {id}
         /\ stored = sessions /\ mounted = TRUE /\ requests = <<>>
         /\ busyRef = FALSE /\ controllerRef = None /\ requestRef = None /\ requestGeneration = 0
  BY DEF Init
<1> DEFINE tt == <<createSession(id)>>
<1>2. {} \in SUBSET SessionIds /\ {} \cup {id} = {id}  OBVIOUS
<1>3. /\ Conversations(tt, {} \cup {id}, 0)
      /\ tt # <<>> /\ DOMAIN tt = {1} /\ tt[1].id = id /\ DOMAIN tt[1].messages = {}
  BY <1>2, SessionAlone
<1> HIDE DEF tt
<1>4. sessions = tt /\ stored = tt  BY <1>1 DEF tt
<1>5. requests \in Seq(Request) /\ Len(requests) = 0  BY <1>1
<1>6. Requests = {}  BY <1>5 DEF Requests
<1>7. Live = {}  BY <1>6 DEF Live
<1>8. BusyWhileLive  BY <1>1, <1>7 DEF BusyWhileLive
<1>9. Generations  BY <1>6 DEF Generations
<1>10. /\ Conversations(sessions, usedIds, Len(requests))
       /\ stored # <<>> /\ Conversations(stored, usedIds, Len(requests))
  BY <1>1, <1>2, <1>3, <1>4, <1>5
<1>11. Types
  <2>1. sessions \in Seq(Session) /\ stored \in Seq(Session)  BY <1>10 DEF Conversations
  <2>2. controllerRef \in Nat /\ requestRef \in Nat /\ requestGeneration \in Nat  BY <1>1 DEF None
  <2>3. mounted \in BOOLEAN /\ busyRef \in BOOLEAN  BY <1>1
  <2>4. activeId \in SessionIds /\ usedIds \in SUBSET SessionIds  BY <1>1
  <2> QED  BY <1>5, <2>1, <2>2, <2>3, <2>4 DEF Types
<1>12. OneUnfinished(stored)  BY <1>3, <1>4 DEF OneUnfinished
<1>13. PageShown  BY <1>1, <1>3, <1>4 DEF PageShown
<1>14. AnswerInPlace(sessions, activeId, Live)  BY <1>3, <1>4, <1>7 DEF AnswerInPlace
<1> QED  BY <1>7, <1>8, <1>9, <1>10, <1>11, <1>12, <1>13, <1>14 DEF ChatInv

\* One step of the page: the invariant, and what a cancelled answer becomes.
LEMMA ChatStep ==
    ASSUME ChatInv, Next
    PROVE  ChatInv' /\ (mounted' => Keeps(sessions, sessions'))
<1>1. ASSUME NEW r \in Requests, RequestStep(r)
      PROVE  ChatInv' /\ Keeps(sessions, sessions')
  <2>1. CASE Respond(r)  BY <2>1, RespondStep
  <2>2. CASE ErrorText(r)  BY <2>2, ErrorTextStep
  <2>3. CASE Finish(r)  BY <2>3, FinishStep
  <2>4. CASE Answer(r)  BY <2>4, AnswerStep
  <2>5. CASE Unwind(r)  BY <2>5, UnwindStep
  <2>6. ASSUME NEW events, NEW done \in BOOLEAN, Read(r, events, done)
        PROVE  ChatInv' /\ Keeps(sessions, sessions')
    BY <2>6, ReadStep
  <2> QED  BY <1>1, <2>1, <2>2, <2>3, <2>4, <2>5, <2>6 DEF RequestStep
<1>2. ASSUME UserStep
      PROVE  ChatInv' /\ Keeps(sessions, sessions')
  <2>1. ASSUME NEW stream \in BOOLEAN, mounted, sendMessage(stream)
        PROVE  ChatInv' /\ Keeps(sessions, sessions')
    BY <2>1, SendStep
  <2>2. ASSUME NEW stream \in BOOLEAN, mounted, NEW i \in DOMAIN Messages(activeId),
               regenerate(i, stream) \/ applyEdit(i, stream)
        PROVE  ChatInv' /\ Keeps(sessions, sessions')
    BY <2>2, RegenerateStep
  <2>3. ASSUME NEW i \in DOMAIN Messages(activeId), deleteMessage(i)
        PROVE  ChatInv' /\ Keeps(sessions, sessions')
    BY <2>3, DeleteMessageStep
  <2>4. CASE stopGeneration  BY <2>4, StopStep
  <2>5. ASSUME NEW id \in {sessions[i].id : i \in DOMAIN sessions}, selectSession(id)
        PROVE  ChatInv' /\ Keeps(sessions, sessions')
    BY <2>5, SelectSessionStep
  <2>6. ASSUME NEW fresh \in SessionIds \ usedIds, newSession(fresh) \/ clearSessions(fresh)
        PROVE  ChatInv' /\ Keeps(sessions, sessions')
    BY <2>6, NewSessionStep, ClearSessionsStep
  <2>7. ASSUME NEW id \in {sessions[i].id : i \in DOMAIN sessions},
               NEW fresh \in IF Len(sessions) = 1 THEN SessionIds \ usedIds ELSE {None},
               deleteSession(id, fresh)
        PROVE  ChatInv' /\ Keeps(sessions, sessions')
    BY <2>7, DeleteSessionStep
  <2> QED  BY <1>2, <2>1, <2>2, <2>3, <2>4, <2>5, <2>6, <2>7, Zenon DEF UserStep
<1>3. CASE saveSessions  BY <1>3, SaveStep
<1>4. CASE Unmount
  <2>1. ChatInv' /\ mounted' = FALSE  BY <1>4, UnmountStep
  <2> QED  BY <2>1
<1>5. CASE Mount  BY <1>5, MountStep
<1> QED  BY <1>1, <1>2, <1>3, <1>4, <1>5 DEF Next

LEMMA ChatStutter == ChatInv /\ UNCHANGED vars => ChatInv'
<1> SUFFICES ASSUME ChatInv, UNCHANGED vars PROVE ChatInv'  OBVIOUS
<1>1. UNCHANGED <<sessions, activeId, usedIds, stored, mounted, requests>> /\ UNCHANGED refs
  BY DEF vars
<1>2. UNCHANGED <<busyRef, controllerRef, requestRef, requestGeneration>>  BY <1>1 DEF refs
<1>3. Requests' = Requests /\ Live' = Live  BY <1>1 DEF Live, Requests
<1>4. Types' /\ PageShown'  BY <1>1, <1>2, <1>3 DEF ChatInv, Types, PageShown
<1>5. BusyWhileLive' /\ Generations'
  BY <1>1, <1>2, <1>3 DEF ChatInv, BusyWhileLive, Generations
<1> QED  BY <1>1, <1>3, <1>4, <1>5 DEF ChatInv

LEMMA ChatInvariant == Spec => []ChatInv
<1>1. ChatInv /\ [Next]_vars => ChatInv'  BY ChatStep, ChatStutter
<1> QED  BY InitChat, <1>1, PTL DEF Spec

LEMMA InvOwnAnswers == ChatInv => OwnAnswersOnly
<1> SUFFICES ASSUME ChatInv, NEW m \in AllMessages PROVE m.by \subseteq {m.owner}
  BY DEF OwnAnswersOnly
<1>1. PICK i \in DOMAIN sessions : m \in Range(sessions[i].messages)  BY DEF AllMessages
<1>2. PICK j \in DOMAIN sessions[i].messages : m = sessions[i].messages[j]  BY <1>1 DEF Range
<1>3. Proper(m, Len(requests))  BY <1>2 DEF ChatInv, Conversations, AllProper
<1> QED  BY <1>3 DEF Proper

\* An answer holds only text of the request that it was created for, whatever
\* arrives after Stop and whichever request is sent next (useChatHandler's
\* updates go to the last assistant message of the session).
THEOREM PlaygroundOwnAnswers == Spec => []OwnAnswersOnly
BY ChatInvariant, InvOwnAnswers, PTL

\* The busy flag, the stream's controller and the controller of the plain
\* request agree on the one request under way, however late stopped requests
\* run their finally blocks.
THEOREM PlaygroundBusy == Spec => []BusyWhileLive
<1>1. ChatInv => BusyWhileLive  BY DEF ChatInv
<1> QED  BY <1>1, ChatInvariant, PTL

LEMMA InvNoStuck == ChatInv => NoStuckAnswer
<1> SUFFICES ASSUME ChatInv, ~isGenerating, NEW m \in AllMessages PROVE m.status \notin Unfinished
  BY DEF NoStuckAnswer
<1>1. PICK i \in DOMAIN sessions : m \in Range(sessions[i].messages)  BY DEF AllMessages
<1>2. PICK j \in DOMAIN sessions[i].messages : m = sessions[i].messages[j]  BY <1>1 DEF Range
<1> QED  BY <1>2, IdlePage

\* When nothing is generated no message is loading or streaming, also after
\* the page was left at any moment and its sessions were loaded again: what
\* saveSessions writes has at most one message that sanitizeMessagesOnLoad
\* has to repair.
THEOREM PlaygroundNoStuckAnswer == Spec => []NoStuckAnswer
BY ChatInvariant, InvNoStuck, PTL

\* A cancelled answer is not touched by late chunks, by the end of its request
\* or by another request, as long as the page is shown.
THEOREM PlaygroundCancelledStays == Spec => CancelledStays
<1> DEFINE Stays == mounted' => \A m \in AllMessages, n \in AllMessages' :
                       m.status = "cancelled" /\ n.owner = m.owner => n = m
<1>1. Keeps(sessions, sessions') => Stays
  <2> SUFFICES ASSUME Keeps(sessions, sessions'), NEW m \in AllMessages, NEW n \in AllMessages',
                      m.status = "cancelled", n.owner = m.owner
               PROVE  n = m
    OBVIOUS
  <2>1. PICK i \in DOMAIN sessions : m \in Range(sessions[i].messages)  BY DEF AllMessages
  <2>2. PICK j \in DOMAIN sessions[i].messages : m = sessions[i].messages[j]  BY <2>1 DEF Range
  <2>3. PICK k \in DOMAIN sessions' : n \in Range(sessions'[k].messages)  BY DEF AllMessages
  <2>4. PICK l \in DOMAIN sessions'[k].messages : n = sessions'[k].messages[l]  BY <2>3 DEF Range
  <2> QED  BY <2>2, <2>4 DEF Keeps
<1>2. ChatInv /\ [Next]_vars => [Stays]_vars
  <2>1. ASSUME ChatInv, Next PROVE Stays
    <3>1. CASE mounted'  BY <2>1, <3>1, <1>1, ChatStep
    <3>2. CASE ~mounted'  BY <3>2
    <3> QED  BY <3>1, <3>2
  <2> QED  BY <2>1
<1> QED  BY <1>2, ChatInvariant, PTL DEF Spec, CancelledStays
=============================================================================
