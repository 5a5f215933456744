--------------------------- MODULE PlaygroundChat ---------------------------
(***************************************************************************)
(* The chat playground of the web interface: useChatHandler,               *)
(* useStreamRequest and usePlaygroundState.  A click starts a request; its *)
(* answer arrives in later tasks of the event loop (response, chunks, end) *)
(* while the user may stop it, start another, change sessions or leave the *)
(* page.  Every update goes to the last assistant message of the session   *)
(* the request was started in.  Sessions are saved to localStorage by a    *)
(* React effect some time after they change.                               *)
(*                                                                         *)
(* A request is its AbortController.  A message is known by the request    *)
(* that created it (owner) and the requests that wrote into it (by).       *)
(***************************************************************************)
EXTENDS Naturals, Sequences, SequencesExt

CONSTANTS SessionIds,   \* ids handed out by createSession
          MaxRequests,  \* requests the user sends
          MaxMessages   \* length of a conversation

ASSUME PlaygroundAssumption ==
    SessionIds # {} /\ MaxRequests \in Nat /\ MaxMessages \in Nat

VARIABLES sessions,   \* the sessions state, newest first
          activeId,
          usedIds,    \* ids handed out so far
          stored,     \* what localStorage holds
          mounted,
          requests,   \* every request sent, in order
          busyRef, controllerRef, requestRef, requestGeneration

refs == <<busyRef, controllerRef, requestRef, requestGeneration>>
vars == <<sessions, activeId, usedIds, stored, mounted, requests, refs>>

None == 0
Requests == 1..Len(requests)
Unfinished == {"loading", "streaming"}

UserMessage == [from |-> "user", status |-> "none", owner |-> None, by |-> {}]
LoadingMessage(r) == [from |-> "assistant", status |-> "loading", owner |-> r, by |-> {}]

createSession(id) == [id |-> id, messages |-> <<>>]

Init ==
    \E id \in SessionIds :
        /\ sessions = <<createSession(id)>> /\ activeId = id /\ usedIds = {id}
        /\ stored = sessions /\ mounted = TRUE /\ requests = <<>>
        /\ busyRef = FALSE /\ controllerRef = None /\ requestRef = None
        /\ requestGeneration = 0

isGenerating == controllerRef # None \/ requestRef # None

\* The session with an id; ids are unique.
Position(id) == CHOOSE i \in DOMAIN sessions : sessions[i].id = id
Messages(id) == sessions[Position(id)].messages

-----------------------------------------------------------------------------
\* usePlaygroundState.updateMessages, bound to one session.
SetMessages(id, messages) ==
    sessions' = [i \in DOMAIN sessions |->
                   IF sessions[i].id = id THEN [sessions[i] EXCEPT !.messages = messages]
                                          ELSE sessions[i]]

\* The last message is replaced by what became of it, if it is an answer.
updateLastAssistantMessage(messages, updated) ==
    IF messages = <<>> \/ Last(messages).from # "assistant" THEN messages
    ELSE [messages EXCEPT ![Len(messages)] = updated]

\* What an answer does to its message: text arrives, it ends, it fails.
Wrote(m, r) == [m EXCEPT !.status = "streaming", !.by = @ \cup {r}]
Ended(m, status) == [m EXCEPT !.status = status]

Going == "none"
Effect(m, r, wrote, end) ==
    LET w == IF wrote THEN Wrote(m, r) ELSE m
    IN  IF end = Going THEN w ELSE Ended(w, end)

Apply(r, wrote, end) ==
    LET id == requests[r].session
    IN  SetMessages(id, updateLastAssistantMessage(Messages(id),
                            Effect(Last(Messages(id)), r, wrote, end)))

\* sendChat and, for a streamed answer, sendStreamRequest up to the first await.
sendChat(stream) ==
    LET r == Len(requests) + 1
    IN  IF busyRef THEN UNCHANGED <<requests, refs>>
        ELSE /\ requests' = Append(
                   [q \in Requests |-> IF stream /\ q = controllerRef
                                       THEN [requests[q] EXCEPT !.aborted = TRUE] ELSE requests[q]],
                   [session |-> activeId, stream |-> stream, generation |-> requestGeneration + 1,
                    phase |-> "fetch", aborted |-> FALSE, terminalChunk |-> FALSE])
             /\ busyRef' = TRUE
             /\ requestGeneration' = requestGeneration + 1
             /\ controllerRef' = IF stream THEN r ELSE controllerRef
             /\ requestRef' = IF stream THEN requestRef ELSE r

\* Sending, regenerating an answer and resubmitting an edited question: each
\* keeps a prefix of the conversation and adds a placeholder for the answer.
startRequest(kept, stream) ==
    /\ mounted /\ ~isGenerating
    /\ Len(requests) < MaxRequests /\ Len(kept) < MaxMessages
    /\ SetMessages(activeId, Append(kept, LoadingMessage(Len(requests) + 1)))
    /\ sendChat(stream)
    /\ UNCHANGED <<activeId, usedIds, stored, mounted>>

sendMessage(stream) == startRequest(Append(Messages(activeId), UserMessage), stream)

regenerate(i, stream) ==
    /\ Messages(activeId)[i].from = "assistant"
    /\ startRequest(SubSeq(Messages(activeId), 1, i - 1), stream)

applyEdit(i, stream) ==
    /\ Messages(activeId)[i].from = "user"
    /\ startRequest(SubSeq(Messages(activeId), 1, i), stream)

deleteMessage(i) ==
    /\ mounted /\ ~isGenerating
    /\ SetMessages(activeId, RemoveAt(Messages(activeId), i))
    /\ UNCHANGED <<activeId, usedIds, stored, mounted, requests, refs>>

-----------------------------------------------------------------------------
\* Variant: the last request to end clears the flag whoever holds it.
FinallyAlways(r) ==
    /\ controllerRef' = IF controllerRef = r THEN None ELSE controllerRef
    /\ requestRef' = IF requestRef = r THEN None ELSE requestRef
    /\ busyRef' = FALSE
    /\ UNCHANGED requestGeneration

\* The finally blocks, innermost first, which run when the request is over.
Finally(r) ==
    /\ controllerRef' = IF controllerRef = r THEN None ELSE controllerRef
    /\ requestRef' = IF requestRef = r THEN None ELSE requestRef
    /\ busyRef' = (busyRef /\ requests[r].generation # requestGeneration)
    /\ UNCHANGED requestGeneration

Goto(r, phase) == requests' = [requests EXCEPT ![r].phase = phase]
Over(r) == Goto(r, "over") /\ Finally(r)

onError(r) == Apply(r, FALSE, "error") /\ Over(r)
onComplete(r) == Apply(r, FALSE, "complete") /\ Over(r)

\* Variant: the signal is not looked at after an await.
AwaitsUnchecked(r, phase) == mounted /\ requests[r].phase = phase

\* The continuation of an await, which returns at once when the signal is set.
Awaits(r, phase) == mounted /\ requests[r].phase = phase /\ ~requests[r].aborted

\* The headers arrive.  An error status has a body to read first, a body
\* without stream or a failed connection is an error at once.
Respond(r) ==
    /\ Awaits(r, "fetch") /\ requests[r].stream
    /\ \/ Goto(r, "reading") /\ UNCHANGED <<sessions, refs>>
       \/ Goto(r, "text") /\ UNCHANGED <<sessions, refs>>
       \/ onError(r)
    /\ UNCHANGED <<activeId, usedIds, stored, mounted>>

ErrorText(r) ==
    /\ Awaits(r, "text")
    /\ onError(r)
    /\ UNCHANGED <<activeId, usedIds, stored, mounted>>

\* The server-sent events that one read delivers: text, a chunk with usage or
\* a finish reason, [DONE], an error or something that does not parse.
Events == {"content", "terminal", "done", "bad"}
Processed(events) ==
    IF Contains(events, "bad")
    THEN SubSeq(events, 1, SelectInSeq(events, LAMBDA e : e = "bad") - 1)
    ELSE events

\* reader.read() answers and its events are processed.  A body that ends
\* without [DONE] or a terminal chunk is an interrupted answer.
Read(r, events, done) ==
    LET seen == Processed(events)
        terminal == requests[r].terminalChunk \/ Contains(seen, "terminal")
        failed == \/ Contains(events, "bad")
                  \/ done /\ ~Contains(seen, "done") /\ ~terminal
    IN  /\ Awaits(r, "reading")
        /\ Apply(r, Contains(seen, "content"), IF failed THEN "error" ELSE Going)
        /\ \/ failed /\ Over(r)
           \/ /\ ~failed
              /\ requests' = [requests EXCEPT ![r].terminalChunk = terminal,
                                 ![r].phase = IF done \/ Contains(seen, "done")
                                              THEN "cancel" ELSE "reading"]
              /\ UNCHANGED refs
        /\ UNCHANGED <<activeId, usedIds, stored, mounted>>

\* reader.cancel() answers or fails.
Finish(r) ==
    /\ Awaits(r, "cancel")
    /\ onComplete(r) \/ onError(r)
    /\ UNCHANGED <<activeId, usedIds, stored, mounted>>

\* The whole answer of a request that is not streamed.
Answer(r) ==
    /\ Awaits(r, "fetch") /\ ~requests[r].stream
    /\ \/ Apply(r, TRUE, "complete") /\ Over(r)
       \/ onError(r)
    /\ UNCHANGED <<activeId, usedIds, stored, mounted>>

\* What a request awaited fails or arrives after the abort: it only unwinds.
Unwind(r) ==
    /\ mounted /\ requests[r].aborted /\ requests[r].phase # "over"
    /\ Over(r)
    /\ UNCHANGED <<sessions, activeId, usedIds, stored, mounted>>

stopGeneration ==
    /\ mounted /\ isGenerating
    /\ requests' = [q \in Requests |-> IF q \in {controllerRef, requestRef}
                                       THEN [requests[q] EXCEPT !.aborted = TRUE] ELSE requests[q]]
    /\ requestGeneration' = requestGeneration + 1
    /\ busyRef' = FALSE /\ controllerRef' = None /\ requestRef' = None
    /\ LET m == Last(Messages(activeId))
       IN  SetMessages(activeId, updateLastAssistantMessage(Messages(activeId),
               IF m.status \in Unfinished THEN Ended(m, "cancelled") ELSE m))
    /\ UNCHANGED <<activeId, usedIds, stored, mounted>>

-----------------------------------------------------------------------------
\* The session panel, disabled while an answer is generated.
SessionPanel ==
    /\ mounted /\ ~isGenerating
    /\ UNCHANGED <<stored, mounted, requests, refs>>

selectSession(id) ==
    /\ SessionPanel
    /\ id # activeId
    /\ activeId' = id
    /\ UNCHANGED <<sessions, usedIds>>

newSession(id) ==
    /\ SessionPanel
    /\ sessions' = <<createSession(id)>> \o sessions
    /\ activeId' = id /\ usedIds' = usedIds \cup {id}

\* The last session is replaced by a new one, which needs an id.
deleteSession(id, fresh) ==
    LET remaining == RemoveAt(sessions, Position(id))
        next == IF remaining = <<>> THEN <<createSession(fresh)>> ELSE remaining
    IN  /\ SessionPanel
        /\ sessions' = next
        /\ activeId' = IF activeId = id THEN next[1].id ELSE activeId
        /\ usedIds' = IF remaining = <<>> THEN usedIds \cup {fresh} ELSE usedIds

clearSessions(id) ==
    /\ SessionPanel
    /\ sessions' = <<createSession(id)>>
    /\ activeId' = id /\ usedIds' = usedIds \cup {id}

\* The effect that saves; a full localStorage refuses, which is no step.
saveSessions ==
    /\ mounted /\ stored # sessions
    /\ stored' = sessions
    /\ UNCHANGED <<sessions, activeId, usedIds, mounted, requests, refs>>

\* Leaving the page, a change of account or a 401: the component goes and its
\* effects abort what is under way; nothing awaited can update it any more.
Unmount ==
    /\ mounted
    /\ mounted' = FALSE /\ sessions' = <<>>
    /\ requests' = [q \in Requests |-> [requests[q] EXCEPT !.aborted = TRUE, !.phase = "over"]]
    /\ busyRef' = FALSE /\ controllerRef' = None /\ requestRef' = None
    /\ requestGeneration' = 0
    /\ UNCHANGED <<activeId, usedIds, stored>>

\* Variant: only a message that never got text is repaired.
sanitizeLoadingOnly(messages) ==
    LET stuck == {i \in DOMAIN messages : messages[i].status = "loading"}
    IN  IF stuck = {} THEN messages
        ELSE [messages EXCEPT ![CHOOSE i \in stuck : \A j \in stuck : j <= i] = Ended(@, "error")]

\* The last unfinished message becomes cancelled, or an error when it is empty.
sanitizeMessagesOnLoad(messages) ==
    LET stuck == {i \in DOMAIN messages : messages[i].status \in Unfinished}
    IN  IF stuck = {} THEN messages
        ELSE [messages EXCEPT ![CHOOSE i \in stuck : \A j \in stuck : j <= i] =
                 Ended(@, IF @.by # {} THEN "cancelled" ELSE "error")]

Mount ==
    /\ ~mounted
    /\ mounted' = TRUE
    /\ sessions' = [i \in DOMAIN stored |->
                      [stored[i] EXCEPT !.messages = sanitizeMessagesOnLoad(@)]]
    /\ activeId' = stored[1].id
    /\ UNCHANGED <<usedIds, stored, requests, refs>>

-----------------------------------------------------------------------------
RequestStep(r) ==
    \/ Respond(r) \/ ErrorText(r) \/ Finish(r) \/ Answer(r) \/ Unwind(r)
    \/ \E events \in BoundedSeq(Events, 2), done \in BOOLEAN :
         (events # <<>> \/ done) /\ Read(r, events, done)

UserStep ==
    \/ \E stream \in BOOLEAN :
         mounted /\ ( \/ sendMessage(stream)
                      \/ \E i \in DOMAIN Messages(activeId) :
                           regenerate(i, stream) \/ applyEdit(i, stream))
    \/ mounted /\ \E i \in DOMAIN Messages(activeId) : deleteMessage(i)
    \/ stopGeneration
    \/ \E id \in {sessions[i].id : i \in DOMAIN sessions} : selectSession(id)
    \/ \E fresh \in SessionIds \ usedIds :
         newSession(fresh) \/ clearSessions(fresh)
    \/ \E id \in {sessions[i].id : i \in DOMAIN sessions},
         fresh \in IF Len(sessions) = 1 THEN SessionIds \ usedIds ELSE {None} :
         deleteSession(id, fresh)

Next == (\E r \in Requests : RequestStep(r)) \/ UserStep \/ saveSessions \/ Unmount \/ Mount

Spec == Init /\ [][Next]_vars

-----------------------------------------------------------------------------
AllMessages == UNION {Range(sessions[i].messages) : i \in DOMAIN sessions}

\* An answer holds only text of the request it was created for: chunks that
\* arrive after Stop never end up in the answer of the next request.
OwnAnswersOnly == \A m \in AllMessages : m.by \subseteq {m.owner}

\* The three ways the page knows that an answer is under way agree: there is
\* at most one request not aborted and not over, and the busy flag and the
\* controllers point to it, however late aborted requests unwind.
Live == {r \in Requests : ~requests[r].aborted /\ requests[r].phase # "over"}
BusyWhileLive ==
    /\ Live = {controllerRef, requestRef} \ {None}
    /\ \A r, q \in Live : r = q
    /\ busyRef = (Live # {})

\* When nothing is generated no answer is left loading or streaming, also
\* after the page was left at any moment and loaded again from storage.
NoStuckAnswer ==
    mounted /\ ~isGenerating => \A m \in AllMessages : m.status \notin Unfinished

\* A cancelled answer stays as it was when the user stopped it, until the
\* page is left.
CancelledStays ==
    [][mounted' => \A m \in AllMessages, n \in AllMessages' :
          m.status = "cancelled" /\ n.owner = m.owner => n = m]_vars
=============================================================================
