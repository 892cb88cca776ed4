------------------------------ MODULE WebClient ------------------------------
(***************************************************************************)
(* The chat store of the bundled web client (static/assets/                *)
(* index-DoZo4ydH.js: the Pinia store "chat" and streamChat, which reads   *)
(* the event stream of POST /api/v1/chat/{memory_id}) against the server.  *)
(*                                                                         *)
(* Answers are accumulated in a plain object and copied to the shown,      *)
(* reactive one by a timer; a finished answer moves to the list of         *)
(* messages.  Nothing ties an event, the end of a stream or a loaded       *)
(* history to the session on display or to the message last sent: what     *)
(* arrives is applied to whatever is there.                                *)
(*                                                                         *)
(* The server is what ChatStream shows of it: once it is done with a turn, *)
(* it has stored it or has failed to.  It may be ahead of the client, and  *)
(* it may never be done: with an agent that does not end, or behind a      *)
(* session lock that was never released.  How much is stored of a turn     *)
(* that was cut short is left out.                                         *)
(*                                                                         *)
(* Text is left out: an answer is the positions of its events in the turn. *)
(* LLMEnd and ToolProgress only add text to what the other events show.    *)
(*                                                                         *)
(* A definition named Mut... is a variant of the one it precedes, with a   *)
(* plausible bug; no specification uses it.                                *)
(***************************************************************************)
EXTENDS Naturals, Sequences, FiniteSets, SequencesExt

CONSTANTS Sessions,  \* the sessions there are or can be created
          Turn,      \* the events of a turn without an error, in order
          CallOf,    \* the ToolStart of the tool call that a ToolEnd ends
          MaxSends,  \* bound on the messages sent
          MaxLoads,  \* bound on the histories under way
          None

ASSUME SessionsAssumption == None \notin Sessions
ASSUME TurnAssumption ==
  /\ Turn \in Seq({"LLMChunk", "ToolStart", "ToolEnd", "AgentEnd"}) /\ Len(Turn) > 0
  /\ \A i \in 1..Len(Turn) : Turn[i] = "AgentEnd" <=> i = Len(Turn)
\* Tool calls may run side by side; each that starts also ends.
ASSUME CallOfAssumption ==
  \A i \in 1..Len(Turn) :
    /\ Turn[i] = "ToolEnd" => CallOf[i] \in 1..(i - 1) /\ Turn[CallOf[i]] = "ToolStart"
    /\ Turn[i] = "ToolStart" => \E j \in 1..Len(Turn) : Turn[j] = "ToolEnd" /\ CallOf[j] = i
ASSUME BoundsAssumption == MaxSends \in Nat /\ MaxLoads \in Nat

VARIABLES
  \* the chat store
  currentSessionId, messages,
  shown,       \* streaming, the reactive copy
  acc,         \* the accumulator behind it
  shared,      \* the tool calls of both are the same array
  timer,       \* a flush is scheduled
  controller,  \* the AbortController at hand: the stream it aborts
  \* the fetches, in the order they were started
  streams,     \* the chats: their session, and what became of the connection
  loads,       \* the histories under way: their session, and the answer
  \* the server
  remaining,   \* the events of a turn that have not reached the client
  turn,        \* what became of a turn
  stored,      \* the turns stored in a session
  \* history variables
  disturbed,   \* turns of which an event was lost, or that were cancelled,
               \* failed, or sent before an older stream was closed
  astray,      \* something was under way when another session was displayed,
               \* or a history when a message was sent
  missing      \* the history of the displayed session could not be loaded

display == <<currentSessionId, messages, shown, acc, shared, timer, controller>>
server == <<remaining, turn, stored>>
ghosts == <<disturbed, astray, missing>>
vars == <<display, streams, loads, server, ghosts>>

Sent == DOMAIN streams
IsOpen(s) == streams[s].state = "open"
Latest == Len(streams)

\* ms(): an answer without anything yet.
Nothing == [content |-> << >>, calls |-> << >>, isStreaming |-> FALSE]

Init ==
  /\ currentSessionId = None /\ messages = << >>
  /\ shown = Nothing /\ acc = Nothing /\ shared = FALSE
  /\ timer = FALSE /\ controller = 0
  /\ streams = << >> /\ loads = {}
  /\ remaining = << >> /\ turn = << >>
  /\ stored = [m \in Sessions |-> << >>]
  /\ disturbed = {} /\ astray = FALSE /\ missing = FALSE

UserMessage(s) == [role |-> "user", by |-> s, content |-> << >>, calls |-> << >>]
Answer(a) == [role |-> "assistant", by |-> 0, content |-> a.content, calls |-> a.calls]
Stopped(a) == [a EXCEPT !.isStreaming = FALSE]

-----------------------------------------------------------------------------
(* The parts the handlers are made of *)

\* b(): the shown copy has the text so far, and the arrays of the accumulator.
MutFlushedCopiesArrays == shown' = acc /\ shared' = FALSE
Flushed == shown' = acc /\ shared' = TRUE

\* v() and k() in a row: the timer is off, and the answer is a message.
Finalised ==
  /\ timer' = FALSE
  /\ messages' = Append(messages, Answer(acc))
  /\ acc' = Nothing /\ shown' = Nothing /\ shared' = FALSE

\* v(), and nothing is streaming any more.
MutStoppedBeforeFlushed == timer' = FALSE /\ shown' = acc /\ acc' = Stopped(acc) /\ shared' = TRUE
FlushedAndStopped ==
  /\ timer' = FALSE
  /\ shown' = Stopped(acc) /\ acc' = Stopped(acc) /\ shared' = TRUE

Untouched == UNCHANGED <<messages, shown, acc, shared, timer>>

\* Another session, or none, is displayed.
Displayed(m, list) ==
  /\ currentSessionId' = m
  /\ messages' = list
  /\ astray' = (astray \/ loads # {} \/ \E s \in Sent : IsOpen(s))
  /\ missing' = FALSE

-----------------------------------------------------------------------------
(* What the user does *)

\* sendMessage, behind the button that sends unless something is streaming.
sendMessage ==
  LET s == Latest + 1 IN
  /\ ~shown.isStreaming /\ currentSessionId # None /\ s <= MaxSends
  /\ messages' = Append(messages, UserMessage(s))
  /\ acc' = [Nothing EXCEPT !.isStreaming = TRUE]
  /\ shown' = acc' /\ shared' = TRUE
  /\ timer' = TRUE
  /\ controller' = s
  /\ streams' = Append(streams, [session |-> currentSessionId, state |-> "open"])
  /\ remaining' = Append(remaining, Turn)
  /\ turn' = Append(turn, "running")
  /\ disturbed' = disturbed \union {r \in {s} : \E o \in Sent : IsOpen(o)}
  /\ astray' = (astray \/ loads # {})
  /\ UNCHANGED <<currentSessionId, loads, stored, missing>>

Abort(s) ==
  IF s # 0 /\ IsOpen(s)
  THEN /\ streams' = [streams EXCEPT ![s].state = "aborted"]
       /\ remaining' = [remaining EXCEPT ![s] = << >>]
       /\ disturbed' = disturbed \union {s}
  ELSE UNCHANGED <<streams, remaining, disturbed>>

\* cancelStream, behind the same button while something is streaming.  The
\* shown copy is not brought up to date.
cancelStream ==
  /\ shown.isStreaming
  /\ timer' = FALSE
  /\ Abort(controller)
  /\ controller' = 0
  /\ acc' = Stopped(acc) /\ shown' = Stopped(shown)
  /\ UNCHANGED <<currentSessionId, messages, shared, loads, turn, stored, astray, missing>>

\* selectSession: the history is asked for, and what streams goes on.
selectSession(m) ==
  /\ \E i \in (1..MaxLoads) \ {l.id : l \in loads} :
       loads' = loads \union {[id |-> i, session |-> m, turns |-> << >>, read |-> FALSE]}
  /\ Displayed(m, << >>)
  /\ UNCHANGED <<shown, acc, shared, timer, controller, streams, server, disturbed>>

\* newSession, once the server has created the session.
MutNewSessionKeepsMessages(m) ==
  /\ stored[m] = << >> /\ m # currentSessionId
  /\ \A s \in Sent : streams[s].session # m
  /\ Displayed(m, messages)
  /\ UNCHANGED <<shown, acc, shared, timer, controller, streams, loads, server, disturbed>>
newSession(m) ==
  /\ stored[m] = << >> /\ m # currentSessionId
  /\ \A s \in Sent : streams[s].session # m
  /\ Displayed(m, << >>)
  /\ UNCHANGED <<shown, acc, shared, timer, controller, streams, loads, server, disturbed>>

\* removeSession of the displayed one once it is deleted, selectScenario.
leaveSession ==
  /\ currentSessionId # None
  /\ Displayed(None, << >>)
  /\ UNCHANGED <<shown, acc, shared, timer, controller, streams, loads, server, disturbed>>

-----------------------------------------------------------------------------
(* The histories *)

\* The events of one kind in a turn, in order.
InOrder(S) ==
  CHOOSE e \in SeqOf(S, Len(Turn)) :
    /\ \A k, l \in DOMAIN e : k < l => e[k] < e[l]
    /\ \A i \in S : \E k \in DOMAIN e : e[k] = i

Chunks == InOrder({i \in 1..Len(Turn) : Turn[i] = "LLMChunk"})
Starts == InOrder({i \in 1..Len(Turn) : Turn[i] = "ToolStart"})

\* The turns of a stored history, as pe() shows them: a message of the user and
\* one answer for each.
Whole(s) ==
  [role |-> "assistant", by |-> 0,
   content |-> [k \in DOMAIN Chunks |-> <<s, Chunks[k]>>],
   calls |-> [k \in DOMAIN Starts |-> [by |-> s, at |-> Starts[k], status |-> "success"]]]

AsMessages(turns) ==
  [k \in 1..(2 * Len(turns)) |->
     IF k % 2 = 1 THEN UserMessage(turns[(k + 1) \div 2]) ELSE Whole(turns[k \div 2])]

\* GET /sessions/{memory_id}/messages reads the stored history.
ReadHistory(l) ==
  /\ ~l.read
  /\ loads' = (loads \ {l}) \union {[l EXCEPT !.read = TRUE, !.turns = stored[l.session]]}
  /\ UNCHANGED <<display, streams, server, ghosts>>

\* The answer is displayed, whatever has happened since it was asked for.
ShowHistory(l) ==
  /\ l.read
  /\ loads' = loads \ {l}
  /\ messages' = AsMessages(l.turns)
  /\ UNCHANGED <<currentSessionId, shown, acc, shared, timer, controller, streams,
                 server, ghosts>>

\* The GET fails or is refused: the load is over, and the list stays as it is.
FailHistory(l) ==
  /\ loads' = loads \ {l}
  /\ missing' = TRUE
  /\ UNCHANGED <<display, streams, server, disturbed, astray>>

-----------------------------------------------------------------------------
(* The streams *)

\* The next event of the turn arrives.
NextEvent(s) ==
  /\ IsOpen(s) /\ remaining[s] # << >>
  /\ remaining' = [remaining EXCEPT ![s] = Tail(@)]
  /\ UNCHANGED <<currentSessionId, controller, streams, loads, turn, stored>>

EventAt(s) == Len(Turn) - Len(remaining[s]) + 1

\* The event and its data came in different chunks of the response: the name
\* is forgotten and the event is ignored.
LoseEvent(s) ==
  /\ NextEvent(s)
  /\ disturbed' = disturbed \union {s}
  /\ Untouched /\ UNCHANGED <<astray, missing>>

LLMChunk(s) ==
  /\ acc' = [acc EXCEPT !.content = Append(@, <<s, EventAt(s)>>)]
  /\ UNCHANGED <<messages, shown, shared, timer>>

\* The tool events change the shown copy, and the accumulator with it while
\* they share their arrays.
CallsBecome(calls) ==
  /\ shown' = [shown EXCEPT !.calls = calls]
  /\ acc' = IF shared THEN [acc EXCEPT !.calls = calls] ELSE acc
  /\ UNCHANGED <<messages, shared, timer>>

ToolStart(s) ==
  CallsBecome(Append(shown.calls, [by |-> s, at |-> EventAt(s), status |-> "running"]))

\* The call is looked up by its id, in what is shown.
MutToolEndSaysDone(s) ==
  LET started(c) == c.by = s /\ c.at = CallOf[EventAt(s)]
  IN CallsBecome([k \in DOMAIN shown.calls |->
                    IF started(shown.calls[k])
                    THEN [shown.calls[k] EXCEPT !.status = "done"] ELSE shown.calls[k]])
ToolEnd(s) ==
  LET started(c) == c.by = s /\ c.at = CallOf[EventAt(s)]
  IN CallsBecome([k \in DOMAIN shown.calls |->
                    IF started(shown.calls[k])
                    THEN [shown.calls[k] EXCEPT !.status = "success"] ELSE shown.calls[k]])

\* onEvent
MutReceiveKeepsAccumulator(s) ==
  /\ NextEvent(s)
  /\ CASE Head(remaining[s]) = "LLMChunk" -> LLMChunk(s)
       [] Head(remaining[s]) = "ToolStart" -> ToolStart(s)
       [] Head(remaining[s]) = "ToolEnd" -> ToolEnd(s)
       [] Head(remaining[s]) = "AgentEnd" ->
            timer' = FALSE /\ messages' = Append(messages, Answer(acc)) /\ UNCHANGED <<acc, shown, shared>>
  /\ UNCHANGED ghosts
MutReceiveOnlyStops(s) ==
  /\ NextEvent(s)
  /\ CASE Head(remaining[s]) = "LLMChunk" -> LLMChunk(s)
       [] Head(remaining[s]) = "ToolStart" -> ToolStart(s)
       [] Head(remaining[s]) = "ToolEnd" -> ToolEnd(s)
       [] OTHER -> FlushedAndStopped /\ UNCHANGED messages
  /\ UNCHANGED ghosts
Receive(s) ==
  /\ NextEvent(s)
  /\ CASE Head(remaining[s]) = "LLMChunk" -> LLMChunk(s)
       [] Head(remaining[s]) = "ToolStart" -> ToolStart(s)
       [] Head(remaining[s]) = "ToolEnd" -> ToolEnd(s)
       [] Head(remaining[s]) = "AgentEnd" -> Finalised
  /\ UNCHANGED ghosts

\* An Error arrives instead of the rest of the turn: create_runtime, run or an
\* event raised.
ReceiveError(s) ==
  /\ IsOpen(s) /\ remaining[s] # << >>
  /\ remaining' = [remaining EXCEPT ![s] = << >>]
  /\ FlushedAndStopped
  /\ disturbed' = disturbed \union {s}
  /\ UNCHANGED <<currentSessionId, messages, controller, streams, loads, turn, stored,
                 astray, missing>>

\* onDone, of whichever stream: an answer without its AgentEnd is finalised.
MutCloseStreamNeverFinalises(s) ==
  /\ IsOpen(s) /\ remaining[s] = << >> /\ turn[s] # "running"
  /\ streams' = [streams EXCEPT ![s].state = "closed"]
  /\ Untouched
  /\ UNCHANGED <<currentSessionId, controller, loads, server, ghosts>>
CloseStream(s) ==
  /\ IsOpen(s) /\ remaining[s] = << >> /\ turn[s] # "running"
  /\ streams' = [streams EXCEPT ![s].state = "closed"]
  /\ IF acc.isStreaming THEN Finalised ELSE Untouched
  /\ UNCHANGED <<currentSessionId, controller, loads, server, ghosts>>

\* onError: no response, an HTTP error, or a connection that breaks.
FailStream(s) ==
  /\ IsOpen(s)
  /\ streams' = [streams EXCEPT ![s].state = "closed"]
  /\ remaining' = [remaining EXCEPT ![s] = << >>]
  /\ FlushedAndStopped
  /\ disturbed' = disturbed \union {s}
  /\ UNCHANGED <<currentSessionId, messages, controller, loads, turn, stored, astray,
                 missing>>

\* The timer: it is set again while something is streaming.
Flush ==
  /\ timer
  /\ Flushed
  /\ timer' = acc.isStreaming
  /\ UNCHANGED <<currentSessionId, messages, acc, controller, streams, loads,
                 server, ghosts>>

-----------------------------------------------------------------------------
(* The server *)

\* The server is done with a turn: save_memory has stored it, or it raised, or
\* the exception of the agent left the finally before.
EndTurn(s) ==
  /\ turn[s] = "running"
  /\ \/ /\ turn' = [turn EXCEPT ![s] = "stored"]
        /\ stored' = [stored EXCEPT ![streams[s].session] = Append(@, s)]
     \/ /\ turn' = [turn EXCEPT ![s] = "failed"]
        /\ UNCHANGED stored
  /\ UNCHANGED <<display, streams, loads, remaining, ghosts>>

-----------------------------------------------------------------------------
Stream(s) ==
  \/ Receive(s) \/ LoseEvent(s) \/ ReceiveError(s) \/ CloseStream(s) \/ FailStream(s)
History(l) == ReadHistory(l) \/ ShowHistory(l) \/ FailHistory(l)
User ==
  \/ sendMessage \/ cancelStream \/ leaveSession
  \/ \E m \in Sessions : selectSession(m) \/ newSession(m)

Next ==
  \/ User
  \/ \E s \in Sent : Stream(s) \/ EndTurn(s)
  \/ \E l \in loads : History(l)
  \/ Flush

Spec == Init /\ [][Next]_vars

\* Once the server is done with a turn, what it has sent arrives and its response
\* ends, or the connection breaks.  Before that it owes nothing, nor does the
\* user: no timeout ends a stream that is silent.
Fairness ==
  \A s \in 1..MaxSends : WF_vars(s \in Sent /\ turn[s] # "running" /\ Stream(s))

FairSpec == Spec /\ Fairness
-----------------------------------------------------------------------------
(* Properties *)

Events == {"LLMChunk", "ToolStart", "ToolEnd", "AgentEnd"}
Parts == Sent \X (1..Len(Turn))
Calls == [by : Sent, at : 1..Len(Turn), status : {"running", "success"}]
Answers == [content : Seq(Parts), calls : Seq(Calls), isStreaming : BOOLEAN]
Histories == [id : 1..MaxLoads, session : Sessions, turns : Seq(Sent), read : BOOLEAN]
Messages == [role : {"user", "assistant"}, by : Sent \union {0},
             content : Seq(Parts), calls : Seq(Calls)]

\* Type invariant of the client and of what it sees of the server.
TypeOK ==
  /\ currentSessionId \in Sessions \union {None}
  /\ messages \in Seq(Messages)
  /\ shown \in Answers /\ acc \in Answers
  /\ shared \in BOOLEAN /\ timer \in BOOLEAN
  /\ astray \in BOOLEAN /\ missing \in BOOLEAN
  /\ controller \in Sent \union {0}
  /\ streams \in Seq([session : Sessions, state : {"open", "closed", "aborted"}])
  /\ loads \subseteq Histories
  /\ Len(streams) <= MaxSends
  /\ remaining \in [Sent -> Seq(Events)]
  /\ turn \in [Sent -> {"running", "stored", "failed"}]
  /\ stored \in [Sessions -> Seq(Sent)]
  /\ disturbed \subseteq Sent

\* The button that cancels never cancels nothing: while an answer is shown as
\* streaming, the stream of the last message is open and is the one at hand,
\* and the timer that brings the display up to date is set.
StreamingIsTheLatest ==
  shown.isStreaming =>
    /\ acc.isStreaming /\ shared /\ timer
    /\ Latest > 0 /\ IsOpen(Latest) /\ controller = Latest

\* The parts of a turn in a message.
Mentions(m, s) ==
  \/ \E k \in DOMAIN m.content : m.content[k][1] = s
  \/ \E k \in DOMAIN m.calls : m.calls[k].by = s

\* An answer in the list is exactly that of its turn: not cut, not without its
\* tool calls, not mixed with another one, unless an event of the turn was
\* lost, the turn was cancelled or failed, or it was sent although an older
\* stream had not been closed.  Where nothing of the kind has happened, no
\* answer is that of no turn.
AnswersAreWhole ==
  \A k \in 1..Len(messages) :
    messages[k].role = "assistant" =>
      /\ \A s \in Sent \ disturbed : Mentions(messages[k], s) => messages[k] = Whole(s)
      /\ disturbed = {} => \E s \in Sent : messages[k] = Whole(s)

HistoryOf(m) == AsMessages(stored[m])

\* At rest, the list shows what the server has stored of the session, neither
\* less nor more nor twice, unless turns were disturbed, a session was left
\* before what it had under way came in, or its history could not be loaded.
DisplayMatchesServer ==
  /\ currentSessionId # None /\ ~astray /\ ~missing /\ disturbed = {} /\ loads = {}
  /\ \A s \in Sent : ~IsOpen(s) /\ turn[s] = "stored"
  => messages = HistoryOf(currentSessionId)

\* The answer of a turn that ended well stays on display as long as its session
\* does, whatever happens to the turns after it, and comes back with the session
\* unless its history cannot be loaded.
StoredAnswersAreShown ==
  \A s \in Sent \ disturbed :
    /\ streams[s].state = "closed" /\ turn[s] = "stored"
    /\ ~astray /\ ~missing /\ loads = {} /\ streams[s].session = currentSessionId
    => \E k \in 1..Len(messages) : messages[k] = Whole(s)

\* No message of another session is shown, unless a session was left before
\* what it had under way came in.
MessagesAreOfTheSession ==
  ~astray =>
    \A k \in 1..Len(messages), s \in Sent :
      messages[k].by = s \/ Mentions(messages[k], s) => streams[s].session = currentSessionId

\* Once the server is done with its turn, an answer stops streaming, whatever
\* becomes of its events: also without an AgentEnd, after an Error and when the
\* connection breaks.
StreamingStops ==
  \A s \in 1..MaxSends :
    s \in Sent /\ turn[s] # "running" ~> ~(shown.isStreaming /\ Latest = s)
=============================================================================
