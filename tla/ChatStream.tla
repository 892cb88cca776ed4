----------------------------- MODULE ChatStream ------------------------------
(***************************************************************************)
(* POST /api/v1/chat/{memory_id} (api/chat.py) for the requests of one     *)
(* session: the handler under the session lock, and the two nested         *)
(* generators it streams from.  _stream_with_lock is the outer one and     *)
(* releases the lock in its finally; _stream_events is the inner one and   *)
(* joins the agent task and saves the turn in its finally.                 *)
(*                                                                         *)
(* The agent runtime (a task that feeds a queue and ends it with None),    *)
(* the session store and the server are external: the agent may end well   *)
(* or fail, a save may fail, and a client may disconnect at any time.      *)
(* A turn is what save_memory appends to the stored history: the messages  *)
(* the agent added to the session object this request loaded.              *)
(*                                                                         *)
(* A definition named Mut... is a variant of the one it precedes, with a   *)
(* plausible bug; no specification uses it.                                *)
(***************************************************************************)
EXTENDS Naturals, Sequences

CONSTANTS Requests,   \* the chat requests
          MemoryId,   \* the one session they name
          None,
          MaxUnread   \* bound on the events the agent is ahead of the stream

ASSUME NoneAssumption == None \notin Requests /\ None # MemoryId
ASSUME MaxUnreadAssumption == MaxUnread \in Nat

VARIABLES
  registry, target, lock, locked, waiters, woken, pc,   \* as in SessionLock
  history,  \* the turns in the store: who saved them, and on how long a history
  base,     \* length of the stored history the request loaded
  gen,      \* where _stream_events is, or how far the handler is before it
  mode,     \* what became of the connection and of the outer generator
  task,     \* the agent task of the request
  unread,   \* events in the queue that the stream has not read
  stop,     \* stop_event
  saved,    \* what came of save_memory
  told      \* the final events the client was sent

\* memory_id comes from the path; the requests of other sessions share nothing.
L == INSTANCE SessionLock WITH Sessions <- {MemoryId}

lockVars == <<registry, target, lock, locked, waiters, woken, pc>>
runVars == <<task, unread, stop>>
vars == <<lockVars, history, base, gen, mode, runVars, saved, told>>

\* Before the stream: "unloaded", "loaded".  "yield", "errorYield" and
\* "doneYield" are suspensions at a yield, "setup", "get", "join" and "save"
\* at an await.
Positions == {"unloaded", "loaded", "setup", "get", "yield", "errorYield",
              "join", "save", "doneYield", "closed"}

\* "cancelled": the server cancelled the stream inside an await, and cancels
\* every later one.  "dropped": it was cancelled while sending a chunk, and
\* both generators are left suspended at their yield.  "detached": the outer
\* one has been closed since, the inner one closes in a task of its own.
Modes == {"live", "cancelled", "dropped", "detached"}

Init ==
  /\ L!Init
  /\ history = << >>
  /\ base = [r \in Requests |-> 0]
  /\ gen = [r \in Requests |-> "unloaded"]
  /\ mode = [r \in Requests |-> "live"]
  /\ task = [r \in Requests |-> "none"]
  /\ unread = [r \in Requests |-> 0]
  /\ stop = [r \in Requests |-> FALSE]
  /\ saved = [r \in Requests |-> "no"]
  /\ told = [r \in Requests |-> {}]

At(r, p, m) == gen[r] = p /\ mode[r] = m
MoveTo(r, p) == gen' = [gen EXCEPT ![r] = p]

\* The generators are over: the outer one releases the session lock.
CloseBoth(r) == MoveTo(r, "closed") /\ L!EndStream(r)

-----------------------------------------------------------------------------
(* The handler, up to its response *)

MutArriveWithoutWaiting(r) ==
  /\ \/ L!Acquire(r, MemoryId)
     \/ /\ pc[r] = "waiting" /\ L!GoTo(r, "loading")
        /\ UNCHANGED <<registry, target, lock, locked, waiters, woken>>
  /\ UNCHANGED <<history, base, gen, mode, runVars, saved, told>>
Arrive(r) ==
  /\ L!Acquire(r, MemoryId) \/ L!Resume(r)
  /\ UNCHANGED <<history, base, gen, mode, runVars, saved, told>>

\* session = await store.get_session(memory_id)
MutLoadBeforeLock(r) ==
  /\ pc[r] \in {"new", "waiting", "loading"} /\ gen[r] = "unloaded"
  /\ base' = [base EXCEPT ![r] = Len(history)]
  /\ MoveTo(r, "loaded")
  /\ UNCHANGED <<lockVars, history, mode, runVars, saved, told>>
Load(r) ==
  /\ pc[r] = "loading"
  /\ gen[r] = "unloaded"
  /\ base' = [base EXCEPT ![r] = Len(history)]
  /\ MoveTo(r, "loaded")
  /\ UNCHANGED <<lockVars, history, mode, runVars, saved, told>>

\* No session, another user's session, no agent, an empty scenario, a failing
\* store: an exception on either side of the load releases the lock.
Refuse(r) ==
  /\ L!Reject(r)
  /\ UNCHANGED <<history, base, gen, mode, runVars, saved, told>>

Respond(r) ==
  /\ gen[r] = "loaded"
  /\ L!Respond(r)
  /\ UNCHANGED <<history, base, gen, mode, runVars, saved, told>>

Start(r) ==
  /\ L!StartStream(r)
  /\ MoveTo(r, "setup")
  /\ UNCHANGED <<history, base, mode, runVars, saved, told>>

\* Neither generator ever runs: see SessionLock.
DropResponse(r) ==
  /\ L!DisconnectBeforeStart(r)
  /\ UNCHANGED <<history, base, gen, mode, runVars, saved, told>>

-----------------------------------------------------------------------------
(* The agent task *)

\* "stopped": stop_event cut the turn short.
TaskOver(r) == task[r] \in {"ended", "stopped", "failed", "cancelled"}

AgentEmits(r) ==
  /\ task[r] = "running"
  /\ unread[r] < MaxUnread
  /\ unread' = [unread EXCEPT ![r] = @ + 1]
  /\ UNCHANGED <<lockVars, history, base, gen, mode, task, stop, saved, told>>

\* The agent finishes its turn or raises; told by stop_event, it may also
\* return with what it has.
AgentEnds(r) ==
  /\ task[r] = "running"
  /\ \E result \in {"ended", "failed", "stopped"} :
       (result = "stopped" => stop[r]) /\ task' = [task EXCEPT ![r] = result]
  /\ UNCHANGED <<lockVars, history, base, gen, mode, unread, stop, saved, told>>

-----------------------------------------------------------------------------
(* _stream_events *)

\* create_runtime and runtime.run: either may raise.
SetUp(r) ==
  /\ At(r, "setup", "live")
  /\ \/ task' = [task EXCEPT ![r] = "running"] /\ MoveTo(r, "get")
     \/ UNCHANGED task /\ MoveTo(r, "errorYield")
  /\ UNCHANGED <<lockVars, history, base, mode, unread, stop, saved, told>>

\* An event is streamed; a MessageEvent is skipped; serialising or looking up
\* the display name may raise.
ReadEvent(r) ==
  /\ At(r, "get", "live")
  /\ unread[r] > 0
  /\ unread' = [unread EXCEPT ![r] = @ - 1]
  /\ \E p \in {"yield", "get", "errorYield"} : MoveTo(r, p)
  /\ UNCHANGED <<lockVars, history, base, mode, task, stop, saved, told>>

\* The finally up to its first await: stop_event is set if there is one, and
\* the task is awaited if there is one.
MutFinallyKeepsStop(r) ==
  MoveTo(r, IF task[r] = "none" THEN "save" ELSE "join") /\ UNCHANGED stop
EnterFinally(r) ==
  IF task[r] = "none"
  THEN MoveTo(r, "save") /\ UNCHANGED stop
  ELSE MoveTo(r, "join") /\ stop' = [stop EXCEPT ![r] = TRUE]

\* The None that ends the queue.
MutReadEndOfGoodAgent(r) ==
  /\ At(r, "get", "live")
  /\ unread[r] = 0 /\ task[r] = "ended"
  /\ EnterFinally(r)
  /\ UNCHANGED <<lockVars, history, base, mode, task, unread, saved, told>>
MutReadEndWhenEmpty(r) ==
  /\ At(r, "get", "live")
  /\ unread[r] = 0
  /\ EnterFinally(r)
  /\ UNCHANGED <<lockVars, history, base, mode, task, unread, saved, told>>
ReadEnd(r) ==
  /\ At(r, "get", "live")
  /\ unread[r] = 0 /\ TaskOver(r)
  /\ EnterFinally(r)
  /\ UNCHANGED <<lockVars, history, base, mode, task, unread, saved, told>>

ChunkSent(r) ==
  /\ At(r, "yield", "live")
  /\ MoveTo(r, "get")
  /\ UNCHANGED <<lockVars, history, base, mode, runVars, saved, told>>

ErrorSent(r) ==
  /\ At(r, "errorYield", "live")
  /\ told' = [told EXCEPT ![r] = @ \union {"Error"}]
  /\ EnterFinally(r)
  /\ UNCHANGED <<lockVars, history, base, mode, task, unread, saved>>

\* The exception of a failed agent leaves the finally before the save.
JoinFailed(r) ==
  /\ gen[r] = "join" /\ task[r] \in {"failed", "cancelled"}
  /\ IF mode[r] = "detached" THEN MoveTo(r, "closed") /\ UNCHANGED lockVars
     ELSE CloseBoth(r)
  /\ UNCHANGED <<history, base, mode, runVars, saved, told>>

Joined(r) ==
  /\ gen[r] = "join" /\ task[r] \in {"ended", "stopped"}
  /\ MoveTo(r, "save")
  /\ UNCHANGED <<lockVars, history, base, mode, runVars, saved, told>>

\* save_memory persists the new messages of the loaded session: the turn, if
\* an agent ran.  A store that raises is logged and otherwise ignored.
Stored(r) ==
  /\ saved' = [saved EXCEPT ![r] = "ok"]
  /\ history' = IF task[r] = "none" THEN history
                ELSE Append(history, [by |-> r, base |-> base[r],
                                      locked |-> L!InCritical(r)])

NotStored(r) == saved' = [saved EXCEPT ![r] = "failed"] /\ UNCHANGED history

Save(r) ==
  /\ gen[r] = "save" /\ mode[r] \in {"live", "detached"}
  /\ Stored(r) \/ NotStored(r)
  /\ MoveTo(r, IF mode[r] = "live" THEN "doneYield" ELSE "closed")
  /\ UNCHANGED <<lockVars, base, mode, runVars, told>>

DoneSent(r) ==
  /\ At(r, "doneYield", "live")
  /\ told' = [told EXCEPT ![r] = @ \union {"done"}]
  /\ CloseBoth(r)
  /\ UNCHANGED <<history, base, mode, runVars, saved>>

-----------------------------------------------------------------------------
(* Disconnects *)

AtYield(r) == gen[r] \in {"yield", "errorYield", "doneYield"}

\* The server cancels the stream where it is suspended.
Disconnect(r) ==
  /\ pc[r] = "streaming"
  /\ mode[r] = "live"
  /\ mode' = [mode EXCEPT ![r] = IF AtYield(r) THEN "dropped" ELSE "cancelled"]
  /\ UNCHANGED <<lockVars, history, base, gen, runVars, saved, told>>

\* CancelledError is no Exception: it passes the handler of _stream_events and
\* enters the finally.
CancelAwait(r) ==
  /\ mode[r] = "cancelled" /\ gen[r] \in {"setup", "get"}
  /\ EnterFinally(r)
  /\ UNCHANGED <<lockVars, history, base, mode, task, unread, saved, told>>

\* Cancelling `await task` cancels the task, and the finally is left there.
MutCancelJoinKeepsTask(r) ==
  /\ At(r, "join", "cancelled")
  /\ task[r] = "running"
  /\ CloseBoth(r)
  /\ UNCHANGED <<history, base, mode, runVars, saved, told>>
CancelJoin(r) ==
  /\ At(r, "join", "cancelled")
  /\ task[r] = "running"
  /\ task' = [task EXCEPT ![r] = "cancelled"]
  /\ CloseBoth(r)
  /\ UNCHANGED <<history, base, mode, unread, stop, saved, told>>

\* The save is interrupted, before or after the store did its work, or it
\* completes without suspending and the cancellation hits the "done" chunk.
CancelSave(r) ==
  /\ At(r, "save", "cancelled")
  /\ Stored(r) \/ NotStored(r)
  /\ \/ CloseBoth(r) /\ UNCHANGED mode
     \/ /\ MoveTo(r, "doneYield")
        /\ mode' = [mode EXCEPT ![r] = "dropped"]
        /\ UNCHANGED lockVars
  /\ UNCHANGED <<base, runVars, told>>

\* The collector closes the dropped outer generator: its finally releases the
\* lock while the inner one is still suspended.  After its last yield the
\* inner one has nothing left to do.
CloseOuter(r) ==
  /\ mode[r] = "dropped"
  /\ mode' = [mode EXCEPT ![r] = "detached"]
  /\ L!EndStream(r)
  /\ IF gen[r] = "doneYield" THEN MoveTo(r, "closed") ELSE UNCHANGED gen
  /\ UNCHANGED <<history, base, runVars, saved, told>>

\* The inner generator is closed in a task of its own: its finally runs now.
CloseInner(r) ==
  /\ mode[r] = "detached" /\ gen[r] \in {"yield", "errorYield"}
  /\ EnterFinally(r)
  /\ UNCHANGED <<lockVars, history, base, mode, task, unread, saved, told>>

-----------------------------------------------------------------------------
Over(r) ==
  \/ pc[r] = "done" /\ gen[r] \in {"unloaded", "loaded", "closed"}
  \/ pc[r] = "abandoned"
  \/ L!BehindAbandoned(r)

Rest == (\A r \in Requests : Over(r)) /\ UNCHANGED vars

Handler(r) == Load(r) \/ Refuse(r) \/ Respond(r)
Stream(r) ==
  \/ SetUp(r) \/ ReadEvent(r) \/ ReadEnd(r) \/ JoinFailed(r) \/ Joined(r) \/ Save(r)
Sending(r) == ChunkSent(r) \/ ErrorSent(r) \/ DoneSent(r)
Cleanup(r) ==
  CancelAwait(r) \/ CancelJoin(r) \/ CancelSave(r) \/ CloseOuter(r) \/ CloseInner(r)

Step(r) ==
  \/ Arrive(r) \/ Handler(r) \/ Start(r) \/ DropResponse(r)
  \/ AgentEmits(r) \/ AgentEnds(r)
  \/ Stream(r) \/ Sending(r) \/ Disconnect(r) \/ Cleanup(r)

Next == (\E r \in Requests : Step(r)) \/ Rest

Spec == Init /\ [][Next]_vars

\* The event loop runs what is ready and the collector closes dropped
\* generators; a chunk is sent or its client is found gone; an agent ends.
Fairness ==
  \A r \in Requests :
    /\ WF_vars(pc[r] = "waiting" /\ Arrive(r))
    /\ WF_vars(Load(r)) /\ WF_vars(Refuse(r) \/ Respond(r))
    /\ WF_vars(Start(r) \/ DropResponse(r))
    /\ WF_vars(AgentEnds(r))
    /\ WF_vars(Stream(r))
    /\ WF_vars(AtYield(r) /\ (Sending(r) \/ Disconnect(r)))
    /\ WF_vars(Cleanup(r))

FairSpec == Spec /\ Fairness
-----------------------------------------------------------------------------
(* Properties *)

\* Type invariant of the streams.
TypeOK ==
  /\ L!TypeOK
  /\ history \in Seq([by : Requests, base : Nat, locked : BOOLEAN])
  /\ base \in [Requests -> 0..Len(history)]
  /\ gen \in [Requests -> Positions]
  /\ mode \in [Requests -> Modes]
  /\ task \in [Requests -> {"none", "running", "ended", "stopped", "failed", "cancelled"}]
  /\ unread \in [Requests -> 0..MaxUnread]
  /\ stop \in [Requests -> BOOLEAN]
  /\ saved \in [Requests -> {"no", "ok", "failed"}]
  /\ told \in [Requests -> SUBSET {"Error", "done"}]

\* What the lock is for: every turn in the store was produced on top of the
\* whole history stored before it.  The code breaks it with two requests: a
\* client that disconnects while a chunk is being sent has its lock released
\* before its turn is saved.
TurnsAreSerial == \A i \in 1..Len(history) : history[i].base = i - 1

\* The only ways to a stale turn, for any number of requests: a handover of the
\* session's lock, or a detached stream that saves without the lock.  Such a
\* stream overtook the turn after its history was loaded, or saved the turn
\* itself.
SerialUntilHandover ==
  \A i \in 1..Len(history) :
    history[i].base # i - 1 =>
      \/ L!HandedOver(MemoryId)
      \/ \E j \in (history[i].base + 1)..i :
           ~history[j].locked /\ mode[history[j].by] = "detached"

\* A turn is stored at most once, and never while its agent may still add to
\* it, whatever way the stream ended.  A turn cut short, by an agent told to
\* stop, is stored only if the client left or was sent an Error: who was told
\* nothing but "done" has a whole turn in the history.
StoredTurnsAreOver ==
  \A i \in 1..Len(history) :
    LET r == history[i].by IN
    /\ task[r] \in {"ended", "stopped"}
    /\ task[r] = "stopped" => mode[r] # "live" \/ "Error" \in told[r]
    /\ \A j \in 1..Len(history) : history[j].by = r => i = j

\* "done" is the client's sign that the turn is over: the agent has ended and
\* its turn has been offered to the store.
DoneComesAfterSave ==
  \A r \in Requests :
    "done" \in told[r] => saved[r] # "no" /\ task[r] \in {"none", "ended", "stopped"}

\* The lock is not released under a running agent, unless the client left
\* while a chunk was being sent.
NoAgentBehindReleasedLock ==
  \A r \in Requests :
    pc[r] = "done" /\ task[r] = "running" => mode[r] = "detached"

\* A client that stays connected is told how the turn ended, with "done"
\* unless the agent failed, and the lock is free again.
ConnectedClientIsTold ==
  \A r \in Requests :
    pc[r] = "streaming" ~>
      pc[r] = "done" /\ ("done" \in told[r] \/ task[r] = "failed" \/ mode[r] # "live")

\* However a client leaves a started stream, the agent is told to stop and
\* both generators end, with the lock released.
DisconnectIsCleanedUp ==
  \A r \in Requests :
    mode[r] # "live" ~> /\ gen[r] = "closed" /\ pc[r] = "done"
                        /\ (task[r] = "none" \/ (stop[r] /\ task[r] # "running"))

\* The lock variables go through the steps of SessionLock and no others:
\* whatever the two generators and the agent do, the requests use the registry
\* as that specification says, and what holds of it holds here.
FollowsSessionLock == L!Spec
=============================================================================
