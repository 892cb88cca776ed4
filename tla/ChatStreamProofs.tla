--------------------------- MODULE ChatStreamProofs ---------------------------
(***************************************************************************)
(* The safety of the chat streams of one session, for any number of        *)
(* requests.                                                               *)
(*                                                                         *)
(* Every step of ChatStream is a step of SessionLock or leaves the lock    *)
(* alone, so what SessionLockProofs proves of the registry holds here too. *)
(* What a stream has done so far can be read off its position, which is    *)
(* StreamShape; together they say when a turn may be stale.                *)
(***************************************************************************)
EXTENDS ChatStream, SequenceTheorems, TLAPS

P == INSTANCE SessionLockProofs WITH Sessions <- {MemoryId}

USE NoneAssumption

-----------------------------------------------------------------------------
(* The session lock *)

\* P instantiates the same specification as L.
LEMMA SameLock ==
  /\ P!Init <=> L!Init
  /\ [P!Next]_(P!vars) <=> [L!Next]_(L!vars)
  /\ P!TypeOK <=> L!TypeOK
  /\ P!HandedOver(MemoryId) <=> L!HandedOver(MemoryId)
<1>1. P!Init <=> L!Init
  BY DEF L!Init, P!Init
<1>2. [P!Next]_(P!vars) <=> [L!Next]_(L!vars)
  BY DEF L!Next, P!Next, L!vars, P!vars, L!lockVars, P!lockVars, L!Step, P!Step, L!Rest, P!Rest,
    L!Acquire, P!Acquire, L!acquire_session_lock, P!acquire_session_lock, L!LookupLock,
    P!LookupLock, L!AsyncAcquire, P!AsyncAcquire, L!FreeAtOnce, P!FreeAtOnce, L!Resume, P!Resume,
    L!GoTo, P!GoTo, L!Reject, P!Reject, L!release_session_lock, P!release_session_lock,
    L!AsyncRelease, P!AsyncRelease, L!Respond, P!Respond, L!StartStream, P!StartStream,
    L!DisconnectBeforeStart, P!DisconnectBeforeStart, L!EndStream, P!EndStream,
    L!BehindAbandoned, P!BehindAbandoned
<1>3. P!TypeOK <=> L!TypeOK
  BY DEF P!TypeOK, L!TypeOK, L!Phases, P!Phases
<1>4. P!HandedOver(MemoryId) <=> L!HandedOver(MemoryId)
  BY DEF P!HandedOver, L!HandedOver
<1> QED
  BY <1>1, <1>2, <1>3, <1>4

\* No step of a stream is news to the lock.
LEMMA StepFollowsLock == [Next]_vars => [L!Next]_(L!vars)
<1> SUFFICES ASSUME [Next]_vars PROVE [L!Next]_(L!vars)
  OBVIOUS
<1> DEFINE Kept == UNCHANGED lockVars
<1>k. Kept => UNCHANGED L!vars
  BY DEF lockVars, L!vars, L!lockVars
<1>1. ASSUME NEW r \in Requests, Step(r) PROVE L!Step(r) \/ Kept
  <2>1. CASE Arrive(r) \/ Handler(r) \/ Start(r) \/ DropResponse(r)
    BY <2>1 DEF Arrive, Handler, Load, Refuse, Respond, Start, DropResponse, L!Step
  <2>2. CASE AgentEmits(r) \/ AgentEnds(r) \/ Disconnect(r)
    BY <2>2 DEF AgentEmits, AgentEnds, Disconnect
  <2>3. CASE Stream(r)
    BY <2>3 DEF Stream, SetUp, ReadEvent, ReadEnd, JoinFailed, Joined, Save, CloseBoth, L!Step
  <2>4. CASE Sending(r)
    BY <2>4 DEF Sending, ChunkSent, ErrorSent, DoneSent, CloseBoth, L!Step
  <2>5. CASE Cleanup(r)
    BY <2>5 DEF Cleanup, CancelAwait, CancelJoin, CancelSave, CloseOuter, CloseInner, CloseBoth, L!Step
  <2> QED
    BY <1>1, <2>1, <2>2, <2>3, <2>4, <2>5 DEF Step
<1>2. ASSUME Rest \/ UNCHANGED vars PROVE Kept
  BY <1>2 DEF Rest, vars
<1> HIDE DEF Kept
<1> QED
  BY <1>k, <1>1, <1>2 DEF Next, L!Next

\* The streams of a session implement the session lock protocol.
THEOREM ImplementsSessionLock == Spec => FollowsSessionLock
<1>1. Init => L!Init
  BY DEF Init
<1> QED
  BY <1>1, StepFollowsLock, PTL DEF Spec, FollowsSessionLock, L!Spec

\* So the inductive invariant of SessionLock holds.
LEMMA LockHolds == Spec => []P!LockInv
<1>1. Init => P!LockInv
  BY SameLock, P!InitInv DEF Init
<1>2. P!LockInv /\ [Next]_vars => P!LockInv'
  BY SameLock, StepFollowsLock, P!StepInv
<1> QED
  BY <1>1, <1>2, PTL DEF Spec

\* Where the actions of the lock take a request.
LEMMA LockMoves ==
  ASSUME NEW r \in Requests
  PROVE  /\ L!Acquire(r, MemoryId) \/ L!Resume(r) =>
              /\ pc[r] \in {"new", "waiting"}
              /\ pc' = [pc EXCEPT ![r] = "loading"] \/ pc' = [pc EXCEPT ![r] = "waiting"]
         /\ L!Reject(r) => pc[r] = "loading" /\ pc' = [pc EXCEPT ![r] = "done"]
         /\ L!Respond(r) => pc[r] = "loading" /\ pc' = [pc EXCEPT ![r] = "responded"]
         /\ L!StartStream(r) => pc[r] = "responded" /\ pc' = [pc EXCEPT ![r] = "streaming"]
         /\ L!DisconnectBeforeStart(r) =>
              pc[r] = "responded" /\ pc' = [pc EXCEPT ![r] = "abandoned"]
         /\ L!EndStream(r) => pc[r] = "streaming" /\ pc' = [pc EXCEPT ![r] = "done"]
BY DEF L!Acquire, L!acquire_session_lock, L!AsyncAcquire, L!Resume, L!Reject, L!Respond,
  L!StartStream, L!DisconnectBeforeStart, L!EndStream, L!GoTo

-----------------------------------------------------------------------------
(* Type correctness *)

\* TypeOK without the lock and the history.
StreamTypes ==
  /\ gen \in [Requests -> Positions]
  /\ mode \in [Requests -> Modes]
  /\ task \in [Requests -> {"none", "running", "ended", "stopped", "failed", "cancelled"}]
  /\ unread \in [Requests -> 0..MaxUnread]
  /\ stop \in [Requests -> BOOLEAN]
  /\ saved \in [Requests -> {"no", "ok", "failed"}]
  /\ told \in [Requests -> SUBSET {"Error", "done"}]

LEMMA StreamTypesKept ==
  ASSUME StreamTypes, NEW r \in Requests, Step(r)
  PROVE  StreamTypes'
<1> USE MaxUnreadAssumption DEF StreamTypes, runVars, MoveTo
<1>1. CASE Arrive(r) \/ Handler(r) \/ Start(r) \/ DropResponse(r)
  BY <1>1 DEF Arrive, Handler, Load, Refuse, Respond, Start, DropResponse, Positions
<1>2. CASE AgentEmits(r) \/ AgentEnds(r)
  BY <1>2 DEF AgentEmits, AgentEnds
<1>3. CASE Disconnect(r)
  BY <1>3 DEF Disconnect, Modes
<1>4. CASE SetUp(r) \/ ReadEvent(r) \/ JoinFailed(r) \/ Joined(r)
  BY <1>4 DEF SetUp, ReadEvent, JoinFailed, Joined, CloseBoth, Positions
<1>5. CASE ReadEnd(r) \/ CancelAwait(r) \/ CloseInner(r)
  BY <1>5 DEF ReadEnd, CancelAwait, CloseInner, EnterFinally, Positions
<1>6. CASE Save(r) \/ CancelSave(r)
  BY <1>6 DEF Save, CancelSave, Stored, NotStored, CloseBoth, Positions, Modes
<1>7. CASE ChunkSent(r)
  BY <1>7 DEF ChunkSent, Positions
<1>8. CASE ErrorSent(r) \/ DoneSent(r)
  <2>1. told' \in [Requests -> SUBSET {"Error", "done"}]
    BY <1>8 DEF ErrorSent, DoneSent
  <2> QED
    BY <1>8, <2>1 DEF ErrorSent, DoneSent, EnterFinally, CloseBoth, Positions
<1>9. CASE CancelJoin(r) \/ CloseOuter(r)
  BY <1>9 DEF CancelJoin, CloseOuter, CloseBoth, Positions, Modes
<1> QED
  BY <1>1, <1>2, <1>3, <1>4, <1>5, <1>6, <1>7, <1>8, <1>9 DEF Step, Stream, Sending, Cleanup

\* What steps do to the stored history and to what was loaded of it.
HistoryTypes ==
  /\ history \in Seq([by : Requests, base : Nat, locked : BOOLEAN])
  /\ base \in [Requests -> 0..Len(history)]

Turn(r) == [by |-> r, base |-> base[r], locked |-> L!InCritical(r)]

LEMMA HistoryMoves ==
  ASSUME NEW r \in Requests, Step(r)
  PROVE  \/ history' = history /\ base' = base
         \/ /\ Load(r) /\ history' = history
            /\ base' = [base EXCEPT ![r] = Len(history)]
         \/ /\ gen[r] = "save" /\ task[r] # "none" /\ saved' = [saved EXCEPT ![r] = "ok"]
            /\ history' = Append(history, Turn(r)) /\ base' = base
<1>1. CASE Load(r)
  BY <1>1 DEF Load
<1>2. CASE Save(r) \/ CancelSave(r)
  BY <1>2 DEF Save, CancelSave, Stored, NotStored, Turn, At
<1>3. CASE Arrive(r) \/ Refuse(r) \/ Respond(r) \/ Start(r) \/ DropResponse(r)
           \/ AgentEmits(r) \/ AgentEnds(r) \/ Disconnect(r)
  BY <1>3 DEF Arrive, Refuse, Respond, Start, DropResponse, AgentEmits, AgentEnds, Disconnect
<1>4. CASE SetUp(r) \/ ReadEvent(r) \/ ReadEnd(r) \/ JoinFailed(r) \/ Joined(r) \/ Sending(r)
  BY <1>4 DEF SetUp, ReadEvent, ReadEnd, JoinFailed, Joined, Sending, ChunkSent, ErrorSent, DoneSent
<1>5. CASE CancelAwait(r) \/ CancelJoin(r) \/ CloseOuter(r) \/ CloseInner(r)
  BY <1>5 DEF CancelAwait, CancelJoin, CloseOuter, CloseInner
<1> QED
  BY <1>1, <1>2, <1>3, <1>4, <1>5 DEF Step, Handler, Stream, Cleanup

LEMMA HistoryTypesKept ==
  ASSUME HistoryTypes, NEW r \in Requests, Step(r)
  PROVE  HistoryTypes'
<1>1. CASE history' = history /\ base' = base
  BY <1>1 DEF HistoryTypes
<1>2. CASE history' = history /\ base' = [base EXCEPT ![r] = Len(history)]
  BY <1>2 DEF HistoryTypes
<1>3. CASE history' = Append(history, Turn(r)) /\ base' = base
  <2>1. Turn(r) \in [by : Requests, base : Nat, locked : BOOLEAN]
    BY DEF HistoryTypes, Turn, L!InCritical
  <2> QED
    BY <1>3, <2>1 DEF HistoryTypes
<1> QED
  BY <1>1, <1>2, <1>3, HistoryMoves

ChatTypes == P!LockInv /\ StreamTypes /\ HistoryTypes

LEMMA InitTypes == Init => ChatTypes
<1> SUFFICES ASSUME Init PROVE ChatTypes
  OBVIOUS
<1>1. P!LockInv
  BY SameLock, P!InitInv DEF Init
<1>2. StreamTypes
  BY MaxUnreadAssumption DEF Init, StreamTypes, Positions, Modes
<1>3. HistoryTypes
  BY DEF Init, HistoryTypes
<1> QED
  BY <1>1, <1>2, <1>3 DEF ChatTypes

LEMMA StepTypes == ChatTypes /\ [Next]_vars => ChatTypes'
<1> SUFFICES ASSUME ChatTypes, [Next]_vars PROVE ChatTypes'
  OBVIOUS
<1>1. P!LockInv'
  BY SameLock, StepFollowsLock, P!StepInv DEF ChatTypes
<1>2. ASSUME NEW r \in Requests, Step(r) PROVE ChatTypes'
  BY <1>1, <1>2, StreamTypesKept, HistoryTypesKept DEF ChatTypes
<1>3. ASSUME Rest \/ UNCHANGED vars PROVE ChatTypes'
  BY <1>1, <1>3 DEF Rest, vars, runVars, ChatTypes, StreamTypes, HistoryTypes
<1> QED
  BY <1>2, <1>3 DEF Next

\* Type correctness of the streams and of the lock behind them.
THEOREM TypeCorrect == Spec => []TypeOK
<1>1. ChatTypes => TypeOK
  BY SameLock DEF ChatTypes, StreamTypes, HistoryTypes, TypeOK, P!LockInv
<1> QED
  BY <1>1, InitTypes, StepTypes, PTL DEF Spec

-----------------------------------------------------------------------------
(* What a stream has done so far *)

\* The handler has not started the generators, and nothing was done.
BeforeStream(r) ==
  /\ gen[r] = "unloaded" => pc[r] \in {"new", "waiting", "loading", "done"}
  /\ gen[r] = "loaded" => pc[r] \in {"loading", "responded", "abandoned", "done"}
  /\ pc[r] = "responded" => gen[r] = "loaded"
  /\ gen[r] \in {"unloaded", "loaded"} =>
       mode[r] = "live" /\ task[r] = "none" /\ saved[r] = "no" /\ told[r] = {}

\* The outer generator holds the lock, but for a detached stream.
LockOfStream(r) ==
  /\ pc[r] = "streaming" <=>
       gen[r] \notin {"unloaded", "loaded", "closed"} /\ mode[r] # "detached"
  /\ gen[r] \notin {"unloaded", "loaded"} => pc[r] \in {"streaming", "done"}
  /\ mode[r] = "dropped" => AtYield(r)

\* The agent task is joined before the save, the save before "done".
OrderOfStream(r) ==
  /\ task[r] = "running" => gen[r] \in {"get", "yield", "errorYield", "join"}
  /\ gen[r] \in {"setup", "get", "yield", "errorYield", "join", "save"} =>
       saved[r] = "no" /\ "done" \notin told[r]
  /\ gen[r] = "setup" => task[r] = "none"
  /\ gen[r] = "save" => task[r] \in {"none", "ended", "stopped"}
  /\ gen[r] = "doneYield" => saved[r] # "no" /\ task[r] \in {"none", "ended", "stopped"}
  /\ "done" \in told[r] => saved[r] # "no" /\ task[r] \in {"none", "ended", "stopped"}

\* The agent is told to stop when it is over, or when its turn is cut short for
\* a client that left or was sent an Error.
CutHasCause(r) ==
  /\ task[r] = "stopped" => mode[r] # "live" \/ "Error" \in told[r]
  /\ stop[r] => TaskOver(r) \/ mode[r] # "live" \/ "Error" \in told[r]

Shape(r) == BeforeStream(r) /\ LockOfStream(r) /\ OrderOfStream(r) /\ CutHasCause(r)
StreamShape == \A r \in Requests : Shape(r)

LEMMA InitShape == Init => StreamShape
BY DEF Init, L!Init, StreamShape, Shape, BeforeStream, LockOfStream, OrderOfStream,
     CutHasCause

\* A step of a request leaves the others alone.
LEMMA OthersUntouched ==
  ASSUME ChatTypes, NEW r \in Requests, Step(r), NEW q \in Requests, q # r
  PROVE  /\ pc'[q] = pc[q] /\ gen'[q] = gen[q] /\ mode'[q] = mode[q] /\ task'[q] = task[q]
         /\ saved'[q] = saved[q] /\ told'[q] = told[q] /\ base'[q] = base[q]
         /\ stop'[q] = stop[q]
<1> USE LockMoves DEF runVars, lockVars, MoveTo, Stored, NotStored, EnterFinally, CloseBoth
<1>0. pc \in [Requests -> P!Phases] /\ StreamTypes /\ base \in [Requests -> 0..Len(history)]
  BY DEF ChatTypes, P!LockInv, P!TypeOK, HistoryTypes
<1>1. CASE Arrive(r) \/ Handler(r) \/ Start(r) \/ DropResponse(r)
  BY <1>0, <1>1 DEF Arrive, Handler, Load, Refuse, Respond, Start, DropResponse, StreamTypes
<1>2. CASE AgentEmits(r) \/ AgentEnds(r) \/ Disconnect(r)
  BY <1>0, <1>2 DEF AgentEmits, AgentEnds, Disconnect, StreamTypes
<1>3. CASE Stream(r)
  BY <1>0, <1>3 DEF Stream, SetUp, ReadEvent, ReadEnd, JoinFailed, Joined, Save, StreamTypes
<1>4. CASE Sending(r)
  BY <1>0, <1>4 DEF Sending, ChunkSent, ErrorSent, DoneSent, StreamTypes
<1>5. CASE Cleanup(r)
  BY <1>0, <1>5 DEF Cleanup, CancelAwait, CancelJoin, CancelSave, CloseOuter, CloseInner, StreamTypes
<1> QED
  BY <1>1, <1>2, <1>3, <1>4, <1>5 DEF Step

LEMMA OwnShape ==
  ASSUME ChatTypes, NEW r \in Requests, Shape(r), Step(r)
  PROVE  Shape(r)'
<1> USE LockMoves DEF runVars, lockVars, MoveTo, At, Shape, BeforeStream, LockOfStream,
      OrderOfStream, CutHasCause, TaskOver, AtYield
<1>0. pc \in [Requests -> P!Phases] /\ StreamTypes
  BY DEF ChatTypes, P!LockInv, P!TypeOK
<1>1. CASE Arrive(r)
  BY <1>0, <1>1 DEF Arrive, StreamTypes
<1>2. CASE Load(r) \/ Refuse(r) \/ Respond(r)
  BY <1>0, <1>2 DEF Load, Refuse, Respond, StreamTypes
<1>3. CASE Start(r) \/ DropResponse(r)
  BY <1>0, <1>3 DEF Start, DropResponse, StreamTypes
<1>4. CASE AgentEmits(r) \/ AgentEnds(r)
  BY <1>0, <1>4 DEF AgentEmits, AgentEnds, StreamTypes
<1>5. CASE Disconnect(r)
  BY <1>0, <1>5 DEF Disconnect, StreamTypes
<1>6. CASE SetUp(r) \/ ReadEvent(r) \/ ChunkSent(r)
  BY <1>0, <1>6 DEF SetUp, ReadEvent, ChunkSent, StreamTypes
<1>7. CASE ReadEnd(r) \/ CancelAwait(r) \/ CloseInner(r)
  BY <1>0, <1>7 DEF ReadEnd, CancelAwait, CloseInner, EnterFinally, TaskOver, StreamTypes
<1>8. CASE ErrorSent(r)
  BY <1>0, <1>8 DEF ErrorSent, EnterFinally, StreamTypes
<1>9. CASE JoinFailed(r) \/ Joined(r)
  BY <1>0, <1>9 DEF JoinFailed, Joined, CloseBoth, StreamTypes
<1>10. CASE Save(r)
  BY <1>0, <1>10 DEF Save, Stored, NotStored, StreamTypes
<1>11. CASE DoneSent(r)
  BY <1>0, <1>11 DEF DoneSent, CloseBoth, StreamTypes
<1>12. CASE CancelJoin(r) \/ CloseOuter(r)
  BY <1>0, <1>12 DEF CancelJoin, CloseOuter, CloseBoth, StreamTypes
<1>13. CASE CancelSave(r)
  BY <1>0, <1>13 DEF CancelSave, Stored, NotStored, CloseBoth, StreamTypes
<1> QED
  BY <1>1, <1>2, <1>3, <1>4, <1>5, <1>6, <1>7, <1>8, <1>9, <1>10, <1>11, <1>12, <1>13
    DEF Step, Handler, Stream, Sending, Cleanup

LEMMA ShapeKept ==
  ASSUME ChatTypes, StreamShape, NEW r \in Requests, Step(r)
  PROVE  StreamShape'
<1> SUFFICES ASSUME NEW q \in Requests PROVE Shape(q)'
  BY DEF StreamShape
<1>1. CASE q = r
  BY <1>1, OwnShape DEF StreamShape
<1>2. CASE q # r
  <2>1. /\ pc'[q] = pc[q] /\ gen'[q] = gen[q] /\ mode'[q] = mode[q] /\ task'[q] = task[q]
        /\ saved'[q] = saved[q] /\ told'[q] = told[q] /\ stop'[q] = stop[q]
    BY <1>2, OthersUntouched
  <2>2. Shape(q)
    BY DEF StreamShape
  <2> QED
    BY <2>1, <2>2 DEF Shape, BeforeStream, LockOfStream, OrderOfStream, CutHasCause,
      TaskOver, AtYield
<1> QED
  BY <1>1, <1>2

-----------------------------------------------------------------------------
(* The stored turns *)

\* What a step of a request keeps of what it did and of what it loaded.
LEMMA StepKeeps ==
  ASSUME ChatTypes, NEW r \in Requests, Shape(r), Step(r)
  PROVE  /\ saved[r] # "no" => saved'[r] = saved[r]
         /\ task[r] \in {"ended", "stopped"} => task'[r] = task[r]
         /\ mode[r] = "detached" => mode'[r] = "detached"
         /\ L!InCritical(r)' /\ gen'[r] # "unloaded" =>
              Load(r) \/ (L!InCritical(r) /\ gen[r] # "unloaded")
<1> USE LockMoves DEF runVars, lockVars, MoveTo, At, Shape, BeforeStream, LockOfStream,
      OrderOfStream, L!InCritical
<1>0. pc \in [Requests -> P!Phases] /\ StreamTypes
  BY DEF ChatTypes, P!LockInv, P!TypeOK
<1>1. CASE Arrive(r) \/ Handler(r) \/ Start(r) \/ DropResponse(r)
  BY <1>0, <1>1 DEF Arrive, Handler, Load, Refuse, Respond, Start, DropResponse, StreamTypes
<1>2. CASE AgentEmits(r) \/ AgentEnds(r) \/ Disconnect(r)
  BY <1>0, <1>2 DEF AgentEmits, AgentEnds, Disconnect, StreamTypes
<1>3. CASE SetUp(r) \/ ReadEvent(r) \/ ReadEnd(r)
  BY <1>0, <1>3 DEF SetUp, ReadEvent, ReadEnd, EnterFinally, TaskOver, StreamTypes
<1>4. CASE JoinFailed(r) \/ Joined(r) \/ Save(r)
  BY <1>0, <1>4 DEF JoinFailed, Joined, Save, Stored, NotStored, CloseBoth, StreamTypes
<1>5. CASE Sending(r)
  BY <1>0, <1>5 DEF Sending, ChunkSent, ErrorSent, DoneSent, EnterFinally, CloseBoth, StreamTypes
<1>6. CASE CancelAwait(r) \/ CancelJoin(r) \/ CloseOuter(r) \/ CloseInner(r)
  BY <1>0, <1>6 DEF CancelAwait, CancelJoin, CloseOuter, CloseInner, EnterFinally, CloseBoth,
    StreamTypes
<1>7. CASE CancelSave(r)
  BY <1>0, <1>7 DEF CancelSave, Stored, NotStored, CloseBoth, StreamTypes
<1> QED
  BY <1>1, <1>2, <1>3, <1>4, <1>5, <1>6, <1>7 DEF Step, Stream, Cleanup

\* A stored turn has been saved by a request whose agent is over, once, and
\* without the lock by a detached stream only.
TurnsHaveSavers ==
  /\ \A i \in 1..Len(history) :
       /\ saved[history[i].by] = "ok" /\ task[history[i].by] \in {"ended", "stopped"}
       /\ history[i].locked \/ mode[history[i].by] = "detached"
  /\ \A i, j \in 1..Len(history) : history[i].by = history[j].by => i = j

\* While the lock excludes, whoever is to save under it has missed at most what
\* was saved without it.
MissedOnlyUnlocked(r) == \A j \in (base[r] + 1)..Len(history) : ~history[j].locked

NothingMissed ==
  L!HandedOver(MemoryId)
    \/ \A r \in Requests :
         L!InCritical(r) /\ gen[r] # "unloaded" /\ saved[r] = "no" => MissedOnlyUnlocked(r)

\* The same of the turns that are stored.
TurnsMissedUnlocked ==
  L!HandedOver(MemoryId)
    \/ \A i \in 1..Len(history) :
         history[i].base # i - 1 => \E j \in (history[i].base + 1)..i : ~history[j].locked

ChatInv ==
  ChatTypes /\ StreamShape /\ TurnsHaveSavers /\ TurnsMissedUnlocked /\ NothingMissed

LEMMA InitChat == Init => ChatInv
<1> SUFFICES ASSUME Init PROVE ChatInv
  OBVIOUS
<1>1. history = << >> /\ \A r \in Requests : gen[r] = "unloaded"
  BY DEF Init
<1> QED
  BY <1>1, InitTypes, InitShape DEF ChatInv, TurnsHaveSavers, TurnsMissedUnlocked, NothingMissed

\* Two requests are in the critical section only behind a handover.
LEMMA ExclusiveHere ==
  ASSUME P!LockInv, NEW q \in Requests, NEW r \in Requests, q # r,
         L!InCritical(q), L!InCritical(r)
  PROVE  L!HandedOver(MemoryId)
<1>1. P!InCritical(q) /\ P!InCritical(r)
  BY DEF L!InCritical, P!InCritical
<1>2. target[q] = MemoryId /\ target[r] = MemoryId
  BY <1>1 DEF P!LockInv, P!LocksHaveCreators, P!InCritical
<1>3. registry[MemoryId] = q \/ P!HandedOver(MemoryId)
  BY <1>1, <1>2 DEF P!LockInv, P!OwnerIsRegistered
<1>4. registry[MemoryId] = r \/ P!HandedOver(MemoryId)
  BY <1>1, <1>2 DEF P!LockInv, P!OwnerIsRegistered
<1> QED
  BY <1>3, <1>4, SameLock

LEMMA TurnsKept ==
  ASSUME ChatInv, NEW r \in Requests, Step(r)
  PROVE  TurnsHaveSavers'
<1>0. /\ ChatTypes /\ Shape(r) /\ TurnsHaveSavers
      /\ history \in Seq([by : Requests, base : Nat, locked : BOOLEAN])
      /\ saved \in [Requests -> {"no", "ok", "failed"}]
  BY DEF ChatInv, StreamShape, ChatTypes, HistoryTypes, StreamTypes
<1>1. \A i \in 1..Len(history) : history[i].by \in Requests
  <2> SUFFICES ASSUME NEW i \in 1..Len(history) PROVE history[i].by \in Requests
    OBVIOUS
  <2>1. history[i] \in [by : Requests, base : Nat, locked : BOOLEAN]
    BY <1>0, ElementOfSeq
  <2> QED
    BY <2>1
<1>2. \A q \in Requests :
        /\ saved[q] = "ok" /\ task[q] \in {"ended", "stopped"} =>
             saved'[q] = "ok" /\ task'[q] \in {"ended", "stopped"}
        /\ mode[q] = "detached" => mode'[q] = "detached"
  BY <1>0, StepKeeps, OthersUntouched
<1>3. CASE history' = history
  BY <1>0, <1>1, <1>2, <1>3 DEF TurnsHaveSavers
<1>4. CASE /\ gen[r] = "save" /\ task[r] # "none" /\ saved' = [saved EXCEPT ![r] = "ok"]
           /\ history' = Append(history, Turn(r))
  <2>1. saved[r] = "no" /\ task[r] \in {"ended", "stopped"}
    BY <1>0, <1>4 DEF Shape, OrderOfStream
  <2>2. saved'[r] = "ok" /\ task'[r] \in {"ended", "stopped"}
    BY <1>0, <1>4, <2>1, StepKeeps
  <2>3. \A i \in 1..Len(history) : history[i].by # r
    BY <1>0, <2>1 DEF TurnsHaveSavers
  <2>4. /\ Len(history') = Len(history) + 1 /\ Len(history) \in Nat
        /\ \A i \in 1..Len(history) : history'[i] = history[i]
        /\ history'[Len(history) + 1].by = r
        /\ history'[Len(history) + 1].locked = L!InCritical(r)
    BY <1>0, <1>4 DEF Turn
  <2>6. L!InCritical(r) \/ mode[r] = "detached"
    BY <1>0, <1>4 DEF Shape, LockOfStream, L!InCritical
  <2>5. \A i \in 1..Len(history') : i \in 1..Len(history) \/ i = Len(history) + 1
    BY <2>4
  <2> QED
    BY <1>0, <1>1, <1>2, <2>2, <2>3, <2>4, <2>5, <2>6 DEF TurnsHaveSavers
<1> QED
  BY <1>3, <1>4, HistoryMoves

LEMMA SerialKept ==
  ASSUME ChatInv, NEW r \in Requests, Step(r)
  PROVE  TurnsMissedUnlocked' /\ NothingMissed'
<1>0. /\ ChatTypes /\ StreamShape /\ Shape(r) /\ P!LockInv
      /\ history \in Seq([by : Requests, base : Nat, locked : BOOLEAN])
      /\ base \in [Requests -> 0..Len(history)]
      /\ saved \in [Requests -> {"no", "ok", "failed"}]
  BY DEF ChatInv, StreamShape, ChatTypes, HistoryTypes, StreamTypes
<1>1. L!HandedOver(MemoryId) => L!HandedOver(MemoryId)'
  <2>1. [P!Next]_(P!vars)
    BY StepFollowsLock, SameLock DEF Next
  <2>2. P!HandedOver(MemoryId) => P!HandedOver(MemoryId)'
    BY <1>0, <2>1, P!HandoverIsForGood
  <2>3. P!HandedOver(MemoryId)' <=> L!HandedOver(MemoryId)'
    BY DEF P!HandedOver, L!HandedOver
  <2> QED
    BY <2>2, <2>3, SameLock
<1> SUFFICES ASSUME ~L!HandedOver(MemoryId)' PROVE TurnsMissedUnlocked' /\ NothingMissed'
  <2>1. L!HandedOver(MemoryId)' => TurnsMissedUnlocked' /\ NothingMissed'
    BY DEF TurnsMissedUnlocked, NothingMissed
  <2> QED
    BY <2>1
<1>2. /\ \A i \in 1..Len(history) :
           history[i].base # i - 1 => \E j \in (history[i].base + 1)..i : ~history[j].locked
      /\ \A q \in Requests :
           L!InCritical(q) /\ gen[q] # "unloaded" /\ saved[q] = "no" => MissedOnlyUnlocked(q)
  BY <1>1 DEF ChatInv, TurnsMissedUnlocked, NothingMissed
\* Who is to save after the step was to save before it, or has just loaded.
<1>3. ASSUME NEW q \in Requests, L!InCritical(q)', gen'[q] # "unloaded", saved'[q] = "no"
      PROVE  \/ q = r /\ Load(r)
             \/ L!InCritical(q) /\ gen[q] # "unloaded" /\ saved[q] = "no"
  <2>1. CASE q = r
    BY <1>0, <1>3, <2>1, StepKeeps
  <2>2. CASE q # r
    BY <1>0, <1>3, <2>2, OthersUntouched DEF L!InCritical
  <2> QED
    BY <2>1, <2>2
<1>4. CASE history' = history /\ base' = base /\ ~Load(r)
  BY <1>2, <1>3, <1>4 DEF TurnsMissedUnlocked, NothingMissed, MissedOnlyUnlocked
<1>5. CASE Load(r)
  <2>1. history' = history /\ base' = [base EXCEPT ![r] = Len(history)] /\ Len(history) \in Nat
    BY <1>0, <1>5 DEF Load
  <2>2. TurnsMissedUnlocked'
    BY <1>2, <2>1 DEF TurnsMissedUnlocked
  <2>3. MissedOnlyUnlocked(r)'
    BY <1>0, <2>1 DEF MissedOnlyUnlocked
  <2>4. \A q \in Requests : q # r /\ MissedOnlyUnlocked(q) => MissedOnlyUnlocked(q)'
    BY <1>0, <2>1 DEF MissedOnlyUnlocked
  <2>5. NothingMissed'
    BY <1>2, <1>3, <2>3, <2>4 DEF NothingMissed
  <2> QED
    BY <2>2, <2>5
<1>6. CASE /\ gen[r] = "save" /\ saved' = [saved EXCEPT ![r] = "ok"]
           /\ history' = Append(history, Turn(r)) /\ base' = base
  <2> DEFINE n == Len(history)
  <2>1. /\ Len(history') = n + 1 /\ n \in Nat
        /\ \A i \in 1..n : history'[i] = history[i] /\ history[i].base \in Nat
        /\ history'[n + 1].base = base[r] /\ history'[n + 1].locked = L!InCritical(r)
        /\ base[r] \in 0..n
    <3>1. \A i \in 1..n : history[i].base \in Nat
      <4> SUFFICES ASSUME NEW i \in 1..n PROVE history[i].base \in Nat
        OBVIOUS
      <4>1. history[i] \in [by : Requests, base : Nat, locked : BOOLEAN]
        BY <1>0, ElementOfSeq
      <4> QED
        BY <4>1
    <3> QED
      BY <1>0, <1>6, <3>1 DEF Turn
  <2>2. saved[r] = "no" /\ saved'[r] = "ok"
    BY <1>0, <1>6 DEF Shape, OrderOfStream
  <2> HIDE DEF n
  \* The new turn, stale or not, is the last one.
  <2>3. base[r] # n => \E j \in (base[r] + 1)..(n + 1) : ~history'[j].locked
    <3>1. CASE ~L!InCritical(r)
      BY <2>1, <3>1
    <3>2. CASE L!InCritical(r)
      <4>1. MissedOnlyUnlocked(r)
        BY <1>2, <1>6, <2>2, <3>2
      <4> SUFFICES ASSUME base[r] # n
                   PROVE  \E j \in (base[r] + 1)..(n + 1) : ~history'[j].locked
        OBVIOUS
      <4>2. base[r] + 1 \in (base[r] + 1)..n /\ base[r] + 1 \in 1..n
        BY <2>1
      <4>3. ~history'[base[r] + 1].locked
        BY <2>1, <4>1, <4>2 DEF MissedOnlyUnlocked, n
      <4> QED
        BY <2>1, <4>2, <4>3
    <3> QED
      BY <3>1, <3>2
  <2>4. \A i \in 1..(n + 1) :
          history'[i].base # i - 1 => \E j \in (history'[i].base + 1)..i : ~history'[j].locked
    <3> SUFFICES ASSUME NEW i \in 1..(n + 1), history'[i].base # i - 1
                 PROVE  \E j \in (history'[i].base + 1)..i : ~history'[j].locked
      OBVIOUS
    <3>1. CASE i = n + 1
      BY <2>1, <2>3, <3>1
    <3>2. CASE i # n + 1
      <4>1. i \in 1..n
        BY <2>1, <3>2
      <4>2. PICK j \in (history[i].base + 1)..i : ~history[j].locked
        BY <1>2, <2>1, <4>1 DEF n
      <4>3. j \in 1..n
        BY <2>1, <4>1
      <4> QED
        BY <2>1, <4>1, <4>2, <4>3
    <3> QED
      BY <3>1, <3>2
  <2>5. TurnsMissedUnlocked'
    BY <2>1, <2>4 DEF TurnsMissedUnlocked
  <2>6. ~Load(r)
    BY <1>6 DEF Load
  \* Beside a turn saved under the lock nobody is to save under it.
  <2>7. NothingMissed'
    <3>1. CASE L!InCritical(r)
      <4>1. \A q \in Requests : q # r => ~L!InCritical(q)
        BY <1>0, <1>1, <3>1, ExclusiveHere
      <4> QED
        BY <1>3, <2>2, <2>6, <4>1 DEF NothingMissed
    <3>2. CASE ~L!InCritical(r)
      <4>1. ASSUME NEW q \in Requests, MissedOnlyUnlocked(q) PROVE MissedOnlyUnlocked(q)'
        <5>1. base[q] \in 0..n
          BY <1>0 DEF n
        <5> SUFFICES ASSUME NEW j \in (base[q] + 1)..(n + 1) PROVE ~history'[j].locked
          BY <1>6, <2>1 DEF MissedOnlyUnlocked
        <5>2. CASE j = n + 1
          BY <2>1, <3>2, <5>2
        <5>3. CASE j # n + 1
          <6>1. j \in (base[q] + 1)..n /\ j \in 1..n
            BY <2>1, <5>1, <5>3
          <6> QED
            BY <2>1, <4>1, <6>1 DEF MissedOnlyUnlocked, n
        <5> QED
          BY <5>2, <5>3
      <4> QED
        BY <1>2, <1>3, <2>6, <4>1 DEF NothingMissed
    <3> QED
      BY <3>1, <3>2
  <2> QED
    BY <2>5, <2>7
<1> QED
  BY <1>4, <1>5, <1>6, HistoryMoves

LEMMA StepChat == ChatInv /\ [Next]_vars => ChatInv'
<1> SUFFICES ASSUME ChatInv, [Next]_vars PROVE ChatInv'
  OBVIOUS
<1>1. ChatTypes'
  BY StepTypes DEF ChatInv
<1>2. ASSUME NEW r \in Requests, Step(r) PROVE ChatInv'
  BY <1>1, <1>2, ShapeKept, TurnsKept, SerialKept DEF ChatInv
<1>3. ASSUME UNCHANGED vars PROVE ChatInv'
  BY <1>1, <1>3 DEF vars, lockVars, runVars, ChatInv, StreamShape, Shape, BeforeStream, LockOfStream,
    OrderOfStream, CutHasCause, TaskOver, AtYield, TurnsHaveSavers, TurnsMissedUnlocked, NothingMissed,
    MissedOnlyUnlocked, L!HandedOver, L!InCritical
<1> QED
  BY <1>2, <1>3 DEF Next, Rest

THEOREM ChatInvariant == Spec => []ChatInv
BY InitChat, StepChat, PTL DEF Spec

\* A turn is stored once, when its agent is over, and a turn that was cut short
\* only for a client that left or was sent an Error, however the streams end
\* (the finally of _stream_events).
THEOREM TurnsAreOver == Spec => []StoredTurnsAreOver
<1>1. ASSUME ChatInv, NEW i \in 1..Len(history) PROVE CutHasCause(history[i].by)
  <2>1. history[i] \in [by : Requests, base : Nat, locked : BOOLEAN]
    BY <1>1, ElementOfSeq DEF ChatInv, ChatTypes, HistoryTypes
  <2> QED
    BY <1>1, <2>1 DEF ChatInv, StreamShape, Shape
<1>2. ChatInv => StoredTurnsAreOver
  BY <1>1 DEF ChatInv, TurnsHaveSavers, StoredTurnsAreOver, CutHasCause
<1> QED
  BY <1>2, ChatInvariant, PTL

\* A turn lost its context only behind a handover of the session's lock or to a
\* detached stream: the history a request loads under the lock is whole, and
\* nobody else saves under the lock until it has.
THEOREM TurnsSerialUntilHandover == Spec => []SerialUntilHandover
<1>1. ChatInv => SerialUntilHandover
  <2> SUFFICES ASSUME ChatInv, NEW i \in 1..Len(history), history[i].base # i - 1,
                      ~L!HandedOver(MemoryId)
               PROVE  \E j \in (history[i].base + 1)..i :
                        ~history[j].locked /\ mode[history[j].by] = "detached"
    BY DEF SerialUntilHandover
  <2>1. PICK j \in (history[i].base + 1)..i : ~history[j].locked
    BY DEF ChatInv, TurnsMissedUnlocked
  <2>2. j \in 1..Len(history)
    <3>1. history \in Seq([by : Requests, base : Nat, locked : BOOLEAN])
      BY DEF ChatInv, ChatTypes, HistoryTypes
    <3>2. history[i] \in [by : Requests, base : Nat, locked : BOOLEAN]
      BY <3>1, ElementOfSeq
    <3>3. history[i].base \in Nat /\ Len(history) \in Nat
      BY <3>1, <3>2
    <3> QED
      BY <3>3
  <2> QED
    BY <2>1, <2>2 DEF ChatInv, TurnsHaveSavers
<1> QED
  BY <1>1, ChatInvariant, PTL

\* A client that reads "done" can ask for the history: the save has been tried.
THEOREM DoneIsLast == Spec => []DoneComesAfterSave
<1>1. ChatInv => DoneComesAfterSave
  BY DEF ChatInv, StreamShape, Shape, OrderOfStream, DoneComesAfterSave
<1> QED
  BY <1>1, ChatInvariant, PTL

\* The finally of _stream_with_lock releases the lock under a running agent
\* only when the generators were dropped at a yield.
THEOREM LockOutlivesAgent == Spec => []NoAgentBehindReleasedLock
<1>1. ChatInv => NoAgentBehindReleasedLock
  BY DEF ChatInv, StreamShape, Shape, LockOfStream, OrderOfStream, NoAgentBehindReleasedLock
<1> QED
  BY <1>1, ChatInvariant, PTL
=============================================================================
