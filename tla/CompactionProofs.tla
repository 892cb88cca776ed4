--------------------------- MODULE CompactionProofs ---------------------------
(***************************************************************************)
(* The safety of a stored session under compactions and chats, for any     *)
(* number of each.                                                         *)
(*                                                                         *)
(* As in ChatStreamProofs every step is a step of SessionLock or leaves    *)
(* the lock alone.  On top of it: the forward offset, in the store and in  *)
(* the session objects of the chats, always has its summary behind it; and *)
(* as long as the lock excludes, whoever is to save has loaded the offset  *)
(* that is stored.                                                         *)
(***************************************************************************)
EXTENDS Compaction, SequenceTheorems, TLAPS

P == INSTANCE SessionLockProofs WITH Sessions <- {MemoryId}

USE NoneAssumption, RequestsAssumption

-----------------------------------------------------------------------------
(* The session lock *)

\* P instantiates the same specification as L.
LEMMA SameLock ==
  /\ P!Init <=> L!Init
  /\ [P!Next]_(P!vars) <=> [L!Next]_(L!vars)
  /\ P!TypeOK <=> L!TypeOK
  /\ P!HandedOver(MemoryId) <=> L!HandedOver(MemoryId)
<1>1. P!Init <=> L!Init
  BY DEF L!Init, P!Init
<1>2. [P!Next]_(P!vars) <=> [L!Next]_(L!vars)
  BY DEF L!Next, P!Next, L!vars, P!vars, L!lockVars, P!lockVars, L!Step, P!Step, L!Rest, P!Rest,
    L!Acquire, P!Acquire, L!acquire_session_lock, P!acquire_session_lock, L!LookupLock,
    P!LookupLock, L!AsyncAcquire, P!AsyncAcquire, L!FreeAtOnce, P!FreeAtOnce, L!Resume, P!Resume,
    L!GoTo, P!GoTo, L!Reject, P!Reject, L!release_session_lock, P!release_session_lock,
    L!AsyncRelease, P!AsyncRelease, L!Respond, P!Respond, L!StartStream, P!StartStream,
    L!DisconnectBeforeStart, P!DisconnectBeforeStart, L!EndStream, P!EndStream,
    L!BehindAbandoned, P!BehindAbandoned
<1>3. P!TypeOK <=> L!TypeOK
  BY DEF P!TypeOK, L!TypeOK, L!Phases, P!Phases
<1>4. P!HandedOver(MemoryId) <=> L!HandedOver(MemoryId)
  BY DEF P!HandedOver, L!HandedOver
<1> QED
  BY <1>1, <1>2, <1>3, <1>4

\* No step of a session is news to the lock.
LEMMA StepFollowsLock == [Next]_vars => [L!Next]_(L!vars)
<1> SUFFICES ASSUME [Next]_vars PROVE [L!Next]_(L!vars)
  OBVIOUS
<1> DEFINE Kept == UNCHANGED lockVars
<1>k. Kept => UNCHANGED L!vars
  BY DEF lockVars, L!vars, L!lockVars
<1>1. ASSUME NEW r \in Requests, Step(r) PROVE L!Step(r) \/ Kept
  <2>1. CASE Arrive(r) \/ Handler(r) \/ Start(r) \/ DropResponse(r)
    BY <2>1 DEF Arrive, Handler, Load, Refuse, Respond, Start, DropResponse, L!Step
  <2>2. CASE Chat(r) \/ ChatDetaches(r)
    BY <2>2 DEF Chat, ChatSaves, ChatFails, ChatDetaches, L!Step
  <2>3. CASE Stream(r)
    BY <2>3 DEF Stream, Sending, StartSent, Delta, ChunkSent, LlmEnds, Save, EndSent, DoneSent, L!Step
  <2>4. CASE Disconnect(r) \/ Close(r)
    BY <2>4 DEF Disconnect, Close, L!Step
  <2> QED
    BY <1>1, <2>1, <2>2, <2>3, <2>4 DEF Step
<1>2. ASSUME delete_session \/ Rest \/ UNCHANGED vars PROVE Kept
  BY <1>2 DEF delete_session, Rest, vars
<1> HIDE DEF Kept
<1> QED
  BY <1>k, <1>1, <1>2 DEF Next, L!Next

\* Where the actions of the lock take a request.
LEMMA LockMoves ==
  ASSUME NEW r \in Requests
  PROVE  /\ L!Acquire(r, MemoryId) \/ L!Resume(r) =>
              /\ pc[r] \in {"new", "waiting"}
              /\ pc' = [pc EXCEPT ![r] = "loading"] \/ pc' = [pc EXCEPT ![r] = "waiting"]
         /\ L!Reject(r) => pc[r] = "loading" /\ pc' = [pc EXCEPT ![r] = "done"]
         /\ L!Respond(r) => pc[r] = "loading" /\ pc' = [pc EXCEPT ![r] = "responded"]
         /\ L!StartStream(r) => pc[r] = "responded" /\ pc' = [pc EXCEPT ![r] = "streaming"]
         /\ L!DisconnectBeforeStart(r) =>
              pc[r] = "responded" /\ pc' = [pc EXCEPT ![r] = "abandoned"]
         /\ L!EndStream(r) => pc[r] = "streaming" /\ pc' = [pc EXCEPT ![r] = "done"]
BY DEF L!Acquire, L!acquire_session_lock, L!AsyncAcquire, L!Resume, L!Reject, L!Respond,
  L!StartStream, L!DisconnectBeforeStart, L!EndStream, L!GoTo

\* Two requests are in the critical section only behind a handover.
LEMMA ExclusiveHere ==
  ASSUME P!LockInv, NEW q \in Requests, NEW r \in Requests, q # r,
         L!InCritical(q), L!InCritical(r)
  PROVE  L!HandedOver(MemoryId)
<1>1. P!InCritical(q) /\ P!InCritical(r)
  BY DEF L!InCritical, P!InCritical
<1>2. target[q] = MemoryId /\ target[r] = MemoryId
  BY <1>1 DEF P!LockInv, P!LocksHaveCreators, P!InCritical
<1>3. registry[MemoryId] = q \/ P!HandedOver(MemoryId)
  BY <1>1, <1>2 DEF P!LockInv, P!OwnerIsRegistered
<1>4. registry[MemoryId] = r \/ P!HandedOver(MemoryId)
  BY <1>1, <1>2 DEF P!LockInv, P!OwnerIsRegistered
<1> QED
  BY <1>3, <1>4, SameLock

-----------------------------------------------------------------------------
(* Type correctness *)

\* TypeOK without the lock, the store and what was loaded of it.
GenTypes ==
  /\ at \in [Requests -> Positions]
  /\ detached \in [Requests -> BOOLEAN]
  /\ result \in [Requests -> {"nothing", "summary", "error"}]
  /\ saved \in [Requests -> {"no", "ok", "failed", "missing"}]
  /\ told \in [Requests -> {"none", "summary", "nothing", "error"}]

StoreTypes ==
  /\ history \in Seq(Entries)
  /\ offset \in 0..Len(history)
  /\ deleted \in BOOLEAN
  /\ base \in [Requests -> 0..Len(history)]
  /\ forward \in [Requests -> 0..Len(history)]

LEMMA GenTypesKept ==
  ASSUME GenTypes, NEW r \in Requests, Step(r)
  PROVE  GenTypes'
<1> USE DEF GenTypes, genVars, MoveTo, Positions
<1>1. CASE Arrive(r) \/ Handler(r) \/ Start(r) \/ DropResponse(r)
  BY <1>1 DEF Arrive, Handler, Load, Refuse, Respond, Start, DropResponse
<1>2. CASE Chat(r) \/ ChatDetaches(r)
  BY <1>2 DEF Chat, ChatSaves, ChatFails, ChatDetaches, Stored, NotStored
<1>3. CASE StartSent(r) \/ Delta(r) \/ ChunkSent(r) \/ LlmEnds(r)
  BY <1>3 DEF StartSent, Delta, ChunkSent, LlmEnds
<1>4. CASE Save(r) \/ Disconnect(r) \/ Close(r)
  BY <1>4 DEF Save, Disconnect, Close, Stored, NotStored
<1>5. CASE EndSent(r) \/ DoneSent(r)
  BY <1>5 DEF EndSent, DoneSent
<1> QED
  BY <1>1, <1>2, <1>3, <1>4, <1>5 DEF Step, Stream, Sending

\* What a step does to the store: nothing, a load, or a save under the offset
\* that was loaded or that a compaction makes of it.
LEMMA StoreMoves ==
  ASSUME GenTypes, NEW r \in Requests, Step(r)
  PROVE  /\ deleted' = deleted
         /\ \/ UNCHANGED <<history, offset, base, forward>>
            \/ /\ Load(r) /\ UNCHANGED <<history, offset>>
               /\ base' = [base EXCEPT ![r] = Len(history)]
               /\ forward' = [forward EXCEPT ![r] = offset]
            \/ /\ r \in Compactions /\ at[r] = "save"
               /\ UNCHANGED <<history, offset, base>>
               /\ forward' = [forward EXCEPT ![r] = base[r]] /\ saved'[r] # "ok"
            \/ /\ r \in Compactions /\ at[r] = "save" /\ saved' = [saved EXCEPT ![r] = "ok"]
               /\ history' = Append(history, Entry(r)) /\ offset' = base[r] /\ base' = base
               /\ forward' = [forward EXCEPT ![r] = base[r]]
            \/ /\ at[r] = "answering" /\ saved' = [saved EXCEPT ![r] = "ok"]
               /\ history' = Append(history, Entry(r)) /\ offset' = forward[r]
               /\ UNCHANGED <<base, forward>>
<1> USE DEF storeVars, GenTypes
<1>1. CASE Load(r)
  BY <1>1 DEF Load, storeVars
<1>2. CASE Save(r) \/ Disconnect(r) \/ Close(r)
  BY <1>2 DEF Save, Disconnect, Close, IsCompaction, IsCompacting, Stored, NotStored
<1>3. CASE ChatSaves(r)
  BY <1>3 DEF ChatSaves, Stored, NotStored
<1>4. CASE \/ Arrive(r) \/ Refuse(r) \/ Respond(r) \/ Start(r) \/ DropResponse(r)
           \/ ChatFails(r) \/ ChatDetaches(r)
  BY <1>4 DEF Arrive, Refuse, Respond, Start, DropResponse, ChatFails, ChatDetaches
<1>5. CASE StartSent(r) \/ Delta(r) \/ ChunkSent(r) \/ LlmEnds(r) \/ EndSent(r) \/ DoneSent(r)
  BY <1>5 DEF StartSent, Delta, ChunkSent, LlmEnds, EndSent, DoneSent
<1> QED
  BY <1>1, <1>2, <1>3, <1>4, <1>5 DEF Step, Handler, Chat, Stream, Sending

LEMMA EntryType ==
  ASSUME StoreTypes, NEW r \in Requests
  PROVE  Entry(r) \in Entries
BY DEF StoreTypes, Entry, Entries, L!InCritical

LEMMA StoreTypesKept ==
  ASSUME GenTypes, StoreTypes, NEW r \in Requests, Step(r)
  PROVE  StoreTypes'
<1>0. /\ history \in Seq(Entries) /\ Len(history) \in Nat /\ Entry(r) \in Entries
      /\ base[r] \in 0..Len(history) /\ forward[r] \in 0..Len(history)
  BY EntryType DEF StoreTypes
<1>1. CASE history' = history
  <2>1. history # Append(history, Entry(r))
    BY <1>0
  <2>2. /\ deleted' = deleted /\ offset' = offset
        /\ base' = base \/ base' = [base EXCEPT ![r] = Len(history)]
        /\ \/ forward' = forward \/ forward' = [forward EXCEPT ![r] = offset]
           \/ forward' = [forward EXCEPT ![r] = base[r]]
    BY <1>1, <2>1, StoreMoves
  <2> QED
    BY <1>0, <1>1, <2>2 DEF StoreTypes
<1>2. CASE history' = Append(history, Entry(r))
  <2>1. history' \in Seq(Entries) /\ Len(history') = Len(history) + 1
    BY <1>0, <1>2
  <2>2. history' # history
    BY <1>0, <2>1
  <2>3. /\ deleted' = deleted /\ base' = base
        /\ offset' \in {base[r], forward[r]}
        /\ forward' = forward \/ forward' = [forward EXCEPT ![r] = base[r]]
    BY <2>2, StoreMoves
  <2>4. 0..Len(history) \subseteq 0..Len(history')
    BY <1>0, <2>1
  <2> QED
    BY <1>0, <2>1, <2>3, <2>4 DEF StoreTypes
<1> QED
  BY <1>1, <1>2, StoreMoves

Types == P!LockInv /\ GenTypes /\ StoreTypes

LEMMA InitTypes == Init => Types
<1> SUFFICES ASSUME Init PROVE Types
  OBVIOUS
<1>1. P!LockInv
  BY SameLock, P!InitInv DEF Init
<1>2. GenTypes
  BY DEF Init, GenTypes, Positions
<1>3. StoreTypes
  <2> DEFINE first == [by |-> None, summary |-> FALSE, covers |-> 0, locked |-> TRUE]
  <2>1. first \in Entries
    BY DEF Entries
  <2>2. history = << first >>
    BY DEF Init
  <2> HIDE DEF first
  <2>3. history \in Seq(Entries) /\ Len(history) = 1
    BY <2>1, <2>2
  <2>4. /\ offset = 0 /\ deleted = FALSE
        /\ base = [r \in Requests |-> 0] /\ forward = [r \in Requests |-> 0]
    BY DEF Init
  <2>5. 0 \in 0..Len(history)
    BY <2>3
  <2>6. /\ base \in [Requests -> 0..Len(history)] /\ forward \in [Requests -> 0..Len(history)]
        /\ offset \in 0..Len(history) /\ deleted \in BOOLEAN
    BY <2>4, <2>5
  <2> QED
    BY <2>3, <2>6 DEF StoreTypes
<1> QED
  BY <1>1, <1>2, <1>3 DEF Types

LEMMA StepTypes == Types /\ [Next]_vars => Types'
<1> SUFFICES ASSUME Types, [Next]_vars PROVE Types'
  OBVIOUS
<1>1. P!LockInv'
  BY SameLock, StepFollowsLock, P!StepInv DEF Types
<1>2. ASSUME NEW r \in Requests, Step(r) PROVE Types'
  BY <1>1, <1>2, GenTypesKept, StoreTypesKept DEF Types
<1>3. ASSUME delete_session \/ Rest \/ UNCHANGED vars PROVE Types'
  BY <1>1, <1>3 DEF delete_session, Rest, vars, genVars, storeVars, Types, GenTypes, StoreTypes
<1> QED
  BY <1>2, <1>3 DEF Next

\* Type correctness of the session, its requests and the lock behind them.
THEOREM TypeCorrect == Spec => []TypeOK
<1>1. Types => TypeOK
  BY SameLock DEF Types, GenTypes, StoreTypes, TypeOK, P!LockInv
<1> QED
  BY <1>1, InitTypes, StepTypes, PTL DEF Spec

-----------------------------------------------------------------------------
(* What a request has done so far *)

\* The handler has not started the generator, and nothing was done.
BeforeStream(r) ==
  /\ at[r] = "unloaded" => pc[r] \in {"new", "waiting", "loading", "done"}
  /\ at[r] = "loaded" => pc[r] \in {"loading", "responded", "abandoned", "done"}
  /\ pc[r] = "responded" => at[r] = "loaded"
  /\ at[r] \in {"unloaded", "loaded"} => saved[r] = "no" /\ told[r] = "none" /\ ~detached[r]

\* A generator holds the lock, but for a chat that gave it up.
LockOfStream(r) ==
  /\ pc[r] = "streaming" <=> at[r] \notin {"unloaded", "loaded", "over"} /\ ~detached[r]
  /\ at[r] \notin {"unloaded", "loaded"} => pc[r] \in {"streaming", "done"}
  /\ r \in Compactions => ~detached[r] /\ at[r] # "answering"

\* The summary is saved once, and before the client is told.
OrderOfStream(r) ==
  /\ at[r] \in {"startYield", "llm", "chunkYield", "save", "answering"} =>
       saved[r] = "no" /\ told[r] = "none"
  /\ at[r] = "endYield" /\ result[r] = "summary" => saved[r] # "no"
  /\ told[r] = "summary" => saved[r] # "no" /\ r \in Compactions

Shape(r) == BeforeStream(r) /\ LockOfStream(r) /\ OrderOfStream(r)
StreamShape == \A r \in Requests : Shape(r)

LEMMA InitShape == Init => StreamShape
BY DEF Init, L!Init, StreamShape, Shape, BeforeStream, LockOfStream, OrderOfStream

LEMMA OthersUntouched ==
  ASSUME Types, NEW r \in Requests, Step(r), NEW q \in Requests, q # r
  PROVE  /\ pc'[q] = pc[q] /\ at'[q] = at[q] /\ detached'[q] = detached[q]
         /\ result'[q] = result[q] /\ saved'[q] = saved[q] /\ told'[q] = told[q]
         /\ base'[q] = base[q] /\ forward'[q] = forward[q]
<1> USE LockMoves DEF genVars, storeVars, lockVars, MoveTo, Stored, NotStored
<1>0. /\ pc \in [Requests -> P!Phases] /\ GenTypes
      /\ base \in [Requests -> 0..Len(history)] /\ forward \in [Requests -> 0..Len(history)]
  BY DEF Types, P!LockInv, P!TypeOK, StoreTypes
<1>1. CASE Arrive(r) \/ Handler(r) \/ Start(r) \/ DropResponse(r)
  BY <1>0, <1>1 DEF Arrive, Handler, Load, Refuse, Respond, Start, DropResponse, GenTypes
<1>2. CASE Chat(r) \/ ChatDetaches(r)
  BY <1>0, <1>2 DEF Chat, ChatSaves, ChatFails, ChatDetaches, GenTypes
<1>3. CASE StartSent(r) \/ Delta(r) \/ ChunkSent(r) \/ LlmEnds(r) \/ EndSent(r) \/ DoneSent(r)
  BY <1>0, <1>3 DEF StartSent, Delta, ChunkSent, LlmEnds, EndSent, DoneSent, GenTypes
<1>4. CASE Save(r) \/ Disconnect(r) \/ Close(r)
  BY <1>0, <1>4 DEF Save, Disconnect, Close, GenTypes
<1> QED
  BY <1>1, <1>2, <1>3, <1>4 DEF Step, Stream, Sending

LEMMA OwnShape ==
  ASSUME Types, NEW r \in Requests, Shape(r), Step(r)
  PROVE  Shape(r)'
<1> USE LockMoves DEF genVars, storeVars, lockVars, MoveTo, Shape, BeforeStream, LockOfStream,
      OrderOfStream, IsCompaction, IsCompacting, Yields
<1>0. pc \in [Requests -> P!Phases] /\ GenTypes
  BY DEF Types, P!LockInv, P!TypeOK
<1>1. CASE Arrive(r)
  BY <1>0, <1>1 DEF Arrive, GenTypes
<1>2. CASE Handler(r)
  BY <1>0, <1>2 DEF Handler, Load, Refuse, Respond, GenTypes
<1>3. CASE Start(r) \/ DropResponse(r)
  BY <1>0, <1>3 DEF Start, DropResponse, GenTypes
<1>4. CASE ChatSaves(r)
  BY <1>0, <1>4 DEF ChatSaves, Stored, NotStored, GenTypes
<1>5. CASE ChatFails(r) \/ ChatDetaches(r)
  BY <1>0, <1>5 DEF ChatFails, ChatDetaches, GenTypes
<1>6. CASE StartSent(r) \/ Delta(r) \/ ChunkSent(r) \/ LlmEnds(r)
  BY <1>0, <1>6 DEF StartSent, Delta, ChunkSent, LlmEnds, GenTypes
<1>7. CASE Save(r)
  BY <1>0, <1>7 DEF Save, Stored, NotStored, GenTypes
<1>8. CASE Disconnect(r) \/ Close(r)
  BY <1>0, <1>8 DEF Disconnect, Close, Stored, NotStored, GenTypes
<1>9. CASE EndSent(r) \/ DoneSent(r)
  BY <1>0, <1>9 DEF EndSent, DoneSent, GenTypes
<1> QED
  BY <1>1, <1>2, <1>3, <1>4, <1>5, <1>6, <1>7, <1>8, <1>9 DEF Step, Chat, Stream, Sending

LEMMA ShapeKept ==
  ASSUME Types, StreamShape, NEW r \in Requests, Step(r)
  PROVE  StreamShape'
<1> SUFFICES ASSUME NEW q \in Requests PROVE Shape(q)'
  BY DEF StreamShape
<1>1. CASE q = r
  BY <1>1, OwnShape DEF StreamShape
<1>2. CASE q # r
  <2>1. /\ pc'[q] = pc[q] /\ at'[q] = at[q] /\ detached'[q] = detached[q]
        /\ result'[q] = result[q] /\ saved'[q] = saved[q] /\ told'[q] = told[q]
    BY <1>2, OthersUntouched
  <2>2. Shape(q)
    BY DEF StreamShape
  <2> QED
    BY <2>1, <2>2 DEF Shape, BeforeStream, LockOfStream, OrderOfStream
<1> QED
  BY <1>1, <1>2

-----------------------------------------------------------------------------
(* The forward offset and its summaries *)

\* A summary behind offset o covers what comes before it.
Covered(o) ==
  o > 0 => \E i \in (o + 1)..Len(history) : history[i].summary /\ history[i].covers >= o

\* The stored offset is covered, and so is each that a chat has loaded.
OffsetsCovered == Covered(offset) /\ \A r \in Chats : Covered(forward[r])

\* A compaction that saved well has its summary in the store.
SummariesStored ==
  \A r \in Compactions :
    saved[r] = "ok" => \E i \in 1..Len(history) : history[i].by = r /\ history[i].covers = base[r]

\* While the lock excludes, whoever is to save has loaded what is stored.
NothingMissed ==
  L!HandedOver(MemoryId) \/ (\E j \in 1..Len(history) : ~history[j].locked)
    \/ \A r \in Requests :
         L!InCritical(r) /\ at[r] # "unloaded" /\ saved[r] = "no" =>
           base[r] = Len(history) /\ (r \in Chats => forward[r] = offset)

CompactionInv ==
  Types /\ StreamShape /\ OffsetsCovered /\ SummariesSavedUnderLock /\ SummariesStored
    /\ NothingMissed

\* A request that saves, and the entry it adds.
Saves(r) ==
  /\ saved' = [saved EXCEPT ![r] = "ok"]
  /\ history' = Append(history, Entry(r)) /\ base' = base
  /\ \/ /\ r \in Compactions /\ at[r] = "save"
        /\ offset' = base[r] /\ forward' = [forward EXCEPT ![r] = base[r]]
     \/ /\ r \in Chats /\ at[r] = "answering"
        /\ offset' = forward[r] /\ forward' = forward

\* The other steps leave the store alone.
LEMMA SavesOrNot ==
  ASSUME Types, NEW r \in Requests, Shape(r), Step(r)
  PROVE  \/ Saves(r)
         \/ /\ UNCHANGED <<history, offset>>
            /\ \/ UNCHANGED <<base, forward>> /\ ~Load(r)
               \/ /\ Load(r) /\ base' = [base EXCEPT ![r] = Len(history)]
                  /\ forward' = [forward EXCEPT ![r] = offset]
               \/ /\ r \in Compactions /\ at[r] = "save" /\ base' = base
                  /\ forward' = [forward EXCEPT ![r] = base[r]]
<1>1. at[r] = "answering" => r \in Chats
  BY DEF Shape, LockOfStream, Requests
<1>2. CASE Load(r)
  BY <1>2 DEF Load, storeVars
<1>3. CASE ~Load(r)
  BY <1>1, <1>3, StoreMoves DEF Types, Saves
<1> QED
  BY <1>2, <1>3

LEMMA AppendMoves ==
  ASSUME Types, NEW r \in Requests, history' = Append(history, Entry(r))
  PROVE  /\ Len(history) \in Nat /\ Len(history') = Len(history) + 1
         /\ \A i \in 1..Len(history) : history'[i] = history[i]
         /\ history'[Len(history) + 1] = Entry(r)
<1>1. history \in Seq(Entries) /\ Entry(r) \in Entries
  BY EntryType DEF Types, StoreTypes
<1> QED
  BY <1>1

\* What is covered stays covered.
LEMMA CoveredKept ==
  ASSUME Types, NEW r \in Requests, history' = Append(history, Entry(r)), NEW o \in Nat, Covered(o)
  PROVE  o > 0 => \E i \in (o + 1)..Len(history') : history'[i].summary /\ history'[i].covers >= o
<1> SUFFICES ASSUME o > 0
             PROVE  \E i \in (o + 1)..Len(history') : history'[i].summary /\ history'[i].covers >= o
  OBVIOUS
<1>1. PICK i \in (o + 1)..Len(history) : history[i].summary /\ history[i].covers >= o
  BY DEF Covered
<1>2. i \in 1..Len(history) /\ i \in (o + 1)..Len(history')
  BY <1>1, AppendMoves
<1> QED
  BY <1>1, <1>2, AppendMoves

LEMMA CoveredStep ==
  ASSUME CompactionInv, NEW r \in Requests, Step(r)
  PROVE  OffsetsCovered'
<1>0. /\ Types /\ Shape(r) /\ OffsetsCovered /\ StoreTypes
      /\ \A q \in Requests : base[q] \in 0..Len(history) /\ forward[q] \in 0..Len(history)
      /\ offset \in 0..Len(history) /\ Len(history) \in Nat
      /\ forward \in [Requests -> 0..Len(history)]
  BY DEF CompactionInv, StreamShape, Types, StoreTypes
<1>1. CASE history' = history /\ offset' = offset
  <2>1. forward' = forward \/ forward' = [forward EXCEPT ![r] = offset]
          \/ (r \in Compactions /\ forward' = [forward EXCEPT ![r] = base[r]])
    <3>1. history # Append(history, Entry(r))
      BY <1>0, EntryType DEF StoreTypes
    <3> QED
      BY <1>0, <1>1, <3>1, SavesOrNot DEF Saves
  <2>2. \A q \in Chats : forward'[q] = forward[q] \/ forward'[q] = offset
    BY <1>0, <2>1 DEF Requests
  <2> QED
    BY <1>0, <1>1, <2>2 DEF OffsetsCovered, Covered
<1>2. CASE Saves(r)
  <2>1. \A q \in Chats : forward'[q] = forward[q]
    BY <1>0, <1>2 DEF Saves, Requests
  <2>2. \A q \in Chats : Covered(forward[q])'
    <3> SUFFICES ASSUME NEW q \in Chats PROVE Covered(forward[q])'
      OBVIOUS
    <3>1. Covered(forward[q]) /\ forward[q] \in Nat
      BY <1>0 DEF OffsetsCovered, Requests
    <3> QED
      BY <1>0, <1>2, <2>1, <3>1, CoveredKept DEF Saves, Covered
  <2>3. CASE r \in Chats
    <3>1. offset' = forward'[r]
      BY <1>2, <2>1, <2>3 DEF Saves
    <3> QED
      BY <2>2, <2>3, <3>1 DEF OffsetsCovered, Covered
  <2>4. CASE r \in Compactions
    <3>1. offset' = base[r]
      BY <1>2, <2>4 DEF Saves
    <3>2. Entry(r).summary /\ Entry(r).covers = base[r]
      BY <2>4 DEF Entry
    <3>3. Len(history') = Len(history) + 1 /\ history'[Len(history) + 1] = Entry(r)
      BY <1>0, <1>2, AppendMoves DEF Saves
    <3>4. Len(history) + 1 \in (base[r] + 1)..Len(history')
      BY <1>0, <3>3
    <3>5. Covered(offset)'
      BY <1>0, <3>1, <3>2, <3>3, <3>4 DEF Covered
    <3> QED
      BY <2>2, <3>5 DEF OffsetsCovered
  <2> QED
    BY <2>3, <2>4 DEF Requests
<1> QED
  BY <1>0, <1>1, <1>2, SavesOrNot

-----------------------------------------------------------------------------
(* The summaries *)

\* What a step keeps of what a request saved and loaded.
LEMMA StepKeeps ==
  ASSUME Types, NEW r \in Requests, Shape(r), Step(r)
  PROVE  /\ saved[r] # "no" => saved'[r] = saved[r]
         /\ saved'[r] = "ok" => saved[r] = "ok" \/ Saves(r)
         /\ saved[r] = "ok" => base'[r] = base[r]
         /\ L!InCritical(r)' /\ at'[r] # "unloaded" =>
              Load(r) \/ (L!InCritical(r) /\ at[r] # "unloaded")
<1> USE LockMoves DEF genVars, storeVars, lockVars, MoveTo, Shape, BeforeStream, LockOfStream,
      OrderOfStream, L!InCritical, IsCompaction, IsCompacting, Stored, NotStored
<1>0. pc \in [Requests -> P!Phases] /\ GenTypes
  BY DEF Types, P!LockInv, P!TypeOK
<1>1. CASE Arrive(r) \/ Handler(r) \/ Start(r) \/ DropResponse(r)
  BY <1>0, <1>1 DEF Arrive, Handler, Load, Refuse, Respond, Start, DropResponse, GenTypes
<1>2. CASE ChatFails(r) \/ ChatDetaches(r)
  BY <1>0, <1>2 DEF ChatFails, ChatDetaches, GenTypes
<1>3. CASE StartSent(r) \/ Delta(r) \/ ChunkSent(r) \/ LlmEnds(r) \/ EndSent(r) \/ DoneSent(r)
  BY <1>0, <1>3 DEF StartSent, Delta, ChunkSent, LlmEnds, EndSent, DoneSent, GenTypes
<1>4. CASE ChatSaves(r)
  <2>1. r \in Chats
    BY <1>4 DEF ChatSaves, Requests
  <2> QED
    BY <1>0, <1>4, <2>1 DEF ChatSaves, Saves, GenTypes
<1>5. CASE Save(r)
  BY <1>0, <1>5 DEF Save, Saves, GenTypes
<1>6. CASE Disconnect(r) \/ Close(r)
  BY <1>0, <1>6 DEF Disconnect, Close, Saves, GenTypes
<1> QED
  BY <1>1, <1>2, <1>3, <1>4, <1>5, <1>6 DEF Step, Chat, Stream, Sending

\* A compaction that saves holds the lock.
LEMMA SummaryUnderLock ==
  ASSUME NEW r \in Requests, Shape(r), Saves(r), r \in Compactions
  PROVE  Entry(r).locked
BY DEF Shape, LockOfStream, Saves, Entry, L!InCritical

LEMMA SummariesStep ==
  ASSUME CompactionInv, NEW r \in Requests, Step(r)
  PROVE  SummariesSavedUnderLock' /\ SummariesStored'
<1>0. Types /\ Shape(r) /\ SummariesSavedUnderLock /\ SummariesStored
  BY DEF CompactionInv, StreamShape
<1>n. \A i \in 1..Len(history') :
        history' = Append(history, Entry(r)) => i \in 1..Len(history) \/ i = Len(history) + 1
  BY <1>0, AppendMoves
<1>1. SummariesSavedUnderLock'
  <2>1. CASE history' = history
    BY <1>0, <2>1 DEF SummariesSavedUnderLock
  <2>2. CASE Saves(r)
    <3>1. Entry(r).summary => Entry(r).locked
      BY <1>0, <2>2, SummaryUnderLock DEF Entry
    <3> QED
      BY <1>0, <1>n, <2>2, <3>1, AppendMoves DEF Saves, SummariesSavedUnderLock
  <2> QED
    BY <1>0, <2>1, <2>2, SavesOrNot
<1>2. SummariesStored'
  <2> SUFFICES ASSUME NEW q \in Compactions, saved'[q] = "ok"
               PROVE  \E i \in 1..Len(history') : history'[i].by = q /\ history'[i].covers = base'[q]
    BY DEF SummariesStored
  <2>q. q \in Requests
    BY DEF Requests
  <2>1. CASE saved[q] = "ok"
    <3>1. base'[q] = base[q]
      BY <1>0, <2>q, <2>1, StepKeeps, OthersUntouched
    <3>2. PICK i \in 1..Len(history) : history[i].by = q /\ history[i].covers = base[q]
      BY <1>0, <2>1 DEF SummariesStored
    <3>3. i \in 1..Len(history') /\ history'[i] = history[i]
      <4>1. CASE history' = history
        BY <4>1
      <4>2. CASE history' = Append(history, Entry(r))
        BY <1>0, <4>2, AppendMoves
      <4> QED
        BY <1>0, <4>1, <4>2, SavesOrNot DEF Saves
    <3> QED
      BY <3>1, <3>2, <3>3
  <2>2. CASE saved[q] # "ok"
    <3>1. q = r
      BY <1>0, <2>q, <2>2, OthersUntouched
    <3>2. Saves(r)
      BY <1>0, <2>2, <3>1, StepKeeps
    <3>3. Entry(r).by = q /\ Entry(r).covers = base'[q]
      BY <3>1, <3>2 DEF Entry, Saves
    <3>4. Len(history) + 1 \in 1..Len(history') /\ history'[Len(history) + 1] = Entry(r)
      BY <1>0, <3>2, AppendMoves DEF Saves
    <3> QED
      BY <3>3, <3>4
  <2> QED
    BY <2>1, <2>2
<1> QED
  BY <1>1, <1>2

-----------------------------------------------------------------------------
(* The lock and the offset *)

\* With the lock excluding, a save finds what it has loaded.
LEMMA SavedOnTop ==
  ASSUME CompactionInv, NEW r \in Requests, Saves(r), L!InCritical(r),
         ~L!HandedOver(MemoryId), \A j \in 1..Len(history) : history[j].locked
  PROVE  base[r] = Len(history) /\ (r \in Chats => forward[r] = offset)
<1>1. at[r] # "unloaded" /\ saved[r] = "no"
  BY DEF CompactionInv, StreamShape, Shape, OrderOfStream, Saves
<1> QED
  BY <1>1 DEF CompactionInv, NothingMissed

LEMMA MissedStep ==
  ASSUME CompactionInv, NEW r \in Requests, Step(r)
  PROVE  NothingMissed'
<1>0. /\ Types /\ StreamShape /\ Shape(r) /\ P!LockInv /\ NothingMissed
      /\ base \in [Requests -> 0..Len(history)] /\ forward \in [Requests -> 0..Len(history)]
  BY DEF CompactionInv, StreamShape, Types, StoreTypes
<1>1. L!HandedOver(MemoryId) => L!HandedOver(MemoryId)'
  <2>1. [P!Next]_(P!vars)
    BY StepFollowsLock, SameLock DEF Next
  <2>2. P!HandedOver(MemoryId) => P!HandedOver(MemoryId)'
    BY <1>0, <2>1, P!HandoverIsForGood
  <2>3. P!HandedOver(MemoryId)' <=> L!HandedOver(MemoryId)'
    BY DEF P!HandedOver, L!HandedOver
  <2> QED
    BY <2>2, <2>3, SameLock
<1> SUFFICES ASSUME ~L!HandedOver(MemoryId)', \A j \in 1..Len(history') : history'[j].locked,
                    NEW q \in Requests, L!InCritical(q)', at'[q] # "unloaded", saved'[q] = "no"
             PROVE  base'[q] = Len(history') /\ (q \in Chats => forward'[q] = offset')
  BY DEF NothingMissed
<1>2. \A j \in 1..Len(history) : history[j].locked
  <2>1. CASE history' = history
    BY <2>1
  <2>2. CASE history' = Append(history, Entry(r))
    BY <1>0, <2>2, AppendMoves
  <2> QED
    BY <1>0, <2>1, <2>2, SavesOrNot DEF Saves
<1>3. \/ q = r /\ Load(r)
      \/ L!InCritical(q) /\ at[q] # "unloaded" /\ saved[q] = "no"
  <2>1. CASE q = r
    BY <1>0, <2>1, StepKeeps
  <2>2. CASE q # r
    BY <1>0, <2>2, OthersUntouched DEF L!InCritical
  <2> QED
    BY <2>1, <2>2
<1>4. CASE Load(r)
  <2>1. /\ UNCHANGED <<history, offset>> /\ base' = [base EXCEPT ![r] = Len(history)]
        /\ forward' = [forward EXCEPT ![r] = offset]
    BY <1>4 DEF Load, storeVars
  <2> QED
    BY <1>0, <1>1, <1>2, <1>3, <2>1 DEF NothingMissed
<1>5. CASE UNCHANGED <<history, offset, base, forward>> /\ ~Load(r)
  BY <1>0, <1>1, <1>2, <1>3, <1>5 DEF NothingMissed
<1>6. CASE /\ r \in Compactions /\ at[r] = "save" /\ UNCHANGED <<history, offset, base>>
           /\ forward' = [forward EXCEPT ![r] = base[r]] /\ ~Load(r)
  <2>1. q \in Chats => forward'[q] = forward[q]
    BY <1>0, <1>6
  <2> QED
    BY <1>0, <1>1, <1>2, <1>3, <1>6, <2>1 DEF NothingMissed
<1>7. CASE Saves(r)
  <2>1. Entry(r).locked
    <3>1. /\ history'[Len(history) + 1] = Entry(r)
          /\ Len(history') = Len(history) + 1 /\ Len(history) \in Nat
      BY <1>0, <1>7, AppendMoves DEF Saves
    <3>2. Len(history) + 1 \in 1..Len(history')
      BY <3>1
    <3> QED
      BY <3>1, <3>2
  <2>2. L!InCritical(r)
    BY <2>1 DEF Entry
  <2>3. saved'[r] = "ok"
    BY <1>0, <1>7 DEF Saves, Types, GenTypes
  <2>4. q # r
    BY <2>3
  <2>5. L!InCritical(q)
    BY <1>3, <2>4
  <2> QED
    BY <1>0, <1>1, <2>2, <2>4, <2>5, ExclusiveHere
<1>8. at[r] = "save" => ~Load(r)
  BY DEF Load
<1> QED
  BY <1>0, <1>4, <1>5, <1>6, <1>7, <1>8, SavesOrNot

LEMMA InitCompaction == Init => CompactionInv
<1> SUFFICES ASSUME Init PROVE CompactionInv
  OBVIOUS
<1> DEFINE first == [by |-> None, summary |-> FALSE, covers |-> 0, locked |-> TRUE]
<1>1. /\ history = << first >> /\ offset = 0
      /\ forward = [r \in Requests |-> 0] /\ saved = [r \in Requests |-> "no"]
      /\ at = [r \in Requests |-> "unloaded"]
  BY DEF Init
<1>2. OffsetsCovered /\ SummariesStored /\ NothingMissed
  BY <1>1 DEF OffsetsCovered, Covered, SummariesStored, NothingMissed, Requests
<1>3. SummariesSavedUnderLock
  BY <1>1 DEF SummariesSavedUnderLock
<1> QED
  BY <1>2, <1>3, InitTypes, InitShape DEF CompactionInv

LEMMA StepCompaction == CompactionInv /\ [Next]_vars => CompactionInv'
<1> SUFFICES ASSUME CompactionInv, [Next]_vars PROVE CompactionInv'
  OBVIOUS
<1>1. Types'
  BY StepTypes DEF CompactionInv
<1>2. ASSUME NEW r \in Requests, Step(r) PROVE CompactionInv'
  BY <1>1, <1>2, ShapeKept, CoveredStep, SummariesStep, MissedStep DEF CompactionInv
<1>3. ASSUME delete_session \/ UNCHANGED vars PROVE CompactionInv'
  <2>1. UNCHANGED <<lockVars, history, offset, base, forward, genVars>>
    BY <1>3 DEF delete_session, vars, storeVars
  <2>2. StreamShape' /\ OffsetsCovered'
    BY <2>1 DEF lockVars, genVars, CompactionInv, StreamShape, Shape, BeforeStream, LockOfStream,
      OrderOfStream, OffsetsCovered, Covered
  <2>3. SummariesSavedUnderLock' /\ SummariesStored' /\ NothingMissed'
    BY <2>1 DEF lockVars, genVars, CompactionInv, SummariesSavedUnderLock, SummariesStored,
      NothingMissed, L!HandedOver, L!InCritical
  <2> QED
    BY <1>1, <2>2, <2>3 DEF CompactionInv
<1> QED
  BY <1>2, <1>3 DEF Next, Rest

THEOREM CompactionInvariant == Spec => []CompactionInv
BY InitCompaction, StepCompaction, PTL DEF Spec

\* No message is kept from the LLM without a summary of it in the store,
\* whatever requests of the session overlap (set_forward_offset and save_memory
\* in compact_session, save_memory in chat).
THEOREM NothingIsForgotten == Spec => []NothingForgotten
<1>1. CompactionInv => NothingForgotten
  BY DEF CompactionInv, OffsetsCovered, Covered, NothingForgotten
<1> QED
  BY <1>1, CompactionInvariant, PTL

\* A compaction never saves behind a released lock.
THEOREM SummariesUnderLock == Spec => []SummariesSavedUnderLock
<1>1. CompactionInv => SummariesSavedUnderLock
  BY DEF CompactionInv
<1> QED
  BY <1>1, CompactionInvariant, PTL

\* CompactionEnd tells of a summary only after the attempt to save it.
THEOREM SummaryIsThere == Spec => []ReportedSummaryIsStored
<1>1. CompactionInv => ReportedSummaryIsStored
  <2> SUFFICES ASSUME CompactionInv, NEW r \in Requests, told[r] = "summary",
                      saved[r] \notin {"failed", "missing"}
               PROVE  \E i \in 1..Len(history) : history[i].by = r /\ history[i].covers = base[r]
    BY DEF ReportedSummaryIsStored
  <2>1. r \in Compactions /\ saved[r] = "ok"
    BY DEF CompactionInv, StreamShape, Shape, OrderOfStream, Types, GenTypes
  <2> QED
    BY <2>1 DEF CompactionInv, SummariesStored
<1> QED
  BY <1>1, CompactionInvariant, PTL

\* The stored offset goes back only when requests of the session overlapped.
THEOREM OffsetKept == Spec => OffsetGoesBackOnlyByOverlap
<1>1. ASSUME CompactionInv, [Next]_vars, offset' < offset
      PROVE  \/ ~history'[Len(history')].locked
             \/ L!HandedOver(MemoryId)
             \/ \E i \in 1..Len(history) : ~history[i].locked
  <2>1. offset' # offset /\ Types /\ offset \in 0..Len(history) /\ Len(history) \in Nat
    BY <1>1 DEF CompactionInv, Types, StoreTypes
  <2>2. PICK r \in Requests : Step(r)
    BY <1>1, <2>1 DEF Next, Rest, delete_session, vars, storeVars
  <2>3. Shape(r) /\ Saves(r)
    BY <1>1, <2>1, <2>2, SavesOrNot DEF CompactionInv, StreamShape
  <2>4. history'[Len(history')].locked = L!InCritical(r)
    BY <2>1, <2>3, AppendMoves DEF Saves, Entry
  <2> SUFFICES ASSUME L!InCritical(r), ~L!HandedOver(MemoryId),
                      \A i \in 1..Len(history) : history[i].locked
               PROVE  FALSE
    BY <2>4
  <2>5. base[r] = Len(history) /\ (r \in Chats => forward[r] = offset)
    BY <1>1, <2>3, SavedOnTop
  <2> QED
    BY <1>1, <2>1, <2>3, <2>5 DEF Saves
<1> QED
  BY <1>1, CompactionInvariant, PTL DEF Spec, OffsetGoesBackOnlyByOverlap
=============================================================================
