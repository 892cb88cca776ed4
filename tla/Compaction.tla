------------------------------ MODULE Compaction ------------------------------
(***************************************************************************)
(* The life of one stored session under api/sessions.py: compactions       *)
(* (POST /sessions/{memory_id}/compact) under the session lock, chats on   *)
(* the same session, and the deletion that takes no lock.                  *)
(*                                                                         *)
(* A compaction summarises the messages it loaded, appends the summary and *)
(* sets the forward offset: the messages before it are not sent to the LLM *)
(* any more.  Its generator holds the lock until its finally.  A chat is   *)
(* what ChatStream shows of it: it loads, and saves once, under the lock   *)
(* or, when its client left at the wrong moment, after giving it up.       *)
(*                                                                         *)
(* The store is external.  get_session returns an object of its own for    *)
(* each request, save_memory appends the messages added to this object and *)
(* stores its forward offset; a save into a deleted session does nothing   *)
(* or raises.  Messages are left out but for who wrote them.               *)
(*                                                                         *)
(* A definition named Mut... is a variant of the one it precedes, with a   *)
(* plausible bug; no specification uses it.                                *)
(***************************************************************************)
EXTENDS Naturals, Sequences

CONSTANTS Chats, Compactions,   \* the requests
          MemoryId,             \* the session they name
          None

ASSUME RequestsAssumption == Chats \cap Compactions = {}

Requests == Chats \union Compactions

ASSUME NoneAssumption == None \notin Requests /\ None # MemoryId

VARIABLES
  registry, target, lock, locked, waiters, woken, pc,   \* as in SessionLock
  history,  \* the stored entries: a turn, or a summary with what it covers
  offset,   \* the stored forward offset
  deleted,  \* whether the session was deleted
  base,     \* messages of the session object a request loaded
  forward,  \* the forward offset of that object
  at,       \* where the request is in its session
  detached, \* a chat that gave its lock up before it saved
  result,   \* "error" once error_msg is set, else whether there is content
  saved,    \* what came of save_memory
  told      \* what CompactionEnd says: "summary", "nothing", "error"

L == INSTANCE SessionLock WITH Sessions <- {MemoryId}

lockVars == <<registry, target, lock, locked, waiters, woken, pc>>
storeVars == <<history, offset, deleted>>
genVars == <<at, detached, result, saved, told>>
vars == <<lockVars, storeVars, base, forward, genVars>>

\* "llm" and "save" are awaits of a compaction, "...Yield" its yields, "closing"
\* is one whose client has left, and "over" is behind its finally.  A chat is "answering" from its load to its
\* save.
Positions == {"unloaded", "loaded", "startYield", "llm", "chunkYield", "save",
              "endYield", "doneYield", "closing", "answering", "over"}
Yields == {"startYield", "chunkYield", "endYield", "doneYield"}

Init ==
  /\ L!Init
  /\ history = << [by |-> None, summary |-> FALSE, covers |-> 0, locked |-> TRUE] >>
  /\ offset = 0
  /\ deleted = FALSE
  /\ base = [r \in Requests |-> 0]
  /\ forward = [r \in Requests |-> 0]
  /\ at = [r \in Requests |-> "unloaded"]
  /\ detached = [r \in Requests |-> FALSE]
  /\ result = [r \in Requests |-> "nothing"]
  /\ saved = [r \in Requests |-> "no"]
  /\ told = [r \in Requests |-> "none"]

MoveTo(r, p) == at' = [at EXCEPT ![r] = p]
IsCompaction(r, p) == r \in Compactions /\ at[r] = p
IsCompacting(r) == r \in Compactions /\ at[r] \notin {"unloaded", "loaded", "over"}

-----------------------------------------------------------------------------
(* The handlers *)

Arrive(r) ==
  /\ L!Acquire(r, MemoryId) \/ L!Resume(r)
  /\ UNCHANGED <<storeVars, base, forward, genVars>>

\* store.get_session: a deleted session is not found.
Load(r) ==
  /\ pc[r] = "loading" /\ at[r] = "unloaded"
  /\ ~deleted
  /\ base' = [base EXCEPT ![r] = Len(history)]
  /\ forward' = [forward EXCEPT ![r] = offset]
  /\ MoveTo(r, "loaded")
  /\ UNCHANGED <<lockVars, storeVars, detached, result, saved, told>>

\* No session, a foreign one, no agent, no provider, a failing store.
Refuse(r) ==
  /\ at[r] \in {"unloaded", "loaded"}
  /\ L!Reject(r)
  /\ UNCHANGED <<storeVars, base, forward, genVars>>

Respond(r) ==
  /\ at[r] = "loaded"
  /\ L!Respond(r)
  /\ UNCHANGED <<storeVars, base, forward, genVars>>

\* The generator is started, and goes to its first yield.
Start(r) ==
  /\ L!StartStream(r)
  /\ MoveTo(r, IF r \in Chats THEN "answering" ELSE "startYield")
  /\ UNCHANGED <<storeVars, base, forward, detached, result, saved, told>>

DropResponse(r) ==
  /\ L!DisconnectBeforeStart(r)
  /\ UNCHANGED <<storeVars, base, forward, genVars>>

\* DELETE /sessions/{memory_id}, by the owner: looks the session up and deletes
\* it, whoever holds the lock.
delete_session ==
  /\ ~deleted
  /\ deleted' = TRUE
  /\ UNCHANGED <<lockVars, history, offset, base, forward, genVars>>

-----------------------------------------------------------------------------
(* The store *)

\* save_memory of the session object of r, to which `entry` was added.
Stored(r, entry, newOffset) ==
  /\ ~deleted
  /\ history' = Append(history, entry)
  /\ offset' = newOffset
  /\ saved' = [saved EXCEPT ![r] = "ok"]

\* The store raises, or finds no session any more.
NotStored(r) ==
  /\ UNCHANGED <<history, offset>>
  /\ saved' = [saved EXCEPT ![r] = IF deleted THEN "missing" ELSE "failed"]

Entry(r) == [by |-> r, summary |-> r \in Compactions,
             covers |-> IF r \in Compactions THEN base[r] ELSE 0,
             locked |-> L!InCritical(r)]

-----------------------------------------------------------------------------
(* The chats *)

\* The turn is saved with the forward offset that was loaded, and the lock is
\* released, unless it was before.
MutChatSavesFromStart(r) ==
  /\ at[r] = "answering"
  /\ Stored(r, Entry(r), 0) \/ NotStored(r)
  /\ MoveTo(r, "over")
  /\ IF detached[r] THEN UNCHANGED lockVars ELSE L!EndStream(r)
  /\ UNCHANGED <<deleted, base, forward, detached, result, told>>
ChatSaves(r) ==
  /\ at[r] = "answering"
  /\ Stored(r, Entry(r), forward[r]) \/ NotStored(r)
  /\ MoveTo(r, "over")
  /\ IF detached[r] THEN UNCHANGED lockVars ELSE L!EndStream(r)
  /\ UNCHANGED <<deleted, base, forward, detached, result, told>>

\* The turn ends without anything to save.
ChatFails(r) ==
  /\ at[r] = "answering"
  /\ MoveTo(r, "over")
  /\ IF detached[r] THEN UNCHANGED lockVars ELSE L!EndStream(r)
  /\ UNCHANGED <<storeVars, base, forward, detached, result, saved, told>>

\* The client left while a chunk was sent: the lock is released, and the turn
\* goes on behind it.
ChatDetaches(r) ==
  /\ at[r] = "answering" /\ ~detached[r]
  /\ detached' = [detached EXCEPT ![r] = TRUE]
  /\ L!EndStream(r)
  /\ UNCHANGED <<storeVars, base, forward, at, result, saved, told>>

-----------------------------------------------------------------------------
(* The compactions: _stream_with_lock *)

StartSent(r) ==
  /\ IsCompaction(r, "startYield")
  /\ MoveTo(r, "llm")
  /\ UNCHANGED <<lockVars, storeVars, base, forward, detached, result, saved, told>>

\* A delta with content or with reasoning is passed on.
Delta(r) ==
  /\ IsCompaction(r, "llm")
  /\ \E c \in {result[r], "summary"} : result' = [result EXCEPT ![r] = c]
  /\ MoveTo(r, "chunkYield")
  /\ UNCHANGED <<lockVars, storeVars, base, forward, detached, saved, told>>

ChunkSent(r) ==
  /\ IsCompaction(r, "chunkYield")
  /\ MoveTo(r, "llm")
  /\ UNCHANGED <<lockVars, storeVars, base, forward, detached, result, saved, told>>

\* The LLM is done, or it raised.  Without an error and with some content
\* there is a summary to save.
MutLlmEndsSavesErrors(r) ==
  /\ IsCompaction(r, "llm")
  /\ \E e \in {result[r], "error"} : result' = [result EXCEPT ![r] = e]
  /\ MoveTo(r, IF result'[r] = "error" THEN "save" ELSE "endYield")
  /\ UNCHANGED <<lockVars, storeVars, base, forward, detached, saved, told>>
LlmEnds(r) ==
  /\ IsCompaction(r, "llm")
  /\ \E e \in {result[r], "error"} : result' = [result EXCEPT ![r] = e]
  /\ MoveTo(r, IF result'[r] = "summary" THEN "save" ELSE "endYield")
  /\ UNCHANGED <<lockVars, storeVars, base, forward, detached, saved, told>>

\* add_message, set_forward_offset and save_memory.  The exception of the save
\* is logged; that of add_message leaves the generator.
MutSaveCountsSummary(r) ==
  /\ IsCompaction(r, "save")
  /\ forward' = [forward EXCEPT ![r] = base[r] + 1]
  /\ Stored(r, Entry(r), base[r] + 1) \/ NotStored(r)
  /\ MoveTo(r, "endYield")
  /\ UNCHANGED <<lockVars, deleted, base, detached, result, told>>
Save(r) ==
  /\ IsCompaction(r, "save")
  /\ \/ /\ forward' = [forward EXCEPT ![r] = base[r]]
        /\ Stored(r, Entry(r), base[r]) \/ NotStored(r)
        /\ MoveTo(r, "endYield")
        /\ UNCHANGED lockVars
     \/ /\ MoveTo(r, "over") /\ L!EndStream(r)
        /\ UNCHANGED <<forward, history, offset, saved>>
  /\ UNCHANGED <<deleted, base, detached, result, told>>

EndSent(r) ==
  /\ IsCompaction(r, "endYield")
  /\ told' = [told EXCEPT ![r] = result[r]]
  /\ MoveTo(r, "doneYield")
  /\ UNCHANGED <<lockVars, storeVars, base, forward, detached, result, saved>>

DoneSent(r) ==
  /\ IsCompaction(r, "doneYield")
  /\ MoveTo(r, "over")
  /\ L!EndStream(r)
  /\ UNCHANGED <<storeVars, base, forward, detached, result, saved, told>>

\* The client leaves: CancelledError at an await, where a save under way may
\* have been done, or a generator dropped at a yield.
Disconnect(r) ==
  /\ IsCompacting(r) /\ at[r] # "closing"
  /\ \/ /\ at[r] = "save"
        /\ forward' = [forward EXCEPT ![r] = base[r]]
        /\ Stored(r, Entry(r), base[r]) \/ NotStored(r)
     \/ UNCHANGED <<forward, history, offset, saved>>
  /\ MoveTo(r, "closing")
  /\ UNCHANGED <<lockVars, deleted, base, detached, result, told>>

\* Neither CancelledError nor GeneratorExit is an Exception: the finally is next,
\* and releases the lock.
MutCloseKeepsLock(r) ==
  /\ IsCompaction(r, "closing")
  /\ MoveTo(r, "over")
  /\ UNCHANGED <<lockVars, storeVars, base, forward, detached, result, saved, told>>
Close(r) ==
  /\ IsCompaction(r, "closing")
  /\ MoveTo(r, "over")
  /\ L!EndStream(r)
  /\ UNCHANGED <<storeVars, base, forward, detached, result, saved, told>>

-----------------------------------------------------------------------------
Rest ==
  /\ \A r \in Requests : \/ pc[r] = "done" /\ at[r] \in {"unloaded", "loaded", "over"}
                         \/ pc[r] = "abandoned" \/ L!BehindAbandoned(r)
  /\ UNCHANGED vars

Handler(r) == Load(r) \/ Refuse(r) \/ Respond(r)
Chat(r) == ChatSaves(r) \/ ChatFails(r)
Sending(r) == StartSent(r) \/ ChunkSent(r) \/ EndSent(r) \/ DoneSent(r)
Stream(r) == Sending(r) \/ Delta(r) \/ LlmEnds(r) \/ Save(r)

Step(r) ==
  \/ Arrive(r) \/ Handler(r) \/ Start(r) \/ DropResponse(r)
  \/ Chat(r) \/ ChatDetaches(r) \/ Stream(r) \/ Disconnect(r) \/ Close(r)

Next == (\E r \in Requests : Step(r)) \/ delete_session \/ Rest

Spec == Init /\ [][Next]_vars

\* A chunk is sent or its client is found gone, the store answers, and a
\* generator is closed once its client has left.  The LLM owes nothing: it is
\* awaited without a timeout.
Fairness ==
  \A r \in Compactions :
    /\ WF_vars(Sending(r) \/ (at[r] \in Yields /\ Disconnect(r)))
    /\ WF_vars(Save(r)) /\ WF_vars(Close(r))

FairSpec == Spec /\ Fairness
-----------------------------------------------------------------------------
(* Properties *)

Entries == [by : Requests \union {None}, summary : BOOLEAN, covers : Nat, locked : BOOLEAN]

\* Type invariant of the session and its requests.
TypeOK ==
  /\ L!TypeOK
  /\ history \in Seq(Entries)
  /\ offset \in 0..Len(history)
  /\ deleted \in BOOLEAN
  /\ base \in [Requests -> 0..Len(history)]
  /\ forward \in [Requests -> 0..Len(history)]
  /\ at \in [Requests -> Positions]
  /\ detached \in [Requests -> BOOLEAN]
  /\ result \in [Requests -> {"nothing", "summary", "error"}]
  /\ saved \in [Requests -> {"no", "ok", "failed", "missing"}]
  /\ told \in [Requests -> {"none", "summary", "nothing", "error"}]

\* Whatever requests save at once, and in whatever order, no message is kept
\* from the LLM without a summary of it: behind the forward offset there is a
\* summary that covers everything before the offset.
NothingForgotten ==
  offset > 0 =>
    \E i \in (offset + 1)..Len(history) : history[i].summary /\ history[i].covers >= offset

\* Unlike a chat, a compaction never touches the store without the lock: it
\* has a single generator, whose finally comes after the save.
SummariesSavedUnderLock ==
  \A i \in 1..Len(history) : history[i].summary => history[i].locked

\* A client that is told of a summary has it in the store, unless the store
\* failed or the session was deleted under the compaction, of which it is not
\* told.
ReportedSummaryIsStored ==
  \A r \in Requests :
    told[r] = "summary" =>
      \/ saved[r] \in {"failed", "missing"}
      \/ \E i \in 1..Len(history) : history[i].by = r /\ history[i].covers = base[r]

\* The forward offset goes back, undoing a compaction, only when requests of
\* the session overlapped: a detached chat, or one that ran beside another
\* after a lock was handed over, stores the offset it had loaded.
OffsetGoesBackOnlyByOverlap ==
  [][offset' < offset =>
       \/ ~history'[Len(history')].locked
       \/ L!HandedOver(MemoryId)
       \/ \E i \in 1..Len(history) : ~history[i].locked]_vars

\* Once its LLM has ended or its client has left, in the middle of an LLM call
\* that never ends too, a compaction gives its lock up, whatever the store and
\* the client do.  While the LLM is silent and the client stays, it keeps it.
CompactionEnds ==
  \A r \in Compactions :
    at[r] \in {"closing", "save", "endYield", "doneYield"} ~> pc[r] = "done"
=============================================================================
