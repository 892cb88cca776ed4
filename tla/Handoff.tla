-------------------------------- MODULE Handoff --------------------------------
(***************************************************************************)
(* One delegated task: the generator that a `handoff` tool call streams    *)
(* from, remote (POST /runtime/tools/handoff/execute, runtime_tools.py) or *)
(* local (_handoff_fn, builtin_agents/registry.py).  It runs a sub-agent   *)
(* on a session of its own and polls its queue with a timeout.             *)
(*                                                                         *)
(* The sub-agent (a task that feeds a queue and ends it with None), the    *)
(* store and whoever reads the stream are external.  The session id is     *)
(* drawn for the task, so its lock is free and acquire_session_lock does   *)
(* not suspend: one delegation is a system of its own.                     *)
(*                                                                         *)
(* A definition named Mut... is a variant of the one it precedes, with a   *)
(* plausible bug; no specification uses it.                                *)
(***************************************************************************)
EXTENDS Naturals, Sequences

CONSTANT MaxEvents   \* bound on the events a sub-agent emits
ASSUME MaxEventsAssumption == MaxEvents \in Nat

VARIABLES
  kind,    \* which implementation this is
  at,      \* where the generator is
  mode,    \* what became of the reader
  exit,    \* how the try statement was left: what its finally returns to
  holds,   \* it holds the lock of the sub-agent's session
  agent,   \* sub_task
  stop,    \* sub_stop_event
  said,    \* the events the sub-agent has put in the queue so far
  read,    \* how many of them the generator has taken
  result,  \* the event result_text comes from, 0 for ""
  saved,   \* what came of save_memory
  told     \* the verdicts the reader was sent

taskVars == <<agent, stop, said>>
vars == <<kind, at, mode, exit, holds, taskVars, read, result, saved, told>>

\* "text" is an LLMEnd with content, "answer" an AgentEnd with a response,
\* "progress" any other event.
Events == {"progress", "text", "answer"}

\* "join" is `await sub_task` in the finally.
Yields == {"startedYield", "eventYield", "interruptedYield", "completeYield",
           "errorYield"}
Positions == Yields \union {"lookup", "create", "setup", "poll", "save", "join",
                            "closed"}

\* "cancelled": the task that runs the generator was cancelled inside an
\* await, and is again in every later one.  "dropped": it was cancelled while
\* it handled a chunk, and the generator is left suspended at its yield.
Modes == {"live", "cancelled", "dropped"}

Init ==
  /\ kind \in {"remote", "local"}
  /\ at = "lookup" /\ mode = "live" /\ exit = "none" /\ holds = FALSE
  /\ agent = "none" /\ stop = FALSE /\ said = << >>
  /\ read = 0 /\ result = 0 /\ saved = "no" /\ told = {}

Live(p) == at = p /\ mode = "live"

AgentAlive == agent \in {"running", "cancelling"}

-----------------------------------------------------------------------------
(* Up to the sub-agent *)

\* Outside of the try: the remote handler reports, the local one raises.
Raise ==
  IF kind = "remote" THEN at' = "errorYield" /\ UNCHANGED told
  ELSE at' = "closed" /\ told' = told \union {"error"}

\* No target named or no such agent; the provider may raise.
Lookup ==
  /\ Live("lookup") /\ kind = "remote"
  /\ at' \in {"create", "errorYield"}
  /\ UNCHANGED <<kind, mode, exit, holds, taskVars, read, result, saved, told>>

\* No target named or no request context; getting the store may raise.
LookupLocal ==
  /\ Live("lookup") /\ kind = "local"
  /\ \/ at' \in {"create", "errorYield"} /\ UNCHANGED told
     \/ at' = "closed" /\ told' = told \union {"error"}
  /\ UNCHANGED <<kind, mode, exit, holds, taskVars, read, result, saved>>

\* create_session, then the lock of the session it created.
Create ==
  /\ Live("create")
  /\ \/ holds' = TRUE /\ at' = "setup" /\ UNCHANGED told
     \/ UNCHANGED holds /\ Raise
  /\ UNCHANGED <<kind, mode, exit, taskVars, read, result, saved>>

\* The finally up to its await: the sub-agent is told to stop and cancelled.
MutFinallyOnlyStops(e) ==
  /\ exit' = e /\ at' = "join"
  /\ stop' = (stop \/ agent # "none")
  /\ UNCHANGED agent
EnterFinally(e) ==
  /\ exit' = e /\ at' = "join"
  /\ stop' = (stop \/ agent # "none")
  /\ agent' = IF agent = "running" THEN "cancelling" ELSE agent

\* create_runtime and runtime.run: either may raise.
MutSetUpFailureEscapes ==
  /\ Live("setup")
  /\ \/ agent' = "running" /\ at' = "startedYield" /\ UNCHANGED <<exit, stop, told>>
     \/ Raise /\ UNCHANGED <<exit, stop, agent>>
  /\ UNCHANGED <<kind, mode, holds, said, read, result, saved>>
SetUp ==
  /\ Live("setup")
  /\ \/ agent' = "running" /\ at' = "startedYield" /\ UNCHANGED <<exit, stop>>
     \/ EnterFinally("error")
  /\ UNCHANGED <<kind, mode, holds, said, read, result, saved, told>>

-----------------------------------------------------------------------------
(* The sub-agent *)

AgentEmits ==
  /\ AgentAlive
  /\ Len(said) < MaxEvents
  /\ \E e \in Events : said' = Append(said, e)
  /\ UNCHANGED <<kind, at, mode, exit, holds, agent, stop, read, result, saved, told>>

\* It returns, raises or was cancelled; the queue ends with None in any case.
AgentEnds ==
  /\ AgentAlive
  /\ agent' = "over"
  /\ UNCHANGED <<kind, at, mode, exit, holds, stop, said, read, result, saved, told>>

\* The event is the runtime's own: it may set it for a tool that stops the agent.
RuntimeStops ==
  /\ agent = "running" /\ ~stop
  /\ stop' = TRUE
  /\ UNCHANGED <<kind, at, mode, exit, holds, agent, said, read, result, saved, told>>

-----------------------------------------------------------------------------
(* The polling loop *)

\* The events that set result_text.
Answers == IF kind = "remote" THEN {"text", "answer"} ELSE {"answer"}

\* The remote loop forwards what it reads, but throttles chunks and skips what
\* it does not know; rendering an event may raise.
MutReadForgetsEarlierResult ==
  /\ Live("poll") /\ kind = "remote" /\ read < Len(said)
  /\ read' = read + 1
  /\ result' = IF said[read + 1] \in Answers THEN read + 1 ELSE 0
  /\ \/ /\ at' \in {"eventYield", "poll"}
        /\ at' = "poll" => said[read + 1] = "progress"
        /\ UNCHANGED <<exit, agent, stop>>
     \/ EnterFinally("error")
  /\ UNCHANGED <<kind, mode, holds, said, saved, told>>
ReadEvent ==
  /\ Live("poll") /\ kind = "remote" /\ read < Len(said)
  /\ read' = read + 1
  /\ result' = IF said[read + 1] \in Answers THEN read + 1 ELSE result
  /\ \/ /\ at' \in {"eventYield", "poll"}
        /\ at' = "poll" => said[read + 1] = "progress"
        /\ UNCHANGED <<exit, agent, stop>>
     \/ EnterFinally("error")
  /\ UNCHANGED <<kind, mode, holds, said, saved, told>>

\* The local loop forwards tool progress only.
ReadLocalEvent ==
  /\ Live("poll") /\ kind = "local" /\ read < Len(said)
  /\ read' = read + 1
  /\ result' = IF said[read + 1] \in Answers THEN read + 1 ELSE result
  /\ at' \in {"eventYield", "poll"}
  /\ at' = "eventYield" => said[read + 1] = "progress"
  /\ UNCHANGED <<kind, mode, exit, holds, taskVars, saved, told>>

AfterLoop == at' = IF kind = "remote" THEN "save" ELSE "completeYield"

\* The None that ends the queue.
MutEndTakenForTimeout ==
  /\ Live("poll") /\ read = Len(said) /\ agent = "over"
  /\ at' = IF stop THEN "interruptedYield" ELSE "poll"
  /\ UNCHANGED <<kind, mode, exit, holds, taskVars, read, result, saved, told>>
ReadEnd ==
  /\ Live("poll") /\ read = Len(said) /\ agent = "over"
  /\ AfterLoop
  /\ UNCHANGED <<kind, mode, exit, holds, taskVars, read, result, saved, told>>

\* wait_for gives up: on its own the loop goes on, and nothing changes; with
\* the stop event set it is left.  The get that timed out has taken nothing,
\* but an event may have come in at the same moment.
TimeOut ==
  /\ Live("poll") /\ stop
  /\ at' = "interruptedYield"
  /\ UNCHANGED <<kind, mode, exit, holds, taskVars, read, result, saved, told>>

ProgressSent ==
  /\ Live("startedYield") \/ Live("eventYield")
  /\ at' = "poll"
  /\ UNCHANGED <<kind, mode, exit, holds, taskVars, read, result, saved, told>>

InterruptedSent ==
  /\ Live("interruptedYield")
  /\ told' = told \union {"interrupted"}
  /\ AfterLoop
  /\ UNCHANGED <<kind, mode, exit, holds, taskVars, read, result, saved>>

-----------------------------------------------------------------------------
(* After the loop *)

\* get_session and save_memory.  A session that is gone is not saved; a store
\* that raises leaves the try.
Save ==
  /\ Live("save")
  /\ \/ /\ saved' \in {"stored", "missing"} /\ at' = "completeYield"
        /\ UNCHANGED <<exit, agent, stop>>
     \/ saved' = "failed" /\ EnterFinally("error")
  /\ UNCHANGED <<kind, mode, holds, said, read, result, told>>

\* handoff_complete, with result_text.
CompleteSent ==
  /\ Live("completeYield")
  /\ told' = told \union {"complete"}
  /\ EnterFinally("normal")
  /\ UNCHANGED <<kind, mode, holds, said, read, result, saved>>

\* `await sub_task` swallows what comes of it, a cancellation of this task
\* too; the lock is released, and the exception that left the try goes on.
Leave ==
  /\ at = "join" /\ ~AgentAlive
  /\ holds' = FALSE
  /\ IF exit = "error" /\ mode = "live" THEN Raise ELSE at' = "closed" /\ UNCHANGED told
  /\ UNCHANGED <<kind, mode, exit, taskVars, read, result, saved>>

ErrorSent ==
  /\ Live("errorYield")
  /\ told' = told \union {"error"}
  /\ at' = "closed"
  /\ UNCHANGED <<kind, mode, exit, holds, taskVars, read, result, saved>>

-----------------------------------------------------------------------------
(* The reader goes away *)

Disconnect ==
  /\ at # "closed" /\ mode = "live"
  /\ mode' = IF at \in Yields THEN "dropped" ELSE "cancelled"
  /\ UNCHANGED <<kind, at, exit, holds, taskVars, read, result, saved, told>>

\* CancelledError is no Exception: it enters the finally, and no handler.
CancelAwait ==
  /\ mode = "cancelled"
  /\ \/ /\ at \in {"lookup", "create"} /\ at' = "closed"
        /\ UNCHANGED <<exit, agent, stop, saved>>
     \/ at \in {"setup", "poll"} /\ EnterFinally("gone") /\ UNCHANGED saved
     \/ /\ at = "save" /\ saved' \in {"no", "stored"}
        /\ EnterFinally("gone")
  /\ UNCHANGED <<kind, mode, holds, said, read, result, told>>

\* The dropped generator is closed in a task of its own: GeneratorExit enters
\* the finally.  The error event is sent from outside of the try.
CloseDropped ==
  /\ mode = "dropped" /\ at \in Yields
  /\ IF at = "errorYield" THEN at' = "closed" /\ UNCHANGED <<exit, agent, stop>>
     ELSE EnterFinally("gone")
  /\ UNCHANGED <<kind, mode, holds, said, read, result, saved, told>>

-----------------------------------------------------------------------------
Rest == at = "closed" /\ ~AgentAlive /\ UNCHANGED vars

Stream ==
  \/ Lookup \/ LookupLocal \/ Create \/ SetUp
  \/ ReadEvent \/ ReadLocalEvent \/ ReadEnd \/ Save \/ Leave
Sending == ProgressSent \/ InterruptedSent \/ CompleteSent \/ ErrorSent
Cleanup == CancelAwait \/ CloseDropped

Next ==
  \/ Stream \/ TimeOut \/ Sending \/ Cleanup
  \/ AgentEmits \/ AgentEnds \/ RuntimeStops
  \/ Disconnect \/ Rest

Spec == Init /\ [][Next]_vars

\* The event loop runs what is ready and the collector closes a dropped
\* generator; a chunk is handled or its reader goes away.  A sub-agent that
\* was cancelled ends; one that was not may run for ever.
Fairness ==
  /\ WF_vars(Stream) /\ WF_vars(Cleanup)
  /\ WF_vars(at \in Yields /\ (Sending \/ Disconnect))
  /\ WF_vars(agent = "cancelling" /\ AgentEnds)

FairSpec == Spec /\ Fairness
-----------------------------------------------------------------------------
(* Properties *)

\* Type invariant of a delegation.
TypeOK ==
  /\ kind \in {"remote", "local"}
  /\ at \in Positions
  /\ mode \in Modes
  /\ exit \in {"none", "normal", "error", "gone"}
  /\ holds \in BOOLEAN
  /\ agent \in {"none", "running", "cancelling", "over"}
  /\ stop \in BOOLEAN
  /\ said \in Seq(Events)
  /\ read \in 0..Len(said)
  /\ result \in 0..read
  /\ saved \in {"no", "stored", "missing", "failed"}
  /\ told \subseteq {"interrupted", "complete", "error"}

\* A sub-agent never runs without the lock of its session: the finally of
\* either generator joins it before it releases, however the stream was left.
LockSpansAgent == AgentAlive => holds

\* Once the generator is over, or only has an error left to report, the lock
\* is free and no sub-agent is left behind.
ClosedIsClean == at \in {"closed", "errorYield"} => ~holds /\ ~AgentAlive

\* The last event that carries an answer, 0 if there is none.
LastAnswer ==
  LET answers == {i \in 1..Len(said) : said[i] \in Answers}
  IN IF answers = {} THEN 0
     ELSE CHOOSE i \in answers : \A j \in answers : j <= i

\* handoff_complete is sent after everything the sub-agent said was read, and
\* carries its last answer, unless the reader was told of an interruption.
CompleteIsWhole ==
  "complete" \in told /\ "interrupted" \notin told =>
    read = Len(said) /\ result = LastAnswer

\* The remote stream reports a task complete only after its session was saved,
\* or found to be gone: a failed save is an error, even for a finished task.
CompleteIsSaved ==
  kind = "remote" /\ "complete" \in told => saved \in {"stored", "missing"}

\* The session is saved when the sub-agent is over, so that nothing it adds
\* is missed, unless the loop was left for the stop event.
SavedAfterAgent ==
  at = "save" => agent = "over" \/ "interrupted" \in told

\* Inside the try statement, its finally included.
InTry == {"setup", "startedYield", "poll", "eventYield", "interruptedYield",
          "save", "completeYield", "join"}

\* The lock is held exactly inside the try, and the sub-agent lives there.
LockIsTheTrys ==
  /\ holds <=> at \in InTry
  /\ AgentAlive => at \in InTry \ {"setup"}

\* Where the verdict "complete" is about to be sent or has been, the save is over.
SaveIsSettled ==
  /\ "complete" \in told => at \in {"join", "closed"} /\ exit = "normal"
  /\ kind = "remote" /\ (at = "completeYield" \/ "complete" \in told) =>
       saved \in {"stored", "missing"}

\* The inductive invariant of a delegation: the lock and the sub-agent belong to
\* the try statement of the generator, and its verdict comes after the save.
DelegationInv == TypeOK /\ LockIsTheTrys /\ SaveIsSettled /\ SavedAfterAgent

\* A reader that goes away ends the delegation, even if the sub-agent would
\* run for ever: the finally cancels it, and the lock is released.
GoneReaderEndsAgent == mode # "live" ~> at = "closed"

\* A sub-agent that is over, well or not, ends the stream.
FinishedAgentEndsStream == agent = "over" ~> at = "closed"
=============================================================================
