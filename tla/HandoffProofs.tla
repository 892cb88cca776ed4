----------------------------- MODULE HandoffProofs -----------------------------
(***************************************************************************)
(* The safety of a delegation, for every bound on the events: the lock     *)
(* spans the sub-agent, a closed stream is clean, a saved session is       *)
(* complete, a task that is told complete was saved, and it carries the    *)
(* last answer of everything the sub-agent said.  DelegationInv adds what  *)
(* makes this inductive: the lock is held exactly inside the try, the      *)
(* sub-agent lives there only, and the verdict comes last.  WholeInv adds  *)
(* that the result follows the events as they are read.                    *)
(***************************************************************************)
EXTENDS Handoff, TLAPS

USE DEF Live

LEMMA InitDelegation == Init => DelegationInv
<1> SUFFICES ASSUME Init PROVE DelegationInv
  OBVIOUS
<1>1. said \in Seq(Events) /\ Len(said) = 0
  BY SMT DEF Init
<1>2. TypeOK
  <2>1. said \in Seq(Events) /\ read \in 0..Len(said) /\ result \in 0..read
    BY <1>1, SMT DEF Init
  <2>2. holds \in BOOLEAN /\ stop \in BOOLEAN /\ told = {}
    BY Zenon DEF Init
  <2>3. at \in Positions /\ mode \in Modes
    BY SMT DEF Init, Positions, Yields, Modes
  <2>4. kind \in {"remote", "local"} /\ exit = "none" /\ agent = "none" /\ saved = "no"
    BY Zenon DEF Init
  <2> QED
    BY <2>1, <2>2, <2>3, <2>4, Zenon DEF TypeOK
<1>3. LockIsTheTrys
  BY SMT DEF Init, LockIsTheTrys, InTry, AgentAlive
<1>4. SaveIsSettled /\ SavedAfterAgent
  BY SMT DEF Init, SaveIsSettled, SavedAfterAgent
<1> QED
  BY <1>2, <1>3, <1>4 DEF DelegationInv

\* Entering the finally from inside the try, with the verdict open or settled.
LEMMA FinallyDelegation ==
  ASSUME DelegationInv, at \in InTry \ {"join"}, "complete" \notin told,
         NEW e \in {"normal", "error", "gone"}, EnterFinally(e),
         UNCHANGED <<kind, mode, holds, said>>,
         read' \in 0..Len(said), result' \in 0..read',
         saved' \in {"no", "stored", "missing", "failed"},
         \/ told' = told
         \/ /\ told' = told \union {"complete"} /\ e = "normal"
            /\ kind = "remote" => saved' \in {"stored", "missing"}
  PROVE  DelegationInv'
<1>1. TypeOK'
  <2>1. said' \in Seq(Events) /\ read' \in 0..Len(said') /\ result' \in 0..read'
    BY SMT DEF DelegationInv, TypeOK
  <2>2. holds' \in BOOLEAN /\ stop' \in BOOLEAN
    BY Zenon DEF DelegationInv, TypeOK, EnterFinally
  <2>3. at' \in Positions /\ mode' \in Modes /\ exit' \in {"none", "normal", "error", "gone"}
    BY SMT DEF DelegationInv, TypeOK, Positions, Yields, Modes, EnterFinally
  <2>4. kind' \in {"remote", "local"} /\ agent' \in {"none", "running", "cancelling", "over"}
    BY SMT DEF DelegationInv, TypeOK, EnterFinally
  <2>5. told' \subseteq {"interrupted", "complete", "error"}
    <3>1. told \subseteq {"interrupted", "complete", "error"}
      BY DEF DelegationInv, TypeOK
    <3> QED
      BY <3>1, Zenon
  <2> QED
    BY <2>1, <2>2, <2>3, <2>4, <2>5, Zenon DEF TypeOK
<1>2. LockIsTheTrys'
  BY SMT DEF DelegationInv, TypeOK, LockIsTheTrys, InTry, AgentAlive, EnterFinally
<1>3. SaveIsSettled' /\ SavedAfterAgent'
  BY SMT DEF DelegationInv, SaveIsSettled, SavedAfterAgent, EnterFinally
<1> QED
  BY <1>1, <1>2, <1>3 DEF DelegationInv

\* A step that stays on its side of the finally disturbs each part by itself.
LEMMA StepDelegation == DelegationInv /\ [Next]_vars => DelegationInv'
<1> SUFFICES ASSUME DelegationInv, [Next]_vars PROVE DelegationInv'
  OBVIOUS
<1> USE DEF taskVars
<1>1. CASE Lookup
  <2>1. TypeOK'
    BY <1>1 DEF DelegationInv, TypeOK, Positions, Yields, Modes, Lookup
  <2>2. LockIsTheTrys'
    BY <1>1 DEF DelegationInv, TypeOK, LockIsTheTrys, InTry, Yields, AgentAlive, Lookup
  <2>3. SaveIsSettled' /\ SavedAfterAgent'
    BY <1>1 DEF DelegationInv, TypeOK, SaveIsSettled, SavedAfterAgent, LockIsTheTrys,
      InTry, AgentAlive, Lookup
  <2> QED
    BY <2>1, <2>2, <2>3 DEF DelegationInv
<1>2. CASE LookupLocal
  <2>1. TypeOK'
    BY <1>2 DEF DelegationInv, TypeOK, Positions, Yields, Modes, LookupLocal
  <2>2. LockIsTheTrys'
    BY <1>2 DEF DelegationInv, TypeOK, LockIsTheTrys, InTry, Yields, AgentAlive, LookupLocal
  <2>3. SaveIsSettled' /\ SavedAfterAgent'
    BY <1>2 DEF DelegationInv, TypeOK, SaveIsSettled, SavedAfterAgent, LockIsTheTrys,
      InTry, AgentAlive, LookupLocal
  <2> QED
    BY <2>1, <2>2, <2>3 DEF DelegationInv
<1>3. CASE Create
  <2>1. TypeOK'
    BY <1>3 DEF DelegationInv, TypeOK, Positions, Yields, Modes, Create, Raise
  <2>2. LockIsTheTrys'
    BY <1>3 DEF DelegationInv, TypeOK, LockIsTheTrys, InTry, Yields, AgentAlive, Create, Raise
  <2>3. SaveIsSettled' /\ SavedAfterAgent'
    BY <1>3 DEF DelegationInv, TypeOK, SaveIsSettled, SavedAfterAgent, LockIsTheTrys,
      InTry, AgentAlive, Create, Raise
  <2> QED
    BY <2>1, <2>2, <2>3 DEF DelegationInv
<1>4. CASE ReadEnd
  <2>1. TypeOK'
    BY <1>4 DEF DelegationInv, TypeOK, Positions, Yields, Modes, ReadEnd, AfterLoop
  <2>2. LockIsTheTrys'
    BY <1>4 DEF DelegationInv, TypeOK, LockIsTheTrys, InTry, Yields, AgentAlive, ReadEnd, AfterLoop
  <2>3. SaveIsSettled' /\ SavedAfterAgent'
    BY <1>4 DEF DelegationInv, TypeOK, SaveIsSettled, SavedAfterAgent, LockIsTheTrys,
      InTry, AgentAlive, ReadEnd, AfterLoop
  <2> QED
    BY <2>1, <2>2, <2>3 DEF DelegationInv
<1>5. CASE Leave
  <2>1. TypeOK'
    BY <1>5 DEF DelegationInv, TypeOK, Positions, Yields, Modes, Leave, Raise
  <2>2. LockIsTheTrys'
    BY <1>5 DEF DelegationInv, TypeOK, LockIsTheTrys, InTry, Yields, AgentAlive, Leave, Raise
  <2>3. SaveIsSettled' /\ SavedAfterAgent'
    BY <1>5 DEF DelegationInv, TypeOK, SaveIsSettled, SavedAfterAgent, LockIsTheTrys,
      InTry, AgentAlive, Leave, Raise
  <2> QED
    BY <2>1, <2>2, <2>3 DEF DelegationInv
<1>6. CASE TimeOut
  <2>1. TypeOK'
    BY <1>6 DEF DelegationInv, TypeOK, Positions, Yields, Modes, TimeOut
  <2>2. LockIsTheTrys'
    BY <1>6 DEF DelegationInv, TypeOK, LockIsTheTrys, InTry, Yields, AgentAlive, TimeOut
  <2>3. SaveIsSettled' /\ SavedAfterAgent'
    BY <1>6 DEF DelegationInv, TypeOK, SaveIsSettled, SavedAfterAgent, LockIsTheTrys,
      InTry, AgentAlive, TimeOut
  <2> QED
    BY <2>1, <2>2, <2>3 DEF DelegationInv
<1>7. CASE ProgressSent
  <2>1. TypeOK'
    BY <1>7 DEF DelegationInv, TypeOK, Positions, Yields, Modes, ProgressSent
  <2>2. LockIsTheTrys'
    BY <1>7 DEF DelegationInv, TypeOK, LockIsTheTrys, InTry, Yields, AgentAlive, ProgressSent
  <2>3. SaveIsSettled' /\ SavedAfterAgent'
    BY <1>7 DEF DelegationInv, TypeOK, SaveIsSettled, SavedAfterAgent, LockIsTheTrys,
      InTry, AgentAlive, ProgressSent
  <2> QED
    BY <2>1, <2>2, <2>3 DEF DelegationInv
<1>8. CASE InterruptedSent
  <2>1. TypeOK'
    BY <1>8 DEF DelegationInv, TypeOK, Positions, Yields, Modes, InterruptedSent, AfterLoop
  <2>2. LockIsTheTrys'
    BY <1>8 DEF DelegationInv, TypeOK, LockIsTheTrys, InTry, Yields, AgentAlive, InterruptedSent, AfterLoop
  <2>3. SaveIsSettled' /\ SavedAfterAgent'
    BY <1>8 DEF DelegationInv, TypeOK, SaveIsSettled, SavedAfterAgent, LockIsTheTrys,
      InTry, AgentAlive, InterruptedSent, AfterLoop
  <2> QED
    BY <2>1, <2>2, <2>3 DEF DelegationInv
<1>9. CASE ErrorSent
  <2>1. TypeOK'
    BY <1>9 DEF DelegationInv, TypeOK, Positions, Yields, Modes, ErrorSent
  <2>2. LockIsTheTrys'
    BY <1>9 DEF DelegationInv, TypeOK, LockIsTheTrys, InTry, Yields, AgentAlive, ErrorSent
  <2>3. SaveIsSettled' /\ SavedAfterAgent'
    BY <1>9 DEF DelegationInv, TypeOK, SaveIsSettled, SavedAfterAgent, LockIsTheTrys,
      InTry, AgentAlive, ErrorSent
  <2> QED
    BY <2>1, <2>2, <2>3 DEF DelegationInv
<1>10. CASE AgentEnds
  <2>1. TypeOK'
    BY <1>10 DEF DelegationInv, TypeOK, Positions, Yields, Modes, AgentEnds
  <2>2. LockIsTheTrys'
    BY <1>10 DEF DelegationInv, TypeOK, LockIsTheTrys, InTry, Yields, AgentAlive, AgentEnds
  <2>3. SaveIsSettled' /\ SavedAfterAgent'
    BY <1>10 DEF DelegationInv, TypeOK, SaveIsSettled, SavedAfterAgent, LockIsTheTrys,
      InTry, AgentAlive, AgentEnds
  <2> QED
    BY <2>1, <2>2, <2>3 DEF DelegationInv
<1>11. CASE RuntimeStops
  <2>1. TypeOK'
    BY <1>11 DEF DelegationInv, TypeOK, Positions, Yields, Modes, RuntimeStops
  <2>2. LockIsTheTrys'
    BY <1>11 DEF DelegationInv, TypeOK, LockIsTheTrys, InTry, Yields, AgentAlive, RuntimeStops
  <2>3. SaveIsSettled' /\ SavedAfterAgent'
    BY <1>11 DEF DelegationInv, TypeOK, SaveIsSettled, SavedAfterAgent, LockIsTheTrys,
      InTry, AgentAlive, RuntimeStops
  <2> QED
    BY <2>1, <2>2, <2>3 DEF DelegationInv
<1>12. CASE Disconnect
  <2>1. TypeOK'
    BY <1>12 DEF DelegationInv, TypeOK, Positions, Yields, Modes, Disconnect
  <2>2. LockIsTheTrys'
    BY <1>12 DEF DelegationInv, TypeOK, LockIsTheTrys, InTry, Yields, AgentAlive, Disconnect
  <2>3. SaveIsSettled' /\ SavedAfterAgent'
    BY <1>12 DEF DelegationInv, TypeOK, SaveIsSettled, SavedAfterAgent, LockIsTheTrys,
      InTry, AgentAlive, Disconnect
  <2> QED
    BY <2>1, <2>2, <2>3 DEF DelegationInv
<1>13. CASE AgentEmits
  <2>1. PICK e \in Events : said' = Append(said, e)
    BY <1>13 DEF AgentEmits
  <2>2. said' \in Seq(Events) /\ read' \in 0..Len(said') /\ result' \in 0..read'
    BY <1>13, <2>1 DEF AgentEmits, DelegationInv, TypeOK
  <2>3. TypeOK'
    BY <1>13, <2>2 DEF AgentEmits, DelegationInv, TypeOK
  <2>4. LockIsTheTrys' /\ SaveIsSettled' /\ SavedAfterAgent'
    BY <1>13 DEF AgentEmits, DelegationInv, LockIsTheTrys, SaveIsSettled, SavedAfterAgent,
      AgentAlive
  <2> QED
    BY <2>3, <2>4 DEF DelegationInv
<1>14. CASE SetUp
  <2>1. CASE EnterFinally("error")
    BY <1>14, <2>1, FinallyDelegation DEF SetUp, DelegationInv, TypeOK, SaveIsSettled, InTry
  <2>2. CASE agent' = "running" /\ at' = "startedYield" /\ UNCHANGED <<exit, stop>>
    <3>1. TypeOK'
      BY <1>14, <2>2 DEF SetUp, DelegationInv, TypeOK, Positions, Yields
    <3>2. LockIsTheTrys' /\ SaveIsSettled' /\ SavedAfterAgent'
      BY <1>14, <2>2 DEF SetUp, DelegationInv, TypeOK, LockIsTheTrys, SaveIsSettled,
        SavedAfterAgent, AgentAlive, InTry
    <3> QED
      BY <3>1, <3>2 DEF DelegationInv
  <2> QED
    BY <1>14, <2>1, <2>2 DEF SetUp
<1>15. CASE ReadEvent
  <2>1. read' \in 0..Len(said) /\ result' \in 0..read'
    BY <1>15 DEF ReadEvent, DelegationInv, TypeOK
  <2>2. CASE EnterFinally("error")
    BY <1>15, <2>1, <2>2, FinallyDelegation
    DEF ReadEvent, DelegationInv, TypeOK, SaveIsSettled, InTry
  <2>3. CASE at' \in {"eventYield", "poll"} /\ UNCHANGED <<exit, agent, stop>>
    <3>1. TypeOK'
      BY <1>15, <2>1, <2>3 DEF ReadEvent, DelegationInv, TypeOK, Positions, Yields
    <3>2. LockIsTheTrys' /\ SaveIsSettled' /\ SavedAfterAgent'
      BY <1>15, <2>3 DEF ReadEvent, DelegationInv, TypeOK, LockIsTheTrys, SaveIsSettled,
        SavedAfterAgent, AgentAlive, InTry
    <3> QED
      BY <3>1, <3>2 DEF DelegationInv
  <2> QED
    BY <1>15, <2>2, <2>3 DEF ReadEvent
<1>16. CASE ReadLocalEvent
  <2>1. read' \in 0..Len(said) /\ result' \in 0..read'
    BY <1>16 DEF ReadLocalEvent, DelegationInv, TypeOK
  <2>2. TypeOK'
    BY <1>16, <2>1 DEF ReadLocalEvent, DelegationInv, TypeOK, Positions, Yields
  <2>3. LockIsTheTrys' /\ SaveIsSettled' /\ SavedAfterAgent'
    BY <1>16 DEF ReadLocalEvent, DelegationInv, TypeOK, LockIsTheTrys, SaveIsSettled,
      SavedAfterAgent, AgentAlive, InTry
  <2> QED
    BY <2>2, <2>3 DEF DelegationInv
<1>17. CASE Save
  <2>1. CASE saved' = "failed" /\ EnterFinally("error")
    BY <1>17, <2>1, FinallyDelegation DEF Save, DelegationInv, TypeOK, SaveIsSettled, InTry
  <2>2. CASE /\ saved' \in {"stored", "missing"} /\ at' = "completeYield"
             /\ UNCHANGED <<exit, agent, stop>>
    <3>1. TypeOK'
      BY <1>17, <2>2 DEF Save, DelegationInv, TypeOK, Positions, Yields
    <3>2. LockIsTheTrys' /\ SaveIsSettled' /\ SavedAfterAgent'
      BY <1>17, <2>2 DEF Save, DelegationInv, TypeOK, LockIsTheTrys, SaveIsSettled,
        SavedAfterAgent, AgentAlive, InTry
    <3> QED
      BY <3>1, <3>2 DEF DelegationInv
  <2> QED
    BY <1>17, <2>1, <2>2 DEF Save
<1>18. CASE CompleteSent
  BY <1>18, FinallyDelegation DEF CompleteSent, DelegationInv, TypeOK, SaveIsSettled, InTry
<1>19. CASE CancelAwait
  <2>1. CASE /\ at \in {"lookup", "create"} /\ at' = "closed"
             /\ UNCHANGED <<exit, agent, stop, saved>>
    <3>1. TypeOK'
      BY <1>19, <2>1 DEF CancelAwait, DelegationInv, TypeOK, Positions
    <3>2. LockIsTheTrys' /\ SaveIsSettled' /\ SavedAfterAgent'
      BY <1>19, <2>1 DEF CancelAwait, DelegationInv, TypeOK, LockIsTheTrys, SaveIsSettled,
        SavedAfterAgent, AgentAlive, InTry
    <3> QED
      BY <3>1, <3>2 DEF DelegationInv
  <2>2. CASE at \in {"setup", "poll", "save"} /\ EnterFinally("gone")
    BY <1>19, <2>2, FinallyDelegation
    DEF CancelAwait, DelegationInv, TypeOK, SaveIsSettled, InTry
  <2> QED
    BY <1>19, <2>1, <2>2 DEF CancelAwait
<1>20. CASE CloseDropped
  <2>1. CASE at = "errorYield" /\ at' = "closed" /\ UNCHANGED <<exit, agent, stop>>
    <3>1. TypeOK'
      BY <1>20, <2>1 DEF CloseDropped, DelegationInv, TypeOK, Positions
    <3>2. LockIsTheTrys' /\ SaveIsSettled' /\ SavedAfterAgent'
      BY <1>20, <2>1 DEF CloseDropped, DelegationInv, TypeOK, LockIsTheTrys, SaveIsSettled,
        SavedAfterAgent, AgentAlive, InTry
    <3> QED
      BY <3>1, <3>2 DEF DelegationInv
  <2>2. CASE at \in Yields \ {"errorYield"} /\ EnterFinally("gone")
    BY <1>20, <2>2, FinallyDelegation
    DEF CloseDropped, DelegationInv, TypeOK, SaveIsSettled, InTry, Yields
  <2> QED
    BY <1>20, <2>1, <2>2 DEF CloseDropped
<1>21. CASE UNCHANGED vars
  BY <1>21 DEF vars, DelegationInv, TypeOK, LockIsTheTrys, SaveIsSettled, SavedAfterAgent,
    AgentAlive
<1> QED
  BY <1>1, <1>2, <1>3, <1>4, <1>5, <1>6, <1>7, <1>8, <1>9, <1>10,
     <1>11, <1>12, <1>13, <1>14, <1>15, <1>16, <1>17, <1>18, <1>19, <1>20, <1>21
  DEF Next, Stream, Sending, Cleanup, Rest

\* The inductive invariant holds in every reachable state.
THEOREM DelegationCorrect == Spec => []DelegationInv
  BY InitDelegation, StepDelegation, PTL DEF Spec

\* Type correctness of a delegation.
THEOREM TypeCorrect == Spec => []TypeOK
<1>1. DelegationInv => TypeOK
  BY DEF DelegationInv
<1> QED
  BY <1>1, DelegationCorrect, PTL

\* However the stream is left, the sub-agent never runs without the lock of its
\* session: the finally joins it first.
THEOREM LockSpansAgentCorrect == Spec => []LockSpansAgent
<1>1. DelegationInv => LockSpansAgent
  BY DEF DelegationInv, LockIsTheTrys, LockSpansAgent
<1> QED
  BY <1>1, DelegationCorrect, PTL

\* A stream that is over, or only has its error left to report, holds no lock
\* and leaves no sub-agent behind.
THEOREM ClosedIsCleanCorrect == Spec => []ClosedIsClean
<1>1. DelegationInv => ClosedIsClean
  BY DEF DelegationInv, LockIsTheTrys, ClosedIsClean, InTry
<1> QED
  BY <1>1, DelegationCorrect, PTL

\* The remote stream reports "complete" only after the session was saved or
\* found to be gone.
THEOREM CompleteIsSavedCorrect == Spec => []CompleteIsSaved
<1>1. DelegationInv => CompleteIsSaved
  BY DEF DelegationInv, SaveIsSettled, CompleteIsSaved
<1> QED
  BY <1>1, DelegationCorrect, PTL

\* The session is saved after its sub-agent is over, unless the loop was left
\* for the stop event.
THEOREM SavedAfterAgentCorrect == Spec => []SavedAfterAgent
<1>1. DelegationInv => SavedAfterAgent
  BY DEF DelegationInv
<1> QED
  BY <1>1, DelegationCorrect, PTL

-----------------------------------------------------------------------------
(* What a completed task carries *)

\* result_text comes from the last answer among the events read.
ResultIsLastRead ==
  /\ result # 0 => said[result] \in Answers
  /\ \A i \in 1..read : said[i] \in Answers => i <= result

\* Past the loop, unless by an interruption, nothing is left to read or to say.
LoopIsDrained ==
  (at \in {"save", "completeYield"} \/ "complete" \in told) /\ "interrupted" \notin told =>
    agent = "over" /\ read = Len(said)

WholeInv == DelegationInv /\ ResultIsLastRead /\ LoopIsDrained

LEMMA InitWhole == Init => WholeInv
<1> SUFFICES ASSUME Init PROVE WholeInv
  OBVIOUS
<1>1. read = 0 /\ result = 0 /\ at = "lookup" /\ told = {}
  BY DEF Init
<1>2. 1..read = {}
  BY <1>1
<1> QED
  BY <1>1, <1>2, InitDelegation DEF WholeInv, ResultIsLastRead, LoopIsDrained

\* A step that reads nothing and says nothing.
LEMMA SameResult ==
  ASSUME ResultIsLastRead, UNCHANGED <<kind, said, read, result>>
  PROVE  ResultIsLastRead'
BY DEF ResultIsLastRead, Answers

LEMMA StepWhole == WholeInv /\ [Next]_vars => WholeInv'
<1> SUFFICES ASSUME WholeInv, [Next]_vars PROVE WholeInv'
  OBVIOUS
<1> USE DEF taskVars
<1>0. DelegationInv'
  BY StepDelegation DEF WholeInv
<1>t. /\ said \in Seq(Events) /\ read \in 0..Len(said) /\ result \in 0..read
      /\ "complete" \in told => at \in {"join", "closed"}
  BY DEF WholeInv, DelegationInv, TypeOK, SaveIsSettled
<1>1. ASSUME ReadEvent \/ ReadLocalEvent PROVE WholeInv'
  <2>1. /\ read' = read + 1 /\ UNCHANGED <<kind, said, told>> /\ read < Len(said) /\ at = "poll"
        /\ result' = IF said[read + 1] \in Answers THEN read + 1 ELSE result
        /\ at' \in {"eventYield", "poll", "join"}
    BY <1>1 DEF ReadEvent, ReadLocalEvent, EnterFinally
  <2>2. ResultIsLastRead'
    <3>1. result' # 0 => said[result'] \in Answers
      BY <2>1 DEF WholeInv, ResultIsLastRead
    <3>2. ASSUME NEW i \in 1..(read + 1), said[i] \in Answers PROVE i <= result'
      BY <1>t, <2>1, <3>2 DEF WholeInv, ResultIsLastRead
    <3>3. Answers' = Answers
      BY <2>1 DEF Answers
    <3> QED
      BY <2>1, <3>1, <3>2, <3>3 DEF ResultIsLastRead
  <2>3. LoopIsDrained'
    BY <1>t, <2>1 DEF LoopIsDrained
  <2> QED
    BY <1>0, <2>2, <2>3 DEF WholeInv
<1>2. ASSUME AgentEmits PROVE WholeInv'
  <2>1. PICK e \in Events : said' = Append(said, e)
    BY <1>2 DEF AgentEmits
  <2>2. /\ UNCHANGED <<kind, at, agent, read, result, told>> /\ agent # "over"
    BY <1>2 DEF AgentEmits, AgentAlive
  <2>3. \A i \in 1..Len(said) : said'[i] = said[i]
    BY <1>t, <2>1
  <2>4. ResultIsLastRead'
    <3>1. Answers' = Answers
      BY <2>2 DEF Answers
    <3>2. result # 0 => result \in 1..Len(said)
      BY <1>t
    <3>3. \A i \in 1..read : i \in 1..Len(said)
      BY <1>t
    <3> QED
      BY <2>2, <2>3, <3>1, <3>2, <3>3 DEF WholeInv, ResultIsLastRead
  <2>5. LoopIsDrained'
    BY <2>2 DEF WholeInv, LoopIsDrained
  <2> QED
    BY <1>0, <2>4, <2>5 DEF WholeInv
<1>3. ASSUME ReadEnd PROVE WholeInv'
  <2>1. /\ UNCHANGED <<kind, said, read, result, agent, told>>
        /\ agent = "over" /\ read = Len(said)
    BY <1>3 DEF ReadEnd
  <2> QED
    BY <1>0, <2>1, SameResult DEF WholeInv, LoopIsDrained
<1>4. ASSUME Lookup \/ LookupLocal \/ Create \/ SetUp \/ Leave \/ ErrorSent PROVE WholeInv'
  <2>1. UNCHANGED <<kind, said, read, result>>
    BY <1>4 DEF Lookup, LookupLocal, Create, SetUp, Leave, ErrorSent
  <2>2. /\ at' \notin {"save", "completeYield"}
        /\ at = "join" => UNCHANGED agent
        /\ told \subseteq told' /\ ("complete" \in told' => "complete" \in told)
    BY <1>4 DEF Lookup, LookupLocal, Create, SetUp, Leave, ErrorSent, Raise, EnterFinally
  <2>3. "complete" \in told => UNCHANGED agent
    BY <1>t, <1>4 DEF Lookup, LookupLocal, Create, SetUp, Leave, ErrorSent
  <2>4. LoopIsDrained'
    BY <2>1, <2>2, <2>3 DEF WholeInv, LoopIsDrained
  <2> QED
    BY <1>0, <2>1, <2>4, SameResult DEF WholeInv
<1>5. ASSUME Save \/ CompleteSent PROVE WholeInv'
  <2>1. UNCHANGED <<kind, said, read, result>>
    BY <1>5 DEF Save, CompleteSent
  <2>2. /\ at \in {"save", "completeYield"}
        /\ agent = "over" => UNCHANGED agent
        /\ told \subseteq told'
    BY <1>5 DEF Save, CompleteSent, EnterFinally
  <2>3. LoopIsDrained'
    BY <2>1, <2>2 DEF WholeInv, LoopIsDrained
  <2> QED
    BY <1>0, <2>1, <2>3, SameResult DEF WholeInv
<1>6. ASSUME TimeOut \/ ProgressSent \/ InterruptedSent PROVE WholeInv'
  <2>1. UNCHANGED <<kind, said, read, result>>
    BY <1>6 DEF TimeOut, ProgressSent, InterruptedSent
  <2>2. at \notin {"join", "closed"}
    BY <1>6 DEF TimeOut, ProgressSent, InterruptedSent
  <2>3. LoopIsDrained'
    BY <1>t, <1>6, <2>2 DEF LoopIsDrained, TimeOut, ProgressSent, InterruptedSent
  <2> QED
    BY <1>0, <2>1, <2>3, SameResult DEF WholeInv
<1>7. ASSUME CancelAwait \/ CloseDropped PROVE WholeInv'
  <2>1. /\ UNCHANGED <<kind, said, read, result, told>>
        /\ at' \in {"join", "closed"}
        /\ agent = "over" => UNCHANGED agent
    BY <1>7 DEF CancelAwait, CloseDropped, EnterFinally
  <2>2. LoopIsDrained'
    BY <2>1 DEF WholeInv, LoopIsDrained
  <2> QED
    BY <1>0, <2>1, <2>2, SameResult DEF WholeInv
<1>8. ASSUME AgentEnds \/ RuntimeStops \/ Disconnect \/ Rest \/ UNCHANGED vars PROVE WholeInv'
  <2>1. /\ UNCHANGED <<kind, said, read, result, told, at>>
        /\ agent = "over" => UNCHANGED agent
    BY <1>8 DEF AgentEnds, RuntimeStops, Disconnect, Rest, vars, AgentAlive
  <2>2. LoopIsDrained'
    BY <2>1 DEF WholeInv, LoopIsDrained
  <2> QED
    BY <1>0, <2>1, <2>2, SameResult DEF WholeInv
<1> QED
  BY <1>1, <1>2, <1>3, <1>4, <1>5, <1>6, <1>7, <1>8 DEF Next, Stream, Sending, Cleanup

\* "complete" carries the last answer of everything the sub-agent said, for any
\* number of events, unless the reader was told of an interruption.
THEOREM CompleteIsWholeCorrect == Spec => []CompleteIsWhole
<1>1. WholeInv => CompleteIsWhole
  <2> SUFFICES ASSUME WholeInv, "complete" \in told, "interrupted" \notin told
               PROVE  read = Len(said) /\ result = LastAnswer
    BY DEF CompleteIsWhole
  <2> DEFINE answers == {i \in 1..Len(said) : said[i] \in Answers}
  <2>1. read = Len(said) /\ result \in 0..Len(said)
    BY DEF WholeInv, LoopIsDrained, DelegationInv, TypeOK
  <2>2. \A i \in answers : i <= result
    BY <2>1 DEF WholeInv, ResultIsLastRead
  <2>3. CASE answers = {}
    <3>1. result = 0
      BY <2>1, <2>3 DEF WholeInv, ResultIsLastRead
    <3> QED
      BY <2>1, <2>3, <3>1 DEF LastAnswer
  <2>4. CASE answers # {}
    <3>1. result \in answers
      <4>1. PICK i \in answers : TRUE
        BY <2>4
      <4>2. result # 0
        BY <2>1, <2>2, <4>1
      <4> QED
        BY <2>1, <4>2 DEF WholeInv, ResultIsLastRead
    <3>2. \A i \in answers : (\A j \in answers : j <= i) => i = result
      BY <2>1, <2>2, <3>1
    <3>3. (CHOOSE i \in answers : \A j \in answers : j <= i) = result
      BY <2>2, <3>1, <3>2
    <3> QED
      BY <2>1, <2>4, <3>3 DEF LastAnswer
  <2> QED
    BY <2>3, <2>4
<1> QED
  BY <1>1, InitWhole, StepWhole, PTL DEF Spec
=============================================================================
