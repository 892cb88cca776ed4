---------------------------- MODULE EvalBatchProofs ----------------------------
(***************************************************************************)
(* The safety of an evaluation batch, for any number of questions, any     *)
(* max_concurrency and any number of cancellations.                        *)
(*                                                                         *)
(* TypeOK is inductive, and so is the count of the permits on top of it.   *)
(* The rest rests on BatchInv: a question that is over stays as it is, the *)
(* draining and the orphan loop have dealt with every question before the  *)
(* one they are at, and what the storage knows of a question is what came  *)
(* of it unless it was reported as an orphan.                              *)
(***************************************************************************)
EXTENDS EvalBatch, FiniteSetTheorems, TLAPS

USE QuestionsAssumption DEF Questions

-----------------------------------------------------------------------------
(* The loop that drains the tasks *)

LEMMA Between ==
  ASSUME NEW a \in Int, NEW b \in Int, NEW m \in Int, ~(m < a), m < b
  PROVE  m \in a..(b - 1)
OBVIOUS

\* The loop waits at the first task that is not over, or runs to its end.
LEMMA DrainFromMoves ==
  ASSUME NEW q \in 1..(NumQuestions + 1), DrainFrom(q)
  PROVE  /\ next' \in q..(NumQuestions + 1)
         /\ \A m \in Questions : m < next' =>
              m < q \/ (QuestionOver(m) /\ (qpc[m] = "done" => m \in drained'))
         /\ \A m \in drained' : m \in drained \/ (m \in Questions /\ qpc[m] = "done")
         /\ drained \subseteq drained'
         /\ ~(next' \in Questions /\ QuestionOver(next'))
<1>1. next' \in q..(NumQuestions + 1) /\ ~(next' \in Questions /\ QuestionOver(next'))
  BY DEF DrainFrom
<1>2. \A m \in q..(next' - 1) : QuestionOver(m) /\ (qpc[m] = "done" => m \in drained')
  BY DEF DrainFrom
<1>3. drained \subseteq drained'
      /\ \A m \in drained' : m \in drained \/ (m \in Questions /\ qpc[m] = "done")
  BY DEF DrainFrom
<1>4. ASSUME NEW m \in Questions, m < next', ~(m < q) PROVE m \in q..(next' - 1)
  <2>1. next' \in Int /\ q \in Int /\ m \in Int
    BY <1>1
  <2> QED
    BY <2>1, <1>4, Between
<1> QED
  BY <1>1, <1>2, <1>3, <1>4

-----------------------------------------------------------------------------
(* Type correctness *)

LEMMA InitTypeOK == Init => TypeOK
<1> SUFFICES ASSUME Init PROVE TypeOK
  OBVIOUS
<1>1. limit \in Limits /\ permits \in Int /\ cancels \in 0..MaxCancels
      /\ next \in 1..(NumQuestions + 1)
  BY LimitsAssumption, CancelsAssumption DEF Init
<1>2. /\ qpc \in [Questions -> QuestionPhases] /\ status \in [Questions -> Statuses]
      /\ stored \in [Questions -> Statuses \union {"none"}]
  BY DEF Init, QuestionPhases, Statuses
<1>3. /\ phase \in Phases /\ cancelled \in BOOLEAN
      /\ batchStored \in {"none", "running", "completed", "failed"}
  BY DEF Init, Phases
<1> QED
  BY <1>1, <1>2, <1>3 DEF Init, TypeOK

LEMMA QuestionStepTypeOK ==
  ASSUME TypeOK, NEW q \in Questions, QuestionStep(q)
  PROVE  TypeOK'
<1> USE DEF TypeOK, Move, SetStatus, Store, resultVars, Phases, QuestionPhases, Statuses
<1>1. CASE Begin(q)
  BY <1>1 DEF Begin
<1>2. CASE Announced(q)
  BY <1>2 DEF Announced
<1>3. CASE Enter(q)
  BY <1>3 DEF Enter
<1>4. CASE RunEnds(q)
  BY <1>4 DEF RunEnds
<1>5. CASE Persist(q)
  BY <1>5 DEF Persist
<1> QED
  BY <1>1, <1>2, <1>3, <1>4, <1>5 DEF QuestionStep

\* What a cancellation does to the tasks of S, and what it leaves alone.
LEMMA CancelTasksEffect ==
  ASSUME TypeOK, NEW S \in SUBSET Questions, CancelTasks(S),
         \A q \in S : ~QuestionOver(q)
  PROVE  /\ qpc' \in [Questions -> QuestionPhases]
         /\ status' \in [Questions -> Statuses]
         /\ stored' \in [Questions -> Statuses \union {"none"}]
         /\ permits' \in Int
         /\ \A q \in Questions : QuestionOver(q) =>
              qpc'[q] = qpc[q] /\ status'[q] = status[q] /\ stored'[q] = stored[q]
         /\ \A q \in Questions : qpc'[q] = "done" => qpc[q] = "done"
         /\ \A q \in Questions : qpc'[q] = "absent" <=> qpc[q] = "absent"
<1>1. qpc' = [q \in Questions |-> IF q \in S THEN Struck(q) ELSE qpc[q]]
  BY DEF CancelTasks
<1>2. \A q \in S : Struck(q) \in QuestionPhases /\ Struck(q) # "done"
                   /\ (Struck(q) = "absent" <=> qpc[q] = "absent")
  BY DEF TypeOK, Struck, QuestionPhases, QuestionOver
<1>3. status' \in [Questions -> Statuses]
      /\ \A q \in Questions : q \notin S => status'[q] = status[q]
  BY DEF CancelTasks, TypeOK, Statuses
<1>4. stored' \in [Questions -> Statuses \union {"none"}]
      /\ \A q \in Questions : q \notin S => stored'[q] = stored[q]
  BY DEF CancelTasks, TypeOK
<1>5. permits' \in Int
  <2>1. {q \in S : qpc[q] = "running"} \in SUBSET Questions
    OBVIOUS
  <2>2. IsFiniteSet(Questions)
    BY FS_Interval
  <2>3. Cardinality({q \in S : qpc[q] = "running"}) \in Nat
    BY <2>1, <2>2, FS_Subset, FS_CardinalityType
  <2> QED
    BY <2>3 DEF CancelTasks, TypeOK
<1> QED
  BY <1>1, <1>2, <1>3, <1>4, <1>5 DEF TypeOK

LEMMA DrainFromTypes ==
  ASSUME TypeOK, NEW q \in 1..(NumQuestions + 1), DrainFrom(q)
  PROVE  next' \in 1..(NumQuestions + 1) /\ drained' \subseteq Questions
<1>1. next' \in 1..(NumQuestions + 1)
  BY DrainFromMoves
<1>2. \A m \in drained' : m \in Questions
  BY DrainFromMoves DEF TypeOK
<1> QED
  BY <1>1, <1>2

LEMMA StepTypeOK == TypeOK /\ [Next]_vars => TypeOK'
<1> SUFFICES ASSUME TypeOK, [Next]_vars PROVE TypeOK'
  OBVIOUS
<1> USE DEF TypeOK, resultVars, questionVars
<1>1. ASSUME NEW q \in Questions, QuestionStep(q) PROVE TypeOK'
  BY <1>1, QuestionStepTypeOK
<1>2. CASE StartBatch
  BY <1>2 DEF StartBatch, Phases, QuestionPhases
<1>3. ASSUME NEW q \in Questions, Collect(q) PROVE TypeOK'
  BY <1>3 DEF Collect, Phases
<1>4. CASE AllCollected
  BY <1>4 DEF AllCollected, Phases
<1>5. CASE DrainNext
  <2>1. next \in Questions /\ DrainFrom(next)
    BY <1>5 DEF DrainNext
  <2>2. next' \in 1..(NumQuestions + 1) /\ drained' \subseteq Questions
    BY <2>1, DrainFromTypes
  <2> QED
    BY <1>5, <2>2 DEF DrainNext
<1>6. CASE DrainEnds
  BY <1>6 DEF DrainEnds, Phases
<1>7. CASE ReportOrphan
  <2>1. next' \in 1..(NumQuestions + 1)
    BY <1>7 DEF ReportOrphan
  <2>2. orphaned' \subseteq Questions /\ unsaved' \subseteq orphaned'
    BY <1>7 DEF ReportOrphan
  <2>3. stored' \in [Questions -> Statuses \union {"none"}]
    BY <1>7 DEF ReportOrphan, Store, Statuses
  <2> QED
    BY <1>7, <2>1, <2>2, <2>3 DEF ReportOrphan
<1>8. CASE OrphansReported
  BY <1>8 DEF OrphansReported, Phases
<1>9. CASE CloseBatch
  BY <1>9 DEF CloseBatch, SummaryStatus, Phases
<1>10. CASE CancelCollecting
  <2>1. CancelTasks({q \in Questions : ~QuestionOver(q)}) /\ DrainFrom(1)
    BY <1>10 DEF CancelCollecting
  <2>2. next' \in 1..(NumQuestions + 1) /\ drained' \subseteq Questions
    BY <2>1, DrainFromTypes
  <2>3. /\ qpc' \in [Questions -> QuestionPhases] /\ status' \in [Questions -> Statuses]
        /\ stored' \in [Questions -> Statuses \union {"none"}] /\ permits' \in Int
    BY <2>1, CancelTasksEffect
  <2> QED
    BY <1>10, <2>2, <2>3, CancelsAssumption DEF CancelCollecting, CancelCall, Phases
<1>11. CASE CancelDraining
  <2>1. next \in Questions
    BY <1>11 DEF CancelDraining
  <2>2. CASE ~QuestionOver(next) /\ CancelTasks({next}) /\ UNCHANGED <<next, drained>>
    <3>1. /\ qpc' \in [Questions -> QuestionPhases] /\ status' \in [Questions -> Statuses]
          /\ stored' \in [Questions -> Statuses \union {"none"}] /\ permits' \in Int
      BY <2>1, <2>2, CancelTasksEffect
    <3> QED
      BY <1>11, <2>2, <3>1, CancelsAssumption DEF CancelDraining, CancelCall
  <2>3. CASE DrainFrom(next + 1) /\ UNCHANGED <<questionVars, stored>>
    <3>1. next' \in 1..(NumQuestions + 1) /\ drained' \subseteq Questions
      BY <2>1, <2>3, DrainFromTypes
    <3> QED
      BY <1>11, <2>3, <3>1, CancelsAssumption DEF CancelDraining, CancelCall
  <2> QED
    BY <1>11, <2>2, <2>3 DEF CancelDraining
<1>12. CASE CancelStorageCall
  <2>1. stored' \in [Questions -> Statuses \union {"none"}]
    BY <1>12 DEF CancelStorageCall, Store, Statuses
  <2>2. batchStored' \in {"none", "running", "completed", "failed"}
    BY <1>12 DEF CancelStorageCall, SummaryStatus
  <2> QED
    BY <1>12, <2>1, <2>2, CancelsAssumption DEF CancelStorageCall, CancelCall, Phases
<1>13. CASE Rest \/ UNCHANGED vars
  BY <1>13 DEF Rest, vars
<1> QED
  BY <1>1, <1>2, <1>3, <1>4, <1>5, <1>6, <1>7, <1>8, <1>9, <1>10, <1>11, <1>12, <1>13
    DEF Next, BatchStep, Cancel

\* Type correctness of the batch and its questions.
THEOREM TypeCorrect == Spec => []TypeOK
BY InitTypeOK, StepTypeOK, PTL DEF Spec
-----------------------------------------------------------------------------
(* The permits *)

Running == {q \in Questions : qpc[q] = "running"}

\* Before the tasks are created there is nothing to count.
NotStarted == phase = "starting" => \A q \in Questions : qpc[q] = "absent"

PermitInv == TypeOK /\ NotStarted /\ PermitsMatchRunningAgents

LEMMA RunningIsFinite == IsFiniteSet(Running) /\ Cardinality(Running) \in Nat
<1>1. Running \in SUBSET Questions /\ IsFiniteSet(Questions)
  <2>1. Running \in SUBSET Questions
    BY DEF Running
  <2>2. IsFiniteSet(Questions)
    BY FS_Interval
  <2> QED
    BY <2>1, <2>2
<1> QED
  BY <1>1, FS_Subset, FS_CardinalityType

\* The property, with the count by its name.
LEMMA PermitCount ==
  PermitsMatchRunningAgents <=>
    /\ permits + Cardinality(Running) = limit
    /\ Cardinality(Running) > 0 => permits >= 0
BY DEF PermitsMatchRunningAgents, Running

LEMMA InitPermits == Init => PermitInv
<1> SUFFICES ASSUME Init PROVE PermitInv
  OBVIOUS
<1>1. Running = {} /\ NotStarted
  BY DEF Init, Running, NotStarted
<1>2. Cardinality(Running) = 0 /\ permits = limit /\ limit \in Int
  BY <1>1, FS_EmptySet, LimitsAssumption DEF Init
<1> QED
  BY <1>1, <1>2, PermitCount, InitTypeOK DEF PermitInv

\* A step that changes neither what runs nor the permits.
LEMMA PermitsUntouched ==
  ASSUME PermitInv, TypeOK', NotStarted', Running' = Running, UNCHANGED <<permits, limit>>
  PROVE  PermitInv'
BY PermitCount DEF PermitInv, PermitsMatchRunningAgents, Running

LEMMA QuestionStepPermits ==
  ASSUME PermitInv, NEW q \in Questions, QuestionStep(q)
  PROVE  PermitInv'
<1>0. TypeOK /\ TypeOK' /\ PermitsMatchRunningAgents
  BY QuestionStepTypeOK DEF PermitInv
<1>n. NotStarted'
  <2>1. phase' = phase /\ qpc[q] # "absent"
    BY DEF QuestionStep, Begin, Announced, Enter, RunEnds, Persist
  <2> QED
    BY <2>1 DEF PermitInv, NotStarted
<1>r. qpc \in [Questions -> QuestionPhases]
  BY <1>0 DEF TypeOK
<1>1. CASE Begin(q) \/ Announced(q) \/ Persist(q) \/ (Enter(q) /\ cancelled)
  <2>1. Running' = Running /\ UNCHANGED <<permits, limit>>
    BY <1>1, <1>r DEF Begin, Announced, Persist, Enter, Move, Running
  <2> QED
    BY <2>1, <1>0, <1>n, PermitsUntouched
<1>2. CASE Enter(q) /\ ~cancelled
  <2>1. /\ Running' = Running \union {q} /\ q \notin Running
        /\ permits > 0 /\ permits' = permits - 1 /\ limit' = limit
    BY <1>2, <1>r DEF Enter, Move, Running
  <2>2. Cardinality(Running') = Cardinality(Running) + 1
    BY <2>1, RunningIsFinite, FS_AddElement
  <2>3. permits' + Cardinality(Running') = limit' /\ permits' >= 0
    BY <2>1, <2>2, <1>0, RunningIsFinite, PermitCount DEF TypeOK
  <2> QED
    BY <2>3, <1>0, <1>n DEF PermitInv, PermitsMatchRunningAgents, Running
<1>3. CASE RunEnds(q)
  <2>1. /\ Running' = Running \ {q} /\ q \in Running
        /\ permits' = permits + 1 /\ limit' = limit
    BY <1>3, <1>r DEF RunEnds, Move, Running
  <2>2. Cardinality(Running') = Cardinality(Running) - 1 /\ Cardinality(Running) > 0
    BY <2>1, RunningIsFinite, FS_RemoveElement, FS_EmptySet
  <2>3. permits' + Cardinality(Running') = limit' /\ permits' >= 0
    BY <2>1, <2>2, <1>0, RunningIsFinite, PermitCount DEF TypeOK
  <2> QED
    BY <2>3, <1>0, <1>n DEF PermitInv, PermitsMatchRunningAgents, Running
<1> QED
  BY <1>1, <1>2, <1>3 DEF QuestionStep

\* Cancelling tasks gives back the permits of those that run.
LEMMA CancelTasksPermits ==
  ASSUME PermitInv, NEW S \in SUBSET Questions, CancelTasks(S), limit' = limit
  PROVE  PermitsMatchRunningAgents'
<1> DEFINE Hit == {q \in S : qpc[q] = "running"}
<1>1. Running' = Running \ Hit /\ Hit \subseteq Running
  <2>1. qpc' = [q \in Questions |-> IF q \in S THEN Struck(q) ELSE qpc[q]]
    BY DEF CancelTasks
  <2>2. \A q \in S : Struck(q) # "running"
    BY DEF Struck
  <2> QED
    BY <2>1, <2>2 DEF Running
<1>2. permits' = permits + Cardinality(Hit)
  BY DEF CancelTasks
<1> HIDE DEF Hit
<1>3. IsFiniteSet(Hit) /\ Cardinality(Hit) \in Nat /\ Cardinality(Hit) <= Cardinality(Running)
  BY <1>1, RunningIsFinite, FS_Subset, FS_CardinalityType
<1>4. IsFiniteSet(Running') /\ Cardinality(Running') \in Nat
  BY <1>1, RunningIsFinite, FS_Subset, FS_CardinalityType
<1>5. Cardinality(Running) = Cardinality(Running') + Cardinality(Hit)
  <2>1. Running \cap Hit = Hit
    BY <1>1
  <2>2. Cardinality(Running \ Hit) = Cardinality(Running) - Cardinality(Running \cap Hit)
    BY RunningIsFinite, <1>3, FS_Difference
  <2>3. Cardinality(Running') = Cardinality(Running) - Cardinality(Hit)
    BY <1>1, <2>1, <2>2
  <2> QED
    BY <2>3, <1>3, <1>4, RunningIsFinite
<1>6. permits' + Cardinality(Running') = limit' /\ (Cardinality(Running') > 0 => permits' >= 0)
  BY <1>2, <1>3, <1>4, <1>5, PermitCount DEF PermitInv, TypeOK
<1> QED
  BY <1>6 DEF PermitsMatchRunningAgents, Running

LEMMA StepPermits == PermitInv /\ [Next]_vars => PermitInv'
<1> SUFFICES ASSUME PermitInv, [Next]_vars PROVE PermitInv'
  OBVIOUS
<1>0. TypeOK /\ TypeOK'
  BY StepTypeOK DEF PermitInv
<1>1. ASSUME NEW q \in Questions, QuestionStep(q) PROVE PermitInv'
  BY <1>1, QuestionStepPermits
<1>2. CASE StartBatch
  <2>1. Running' = Running /\ UNCHANGED <<permits, limit>> /\ phase' # "starting"
    BY <1>2 DEF StartBatch, PermitInv, NotStarted, Running
  <2> QED
    BY <2>1, <1>0, PermitsUntouched DEF NotStarted
\* Steps of the batch task that leave the tasks alone.
<1>3. ASSUME UNCHANGED <<qpc, permits, limit>>, phase' = "starting" => phase = "starting"
      PROVE  PermitInv'
  BY <1>0, <1>3, PermitsUntouched DEF PermitInv, NotStarted, Running
<1>4. CASE (\E q \in Questions : Collect(q)) \/ AllCollected \/ DrainNext \/ DrainEnds
           \/ ReportOrphan \/ OrphansReported \/ CloseBatch \/ CancelStorageCall
           \/ Rest \/ UNCHANGED vars
  BY <1>3, <1>4 DEF Collect, AllCollected, DrainNext, DrainEnds, ReportOrphan, OrphansReported,
    CloseBatch, CancelStorageCall, CancelCall, Rest, vars, questionVars
<1>5. CASE CancelCollecting
  <2>1. CancelTasks({q \in Questions : ~QuestionOver(q)}) /\ limit' = limit /\ phase' = "draining"
    BY <1>5 DEF CancelCollecting, CancelCall
  <2>2. PermitsMatchRunningAgents'
    BY <2>1, CancelTasksPermits
  <2> QED
    BY <2>1, <2>2, <1>0 DEF PermitInv, NotStarted
<1>6. CASE CancelDraining
  <2>1. limit' = limit /\ phase' = "draining" /\ next \in Questions
    BY <1>6 DEF CancelDraining, CancelCall
  <2>2. CASE CancelTasks({next})
    <3>1. PermitsMatchRunningAgents'
      BY <2>1, <2>2, CancelTasksPermits
    <3> QED
      BY <2>1, <3>1, <1>0 DEF PermitInv, NotStarted
  <2>3. CASE UNCHANGED questionVars
    BY <2>1, <2>3, <1>3 DEF questionVars
  <2> QED
    BY <2>2, <2>3, <1>6 DEF CancelDraining
<1> QED
  BY <1>1, <1>2, <1>4, <1>5, <1>6 DEF Next, BatchStep, Cancel

\* No more agents run at once than max_concurrency allows, behind cancellations
\* and broken batches too, and no permit is lost (the semaphore of
\* run_batch_eval and run_question).
THEOREM PermitsAreKept == Spec => []PermitsMatchRunningAgents
<1>1. PermitInv => PermitsMatchRunningAgents
  BY DEF PermitInv
<1> QED
  BY <1>1, InitPermits, StepPermits, PTL DEF Spec
-----------------------------------------------------------------------------
(* The outcome of the batch *)

\* What the loops of the batch task know of the tasks.
LoopsFollowTheTasks ==
  /\ phase = "starting" => \A q \in Questions : qpc[q] = "absent"
  /\ \A q \in Questions : HasResult(q) => qpc[q] = "done"
  /\ phase = "draining" => \A q \in Questions : q < next => QuestionOver(q)
  /\ phase \in {"orphans", "closing", "returned"} => \A q \in Questions : QuestionOver(q)

\* The orphans are the questions without a result.
OrphansHaveNoResult ==
  /\ phase \in {"starting", "collecting", "draining"} => orphaned = {}
  /\ \A q \in orphaned : QuestionOver(q) /\ ~HasResult(q)
  /\ phase = "orphans" => \A q \in Questions : q < next => HasResult(q) \/ q \in orphaned
  /\ phase \in {"closing", "returned"} => \A q \in Questions : HasResult(q) \/ q \in orphaned

\* What the storage knows of a question.  A batch killed while it reports an
\* orphan may have stored it.
StoredIsTheOutcome ==
  phase # "killed" =>
    \A q \in Questions :
      IF q \in orphaned THEN q \in unsaved \/ stored[q] = "interrupted"
                        ELSE qpc[q] = "done" => stored[q] = status[q]

\* What a cancellation changes: without one nothing is drained and every
\* question is collected, with one the draining loop counts again what was
\* collected.
CancellationShows ==
  /\ cancels = 0 => ~cancelled
  /\ phase \in {"starting", "collecting"} => ~cancelled
  /\ phase = "draining" => cancelled
  /\ ~cancelled => drained = {}
  /\ ~cancelled /\ phase \in {"orphans", "closing", "returned"} => collected = Questions
  /\ phase = "draining" =>
       next \notin collected /\ \A q \in collected : q < next => q \in drained
  /\ cancelled /\ phase \in {"orphans", "closing", "returned"} => collected \subseteq drained

\* How the batch may have ended.
EndIsJustified ==
  /\ batchStored = "completed" => phase \in {"returned", "killed"}
  /\ CompletedBatchHasAnswers
  /\ RunningBatchSurvivesOneCancel

BatchInv ==
  TypeOK /\ LoopsFollowTheTasks /\ OrphansHaveNoResult /\ StoredIsTheOutcome
    /\ CancellationShows /\ EndIsJustified

LEMMA InitBatch == Init => BatchInv
<1> SUFFICES ASSUME Init PROVE BatchInv
  OBVIOUS
<1> QED
  BY InitTypeOK DEF Init, BatchInv, LoopsFollowTheTasks, OrphansHaveNoResult, StoredIsTheOutcome,
    CancellationShows, EndIsJustified, CompletedBatchHasAnswers, RunningBatchSurvivesOneCancel,
    HasResult

\* A step of the tasks: what is over stays as it is, and a task that gets a
\* result has stored it.
LEMMA TasksMove ==
  ASSUME BatchInv, TypeOK',
         UNCHANGED <<phase, cancelled, next, resultVars, batchStored>>,
         cancels' = cancels \/ (cancels' = cancels + 1 /\ phase = "draining"),
         \A m \in Questions : QuestionOver(m) =>
           qpc'[m] = qpc[m] /\ status'[m] = status[m] /\ stored'[m] = stored[m],
         \A m \in Questions : ~QuestionOver(m) /\ qpc'[m] = "done" => stored'[m] = status'[m],
         \A m \in Questions : qpc[m] = "absent" => qpc'[m] = "absent"
  PROVE  BatchInv'
<1>1. LoopsFollowTheTasks'
  BY DEF BatchInv, TypeOK, LoopsFollowTheTasks, HasResult, QuestionOver, resultVars
<1>2. OrphansHaveNoResult'
  BY DEF BatchInv, TypeOK, OrphansHaveNoResult, HasResult, QuestionOver, resultVars
<1>3. StoredIsTheOutcome'
  BY DEF BatchInv, TypeOK, StoredIsTheOutcome, OrphansHaveNoResult, QuestionOver, resultVars
<1>4. CancellationShows'
  BY DEF BatchInv, TypeOK, CancellationShows, resultVars
<1>5. EndIsJustified'
  BY DEF BatchInv, TypeOK, EndIsJustified, CompletedBatchHasAnswers,
    RunningBatchSurvivesOneCancel, QuestionOver, resultVars
<1> QED
  BY <1>1, <1>2, <1>3, <1>4, <1>5 DEF BatchInv

LEMMA QuestionStepBatch ==
  ASSUME BatchInv, NEW q \in Questions, QuestionStep(q)
  PROVE  BatchInv'
<1>1. TypeOK /\ TypeOK'
  BY QuestionStepTypeOK DEF BatchInv
<1>2. /\ UNCHANGED <<phase, cancelled, cancels, next, resultVars, batchStored>>
      /\ ~QuestionOver(q) /\ qpc[q] # "absent"
  BY DEF QuestionStep, Begin, Announced, Enter, RunEnds, Persist, QuestionOver
<1>3. \A m \in Questions : m # q =>
        qpc'[m] = qpc[m] /\ status'[m] = status[m] /\ stored'[m] = stored[m]
  BY <1>1 DEF QuestionStep, Begin, Announced, Enter, RunEnds, Persist, Move, SetStatus, Store, TypeOK
<1>4. qpc'[q] = "done" => stored'[q] = status'[q]
  BY <1>1 DEF QuestionStep, Begin, Announced, Enter, RunEnds, Persist, Move, SetStatus, Store, TypeOK
<1>5. \A m \in Questions : QuestionOver(m) =>
        qpc'[m] = qpc[m] /\ status'[m] = status[m] /\ stored'[m] = stored[m]
  BY <1>2, <1>3
<1>6. \A m \in Questions : ~QuestionOver(m) /\ qpc'[m] = "done" => stored'[m] = status'[m]
  BY <1>3, <1>4 DEF QuestionOver
<1>7. \A m \in Questions : qpc[m] = "absent" => qpc'[m] = "absent"
  BY <1>2, <1>3
<1> QED
  BY <1>1, <1>2, <1>5, <1>6, <1>7, TasksMove

LEMMA StartBatchKeeps == BatchInv /\ StartBatch => BatchInv'
<1> SUFFICES ASSUME BatchInv, StartBatch PROVE BatchInv'
  OBVIOUS
<1>1. TypeOK'
  BY StepTypeOK DEF BatchInv, Next, BatchStep
<1>2. collected \union drained = {} /\ orphaned = {}
  BY DEF BatchInv, LoopsFollowTheTasks, OrphansHaveNoResult, StartBatch, HasResult, TypeOK
<1> QED
  BY <1>1, <1>2 DEF StartBatch, BatchInv, LoopsFollowTheTasks, OrphansHaveNoResult,
    StoredIsTheOutcome, CancellationShows, EndIsJustified, CompletedBatchHasAnswers,
    RunningBatchSurvivesOneCancel, HasResult, resultVars

LEMMA CollectKeeps ==
  ASSUME BatchInv, NEW q \in Questions, Collect(q)
  PROVE  BatchInv'
<1>1. TypeOK'
  BY StepTypeOK DEF BatchInv, Next, BatchStep
<1> QED
  BY <1>1 DEF Collect, BatchInv, LoopsFollowTheTasks, OrphansHaveNoResult,
    StoredIsTheOutcome, CancellationShows, EndIsJustified, CompletedBatchHasAnswers,
    RunningBatchSurvivesOneCancel, HasResult, QuestionOver, questionVars

LEMMA AllCollectedKeeps == BatchInv /\ AllCollected => BatchInv'
<1> SUFFICES ASSUME BatchInv, AllCollected PROVE BatchInv'
  OBVIOUS
<1>1. TypeOK'
  BY StepTypeOK DEF BatchInv, Next, BatchStep
<1> QED
  BY <1>1 DEF AllCollected, BatchInv, LoopsFollowTheTasks, OrphansHaveNoResult,
    StoredIsTheOutcome, CancellationShows, EndIsJustified, CompletedBatchHasAnswers,
    RunningBatchSurvivesOneCancel, HasResult, QuestionOver, questionVars, resultVars

\* The draining loop moves on from q: every question before q is over, and those
\* that were collected are drained.
LEMMA DrainMoves ==
  ASSUME BatchInv, TypeOK', NEW q \in 1..(NumQuestions + 1), DrainFrom(q),
         phase = "draining",
         \A m \in Questions : m < q => QuestionOver(m) /\ (m \in collected => m \in drained),
         UNCHANGED <<limit, phase, cancelled, questionVars, collected, orphaned, unsaved,
                     stored, batchStored>>,
         cancels' \in {cancels, cancels + 1}
  PROVE  BatchInv'
<1>1. /\ next' \in q..(NumQuestions + 1)
      /\ \A m \in Questions : m < next' =>
           m < q \/ (QuestionOver(m) /\ (qpc[m] = "done" => m \in drained'))
      /\ \A m \in drained' : m \in drained \/ qpc[m] = "done"
      /\ drained \subseteq drained'
      /\ ~(next' \in Questions /\ QuestionOver(next'))
  BY DrainFromMoves
<1>2. LoopsFollowTheTasks'
  <2>1. \A m \in Questions : m < next' => QuestionOver(m)
    BY <1>1
  <2>2. \A m \in Questions : HasResult(m)' => qpc[m] = "done"
    BY <1>1 DEF BatchInv, LoopsFollowTheTasks, HasResult
  <2>3. \A m \in Questions : QuestionOver(m)' <=> QuestionOver(m)
    BY DEF QuestionOver, questionVars
  <2> QED
    BY <2>1, <2>2, <2>3 DEF LoopsFollowTheTasks, questionVars
<1>3. OrphansHaveNoResult'
  BY DEF BatchInv, OrphansHaveNoResult
<1>4. StoredIsTheOutcome'
  BY DEF BatchInv, StoredIsTheOutcome, questionVars
<1>5. CancellationShows'
  <2>1. \A m \in collected : m \in Questions /\ qpc[m] = "done" /\ QuestionOver(m)
    BY DEF BatchInv, TypeOK, LoopsFollowTheTasks, HasResult, QuestionOver
  <2>2. next' \notin collected /\ \A m \in collected : m < next' => m \in drained'
    BY <1>1, <2>1
  <2>3. cancelled /\ (cancels = 0 => ~cancelled)
    BY DEF BatchInv, CancellationShows
  <2>4. cancels' # 0
    BY <2>3 DEF BatchInv, TypeOK
  <2> QED
    BY <2>2, <2>3, <2>4 DEF CancellationShows
<1>6. EndIsJustified'
  BY DEF BatchInv, EndIsJustified, CompletedBatchHasAnswers, RunningBatchSurvivesOneCancel
<1> QED
  BY <1>2, <1>3, <1>4, <1>5, <1>6 DEF BatchInv

LEMMA DrainNextKeeps == BatchInv /\ DrainNext => BatchInv'
<1> SUFFICES ASSUME BatchInv, DrainNext PROVE BatchInv'
  OBVIOUS
<1>1. TypeOK'
  BY StepTypeOK DEF BatchInv, Next, BatchStep
<1>2. \A m \in Questions : m < next => QuestionOver(m) /\ (m \in collected => m \in drained)
  BY DEF DrainNext, BatchInv, LoopsFollowTheTasks, CancellationShows
<1> QED
  BY <1>1, <1>2, DrainMoves DEF DrainNext

LEMMA DrainEndsKeeps == BatchInv /\ DrainEnds => BatchInv'
<1> SUFFICES ASSUME BatchInv, DrainEnds PROVE BatchInv'
  OBVIOUS
<1>1. TypeOK'
  BY StepTypeOK DEF BatchInv, Next, BatchStep
<1>2. \A q \in Questions : QuestionOver(q) /\ (q \in collected => q \in drained)
  BY DEF DrainEnds, BatchInv, LoopsFollowTheTasks, CancellationShows
<1>3. LoopsFollowTheTasks' /\ OrphansHaveNoResult' /\ StoredIsTheOutcome'
  BY <1>2 DEF DrainEnds, BatchInv, LoopsFollowTheTasks, OrphansHaveNoResult, StoredIsTheOutcome,
    HasResult, QuestionOver, questionVars, resultVars
<1>4. CancellationShows' /\ EndIsJustified'
  BY <1>2 DEF DrainEnds, BatchInv, TypeOK, CancellationShows, EndIsJustified,
    CompletedBatchHasAnswers, RunningBatchSurvivesOneCancel, questionVars, resultVars
<1> QED
  BY <1>1, <1>3, <1>4 DEF BatchInv

LEMMA ReportOrphanKeeps == BatchInv /\ ReportOrphan => BatchInv'
<1> SUFFICES ASSUME BatchInv, ReportOrphan PROVE BatchInv'
  OBVIOUS
<1>1. TypeOK /\ TypeOK'
  BY StepTypeOK DEF BatchInv, Next, BatchStep
<1> USE DEF BatchInv, ReportOrphan, questionVars
<1>2. LoopsFollowTheTasks'
  BY DEF LoopsFollowTheTasks, HasResult, QuestionOver
<1>3. OrphansHaveNoResult'
  BY <1>1 DEF OrphansHaveNoResult, LoopsFollowTheTasks, HasResult, QuestionOver, TypeOK
<1>4. StoredIsTheOutcome'
  BY <1>1 DEF StoredIsTheOutcome, OrphansHaveNoResult, Store, TypeOK
<1>5. CancellationShows' /\ EndIsJustified'
  BY DEF CancellationShows, EndIsJustified, CompletedBatchHasAnswers,
    RunningBatchSurvivesOneCancel
<1> QED
  BY <1>1, <1>2, <1>3, <1>4, <1>5

LEMMA OrphansReportedKeeps == BatchInv /\ OrphansReported => BatchInv'
<1> SUFFICES ASSUME BatchInv, OrphansReported PROVE BatchInv'
  OBVIOUS
<1>1. TypeOK'
  BY StepTypeOK DEF BatchInv, Next, BatchStep
<1>2. \A q \in Questions : q < next
  BY DEF OrphansReported
<1> QED
  BY <1>1, <1>2 DEF OrphansReported, BatchInv, LoopsFollowTheTasks, OrphansHaveNoResult,
    StoredIsTheOutcome, CancellationShows, EndIsJustified, CompletedBatchHasAnswers,
    RunningBatchSurvivesOneCancel, HasResult, QuestionOver, questionVars, resultVars

\* A summary says "completed" only when a question that was collected did.
LEMMA CompletedSummary ==
  ASSUME BatchInv, phase = "closing", SummaryStatus = "completed"
  PROVE  /\ ~cancelled
         /\ \A q \in Questions : qpc[q] = "done"
         /\ \E q \in Questions : stored[q] = "completed"
<1>1. ~cancelled /\ Count("completed") > 0
  BY DEF SummaryStatus
<1>2. collected = Questions /\ drained = {}
  BY <1>1 DEF BatchInv, CancellationShows
<1>3. \A q \in Questions : qpc[q] = "done" /\ stored[q] = status[q]
  BY <1>2 DEF BatchInv, LoopsFollowTheTasks, OrphansHaveNoResult, StoredIsTheOutcome, HasResult
<1>4. \E q \in Questions : status[q] = "completed"
  <2> SUFFICES ASSUME \A q \in Questions : status[q] # "completed" PROVE FALSE
    OBVIOUS
  <2>1. {q \in collected : status[q] = "completed"} = {}
        /\ {q \in drained : status[q] = "completed"} = {}
    BY <1>2
  <2> QED
    BY <2>1, <1>1, FS_EmptySet DEF Count
<1> QED
  BY <1>1, <1>3, <1>4

LEMMA CloseBatchKeeps == BatchInv /\ CloseBatch => BatchInv'
<1> SUFFICES ASSUME BatchInv, CloseBatch PROVE BatchInv'
  OBVIOUS
<1>1. TypeOK'
  BY StepTypeOK DEF BatchInv, Next, BatchStep
<1> USE DEF BatchInv, CloseBatch, questionVars, resultVars
<1>2. LoopsFollowTheTasks' /\ OrphansHaveNoResult' /\ StoredIsTheOutcome' /\ CancellationShows'
  BY DEF LoopsFollowTheTasks, OrphansHaveNoResult, StoredIsTheOutcome, CancellationShows,
    HasResult, QuestionOver
<1>3. EndIsJustified'
  BY CompletedSummary DEF EndIsJustified, CompletedBatchHasAnswers, RunningBatchSurvivesOneCancel
<1> QED
  BY <1>1, <1>2, <1>3

LEMMA CancelCollectingKeeps == BatchInv /\ CancelCollecting => BatchInv'
<1> SUFFICES ASSUME BatchInv, CancelCollecting PROVE BatchInv'
  OBVIOUS
<1>1. TypeOK /\ TypeOK'
  BY StepTypeOK DEF BatchInv, Next, Cancel
<1>2. DrainFrom(1) /\ CancelTasks({q \in Questions : ~QuestionOver(q)})
  BY DEF CancelCollecting
<1>3. /\ \A q \in Questions : QuestionOver(q) =>
           qpc'[q] = qpc[q] /\ status'[q] = status[q] /\ stored'[q] = stored[q]
      /\ \A q \in Questions : qpc'[q] = "done" => qpc[q] = "done"
  BY <1>1, <1>2, CancelTasksEffect
<1>4. /\ next' \in 1..(NumQuestions + 1)
      /\ \A m \in Questions : m < next' =>
           QuestionOver(m) /\ (qpc[m] = "done" => m \in drained')
      /\ \A m \in drained' : m \in drained \/ qpc[m] = "done"
      /\ ~(next' \in Questions /\ QuestionOver(next'))
  BY <1>2, DrainFromMoves
<1>5. /\ phase = "collecting" /\ phase' = "draining" /\ cancelled' /\ cancels' = cancels + 1
      /\ UNCHANGED <<collected, orphaned, unsaved, batchStored>>
  BY DEF CancelCollecting, CancelCall
<1>m. \A m \in collected : m \in Questions /\ qpc[m] = "done" /\ QuestionOver(m)
  BY <1>1 DEF BatchInv, TypeOK, LoopsFollowTheTasks, HasResult, QuestionOver
<1>6. LoopsFollowTheTasks'
  <2>1. \A m \in Questions : QuestionOver(m) => QuestionOver(m)'
    BY <1>3 DEF QuestionOver
  <2>2. \A m \in Questions : m < next' => QuestionOver(m)'
    BY <1>4, <2>1
  <2>3. drained = {}
    BY <1>5 DEF BatchInv, CancellationShows
  <2>4. \A m \in Questions : HasResult(m)' => qpc'[m] = "done"
    BY <1>3, <1>4, <1>5, <1>m, <2>3 DEF HasResult, QuestionOver
  <2> QED
    BY <1>5, <2>2, <2>4 DEF LoopsFollowTheTasks
<1>7. OrphansHaveNoResult' /\ StoredIsTheOutcome'
  BY <1>1, <1>3, <1>5 DEF BatchInv, OrphansHaveNoResult, StoredIsTheOutcome, QuestionOver, TypeOK
<1>8. CancellationShows'
  <2>1. next' \notin collected /\ \A m \in collected : m < next' => m \in drained'
    BY <1>4, <1>m
  <2>2. cancels' # 0
    BY <1>1, <1>5 DEF TypeOK
  <2> QED
    BY <1>5, <2>1, <2>2 DEF CancellationShows
<1>9. EndIsJustified'
  BY <1>5 DEF BatchInv, EndIsJustified, CompletedBatchHasAnswers, RunningBatchSurvivesOneCancel
<1> QED
  BY <1>1, <1>6, <1>7, <1>8, <1>9 DEF BatchInv

LEMMA CancelDrainingKeeps == BatchInv /\ CancelDraining => BatchInv'
<1> SUFFICES ASSUME BatchInv, CancelDraining PROVE BatchInv'
  OBVIOUS
<1>1. TypeOK /\ TypeOK'
  BY StepTypeOK DEF BatchInv, Next, Cancel
<1>2. /\ phase = "draining" /\ next \in Questions /\ cancels' = cancels + 1
      /\ UNCHANGED <<limit, phase, cancelled, collected, orphaned, unsaved, batchStored>>
  BY DEF CancelDraining, CancelCall
<1>3. CASE ~QuestionOver(next) /\ CancelTasks({next}) /\ UNCHANGED <<next, drained>>
  <2>1. /\ \A q \in Questions : QuestionOver(q) =>
             qpc'[q] = qpc[q] /\ status'[q] = status[q] /\ stored'[q] = stored[q]
        /\ \A q \in Questions : qpc'[q] = "done" => qpc[q] = "done"
        /\ \A q \in Questions : qpc'[q] = "absent" <=> qpc[q] = "absent"
    BY <1>1, <1>2, <1>3, CancelTasksEffect
  <2> QED
    BY <1>1, <1>2, <1>3, <2>1, TasksMove DEF resultVars, QuestionOver
<1>4. CASE QuestionOver(next) /\ DrainFrom(next + 1) /\ UNCHANGED <<questionVars, stored>>
  <2>1. \A m \in Questions : m < next + 1 =>
          QuestionOver(m) /\ (m \in collected => m \in drained)
    BY <1>2, <1>4 DEF BatchInv, LoopsFollowTheTasks, CancellationShows
  <2> QED
    BY <1>1, <1>2, <1>4, <2>1, DrainMoves
<1> QED
  BY <1>3, <1>4 DEF CancelDraining

LEMMA CancelStorageCallKeeps == BatchInv /\ CancelStorageCall => BatchInv'
<1> SUFFICES ASSUME BatchInv, CancelStorageCall PROVE BatchInv'
  OBVIOUS
<1>1. TypeOK /\ TypeOK'
  BY StepTypeOK DEF BatchInv, Next, Cancel
<1>2. /\ phase' = "killed" /\ cancels' = cancels + 1 /\ phase # "killed"
      /\ UNCHANGED <<limit, cancelled, next, questionVars, resultVars>>
  BY DEF CancelStorageCall, CancelCall, BatchOver
<1>3. LoopsFollowTheTasks' /\ OrphansHaveNoResult' /\ StoredIsTheOutcome' /\ CancellationShows'
  BY <1>1, <1>2 DEF BatchInv, LoopsFollowTheTasks, OrphansHaveNoResult, StoredIsTheOutcome,
    CancellationShows, HasResult, QuestionOver, questionVars, resultVars, TypeOK
<1>4. (batchStored' = "completed" => phase' = "killed") /\ CompletedBatchHasAnswers'
  <2>1. CASE phase = "closing"
    BY <2>1, <1>2, CompletedSummary DEF CancelStorageCall, BatchInv, EndIsJustified,
      CompletedBatchHasAnswers, questionVars
  <2>2. CASE phase # "closing"
    BY <2>2, <1>2 DEF CancelStorageCall, BatchInv, EndIsJustified, CompletedBatchHasAnswers
  <2> QED
    BY <2>1, <2>2
<1>5. RunningBatchSurvivesOneCancel'
  <2> SUFFICES ASSUME cancels = 0 PROVE \A q \in Questions : qpc[q] \in {"absent", "done"} /\ ~cancelled
    BY <1>1, <1>2 DEF RunningBatchSurvivesOneCancel, questionVars, TypeOK
  <2>1. ~cancelled
    BY DEF BatchInv, CancellationShows
  <2>2. CASE phase = "starting"
    BY <2>1, <2>2 DEF BatchInv, LoopsFollowTheTasks
  <2>3. CASE phase \in {"orphans", "closing"}
    BY <2>1, <2>3 DEF BatchInv, LoopsFollowTheTasks, CancellationShows, HasResult
  <2> QED
    BY <2>2, <2>3 DEF CancelStorageCall
<1> QED
  BY <1>1, <1>2, <1>3, <1>4, <1>5 DEF BatchInv, EndIsJustified

LEMMA StepBatch == BatchInv /\ [Next]_vars => BatchInv'
<1>1. ASSUME BatchInv, Rest \/ UNCHANGED vars PROVE BatchInv'
  <2>1. UNCHANGED vars
    BY <1>1 DEF Rest
  <2>2. TypeOK'
    BY <1>1, <2>1, StepTypeOK DEF BatchInv
  <2>3. LoopsFollowTheTasks' /\ OrphansHaveNoResult' /\ StoredIsTheOutcome'
    BY <1>1, <2>1 DEF vars, questionVars, resultVars, BatchInv, LoopsFollowTheTasks,
      OrphansHaveNoResult, StoredIsTheOutcome, HasResult, QuestionOver
  <2>4. CancellationShows' /\ EndIsJustified'
    BY <1>1, <2>1 DEF vars, questionVars, resultVars, BatchInv, CancellationShows, EndIsJustified,
      CompletedBatchHasAnswers, RunningBatchSurvivesOneCancel
  <2> QED
    BY <2>2, <2>3, <2>4 DEF BatchInv
<1> QED
  BY <1>1, QuestionStepBatch, StartBatchKeeps, CollectKeeps, AllCollectedKeeps, DrainNextKeeps,
    DrainEndsKeeps, ReportOrphanKeeps, OrphansReportedKeeps, CloseBatchKeeps,
    CancelCollectingKeeps, CancelDrainingKeeps, CancelStorageCallKeeps
    DEF Next, BatchStep, Cancel

THEOREM BatchInvariant == Spec => []BatchInv
BY InitBatch, StepBatch, PTL DEF Spec

\* A batch that returned has left no question task behind and has stored every
\* question as its summary counted it, save for the orphans whose
\* on_question_completed raised.
THEOREM SummaryIsStored == Spec => []ReturnedBatchIsStored
<1>1. BatchInv => ReturnedBatchIsStored
  BY DEF BatchInv, LoopsFollowTheTasks, OrphansHaveNoResult, StoredIsTheOutcome,
    ReturnedBatchIsStored, HasResult
<1> QED
  BY <1>1, BatchInvariant, PTL

\* on_batch_completed says "completed" only of a batch without a cancellation
\* that has an answer to every question.
THEOREM CompletedIsEarned == Spec => []CompletedBatchHasAnswers
<1>1. BatchInv => CompletedBatchHasAnswers
  BY DEF BatchInv, EndIsJustified
<1> QED
  BY <1>1, BatchInvariant, PTL

\* One call of the cancel endpoint does not kill a batch task that waits for its
\* questions.
THEOREM OneCancelIsSurvived == Spec => []RunningBatchSurvivesOneCancel
<1>1. BatchInv => RunningBatchSurvivesOneCancel
  BY DEF BatchInv, EndIsJustified
<1> QED
  BY <1>1, BatchInvariant, PTL
-----------------------------------------------------------------------------
(* The summary *)

LEMMA QuestionSets ==
  ASSUME NEW S \in SUBSET Questions
  PROVE  IsFiniteSet(S) /\ Cardinality(S) \in Nat
<1>1. IsFiniteSet(Questions)
  BY FS_Interval
<1> QED
  BY <1>1, FS_Subset, FS_CardinalityType

LEMMA DisjointQuestions ==
  ASSUME NEW S \in SUBSET Questions, NEW T \in SUBSET Questions, S \cap T = {}
  PROVE  Cardinality(S \union T) = Cardinality(S) + Cardinality(T)
<1>1. IsFiniteSet(S) /\ IsFiniteSet(T) /\ Cardinality(S) \in Nat /\ Cardinality(T) \in Nat
  BY QuestionSets
<1>2. Cardinality(S \union T) = Cardinality(S) + Cardinality(T) - Cardinality(S \cap T)
  BY <1>1, FS_Union
<1>3. Cardinality(S \cap T) = 0
  BY FS_EmptySet
<1> QED
  BY <1>1, <1>2, <1>3

\* Every result has one of the four statuses.
LEMMA CountByStatus ==
  ASSUME TypeOK, NEW C \in SUBSET Questions
  PROVE  Cardinality({q \in C : status[q] = "completed"}) + Cardinality({q \in C : status[q] = "failed"})
           + Cardinality({q \in C : status[q] = "interrupted"})
           + Cardinality({q \in C : status[q] = "running"}) = Cardinality(C)
<1> DEFINE Of(s) == {q \in C : status[q] = s}
           A == Of("completed") \union Of("failed")
           B == Of("interrupted") \union Of("running")
<1>1. C = A \union B
  BY DEF TypeOK, Statuses
<1>2. A \cap B = {} /\ Of("completed") \cap Of("failed") = {}
      /\ Of("interrupted") \cap Of("running") = {}
  OBVIOUS
<1>3. /\ Of("completed") \in SUBSET Questions /\ Of("failed") \in SUBSET Questions
      /\ Of("interrupted") \in SUBSET Questions /\ Of("running") \in SUBSET Questions
      /\ A \in SUBSET Questions /\ B \in SUBSET Questions
  OBVIOUS
<1>4. /\ Cardinality(Of("completed")) \in Nat /\ Cardinality(Of("failed")) \in Nat
      /\ Cardinality(Of("interrupted")) \in Nat /\ Cardinality(Of("running")) \in Nat
  BY <1>3, QuestionSets
<1> HIDE DEF Of
<1>5. Cardinality(A) = Cardinality(Of("completed")) + Cardinality(Of("failed"))
  BY <1>2, <1>3, DisjointQuestions
<1>6. Cardinality(B) = Cardinality(Of("interrupted")) + Cardinality(Of("running"))
  BY <1>2, <1>3, DisjointQuestions
<1> HIDE DEF A, B
<1>7. Cardinality(C) = Cardinality(A) + Cardinality(B)
  BY <1>1, <1>2, <1>3, DisjointQuestions
<1>8. Cardinality(Of("completed")) + Cardinality(Of("failed"))
        + Cardinality(Of("interrupted")) + Cardinality(Of("running")) = Cardinality(C)
  BY <1>4, <1>5, <1>6, <1>7
<1> QED
  BY <1>8 DEF Of

\* The counts add up to the results that were appended.
LEMMA CountsAddUp ==
  ASSUME TypeOK
  PROVE  Count("completed") + Count("failed") + Count("interrupted") + Count("running")
           = Cardinality(collected) + Cardinality(drained) + Cardinality(orphaned)
<1> DEFINE Col(s) == Cardinality({q \in collected : status[q] = s})
           Dra(s) == Cardinality({q \in drained : status[q] = s})
<1>1. /\ Count("completed") = Col("completed") + Dra("completed") + 0
      /\ Count("failed") = Col("failed") + Dra("failed") + 0
      /\ Count("interrupted") = Col("interrupted") + Dra("interrupted") + Cardinality(orphaned)
      /\ Count("running") = Col("running") + Dra("running") + 0
  BY DEF Count
<1>2. Col("completed") + Col("failed") + Col("interrupted") + Col("running") = Cardinality(collected)
  BY CountByStatus DEF TypeOK
<1>3. Dra("completed") + Dra("failed") + Dra("interrupted") + Dra("running") = Cardinality(drained)
  BY CountByStatus DEF TypeOK
<1>4. \A S \in SUBSET Questions : Cardinality(S) \in Nat
  BY QuestionSets
<1>5. \A s \in Statuses : Col(s) \in Nat /\ Dra(s) \in Nat
  <2> SUFFICES ASSUME NEW s \in Statuses PROVE Col(s) \in Nat /\ Dra(s) \in Nat
    OBVIOUS
  <2>1. {q \in collected : status[q] = s} \in SUBSET Questions
        /\ {q \in drained : status[q] = s} \in SUBSET Questions
    BY DEF TypeOK
  <2> QED
    BY <2>1, <1>4
<1>6. Cardinality(collected) \in Nat /\ Cardinality(drained) \in Nat /\ Cardinality(orphaned) \in Nat
  BY <1>4 DEF TypeOK
<1> HIDE DEF Col, Dra
<1>7. /\ Col("completed") \in Nat /\ Col("failed") \in Nat /\ Col("interrupted") \in Nat
      /\ Col("running") \in Nat /\ Dra("completed") \in Nat /\ Dra("failed") \in Nat
      /\ Dra("interrupted") \in Nat /\ Dra("running") \in Nat
  BY <1>5 DEF Statuses
<1> QED
  BY <1>1, <1>2, <1>3, <1>6, <1>7

\* The summary counts every question once, and a second time those collected
\* before a cancellation (the draining loop of run_batch_eval).
THEOREM SummaryAddsUp == Spec => []SummaryAccounting
<1>1. BatchInv => SummaryAccounting
  <2> SUFFICES ASSUME BatchInv, phase \in {"closing", "returned"}
               PROVE  Cardinality(collected) + Cardinality(drained) + Cardinality(orphaned)
                        = NumQuestions + (IF cancelled THEN Cardinality(collected) ELSE 0)
    BY CountsAddUp DEF SummaryAccounting, BatchInv
  <2>1. collected \in SUBSET Questions /\ drained \in SUBSET Questions /\ orphaned \in SUBSET Questions
    BY DEF BatchInv, TypeOK
  <2>2. /\ Cardinality(collected) \in Nat /\ Cardinality(drained) \in Nat
        /\ Cardinality(orphaned) \in Nat
    BY <2>1, QuestionSets
  <2>3. Cardinality(Questions) = NumQuestions
    BY FS_Interval
  <2>4. CASE ~cancelled
    <3>1. collected = Questions /\ drained = {} /\ orphaned = {}
      BY <2>4 DEF BatchInv, TypeOK, CancellationShows, OrphansHaveNoResult, HasResult
    <3>2. Cardinality(drained) = 0 /\ Cardinality(orphaned) = 0
      BY <3>1, FS_EmptySet
    <3> QED
      BY <3>1, <3>2, <2>3, <2>4
  <2>5. CASE cancelled
    <3>1. drained \union orphaned = Questions /\ drained \cap orphaned = {}
      BY <2>1, <2>5 DEF BatchInv, CancellationShows, OrphansHaveNoResult, HasResult
    <3>2. Cardinality(drained \union orphaned) = Cardinality(drained) + Cardinality(orphaned)
      BY <2>1, <3>1, DisjointQuestions
    <3>3. Cardinality(drained) + Cardinality(orphaned) = NumQuestions
      BY <3>1, <3>2, <2>3
    <3> QED
      BY <3>3, <2>2, <2>5
  <2> QED
    BY <2>4, <2>5
<1> QED
  BY <1>1, BatchInvariant, PTL
=============================================================================
