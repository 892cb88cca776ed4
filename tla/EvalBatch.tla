------------------------------ MODULE EvalBatch ------------------------------
(***************************************************************************)
(* One evaluation batch: run_batch_eval (eval/runner.py), started and      *)
(* cancelled through eval/api.py.  The batch task creates one task per     *)
(* question; a semaphore bounds how many run an agent.  Every call of the  *)
(* storage adapter is an await at which other tasks run, which may raise,  *)
(* and at which a cancellation may strike before or after it took effect.  *)
(*                                                                         *)
(* The agent runtime and the storage are external.  Question ids are       *)
(* distinct, and a question is named by its position in the request.       *)
(*                                                                         *)
(* A definition named Mut... is a variant of the one it precedes, with a   *)
(* plausible bug; no specification uses it.                                *)
(***************************************************************************)
EXTENDS Integers, FiniteSets

CONSTANTS NumQuestions,     \* questions of the batch
          Limits,           \* the values max_concurrency may have in a request
          MaxCancels        \* bound on the calls of the cancel endpoint

ASSUME QuestionsAssumption == NumQuestions \in Nat \ {0}
ASSUME LimitsAssumption == Limits \subseteq Int
ASSUME CancelsAssumption == MaxCancels \in Nat

Questions == 1..NumQuestions

VARIABLES
  limit,      \* max_concurrency: nothing checks it before the semaphore
  phase,      \* where the batch task is
  cancelled,  \* the flag _cancelled
  cancels,    \* calls of the cancel endpoint that reached the task
  next,       \* the question the draining or the orphan loop is at
  qpc,        \* where each question task is
  status,     \* result.status of each question
  permits,    \* free permits of the semaphore
  collected,  \* questions whose result the as_completed loop appended
  drained,    \* questions whose result the loop after a cancellation appended
  orphaned,   \* questions that got an "interrupted" result at the end
  unsaved,    \* orphans whose on_question_completed raised
  stored,     \* last status on_question_completed stored for each question
  batchStored \* the batch status the storage knows

resultVars == <<collected, drained, orphaned, unsaved>>
questionVars == <<qpc, status, permits>>
vars == <<limit, phase, cancelled, cancels, next, questionVars, resultVars, stored, batchStored>>

Statuses == {"running", "completed", "failed", "interrupted"}

\* "returned": run_batch_eval returned.  "broken": a storage call or a question
\* raised out of it.  "killed": a cancellation went through it.
Phases == {"starting", "collecting", "draining", "orphans", "closing",
           "returned", "broken", "killed"}

\* "done" has a result, "raised" and "cancelled" have none.
QuestionPhases == {"absent", "pending", "announcing", "queued", "running", "persisting",
                   "done", "raised", "cancelled"}

Init ==
  /\ limit \in Limits
  /\ phase = "starting"
  /\ cancelled = FALSE
  /\ cancels = 0
  /\ next = 1
  /\ qpc = [q \in Questions |-> "absent"]
  /\ status = [q \in Questions |-> "running"]
  /\ permits = limit
  /\ collected = {} /\ drained = {} /\ orphaned = {} /\ unsaved = {}
  /\ stored = [q \in Questions |-> "none"]
  /\ batchStored = "none"

QuestionOver(q) == qpc[q] \in {"done", "raised", "cancelled"}
BatchOver == phase \in {"returned", "broken", "killed"}

Move(q, p) == qpc' = [qpc EXCEPT ![q] = p]
SetStatus(q, s) == status' = [status EXCEPT ![q] = s]
Store(q, s) == stored' = [stored EXCEPT ![q] = s]

-----------------------------------------------------------------------------
(* run_question *)

\* The task is scheduled for the first time and awaits on_question_started.
Begin(q) ==
  /\ qpc[q] = "pending"
  /\ Move(q, "announcing")
  /\ UNCHANGED <<limit, phase, cancelled, cancels, next, status, permits, resultVars, stored, batchStored>>

\* on_question_started returns, or raises: the exception makes the question fail.
Announced(q) ==
  /\ qpc[q] = "announcing"
  /\ \/ Move(q, "queued") /\ UNCHANGED status
     \/ Move(q, "persisting") /\ SetStatus(q, "failed")
  /\ UNCHANGED <<limit, phase, cancelled, cancels, next, permits, resultVars, stored, batchStored>>

\* The semaphore is acquired.  A batch known to be cancelled runs no agent.
Enter(q) ==
  /\ qpc[q] = "queued"
  /\ permits > 0
  /\ IF cancelled
     THEN Move(q, "persisting") /\ SetStatus(q, "interrupted") /\ UNCHANGED permits
     ELSE Move(q, "running") /\ permits' = permits - 1 /\ UNCHANGED status
  /\ UNCHANGED <<limit, phase, cancelled, cancels, next, resultVars, stored, batchStored>>

\* The agent run is over: AgentEnd says how, an exception is a failure, and
\* without an AgentEnd the status stays "running".
MutRunEndsKeepsPermit(q) ==
  /\ qpc[q] = "running"
  /\ \E s \in Statuses : SetStatus(q, s)
  /\ Move(q, "persisting")
  /\ UNCHANGED <<limit, phase, cancelled, cancels, next, permits, resultVars, stored, batchStored>>
RunEnds(q) ==
  /\ qpc[q] = "running"
  /\ \E s \in Statuses : SetStatus(q, s)
  /\ permits' = permits + 1
  /\ Move(q, "persisting")
  /\ UNCHANGED <<limit, phase, cancelled, cancels, next, resultVars, stored, batchStored>>

\* on_llm_call_recorded, whose exceptions are logged, then
\* on_question_completed, whose exception ends the task.
Persist(q) ==
  /\ qpc[q] = "persisting"
  /\ \/ Store(q, status[q]) /\ Move(q, "done")
     \/ UNCHANGED stored /\ Move(q, "raised")
  /\ UNCHANGED <<limit, phase, cancelled, cancels, next, status, permits, resultVars, batchStored>>

\* What cancelling its task does to a question: a task that never ran ends at
\* once, the try block turns the cancellation into a result, and past the try
\* block it ends the task.
Struck(q) ==
  CASE qpc[q] \in {"pending", "persisting"} -> "cancelled"
    [] qpc[q] \in {"announcing", "queued", "running"} -> "persisting"
    [] OTHER -> qpc[q]

\* The tasks of S are cancelled, of which those in P had stored their result.
MutCancelLeaksPermit(S) ==
  /\ qpc' = [q \in Questions |-> IF q \in S THEN Struck(q) ELSE qpc[q]]
  /\ status' = [q \in Questions |->
       IF q \in S /\ Struck(q) = "persisting" THEN "interrupted" ELSE status[q]]
  /\ \E P \in SUBSET {q \in S : qpc[q] = "persisting"} :
       stored' = [q \in Questions |-> IF q \in P THEN status[q] ELSE stored[q]]
  /\ UNCHANGED permits
CancelTasks(S) ==
  /\ qpc' = [q \in Questions |-> IF q \in S THEN Struck(q) ELSE qpc[q]]
  /\ status' = [q \in Questions |->
       IF q \in S /\ Struck(q) = "persisting" THEN "interrupted" ELSE status[q]]
  /\ permits' = permits + Cardinality({q \in S : qpc[q] = "running"})
  /\ \E P \in SUBSET {q \in S : qpc[q] = "persisting"} :
       stored' = [q \in Questions |-> IF q \in P THEN status[q] ELSE stored[q]]

-----------------------------------------------------------------------------
(* The batch task *)

\* asyncio.Semaphore refuses a negative value; on_batch_started returns and the
\* question tasks are created, or it raises.
StartBatch ==
  /\ phase = "starting"
  /\ \/ /\ limit >= 0
        /\ batchStored' = "running"
        /\ phase' = "collecting"
        /\ qpc' = [q \in Questions |-> "pending"]
     \/ phase' = "broken" /\ UNCHANGED <<qpc, batchStored>>
  /\ UNCHANGED <<limit, cancelled, cancels, next, status, permits, resultVars, stored>>

\* The as_completed loop gets the result of a question that ended; the
\* exception of a question leaves run_batch_eval.
Collect(q) ==
  /\ phase = "collecting"
  /\ q \notin collected
  /\ \/ qpc[q] = "done" /\ collected' = collected \union {q} /\ UNCHANGED phase
     \/ qpc[q] = "raised" /\ phase' = "broken" /\ UNCHANGED collected
  /\ UNCHANGED <<limit, cancelled, cancels, next, questionVars, drained, orphaned, unsaved,
                 stored, batchStored>>

AllCollected ==
  /\ phase = "collecting"
  /\ collected = Questions
  /\ phase' = "orphans"
  /\ UNCHANGED <<limit, cancelled, cancels, next, questionVars, resultVars, stored, batchStored>>

\* `results.append(await t)` for every task from q on, the collected ones too,
\* until one is not over: the loop waits there.  A task that raised or was
\* cancelled has nothing to append.
DrainFrom(q) ==
  \E n \in q..(NumQuestions + 1) :
    /\ n \notin {m \in Questions : QuestionOver(m)}
    /\ \A m \in q..(n - 1) : QuestionOver(m)
    /\ next' = n
    /\ drained' = drained \union {m \in q..(n - 1) : qpc[m] = "done"}

DrainNext ==
  /\ phase = "draining"
  /\ next \in Questions
  /\ QuestionOver(next)
  /\ DrainFrom(next)
  /\ UNCHANGED <<limit, phase, cancelled, cancels, questionVars, collected, orphaned, unsaved,
                 stored, batchStored>>

DrainEnds ==
  /\ phase = "draining"
  /\ next = NumQuestions + 1
  /\ phase' = "orphans"
  /\ next' = 1
  /\ UNCHANGED <<limit, cancelled, cancels, questionVars, resultVars, stored, batchStored>>

MutHasResult(q) == q \in collected
HasResult(q) == q \in collected \union drained

\* A question without a result is reported as interrupted; a storage that
\* raises is logged.
MutReportOrphanNeverStores ==
  /\ phase = "orphans"
  /\ next \in Questions
  /\ next' = next + 1
  /\ orphaned' = orphaned \union {q \in {next} : ~HasResult(q)}
  /\ UNCHANGED <<limit, phase, cancelled, cancels, questionVars, collected, drained, unsaved,
                 stored, batchStored>>
ReportOrphan ==
  /\ phase = "orphans"
  /\ next \in Questions
  /\ next' = next + 1
  /\ \/ HasResult(next) /\ UNCHANGED <<orphaned, unsaved, stored>>
     \/ /\ ~HasResult(next)
        /\ orphaned' = orphaned \union {next}
        /\ \/ Store(next, "interrupted") /\ UNCHANGED unsaved
           \/ unsaved' = unsaved \union {next} /\ UNCHANGED stored
  /\ UNCHANGED <<limit, phase, cancelled, cancels, questionVars, collected, drained, batchStored>>

OrphansReported ==
  /\ phase = "orphans"
  /\ next = NumQuestions + 1
  /\ phase' = "closing"
  /\ UNCHANGED <<limit, cancelled, cancels, next, questionVars, resultVars, stored, batchStored>>

\* The counts of the summary: `results` is a list, which the two loops and the
\* orphans append to.
Count(s) ==
  Cardinality({q \in collected : status[q] = s}) + Cardinality({q \in drained : status[q] = s})
    + (IF s = "interrupted" THEN Cardinality(orphaned) ELSE 0)

SummaryStatus ==
  IF cancelled THEN "failed" ELSE IF Count("completed") > 0 THEN "completed" ELSE "failed"

\* on_batch_completed returns or raises.
CloseBatch ==
  /\ phase = "closing"
  /\ \/ batchStored' = SummaryStatus /\ phase' = "returned"
     \/ phase' = "broken" /\ UNCHANGED batchStored
  /\ UNCHANGED <<limit, cancelled, cancels, next, questionVars, resultVars, stored>>

-----------------------------------------------------------------------------
(* POST /batches/{batch_id}/cancel *)

\* The batch task is registered and not done: task.cancel() strikes where the
\* batch task waits.
CancelCall ==
  /\ ~BatchOver
  /\ cancels < MaxCancels
  /\ cancels' = cancels + 1
  /\ UNCHANGED limit

\* In the as_completed loop: every unfinished question task is cancelled.
MutCancelCollecting ==
  /\ CancelCall
  /\ phase = "collecting"
  /\ phase' = "killed"
  /\ UNCHANGED <<cancelled, next, questionVars, resultVars, stored, batchStored>>
CancelCollecting ==
  /\ CancelCall
  /\ phase = "collecting" /\ collected # Questions
  /\ cancelled' = TRUE
  /\ CancelTasks({q \in Questions : ~QuestionOver(q)})
  /\ phase' = "draining"
  /\ DrainFrom(1)
  /\ UNCHANGED <<collected, orphaned, unsaved, batchStored>>

\* While it awaits a question task the cancellation goes to that task, and the
\* loop swallows what comes of it.  When the task has just ended the
\* cancellation hits the loop, which takes its result for a missing one.
CancelDraining ==
  /\ CancelCall
  /\ phase = "draining"
  /\ next \in Questions
  /\ \/ /\ ~QuestionOver(next)
        /\ CancelTasks({next})
        /\ UNCHANGED <<next, drained>>
     \/ /\ QuestionOver(next)
        /\ DrainFrom(next + 1)
        /\ UNCHANGED <<questionVars, stored>>
  /\ UNCHANGED <<phase, cancelled, collected, orphaned, unsaved, batchStored>>

\* While it awaits the storage nothing catches it; the call that was under way
\* may have taken effect.
CancelStorageCall ==
  /\ CancelCall
  /\ \/ phase = "starting" /\ batchStored' \in {"none", "running"} /\ UNCHANGED stored
     \/ /\ phase = "orphans" /\ next \in Questions /\ ~HasResult(next)
        /\ UNCHANGED stored \/ Store(next, "interrupted")
        /\ UNCHANGED batchStored
     \/ phase = "closing" /\ batchStored' \in {batchStored, SummaryStatus} /\ UNCHANGED stored
  /\ phase' = "killed"
  /\ UNCHANGED <<cancelled, next, questionVars, resultVars>>

-----------------------------------------------------------------------------
QuestionStep(q) == Begin(q) \/ Announced(q) \/ Enter(q) \/ RunEnds(q) \/ Persist(q)

BatchStep ==
  \/ StartBatch \/ (\E q \in Questions : Collect(q)) \/ AllCollected
  \/ DrainNext \/ DrainEnds \/ ReportOrphan \/ OrphansReported \/ CloseBatch

Cancel == CancelCollecting \/ CancelDraining \/ CancelStorageCall

\* The batch is over, and so are the question tasks it may have left behind, or
\* they wait for a permit there is none of.
Rest ==
  /\ \/ BatchOver /\ \A q \in Questions : qpc[q] = "absent" \/ QuestionOver(q)
     \/ limit = 0 /\ \E q \in Questions : qpc[q] = "queued"
  /\ UNCHANGED vars

Next == (\E q \in Questions : QuestionStep(q)) \/ BatchStep \/ Cancel \/ Rest

Spec == Init /\ [][Next]_vars

\* The event loop runs what is ready, and agents and storage calls end.
\* Nobody has to cancel.
Fairness == (\A q \in Questions : WF_vars(QuestionStep(q))) /\ WF_vars(BatchStep)

FairSpec == Spec /\ Fairness
-----------------------------------------------------------------------------
(* Properties *)

\* Type invariant of the batch.
TypeOK ==
  /\ phase \in Phases
  /\ cancelled \in BOOLEAN
  /\ cancels \in 0..MaxCancels
  /\ next \in 1..(NumQuestions + 1)
  /\ qpc \in [Questions -> QuestionPhases]
  /\ status \in [Questions -> Statuses]
  /\ limit \in Limits
  /\ permits \in Int
  /\ collected \subseteq Questions /\ drained \subseteq Questions
  /\ orphaned \subseteq Questions /\ unsaved \subseteq orphaned
  /\ stored \in [Questions -> Statuses \union {"none"}]
  /\ batchStored \in {"none", "running", "completed", "failed"}

\* No more agents run at once than the request allows, also behind a batch
\* that broke and under cancellations; a permit is never lost or doubled.
PermitsMatchRunningAgents ==
  LET running == Cardinality({q \in Questions : qpc[q] = "running"}) IN
  permits + running = limit /\ (running > 0 => permits >= 0)

\* A batch that returned leaves no question task behind, and has every question
\* in the storage as the summary counted it, save for orphans whose storage call
\* failed.
ReturnedBatchIsStored ==
  phase = "returned" =>
    \A q \in Questions :
      /\ QuestionOver(q)
      /\ q \in unsaved \/ stored[q] = IF HasResult(q) THEN status[q] ELSE "interrupted"

\* The three counts of the summary and the results still "running" add up to
\* the number of questions, unless the batch was cancelled: the draining loop
\* then counts the results collected before the cancellation a second time.
SummaryAccounting ==
  phase \in {"closing", "returned"} =>
    Count("completed") + Count("failed") + Count("interrupted") + Count("running")
      = NumQuestions + (IF cancelled THEN Cardinality(collected) ELSE 0)

\* The batch is stored as completed only when it was not cancelled and a
\* question is stored as completed, and no question is still to be answered.
CompletedBatchHasAnswers ==
  batchStored = "completed" =>
    /\ ~cancelled
    /\ \A q \in Questions : qpc[q] = "done"
    /\ \E q \in Questions : stored[q] = "completed"

\* One cancellation while questions run does not kill the batch task: it takes
\* a second one, or one at a storage call of the batch itself.
RunningBatchSurvivesOneCancel ==
  phase = "killed" /\ cancels = 1 =>
    \A q \in Questions : qpc[q] \in {"absent", "done"} /\ ~cancelled

\* What EvalResultStorage promises: a question stored as completed is not lost.
\* The code breaks it: a cancellation that strikes in on_question_completed
\* drops the result, and the question is then stored again as interrupted.
CompletedResultKept ==
  [][\A q \in Questions : stored[q] = "completed" => stored'[q] = "completed"]_vars

\* With a permit to give, or with a limit that is refused, the batch task always
\* ends.  A batch that nothing lets run can still be got rid of: it ends once a
\* cancellation has reached its questions.
BatchEnds == limit # 0 \/ cancelled ~> BatchOver
=============================================================================
