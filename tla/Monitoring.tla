------------------------------ MODULE Monitoring ------------------------------
(***************************************************************************)
(* The metrics of the process and the lifespan of the applications that    *)
(* switch them on: the collector of monitoring/collector.py is a module    *)
(* global, which the lifespan of an application (app.py) registers before  *)
(* its hooks and unregisters after them, and which the access log and the  *)
(* audit middleware write to.  Two readers take the durations out of it:   *)
(* the push task of its own and GET /metrics.                              *)
(*                                                                         *)
(* A collector is named by the application that created it.  Counters keep *)
(* their totals and histograms lose their samples when they are read, so   *)
(* both are sets of observations here; labels and values are left out.     *)
(* The hooks and the agent that makes the LLM calls are external.          *)
(*                                                                         *)
(* A definition named Mut... is a variant of the one it precedes, with a   *)
(* plausible bug; no specification uses it.                                *)
(***************************************************************************)
EXTENDS Naturals

CONSTANTS Apps,      \* the applications of the process
          None,      \* no collector
          Turns,     \* the chat requests
          NumHooks,  \* hooks per application
          MaxCalls   \* bound on the LLM calls of a turn

ASSUME NoneIsNoApp == None \notin Apps
ASSUME HooksAssumption == NumHooks \in Nat
ASSUME CallsAssumption == MaxCalls \in Nat

VARIABLES
  metrics,   \* settings.metrics_enabled
  phase,     \* where the lifespan of an application is
  entered,   \* hooks entered and not exited: the exit stack
  collector, \* _COLLECTOR
  push,      \* _push_task of a collector
  stopping,  \* the local variable `collector` of a lifespan that stops
  counted,   \* what the counters of a collector count
  pending,   \* what its histograms hold
  logged, served, dropped,  \* observations reported by the log, by the
                            \* endpoint, and drained by a push that failed
  call,      \* number of LLM calls a turn has begun, 0 before its response
  calling,   \* whether the last of them is under way
  startTs,   \* AuditMiddleware._llm_start_ts: the call it was taken for, or 0
  overlap    \* history: the lifespans of two applications have overlapped

appVars == <<metrics, phase, entered, stopping, overlap>>
reportVars == <<logged, served, dropped>>
turnVars == <<call, calling, startTs>>
vars == <<appVars, collector, push, counted, pending, reportVars, turnVars>>

\* "exiting" and "failing": the exit stack unwinds, without and with an
\* exception.  "stopping": stop_push awaits the push task.
Phases == {"off", "entering", "serving", "exiting", "failing", "stopping",
           "stopped", "failed"}

\* The duration of a request is an observation of call 0, that of LLM call k is
\* taken from the start of call `from`.
Observations == [turn : Turns, call : 0..MaxCalls, from : 0..MaxCalls]

Init ==
  /\ metrics \in [Apps -> BOOLEAN]
  /\ phase = [a \in Apps |-> "off"]
  /\ entered = [a \in Apps |-> 0]
  /\ collector = None
  /\ push = [a \in Apps |-> "none"]
  /\ stopping = [a \in Apps |-> None]
  /\ counted = [a \in Apps |-> {}]
  /\ pending = [a \in Apps |-> {}]
  /\ logged = {} /\ served = {} /\ dropped = {}
  /\ call = [t \in Turns |-> 0]
  /\ calling = [t \in Turns |-> FALSE]
  /\ startTs = [t \in Turns |-> 0]
  /\ overlap = FALSE

Over(a) == phase[a] \in {"stopped", "failed"}
Up(a) == phase[a] # "off" /\ ~Over(a)
GoTo(a, p) == phase' = [phase EXCEPT ![a] = p]

-----------------------------------------------------------------------------
(* The lifespan *)

\* The collector is registered and its push task created, before any hook.
StartUp(a) ==
  /\ phase[a] = "off"
  /\ GoTo(a, "entering")
  /\ IF metrics[a] THEN collector' = a /\ push' = [push EXCEPT ![a] = "running"]
     ELSE UNCHANGED <<collector, push>>
  /\ overlap' = (overlap \/ \E b \in Apps : Up(b))
  /\ UNCHANGED <<metrics, entered, stopping, counted, pending, reportVars, turnVars>>

\* The next hook is entered, or raises.
EnterHook(a) ==
  /\ phase[a] = "entering"
  /\ entered[a] < NumHooks
  /\ \/ entered' = [entered EXCEPT ![a] = @ + 1] /\ UNCHANGED phase
     \/ GoTo(a, "failing") /\ UNCHANGED entered
  /\ UNCHANGED <<metrics, stopping, overlap, collector, push, counted, pending,
                 reportVars, turnVars>>

Serve(a) ==
  /\ phase[a] = "entering" /\ entered[a] = NumHooks
  /\ GoTo(a, "serving")
  /\ UNCHANGED <<metrics, entered, stopping, overlap, collector, push, counted, pending,
                 reportVars, turnVars>>

ShutDown(a) ==
  /\ phase[a] = "serving"
  /\ GoTo(a, "exiting")
  /\ UNCHANGED <<metrics, entered, stopping, overlap, collector, push, counted, pending,
                 reportVars, turnVars>>

\* The last hook entered is exited; it may raise, and it may swallow the
\* exception it is exited with.
ExitHook(a) ==
  /\ phase[a] \in {"exiting", "failing"}
  /\ entered[a] > 0
  /\ entered' = [entered EXCEPT ![a] = @ - 1]
  /\ \E p \in {"exiting", "failing"} : GoTo(a, p)
  /\ UNCHANGED <<metrics, stopping, overlap, collector, push, counted, pending,
                 reportVars, turnVars>>

\* An exception leaves the lifespan: nobody stops the push task.
Fail(a) ==
  /\ phase[a] = "failing" /\ entered[a] = 0
  /\ GoTo(a, "failed")
  /\ UNCHANGED <<metrics, entered, stopping, overlap, collector, push, counted, pending,
                 reportVars, turnVars>>

\* get_collector(), which may be another application's, and stop_push up to its
\* await.  A collector whose push task is gone is unregistered at once.
MutStopMetricsOnlyUnregisters(a) ==
  /\ phase[a] = "exiting" /\ entered[a] = 0
  /\ GoTo(a, "stopped")
  /\ collector' = IF metrics[a] THEN None ELSE collector
  /\ UNCHANGED <<metrics, entered, stopping, overlap, push, counted, pending,
                 reportVars, turnVars>>
MutStopMetricsBeforeHooks(a) ==
  /\ phase[a] = "exiting"
  /\ collector' = IF metrics[a] THEN None ELSE collector
  /\ push' = IF metrics[a] THEN [push EXCEPT ![a] = "over"] ELSE push
  /\ IF entered[a] = 0 THEN GoTo(a, "stopped") ELSE UNCHANGED phase
  /\ UNCHANGED <<metrics, entered, stopping, overlap, counted, pending,
                 reportVars, turnVars>>
StopMetrics(a) ==
  /\ phase[a] = "exiting" /\ entered[a] = 0
  /\ IF metrics[a] /\ collector # None /\ push[collector] # "over"
     THEN /\ stopping' = [stopping EXCEPT ![a] = collector]
          /\ push' = [push EXCEPT ![collector] = "cancelled"]
          /\ GoTo(a, "stopping")
          /\ UNCHANGED collector
     ELSE /\ GoTo(a, "stopped")
          /\ collector' = IF metrics[a] THEN None ELSE collector
          /\ UNCHANGED <<push, stopping>>
  /\ UNCHANGED <<metrics, entered, overlap, counted, pending, reportVars, turnVars>>

\* The push task is over: whatever is registered by now is unregistered.
MetricsStopped(a) ==
  /\ phase[a] = "stopping"
  /\ push[stopping[a]] = "over"
  /\ collector' = None
  /\ GoTo(a, "stopped")
  /\ UNCHANGED <<metrics, entered, stopping, overlap, push, counted, pending,
                 reportVars, turnVars>>

-----------------------------------------------------------------------------
(* The two readers *)

\* The push task logs a snapshot after each interval; the samples are drained
\* before the log call, which may raise.
MutPushReadsWithoutClear(c) ==
  /\ push[c] = "running"
  /\ logged' = logged \union pending[c]
  /\ UNCHANGED <<appVars, collector, push, counted, pending, served, dropped, turnVars>>
Push(c) ==
  /\ push[c] = "running"
  /\ pending' = [pending EXCEPT ![c] = {}]
  /\ \/ logged' = logged \union pending[c] /\ UNCHANGED dropped
     \/ dropped' = dropped \union pending[c] /\ UNCHANGED logged
  /\ UNCHANGED <<appVars, collector, push, counted, served, turnVars>>

MutPushCancelledRunsOn(c) ==
  /\ push[c] = "cancelled"
  /\ push' = [push EXCEPT ![c] = "running"]
  /\ UNCHANGED <<appVars, collector, counted, pending, reportVars, turnVars>>
PushCancelled(c) ==
  /\ push[c] = "cancelled"
  /\ push' = [push EXCEPT ![c] = "over"]
  /\ UNCHANGED <<appVars, collector, counted, pending, reportVars, turnVars>>

\* GET /metrics at any application that serves: live_snapshot of the registered
\* collector drains it too.
GetMetrics ==
  /\ \E a \in Apps : phase[a] = "serving"
  /\ collector # None
  /\ served' = served \union pending[collector]
  /\ pending' = [pending EXCEPT ![collector] = {}]
  /\ UNCHANGED <<appVars, collector, push, counted, logged, dropped, turnVars>>

-----------------------------------------------------------------------------
(* The middleware *)

\* A counter and a histogram of the collector registered now, if there is one.
MutObserveOverwrites(o) ==
  IF collector = None THEN UNCHANGED <<counted, pending>>
  ELSE /\ counted' = [counted EXCEPT ![collector] = @ \union {o}]
       /\ pending' = [pending EXCEPT ![collector] = {o}]
Observe(o) ==
  IF collector = None THEN UNCHANGED <<counted, pending>>
  ELSE /\ counted' = [counted EXCEPT ![collector] = @ \union {o}]
       /\ pending' = [pending EXCEPT ![collector] = @ \union {o}]

\* AccessLogMiddleware observes a request when its response starts: the turn
\* itself, which is streamed, comes later.
Respond(t) ==
  /\ \E a \in Apps : phase[a] = "serving"
  /\ call[t] = 0
  /\ call' = [call EXCEPT ![t] = 1]
  /\ Observe([turn |-> t, call |-> 0, from |-> 0])
  /\ UNCHANGED <<appVars, collector, push, reportVars, calling, startTs>>

\* on_llm_start of call number call[t].
MutLlmStartKeepsTs(t) ==
  /\ call[t] \in 1..MaxCalls /\ ~calling[t]
  /\ calling' = [calling EXCEPT ![t] = TRUE]
  /\ startTs' = [startTs EXCEPT ![t] = IF @ = 0 THEN call[t] ELSE @]
  /\ UNCHANGED <<appVars, collector, push, counted, pending, reportVars, call>>
LlmStart(t) ==
  /\ call[t] \in 1..MaxCalls /\ ~calling[t]
  /\ calling' = [calling EXCEPT ![t] = TRUE]
  /\ startTs' = [startTs EXCEPT ![t] = call[t]]
  /\ UNCHANGED <<appVars, collector, push, counted, pending, reportVars, call>>

\* on_llm_end counts the call and observes its duration.
LlmEnd(t) ==
  /\ calling[t]
  /\ calling' = [calling EXCEPT ![t] = FALSE]
  /\ call' = [call EXCEPT ![t] = @ + 1]
  /\ startTs' = [startTs EXCEPT ![t] = 0]
  /\ Observe([turn |-> t, call |-> call[t], from |-> startTs[t]])
  /\ UNCHANGED <<appVars, collector, push, reportVars>>

\* The call raises and is tried again: there is no on_llm_end.
LlmRaises(t) ==
  /\ calling[t]
  /\ calling' = [calling EXCEPT ![t] = FALSE]
  /\ call' = [call EXCEPT ![t] = @ + 1]
  /\ UNCHANGED <<appVars, collector, push, counted, pending, reportVars, startTs>>

-----------------------------------------------------------------------------
Lifespan(a) ==
  \/ StartUp(a) \/ EnterHook(a) \/ Serve(a) \/ ShutDown(a) \/ ExitHook(a)
  \/ Fail(a) \/ StopMetrics(a) \/ MetricsStopped(a)

Turn(t) == Respond(t) \/ LlmStart(t) \/ LlmEnd(t) \/ LlmRaises(t)

\* Nothing serves and nothing is to be started.
Rest == (\A a \in Apps : Over(a)) /\ (\A t \in Turns : ~calling[t]) /\ UNCHANGED vars

Next ==
  \/ \E a \in Apps : Lifespan(a) \/ Push(a) \/ PushCancelled(a)
  \/ GetMetrics
  \/ \E t \in Turns : Turn(t)
  \/ Rest

Spec == Init /\ [][Next]_vars

\* Hooks return or raise, the event loop runs a cancelled task, and intervals
\* pass.  Nobody has to start or stop an application or to read the metrics.
Fairness ==
  \A a \in Apps :
    /\ WF_vars(EnterHook(a) \/ Serve(a))
    /\ WF_vars(ExitHook(a) \/ Fail(a) \/ StopMetrics(a) \/ MetricsStopped(a))
    /\ WF_vars(Push(a))
    /\ WF_vars(PushCancelled(a))

FairSpec == Spec /\ Fairness
-----------------------------------------------------------------------------
(* Properties *)

\* Type invariant of the lifespans, the collectors and the turns.
TypeOK ==
  /\ metrics \in [Apps -> BOOLEAN]
  /\ phase \in [Apps -> Phases]
  /\ entered \in [Apps -> 0..NumHooks]
  /\ collector \in Apps \union {None}
  /\ push \in [Apps -> {"none", "running", "cancelled", "over"}]
  /\ stopping \in [Apps -> Apps \union {None}]
  /\ counted \in [Apps -> SUBSET Observations]
  /\ pending \in [Apps -> SUBSET Observations]
  /\ logged \subseteq Observations /\ served \subseteq Observations
  /\ dropped \subseteq Observations
  /\ call \in [Turns -> 0..(MaxCalls + 1)]
  /\ calling \in [Turns -> BOOLEAN]
  /\ startTs \in [Turns -> 0..MaxCalls]
  /\ overlap \in BOOLEAN

Reported == logged \union served
Drained == Reported \union dropped
Waiting == UNION {pending[a] : a \in Apps}

\* The counters and the histograms of the process tell the same story, although
\* one keeps and the other loses what it is told, two readers drain it, and
\* collectors are replaced: what is counted waits in a histogram, was reported,
\* or was drained by a push that failed, and nothing else was.
CountsMatchDurations ==
  UNION {counted[a] : a \in Apps} = Drained \union Waiting

\* An observation is drained by one reader, once: what the endpoint showed
\* never reaches the log, nor the other way round, and what a failed push
\* drained is reported by nobody.
DrainedOnce ==
  /\ logged \cap served = {} /\ dropped \cap Reported = {}
  /\ \A a \in Apps : pending[a] \cap Drained = {}
  /\ \A a, b \in Apps : a # b => pending[a] \cap pending[b] = {}

\* Both together: a push that fails is the only way to lose an observation.  All
\* others are reported by one reader, once, or still wait.
LostOnlyByFailedPush == CountsMatchDurations /\ DrainedOnce

\* A failing push says that it is "retrying on next interval": what is counted
\* has been reported or waits to be.  The code breaks it: the samples are
\* drained before the log call that fails, and are not there to be retried.
FailedPushIsRetried == UNION {counted[a] : a \in Apps} \subseteq Reported \union Waiting

\* The duration observed at the end of an LLM call is that of this call, also
\* after a call that raised and left its start behind.
DurationsAreOfTheirCall ==
  \A a \in Apps : \A o \in counted[a] : o.from = o.call

\* From before its first hook until after its last one an application with
\* metrics is observed by its own collector, unless the lifespan of another one
\* overlapped: then the global it relies on may be replaced or reset.
CollectorSpansHooks ==
  \A a \in Apps :
    metrics[a] /\ phase[a] \in {"entering", "serving", "exiting", "failing"} /\ ~overlap
      => collector = a /\ push[a] = "running"

\* A push task outlives its application only when the lifespan of the
\* application ended with an exception, or when another lifespan overlapped.
LeakedPushHasCause ==
  \A a \in Apps : push[a] \in {"running", "cancelled"} => Up(a) \/ phase[a] = "failed" \/ overlap

\* A shutdown ends, also when its hooks raise and when it stops the push task
\* of another application.
ShutdownEnds ==
  \A a \in Apps : phase[a] \in {"exiting", "failing", "stopping"} ~> Over(a)

\* What waits in a histogram is drained in the end, as long as the push task of
\* its collector lives, whatever the log does; a shutdown flushes nothing.
PendingIsDrained ==
  \A a \in Apps : pending[a] # {} ~> (pending[a] = {} \/ push[a] # "running")
=============================================================================
