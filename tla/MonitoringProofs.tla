--------------------------- MODULE MonitoringProofs ---------------------------
(***************************************************************************)
(* The safety of the metrics, for any number of applications, hooks, turns *)
(* and LLM calls.                                                          *)
(*                                                                         *)
(* What is observed is new: its turn has begun a later call than any call  *)
(* that was observed before, so an observation never meets itself on its   *)
(* way through the histograms.  And while no lifespans overlap, the global *)
(* collector is that of the one application that is up.                    *)
(***************************************************************************)
EXTENDS Monitoring, TLAPS

USE NoneIsNoApp, HooksAssumption, CallsAssumption

-----------------------------------------------------------------------------
(* Type correctness and the calls *)

\* While a call is under way its start is the one that was taken last.
CallsAreTimed ==
  \A t \in Turns : calling[t] => call[t] \in 1..MaxCalls /\ startTs[t] = call[t]

Types == TypeOK /\ CallsAreTimed

LEMMA InitTypes == Init => Types
<1> SUFFICES ASSUME Init PROVE Types
  OBVIOUS
<1>1. /\ phase \in [Apps -> Phases] /\ entered \in [Apps -> 0..NumHooks]
      /\ push \in [Apps -> {"none", "running", "cancelled", "over"}]
      /\ stopping \in [Apps -> Apps \union {None}] /\ metrics \in [Apps -> BOOLEAN]
  BY DEF Init, Phases
<1>2. /\ counted \in [Apps -> SUBSET Observations] /\ pending \in [Apps -> SUBSET Observations]
      /\ logged = {} /\ served = {} /\ dropped = {} /\ collector = None /\ overlap \in BOOLEAN
  BY DEF Init
<1>3. /\ call \in [Turns -> 0..(MaxCalls + 1)] /\ calling \in [Turns -> BOOLEAN]
      /\ startTs \in [Turns -> 0..MaxCalls]
  BY DEF Init
<1>4. CallsAreTimed
  BY DEF Init, CallsAreTimed
<1> QED
  BY <1>1, <1>2, <1>3, <1>4 DEF Types, TypeOK

LEMMA LifespanTypes ==
  ASSUME Types, NEW a \in Apps, Lifespan(a)
  PROVE  Types'
<1> USE DEF Types, TypeOK, Phases, appVars, reportVars, turnVars, GoTo
<1>1. UNCHANGED <<counted, pending, reportVars, turnVars, metrics>>
  BY DEF Lifespan, StartUp, EnterHook, Serve, ShutDown, ExitHook, Fail, StopMetrics, MetricsStopped
<1>2. CASE StartUp(a)
  BY <1>1, <1>2 DEF StartUp, CallsAreTimed
<1>3. CASE EnterHook(a) \/ ExitHook(a)
  BY <1>1, <1>3 DEF EnterHook, ExitHook, CallsAreTimed
<1>4. CASE Serve(a) \/ ShutDown(a) \/ Fail(a)
  BY <1>1, <1>4 DEF Serve, ShutDown, Fail, CallsAreTimed
<1>5. CASE StopMetrics(a) \/ MetricsStopped(a)
  BY <1>1, <1>5 DEF StopMetrics, MetricsStopped, CallsAreTimed
<1> QED
  BY <1>2, <1>3, <1>4, <1>5 DEF Lifespan

LEMMA ReaderTypes ==
  ASSUME Types, (\E a \in Apps : Push(a) \/ PushCancelled(a)) \/ GetMetrics
  PROVE  Types'
<1> USE DEF Types, TypeOK, appVars, reportVars, turnVars
<1>1. CASE \E a \in Apps : Push(a)
  BY <1>1 DEF Push, CallsAreTimed
<1>2. CASE \E a \in Apps : PushCancelled(a)
  BY <1>2 DEF PushCancelled, CallsAreTimed
<1>3. CASE GetMetrics
  BY <1>3 DEF GetMetrics, CallsAreTimed
<1> QED
  BY <1>1, <1>2, <1>3

LEMMA ObserveTypes ==
  ASSUME TypeOK, NEW o \in Observations, Observe(o)
  PROVE  counted' \in [Apps -> SUBSET Observations] /\ pending' \in [Apps -> SUBSET Observations]
BY DEF TypeOK, Observe

LEMMA TurnTypes ==
  ASSUME Types, NEW t \in Turns, Turn(t)
  PROVE  Types'
<1> USE DEF appVars, reportVars, turnVars
<1>1. CASE Respond(t)
  <2>1. [turn |-> t, call |-> 0, from |-> 0] \in Observations
    BY DEF Observations
  <2>2. counted' \in [Apps -> SUBSET Observations] /\ pending' \in [Apps -> SUBSET Observations]
    BY <1>1, <2>1, ObserveTypes DEF Respond, Types
  <2>3. call' \in [Turns -> 0..(MaxCalls + 1)] /\ CallsAreTimed'
    BY <1>1 DEF Respond, Types, TypeOK, CallsAreTimed
  <2> QED
    BY <1>1, <2>2, <2>3 DEF Respond, Types, TypeOK
<1>2. CASE LlmStart(t)
  BY <1>2 DEF LlmStart, Types, TypeOK, CallsAreTimed
<1>3. CASE LlmEnd(t)
  <2>1. [turn |-> t, call |-> call[t], from |-> startTs[t]] \in Observations
    BY <1>3 DEF LlmEnd, Types, TypeOK, CallsAreTimed, Observations
  <2>2. counted' \in [Apps -> SUBSET Observations] /\ pending' \in [Apps -> SUBSET Observations]
    BY <1>3, <2>1, ObserveTypes DEF LlmEnd, Types
  <2>3. /\ call' \in [Turns -> 0..(MaxCalls + 1)] /\ calling' \in [Turns -> BOOLEAN]
        /\ startTs' \in [Turns -> 0..MaxCalls] /\ CallsAreTimed'
    BY <1>3 DEF LlmEnd, Types, TypeOK, CallsAreTimed
  <2> QED
    BY <1>3, <2>2, <2>3 DEF LlmEnd, Types, TypeOK
<1>4. CASE LlmRaises(t)
  BY <1>4 DEF LlmRaises, Types, TypeOK, CallsAreTimed
<1> QED
  BY <1>1, <1>2, <1>3, <1>4 DEF Turn

LEMMA StepTypes == Types /\ [Next]_vars => Types'
<1> SUFFICES ASSUME Types, [Next]_vars PROVE Types'
  OBVIOUS
<1>1. ASSUME Rest \/ UNCHANGED vars PROVE Types'
  BY <1>1 DEF Rest, vars, appVars, reportVars, turnVars, Types, TypeOK, CallsAreTimed
<1> QED
  BY <1>1, LifespanTypes, ReaderTypes, TurnTypes DEF Next

\* Type correctness of the lifespans, the collectors and the turns.
THEOREM TypeCorrect == Spec => []TypeOK
<1>1. Types => TypeOK
  BY DEF Types
<1> QED
  BY <1>1, InitTypes, StepTypes, PTL DEF Spec

-----------------------------------------------------------------------------
(* The observations *)

Counted == UNION {counted[a] : a \in Apps}

\* What was counted was counted before the call the turn is at.
CountedIsPast == \A o \in Counted : o.call < call[o.turn]

ObservationInv ==
  Types /\ CountsMatchDurations /\ DrainedOnce /\ DurationsAreOfTheirCall /\ CountedIsPast

LEMMA InitObservations == Init => ObservationInv
<1> SUFFICES ASSUME Init PROVE ObservationInv
  OBVIOUS
<1>1. /\ \A a \in Apps : counted[a] = {} /\ pending[a] = {}
      /\ logged = {} /\ served = {} /\ dropped = {}
  BY DEF Init
<1> QED
  BY <1>1, InitTypes DEF ObservationInv, CountsMatchDurations, DrainedOnce, Drained, Reported, Waiting,
    DurationsAreOfTheirCall, CountedIsPast, Counted

\* A reader takes what waits at one collector.
LEMMA DrainKeeps ==
  ASSUME ObservationInv, Types', NEW a \in Apps,
         pending' = [pending EXCEPT ![a] = {}],
         \/ logged' = logged \union pending[a] /\ UNCHANGED <<served, dropped>>
         \/ served' = served \union pending[a] /\ UNCHANGED <<logged, dropped>>
         \/ dropped' = dropped \union pending[a] /\ UNCHANGED <<logged, served>>,
         UNCHANGED <<counted, call>>
  PROVE  ObservationInv'
<1>0. pending \in [Apps -> SUBSET Observations]
  BY DEF ObservationInv, Types, TypeOK
<1>1. \A b \in Apps : pending'[b] = IF b = a THEN {} ELSE pending[b]
  BY <1>0
<1>2. Drained' = Drained \union pending[a]
  BY DEF Drained, Reported
<1>3. CountsMatchDurations'
  <2>1. UNION {pending[b] : b \in Apps} = pending[a] \union UNION {pending'[b] : b \in Apps}
    BY <1>1
  <2> QED
    BY <1>2, <2>1 DEF ObservationInv, CountsMatchDurations, Waiting
<1>4. DrainedOnce'
  <2>1. pending[a] \cap (logged \union served \union dropped) = {}
    BY DEF ObservationInv, DrainedOnce, Drained, Reported
  <2>2. logged' \cap served' = {} /\ dropped' \cap (logged' \union served') = {}
    BY <2>1 DEF ObservationInv, DrainedOnce, Drained, Reported
  <2>3. \A b \in Apps : pending'[b] \cap Drained' = {}
    BY <1>1, <1>2 DEF ObservationInv, DrainedOnce
  <2>4. \A b, c \in Apps : b # c => pending'[b] \cap pending'[c] = {}
    BY <1>1 DEF ObservationInv, DrainedOnce
  <2> QED
    BY <2>2, <2>3, <2>4 DEF DrainedOnce, Drained, Reported
<1>5. DurationsAreOfTheirCall' /\ CountedIsPast'
  BY DEF ObservationInv, DurationsAreOfTheirCall, CountedIsPast, Counted
<1> QED
  BY <1>3, <1>4, <1>5 DEF ObservationInv

\* A new observation, of the call its turn is at.
LEMMA ObserveKeeps ==
  ASSUME ObservationInv, Types', NEW t \in Turns, NEW o \in Observations,
         o.turn = t, o.call = call[t], o.from = o.call, Observe(o),
         \A u \in Turns : call'[u] = IF u = t THEN call[t] + 1 ELSE call[u],
         UNCHANGED <<logged, served, dropped, collector>>
  PROVE  ObservationInv'
<1>0. /\ pending \in [Apps -> SUBSET Observations] /\ counted \in [Apps -> SUBSET Observations]
      /\ \A u \in Turns : call[u] \in Nat
      /\ collector \in Apps \union {None}
  BY DEF ObservationInv, Types, TypeOK
<1>1. o \notin Counted
  BY <1>0 DEF ObservationInv, CountedIsPast
<1>2. o \notin Drained /\ \A a \in Apps : o \notin pending[a]
  BY <1>1 DEF ObservationInv, CountsMatchDurations, Counted, Drained, Reported, Waiting
<1>3. CountedIsPast'
  <2> SUFFICES ASSUME NEW x \in Counted' PROVE x.call < call'[x.turn]
    BY DEF CountedIsPast
  <2>1. x \in Counted \/ x = o
    BY <1>0 DEF Counted, Observe
  <2>2. CASE x \in Counted
    <3>1. x \in Observations /\ x.call < call[x.turn]
      BY <1>0, <2>2 DEF Counted, ObservationInv, CountedIsPast
    <3>2. x.turn \in Turns /\ x.call \in Nat
      BY <3>1 DEF Observations
    <3> QED
      BY <1>0, <3>1, <3>2
  <2>3. CASE x = o
    BY <1>0, <2>3
  <2> QED
    BY <2>1, <2>2, <2>3
<1>4. CASE collector = None
  <2>1. UNCHANGED <<counted, pending>>
    BY <1>4 DEF Observe
  <2> QED
    BY <1>3, <2>1 DEF ObservationInv, CountsMatchDurations, DrainedOnce, Drained, Reported, Waiting,
      DurationsAreOfTheirCall
<1>5. CASE collector # None
  <2>0. collector \in Apps
    BY <1>0, <1>5
  <2>1. \A a \in Apps :
          /\ counted'[a] = IF a = collector THEN counted[a] \union {o} ELSE counted[a]
          /\ pending'[a] = IF a = collector THEN pending[a] \union {o} ELSE pending[a]
    BY <1>0, <1>5 DEF Observe
  <2>2. CountsMatchDurations'
    <3>1. Drained' = Drained
      BY DEF Drained, Reported
    <3>2. \A x : x \in Counted <=> x \in Drained \/ x \in Waiting
      BY DEF ObservationInv, CountsMatchDurations, Counted, Waiting
    <3>3. \A x : x \in Counted' <=> x \in Counted \/ x = o
      <4> SUFFICES ASSUME NEW x PROVE x \in Counted' <=> x \in Counted \/ x = o
        OBVIOUS
      <4>1. x \in Counted <=> \E a \in Apps : x \in counted[a]
        BY DEF Counted
      <4>2. x \in Counted' <=> \E a \in Apps : x \in counted'[a]
        BY DEF Counted
      <4>3. \A a \in Apps : x \in counted'[a] <=> x \in counted[a] \/ (a = collector /\ x = o)
        BY <2>1
      <4> QED
        BY <2>0, <4>1, <4>2, <4>3
    <3>4. \A x : x \in Waiting' <=> x \in Waiting \/ x = o
      <4> SUFFICES ASSUME NEW x PROVE x \in Waiting' <=> x \in Waiting \/ x = o
        OBVIOUS
      <4>1. x \in Waiting <=> \E a \in Apps : x \in pending[a]
        BY DEF Waiting
      <4>2. x \in Waiting' <=> \E a \in Apps : x \in pending'[a]
        BY DEF Waiting
      <4>3. \A a \in Apps : x \in pending'[a] <=> x \in pending[a] \/ (a = collector /\ x = o)
        BY <2>1
      <4> QED
        BY <2>0, <4>1, <4>2, <4>3
    <3>5. Counted' = Drained' \union Waiting'
      BY <3>1, <3>2, <3>3, <3>4
    <3> QED
      BY <3>5 DEF CountsMatchDurations, Counted, Waiting
  <2>3. DrainedOnce'
    <3>1. /\ logged' \cap served' = {} /\ dropped' \cap (logged' \union served') = {}
          /\ Drained' = Drained
      BY DEF ObservationInv, DrainedOnce, Drained, Reported
    <3>2. \A a \in Apps : pending[a] \cap Drained = {}
      BY DEF ObservationInv, DrainedOnce
    <3>3. \A a, b \in Apps : a # b => pending[a] \cap pending[b] = {}
      BY DEF ObservationInv, DrainedOnce
    <3>4. \A a \in Apps : pending'[a] \cap Drained' = {}
      BY <1>2, <2>1, <3>1, <3>2
    <3>5. \A a, b \in Apps : a # b => pending'[a] \cap pending'[b] = {}
      BY <1>2, <2>1, <3>3
    <3> QED
      BY <3>1, <3>4, <3>5 DEF DrainedOnce, Drained, Reported
  <2>4. DurationsAreOfTheirCall'
    BY <2>1 DEF ObservationInv, DurationsAreOfTheirCall
  <2> QED
    BY <1>3, <2>2, <2>3, <2>4 DEF ObservationInv
<1> QED
  BY <1>4, <1>5

\* The steps that observe nothing and drain nothing.
LEMMA QuietKeeps ==
  ASSUME ObservationInv, Types', UNCHANGED <<counted, pending, logged, served, dropped>>,
         \A u \in Turns : call'[u] \in {call[u], call[u] + 1}
  PROVE  ObservationInv'
<1>1. CountedIsPast'
  <2> SUFFICES ASSUME NEW x \in Counted PROVE x.call < call'[x.turn]
    BY DEF CountedIsPast, Counted
  <2>1. x \in Observations /\ x.call < call[x.turn]
    BY DEF Counted, ObservationInv, CountedIsPast, Types, TypeOK
  <2>2. x.turn \in Turns /\ x.call \in Nat /\ call[x.turn] \in Nat
    BY <2>1 DEF Observations, ObservationInv, Types, TypeOK
  <2> QED
    BY <2>1, <2>2
<1> QED
  BY <1>1 DEF ObservationInv, CountsMatchDurations, DrainedOnce, Drained, Reported, Waiting,
    DurationsAreOfTheirCall

LEMMA TurnObservations ==
  ASSUME ObservationInv, Types', NEW t \in Turns, Turn(t)
  PROVE  ObservationInv'
<1> USE DEF appVars, reportVars, turnVars
<1>0. call \in [Turns -> 0..(MaxCalls + 1)] /\ CallsAreTimed
  BY DEF ObservationInv, Types, TypeOK
<1>1. CASE Respond(t)
  <2> DEFINE o == [turn |-> t, call |-> 0, from |-> 0]
  <2>1. o \in Observations /\ o.turn = t /\ o.call = call[t] /\ o.from = o.call
    BY <1>1 DEF Observations, Respond
  <2>2. \A u \in Turns : call'[u] = IF u = t THEN call[t] + 1 ELSE call[u]
    BY <1>0, <1>1 DEF Respond
  <2>3. Observe(o) /\ UNCHANGED <<logged, served, dropped, collector>>
    BY <1>1 DEF Respond
  <2> HIDE DEF o
  <2> QED
    BY <2>1, <2>2, <2>3, ObserveKeeps
<1>2. CASE LlmEnd(t)
  <2> DEFINE o == [turn |-> t, call |-> call[t], from |-> startTs[t]]
  <2>1. o \in Observations /\ o.turn = t /\ o.call = call[t] /\ o.from = o.call
    BY <1>0, <1>2 DEF Observations, LlmEnd, CallsAreTimed
  <2>2. \A u \in Turns : call'[u] = IF u = t THEN call[t] + 1 ELSE call[u]
    BY <1>0, <1>2 DEF LlmEnd
  <2>3. Observe(o) /\ UNCHANGED <<logged, served, dropped, collector>>
    BY <1>2 DEF LlmEnd
  <2> HIDE DEF o
  <2> QED
    BY <2>1, <2>2, <2>3, ObserveKeeps
<1>3. CASE LlmStart(t) \/ LlmRaises(t)
  <2>1. \A u \in Turns : call'[u] \in {call[u], call[u] + 1}
    BY <1>0, <1>3 DEF LlmStart, LlmRaises
  <2>2. UNCHANGED <<counted, pending, logged, served, dropped>>
    BY <1>3 DEF LlmStart, LlmRaises
  <2> QED
    BY <2>1, <2>2, QuietKeeps
<1> QED
  BY <1>1, <1>2, <1>3 DEF Turn

LEMMA StepObservations == ObservationInv /\ [Next]_vars => ObservationInv'
<1> SUFFICES ASSUME ObservationInv, [Next]_vars PROVE ObservationInv'
  OBVIOUS
<1> USE DEF appVars, reportVars, turnVars
<1>1. Types'
  BY StepTypes DEF ObservationInv
<1>2. ASSUME NEW a \in Apps, Lifespan(a) \/ PushCancelled(a) PROVE ObservationInv'
  <2>1. UNCHANGED <<counted, pending, logged, served, dropped, call>>
    BY <1>2 DEF Lifespan, StartUp, EnterHook, Serve, ShutDown, ExitHook, Fail, StopMetrics,
      MetricsStopped, PushCancelled
  <2> QED
    BY <1>1, <2>1, QuietKeeps
<1>3. ASSUME NEW a \in Apps, Push(a) PROVE ObservationInv'
  BY <1>1, <1>3, DrainKeeps DEF Push
<1>4. CASE GetMetrics
  <2>1. collector \in Apps
    BY <1>4 DEF GetMetrics, ObservationInv, Types, TypeOK
  <2> QED
    BY <1>1, <1>4, <2>1, DrainKeeps DEF GetMetrics
<1>5. CASE Rest \/ UNCHANGED vars
  BY <1>1, <1>5, QuietKeeps DEF Rest, vars
<1> QED
  BY <1>1, <1>2, <1>3, <1>4, <1>5, TurnObservations DEF Next

LEMMA ObservationsHold == Spec => []ObservationInv
<1> QED
  BY InitObservations, StepObservations, PTL DEF Spec

\* However collectors are replaced and whoever drains them, an observation is
\* lost only to a push that failed after its snapshot; any other waits, or was
\* reported by the log or by the endpoint, not by both.
THEOREM NothingElseIsLost == Spec => []LostOnlyByFailedPush
<1>1. ObservationInv => LostOnlyByFailedPush
  BY DEF ObservationInv, LostOnlyByFailedPush
<1> QED
  BY <1>1, ObservationsHold, PTL

\* The start that on_llm_end subtracts is that of the call that ends.
THEOREM DurationsFit == Spec => []DurationsAreOfTheirCall
<1>1. ObservationInv => DurationsAreOfTheirCall
  BY DEF ObservationInv
<1> QED
  BY <1>1, ObservationsHold, PTL

-----------------------------------------------------------------------------
(* The lifespans *)

OneIsUp == ~overlap => \A a, b \in Apps : Up(a) /\ Up(b) => a = b

\* A collector is registered, and its push task begun, by an application that
\* has started with metrics.
CollectorsAreOfStartedApps ==
  \A a \in Apps : phase[a] = "off" \/ ~metrics[a] => push[a] = "none" /\ collector # a

StopsItsOwn ==
  \A a \in Apps : phase[a] = "stopping" => stopping[a] \in Apps /\ (~overlap => stopping[a] = a)

LifespanInv ==
  /\ TypeOK /\ OneIsUp /\ CollectorsAreOfStartedApps /\ StopsItsOwn
  /\ CollectorSpansHooks /\ LeakedPushHasCause

LEMMA InitLifespan == Init => LifespanInv
<1> SUFFICES ASSUME Init PROVE LifespanInv
  OBVIOUS
<1>1. /\ TypeOK /\ collector = None
      /\ \A a \in Apps : phase[a] = "off" /\ push[a] = "none"
  BY InitTypes DEF Init, Types
<1> QED
  BY <1>1 DEF LifespanInv, OneIsUp, CollectorsAreOfStartedApps, StopsItsOwn,
    CollectorSpansHooks, LeakedPushHasCause, Up

LEMMA StepLifespan ==
  ASSUME LifespanInv, TypeOK', NEW a \in Apps, Lifespan(a)
  PROVE  LifespanInv'
<1> USE DEF appVars, reportVars, turnVars, GoTo
<1>0. /\ phase \in [Apps -> Phases] /\ push \in [Apps -> {"none", "running", "cancelled", "over"}]
      /\ stopping \in [Apps -> Apps \union {None}] /\ collector \in Apps \union {None}
  BY DEF LifespanInv, TypeOK
<1>1. CASE StartUp(a)
  <2>1. /\ phase[a] = "off" /\ UNCHANGED <<metrics, stopping>>
        /\ \A b \in Apps : phase'[b] = IF b = a THEN "entering" ELSE phase[b]
        /\ \A b \in Apps : push'[b] = IF b = a /\ metrics[a] THEN "running" ELSE push[b]
        /\ collector' = IF metrics[a] THEN a ELSE collector
        /\ ~overlap' => ~overlap /\ \A b \in Apps : ~Up(b)
    BY <1>0, <1>1 DEF StartUp
  <2>2. OneIsUp' /\ StopsItsOwn'
    BY <2>1 DEF LifespanInv, OneIsUp, StopsItsOwn, Up, Over
  <2>3. CollectorsAreOfStartedApps'
    BY <2>1 DEF LifespanInv, CollectorsAreOfStartedApps
  <2>4. CollectorSpansHooks'
    BY <2>1 DEF LifespanInv, CollectorSpansHooks, Up, Over
  <2>5. LeakedPushHasCause'
    BY <2>1 DEF LifespanInv, LeakedPushHasCause, Up, Over
  <2> QED
    BY <2>2, <2>3, <2>4, <2>5 DEF LifespanInv
<1>2. CASE EnterHook(a) \/ Serve(a) \/ ShutDown(a) \/ ExitHook(a) \/ Fail(a)
  <2>1. /\ UNCHANGED <<metrics, stopping, overlap, collector, push>>
        /\ \A b \in Apps : b # a => phase'[b] = phase[b]
        /\ phase[a] \in {"entering", "serving", "exiting", "failing"}
        /\ phase'[a] \in {"entering", "serving", "exiting", "failing", "failed"}
    BY <1>0, <1>2 DEF EnterHook, Serve, ShutDown, ExitHook, Fail
  <2>2. OneIsUp' /\ StopsItsOwn'
    BY <2>1 DEF LifespanInv, OneIsUp, StopsItsOwn, Up, Over
  <2>3. CollectorsAreOfStartedApps' /\ CollectorSpansHooks'
    BY <2>1 DEF LifespanInv, CollectorsAreOfStartedApps, CollectorSpansHooks
  <2>4. LeakedPushHasCause'
    BY <2>1 DEF LifespanInv, LeakedPushHasCause, Up, Over
  <2> QED
    BY <2>2, <2>3, <2>4 DEF LifespanInv
<1>3. CASE StopMetrics(a)
  <2>1. /\ UNCHANGED <<metrics, overlap>> /\ phase[a] = "exiting"
        /\ \A b \in Apps : b # a => phase'[b] = phase[b] /\ stopping'[b] = stopping[b]
    BY <1>0, <1>3 DEF StopMetrics
  <2>2. \A b \in Apps : Up(b)' => Up(b)
    BY <2>1 DEF Up, Over
  <2>3. OneIsUp'
    BY <2>1, <2>2 DEF LifespanInv, OneIsUp
  <2>4. \A b \in Apps : b # a /\ Up(b) => overlap
    BY <2>1 DEF LifespanInv, OneIsUp, Up, Over
  <2>5. CASE metrics[a] /\ collector # None /\ push[collector] # "over"
    <3>1. /\ collector \in Apps /\ collector' = collector /\ phase'[a] = "stopping"
          /\ stopping'[a] = collector
          /\ \A b \in Apps : push'[b] = IF b = collector THEN "cancelled" ELSE push[b]
      BY <1>0, <1>3, <2>5 DEF StopMetrics
    <3>2. overlap \/ collector = a
      BY <2>1, <2>5 DEF LifespanInv, CollectorSpansHooks
    <3>3. StopsItsOwn'
      BY <2>1, <3>1, <3>2 DEF LifespanInv, StopsItsOwn
    <3>4. CollectorsAreOfStartedApps'
      BY <2>1, <3>1 DEF LifespanInv, CollectorsAreOfStartedApps
    <3>5. CollectorSpansHooks'
      BY <2>1, <2>4, <3>1 DEF LifespanInv, CollectorSpansHooks, Up, Over
    <3>6. LeakedPushHasCause'
      BY <2>1, <3>1, <3>2 DEF LifespanInv, LeakedPushHasCause, Up, Over
    <3> QED
      BY <2>3, <3>3, <3>4, <3>5, <3>6 DEF LifespanInv
  <2>6. CASE ~(metrics[a] /\ collector # None /\ push[collector] # "over")
    <3>1. /\ phase'[a] = "stopped" /\ UNCHANGED <<push, stopping>>
          /\ collector' = IF metrics[a] THEN None ELSE collector
      BY <1>0, <1>3, <2>6 DEF StopMetrics
    <3>2. ~overlap => ~metrics[a]
      BY <2>1, <2>6 DEF LifespanInv, CollectorSpansHooks
    <3>3. StopsItsOwn'
      BY <2>1, <3>1 DEF LifespanInv, StopsItsOwn
    <3>4. CollectorsAreOfStartedApps'
      BY <2>1, <3>1 DEF LifespanInv, CollectorsAreOfStartedApps
    <3>5. CollectorSpansHooks'
      BY <2>1, <3>1, <3>2 DEF LifespanInv, CollectorSpansHooks
    <3>6. LeakedPushHasCause'
      BY <2>1, <3>1, <3>2
        DEF LifespanInv, LeakedPushHasCause, CollectorsAreOfStartedApps, Up, Over
    <3> QED
      BY <2>3, <3>3, <3>4, <3>5, <3>6 DEF LifespanInv
  <2> QED
    BY <2>5, <2>6
<1>4. CASE MetricsStopped(a)
  <2>1. /\ UNCHANGED <<metrics, overlap, stopping, push>> /\ phase[a] = "stopping"
        /\ phase'[a] = "stopped" /\ collector' = None /\ push[stopping[a]] = "over"
        /\ \A b \in Apps : b # a => phase'[b] = phase[b]
    BY <1>0, <1>4 DEF MetricsStopped
  <2>2. \A b \in Apps : b # a /\ Up(b) => overlap
    BY <2>1 DEF LifespanInv, OneIsUp, Up, Over
  <2>3. OneIsUp' /\ StopsItsOwn'
    BY <2>1 DEF LifespanInv, OneIsUp, StopsItsOwn, Up, Over
  <2>4. CollectorsAreOfStartedApps'
    BY <2>1 DEF LifespanInv, CollectorsAreOfStartedApps
  <2>5. CollectorSpansHooks'
    BY <2>1, <2>2 DEF CollectorSpansHooks, Up, Over
  <2>6. LeakedPushHasCause'
    BY <2>1 DEF LifespanInv, LeakedPushHasCause, StopsItsOwn, Up, Over
  <2> QED
    BY <2>3, <2>4, <2>5, <2>6 DEF LifespanInv
<1> QED
  BY <1>1, <1>2, <1>3, <1>4 DEF Lifespan

LEMMA LifespansHold == Spec => []LifespanInv
<1>1. TypeOK' /\ LifespanInv /\ [Next]_vars => LifespanInv'
  <2> SUFFICES ASSUME TypeOK', LifespanInv, [Next]_vars PROVE LifespanInv'
    OBVIOUS
  <2> USE DEF appVars, reportVars, turnVars
  <2>1. ASSUME UNCHANGED <<appVars, collector, push>> PROVE LifespanInv'
    BY <2>1 DEF LifespanInv, OneIsUp, CollectorsAreOfStartedApps, StopsItsOwn,
      CollectorSpansHooks, LeakedPushHasCause, Up, Over
  <2>2. ASSUME NEW a \in Apps, PushCancelled(a) PROVE LifespanInv'
    <3>1. /\ UNCHANGED <<appVars, collector>> /\ push[a] = "cancelled"
          /\ \A b \in Apps : push'[b] = IF b = a THEN "over" ELSE push[b]
      BY <2>2 DEF PushCancelled, LifespanInv, TypeOK
    <3> QED
      BY <3>1 DEF LifespanInv, OneIsUp, CollectorsAreOfStartedApps, StopsItsOwn,
        CollectorSpansHooks, LeakedPushHasCause, Up, Over
  <2>3. ASSUME NEW a \in Apps, Push(a) PROVE LifespanInv'
    BY <2>1, <2>3 DEF Push
  <2>4. ASSUME NEW t \in Turns, Turn(t) PROVE LifespanInv'
    BY <2>1, <2>4 DEF Turn, Respond, LlmStart, LlmEnd, LlmRaises
  <2>5. CASE GetMetrics \/ Rest \/ UNCHANGED vars
    BY <2>1, <2>5 DEF GetMetrics, Rest, vars
  <2> QED
    BY <2>2, <2>3, <2>4, <2>5, StepLifespan DEF Next
<1> QED
  BY <1>1, InitLifespan, TypeCorrect, PTL DEF Spec

\* The collector of an application is registered and its push task runs from
\* before its first hook until after its last, while it is alone.
THEOREM CollectorStays == Spec => []CollectorSpansHooks
<1>1. LifespanInv => CollectorSpansHooks
  BY DEF LifespanInv
<1> QED
  BY <1>1, LifespansHold, PTL

\* A push task is left behind only by a lifespan that ended with an exception
\* or that overlapped another one.
THEOREM LeaksAreExplained == Spec => []LeakedPushHasCause
<1>1. LifespanInv => LeakedPushHasCause
  BY DEF LifespanInv
<1> QED
  BY <1>1, LifespansHold, PTL
=============================================================================
