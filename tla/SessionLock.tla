----------------------------- MODULE SessionLock -----------------------------
(***************************************************************************)
(* The per-session lock registry of services/runtime_service.py and the    *)
(* life of the requests that take a session lock (POST /chat/{id} and      *)
(* POST /sessions/{id}/compact).                                           *)
(*                                                                         *)
(* Everything runs on one event loop: code between two suspension points   *)
(* is one step.  The bodies guarded by _SESSION_LOCKS_MUTEX never suspend, *)
(* so the mutex is never contended and is not a variable here: looking the *)
(* lock up and taking asyncio's fast path is one step, and so is releasing *)
(* and popping the entry.                                                  *)
(*                                                                         *)
(* A request creates at most one asyncio.Lock, so a lock object is named   *)
(* by the request that created it.                                         *)
(*                                                                         *)
(* A definition named Mut... is a variant of the one it precedes, with a   *)
(* plausible bug; no specification uses it.                                *)
(***************************************************************************)
EXTENDS Naturals, Sequences

CONSTANTS Requests,     \* the requests that ask for a session lock
          Sessions,     \* the memory ids they name
          None          \* "no entry", "no lock yet"

ASSUME NoneIsNoRequest == None \notin Requests
ASSUME NoneIsNoSession == None \notin Sessions

VARIABLES
  registry,   \* _SESSION_LOCKS: the lock registered for a session, or None
  target,     \* the session a request names
  lock,       \* the local variable `lock` of a request
  locked,     \* Lock._locked of every lock object
  waiters,    \* Lock._waiters: the requests queued on a lock object, in order
  woken,      \* the queued requests whose future is already resolved
  pc          \* where a request is

lockVars == <<registry, target, lock, locked, waiters, woken>>
vars == <<lockVars, pc>>

\* "responded": the handler returned its StreamingResponse, whose generator
\* has not been iterated yet.  "abandoned": that generator never will be.
Phases == {"new", "waiting", "loading", "responded", "streaming",
           "done", "abandoned"}

InCritical(r) == pc[r] \in {"loading", "responded", "streaming", "abandoned"}
Holds(r, l) == lock[r] = l /\ InCritical(r)

Init ==
  /\ registry = [s \in Sessions |-> None]
  /\ target = [r \in Requests |-> None]
  /\ lock = [r \in Requests |-> None]
  /\ locked = [l \in Requests |-> FALSE]
  /\ waiters = [l \in Requests |-> << >>]
  /\ woken = {}
  /\ pc = [r \in Requests |-> "new"]

-----------------------------------------------------------------------------
(* asyncio.Lock *)

\* acquire() returns without suspending only on a free lock with no queue.
FreeAtOnce(l) == ~locked[l] /\ waiters[l] = << >>

AsyncAcquire(r, l) ==
  IF FreeAtOnce(l)
  THEN /\ locked' = [locked EXCEPT ![l] = TRUE]
       /\ pc' = [pc EXCEPT ![r] = "loading"]
       /\ UNCHANGED waiters
  ELSE /\ waiters' = [waiters EXCEPT ![l] = Append(@, r)]
       /\ pc' = [pc EXCEPT ![r] = "waiting"]
       /\ UNCHANGED locked

\* release() frees the lock and resolves the future of the first waiter; the
\* waiter takes the lock only when the event loop runs it.
AsyncRelease(l) ==
  /\ locked' = [locked EXCEPT ![l] = FALSE]
  /\ woken' = IF waiters[l] = << >> THEN woken ELSE woken \union {Head(waiters[l])}

-----------------------------------------------------------------------------
(* The registry *)

\* The lock the registry lookup of acquire_session_lock leaves in `lock`: the
\* registered one, else a new one, which is named r.
MutLookupLock(r, s) == r
LookupLock(r, s) == IF registry[s] = None THEN r ELSE registry[s]

MutAcquireSkipsLock(r, s) ==
  LET l == LookupLock(r, s) IN
    /\ registry' = [registry EXCEPT ![s] = l]
    /\ target' = [target EXCEPT ![r] = s]
    /\ lock' = [lock EXCEPT ![r] = l]
    /\ locked' = [locked EXCEPT ![l] = TRUE]
    /\ pc' = [pc EXCEPT ![r] = "loading"]
    /\ UNCHANGED <<waiters, woken>>
acquire_session_lock(r, s) ==
  LET l == LookupLock(r, s) IN
    /\ registry' = [registry EXCEPT ![s] = l]
    /\ target' = [target EXCEPT ![r] = s]
    /\ lock' = [lock EXCEPT ![r] = l]
    /\ AsyncAcquire(r, l)
    /\ UNCHANGED woken

\* The entry popped is whatever is registered for the session, waited on or not.
MutReleaseKeepsEntry(r) == AsyncRelease(lock[r]) /\ UNCHANGED <<registry, target, lock, waiters>>
release_session_lock(r) ==
  /\ AsyncRelease(lock[r])
  /\ registry' = [registry EXCEPT ![target[r]] = None]
  /\ UNCHANGED <<target, lock, waiters>>

-----------------------------------------------------------------------------
(* The requests *)

GoTo(r, phase) == pc' = [pc EXCEPT ![r] = phase]

Acquire(r, s) == pc[r] = "new" /\ acquire_session_lock(r, s)

\* The event loop runs a woken waiter: it leaves the queue and owns the lock.
Resume(r) ==
  /\ pc[r] = "waiting"
  /\ r \in woken
  /\ waiters' = [waiters EXCEPT ![lock[r]] = Tail(@)]
  /\ locked' = [locked EXCEPT ![lock[r]] = TRUE]
  /\ woken' = woken \ {r}
  /\ GoTo(r, "loading")
  /\ UNCHANGED <<registry, target, lock>>

\* An exception between acquiring and returning the response: session or agent
\* not found, access denied, a scenario without agents, a failing store.
MutRejectKeepsLock(r) == pc[r] = "loading" /\ GoTo(r, "done") /\ UNCHANGED lockVars
Reject(r) ==
  /\ pc[r] = "loading"
  /\ release_session_lock(r)
  /\ GoTo(r, "done")

\* The handler returns a StreamingResponse over _stream_with_lock().
Respond(r) ==
  /\ pc[r] = "loading"
  /\ GoTo(r, "responded")
  /\ UNCHANGED lockVars

\* The server iterates the generator for the first time.
StartStream(r) ==
  /\ pc[r] = "responded"
  /\ GoTo(r, "streaming")
  /\ UNCHANGED lockVars

\* The client disconnects while the response headers are being sent: the
\* sending task is cancelled and the generator, never started, is dropped.  A
\* generator that was never started runs no finally: nobody releases the lock.
DisconnectBeforeStart(r) ==
  /\ pc[r] = "responded"
  /\ GoTo(r, "abandoned")
  /\ UNCHANGED lockVars

\* The started generator ends in any way and runs its finally.
EndStream(r) ==
  /\ pc[r] = "streaming"
  /\ release_session_lock(r)
  /\ GoTo(r, "done")

BehindAbandoned(r) ==
  pc[r] = "waiting" /\ \E q \in Requests : lock[q] = lock[r] /\ pc[q] = "abandoned"

\* Nothing is left to do: every request ended, or is stuck for good.
Rest ==
  /\ \A r \in Requests : pc[r] \in {"done", "abandoned"} \/ BehindAbandoned(r)
  /\ UNCHANGED vars

Step(r) ==
  \/ \E s \in Sessions : Acquire(r, s)
  \/ Resume(r)
  \/ Reject(r)
  \/ Respond(r)
  \/ StartStream(r)
  \/ DisconnectBeforeStart(r)
  \/ EndStream(r)

Next == (\E r \in Requests : Step(r)) \/ Rest

Spec == Init /\ [][Next]_vars

\* The event loop runs what is ready, handlers return or raise, the server
\* iterates or drops a response, and a stream ends: the agent behind it ends.
\* Nothing obliges a client to send a request.
Fairness ==
  \A r \in Requests :
    /\ WF_vars(Resume(r))
    /\ WF_vars(Reject(r) \/ Respond(r))
    /\ WF_vars(StartStream(r) \/ DisconnectBeforeStart(r))
    /\ WF_vars(EndStream(r))

FairSpec == Spec /\ Fairness
-----------------------------------------------------------------------------
(* Properties *)

\* Type invariant of the registry, the lock objects and the requests.
TypeOK ==
  /\ registry \in [Sessions -> Requests \union {None}]
  /\ target \in [Requests -> Sessions \union {None}]
  /\ lock \in [Requests -> Requests \union {None}]
  /\ locked \in [Requests -> BOOLEAN]
  /\ waiters \in [Requests -> Seq(Requests)]
  /\ woken \in SUBSET Requests
  /\ pc \in [Requests -> Phases]

\* What the docstring of acquire_session_lock and the comment of chat() say:
\* the requests that target one session are serialised.  The code breaks it:
\* release pops the entry although requests wait on the popped lock.
MutualExclusion ==
  \A r1, r2 \in Requests :
    (InCritical(r1) /\ InCritical(r2) /\ target[r1] = target[r2]) => r1 = r2

\* A single lock object is a mutex: two requests never own the same one.
OneOwnerPerLock ==
  \A r1, r2 \in Requests :
    (InCritical(r1) /\ InCritical(r2) /\ lock[r1] = lock[r2]) => r1 = r2

\* A registered lock is in the hands of the request that created it.  So a
\* request that finds an entry always queues, and an entry never outlives its
\* creator: once every request of a session is over the entry is gone.
RegisteredLockHeldByCreator ==
  \A s \in Sessions :
    registry[s] # None => Holds(registry[s], registry[s]) /\ target[registry[s]] = s

\* No wake-up is lost: a queue is never left behind a free lock without its
\* head having been told.
NoLostWakeup ==
  \A l \in Requests :
    waiters[l] # << >> => \/ \E r \in Requests : Holds(r, l)
                          \/ Head(waiters[l]) \in woken

\* A waiter of session s has been handed a lock that was already unregistered.
HandedOver(s) ==
  \E r \in Requests : target[r] = s /\ lock[r] # r /\ (pc[r] # "waiting" \/ r \in woken)

\* Exactly when the promise of MutualExclusion is lost: as long as no release
\* of a session's lock found a waiter, the session's requests are serialised.
ExclusiveUntilHandover ==
  \A r1, r2 \in Requests :
    (InCritical(r1) /\ InCritical(r2) /\ target[r1] = target[r2] /\ r1 # r2)
      => HandedOver(target[r1])

\* A waiter gets its lock in the end, unless a request that owned this lock
\* object was dropped before its stream started.
WaiterEventuallyServed ==
  \A r \in Requests :
    pc[r] = "waiting" ~> (pc[r] # "waiting" \/ BehindAbandoned(r))

\* Every lock object behaves as the mutex FifoMutex specifies.
OwnerOf(l) ==
  IF \E r \in Requests : Holds(r, l) THEN CHOOSE r \in Requests : Holds(r, l) ELSE None

Fifo(l) == INSTANCE FifoMutex
             WITH Members <- Requests, Nobody <- None, owner <- OwnerOf(l), queue <- waiters[l]

\* Each asyncio.Lock the registry hands out implements a first-come-first-served
\* mutex for the requests that share it: what is lost at a release is the
\* sharing, never the lock.
LocksAreFifoMutexes ==
  /\ \A l \in Requests : Fifo(l)!Init
  /\ [][\A l \in Requests : [Fifo(l)!Next]_(Fifo(l)!vars)]_vars
-----------------------------------------------------------------------------
(* The inductive invariant behind the safety properties *)

\* A lock that a request uses was created by a request on the same session,
\* and a request never waits for the lock it created.
LocksHaveCreators ==
  \A r \in Requests :
    /\ pc[r] = "new" => lock[r] = None /\ target[r] = None
    /\ pc[r] # "new" => /\ lock[r] \in Requests
                         /\ target[r] \in Sessions
                         /\ lock[lock[r]] = lock[r]
                         /\ target[lock[r]] = target[r]
    /\ pc[r] = "waiting" => lock[r] # r

\* Lock._locked is set exactly while a request owns the lock.
LockedIffOwned ==
  \A l \in Requests : locked[l] <=> \E r \in Requests : Holds(r, l)

\* A queue holds waiting requests of its own lock, each once.
QueuesOfWaiters ==
  \A l \in Requests :
    /\ \A i \in 1..Len(waiters[l]) : /\ pc[waiters[l][i]] = "waiting"
                                     /\ lock[waiters[l][i]] = l
    /\ \A i, j \in 1..Len(waiters[l]) : waiters[l][i] = waiters[l][j] => i = j

\* Only the head of the queue of a free lock is ever woken.
WokenAreHeads ==
  \A r \in woken : /\ pc[r] = "waiting"
                   /\ waiters[lock[r]] # << >>
                   /\ r = Head(waiters[lock[r]])
                   /\ ~locked[lock[r]]

\* Until a lock of the session is handed over, whoever is in the critical
\* section is the request whose lock is registered.
OwnerIsRegistered ==
  \A r \in Requests : InCritical(r) => registry[target[r]] = r \/ HandedOver(target[r])

\* The inductive invariant: TLC checks it, SessionLockProofs proves it.
LockInv ==
  /\ TypeOK
  /\ LocksHaveCreators
  /\ LockedIffOwned
  /\ OneOwnerPerLock
  /\ QueuesOfWaiters
  /\ WokenAreHeads
  /\ RegisteredLockHeldByCreator
  /\ NoLostWakeup
  /\ OwnerIsRegistered
=============================================================================
