-------------------------- MODULE SessionLockProofs --------------------------
(***************************************************************************)
(* Proofs about SessionLock, for every set of requests and sessions.       *)
(*                                                                         *)
(* The argument.  A registered lock is owned by its creator: the creator   *)
(* owns it from the step that registers it, and any release on the session *)
(* empties the entry.  So acquire() on a registered lock always queues,    *)
(* and only a release hands a lock on, to the head of its queue.           *)
(***************************************************************************)
EXTENDS SessionLock, TLAPS

\* What Acquire does on a session without an entry, and on one with an entry.
TakesFreshLock(r, s) ==
  /\ registry' = [registry EXCEPT ![s] = r]
  /\ target' = [target EXCEPT ![r] = s]
  /\ lock' = [lock EXCEPT ![r] = r]
  /\ locked' = [locked EXCEPT ![r] = TRUE]
  /\ pc' = [pc EXCEPT ![r] = "loading"]
  /\ UNCHANGED <<waiters, woken>>

QueuesOn(r, s, l) ==
  /\ registry' = registry
  /\ target' = [target EXCEPT ![r] = s]
  /\ lock' = [lock EXCEPT ![r] = l]
  /\ waiters' = [waiters EXCEPT ![l] = Append(@, r)]
  /\ pc' = [pc EXCEPT ![r] = "waiting"]
  /\ UNCHANGED <<locked, woken>>

\* What a request that has not asked yet looks like.
Unknown(r) ==
  /\ pc[r] = "new" /\ lock[r] = None /\ target[r] = None
  /\ waiters[r] = << >> /\ ~locked[r]
  /\ \A q \in Requests : lock[q] # r

LEMMA NewIsUnknown ==
  ASSUME LockInv, NEW r \in Requests, pc[r] = "new"
  PROVE  Unknown(r)
<1>1. lock[r] = None /\ target[r] = None
  BY DEF LockInv, LocksHaveCreators
<1>2. \A q \in Requests : lock[q] # r
  BY <1>1, NoneIsNoRequest DEF LockInv, LocksHaveCreators
<1>3. ~locked[r]
  BY <1>2 DEF LockInv, LockedIffOwned, Holds
<1>4. waiters[r] = << >>
  <2>1. waiters[r] \in Seq(Requests)
    BY DEF LockInv, TypeOK
  <2>2. SUFFICES ASSUME Len(waiters[r]) # 0 PROVE FALSE
    BY <2>1
  <2>3. 1 \in 1..Len(waiters[r]) /\ waiters[r][1] \in Requests
    BY <2>1, <2>2
  <2>4. lock[waiters[r][1]] = r
    BY <2>3 DEF LockInv, QueuesOfWaiters
  <2> QED BY <1>2, <2>3, <2>4
<1> QED BY <1>1, <1>2, <1>3, <1>4 DEF Unknown

\* A request that finds no entry makes a lock of its own and owns it at once.
LEMMA NoEntryTakesFreshLock ==
  ASSUME LockInv, NEW r \in Requests, NEW s \in Sessions, Acquire(r, s), registry[s] = None
  PROVE  TakesFreshLock(r, s) /\ pc[r] = "new"
<1>1. pc[r] = "new"
  BY DEF Acquire
<1>2. FreeAtOnce(r)
  BY <1>1, NewIsUnknown DEF Unknown, FreeAtOnce
<1>3. LookupLock(r, s) = r
  BY DEF LookupLock
<1> QED
  BY <1>1, <1>2, <1>3 DEF Acquire, acquire_session_lock, AsyncAcquire, TakesFreshLock

\* A request that finds an entry queues: the registered lock is owned.
LEMMA EntryQueues ==
  ASSUME LockInv, NEW r \in Requests, NEW s \in Sessions, Acquire(r, s), registry[s] # None
  PROVE  QueuesOn(r, s, registry[s]) /\ pc[r] = "new"
<1> DEFINE l == registry[s]
<1>1. l \in Requests
  BY DEF LockInv, TypeOK
<1>2. Holds(l, l)
  BY DEF LockInv, RegisteredLockHeldByCreator
<1>3. locked[l]
  BY <1>1, <1>2 DEF LockInv, LockedIffOwned
<1>4. LookupLock(r, s) = l
  BY DEF LookupLock
<1>5. registry = [registry EXCEPT ![s] = registry[s]]
  BY DEF LockInv, TypeOK
<1> HIDE DEF l
<1>6. ~FreeAtOnce(l)
  BY <1>3 DEF FreeAtOnce
<1> QED
  BY <1>1, <1>4, <1>5, <1>6 DEF Acquire, acquire_session_lock, AsyncAcquire, QueuesOn, l

LEMMA InitInv == Init => LockInv
<1> SUFFICES ASSUME Init PROVE LockInv
  OBVIOUS
<1>1. TypeOK
  BY DEF Init, TypeOK, Phases
<1>2. \A r \in Requests : ~InCritical(r)
  BY DEF Init, InCritical
<1>3. LocksHaveCreators /\ OneOwnerPerLock /\ WokenAreHeads /\ NoLostWakeup /\ OwnerIsRegistered
  BY <1>2 DEF Init, LocksHaveCreators, OneOwnerPerLock, WokenAreHeads, NoLostWakeup,
              OwnerIsRegistered
<1>4. LockedIffOwned /\ QueuesOfWaiters /\ RegisteredLockHeldByCreator
  BY <1>2 DEF Init, LockedIffOwned, QueuesOfWaiters, RegisteredLockHeldByCreator, Holds
<1> QED
  BY <1>1, <1>3, <1>4 DEF LockInv

\* A step that takes a fresh lock preserves the invariant.
LEMMA FreshInv ==
  ASSUME LockInv, NEW r \in Requests, NEW s \in Sessions, registry[s] = None,
         pc[r] = "new", TakesFreshLock(r, s)
  PROVE  LockInv'
<1> USE NoneIsNoRequest, NoneIsNoSession
<1>0. Unknown(r)
  BY NewIsUnknown
<1>1. TypeOK'
  BY DEF LockInv, TypeOK, Phases, TakesFreshLock
<1>2. \A q \in Requests : /\ pc'[q] = IF q = r THEN "loading" ELSE pc[q]
                          /\ lock'[q] = IF q = r THEN r ELSE lock[q]
                          /\ target'[q] = IF q = r THEN s ELSE target[q]
                          /\ locked'[q] = IF q = r THEN TRUE ELSE locked[q]
                          /\ waiters'[q] = waiters[q]
  BY DEF LockInv, TypeOK, TakesFreshLock
<1>3. woken' = woken /\ \A t \in Sessions : registry'[t] = IF t = s THEN r ELSE registry[t]
  BY DEF LockInv, TypeOK, TakesFreshLock
<1>4. \A q \in Requests : InCritical(q)' <=> (InCritical(q) \/ q = r)
  BY <1>2 DEF InCritical
<1>5. \A q, l \in Requests : Holds(q, l)' <=> (Holds(q, l) \/ (q = r /\ l = r))
  BY <1>0, <1>2, <1>4 DEF Holds, Unknown
<1>6. LocksHaveCreators'
  <2> SUFFICES ASSUME NEW q \in Requests, pc'[q] # "new"
               PROVE  /\ lock'[q] \in Requests /\ target'[q] \in Sessions
                      /\ lock'[lock'[q]] = lock'[q] /\ target'[lock'[q]] = target'[q]
                      /\ pc'[q] = "waiting" => lock'[q] # q
    BY <1>2 DEF LockInv, LocksHaveCreators
  <2>1. CASE q = r
    BY <2>1, <1>2
  <2>2. CASE q # r
    <3>1. /\ lock[q] \in Requests /\ lock[q] # r /\ lock[lock[q]] = lock[q]
          /\ target[lock[q]] = target[q] /\ target[q] \in Sessions
          /\ pc[q] = "waiting" => lock[q] # q
      BY <2>2, <1>0, <1>2 DEF LockInv, LocksHaveCreators, Unknown
    <3> QED BY <2>2, <3>1, <1>2
  <2> QED BY <2>1, <2>2
<1>7. LockedIffOwned'
  BY <1>2, <1>5 DEF LockInv, LockedIffOwned
<1>8. OneOwnerPerLock'
  <2> SUFFICES ASSUME NEW q1 \in Requests, NEW q2 \in Requests,
                      InCritical(q1)', InCritical(q2)', lock'[q1] = lock'[q2]
               PROVE  q1 = q2
    BY DEF OneOwnerPerLock
  <2>1. CASE q1 # r /\ q2 # r
    <3>1. InCritical(q1) /\ InCritical(q2) /\ lock[q1] = lock[q2]
      BY <2>1, <1>2, <1>4
    <3>2. OneOwnerPerLock
      BY DEF LockInv
    <3> QED BY <3>1, <3>2 DEF OneOwnerPerLock
  <2>2. CASE q1 = r \/ q2 = r
    BY <2>2, <1>0, <1>2 DEF Unknown
  <2> QED BY <2>1, <2>2
<1>9. QueuesOfWaiters'
  <2> SUFFICES ASSUME NEW l \in Requests
               PROVE  /\ \A i \in 1..Len(waiters'[l]) : /\ pc'[waiters'[l][i]] = "waiting"
                                                       /\ lock'[waiters'[l][i]] = l
                      /\ \A i, j \in 1..Len(waiters'[l]) : waiters'[l][i] = waiters'[l][j] => i = j
    BY DEF QueuesOfWaiters
  <2>0. waiters[l] \in Seq(Requests)
    BY DEF LockInv, TypeOK
  <2>1. \A i \in 1..Len(waiters[l]) : waiters[l][i] \in Requests
    BY <2>0
  <2>6. waiters'[l] = waiters[l]
    BY <1>2
  <2>2. \A i \in 1..Len(waiters[l]) : pc[waiters[l][i]] = "waiting" /\ lock[waiters[l][i]] = l
    BY DEF LockInv, QueuesOfWaiters
  <2>3. \A i, j \in 1..Len(waiters[l]) : waiters[l][i] = waiters[l][j] => i = j
    BY DEF LockInv, QueuesOfWaiters
  <2>4. \A i \in 1..Len(waiters[l]) : waiters[l][i] # r
    BY <2>2
  <2>5. \A i \in 1..Len(waiters[l]) : pc'[waiters[l][i]] = "waiting" /\ lock'[waiters[l][i]] = l
    BY <2>1, <2>2, <2>4, <1>2
  <2> QED
    BY <2>6, <2>3, <2>5
<1>10. WokenAreHeads'
  <2> SUFFICES ASSUME NEW q \in woken
               PROVE  /\ pc'[q] = "waiting" /\ waiters'[lock'[q]] # << >>
                      /\ q = Head(waiters'[lock'[q]]) /\ ~locked'[lock'[q]]
    BY <1>3 DEF WokenAreHeads
  <2>1. /\ pc[q] = "waiting" /\ waiters[lock[q]] # << >>
        /\ q = Head(waiters[lock[q]]) /\ ~locked[lock[q]]
    BY DEF LockInv, WokenAreHeads
  <2>2. q \in Requests /\ q # r /\ lock[q] \in Requests /\ lock[q] # r
    BY <2>1, <1>0 DEF LockInv, TypeOK, LocksHaveCreators, Unknown
  <2>3. pc'[q] = pc[q] /\ lock'[q] = lock[q]
    BY <2>2, <1>2
  <2>4. waiters'[lock[q]] = waiters[lock[q]] /\ locked'[lock[q]] = locked[lock[q]]
    BY <2>2, <1>2
  <2> QED
    BY <2>1, <2>3, <2>4
<1>11. RegisteredLockHeldByCreator'
  <2> SUFFICES ASSUME NEW t \in Sessions, registry'[t] # None
               PROVE  Holds(registry[t], registry[t])' /\ target'[registry'[t]] = t
    BY DEF RegisteredLockHeldByCreator
  <2>1. CASE t = s
    BY <2>1, <1>2, <1>3, <1>5
  <2>2. CASE t # s
    <3>1. registry[t] \in Requests /\ registry'[t] = registry[t]
      BY <2>2, <1>3 DEF LockInv, TypeOK
    <3>2. Holds(registry[t], registry[t]) /\ target[registry[t]] = t
      BY <3>1 DEF LockInv, RegisteredLockHeldByCreator
    <3> QED BY <3>1, <3>2, <1>0, <1>2, <1>5 DEF Holds, Unknown, InCritical
  <2> QED BY <2>1, <2>2
<1>12. NoLostWakeup'
  BY <1>0, <1>2, <1>3, <1>5 DEF LockInv, NoLostWakeup, Unknown
<1>13. \A t \in Sessions : HandedOver(t) => HandedOver(t)'
  <2> SUFFICES ASSUME NEW t \in Sessions, NEW q \in Requests, target[q] = t, lock[q] # q,
                      pc[q] # "waiting" \/ q \in woken
               PROVE  q # r /\ HandedOver(t)'
    BY DEF HandedOver
  <2>1. q # r
    BY <1>0 DEF Unknown
  <2> QED BY <2>1, <1>0, <1>2, <1>3 DEF HandedOver, Unknown
<1>14. OwnerIsRegistered'
  <2> SUFFICES ASSUME NEW q \in Requests, InCritical(q)'
               PROVE  (registry[target[q]] = q \/ HandedOver(target[q]))'
    BY DEF OwnerIsRegistered
  <2>1. CASE q = r
    BY <2>1, <1>2, <1>3
  <2>2. CASE q # r
    <3>1. InCritical(q) /\ target'[q] = target[q]
      BY <2>2, <1>2, <1>4
    <3>2. target[q] \in Sessions
      BY <3>1 DEF LockInv, LocksHaveCreators, InCritical
    <3>3. registry[target[q]] = q \/ HandedOver(target[q])
      BY <3>1 DEF LockInv, OwnerIsRegistered
    <3>4. PICK t \in Sessions : t = target[q]
      BY <3>2
    <3>5. registry'[t] = q \/ HandedOver(t)'
      BY <3>3, <3>4, <2>2, <1>3, <1>13
    <3> QED BY <3>1, <3>4, <3>5 DEF HandedOver
  <2> QED BY <2>1, <2>2
<1> QED
  BY <1>1, <1>6, <1>7, <1>8, <1>9, <1>10, <1>11, <1>12, <1>14 DEF LockInv

\* A step that queues on a registered lock preserves the invariant.
LEMMA QueueInv ==
  ASSUME LockInv, NEW r \in Requests, NEW s \in Sessions, registry[s] # None,
         pc[r] = "new", QueuesOn(r, s, registry[s])
  PROVE  LockInv'
<1> USE NoneIsNoRequest, NoneIsNoSession
<1> DEFINE k == registry[s]
<1>0. Unknown(r)
  BY NewIsUnknown
<1>1. /\ k \in Requests /\ k # r /\ Holds(k, k) /\ target[k] = s
      /\ lock[k] = k /\ waiters[k] \in Seq(Requests) /\ locked[k]
  <2>1. k \in Requests /\ Holds(k, k) /\ target[k] = s
    BY DEF LockInv, TypeOK, RegisteredLockHeldByCreator
  <2> QED BY <2>1 DEF LockInv, TypeOK, LockedIffOwned, Holds, InCritical
<1>2. \A q \in Requests :
        /\ pc'[q] = IF q = r THEN "waiting" ELSE pc[q]
        /\ lock'[q] = IF q = r THEN k ELSE lock[q]
        /\ target'[q] = IF q = r THEN s ELSE target[q]
        /\ waiters'[q] = IF q = k THEN Append(waiters[q], r) ELSE waiters[q]
  BY <1>1 DEF LockInv, TypeOK, QueuesOn
<1>3. woken' = woken /\ registry' = registry /\ locked' = locked
  BY DEF QueuesOn
<1> HIDE DEF k
<1>4. TypeOK'
  <2>1. Append(waiters[k], r) \in Seq(Requests)
    BY <1>1
  <2>2. waiters' \in [Requests -> Seq(Requests)]
    BY <2>1, <1>1 DEF LockInv, TypeOK, QueuesOn, k
  <2> QED BY <2>2, <1>1 DEF LockInv, TypeOK, Phases, QueuesOn, k
<1>5. \A q \in Requests : InCritical(q)' <=> InCritical(q)
  BY <1>0, <1>2 DEF InCritical, Unknown
<1>6. \A q, l \in Requests : Holds(q, l)' <=> Holds(q, l)
  BY <1>0, <1>2, <1>5 DEF Holds, Unknown, InCritical
<1>7. LocksHaveCreators'
  <2> SUFFICES ASSUME NEW q \in Requests, pc'[q] # "new"
               PROVE  /\ lock'[q] \in Requests /\ target'[q] \in Sessions
                      /\ lock'[lock'[q]] = lock'[q] /\ target'[lock'[q]] = target'[q]
                      /\ pc'[q] = "waiting" => lock'[q] # q
    BY <1>2 DEF LockInv, LocksHaveCreators
  <2>1. CASE q = r
    BY <2>1, <1>1, <1>2
  <2>2. CASE q # r
    <3>1. /\ lock[q] \in Requests /\ lock[q] # r /\ lock[lock[q]] = lock[q]
          /\ target[lock[q]] = target[q] /\ target[q] \in Sessions
          /\ pc[q] = "waiting" => lock[q] # q
      BY <2>2, <1>0, <1>2 DEF LockInv, LocksHaveCreators, Unknown
    <3> QED BY <2>2, <3>1, <1>2
  <2> QED BY <2>1, <2>2
<1>8. LockedIffOwned'
  BY <1>3, <1>6 DEF LockInv, LockedIffOwned
<1>9. OneOwnerPerLock'
  <2> SUFFICES ASSUME NEW q1 \in Requests, NEW q2 \in Requests,
                      InCritical(q1)', InCritical(q2)', lock'[q1] = lock'[q2]
               PROVE  q1 = q2
    BY DEF OneOwnerPerLock
  <2>1. InCritical(q1) /\ InCritical(q2) /\ q1 # r /\ q2 # r
    BY <1>0, <1>5 DEF InCritical, Unknown
  <2> QED BY <2>1, <1>2 DEF LockInv, OneOwnerPerLock
<1>10. QueuesOfWaiters'
  <2> SUFFICES ASSUME NEW l \in Requests
               PROVE  /\ \A i \in 1..Len(waiters'[l]) : /\ pc'[waiters'[l][i]] = "waiting"
                                                       /\ lock'[waiters'[l][i]] = l
                      /\ \A i, j \in 1..Len(waiters'[l]) : waiters'[l][i] = waiters'[l][j] => i = j
    BY DEF QueuesOfWaiters
  <2>0. waiters[l] \in Seq(Requests)
    BY DEF LockInv, TypeOK
  <2>1. \A i \in 1..Len(waiters[l]) : waiters[l][i] \in Requests
    BY <2>0
  <2>2. \A i \in 1..Len(waiters[l]) : pc[waiters[l][i]] = "waiting" /\ lock[waiters[l][i]] = l
    BY DEF LockInv, QueuesOfWaiters
  <2>3. \A i, j \in 1..Len(waiters[l]) : waiters[l][i] = waiters[l][j] => i = j
    BY DEF LockInv, QueuesOfWaiters
  <2>4. \A i \in 1..Len(waiters[l]) : waiters[l][i] # r
    BY <2>2
  <2>5. \A i \in 1..Len(waiters[l]) : pc'[waiters[l][i]] = "waiting" /\ lock'[waiters[l][i]] = l
    BY <2>1, <2>2, <2>4, <1>2
  <2>6. CASE l # k
    <3>1. waiters'[l] = waiters[l]
      BY <2>6, <1>2
    <3> QED BY <3>1, <2>3, <2>5
  <2>7. CASE l = k
    <3>1. waiters'[l] = Append(waiters[l], r)
      BY <2>7, <1>2
    <3>2. /\ Len(waiters'[l]) = Len(waiters[l]) + 1
          /\ waiters'[l][Len(waiters[l]) + 1] = r
          /\ \A i \in 1..Len(waiters[l]) : waiters'[l][i] = waiters[l][i]
      BY <3>1, <2>0
    <3>3. Len(waiters[l]) \in Nat
      BY <2>0
    <3>4. pc'[r] = "waiting" /\ lock'[r] = l
      BY <2>7, <1>2
    <3>5. \A i \in 1..Len(waiters'[l]) : i \in 1..Len(waiters[l]) \/ i = Len(waiters[l]) + 1
      BY <3>2, <3>3
    <3>6. \A i \in 1..Len(waiters'[l]) : /\ pc'[waiters'[l][i]] = "waiting"
                                         /\ lock'[waiters'[l][i]] = l
      BY <3>2, <3>4, <3>5, <2>5
    <3>7. \A i, j \in 1..Len(waiters'[l]) : waiters'[l][i] = waiters'[l][j] => i = j
      BY <3>2, <3>5, <2>3, <2>4
    <3> QED BY <3>6, <3>7
  <2> QED BY <2>6, <2>7
<1>11. WokenAreHeads'
  <2> SUFFICES ASSUME NEW q \in woken
               PROVE  /\ pc'[q] = "waiting" /\ waiters'[lock'[q]] # << >>
                      /\ q = Head(waiters'[lock'[q]]) /\ ~locked'[lock'[q]]
    BY <1>3 DEF WokenAreHeads
  <2>1. /\ pc[q] = "waiting" /\ waiters[lock[q]] # << >>
        /\ q = Head(waiters[lock[q]]) /\ ~locked[lock[q]]
    BY DEF LockInv, WokenAreHeads
  <2>2. q \in Requests /\ q # r /\ lock[q] \in Requests /\ lock[q] # k
    BY <2>1, <1>1 DEF LockInv, TypeOK, LocksHaveCreators
  <2>3. pc'[q] = pc[q] /\ lock'[q] = lock[q]
    BY <2>2, <1>2
  <2>4. waiters'[lock[q]] = waiters[lock[q]]
    BY <2>2, <1>2
  <2> QED
    BY <2>1, <2>3, <2>4, <1>3
<1>12. RegisteredLockHeldByCreator'
  <2> SUFFICES ASSUME NEW t \in Sessions, registry[t] # None
               PROVE  Holds(registry[t], registry[t])' /\ target'[registry[t]] = t
    BY <1>3 DEF RegisteredLockHeldByCreator
  <2>1. registry[t] \in Requests
    BY DEF LockInv, TypeOK
  <2>2. Holds(registry[t], registry[t]) /\ target[registry[t]] = t
    BY DEF LockInv, RegisteredLockHeldByCreator
  <2>3. PICK l \in Requests : l = registry[t]
    BY <2>1
  <2>4. Holds(l, l)' /\ target'[l] = t
    BY <2>2, <2>3, <1>0, <1>2, <1>6 DEF Holds, Unknown, InCritical
  <2> QED BY <2>3, <2>4, <1>3 DEF Holds, InCritical
<1>13. NoLostWakeup'
  <2> SUFFICES ASSUME NEW l \in Requests, waiters'[l] # << >>
               PROVE  (\E q \in Requests : Holds(q, l)') \/ Head(waiters'[l]) \in woken
    BY <1>3 DEF NoLostWakeup
  <2>1. CASE l = k
    BY <2>1, <1>1, <1>6
  <2>2. CASE l # k
    BY <2>2, <1>2, <1>6 DEF LockInv, NoLostWakeup
  <2> QED BY <2>1, <2>2
<1>14. \A t \in Sessions : HandedOver(t) => HandedOver(t)'
  <2> SUFFICES ASSUME NEW t \in Sessions, NEW q \in Requests, target[q] = t, lock[q] # q,
                      pc[q] # "waiting" \/ q \in woken
               PROVE  q # r /\ HandedOver(t)'
    BY DEF HandedOver
  <2>1. q # r
    BY <1>0 DEF Unknown
  <2> QED BY <2>1, <1>2, <1>3 DEF HandedOver
<1>15. OwnerIsRegistered'
  <2> SUFFICES ASSUME NEW q \in Requests, InCritical(q)'
               PROVE  (registry[target[q]] = q \/ HandedOver(target[q]))'
    BY DEF OwnerIsRegistered
  <2>1. InCritical(q) /\ q # r
    BY <1>0, <1>5 DEF InCritical, Unknown
  <2>2. PICK t \in Sessions : t = target[q]
    BY <2>1 DEF LockInv, LocksHaveCreators, InCritical
  <2>3. registry[t] = q \/ HandedOver(t)
    BY <2>1, <2>2 DEF LockInv, OwnerIsRegistered
  <2>4. target'[q] = t
    BY <2>1, <2>2, <1>2
  <2>5. registry'[t] = q \/ HandedOver(t)'
    BY <2>3, <1>3, <1>14
  <2> QED BY <2>4, <2>5 DEF HandedOver
<1> QED
  BY <1>4, <1>7, <1>8, <1>9, <1>10, <1>11, <1>12, <1>13, <1>15 DEF LockInv

\* A woken waiter that takes its lock preserves the invariant.
LEMMA ResumeInv ==
  ASSUME LockInv, NEW r \in Requests, Resume(r)
  PROVE  LockInv'
<1> USE NoneIsNoRequest, NoneIsNoSession
<1> DEFINE k == lock[r]
<1>1. /\ k \in Requests /\ pc[r] = "waiting" /\ r \in woken /\ waiters[k] # << >>
      /\ r = Head(waiters[k]) /\ ~locked[k] /\ waiters[k] \in Seq(Requests)
  BY DEF LockInv, TypeOK, LocksHaveCreators, WokenAreHeads, Resume
<1>2. \A q \in Requests :
        /\ pc'[q] = IF q = r THEN "loading" ELSE pc[q]
        /\ waiters'[q] = IF q = k THEN Tail(waiters[q]) ELSE waiters[q]
        /\ locked'[q] = IF q = k THEN TRUE ELSE locked[q]
  BY <1>1 DEF LockInv, TypeOK, Resume, GoTo
<1>3. woken' = woken \ {r} /\ registry' = registry /\ target' = target /\ lock' = lock
  BY DEF Resume
<1>4. TypeOK'
  <2>1. Tail(waiters[k]) \in Seq(Requests)
    BY <1>1
  <2>2. waiters' \in [Requests -> Seq(Requests)]
    BY <2>1, <1>1 DEF LockInv, TypeOK, Resume
  <2> QED BY <2>2, <1>1 DEF LockInv, TypeOK, Phases, Resume, GoTo
<1>5. \A q \in Requests : InCritical(q)' <=> (InCritical(q) \/ q = r)
  BY <1>2 DEF InCritical
<1>6. \A q, l \in Requests : Holds(q, l)' <=> (Holds(q, l) \/ (q = r /\ l = k))
  BY <1>3, <1>5 DEF Holds
<1>7. \A q \in Requests : ~Holds(q, k)
  BY <1>1 DEF LockInv, LockedIffOwned
<1> HIDE DEF k
<1>8. LocksHaveCreators'
  <2>1. LocksHaveCreators
    BY DEF LockInv
  <2>2. \A q \in Requests : /\ pc'[q] = "new" => pc[q] = "new"
                            /\ pc'[q] # "new" => pc[q] # "new"
                            /\ pc'[q] = "waiting" => pc[q] = "waiting"
    BY <1>1, <1>2
  <2> QED BY <2>1, <2>2, <1>3 DEF LocksHaveCreators
<1>9. LockedIffOwned'
  <2> SUFFICES ASSUME NEW l \in Requests
               PROVE  locked'[l] <=> \E q \in Requests : Holds(q, l)'
    BY DEF LockedIffOwned
  <2>1. CASE l = k
    BY <2>1, <1>2, <1>6
  <2>2. CASE l # k
    BY <2>2, <1>2, <1>6 DEF LockInv, LockedIffOwned
  <2> QED BY <2>1, <2>2
<1>10. OneOwnerPerLock'
  <2> SUFFICES ASSUME NEW q1 \in Requests, NEW q2 \in Requests,
                      InCritical(q1)', InCritical(q2)', lock[q1] = lock[q2]
               PROVE  q1 = q2
    BY <1>3 DEF OneOwnerPerLock
  <2>1. CASE q1 # r /\ q2 # r
    BY <2>1, <1>5 DEF LockInv, OneOwnerPerLock
  <2>2. CASE q1 = r \/ q2 = r
    BY <2>2, <1>5, <1>7 DEF Holds, k
  <2> QED BY <2>1, <2>2
<1>11. QueuesOfWaiters'
  <2> SUFFICES ASSUME NEW l \in Requests
               PROVE  /\ \A i \in 1..Len(waiters'[l]) : /\ pc'[waiters'[l][i]] = "waiting"
                                                       /\ lock[waiters'[l][i]] = l
                      /\ \A i, j \in 1..Len(waiters'[l]) : waiters'[l][i] = waiters'[l][j] => i = j
    BY <1>3 DEF QueuesOfWaiters
  <2>0. waiters[l] \in Seq(Requests)
    BY DEF LockInv, TypeOK
  <2>1. \A i \in 1..Len(waiters[l]) : waiters[l][i] \in Requests
    BY <2>0
  <2>2. \A i \in 1..Len(waiters[l]) : pc[waiters[l][i]] = "waiting" /\ lock[waiters[l][i]] = l
    BY DEF LockInv, QueuesOfWaiters
  <2>3. \A i, j \in 1..Len(waiters[l]) : waiters[l][i] = waiters[l][j] => i = j
    BY DEF LockInv, QueuesOfWaiters
  <2>6. CASE l # k
    <3>1. waiters'[l] = waiters[l]
      BY <2>6, <1>2
    <3>2. \A i \in 1..Len(waiters[l]) : waiters[l][i] # r
      BY <2>2, <2>6 DEF k
    <3>3. \A i \in 1..Len(waiters[l]) : pc'[waiters[l][i]] = "waiting"
      BY <3>2, <2>1, <2>2, <1>2
    <3> QED BY <3>1, <3>3, <2>2, <2>3
  <2>7. CASE l = k
    <3>1. waiters'[l] = Tail(waiters[l]) /\ waiters[l] # << >> /\ r = Head(waiters[l])
      BY <2>7, <1>1, <1>2
    <3>2. /\ Len(waiters'[l]) = Len(waiters[l]) - 1
          /\ r = waiters[l][1]
          /\ \A i \in 1..(Len(waiters[l]) - 1) : waiters'[l][i] = waiters[l][i + 1]
      BY <3>1, <2>0
    <3>3. Len(waiters[l]) \in Nat /\ 1 \in 1..Len(waiters[l])
      BY <2>0, <3>1
    <3>4. \A i \in 1..Len(waiters'[l]) : i + 1 \in 1..Len(waiters[l]) /\ i + 1 # 1
      BY <3>2, <3>3
    <3>5. \A i \in 1..Len(waiters'[l]) : waiters'[l][i] = waiters[l][i + 1] /\ waiters[l][i + 1] # r
      BY <3>2, <3>3, <3>4, <2>3
    <3>6. \A i \in 1..Len(waiters'[l]) : /\ pc'[waiters'[l][i]] = "waiting"
                                         /\ lock[waiters'[l][i]] = l
      <4> SUFFICES ASSUME NEW i \in 1..Len(waiters'[l])
                   PROVE  pc'[waiters'[l][i]] = "waiting" /\ lock[waiters'[l][i]] = l
        OBVIOUS
      <4> DEFINE q == waiters[l][i + 1]
      <4>1. q \in Requests /\ pc[q] = "waiting" /\ lock[q] = l /\ q # r /\ waiters'[l][i] = q
        BY <3>4, <3>5, <2>1, <2>2
      <4> HIDE DEF q
      <4>2. pc'[q] = "waiting"
        BY <4>1, <1>2
      <4> QED BY <4>1, <4>2
    <3>7. \A i, j \in 1..Len(waiters'[l]) : waiters'[l][i] = waiters'[l][j] => i = j
      <4> SUFFICES ASSUME NEW i \in 1..Len(waiters'[l]), NEW j \in 1..Len(waiters'[l]),
                          waiters'[l][i] = waiters'[l][j]
                   PROVE  i = j
        OBVIOUS
      <4>1. i + 1 = j + 1
        BY <3>4, <3>5, <2>3
      <4> QED BY <4>1, <3>2, <3>3
    <3> QED BY <3>6, <3>7
  <2> QED BY <2>6, <2>7
<1>12. WokenAreHeads'
  <2> SUFFICES ASSUME NEW q \in woken, q # r
               PROVE  /\ pc'[q] = "waiting" /\ waiters'[lock[q]] # << >>
                      /\ q = Head(waiters'[lock[q]]) /\ ~locked'[lock[q]]
    BY <1>3 DEF WokenAreHeads
  <2>1. /\ pc[q] = "waiting" /\ waiters[lock[q]] # << >>
        /\ q = Head(waiters[lock[q]]) /\ ~locked[lock[q]]
    BY DEF LockInv, WokenAreHeads
  <2>2. q \in Requests /\ lock[q] \in Requests /\ lock[q] # k
    BY <2>1, <1>1 DEF LockInv, TypeOK, LocksHaveCreators
  <2>4. waiters'[lock[q]] = waiters[lock[q]] /\ locked'[lock[q]] = locked[lock[q]] /\ pc'[q] = pc[q]
    BY <2>2, <1>2
  <2> QED
    BY <2>1, <2>4
<1>13. RegisteredLockHeldByCreator'
  <2> SUFFICES ASSUME NEW t \in Sessions, registry[t] # None
               PROVE  Holds(registry[t], registry[t])' /\ target[registry[t]] = t
    BY <1>3 DEF RegisteredLockHeldByCreator
  <2>1. registry[t] \in Requests /\ Holds(registry[t], registry[t]) /\ target[registry[t]] = t
    BY DEF LockInv, TypeOK, RegisteredLockHeldByCreator
  <2> QED BY <2>1, <1>2, <1>3 DEF Holds, InCritical
<1>14. NoLostWakeup'
  <2> SUFFICES ASSUME NEW l \in Requests, waiters'[l] # << >>
               PROVE  (\E q \in Requests : Holds(q, l)') \/ Head(waiters'[l]) \in woken'
    BY DEF NoLostWakeup
  <2>1. CASE l = k
    BY <2>1, <1>6
  <2>2. CASE l # k
    <3>1. waiters'[l] = waiters[l]
      BY <2>2, <1>2
    <3>2. CASE \E q \in Requests : Holds(q, l)
      BY <3>2, <1>6
    <3>3. CASE Head(waiters[l]) \in woken
      <4>1. waiters[l] \in Seq(Requests) /\ waiters[l] # << >>
        BY <3>1 DEF LockInv, TypeOK
      <4>2. 1 \in 1..Len(waiters[l]) /\ Head(waiters[l]) = waiters[l][1]
        BY <4>1
      <4>3. Head(waiters[l]) # r
        BY <4>2, <2>2 DEF LockInv, QueuesOfWaiters, k
      <4> QED BY <4>3, <3>1, <3>3, <1>3
    <3> QED BY <3>1, <3>2, <3>3 DEF LockInv, NoLostWakeup
  <2> QED BY <2>1, <2>2
<1>15. \A t \in Sessions : HandedOver(t) => HandedOver(t)'
  BY <1>2, <1>3 DEF HandedOver
<1>16. OwnerIsRegistered'
  <2> SUFFICES ASSUME NEW q \in Requests, InCritical(q)'
               PROVE  (registry[target[q]] = q \/ HandedOver(target[q]))'
    BY DEF OwnerIsRegistered
  <2>1. CASE q # r
    <3>1. InCritical(q)
      BY <2>1, <1>5
    <3>2. PICK t \in Sessions : t = target[q]
      BY <3>1 DEF LockInv, LocksHaveCreators, InCritical
    <3>3. registry[t] = q \/ HandedOver(t)
      BY <3>1, <3>2 DEF LockInv, OwnerIsRegistered
    <3> QED BY <3>2, <3>3, <1>3, <1>15 DEF HandedOver
  <2>2. CASE q = r
    <3>1. lock[r] # r /\ pc'[r] = "loading"
      BY <1>1, <1>2 DEF LockInv, LocksHaveCreators
    <3> QED BY <2>2, <3>1, <1>3 DEF HandedOver
  <2> QED BY <2>1, <2>2
<1> QED
  BY <1>4, <1>8, <1>9, <1>10, <1>11, <1>12, <1>13, <1>14, <1>16 DEF LockInv

\* A release that ends the request preserves the invariant.
LEMMA ReleaseInv ==
  ASSUME LockInv, NEW r \in Requests, InCritical(r), release_session_lock(r), GoTo(r, "done")
  PROVE  LockInv'
<1> USE NoneIsNoRequest, NoneIsNoSession
<1> DEFINE k == lock[r]
           s == target[r]
<1>1. /\ k \in Requests /\ s \in Sessions /\ Holds(r, k) /\ locked[k]
      /\ waiters[k] \in Seq(Requests)
  BY DEF LockInv, TypeOK, LocksHaveCreators, LockedIffOwned, InCritical, Holds
<1>2. \A q \in Requests : /\ pc'[q] = IF q = r THEN "done" ELSE pc[q]
                          /\ locked'[q] = IF q = k THEN FALSE ELSE locked[q]
  BY <1>1 DEF LockInv, TypeOK, release_session_lock, AsyncRelease, GoTo
<1>3. \A t \in Sessions : registry'[t] = IF t = s THEN None ELSE registry[t]
  BY <1>1 DEF LockInv, TypeOK, release_session_lock
<1>4. target' = target /\ lock' = lock /\ waiters' = waiters
  BY DEF release_session_lock
<1>5. woken' = IF waiters[k] = << >> THEN woken ELSE woken \union {Head(waiters[k])}
  BY DEF release_session_lock, AsyncRelease
<1>6. waiters[k] # << >> => /\ Head(waiters[k]) \in Requests
                            /\ pc[Head(waiters[k])] = "waiting"
                            /\ lock[Head(waiters[k])] = k
  <2> SUFFICES ASSUME waiters[k] # << >>
               PROVE  /\ Head(waiters[k]) \in Requests
                      /\ pc[Head(waiters[k])] = "waiting" /\ lock[Head(waiters[k])] = k
    OBVIOUS
  <2>1. 1 \in 1..Len(waiters[k]) /\ Head(waiters[k]) = waiters[k][1] /\ waiters[k][1] \in Requests
    BY <1>1
  <2> QED BY <2>1, <1>1 DEF LockInv, QueuesOfWaiters
<1>7. \A q \in Requests : Holds(q, k) => q = r
  BY <1>1 DEF LockInv, OneOwnerPerLock, Holds
<1>8. TypeOK'
  BY <1>1, <1>5, <1>6 DEF LockInv, TypeOK, Phases, release_session_lock, AsyncRelease, GoTo
<1> HIDE DEF k, s
<1>9. \A q \in Requests : InCritical(q)' <=> (InCritical(q) /\ q # r)
  BY <1>2 DEF InCritical
<1>10. \A q, l \in Requests : Holds(q, l)' <=> (Holds(q, l) /\ q # r)
  BY <1>4, <1>9 DEF Holds
<1>11. LocksHaveCreators'
  <2>1. \A q \in Requests : /\ pc'[q] = "waiting" => pc[q] = "waiting"
                            /\ pc'[q] = "new" <=> pc[q] = "new"
    BY <1>2 DEF InCritical
  <2> QED BY <2>1, <1>4 DEF LockInv, LocksHaveCreators
<1>12. LockedIffOwned'
  <2> SUFFICES ASSUME NEW l \in Requests
               PROVE  locked'[l] <=> \E q \in Requests : Holds(q, l)'
    BY DEF LockedIffOwned
  <2>1. CASE l = k
    BY <2>1, <1>2, <1>7, <1>10
  <2>2. CASE l # k
    <3>1. locked'[l] = locked[l] /\ ~Holds(r, l)
      BY <2>2, <1>2 DEF Holds, k
    <3>2. \A q \in Requests : Holds(q, l)' <=> Holds(q, l)
      BY <3>1, <1>10
    <3> QED BY <3>1, <3>2 DEF LockInv, LockedIffOwned
  <2> QED BY <2>1, <2>2
<1>13. OneOwnerPerLock'
  BY <1>4, <1>9 DEF LockInv, OneOwnerPerLock
<1>14. QueuesOfWaiters'
  <2> SUFFICES ASSUME NEW l \in Requests
               PROVE  /\ \A i \in 1..Len(waiters[l]) : /\ pc'[waiters[l][i]] = "waiting"
                                                      /\ lock[waiters[l][i]] = l
                      /\ \A i, j \in 1..Len(waiters[l]) : waiters[l][i] = waiters[l][j] => i = j
    BY <1>4 DEF QueuesOfWaiters
  <2>1. waiters[l] \in Seq(Requests)
    BY DEF LockInv, TypeOK
  <2>2. \A i \in 1..Len(waiters[l]) : waiters[l][i] \in Requests
    BY <2>1
  <2>3. \A i \in 1..Len(waiters[l]) : pc[waiters[l][i]] = "waiting" /\ lock[waiters[l][i]] = l
    BY DEF LockInv, QueuesOfWaiters
  <2>4. \A i \in 1..Len(waiters[l]) : pc'[waiters[l][i]] = "waiting"
    BY <2>2, <2>3, <1>2 DEF InCritical
  <2> QED BY <2>3, <2>4 DEF LockInv, QueuesOfWaiters
<1>15. WokenAreHeads'
  <2> SUFFICES ASSUME NEW q \in woken'
               PROVE  /\ pc'[q] = "waiting" /\ waiters[lock[q]] # << >>
                      /\ q = Head(waiters[lock[q]]) /\ ~locked'[lock[q]]
    BY <1>4 DEF WokenAreHeads
  <2>1. CASE q \in woken
    <3>1. /\ pc[q] = "waiting" /\ waiters[lock[q]] # << >>
          /\ q = Head(waiters[lock[q]]) /\ ~locked[lock[q]]
      BY <2>1 DEF LockInv, WokenAreHeads
    <3>2. q \in Requests /\ lock[q] \in Requests
      BY <2>1, <3>1 DEF LockInv, TypeOK, LocksHaveCreators
    <3> QED BY <3>1, <3>2, <1>2 DEF InCritical
  <2>2. CASE q \notin woken
    <3>1. waiters[k] # << >> /\ q = Head(waiters[k])
      BY <2>2, <1>5
    <3>2. q \in Requests /\ pc[q] = "waiting" /\ lock[q] = k
      BY <3>1, <1>6
    <3> QED BY <3>1, <3>2, <1>1, <1>2 DEF InCritical
  <2> QED BY <2>1, <2>2
<1>16. RegisteredLockHeldByCreator'
  <2> SUFFICES ASSUME NEW t \in Sessions, registry'[t] # None
               PROVE  (Holds(registry[t], registry[t]) /\ target[registry[t]] = t)'
    BY DEF RegisteredLockHeldByCreator
  <2>1. t # s /\ registry'[t] = registry[t]
    BY <1>3
  <2>2. registry[t] \in Requests /\ Holds(registry[t], registry[t]) /\ target[registry[t]] = t
    BY <2>1 DEF LockInv, TypeOK, RegisteredLockHeldByCreator
  <2>3. registry[t] # r
    BY <2>1, <2>2 DEF s
  <2> QED BY <2>1, <2>2, <2>3, <1>2, <1>4 DEF Holds, InCritical
<1>17. NoLostWakeup'
  <2> SUFFICES ASSUME NEW l \in Requests, waiters[l] # << >>
               PROVE  (\E q \in Requests : Holds(q, l)') \/ Head(waiters[l]) \in woken'
    BY <1>4 DEF NoLostWakeup
  <2>1. CASE l = k
    BY <2>1, <1>5
  <2>2. CASE l # k
    <3>1. Head(waiters[l]) \in woken => Head(waiters[l]) \in woken'
      BY <1>5
    <3>2. \A q \in Requests : Holds(q, l) => Holds(q, l)'
      BY <2>2, <1>1, <1>10 DEF Holds
    <3> QED BY <3>1, <3>2 DEF LockInv, NoLostWakeup
  <2> QED BY <2>1, <2>2
<1>18. \A t \in Sessions : HandedOver(t) => HandedOver(t)'
  BY <1>2, <1>4, <1>5 DEF HandedOver
<1>19. OwnerIsRegistered'
  <2> SUFFICES ASSUME NEW q \in Requests, InCritical(q), q # r
               PROVE  (registry[target[q]] = q \/ HandedOver(target[q]))'
    BY <1>9 DEF OwnerIsRegistered
  <2>1. PICK t \in Sessions : t = target[q]
    BY DEF LockInv, LocksHaveCreators, InCritical
  <2>2. registry[t] = q \/ HandedOver(t)
    BY <2>1 DEF LockInv, OwnerIsRegistered
  <2>3. CASE t # s
    BY <2>1, <2>2, <2>3, <1>3, <1>4, <1>18 DEF HandedOver
  <2>4. CASE HandedOver(t)
    BY <2>1, <2>4, <1>4, <1>18 DEF HandedOver
  <2>5. CASE t = s /\ ~HandedOver(t)
    \* Then r owns the registered lock too, so q would not be registered.
    <3>1. registry[t] = r
      BY <2>5, <1>1 DEF LockInv, OwnerIsRegistered, s
    <3> QED BY <3>1, <2>2, <2>5
  <2> QED BY <2>3, <2>4, <2>5
<1> QED
  BY <1>8, <1>11, <1>12, <1>13, <1>14, <1>15, <1>16, <1>17, <1>19 DEF LockInv

\* A step inside the critical section that leaves the locks alone preserves
\* the invariant.
LEMMA PhaseInv ==
  ASSUME LockInv, NEW r \in Requests, NEW p \in Phases, InCritical(r), UNCHANGED lockVars,
         pc' = [pc EXCEPT ![r] = p], p \in {"responded", "streaming", "abandoned"}
  PROVE  LockInv'
<1>1. \A q \in Requests : pc'[q] = IF q = r THEN p ELSE pc[q]
  BY DEF LockInv, TypeOK
<1>2. UNCHANGED <<registry, target, lock, locked, waiters, woken>>
  BY DEF lockVars
<1>3. TypeOK'
  BY <1>2 DEF LockInv, TypeOK
<1>4. \A q \in Requests : InCritical(q)' <=> InCritical(q)
  BY <1>1 DEF InCritical
<1>5. \A q, l \in Requests : Holds(q, l)' <=> Holds(q, l)
  BY <1>2, <1>4 DEF Holds
<1>6. \A q \in Requests : /\ pc[q] = "waiting" <=> pc'[q] = "waiting"
                          /\ pc[q] = "new" <=> pc'[q] = "new"
  BY <1>1 DEF InCritical
<1>7. LocksHaveCreators'
  BY <1>2, <1>6 DEF LockInv, LocksHaveCreators
<1>8. LockedIffOwned' /\ OneOwnerPerLock'
  BY <1>2, <1>4, <1>5 DEF LockInv, LockedIffOwned, OneOwnerPerLock
<1>9. QueuesOfWaiters'
  <2> SUFFICES ASSUME NEW l \in Requests
               PROVE  /\ \A i \in 1..Len(waiters[l]) : /\ pc'[waiters[l][i]] = "waiting"
                                                      /\ lock[waiters[l][i]] = l
                      /\ \A i, j \in 1..Len(waiters[l]) : waiters[l][i] = waiters[l][j] => i = j
    BY <1>2 DEF QueuesOfWaiters
  <2>1. waiters[l] \in Seq(Requests)
    BY DEF LockInv, TypeOK
  <2>2. \A i \in 1..Len(waiters[l]) : waiters[l][i] \in Requests
    BY <2>1
  <2> QED BY <2>2, <1>6 DEF LockInv, QueuesOfWaiters
<1>10. WokenAreHeads'
  BY <1>2, <1>6 DEF LockInv, TypeOK, WokenAreHeads
<1>11. RegisteredLockHeldByCreator'
  <2> SUFFICES ASSUME NEW t \in Sessions, registry[t] # None
               PROVE  Holds(registry[t], registry[t])' /\ target[registry[t]] = t
    BY <1>2 DEF RegisteredLockHeldByCreator
  <2>1. registry[t] \in Requests /\ Holds(registry[t], registry[t]) /\ target[registry[t]] = t
    BY DEF LockInv, TypeOK, RegisteredLockHeldByCreator
  <2> QED BY <2>1, <1>1, <1>2 DEF Holds, InCritical
<1>12. NoLostWakeup'
  BY <1>2, <1>5 DEF LockInv, NoLostWakeup
<1>13. \A q \in Requests : pc[q] # "waiting" => pc'[q] # "waiting"
  BY <1>6
<1>14. OwnerIsRegistered'
  BY <1>2, <1>4, <1>13 DEF LockInv, OwnerIsRegistered, HandedOver
<1> QED
  BY <1>3, <1>7, <1>8, <1>9, <1>10, <1>11, <1>12, <1>14 DEF LockInv

\* LockInv is inductive.
LEMMA StepInv == LockInv /\ [Next]_vars => LockInv'
<1> SUFFICES ASSUME LockInv, [Next]_vars PROVE LockInv'
  OBVIOUS
<1>1. ASSUME NEW r \in Requests, NEW s \in Sessions, Acquire(r, s) PROVE LockInv'
  <2>1. CASE registry[s] = None
    BY <1>1, <2>1, NoEntryTakesFreshLock, FreshInv
  <2>2. CASE registry[s] # None
    BY <1>1, <2>2, EntryQueues, QueueInv
  <2> QED BY <2>1, <2>2
<1>2. ASSUME NEW r \in Requests, Resume(r) PROVE LockInv'
  BY <1>2, ResumeInv
<1>3. ASSUME NEW r \in Requests, Reject(r) \/ EndStream(r) PROVE LockInv'
  BY <1>3, ReleaseInv DEF Reject, EndStream, InCritical
<1>4. ASSUME NEW r \in Requests, Respond(r) \/ StartStream(r) \/ DisconnectBeforeStart(r)
      PROVE  LockInv'
  <2>1. InCritical(r) /\ UNCHANGED lockVars
    BY <1>4 DEF Respond, StartStream, DisconnectBeforeStart, InCritical
  <2>2. PICK p \in {"responded", "streaming", "abandoned"} : pc' = [pc EXCEPT ![r] = p]
    BY <1>4 DEF Respond, StartStream, DisconnectBeforeStart, GoTo
  <2> QED BY <2>1, <2>2, PhaseInv DEF Phases
<1>5. CASE UNCHANGED vars
  BY <1>5
  DEF LockInv, TypeOK, LocksHaveCreators, LockedIffOwned, OneOwnerPerLock, QueuesOfWaiters,
      WokenAreHeads, RegisteredLockHeldByCreator, NoLostWakeup, OwnerIsRegistered, HandedOver,
      Holds, InCritical, vars, lockVars
<1> QED
  BY <1>1, <1>2, <1>3, <1>4, <1>5 DEF Next, Step, Rest

\* A lock that was handed over stays with the request that got it.
LEMMA HandoverIsForGood ==
  ASSUME LockInv, [Next]_vars, NEW s \in Sessions, HandedOver(s)
  PROVE  HandedOver(s)'
<1> USE NoneIsNoRequest, NoneIsNoSession
<1>1. PICK r \in Requests : target[r] = s /\ lock[r] # r /\ (pc[r] # "waiting" \/ r \in woken)
  BY DEF HandedOver
<1>2. pc[r] # "new"
  BY <1>1 DEF LockInv, LocksHaveCreators
<1>3. target'[r] = s /\ lock'[r] # r
  BY <1>1, <1>2 DEF Next, Step, Rest, vars, lockVars, Acquire, acquire_session_lock, Resume, Reject,
    Respond, StartStream, DisconnectBeforeStart, EndStream, release_session_lock, LockInv, TypeOK
<1>4. pc'[r] # "waiting" \/ r \in woken'
  BY <1>1, <1>2 DEF Next, Step, Rest, vars, lockVars, Acquire, acquire_session_lock, AsyncAcquire,
    Resume, Reject, Respond, StartStream, DisconnectBeforeStart, EndStream, release_session_lock,
    AsyncRelease, GoTo, LockInv, TypeOK
<1> QED
  BY <1>3, <1>4 DEF HandedOver

\* The inductive invariant holds in every reachable state.
THEOREM LockInvariant == Spec => []LockInv
<1>1. Init => LockInv
  BY InitInv
<1>2. LockInv /\ [Next]_vars => LockInv'
  BY StepInv
<1> QED BY <1>1, <1>2, PTL DEF Spec

\* The registry, the lock objects and the requests keep their types.
THEOREM TypeCorrect == Spec => []TypeOK
<1>1. LockInv => TypeOK
  BY DEF LockInv
<1> QED BY <1>1, LockInvariant, PTL

\* Every lock object is a mutex for the requests that share it.
THEOREM LocksAreMutexes == Spec => []OneOwnerPerLock
<1>1. LockInv => OneOwnerPerLock
  BY DEF LockInv
<1> QED BY <1>1, LockInvariant, PTL

\* An entry of _SESSION_LOCKS is owned by the request that created the lock.
THEOREM RegistryCorrect == Spec => []RegisteredLockHeldByCreator
<1>1. LockInv => RegisteredLockHeldByCreator
  BY DEF LockInv
<1> QED BY <1>1, LockInvariant, PTL

\* A queue behind a free lock has its head told.
THEOREM WakeupsArrive == Spec => []NoLostWakeup
<1>1. LockInv => NoLostWakeup
  BY DEF LockInv
<1> QED BY <1>1, LockInvariant, PTL

\* The requests of a session are serialised until a lock with waiters is
\* released: both owners would be registered for the one session.
THEOREM SerialUntilHandover == Spec => []ExclusiveUntilHandover
<1>1. LockInv => ExclusiveUntilHandover
  BY DEF LockInv, OwnerIsRegistered, ExclusiveUntilHandover
<1> QED BY <1>1, LockInvariant, PTL

-----------------------------------------------------------------------------
(* Each lock object implements FifoMutex *)

\* The owner of a lock that is held, and of one that is free.
LEMMA HolderIsOwner ==
  ASSUME LockInv, NEW q \in Requests, NEW l \in Requests, Holds(q, l)
  PROVE  OwnerOf(l) = q
<1>1. \A p \in Requests : Holds(p, l) => p = q
  BY DEF LockInv, OneOwnerPerLock, Holds
<1> QED BY <1>1 DEF OwnerOf

LEMMA FreeIsNobodys ==
  ASSUME NEW l \in Requests, \A q \in Requests : ~Holds(q, l)
  PROVE  OwnerOf(l) = None
BY DEF OwnerOf

\* The owner stays as long as the holders do.
LEMMA OwnerStays ==
  ASSUME LockInv, LockInv', NEW l \in Requests,
         \A q \in Requests : Holds(q, l)' <=> Holds(q, l)
  PROVE  OwnerOf(l)' = OwnerOf(l)
<1>1. CASE \E q \in Requests : Holds(q, l)
  <2>1. PICK q \in Requests : Holds(q, l)
    BY <1>1
  <2>2. OwnerOf(l) = q
    BY <2>1, HolderIsOwner
  <2>3. Holds(q, l)' /\ \A p \in Requests : Holds(p, l)' => p = q
    BY <2>1 DEF LockInv, OneOwnerPerLock, Holds
  <2>4. OwnerOf(l)' = q
    BY <2>3 DEF OwnerOf
  <2> QED BY <2>2, <2>4
<1>2. CASE \A q \in Requests : ~Holds(q, l)
  <2>1. \A q \in Requests : ~Holds(q, l)'
    BY <1>2
  <2> QED BY <1>2, <2>1 DEF OwnerOf
<1> QED BY <1>1, <1>2

\* A free lock that r alone holds afterwards is r's.
LEMMA NewOwner ==
  ASSUME LockInv', NEW r \in Requests, NEW l \in Requests, Holds(r, l)'
  PROVE  OwnerOf(l)' = r
<1>1. \A p \in Requests : Holds(p, l)' => p = r
  BY DEF LockInv, OneOwnerPerLock, Holds
<1> QED BY <1>1 DEF OwnerOf

\* A step on one lock object is a step of FifoMutex on it, and none on the others.
LEMMA FreshIsAsk ==
  ASSUME LockInv, LockInv', NEW r \in Requests, NEW s \in Sessions,
         pc[r] = "new", TakesFreshLock(r, s), NEW l \in Requests
  PROVE  [Fifo(l)!Next]_(Fifo(l)!vars)
<1>0. Unknown(r)
  BY NewIsUnknown
<1>1. \A q \in Requests : /\ pc'[q] = IF q = r THEN "loading" ELSE pc[q]
                          /\ lock'[q] = IF q = r THEN r ELSE lock[q]
  BY DEF LockInv, TypeOK, TakesFreshLock
<1>2. waiters' = waiters
  BY DEF TakesFreshLock
<1>3. CASE l = r
  <2>1. OwnerOf(l) = None
    BY <1>0, <1>3, FreeIsNobodys DEF Unknown, Holds
  <2>2. OwnerOf(l)' = r
    BY <1>1, <1>3, NewOwner DEF Holds, InCritical
  <2>3. waiters[l] = << >>
    BY <1>0, <1>3 DEF Unknown
  <2> QED BY <1>2, <2>1, <2>2, <2>3 DEF Fifo!Next, Fifo!Ask
<1>4. CASE l # r
  <2>1. \A q \in Requests : Holds(q, l)' <=> Holds(q, l)
    BY <1>0, <1>1, <1>4, NoneIsNoRequest DEF Unknown, Holds, InCritical
  <2>2. OwnerOf(l)' = OwnerOf(l)
    BY <2>1, OwnerStays
  <2> QED BY <1>2, <2>2 DEF Fifo!vars
<1> QED BY <1>3, <1>4

LEMMA QueueIsAsk ==
  ASSUME LockInv, LockInv', NEW r \in Requests, NEW s \in Sessions, registry[s] # None,
         pc[r] = "new", QueuesOn(r, s, registry[s]), NEW l \in Requests
  PROVE  [Fifo(l)!Next]_(Fifo(l)!vars)
<1> DEFINE k == registry[s]
<1>0. Unknown(r)
  BY NewIsUnknown
<1>1. k \in Requests /\ Holds(k, k)
  BY DEF LockInv, TypeOK, RegisteredLockHeldByCreator
<1>2. \A q \in Requests : /\ pc'[q] = IF q = r THEN "waiting" ELSE pc[q]
                          /\ lock'[q] = IF q = r THEN k ELSE lock[q]
                          /\ waiters'[q] = IF q = k THEN Append(waiters[q], r) ELSE waiters[q]
  BY <1>1 DEF LockInv, TypeOK, QueuesOn
<1> HIDE DEF k
<1>3. \A q \in Requests : Holds(q, l)' <=> Holds(q, l)
  BY <1>0, <1>2 DEF Unknown, Holds, InCritical
<1>4. OwnerOf(l)' = OwnerOf(l)
  BY <1>3, OwnerStays
<1>5. CASE l = k
  <2>1. OwnerOf(l) = k
    BY <1>1, <1>5, HolderIsOwner
  <2>2. OwnerOf(l) # None
    BY <1>1, <2>1, NoneIsNoRequest
  <2> QED BY <1>2, <1>4, <1>5, <2>2 DEF Fifo!Next, Fifo!Ask
<1>6. CASE l # k
  BY <1>2, <1>4, <1>6 DEF Fifo!vars
<1> QED BY <1>5, <1>6

LEMMA ResumeIsGrant ==
  ASSUME LockInv, LockInv', NEW r \in Requests, Resume(r), NEW l \in Requests
  PROVE  [Fifo(l)!Next]_(Fifo(l)!vars)
<1> DEFINE k == lock[r]
<1>1. /\ k \in Requests /\ pc[r] = "waiting" /\ ~locked[k]
      /\ waiters[k] # << >> /\ Head(waiters[k]) = r
  BY DEF Resume, LockInv, TypeOK, LocksHaveCreators, WokenAreHeads
<1>2. \A q \in Requests : /\ pc'[q] = IF q = r THEN "loading" ELSE pc[q]
                          /\ waiters'[q] = IF q = k THEN Tail(waiters[q]) ELSE waiters[q]
  BY <1>1 DEF LockInv, TypeOK, Resume, GoTo
<1>3. lock' = lock
  BY DEF Resume
<1> HIDE DEF k
<1>4. CASE l = k
  <2>1. OwnerOf(l) = None
    BY <1>1, <1>4, FreeIsNobodys DEF LockInv, LockedIffOwned
  <2>2. OwnerOf(l)' = r
    BY <1>2, <1>3, <1>4, NewOwner DEF Holds, InCritical, k
  <2> QED BY <1>1, <1>2, <1>4, <2>1, <2>2 DEF Fifo!Next, Fifo!Grant
<1>5. CASE l # k
  <2>1. \A q \in Requests : Holds(q, l)' <=> Holds(q, l)
    BY <1>2, <1>3, <1>5 DEF Holds, InCritical, k
  <2>2. OwnerOf(l)' = OwnerOf(l)
    BY <2>1, OwnerStays
  <2> QED BY <1>2, <1>5, <2>2 DEF Fifo!vars
<1> QED BY <1>4, <1>5

LEMMA ReleaseIsLeave ==
  ASSUME LockInv, LockInv', NEW r \in Requests, InCritical(r), release_session_lock(r),
         GoTo(r, "done"), NEW l \in Requests
  PROVE  [Fifo(l)!Next]_(Fifo(l)!vars)
<1> DEFINE k == lock[r]
<1>1. k \in Requests /\ Holds(r, k)
  BY DEF LockInv, LocksHaveCreators, InCritical, Holds
<1>2. \A q \in Requests : pc'[q] = IF q = r THEN "done" ELSE pc[q]
  BY DEF LockInv, TypeOK, GoTo
<1>3. lock' = lock /\ waiters' = waiters
  BY DEF release_session_lock
<1> HIDE DEF k
<1>4. CASE l = k
  <2>1. OwnerOf(l) = r
    BY <1>1, <1>4, HolderIsOwner
  <2>2. \A q \in Requests : ~Holds(q, l)'
    BY <1>1, <1>2, <1>3, <1>4 DEF LockInv, OneOwnerPerLock, Holds, InCritical
  <2>3. OwnerOf(l)' = None
    BY <2>2 DEF OwnerOf
  <2>4. r # None
    BY NoneIsNoRequest
  <2> QED BY <1>3, <2>1, <2>3, <2>4 DEF Fifo!Next, Fifo!Leave
<1>5. CASE l # k
  <2>1. \A q \in Requests : Holds(q, l)' <=> Holds(q, l)
    BY <1>2, <1>3, <1>5 DEF Holds, InCritical, k
  <2>2. OwnerOf(l)' = OwnerOf(l)
    BY <2>1, OwnerStays
  <2> QED BY <1>3, <2>2 DEF Fifo!vars
<1> QED BY <1>4, <1>5

LEMMA PhaseIsStutter ==
  ASSUME LockInv, LockInv', UNCHANGED lockVars,
         \A q \in Requests : InCritical(q)' <=> InCritical(q), NEW l \in Requests
  PROVE  [Fifo(l)!Next]_(Fifo(l)!vars)
<1>1. \A q \in Requests : Holds(q, l)' <=> Holds(q, l)
  BY DEF Holds, lockVars
<1>2. OwnerOf(l)' = OwnerOf(l)
  BY <1>1, OwnerStays
<1> QED BY <1>2 DEF Fifo!vars, lockVars

\* Each lock object is a first-come-first-served mutex for any number of
\* requests: acquire() asks, running a woken waiter grants, release() leaves.
THEOREM LocksImplementFifoMutex == Spec => LocksAreFifoMutexes
<1>1. Init => \A l \in Requests : Fifo(l)!Init
  <2> SUFFICES ASSUME Init, NEW l \in Requests PROVE Fifo(l)!Init
    OBVIOUS
  <2>1. OwnerOf(l) = None
    BY FreeIsNobodys DEF Init, Holds, InCritical
  <2> QED BY <2>1 DEF Init, Fifo!Init
<1>2. LockInv /\ LockInv' /\ [Next]_vars => \A l \in Requests : [Fifo(l)!Next]_(Fifo(l)!vars)
  <2> SUFFICES ASSUME LockInv, LockInv', [Next]_vars, NEW l \in Requests
               PROVE  [Fifo(l)!Next]_(Fifo(l)!vars)
    OBVIOUS
  <2>1. ASSUME NEW r \in Requests, NEW s \in Sessions, Acquire(r, s)
        PROVE  [Fifo(l)!Next]_(Fifo(l)!vars)
    <3>1. CASE registry[s] = None
      BY <2>1, <3>1, NoEntryTakesFreshLock, FreshIsAsk
    <3>2. CASE registry[s] # None
      BY <2>1, <3>2, EntryQueues, QueueIsAsk
    <3> QED BY <3>1, <3>2
  <2>2. ASSUME NEW r \in Requests, Resume(r) PROVE [Fifo(l)!Next]_(Fifo(l)!vars)
    BY <2>2, ResumeIsGrant
  <2>3. ASSUME NEW r \in Requests, Reject(r) \/ EndStream(r)
        PROVE  [Fifo(l)!Next]_(Fifo(l)!vars)
    BY <2>3, ReleaseIsLeave DEF Reject, EndStream, InCritical
  <2>4. ASSUME NEW r \in Requests, Respond(r) \/ StartStream(r) \/ DisconnectBeforeStart(r)
        PROVE  [Fifo(l)!Next]_(Fifo(l)!vars)
    <3>1. UNCHANGED lockVars
      BY <2>4 DEF Respond, StartStream, DisconnectBeforeStart
    <3>2. \A q \in Requests : InCritical(q)' <=> InCritical(q)
      BY <2>4 DEF Respond, StartStream, DisconnectBeforeStart, GoTo, InCritical, LockInv, TypeOK
    <3> QED BY <3>1, <3>2, PhaseIsStutter
  <2>5. CASE UNCHANGED vars
    <3>1. UNCHANGED lockVars /\ \A q \in Requests : InCritical(q)' <=> InCritical(q)
      BY <2>5 DEF vars, InCritical
    <3> QED BY <3>1, PhaseIsStutter
  <2> QED BY <2>1, <2>2, <2>3, <2>4, <2>5 DEF Next, Step, Rest
<1>3. LockInv /\ LockInv' /\ [Next]_vars =>
        [\A l \in Requests : [Fifo(l)!Next]_(Fifo(l)!vars)]_vars
  BY <1>2
<1> QED BY <1>1, <1>3, LockInvariant, PTL DEF Spec, LocksAreFifoMutexes
=============================================================================
