------------------------------ MODULE FifoMutex ------------------------------
(***************************************************************************)
(* What one asyncio.Lock promises the requests that share it: one owner at *)
(* a time, and the queued ones own it in the order they asked for it.      *)
(***************************************************************************)
EXTENDS Sequences

CONSTANTS Members, Nobody

VARIABLES owner,   \* the member that owns the lock, or Nobody
          queue    \* the members that asked for it and have to wait

vars == <<owner, queue>>

Init == owner = Nobody /\ queue = << >>

\* A member asks: it owns a free lock nobody queues for, else it queues.
Ask(m) ==
  IF owner = Nobody /\ queue = << >>
  THEN owner' = m /\ UNCHANGED queue
  ELSE queue' = Append(queue, m) /\ UNCHANGED owner

\* The first in the queue becomes the owner of a free lock.
Grant ==
  /\ owner = Nobody
  /\ queue # << >>
  /\ owner' = Head(queue)
  /\ queue' = Tail(queue)

Leave ==
  /\ owner # Nobody
  /\ owner' = Nobody
  /\ UNCHANGED queue

Next == (\E m \in Members : Ask(m)) \/ Grant \/ Leave

Spec == Init /\ [][Next]_vars
=============================================================================
