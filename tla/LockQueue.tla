----------------------------- MODULE LockQueue -----------------------------
(***************************************************************************)
(* LockQueue<T> as the fanouts use it: a std::list under a lock.  Each     *)
(* queue has one producer, the timer, under the exclusive lock, and one    *)
(* consumer, its sink's thread, under the shared one; the two exclude each *)
(* other, so each call is one step.  enqueue puts a value at the back, and *)
(* dequeue takes the value at the back.                                    *)
(***************************************************************************)
EXTENDS SequencesExt

enqueue(list, value) == Append(list, value)

\* dequeue if it kept the last value back, took the value at the front, or
\* removed the value at the front.
CanDequeueTwo(list)  == Len(list) > 1
TakenFront(list)     == Head(list)
RemainingFront(list) == Tail(list)

\* dequeue returns false on an empty list and leaves it alone.
CanDequeue(list) == list # <<>>
Taken(list)      == Last(list)
Remaining(list)  == Front(list)
=============================================================================
