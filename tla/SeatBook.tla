------------------------------- MODULE SeatBook -------------------------------
(***************************************************************************)
(* What enrolling promises (docs/api/enrollment.md): a course of Capacity  *)
(* seats and a first-come-first-served queue.  Joining takes a free seat   *)
(* or the last place in the queue; leaving a seat hands it to the learner  *)
(* at the head of the queue in the same step.                              *)
(***************************************************************************)
EXTENDS Integers, FiniteSets, Sequences

CONSTANTS Learners, Capacity

\* What the theorems about the book assume of a course.
SeatBookAssumption == IsFiniteSet(Learners) /\ Capacity \in Nat \ {0}

VARIABLES seats,   \* the learners who have a seat
          queue    \* the learners who wait for one, the oldest first

book == <<seats, queue>>

Queued == {queue[k] : k \in 1 .. Len(queue)}

Init == seats = {} /\ queue = <<>>

Join(u) ==
    /\ u \notin seats \cup Queued
    /\ \/ /\ Cardinality(seats) < Capacity
          /\ seats' = seats \cup {u}
          /\ UNCHANGED queue
       \/ /\ Cardinality(seats) >= Capacity
          /\ queue' = Append(queue, u)
          /\ UNCHANGED seats

LeaveSeat(u) ==
    /\ u \in seats
    /\ \/ /\ queue = <<>>
          /\ seats' = seats \ {u}
          /\ UNCHANGED queue
       \/ /\ queue # <<>>
          /\ seats' = (seats \ {u}) \cup {Head(queue)}
          /\ queue' = Tail(queue)

LeaveQueue(k) ==
    /\ queue' = [n \in 1 .. Len(queue) - 1 |-> IF n < k THEN queue[n] ELSE queue[n + 1]]
    /\ UNCHANGED seats

Next ==
    \/ \E u \in Learners : Join(u) \/ LeaveSeat(u)
    \/ \E k \in 1 .. Len(queue) : LeaveQueue(k)

Spec == Init /\ [][Next]_book

TypeOK == seats \subseteq Learners /\ queue \in Seq(Learners)

\* Nobody holds a seat twice over: a learner is seated, or queued at one place.
OnePlace ==
    /\ seats \cap Queued = {}
    /\ \A m, n \in 1 .. Len(queue) : queue[m] = queue[n] => m = n

\* The promise of enrollment_capacity and of the waitlist: never more learners
\* than seats, and nobody waits while a seat is free.
SeatsWellUsed ==
    /\ Cardinality(seats) <= Capacity
    /\ queue # <<>> => Cardinality(seats) = Capacity
===============================================================================
