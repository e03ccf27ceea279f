---------------------------- MODULE SeatBookProofs ----------------------------
(***************************************************************************)
(* The seat book keeps its promise for every capacity and every finite set *)
(* of learners.  OnePlace is what makes SeatsWellUsed inductive: the head  *)
(* of the queue must not be seated already, or the seat handed to it would *)
(* be lost.                                                                *)
(***************************************************************************)
EXTENDS SeatBook, FiniteSetTheorems, TLAPS

Inv == TypeOK /\ OnePlace /\ SeatsWellUsed

\* Seats can be counted, and one learner more or less counts for one.
LEMMA SeatCount ==
    ASSUME SeatBookAssumption, TypeOK
    PROVE  /\ Cardinality(seats) \in Nat
           /\ \A u : u \notin seats => Cardinality(seats \cup {u}) = Cardinality(seats) + 1
           /\ \A u : u \in seats => Cardinality(seats \ {u}) = Cardinality(seats) - 1
           /\ \A u \in seats : \A v : v \notin seats =>
                 Cardinality((seats \ {u}) \cup {v}) = Cardinality(seats)
<1>1. IsFiniteSet(seats)
  BY FS_Subset DEF SeatBookAssumption, TypeOK
<1>2. Cardinality(seats) \in Nat
  BY <1>1, FS_CardinalityType
<1>3. \A u : u \notin seats => Cardinality(seats \cup {u}) = Cardinality(seats) + 1
  BY <1>1, FS_AddElement
<1>4. ASSUME NEW u \in seats
      PROVE  IsFiniteSet(seats \ {u}) /\ Cardinality(seats \ {u}) = Cardinality(seats) - 1
  BY <1>1, FS_RemoveElement
<1>5. ASSUME NEW u \in seats, NEW v, v \notin seats
      PROVE  Cardinality((seats \ {u}) \cup {v}) = Cardinality(seats)
  <2>1. v \notin seats \ {u}
    BY <1>5
  <2>2. Cardinality((seats \ {u}) \cup {v}) = Cardinality(seats \ {u}) + 1
    BY <2>1, <1>4, FS_AddElement
  <2> QED
    BY <2>2, <1>2, <1>4
<1> QED
  BY <1>2, <1>3, <1>4, <1>5

LEMMA InvNext ==
    ASSUME SeatBookAssumption, Inv, [Next]_book
    PROVE  Inv'
<1>1. TypeOK /\ OnePlace /\ SeatsWellUsed /\ Capacity \in Nat \ {0}
  BY DEF SeatBookAssumption, Inv
<1>2. Cardinality(seats) \in Nat
  BY <1>1, SeatCount
<1>3. ASSUME NEW u \in Learners, Join(u) PROVE Inv'
  <2>1. CASE Cardinality(seats) < Capacity /\ seats' = seats \cup {u} /\ UNCHANGED queue
    <3>1. queue = <<>>
      BY <1>1, <1>2, <2>1 DEF SeatsWellUsed
    <3>2. Cardinality(seats') = Cardinality(seats) + 1
      BY <1>1, <1>3, <2>1, SeatCount DEF Join
    <3> QED
      BY <1>1, <1>2, <2>1, <3>1, <3>2
      DEF Inv, TypeOK, OnePlace, SeatsWellUsed, Queued
  <2>2. CASE Cardinality(seats) >= Capacity /\ queue' = Append(queue, u) /\ UNCHANGED seats
    <3>1. /\ Len(queue') = Len(queue) + 1
          /\ Len(queue) \in Nat
          /\ queue'[Len(queue) + 1] = u
          /\ \A k \in 1 .. Len(queue) : queue'[k] = queue[k]
          /\ queue' \in Seq(Learners)
      BY <1>1, <2>2 DEF TypeOK
    <3>2. u \notin seats /\ \A k \in 1 .. Len(queue) : queue[k] # u
      BY <1>3 DEF Join, Queued
    <3>3. \A k \in 1 .. Len(queue') : k = Len(queue) + 1 \/ k \in 1 .. Len(queue)
      BY <3>1
    <3>4. OnePlace'
      BY <1>1, <2>2, <3>1, <3>2, <3>3 DEF OnePlace, Queued
    <3> QED
      BY <1>1, <1>2, <2>2, <3>1, <3>4 DEF Inv, TypeOK, SeatsWellUsed
  <2> QED
    BY <1>3, <2>1, <2>2 DEF Join
<1>4. ASSUME NEW u \in Learners, LeaveSeat(u) PROVE Inv'
  <2>1. CASE queue = <<>> /\ seats' = seats \ {u} /\ UNCHANGED queue
    <3>1. Cardinality(seats') = Cardinality(seats) - 1
      BY <1>1, <1>4, <2>1, SeatCount DEF LeaveSeat
    <3> QED
      BY <1>1, <1>2, <2>1, <3>1 DEF Inv, TypeOK, OnePlace, SeatsWellUsed, Queued
  <2>2. CASE /\ queue # <<>>
             /\ seats' = (seats \ {u}) \cup {Head(queue)}
             /\ queue' = Tail(queue)
    <3>1. /\ Len(queue) \in Nat \ {0}
          /\ Head(queue) = queue[1]
          /\ Head(queue) \in Learners
          /\ queue' \in Seq(Learners)
          /\ Len(queue') = Len(queue) - 1
          /\ \A k \in 1 .. Len(queue') : queue'[k] = queue[k + 1]
      BY <1>1, <2>2 DEF TypeOK
    <3>2. Head(queue) \notin seats
      BY <1>1, <3>1 DEF OnePlace, Queued
    <3>3. Cardinality(seats') = Cardinality(seats)
      BY <1>1, <1>4, <2>2, <3>2, SeatCount DEF LeaveSeat
    <3>4. \A k \in 1 .. Len(queue') : k + 1 \in 1 .. Len(queue) /\ k + 1 # 1
      BY <3>1
    <3>5. OnePlace'
      <4>1. \A k \in 1 .. Len(queue') : queue'[k] \notin seats /\ queue'[k] # Head(queue)
        BY <1>1, <3>1, <3>4 DEF OnePlace, Queued
      <4>2. \A m, n \in 1 .. Len(queue') : queue'[m] = queue'[n] => m = n
        BY <1>1, <3>1, <3>4 DEF OnePlace
      <4> QED
        BY <2>2, <4>1, <4>2 DEF OnePlace, Queued
    <3> QED
      BY <1>1, <2>2, <3>1, <3>3, <3>5 DEF Inv, TypeOK, SeatsWellUsed
  <2> QED
    BY <1>4, <2>1, <2>2 DEF LeaveSeat
<1>5. ASSUME NEW k \in 1 .. Len(queue), LeaveQueue(k) PROVE Inv'
  <2> DEFINE from(n) == IF n < k THEN n ELSE n + 1
  <2>1. /\ Len(queue) \in Nat \ {0}
        /\ queue' \in Seq(Learners)
        /\ Len(queue') = Len(queue) - 1
        /\ \A n \in 1 .. Len(queue') : queue'[n] = queue[from(n)] /\ from(n) \in 1 .. Len(queue)
    <3>1. Len(queue) \in Nat \ {0}
      BY <1>1, <1>5 DEF TypeOK
    <3>2. queue' \in [1 .. Len(queue) - 1 -> Learners]
      BY <1>1, <1>5, <3>1 DEF LeaveQueue, TypeOK
    <3>3. queue' \in Seq(Learners) /\ Len(queue') = Len(queue) - 1
      BY <3>1, <3>2
    <3> QED
      BY <1>5, <3>1, <3>3 DEF LeaveQueue
  <2>2. \A m, n \in 1 .. Len(queue') : from(m) = from(n) => m = n
    BY <2>1
  <2>3. OnePlace'
    BY <1>1, <1>5, <2>1, <2>2 DEF OnePlace, Queued, LeaveQueue
  <2>4. queue # <<>>
    BY <2>1
  <2> QED
    BY <1>1, <1>5, <2>1, <2>3, <2>4 DEF Inv, TypeOK, SeatsWellUsed, LeaveQueue
<1>6. CASE UNCHANGED book
  BY <1>1, <1>6 DEF book, Inv, TypeOK, OnePlace, SeatsWellUsed, Queued
<1> QED
  BY <1>3, <1>4, <1>5, <1>6 DEF Next

\* Never more learners than seats, and nobody waits while a seat is free.
THEOREM SeatBookKept ==
    ASSUME SeatBookAssumption
    PROVE  Spec => [](OnePlace /\ SeatsWellUsed)
<1>1. Init => Inv
  BY FS_EmptySet
  DEF SeatBookAssumption, Init, Inv, TypeOK, OnePlace, SeatsWellUsed, Queued
<1>2. Inv => OnePlace /\ SeatsWellUsed
  BY DEF Inv
<1>3. Inv /\ [Next]_book => Inv'
  BY InvNext
<1> QED
  BY <1>1, <1>2, <1>3, PTL DEF Spec
===============================================================================
