------------------------------ MODULE OrderBook -------------------------------
(***************************************************************************)
(* What selling promises (docs/api/payments.md): an order is paid at most  *)
(* once, and paying it redeems its coupon in the same step; it can fail or *)
(* be cancelled only before that, and be refunded only after.              *)
(***************************************************************************)
EXTENDS Integers, FiniteSets

CONSTANTS Orders, Coupons, NoCoupon

\* What the theorems about the book assume of the orders.
OrderBookAssumption == IsFiniteSet(Orders) /\ NoCoupon \notin Coupons

VARIABLES status,   \* where each order stands
          with,     \* the coupon it was placed with
          uses      \* how often each coupon was redeemed

book == <<status, with, uses>>

Init ==
    /\ status = [o \in Orders |-> "absent"]
    /\ with = [o \in Orders |-> NoCoupon]
    /\ uses = [c \in Coupons |-> 0]

Place(o, c) ==
    /\ status[o] = "absent"
    /\ status' = [status EXCEPT ![o] = "pending"]
    /\ with' = [with EXCEPT ![o] = c]
    /\ UNCHANGED uses

Pay(o) ==
    /\ status[o] = "pending"
    /\ status' = [status EXCEPT ![o] = "paid"]
    /\ uses' = [c \in Coupons |-> IF c = with[o] THEN uses[c] + 1 ELSE uses[c]]
    /\ UNCHANGED with

Drop(o) ==
    /\ status[o] = "pending"
    /\ \E s \in {"failed", "cancelled"} : status' = [status EXCEPT ![o] = s]
    /\ UNCHANGED <<with, uses>>

Refund(o) ==
    /\ status[o] = "paid"
    /\ status' = [status EXCEPT ![o] = "refunded"]
    /\ UNCHANGED <<with, uses>>

Next ==
    \E o \in Orders :
        \/ \E c \in Coupons \cup {NoCoupon} : Place(o, c)
        \/ Pay(o) \/ Drop(o) \/ Refund(o)

Spec == Init /\ [][Next]_book

TypeOK ==
    /\ status \in [Orders -> {"absent", "pending", "paid", "failed", "cancelled", "refunded"}]
    /\ with \in [Orders -> Coupons \cup {NoCoupon}]
    /\ uses \in [Coupons -> Nat]

\* Orders that redeemed coupon c.
Redeemers(c) == {o \in Orders : with[o] = c /\ status[o] \in {"paid", "refunded"}}

\* uses_count is exactly the number of orders ever paid with the coupon.
UsesExact == \A c \in Coupons : uses[c] = Cardinality(Redeemers(c))
===============================================================================
