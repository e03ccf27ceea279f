---------------------------- MODULE PaymentsSerial ----------------------------
(***************************************************************************)
(* Payments when one request is served at a time, none dies and a seat is  *)
(* never refused: the service then keeps the promise of OrderBook.  The    *)
(* use that applyPaymentSuccess has counted for an order it has not marked *)
(* paid yet is not shown to the book before the order is.                  *)
(***************************************************************************)
EXTENDS Payments

\* Uses of coupon c counted for an order that is still pending.
InFlight(c) == {w \in Workers : /\ pc[w] \in {"enroll", "write"}
                                /\ loc[w].outcome = "paid"
                                /\ orders[loc[w].id].coupon = c}

Book == INSTANCE OrderBook WITH
    status <- [o \in Orders |-> orders[o].status],
    with   <- [o \in Orders |-> orders[o].coupon],
    uses   <- [c \in Coupons |-> coupon[c].uses - Cardinality(InFlight(c))]

\* One request at a time, the service implements the order book: every order
\* runs through its life once, and redeems its coupon exactly when it is paid.
ImplementsOrderBook == Book!Spec
===============================================================================
