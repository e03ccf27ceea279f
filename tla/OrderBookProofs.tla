---------------------------- MODULE OrderBookProofs ---------------------------
(***************************************************************************)
(* The order book keeps its promise for every finite set of orders and any *)
(* coupons: a coupon's uses are exactly the orders paid with it.           *)
(***************************************************************************)
EXTENDS OrderBook, FiniteSetTheorems, TLAPS

Inv == TypeOK /\ UsesExact

\* The orders that redeemed a coupon can be counted.
LEMMA RedeemersFinite ==
    ASSUME OrderBookAssumption
    PROVE  \A c \in Coupons : IsFiniteSet(Redeemers(c)) /\ Cardinality(Redeemers(c)) \in Nat
<1> SUFFICES ASSUME NEW c \in Coupons
             PROVE  IsFiniteSet(Redeemers(c)) /\ Cardinality(Redeemers(c)) \in Nat
  OBVIOUS
<1>1. Redeemers(c) \subseteq Orders
  BY DEF Redeemers
<1> QED
  BY <1>1, FS_Subset, FS_CardinalityType DEF OrderBookAssumption

\* A step that redeems nothing and forgets no redemption.
LEMMA SameRedeemers ==
    ASSUME Inv, uses' = uses, \A c \in Coupons : Redeemers(c)' = Redeemers(c)
    PROVE  UsesExact'
<1> SUFFICES ASSUME NEW c \in Coupons PROVE uses'[c] = Cardinality(Redeemers(c)')
  BY DEF UsesExact
<1>1. uses[c] = Cardinality(Redeemers(c))
  BY DEF Inv, UsesExact
<1>2. Cardinality(Redeemers(c)') = Cardinality(Redeemers(c))
  BY Zenon
<1> QED
  BY <1>1, <1>2

LEMMA InvNext ==
    ASSUME OrderBookAssumption, Inv, [Next]_book
    PROVE  Inv'
<1>1. TypeOK /\ UsesExact
  BY DEF Inv
<1>2. ASSUME NEW o \in Orders, NEW c \in Coupons \cup {NoCoupon}, Place(o, c) PROVE Inv'
  <2>1. TypeOK'
    BY <1>1, <1>2 DEF Place, TypeOK
  <2>2. \A d \in Coupons : Redeemers(d)' = Redeemers(d)
    BY <1>1, <1>2 DEF Place, TypeOK, Redeemers
  <2> QED
    BY <1>2, <2>1, <2>2, SameRedeemers DEF Place, Inv
<1>3. ASSUME NEW o \in Orders, Pay(o) PROVE Inv'
  <2>1. TypeOK'
    BY <1>1, <1>3 DEF Pay, TypeOK
  <2>2. ASSUME NEW c \in Coupons PROVE uses'[c] = Cardinality(Redeemers(c)')
    <3>1. IsFiniteSet(Redeemers(c)) /\ Cardinality(Redeemers(c)) \in Nat
      BY RedeemersFinite
    <3>2. uses[c] = Cardinality(Redeemers(c))
      BY <1>1 DEF UsesExact
    <3>3. CASE c = with[o]
      <4>1. o \notin Redeemers(c) /\ Redeemers(c)' = Redeemers(c) \cup {o}
        BY <1>1, <1>3, <3>3 DEF Pay, TypeOK, Redeemers
      <4>2. Cardinality(Redeemers(c)') = Cardinality(Redeemers(c) \cup {o})
        BY <4>1, Zenon
      <4>3. Cardinality(Redeemers(c) \cup {o}) = Cardinality(Redeemers(c)) + 1
        BY <3>1, <4>1, FS_AddElement
      <4> QED
        BY <1>3, <3>2, <3>3, <4>2, <4>3 DEF Pay
    <3>4. CASE c # with[o]
      <4>1. Redeemers(c)' = Redeemers(c)
        BY <1>1, <1>3, <3>4 DEF Pay, TypeOK, Redeemers
      <4>2. Cardinality(Redeemers(c)') = Cardinality(Redeemers(c))
        BY <4>1, Zenon
      <4> QED
        BY <1>3, <3>2, <3>4, <4>2 DEF Pay
    <3> QED
      BY <3>3, <3>4
  <2> QED
    BY <2>1, <2>2 DEF Inv, UsesExact
<1>4. ASSUME NEW o \in Orders, Drop(o) PROVE Inv'
  <2>1. TypeOK'
    BY <1>1, <1>4 DEF Drop, TypeOK
  <2>2. \A d \in Coupons : Redeemers(d)' = Redeemers(d)
    BY <1>1, <1>4 DEF Drop, TypeOK, Redeemers
  <2> QED
    BY <1>4, <2>1, <2>2, SameRedeemers DEF Drop, Inv
<1>5. ASSUME NEW o \in Orders, Refund(o) PROVE Inv'
  <2>1. TypeOK'
    BY <1>1, <1>5 DEF Refund, TypeOK
  <2>2. \A d \in Coupons : Redeemers(d)' = Redeemers(d)
    BY <1>1, <1>5 DEF Refund, TypeOK, Redeemers
  <2> QED
    BY <1>5, <2>1, <2>2, SameRedeemers DEF Refund, Inv
<1>6. CASE UNCHANGED book
  BY <1>6 DEF book, Inv, TypeOK, UsesExact, Redeemers
<1> QED
  BY <1>2, <1>3, <1>4, <1>5, <1>6 DEF Next

\* uses_count is exactly the number of orders paid with the coupon, refunded
\* ones included: paying redeems it once, in the same step.
THEOREM OrderBookKept ==
    ASSUME OrderBookAssumption
    PROVE  Spec => []UsesExact
<1>1. Init => Inv
  <2> SUFFICES ASSUME Init PROVE Inv
    OBVIOUS
  <2>1. TypeOK
    BY DEF Init, TypeOK
  <2>2. \A c \in Coupons : Redeemers(c) = {}
    BY DEF OrderBookAssumption, Init, Redeemers
  <2>3. \A c \in Coupons : uses[c] = Cardinality(Redeemers(c))
    BY <2>2, FS_EmptySet DEF Init
  <2> QED
    BY <2>1, <2>3 DEF Inv, UsesExact
<1>2. Inv => UsesExact
  BY DEF Inv
<1>3. Inv /\ [Next]_book => Inv'
  BY InvNext
<1> QED
  BY <1>1, <1>2, <1>3, PTL DEF Spec
===============================================================================
