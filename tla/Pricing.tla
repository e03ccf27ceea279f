------------------------------- MODULE Pricing -------------------------------
(***************************************************************************)
(* What an order of one course costs: the amounts CreateCheckout computes  *)
(* from the price and a coupon (internal/service/payment.go:73-107,        *)
(* validateCoupon, computeDiscount), read in two statements and written in *)
(* a third.  Go's int has 64 bits and both factors are INTEGER columns, so *)
(* the product does not overflow.  Payments has the rest of an order.      *)
(***************************************************************************)
EXTENDS Requests

CONSTANTS
    Prices,      \* values price_cents takes
    Percents,    \* values of a percent coupon
    Fixed,       \* values of a fixed coupon
    Currencies   \* currencies of courses and fixed coupons; "" is none

ASSUME PricingAssumption ==
    /\ Prices \subseteq Nat
    /\ Percents \subseteq Int /\ Fixed \subseteq Int
    /\ "ETB" \in Currencies  \* the one a course gets that names none

VARIABLES
    course,  \* price_cents and currency of the courses row
    offer,   \* the coupons row, or Nothing
    quote    \* the amounts of the newest order, or Nothing

pricingTables == <<course, offer, quote>>
pricingVars == <<requests, pricingTables>>

\* elsewhere: course_id names another course.
Offer == [kind : {"percent", "fixed"}, value : Percents \cup Fixed,
          currency : Currencies, elsewhere : BOOLEAN]

\* amount and coupon are as the request read them.
Quote == [amount : Nat, discount : Nat, total : Nat,
          coupon : Offer \cup {Nothing}]

PricingInit ==
    /\ RequestsInit
    /\ course = [price |-> 0, currency |-> "ETB"]
    /\ offer = Nothing
    /\ quote = Nothing

\* computeDiscount
Discount(c, amount) ==
    LET whole == IF c.kind = "percent" THEN (amount * c.value) \div 100 ELSE c.value
    IN IF whole > amount THEN amount ELSE whole

\* validateCoupon, as far as amounts depend on it: scope and currency.
Applies(c, currency) ==
    /\ ~c.elsewhere
    /\ c.kind = "fixed" /\ c.currency # "" => c.currency = currency

-------------------------------------------------------------------------------
\* UpdateCourse, seen from here: price_cents may not be negative.
SetPrice(w, p, currency) ==
    /\ AtOnce(w)
    /\ p >= 0
    /\ course' = [price |-> p, currency |-> currency]
    /\ UNCHANGED <<offer, quote>>

\* CreateCoupon's checks: of a positive value, and at most 100 percent.
CreateOffer(w, kind, value, currency, elsewhere) ==
    /\ AtOnce(w)
    /\ value > 0
    /\ kind = "percent" => value <= 100
    /\ offer' = [kind |-> kind, value |-> value, currency |-> currency,
                 elsewhere |-> elsewhere]
    /\ UNCHANGED <<course, quote>>

\* GetCourse: only what costs something is bought.
BeginQuote(w, coded) ==
    /\ Idle(w)
    /\ course.price > 0
    /\ Hold(w, IF coded THEN "quote.coupon" ELSE "quote.order",
            [course |-> course, coupon |-> Nothing])
    /\ UNCHANGED pricingTables

\* coupons.GetByCode and validateCoupon
QuoteCoupon(w) ==
    /\ At(w, "quote.coupon")
    /\ IF offer # Nothing /\ Applies(offer, loc[w].course.currency)
       THEN Hold(w, "quote.order", [loc[w] EXCEPT !.coupon = offer])
       ELSE Finish(w)
    /\ UNCHANGED pricingTables

\* orders.Create
CreateQuote(w) ==
    LET amount   == loc[w].course.price
        coupon   == loc[w].coupon
        discount == IF coupon = Nothing THEN 0 ELSE Discount(coupon, amount)
    IN
    /\ At(w, "quote.order")
    /\ quote' = [amount |-> amount, discount |-> discount,
                 total |-> IF amount - discount < 0 THEN 0 ELSE amount - discount,
                 coupon |-> coupon]
    /\ Finish(w)
    /\ UNCHANGED <<course, offer>>

AbortPricing(w) == Abort(w) /\ UNCHANGED pricingTables

PricingStep(w) ==
    \/ \E p \in Prices, c \in Currencies \ {""} : SetPrice(w, p, c)
    \/ \E c \in Currencies, e \in BOOLEAN :
        \/ \E v \in Percents : CreateOffer(w, "percent", v, c, e)
        \/ \E v \in Fixed : CreateOffer(w, "fixed", v, c, e)
    \/ \E coded \in BOOLEAN : BeginQuote(w, coded)
    \/ QuoteCoupon(w) \/ CreateQuote(w) \/ AbortPricing(w)

PricingNext == \E w \in setting.workers : PricingStep(w)

PricingSpec == PricingInit /\ [][PricingNext]_pricingVars

-------------------------------------------------------------------------------
(* Properties                                                              *)

\* The rows have their columns' types, and a worker holds what it has read.
PricingTypeOK ==
    /\ course \in [price : Nat, currency : Currencies]
    /\ offer \in Offer \cup {Nothing}
    /\ quote \in Quote \cup {Nothing}
    /\ \A w \in setting.workers :
        \/ pc[w] = "idle" /\ loc[w] = Nothing
        \/ /\ pc[w] \in {"quote.coupon", "quote.order"}
           /\ loc[w] \in [course : [price : Nat, currency : Currencies],
                          coupon : Offer \cup {Nothing}]

\* The CHECK constraints of orders (migrations/000016:63-66) and what they do not
\* say: the amounts add up, a percentage is rounded down to a whole cent
\* (payment.go:454 divides integers), and only a full discount makes a course
\* free (:455, :461).
AmountsAddUp ==
    quote # Nothing =>
        /\ quote.total + quote.discount = quote.amount
        /\ quote.coupon = Nothing => quote.discount = 0
        /\ quote.coupon # Nothing =>
            LET exact == quote.amount * quote.coupon.value IN
            IF quote.coupon.kind = "percent"
            THEN /\ 100 * quote.discount <= exact /\ exact < 100 * (quote.discount + 1)
                 /\ quote.total = 0 => quote.coupon.value = 100
            ELSE quote.total = 0 => quote.coupon.value >= quote.amount
===============================================================================
