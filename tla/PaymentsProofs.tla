---------------------------- MODULE PaymentsProofs ----------------------------
(***************************************************************************)
(* Theorems about Payments for every number of buyers, orders, workers,    *)
(* keys and coupons, however requests interleave and wherever they fail;   *)
(* the last section is about requests served one at a time.                *)
(***************************************************************************)
EXTENDS PaymentsSerial, FiniteSetTheorems, TLAPS

\* An order that exists has a buyer; one that was paid links an enrollment
\* that exists; the coupon it was placed with was created.
RowsSound ==
    /\ \A o \in Orders : orders[o].status # "absent" => orders[o].buyer \in Buyers
    /\ PaidOrdersEnrolled
    /\ \A o \in Orders : orders[o].coupon # NoCoupon =>
          coupon[orders[o].coupon].status # "absent"

AtCheckout == {"check", "coupon", "create"}
AtOrder    == {"ref", "load", "use", "enroll", "write"}

\* A worker about to write a paid order's row has enrolled its buyer.
Bought(w) == pc[w] = "write" /\ loc[w].outcome \in {"paid", "refunded"}

\* What a worker holds when it is about to run a statement.
Ready(w) ==
    /\ pc[w] \in AtCheckout =>
          loc[w].draft.status = "pending" /\ loc[w].draft.buyer \in Buyers
    /\ pc[w] = "coupon" => loc[w].draft.coupon \in Coupons
    /\ pc[w] = "create" /\ loc[w].draft.coupon # NoCoupon =>
          coupon[loc[w].draft.coupon].status # "absent"
    /\ pc[w] \in AtOrder =>
          loc[w].id \in Orders /\ orders[loc[w].id].status # "absent"
    /\ pc[w] = "ref" => loc[w].outcome = "pending"
    /\ pc[w] \in {"use", "enroll"} => loc[w].outcome = "paid"
    /\ pc[w] \in {"load", "write"} => loc[w].outcome \notin {"absent", "pending"}
    /\ pc[w] = "use" => orders[loc[w].id].coupon # NoCoupon
    /\ Bought(w) => loc[w].linked /\ enrolled[orders[loc[w].id].buyer] # "none"

Sound == TypeOK /\ RowsSound /\ \A w \in Workers : Ready(w)

\* What no step undoes: an order that exists keeps its buyer and its coupon, an
\* enrollment row is never deleted, nor is a coupon.
Lasting ==
    /\ \A o \in Orders : orders[o].status # "absent" =>
          /\ orders'[o].status # "absent"
          /\ orders'[o].buyer = orders[o].buyer
          /\ orders'[o].coupon = orders[o].coupon
    /\ \A b \in Buyers : enrolled[b] # "none" => enrolled'[b] # "none"
    /\ \A c \in Coupons : coupon[c].status # "absent" => coupon'[c].status # "absent"

-------------------------------------------------------------------------------
(* Records                                                                 *)

LEMMA BlankType == NoRow \in Order /\ Blank \in Local
BY DEF NoRow, Blank, Order, Local, OrderStatus

\* What a request holds once it has read order o.
LEMMA CopyType ==
    ASSUME TypeOK, NEW o \in Orders, NEW s \in OrderStatus
    PROVE  /\ Copy(o, s) \in Local
           /\ Copy(o, s).id = o
           /\ Copy(o, s).outcome = s
           /\ Copy(o, s).linked = orders[o].linked
BY BlankType DEF Copy, TypeOK, Local, Order

\* The row orders.UpdateStatus leaves: two columns change.
LEMMA OverwrittenType ==
    ASSUME TypeOK, NEW w \in Workers, loc[w].id \in Orders
    PROVE  /\ Overwritten(w) \in Order
           /\ Overwritten(w).status = loc[w].outcome
           /\ Overwritten(w).linked = loc[w].linked
           /\ Overwritten(w).buyer = orders[loc[w].id].buyer
           /\ Overwritten(w).coupon = orders[loc[w].id].coupon
<1>1. orders[loc[w].id] \in Order /\ loc[w] \in Local
  BY DEF TypeOK
<1>2. loc[w].outcome \in OrderStatus /\ loc[w].linked \in BOOLEAN
  BY <1>1 DEF Local
<1> DEFINE old == orders[loc[w].id]
<1>3. old \in Order /\ Overwritten(w) = [old EXCEPT !.status = loc[w].outcome,
                                                    !.linked = loc[w].linked]
  BY <1>1 DEF Overwritten
<1> HIDE DEF old
<1>4. /\ Overwritten(w) \in Order
      /\ Overwritten(w).status = loc[w].outcome
      /\ Overwritten(w).linked = loc[w].linked
      /\ Overwritten(w).buyer = old.buyer
      /\ Overwritten(w).coupon = old.coupon
  BY <1>2, <1>3 DEF Order
<1> QED
  BY <1>4 DEF old

\* Where a worker is and what it holds after it has moved on.
LEMMA HoldShape ==
    ASSUME TypeOK, NEW w \in Workers, NEW label \in Label, NEW l \in Local,
           Hold(w, label, l)
    PROVE  /\ pc' \in [Workers -> Label] /\ loc' \in [Workers -> Local]
           /\ pc'[w] = label /\ loc'[w] = l
           /\ \A x \in Workers \ {w} : pc'[x] = pc[x] /\ loc'[x] = loc[x]
BY DEF Hold, TypeOK

LEMMA FinishShape ==
    ASSUME TypeOK, NEW w \in Workers, Finish(w)
    PROVE  Hold(w, "idle", Blank)
BY DEF Finish, Hold

LEMMA GotoShape ==
    ASSUME TypeOK, NEW w \in Workers, NEW label, Goto(w, label)
    PROVE  Hold(w, label, loc[w]) /\ loc[w] \in Local
BY DEF Goto, Hold, TypeOK

-------------------------------------------------------------------------------
(* How a step keeps Sound                                                  *)

\* Workers that do not move stay ready.
LEMMA OthersReady ==
    ASSUME Sound, Lasting, orders' \in [Orders -> Order], NEW x \in Workers,
           pc'[x] = pc[x], loc'[x] = loc[x]
    PROVE  Ready(x)'
<1>1. /\ Ready(x) /\ RowsSound /\ loc[x] \in Local /\ orders \in [Orders -> Order]
      /\ loc[x].draft \in Order
  BY DEF Sound, TypeOK, Local
<1>2. ASSUME pc[x] \in AtOrder
      PROVE  /\ loc[x].id \in Orders
             /\ orders[loc[x].id].status # "absent"
             /\ orders'[loc[x].id].status # "absent"
             /\ orders'[loc[x].id].buyer = orders[loc[x].id].buyer
             /\ orders'[loc[x].id].coupon = orders[loc[x].id].coupon
             /\ orders[loc[x].id].buyer \in Buyers
  BY <1>1, <1>2 DEF Ready, Lasting, RowsSound
<1>3. Bought(x)' = Bought(x) /\ (Bought(x) => pc[x] \in AtOrder)
  BY DEF Bought, AtOrder
<1>4. Bought(x) => enrolled'[orders'[loc[x].id].buyer] # "none" /\ loc[x].linked
  BY <1>1, <1>2, <1>3 DEF Ready, Lasting
<1>5. loc[x].draft.coupon # NoCoupon => loc[x].draft.coupon \in Coupons
  BY <1>1 DEF Order
<1>6. pc[x] = "create" /\ loc[x].draft.coupon # NoCoupon =>
          coupon'[loc[x].draft.coupon].status # "absent"
  BY <1>1, <1>5 DEF Ready, Lasting
<1>7. pc[x] = "use" => orders'[loc[x].id].coupon # NoCoupon
  BY <1>1, <1>2 DEF Ready, AtOrder
<1> QED
  BY <1>1, <1>2, <1>3, <1>4, <1>6, <1>7 DEF Ready

\* The step of one worker: what it must show.
LEMMA WorkerStep ==
    ASSUME Sound, NEW w \in Workers, NEW label \in Label, NEW l \in Local,
           Hold(w, label, l),
           orders' \in [Orders -> Order], coupon' \in [Coupons -> Coupon],
           recorded' \subseteq Events, enrolled' \in [Buyers -> SeatStatus],
           Lasting, RowsSound', Ready(w)'
    PROVE  Sound'
<1>1. TypeOK'
  BY HoldShape DEF Sound, TypeOK
<1>2. \A x \in Workers \ {w} : Ready(x)'
  BY HoldShape, OthersReady DEF Sound
<1> QED
  BY <1>1, <1>2 DEF Sound

\* A step that writes no table.
LEMMA ReadStep ==
    ASSUME Sound, NEW w \in Workers, NEW label \in Label, NEW l \in Local,
           Hold(w, label, l), UNCHANGED tables, Ready(w)'
    PROVE  Sound'
<1>1. /\ orders' = orders /\ coupon' = coupon /\ recorded' = recorded
      /\ enrolled' = enrolled
  BY DEF tables
<1>2. Lasting
  BY <1>1 DEF Lasting
<1>3. RowsSound'
  BY <1>1 DEF Sound, RowsSound, PaidOrdersEnrolled
<1> QED
  BY <1>1, <1>2, <1>3, WorkerStep DEF Sound, TypeOK

\* A request that returns is ready for the next.
LEMMA IdleReady ==
    ASSUME NEW w \in Workers, pc'[w] = "idle"
    PROVE  Ready(w)'
BY DEF Ready, Bought, AtCheckout, AtOrder

LEMMA SoundInit == Init => Sound
<1> SUFFICES ASSUME Init PROVE Sound
  OBVIOUS
<1>1. TypeOK
  BY BlankType, BoundsAssumption
  DEF Init, TypeOK, Coupon, SeatStatus, Label
<1>2. RowsSound
  BY DEF Init, RowsSound, PaidOrdersEnrolled, NoRow
<1>3. \A w \in Workers : Ready(w)
  BY DEF Init, Ready, Bought, AtCheckout, AtOrder
<1> QED
  BY <1>1, <1>2, <1>3 DEF Sound

\* The requests that begin.
LEMMA BeginSound == ASSUME Sound, NEW w \in Workers, Begin(w) PROVE Sound'
<1> USE DEF Label, AtCheckout, AtOrder
<1>1. ASSUME NEW b \in Buyers, NEW k \in Keys \cup {NoKey},
             NEW c \in Coupons \cup {NoCoupon}, NEW p \in Providers,
             BeginCheckout(w, b, k, c, p)
      PROVE  Sound'
  <2> DEFINE d == [status |-> "pending", buyer |-> b, key |-> k,
                   coupon |-> c, provider |-> p, linked |-> FALSE]
             l == [Blank EXCEPT !.draft = d]
  <2>1. d \in Order /\ d.status = "pending" /\ d.buyer \in Buyers
    BY OutcomesAssumption DEF Order, OrderStatus
  <2>2. Hold(w, "check", l) /\ UNCHANGED tables
    BY <1>1 DEF BeginCheckout
  <2>3. l \in Local /\ l.draft = d
    <3> HIDE DEF d
    <3> QED
      BY <2>1, BlankType DEF Blank, Local
  <2> HIDE DEF d, l
  <2>4. Ready(w)'
    BY <2>1, <2>2, <2>3, HoldShape DEF Ready, Bought, Sound
  <2> QED
    BY <2>2, <2>3, <2>4, ReadStep
<1>2. ASSUME NEW o \in Orders, BeginConfirm(w, o) PROVE Sound'
  <2>1. /\ Hold(w, Settling(o), Copy(o, "paid"))
        /\ UNCHANGED tables
        /\ orders[o].status # "absent"
    BY <1>2 DEF BeginConfirm
  <2>2. Settling(o) \in {"use", "enroll"} /\ (Settling(o) = "use" => orders[o].coupon # NoCoupon)
    BY DEF Settling
  <2>3. Copy(o, "paid") \in Local /\ Copy(o, "paid").id = o /\ Copy(o, "paid").outcome = "paid"
    BY CopyType DEF Sound, OrderStatus
  <2>4. Ready(w)'
    BY <2>1, <2>2, <2>3, HoldShape DEF Ready, Bought, Sound, tables
  <2> QED
    BY <2>1, <2>2, <2>3, <2>4, ReadStep
<1>3. ASSUME NEW o \in Orders, BeginRefund(w, o) PROVE Sound'
  <2>1. /\ Hold(w, "write", Copy(o, "refunded"))
        /\ UNCHANGED tables
        /\ orders[o].status = "paid"
    BY <1>3 DEF BeginRefund
  <2>2. /\ Copy(o, "refunded") \in Local /\ Copy(o, "refunded").id = o
        /\ Copy(o, "refunded").outcome = "refunded"
        /\ Copy(o, "refunded").linked = orders[o].linked
    BY CopyType DEF Sound, OrderStatus
  <2>3. orders[o].linked /\ enrolled[orders[o].buyer] # "none"
    BY <2>1 DEF Sound, RowsSound, PaidOrdersEnrolled
  <2>4. /\ pc'[w] = "write" /\ loc'[w] = Copy(o, "refunded")
        /\ orders' = orders /\ enrolled' = enrolled
    BY <2>1, <2>2, HoldShape DEF Sound, tables
  <2>5. Ready(w)'
    BY <2>1, <2>2, <2>3, <2>4 DEF Ready, Bought
  <2> QED
    BY <2>1, <2>2, <2>5, ReadStep
<1>4. ASSUME NEW e \in Events, RecordEvent(w, e) PROVE Sound'
  <2> DEFINE l == [Blank EXCEPT !.id = e.order, !.outcome = e.outcome]
  <2>1. e.order \in Orders /\ e.outcome \in Outcomes /\ e.outcome \in OrderStatus
    BY OutcomesAssumption DEF Events, OrderStatus
  <2>2. l \in Local /\ l.id = e.order /\ l.outcome = e.outcome
    BY <2>1, BlankType DEF Blank, Local
  <2>3. Hold(w, "load", l) /\ orders[e.order].status # "absent"
        /\ recorded' = recorded \cup {e}
        /\ orders' = orders /\ coupon' = coupon /\ enrolled' = enrolled
    BY <1>4 DEF RecordEvent
  <2> HIDE DEF l
  <2>4. e.outcome \notin {"absent", "pending"}
    BY <2>1, OutcomesAssumption
  <2>5. Ready(w)'
    BY <2>1, <2>2, <2>3, <2>4, HoldShape DEF Ready, Bought, Sound
  <2>6. Lasting /\ RowsSound'
    BY <2>3 DEF Lasting, Sound, RowsSound, PaidOrdersEnrolled
  <2>7. recorded' \subseteq Events
    BY <2>3 DEF Sound, TypeOK
  <2> QED
    BY <2>2, <2>3, <2>5, <2>6, <2>7, WorkerStep DEF Sound, TypeOK
<1> QED
  BY <1>1, <1>2, <1>3, <1>4 DEF Begin

\* orders.UpdateStatus, at the end of a checkout or of a settlement: the copy
\* it writes is either not paid, or links the enrollment its buyer has.
LEMMA UpdateSound ==
    ASSUME Sound, NEW w \in Workers, pc[w] \in {"ref", "write"}, Finish(w),
           orders' = [orders EXCEPT ![loc[w].id] = Overwritten(w)],
           UNCHANGED <<coupon, recorded, enrolled>>
    PROVE  Sound'
<1> DEFINE o == loc[w].id
<1>1. /\ Ready(w) /\ o \in Orders /\ orders[o].status # "absent"
      /\ loc[w].outcome # "absent"
  BY DEF Sound, Ready, AtOrder
<1>2. /\ Overwritten(w) \in Order
      /\ Overwritten(w).status = loc[w].outcome
      /\ Overwritten(w).linked = loc[w].linked
      /\ Overwritten(w).buyer = orders[o].buyer
      /\ Overwritten(w).coupon = orders[o].coupon
  BY <1>1, OverwrittenType DEF Sound
<1>3. /\ orders' \in [Orders -> Order]
      /\ orders'[o] = Overwritten(w)
      /\ \A x \in Orders \ {o} : orders'[x] = orders[x]
  BY <1>1, <1>2 DEF Sound, TypeOK
<1> HIDE DEF o
<1>4. Lasting
  BY <1>1, <1>2, <1>3 DEF Lasting
<1>5. loc[w].outcome \in {"paid", "refunded"} =>
          loc[w].linked /\ enrolled[orders[o].buyer] # "none"
  BY <1>1 DEF Ready, Bought, o
<1>6. RowsSound'
  <2>1. \A x \in Orders : orders'[x].status # "absent" => orders'[x].buyer \in Buyers
    BY <1>1, <1>2, <1>3 DEF Sound, RowsSound
  <2>2. PaidOrdersEnrolled'
    BY <1>2, <1>3, <1>5 DEF Sound, RowsSound, PaidOrdersEnrolled
  <2>3. \A x \in Orders : orders'[x].coupon = orders[x].coupon
    BY <1>2, <1>3
  <2> QED
    BY <2>1, <2>2, <2>3 DEF Sound, RowsSound
<1>7. Hold(w, "idle", Blank) /\ "idle" \in Label /\ Blank \in Local
  BY FinishShape, BlankType DEF Sound, Label
<1>8. Ready(w)'
  BY <1>7, HoldShape, IdleReady DEF Sound
<1> QED
  BY <1>3, <1>4, <1>6, <1>7, <1>8, WorkerStep DEF Sound, TypeOK

\* A request that returns having written nothing.
LEMMA ReturnSound ==
    ASSUME Sound, NEW w \in Workers, Finish(w), UNCHANGED tables
    PROVE  Sound'
<1>1. Hold(w, "idle", Blank) /\ "idle" \in Label /\ Blank \in Local
  BY FinishShape, BlankType DEF Sound, Label
<1>2. Ready(w)'
  BY <1>1, HoldShape, IdleReady DEF Sound
<1> QED
  BY <1>1, <1>2, ReadStep

\* The statements of a request in progress.
LEMMA StepSound == ASSUME Sound, NEW w \in Workers, Step(w) PROVE Sound'
<1> USE DEF Label, AtCheckout, AtOrder
<1> DEFINE l == loc[w]
<1>0. Ready(w) /\ l \in Local /\ l.draft \in Order /\ TypeOK /\ RowsSound
  BY DEF Sound, TypeOK, Local
<1>1. CASE CheckEnrolled(w)
  <2>1. CASE Finish(w)
    BY <1>1, <2>1, ReturnSound DEF CheckEnrolled
  <2>2. CASE l.draft.coupon = NoCoupon /\ Goto(w, "create")
    <3>1. Hold(w, "create", l)
      BY <1>0, <2>2, GotoShape
    <3>2. Ready(w)'
      BY <1>0, <1>1, <2>2, <3>1, HoldShape DEF CheckEnrolled, Ready, Bought
    <3> QED
      BY <1>0, <1>1, <3>1, <3>2, ReadStep DEF CheckEnrolled
  <2>3. CASE l.draft.coupon # NoCoupon /\ Goto(w, "coupon")
    <3>1. Hold(w, "coupon", l)
      BY <1>0, <2>3, GotoShape
    <3>2. l.draft.coupon \in Coupons
      BY <1>0, <2>3 DEF Order
    <3>3. Ready(w)'
      BY <1>0, <1>1, <3>1, <3>2, HoldShape DEF CheckEnrolled, Ready, Bought
    <3> QED
      BY <1>0, <1>1, <3>1, <3>3, ReadStep DEF CheckEnrolled
  <2> QED
    BY <1>1, <2>1, <2>2, <2>3 DEF CheckEnrolled
<1>2. CASE ReadCoupon(w)
  <2>1. CASE Finish(w)
    BY <1>2, <2>1, ReturnSound DEF ReadCoupon
  <2>2. CASE Usable(coupon[l.draft.coupon]) /\ Goto(w, "create")
    <3>1. Hold(w, "create", l)
      BY <1>0, <2>2, GotoShape
    <3>2. coupon[l.draft.coupon].status # "absent"
      BY <2>2 DEF Usable
    <3>3. coupon' = coupon
      BY <1>2 DEF ReadCoupon, tables
    <3>4. Ready(w)'
      BY <1>0, <1>2, <3>1, <3>2, <3>3, HoldShape DEF ReadCoupon, Ready, Bought
    <3> QED
      BY <1>0, <1>2, <3>1, <3>4, ReadStep DEF ReadCoupon
  <2> QED
    BY <1>2, <2>1, <2>2 DEF ReadCoupon
<1>3. CASE CreateOrder(w)
  <2>1. CASE Finish(w) /\ UNCHANGED orders
    BY <1>3, <2>1, ReturnSound DEF CreateOrder, tables
  <2>2. ASSUME NEW o \in Absent,
               orders' = [orders EXCEPT ![o] = l.draft],
               Hold(w, "ref", [Blank EXCEPT !.id = o, !.outcome = "pending"])
        PROVE  Sound'
    <3> DEFINE r == [Blank EXCEPT !.id = o, !.outcome = "pending"]
    <3>1. o \in Orders /\ orders[o].status = "absent"
      BY DEF Absent
    <3>2. r \in Local /\ r.id = o /\ r.outcome = "pending"
      BY <3>1, BlankType DEF Blank, Local, OrderStatus
    <3>3. Hold(w, "ref", r)
      BY <2>2
    <3> HIDE DEF r, l
    <3>4. l.draft.status = "pending" /\ l.draft.buyer \in Buyers
          /\ (l.draft.coupon # NoCoupon => coupon[l.draft.coupon].status # "absent")
      BY <1>0, <1>3 DEF CreateOrder, Ready, l
    <3>5. /\ orders' \in [Orders -> Order]
          /\ orders'[o] = l.draft
          /\ \A x \in Orders \ {o} : orders'[x] = orders[x]
          /\ coupon' = coupon /\ recorded' = recorded /\ enrolled' = enrolled
      BY <1>0, <1>3, <2>2, <3>1 DEF CreateOrder, TypeOK
    <3>6. Lasting
      BY <3>1, <3>5 DEF Lasting
    <3>7. RowsSound'
      <4>1. \A x \in Orders : orders'[x].status # "absent" => orders'[x].buyer \in Buyers
        BY <1>0, <3>4, <3>5 DEF RowsSound
      <4>2. PaidOrdersEnrolled'
        BY <1>0, <3>4, <3>5 DEF RowsSound, PaidOrdersEnrolled
      <4>3. \A x \in Orders : orders'[x].coupon # NoCoupon =>
                coupon'[orders'[x].coupon].status # "absent"
        BY <1>0, <3>4, <3>5 DEF RowsSound
      <4> QED
        BY <4>1, <4>2, <4>3 DEF RowsSound
    <3>8. Ready(w)'
      BY <1>0, <3>1, <3>2, <3>3, <3>4, <3>5, HoldShape DEF Ready, Bought
    <3> QED
      BY <1>0, <3>2, <3>3, <3>5, <3>6, <3>7, <3>8, WorkerStep DEF TypeOK
  <2> QED
    BY <1>3, <2>1, <2>2 DEF CreateOrder
<1>4. CASE SaveProviderRef(w)
  BY <1>4, UpdateSound DEF SaveProviderRef
<1>5. CASE LoadOrder(w)
  <2> DEFINE o == l.id
             out == l.outcome
  <2>1. CASE Finish(w)
    BY <1>5, <2>1, ReturnSound DEF LoadOrder
  <2>2. CASE /\ orders[o].status \in Sources(out)
             /\ Hold(w, IF out = "paid" THEN Settling(o) ELSE "write", Copy(o, out))
    <3>1. /\ o \in Orders /\ orders[o].status # "absent"
          /\ out \in OrderStatus /\ out \notin {"absent", "pending"}
      BY <1>0, <1>5 DEF LoadOrder, Ready, Local
    <3>2. /\ Copy(o, out) \in Local /\ Copy(o, out).id = o
          /\ Copy(o, out).outcome = out /\ Copy(o, out).linked = orders[o].linked
      BY <1>0, <3>1, CopyType
    <3>3. /\ orders' = orders /\ enrolled' = enrolled /\ UNCHANGED tables
      BY <1>5 DEF LoadOrder, tables
    <3>4. CASE out = "paid"
      <4>1. Settling(o) \in {"use", "enroll"}
            /\ (Settling(o) = "use" => orders[o].coupon # NoCoupon)
        BY DEF Settling
      <4>2. Hold(w, Settling(o), Copy(o, out))
        BY <2>2, <3>4
      <4> HIDE DEF o, out
      <4>3. Ready(w)'
        BY <1>0, <3>1, <3>2, <3>3, <3>4, <4>1, <4>2, HoldShape DEF Ready, Bought
      <4> QED
        BY <3>2, <3>3, <4>1, <4>2, <4>3, ReadStep
    <3>5. CASE out # "paid"
      <4>1. Hold(w, "write", Copy(o, out))
        BY <2>2, <3>5
      <4>2. out = "refunded" => orders[o].linked /\ enrolled[orders[o].buyer] # "none"
        BY <1>0, <2>2, <3>1 DEF Sources, RowsSound, PaidOrdersEnrolled
      <4> HIDE DEF o, out
      <4>3. Ready(w)'
        BY <1>0, <3>1, <3>2, <3>3, <3>5, <4>1, <4>2, HoldShape DEF Ready, Bought
      <4> QED
        BY <3>2, <3>3, <4>1, <4>3, ReadStep
    <3> QED
      BY <3>4, <3>5
  <2> QED
    BY <1>5, <2>1, <2>2 DEF LoadOrder
<1>6. CASE CountUse(w)
  <2> DEFINE c == orders[l.id].coupon
  <2>1. l.id \in Orders /\ orders[l.id].status # "absent" /\ l.outcome = "paid"
    BY <1>0, <1>6 DEF CountUse, Ready
  <2>2. /\ Hold(w, "enroll", l)
        /\ orders' = orders /\ recorded' = recorded /\ enrolled' = enrolled
        /\ coupon' = [coupon EXCEPT ![c].uses = @ + 1]
    BY <1>0, <1>6, GotoShape DEF CountUse
  <2>3. coupon' \in [Coupons -> Coupon] /\ \A x \in Coupons : coupon'[x].status = coupon[x].status
    <3> DEFINE more == [coupon[c] EXCEPT !.uses = @ + 1]
    <3>1. c \in Coupons
      BY <1>0, <1>6, <2>1 DEF CountUse, Ready, TypeOK, Order
    <3>2. coupon[c] \in Coupon
      BY <1>0, <3>1 DEF TypeOK
    <3>3. more \in Coupon /\ more.status = coupon[c].status
      BY <3>2 DEF Coupon
    <3>4. coupon' = [coupon EXCEPT ![c] = more]
      BY <2>2
    <3> HIDE DEF more, c
    <3> QED
      BY <1>0, <3>1, <3>3, <3>4 DEF TypeOK
  <2>4. Lasting
    BY <2>2, <2>3 DEF Lasting
  <2>5. \A o \in Orders : orders[o].coupon # NoCoupon => orders[o].coupon \in Coupons
    BY <1>0 DEF TypeOK, Order
  <2>6. RowsSound'
    BY <1>0, <2>2, <2>3, <2>5 DEF RowsSound, PaidOrdersEnrolled
  <2>7. Ready(w)'
    BY <1>0, <2>1, <2>2, HoldShape DEF Ready, Bought
  <2> QED
    BY <1>0, <2>2, <2>3, <2>4, <2>6, <2>7, WorkerStep DEF TypeOK
<1>7. CASE EnrollBuyer(w)
  <2> DEFINE b == orders[l.id].buyer
             r == [l EXCEPT !.linked = TRUE]
  <2>1. /\ l.id \in Orders /\ orders[l.id].status # "absent" /\ l.outcome = "paid"
        /\ b \in Buyers
    BY <1>0, <1>7 DEF EnrollBuyer, Ready, RowsSound
  <2>2. r \in Local /\ r.id = l.id /\ r.outcome = l.outcome /\ r.linked
    BY <1>0 DEF Local
  <2>3. CASE Finish(w) /\ UNCHANGED enrolled
    BY <1>7, <2>3, ReturnSound DEF EnrollBuyer, tables
  <2>4. ASSUME Hold(w, "write", r), enrolled' \in [Buyers -> SeatStatus],
               enrolled'[b] # "none",
               \A x \in Buyers : enrolled[x] # "none" => enrolled'[x] # "none"
        PROVE  Sound'
    <3>1. orders' = orders /\ coupon' = coupon /\ recorded' = recorded
      BY <1>7 DEF EnrollBuyer
    <3>2. Lasting
      BY <2>4, <3>1 DEF Lasting
    <3>3. RowsSound'
      BY <1>0, <2>4, <3>1 DEF RowsSound, PaidOrdersEnrolled
    <3>4. Ready(w)'
      <4> HIDE DEF r
      <4> QED
        BY <1>0, <2>1, <2>2, <2>4, <3>1, HoldShape DEF Ready, Bought
    <3> QED
      BY <1>0, <2>2, <2>4, <3>1, <3>2, <3>3, <3>4, WorkerStep DEF TypeOK
  <2>5. CASE enrolled[b] \in {"active", "waitlisted"} /\ Hold(w, "write", r)
             /\ UNCHANGED enrolled
    BY <1>0, <2>4, <2>5 DEF TypeOK
  <2>6. ASSUME NEW s \in SeatOutcomes \ {"refused"},
               enrolled' = [enrolled EXCEPT ![b] = s], Hold(w, "write", r)
        PROVE  Sound'
    <3>1. s \in {"active", "waitlisted"}
      BY OutcomesAssumption
    <3>2. /\ enrolled' \in [Buyers -> SeatStatus]
          /\ enrolled'[b] # "none"
          /\ \A x \in Buyers : enrolled[x] # "none" => enrolled'[x] # "none"
      BY <1>0, <2>1, <2>6, <3>1 DEF TypeOK, SeatStatus
    <3> QED
      BY <2>4, <2>6, <3>2
  <2> QED
    BY <1>7, <2>3, <2>5, <2>6 DEF EnrollBuyer
<1>8. CASE WriteStatus(w)
  BY <1>8, UpdateSound DEF WriteStatus
<1> QED
  BY <1>1, <1>2, <1>3, <1>4, <1>5, <1>6, <1>7, <1>8 DEF Step

\* What the service's workers do not do.
LEMMA EnvironmentSound == ASSUME Sound, Environment PROVE Sound'
<1>0. /\ orders' = orders /\ recorded' = recorded /\ pc' = pc /\ loc' = loc
      /\ TypeOK /\ RowsSound
  BY DEF Environment, CreateCoupon, ExpireCoupon, RevokeCoupon, ChangeEnrollment, Sound
<1>1. /\ coupon' \in [Coupons -> Coupon]
      /\ \A x \in Coupons : coupon[x].status # "absent" => coupon'[x].status # "absent"
  <2>1. ASSUME NEW c \in Coupons, NEW n \in UseLimits, CreateCoupon(c, n)
        PROVE  <1>1!:
    BY <1>0, <2>1 DEF CreateCoupon, TypeOK, Coupon
  <2>2. ASSUME NEW c \in Coupons, ExpireCoupon(c) \/ RevokeCoupon(c)
        PROVE  <1>1!:
    BY <1>0, <2>2 DEF ExpireCoupon, RevokeCoupon, TypeOK, Coupon
  <2>3. CASE UNCHANGED coupon
    BY <1>0, <2>3 DEF TypeOK
  <2> QED
    BY <2>1, <2>2, <2>3 DEF Environment, ChangeEnrollment
<1>2. /\ enrolled' \in [Buyers -> SeatStatus]
      /\ \A x \in Buyers : enrolled[x] # "none" => enrolled'[x] # "none"
  <2>1. ASSUME NEW b \in Buyers, ChangeEnrollment(b)
        PROVE  <1>2!:
    BY <1>0, <2>1 DEF ChangeEnrollment, TypeOK, SeatStatus
  <2>2. CASE UNCHANGED enrolled
    BY <1>0, <2>2 DEF TypeOK
  <2> QED
    BY <2>1, <2>2 DEF Environment, CreateCoupon, ExpireCoupon, RevokeCoupon
<1>3. Lasting
  BY <1>0, <1>1, <1>2 DEF Lasting
<1>4. RowsSound'
  <2>1. \A o \in Orders : orders[o].coupon # NoCoupon => orders[o].coupon \in Coupons
    BY <1>0 DEF TypeOK, Order
  <2> QED
    BY <1>0, <1>1, <1>2, <2>1 DEF RowsSound, PaidOrdersEnrolled
<1>5. TypeOK'
  BY <1>0, <1>1, <1>2 DEF TypeOK
<1>6. \A x \in Workers : Ready(x)'
  BY <1>0, <1>3, OthersReady DEF TypeOK
<1> QED
  BY <1>4, <1>5, <1>6 DEF Sound

LEMMA SoundNext == Sound /\ [Next]_vars => Sound'
<1> SUFFICES ASSUME Sound, [Next]_vars PROVE Sound'
  OBVIOUS
<1>1. ASSUME NEW w \in Workers, Abort(w) PROVE Sound'
  BY <1>1, ReturnSound DEF Abort
<1>2. CASE UNCHANGED vars
  <2>1. /\ orders' = orders /\ coupon' = coupon /\ recorded' = recorded
        /\ enrolled' = enrolled /\ pc' = pc /\ loc' = loc
    BY <1>2 DEF vars
  <2> QED
    BY <2>1 DEF Sound, TypeOK, RowsSound, PaidOrdersEnrolled, Ready, Bought
<1> QED
  BY <1>1, <1>2, BeginSound, StepSound, EnvironmentSound DEF Next

\* Every row and worker record keeps its type.
THEOREM PaymentTypesCorrect == Spec => []TypeOK
<1>1. Sound => TypeOK
  BY DEF Sound
<1> QED
  BY <1>1, SoundInit, SoundNext, PTL DEF Spec

\* A paid or refunded order links the enrollment it bought, however requests on
\* it interleave and wherever they stop.
THEOREM PaidMeansEnrolled == Spec => []PaidOrdersEnrolled
<1>1. Sound => PaidOrdersEnrolled
  BY DEF Sound, RowsSound
<1> QED
  BY <1>1, SoundInit, SoundNext, PTL DEF Spec

-------------------------------------------------------------------------------
(* Every payment with a coupon is counted                                  *)

\* A worker that has counted a use, or is about to write a row that is paid.
Owing(w) == pc[w] = "enroll" \/ Bought(w)

Settled(o) == orders[o].status \in {"paid", "refunded"}

\* The orders with coupon c that are paid or that a worker may write as paid.
\* Redeemed(c) alone is not inductive: a stale copy of a paid order can be
\* written after another one has put the row back to pending.
Counted(c) ==
    {o \in Orders : /\ orders[o].coupon = c
                    /\ Settled(o) \/ \E w \in Workers : Owing(w) /\ loc[w].id = o}

UsesCounted == \A c \in Coupons : Cardinality(Counted(c)) <= coupon[c].uses

\* A worker's step that leaves the coupon's uses alone counts no new order: an
\* order is written as paid by a worker that owed it, and a worker owes only
\* an order that is paid or that it owed before.
LEMMA NothingNewCounted ==
    ASSUME Sound, NEW w \in Workers,
           \A x \in Workers \ {w} : pc'[x] = pc[x] /\ loc'[x] = loc[x],
           \A o \in Orders : Settled(o)' => Settled(o) \/ (Owing(w) /\ loc[w].id = o),
           \A o \in Orders : orders[o].status # "absent" =>
               orders'[o].coupon = orders[o].coupon,
           Owing(w)' => \/ orders'[loc'[w].id].coupon = NoCoupon
                        \/ Settled(loc'[w].id)
                        \/ Owing(w) /\ loc[w].id = loc'[w].id
    PROVE  \A c \in Coupons : Counted(c)' \subseteq Counted(c)
<1> SUFFICES ASSUME NEW c \in Coupons, NEW o \in Counted(c)' PROVE o \in Counted(c)
  OBVIOUS
<1>1. o \in Orders /\ orders'[o].coupon = c /\ c # NoCoupon
  BY NullsAssumption DEF Counted
<1>2. Settled(o) \/ \E x \in Workers : Owing(x) /\ loc[x].id = o
  <2>1. CASE Settled(o)'
    BY <1>1, <2>1
  <2>2. CASE \E x \in Workers : Owing(x)' /\ loc'[x].id = o
    <3>1. PICK x \in Workers : Owing(x)' /\ loc'[x].id = o
      BY <2>2
    <3>2. CASE x = w
      BY <1>1, <3>1, <3>2
    <3>3. CASE x # w
      BY <3>1, <3>3 DEF Owing, Bought
    <3> QED
      BY <3>2, <3>3
  <2> QED
    BY <2>1, <2>2 DEF Counted
<1>3. orders[o].status # "absent"
  BY <1>1, <1>2 DEF Sound, Ready, Owing, Bought, Settled, AtOrder
<1> QED
  BY <1>1, <1>2, <1>3 DEF Counted

\* The same for a step that leaves the orders alone.
LEMMA NothingNewRead ==
    ASSUME Sound, NEW w \in Workers, NEW label \in Label, NEW l \in Local,
           Hold(w, label, l), UNCHANGED orders,
           label = "enroll" \/ (label = "write" /\ l.outcome \in {"paid", "refunded"})
               => \/ orders[l.id].coupon = NoCoupon
                  \/ Settled(l.id)
                  \/ Owing(w) /\ loc[w].id = l.id
    PROVE  \A c \in Coupons : Counted(c)' \subseteq Counted(c)
<1>1. /\ pc'[w] = label /\ loc'[w] = l
      /\ \A x \in Workers \ {w} : pc'[x] = pc[x] /\ loc'[x] = loc[x]
  BY HoldShape DEF Sound
<1>2. \A o : Settled(o)' = Settled(o)
  BY DEF Settled
<1>3. Owing(w)' => label = "enroll" \/ (label = "write" /\ l.outcome \in {"paid", "refunded"})
  BY <1>1 DEF Owing, Bought
<1> QED
  BY <1>1, <1>2, <1>3, NothingNewCounted

LEMMA NothingNewReturn ==
    ASSUME Sound, NEW w \in Workers, Finish(w), UNCHANGED orders
    PROVE  \A c \in Coupons : Counted(c)' \subseteq Counted(c)
<1>1. Hold(w, "idle", Blank) /\ "idle" \in Label /\ Blank \in Local
  BY FinishShape, BlankType DEF Sound, Label
<1> QED
  BY <1>1, NothingNewRead

LEMMA NothingNewGoto ==
    ASSUME Sound, NEW w \in Workers, NEW label \in Label \ {"enroll", "write"},
           Goto(w, label), UNCHANGED orders
    PROVE  \A c \in Coupons : Counted(c)' \subseteq Counted(c)
<1>1. Hold(w, label, loc[w]) /\ loc[w] \in Local
  BY GotoShape DEF Sound
<1> QED
  BY <1>1, NothingNewRead

\* orders.UpdateStatus
LEMMA NothingNewUpdate ==
    ASSUME Sound, NEW w \in Workers, pc[w] \in {"ref", "write"}, Finish(w),
           orders' = [orders EXCEPT ![loc[w].id] = Overwritten(w)]
    PROVE  \A c \in Coupons : Counted(c)' \subseteq Counted(c)
<1> DEFINE o == loc[w].id
<1>1. Ready(w) /\ o \in Orders /\ (pc[w] = "ref" => loc[w].outcome = "pending")
  BY DEF Sound, Ready, AtOrder
<1>2. Overwritten(w).status = loc[w].outcome /\ Overwritten(w).coupon = orders[o].coupon
  BY <1>1, OverwrittenType DEF Sound
<1>3. orders'[o] = Overwritten(w) /\ \A x \in Orders \ {o} : orders'[x] = orders[x]
  BY <1>1 DEF Sound, TypeOK
<1> HIDE DEF o
<1>4. \A x \in Orders : Settled(x)' => Settled(x) \/ (Owing(w) /\ loc[w].id = x)
  BY <1>1, <1>2, <1>3 DEF Settled, Owing, Bought, o
<1>5. \A x \in Orders : orders'[x].coupon = orders[x].coupon
  BY <1>2, <1>3
<1>6. Hold(w, "idle", Blank) /\ "idle" \in Label /\ Blank \in Local
  BY FinishShape, BlankType DEF Sound, Label
<1>7. /\ pc'[w] = "idle"
      /\ \A x \in Workers \ {w} : pc'[x] = pc[x] /\ loc'[x] = loc[x]
  BY <1>6, HoldShape DEF Sound
<1>8. ~Owing(w)'
  BY <1>7 DEF Owing, Bought
<1> QED
  BY <1>4, <1>5, <1>7, <1>8, NothingNewCounted

\* An element more counts for one at most.
LEMMA OneMore ==
    ASSUME NEW S, IsFiniteSet(S), NEW x
    PROVE  /\ IsFiniteSet(S \cup {x})
           /\ Cardinality(S \cup {x}) \in Nat
           /\ Cardinality(S \cup {x}) <= Cardinality(S) + 1
<1>1. Cardinality(S) \in Nat
  BY FS_CardinalityType
<1>2. CASE x \in S
  <2>1. S \cup {x} = S
    BY <1>2
  <2>2. IsFiniteSet(S \cup {x}) /\ Cardinality(S \cup {x}) = Cardinality(S)
    BY <2>1, Zenon
  <2> QED
    BY <1>1, <2>2
<1>3. CASE x \notin S
  BY <1>1, <1>3, FS_AddElement
<1> QED
  BY <1>2, <1>3

\* CountUse: one more order is counted, and so is one more use.
LEMMA CountUseCounted ==
    ASSUME Sound, UsesCounted, NEW w \in Workers, CountUse(w)
    PROVE  UsesCounted'
<1> DEFINE o == loc[w].id
           d == orders[o].coupon
<1>1. /\ o \in Orders /\ d \in Coupons /\ loc[w] \in Local
      /\ Hold(w, "enroll", loc[w]) /\ UNCHANGED orders
      /\ coupon' = [coupon EXCEPT ![d].uses = @ + 1]
  BY GotoShape DEF CountUse, Sound, Ready, AtOrder, TypeOK, Order
<1> HIDE DEF d
<1>2. /\ coupon'[d].uses = coupon[d].uses + 1
      /\ \A c \in Coupons \ {d} : coupon'[c].uses = coupon[c].uses
      /\ \A c \in Coupons : coupon[c].uses \in Nat
  BY <1>1 DEF Sound, TypeOK, Coupon
<1>3. /\ pc'[w] = "enroll" /\ loc'[w] = loc[w]
      /\ \A x \in Workers \ {w} : pc'[x] = pc[x] /\ loc'[x] = loc[x]
  BY <1>1, HoldShape DEF Sound, Label
<1>4. \A c \in Coupons : Counted(c)' \subseteq Counted(c) \cup (IF c = d THEN {o} ELSE {})
  <2> SUFFICES ASSUME NEW c \in Coupons, NEW y \in Counted(c)',
                      ~(c = d /\ y = o)
               PROVE  y \in Counted(c)
    OBVIOUS
  <2>1. y \in Orders /\ orders[y].coupon = c
    BY <1>1 DEF Counted
  <2>2. y # o
    BY <2>1 DEF d
  <2>3. Settled(y) \/ \E x \in Workers \ {w} : Owing(x) /\ loc[x].id = y
    BY <1>1, <1>3, <2>2 DEF Counted, Settled, Owing, Bought
  <2> QED
    BY <2>1, <2>3 DEF Counted
<1>5. ASSUME NEW c \in Coupons PROVE Cardinality(Counted(c)') <= coupon'[c].uses
  <2>1. IsFiniteSet(Counted(c)) /\ Cardinality(Counted(c)) \in Nat
    BY OrdersAssumption, FS_Subset, FS_CardinalityType DEF Counted
  <2>2. /\ IsFiniteSet(Counted(c) \cup {o})
        /\ Cardinality(Counted(c) \cup {o}) \in Nat
        /\ Cardinality(Counted(c) \cup {o}) <= Cardinality(Counted(c)) + 1
    BY <2>1, OneMore
  <2>3. CASE c = d
    <3>1. Cardinality(Counted(c)') <= Cardinality(Counted(c) \cup {o})
          /\ Cardinality(Counted(c)') \in Nat
      BY <1>4, <2>2, <2>3, FS_Subset, FS_CardinalityType
    <3> QED
      BY <1>2, <2>1, <2>2, <2>3, <3>1 DEF UsesCounted
  <2>4. CASE c # d
    <3>1. Cardinality(Counted(c)') <= Cardinality(Counted(c))
          /\ Cardinality(Counted(c)') \in Nat
      BY <1>4, <2>1, <2>4, FS_Subset, FS_CardinalityType
    <3> QED
      BY <1>2, <2>1, <2>4, <3>1 DEF UsesCounted
  <2> QED
    BY <2>3, <2>4
<1> QED
  BY <1>5 DEF UsesCounted

\* Nothing is counted anew and no coupon forgets a use.
LEMMA QuietCounted ==
    ASSUME Sound, UsesCounted, Sound',
           \A c \in Coupons : Counted(c)' \subseteq Counted(c),
           \A c \in Coupons : Counted(c) = {} \/ coupon'[c].uses >= coupon[c].uses
    PROVE  UsesCounted'
<1> SUFFICES ASSUME NEW c \in Coupons PROVE Cardinality(Counted(c)') <= coupon'[c].uses
  BY DEF UsesCounted
<1>1. IsFiniteSet(Counted(c)) /\ Cardinality(Counted(c)) \in Nat
  BY OrdersAssumption, FS_Subset, FS_CardinalityType DEF Counted
<1>2. Cardinality(Counted(c)') \in Nat /\ Cardinality(Counted(c)') <= Cardinality(Counted(c))
  BY <1>1, FS_Subset, FS_CardinalityType
<1>3. coupon[c].uses \in Nat /\ coupon'[c].uses \in Nat
  BY DEF Sound, TypeOK, Coupon
<1>4. Counted(c) = {} => Cardinality(Counted(c)) = 0
  BY FS_EmptySet
<1>5. Cardinality(Counted(c)) <= coupon[c].uses
  BY DEF UsesCounted
<1> QED
  BY <1>1, <1>2, <1>3, <1>4, <1>5

LEMMA CountedNext == Sound /\ Sound' /\ UsesCounted /\ [Next]_vars => UsesCounted'
<1> SUFFICES ASSUME Sound, Sound', UsesCounted, [Next]_vars PROVE UsesCounted'
  OBVIOUS
<1> USE DEF Label
<1> DEFINE Quiet == \A c \in Coupons : Counted(c)' \subseteq Counted(c)
<1>0. ASSUME Quiet, UNCHANGED coupon PROVE UsesCounted'
  <2>1. \A c \in Coupons : coupon[c].uses \in Nat
    BY DEF Sound, TypeOK, Coupon
  <2>2. \A c \in Coupons : coupon'[c].uses >= coupon[c].uses
    BY <1>0, <2>1
  <2> QED
    BY <1>0, <2>2, QuietCounted
<1>1. ASSUME NEW w \in Workers, Begin(w) PROVE UsesCounted'
  <2>1. UNCHANGED <<orders, coupon>>
    BY <1>1 DEF Begin, BeginCheckout, BeginConfirm, BeginRefund, RecordEvent, tables
  <2>2. CASE \E b \in Buyers, k \in Keys \cup {NoKey}, c \in Coupons \cup {NoCoupon},
                p \in Providers : BeginCheckout(w, b, k, c, p)
    <3>1. pc'[w] = "check" /\ \A x \in Workers \ {w} : pc'[x] = pc[x] /\ loc'[x] = loc[x]
      BY <2>2 DEF BeginCheckout, Hold, Sound, TypeOK
    <3>2. ~Owing(w)' /\ \A o : Settled(o)' = Settled(o)
      BY <2>1, <3>1 DEF Owing, Bought, Settled
    <3> QED
      BY <1>0, <2>1, <3>1, <3>2, NothingNewCounted
  <2>3. ASSUME NEW o \in Orders, BeginConfirm(w, o) PROVE UsesCounted'
    <3>1. Hold(w, Settling(o), Copy(o, "paid")) /\ Copy(o, "paid") \in Local
          /\ Copy(o, "paid").id = o
      BY <2>3, CopyType DEF BeginConfirm, Sound, OrderStatus
    <3>2. Settling(o) \in {"use", "enroll"}
          /\ (Settling(o) = "enroll" => orders[o].coupon = NoCoupon)
      BY DEF Settling
    <3> QED
      BY <1>0, <2>1, <3>1, <3>2, NothingNewRead
  <2>4. ASSUME NEW o \in Orders, BeginRefund(w, o) PROVE UsesCounted'
    <3>1. Hold(w, "write", Copy(o, "refunded")) /\ Copy(o, "refunded") \in Local
          /\ Copy(o, "refunded").id = o /\ Settled(o)
      BY <2>4, CopyType DEF BeginRefund, Sound, OrderStatus, Settled
    <3> QED
      BY <1>0, <2>1, <3>1, NothingNewRead
  <2>5. ASSUME NEW e \in Events, RecordEvent(w, e) PROVE UsesCounted'
    <3>1. pc'[w] = "load" /\ \A x \in Workers \ {w} : pc'[x] = pc[x] /\ loc'[x] = loc[x]
      BY <2>5 DEF RecordEvent, Hold, Sound, TypeOK
    <3>2. ~Owing(w)' /\ \A o : Settled(o)' = Settled(o)
      BY <2>1, <3>1 DEF Owing, Bought, Settled
    <3> QED
      BY <1>0, <2>1, <3>1, <3>2, NothingNewCounted
  <2> QED
    BY <1>1, <2>2, <2>3, <2>4, <2>5 DEF Begin
<1>2. ASSUME NEW w \in Workers, Step(w) PROVE UsesCounted'
  <2>1. CASE CheckEnrolled(w) \/ ReadCoupon(w)
    <3>1. /\ UNCHANGED <<orders, coupon>>
          /\ Finish(w) \/ Goto(w, "create") \/ Goto(w, "coupon")
      BY <2>1 DEF CheckEnrolled, ReadCoupon, tables
    <3> QED
      BY <1>0, <3>1, NothingNewReturn, NothingNewGoto
  <2>2. CASE CreateOrder(w)
    <3>1. CASE Finish(w) /\ UNCHANGED orders
      BY <1>0, <2>2, <3>1, NothingNewReturn DEF CreateOrder
    <3>2. ASSUME NEW o \in Absent, orders' = [orders EXCEPT ![o] = loc[w].draft],
                 Hold(w, "ref", [Blank EXCEPT !.id = o, !.outcome = "pending"])
          PROVE  UsesCounted'
      <4>1. o \in Orders /\ orders[o].status = "absent" /\ loc[w].draft.status = "pending"
        BY <2>2 DEF Absent, CreateOrder, Sound, Ready, AtCheckout
      <4>2. orders'[o] = loc[w].draft /\ \A x \in Orders \ {o} : orders'[x] = orders[x]
        BY <3>2, <4>1 DEF Sound, TypeOK
      <4>3. pc'[w] = "ref" /\ \A x \in Workers \ {w} : pc'[x] = pc[x] /\ loc'[x] = loc[x]
        BY <3>2 DEF Hold, Sound, TypeOK
      <4>4. ~Owing(w)' /\ \A x \in Orders : Settled(x)' => Settled(x)
        BY <4>1, <4>2, <4>3 DEF Owing, Bought, Settled
      <4> QED
        BY <1>0, <2>2, <4>1, <4>2, <4>3, <4>4, NothingNewCounted DEF CreateOrder
    <3> QED
      BY <2>2, <3>1, <3>2 DEF CreateOrder
  <2>3. CASE SaveProviderRef(w) \/ WriteStatus(w)
    BY <1>0, <2>3, NothingNewUpdate DEF SaveProviderRef, WriteStatus
  <2>4. CASE LoadOrder(w)
    <3> DEFINE o == loc[w].id
               out == loc[w].outcome
    <3>1. UNCHANGED <<orders, coupon>>
      BY <2>4 DEF LoadOrder, tables
    <3>2. CASE Finish(w)
      BY <1>0, <3>1, <3>2, NothingNewReturn
    <3>3. CASE /\ orders[o].status \in Sources(out)
               /\ Hold(w, IF out = "paid" THEN Settling(o) ELSE "write", Copy(o, out))
      <4>1. o \in Orders /\ out \in OrderStatus
        BY <2>4 DEF LoadOrder, Sound, Ready, AtOrder, TypeOK, Local
      <4>2. Copy(o, out) \in Local /\ Copy(o, out).id = o /\ Copy(o, out).outcome = out
        BY <4>1, CopyType DEF Sound
      <4>3. Settling(o) \in {"use", "enroll"}
            /\ (Settling(o) = "enroll" => orders[o].coupon = NoCoupon)
        BY DEF Settling
      <4>4. out = "refunded" => Settled(o)
        BY <3>3 DEF Settled, Sources
      <4> HIDE DEF o, out
      <4>5. CASE out = "paid"
        BY <1>0, <3>1, <3>3, <4>2, <4>3, <4>5, NothingNewRead
      <4>6. CASE out # "paid"
        BY <1>0, <3>1, <3>3, <4>2, <4>4, <4>6, NothingNewRead
      <4> QED
        BY <4>5, <4>6
    <3> QED
      BY <2>4, <3>2, <3>3 DEF LoadOrder
  <2>5. CASE CountUse(w)
    BY <2>5, CountUseCounted
  <2>6. CASE EnrollBuyer(w)
    <3> DEFINE r == [loc[w] EXCEPT !.linked = TRUE]
    <3>1. UNCHANGED <<orders, coupon>> /\ pc[w] = "enroll"
      BY <2>6 DEF EnrollBuyer
    <3>2. loc[w] \in Local
      BY DEF Sound, TypeOK
    <3>3. r \in Local /\ r.id = loc[w].id
      BY <3>2 DEF Local
    <3>4. CASE Finish(w)
      BY <1>0, <3>1, <3>4, NothingNewReturn
    <3>5. CASE Hold(w, "write", r)
      <4> HIDE DEF r
      <4> QED
        BY <1>0, <3>1, <3>3, <3>5, NothingNewRead DEF Owing
    <3> QED
      BY <2>6, <3>4, <3>5 DEF EnrollBuyer
  <2> QED
    BY <1>2, <2>1, <2>2, <2>3, <2>4, <2>5, <2>6 DEF Step
<1>3. ASSUME NEW w \in Workers, Abort(w) PROVE UsesCounted'
  BY <1>0, <1>3, NothingNewReturn DEF Abort, tables
<1>4. CASE Environment
  <2>1. orders' = orders /\ pc' = pc /\ loc' = loc
    BY <1>4 DEF Environment, CreateCoupon, ExpireCoupon, RevokeCoupon, ChangeEnrollment
  <2>2. Quiet
    BY <2>1 DEF Counted, Settled, Owing, Bought
  <2>3. \A c \in Coupons : coupon[c].uses \in Nat
    BY DEF Sound, TypeOK, Coupon
  <2>4. ASSUME NEW c \in Coupons, NEW n \in UseLimits, CreateCoupon(c, n)
        PROVE  UsesCounted'
    <3>1. Counted(c) = {}
      <4>1. coupon[c].status = "absent" /\ c # NoCoupon
        BY <2>4, NullsAssumption DEF CreateCoupon
      <4> QED
        BY <4>1 DEF Counted, Sound, RowsSound
    <3>2. \A d \in Coupons \ {c} : coupon'[d] = coupon[d]
      BY <2>4 DEF CreateCoupon, Sound, TypeOK
    <3> QED
      BY <2>2, <2>3, <3>1, <3>2, QuietCounted
  <2>5. ASSUME NEW c \in Coupons, ExpireCoupon(c) \/ RevokeCoupon(c)
        PROVE  UsesCounted'
    <3>1. \A d \in Coupons : coupon'[d].uses = coupon[d].uses
      BY <2>5 DEF ExpireCoupon, RevokeCoupon, Sound, TypeOK, Coupon
    <3> QED
      BY <2>2, <2>3, <3>1, QuietCounted
  <2>6. ASSUME NEW b \in Buyers, ChangeEnrollment(b) PROVE UsesCounted'
    BY <1>0, <2>2, <2>6 DEF ChangeEnrollment
  <2> QED
    BY <1>4, <2>4, <2>5, <2>6 DEF Environment
<1>5. CASE UNCHANGED vars
  <2>1. orders' = orders /\ coupon' = coupon /\ pc' = pc /\ loc' = loc
    BY <1>5 DEF vars
  <2>2. Quiet
    BY <2>1 DEF Counted, Settled, Owing, Bought
  <2> QED
    BY <1>0, <2>1, <2>2
<1> QED
  BY <1>1, <1>2, <1>3, <1>4, <1>5 DEF Next

\* No payment escapes uses_count, however requests interleave and wherever they
\* stop between IncrementUses and UpdateStatus.
THEOREM PaymentsAreCounted == Spec => []UsesCoverPayments
<1>1. Init => UsesCounted
  <2> SUFFICES ASSUME Init PROVE UsesCounted
    OBVIOUS
  <2>1. \A c \in Coupons : Counted(c) = {} /\ coupon[c].uses = 0
    BY DEF Init, Counted, Settled, Owing, Bought, NoRow
  <2> QED
    BY <2>1, FS_EmptySet DEF UsesCounted
<1>2. Sound /\ UsesCounted => UsesCoverPayments
  <2> SUFFICES ASSUME Sound, UsesCounted, NEW c \in Coupons
               PROVE  Cardinality(Redeemed(c)) <= coupon[c].uses
    BY DEF UsesCoverPayments
  <2>1. Redeemed(c) \subseteq Counted(c)
    BY DEF Redeemed, Counted, Settled
  <2>2. IsFiniteSet(Counted(c))
    BY OrdersAssumption, FS_Subset DEF Counted
  <2>3. /\ Cardinality(Redeemed(c)) <= Cardinality(Counted(c))
        /\ Cardinality(Redeemed(c)) \in Nat /\ Cardinality(Counted(c)) \in Nat
    BY <2>1, <2>2, FS_Subset, FS_CardinalityType
  <2>4. Cardinality(Counted(c)) <= coupon[c].uses /\ coupon[c].uses \in Nat
    BY DEF UsesCounted, Sound, TypeOK, Coupon
  <2> QED
    BY <2>3, <2>4
<1> QED
  BY <1>1, <1>2, SoundInit, SoundNext, CountedNext, PTL DEF Spec
-------------------------------------------------------------------------------
(* One request at a time: the service keeps the order book, and what a     *)
(* recorded event reports is done                                          *)

\* The payment of o is being applied.
Applying(label, l, o) ==
    label \in {"load", "use", "enroll", "write"} /\ l.id = o /\ l.outcome = "paid"

\* The row a request works on is as it was read.
StillAsRead(label, l) ==
    /\ label = "ref" => orders[l.id].status = "pending"
    /\ label \in {"use", "enroll", "write"} => orders[l.id].status \in Sources(l.outcome)

EventsApplied(label, l) ==
    \A e \in recorded :
        /\ orders[e.order].status # "absent"
        /\ e.outcome = "paid" =>
              orders[e.order].status # "pending" \/ Applying(label, l, e.order)

\* A coupon nobody has created counts nothing.
CouponsFresh == \A c \in Coupons : coupon[c].status = "absent" => coupon[c].uses = 0

SerialSound(w) ==
    StillAsRead(pc[w], loc[w]) /\ EventsApplied(pc[w], loc[w]) /\ CouponsFresh

\* Whether the use of c that a request has counted belongs to an order not paid yet.
Owed(label, l, c) ==
    IF label \in {"enroll", "write"} /\ l.outcome = "paid" /\ orders[l.id].coupon = c
    THEN 1 ELSE 0

LEMMA OnlyWorker ==
    ASSUME Cardinality(Workers) = 1, IsFiniteSet(Workers)
    PROVE  \E w \in Workers : Workers = {w}
BY FS_Singleton

\* The uses the book shows.
LEMMA UsesShown ==
    ASSUME NEW w, Workers = {w}, NEW c
    PROVE  /\ Cardinality(InFlight(c)) = Owed(pc[w], loc[w], c)
           /\ Cardinality(InFlight(c))' = Owed(pc[w], loc[w], c)'
<1>1. Cardinality({}) = 0 /\ Cardinality({w}) = 1
  BY FS_EmptySet, FS_Singleton
<1>2. Cardinality(InFlight(c)) = Owed(pc[w], loc[w], c)
  <2>1. CASE /\ pc[w] \in {"enroll", "write"} /\ loc[w].outcome = "paid"
             /\ orders[loc[w].id].coupon = c
    <3>1. InFlight(c) = {w}
      BY <2>1 DEF InFlight
    <3> QED
      BY <1>1, <2>1, <3>1 DEF Owed
  <2>2. CASE ~(/\ pc[w] \in {"enroll", "write"} /\ loc[w].outcome = "paid"
               /\ orders[loc[w].id].coupon = c)
    <3>1. InFlight(c) = {}
      BY <2>2 DEF InFlight
    <3> QED
      BY <1>1, <2>2, <3>1 DEF Owed
  <2> QED
    BY <2>1, <2>2
<1>3. Cardinality(InFlight(c))' = Owed(pc[w], loc[w], c)'
  <2>1. CASE /\ pc'[w] \in {"enroll", "write"} /\ loc'[w].outcome = "paid"
             /\ orders'[loc'[w].id].coupon = c
    <3>1. InFlight(c)' = {w}
      BY <2>1 DEF InFlight
    <3> QED
      BY <1>1, <2>1, <3>1 DEF Owed
  <2>2. CASE ~(/\ pc'[w] \in {"enroll", "write"} /\ loc'[w].outcome = "paid"
               /\ orders'[loc'[w].id].coupon = c)
    <3>1. InFlight(c)' = {}
      BY <2>2 DEF InFlight
    <3> QED
      BY <1>1, <2>2, <3>1 DEF Owed
  <2> QED
    BY <2>1, <2>2
<1> QED
  BY <1>2, <1>3

\* A step the book does not show.
LEMMA BookStays ==
    ASSUME NEW w, Workers = {w},
           \A o \in Orders : /\ orders'[o].status = orders[o].status
                             /\ orders'[o].coupon = orders[o].coupon,
           \A c \in Coupons : coupon'[c].uses - Owed(pc[w], loc[w], c)'
                                = coupon[c].uses - Owed(pc[w], loc[w], c)
    PROVE  UNCHANGED Book!book
<1>1. \A c \in Coupons : (coupon[c].uses - Cardinality(InFlight(c)))'
                            = coupon[c].uses - Cardinality(InFlight(c))
  BY UsesShown
<1> QED
  BY <1>1 DEF Book!book

\* A request goes on, and no table changes.
LEMMA SerialRead ==
    ASSUME Sound, NEW w, Workers = {w}, SerialSound(w),
           NEW label \in Label, NEW l \in Local, Hold(w, label, l), UNCHANGED tables,
           StillAsRead(label, l),
           \A o \in Orders : Applying(pc[w], loc[w], o) => orders[o].status # "pending"
                                                           \/ Applying(label, l, o),
           \A c \in Coupons : Owed(label, l, c) = Owed(pc[w], loc[w], c)
    PROVE  SerialSound(w)' /\ UNCHANGED Book!book
<1>1. /\ orders' = orders /\ coupon' = coupon /\ recorded' = recorded
      /\ pc'[w] = label /\ loc'[w] = l
  BY HoldShape DEF tables, Sound
<1>2. \A e \in recorded : e.order \in Orders
  BY DEF Sound, TypeOK, Events
<1>3. EventsApplied(label, l)
  BY <1>2 DEF SerialSound, EventsApplied
<1>4. SerialSound(w)'
  BY <1>1, <1>3 DEF SerialSound, StillAsRead, EventsApplied, CouponsFresh
<1>5. \A c \in Coupons : Owed(pc[w], loc[w], c)' = Owed(pc[w], loc[w], c)
  BY <1>1 DEF Owed
<1>6. UNCHANGED Book!book
  BY <1>1, <1>5, BookStays
<1> QED
  BY <1>4, <1>6

LEMMA SerialReturn ==
    ASSUME Sound, NEW w, Workers = {w}, SerialSound(w), Finish(w), UNCHANGED tables,
           \A o \in Orders : Applying(pc[w], loc[w], o) => orders[o].status # "pending",
           pc[w] \notin {"enroll", "write"}
    PROVE  SerialSound(w)' /\ UNCHANGED Book!book
<1>1. w \in Workers
  OBVIOUS
<1>2. Hold(w, "idle", Blank) /\ "idle" \in Label /\ Blank \in Local
  BY <1>1, FinishShape, BlankType DEF Sound, Label
<1>3. \A c \in Coupons : Owed("idle", Blank, c) = Owed(pc[w], loc[w], c)
  BY DEF Owed
<1> QED
  BY <1>2, <1>3, SerialRead DEF StillAsRead

\* A request that was applying no payment goes on to a statement that applies none.
LEMMA SerialElsewhere ==
    ASSUME Sound, NEW w, Workers = {w}, SerialSound(w),
           NEW label \in Label, NEW l \in Local, Hold(w, label, l), UNCHANGED tables,
           pc[w] \notin {"load", "use", "enroll", "write"},
           label \notin {"ref", "use", "enroll", "write"}
    PROVE  SerialSound(w)' /\ UNCHANGED Book!book
<1>1. \A c \in Coupons : Owed(label, l, c) = Owed(pc[w], loc[w], c)
  BY DEF Owed
<1>2. StillAsRead(label, l) /\ \A o \in Orders : ~Applying(pc[w], loc[w], o)
  BY DEF StillAsRead, Applying
<1> QED
  BY <1>1, <1>2, SerialRead

LEMMA SerialBegin ==
    ASSUME Sound, NEW w, Workers = {w}, SerialSound(w), Begin(w)
    PROVE  SerialSound(w)' /\ UNCHANGED Book!book
<1>1. w \in Workers /\ TypeOK
  BY DEF Sound
<1>2. pc[w] = "idle"
  BY DEF Begin, BeginCheckout, BeginConfirm, BeginRefund, RecordEvent
<1>3. \A o : ~Applying(pc[w], loc[w], o)
  BY <1>2 DEF Applying
<1>4. ASSUME NEW b \in Buyers, NEW k \in Keys \cup {NoKey},
             NEW c \in Coupons \cup {NoCoupon}, NEW p \in Providers,
             BeginCheckout(w, b, k, c, p)
      PROVE  SerialSound(w)' /\ UNCHANGED Book!book
  <2>1. PICK d : d = [status |-> "pending", buyer |-> b, key |-> k,
                      coupon |-> c, provider |-> p, linked |-> FALSE]
    OBVIOUS
  <2>2. PICK l : l = [Blank EXCEPT !.draft = d]
    OBVIOUS
  <2>3. d \in Order
    BY <2>1, OutcomesAssumption DEF Order, OrderStatus
  <2>4. l \in Local
    BY <2>2, <2>3, BlankType DEF Blank, Local
  <2>5. Hold(w, "check", l) /\ UNCHANGED tables
    BY <1>4, <2>1, <2>2 DEF BeginCheckout
  <2> QED
    BY <1>2, <2>4, <2>5, SerialElsewhere DEF Label
<1>5. ASSUME NEW o \in Orders, NEW s \in {"paid", "refunded"}, NEW label,
             label \in {"use", "enroll", "write"},
             label = "enroll" => orders[o].coupon = NoCoupon,
             label = "write" => s # "paid",
             orders[o].status \in Sources(s), Hold(w, label, Copy(o, s)), UNCHANGED tables
      PROVE  SerialSound(w)' /\ UNCHANGED Book!book
  <2>1. PICK l : l = Copy(o, s)
    OBVIOUS
  <2>2. l \in Local /\ l.id = o /\ l.outcome = s
    BY <1>1, <2>1, CopyType DEF OrderStatus
  <2>3. StillAsRead(label, l)
    BY <1>5, <2>2 DEF StillAsRead
  <2>4. \A c \in Coupons : Owed(label, l, c) = 0 /\ Owed(pc[w], loc[w], c) = 0
    BY <1>2, <1>5, <2>2, NullsAssumption DEF Owed
  <2> QED
    BY <1>3, <1>5, <2>1, <2>2, <2>3, <2>4, SerialRead DEF Label
<1>6. ASSUME NEW o \in Orders, BeginConfirm(w, o) PROVE SerialSound(w)' /\ UNCHANGED Book!book
  <2>1. /\ Settling(o) \in {"use", "enroll"}
        /\ Settling(o) = "enroll" => orders[o].coupon = NoCoupon
    BY DEF Settling
  <2>2. orders[o].status \in Sources("paid") /\ Hold(w, Settling(o), Copy(o, "paid"))
        /\ UNCHANGED tables
    BY <1>6 DEF BeginConfirm, Sources
  <2> QED
    BY <1>5, <2>1, <2>2
<1>7. ASSUME NEW o \in Orders, BeginRefund(w, o) PROVE SerialSound(w)' /\ UNCHANGED Book!book
  <2>1. orders[o].status \in Sources("refunded") /\ Hold(w, "write", Copy(o, "refunded"))
        /\ UNCHANGED tables
    BY <1>7 DEF BeginRefund, Sources
  <2> QED
    BY <1>5, <2>1
<1>8. ASSUME NEW e \in Events, RecordEvent(w, e) PROVE SerialSound(w)' /\ UNCHANGED Book!book
  <2>1. PICK l : l = [Blank EXCEPT !.id = e.order, !.outcome = e.outcome]
    OBVIOUS
  <2>2. e.order \in Orders /\ e.outcome \in OrderStatus
    BY OutcomesAssumption DEF Events, OrderStatus
  <2>3. l \in Local /\ l.id = e.order /\ l.outcome = e.outcome
    BY <2>1, <2>2, BlankType DEF Blank, Local
  <2>4. /\ orders' = orders /\ coupon' = coupon /\ recorded' = recorded \cup {e}
        /\ pc'[w] = "load" /\ loc'[w] = l /\ orders[e.order].status # "absent"
    BY <1>1, <1>8, <2>1, <2>3, HoldShape DEF RecordEvent, Label
  <2>5. EventsApplied("load", l)'
    <3>1. Applying("load", l, e.order) \/ e.outcome # "paid"
      BY <2>3 DEF Applying
    <3>2. \A f \in recorded : /\ orders[f.order].status # "absent"
                              /\ f.outcome = "paid" => orders[f.order].status # "pending"
      BY <1>3 DEF SerialSound, EventsApplied
    <3> QED
      BY <2>4, <3>1, <3>2 DEF EventsApplied
  <2>6. SerialSound(w)'
    BY <2>4, <2>5 DEF SerialSound, StillAsRead, EventsApplied, CouponsFresh
  <2>7. \A c \in Coupons : Owed(pc[w], loc[w], c)' = Owed(pc[w], loc[w], c)
    BY <1>2, <2>4 DEF Owed
  <2> QED
    BY <2>4, <2>6, <2>7, BookStays
<1> QED
  BY <1>4, <1>6, <1>7, <1>8 DEF Begin

\* An order gets a status that the book lets it have.
LEMMA BookWrites ==
    ASSUME NEW w, Workers = {w}, NEW o \in Orders, NEW s,
           \/ orders[o].status = "pending" /\ s \in {"paid", "failed", "cancelled"}
           \/ orders[o].status = "paid" /\ s = "refunded",
           DOMAIN orders = Orders,
           orders'[o].status = s, orders'[o].coupon = orders[o].coupon,
           \A x \in Orders \ {o} : orders'[x].status = orders[x].status
                                   /\ orders'[x].coupon = orders[x].coupon,
           \A c \in Coupons : coupon[c].uses \in Int,
           \A c \in Coupons : coupon'[c].uses - Owed(pc[w], loc[w], c)'
                                = IF s = "paid" /\ c = orders[o].coupon
                                  THEN coupon[c].uses - Owed(pc[w], loc[w], c) + 1
                                  ELSE coupon[c].uses - Owed(pc[w], loc[w], c)
    PROVE  Book!Next
<1> DEFINE St == [x \in Orders |-> orders[x].status]
           Co == [x \in Orders |-> orders[x].coupon]
           Us == [c \in Coupons |-> coupon[c].uses - Cardinality(InFlight(c))]
<1>1. St' = [St EXCEPT ![o] = s] /\ Co' = Co
  OBVIOUS
<1>2. Us' = [c \in Coupons |-> IF s = "paid" /\ c = Co[o] THEN Us[c] + 1 ELSE Us[c]]
  BY UsesShown
<1>3. CASE s = "paid"
  <2>1. Book!Pay(o)
    BY <1>1, <1>2, <1>3 DEF Book!Pay
  <2> QED
    BY <2>1 DEF Book!Next
<1>4. CASE s \in {"failed", "cancelled"}
  <2>1. Us' = Us
    BY <1>2, <1>4
  <2>2. Book!Drop(o)
    BY <1>1, <1>4, <2>1 DEF Book!Drop
  <2> QED
    BY <2>2 DEF Book!Next
<1>5. CASE s = "refunded"
  <2>1. Us' = Us
    BY <1>2, <1>5
  <2>2. Book!Refund(o)
    BY <1>1, <1>5, <2>1 DEF Book!Refund
  <2> QED
    BY <2>2 DEF Book!Next
<1> QED
  BY <1>3, <1>4, <1>5

LEMMA SerialCreates ==
    ASSUME Sound, NEW w, Workers = {w}, SerialSound(w), CreateOrder(w)
    PROVE  SerialSound(w)' /\ (Book!Next \/ UNCHANGED Book!book)
<1>1. w \in Workers /\ TypeOK /\ Ready(w) /\ pc[w] = "create"
  BY DEF Sound, CreateOrder
<1>2. PICK d \in Order : d = loc[w].draft
  BY <1>1 DEF TypeOK, Local
<1>3. d.status = "pending" /\ d.coupon \in Coupons \cup {NoCoupon}
  BY <1>1, <1>2 DEF Ready, AtCheckout, Order
<1>4. CASE Finish(w) /\ UNCHANGED orders
  <2>1. UNCHANGED tables
    BY <1>4 DEF CreateOrder, tables
  <2> QED
    BY <1>1, <1>4, <2>1, SerialReturn DEF Applying
<1>5. ASSUME NEW o \in Absent, orders' = [orders EXCEPT ![o] = d],
             Hold(w, "ref", [Blank EXCEPT !.id = o, !.outcome = "pending"])
      PROVE  SerialSound(w)' /\ Book!Next
  <2>1. PICK l : l = [Blank EXCEPT !.id = o, !.outcome = "pending"]
    OBVIOUS
  <2>2. o \in Orders /\ orders[o].status = "absent"
    BY DEF Absent
  <2>3. l \in Local /\ l.id = o /\ l.outcome = "pending"
    BY <2>1, <2>2, BlankType DEF Blank, Local, OrderStatus
  <2>4. pc'[w] = "ref" /\ loc'[w] = l /\ coupon' = coupon /\ recorded' = recorded
    BY <1>1, <1>5, <2>1, <2>3, HoldShape DEF CreateOrder, Label
  <2>5. orders'[o] = d /\ \A x \in Orders \ {o} : orders'[x] = orders[x]
    BY <1>1, <1>5, <2>2 DEF TypeOK
  <2>6. \A e \in recorded : /\ e.order \in Orders /\ e.order # o
                            /\ orders[e.order].status # "absent"
                            /\ e.outcome = "paid" => orders[e.order].status # "pending"
    BY <1>1, <2>2 DEF SerialSound, EventsApplied, Applying, TypeOK, Events
  <2>7. SerialSound(w)'
    BY <1>3, <2>3, <2>4, <2>5, <2>6 DEF SerialSound, StillAsRead, EventsApplied, CouponsFresh
  <2>8. \A c \in Coupons : Owed(pc[w], loc[w], c) = 0 /\ Owed(pc[w], loc[w], c)' = 0
    BY <1>1, <2>4 DEF Owed
  <2> DEFINE St == [x \in Orders |-> orders[x].status]
             Co == [x \in Orders |-> orders[x].coupon]
             Us == [c \in Coupons |-> coupon[c].uses - Cardinality(InFlight(c))]
  <2>9. St' = [St EXCEPT ![o] = "pending"] /\ Co' = [Co EXCEPT ![o] = d.coupon]
    BY <1>3, <2>5
  <2>10. Us' = Us
    BY <2>4, <2>8, UsesShown
  <2>11. Book!Place(o, d.coupon)
    BY <2>2, <2>9, <2>10 DEF Book!Place
  <2> QED
    BY <1>3, <2>2, <2>7, <2>11 DEF Book!Next
<1> QED
  BY <1>1, <1>2, <1>4, <1>5 DEF CreateOrder

\* orders.UpdateStatus: the row has the status it was read with.
LEMMA SerialWrites ==
    ASSUME Sound, NEW w, Workers = {w}, SerialSound(w), WriteStatus(w) \/ SaveProviderRef(w)
    PROVE  SerialSound(w)' /\ (Book!Next \/ UNCHANGED Book!book)
<1>1. w \in Workers /\ TypeOK /\ Ready(w) /\ pc[w] \in {"write", "ref"}
  BY DEF Sound, WriteStatus, SaveProviderRef
<1>2. PICK o \in Orders : o = loc[w].id /\ orders[o].status # "absent"
  BY <1>1 DEF Ready, AtOrder
<1>3. PICK s \in OrderStatus : s = loc[w].outcome
  BY <1>1 DEF TypeOK, Local
<1>4. PICK r : r = Overwritten(w)
  OBVIOUS
<1>5. r \in Order /\ r.status = s /\ r.coupon = orders[o].coupon
  BY <1>1, <1>2, <1>3, <1>4, OverwrittenType
<1>6. /\ orders' = [orders EXCEPT ![o] = r] /\ coupon' = coupon /\ recorded' = recorded
      /\ Finish(w)
  BY <1>2, <1>4 DEF WriteStatus, SaveProviderRef
<1>7. pc'[w] = "idle" /\ loc'[w] = Blank
  BY <1>1, <1>6, FinishShape, HoldShape, BlankType DEF Label
<1>8. orders'[o] = r /\ \A x \in Orders \ {o} : orders'[x] = orders[x]
  BY <1>1, <1>5, <1>6 DEF TypeOK
<1>9. /\ \A x \in Orders \ {o} : orders'[x].status = orders[x].status
                                 /\ orders'[x].coupon = orders[x].coupon
      /\ orders'[o].status = s /\ orders'[o].coupon = orders[o].coupon
  BY <1>5, <1>8
<1>10. /\ \A e \in recorded : e.order \in Orders
       /\ \A c \in Coupons : coupon[c].uses \in Int
  BY <1>1 DEF TypeOK, Events, Coupon
<1>11. \A c \in Coupons : Owed(pc[w], loc[w], c)' = 0
  BY <1>7 DEF Owed
<1>12. CASE pc[w] = "ref"
  <2>1. s = "pending" /\ orders[o].status = "pending"
    BY <1>1, <1>2, <1>3, <1>12 DEF Ready, SerialSound, StillAsRead
  <2>2. \A x \in Orders : /\ orders'[x].status = orders[x].status
                          /\ orders'[x].coupon = orders[x].coupon
    BY <1>9, <2>1
  <2>3. EventsApplied("idle", Blank)'
    BY <1>6, <1>10, <1>12, <2>2 DEF SerialSound, EventsApplied, Applying
  <2>4. SerialSound(w)'
    BY <1>6, <1>7, <2>3 DEF SerialSound, StillAsRead, EventsApplied, CouponsFresh
  <2>5. \A c \in Coupons : Owed(pc[w], loc[w], c) = 0
    BY <1>12 DEF Owed
  <2> QED
    BY <1>6, <1>11, <2>2, <2>4, <2>5, BookStays
<1>13. CASE pc[w] = "write"
  <2>1. orders[o].status \in Sources(s) /\ s \notin {"absent", "pending"}
    BY <1>1, <1>2, <1>3, <1>13 DEF Ready, SerialSound, StillAsRead
  <2>2. EventsApplied("idle", Blank)'
    <3>1. \A e \in recorded : /\ orders'[e.order].status # "absent"
                              /\ e.outcome = "paid" => orders'[e.order].status # "pending"
      BY <1>2, <1>9, <1>10, <2>1 DEF SerialSound, EventsApplied, Applying
    <3> QED
      BY <1>6, <3>1 DEF EventsApplied
  <2>3. SerialSound(w)'
    BY <1>6, <1>7, <2>2 DEF SerialSound, StillAsRead, EventsApplied, CouponsFresh
  <2>4. \A c \in Coupons : Owed(pc[w], loc[w], c) = IF s = "paid" /\ c = orders[o].coupon
                                                    THEN 1 ELSE 0
    BY <1>2, <1>3, <1>13 DEF Owed
  <2>5. \A c \in Coupons : coupon'[c].uses - Owed(pc[w], loc[w], c)'
                             = IF s = "paid" /\ c = orders[o].coupon
                               THEN coupon[c].uses - Owed(pc[w], loc[w], c) + 1
                               ELSE coupon[c].uses - Owed(pc[w], loc[w], c)
    BY <1>6, <1>10, <1>11, <2>4
  <2>6. \/ orders[o].status = "pending" /\ s \in {"paid", "failed", "cancelled"}
        \/ orders[o].status = "paid" /\ s = "refunded"
    BY <1>3, <2>1 DEF Sources, OrderStatus
  <2>7. DOMAIN orders = Orders
    BY <1>1 DEF TypeOK
  <2>8. Book!Next
    BY <1>9, <1>10, <2>5, <2>6, <2>7, BookWrites
  <2> QED
    BY <2>3, <2>8
<1> QED
  BY <1>1, <1>12, <1>13

\* coupons.IncrementUses: the use counted is owed until the order is paid.
LEMMA SerialUse ==
    ASSUME Sound, NEW w, Workers = {w}, SerialSound(w), CountUse(w)
    PROVE  SerialSound(w)' /\ UNCHANGED Book!book
<1>1. w \in Workers /\ TypeOK /\ Ready(w) /\ RowsSound /\ pc[w] = "use"
  BY DEF Sound, CountUse
<1>2. PICK g \in Local : g = loc[w]
  BY <1>1 DEF TypeOK
<1>3. g.id \in Orders /\ g.outcome = "paid" /\ orders[g.id].coupon # NoCoupon
  BY <1>1, <1>2 DEF Ready, AtOrder
<1>4. PICK k \in Coupons : k = orders[g.id].coupon
  BY <1>1, <1>3 DEF TypeOK, Order
<1>5. PICK v \in Coupon : v = coupon[k]
  BY <1>1 DEF TypeOK
<1>6. v.status # "absent" /\ v.uses \in Nat
  BY <1>1, <1>3, <1>4, <1>5 DEF RowsSound, Coupon
<1>7. /\ orders' = orders /\ recorded' = recorded
      /\ coupon' = [coupon EXCEPT ![k] = [v EXCEPT !.uses = @ + 1]]
      /\ Goto(w, "enroll")
  BY <1>2, <1>4, <1>5 DEF CountUse
<1>8. pc'[w] = "enroll" /\ loc'[w] = g
  BY <1>1, <1>2, <1>7, GotoShape, HoldShape DEF Label
<1>9. /\ coupon'[k].uses = v.uses + 1 /\ coupon'[k].status = v.status
      /\ \A c \in Coupons \ {k} : coupon'[c] = coupon[c]
  BY <1>1, <1>5, <1>7 DEF TypeOK, Coupon
<1>10. SerialSound(w)'
  <2>1. CouponsFresh'
    BY <1>6, <1>9 DEF SerialSound, CouponsFresh
  <2>2. StillAsRead("enroll", g)'
    BY <1>1, <1>2, <1>7 DEF SerialSound, StillAsRead
  <2>3. EventsApplied("enroll", g)'
    BY <1>1, <1>2, <1>7 DEF SerialSound, EventsApplied, Applying
  <2> QED
    BY <1>8, <2>1, <2>2, <2>3 DEF SerialSound, StillAsRead, EventsApplied
<1>11. \A c \in Coupons : /\ Owed(pc[w], loc[w], c) = 0
                          /\ Owed(pc[w], loc[w], c)' = IF c = k THEN 1 ELSE 0
  BY <1>1, <1>3, <1>4, <1>7, <1>8 DEF Owed
<1>12. \A c \in Coupons : coupon'[c].uses - Owed(pc[w], loc[w], c)'
                            = coupon[c].uses - Owed(pc[w], loc[w], c)
  BY <1>5, <1>6, <1>9, <1>11
<1> QED
  BY <1>7, <1>10, <1>12, BookStays

LEMMA SerialStep ==
    ASSUME Sound, NEW w, Workers = {w}, SerialSound(w), "refused" \notin SeatOutcomes, Step(w)
    PROVE  SerialSound(w)' /\ (Book!Next \/ UNCHANGED Book!book)
<1>1. w \in Workers /\ TypeOK /\ Ready(w)
  BY DEF Sound
<1>2. PICK g \in Local : g = loc[w]
  BY <1>1 DEF TypeOK
<1>3. CASE CheckEnrolled(w) \/ ReadCoupon(w)
  <2>1. pc[w] \in {"check", "coupon"} /\ UNCHANGED tables
    BY <1>3 DEF CheckEnrolled, ReadCoupon
  <2>2. \/ Finish(w)
        \/ \E label \in {"create", "coupon"} : Goto(w, label)
    BY <1>3 DEF CheckEnrolled, ReadCoupon
  <2>3. \/ Finish(w)
        \/ \E label \in {"create", "coupon"} : Hold(w, label, g)
    BY <1>1, <1>2, <2>2, GotoShape
  <2> QED
    BY <1>2, <2>1, <2>3, SerialReturn, SerialElsewhere DEF Applying, Label
<1>4. CASE LoadOrder(w)
  <2>1. pc[w] = "load" /\ UNCHANGED tables /\ g.id \in Orders
    BY <1>1, <1>2, <1>4 DEF LoadOrder, Ready, AtOrder
  <2>2. \A c \in Coupons : Owed(pc[w], loc[w], c) = 0
    BY <2>1 DEF Owed
  <2>3. CASE orders[g.id].status \notin Sources(g.outcome) /\ Finish(w)
    <3>1. \A o \in Orders : Applying(pc[w], loc[w], o) => orders[o].status # "pending"
      BY <1>2, <2>3 DEF Applying, Sources
    <3> QED
      BY <2>1, <2>3, <3>1, SerialReturn
  <2>4. CASE /\ orders[g.id].status \in Sources(g.outcome)
             /\ Hold(w, IF g.outcome = "paid" THEN Settling(g.id) ELSE "write",
                     Copy(g.id, g.outcome))
    <3>1. PICK label \in {"use", "enroll", "write"} :
              /\ Hold(w, label, Copy(g.id, g.outcome))
              /\ label = "enroll" => orders[g.id].coupon = NoCoupon
              /\ label = "write" => g.outcome # "paid"
      BY <2>4 DEF Settling
    <3>2. PICK l : l = Copy(g.id, g.outcome)
      OBVIOUS
    <3>3. l \in Local /\ l.id = g.id /\ l.outcome = g.outcome
      BY <1>1, <2>1, <3>2, CopyType DEF Local
    <3>4. \A o \in Orders : Applying(pc[w], loc[w], o) => Applying(label, l, o)
      BY <1>2, <3>3 DEF Applying
    <3>5. \A c \in Coupons : Owed(label, l, c) = 0
      BY <3>1, <3>3, NullsAssumption DEF Owed
    <3>6. StillAsRead(label, l)
      BY <2>4, <3>3 DEF StillAsRead
    <3> QED
      BY <2>1, <2>2, <3>1, <3>2, <3>3, <3>4, <3>5, <3>6, SerialRead DEF Label
  <2> QED
    BY <1>2, <1>4, <2>3, <2>4 DEF LoadOrder
<1>5. CASE EnrollBuyer(w)
  <2>1. /\ pc[w] = "enroll" /\ g.id \in Orders /\ g.outcome = "paid"
        /\ orders' = orders /\ coupon' = coupon /\ recorded' = recorded
    BY <1>1, <1>2, <1>5 DEF EnrollBuyer, Ready, AtOrder
  <2>2. PICK l : l = [g EXCEPT !.linked = TRUE]
    OBVIOUS
  <2>3. l \in Local /\ l.id = g.id /\ l.outcome = g.outcome
    BY <2>2 DEF Local
  <2>4. Hold(w, "write", l)
    BY <1>2, <1>5, <2>2 DEF EnrollBuyer
  <2>5. pc'[w] = "write" /\ loc'[w] = l
    BY <1>1, <2>3, <2>4, HoldShape DEF Label
  <2>6. \A c \in Coupons : Owed(pc[w], loc[w], c)' = Owed(pc[w], loc[w], c)
    BY <1>2, <2>1, <2>3, <2>5 DEF Owed
  <2>7. StillAsRead("write", l)' /\ EventsApplied("write", l)'
    BY <1>2, <2>1, <2>3 DEF SerialSound, StillAsRead, EventsApplied, Applying
  <2>8. SerialSound(w)'
    BY <2>1, <2>5, <2>7 DEF SerialSound, StillAsRead, EventsApplied, CouponsFresh
  <2> QED
    BY <2>1, <2>6, <2>8, BookStays
<1> QED
  BY <1>3, <1>4, <1>5, SerialCreates, SerialWrites, SerialUse DEF Step

LEMMA SerialEnvironment ==
    ASSUME Sound, NEW w, Workers = {w}, SerialSound(w), Environment \/ UNCHANGED vars
    PROVE  SerialSound(w)' /\ UNCHANGED Book!book
<1>1. orders' = orders /\ recorded' = recorded /\ pc' = pc /\ loc' = loc
  BY DEF Environment, CreateCoupon, ExpireCoupon, RevokeCoupon, ChangeEnrollment, vars
<1>2. coupon \in [Coupons -> Coupon]
  BY DEF Sound, TypeOK
<1>3. CouponsFresh' /\ \A c \in Coupons : coupon'[c].uses = coupon[c].uses
  <2>1. ASSUME NEW c \in Coupons, NEW n \in UseLimits, CreateCoupon(c, n) PROVE <1>3!:
    BY <1>2, <2>1 DEF CreateCoupon, SerialSound, CouponsFresh
  <2>2. ASSUME NEW c \in Coupons, ExpireCoupon(c) \/ RevokeCoupon(c) PROVE <1>3!:
    BY <1>2, <2>2 DEF ExpireCoupon, RevokeCoupon, SerialSound, CouponsFresh, Coupon
  <2>3. CASE UNCHANGED coupon
    BY <2>3 DEF SerialSound, CouponsFresh
  <2> QED
    BY <2>1, <2>2, <2>3 DEF Environment, ChangeEnrollment, vars
<1>4. \A c \in Coupons : Owed(pc[w], loc[w], c)' = Owed(pc[w], loc[w], c)
  BY <1>1 DEF Owed
<1> QED
  BY <1>1, <1>3, <1>4, BookStays DEF SerialSound, StillAsRead, EventsApplied

LEMMA SerialNext ==
    ASSUME Sound, NEW w, Workers = {w}, SerialSound(w), Failures = FALSE,
           "refused" \notin SeatOutcomes, [Next]_vars
    PROVE  SerialSound(w)' /\ [Book!Next]_(Book!book)
BY SerialBegin, SerialStep, SerialEnvironment DEF Next, Abort

LEMMA SerialInit ==
    ASSUME NEW w, Workers = {w}, Init
    PROVE  SerialSound(w) /\ Book!Init
<1>1. pc[w] = "idle" /\ recorded = {} /\ \A c \in Coupons : coupon[c].uses = 0
  BY DEF Init
<1>2. SerialSound(w)
  BY <1>1 DEF SerialSound, StillAsRead, EventsApplied, CouponsFresh
<1>3. \A c \in Coupons : coupon[c].uses - Cardinality(InFlight(c)) = 0
  <2>1. \A c \in Coupons : Owed(pc[w], loc[w], c) = 0
    BY <1>1 DEF Owed
  <2> QED
    BY <1>1, <2>1, UsesShown
<1>4. \A o \in Orders : orders[o].status = "absent" /\ orders[o].coupon = NoCoupon
  BY DEF Init, NoRow
<1> QED
  BY <1>2, <1>3, <1>4 DEF Book!Init

\* HandleWebhook records an event before it does anything about it (payment.go:206),
\* so that a repetition can be ignored: with one request at a time, none failing and
\* no seat refused, an order whose payment is recorded waits for it no more, for any
\* number of orders, coupons and outcomes.
THEOREM SerialEventsApplied ==
    ASSUME IsFiniteSet(Workers), Cardinality(Workers) = 1, Failures = FALSE,
           "refused" \notin SeatOutcomes
    PROVE  Spec => []RecordedEventsApplied
<1>1. PICK w \in Workers : Workers = {w}
  BY OnlyWorker
<1>2. Init => Sound /\ SerialSound(w)
  BY <1>1, SoundInit, SerialInit
<1>3. Sound /\ SerialSound(w) /\ [Next]_vars => Sound' /\ SerialSound(w)'
  BY <1>1, SoundNext, SerialNext
<1>4. SerialSound(w) => RecordedEventsApplied
  BY <1>1 DEF SerialSound, EventsApplied, Applying, RecordedEventsApplied, AtRest
<1> QED
  BY <1>2, <1>3, <1>4, PTL DEF Spec

\* applyPaymentSuccess counts the coupon, enrolls and marks the order in three
\* statements (payment.go:368, :373, :380): with one request at a time, none failing
\* and no seat refused, the service keeps the order book, whose orders are paid once and redeem
\* their coupon in that step, for any number of orders, coupons and buyers.
THEOREM OrderBookImplemented ==
    ASSUME IsFiniteSet(Workers), Cardinality(Workers) = 1, Failures = FALSE,
           "refused" \notin SeatOutcomes
    PROVE  Spec => ImplementsOrderBook
<1>1. PICK w \in Workers : Workers = {w}
  BY OnlyWorker
<1>2. Init => Sound /\ SerialSound(w) /\ Book!Init
  BY <1>1, SoundInit, SerialInit
<1>3. Sound /\ SerialSound(w) /\ [Next]_vars => Sound' /\ SerialSound(w)' /\ [Book!Next]_(Book!book)
  BY <1>1, SoundNext, SerialNext
<1> QED
  BY <1>2, <1>3, PTL DEF Spec, ImplementsOrderBook, Book!Spec
===============================================================================
