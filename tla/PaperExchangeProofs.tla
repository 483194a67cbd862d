------------------------ MODULE PaperExchangeProofs ------------------------
(***************************************************************************)
(* What the simulated exchange promises.  In the first part the price may  *)
(* move at any time: nothing is assumed of Ticking, so that orders may be  *)
(* matched twice and positions turned round.  The second part rules out    *)
(* the one moment at which an order is filled twice, and asks what can     *)
(* turn a position round, the price moving inside a forced close.  The     *)
(* third rules out every price move inside a forced close.  What is said   *)
(* of positions assumes BacksExits of the bot.                             *)
(***************************************************************************)
EXTENDS PaperExchange, SumTheorems

\* Every order has the fields of an order.
OrdersShaped ==
  /\ orders = [o \in OrderId |-> orders[o]]
  /\ \A o \in OrderId :
       orders[o] = [st |-> orders[o].st, type |-> orders[o].type,
                    opens |-> orders[o].opens, short |-> orders[o].short,
                    px |-> orders[o].px, qty |-> orders[o].qty,
                    fill |-> orders[o].fill]

\* Limit orders and bars have prices.
Priced ==
  /\ \A o \in OrderId : orders[o].type = "limit" => orders[o].px \in Nat
  /\ bar.low \in Nat /\ bar.high \in Nat /\ price \in Nat

\* The order a forced close is about to fill is its own market order.
ClosesByMarket ==
  closing.step = "sent" =>
    closing.oid \in OrderId /\ orders[closing.oid].type = "market"

PaperInv == OrdersShaped /\ Priced /\ ClosesByMarket /\ LimitHonoured

\* A fill changes an order's status and fill price, and nothing else of the
\* book.
LEMMA FillFacts ==
  ASSUME OrdersShaped, NEW o \in OrderId, NEW px, FillOrder(o, px)
  PROVE  /\ OrdersShaped'
         /\ \A u \in OrderId : u # o => orders'[u] = orders[u]
         /\ orders'[o] = [st |-> "filled", type |-> orders[o].type,
                          opens |-> orders[o].opens, short |-> orders[o].short,
                          px |-> orders[o].px, qty |-> orders[o].qty, fill |-> px]
<1>1. orders' = [orders EXCEPT ![o].st = "filled", ![o].fill = px]
  BY DEF FillOrder
<1>2. \A u \in OrderId : u # o => orders'[u] = orders[u]
  BY <1>1 DEF OrdersShaped
<1>3. orders'[o] = [orders[o] EXCEPT !.st = "filled", !.fill = px]
  BY <1>1 DEF OrdersShaped
<1>4. orders'[o] = [st |-> "filled", type |-> orders[o].type,
                    opens |-> orders[o].opens, short |-> orders[o].short,
                    px |-> orders[o].px, qty |-> orders[o].qty, fill |-> px]
  BY <1>3 DEF OrdersShaped
<1>5. orders' = [u \in OrderId |-> orders'[u]]
  BY <1>1 DEF OrdersShaped
<1> QED
  BY <1>2, <1>4, <1>5 DEF OrdersShaped

\* A limit order the bar has reached trades at its own price or a better one,
\* whichever way the price jumped.
LEMMA FillPxHonours ==
  ASSUME NEW r, NEW b, r.type = "limit", r.px \in Nat, b.low \in Nat, b.high \in Nat
  PROVE  IF Buys(r) THEN FillPx(r, b) <= r.px ELSE FillPx(r, b) >= r.px
<1> DEFINE buy  == Lower(r.px, b.high)
           sell == Higher(r.px, b.low)
<1>1. buy <= r.px /\ sell >= r.px
  BY DEF Lower, Higher
<1>2. FillPx(r, b) = IF Buys(r) THEN buy ELSE sell
  BY Zenon DEF FillPx
<1> HIDE DEF buy, sell
<1>3. CASE Buys(r)
  <2>1. FillPx(r, b) = buy
    BY <1>2, <1>3, Zenon
  <2> QED
    BY <1>1, <1>3, <2>1, Zenon
<1>4. CASE ~Buys(r)
  <2>1. FillPx(r, b) = sell
    BY <1>2, <1>4, Zenon
  <2> QED
    BY <1>1, <1>4, <2>1, Zenon
<1> QED BY <1>3, <1>4, Zenon

\* What LimitHonoured says of one order.
Honoured(r) ==
  r.st = "filled" /\ r.type = "limit" =>
    IF Buys(r) THEN r.fill <= r.px ELSE r.fill >= r.px

\* A step that fills one order, honouring it, keeps the invariant of the book.
LEMMA FillKeeps ==
  ASSUME PaperInv, NEW o \in OrderId, NEW px, FillOrder(o, px),
         orders[o].type = "limit" =>
           IF Buys(orders[o]) THEN px <= orders[o].px ELSE px >= orders[o].px
  PROVE  /\ OrdersShaped' /\ LimitHonoured'
         /\ \A u \in OrderId : orders'[u].type = orders[u].type /\ orders'[u].px = orders[u].px
<1> DEFINE r == orders[o]
           new == [st |-> "filled", type |-> r.type, opens |-> r.opens, short |-> r.short,
                   px |-> r.px, qty |-> r.qty, fill |-> px]
<1>1. /\ OrdersShaped' /\ orders'[o] = new
      /\ \A u \in OrderId : u # o => orders'[u] = orders[u]
  BY FillFacts DEF PaperInv
<1>2. new.type = r.type /\ new.px = r.px /\ new.fill = px
  OBVIOUS
<1>3. Buys(new) <=> Buys(r)
  <2>1. new.opens = r.opens /\ new.short = r.short
    OBVIOUS
  <2> HIDE DEF new, r
  <2> QED
    BY <2>1, Zenon DEF Buys
<1>4. Honoured(new)
  <2> HIDE DEF new
  <2> QED
    BY <1>2, <1>3, Zenon DEF Honoured
<1> HIDE DEF new
<1>5. \A u \in OrderId : Honoured(orders'[u])
  <2> TAKE u \in OrderId
  <2>1. CASE u = o
    BY <1>1, <1>4, <2>1, Zenon
  <2>2. CASE u # o
    <3>1. orders'[u] = orders[u]
      BY <1>1, <2>2, Zenon
    <3>2. Honoured(orders[u])
      BY Zenon DEF PaperInv, LimitHonoured, Honoured
    <3> QED
      BY <3>1, <3>2, Zenon
  <2> QED BY <2>1, <2>2, Zenon
<1>6. LimitHonoured'
  BY <1>5, Zenon DEF LimitHonoured, Honoured, Buys
<1>7. \A u \in OrderId : orders'[u].type = orders[u].type /\ orders'[u].px = orders[u].px
  BY <1>1, <1>2, Zenon
<1> QED
  BY <1>1, <1>6, <1>7, Zenon

\* Replacing one order by a record that is not a filled limit order keeps the
\* book in order.
LEMMA EnterKeeps ==
  ASSUME PaperInv, NEW o \in OrderId, NEW r,
         r = [st |-> r.st, type |-> r.type, opens |-> r.opens, short |-> r.short,
              px |-> r.px, qty |-> r.qty, fill |-> r.fill],
         r.type = "limit" => r.px \in Nat /\ r.st # "filled",
         orders' = [orders EXCEPT ![o] = r]
  PROVE  /\ OrdersShaped' /\ LimitHonoured'
         /\ \A u \in OrderId : orders'[u].type = "limit" => orders'[u].px \in Nat
         /\ orders'[o] = r /\ \A u \in OrderId : u # o => orders'[u] = orders[u]
<1>1. orders'[o] = r /\ \A u \in OrderId : u # o => orders'[u] = orders[u]
  BY DEF PaperInv, OrdersShaped
<1>2. orders' = [u \in OrderId |-> orders'[u]]
  BY DEF PaperInv, OrdersShaped
<1>3. OrdersShaped'
  BY <1>1, <1>2, Zenon DEF PaperInv, OrdersShaped
<1>4. Honoured(r)
  BY Zenon DEF Honoured
<1>5. \A u \in OrderId : Honoured(orders[u])
  BY Zenon DEF PaperInv, LimitHonoured, Honoured
<1>6. \A u \in OrderId : Honoured(orders'[u])
  BY <1>1, <1>4, <1>5, Zenon
<1>7. LimitHonoured'
  BY <1>6, Zenon DEF LimitHonoured, Honoured
<1>8. \A u \in OrderId : orders'[u].type = "limit" => orders'[u].px \in Nat
  BY <1>1, Zenon DEF PaperInv, Priced
<1> QED
  BY <1>1, <1>3, <1>7, <1>8, Zenon

\* Cancelling leaves a filled order alone.
LEMMA CancelKeeps ==
  ASSUME PaperInv, NEW o \in OrderId, orders' = Canceled(o)
  PROVE  /\ OrdersShaped' /\ LimitHonoured'
         /\ \A u \in OrderId : orders'[u].type = orders[u].type /\ orders'[u].px = orders[u].px
<1> DEFINE q   == orders[o]
           st  == IF q.st = "new" THEN "canceled" ELSE q.st
           new == [st |-> st, type |-> q.type, opens |-> q.opens, short |-> q.short,
                   px |-> q.px, qty |-> q.qty, fill |-> q.fill]
<1>1. orders' = [orders EXCEPT ![o].st = st]
  BY Zenon DEF Canceled
<1>2. \A u \in OrderId : u # o => orders'[u] = orders[u]
  BY <1>1 DEF PaperInv, OrdersShaped
<1>3. orders'[o] = new
  <2>1. orders'[o] = [q EXCEPT !.st = st]
    BY <1>1 DEF PaperInv, OrdersShaped
  <2> HIDE DEF st
  <2> QED
    BY <2>1 DEF PaperInv, OrdersShaped
<1>4. orders' = [u \in OrderId |-> orders'[u]]
  <2> HIDE DEF st
  <2> QED
    BY <1>1 DEF PaperInv, OrdersShaped
<1>5. CASE q.st = "new"
  <2>1. new = [st |-> "canceled", type |-> q.type, opens |-> q.opens, short |-> q.short,
               px |-> q.px, qty |-> q.qty, fill |-> q.fill]
    BY <1>5
  <2>2. new = [st |-> new.st, type |-> new.type, opens |-> new.opens, short |-> new.short,
               px |-> new.px, qty |-> new.qty, fill |-> new.fill]
        /\ new.st # "filled" /\ new.type = q.type /\ new.px = q.px
    BY <2>1
  <2> HIDE DEF new
  <2>3. new.type = "limit" => new.px \in Nat /\ new.st # "filled"
    BY <2>2, Zenon DEF PaperInv, Priced
  <2>4. orders' = [orders EXCEPT ![o] = new]
    BY <1>2, <1>3, <1>4 DEF PaperInv, OrdersShaped
  <2>5. OrdersShaped' /\ LimitHonoured'
    BY <2>2, <2>3, <2>4, EnterKeeps, Zenon
  <2> QED
    BY <1>2, <1>3, <2>2, <2>5, Zenon
<1>6. CASE q.st # "new"
  <2>1. new = q
    BY <1>6 DEF PaperInv, OrdersShaped
  <2> HIDE DEF new
  <2>2. \A u \in OrderId : orders'[u] = orders[u]
    BY <1>2, <1>3, <2>1, Zenon
  <2>3. OrdersShaped'
    BY <1>4, <2>2, Zenon DEF PaperInv, OrdersShaped
  <2>4. LimitHonoured'
    BY <2>2, Zenon DEF PaperInv, LimitHonoured
  <2> QED
    BY <2>2, <2>3, <2>4, Zenon
<1> QED BY <1>5, <1>6, Zenon

-----------------------------------------------------------------------------
(* The steps                                                               *)

LEMMA PriceMoveKeeps == ASSUME PaperInv, NEW p \in Prices, PriceMove(p) PROVE PaperInv'
<1>1. p \in Nat
  BY PaperExchangeAssumption
<1>2. price' \in Nat /\ bar'.low \in Nat /\ bar'.high \in Nat
  BY <1>1 DEF PriceMove, PaperInv, Priced, Lower, Higher
<1>3. UNCHANGED <<orders, closing>>
  BY DEF PriceMove
<1> QED
  BY <1>2, <1>3 DEF PaperInv, OrdersShaped, Priced, ClosesByMarket, LimitHonoured

LEMMA MatchKeeps == ASSUME PaperInv, NEW o \in OrderId, MatchOrder(o) PROVE PaperInv'
<1>1. bar' = [bar EXCEPT !.todo = @ \ {o}] /\ UNCHANGED <<price, closing>>
  BY DEF MatchOrder
<1>2. bar'.low = bar.low /\ bar'.high = bar.high
  BY <1>1
<1>3. CASE Trades(o)
  <2> DEFINE px == FillPx(orders[o], bar)
  <2>1. FillOrder(o, px)
    BY <1>3, Zenon DEF MatchOrder
  <2>2. ASSUME orders[o].type = "limit"
        PROVE  IF Buys(orders[o]) THEN px <= orders[o].px ELSE px >= orders[o].px
    <3>1. orders[o].px \in Nat /\ bar.low \in Nat /\ bar.high \in Nat
      BY <2>2, Zenon DEF PaperInv, Priced
    <3> QED
      BY <2>2, <3>1, FillPxHonours, Zenon
  <2> HIDE DEF px
  <2>3. /\ OrdersShaped' /\ LimitHonoured'
        /\ \A u \in OrderId : orders'[u].type = orders[u].type /\ orders'[u].px = orders[u].px
    BY <2>1, <2>2, FillKeeps, Zenon
  <2> QED
    BY <1>1, <1>2, <2>3, Zenon DEF PaperInv, Priced, ClosesByMarket
<1>4. CASE ~Trades(o)
  <2>1. orders' = orders
    BY <1>4, Zenon DEF MatchOrder
  <2> QED
    BY <1>1, <1>2, <2>1, Zenon DEF PaperInv, OrdersShaped, Priced, ClosesByMarket, LimitHonoured
<1> QED BY <1>3, <1>4

LEMMA BarDoneKeeps == ASSUME PaperInv, BarDone PROVE PaperInv'
<1>1. bar'.low = 0 /\ bar'.high = 0
  BY DEF BarDone, NoBar, NoPx
<1>2. UNCHANGED <<price, orders, closing>>
  BY DEF BarDone
<1> QED
  BY <1>1, <1>2 DEF PaperInv, OrdersShaped, Priced, ClosesByMarket, LimitHonoured

LEMMA PlaceLimitKeeps ==
  ASSUME PaperInv, NEW opens, NEW short, NEW px \in Prices, NEW qty,
         PlaceLimit(opens, short, px, qty)
  PROVE  PaperInv'
<1> DEFINE r == [st |-> "new", type |-> "limit", opens |-> opens, short |-> short,
                 px |-> px, qty |-> qty, fill |-> NoPx]
<1>1. PICK o \in OrderId : orders' = [orders EXCEPT ![o] = r]
  BY DEF PlaceLimit
<1>2. closing.step = "none" /\ UNCHANGED <<price, bar, closing>>
  BY DEF PlaceLimit
<1>3. px \in Nat
  BY PaperExchangeAssumption
<1>4. r = [st |-> r.st, type |-> r.type, opens |-> r.opens, short |-> r.short,
           px |-> r.px, qty |-> r.qty, fill |-> r.fill]
      /\ r.st # "filled" /\ r.px \in Nat
  BY <1>3
<1> HIDE DEF r
<1>5. /\ OrdersShaped' /\ LimitHonoured'
      /\ \A u \in OrderId : orders'[u].type = "limit" => orders'[u].px \in Nat
  BY <1>1, <1>4, EnterKeeps, Zenon
<1>6. ClosesByMarket'
  BY <1>2 DEF ClosesByMarket
<1> QED
  BY <1>2, <1>5, <1>6 DEF PaperInv, Priced

LEMMA CancelOrderKeeps == ASSUME PaperInv, NEW o \in OrderId, CancelOrder(o) PROVE PaperInv'
<1>1. orders' = Canceled(o) /\ UNCHANGED <<price, bar, closing>>
  BY DEF CancelOrder
<1>2. /\ OrdersShaped' /\ LimitHonoured'
      /\ \A u \in OrderId : orders'[u].type = orders[u].type /\ orders'[u].px = orders[u].px
  BY <1>1, CancelKeeps, Zenon
<1> QED
  BY <1>1, <1>2, Zenon DEF PaperInv, Priced, ClosesByMarket

LEMMA CloseReadKeeps == ASSUME PaperInv, NEW short, CloseRead(short) PROVE PaperInv'
<1>1. closing' = [NotClosing EXCEPT !.step = "read", !.short = short, !.qty = pos[short].qty]
      /\ UNCHANGED <<price, bar, orders>>
  BY DEF CloseRead
<1>2. closing'.step = "read"
  BY <1>1 DEF NotClosing
<1> QED
  BY <1>1, <1>2 DEF PaperInv, OrdersShaped, Priced, ClosesByMarket, LimitHonoured

LEMMA CloseSendKeeps == ASSUME PaperInv, CloseSend PROVE PaperInv'
<1> DEFINE r == [st |-> "new", type |-> "market", opens |-> FALSE, short |-> closing.short,
                 px |-> NoPx, qty |-> closing.qty, fill |-> NoPx]
<1>1. PICK o \in OrderId : /\ orders' = [orders EXCEPT ![o] = r]
                           /\ closing' = [closing EXCEPT !.step = "sent", !.oid = o, !.px = price]
  BY DEF CloseSend
<1>2. closing.step = "read" /\ UNCHANGED <<price, bar>>
  BY DEF CloseSend
<1>3. r = [st |-> r.st, type |-> r.type, opens |-> r.opens, short |-> r.short,
           px |-> r.px, qty |-> r.qty, fill |-> r.fill]
      /\ r.type = "market"
  OBVIOUS
<1> HIDE DEF r
<1>4. r.type # "limit"
  BY <1>3
<1>5. /\ OrdersShaped' /\ LimitHonoured' /\ orders'[o] = r
      /\ \A u \in OrderId : orders'[u].type = "limit" => orders'[u].px \in Nat
  BY <1>1, <1>3, <1>4, EnterKeeps, Zenon
<1>6. closing'.oid = o \/ closing'.step # "sent"
  BY <1>1
<1>7. ClosesByMarket'
  BY <1>3, <1>5, <1>6, Zenon DEF ClosesByMarket
<1> QED
  BY <1>2, <1>5, <1>7 DEF PaperInv, Priced

LEMMA CloseFillKeeps == ASSUME PaperInv, CloseFill PROVE PaperInv'
<1>1. closing.step = "sent" /\ FillOrder(closing.oid, closing.px)
      /\ closing' = [closing EXCEPT !.step = "closed"] /\ UNCHANGED <<price, bar>>
  BY DEF CloseFill
<1>2. closing.oid \in OrderId /\ orders[closing.oid].type # "limit"
  BY <1>1 DEF PaperInv, ClosesByMarket
<1>3. /\ OrdersShaped' /\ LimitHonoured'
      /\ \A u \in OrderId : orders'[u].type = orders[u].type /\ orders'[u].px = orders[u].px
  BY <1>1, <1>2, FillKeeps, Zenon
<1>4. closing'.step # "sent"
  BY <1>1
<1> QED
  BY <1>1, <1>3, <1>4, Zenon DEF PaperInv, Priced, ClosesByMarket

LEMMA CloseResetKeeps == ASSUME PaperInv, CloseReset PROVE PaperInv'
<1>1. closing.step = "closed" /\ UNCHANGED <<price, pos, bar, opened, turned>>
  BY DEF CloseReset
<1>2. CASE closing' = NotClosing /\ UNCHANGED orders
  <2>1. closing'.step # "sent"
    BY <1>2 DEF NotClosing
  <2> QED
    BY <1>1, <1>2, <2>1 DEF PaperInv, OrdersShaped, Priced, ClosesByMarket, LimitHonoured
<1>3. CASE closing' = closing /\ \E o \in OrderId : orders' = Canceled(o)
  <2>1. PICK o \in OrderId : orders' = Canceled(o)
    BY <1>3
  <2>2. /\ OrdersShaped' /\ LimitHonoured'
        /\ \A u \in OrderId : orders'[u].type = orders[u].type /\ orders'[u].px = orders[u].px
    BY <2>1, CancelKeeps, Zenon
  <2> QED
    BY <1>1, <1>3, <2>2, Zenon DEF PaperInv, Priced, ClosesByMarket
<1> QED
  BY <1>2, <1>3, Zenon DEF CloseReset, LiveExits

LEMMA PaperInductive == PaperInv /\ [Next]_vars => PaperInv'
<1> SUFFICES ASSUME PaperInv, [Next]_vars PROVE PaperInv'
  OBVIOUS
<1>1. CASE Market
  BY <1>1, PriceMoveKeeps, MatchKeeps, BarDoneKeeps DEF Market
<1>2. CASE Bot
  BY <1>2, PlaceLimitKeeps, CancelOrderKeeps, CloseReadKeeps, CloseSendKeeps,
     CloseFillKeeps, CloseResetKeeps DEF Bot
<1>3. CASE UNCHANGED vars
  BY <1>3 DEF vars, PaperInv, OrdersShaped, Priced, ClosesByMarket, LimitHonoured
<1> QED
  BY <1>1, <1>2, <1>3 DEF Next

LEMMA PaperInit == Init => PaperInv
<1> SUFFICES ASSUME Init PROVE PaperInv
  OBVIOUS
<1>1. \A o \in OrderId : orders[o] = NoOrder
  BY DEF Init
<1>2. orders = [o \in OrderId |-> orders[o]]
  BY DEF Init
<1>3. OrdersShaped
  BY <1>1, <1>2 DEF OrdersShaped, NoOrder
<1>4. price \in Nat
  BY PaperExchangeAssumption DEF Init
<1>5. bar.low = 0 /\ bar.high = 0 /\ closing.step = "none"
  BY DEF Init, NoBar, NotClosing, NoPx
<1>6. \A o \in OrderId : orders[o].px \in Nat /\ orders[o].st = "none"
  BY <1>1 DEF NoOrder, NoPx
<1> QED
  BY <1>3, <1>4, <1>5, <1>6 DEF PaperInv, Priced, ClosesByMarket, LimitHonoured

\* A limit order never trades at a price worse than its own, at any jump of
\* the price, in any matching order, and also when the price moves inside a
\* forced close.
THEOREM LimitsHonoured == Spec => []LimitHonoured
<1>1. PaperInv => LimitHonoured
  BY DEF PaperInv
<1> QED
  BY <1>1, PaperInit, PaperInductive, PTL DEF Spec

-----------------------------------------------------------------------------
(* The book as two sums over the order ids                                 *)

FilledAt(r, short) ==
  IF r.st = "filled" /\ r.short = short THEN IF r.opens THEN r.qty ELSE -r.qty ELSE 0
ClosingAt(r, short) ==
  IF r.st = "new" /\ ~r.opens /\ r.short = short THEN r.qty ELSE 0
FilledSum(os, short)  == SumFunctionOnSet([o \in OrderId |-> FilledAt(os[o], short)], OrderId)
ClosingSum(os, short) == SumFunctionOnSet([o \in OrderId |-> ClosingAt(os[o], short)], OrderId)

LEMMA AtFacts ==
  ASSUME NEW r \in Order, NEW short
  PROVE  FilledAt(r, short) \in Int /\ ClosingAt(r, short) \in Nat
BY DEF Order, FilledAt, ClosingAt

LEMMA OrdersFinite == IsFiniteSet(OrderId)
BY PaperExchangeAssumption, FS_Interval DEF OrderId

LEMMA BookSums ==
  ASSUME NEW os \in [OrderId -> Order], NEW short
  PROVE  FilledSum(os, short) \in Int /\ ClosingSum(os, short) \in Nat
<1> DEFINE f == [o \in OrderId |-> FilledAt(os[o], short)]
           g == [o \in OrderId |-> ClosingAt(os[o], short)]
<1>1. \A o \in OrderId : f[o] \in Int /\ g[o] \in Nat
  BY AtFacts
<1> HIDE DEF f, g
<1>2. SumFunctionOnSet(f, OrderId) \in Int
  BY <1>1, OrdersFinite, SumInt
<1>3. SumFunctionOnSet(g, OrderId) \in Nat
  BY <1>1, OrdersFinite, SumNat
<1> QED BY <1>2, <1>3 DEF FilledSum, ClosingSum, f, g

\* No live closing order is larger than all of them.
LEMMA ClosingOne ==
  ASSUME NEW os \in [OrderId -> Order], NEW short, NEW o \in OrderId
  PROVE  ClosingAt(os[o], short) <= ClosingSum(os, short)
<1> DEFINE g == [u \in OrderId |-> ClosingAt(os[u], short)]
<1>1. (\A u \in OrderId : g[u] \in Nat) /\ g[o] = ClosingAt(os[o], short)
  BY AtFacts
<1> HIDE DEF g
<1>2. g[o] <= SumFunctionOnSet(g, OrderId)
  BY <1>1, OrdersFinite, SumNat
<1> QED BY <1>1, <1>2 DEF ClosingSum, g

LEMMA ClosingNone ==
  ASSUME NEW os, NEW short, \A o \in OrderId : ClosingAt(os[o], short) = 0
  PROVE  ClosingSum(os, short) = 0
<1> DEFINE g == [u \in OrderId |-> ClosingAt(os[u], short)]
<1>1. \A u \in OrderId : g[u] = 0
  OBVIOUS
<1> HIDE DEF g
<1>2. SumFunctionOnSet(g, OrderId) = 0
  BY <1>1, OrdersFinite, SumZero
<1> QED BY <1>2 DEF ClosingSum, g

\* Each sum changes by what changes at the one order that is written.
LEMMA OneOrder ==
  ASSUME NEW os \in [OrderId -> Order], NEW ns \in [OrderId -> Order],
         NEW o \in OrderId, \A u \in OrderId : u # o => ns[u] = os[u], NEW short
  PROVE  /\ FilledSum(ns, short)
              = FilledSum(os, short) - FilledAt(os[o], short) + FilledAt(ns[o], short)
         /\ ClosingSum(ns, short)
              = ClosingSum(os, short) - ClosingAt(os[o], short) + ClosingAt(ns[o], short)
<1> DEFINE f1 == [u \in OrderId |-> FilledAt(os[u], short)]
           f2 == [u \in OrderId |-> FilledAt(ns[u], short)]
           g1 == [u \in OrderId |-> ClosingAt(os[u], short)]
           g2 == [u \in OrderId |-> ClosingAt(ns[u], short)]
<1>2. /\ \A u \in OrderId : f1[u] \in Int
      /\ \A u \in OrderId : u # o => f2[u] = f1[u]
      /\ f1[o] = FilledAt(os[o], short) /\ f2[o] = FilledAt(ns[o], short) /\ f2[o] \in Int
  BY AtFacts
<1>3. /\ \A u \in OrderId : g1[u] \in Int
      /\ \A u \in OrderId : u # o => g2[u] = g1[u]
      /\ g1[o] = ClosingAt(os[o], short) /\ g2[o] = ClosingAt(ns[o], short) /\ g2[o] \in Int
  BY AtFacts
<1> HIDE DEF f1, f2, g1, g2
<1>4. SumFunctionOnSet(f2, OrderId) = SumFunctionOnSet(f1, OrderId) - f1[o] + f2[o]
  BY <1>2, OrdersFinite, SumChange
<1>5. SumFunctionOnSet(g2, OrderId) = SumFunctionOnSet(g1, OrderId) - g1[o] + g2[o]
  BY <1>3, OrdersFinite, SumChange
<1>6. /\ FilledSum(ns, short)
           = FilledSum(os, short) - FilledAt(os[o], short) + FilledAt(ns[o], short)
      /\ ClosingSum(ns, short)
           = ClosingSum(os, short) - ClosingAt(os[o], short) + ClosingAt(ns[o], short)
  BY <1>2, <1>3, <1>4, <1>5 DEF FilledSum, ClosingSum, f1, f2, g1, g2
<1> QED BY <1>6

\* They are the sums the model keeps.
LEMMA SumsAre ==
  ASSUME orders \in [OrderId -> Order], NEW short
  PROVE  /\ Closing(short) = ClosingSum(orders, short)
         /\ SumFunction([o \in FilledOf(short) |->
                           IF orders[o].opens THEN orders[o].qty ELSE -orders[o].qty])
              = FilledSum(orders, short)
<1> DEFINE c == [o \in LiveExits(short) |-> orders[o].qty]
           d == [o \in FilledOf(short) |->
                   IF orders[o].opens THEN orders[o].qty ELSE -orders[o].qty]
           f == [o \in OrderId |-> FilledAt(orders[o], short)]
           g == [o \in OrderId |-> ClosingAt(orders[o], short)]
<1>1. \A o \in OrderId : f[o] \in Int /\ g[o] \in Int
  BY AtFacts
<1>2. /\ LiveExits(short) \subseteq OrderId /\ FilledOf(short) \subseteq OrderId
      /\ DOMAIN c = LiveExits(short) /\ DOMAIN d = FilledOf(short)
  BY DEF LiveExits, FilledOf
<1>3. /\ \A o \in LiveExits(short) : c[o] = g[o]
      /\ \A o \in OrderId : o \notin LiveExits(short) => g[o] = 0
  BY DEF LiveExits, Live, ClosingAt
<1>4. /\ \A o \in FilledOf(short) : d[o] = f[o]
      /\ \A o \in OrderId : o \notin FilledOf(short) => f[o] = 0
  BY DEF FilledOf, FilledAt
<1> HIDE DEF c, d, f, g
<1>5. SumFunctionOnSet(c, LiveExits(short)) = SumFunctionOnSet(g, OrderId)
  BY <1>1, <1>2, <1>3, OrdersFinite, SumPadded
<1>6. SumFunctionOnSet(d, FilledOf(short)) = SumFunctionOnSet(f, OrderId)
  BY <1>1, <1>2, <1>4, OrdersFinite, SumPadded
<1>7. /\ SumFunction(c) = SumFunctionOnSet(c, LiveExits(short))
      /\ SumFunction(d) = SumFunctionOnSet(d, FilledOf(short))
  BY <1>2, SumOver
<1>8. Closing(short) = SumFunction(c)
  BY DEF Closing, c
<1>9. SumFunction(d) = FilledSum(orders, short)
  BY <1>6, <1>7 DEF FilledSum, f
<1>10. Closing(short) = ClosingSum(orders, short)
  BY <1>5, <1>7, <1>8 DEF ClosingSum, g
<1> QED BY <1>9, <1>10 DEF d

-----------------------------------------------------------------------------
(* No order is filled twice unless the price moves between the entering of *)
(* a market order in the book and its fill                                 *)

\* The order of a forced close that is about to be filled is still unfilled:
\* no bar can have matched it.
CloseOrder(r) ==
  r.st = "new" /\ ~r.opens /\ r.short = closing.short /\ r.qty = closing.qty
BookTypes ==
  /\ price \in Prices
  /\ orders \in [OrderId -> Order]
  /\ bar \in [low : Prices \cup {NoPx}, high : Prices \cup {NoPx},
              todo : SUBSET OrderId, on : BOOLEAN]
  /\ closing \in [step : {"none", "read", "sent", "closed"}, short : BOOLEAN,
                  qty : Int, oid : OrderId \cup {0}, px : Prices \cup {NoPx}]
  /\ opened \in [BOOLEAN -> SUBSET Prices] /\ turned \in [BOOLEAN -> BOOLEAN]
  /\ pos = [short \in BOOLEAN |-> [qty |-> pos[short].qty, entry |-> pos[short].entry]]
  /\ \A short \in BOOLEAN : pos[short].qty \in Int
BookInv ==
  /\ BookTypes
  /\ bar.on => bar.low \in Prices /\ bar.high \in Prices /\ MayTick
  /\ \A o \in OrderId :
       orders[o].st # "none" =>
         orders[o].qty > 0 /\ (orders[o].type = "limit" => orders[o].px \in Prices)
  /\ closing.step # "none" => closing.qty > 0
  /\ closing.step = "sent" =>
       closing.oid \in OrderId /\ closing.px \in Prices /\ CloseOrder(orders[closing.oid])
  /\ \A short \in BOOLEAN : pos[short].qty = FilledSum(orders, short)

\* What a fill does, in numbers.
LEMMA FillSums ==
  ASSUME BookInv, NEW o \in OrderId, orders[o].st = "new", NEW px \in Prices, FillOrder(o, px)
  PROVE  LET r == orders[o]
         IN  /\ orders' \in [OrderId -> Order] /\ orders'[o].st = "filled"
             /\ orders'[o].qty = r.qty /\ orders'[o].px = r.px /\ orders'[o].type = r.type
             /\ \A u \in OrderId : u # o => orders'[u] = orders[u]
             /\ pos' = [short \in BOOLEAN |-> [qty |-> pos'[short].qty,
                                               entry |-> pos'[short].entry]]
             /\ opened' \in [BOOLEAN -> SUBSET Prices] /\ turned' \in [BOOLEAN -> BOOLEAN]
             /\ \A short \in BOOLEAN :
                  /\ pos'[short].qty = pos[short].qty + (IF short = r.short THEN Signed(r) ELSE 0)
                  /\ short # r.short => pos'[short] = pos[short] /\ opened'[short] = opened[short]
                  /\ FilledSum(orders', short)
                       = FilledSum(orders, short) + (IF short = r.short THEN Signed(r) ELSE 0)
                  /\ ClosingSum(orders', short)
                       = ClosingSum(orders, short) - ClosingAt(r, short)
<1> DEFINE r == orders[o]
           n == [r EXCEPT !.st = "filled", !.fill = px]
<1>1. /\ orders \in [OrderId -> Order] /\ r \in Order /\ r.st = "new"
      /\ r.short \in BOOLEAN /\ r.qty \in Nat /\ r.opens \in BOOLEAN
  <2>1. orders \in [OrderId -> Order]
    BY DEF BookInv, BookTypes
  <2> QED BY <2>1 DEF Order
<1>2. /\ n \in Order /\ n.st = "filled" /\ n.qty = r.qty /\ n.px = r.px /\ n.type = r.type
      /\ n.opens = r.opens /\ n.short = r.short
  BY <1>1 DEF Order
<1>3. orders' = [orders EXCEPT ![o] = n]
  BY <1>1 DEF FillOrder
<1>4. \A short : /\ FilledAt(r, short) = 0 /\ ClosingAt(n, short) = 0
                 /\ FilledAt(n, short) = (IF short = r.short THEN Signed(r) ELSE 0)
  BY <1>1, <1>2 DEF FilledAt, ClosingAt, Signed
<1> HIDE DEF n, r
<1>5. /\ orders' \in [OrderId -> Order] /\ orders'[o] = n
      /\ \A u \in OrderId : u # o => orders'[u] = orders[u]
  BY <1>1, <1>2, <1>3
<1>6. ASSUME NEW short \in BOOLEAN
      PROVE  /\ FilledSum(orders', short)
                  = FilledSum(orders, short) + (IF short = r.short THEN Signed(r) ELSE 0)
             /\ ClosingSum(orders', short) = ClosingSum(orders, short) - ClosingAt(r, short)
  <2>1. /\ FilledSum(orders', short)
             = FilledSum(orders, short) - FilledAt(orders[o], short) + FilledAt(n, short)
        /\ ClosingSum(orders', short)
             = ClosingSum(orders, short) - ClosingAt(orders[o], short) + ClosingAt(n, short)
    <3>1. orders \in [OrderId -> Order]
      BY <1>1
    <3> QED BY <1>5, <3>1, OneOrder
  <2>2. /\ FilledSum(orders, short) \in Int /\ ClosingSum(orders, short) \in Int
        /\ ClosingAt(r, short) \in Int
    BY <1>1, BookSums, AtFacts
  <2>3. /\ FilledAt(orders[o], short) = 0 /\ ClosingAt(n, short) = 0
        /\ ClosingAt(orders[o], short) = ClosingAt(r, short)
        /\ FilledAt(n, short) = (IF short = r.short THEN Signed(r) ELSE 0)
    BY <1>4 DEF r
  <2>4. Signed(r) \in Int
    BY <1>1 DEF Signed
  <2> QED BY <2>1, <2>2, <2>3, <2>4
<1>7. /\ pos' = [pos EXCEPT ![r.short] = [qty |-> pos[r.short].qty + Signed(r),
                                          entry |-> CostAfter(pos[r.short], Signed(r), px)]]
      /\ opened' = [opened EXCEPT ![r.short] =
                      IF pos[r.short].qty + Signed(r) = 0 THEN {}
                      ELSE IF r.opens THEN opened[r.short] \cup {px} ELSE opened[r.short]]
  BY DEF FillOrder, r
<1>8. /\ opened \in [BOOLEAN -> SUBSET Prices]
      /\ pos = [short \in BOOLEAN |-> [qty |-> pos[short].qty, entry |-> pos[short].entry]]
      /\ \A short \in BOOLEAN : pos[short].qty \in Int
  BY DEF BookInv, BookTypes
<1>9. opened' \in [BOOLEAN -> SUBSET Prices] /\ turned' \in [BOOLEAN -> BOOLEAN]
  <2>1. /\ turned \in [BOOLEAN -> BOOLEAN]
        /\ turned' = [turned EXCEPT ![r.short] =
                        /\ pos[r.short].qty + Signed(r) # 0
                        /\ turned[r.short] \/ pos[r.short].qty + Signed(r) < 0]
    BY DEF BookInv, BookTypes, FillOrder, r
  <2>2. turned' \in [BOOLEAN -> BOOLEAN]
    BY <1>1, <2>1, Zenon
  <2> QED BY <1>1, <1>7, <1>8, <2>2
<1>10. /\ pos' = [short \in BOOLEAN |-> [qty |-> pos'[short].qty, entry |-> pos'[short].entry]]
       /\ \A short \in BOOLEAN : short # r.short => pos'[short] = pos[short]
       /\ pos'[r.short].qty = pos[r.short].qty + Signed(r)
  BY <1>1, <1>7, <1>8
<1>11. \A short \in BOOLEAN : short # r.short => opened'[short] = opened[short]
  BY <1>1, <1>7, <1>8
<1>12. \A short \in BOOLEAN :
         pos'[short].qty = pos[short].qty + (IF short = r.short THEN Signed(r) ELSE 0)
  BY <1>8, <1>10
<1> QED BY <1>2, <1>5, <1>6, <1>9, <1>10, <1>11, <1>12 DEF r

\* Writing an order that is not filled leaves the sum of the filled ones.
LEMMA EnterSums ==
  ASSUME orders \in [OrderId -> Order], orders' \in [OrderId -> Order], NEW o \in OrderId,
         \A u \in OrderId : u # o => orders'[u] = orders[u],
         orders[o].st # "filled", orders'[o].st # "filled", NEW short
  PROVE  /\ FilledSum(orders', short) = FilledSum(orders, short)
         /\ ClosingSum(orders', short)
              = ClosingSum(orders, short) - ClosingAt(orders[o], short)
                + ClosingAt(orders'[o], short)
<1>1. /\ FilledSum(orders', short)
           = FilledSum(orders, short) - FilledAt(orders[o], short) + FilledAt(orders'[o], short)
      /\ ClosingSum(orders', short)
           = ClosingSum(orders, short) - ClosingAt(orders[o], short)
             + ClosingAt(orders'[o], short)
  BY OneOrder
<1>2. FilledAt(orders[o], short) = 0 /\ FilledAt(orders'[o], short) = 0
  BY DEF FilledAt
<1>3. FilledSum(orders, short) \in Int
  BY BookSums
<1> QED BY <1>1, <1>2, <1>3

\* Writing one order of the book.
LEMMA OneWritten ==
  ASSUME orders \in [OrderId -> Order], NEW o \in OrderId, NEW r \in Order,
         orders' = [orders EXCEPT ![o] = r]
  PROVE  /\ orders' \in [OrderId -> Order] /\ orders'[o] = r
         /\ \A u \in OrderId : u # o => orders'[u] = orders[u]
OBVIOUS

LEMMA CanceledIs ==
  ASSUME orders \in [OrderId -> Order], NEW o \in OrderId, Live(o), orders' = Canceled(o)
  PROVE  LET r == [orders[o] EXCEPT !.st = "canceled"]
         IN  /\ r \in Order /\ r.st = "canceled" /\ r.qty = orders[o].qty
             /\ r.type = orders[o].type /\ r.px = orders[o].px
             /\ orders' = [orders EXCEPT ![o] = r]
BY DEF Live, Canceled, Order

\* A match is made at a price of the market.
LEMMA MatchPrice ==
  ASSUME BookInv, bar.on, NEW o \in OrderId, orders[o].st = "new"
  PROVE  FillPx(orders[o], bar) \in Prices
<1>1. orders[o].type = "limit" => orders[o].px \in Prices
  BY DEF BookInv
<1>2. orders[o].type \in {"limit", "market"} /\ price \in Prices
  BY DEF BookInv, BookTypes, Order
<1>3. bar.low \in Prices /\ bar.high \in Prices
  BY DEF BookInv
<1> QED BY <1>1, <1>2, <1>3 DEF FillPx, Lower, Higher

LEMMA InitBook == Init => BookInv
<1> SUFFICES ASSUME Init PROVE BookInv
  OBVIOUS
<1>1. NoOrder \in Order /\ NoOrder.st = "none"
  BY DEF NoOrder, Order
<1>2. orders \in [OrderId -> Order] /\ \A o \in OrderId : orders[o].st = "none"
  BY <1>1 DEF Init
<1>3. \A short \in BOOLEAN : FilledSum(orders, short) = 0
  <2> SUFFICES ASSUME NEW short \in BOOLEAN PROVE FilledSum(orders, short) = 0
    OBVIOUS
  <2> DEFINE f == [o \in OrderId |-> FilledAt(orders[o], short)]
  <2>1. \A o \in OrderId : f[o] = 0
    BY <1>2 DEF FilledAt
  <2> HIDE DEF f
  <2>2. SumFunctionOnSet(f, OrderId) = 0
    BY <2>1, OrdersFinite, SumZero
  <2> QED BY <2>2 DEF FilledSum, f
<1>4. BookTypes
  BY <1>2 DEF Init, BookTypes, NoBar, NotClosing
<1> QED BY <1>2, <1>3, <1>4 DEF Init, BookInv, NoBar, NotClosing

LEMMA NextBook == ASSUME "sent" \notin Ticking PROVE BookInv /\ [Next]_vars => BookInv'
<1> SUFFICES ASSUME BookInv, [Next]_vars PROVE BookInv'
  OBVIOUS
<1>1. /\ BookTypes /\ orders \in [OrderId -> Order]
      /\ \A short \in BOOLEAN : FilledSum(orders, short) \in Int
  BY BookSums DEF BookInv, BookTypes
<1>2. CASE UNCHANGED vars
  BY <1>2 DEF vars, BookInv, BookTypes, CloseOrder, MayTick
<1>3. ASSUME NEW p \in Prices, PriceMove(p) PROVE BookInv'
  <2>1. /\ MayTick /\ price' = p /\ UNCHANGED <<orders, pos, closing, opened, turned>>
        /\ bar'.low \in Prices /\ bar'.high \in Prices
        /\ bar' \in [low : Prices \cup {NoPx}, high : Prices \cup {NoPx},
                     todo : SUBSET OrderId, on : BOOLEAN]
    BY <1>1, <1>3 DEF PriceMove, BookTypes, Lower, Higher
  <2> QED BY <2>1 DEF BookInv, BookTypes, CloseOrder, MayTick
<1>4. ASSUME NEW o \in OrderId, MatchOrder(o) PROVE BookInv'
  <2>1. /\ bar.on /\ bar' = [bar EXCEPT !.todo = @ \ {o}] /\ UNCHANGED <<price, closing>>
    BY <1>4 DEF MatchOrder
  <2>2. /\ bar'.low = bar.low /\ bar'.high = bar.high /\ bar'.on = bar.on
        /\ bar' \in [low : Prices \cup {NoPx}, high : Prices \cup {NoPx},
                     todo : SUBSET OrderId, on : BOOLEAN]
    BY <1>1, <2>1 DEF BookTypes
  <2>3. closing.step # "sent"
    BY <2>1 DEF BookInv, MayTick
  <2>4. CASE Trades(o)
    <3> DEFINE px == FillPx(orders[o], bar)
    <3>1. FillOrder(o, px) /\ orders[o].st = "new"
      BY <1>4, <2>4 DEF MatchOrder, Trades, Live
    <3>2. px \in Prices
      BY <2>1, <3>1, MatchPrice
    <3> HIDE DEF px
    <3>3. /\ orders' \in [OrderId -> Order] /\ orders'[o].st = "filled"
          /\ orders'[o].qty = orders[o].qty /\ orders'[o].px = orders[o].px
          /\ orders'[o].type = orders[o].type
          /\ \A u \in OrderId : u # o => orders'[u] = orders[u]
          /\ pos' = [short \in BOOLEAN |-> [qty |-> pos'[short].qty,
                                            entry |-> pos'[short].entry]]
          /\ opened' \in [BOOLEAN -> SUBSET Prices] /\ turned' \in [BOOLEAN -> BOOLEAN]
      BY <3>1, <3>2, FillSums
    <3>4. \A short \in BOOLEAN :
            pos'[short].qty \in Int /\ pos'[short].qty = FilledSum(orders', short)
      <4>1. \A short \in BOOLEAN : pos[short].qty = FilledSum(orders, short)
        BY DEF BookInv
      <4>2. Signed(orders[o]) \in Int
        BY <1>1 DEF Signed, Order
      <4> QED BY <1>1, <3>1, <3>2, <4>1, <4>2, FillSums
    <3>5. BookTypes'
      BY <1>1, <2>1, <2>2, <3>3, <3>4 DEF BookTypes
    <3>6. \A u \in OrderId :
            orders'[u].st # "none" =>
              orders'[u].qty > 0 /\ (orders'[u].type = "limit" => orders'[u].px \in Prices)
      BY <3>1, <3>3 DEF BookInv
    <3> QED BY <2>1, <2>2, <2>3, <3>4, <3>5, <3>6 DEF BookInv, MayTick
  <2>5. CASE ~Trades(o)
    <3>1. UNCHANGED <<orders, pos, opened, turned>>
      BY <1>4, <2>5 DEF MatchOrder
    <3> QED BY <2>1, <2>2, <3>1 DEF BookInv, BookTypes, CloseOrder, MayTick
  <2> QED BY <2>4, <2>5
<1>5. CASE BarDone
  <2>1. bar' = NoBar /\ UNCHANGED <<price, orders, pos, closing, opened, turned>>
    BY <1>5 DEF BarDone
  <2>2. /\ NoBar.on = FALSE
        /\ NoBar \in [low : Prices \cup {NoPx}, high : Prices \cup {NoPx},
                      todo : SUBSET OrderId, on : BOOLEAN]
    BY DEF NoBar
  <2> QED BY <2>1, <2>2 DEF BookInv, BookTypes, CloseOrder
<1>6. ASSUME NEW opens \in BOOLEAN, NEW short \in BOOLEAN, NEW px \in Prices, NEW qty \in Qtys,
             PlaceLimit(opens, short, px, qty)
      PROVE  BookInv'
  <2> DEFINE r == [st |-> "new", type |-> "limit", opens |-> opens, short |-> short,
                   px |-> px, qty |-> qty, fill |-> NoPx]
  <2>1. PICK o \in OrderId : orders[o].st = "none" /\ orders' = [orders EXCEPT ![o] = r]
    BY <1>6 DEF PlaceLimit, IsNextId
  <2>2. /\ r \in Order /\ r.st = "new" /\ r.qty > 0 /\ r.px \in Prices
    <3>1. qty \in Nat /\ qty > 0
      BY PaperExchangeAssumption
    <3> QED BY <3>1 DEF Order
  <2>3. ~bar.on /\ closing.step = "none" /\ UNCHANGED <<price, pos, bar, closing, opened, turned>>
    BY <1>6 DEF PlaceLimit
  <2> HIDE DEF r
  <2>4. /\ orders' \in [OrderId -> Order] /\ orders'[o] = r
        /\ \A u \in OrderId : u # o => orders'[u] = orders[u]
    BY <1>1, <2>1, <2>2, OneWritten
  <2>5. \A sh \in BOOLEAN : FilledSum(orders', sh) = FilledSum(orders, sh)
    <3>1. orders[o].st # "filled" /\ orders'[o].st # "filled"
      BY <2>1, <2>2, <2>4
    <3> QED BY <1>1, <2>4, <3>1, EnterSums
  <2> QED BY <2>2, <2>3, <2>4, <2>5 DEF BookInv, BookTypes
<1>7. ASSUME NEW o \in OrderId, Live(o), orders' = Canceled(o), ~bar.on,
             closing.step # "sent", UNCHANGED <<price, pos, bar, closing, opened, turned>>
      PROVE  BookInv'
  <2> DEFINE r == [orders[o] EXCEPT !.st = "canceled"]
  <2>1. /\ r \in Order /\ r.st = "canceled" /\ r.qty = orders[o].qty
        /\ r.type = orders[o].type /\ r.px = orders[o].px
        /\ orders' = [orders EXCEPT ![o] = r]
    BY <1>1, <1>7, CanceledIs
  <2> HIDE DEF r
  <2>2. /\ orders' \in [OrderId -> Order] /\ orders'[o] = r
        /\ \A u \in OrderId : u # o => orders'[u] = orders[u]
    BY <1>1, <2>1, OneWritten
  <2>3. \A sh \in BOOLEAN : FilledSum(orders', sh) = FilledSum(orders, sh)
    <3>1. orders[o].st # "filled" /\ orders'[o].st # "filled"
      BY <1>7, <2>1, <2>2 DEF Live
    <3> QED BY <1>1, <2>2, <3>1, EnterSums
  <2> QED BY <1>7, <2>1, <2>2, <2>3 DEF BookInv, BookTypes, Live
<1>8. ASSUME NEW o \in OrderId, CancelOrder(o) PROVE BookInv'
  BY <1>7, <1>8 DEF CancelOrder
<1>9. ASSUME NEW short \in BOOLEAN, CloseRead(short) PROVE BookInv'
  <2>1. /\ closing' = [NotClosing EXCEPT !.step = "read", !.short = short,
                                         !.qty = pos[short].qty]
        /\ pos[short].qty > 0 /\ ~bar.on /\ UNCHANGED <<price, orders, pos, bar, opened, turned>>
    BY <1>9 DEF CloseRead
  <2>2. /\ closing'.step = "read" /\ closing'.qty > 0
        /\ closing' \in [step : {"none", "read", "sent", "closed"}, short : BOOLEAN,
                         qty : Int, oid : OrderId \cup {0}, px : Prices \cup {NoPx}]
    BY <1>1, <2>1 DEF BookTypes, NotClosing
  <2> QED BY <2>1, <2>2 DEF BookInv, BookTypes
<1>10. CASE CloseSend
  <2> DEFINE r == [st |-> "new", type |-> "market", opens |-> FALSE, short |-> closing.short,
                   px |-> NoPx, qty |-> closing.qty, fill |-> NoPx]
  <2>1. PICK o \in OrderId :
          /\ orders[o].st = "none" /\ orders' = [orders EXCEPT ![o] = r]
          /\ closing' = [closing EXCEPT !.step = "sent", !.oid = o, !.px = price]
    BY <1>10 DEF CloseSend, IsNextId
  <2>2. closing.qty \in Int /\ closing.qty > 0 /\ closing.short \in BOOLEAN
    BY <1>1, <1>10 DEF CloseSend, BookInv, BookTypes
  <2>3. /\ r \in Order /\ r.st = "new" /\ r.qty = closing.qty /\ ~r.opens
        /\ r.short = closing.short /\ r.type = "market"
    BY <2>2 DEF Order
  <2>4. ~bar.on /\ UNCHANGED <<price, pos, bar, opened, turned>>
    BY <1>10 DEF CloseSend
  <2> HIDE DEF r
  <2>5. /\ orders' \in [OrderId -> Order] /\ orders'[o] = r
        /\ \A u \in OrderId : u # o => orders'[u] = orders[u]
    BY <1>1, <2>1, <2>3, OneWritten
  <2>7. \A sh \in BOOLEAN : FilledSum(orders', sh) = FilledSum(orders, sh)
    <3>1. orders[o].st # "filled" /\ orders'[o].st # "filled"
      BY <2>1, <2>3, <2>5
    <3> QED BY <1>1, <2>5, <3>1, EnterSums
  <2>6. /\ closing'.oid = o /\ closing'.px = price /\ closing'.qty = closing.qty
        /\ closing'.short = closing.short
        /\ closing' \in [step : {"none", "read", "sent", "closed"}, short : BOOLEAN,
                         qty : Int, oid : OrderId \cup {0}, px : Prices \cup {NoPx}]
    BY <1>1, <2>1 DEF BookTypes
  <2> QED BY <1>1, <2>2, <2>3, <2>4, <2>5, <2>6, <2>7 DEF BookInv, BookTypes, CloseOrder
<1>11. CASE CloseFill
  <2> DEFINE o == closing.oid
  <2>1. /\ FillOrder(o, closing.px) /\ o \in OrderId /\ closing.px \in Prices
        /\ orders[o].st = "new" /\ ~bar.on /\ UNCHANGED <<price, bar>>
        /\ closing' = [closing EXCEPT !.step = "closed"]
    BY <1>11 DEF CloseFill, BookInv, CloseOrder
  <2>2. /\ closing'.step = "closed" /\ closing'.qty > 0
        /\ closing' \in [step : {"none", "read", "sent", "closed"}, short : BOOLEAN,
                         qty : Int, oid : OrderId \cup {0}, px : Prices \cup {NoPx}]
    <3>1. closing.qty > 0
      BY <1>11 DEF CloseFill, BookInv
    <3> QED BY <1>1, <2>1, <3>1 DEF BookTypes
  <2> HIDE DEF o
  <2>3. /\ orders' \in [OrderId -> Order] /\ orders'[o].st = "filled"
        /\ orders'[o].qty = orders[o].qty /\ orders'[o].px = orders[o].px
        /\ orders'[o].type = orders[o].type
        /\ \A u \in OrderId : u # o => orders'[u] = orders[u]
        /\ pos' = [short \in BOOLEAN |-> [qty |-> pos'[short].qty,
                                          entry |-> pos'[short].entry]]
        /\ opened' \in [BOOLEAN -> SUBSET Prices] /\ turned' \in [BOOLEAN -> BOOLEAN]
    BY <2>1, FillSums
  <2>4. \A short \in BOOLEAN :
          pos'[short].qty \in Int /\ pos'[short].qty = FilledSum(orders', short)
    <3>1. \A short \in BOOLEAN : pos[short].qty = FilledSum(orders, short)
      BY DEF BookInv
    <3>2. Signed(orders[o]) \in Int
      BY <1>1, <2>1 DEF Signed, Order
    <3> QED BY <1>1, <2>1, <3>1, <3>2, FillSums
  <2>5. BookTypes'
    BY <1>1, <2>1, <2>2, <2>3, <2>4 DEF BookTypes
  <2>6. \A u \in OrderId :
          orders'[u].st # "none" =>
            orders'[u].qty > 0 /\ (orders'[u].type = "limit" => orders'[u].px \in Prices)
    BY <2>1, <2>3 DEF BookInv
  <2> QED BY <2>1, <2>2, <2>4, <2>5, <2>6 DEF BookInv
<1>12. CASE CloseReset
  <2>1. ~bar.on /\ closing.step = "closed" /\ UNCHANGED <<price, pos, bar, opened, turned>>
    BY <1>12 DEF CloseReset
  <2>2. CASE closing' = NotClosing /\ UNCHANGED orders
    <3>1. /\ NotClosing.step = "none"
          /\ NotClosing \in [step : {"none", "read", "sent", "closed"}, short : BOOLEAN,
                             qty : Int, oid : OrderId \cup {0}, px : Prices \cup {NoPx}]
      BY DEF NotClosing
    <3> QED BY <2>1, <2>2, <3>1 DEF BookInv, BookTypes
  <2>3. CASE UNCHANGED closing /\ \E o \in LiveExits(closing.short) : orders' = Canceled(o)
    BY <1>7, <2>1, <2>3 DEF LiveExits
  <2> QED BY <1>12, <2>2, <2>3 DEF CloseReset
<1> QED BY <1>2, <1>3, <1>4, <1>5, <1>6, <1>8, <1>9, <1>10, <1>11, <1>12 DEF Next, Market, Bot

\* A position is the sum of the fills, each counted once, whatever the bars
\* match in whatever order, also when the price moves before a forced close
\* is sent or after it has been filled.
THEOREM EveryFillOnce == ASSUME "sent" \notin Ticking PROVE Spec => []PositionIsSum
<1>1. BookInv => PositionIsSum
  BY SumsAre DEF BookInv, BookTypes, PositionIsSum
<1> QED BY <1>1, InitBook, NextBook, PTL DEF Spec

-----------------------------------------------------------------------------
(* What can turn a position round                                          *)

\* Entering or cancelling an order leaves the closing orders of a side within
\* a bound that has room for what was entered.
LEMMA EnterWithin ==
  ASSUME BookTypes, NEW o \in OrderId, orders' \in [OrderId -> Order],
         \A u \in OrderId : u # o => orders'[u] = orders[u],
         orders[o].st # "filled", orders'[o].st # "filled", NEW short \in BOOLEAN,
         NEW most \in Int, ClosingSum(orders, short) <= most,
         \/ ClosingAt(orders'[o], short) = 0
         \/ ClosingSum(orders, short) + ClosingAt(orders'[o], short) <= most
  PROVE  ClosingSum(orders', short) <= most
<1>1. orders \in [OrderId -> Order]
  BY DEF BookTypes
<1>2. ClosingSum(orders', short)
        = ClosingSum(orders, short) - ClosingAt(orders[o], short) + ClosingAt(orders'[o], short)
  BY <1>1, EnterSums
<1>3. /\ ClosingSum(orders, short) \in Nat
      /\ ClosingAt(orders[o], short) \in Nat /\ ClosingAt(orders'[o], short) \in Nat
  <2>1. orders[o] \in Order /\ orders'[o] \in Order
    BY <1>1
  <2> QED BY <1>1, <2>1, BookSums, AtFacts
<1> QED BY <1>2, <1>3

\* On a side that no forced close is selling, the live take-profits fit into
\* what there is; a position already turned round has none.
Present(short) == Higher(pos[short].qty, 0)
ExitsCovered ==
  \A short \in BOOLEAN :
    closing.step = "none" \/ short # closing.short
      => ClosingSum(orders, short) <= Present(short)
SideInv == BookInv /\ ExitsCovered

\* What ReversedOnlyInClose says of a step.
TurnsInClose ==
  \A short \in BOOLEAN :
    pos[short].qty >= 0 /\ pos'[short].qty < 0
      => closing.step # "none" /\ closing.short = short

LEMMA InitSide == Init => SideInv
<1> SUFFICES ASSUME Init PROVE ExitsCovered
  BY InitBook DEF SideInv
<1>1. ASSUME NEW short \in BOOLEAN PROVE ClosingSum(orders, short) <= Present(short)
  <2>1. \A o \in OrderId : ClosingAt(orders[o], short) = 0
    BY DEF Init, NoOrder, ClosingAt
  <2>2. ClosingSum(orders, short) = 0 /\ pos[short].qty = 0
    BY <2>1, ClosingNone DEF Init
  <2> QED BY <2>2 DEF Present, Higher
<1> QED BY <1>1 DEF ExitsCovered

\* A fill of a live order that is no more than what the side has, unless the
\* side is being closed.
LEMMA FillTurns ==
  ASSUME SideInv, NEW o \in OrderId, orders[o].st = "new", NEW px \in Prices,
         FillOrder(o, px)
  PROVE  /\ TurnsInClose
         /\ \A short \in BOOLEAN :
              closing.step = "none" \/ short # closing.short
                => ClosingSum(orders', short) <= Present(short)'
<1> DEFINE r == orders[o]
<1>1. /\ BookInv /\ orders \in [OrderId -> Order] /\ r \in Order
      /\ r.short \in BOOLEAN /\ r.opens \in BOOLEAN /\ r.qty \in Nat /\ r.qty > 0
      /\ r.st = "new"
  <2>1. BookInv /\ orders \in [OrderId -> Order]
    BY DEF SideInv, BookInv, BookTypes
  <2> QED BY <2>1 DEF BookInv, Order
<1>2. \A short \in BOOLEAN : pos[short].qty \in Int /\ ClosingSum(orders, short) \in Nat
  BY <1>1, BookSums DEF BookInv, BookTypes
<1>3. \A short \in BOOLEAN :
        /\ pos'[short].qty = pos[short].qty + (IF short = r.short THEN Signed(r) ELSE 0)
        /\ ClosingSum(orders', short) = ClosingSum(orders, short) - ClosingAt(r, short)
  BY <1>1, FillSums
<1>4. /\ r.opens => Signed(r) = r.qty /\ \A short \in BOOLEAN : ClosingAt(r, short) = 0
      /\ ~r.opens => /\ Signed(r) = -r.qty
                     /\ \A short \in BOOLEAN :
                          ClosingAt(r, short) = IF short = r.short THEN r.qty ELSE 0
  BY <1>1 DEF Signed, ClosingAt
<1>5. ClosingAt(r, r.short) <= ClosingSum(orders, r.short)
  BY <1>1, ClosingOne
<1> HIDE DEF r
<1> SUFFICES ASSUME NEW short \in BOOLEAN
             PROVE  /\ pos[short].qty >= 0 /\ pos'[short].qty < 0
                         => closing.step # "none" /\ closing.short = short
                    /\ closing.step = "none" \/ short # closing.short
                         => ClosingSum(orders', short) <= Present(short)'
  BY DEF TurnsInClose
<1>6. closing.step = "none" \/ short # closing.short => ClosingSum(orders, short) <= Present(short)
  BY DEF SideInv, ExitsCovered
<1>7. CASE short # r.short
  <2>1. pos'[short].qty = pos[short].qty + 0 /\ ClosingAt(r, short) = 0
    BY <1>1, <1>3, <1>4, <1>7
  <2> QED BY <1>2, <1>3, <1>6, <2>1 DEF Present, Higher
<1>8. CASE short = r.short /\ r.opens
  <2>1. pos'[short].qty = pos[short].qty + r.qty /\ ClosingAt(r, short) = 0
    BY <1>3, <1>4, <1>8
  <2> QED BY <1>1, <1>2, <1>3, <1>6, <2>1 DEF Present, Higher
<1>9. CASE short = r.short /\ ~r.opens
  <2>1. /\ pos'[short].qty = pos[short].qty + (-r.qty) /\ ClosingAt(r, short) = r.qty
        /\ ClosingSum(orders', short) = ClosingSum(orders, short) - r.qty
        /\ r.qty <= ClosingSum(orders, short)
    BY <1>1, <1>3, <1>4, <1>5, <1>9
  <2>2. CASE closing.step = "none" \/ short # closing.short
    <3>1. r.qty <= Present(short)
      BY <1>1, <1>2, <1>6, <2>1, <2>2 DEF Present, Higher
    <3>2. Present(short) = pos[short].qty /\ pos[short].qty > 0
      BY <1>1, <1>2, <3>1 DEF Present, Higher
    <3> QED BY <1>1, <1>2, <1>6, <2>1, <2>2, <3>1, <3>2 DEF Present, Higher
  <2> QED BY <2>2
<1> QED BY <1>1, <1>7, <1>8, <1>9

\* No step turns a position round but a fill on the side of a forced close.
LEMMA NextSide ==
  ASSUME "sent" \notin Ticking, BacksExits
  PROVE  SideInv /\ [Next]_vars => SideInv' /\ TurnsInClose
<1> SUFFICES ASSUME SideInv, [Next]_vars PROVE ExitsCovered' /\ TurnsInClose
  BY NextBook DEF SideInv
<1>1. /\ BookInv /\ BookTypes /\ ExitsCovered /\ orders \in [OrderId -> Order]
  BY DEF SideInv, BookInv, BookTypes
<1>2. \A short \in BOOLEAN :
        /\ pos[short].qty \in Int /\ ClosingSum(orders, short) \in Nat
        /\ Present(short) \in Int /\ Present(short) >= 0
  BY <1>1, BookSums DEF BookTypes, Present, Higher
<1>3. ASSUME UNCHANGED pos PROVE TurnsInClose /\ \A short : Present(short)' = Present(short)
  BY <1>2, <1>3 DEF TurnsInClose, Present
<1>4. CASE UNCHANGED <<orders, pos, closing>>
  BY <1>1, <1>3, <1>4 DEF ExitsCovered
<1>5. ASSUME NEW p \in Prices, PriceMove(p) PROVE ExitsCovered' /\ TurnsInClose
  BY <1>4, <1>5 DEF PriceMove
<1>6. CASE BarDone
  BY <1>4, <1>6 DEF BarDone
<1>7. CASE UNCHANGED vars
  BY <1>4, <1>7 DEF vars
<1>8. ASSUME NEW o \in OrderId, MatchOrder(o) PROVE ExitsCovered' /\ TurnsInClose
  <2>1. CASE ~Trades(o)
    BY <1>4, <1>8, <2>1 DEF MatchOrder
  <2>2. CASE Trades(o)
    <3> DEFINE px == FillPx(orders[o], bar)
    <3>1. /\ FillOrder(o, px) /\ orders[o].st = "new" /\ UNCHANGED closing /\ bar.on
      BY <1>8, <2>2 DEF MatchOrder, Trades, Live
    <3>2. px \in Prices
      BY <1>1, <3>1, MatchPrice
    <3> HIDE DEF px
    <3>3. /\ TurnsInClose
          /\ \A short \in BOOLEAN :
               closing.step = "none" \/ short # closing.short
                 => ClosingSum(orders', short) <= Present(short)'
      BY <3>1, <3>2, FillTurns
    <3> QED BY <3>1, <3>3 DEF ExitsCovered
  <2> QED BY <2>1, <2>2
<1>9. ASSUME NEW opens \in BOOLEAN, NEW short \in BOOLEAN, NEW px \in Prices, NEW qty \in Qtys,
             PlaceLimit(opens, short, px, qty)
      PROVE  ExitsCovered' /\ TurnsInClose
  <2> DEFINE r == [st |-> "new", type |-> "limit", opens |-> opens, short |-> short,
                   px |-> px, qty |-> qty, fill |-> NoPx]
  <2>1. /\ closing.step = "none" /\ UNCHANGED <<pos, closing>>
        /\ ~opens => Closing(short) + qty <= pos[short].qty
    BY <1>9 DEF PlaceLimit
  <2>2. PICK o \in OrderId : orders[o].st = "none" /\ orders' = [orders EXCEPT ![o] = r]
    BY <1>9 DEF PlaceLimit, IsNextId
  <2>3. r \in Order /\ r.st = "new"
    BY PaperExchangeAssumption DEF Order
  <2>4. \A sh \in BOOLEAN :
          ClosingAt(r, sh) = IF ~opens /\ sh = short THEN qty ELSE 0
    BY DEF ClosingAt
  <2>5. Closing(short) = ClosingSum(orders, short) /\ qty \in Nat
    BY <1>1, SumsAre, PaperExchangeAssumption
  <2> HIDE DEF r
  <2>6. /\ orders' \in [OrderId -> Order] /\ orders'[o] = r
        /\ \A u \in OrderId : u # o => orders'[u] = orders[u]
    BY <1>1, <2>2, <2>3, OneWritten
  <2>7. ASSUME NEW sh \in BOOLEAN PROVE ClosingSum(orders', sh) <= Present(sh)
    <3>1. ClosingSum(orders, sh) <= Present(sh)
      BY <1>1, <2>1 DEF ExitsCovered
    <3>2. \/ ClosingAt(orders'[o], sh) = 0
          \/ ClosingSum(orders, sh) + ClosingAt(orders'[o], sh) <= Present(sh)
      BY <1>2, <2>1, <2>4, <2>5, <2>6 DEF Present, Higher
    <3>3. orders[o].st # "filled" /\ orders'[o].st # "filled"
      BY <2>2, <2>3, <2>6
    <3> QED BY <1>1, <1>2, <2>6, <3>1, <3>2, <3>3, EnterWithin
  <2> QED BY <1>3, <2>1, <2>7 DEF ExitsCovered
<1>10. ASSUME NEW o \in OrderId, Live(o), orders' = Canceled(o), UNCHANGED <<pos, closing>>
       PROVE  ExitsCovered' /\ TurnsInClose
  <2> DEFINE r == [orders[o] EXCEPT !.st = "canceled"]
  <2>1. r \in Order /\ r.st = "canceled" /\ orders' = [orders EXCEPT ![o] = r]
    BY <1>1, <1>10, CanceledIs
  <2> HIDE DEF r
  <2>2. /\ orders' \in [OrderId -> Order] /\ orders'[o] = r
        /\ \A u \in OrderId : u # o => orders'[u] = orders[u]
    BY <1>1, <2>1, OneWritten
  <2>3. /\ orders[o].st # "filled" /\ orders'[o].st # "filled"
        /\ \A sh \in BOOLEAN : ClosingAt(orders'[o], sh) = 0
    BY <1>10, <2>1, <2>2 DEF Live, ClosingAt
  <2>4. ASSUME NEW sh \in BOOLEAN, ClosingSum(orders, sh) <= Present(sh)
        PROVE  ClosingSum(orders', sh) <= Present(sh)
    BY <1>1, <1>2, <2>2, <2>3, <2>4, EnterWithin
  <2> QED BY <1>1, <1>3, <1>10, <2>4 DEF ExitsCovered
<1>11. ASSUME NEW o \in OrderId, CancelOrder(o) PROVE ExitsCovered' /\ TurnsInClose
  BY <1>10, <1>11 DEF CancelOrder
<1>12. ASSUME NEW short \in BOOLEAN, CloseRead(short) PROVE ExitsCovered' /\ TurnsInClose
  <2>1. closing.step = "none" /\ UNCHANGED <<orders, pos>>
    BY <1>12 DEF CloseRead
  <2> QED BY <1>1, <1>3, <2>1 DEF ExitsCovered
<1>13. CASE CloseSend
  <2> DEFINE r == [st |-> "new", type |-> "market", opens |-> FALSE, short |-> closing.short,
                   px |-> NoPx, qty |-> closing.qty, fill |-> NoPx]
  <2>1. PICK o \in OrderId :
          /\ orders[o].st = "none" /\ orders' = [orders EXCEPT ![o] = r]
          /\ closing' = [closing EXCEPT !.step = "sent", !.oid = o, !.px = price]
    BY <1>13 DEF CloseSend, IsNextId
  <2>2. closing.step = "read" /\ UNCHANGED pos
    BY <1>13 DEF CloseSend
  <2>3. /\ closing.qty \in Int /\ closing.qty > 0 /\ closing.short \in BOOLEAN
    BY <1>1, <2>2 DEF BookInv, BookTypes
  <2>4. closing'.step = "sent" /\ closing'.short = closing.short
    BY <1>1, <2>1 DEF BookTypes
  <2>5. /\ r \in Order /\ r.st = "new"
        /\ \A sh \in BOOLEAN : sh # closing.short => ClosingAt(r, sh) = 0
    BY <2>3 DEF Order, ClosingAt
  <2> HIDE DEF r
  <2>6. /\ orders' \in [OrderId -> Order] /\ orders'[o] = r
        /\ \A u \in OrderId : u # o => orders'[u] = orders[u]
    BY <1>1, <2>1, <2>5, OneWritten
  <2>7. ASSUME NEW sh \in BOOLEAN, sh # closing.short
        PROVE  ClosingSum(orders', sh) <= Present(sh)
    <3>1. ClosingSum(orders, sh) <= Present(sh) /\ ClosingAt(orders'[o], sh) = 0
      BY <1>1, <2>5, <2>6, <2>7 DEF ExitsCovered
    <3>2. orders[o].st # "filled" /\ orders'[o].st # "filled"
      BY <2>1, <2>5, <2>6
    <3> QED BY <1>1, <1>2, <2>6, <3>1, <3>2, EnterWithin
  <2> QED BY <1>3, <2>2, <2>4, <2>7 DEF ExitsCovered
<1>14. CASE CloseFill
  <2> DEFINE o == closing.oid
  <2>1. /\ FillOrder(o, closing.px) /\ o \in OrderId /\ closing.px \in Prices
        /\ orders[o].st = "new" /\ closing.step = "sent"
        /\ closing' = [closing EXCEPT !.step = "closed"]
    BY <1>1, <1>14 DEF CloseFill, BookInv, CloseOrder
  <2>2. closing'.step = "closed" /\ closing'.short = closing.short
    BY <1>1, <2>1 DEF BookTypes
  <2> HIDE DEF o
  <2>3. /\ TurnsInClose
        /\ \A short \in BOOLEAN :
             closing.step = "none" \/ short # closing.short
               => ClosingSum(orders', short) <= Present(short)'
    BY <2>1, FillTurns
  <2> QED BY <2>2, <2>3 DEF ExitsCovered
<1>15. CASE CloseReset
  <2>1. closing.step = "closed" /\ UNCHANGED pos
    BY <1>15 DEF CloseReset
  <2>2. CASE LiveExits(closing.short) = {}
    <3>1. UNCHANGED orders
      BY <1>15, <2>2 DEF CloseReset
    <3>2. ClosingSum(orders, closing.short) = 0
      <4>1. \A o \in OrderId : ClosingAt(orders[o], closing.short) = 0
        BY <2>2 DEF LiveExits, Live, ClosingAt
      <4> QED BY <4>1, ClosingNone
    <3>3. \A sh \in BOOLEAN : ClosingSum(orders, sh) <= Present(sh)
      BY <1>1, <1>2, <3>2 DEF ExitsCovered
    <3> QED BY <1>3, <2>1, <3>1, <3>3 DEF ExitsCovered
  <2>3. CASE LiveExits(closing.short) # {}
    <3>1. UNCHANGED closing /\ \E o \in LiveExits(closing.short) : orders' = Canceled(o)
      BY <1>15, <2>3 DEF CloseReset
    <3> QED BY <1>10, <2>1, <3>1 DEF LiveExits
  <2> QED BY <2>2, <2>3
<1> QED
  BY <1>5, <1>6, <1>7, <1>8, <1>9, <1>11, <1>12, <1>13, <1>14, <1>15 DEF Next, Market, Bot

\* A bot whose take-profits are backed turns no position round by them: not in
\* any price jump or matching order, and not when the price moves inside the
\* forced close of the other direction.  Only a forced close does it, on its
\* own side.
THEOREM OnlyClosesReverse ==
  ASSUME "sent" \notin Ticking, BacksExits PROVE Spec => ReversedOnlyInClose
<1>1. SideInv /\ [Next]_vars => SideInv'
  BY NextSide
<1>2. SideInv /\ [Next]_vars => [TurnsInClose]_vars
  BY NextSide
<1>3. Spec => [][TurnsInClose]_vars
  BY <1>1, <1>2, InitSide, PTL DEF Spec
<1> QED BY <1>3 DEF TurnsInClose, ReversedOnlyInClose

-----------------------------------------------------------------------------
(* A forced close sells what it has read                                   *)

\* While the market waits for a forced close, the amount it has read is the
\* position.
FlatInv ==
  /\ BookInv
  /\ closing.step \in {"read", "sent"} => closing.qty = pos[closing.short].qty

LEMMA NextFlat ==
  ASSUME "read" \notin Ticking, "sent" \notin Ticking
  PROVE  FlatInv /\ [Next]_vars => FlatInv'
<1> SUFFICES ASSUME FlatInv, [Next]_vars
             PROVE  closing'.step \in {"read", "sent"} => closing'.qty = pos'[closing'.short].qty
  BY NextBook DEF FlatInv
<1>1. /\ BookTypes
      /\ closing.step \in {"read", "sent"} => closing.qty = pos[closing.short].qty
      /\ bar.on => closing.step \notin {"read", "sent"}
  BY DEF FlatInv, BookInv, MayTick
<1>2. CASE UNCHANGED <<pos, closing>>
  BY <1>1, <1>2
<1>3. ASSUME NEW p \in Prices, PriceMove(p) PROVE UNCHANGED <<pos, closing>>
  BY <1>3 DEF PriceMove
<1>4. ASSUME NEW o \in OrderId, MatchOrder(o)
      PROVE  closing'.step \notin {"read", "sent"}
  BY <1>1, <1>4 DEF MatchOrder
<1>5. CASE BarDone
  BY <1>2, <1>5 DEF BarDone
<1>6. ASSUME NEW opens \in BOOLEAN, NEW short \in BOOLEAN, NEW px \in Prices, NEW qty \in Qtys,
             PlaceLimit(opens, short, px, qty)
      PROVE  UNCHANGED <<pos, closing>>
  BY <1>6 DEF PlaceLimit
<1>7. ASSUME NEW o \in OrderId, CancelOrder(o) PROVE UNCHANGED <<pos, closing>>
  BY <1>7 DEF CancelOrder
<1>8. ASSUME NEW short \in BOOLEAN, CloseRead(short)
      PROVE  closing'.qty = pos'[closing'.short].qty
  BY <1>8 DEF CloseRead, NotClosing
<1>9. CASE CloseSend
  <2>1. PICK o \in OrderId : closing' = [closing EXCEPT !.step = "sent", !.oid = o, !.px = price]
    BY <1>9 DEF CloseSend
  <2>2. closing.step = "read" /\ UNCHANGED pos
    BY <1>9 DEF CloseSend
  <2>3. closing'.qty = closing.qty /\ closing'.short = closing.short
    BY <1>1, <2>1 DEF BookTypes
  <2> QED BY <1>1, <2>2, <2>3
<1>10. CASE CloseFill
  <2>1. closing'.step = "closed"
    BY <1>1, <1>10 DEF CloseFill, BookTypes
  <2> QED BY <2>1
<1>11. CASE CloseReset
  <2>1. closing.step = "closed" /\ (closing' = NotClosing \/ closing' = closing)
    BY <1>11 DEF CloseReset
  <2> QED BY <2>1 DEF NotClosing
<1>12. CASE UNCHANGED vars
  BY <1>2, <1>12 DEF vars
<1> QED
  BY <1>2, <1>3, <1>4, <1>5, <1>6, <1>7, <1>8, <1>9, <1>10, <1>11, <1>12 DEF Next, Market, Bot

\* The market order of a forced close leaves nothing of the position, if the
\* price does not move between the reading of the position and the fill.
THEOREM CloseSellsAll ==
  ASSUME "read" \notin Ticking, "sent" \notin Ticking PROVE Spec => ClosedIsFlat
<1>1. Init => FlatInv
  BY InitBook DEF FlatInv, Init, NotClosing
<1>2. ASSUME FlatInv, [Next]_vars, closing.step = "sent", closing'.step = "closed"
      PROVE  pos'[closing.short].qty = 0
  <2>1. BookTypes /\ closing.short \in BOOLEAN
    BY <1>2 DEF FlatInv, BookInv, BookTypes
  <2>2. CloseFill
    <3>1. ~bar.on
      BY <1>2 DEF FlatInv, BookInv, MayTick
    <3>2. ASSUME NEW o \in OrderId,
                 closing' = [closing EXCEPT !.step = "sent", !.oid = o, !.px = price]
          PROVE  FALSE
      BY <1>2, <2>1, <3>2 DEF BookTypes
    <3> QED
      BY <1>2, <3>1, <3>2 DEF Next, Market, Bot, vars, PriceMove, MatchOrder, BarDone,
         PlaceLimit, CancelOrder, CloseRead, CloseSend, CloseReset, NotClosing
  <2> DEFINE o == closing.oid
             r == orders[o]
  <2>3. /\ o \in OrderId /\ r.st = "new" /\ closing.px \in Prices /\ FillOrder(o, closing.px)
        /\ ~r.opens /\ r.short = closing.short /\ r.qty = closing.qty
    BY <1>2, <2>2 DEF FlatInv, BookInv, CloseOrder, CloseFill
  <2>4. pos'[closing.short].qty = pos[closing.short].qty + Signed(r)
    BY <1>2, <2>1, <2>3, FillSums DEF FlatInv
  <2>5. Signed(r) = -closing.qty /\ pos[closing.short].qty = closing.qty
    BY <1>2, <2>3 DEF Signed, FlatInv
  <2>6. closing.qty \in Int
    BY <2>1 DEF BookTypes
  <2> QED BY <2>4, <2>5, <2>6
<1> QED BY <1>1, <1>2, NextFlat, PTL DEF Spec, ClosedIsFlat

-----------------------------------------------------------------------------
(* The cost price stays between the prices at which the position was       *)
(* opened, unless a forced close has turned the position round             *)

LEMMA Quotient ==
  ASSUME NEW n \in Int, NEW d \in Nat \ {0}, NEW lo \in Int, NEW hi \in Int,
         lo * d <= n, n <= hi * d
  PROVE  n \div d \in Int /\ lo <= n \div d /\ n \div d <= hi
<1> DEFINE q == n \div d
<1>1. q \in Int /\ d * q <= n /\ n < d * q + d
  OBVIOUS
<1> HIDE DEF q
<1>2. lo <= q
  <2> SUFFICES ASSUME q + 1 <= lo PROVE FALSE
    BY <1>1
  <2>1. (q + 1) * d <= lo * d
    BY <1>1
  <2> QED BY <1>1, <2>1
<1>3. q <= hi
  <2> SUFFICES ASSUME hi + 1 <= q PROVE FALSE
    BY <1>1
  <2>1. (hi + 1) * d <= q * d
    BY <1>1
  <2> QED BY <1>1, <2>1
<1> QED BY <1>1, <1>2, <1>3 DEF q

\* An average lies between bounds of what it averages.
LEMMA WeightedBetween ==
  ASSUME NEW px \in Int, NEW addPx \in Int, NEW qty \in Nat, NEW addQty \in Nat \ {0},
         NEW lo \in Int, NEW hi \in Int,
         lo <= px, px <= hi, lo <= addPx, addPx <= hi
  PROVE  LET w == Weighted(px, qty, addPx, addQty) IN w \in Int /\ lo <= w /\ w <= hi
<1> DEFINE n == px * qty + addPx * addQty
           d == qty + addQty
<1>1. n \in Int /\ d \in Nat \ {0}
  OBVIOUS
<1>2. lo * qty <= px * qty /\ px * qty <= hi * qty
  OBVIOUS
<1>3. lo * addQty <= addPx * addQty /\ addPx * addQty <= hi * addQty
  OBVIOUS
<1>4. lo * d = lo * qty + lo * addQty /\ hi * d = hi * qty + hi * addQty
  OBVIOUS
<1>5. lo * d <= n /\ n <= hi * d
  BY <1>2, <1>3, <1>4
<1>6. Weighted(px, qty, addPx, addQty) = n \div d
  BY <1>1 DEF Weighted
<1> HIDE DEF n, d
<1> QED BY <1>1, <1>5, <1>6, Quotient

\* The type of the cost price after a fill, Undefined included.
LEMMA CostIsNumber ==
  ASSUME NEW q \in Int, NEW e \in Int, NEW s \in Int, NEW px \in Int
  PROVE  CostAfter([qty |-> q, entry |-> e], s, px) \in Int
<1> DEFINE sum == e * q + px * s
           all == q + s
<1>1. sum \in Int /\ all \in Int
  OBVIOUS
<1>2. Weighted(e, q, px, s) =
        IF all = 0 THEN Undefined ELSE IF all > 0 THEN sum \div all ELSE (-sum) \div (-all)
  BY DEF Weighted
<1> HIDE DEF sum, all
<1>3. all > 0 => sum \div all \in Int
  BY <1>1
<1>4. all < 0 => (-sum) \div (-all) \in Int
  <2>1. \A n \in Int, d \in Nat \ {0} : n \div d \in Int
    OBVIOUS
  <2> QED BY <1>1, <2>1
<1>5. Weighted(e, q, px, s) \in Int
  BY <1>1, <1>2, <1>3, <1>4 DEF Undefined
<1> QED BY <1>5 DEF CostAfter

CostBetween(short) ==
  /\ pos[short].qty >= 0
  /\ pos[short].qty > 0 =>
       /\ \E px \in opened[short] : px <= pos[short].entry
       /\ \E px \in opened[short] : px >= pos[short].entry
CostInv ==
  \A short \in BOOLEAN :
    pos[short].entry \in Int /\ (~turned[short] => CostBetween(short))

LEMMA FillCost ==
  ASSUME BookInv, CostInv, NEW o \in OrderId, orders[o].st = "new", NEW px \in Prices,
         FillOrder(o, px)
  PROVE  CostInv'
<1> DEFINE r == orders[o]
           p == pos[r.short]
           s == Signed(r)
           was == opened[r.short]
<1>1. /\ r.short \in BOOLEAN /\ r.opens \in BOOLEAN /\ r.qty \in Nat /\ r.qty > 0
      /\ was \subseteq Int /\ px \in Int
  <2>1. r \in Order /\ was \subseteq Prices /\ r.qty > 0
    BY DEF BookInv, BookTypes, Order
  <2>2. Prices \subseteq Int
    BY PaperExchangeAssumption
  <2> QED BY <2>1, <2>2 DEF Order
<1>2. s \in Int /\ (r.opens => s > 0) /\ (~r.opens => s < 0)
  BY <1>1 DEF Signed
<1>3. /\ p = [qty |-> p.qty, entry |-> p.entry] /\ p.qty \in Int /\ p.entry \in Int
      /\ ~turned[r.short] => p.qty >= 0
      /\ ~turned[r.short] /\ p.qty > 0 =>
           (\E x \in was : x <= p.entry) /\ (\E x \in was : x >= p.entry)
  BY <1>1 DEF CostInv, CostBetween, BookInv, BookTypes
<1>4. /\ \A short \in BOOLEAN :
            short # r.short => /\ pos'[short] = pos[short] /\ opened'[short] = opened[short]
                               /\ turned'[short] = turned[short]
      /\ pos'[r.short].qty = p.qty + s
      /\ pos'[r.short].entry = CostAfter(p, s, px)
      /\ opened'[r.short] = (IF p.qty + s = 0 THEN {}
                             ELSE IF r.opens THEN was \cup {px} ELSE was)
      /\ turned'[r.short] = (p.qty + s # 0 /\ (turned[r.short] \/ p.qty + s < 0))
  <2>1. /\ pos = [short \in BOOLEAN |-> [qty |-> pos[short].qty, entry |-> pos[short].entry]]
        /\ opened \in [BOOLEAN -> SUBSET Prices] /\ turned \in [BOOLEAN -> BOOLEAN]
    BY DEF BookInv, BookTypes
  <2>2. turned' = [turned EXCEPT ![r.short] =
                     p.qty + s # 0 /\ (turned[r.short] \/ p.qty + s < 0)]
    BY DEF FillOrder
  <2>3. /\ turned'[r.short] = (p.qty + s # 0 /\ (turned[r.short] \/ p.qty + s < 0))
        /\ \A short \in BOOLEAN : short # r.short => turned'[short] = turned[short]
    BY <1>1, <2>1, <2>2, Zenon
  <2> QED BY <1>1, <2>1, <2>3 DEF FillOrder
<1> HIDE DEF r, p, s, was
<1>5. CostAfter(p, s, px) \in Int
  BY <1>1, <1>2, <1>3, CostIsNumber
<1>6. ASSUME p.qty + s > 0, ~turned[r.short]
      PROVE  /\ \E x \in opened'[r.short] : x <= CostAfter(p, s, px)
             /\ \E x \in opened'[r.short] : x >= CostAfter(p, s, px)
  <2>1. p.qty \in Nat
    BY <1>3, <1>6
  <2>2. CASE p.qty = 0
    <3>1. CostAfter(p, s, px) = px /\ r.opens
      BY <1>1, <1>2, <1>3, <1>6, <2>2 DEF CostAfter
    <3>2. opened'[r.short] = was \cup {px}
      BY <1>2, <1>4, <1>6, <2>2, <3>1
    <3>3. px \in opened'[r.short] /\ px <= px
      BY <1>1, <3>2
    <3> QED BY <1>1, <3>1, <3>3
  <2>3. CASE p.qty > 0 /\ r.opens
    <3> DEFINE w == Weighted(p.entry, p.qty, px, s)
    <3>1. CostAfter(p, s, px) = w /\ opened'[r.short] = was \cup {px} /\ s \in Nat \ {0}
      <4>1. s \in Int /\ s > 0 /\ p.qty + s # 0 /\ p.qty # 0
        BY <1>2, <1>3, <1>6, <2>3
      <4> QED BY <1>4, <1>6, <2>3, <4>1 DEF CostAfter
    <3>2. PICK a \in was : a <= p.entry
      BY <1>3, <1>6, <2>3
    <3>3. PICK b \in was : b >= p.entry
      BY <1>3, <1>6, <2>3
    <3> DEFINE lo == IF a < px THEN a ELSE px
               hi == IF b > px THEN b ELSE px
    <3>4. /\ lo \in Int /\ hi \in Int /\ lo \in was \cup {px} /\ hi \in was \cup {px}
          /\ lo <= p.entry /\ p.entry <= hi /\ lo <= px /\ px <= hi
      BY <1>1, <1>3, <3>2, <3>3
    <3> HIDE DEF lo, hi, w
    <3>5. w \in Int /\ lo <= w /\ w <= hi
      BY <1>1, <1>3, <2>1, <3>1, <3>4, WeightedBetween DEF w
    <3> QED BY <3>1, <3>4, <3>5
  <2>4. CASE p.qty > 0 /\ ~r.opens
    <3>1. CostAfter(p, s, px) = p.entry
      BY <1>2, <1>3, <1>6, <2>4 DEF CostAfter
    <3>2. opened'[r.short] = was
      BY <1>2, <1>3, <1>4, <1>6, <2>4
    <3> QED BY <1>3, <1>6, <2>4, <3>1, <3>2
  <2> QED BY <1>1, <1>3, <2>1, <2>2, <2>3, <2>4
<1>7. p.qty + s \in Int
  BY <1>2, <1>3
<1>8. PICK side \in BOOLEAN : side = r.short
  BY <1>1
<1>9. ASSUME ~turned'[side] PROVE CostBetween(side)'
  <2>1. p.qty + s = 0 \/ (~turned[side] /\ ~(p.qty + s < 0))
    BY <1>4, <1>8, <1>9, Zenon
  <2>2. CASE p.qty + s = 0
    BY <1>4, <1>8, <2>2 DEF CostBetween
  <2>3. CASE p.qty + s > 0 /\ ~turned[side]
    <3>1. ~turned[r.short]
      BY <1>8, <2>3, Zenon
    <3>2. /\ \E x \in opened'[side] : x <= CostAfter(p, s, px)
          /\ \E x \in opened'[side] : x >= CostAfter(p, s, px)
      BY <1>6, <1>8, <2>3, <3>1
    <3>3. pos'[side].qty = p.qty + s /\ pos'[side].entry = CostAfter(p, s, px)
      BY <1>4, <1>8
    <3>4. pos'[side].qty >= 0
      BY <1>7, <2>3, <3>3
    <3> QED BY <3>2, <3>3, <3>4 DEF CostBetween
  <2> QED BY <1>7, <2>1, <2>2, <2>3
<1>10. pos'[side].entry \in Int
  BY <1>4, <1>5, <1>8
<1>11. ASSUME NEW short \in BOOLEAN, short # side
       PROVE  pos'[short].entry \in Int /\ (~turned'[short] => CostBetween(short)')
  <2>1. /\ pos'[short] = pos[short] /\ opened'[short] = opened[short]
        /\ turned'[short] = turned[short]
    BY <1>4, <1>8, <1>11
  <2>2. CostBetween(short)' = CostBetween(short)
    BY <2>1 DEF CostBetween
  <2>3. pos[short].entry \in Int /\ (~turned[short] => CostBetween(short))
    BY Zenon DEF CostInv
  <2> QED BY <2>1, <2>2, <2>3, Zenon
<1>12. ASSUME NEW short \in BOOLEAN
       PROVE  pos'[short].entry \in Int /\ (~turned'[short] => CostBetween(short)')
  BY <1>9, <1>10, <1>11, Zenon
<1> QED BY <1>12, Zenon DEF CostInv

LEMMA InitCost == Init => BookInv /\ CostInv
<1> SUFFICES ASSUME Init PROVE CostInv
  BY InitBook
<1>1. \A short \in BOOLEAN : pos[short].qty = 0 /\ pos[short].entry = 0
  BY DEF Init, NoPx
<1> QED BY <1>1 DEF CostInv, CostBetween

\* Only a fill changes a cost price, and no order is filled that is not new.
LEMMA NextCost ==
  ASSUME "sent" \notin Ticking
  PROVE  BookInv /\ CostInv /\ [Next]_vars => (BookInv /\ CostInv)'
<1> SUFFICES ASSUME BookInv, CostInv, [Next]_vars PROVE CostInv'
  BY NextBook
<1>1. CASE UNCHANGED <<pos, opened, turned>>
  BY <1>1 DEF CostInv, CostBetween
<1>2. ASSUME NEW o \in OrderId, MatchOrder(o) PROVE CostInv'
  <2>1. CASE Trades(o)
    <3>1. /\ FillOrder(o, FillPx(orders[o], bar)) /\ orders[o].st = "new" /\ bar.on
      BY <1>2, <2>1 DEF MatchOrder, Trades, Live
    <3>2. FillPx(orders[o], bar) \in Prices
      BY <3>1, MatchPrice
    <3> QED BY <3>1, <3>2, FillCost
  <2>2. CASE ~Trades(o)
    BY <1>1, <1>2, <2>2 DEF MatchOrder
  <2> QED BY <2>1, <2>2
<1>3. CASE CloseFill
  <2>1. /\ FillOrder(closing.oid, closing.px) /\ closing.oid \in OrderId
        /\ closing.px \in Prices /\ orders[closing.oid].st = "new"
    BY <1>3 DEF CloseFill, BookInv, CloseOrder
  <2> QED BY <2>1, FillCost
<1>4. CASE Market
  BY <1>1, <1>2, <1>4 DEF Market, PriceMove, BarDone
<1>5. CASE Bot
  BY <1>1, <1>3, <1>5 DEF Bot, PlaceLimit, CancelOrder, CloseRead, CloseSend, CloseReset
<1> QED BY <1>1, <1>4, <1>5 DEF Next, vars

\* The simulated exchange keeps its types, through fills at any price of a
\* jump and of positions that a forced close has turned round.
THEOREM TypesKept == ASSUME "sent" \notin Ticking PROVE Spec => []TypeOK
<1>1. ASSUME BookInv, CostInv PROVE TypeOK
  <2>1. /\ pos = [short \in BOOLEAN |-> [qty |-> pos[short].qty, entry |-> pos[short].entry]]
        /\ \A short \in BOOLEAN : pos[short].qty \in Int /\ pos[short].entry \in Int
    BY <1>1 DEF BookInv, BookTypes, CostInv
  <2>2. pos \in [BOOLEAN -> [qty : Int, entry : Int]]
    BY <2>1
  <2> QED BY <1>1, <2>2, Zenon DEF BookInv, BookTypes, TypeOK
<1> QED BY <1>1, InitCost, NextCost, PTL DEF Spec

\* The cost price of a position stays between the lowest and the highest price
\* at which it was opened, for all quantities and prices, in any matching order
\* and also when the price moves before or after a forced close.
THEOREM CostIsBetweenOpens == ASSUME "sent" \notin Ticking PROVE Spec => []CostWithinOpens
<1>1. BookInv /\ CostInv => CostWithinOpens
  BY DEF CostInv, CostBetween, CostWithinOpens
<1> QED BY <1>1, InitCost, NextCost, PTL DEF Spec
=============================================================================
