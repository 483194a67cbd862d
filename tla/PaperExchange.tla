--------------------------- MODULE PaperExchange ---------------------------
(***************************************************************************)
(* The simulated exchange of exchange/paper.go for one symbol: the order   *)
(* book, the matching of a price move, and the positions' cost prices.     *)
(*                                                                         *)
(* A price move is matched under the exchange's mutex, one order after the *)
(* other in the order of a map's iteration; "bar" is set meanwhile and     *)
(* keeps every caller out.  The caller is the grid bot: limit orders that  *)
(* open a position or take profit on one, and the forced close, which      *)
(* reads the position, sells it by a market order and then cancels the     *)
(* take-profits.  PlaceOrder gives up the mutex between entering a market  *)
(* order in the book and filling it.                                       *)
(*                                                                         *)
(* The exchange does not look at ReduceOnly.  That the bot has no more     *)
(* take-profits resting than there is position is the bot's doing, and an  *)
(* assumption here: BacksExits.                                            *)
(***************************************************************************)
EXTENDS Integers, FiniteSets, Functions

CONSTANTS
  Prices,    \* prices of the market and of limit orders
  Qtys,      \* order quantities
  MaxOrders, \* bound: orders ever placed
  BacksExits, \* the bot takes profit on no more than the position
  Ticking    \* the steps of a forced close between which StartAutoTick's
             \* goroutine may move the price

ASSUME PaperExchangeAssumption ==
  /\ Prices \subseteq Nat \ {0} /\ Qtys \subseteq Nat \ {0} /\ MaxOrders \in Nat
  /\ Ticking \subseteq {"read", "sent", "closed"} /\ BacksExits \in BOOLEAN

VARIABLES
  price,   \* symbolPrice
  orders,  \* the orders placed so far
  pos,     \* quantity and cost price of the long and of the short position
  bar,     \* the price range being matched and the orders still to look at
  closing, \* the forced close in progress
  opened,  \* history: prices at which the present position was opened
  turned   \* history: the present position has been below zero

vars == <<price, orders, pos, bar, closing, opened, turned>>

OrderId == 1 .. MaxOrders
NoPx    == 0
NoBar   == [low |-> NoPx, high |-> NoPx, todo |-> {}, on |-> FALSE]
NotClosing == [step |-> "none", short |-> FALSE, qty |-> 0, oid |-> 0, px |-> NoPx]
NoOrder == [st |-> "none", type |-> "limit", opens |-> FALSE, short |-> FALSE,
            px |-> NoPx, qty |-> 0, fill |-> NoPx]

\* The cost price after a division by zero: infinite or not a number.
Undefined == -1

Order ==
  [st : {"none", "new", "filled", "canceled"}, type : {"limit", "market"},
   opens : BOOLEAN, short : BOOLEAN, px : Prices \cup {NoPx},
   qty : Nat, fill : Prices \cup {NoPx}]

TypeOK ==
  /\ price \in Prices
  /\ orders \in [OrderId -> Order]
  /\ pos \in [BOOLEAN -> [qty : Int, entry : Int]]
  /\ bar \in [low : Prices \cup {NoPx}, high : Prices \cup {NoPx},
              todo : SUBSET OrderId, on : BOOLEAN]
  /\ closing \in [step : {"none", "read", "sent", "closed"}, short : BOOLEAN,
                  qty : Int, oid : OrderId \cup {0}, px : Prices \cup {NoPx}]
  /\ opened \in [BOOLEAN -> SUBSET Prices]
  /\ turned \in [BOOLEAN -> BOOLEAN]

-----------------------------------------------------------------------------
(* Matching and filling                                                    *)

Lower(a, b)  == IF a < b THEN a ELSE b
Higher(a, b) == IF a < b THEN b ELSE a

\* Opening a long and closing a short buy; the other two sell.
Buys(r) == r.opens # r.short
Live(o) == orders[o].st = "new"

\* A limit order trades when the bar reaches its price; a market order left
\* in the book trades whatever the price.
Reached(r, b) ==
  \/ r.type = "market"
  \/ Buys(r) /\ r.px >= b.low
  \/ ~Buys(r) /\ r.px <= b.high

\* Mutants of FillPx: at the far end of the bar; with slippage.
MutFillPx(r, b) ==
  IF r.type = "market" THEN price ELSE IF Buys(r) THEN b.high ELSE b.low
MutFillPxSlip(r, b) ==
  IF r.type = "market" THEN price
  ELSE IF Buys(r) THEN Lower(r.px, b.high) + 1 ELSE Higher(r.px, b.low)

FillPx(r, b) ==
  IF r.type = "market" THEN price
  ELSE IF Buys(r) THEN Lower(r.px, b.high) ELSE Higher(r.px, b.low)

\* Average of two prices by quantity, rounded down; the quantity may be that
\* of a position turned round, and negative.
Weighted(px, qty, addPx, addQty) ==
  LET sum == px * qty + addPx * addQty
      all == qty + addQty
  IN  IF all = 0 THEN Undefined ELSE IF all > 0 THEN sum \div all ELSE (-sum) \div (-all)

\* Mutant of CostAfter: reducing goes through the weighted average as well.
MutCostAfter(p, signed, px) ==
  IF p.qty = 0 THEN px ELSE Weighted(p.entry, p.qty, px, signed)

\* fillOrder's cost price of position p after a fill of "signed" at px:
\* opened, added to, reversed, reduced.
CostAfter(p, signed, px) ==
  IF p.qty = 0 THEN px
  ELSE IF signed > 0 THEN Weighted(p.entry, p.qty, px, signed)
  ELSE IF p.qty + signed < 0 THEN px
  ELSE p.entry

\* Mutant of Signed: a sale reduces a short as well.
MutSigned(r) == IF Buys(r) THEN r.qty ELSE -r.qty

Signed(r) == IF r.opens THEN r.qty ELSE -r.qty

\* fillOrder.  It does not ask whether the order has been filled before, nor
\* whether it was meant to reduce only.
FillOrder(o, px) ==
  LET r == orders[o]
      p == pos[r.short]
      q == p.qty + Signed(r)
  IN  /\ orders' = [orders EXCEPT ![o].st = "filled", ![o].fill = px]
      /\ pos' = [pos EXCEPT ![r.short] =
                   [qty |-> q, entry |-> CostAfter(p, Signed(r), px)]]
      /\ opened' = [opened EXCEPT ![r.short] =
                      IF q = 0 THEN {} ELSE IF r.opens THEN @ \cup {px} ELSE @]
      /\ turned' = [turned EXCEPT ![r.short] = q # 0 /\ (@ \/ q < 0)]

-----------------------------------------------------------------------------
(* The market: Tick and InjectPrice                                        *)

MayTick == closing.step \in Ticking \cup {"none"}

PriceMove(p) ==
  /\ MayTick /\ ~bar.on
  /\ price' = p
  /\ bar' = [low |-> Lower(price, p), high |-> Higher(price, p),
             todo |-> {o \in OrderId : Live(o)}, on |-> TRUE]
  /\ UNCHANGED <<orders, pos, closing, opened, turned>>

\* matchOrders looks at each order once, in any order.
Trades(o) == Reached(orders[o], bar) /\ Live(o)
MatchOrder(o) ==
  /\ bar.on /\ o \in bar.todo
  /\ bar' = [bar EXCEPT !.todo = @ \ {o}]
  /\ IF Trades(o) THEN FillOrder(o, FillPx(orders[o], bar))
     ELSE UNCHANGED <<orders, pos, opened, turned>>
  /\ UNCHANGED <<price, closing>>
BarDone ==
  /\ bar.on /\ bar.todo = {}
  /\ bar' = NoBar
  /\ UNCHANGED <<price, orders, pos, closing, opened, turned>>

-----------------------------------------------------------------------------
(* The grid bot                                                            *)

IsNextId(o) == orders[o].st = "none" /\ \A u \in OrderId : u < o => orders[u].st # "none"
LiveExits(short) ==
  {o \in OrderId : Live(o) /\ ~orders[o].opens /\ orders[o].short = short}
Closing(short) == SumFunction([o \in LiveExits(short) |-> orders[o].qty])

\* PlaceOrder of a limit order.  The engine's take-profits together do not
\* exceed the position (ExitsWithinPosition of GridLedger), but for a fill
\* that a forced close has overtaken (RecordsCleared of StopLoss).
PlaceLimit(opens, short, px, qty) ==
  /\ ~bar.on /\ closing.step = "none"
  /\ BacksExits /\ ~opens => Closing(short) + qty <= pos[short].qty
  /\ \E o \in OrderId :
       /\ IsNextId(o)
       /\ orders' = [orders EXCEPT ![o] =
            [st |-> "new", type |-> "limit", opens |-> opens, short |-> short,
             px |-> px, qty |-> qty, fill |-> NoPx]]
  /\ UNCHANGED <<price, pos, bar, closing, opened, turned>>

Canceled(o) == [orders EXCEPT ![o].st = IF @ = "new" THEN "canceled" ELSE @]
CancelOrder(o) ==
  /\ ~bar.on /\ closing.step = "none" /\ Live(o)
  /\ orders' = Canceled(o)
  /\ UNCHANGED <<price, pos, bar, closing, opened, turned>>

\* checkStopLoss: GetPositions, then PlaceOrder in its two parts, then
\* ResetPositionSide.
CloseRead(short) ==
  /\ ~bar.on /\ closing.step = "none" /\ pos[short].qty > 0
  /\ \E o \in OrderId : IsNextId(o)                        \* bound
  /\ closing' = [NotClosing EXCEPT !.step = "read", !.short = short, !.qty = pos[short].qty]
  /\ UNCHANGED <<price, orders, pos, bar, opened, turned>>
CloseSend ==
  /\ ~bar.on /\ closing.step = "read"
  /\ \E o \in OrderId :
       /\ IsNextId(o)
       /\ orders' = [orders EXCEPT ![o] =
            [st |-> "new", type |-> "market", opens |-> FALSE, short |-> closing.short,
             px |-> NoPx, qty |-> closing.qty, fill |-> NoPx]]
       /\ closing' = [closing EXCEPT !.step = "sent", !.oid = o, !.px = price]
  /\ UNCHANGED <<price, pos, bar, opened, turned>>
CloseFill ==
  /\ ~bar.on /\ closing.step = "sent"
  /\ FillOrder(closing.oid, closing.px)
  /\ closing' = [closing EXCEPT !.step = "closed"]
  /\ UNCHANGED <<price, bar>>
CloseReset ==
  /\ ~bar.on /\ closing.step = "closed"
  /\ LET exits == LiveExits(closing.short)
     IN  IF exits = {} THEN closing' = NotClosing /\ UNCHANGED orders
         ELSE /\ \E o \in exits : orders' = Canceled(o)
              /\ UNCHANGED closing
  /\ UNCHANGED <<price, pos, bar, opened, turned>>

Init ==
  /\ price \in Prices
  /\ orders = [o \in OrderId |-> NoOrder]
  /\ pos = [short \in BOOLEAN |-> [qty |-> 0, entry |-> NoPx]]
  /\ bar = NoBar /\ closing = NotClosing
  /\ opened = [short \in BOOLEAN |-> {}]
  /\ turned = [short \in BOOLEAN |-> FALSE]

Market == (\E p \in Prices : PriceMove(p)) \/ (\E o \in OrderId : MatchOrder(o)) \/ BarDone
Bot ==
  \/ \E opens, short \in BOOLEAN, px \in Prices, qty \in Qtys :
       PlaceLimit(opens, short, px, qty)
  \/ \E o \in OrderId : CancelOrder(o)
  \/ \E short \in BOOLEAN : CloseRead(short)
  \/ CloseSend \/ CloseFill \/ CloseReset

Next == Market \/ Bot
Spec == Init /\ [][Next]_vars

-----------------------------------------------------------------------------
(* Properties                                                              *)

FilledOf(short) == {o \in OrderId : orders[o].st = "filled" /\ orders[o].short = short}

\* A position is the signed sum of the orders that were filled: every fill
\* is applied to it, and applied once.
PositionIsSum ==
  \A short \in BOOLEAN :
    pos[short].qty =
      SumFunction([o \in FilledOf(short) |->
                     IF orders[o].opens THEN orders[o].qty ELSE -orders[o].qty])

\* The cost price lies between the lowest and the highest price at which the
\* position was opened, however often it was reduced in between: stop loss
\* and margin are computed from it.  A position that a forced close turned
\* round is excepted until it is flat again: its cost mixes both directions.
CostWithinOpens ==
  \A short \in BOOLEAN :
    pos[short].qty > 0 /\ ~turned[short] =>
      /\ \E px \in opened[short] : px <= pos[short].entry
      /\ \E px \in opened[short] : px >= pos[short].entry

\* A limit order never trades at a price worse than its own, also when the
\* price jumps over it.
LimitHonoured ==
  \A o \in OrderId :
    orders[o].st = "filled" /\ orders[o].type = "limit" =>
      IF Buys(orders[o]) THEN orders[o].fill <= orders[o].px
                         ELSE orders[o].fill >= orders[o].px

\* Take-profits alone never turn a position round, whatever price jump reaches
\* them and in whatever order: a position passes zero only inside a forced
\* close of that side, which sells what it read before the price moved.
ReversedOnlyInClose ==
  [][\A short \in BOOLEAN :
       pos[short].qty >= 0 /\ pos'[short].qty < 0
         => closing.step # "none" /\ closing.short = short]_vars

\* A market order that sells all of a position leaves nothing of it.
ClosedIsFlat ==
  [][closing.step = "sent" /\ closing'.step = "closed" => pos'[closing.short].qty = 0]_vars
=============================================================================
