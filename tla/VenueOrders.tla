---------------------------- MODULE VenueOrders ----------------------------
(***************************************************************************)
(* Orders on their way through an exchange adapter: what the grid engine   *)
(* and the stop loss ask for in coins, what binance_futures.go,            *)
(* binance_spot.go and okx.go send in the exchange's own units and on its  *)
(* steps, and what they report back.                                       *)
(*                                                                         *)
(* A slot stands for a grid level with the exit order of its position: it  *)
(* has one order at a time.  Quantities are counted in a unit of which     *)
(* every exchange step is a multiple, prices likewise.  Which calls fail,  *)
(* and orders cancelled by hand, are GridEngine's subject; here a call     *)
(* that fails is a step not taken.                                         *)
(***************************************************************************)
EXTENDS Integers, FiniteSets, Functions

CONSTANTS
  Slots,
  Venues,   \* the exchange accounts that may be bound
  One,      \* quantity units in a coin
  Sizes,    \* quantities the engine computes for an entry order, not rounded
  Levels,   \* prices of grid levels, not rounded
  Spacing

\* exfactory.Build: an adapter by type and by position mode.  An order unit
\* is ctVal quantity units; orders are multiples of lot order units, no fewer
\* than min, at multiples of tick.
Venue ==
  [type : {"binance_futures", "binance_spot", "okx", "okx_spot"}, hedge : BOOLEAN,
   ctVal : Nat \ {0}, lot : Nat \ {0}, min : Nat, tick : Nat \ {0}]
IsSpot(v) == v.type \in {"binance_spot", "okx_spot"}

\* Only contracts are worth several units; no spot account has two sides; a
\* spacing is at least a tick (the code does not see to it).
ASSUME VenueOrdersAssumption ==
  /\ IsFiniteSet(Slots)
  /\ One \in Nat \ {0} /\ Spacing \in Nat
  /\ Sizes \subseteq Nat \ {0} /\ Levels \subseteq Nat
  /\ Venues \subseteq Venue
  /\ \A v \in Venues : /\ v.type # "okx" => v.ctVal = 1
                       /\ IsSpot(v) => ~v.hedge
                       /\ v.min <= v.lot
                       /\ v.tick <= Spacing

VARIABLES
  venue,
  level,   \* the engine's record of each slot
  order,   \* the exchange's record of each slot's order
  account  \* order units held: by direction in hedge mode, else under FALSE

vars == <<venue, level, order, account>>

\* "got" and "paid" are history: what the entry order really traded.
Level == [st : {"empty", "entry", "held", "exit"}, qty : Int, px : Int, short : BOOLEAN,
          got : Int, paid : Int]
Order == [st : {"none", "live", "filled"}, buy : BOOLEAN, leg : BOOLEAN, reduce : BOOLEAN,
          px : Int, sz : Int, filled : Int, avg : Int]
NoLevel == [st |-> "empty", qty |-> 0, px |-> 0, short |-> FALSE, got |-> 0, paid |-> 0]
NoOrder == [st |-> "none", buy |-> FALSE, leg |-> FALSE, reduce |-> FALSE, px |-> 0,
            sz |-> 0, filled |-> 0, avg |-> 0]

-----------------------------------------------------------------------------
(* PlaceOrder of the adapters                                              *)

\* Mutant of RoundTo: rounded up to the next step.
MutRoundTo(x, step) == ((x + step) \div step) * step

\* roundToStep: to the nearest multiple.
RoundTo(x, step) == ((2 * x + step) \div (2 * step)) * step

Price(px) == RoundTo(px, venue.tick)

\* Mutant of Size: contracts are bought by the coin.
MutSize(qty) == RoundTo(qty, venue.lot)

\* Coins to order units.  OKX orders at least its minimum.
Size(qty) ==
  LET n == RoundTo(qty, venue.ctVal * venue.lot) \div venue.ctVal
  IN  IF venue.type \in {"okx", "okx_spot"} /\ n < venue.min THEN venue.min ELSE n

\* Mutant of Leg: positionSide is not sent.
MutLeg(short) == FALSE

\* positionSide, posSide: the direction is named in hedge mode only.
Leg(short) == venue.hedge /\ short

\* Mutant of NewOrder: reduceOnly is not sent in one-way mode either.
MutNewOrder(buy, short, reduceOnly, px, qty) ==
  [st |-> "live", buy |-> buy, leg |-> Leg(short), reduce |-> FALSE,
   px |-> Price(px), sz |-> Size(qty), filled |-> 0, avg |-> 0]

\* reduceOnly, or side and direction in hedge mode, or the balance on a spot
\* market make an order a closing one.
NewOrder(buy, short, reduceOnly, px, qty) ==
  [st |-> "live", buy |-> buy, leg |-> Leg(short),
   reduce |-> reduceOnly /\ ~venue.hedge /\ ~IsSpot(venue),
   px |-> Price(px), sz |-> Size(qty), filled |-> 0, avg |-> 0]

\* placeMissingOrders and placeTakeProfit.
EntryOrder(px, qty, short) == NewOrder(~short, short, FALSE, px, qty)
ExitOrder(l) ==
  NewOrder(l.short, l.short, TRUE, IF l.short THEN l.px - Spacing ELSE l.px + Spacing, l.qty)

-----------------------------------------------------------------------------
(* The exchange                                                            *)

Adds(o) == o.buy # o.leg
Closes(o) == ~Adds(o) /\ (o.reduce \/ venue.hedge \/ IsSpot(venue))

\* What live closing orders are still to take from a side of the account.
Claimants(leg) ==
  {s \in Slots : order[s].st = "live" /\ Closes(order[s]) /\ order[s].leg = leg}
Claimed(leg) == SumFunction([s \in Claimants(leg) |-> order[s].sz - order[s].filled])

Accepts(o) ==
  /\ o.px > 0 /\ o.sz > 0 /\ o.sz >= venue.min
  /\ Closes(o) => Claimed(o.leg) + o.sz <= account[o.leg]

\* An order trades in one lot or all that is left of it, at one price: its
\* limit or, if that is where it starts, one tick better.
Trade(s) ==
  LET o == order[s]
      better == IF o.buy THEN o.px - venue.tick ELSE o.px + venue.tick
      rest == o.sz - o.filled
  IN  /\ o.st = "live"
      /\ \E n \in (1 .. rest) \cap {venue.lot, rest}, px \in {o.px, better} :
           /\ px > 0 /\ (o.filled > 0 => px = o.avg)
           /\ order' = [order EXCEPT ![s] =
                [o EXCEPT !.filled = @ + n, !.avg = px,
                          !.st = IF n = rest THEN "filled" ELSE "live"]]
           /\ account' = [account EXCEPT ![o.leg] = IF Adds(o) THEN @ + n ELSE @ - n]
      /\ UNCHANGED <<venue, level>>

-----------------------------------------------------------------------------
(* GetOrder and GetPositions of the adapters                               *)

\* A number of contracts reads as a number of coins.
NumberReported(n) == IF venue.type = "okx" THEN n * One ELSE n

\* parseBinanceOrder, parseBinanceSpotOrder and parseOKXOrders: quantities
\* are passed on as numbers; a spot order of Binance tells no average price.
Report(o) ==
  [filled |-> NumberReported(o.filled),
   avg    |-> IF venue.type = "binance_spot" THEN 0 ELSE o.avg]

\* Mutant of PositionQty: contracts are always taken for coins, as in Report.
MutPositionQty(short, meta) ==
  IF IsSpot(venue) THEN 0 ELSE NumberReported(account[Leg(short)])

\* The levels that hold a position of a direction.
OfSide(short) == {s \in Slots : level[s].st \in {"held", "exit"} /\ level[s].short = short}

\* currentPositions: GetPositions, or on a spot market the engine's
\* PositionSummary.  A one-way account is long here.  OKX asks for the worth of
\* a contract (meta) in a request of its own; GetPositions does not fail when
\* that one does, but counts a contract as a coin.
PositionQty(short, meta) ==
  IF IsSpot(venue) THEN SumFunction([s \in OfSide(short) |-> level[s].qty])
  ELSE IF ~venue.hedge /\ short THEN 0
  ELSE IF meta THEN account[Leg(short)] * venue.ctVal
  ELSE NumberReported(account[Leg(short)])

-----------------------------------------------------------------------------
(* The engine and the stop loss                                            *)

\* placeMissingOrders.  Shorts are for accounts in hedge mode, as the
\* adapters' comments demand.
PlaceEntry(s, px, qty, short) ==
  LET o == EntryOrder(px, qty, short)
  IN  /\ level[s].st = "empty" /\ (short => venue.hedge)
      /\ Accepts(o)
      /\ level' = [level EXCEPT ![s] =
           [st |-> "entry", qty |-> qty, px |-> px, short |-> short, got |-> 0, paid |-> 0]]
      /\ order' = [order EXCEPT ![s] = o]
      /\ UNCHANGED <<venue, account>>

\* placeExitFor for the position l; the exchange refuses the order, or the
\* call fails, and the position waits for ensureTakeProfits.
PlaceExit(s, l) ==
  \/ /\ Accepts(ExitOrder(l))
     /\ level' = [level EXCEPT ![s] = [l EXCEPT !.st = "exit"]]
     /\ order' = [order EXCEPT ![s] = ExitOrder(l)]
  \/ /\ level' = [level EXCEPT ![s] = l]
     /\ order' = [order EXCEPT ![s] = NoOrder]

\* onLevelFilled for an entry order: the reported quantity and average price
\* if there are any, else what the engine asked for.
EntryFilled(s) ==
  LET r == Report(order[s])
  IN  /\ level[s].st = "entry" /\ order[s].st = "filled"
      /\ PlaceExit(s, [level[s] EXCEPT
           !.st = "held",
           !.qty = IF r.filled > 0 THEN r.filled ELSE @,
           !.px  = IF r.avg > 0 THEN r.avg ELSE @,
           !.got = order[s].filled, !.paid = order[s].avg])
      /\ UNCHANGED <<venue, account>>

EnsureTakeProfit(s) ==
  /\ level[s].st = "held"
  /\ PlaceExit(s, level[s])
  /\ UNCHANGED <<venue, account>>

\* settleExit.
ExitFilled(s) ==
  /\ level[s].st = "exit" /\ order[s].st = "filled"
  /\ level' = [level EXCEPT ![s] = NoLevel]
  /\ order' = [order EXCEPT ![s] = NoOrder]
  /\ UNCHANGED <<venue, account>>

\* What a market order of n closes: on a spot market, where resting exit
\* orders lock the coins, all of it or it is refused; elsewhere no more than
\* there is.
Closable(n, leg) ==
  IF IsSpot(venue) THEN {n} \cap 1 .. (account[leg] - Claimed(leg))
  ELSE {IF n < account[leg] THEN n ELSE account[leg]}

\* checkStopLoss and ResetPositionSide: a market order for the position as it
\* was read, and every record of the direction goes.  The rest of a closing
\* order that has nothing left to close is cancelled.  Entries that fill
\* unseen are StopLoss's subject.
ForceClose(short) ==
  \E meta \in BOOLEAN :
    LET qty == PositionQty(short, meta)
        leg == Leg(short)
    IN  /\ short => venue.hedge
        /\ qty > 0 /\ Size(qty) > 0 /\ Size(qty) >= venue.min
        /\ \A s \in Slots :
             level[s].st = "entry" /\ level[s].short = short => order[s].filled = 0
        /\ \E n \in Closable(Size(qty), leg) : account' = [account EXCEPT ![leg] = @ - n]
        /\ level' = [s \in Slots |-> IF s \in OfSide(short) THEN NoLevel ELSE level[s]]
        /\ order' = [s \in Slots |-> IF s \in OfSide(short) THEN NoOrder ELSE order[s]]
        /\ UNCHANGED venue

Init ==
  /\ venue \in Venues
  /\ level = [s \in Slots |-> NoLevel]
  /\ order = [s \in Slots |-> NoOrder]
  /\ account = [leg \in BOOLEAN |-> 0]

Next ==
  \/ \E s \in Slots :
       \/ \E px \in Levels, qty \in Sizes, short \in BOOLEAN : PlaceEntry(s, px, qty, short)
       \/ Trade(s) \/ EntryFilled(s) \/ EnsureTakeProfit(s) \/ ExitFilled(s)
  \/ \E short \in BOOLEAN : ForceClose(short)
Spec == Init /\ [][Next]_vars

-----------------------------------------------------------------------------
(* Properties                                                              *)

VTypeOK ==
  /\ venue \in Venues
  /\ level \in [Slots -> Level]
  /\ order \in [Slots -> Order]
  /\ account \in [BOOLEAN -> Nat]

\* Quantities come back in the unit they were sent in.  They do not where a
\* contract is not worth one coin: okx.go converts what it sends and the
\* positions it reads, but not the orders it reads.
InCoins == venue.type = "okx" => venue.ctVal = One

\* Where quantities come back in coins, a take-profit order closes exactly
\* what its entry order bought, to the step, and one that is still to be
\* placed is acceptable to the exchange: the rounding of what was asked, the
\* minimum and the other exits never stand in its way.
ExitClosesEntry ==
  InCoins =>
    \A s \in Slots :
      /\ level[s].st = "exit" => order[s].sz = level[s].got
      /\ level[s].st = "held" => /\ ExitOrder(level[s]).sz = level[s].got
                                 /\ Accepts(ExitOrder(level[s]))

\* Sold above, or bought back below, what was really paid: although both
\* prices are rounded to the tick, each its own way, and although the price
\* paid is not reported on every exchange.
RoundTripProfits ==
  \A s \in Slots :
    level[s].st = "exit" => IF level[s].short THEN order[s].px < level[s].paid
                                              ELSE order[s].px > level[s].paid

\* On a derivatives market a forced close is for exactly what is held, if the
\* worth of a contract could be read or a contract is worth one coin: the
\* position read in coins turns back into the order units it came from.
CloseIsExact ==
  \A short, meta \in BOOLEAN :
    ~IsSpot(venue) /\ (meta \/ InCoins) /\ PositionQty(short, meta) > 0 =>
      Size(PositionQty(short, meta)) = account[Leg(short)]
=============================================================================
