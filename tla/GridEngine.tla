----------------------------- MODULE GridEngine -----------------------------
(***************************************************************************)
(* The grid engine of strategy/grid.go and the exchange it trades on.      *)
(*                                                                         *)
(* The engine keeps a table of levels in memory and learns what happened   *)
(* on the exchange only by polling: a tick reads the price and the open    *)
(* orders, looks at every order that disappeared, may move the whole grid  *)
(* (recenter), then re-places what is missing.  Every call to the exchange *)
(* is a step of its own here, because orders fill between two of them.     *)
(*                                                                         *)
(* The level table of the code is one map; it is split by IsExitOrder into *)
(* "entries" (grid levels and overflow levels) and "exits" (take-profit    *)
(* orders, numbered from exitIndexBase up).  Prices are integers,          *)
(* quantities are counted in lots.  The market is free to move between two *)
(* reads, so it has no variable: any resting order may fill, and a tick    *)
(* may see any price of Prices.                                            *)
(***************************************************************************)
EXTENDS Integers, FiniteSets

CONSTANTS
  N,              \* Config.GridCount: levels on each side of the center
  Overflow,       \* bound: overflow levels on each side
  ExitBase,       \* exitIndexBase
  MaxExits,       \* bound: take-profit orders at a time
  MaxOrders,      \* bound: orders the exchange remembers at a time
  MaxExposure,    \* bound: levels' worth of positions and entry orders the
                  \* account has margin for
  Lots,           \* lots of one grid order; more than 1 allows partial fills
  Grids,          \* the [center, spacing] pairs the klines may yield
  Prices,         \* the prices a tick may read
  Threshold,      \* Config.RecenterThresholdGrids
  Neutral,        \* Config.Mode = ModeNeutral
  Failing,        \* which calls may go wrong, a subset of Calls
  EchoesClientId  \* the open order list names orders by the id we gave them

\* "query" GetOrder errs; "place" PlaceOrder is refused; "lost" PlaceOrder
\* succeeds but its answer is an error; "cancel" CancelOrder errs; "manual"
\* the order is cancelled by its owner or by the exchange; "list" and
\* "positions" GetOpenOrders and GetPositions err during Initialize; "close"
\* a forced close trades but its answer is an error.
Calls == {"query", "place", "lost", "cancel", "manual", "list", "positions", "close"}

ASSUME GridEngineAssumption ==
  /\ N \in Nat \ {0} /\ Overflow \in Nat /\ MaxExits \in Nat
  /\ MaxOrders \in Nat /\ MaxExposure \in Nat /\ Lots \in Nat \ {0}
  /\ ExitBase \in Nat /\ ExitBase > N + Overflow
  /\ Grids # {} /\ Grids \subseteq [center : Int, spacing : Nat \ {0}]
  /\ Prices \subseteq Int /\ Threshold \in Nat
  /\ Neutral \in BOOLEAN /\ EchoesClientId \in BOOLEAN
  /\ Failing \subseteq Calls

GridIdx  == (-N .. N) \ {0}
EntryIdx == (-(N + Overflow) .. N + Overflow) \ {0}
ExitIdx  == ExitBase .. ExitBase + MaxExits - 1
OrderId  == 1 .. MaxOrders
NoId     == 0
NoPx     == 0

VARIABLES
  entries,   \* levels that are not exits: grid and overflow levels
  exits,     \* exit levels
  grid,      \* Engine.center and Engine.spacing
  retry,     \* tpRetryAfter: entries whose exit order is in backoff
  pc,        \* which part of OnTick runs next; "idle" between ticks
  tickPx,    \* ticker.Price of this tick until its last use, else NoPx
  todo,      \* levels the current loop of OnTick still has to visit
  cancels,   \* listed orders recenter has yet to cancel, or Initialize to
             \* cancel or adopt
  toSeat,    \* recenter: heldEntries not yet seated
  oldToNew,  \* recenter: the map of the same name; NoId where undefined
  lossBooked,\* realizedPnL, abstracted to: a settlement did not add to it
  orders,    \* the exchange: its orders
  pos        \* the exchange: lots held, by direction (TRUE is short)

engineVars == <<entries, exits, grid, retry, pc, tickPx, todo, cancels,
                toSeat, oldToNew, lossBooked>>
vars == <<engineVars, orders, pos>>

NoLevel    == [st |-> "none", oid |-> NoId, qty |-> 0, px |-> 0, short |-> FALSE]
EmptyLevel == [st |-> "empty", oid |-> NoId, qty |-> 0, px |-> 0, short |-> FALSE]
NoExit     == [st |-> "none", oid |-> NoId, qty |-> 0, px |-> 0,
               short |-> FALSE, pair |-> NoId]
NoOrder    == [st |-> "none", kind |-> "entry", short |-> FALSE,
               px |-> 0, qty |-> 0, filled |-> 0]

EntryLevel == [st : {"none", "empty", "open", "held"}, oid : OrderId \cup {NoId},
               qty : Nat, px : Int, short : BOOLEAN]
ExitLevel  == [st : {"none", "open"}, oid : OrderId \cup {NoId}, qty : Nat,
               px : Int, short : BOOLEAN, pair : EntryIdx \cup {NoId}]
Holding    == [old : EntryIdx, qty : Nat, px : Int, short : BOOLEAN]
Order      == [st : {"none", "new", "filled", "canceled"}, kind : {"entry", "exit"},
               short : BOOLEAN, px : Int, qty : Nat, filled : Nat]

TypeOK ==
  /\ entries \in [EntryIdx -> EntryLevel]
  /\ exits \in [ExitIdx -> ExitLevel]
  /\ grid \in Grids
  /\ retry \subseteq EntryIdx
  /\ pc \in {"idle", "scan", "cancel", "seat", "ensure", "place"}
  /\ tickPx \in Prices \cup {NoPx}
  /\ todo \subseteq EntryIdx \cup ExitIdx
  /\ cancels \subseteq OrderId
  /\ toSeat \subseteq Holding
  /\ oldToNew \in [EntryIdx -> EntryIdx \cup {NoId}]
  /\ lossBooked \in BOOLEAN
  /\ orders \in [OrderId -> Order]
  /\ pos \in [BOOLEAN -> Nat]

-----------------------------------------------------------------------------
(* Operators of the level table                                            *)

Held(i)    == entries[i].st = "held"
HeldIdx    == {i \in EntryIdx : Held(i)}
OpenExits  == {x \in ExitIdx : exits[x].st = "open"}
Covered(i) == \E x \in OpenExits : exits[x].pair = i      \* findExitFor # nil

LevelPx(i) == grid.center + i * grid.spacing
BuildLevels == [i \in EntryIdx |-> IF i \in GridIdx THEN EmptyLevel ELSE NoLevel]

\* Mutant of Released: settleExit forgets to release the position.
MutReleased(i) == entries[i]

\* releaseEntry: a grid level becomes empty, an overflow level is deleted.
Released(i) == IF i \in GridIdx THEN EmptyLevel ELSE NoLevel

\* Mutants of ExitPx: the exit of every position at the center of the grid
\* in force; the exit of a short on the wrong side of its cost.
MutExitPxCenter(e) == grid.center
MutExitPxUp(e) == e.px + grid.spacing

\* The take-profit price of a position: its own cost plus one spacing, or
\* minus one for a short.
ExitPx(e) == IF e.short THEN e.px - grid.spacing ELSE e.px + grid.spacing

\* Closing at "px" what was opened at "cost" earns money.
Profitable(short, cost, px) == IF short THEN px < cost ELSE px > cost

\* The first exit number no exit uses.
IsNextExit(x) ==
  /\ exits[x].st = "none"
  /\ \A y \in ExitIdx : y < x => exits[y].st # "none"

\* Longs sit below the center, shorts above it: rank k is level -k or k.
Dir(short) == IF short THEN 1 ELSE -1
Dist(a, b) == IF a < b THEN b - a ELSE a - b

\* math.Round of the distance to the center in spacings, clamped to 1..N.
SeatRank(px) ==
  LET r == (2 * Dist(px, grid.center) + grid.spacing) \div (2 * grid.spacing)
  IN  IF r < 1 THEN 1 ELSE IF r > N THEN N ELSE r

\* Mutant of InnerSeats: a level that holds a position counts as free.
MutInnerSeats(px, short) ==
  {k \in 1 .. N : /\ IF short THEN px > grid.center ELSE px < grid.center
                  /\ k >= SeatRank(px)}

\* The free ranks seatEntry would take: the grid from the nearest level
\* outwards when the cost lies on the side where such entries are opened,
\* else the overflow levels.
InnerSeats(px, short) ==
  {k \in 1 .. N : /\ IF short THEN px > grid.center ELSE px < grid.center
                  /\ k >= SeatRank(px)
                  /\ entries[Dir(short) * k].st = "empty"}
OuterSeats(short) ==
  {k \in N + 1 .. N + Overflow : entries[Dir(short) * k].st = "none"}
Seats(px, short) ==
  IF InnerSeats(px, short) # {} THEN InnerSeats(px, short) ELSE OuterSeats(short)
IsSeat(k, px, short) ==
  k \in Seats(px, short) /\ \A j \in Seats(px, short) : k <= j

First(i) == i \in todo /\ \A j \in todo : i <= j

-----------------------------------------------------------------------------
(* Calls to the exchange                                                   *)

\* The exchange keeps a finished order only while the engine may still ask
\* about it.  This recycles ids and is no behaviour of the exchange.
Kept(os, ents, exs, cs) ==
  [o \in OrderId |->
     IF /\ os[o].st \in {"filled", "canceled"}
        /\ o \notin cs
        /\ \A i \in EntryIdx : ents[i].oid # o
        /\ \A x \in ExitIdx : exs[x].oid # o
     THEN NoOrder ELSE os[o]]

FreeSlot(s) == orders[s].st = "none" /\ \A t \in OrderId : t < s => orders[t].st # "none"
NewOrder(kind, short, px, qty) ==
  [st |-> "new", kind |-> kind, short |-> short, px |-> px, qty |-> qty, filled |-> 0]

\* Mutant of Traded: the first partial fill is reported as a complete one.
MutTraded(r) == [r EXCEPT !.st = "filled", !.filled = r.qty]

\* Order r after one more lot of it has traded.
Traded(r) ==
  [st |-> IF r.filled + 1 = r.qty THEN "filled" ELSE "new", kind |-> r.kind,
   short |-> r.short, px |-> r.px, qty |-> r.qty, filled |-> r.filled + 1]

\* Bound: the account has margin for MaxExposure levels.
EntryOrders == {o \in OrderId : orders[o].st = "new" /\ orders[o].kind = "entry"}
MarginLeft ==
  pos[TRUE] + pos[FALSE] + Lots * Cardinality(EntryOrders) < Lots * MaxExposure

\* Mutant of Listed: the query returns finished orders too.
MutListed(o) == orders[o].st # "canceled"

\* The open order list holds the engine's order o under the engine's id.
Listed(o) == orders[o].st = "new" /\ EchoesClientId

\* placeExitFor and placeTakeProfit for the position at level i; "ents" is
\* the table with that position in it.  A position that has its exit, or is
\* in backoff, is left alone.
PlaceExitFor(i, ents) ==
  LET e  == ents[i]
      tp == ExitPx(e)
      order == NewOrder("exit", e.short, tp, e.qty)
  IN  /\ entries' = ents
      /\ \/ /\ Covered(i) \/ i \in retry \/ tp <= 0
            /\ UNCHANGED <<exits, retry>>
            /\ orders' = Kept(orders, ents, exits, cancels)
         \/ /\ ~Covered(i) /\ i \notin retry /\ tp > 0
            /\ \/ \E s \in OrderId, x \in ExitIdx :          \* accepted
                    /\ FreeSlot(s) /\ IsNextExit(x)
                    /\ exits' = [exits EXCEPT ![x] =
                         [st |-> "open", oid |-> s, qty |-> e.qty, px |-> tp,
                          short |-> e.short, pair |-> i]]
                    /\ retry' = retry \ {i}
                    /\ orders' = Kept([orders EXCEPT ![s] = order], ents, exits', cancels)
               \/ /\ \/ "place" \in Failing                  \* refused
                     \/ \A s \in OrderId : orders[s].st # "none"
                     \/ \A x \in ExitIdx : exits[x].st # "none"
                  /\ retry' = retry \cup {i}
                  /\ UNCHANGED exits
                  /\ orders' = Kept(orders, ents, exits, cancels)
               \/ \E s \in OrderId :                         \* answer lost
                    /\ "lost" \in Failing /\ FreeSlot(s)
                    /\ retry' = retry \cup {i}
                    /\ UNCHANGED exits
                    /\ orders' = Kept([orders EXCEPT ![s] = order], ents, exits, cancels)

-----------------------------------------------------------------------------
(* OnTick, part 1: GetTicker and GetOpenOrders, then every open level that *)
(* is no longer listed.  If one of the two calls errs the tick ends with   *)
(* nothing changed.                                                        *)

TickStart(p) ==
  /\ pc = "idle"
  /\ pc' = "scan"
  /\ tickPx' = p
  /\ todo' = {i \in EntryIdx : entries[i].st = "open" /\ ~Listed(entries[i].oid)}
               \cup {x \in OpenExits : ~Listed(exits[x].oid)}
  /\ UNCHANGED <<entries, exits, grid, retry, cancels, toSeat, oldToNew, lossBooked,
                 orders, pos>>

\* GetOrder errs, or says the order is still live: keep the level as it is.
ScanKeep(i) ==
  /\ pc = "scan" /\ First(i)
  /\ \/ "query" \in Failing
     \/ orders[IF i \in EntryIdx THEN entries[i].oid ELSE exits[i].oid].st = "new"
  /\ todo' = todo \ {i}
  /\ UNCHANGED <<entries, exits, grid, retry, pc, tickPx, cancels, toSeat, oldToNew,
                 lossBooked, orders, pos>>

\* onLevelFilled for an entry order: record the position, place its exit.
EntryFilled(i) ==
  /\ pc = "scan" /\ First(i) /\ i \in EntryIdx
  /\ LET o == orders[entries[i].oid] IN
       /\ o.st = "filled"
       /\ PlaceExitFor(i, [entries EXCEPT ![i] =
            [st |-> "held", oid |-> NoId, qty |-> o.filled, px |-> o.px, short |-> @.short]])
  /\ todo' = todo \ {i}
  /\ UNCHANGED <<grid, pc, tickPx, cancels, toSeat, oldToNew, lossBooked, pos>>

\* onLevelFilled and settleExit for a take-profit order: book the profit
\* against the paired position and release it.
ExitFilled(x) ==
  /\ pc = "scan" /\ First(x) /\ x \in ExitIdx
  /\ LET o == orders[exits[x].oid]
         e == exits[x].pair
     IN  /\ o.st = "filled"
         /\ exits' = [exits EXCEPT ![x] = NoExit]
         /\ IF e \in EntryIdx /\ Held(e)
            THEN /\ entries' = [entries EXCEPT ![e] = Released(e)]
                 /\ retry' = retry \ {e}
                 /\ lossBooked' =
                      (lossBooked \/ ~Profitable(entries[e].short, entries[e].px, o.px))
            ELSE UNCHANGED <<entries, retry, lossBooked>>
  /\ todo' = todo \ {x}
  /\ orders' = Kept(orders, entries', exits', cancels)
  /\ UNCHANGED <<grid, pc, tickPx, cancels, toSeat, oldToNew, pos>>

\* A cancelled entry order leaves an empty level, whatever it had filled.
EntryCanceled(i) ==
  /\ pc = "scan" /\ First(i) /\ i \in EntryIdx
  /\ orders[entries[i].oid].st = "canceled"
  /\ entries' = [entries EXCEPT ![i] = EmptyLevel]
  /\ todo' = todo \ {i}
  /\ orders' = Kept(orders, entries', exits, cancels)
  /\ UNCHANGED <<exits, grid, retry, pc, tickPx, cancels, toSeat, oldToNew, lossBooked, pos>>

\* A cancelled exit order is forgotten; ensureTakeProfits places a new one.
ExitCanceled(x) ==
  /\ pc = "scan" /\ First(x) /\ x \in ExitIdx
  /\ orders[exits[x].oid].st = "canceled"
  /\ exits' = [exits EXCEPT ![x] = NoExit]
  /\ todo' = todo \ {x}
  /\ orders' = Kept(orders, entries, exits', cancels)
  /\ UNCHANGED <<entries, grid, retry, pc, tickPx, cancels, toSeat, oldToNew, lossBooked, pos>>

-----------------------------------------------------------------------------
(* OnTick, part 2: recenter                                                *)

\* Mutant of UncoveredIn: only longs are looked at.
MutUncoveredIn(exs) ==
  {i \in HeldIdx : /\ ~entries[i].short
                   /\ \A x \in ExitIdx : exs[x].st = "open" => exs[x].pair # i}

UncoveredIn(exs) ==
  {i \in HeldIdx : \A x \in ExitIdx : exs[x].st = "open" => exs[x].pair # i}

\* The deviation is too small, or the cooldown is not over, or one of the
\* two reads at the head of recenter errs: on to ensureTakeProfits.
SkipRecenter ==
  /\ pc = "scan" /\ todo = {}
  /\ pc' = "ensure"
  /\ todo' = UncoveredIn(exits)
  /\ UNCHANGED <<entries, exits, grid, retry, tickPx, cancels, toSeat, oldToNew,
                 lossBooked, orders, pos>>

\* Mutant of ToCancel: shorts only.
MutToCancelShorts == {o \in EntryOrders : orders[o].short}

\* The listed orders recenter cancels: entry orders only, isOurEntryOrder.
ToCancel == {o \in EntryOrders : EchoesClientId}

\* shouldRecenter with the cooldown over, GetKlines and GetOpenOrders.
RecenterStart ==
  /\ pc = "scan" /\ todo = {}
  /\ Dist(tickPx, grid.center) >= Threshold * grid.spacing
  /\ pc' = "cancel"
  /\ cancels' = ToCancel
  /\ UNCHANGED <<entries, exits, grid, retry, tickPx, todo, toSeat, oldToNew, lossBooked,
                 orders, pos>>

\* CancelOrder of one listed entry order.  An order that has filled in the
\* meantime stays filled; an error is only logged.
RecenterCancel(o) ==
  /\ pc = "cancel" /\ o \in cancels
  /\ cancels' = cancels \ {o}
  /\ \/ orders[o].st = "new" /\ orders' =
          Kept([orders EXCEPT ![o].st = "canceled"], entries, exits, cancels')
     \/ /\ orders[o].st # "new" \/ "cancel" \in Failing
        /\ orders' = Kept(orders, entries, exits, cancels')
  /\ UNCHANGED <<entries, exits, grid, retry, pc, tickPx, todo, toSeat, oldToNew,
                 lossBooked, pos>>

\* buildLevels wipes the whole table; the positions live on in heldEntries.
RecenterBuild(g) ==
  /\ pc = "cancel" /\ cancels = {}
  /\ pc' = "seat"
  /\ grid' = g
  /\ toSeat' = {[old |-> i, qty |-> entries[i].qty, px |-> entries[i].px,
                 short |-> entries[i].short] : i \in HeldIdx}
  /\ oldToNew' = [i \in EntryIdx |-> NoId]
  /\ entries' = BuildLevels
  /\ retry' = {}
  /\ orders' = Kept(orders, entries', exits, cancels)
  /\ UNCHANGED <<exits, tickPx, todo, cancels, lossBooked, pos>>

\* The order of heldEntries: longs first by falling cost, then shorts by
\* rising cost; ties in the order of the map's iteration, that is any.
SeatsBefore(a, b) ==
  \/ ~a.short /\ b.short
  \/ a.short = b.short /\ IF a.short THEN a.px < b.px ELSE a.px > b.px

\* seatEntry for the next position of heldEntries.
SeatEntry(h, k) ==
  /\ pc = "seat" /\ h \in toSeat
  /\ \A other \in toSeat : ~SeatsBefore(other, h)
  /\ IsSeat(k, h.px, h.short)
  /\ entries' = [entries EXCEPT ![Dir(h.short) * k] =
       [st |-> "held", oid |-> NoId, qty |-> h.qty, px |-> h.px, short |-> h.short]]
  /\ oldToNew' = [oldToNew EXCEPT ![h.old] = Dir(h.short) * k]
  /\ toSeat' = toSeat \ {h}
  /\ UNCHANGED <<exits, grid, retry, pc, tickPx, todo, cancels, lossBooked, orders, pos>>

\* Mutant of Repaired: the pair index keeps naming the old level.
MutRepaired(x) == exits[x]

\* The exits are put back, each paired with the new level of its position.
Repaired(x) ==
  IF exits[x].st = "open" /\ exits[x].pair \in EntryIdx /\ oldToNew[exits[x].pair] # NoId
  THEN [exits[x] EXCEPT !.pair = oldToNew[@]]
  ELSE exits[x]

RecenterDone ==
  /\ pc = "seat" /\ toSeat = {}
  /\ exits' = [x \in ExitIdx |-> Repaired(x)]
  /\ oldToNew' = [i \in EntryIdx |-> NoId]
  /\ pc' = "ensure"
  /\ todo' = UncoveredIn(exits')
  /\ UNCHANGED <<entries, grid, retry, tickPx, cancels, toSeat, lossBooked, orders, pos>>

-----------------------------------------------------------------------------
(* OnTick, parts 3 and 4: ensureTakeProfits and placeMissingOrders         *)

EnsureTakeProfit(i) ==
  /\ pc = "ensure" /\ First(i)
  /\ PlaceExitFor(i, entries)
  /\ todo' = todo \ {i}
  /\ UNCHANGED <<grid, pc, tickPx, cancels, toSeat, oldToNew, lossBooked, pos>>

\* Mutant of Missing: the loop over the grid does not skip the center.
MutMissing(ents, p) ==
  {i \in -N .. N : \/ i = 0
                   \/ /\ ents[i].st = "empty"
                      /\ \/ i < 0 /\ LevelPx(i) < p
                         \/ i > 0 /\ Neutral /\ LevelPx(i) > p}

\* The levels placeMissingOrders places an order at, seeing price p on grid
\* table ents.
Missing(ents, p) ==
  {i \in GridIdx : /\ ents[i].st = "empty"
                   /\ \/ i < 0 /\ LevelPx(i) < p
                      \/ i > 0 /\ Neutral /\ LevelPx(i) > p}

EnsureDone ==
  /\ pc = "ensure" /\ todo = {}
  /\ pc' = "place"
  /\ todo' = Missing(entries, tickPx)
  /\ tickPx' = NoPx
  /\ UNCHANGED <<entries, exits, grid, retry, cancels, toSeat, oldToNew,
                 lossBooked, orders, pos>>

PlaceMissing(i) ==
  /\ pc = "place" /\ First(i)
  /\ todo' = todo \ {i}
  /\ LET order == NewOrder("entry", i > 0, LevelPx(i), Lots) IN
     \/ \E s \in OrderId :                                   \* accepted
          /\ FreeSlot(s) /\ MarginLeft
          /\ orders' = [orders EXCEPT ![s] = order]
          /\ entries' = [entries EXCEPT ![i] =
               [st |-> "open", oid |-> s, qty |-> Lots, px |-> 0, short |-> i > 0]]
     \/ /\ "place" \in Failing \/ ~MarginLeft                \* refused
           \/ \A s \in OrderId : orders[s].st # "none"
        /\ UNCHANGED <<entries, orders>>
     \/ \E s \in OrderId :                                   \* answer lost
          /\ "lost" \in Failing /\ FreeSlot(s) /\ MarginLeft
          /\ orders' = [orders EXCEPT ![s] = order]
          /\ UNCHANGED entries
  /\ UNCHANGED <<exits, grid, retry, pc, tickPx, cancels, toSeat, oldToNew, lossBooked, pos>>

TickEnd ==
  /\ pc = "place" /\ todo = {}
  /\ pc' = "idle"
  /\ UNCHANGED <<entries, exits, grid, retry, tickPx, todo, cancels, toSeat, oldToNew,
                 lossBooked, orders, pos>>

-----------------------------------------------------------------------------
(* The world outside the engine                                            *)

\* The exchange acts between the engine's calls.  Seating makes no call, so
\* what happens during it may as well happen after it.
ExchangeActs == pc # "seat"

\* One lot of a resting order trades at its limit price.  An exit is reduce
\* only: it needs a position to reduce.
Fill(o) ==
  /\ ExchangeActs
  /\ orders[o].st = "new"
  /\ LET r == orders[o] IN
       /\ r.kind = "exit" => pos[r.short] > 0
       /\ pos' = [pos EXCEPT ![r.short] = IF r.kind = "entry" THEN @ + 1 ELSE @ - 1]
       /\ orders' = Kept([orders EXCEPT ![o] = Traded(r)], entries, exits, cancels)
  /\ UNCHANGED engineVars

\* The owner or the exchange cancels an order.
ManualCancel(o) ==
  /\ ExchangeActs
  /\ "manual" \in Failing
  /\ orders[o].st = "new"
  /\ orders' = Kept([orders EXCEPT ![o].st = "canceled"], entries, exits, cancels)
  /\ UNCHANGED <<engineVars, pos>>

\* tpRetryBackoff passes; ticks and backoff have no common clock.
BackoffOver(i) ==
  /\ pc = "idle"
  /\ i \in retry
  /\ retry' = retry \ {i}
  /\ UNCHANGED <<entries, exits, grid, pc, tickPx, todo, cancels, toSeat, oldToNew,
                 lossBooked, orders, pos>>

-----------------------------------------------------------------------------
\* Initialize on an account without orders and positions: the grid is built
\* and placeMissingOrders is about to run.
Init ==
  /\ grid \in Grids
  /\ tickPx = NoPx
  /\ entries = BuildLevels
  /\ exits = [x \in ExitIdx |-> NoExit]
  /\ retry = {} /\ cancels = {} /\ toSeat = {} /\ lossBooked = FALSE
  /\ oldToNew = [i \in EntryIdx |-> NoId]
  /\ orders = [o \in OrderId |-> NoOrder]
  /\ pos = [short \in BOOLEAN |-> 0]
  /\ pc = "place"
  /\ \E p \in Prices : todo = Missing(entries, p)

Scan == \E i \in EntryIdx \cup ExitIdx :
  ScanKeep(i) \/ EntryFilled(i) \/ ExitFilled(i) \/ EntryCanceled(i) \/ ExitCanceled(i)
Recenter ==
  \/ SkipRecenter
  \/ RecenterStart
  \/ \E o \in OrderId : RecenterCancel(o)
  \/ \E g \in Grids : RecenterBuild(g)
  \/ \E h \in toSeat, k \in 1 .. N + Overflow : SeatEntry(h, k)
  \/ RecenterDone
Replace ==
  \/ \E i \in EntryIdx : EnsureTakeProfit(i) \/ PlaceMissing(i)
  \/ EnsureDone
  \/ TickEnd
OnTick == (\E p \in Prices : TickStart(p)) \/ Scan \/ Recenter \/ Replace
World  ==
  \/ \E o \in OrderId : Fill(o) \/ ManualCancel(o)
  \/ \E i \in EntryIdx : BackoffOver(i)

Next == OnTick \/ World
Spec == Init /\ [][Next]_vars

\* runLoop keeps ticking, and a call that is made again and again succeeds
\* some time: GetOrder for each order, PlaceOrder for each position's exit.
\* Backoffs end, since they are measured on the clock.
Fairness ==
  /\ WF_vars(OnTick)
  /\ \A i \in EntryIdx :
       /\ SF_vars(EntryFilled(i) \/ EntryCanceled(i))
       /\ SF_vars(EnsureTakeProfit(i) /\ exits' # exits)
       /\ SF_vars(BackoffOver(i))
  /\ \A x \in ExitIdx : SF_vars(ExitFilled(x) \/ ExitCanceled(x))
FairSpec == Spec /\ Fairness
-----------------------------------------------------------------------------
(* Properties of the level table                                           *)

\* Every open take-profit level belongs to exactly one held position, of the
\* same direction and size, also after recenter has moved the positions to
\* other levels (settleExit releases whatever level the pair index names).
PairingSound ==
  pc # "seat" =>
    \A x \in OpenExits :
      /\ exits[x].pair \in HeldIdx
      /\ exits[x].short = entries[exits[x].pair].short
      /\ exits[x].qty = entries[exits[x].pair].qty
      /\ \A y \in OpenExits : exits[y].pair = exits[x].pair => y = x

\* A take-profit order sells above, or buys back below, the cost of the
\* position it is paired with, whatever grid it was placed on and whatever
\* grid is in force now.
ExitBeatsCost ==
  pc # "seat" =>
    \A x \in OpenExits :
      Profitable(exits[x].short, entries[exits[x].pair].px, exits[x].px)

\* settleExit never books a loss: the price it settles at and the cost it
\* settles against are those of one position.
NoLossBooked == ~lossBooked

\* After ensureTakeProfits no position is naked without a retry scheduled
\* (a short so cheap that its exit price would not be positive has none).
UncoveredAwaitsRetry ==
  pc = "place" =>
    \A i \in HeldIdx : Covered(i) \/ i \in retry \/ ExitPx(entries[i]) <= 0

\* Every entry order live on the exchange is the order of exactly one open
\* level: recenter leaves no orphan order behind and doubles none.
LiveEntryOwned ==
  \A o \in EntryOrders :
    \E i \in EntryIdx : /\ entries[i].st = "open" /\ entries[i].oid = o
                        /\ \A j \in EntryIdx : entries[j].oid = o => j = i

\* Only the market, or its owner, ends a take-profit order: no step of the
\* engine cancels one that is live, not even when it restarts.
ExitOrdersSurvive ==
  [][engineVars' # engineVars =>
       \A o \in OrderId :
         orders[o].st = "new" /\ orders[o].kind = "exit" => orders'[o] = orders[o]]_vars

\* Every position gets its take-profit order in the end, however often the
\* order is refused, and every fill is noticed in the end, however often
\* the query about it fails.
NakedGetsCovered ==
  \A i \in EntryIdx : (Held(i) /\ ~Covered(i)) ~> Covered(i)
FillGetsNoticed ==
  \A o \in OrderId : (orders[o].st = "filled") ~> (orders[o].st # "filled")
=============================================================================
