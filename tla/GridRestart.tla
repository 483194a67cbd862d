---------------------------- MODULE GridRestart ----------------------------
(***************************************************************************)
(* The grid engine across restarts: its level table lives in memory only,  *)
(* its orders and positions live on the exchange.                          *)
(*                                                                         *)
(* The process may die between any two calls.  Its successor builds a new  *)
(* grid and runs Initialize of strategy/grid.go: it lists the open orders, *)
(* cancels the entry orders among them, adopts the take-profit orders as   *)
(* far as the position covers them, takes over what is left of the         *)
(* position and places the missing orders.  Every call to the exchange is  *)
(* a step, and orders fill between them.  On a spot market there is no     *)
(* position to ask for: every take-profit order is adopted, and coins no   *)
(* order sells are not found again.  A lot is large enough to be ordered,  *)
(* so that no remainder is below the exchange's minimum.                   *)
(***************************************************************************)
EXTENDS GridLedger

CONSTANTS
  Markets,     \* the market types the grid may have
  MaxCrashes,  \* bound: how often the process dies
  Costs        \* average costs the exchange may report for a position, the
               \* adopted part of it taken out

ASSUME GridRestartAssumption ==
  /\ Markets \subseteq {"futures", "spot"}
  /\ MaxCrashes \in Nat /\ Costs \subseteq Int

VARIABLES
  market,   \* MarketType of the configuration, which a restart keeps
  stage,    \* "up": OnTick runs; "down": no process; else the part of
            \* Initialize that runs next
  leftover, \* exit orders of the listing that are not adopted yet
  adopted,  \* adoption: lots adopted, by direction
  view,     \* the lots GetPositions returned, by direction, 0 once handled
  quiet,    \* history: since this Initialize began nothing traded or failed
  blind,    \* history: what the engine knows of its exit orders may be wrong,
            \* because Initialize went on without the listing or the
            \* positions, or refused to adopt one (all three are reported),
            \* or because the answer to one was lost
  crashes

restartVars == <<market, stage, leftover, adopted, view, quiet, blind, crashes>>
rVars == <<vars, restartVars>>

IsSpot == market = "spot"

NoLots   == [short \in BOOLEAN |-> 0]
Leftover == [oid : OrderId, qty : Nat, px : Int, short : BOOLEAN]

RTypeOK ==
  /\ market \in Markets
  /\ stage \in {"up", "down", "list", "clear", "caps", "adopt", "recheck", "reconcile"}
  /\ leftover \subseteq Leftover
  /\ adopted \in [BOOLEAN -> Nat]
  /\ view \in [BOOLEAN -> Nat]
  /\ quiet \in BOOLEAN /\ blind \in BOOLEAN
  /\ crashes \in 0 .. MaxCrashes

\* An exit order is live that the engine does not know it has placed.
ExitAnswerLost ==
  \E o \in OrderId : /\ orders[o].st = "none"
                     /\ orders'[o].st = "new" /\ orders'[o].kind = "exit"
                     /\ \A x \in ExitIdx : exits'[x].oid # o

-----------------------------------------------------------------------------
(* The process dies, and starts again                                      *)

\* Whatever OnTick or Initialize was doing; the exchange does not notice.
Crash ==
  /\ stage # "down" /\ crashes < MaxCrashes
  /\ crashes' = crashes + 1
  /\ stage' = "down"
  /\ entries' = [i \in EntryIdx |-> NoLevel]
  /\ exits' = [x \in ExitIdx |-> NoExit]
  /\ retry' = {} /\ pc' = "idle" /\ tickPx' = NoPx /\ todo' = {} /\ cancels' = {}
  /\ toSeat' = {} /\ oldToNew' = [i \in EntryIdx |-> NoId]
  /\ leftover' = {} /\ adopted' = NoLots /\ view' = NoLots /\ quiet' = FALSE
  /\ orders' = Kept(orders, entries', exits', cancels')
  /\ UNCHANGED <<grid, lossBooked, pos, blind>>

\* Initialize: klines and price are read and the grid is built.  If one of
\* the two reads errs, the next tick calls Initialize again.
Build(g, p) ==
  /\ stage = "down"
  /\ stage' = "list"
  /\ grid' = g
  /\ tickPx' = p
  /\ entries' = BuildLevels
  /\ quiet' = TRUE
  /\ UNCHANGED <<exits, retry, pc, todo, cancels, toSeat, oldToNew, lossBooked, orders, pos,
                 leftover, adopted, view, blind, crashes>>

-----------------------------------------------------------------------------
(* inheritExistingOrders                                                   *)

\* What of exit order o is still to be traded.
AsLeftover(o) ==
  [oid |-> o, qty |-> Untraded(o), px |-> orders[o].px, short |-> orders[o].short]

OursListed == {o \in OrderId : Listed(o)}
Adoptable  == {o \in OursListed : orders[o].kind = "exit" /\ Untraded(o) > 0}

\* Mutant of LeftoverEntries: the exit orders are cancelled too.
MutLeftoverEntries == cancels

\* The leftovers to cancel, isOurEntryOrder.
LeftoverEntries == {o \in cancels : orders[o].kind = "entry"}

\* GetOpenOrders.  If it errs nothing is cancelled and nothing adopted.
ListOrders ==
  /\ stage = "list"
  /\ \/ /\ stage' = "clear"
        /\ cancels' = OursListed
        /\ leftover' = {AsLeftover(o) : o \in Adoptable}
        /\ UNCHANGED <<quiet, blind>>
     \/ /\ "list" \in Failing
        /\ stage' = "recheck" /\ quiet' = FALSE /\ blind' = TRUE
        /\ UNCHANGED <<cancels, leftover>>
  /\ UNCHANGED <<entries, exits, grid, retry, pc, tickPx, todo, toSeat, oldToNew, lossBooked,
                 orders, pos, adopted, view, crashes>>

\* CancelOrder of a leftover; an error is only logged.
CancelLeftover(o) ==
  /\ stage = "clear" /\ o \in LeftoverEntries
  /\ cancels' = cancels \ {o}
  /\ \/ /\ orders[o].st = "new"
        /\ orders' = Kept([orders EXCEPT ![o].st = "canceled"], entries, exits, cancels')
        /\ UNCHANGED quiet
     \/ /\ orders[o].st # "new" \/ "cancel" \in Failing
        /\ orders' = Kept(orders, entries, exits, cancels')
        /\ quiet' = FALSE
  /\ UNCHANGED <<entries, exits, grid, retry, pc, tickPx, todo, toSeat, oldToNew, lossBooked,
                 pos, stage, leftover, adopted, view, blind, crashes>>

ClearDone ==
  /\ stage = "clear" /\ LeftoverEntries = {}
  /\ stage' = IF leftover = {} THEN "recheck" ELSE IF IsSpot THEN "adopt" ELSE "caps"
  /\ UNCHANGED <<vars, leftover, adopted, view, quiet, blind, crashes>>

\* GetPositions, for the caps.  If it errs no leftover is adopted.
ReadCaps ==
  /\ stage = "caps"
  /\ \/ /\ stage' = "adopt" /\ view' = pos
        /\ UNCHANGED <<cancels, orders, leftover, quiet, blind>>
     \/ /\ "positions" \in Failing
        /\ stage' = "recheck" /\ quiet' = FALSE /\ blind' = TRUE
        /\ leftover' = {} /\ cancels' = {}
        /\ orders' = Kept(orders, entries, exits, cancels')
        /\ UNCHANGED view
  /\ UNCHANGED <<entries, exits, grid, retry, pc, tickPx, todo, toSeat, oldToNew, lossBooked,
                 pos, adopted, crashes>>

\* The order of adoption: exits of longs by rising price, then exits of
\* shorts by falling price.
AdoptsBefore(a, b) ==
  \/ ~a.short /\ b.short
  \/ a.short = b.short /\ IF a.short THEN a.px > b.px ELSE a.px < b.px
IsNextLeftover(r) == r \in leftover /\ \A other \in leftover : ~AdoptsBefore(other, r)

\* Mutant of WithinCap: the exits adopted before are not counted.
MutWithinCap(r) == IsSpot \/ r.qty <= view[r.short]

WithinCap(r) == IsSpot \/ adopted[r.short] + r.qty <= view[r.short]

\* Mutant of CostOf: the two directions are mixed up.
MutCostOf(r) == IF r.short THEN r.px - grid.spacing ELSE r.px + grid.spacing

\* The cost an exit stands for: one spacing away from its price.
CostOf(r) == IF r.short THEN r.px + grid.spacing ELSE r.px - grid.spacing

\* seatEntry for the position behind r, and an exit level for r itself.
AdoptExit(r, k, x) ==
  /\ stage = "adopt" /\ IsNextLeftover(r) /\ WithinCap(r)
  /\ IsSeat(k, CostOf(r), r.short) /\ IsNextExit(x)
  /\ LET i == Dir(r.short) * k IN
       /\ entries' = [entries EXCEPT ![i] =
            [st |-> "held", oid |-> NoId, qty |-> r.qty, px |-> CostOf(r), short |-> r.short]]
       /\ exits' = [exits EXCEPT ![x] =
            [st |-> "open", oid |-> r.oid, qty |-> r.qty, px |-> r.px, short |-> r.short,
             pair |-> i]]
  /\ adopted' = [adopted EXCEPT ![r.short] = @ + r.qty]
  /\ leftover' = leftover \ {r}
  /\ cancels' = cancels \ {r.oid}
  /\ UNCHANGED <<grid, retry, pc, tickPx, todo, toSeat, oldToNew, lossBooked, orders, pos,
                 stage, view, quiet, blind, crashes>>

\* Too much for the position: neither adopted nor cancelled.
RefuseExit(r) ==
  /\ stage = "adopt" /\ IsNextLeftover(r) /\ ~WithinCap(r)
  /\ leftover' = leftover \ {r}
  /\ cancels' = cancels \ {r.oid}
  /\ blind' = TRUE
  /\ orders' = Kept(orders, entries, exits, cancels')
  /\ UNCHANGED <<entries, exits, grid, retry, pc, tickPx, todo, toSeat, oldToNew, lossBooked,
                 pos, stage, adopted, view, quiet, crashes>>

AdoptDone ==
  /\ stage = "adopt" /\ leftover = {}
  /\ stage' = "recheck"
  /\ UNCHANGED <<vars, leftover, adopted, view, quiet, blind, crashes>>

-----------------------------------------------------------------------------
(* reconcileExistingPositions                                              *)

\* GetPositions once more.  If it errs, or there is none to ask, nothing is
\* taken over.
Recheck ==
  /\ stage = "recheck"
  /\ stage' = "reconcile"
  /\ \/ ~IsSpot /\ view' = pos /\ UNCHANGED quiet
     \/ IsSpot /\ view' = NoLots /\ UNCHANGED quiet
     \/ ~IsSpot /\ "positions" \in Failing /\ view' = NoLots /\ quiet' = FALSE
  /\ UNCHANGED <<vars, leftover, adopted, blind, crashes>>

\* Mutant of Remainder: the adopted exits are forgotten.
MutRemainder(short) == view[short]

\* What of the position no adopted exit closes.
Remainder(short) == view[short] - adopted[short]

Covers(short) ==
  /\ stage = "reconcile" /\ view[short] > 0 /\ Remainder(short) <= 0
  /\ view' = [view EXCEPT ![short] = 0]
  /\ UNCHANGED <<vars, stage, leftover, adopted, quiet, blind, crashes>>

\* seatEntry and placeExitFor for the remainder, as one position.
TakeOver(short, cost, k) ==
  /\ stage = "reconcile" /\ view[short] > 0 /\ Remainder(short) > 0
  /\ IsSeat(k, cost, short)
  /\ PlaceExitFor(Dir(short) * k, [entries EXCEPT ![Dir(short) * k] =
       [st |-> "held", oid |-> NoId, qty |-> Remainder(short), px |-> cost,
        short |-> short]])
  /\ view' = [view EXCEPT ![short] = 0]
  /\ quiet' = (quiet /\ exits' # exits)
  /\ blind' = (blind \/ ExitAnswerLost)
  /\ UNCHANGED <<grid, pc, tickPx, todo, cancels, toSeat, oldToNew, lossBooked, pos,
                 stage, leftover, adopted, crashes>>

\* On to placeMissingOrders, with the price read at the beginning.
InitializeDone ==
  /\ stage = "reconcile" /\ view = NoLots
  /\ stage' = "up" /\ adopted' = NoLots /\ quiet' = FALSE
  /\ pc' = "place" /\ todo' = Missing(entries, tickPx) /\ tickPx' = NoPx
  /\ UNCHANGED <<entries, exits, grid, retry, cancels, toSeat, oldToNew, lossBooked,
                 orders, pos, leftover, view, blind, crashes>>

-----------------------------------------------------------------------------
Initialize ==
  \/ \E g \in Grids, p \in Prices : Build(g, p)
  \/ ListOrders
  \/ \E o \in OrderId : CancelLeftover(o)
  \/ ClearDone
  \/ ReadCaps
  \/ \E r \in leftover :
       \/ RefuseExit(r)
       \/ \E k \in 1 .. N + Overflow, x \in ExitIdx : AdoptExit(r, k, x)
  \/ AdoptDone
  \/ Recheck
  \/ \E short \in BOOLEAN :
       \/ Covers(short)
       \/ \E cost \in Costs, k \in 1 .. N + Overflow : TakeOver(short, cost, k)
  \/ InitializeDone

RInit ==
  /\ Init
  /\ market \in Markets /\ (IsSpot => ~Neutral)
  /\ stage = "up" /\ leftover = {} /\ adopted = NoLots /\ view = NoLots
  /\ quiet = FALSE /\ blind = FALSE /\ crashes = 0
RNext ==
  /\ UNCHANGED market
  /\ \/ Initialize
     \/ Crash
     \/ /\ stage = "up" /\ OnTick
        /\ blind' = (blind \/ ExitAnswerLost)
        /\ UNCHANGED <<stage, leftover, adopted, view, quiet, crashes>>
     \/ /\ World
        /\ quiet' = (quiet /\ orders' = orders)
        /\ UNCHANGED <<stage, leftover, adopted, view, blind, crashes>>
RSpec == RInit /\ [][RNext]_rVars

-----------------------------------------------------------------------------
(* Properties                                                              *)

\* A restart that nothing disturbs puts the books right, whatever went wrong
\* before it: every lot of the account is a recorded position (on a spot
\* market every lot that an order is to sell), every position has a
\* take-profit order, no entry order is left over, and every take-profit
\* order still live is adopted unless there were too many.
QuietRestartExact ==
  stage = "reconcile" /\ view = NoLots /\ quiet =>
    /\ \A short \in BOOLEAN : Believed(short) = IF IsSpot THEN Closing(short) ELSE pos[short]
    /\ \A i \in HeldIdx : Covered(i)
    /\ EntryOrders = {}
    /\ \A o \in OrderId :
         orders[o].st = "new" => \/ \E x \in OpenExits : exits[x].oid = o
                                 \/ Closing(orders[o].short) > pos[orders[o].short]

\* Whatever trades while a restart runs, and wherever the listing, the
\* cancellations and the two reads of the positions fall between the trades,
\* the engine never believes in a lot the account does not have: no position
\* is both restored from an exit order and taken over.  Excepted is what
\* "blind" names: an exit order it refused stays live, and what it would have
\* closed may get a second one.
RestartNoPhantom == ~blind => NoPhantom
=============================================================================
