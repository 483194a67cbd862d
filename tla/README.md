# A verification of the grid bot

TLA+ models of the trading core of this repository, the runs in which TLC checks
them, and theorems about them that TLAPS checks. Paths are relative to the
repository; line numbers are those of the commit the models were written from.

1. [The system](#1-the-system)
2. [Modules](#2-modules)
3. [How the models abstract the code](#3-how-the-models-abstract-the-code)
4. [Runs](#4-runs)
5. [Fairness](#5-fairness)
6. [Proofs](#6-proofs)
7. [Where the code and its comments disagree](#7-where-the-code-and-its-comments-disagree)
8. [Not modelled](#8-not-modelled)
9. [Plan](#9-plan)

## 1. The system

The program trades grids: on each symbol it places buy orders below a center price
(and sell orders above it in neutral mode), and for every order that fills it places
an order that closes the position at a profit.

| Component | State | Operations | Hard behaviour |
|---|---|---|---|
| **Grid engine** `strategy/grid.go` | level table, center and spacing, retry times, realized profit | `Initialize` (with `inheritExistingOrders`, `reconcileExistingPositions`), `OnTick` (scan, `onLevelFilled`, `settleExit`, `recenter`, `ensureTakeProfits`, `placeMissingOrders`), `ResetPositionSide` | learns of fills by polling only; orders fill between any two calls; calls fail, are refused, lose their answer; recenter rebuilds the table while positions and their exits live on; after a restart the table is rebuilt from what the exchange lists |
| **Stop loss** `manager.checkStopLoss` | none of its own | reads positions, closes a direction, resets the engine | works on the exchange's positions while the table lags behind |
| **Manager** `manager/manager.go` | traders by symbol, exchange in use | `StartGrid`, `StopGrid`, `DeleteGrid`, `SetExchange`, `runLoop`, `tick` | one goroutine a grid, requests concurrent to them, locks given up in the middle, automatic pause |
| **HTTP handlers** `server/server.go` | none | create, stop, delete, bind, activate, unbind | each is several manager and store calls |
| **Store** `store/store.go` | grid rows, profit rows, active exchange, credentials | one SQL statement or transaction each | what survives a crash |
| **Startup** `main.go` | none | `startupExchange`, `restoreGrids` | reads what a crash left |
| **Risk guard** `risk/*.go` | circuit breaker | `PlaceOrder` = read account, `Evaluate`, send | shared by all traders, no lock over the three steps; orders rest that no level knows of |
| **Simulated exchange** `exchange/paper.go` | orders, positions, price | `PlaceOrder`, `CancelOrder`, `Tick` | the mutex is given up inside `PlaceOrder`; random matching order |
| **Adapters** `exchange/binance_futures.go`, `binance_spot.go`, `okx.go` | none that matters here | `PlaceOrder`, `GetOrder`, `GetPositions`, `CancelOrder` | coins and contracts, steps and minimums, hedge and one-way accounts, what an exchange does not report, an answer made of two requests of which one fails |
| Indicators, accounts, configuration, web console | | | not modelled, see section 8 |

How they interact: a request reaches the manager, which starts or stops a trader; a
trader's goroutine runs `tick` on a timer: stop loss, then the engine's `OnTick`, then a
profit row. All orders of the engine pass the risk guard and then the adapter. The
manager's lock protects its table only; it is held in none of the calls to an exchange
made by a tick. The engine's mutable state belongs to its goroutine.

What makes each correct:

- engine: an exit belongs to one position, of its size and direction, and earns money on
  it; a position has an exit or is waiting to retry; nothing is lost when the grid moves;
  the books equal the account;
- restart: one that nothing disturbs puts the books right whatever went wrong before; no
  lot is both restored from its exit order and taken over from the position;
- stop loss: afterwards the table holds nothing of the closed direction, no exit is left
  on the exchange, and the other direction is untouched;
- manager: one grid per symbol, stopped grids end, a restart resumes what was running on
  the exchange that was in use, profit is counted once;
- guard: exposure is bounded, up to what lost answers and failed cancellations leave behind;
  no entry passes an active breaker;
- simulated exchange: each fill is applied once, at an honest price, with the right cost;
  what only reduces turns no position round;
- adapters: an exit closes exactly what was bought and earns on it, whatever the steps of
  the exchange; a forced close is for exactly what is held, if a contract's worth is known.

## 2. Modules

| Module | Models |
|---|---|
| `GridEngine` | the engine and the exchange around it: one action for each call `OnTick` makes, with the code that handles its answer |
| `PositionBook` | abstract specification: positions enter and leave a book one at a time |
| `GridLedger` | the engine's books against the account; the refinement mapping to `PositionBook` |
| `GridEngineInv`, `GridEngineProofs` | the engine's inductive invariant and its proof; the proof that the engine implements `PositionBook` |
| `GridRestart` | the engine across crashes: `Initialize` on an account with orders and positions |
| `GridRestartInv` | the inductive invariant of the restarting engine |
| `GridLedgerProofs` | the proofs about the books of the running engine, and all proofs about restarts |
| `SumTheorems` | what the sums of these books compute: lemmas on `SumFunctionOnSet` of the community modules |
| `StopLoss`, `StopLossProofs` | `checkStopLoss` and `ResetPositionSide` composed with `GridLedger`'s engine in one goroutine |
| `GridManager`, `GridManagerProofs` | manager, handlers, store and startup |
| `RiskGuard`, `RiskGuardProofs` | the guard with concurrent traders |
| `PaperExchange`, `PaperExchangeProofs` | the simulated exchange with the bot and its price ticker |
| `VenueOrders`, `VenueOrdersProofs` | an order through the adapters: units, rounding, sides, reports |
| `MC*` | constants of the instances TLC checks |

**GridEngine.** `entries` and `exits` are the code's one level map, split by
`IsExitOrder`; `grid` is `center` and `spacing`; `retry` is `tpRetryAfter`. `pc`, `todo`,
`tickPx`, `cancels`, `toSeat` and `oldToNew` are the local variables of `OnTick` and
`recenter`. A tick goes

```
idle -TickStart-> scan -SkipRecenter----------------> ensure -EnsureDone-> place -TickEnd-> idle
                    \-RecenterStart-> cancel -RecenterBuild-> seat -RecenterDone-/
```

with a step for each level or order a loop visits: `ScanKeep`, `EntryFilled`, `ExitFilled`,
`EntryCanceled`, `ExitCanceled` (`grid.go` 651-693), `RecenterCancel`, `SeatEntry`,
`EnsureTakeProfit`, `PlaceMissing`. Between them the exchange acts: `Fill`, `ManualCancel`.

**GridRestart** composes that engine with its own death. `Crash` may come between any two
calls, in `OnTick` or in `Initialize`; it forgets the table and leaves the exchange alone.
`stage` then walks through `Initialize`, one call to the exchange a step:

```
down -Build-> list -ListOrders-> clear -ClearDone-> caps -ReadCaps-> adopt -AdoptDone-> recheck
recheck -Recheck-> reconcile -InitializeDone-> up
```

A listing that fails, nothing to adopt, or a read of the positions that fails leads straight
to `recheck`. `clear` cancels one leftover entry order a step, `adopt` takes or refuses one leftover exit
a step in the code's order of prices, `reconcile` takes over what is left of the position,
a direction a step. On a spot market (`market`) the two reads of the positions are left out
and every exit is adopted. Orders fill between all of these. `quiet` and `blind` are histories,
read by the properties only.

**StopLoss** adds what `checkStopLoss` does before `OnTick` in the same goroutine:
`ReadPositions`, then per direction `ForceClose`, `LeaveOpen` (nothing to close, or refused)
or `CloseUnheard` (closed, but the answer was lost and the records stay), then `ResetEntry`
per position. `TickFails` is an `OnTick` that returns before it has looked at an order, so
that the next check comes without one.

**GridManager.** `table` and `tr` are the manager's map and the `Trader` objects with their
goroutines; `saved`, `pnl`, `active`, `creds` are the four tables; `op` is the local state
of each request between two of its steps. What runs under the manager's lock is one
step. A tick is its outcome only (`OnTickOk`, `OnTickErr`), plus `Settle` (the profit
grows), `Record` (the profit row) and `AutoPause`. `Restart` keeps the tables and clears
the rest.

**RiskGuard.** `ReadState`, `Evaluate`, `Send` are the three steps of
`GuardedExchange.PlaceOrder`; amounts are counted in grid orders. `open` and `taken` count a
symbol's levels by their own `Status`, which is all that `placeMissingOrders` looks at
(`grid.go` 539-546). `stray` counts entry orders that rest on the exchange and on no level:
those whose answer was lost (`Send`), that `Recenter` did not get cancelled, or that a
`Restart` left. They occupy no level; `strayed` is the part of the position they became.

**PaperExchange.** A price move sets `bar`; `MatchOrder` looks at each order in any order,
as Go iterates a map. `CloseRead`, `CloseSend`, `CloseFill`, `CloseReset` are a forced
close, cut where the mutex is free. `Ticking` says at which of these cuts the price may
move; in the program it may at all of them. `BacksExits` is an assumption on the caller: the
bot has no more take-profits resting than there is position. `paper.go` does not check it;
`ExitsWithinPosition` of `GridLedger` is the bot's side of it, and `StopLossPhantom` the case
in which the bot breaks it. `opened` and `turned` are history for `CostWithinOpens`: the prices
at which the present position was opened, and whether it has been below zero since it was flat.

**VenueOrders.** A slot is a grid level with the exit of its position. `level` is what the
engine believes, in its unit (coins); `order` and `account` are what the exchange has, in
its own (contracts of `ctVal`, in multiples of `lot`, at multiples of `tick`). `NewOrder`
is what `PlaceOrder` of the four adapters makes of an order, `Report` and `PositionQty`
what `GetOrder` and `GetPositions` make of the answer. OKX's `GetPositions` asks for the worth
of a contract in a second request (`okx.go` 605-609); `meta` says whether it was answered, and
`PositionQty` takes contracts for coins if not. `Accepts`, `Trade` and `Closable` stand for the
exchange and are external: it refuses sizes below its minimum and a closing order for more
than is there; a market order that only reduces closes no more than there is.

## 3. How the models abstract the code

- Prices are small integers and quantities are lots of one grid order. `ExitPx` and
  `SeatRank` do the code's arithmetic on them (rounding to the nearest level, clamping).
  Rounding to the exchange's tick and step sizes, and its units, are the subject of
  `VenueOrders` and of no other module.
- The market has no variable: any resting order may fill whenever the exchange acts, and a
  tick may read any price of `Prices`. Fills are at the limit price; real ones are at that
  price or a better one.
- `SkipRecenter` is always possible: it stands for a small deviation, a cooldown that is
  not over, and failing reads. `RecenterBuild` picks any grid of `Grids`: what EMA and ATR
  yield is free.
- `Failing` selects what may go wrong: a query, a placement refused, an answer lost, a
  cancellation, an order cancelled by hand. A `PlaceOrder` whose answer is lost has placed
  the order.
- `MaxExposure` stands for the account's margin, `MaxExits`, `Overflow` and `MaxOrders`
  are bounds. When one of the first three or the exchange's order slots are used up, the
  call is refused, which the code handles; it never blocks an action the code would take,
  with one exception: with no overflow level free, `SeatEntry` has no step. The instances
  have two, as many as there are positions.
- `Kept` and `Swept` forget what nobody refers to any more, so that identifiers can be
  used again. They are no behaviour of the code.
- Database writes succeed. A crash happens between two steps.
- `GridEngine` starts on an account without orders and positions; every other start is
  `GridRestart`'s. Leftover exits of equal direction and price are adopted in any order, and
  a lot is large enough to be ordered, so that no remainder is skipped as too small.
- `VenueOrders` assumes that a spacing is at least a tick and that a minimum is at most one
  lot (`VenueOrdersAssumption`). The code checks neither; the accounts of the instance are
  of the kind the exchanges have. After rounding to a step, quantities and prices are
  formatted to a number of decimals (`binance_futures.go` 536-541, `okx.go` 397-398, 415, 423);
  this is taken as exact, and steps of zero or less, which skip the rounding, are left out.
  An order trades at one price, its limit or a tick better, and shorts are for hedge-mode accounts, as the adapters' comments demand.
- `RiskGuard` counts whole grid orders against constant limits: positions are not revalued at
  the mark price (`manager.go:195`), and the equity is positive and constant; with an equity of
  zero or less `risk.go` 188-207 skips both ratios, so that only the breaker and the leverage
  refuse. Positions change by entries, take-profits and forced closes only. It is about
  derivatives: on spot markets the position is the engine's own record.
- `StopLoss` reads positions as on derivatives; what the engine's records yield on a spot
  market (`manager.go` 287-311) is in `VenueOrders` only.
- `GridManager` counts settlements: each adds one to the profit. The losses a forced close
  books (`manager.go:595`) would make it fall; `NoDoubleCount` asks how often an amount is
  counted, not of which sign it is.

## 4. Runs

All bounds are in the `.cfg` files. Deadlock is checked in every run.

| Run | Instance | States | Shows |
|---|---|---|---|
| `EngineRecenter` | neutral, 2 levels a side, centers 10 and 14, failing placements and cancellations | 619 thousand | `TypeOK`, `ExitBeatsCost`, `ExitsWithinPosition`, `UncoveredAwaitsRetry`, `NoLossBooked`, `NoPhantom`, `EscapesOnlyByRecenter`, and `ImplementsBook`: recentering neither moves, merges, resizes nor drops a position |
| `EngineLive` | neutral, no recenter, failing queries and placements, manual cancellations | 4 thousand | `LedgerExact`; every position is covered in the end (`NakedGetsCovered`), every fill is noticed (`FillGetsNoticed`) |
| `RestartSafe` | futures and spot, long only, 1 level a side, orders of 2 lots that trade in part, a crash at any step, failing placements, cancellations, listings and position reads, lost answers | 1.4 million | `RInv`, the invariant of the proofs; `QuietRestartExact`, `RestartNoPhantom`, `ExitOrdersSurvive` |
| `StopLossSafe` | neutral, 1 level a side, 2 grids, failing placements, forced close at any tick, its answer lost at times | 3.4 million | `SLTypeOK`, `LiveExitOwned`, `LiveEntryOwned`, `PairingSound`, `OtherSideUntouched` |
| `ManagerOneAdmin` | 2 symbols, 3 exchanges, 1 request at a time, crashes | 2.3 million | `TypeOK`, `RunningIsSaved`, `MarketMatches`, `RestartReconnects`, `SwitchStopsAll` |
| `ManagerLive` | 1 symbol, 2 concurrent requests, crashes | 451 thousand | `OneLoopPerSymbol`, `NoDoubleCount`, `CancelledLoopEnds` |
| `PaperFills` | 3 prices, 2 quantities, 3 orders, the price moves before and after the order of a forced close | 2.2 million | `TypeOK`, `PositionIsSum`, `CostWithinOpens`, `LimitHonoured`, and `ReversedOnlyInClose`: take-profits alone turn no position round |
| `RiskBound` | 2 symbols, 2 levels, 2 orders astray at a time, lost answers, failed cancellations, restarts | 643 thousand | `TypeOK`, `ExposureBounded`, `BreakerHoldsEntries` |
| `AdapterRoundTrip` | 8 accounts (4 adapters, both position modes, contracts of 1 to 12 units, 2 or 3 units a tick), 3 slots, contract worth read or not | 1.5 million | `VTypeOK`, `ExitClosesEntry`, `RoundTripProfits`, `CloseIsExact` |
| `EngineLostFill` | long only, 2 levels a side, 2 grids, no failures | | `LedgerExact` fails, section 7 |
| `StopLossPhantom` | long only, 1 level a side | | `RecordsCleared` fails, section 7 |
| `PaperDoubleFill` | 2 orders, the price moves inside the close | | `ClosedIsFlat` fails, section 7 |

Why these bounds are enough to be interesting: two positions and two grids are what it
takes for positions to compete for a level, to move into overflow levels and back, and for
a pair index to name the wrong one of two positions; one level a side already makes two
positions collide when clamped. Two requests and two traders are what a replaced grid, its
last tick and its successor need. Three orders at three prices are opening, adding to and
reducing a position in one price move. A restart needs no second grid (the new
one differs from the old by what fills, not by its prices) but lots that trade in part and a
position larger than its exits: three exits for two orders of two lots, and one crash, at
any step, the successor's restart included in what may fail. The sizes and prices of
`AdapterRoundTrip` are rounded up, down and to the minimum by one account or another. What the bounds leave open is what the proofs are
for.

Each property of a passing run has a mutant in `PROJECT.json`: a change to one mapped
definition, of the kind a bug in the code would be, under which TLC finds the property
violated.

`PaperFills` lets the price move before and after the order of a forced close, but not between
the two halves of placing it (`"sent"` is not in `Ticking`), where a position is no longer the
sum of its orders: that is `PaperDoubleFill`. Three orders do not hold a forced close of one
side together with exits of the other; `OnlyClosesReverse` covers any number. In `RiskBound` two levels
and a limit of two orders are enough for a call whose reading is old, for a level that is
free while its order still rests, and for the exposure to reach its bound; two orders astray
may be of one symbol or of two traders. `ManagerOneAdmin` has one request at
a time for the same reason.

## 5. Fairness

`GridEngine!Fairness`: weak fairness of `OnTick`, because `runLoop` ticks on a timer and a
tick has no waiting in it other than calls with timeouts; strong fairness of
the handling of each level's finished order and of the placing of each position's exit,
which says that a call that is repeated at tick after tick succeeds some time; fairness of
`BackoffOver`, because the backoff is measured on the clock. No fairness is assumed of the
market, of `Fill`, or of the recenter.

`GridManager!Fairness`: weak fairness of each goroutine inside a tick (exchange calls have
timeouts), and strong fairness of `LoopExit`: `select` chooses among its ready cases at
random, so a cancelled loop that comes back to it again and again takes the context's
branch some time. Requests are not fair.

## 6. Proofs

All are for every value of the constants that satisfies the named assumptions
`GridEngineAssumption`, `GridRestartAssumption`, `GridManagerAssumption`,
`RiskGuardAssumption`, `PaperExchangeAssumption`, `VenueOrdersAssumption`; TLC evaluates
these on its instances. A theorem with a further hypothesis says so in its statement.

**Engine** (`GridEngineProofs`). `Invariance` is `Spec => []IInv`; `TypeCorrect`, `Pairing`
(`PairingSound`), `ExitsProfit` (`ExitBeatsCost`) and `ProfitOnly` (`NoLossBooked`) follow.
They hold for any number of levels, any grids, partial fills, and all failures at once,
lost answers included, and for adapters that return other client ids
(`EchoesClientId = FALSE`). `PairingSound` alone is not inductive, for three reasons, each
a conjunct of `IInv`:

- while recenter moves the positions the table is not in order. `SeatTable` says what
  holds instead: the position of an exit is still in `toSeat`, or it is where `oldToNew`
  sends it; `oldToNew` is injective, and its targets are held. `Repaired` then restores
  `PairTable`;
- a loop works on a list it made earlier. `WorkFresh` says that a level on the list is
  still what it was, so that a scan does not record a position at a level in use and
  `placeMissingOrders` does not overwrite one;
- a settlement uses the order's price and the position's cost. `OpenRefs` ties an exit
  level to the order it names, so `ExitBeatsCost` carries over to what is booked.

There is a lemma per action, and lemmas for the operators they share (`PlaceExitFacts`,
`SeatFacts`, `KeptFacts`, ...). `NakedAwaitsRetry` (`UncoveredAwaitsRetry`) adds that
while `ensureTakeProfits` runs, every position without an exit is on its list.

**Refinement** (`GridEngineProofs`). `BookRefined` is `Spec => ImplementsBook`: every step
of the engine, recenter included, opens one position of the book, closes one, moves none,
or is a stutter. The mapping counts the positions of a kind on the table and on the way to
their new levels; the proof needs that this collection is finite and empty outside
recenter, and does its counting with the library's cardinality theorems. A mapping that
overlooked a position would make the refinement empty: `BookComplete` says that every
position held or being moved is of a kind the book counts.

**Ledger** (`GridLedgerProofs`). `Soundness` is `Spec => []Sound`, where `Sound` is `IInv`
with `LInv`: an open level names one order, of its kind and direction, no two name the
same, and a finished order has traded what its state says. The lots between the books and
the account are `Gap(short) = pos[short] - Believed(short)`. Every action's effect on it is
a lemma: a fill moves the account and an open level's share alike, the scan moves a share
from *arriving* to *held*, recenter moves it from the table to `toSeat` and back. What is
left is

- `EscapesAreRecenters` (`EscapesOnlyByRecenter`): the gap grows only where recenter wipes
  the levels and where an order it left behind trades;
- `NoPhantomPosition` (`NoPhantom`): the gap is never negative;
- `ExitsNeverOvershoot` (`ExitsWithinPosition`): the live exits close no more than the
  engine believes in, by the pairing of `IInv`, hence no more than the account has;
- `SteadyLedgerExact` (`LedgerExact`): without a recenter the gap is zero.

The hypotheses are needed. `Whole`, no order is cancelled by hand after a part of it has
traded (which `Lots = 1` makes impossible): the code treats a cancelled order as never
filled. `"lost" \notin Failing`: an exit whose answer was lost is placed again, and both
may trade. `Steady`, no price of `Prices` is far enough from a center to recenter:
`EngineLostFill`. With `Failing = {"lost"}`, and with `Failing = {"manual"}` and `Lots = 2`,
TLC finds `NoPhantom` violated on the instance of `EngineLive`.

**Restart** (`GridLedgerProofs`). `RestartInvariance` is `RSpec => []RInv`: the engine's
`IInv` survives any number of crashes, at any step, and every failure of `Initialize`.
What `Initialize` relies on between its calls is `StageTable`, and `LeftoverKept`: an exit
that waits for adoption is remembered under its price, whatever it did since it was
listed. With `CancelsEntries` this gives `RestartExitsSurvive`: no exit order is ever
cancelled by a restart or a recenter. `RestartPairing` and `RestartExitsProfit` carry the
engine's two main properties over.

The books of an engine that is still starting are those of the ledger with more to say
(`RSound`): an adopted exit may have traded in part before it was on any level, so `LInv`
counts what an order has left and not the size of its level; and `StageBooks` says what the
levels and the two reads of the positions hold in each part of `Initialize`. Every step has
a lemma on how it moves the gap: an adoption and a take-over close it by the lots they
record, a crash puts it back to the whole position. On these books stand the two results
about a restart.

- `RestartBelievesNoPhantom` (`RestartNoPhantom`). `Loose(short)` is what the live exits
  named by no level can still close. The invariant `Known` says that, until the engine has
  missed an exit (`blind`), the gap is at least that (`LooseInGap`); that after the listing
  every live exit is on a level or waits for adoption (`ExitsKnown`); that until the second
  read of the positions the engine believes in no more than it has adopted (`NotAhead`),
  so that this read can only come out too small; and that what it then takes over is on
  no level (`RestIsFree`).
- `QuietRestartsAreExact` (`QuietRestartExact`). While nothing trades the inequalities are
  equalities. `QuietBooks` has three parts: every exit on the table is whole and every
  position has one (`LevelsQuiet`), hence what all live exits can close is what the engine
  believes in and what is loose; every live exit is on a level, waits, or was refused
  because the exits together are for more than the position (`OrdersQuiet`); the first read
  of the positions is the account, and the engine believes in exactly what it has adopted
  until the take-over makes that the account (`ReadsQuiet`).

Both need `EchoesClientId`: a restart that recognises none of its orders adopts no exit and
takes the whole position over beside them. `RestartBelievesNoPhantom` also needs
`"manual" \notin Failing`: an exit that is cancelled by hand while it waits is adopted all
the same. TLC finds `RestartNoPhantom` violated without the one and without the other.
Whatever else may fail, lost answers and failing listings included, and for any number of
crashes, they hold; `QuietRestartExact` also after orders were cancelled by hand.

**Stop loss** (`StopLossProofs`). `SLInv` is `IInv` with `CheckStage`, what is true between
the calls of `checkStopLoss`; `StopLossTypes`, `StopLossPairing` and `StopLossOneSided`
(`OtherSideUntouched`) follow for every failure. `ExitsOwned` (`LiveExitOwned`) has the
hypothesis `Reliable`: cancelling does not fail and no answer is lost. Both really leave
orders behind that the engine forgets. `EntriesOwned` (`LiveEntryOwned`) needs in addition
an adapter that returns the client ids it was given.

**Manager** (`GridManagerProofs`). `OneLoop` is `Spec => []OneLoopPerSymbol` and
`ManagerTypes` type correctness. `LoopInv` adds that the table names traders of the right
symbol that are in use (`TableSound`), that a request in progress names a symbol or an
exchange (`OpNamed`), and that a live goroutine has a symbol (`LoopNamed`). `CountedOnce`
(`NoDoubleCount`) is proved for any number of requests at once. `RunningSaved`,
`MarketsMatch`, `SwitchStops` and `Reconnects` are proved for one request at a time, the
hypothesis `OneAdmin`; section 7 says what two do to them. `SerialInv` ties each request in
progress to what it has done so far (`OpReady`).

**Guard** (`RiskGuardProofs`). `ExposureTheorem` is `Spec => []ExposureBounded`: what a
symbol holds and has resting on its levels is at most `MaxPosition + Levels - 1`, plus what
filled while no level knew of it (`strayed`). The last term is needed: nothing bounds it, as
lost answers, failed cancellations and restarts put the next order on a level that looks
empty. The invariant adds `CallsBounded`: what a call in progress has read may be old, but
what the symbol holds and has on its levels is at most the other levels' orders above it.
`BreakerHolds` (`BreakerHoldsEntries`) needs `ApprovedBefore`: only calls judged before the
breaker tripped are still to be sent. `GuardTypes` is type correctness; that levels with an
order and levels otherwise taken are no more than there are levels follows from the guard on
each level's own status, through recenters and restarts, and says nothing of stray orders.

**Simulated exchange** (`PaperExchangeProofs`). `LimitsHonoured` holds for any `Ticking`:
the double fill of section 7 is at an honest price. The other theorems say which moments
of a forced close a price must not tick at. `EveryFillOnce` (`PositionIsSum`) excludes only
the moment between the two halves of `PlaceOrder` (`"sent"`): until then the market order
has not traded (`BookInv`). `CloseSellsAll` (`ClosedIsFlat`, which `PaperDoubleFill` shows to
fail otherwise) also excludes the one after the positions were read (`"read"`), so that the
amount read is the position (`FlatInv`). `OnlyClosesReverse` (`ReversedOnlyInClose`) lets
prices move before and after the closing order, where positions do turn round
(section 7), and shows that they do so nowhere else: outside a forced close of its
side the live exits fit into what is held (`ExitsCovered`), through every price jump and matching
order. It alone has the hypothesis `BacksExits` on the bot, which the exchange does not check.
`CostIsBetweenOpens` (`CostWithinOpens`) and `TypesKept` (`TypeOK`) exclude only `"sent"`; the
first excepts positions that are or were below zero (`turned`), whose cost mixes both
directions. Their invariant adds that the cost lies between two opening prices (`CostInv`),
which needs that a weighted mean does, rounded down.

**Adapters** (`VenueOrdersProofs`). `RoundTripEarns` (`RoundTripProfits`) rests on
`RoundApart`: rounding to a tick keeps two prices a spacing apart in their order.
`ClosesExactly` (`CloseIsExact`) has the hypothesis `WholeMinimum`, a minimum of one lot or
none: then whatever an account holds is a multiple of its lot, and survives the way through
coins and back. What it states has two conditions of its own, a derivatives account and
`meta \/ InCoins`: the contract's worth was read, or is one coin. Without the second
TLC finds it violated (section 7). Two more rest on sums over the slots. `AccountsHold` (`VTypeOK`) has no
hypothesis: the live closing orders together claim no more than the account has
(`BookedInv`), so no trade overdraws it. `ExitsCloseEntries` (`ExitClosesEntry`) shows that
the slots' shares of the account, what an entry bought less what its exit sold, add up to
no more than the account has (`CoinInv`), so that the exchange takes every exit. Its
hypotheses are `WholeMinimum` and `RoomBelow`, levels no lower than twice the spacing; the
code sees to neither. With a lot of 2 and a minimum of 1 TLC finds an exit of another size,
and with a level of 1 and a spacing of 3 a short whose exit has no price.

**Sums** (`SumTheorems`). The books are sums over finite sets, written with
`SumFunctionOnSet`, whose definition is a recursive function: that it exists, and what it
does when one element or one value changes, needs no induction theorem. A nonempty family
of finite sets has a smallest member (`SmallestMember`, from the library's well-foundedness
of strict inclusion), and the smallest set for which an equation fails is shown to be none.

**Model-checked only**: the liveness properties `NakedGetsCovered`, `FillGetsNoticed` and
`CancelledLoopEnds`, which TLAPS does not prove. Every invariant of a passing run is also proved.

## 7. Where the code and its comments disagree

Standing runs:

- **`EngineLostFill`**, `grid.go:1069`. An entry order fills after the tick's scan and
  before recenter rebuilds the table. It is no longer live, so recenter does not cancel
  it, and it is not in `heldEntries`. The position is on no level, without a take-profit,
  until a restart. `grid.go:1030` says that not one filled position may be lost.
  `EscapesOnlyByRecenter` shows that this, and the later fill of an order recenter failed
  to cancel, are the only ways in which lots leave the books in these models.
- **`StopLossPhantom`**, `manager.go:610`. An entry fills; before the scan sees it, the
  next tick's stop loss closes the direction on the exchange and resets what the table
  holds of it, which is nothing; the scan then records a position that is gone and places
  an exit for it.
- **`PaperDoubleFill`**, `paper.go:330`. A price tick between the two halves of a market
  order fills it in `matchOrders`, and `PlaceOrder` fills it again.

Seen while modelling; each can be repeated by changing the constants or conditions named:

- *A reduce-only order that opens* (`PaperFills` with `pos[short].qty >= 0` as an invariant),
  `paper.go:205`. `fillOrder` never looks at `ReduceOnly`. A take-profit that trades between
  reading a position and closing it leaves the closing order too large, and the position
  negative, against `exchange.go:83`; buying from a negative quantity may divide by zero at
  `paper.go:213`.
- *A position beyond the limit* (`RiskBound` with `held[s] <= MaxPosition` as an invariant),
  `risk.go:189`. `Evaluate` compares positions and the one new order with the limit, not the
  orders that rest. Entries approved one after the other against an empty position fill
  together: the position is beyond what `risk.go` 20-21 calls the largest. `ExposureBounded`
  says by how much: by the grid's other orders, and beyond these without a bound by orders
  that no level knows of.
- *Contracts taken for coins* (`AdapterRoundTrip` with `CloseIsExact` without
  `meta \/ InCoins`), `okx.go:606`. `GetPositions` swallows the error of the request for a
  contract's worth and reports contracts as coins, against the comment at 631. Where a
  contract is worth several coins, the forced close is for less than is held, and
  `ResetPositionSide` clears the records of all of it; where it is worth less than a coin, the
  order is too large and the exchange cuts it down or refuses it.
- *Two requests at once* (`ManagerOneAdmin` with two `Admins`). `SetExchange` stops the
  grids it listed and takes the lock again to switch: a grid started in between runs on,
  against `manager.go:136`. An exchange whose credential is unbound between the test and
  the switch of a bind is in use without a credential, and a restart falls back to the
  simulated one. A grid started between the two halves of `DeleteGrid` loses its row while
  it runs, against the precondition at `store.go:240`.
- *One request at a time.* The last tick of a stopped grid writes a profit row after
  `DeleteGridData`, and a later grid of the symbol counts from it. A grid restarted between
  a settlement and the end of its tick starts from the older profit. The automatic pause
  stops by symbol, so the last failing tick of a replaced grid stops its successor. When
  the process dies between deleting a credential and falling back, the exchange stays
  recorded as active; binding it again, even with a failing test, makes the next restart
  connect to it.
- *OKX client ids* (`EchoesClientId = FALSE`). `okx.go:562` returns the rewritten id of
  `okx.go:421`, while `exchange.go:141` requires the one given. `recenter` then recognises
  none of its orders, cancels none, and `LiveEntryOwned` fails; a restart adopts none, and
  `RestartNoPhantom` fails.
- *OKX quantities* (`ExitClosesEntry` without `InCoins`). `okx.go` converts coins to
  contracts when it sends and contracts to coins when it reads positions (comment at
  382-384), but reports an order's filled quantity in contracts (567). Where a contract is
  not worth one coin the engine takes the position for another size, and its exit with it.
- *Spot stop loss.* Resting exits lock the coins, and `manager.go:563` sends the forced close
  before `ResetPositionSide` cancels them: it is refused, tick after tick. `CloseIsExact` is
  about derivatives.
- *A restart that trades.* A leftover exit that trades in part between the listing and the
  reading of the caps is too large for the position and is refused, neither adopted nor
  cancelled (`grid.go` 435-447); what it would have closed is taken over and gets a second
  exit (503-525), against the comment at 353-354 (`RestartNoPhantom` without `~blind`). An
  adopted exit that fills between the two reads of the positions makes the second too small
  by as much, and a lot is left without a record until the next restart (`grid.go:503`;
  `QuietRestartExact` without `quiet`). On a spot market coins that had no exit when the
  process died are never taken over (476); there `QuietRestartExact` counts the coins that
  orders are to sell.
- *Risk ratios.* The margin ratio is applied per symbol, which `docs/ARCHITECTURE.md` names
  as a limitation. `MaxTotalPositionQuote` of `grid.go` 90-93 is not enforced anywhere.
- An order that traded in part and is then cancelled leaves its part on no level
  (`EntryCanceled`; `EngineLive` with `Lots = 2`).

## 8. Not modelled

- `ForceReset` of the engine has no caller. `Snapshot` and the P&L estimates change nothing.
- Signing, clock offsets, parsing, market data, balances and leverage of the adapters: they
  change no state of the program.
- Failing writes to the local database: every write succeeds.
- Indicators: floating point; their result is a free choice of grid.
- Accounts and sessions, configuration, the web console, handlers that only read: they do
  not take part in trading.
- The stop loss on a spot market, other than the size of its order; the profit or loss a
  forced close books.
- The judgement of the stop loss (`ShouldForceClose`): any position may be judged losing.
- The daily loss limit and the minimum order amount, which only refuse orders.
- Data races between snapshot requests and a trader's goroutine on the level map: Go's
  outcome is to abort the process.

## 9. Plan

Modelled and checked, in this order: engine, ledger and refinement; stop loss; manager;
guard; simulated exchange; restart; adapters. Proved: the invariants of all of these and
the refinement, as far as section 6 says. Next:

1. The composition of two traders with the guard and one account, for the margin that
   `risk.go:200` judges by one symbol.
2. Indicators as functions over small integers against their definitions; sessions.
