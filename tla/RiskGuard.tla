----------------------------- MODULE RiskGuard -----------------------------
(***************************************************************************)
(* The guard in front of every order: risk/guarded_exchange.go reads the   *)
(* account, risk/risk.go judges the order by what was read, and only then  *)
(* is the order sent.  One trader per symbol places orders, all at once;   *)
(* the account and the circuit breaker are shared.                         *)
(*                                                                         *)
(* Amounts are counted in grid orders: each symbol's orders are of one     *)
(* size and fill whole, positions are not revalued, and the equity is      *)
(* positive and constant; the limits are those of risk.Limits times it.    *)
(*                                                                         *)
(* A level of the grid takes an order when its own Status is Empty.  An    *)
(* order can rest that no level knows of: its answer was lost, or it       *)
(* survived a failed cancellation when the levels were built anew.         *)
(***************************************************************************)
EXTENDS Integers

CONSTANTS
  Symbols,
  Levels,       \* grid levels of a symbol that take entry orders
  Leverage,     \* of all symbols
  MaxLeverage,  \* Limits.MaxLeverage
  MaxPosition,  \* Limits.MaxPositionQuoteRatio times the equity
  MaxMargin,    \* Limits.MaxTotalMarginRatio times the equity
  MaxAstray     \* bound: orders of a symbol that no level knows of

ASSUME RiskGuardAssumption ==
  /\ Levels \in Nat \ {0} /\ MaxPosition \in Nat /\ MaxMargin \in Nat
  /\ Leverage \in Nat \ {0} /\ MaxLeverage \in Nat /\ MaxAstray \in Nat

VARIABLES
  open,     \* levels whose entry order rests on the exchange, by symbol
  taken,    \* the other levels that are not Empty: filled, or not yet looked at
  stray,    \* entry orders that rest on the exchange and on no level
  held,     \* orders' worth of position the exchange reports, by symbol
  strayed,  \* history: how many of held were stray when they filled
  call,     \* the PlaceOrder each trader is in
  breaker,  \* now is before circuitBreakerUntil
  overtaken \* history: the breaker tripped after this call was approved

account == <<open, taken, stray, held, strayed>>
vars == <<account, call, breaker, overtaken>>

NoCall == [step |-> "idle", seen |-> 0]

TypeOK ==
  /\ open \in [Symbols -> 0 .. Levels] /\ taken \in [Symbols -> 0 .. Levels]
  /\ \A s \in Symbols : open[s] + taken[s] <= Levels
  /\ stray \in [Symbols -> Nat] /\ held \in [Symbols -> Nat]
  /\ strayed \in [Symbols -> Nat]
  /\ call \in [Symbols -> [step : {"idle", "read", "approved"}, seen : Nat]]
  /\ breaker \in BOOLEAN
  /\ overtaken \in [Symbols -> BOOLEAN]

-----------------------------------------------------------------------------
(* PlaceOrder of an entry order                                            *)

\* Mutant of HasEmptyLevel: off by one.
MutHasEmptyLevel(s) == open[s] + taken[s] <= Levels

\* Some level's Status is Empty; what rests beside the levels plays no part.
HasEmptyLevel(s) == open[s] + taken[s] < Levels

\* The trader has an empty level to fill.  buildAccountState asks for the
\* position of this symbol; a call that errs ends the PlaceOrder.
ReadState(s) ==
  /\ call[s].step = "idle" /\ HasEmptyLevel(s)
  /\ call' = [call EXCEPT ![s] = [step |-> "read", seen |-> held[s]]]
  /\ UNCHANGED <<account, breaker, overtaken>>

\* Mutants of Approved: the breaker is forgotten; the new order is not
\* counted.
MutApproved(seen) == seen + 1 <= MaxPosition /\ seen + 1 <= MaxMargin * Leverage
MutApprovedOffByOne(seen) ==
  /\ ~breaker /\ Leverage <= MaxLeverage
  /\ seen <= MaxPosition /\ seen <= MaxMargin * Leverage

\* Evaluate: the position and the margin used by it, this order included.
Approved(seen) ==
  /\ ~breaker /\ Leverage <= MaxLeverage
  /\ seen + 1 <= MaxPosition
  /\ seen + 1 <= MaxMargin * Leverage
Evaluate(s) ==
  /\ call[s].step = "read"
  /\ call' = [call EXCEPT ![s] =
       IF Approved(call[s].seen) THEN [@ EXCEPT !.step = "approved"] ELSE NoCall]
  /\ overtaken' = [overtaken EXCEPT ![s] = FALSE]
  /\ UNCHANGED <<account, breaker>>

\* The inner PlaceOrder: the level takes the order, or it is refused, or it
\* is accepted but the answer is lost and the level stays Empty.
Send(s) ==
  /\ call[s].step = "approved"
  /\ \/ open' = [open EXCEPT ![s] = @ + 1] /\ UNCHANGED stray
     \/ UNCHANGED <<open, stray>>
     \/ /\ stray[s] + strayed[s] < MaxAstray
        /\ stray' = [stray EXCEPT ![s] = @ + 1] /\ UNCHANGED open
  /\ call' = [call EXCEPT ![s] = NoCall]
  /\ UNCHANGED <<taken, held, strayed, breaker, overtaken>>

-----------------------------------------------------------------------------
(* The exchange                                                            *)

\* An entry fills, or goes without filling: the level finds out later.
EntryFills(s) ==
  /\ open[s] > 0
  /\ open' = [open EXCEPT ![s] = @ - 1]
  /\ taken' = [taken EXCEPT ![s] = @ + 1]
  /\ held' = [held EXCEPT ![s] = @ + 1]
  /\ UNCHANGED <<stray, strayed, call, breaker, overtaken>>
EntryGoes(s) ==
  /\ open[s] > 0
  /\ open' = [open EXCEPT ![s] = @ - 1]
  /\ taken' = [taken EXCEPT ![s] = @ + 1]
  /\ UNCHANGED <<stray, held, strayed, call, breaker, overtaken>>

\* So does an order that no level waits for.
StrayFills(s) ==
  /\ stray[s] > 0
  /\ stray' = [stray EXCEPT ![s] = @ - 1]
  /\ held' = [held EXCEPT ![s] = @ + 1]
  /\ strayed' = [strayed EXCEPT ![s] = @ + 1]
  /\ UNCHANGED <<open, taken, call, breaker, overtaken>>

Lower(m, n) == IF m <= n THEN m ELSE n

\* Take-profits and forced closes are reduce only, which Evaluate lets pass.
PositionCloses(s) ==
  /\ held[s] > 0
  /\ \E n \in 0 .. held[s] - 1 :
       /\ held' = [held EXCEPT ![s] = n]
       /\ strayed' = [strayed EXCEPT ![s] = Lower(@, n)]
  /\ UNCHANGED <<open, taken, stray, call, breaker, overtaken>>

-----------------------------------------------------------------------------
(* The rest of the program, between two PlaceOrders of the trader          *)

\* Its entry's exit filled, or there was no fill, or the position was closed.
LevelFreed(s) ==
  /\ call[s].step = "idle" /\ taken[s] > 0
  /\ taken' = [taken EXCEPT ![s] = @ - 1]
  /\ UNCHANGED <<open, stray, held, strayed, call, breaker, overtaken>>

\* recenter: every entry order found is canceled, on a level or not, and each
\* cancellation may fail; then all levels are new, and positions take some.
Recenter(s) ==
  /\ call[s].step = "idle"
  /\ \E left \in 0 .. open[s] + stray[s], seated \in 0 .. Levels :
       /\ left + strayed[s] <= MaxAstray
       /\ stray' = [stray EXCEPT ![s] = left]
       /\ taken' = [taken EXCEPT ![s] = seated]
  /\ open' = [open EXCEPT ![s] = 0]
  /\ UNCHANGED <<held, strayed, call, breaker, overtaken>>

\* The process starts anew and Initialize does the same for every symbol; the
\* breaker was in memory only.
Restart ==
  /\ stray' \in [Symbols -> 0 .. MaxAstray]
  /\ \A s \in Symbols : /\ stray'[s] <= open[s] + stray[s]
                        /\ stray'[s] + strayed[s] <= MaxAstray
  /\ taken' \in [Symbols -> 0 .. Levels]
  /\ open' = [s \in Symbols |-> 0]
  /\ call' = [s \in Symbols |-> NoCall]
  /\ breaker' = FALSE /\ overtaken' = [s \in Symbols |-> FALSE]
  /\ UNCHANGED <<held, strayed>>

\* CheckPriceMove of any trader sees a jump; later the cooldown ends.
Trip ==
  /\ breaker' = TRUE
  /\ overtaken' = [s \in Symbols |-> overtaken[s] \/ call[s].step = "approved"]
  /\ UNCHANGED <<account, call>>
CooldownOver ==
  /\ breaker /\ breaker' = FALSE
  /\ UNCHANGED <<account, call, overtaken>>

Init ==
  /\ open = [s \in Symbols |-> 0] /\ taken = [s \in Symbols |-> 0]
  /\ stray = [s \in Symbols |-> 0]
  /\ held = [s \in Symbols |-> 0] /\ strayed = [s \in Symbols |-> 0]
  /\ call = [s \in Symbols |-> NoCall]
  /\ breaker = FALSE /\ overtaken = [s \in Symbols |-> FALSE]

Next ==
  \/ \E s \in Symbols : \/ ReadState(s) \/ Evaluate(s) \/ Send(s)
                        \/ EntryFills(s) \/ EntryGoes(s) \/ StrayFills(s)
                        \/ PositionCloses(s) \/ LevelFreed(s) \/ Recenter(s)
  \/ Restart \/ Trip \/ CooldownOver
Spec == Init /\ [][Next]_vars

-----------------------------------------------------------------------------
(* Properties                                                              *)

\* The worst the guard allows: it looks at positions only, so the orders of
\* the other levels may still be added on top of the limit, and beyond these
\* nothing but what filled while no level knew of it: however reads, verdicts,
\* fills, lost answers, failed cancellations and restarts interleave.
ExposureBounded ==
  \A s \in Symbols : held[s] + open[s] <= MaxPosition + Levels - 1 + strayed[s]

\* While the breaker is on, no entry order reaches the exchange, its answer
\* lost or not, that was not already approved when it tripped, whichever
\* symbol tripped it.
BreakerHoldsEntries ==
  [][\A s \in Symbols :
       breaker /\ open'[s] + stray'[s] > open[s] + stray[s] => overtaken[s]]_vars
=============================================================================
