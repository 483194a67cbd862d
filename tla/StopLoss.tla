------------------------------ MODULE StopLoss ------------------------------
(***************************************************************************)
(* The stop loss of manager/manager.go composed with the grid engine.      *)
(*                                                                         *)
(* Manager.tick runs checkStopLoss before OnTick, in the same goroutine.   *)
(* The check works on the positions the exchange reports, not on the       *)
(* engine's table: it closes a losing direction with a market order and    *)
(* then has the engine forget that direction (ResetPositionSide).  What    *)
(* the engine has not looked at yet, it cannot forget.  Every position may *)
(* be judged losing, since prices move freely between two calls.           *)
(***************************************************************************)
EXTENDS GridLedger

VARIABLES
  slPc,    \* "wait": tick not begun; "judge", "reset": in checkStopLoss;
           \* "done": checkStopLoss is over and OnTick may run
  slView,  \* the lots per direction GetPositions returned, 0 once handled
  slSide,  \* the direction ResetPositionSide is clearing
  slTodo   \* the positions it still has to clear

slVars  == <<slPc, slView, slSide, slTodo>>
allVars == <<vars, slVars>>

SLTypeOK ==
  /\ TypeOK
  /\ slPc \in {"wait", "judge", "reset", "done"}
  /\ slView \in [BOOLEAN -> Nat]
  /\ slSide \in BOOLEAN
  /\ slTodo \subseteq EntryIdx

NoView == [short \in BOOLEAN |-> 0]

-----------------------------------------------------------------------------
(* checkStopLoss                                                           *)

\* GetPositions, or an error of it: then the check is over.
ReadPositions ==
  /\ slPc = "wait" /\ pc = "idle"
  /\ \/ slPc' = "judge" /\ slView' = pos
     \/ slPc' = "done" /\ UNCHANGED slView
  /\ UNCHANGED <<vars, slSide, slTodo>>

\* Nothing to close in this direction, or the close order was refused: the
\* engine's table is left alone.
LeaveOpen(short) ==
  /\ slPc = "judge" /\ slView[short] > 0
  /\ slView' = [slView EXCEPT ![short] = 0]
  /\ UNCHANGED <<vars, slPc, slSide, slTodo>>

\* Mutant of ToReset: both directions are cleared.
MutToReset(short) == HeldIdx

\* The positions ResetPositionSide clears.
ToReset(short) == {i \in HeldIdx : entries[i].short = short}

\* Mutant of Remaining: the close order is not reduce only.
MutRemaining(have, want) == have - want

\* A reduce only order closes no more than there is.
Remaining(have, want) == IF have > want THEN have - want ELSE 0

\* The market order for the quantity read before, which an exit
\* order may have reduced since.
ForceClose(short) ==
  /\ slPc = "judge" /\ slView[short] > 0
  /\ pos' = [pos EXCEPT ![short] = Remaining(@, slView[short])]
  /\ slView' = [slView EXCEPT ![short] = 0]
  /\ slPc' = "reset"
  /\ slSide' = short
  /\ slTodo' = ToReset(short)
  /\ UNCHANGED <<engineVars, orders>>

\* Mutant of CancelOutcomes: the exit order is not cancelled.
MutCancelOutcomes(x) == {orders[exits[x].oid].st}

\* What CancelOrder may make of an exit order: cancelled if it was live,
\* else as it was; an error leaves it live.
CancelOutcomes(x) ==
  LET st == orders[exits[x].oid].st
  IN  IF st # "new" THEN {st}
      ELSE {"canceled"} \cup (IF "cancel" \in Failing THEN {"new"} ELSE {})

\* ResetPositionSide for one position: its exit order is cancelled and its
\* exit level deleted, even if cancelling failed; the position is released.
ResetEntry(i) ==
  /\ slPc = "reset" /\ i \in slTodo /\ \A j \in slTodo : i <= j
  /\ slTodo' = slTodo \ {i}
  /\ entries' = [entries EXCEPT ![i] = Released(i)]
  /\ retry' = retry \ {i}
  /\ \/ \E x \in OpenExits :
          /\ exits[x].pair = i
          /\ exits' = [exits EXCEPT ![x] = NoExit]
          /\ \E st \in CancelOutcomes(x) : orders' =
               Kept([orders EXCEPT ![exits[x].oid].st = st], entries', exits', cancels)
     \/ /\ ~Covered(i)
        /\ UNCHANGED <<exits, orders>>
  /\ UNCHANGED <<grid, pc, tickPx, todo, cancels, toSeat, oldToNew, lossBooked, pos,
                 slPc, slView, slSide>>

ResetDone ==
  /\ slPc = "reset" /\ slTodo = {}
  /\ slPc' = "judge"
  /\ UNCHANGED <<vars, slView, slSide, slTodo>>

JudgeDone ==
  /\ slPc = "judge" /\ slView = NoView
  /\ slPc' = "done"
  /\ UNCHANGED <<vars, slView, slSide, slTodo>>

\* The close order traded, but its answer was lost: an error like a refusal,
\* and the records stay.
CloseUnheard(short) ==
  /\ "close" \in Failing
  /\ slPc = "judge" /\ slView[short] > 0
  /\ pos' = [pos EXCEPT ![short] = Remaining(@, slView[short])]
  /\ slView' = [slView EXCEPT ![short] = 0]
  /\ UNCHANGED <<engineVars, orders, slPc, slSide, slTodo>>

CheckStopLoss ==
  \/ ReadPositions \/ ResetDone \/ JudgeDone
  \/ \E short \in BOOLEAN : LeaveOpen(short) \/ CloseUnheard(short) \/ ForceClose(short)
  \/ \E i \in EntryIdx : ResetEntry(i)

-----------------------------------------------------------------------------
(* Manager.tick: checkStopLoss, then OnTick; the exchange at any time      *)

TickThen ==
  /\ slPc = "done"
  /\ OnTick
  /\ IF pc # "idle" /\ pc' = "idle" THEN slPc' = "wait" ELSE UNCHANGED slPc
  /\ UNCHANGED <<slView, slSide, slTodo>>

\* GetTicker or GetOpenOrders fails: OnTick returns before it looked at
\* anything, and the next tick checks the stop loss again.
TickFails ==
  /\ slPc = "done" /\ pc = "idle"
  /\ slPc' = "wait"
  /\ UNCHANGED <<vars, slView, slSide, slTodo>>

SLInit ==
  /\ Init
  /\ slPc = "done" /\ slView = NoView /\ slSide = FALSE /\ slTodo = {}
SLNext ==
  \/ CheckStopLoss
  \/ TickThen \/ TickFails
  \/ World /\ UNCHANGED slVars
SLSpec == SLInit /\ [][SLNext]_allVars

-----------------------------------------------------------------------------
\* No take-profit order is left on the exchange that the engine has
\* forgotten: the forced close cancels the exits of what it closes, and
\* neither recenter nor a retry loses one ("an orphan reduce-only order").
LiveExitOwned ==
  \A o \in OrderId :
    orders[o].st = "new" /\ orders[o].kind = "exit"
      => \E x \in OpenExits : exits[x].oid = o

\* Once ResetPositionSide has run, the engine has no position in its table
\* that the account does not have: "the direction's positions have been
\* closed, so their records must be cleared".
RecordsCleared ==
  slPc # "reset" =>
    \A short \in BOOLEAN : Tracked(short) - Leaving(short) <= pos[short]

\* A forced close of one direction touches no level of the other one, its
\* take-profits included, and closes nothing of it on the exchange.
OtherSideUntouched ==
  [][slPc' = "reset" \/ slPc = "reset" =>
       LET other == ~slSide' IN
       /\ \A i \in HeldIdx : entries[i].short = other => entries'[i] = entries[i]
       /\ \A x \in OpenExits : exits[x].short = other => exits'[x] = exits[x]
       /\ pos'[other] # pos[other] => \E o \in OrderId : orders'[o] # orders[o]]_allVars
=============================================================================
