-------------------------- MODULE StopLossProofs ---------------------------
(***************************************************************************)
(* Forced closes keep the engine's invariant and leave the other direction *)
(* alone: proof for every grid, every combination of failing calls and     *)
(* every interleaving of the check with trades.  The steps of the running  *)
(* engine are those of GridEngineProofs.  When cancelling works and no     *)
(* answer is lost, no live order is orphaned either.                       *)
(***************************************************************************)
EXTENDS StopLoss, GridEngineProofs

\* While checkStopLoss runs, OnTick does not; what ResetPositionSide still
\* has to clear are positions of the side it clears.
CheckStage ==
  /\ slPc # "done" => pc = "idle"
  /\ slPc = "reset" => slTodo \subseteq ToReset(slSide)

SLInv ==
  /\ IInv
  /\ SLTypeOK
  /\ CheckStage

\* A step of the check that leaves the engine and the exchange alone.
LEMMA CheckFrame ==
  ASSUME SLInv, UNCHANGED vars, SLTypeOK', slPc' # "done" => pc = "idle", slPc' # "reset"
  PROVE  SLInv'
<1>1. IInv'
  BY NextIInv DEF SLInv
<1>2. CheckStage'
  BY DEF CheckStage, vars, engineVars
<1>3. QED
  BY <1>1, <1>2 DEF SLInv

LEMMA CheckStepsSLInv ==
  ASSUME SLInv,
         \/ ReadPositions \/ JudgeDone \/ ResetDone \/ TickFails
         \/ \E short \in BOOLEAN : LeaveOpen(short)
  PROVE  SLInv'
<1>1. UNCHANGED <<vars, slSide, slTodo>> /\ TypeOK'
  <2>1. UNCHANGED <<vars, slSide, slTodo>>
    BY DEF ReadPositions, JudgeDone, ResetDone, TickFails, LeaveOpen
  <2>2. QED
    BY <2>1, NextIInv DEF SLInv, IInv
<1>2. /\ slPc' \in {"wait", "judge", "done"} /\ slView' \in [BOOLEAN -> Nat]
      /\ slPc' # "done" => pc = "idle"
  <2>1. pos \in [BOOLEAN -> Nat] /\ slView \in [BOOLEAN -> Nat]
    BY DEF SLInv, SLTypeOK, TypeOK
  <2>2. CASE ReadPositions
    BY <2>1, <2>2 DEF ReadPositions
  <2>3. CASE JudgeDone
    BY <2>1, <2>3 DEF JudgeDone
  <2>4. CASE ResetDone
    BY <2>1, <2>4 DEF ResetDone, SLInv, CheckStage
  <2>5. ASSUME NEW short \in BOOLEAN, LeaveOpen(short)
        PROVE  /\ slPc' = "judge" /\ slView' \in [BOOLEAN -> Nat] /\ pc = "idle"
    BY <2>1, <2>5 DEF LeaveOpen, SLInv, CheckStage
  <2>6. CASE TickFails
    BY <2>1, <2>6 DEF TickFails
  <2>7. QED
    BY <2>2, <2>3, <2>4, <2>5, <2>6
<1>3. SLTypeOK'
  BY <1>1, <1>2 DEF SLTypeOK, SLInv
<1>4. QED
  BY <1>1, <1>2, <1>3, CheckFrame

LEMMA ForceCloseSLInv ==
  ASSUME SLInv, NEW short \in BOOLEAN, ForceClose(short) \/ CloseUnheard(short)
  PROVE  SLInv'
<1>1. /\ UNCHANGED <<engineVars, orders>> /\ pc = "idle"
      /\ \/ slPc' = "reset" /\ slSide' = short /\ slTodo' = ToReset(short)
         \/ slPc' = "judge" /\ slSide' = slSide /\ slTodo' = slTodo
  BY DEF ForceClose, CloseUnheard, SLInv, CheckStage
<1>2. pos' \in [BOOLEAN -> Nat] /\ slView' \in [BOOLEAN -> Nat]
  <2>1. pos \in [BOOLEAN -> Nat] /\ slView \in [BOOLEAN -> Nat]
    BY DEF SLInv, SLTypeOK, TypeOK
  <2>2. Remaining(pos[short], slView[short]) \in Nat
    BY <2>1 DEF Remaining
  <2>3. QED
    BY <2>1, <2>2 DEF ForceClose, CloseUnheard
<1>3. TypeOK'
  BY <1>1, <1>2 DEF SLInv, IInv, TypeOK, engineVars
<1>4. IInv'
  <2>1. Tables' /\ WorkFresh'
    BY <1>1, TablesFrame, WorkFrame DEF SLInv, engineVars
  <2>2. QED
    BY <1>3, <2>1 DEF IInv, Tables
<1>5. ToReset(short) \subseteq EntryIdx /\ ToReset(short)' = ToReset(short)
  BY <1>1 DEF ToReset, HeldIdx, Held, engineVars
<1>6. SLTypeOK' /\ CheckStage'
  BY <1>1, <1>2, <1>3, <1>5 DEF SLInv, SLTypeOK, CheckStage, ToReset, HeldIdx, Held, engineVars
<1>7. QED
  BY <1>4, <1>6 DEF SLInv

LEMMA ResetEntrySLInv ==
  ASSUME SLInv, NEW i \in EntryIdx, ResetEntry(i)
  PROVE  SLInv'
<1>1. /\ IInv /\ pc = "idle" /\ i \in HeldIdx /\ i \in slTodo
      /\ slTodo \subseteq ToReset(slSide)
  BY DEF SLInv, CheckStage, ResetEntry, ToReset
<1>2. /\ entries' = [entries EXCEPT ![i] = Released(i)] /\ retry' = retry \ {i}
      /\ slTodo' = slTodo \ {i}
      /\ UNCHANGED <<grid, pc, tickPx, todo, cancels, toSeat, oldToNew, lossBooked, pos,
                     slPc, slView, slSide>>
  BY DEF ResetEntry
<1>3. /\ entries' \in [EntryIdx -> EntryLevel]
      /\ HeldIdx' = HeldIdx \ {i}
      /\ \A j \in EntryIdx : j # i => entries'[j] = entries[j]
      /\ entries'[i].st \notin {"open", "held"}
  BY <1>1, <1>2, LevelFacts DEF HeldIdx, Held, IInv, TypeOK
\* Either way no exit is left that serves level i, and the other exits and
\* their orders are known as before.
<1> DEFINE OthersKept ==
      /\ exits' \in [ExitIdx -> ExitLevel] /\ orders' \in [OrderId -> Order]
      /\ OpenExits' \subseteq OpenExits
      /\ \A y \in OpenExits' :
           /\ exits'[y] = exits[y] /\ exits[y].pair # i
           /\ orders'[exits[y].oid].st # "none"
           /\ orders'[exits[y].oid].px = orders[exits[y].oid].px
<1>4. OthersKept
  <2>1. orders \in [OrderId -> Order] /\ exits \in [ExitIdx -> ExitLevel]
    BY <1>1 DEF IInv, TypeOK
  <2>2. \A y \in OpenExits : exits[y].oid \in OrderId /\ orders[exits[y].oid].st # "none"
    BY <1>1 DEF IInv, OpenRefs
  <2>3. CASE ~Covered(i) /\ UNCHANGED <<exits, orders>>
    BY <2>1, <2>2, <2>3 DEF Covered, OpenExits
  <2>4. ASSUME NEW x \in OpenExits, exits[x].pair = i,
               exits' = [exits EXCEPT ![x] = NoExit],
               NEW st \in CancelOutcomes(x),
               orders' = Kept([orders EXCEPT ![exits[x].oid].st = st], entries', exits', cancels)
        PROVE  OthersKept
    <3> DEFINE os == [orders EXCEPT ![exits[x].oid].st = st]
    <3>1. st \in {"new", "filled", "canceled"}
      <4>1. orders[exits[x].oid].st \in {"none", "new", "filled", "canceled"}
        BY <2>1, <2>2 DEF Order
      <4>2. QED
        BY <2>2, <4>1 DEF CancelOutcomes
    <3>2. /\ os \in [OrderId -> Order]
          /\ \A o \in OrderId : os[o].px = orders[o].px
          /\ \A o \in OrderId : orders[o].st # "none" => os[o].st # "none"
      BY <2>1, <2>2, <3>1 DEF Order
    <3>3. orders' = Kept(os, entries', exits', cancels)
      BY <2>4
    <3> HIDE DEF os
    <3>4. /\ exits' \in [ExitIdx -> ExitLevel] /\ OpenExits' = OpenExits \ {x}
          /\ \A y \in OpenExits' : exits'[y] = exits[y]
      BY <2>1, <2>4, LevelFacts DEF OpenExits
    <3>5. /\ orders' \in [OrderId -> Order]
          /\ \A y \in ExitIdx : exits'[y].oid \in OrderId =>
               orders'[exits'[y].oid] = os[exits'[y].oid]
      BY <3>2, <3>3, KeptFacts
    <3>6. \A y \in OpenExits' : exits[y].pair # i
      BY <1>1, <2>4, <3>4 DEF IInv, PairOnce
    <3>7. \A y \in OpenExits' : orders'[exits[y].oid] = os[exits[y].oid]
      BY <2>2, <3>4, <3>5 DEF OpenExits
    <3>8. QED
      BY <2>2, <3>2, <3>4, <3>5, <3>6, <3>7
  <2>5. \/ ~Covered(i) /\ UNCHANGED <<exits, orders>>
        \/ \E x \in OpenExits :
             /\ exits[x].pair = i
             /\ exits' = [exits EXCEPT ![x] = NoExit]
             /\ \E st \in CancelOutcomes(x) : orders' =
                  Kept([orders EXCEPT ![exits[x].oid].st = st], entries', exits', cancels)
    BY DEF ResetEntry
  <2> HIDE DEF OthersKept
  <2>6. QED
    BY <2>3, <2>4, <2>5
<1>5. TypeOK'
  BY <1>1, <1>2, <1>3, <1>4 DEF IInv, TypeOK
<1>6. OpenRefs'
  <2>1. \A j \in EntryIdx : entries'[j].st = "open" => entries'[j].oid \in OrderId
    BY <1>1, <1>3 DEF IInv, OpenRefs
  <2>2. QED
    BY <1>1, <1>4, <2>1 DEF IInv, OpenRefs
<1>7. PairOnce' /\ PairTable' /\ SeatTable' /\ WorkFresh' /\ NoLossBooked'
  <2>1. \A y \in OpenExits' : exits'[y].pair \in HeldIdx' /\ Serves(y, entries[exits[y].pair])'
    BY <1>1, <1>3, <1>4 DEF IInv, PairTable, HeldIdx, Serves
  <2>2. QED
    BY <1>1, <1>2, <1>4, <2>1
    DEF IInv, PairOnce, PairTable, SeatTable, WorkFresh, NoLossBooked
<1>8. IInv'
  BY <1>5, <1>6, <1>7 DEF IInv
<1>9. CheckStage'
  <2>1. \A j \in slTodo' : j \in HeldIdx' /\ entries'[j].short = slSide
    BY <1>1, <1>2, <1>3 DEF ToReset, HeldIdx
  <2>2. QED
    BY <1>1, <1>2, <2>1 DEF CheckStage, ToReset
<1>10. SLTypeOK'
  BY <1>2, <1>5 DEF SLInv, SLTypeOK
<1>11. QED
  BY <1>8, <1>9, <1>10 DEF SLInv

LEMMA TickThenSLInv == ASSUME SLInv, TickThen PROVE SLInv'
<1>1. IInv'
  BY NextIInv DEF SLInv, TickThen, Next
<1>2. slPc' = "done" \/ (slPc' = "wait" /\ pc' = "idle")
  BY DEF TickThen
<1>3. SLTypeOK' /\ CheckStage'
  BY <1>1, <1>2 DEF TickThen, SLInv, SLTypeOK, CheckStage, IInv
<1>4. QED
  BY <1>1, <1>3 DEF SLInv

LEMMA WorldSLInv == ASSUME SLInv, World, UNCHANGED slVars PROVE SLInv'
<1>1. IInv'
  BY NextIInv DEF SLInv, Next
<1>2. UNCHANGED <<pc, entries>>
  BY DEF World, Fill, ManualCancel, BackoffOver, engineVars
<1>3. SLTypeOK' /\ CheckStage'
  BY <1>1, <1>2 DEF slVars, SLInv, SLTypeOK, CheckStage, IInv, ToReset, HeldIdx, Held
<1>4. QED
  BY <1>1, <1>3 DEF SLInv

LEMMA SLNextSLInv == SLInv /\ [SLNext]_allVars => SLInv'
<1> SUFFICES ASSUME SLInv, [SLNext]_allVars PROVE SLInv'
  OBVIOUS
<1>1. CASE UNCHANGED allVars
  <2>1. IInv'
    BY <1>1, NextIInv DEF SLInv, allVars
  <2>2. SLTypeOK' /\ CheckStage'
    BY <1>1, <2>1 DEF allVars, vars, engineVars, slVars, SLInv, SLTypeOK, CheckStage, IInv,
                      ToReset, HeldIdx, Held
  <2>3. QED
    BY <2>1, <2>2 DEF SLInv
<1>2. CASE CheckStopLoss
  BY <1>2, CheckStepsSLInv, ForceCloseSLInv, ResetEntrySLInv DEF CheckStopLoss
<1>3. CASE TickThen
  BY <1>3, TickThenSLInv
<1>4. CASE World /\ UNCHANGED slVars
  BY <1>4, WorldSLInv
<1>5. CASE TickFails
  BY <1>5, CheckStepsSLInv
<1>6. QED
  BY <1>1, <1>2, <1>3, <1>4, <1>5 DEF SLNext

-----------------------------------------------------------------------------
(* The theorems                                                            *)

\* The invariant of the engine, and of the check, in every reachable state.
THEOREM StopLossInvariance == SLSpec => []SLInv
<1>1. SLInit => SLInv
  <2> SUFFICES ASSUME SLInit PROVE SLInv
    OBVIOUS
  <2>1. IInv
    BY InitIInv DEF SLInit
  <2>2. SLTypeOK /\ CheckStage
    BY <2>1 DEF SLInit, SLTypeOK, CheckStage, NoView, IInv
  <2>3. QED
    BY <2>1, <2>2 DEF SLInv
<1>2. QED
  BY <1>1, SLNextSLInv, PTL DEF SLSpec

\* Every variable of the engine, the exchange and the check keeps its type.
THEOREM StopLossTypes == SLSpec => []SLTypeOK
<1>1. SLInv => SLTypeOK
  BY DEF SLInv
<1>2. QED
  BY <1>1, StopLossInvariance, PTL

\* ResetPositionSide takes an exit out of the table together with its
\* position, so that no exit is left to settle another one.
THEOREM StopLossPairing == SLSpec => []PairingSound
<1>1. SLInv => PairingSound
  BY DEF SLInv, IInv, PairOnce, PairTable, PairingSound, Serves, HeldIdx
<1>2. QED
  BY <1>1, StopLossInvariance, PTL

\* A trade changes the order that traded, also if the exchange forgets it.
LEMMA FillShows ==
  ASSUME IInv, NEW o \in OrderId, Fill(o)
  PROVE  orders'[o] # orders[o]
<1>1. /\ orders[o] \in Order /\ orders[o].st = "new" /\ orders \in [OrderId -> Order]
      /\ orders' = Kept([orders EXCEPT ![o] = Traded(orders[o])], entries, exits, cancels)
  BY DEF Fill, IInv, TypeOK
<1>2. orders'[o] = NoOrder \/ orders'[o] = Traded(orders[o])
  BY <1>1 DEF Kept
<1>3. NoOrder.st = "none" /\ Traded(orders[o]).filled = orders[o].filled + 1
  BY LevelFacts DEF Traded
<1>4. orders[o].filled \in Nat
  BY <1>1 DEF Order
<1>5. QED
  BY <1>1, <1>2, <1>3, <1>4

OtherSideStep ==
  slPc' = "reset" \/ slPc = "reset" =>
    LET other == ~slSide' IN
    /\ \A i \in HeldIdx : entries[i].short = other => entries'[i] = entries[i]
    /\ \A x \in OpenExits : exits[x].short = other => exits'[x] = exits[x]
    /\ pos'[other] # pos[other] => \E o \in OrderId : orders'[o] # orders[o]

LEMMA SLNextOtherSide == ASSUME SLInv, SLNext PROVE OtherSideStep
<1>1. CASE \/ ReadPositions \/ ResetDone \/ JudgeDone \/ TickFails
           \/ \E short \in BOOLEAN : LeaveOpen(short)
  <2>1. UNCHANGED <<entries, exits, pos>>
    BY <1>1 DEF ReadPositions, ResetDone, JudgeDone, TickFails, LeaveOpen, vars, engineVars
  <2>2. QED
    BY <2>1 DEF OtherSideStep
<1>2. ASSUME NEW short \in BOOLEAN, ForceClose(short) PROVE OtherSideStep
  <2>1. UNCHANGED <<entries, exits>> /\ slSide' = short /\ pos \in [BOOLEAN -> Nat]
    BY <1>2 DEF ForceClose, engineVars, SLInv, SLTypeOK, TypeOK
  <2>2. pos'[~short] = pos[~short]
    BY <1>2, <2>1 DEF ForceClose
  <2>3. QED
    BY <2>1, <2>2 DEF OtherSideStep
<1>3. ASSUME NEW i \in EntryIdx, ResetEntry(i) PROVE OtherSideStep
  <2>1. /\ i \in HeldIdx /\ entries[i].short = slSide
        /\ slSide' = slSide /\ slSide \in BOOLEAN /\ UNCHANGED pos
    BY <1>3 DEF ResetEntry, SLInv, CheckStage, ToReset, SLTypeOK
  <2>2. \A j \in HeldIdx : j # i => entries'[j] = entries[j]
    BY <1>3 DEF ResetEntry, HeldIdx, SLInv, IInv, TypeOK
  <2>3. \A x \in OpenExits : exits[x].short # slSide => exits'[x] = exits[x]
    <3>1. pc = "idle" /\ exits \in [ExitIdx -> ExitLevel]
      BY <1>3 DEF ResetEntry, SLInv, CheckStage, IInv, TypeOK
    <3>2. \A x \in OpenExits : exits[x].pair = i => exits[x].short = slSide
      BY <2>1, <3>1 DEF SLInv, IInv, PairTable, Serves
    <3>3. QED
      BY <1>3, <3>1, <3>2 DEF ResetEntry, OpenExits
  <2>4. slSide # ~slSide'
    BY <2>1
  <2>5. QED
    BY <2>1, <2>2, <2>3, <2>4 DEF OtherSideStep
<1>4. CASE TickThen
  <2>1. slPc # "reset" /\ slPc' # "reset"
    BY <1>4 DEF TickThen
  <2>2. QED
    BY <2>1 DEF OtherSideStep
<1>5. CASE World /\ UNCHANGED slVars
  <2>1. UNCHANGED <<entries, exits>>
    BY <1>5 DEF World, Fill, ManualCancel, BackoffOver, engineVars
  <2>2. UNCHANGED pos \/ \E o \in OrderId : orders'[o] # orders[o]
    BY <1>5, FillShows DEF World, ManualCancel, BackoffOver, SLInv
  <2>3. QED
    BY <2>1, <2>2 DEF OtherSideStep
<1>6. ASSUME NEW short \in BOOLEAN, CloseUnheard(short) PROVE OtherSideStep
  BY <1>6 DEF CloseUnheard, OtherSideStep
<1>7. QED
  BY <1>1, <1>2, <1>3, <1>4, <1>5, <1>6 DEF SLNext, CheckStopLoss

\* A forced close of one direction of a neutral grid takes no level and no
\* exit of the other direction with it, and closes nothing of it.
THEOREM StopLossOneSided == SLSpec => OtherSideUntouched
<1>1. SLInv /\ [SLNext]_allVars => [OtherSideStep]_allVars
  BY SLNextOtherSide
<1>2. QED
  BY <1>1, StopLossInvariance, PTL DEF SLSpec, OtherSideUntouched, OtherSideStep

-----------------------------------------------------------------------------
(* Ownership of live orders, when cancelling does not fail and no answer   *)
(* is lost                                                                 *)

\* CancelOrder and PlaceOrder do what their answers say.
Reliable == "cancel" \notin Failing /\ "lost" \notin Failing

LiveExit(o) == orders[o].st = "new" /\ orders[o].kind = "exit"

\* What Kept leaves live is live in what it was given.
LEMMA KeptLive ==
  ASSUME NEW os, NEW ents, NEW exs, NEW cs, NEW o \in OrderId,
         Kept(os, ents, exs, cs)[o].st # "none"
  PROVE  Kept(os, ents, exs, cs)[o] = os[o]
BY LevelFacts DEF Kept

\* No exit order appears, and the levels of live ones are kept.
LEMMA ExitsOwnedFrame ==
  ASSUME LiveExitOwned,
         \A o \in OrderId : LiveExit(o)' => LiveExit(o),
         \A x \in OpenExits : orders'[exits[x].oid].st = "new" =>
           exits'[x].st = "open" /\ exits'[x].oid = exits[x].oid
  PROVE  LiveExitOwned'
BY DEF LiveExitOwned, LiveExit, OpenExits

\* As above for a step that leaves the exit levels alone and hands the
\* orders "os" to Kept.
LEMMA ExitsOwnedKept ==
  ASSUME LiveExitOwned, UNCHANGED exits, NEW os, NEW ents, NEW exs, NEW cs,
         orders' = Kept(os, ents, exs, cs),
         \A o \in OrderId : os[o].st = "new" => os[o].kind = orders[o].kind /\ orders[o].st = "new"
  PROVE  LiveExitOwned'
<1>1. \A o \in OrderId : LiveExit(o)' => LiveExit(o)
  <2> SUFFICES ASSUME NEW o \in OrderId, LiveExit(o)' PROVE LiveExit(o)
    OBVIOUS
  <2>1. orders'[o].st = "new" /\ orders'[o].kind = "exit"
    BY DEF LiveExit
  <2>2. orders'[o] = os[o]
    BY <2>1, KeptLive
  <2>3. QED
    BY <2>1, <2>2 DEF LiveExit
<1>2. QED
  BY <1>1, ExitsOwnedFrame DEF OpenExits

\* placeExitFor gives the order it places a level.
LEMMA PlaceExitOwned ==
  ASSUME Reliable, TypeOK, LiveExitOwned, NEW i \in EntryIdx, NEW ents, PlaceExitFor(i, ents)
  PROVE  LiveExitOwned'
<1>1. CASE UNCHANGED exits /\ orders' = Kept(orders, ents, exits, cancels)
  BY <1>1, ExitsOwnedKept
<1>2. ASSUME NEW s \in OrderId, NEW x \in ExitIdx, NEW order, exits[x].st = "none",
             exits' = [exits EXCEPT ![x] =
               [st |-> "open", oid |-> s, qty |-> ents[i].qty, px |-> ExitPx(ents[i]),
                short |-> ents[i].short, pair |-> i]],
             orders' = Kept([orders EXCEPT ![s] = order], ents, exits', cancels)
      PROVE  LiveExitOwned'
  <2>1. exits \in [ExitIdx -> ExitLevel] /\ orders \in [OrderId -> Order]
    BY DEF TypeOK
  <2>2. /\ x \in OpenExits' /\ exits'[x].oid = s
        /\ \A y \in OpenExits : y \in OpenExits' /\ exits'[y].oid = exits[y].oid
    BY <1>2, <2>1 DEF OpenExits
  <2> SUFFICES ASSUME NEW o \in OrderId, orders'[o].st = "new", orders'[o].kind = "exit"
               PROVE  \E y \in OpenExits' : exits'[y].oid = o
    BY DEF LiveExitOwned
  <2>3. orders'[o] = [orders EXCEPT ![s] = order][o]
    <3> DEFINE os == [orders EXCEPT ![s] = order]
    <3>1. orders' = Kept(os, ents, exits', cancels)
      BY <1>2
    <3> HIDE DEF os
    <3>2. orders'[o] = os[o]
      BY <3>1, LevelFacts DEF Kept
    <3>3. QED
      BY <3>2 DEF os
  <2>4. CASE o = s
    BY <2>2, <2>4
  <2>5. CASE o # s
    <3>1. orders'[o] = orders[o]
      BY <2>1, <2>3, <2>5
    <3>2. QED
      BY <2>2, <3>1 DEF LiveExitOwned
  <2>6. QED
    BY <2>4, <2>5
<1>3. QED
  BY <1>1, <1>2 DEF PlaceExitFor, IsNextExit, Reliable

LEMMA ScanExitsOwned ==
  ASSUME Reliable, IInv, LiveExitOwned, Scan PROVE LiveExitOwned'
<1>1. PICK i \in EntryIdx \cup ExitIdx :
        ScanKeep(i) \/ EntryFilled(i) \/ ExitFilled(i) \/ EntryCanceled(i) \/ ExitCanceled(i)
  BY DEF Scan
<1>2. exits \in [ExitIdx -> ExitLevel] /\ orders \in [OrderId -> Order] /\ TypeOK
  BY DEF IInv, TypeOK
<1>3. CASE ScanKeep(i)
  BY <1>3, ExitsOwnedFrame DEF ScanKeep, LiveExit, OpenExits
<1>4. CASE EntryFilled(i)
  BY <1>2, <1>4, PlaceExitOwned DEF EntryFilled
<1>5. CASE EntryCanceled(i)
  BY <1>5, ExitsOwnedKept DEF EntryCanceled
<1>6. CASE ExitFilled(i) \/ ExitCanceled(i)
  <2>1. /\ i \in ExitIdx /\ orders[exits[i].oid].st \in {"filled", "canceled"}
        /\ exits' = [exits EXCEPT ![i] = NoExit]
        /\ orders' = Kept(orders, entries', exits', cancels)
    BY <1>6 DEF ExitFilled, ExitCanceled
  <2>2. \A o \in OrderId : LiveExit(o)' => LiveExit(o)
    BY <2>1, KeptLive DEF LiveExit
  <2>3. \A x \in OpenExits : orders'[exits[x].oid].st = "new" => x # i
    <3> SUFFICES ASSUME i \in OpenExits, orders'[exits[i].oid].st = "new" PROVE FALSE
      OBVIOUS
    <3>1. exits[i].oid \in OrderId
      BY DEF IInv, OpenRefs
    <3>2. orders'[exits[i].oid] = orders[exits[i].oid]
      BY <2>1, <3>1, KeptLive
    <3>3. QED
      BY <2>1, <3>2
  <2>4. QED
    BY <1>2, <2>1, <2>2, <2>3, ExitsOwnedFrame DEF OpenExits
<1>7. QED
  BY <1>1, <1>3, <1>4, <1>5, <1>6

LEMMA RecenterExitsOwned ==
  ASSUME Reliable, IInv, LiveExitOwned, Recenter PROVE LiveExitOwned'
<1>1. exits \in [ExitIdx -> ExitLevel] /\ orders \in [OrderId -> Order]
  BY DEF IInv, TypeOK
<1>2. CASE SkipRecenter \/ RecenterStart
  BY <1>2, ExitsOwnedFrame DEF SkipRecenter, RecenterStart, LiveExit, OpenExits
<1>3. ASSUME NEW o \in OrderId, RecenterCancel(o) PROVE LiveExitOwned'
  <2> DEFINE os == [orders EXCEPT ![o].st = "canceled"]
  <2>1. \A q \in OrderId : os[q].st = "new" => os[q].kind = orders[q].kind /\ orders[q].st = "new"
    BY <1>1 DEF Order
  <2>2. UNCHANGED exits /\ (\/ orders' = Kept(os, entries, exits, cancels')
                            \/ orders' = Kept(orders, entries, exits, cancels'))
    BY <1>3 DEF RecenterCancel
  <2> HIDE DEF os
  <2>3. QED
    BY <2>1, <2>2, LevelFacts DEF Kept, LiveExitOwned, OpenExits
<1>4. ASSUME NEW g \in Grids, RecenterBuild(g) PROVE LiveExitOwned'
  BY <1>4, LevelFacts DEF RecenterBuild, Kept, LiveExitOwned, OpenExits
<1>5. ASSUME NEW h \in toSeat, NEW k \in 1 .. N + Overflow, SeatEntry(h, k) PROVE LiveExitOwned'
  BY <1>5, ExitsOwnedFrame DEF SeatEntry, LiveExit, OpenExits
<1>6. CASE RecenterDone
  <2>1. /\ UNCHANGED orders
        /\ \A x \in OpenExits : exits'[x].st = "open" /\ exits'[x].oid = exits[x].oid
    BY <1>1, <1>6 DEF RecenterDone, Repaired, OpenExits, ExitLevel
  <2>2. QED
    BY <2>1, ExitsOwnedFrame DEF LiveExit
<1>7. QED
  BY <1>2, <1>3, <1>4, <1>5, <1>6 DEF Recenter

LEMMA NextExitsOwned ==
  ASSUME Reliable, IInv, LiveExitOwned, Next PROVE LiveExitOwned'
<1>1. exits \in [ExitIdx -> ExitLevel] /\ orders \in [OrderId -> Order] /\ TypeOK
  BY DEF IInv, TypeOK
<1>2. ASSUME NEW p \in Prices, TickStart(p) PROVE LiveExitOwned'
  BY <1>2, ExitsOwnedFrame DEF TickStart, LiveExit, OpenExits
<1>3. CASE EnsureDone \/ TickEnd \/ \E i \in EntryIdx : BackoffOver(i)
  BY <1>3, ExitsOwnedFrame DEF EnsureDone, TickEnd, BackoffOver, LiveExit, OpenExits
<1>4. ASSUME NEW i \in EntryIdx, EnsureTakeProfit(i) PROVE LiveExitOwned'
  BY <1>1, <1>4, PlaceExitOwned DEF EnsureTakeProfit
<1>5. ASSUME NEW i \in EntryIdx, PlaceMissing(i) PROVE LiveExitOwned'
  <2>1. UNCHANGED exits
    BY <1>5 DEF PlaceMissing
  <2>2. \/ UNCHANGED orders
        \/ \E s \in OrderId :
             orders' = [orders EXCEPT ![s] = NewOrder("entry", i > 0, LevelPx(i), Lots)]
    BY <1>5 DEF PlaceMissing
  <2>3. NewOrder("entry", i > 0, LevelPx(i), Lots).kind = "entry"
    BY DEF NewOrder
  <2>4. \A o \in OrderId : LiveExit(o)' => LiveExit(o)
    BY <1>1, <2>2, <2>3 DEF LiveExit
  <2>5. QED
    BY <2>1, <2>4, ExitsOwnedFrame DEF OpenExits
<1>6. ASSUME NEW o \in OrderId, Fill(o) \/ ManualCancel(o) PROVE LiveExitOwned'
  <2> DEFINE traded == [orders EXCEPT ![o] = Traded(orders[o])]
             os == IF orders' = Kept(traded, entries, exits, cancels)
                   THEN traded ELSE [orders EXCEPT ![o].st = "canceled"]
  <2>1. \A q \in OrderId : os[q].st = "new" => os[q].kind = orders[q].kind /\ orders[q].st = "new"
    BY <1>1, <1>6 DEF Order, Traded, Fill, ManualCancel
  <2>2. UNCHANGED exits /\ orders' = Kept(os, entries, exits, cancels)
    BY <1>6 DEF Fill, ManualCancel, engineVars
  <2> HIDE DEF os
  <2>3. QED
    BY <2>1, <2>2, ExitsOwnedKept
<1>7. QED
  BY <1>2, <1>3, <1>4, <1>5, <1>6, ScanExitsOwned, RecenterExitsOwned
  DEF Next, OnTick, World, Replace

LEMMA SLNextExitsOwned ==
  ASSUME Reliable, SLInv, LiveExitOwned, [SLNext]_allVars PROVE LiveExitOwned'
<1>1. exits \in [ExitIdx -> ExitLevel] /\ orders \in [OrderId -> Order] /\ IInv
  BY DEF SLInv, IInv, TypeOK
<1>2. CASE UNCHANGED <<exits, orders>>
  BY <1>2 DEF LiveExitOwned, OpenExits
<1>3. ASSUME NEW i \in EntryIdx, ResetEntry(i) PROVE LiveExitOwned'
  <2>1. ASSUME NEW x \in OpenExits, exits' = [exits EXCEPT ![x] = NoExit],
               NEW st \in CancelOutcomes(x),
               orders' = Kept([orders EXCEPT ![exits[x].oid].st = st], entries', exits', cancels)
        PROVE  LiveExitOwned'
    <3> DEFINE o == exits[x].oid
               os == [orders EXCEPT ![o].st = st]
    <3>1. st # "new" /\ o \in OrderId
      BY <1>1 DEF CancelOutcomes, Reliable, IInv, OpenRefs
    <3>2. \A q \in OrderId : os[q].st = "new" => q # o /\ os[q] = orders[q]
      BY <1>1, <3>1 DEF Order
    <3>3. orders' = Kept(os, entries', exits', cancels)
      BY <2>1
    <3> HIDE DEF os
    <3>4. \A q \in OrderId : orders'[q].st = "new" => q # o /\ orders'[q] = orders[q]
      BY <3>2, <3>3, LevelFacts DEF Kept
    <3>5. \A y \in OpenExits : y # x => y \in OpenExits' /\ exits'[y] = exits[y]
      BY <1>1, <2>1 DEF OpenExits
    <3>6. QED
      BY <3>4, <3>5 DEF LiveExitOwned
  <2>2. QED
    BY <1>2, <1>3, <2>1 DEF ResetEntry
<1>4. CASE TickThen \/ (World /\ UNCHANGED slVars)
  BY <1>1, <1>4, NextExitsOwned DEF TickThen, Next
<1>5. CASE \/ ReadPositions \/ ResetDone \/ JudgeDone \/ TickFails
           \/ \E short \in BOOLEAN : LeaveOpen(short) \/ CloseUnheard(short) \/ ForceClose(short)
  BY <1>2, <1>5 DEF ReadPositions, ResetDone, JudgeDone, TickFails, LeaveOpen, CloseUnheard,
                    ForceClose, vars, engineVars
<1>6. QED
  BY <1>2, <1>3, <1>4, <1>5 DEF SLNext, CheckStopLoss, allVars, vars, engineVars

\* When cancelling does not fail and no answer is lost, every take-profit
\* order that is live on the exchange is one the engine knows.
THEOREM ExitsOwned == ASSUME Reliable PROVE SLSpec => []LiveExitOwned
<1>1. SLInit => LiveExitOwned
  BY LevelFacts DEF SLInit, Init, LiveExitOwned
<1>2. SLInv /\ LiveExitOwned /\ [SLNext]_allVars => LiveExitOwned'
  BY SLNextExitsOwned
<1>3. QED
  BY <1>1, <1>2, StopLossInvariance, PTL DEF SLSpec

\* What LiveEntryOwned rests on: only open levels name entry orders, no two
\* the same one, and recenter forgets no order it has not dealt with.
EntryOwn ==
  /\ \A i \in EntryIdx : entries[i].st = "open" => orders[entries[i].oid].st # "none"
  /\ \A i \in EntryIdx : entries[i].st # "open" => entries[i].oid = NoId
  /\ \A i, j \in EntryIdx : entries[i].st = "open" /\ entries[j].oid = entries[i].oid => i = j
  /\ \A o \in EntryOrders : \E i \in EntryIdx : entries[i].st = "open" /\ entries[i].oid = o
  /\ pc = "cancel" => EntryOrders \subseteq cancels

\* Level i is as it was, or no longer open: then its order was not live.
Closed(i) ==
  \/ entries'[i] = entries[i]
  \/ /\ entries'[i].st # "open" /\ entries'[i].oid = NoId
     /\ entries[i].st = "open" => entries[i].oid \notin EntryOrders

\* A step that opens no level and adds no entry order.
LEMMA EntriesShrink ==
  ASSUME IInv, EntryOwn,
         \A i \in EntryIdx : Closed(i),
         \A i \in EntryIdx : entries'[i].st = "open" => orders'[entries[i].oid].st # "none",
         EntryOrders' \subseteq EntryOrders,
         pc' = "cancel" => EntryOrders' \subseteq cancels'
  PROVE  EntryOwn'
<1>1. \A i \in EntryIdx : entries'[i].st = "open" => entries'[i] = entries[i]
  BY DEF Closed
<1>2. \A i \in EntryIdx : entries[i].st = "open" => entries[i].oid # NoId
  BY IndexFacts DEF IInv, OpenRefs
<1>3. \A i \in EntryIdx : entries'[i].st # "open" => entries'[i].oid = NoId
  BY DEF Closed, EntryOwn
<1>4. \A i, j \in EntryIdx : entries'[i].st = "open" /\ entries'[j].oid = entries'[i].oid => i = j
  BY <1>1, <1>2, <1>3 DEF EntryOwn
<1>5. \A o \in EntryOrders' : \E i \in EntryIdx : entries'[i].st = "open" /\ entries'[i].oid = o
  <2> SUFFICES ASSUME NEW o \in EntryOrders'
               PROVE  \E i \in EntryIdx : entries'[i].st = "open" /\ entries'[i].oid = o
    OBVIOUS
  <2>1. PICK i \in EntryIdx : entries[i].st = "open" /\ entries[i].oid = o /\ orders[o].st = "new"
    BY DEF EntryOwn, EntryOrders
  <2>2. entries'[i] = entries[i]
    BY <2>1 DEF Closed
  <2>3. QED
    BY <2>1, <2>2
<1>6. QED
  BY <1>1, <1>3, <1>4, <1>5 DEF EntryOwn

\* The same for a step that hands the orders "os" to Kept.
LEMMA EntriesKept ==
  ASSUME IInv, EntryOwn,
         \A i \in EntryIdx : Closed(i),
         NEW os, NEW exs, NEW cs,
         orders' = Kept(os, entries', exs, cs),
         \A o \in OrderId : orders[o].st # "none" => os[o].st # "none",
         \A o \in OrderId : os[o].st = "new" /\ os[o].kind = "entry" => o \in EntryOrders,
         pc' # "cancel" \/ UNCHANGED <<pc, cancels>>
  PROVE  EntryOwn'
<1>1. EntryOrders' \subseteq EntryOrders
  BY KeptLive DEF EntryOrders
<1>2. \A i \in EntryIdx : entries'[i].st = "open" => orders'[entries[i].oid].st # "none"
  <2> SUFFICES ASSUME NEW i \in EntryIdx, entries'[i].st = "open"
               PROVE  orders'[entries[i].oid].st # "none"
    OBVIOUS
  <2>1. entries'[i] = entries[i]
    BY DEF Closed
  <2>2. entries[i].oid \in OrderId /\ os[entries[i].oid].st # "none"
    BY <2>1 DEF IInv, OpenRefs, EntryOwn
  <2>3. orders'[entries[i].oid] = os[entries[i].oid]
    BY <2>1, <2>2 DEF Kept
  <2>4. QED
    BY <2>2, <2>3
<1>3. pc' = "cancel" => EntryOrders' \subseteq cancels'
  BY <1>1 DEF EntryOwn
<1>4. QED
  BY <1>1, <1>2, <1>3, EntriesShrink

LEMMA EntriesFrame ==
  ASSUME IInv, EntryOwn, UNCHANGED <<entries, orders>>,
         pc' # "cancel" \/ UNCHANGED <<pc, cancels>>
  PROVE  EntryOwn'
BY EntriesShrink DEF EntryOwn, EntryOrders, Closed

LEMMA PlaceExitEntries ==
  ASSUME IInv, EntryOwn, NEW i \in EntryIdx, NEW ents, PlaceExitFor(i, ents),
         \A j \in EntryIdx : Closed(j), UNCHANGED <<pc, cancels>>
  PROVE  EntryOwn'
<1>1. orders \in [OrderId -> Order] /\ entries' = ents
  BY DEF IInv, TypeOK, PlaceExitFor
<1>2. ASSUME NEW os, NEW exs, orders' = Kept(os, ents, exs, cancels),
             \/ os = orders
             \/ \E s \in OrderId : \E px, qty, short :
                  /\ orders[s].st = "none"
                  /\ os = [orders EXCEPT ![s] = NewOrder("exit", short, px, qty)]
      PROVE  EntryOwn'
  <2>1. \A o \in OrderId : /\ orders[o].st # "none" => os[o].st # "none"
                           /\ os[o].st = "new" /\ os[o].kind = "entry" => o \in EntryOrders
    BY <1>1, <1>2 DEF NewOrder, EntryOrders
  <2>2. QED
    BY <1>1, <1>2, <2>1, EntriesKept
<1>3. \/ orders' = Kept(orders, ents, exits, cancels)
      \/ \E s \in OrderId : \E exs : /\ orders[s].st = "none"
           /\ orders' = Kept([orders EXCEPT ![s] =
                NewOrder("exit", ents[i].short, ExitPx(ents[i]), ents[i].qty)], ents, exs, cancels)
  BY DEF PlaceExitFor, FreeSlot
<1>4. CASE orders' = Kept(orders, ents, exits, cancels)
  BY <1>2, <1>4
<1>5. ASSUME NEW s \in OrderId, NEW exs, orders[s].st = "none",
             orders' = Kept([orders EXCEPT ![s] =
               NewOrder("exit", ents[i].short, ExitPx(ents[i]), ents[i].qty)], ents, exs, cancels)
      PROVE  EntryOwn'
  BY <1>2, <1>5
<1>6. QED
  BY <1>3, <1>4, <1>5

LEMMA ScanEntriesOwned == ASSUME IInv, EntryOwn, Scan PROVE EntryOwn'
<1>1. PICK i \in EntryIdx \cup ExitIdx :
        ScanKeep(i) \/ EntryFilled(i) \/ ExitFilled(i) \/ EntryCanceled(i) \/ ExitCanceled(i)
  BY DEF Scan
<1>2. /\ orders \in [OrderId -> Order] /\ entries \in [EntryIdx -> EntryLevel]
      /\ EntryOrders = {o \in OrderId : orders[o].st = "new" /\ orders[o].kind = "entry"}
  BY DEF IInv, TypeOK, EntryOrders
<1>3. CASE ScanKeep(i)
  BY <1>3, EntriesFrame DEF ScanKeep
<1>4. CASE EntryFilled(i)
  <2> DEFINE ents == [entries EXCEPT ![i] =
               [st |-> "held", oid |-> NoId, qty |-> orders[entries[i].oid].filled,
                px |-> orders[entries[i].oid].px, short |-> @.short]]
  <2>1. /\ i \in EntryIdx /\ orders[entries[i].oid].st = "filled"
        /\ UNCHANGED <<pc, cancels>> /\ PlaceExitFor(i, ents)
    BY <1>4 DEF EntryFilled
  <2>2. entries' = ents
    BY <2>1 DEF PlaceExitFor
  <2>3. \A j \in EntryIdx : Closed(j)
    BY <1>2, <2>1, <2>2 DEF Closed
  <2> HIDE DEF ents
  <2>4. QED
    BY <2>1, <2>3, PlaceExitEntries
<1>5. CASE EntryCanceled(i)
  <2>1. \A j \in EntryIdx : Closed(j)
    BY <1>2, <1>5, LevelFacts DEF EntryCanceled, Closed, EmptyLevel
  <2>2. QED
    BY <1>2, <1>5, <2>1, EntriesKept DEF EntryCanceled
<1>6. CASE ExitFilled(i) \/ ExitCanceled(i)
  <2>1. /\ UNCHANGED <<pc, cancels>> /\ orders' = Kept(orders, entries', exits', cancels)
        /\ UNCHANGED entries \/ \E e \in HeldIdx : entries' = [entries EXCEPT ![e] = Released(e)]
    BY <1>6 DEF ExitFilled, ExitCanceled, HeldIdx
  <2>2. \A j \in EntryIdx : Closed(j)
    BY <1>2, <2>1 DEF Closed, HeldIdx, Held, Released, EmptyLevel, NoLevel
  <2>3. QED
    BY <1>2, <2>1, <2>2, EntriesKept
<1>7. QED
  BY <1>1, <1>3, <1>4, <1>5, <1>6

\* Recenter waits until every listed entry order is dealt with before it
\* wipes the table: none is live then.
LEMMA RecenterEntriesOwned ==
  ASSUME Reliable, EchoesClientId, IInv, EntryOwn, Recenter PROVE EntryOwn'
<1>1. /\ orders \in [OrderId -> Order] /\ entries \in [EntryIdx -> EntryLevel]
      /\ EntryOrders = {o \in OrderId : orders[o].st = "new" /\ orders[o].kind = "entry"}
  BY DEF IInv, TypeOK, EntryOrders
<1>2. CASE SkipRecenter \/ RecenterDone
  BY <1>2, EntriesFrame DEF SkipRecenter, RecenterDone
<1>3. CASE RecenterStart
  <2>1. UNCHANGED <<entries, orders>> /\ cancels' = EntryOrders /\ EntryOrders' = EntryOrders
    BY <1>3 DEF RecenterStart, ToCancel, EntryOrders
  <2>2. QED
    BY <2>1, EntriesShrink DEF EntryOwn, Closed
<1>4. ASSUME NEW o \in OrderId, RecenterCancel(o) PROVE EntryOwn'
  <2> DEFINE os == IF orders[o].st = "new" THEN [orders EXCEPT ![o].st = "canceled"] ELSE orders
  <2>1. /\ pc = "cancel" /\ UNCHANGED <<pc, entries>> /\ cancels' = cancels \ {o}
        /\ orders' = Kept(os, entries', exits, cancels')
    BY <1>4 DEF RecenterCancel, Reliable
  <2>2. /\ \A q \in OrderId : orders[q].st # "none" => os[q].st # "none"
        /\ \A q \in OrderId : os[q].st = "new" /\ os[q].kind = "entry" => q \in EntryOrders \ {o}
    BY <1>1 DEF Order
  <2> HIDE DEF os
  <2>3. EntryOrders' \subseteq EntryOrders \ {o}
    BY <2>1, <2>2, KeptLive DEF EntryOrders
  <2>4. EntryOrders' \subseteq cancels'
    BY <2>1, <2>3 DEF EntryOwn
  <2>5. \A i \in EntryIdx : entries'[i].st = "open" => orders'[entries[i].oid].st # "none"
    <3> SUFFICES ASSUME NEW i \in EntryIdx, entries[i].st = "open"
                 PROVE  orders'[entries[i].oid].st # "none"
      BY <2>1
    <3>1. entries[i].oid \in OrderId /\ os[entries[i].oid].st # "none"
      BY <2>2 DEF IInv, OpenRefs, EntryOwn
    <3>2. orders'[entries[i].oid] = os[entries[i].oid]
      BY <2>1, <3>1 DEF Kept
    <3>3. QED
      BY <3>1, <3>2
  <2>6. QED
    BY <2>1, <2>3, <2>4, <2>5, EntriesShrink DEF Closed
<1>5. ASSUME NEW g \in Grids, RecenterBuild(g) PROVE EntryOwn'
  <2>1. /\ entries' = BuildLevels /\ EntryOrders = {} /\ pc' = "seat"
        /\ orders' = Kept(orders, entries', exits, cancels)
    BY <1>5 DEF RecenterBuild, EntryOwn
  <2>2. \A i \in EntryIdx : Closed(i)
    <3>1. \A i \in EntryIdx : entries'[i].st # "open" /\ entries'[i].oid = NoId
      BY <2>1 DEF BuildLevels, EmptyLevel, NoLevel
    <3>2. QED
      BY <2>1, <3>1 DEF Closed
  <2>3. QED
    BY <1>1, <2>1, <2>2, EntriesKept
<1>6. ASSUME NEW h \in toSeat, NEW k \in 1 .. N + Overflow, SeatEntry(h, k) PROVE EntryOwn'
  <2>1. Dir(h.short) * k \in EntryIdx /\ entries[Dir(h.short) * k].st \in {"none", "empty"}
    BY <1>6, SeatFacts DEF SeatEntry, IInv, TypeOK, Holding
  <2>2. /\ entries' = [entries EXCEPT ![Dir(h.short) * k] =
             [st |-> "held", oid |-> NoId, qty |-> h.qty, px |-> h.px, short |-> h.short]]
        /\ UNCHANGED <<orders, pc, cancels>>
    BY <1>6 DEF SeatEntry
  <2>3. \A i \in EntryIdx : Closed(i)
    BY <1>1, <2>1, <2>2 DEF Closed
  <2>4. EntryOrders' = EntryOrders
    BY <2>2 DEF EntryOrders
  <2>5. \A i \in EntryIdx : entries'[i].st = "open" => entries[i].st = "open"
    BY <2>3 DEF Closed
  <2>6. QED
    BY <2>2, <2>3, <2>4, <2>5, EntriesShrink DEF EntryOwn
<1>7. QED
  BY <1>2, <1>3, <1>4, <1>5, <1>6 DEF Recenter

LEMMA PlaceMissingOwned ==
  ASSUME Reliable, IInv, EntryOwn, NEW i \in EntryIdx, PlaceMissing(i) PROVE EntryOwn'
<1>1. /\ orders \in [OrderId -> Order] /\ entries \in [EntryIdx -> EntryLevel]
      /\ pc = "place" /\ pc' = "place" /\ entries[i].st = "empty"
  BY DEF IInv, TypeOK, PlaceMissing, First, WorkFresh
<1>2. CASE UNCHANGED <<entries, orders>>
  BY <1>1, <1>2, EntriesFrame
<1>3. ASSUME NEW s \in OrderId, orders[s].st = "none",
             orders' = [orders EXCEPT ![s] = NewOrder("entry", i > 0, LevelPx(i), Lots)],
             entries' = [entries EXCEPT ![i] =
               [st |-> "open", oid |-> s, qty |-> Lots, px |-> 0, short |-> i > 0]]
      PROVE  EntryOwn'
  <2>1. /\ entries'[i].st = "open" /\ entries'[i].oid = s
        /\ \A j \in EntryIdx : j # i => entries'[j] = entries[j]
    BY <1>1, <1>3
  <2>2. /\ orders'[s].st = "new" /\ \A o \in OrderId : o # s => orders'[o] = orders[o]
    BY <1>1, <1>3 DEF NewOrder
  <2>3. s # NoId /\ \A j \in EntryIdx : j # i => entries[j].oid # s
    BY <1>3, IndexFacts DEF EntryOwn
  <2>4. \A j \in EntryIdx : entries[j].st = "open" => entries[j].oid \in OrderId
    BY DEF IInv, OpenRefs
  <2>5. \A j \in EntryIdx : entries'[j].st = "open" => orders'[entries'[j].oid].st # "none"
    BY <2>1, <2>2, <2>3, <2>4 DEF EntryOwn
  <2>6. \A j \in EntryIdx : entries'[j].st # "open" => entries'[j].oid = NoId
    BY <2>1 DEF EntryOwn
  <2>7. \A j, k \in EntryIdx : entries'[j].st = "open" /\ entries'[k].oid = entries'[j].oid => j = k
    BY <2>1, <2>3 DEF EntryOwn
  <2>8. \A o \in EntryOrders' : \E j \in EntryIdx : entries'[j].st = "open" /\ entries'[j].oid = o
    BY <1>1, <2>1, <2>2 DEF EntryOwn, EntryOrders
  <2>9. QED
    BY <1>1, <2>5, <2>6, <2>7, <2>8 DEF EntryOwn
<1>4. QED
  BY <1>2, <1>3 DEF PlaceMissing, FreeSlot, Reliable

LEMMA NextEntriesOwned ==
  ASSUME Reliable, EchoesClientId, IInv, EntryOwn, Next PROVE EntryOwn'
<1>1. /\ orders \in [OrderId -> Order] /\ entries \in [EntryIdx -> EntryLevel]
      /\ EntryOrders = {o \in OrderId : orders[o].st = "new" /\ orders[o].kind = "entry"}
  BY DEF IInv, TypeOK, EntryOrders
<1>2. CASE \/ (\E p \in Prices : TickStart(p)) \/ EnsureDone \/ TickEnd
           \/ \E i \in EntryIdx : BackoffOver(i)
  BY <1>2, EntriesFrame DEF TickStart, EnsureDone, TickEnd, BackoffOver
<1>3. ASSUME NEW i \in EntryIdx, EnsureTakeProfit(i) PROVE EntryOwn'
  <2>1. PlaceExitFor(i, entries) /\ UNCHANGED <<pc, cancels>>
    BY <1>3 DEF EnsureTakeProfit
  <2>2. \A j \in EntryIdx : Closed(j)
    BY <2>1 DEF PlaceExitFor, Closed
  <2>3. QED
    BY <2>1, <2>2, PlaceExitEntries
<1>4. ASSUME NEW o \in OrderId, Fill(o) \/ ManualCancel(o) PROVE EntryOwn'
  <2> DEFINE traded == [orders EXCEPT ![o] = Traded(orders[o])]
             os == IF orders' = Kept(traded, entries, exits, cancels)
                   THEN traded ELSE [orders EXCEPT ![o].st = "canceled"]
  <2>1. /\ \A q \in OrderId : orders[q].st # "none" => os[q].st # "none"
        /\ \A q \in OrderId : os[q].st = "new" /\ os[q].kind = "entry" => q \in EntryOrders
    BY <1>1, <1>4 DEF Order, Traded, Fill, ManualCancel
  <2>2. UNCHANGED <<entries, pc, cancels>> /\ orders' = Kept(os, entries', exits, cancels)
    BY <1>4 DEF Fill, ManualCancel, engineVars
  <2> HIDE DEF os
  <2>3. QED
    BY <2>1, <2>2, EntriesKept DEF Closed
<1>5. QED
  BY <1>2, <1>3, <1>4, ScanEntriesOwned, RecenterEntriesOwned, PlaceMissingOwned
  DEF Next, OnTick, World, Replace

LEMMA SLNextEntriesOwned ==
  ASSUME Reliable, EchoesClientId, SLInv, EntryOwn, [SLNext]_allVars PROVE EntryOwn'
<1>1. /\ IInv /\ orders \in [OrderId -> Order] /\ entries \in [EntryIdx -> EntryLevel]
      /\ EntryOrders = {o \in OrderId : orders[o].st = "new" /\ orders[o].kind = "entry"}
  BY DEF SLInv, IInv, TypeOK, EntryOrders
<1>2. CASE UNCHANGED <<entries, orders, pc, cancels>>
  BY <1>1, <1>2, EntriesFrame
<1>3. ASSUME NEW i \in EntryIdx, ResetEntry(i) PROVE EntryOwn'
  <2>1. /\ entries' = [entries EXCEPT ![i] = Released(i)] /\ entries[i].st = "held"
        /\ UNCHANGED <<pc, cancels>> /\ pc = "idle"
    BY <1>3 DEF ResetEntry, SLInv, CheckStage, ToReset, HeldIdx, Held
  <2>2. \A j \in EntryIdx : Closed(j)
    BY <1>1, <2>1 DEF Closed, Released, EmptyLevel, NoLevel
  <2>3. CASE UNCHANGED orders
    <3>1. \A j \in EntryIdx : entries'[j].st = "open" => entries[j].st = "open"
      BY <2>2 DEF Closed
    <3>2. EntryOrders' = EntryOrders
      BY <2>3 DEF EntryOrders
    <3>3. QED
      BY <1>1, <2>1, <2>2, <2>3, <3>1, <3>2, EntriesShrink DEF EntryOwn
  <2>4. ASSUME NEW x \in OpenExits, NEW st \in CancelOutcomes(x),
               orders' = Kept([orders EXCEPT ![exits[x].oid].st = st], entries', exits', cancels)
        PROVE  EntryOwn'
    <3> DEFINE os == [orders EXCEPT ![exits[x].oid].st = st]
    <3>1. /\ exits[x].oid \in OrderId /\ orders[exits[x].oid].st # "none"
          /\ st # "none" /\ (st = "new" => orders[exits[x].oid].st = "new")
      BY <1>1, <2>4 DEF IInv, OpenRefs, CancelOutcomes
    <3>2. /\ \A q \in OrderId : orders[q].st # "none" => os[q].st # "none"
          /\ \A q \in OrderId : os[q].st = "new" /\ os[q].kind = "entry" => q \in EntryOrders
      BY <1>1, <3>1 DEF Order
    <3>3. orders' = Kept(os, entries', exits', cancels)
      BY <2>4
    <3> HIDE DEF os
    <3>4. QED
      BY <1>1, <2>1, <2>2, <3>2, <3>3, EntriesKept
  <2>5. QED
    BY <1>3, <2>3, <2>4 DEF ResetEntry
<1>4. CASE TickThen \/ (World /\ UNCHANGED slVars)
  BY <1>1, <1>4, NextEntriesOwned DEF TickThen, Next
<1>5. CASE \/ ReadPositions \/ ResetDone \/ JudgeDone \/ TickFails
           \/ \E short \in BOOLEAN : LeaveOpen(short) \/ CloseUnheard(short) \/ ForceClose(short)
  BY <1>2, <1>5 DEF ReadPositions, ResetDone, JudgeDone, TickFails, LeaveOpen, CloseUnheard,
                    ForceClose, vars, engineVars
<1>6. QED
  BY <1>2, <1>3, <1>4, <1>5 DEF SLNext, CheckStopLoss, allVars, vars, engineVars

\* Under the same conditions, and with an adapter that echoes client ids,
\* every entry order that is live belongs to exactly one open level: neither
\* recenter nor a forced close leaves one behind.
THEOREM EntriesOwned ==
  ASSUME Reliable, EchoesClientId
  PROVE  SLSpec => []LiveEntryOwned
<1>1. SLInit => EntryOwn
  BY LevelFacts DEF SLInit, Init, EntryOwn, EntryOrders, BuildLevels, EmptyLevel, NoLevel
<1>2. SLInv /\ EntryOwn /\ [SLNext]_allVars => EntryOwn'
  BY SLNextEntriesOwned
<1>3. EntryOwn => LiveEntryOwned
  BY DEF EntryOwn, LiveEntryOwned
<1>4. QED
  BY <1>1, <1>2, <1>3, StopLossInvariance, PTL DEF SLSpec
=============================================================================
