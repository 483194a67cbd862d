-------------------------- MODULE GridEngineProofs --------------------------
(***************************************************************************)
(* Proof that IInv is an invariant of the grid engine for every grid size, *)
(* every set of grids and prices and every combination of failing calls,   *)
(* and with it the pairing of positions and take-profit orders; and that   *)
(* the engine implements the position book: a tick opens or closes one     *)
(* position at a time, and recenter, which takes all of them off the table *)
(* and seats them again, neither drops nor merges nor changes one.         *)
(***************************************************************************)
EXTENDS GridEngineInv, GridLedger, FiniteSetTheorems, TLAPS

USE GridEngineAssumption

\* The index sets are what they look like, and do not overlap.
LEMMA IndexFacts ==
  /\ GridIdx \subseteq EntryIdx
  /\ EntryIdx \subseteq Int /\ ExitIdx \subseteq Int
  /\ NoId \notin EntryIdx /\ NoId \notin OrderId
  /\ EntryIdx \cap ExitIdx = {}
BY DEF GridIdx, EntryIdx, ExitIdx, NoId, OrderId

\* The level constants have the types they should.
LEMMA LevelFacts ==
  /\ NoLevel \in EntryLevel /\ EmptyLevel \in EntryLevel
  /\ NoExit \in ExitLevel /\ NoOrder \in Order
  /\ NoLevel.st = "none" /\ EmptyLevel.st = "empty"
  /\ NoExit.st = "none" /\ NoOrder.st = "none"
  /\ \A i \in EntryIdx : Released(i) \in {NoLevel, EmptyLevel}
  /\ BuildLevels \in [EntryIdx -> {NoLevel, EmptyLevel}]
<1>1. NoLevel \in EntryLevel /\ NoLevel.st = "none"
  BY DEF NoLevel, EntryLevel
<1>2. EmptyLevel \in EntryLevel /\ EmptyLevel.st = "empty"
  BY DEF EmptyLevel, EntryLevel
<1>3. NoExit \in ExitLevel /\ NoExit.st = "none"
  BY DEF NoExit, ExitLevel
<1>4. NoOrder \in Order /\ NoOrder.st = "none"
  BY DEF NoOrder, Order
<1>5. \A i \in EntryIdx : Released(i) \in {NoLevel, EmptyLevel}
  BY DEF Released
<1>6. BuildLevels \in [EntryIdx -> {NoLevel, EmptyLevel}]
  BY DEF BuildLevels
<1>7. QED
  BY <1>1, <1>2, <1>3, <1>4, <1>5, <1>6

\* What the exchange forgets is nothing an open exit refers to, and what it
\* keeps it keeps as it is.
LEMMA KeptFacts ==
  ASSUME NEW os \in [OrderId -> Order], NEW ents, NEW exs, NEW cs
  PROVE  /\ Kept(os, ents, exs, cs) \in [OrderId -> Order]
         /\ \A x \in ExitIdx : exs[x].oid \in OrderId =>
              Kept(os, ents, exs, cs)[exs[x].oid] = os[exs[x].oid]
BY LevelFacts DEF Kept

\* A new order is an order.
LEMMA NewOrderFacts ==
  ASSUME NEW kind \in {"entry", "exit"}, NEW short \in BOOLEAN, NEW px \in Int,
         NEW qty \in Nat
  PROVE  /\ NewOrder(kind, short, px, qty) \in Order
         /\ NewOrder(kind, short, px, qty).st = "new"
         /\ NewOrder(kind, short, px, qty).px = px
BY DEF NewOrder, Order

\* Grid prices are integers and the spacing is positive.
LEMMA GridFacts ==
  ASSUME TypeOK
  PROVE  /\ grid.center \in Int /\ grid.spacing \in Nat /\ grid.spacing > 0
         /\ \A i \in Int : LevelPx(i) \in Int
<1>1. grid.center \in Int /\ grid.spacing \in Nat \ {0}
  BY DEF TypeOK
<1>2. ASSUME NEW i \in Int PROVE LevelPx(i) \in Int
  BY <1>1 DEF LevelPx
<1>3. QED
  BY <1>1, <1>2

\* The exit price of a position beats its cost.
LEMMA ExitPxFacts ==
  ASSUME TypeOK, NEW e \in EntryLevel
  PROVE  /\ ExitPx(e) \in Int
         /\ Profitable(e.short, e.px, ExitPx(e))
BY GridFacts DEF ExitPx, Profitable, EntryLevel

-----------------------------------------------------------------------------
(* The initial state                                                       *)

LEMMA InitIInv == Init => IInv
<1> SUFFICES ASSUME Init PROVE IInv
  OBVIOUS
<1>1. TypeOK
  <2>1. Missing(entries, 0) \subseteq EntryIdx /\ \A p \in Prices : Missing(entries, p) \subseteq GridIdx
    BY IndexFacts DEF Missing
  <2>2. entries \in [EntryIdx -> EntryLevel] /\ exits \in [ExitIdx -> ExitLevel]
        /\ orders \in [OrderId -> Order]
    BY LevelFacts DEF Init
  <2>3. pos \in [BOOLEAN -> Nat] /\ oldToNew \in [EntryIdx -> EntryIdx \cup {NoId}]
    BY DEF Init
  <2>4. QED
    BY <2>1, <2>2, <2>3, IndexFacts DEF Init, TypeOK
<1>2. OpenExits = {} /\ HeldIdx = {} /\ \A i \in EntryIdx : entries[i].st # "open"
  BY LevelFacts DEF Init, OpenExits, HeldIdx, Held, BuildLevels
<1>3. WorkFresh
  BY DEF Init, WorkFresh, Missing
<1>4. QED
  BY <1>1, <1>2, <1>3 DEF IInv, OpenRefs, PairOnce, PairTable, SeatTable, NoLossBooked, Init

-----------------------------------------------------------------------------
(* Steps that leave the table alone                                        *)

Tables == OpenRefs /\ PairOnce /\ PairTable /\ SeatTable /\ NoLossBooked

\* A step that touches neither table nor orders keeps everything said of
\* them.
LEMMA TablesFrame ==
  ASSUME IInv, UNCHANGED <<entries, exits, orders, lossBooked>>,
         pc # "seat", pc' # "seat"
  PROVE  Tables'
BY DEF IInv, Tables, OpenRefs, PairOnce, PairTable, SeatTable, NoLossBooked, OpenExits,
       HeldIdx, Held, Serves

\* The same for a step that changes orders without forgetting or repricing
\* one that an open exit refers to.
LEMMA OrdersFrame ==
  ASSUME IInv, NEW os \in [OrderId -> Order], NEW cs,
         \A o \in OrderId : orders[o].st # "none" =>
           os[o].st # "none" /\ os[o].px = orders[o].px,
         orders' = Kept(os, entries, exits, cs),
         UNCHANGED <<entries, exits, pc, toSeat, oldToNew, lossBooked>>
  PROVE  orders' \in [OrderId -> Order] /\ Tables'
<1>1. orders' \in [OrderId -> Order]
  BY KeptFacts
<1>2. OpenRefs'
  <2>1. \A x \in OpenExits : orders'[exits[x].oid] = os[exits[x].oid]
    BY KeptFacts DEF IInv, OpenRefs, OpenExits
  <2>2. QED
    BY <2>1 DEF IInv, OpenRefs, OpenExits
<1>3. (PairOnce /\ PairTable /\ SeatTable /\ NoLossBooked)'
  BY DEF IInv, PairOnce, PairTable, SeatTable, NoLossBooked, OpenExits, HeldIdx, Held, Serves
<1>4. QED
  BY <1>1, <1>2, <1>3 DEF Tables

LEMMA TickStartIInv == ASSUME IInv, NEW p \in Prices, TickStart(p) PROVE IInv'
<1>1. TypeOK'
  BY DEF TickStart, IInv, TypeOK, OpenExits
<1>2. WorkFresh'
  BY IndexFacts DEF TickStart, WorkFresh, OpenExits
<1>3. Tables'
  BY TablesFrame DEF TickStart
<1>4. QED
  BY <1>1, <1>2, <1>3 DEF IInv, Tables

LEMMA ScanKeepIInv == ASSUME IInv, NEW i, ScanKeep(i) PROVE IInv'
<1>1. TypeOK'
  BY DEF ScanKeep, IInv, TypeOK
<1>2. WorkFresh'
  BY DEF ScanKeep, IInv, WorkFresh, OpenExits
<1>3. Tables'
  BY TablesFrame DEF ScanKeep
<1>4. QED
  BY <1>1, <1>2, <1>3 DEF IInv, Tables

LEMMA SkipRecenterIInv == ASSUME IInv, SkipRecenter PROVE IInv'
<1>1. TypeOK'
  BY DEF SkipRecenter, IInv, TypeOK, UncoveredIn, HeldIdx
<1>2. WorkFresh'
  BY DEF SkipRecenter, WorkFresh, UncoveredIn, HeldIdx, Held
<1>3. Tables'
  BY TablesFrame DEF SkipRecenter
<1>4. QED
  BY <1>1, <1>2, <1>3 DEF IInv, Tables

LEMMA RecenterStartIInv == ASSUME IInv, RecenterStart PROVE IInv'
<1>1. TypeOK'
  BY DEF RecenterStart, IInv, TypeOK, ToCancel, EntryOrders
<1>2. WorkFresh'
  BY DEF RecenterStart, WorkFresh
<1>3. Tables'
  BY TablesFrame DEF RecenterStart
<1>4. QED
  BY <1>1, <1>2, <1>3 DEF IInv, Tables

LEMMA EnsureDoneIInv == ASSUME IInv, EnsureDone PROVE IInv'
<1>1. TypeOK'
  BY IndexFacts DEF EnsureDone, IInv, TypeOK, Missing
<1>2. WorkFresh'
  BY DEF EnsureDone, WorkFresh, Missing
<1>3. Tables'
  BY TablesFrame DEF EnsureDone
<1>4. QED
  BY <1>1, <1>2, <1>3 DEF IInv, Tables

LEMMA TickEndIInv == ASSUME IInv, TickEnd PROVE IInv'
<1>1. TypeOK'
  BY DEF TickEnd, IInv, TypeOK
<1>2. WorkFresh'
  BY DEF TickEnd, WorkFresh
<1>3. Tables'
  BY TablesFrame DEF TickEnd
<1>4. QED
  BY <1>1, <1>2, <1>3 DEF IInv, Tables

LEMMA BackoffOverIInv == ASSUME IInv, NEW i, BackoffOver(i) PROVE IInv'
<1>1. TypeOK'
  BY DEF BackoffOver, IInv, TypeOK
<1>2. WorkFresh'
  BY DEF BackoffOver, WorkFresh
<1>3. Tables'
  BY TablesFrame DEF BackoffOver
<1>4. QED
  BY <1>1, <1>2, <1>3 DEF IInv, Tables

LEMMA RecenterCancelIInv == ASSUME IInv, NEW o \in OrderId, RecenterCancel(o) PROVE IInv'
<1> DEFINE os == IF orders' = Kept([orders EXCEPT ![o].st = "canceled"], entries, exits, cancels')
                 THEN [orders EXCEPT ![o].st = "canceled"] ELSE orders
<1>1. /\ os \in [OrderId -> Order]
      /\ \A q \in OrderId : orders[q].st # "none" =>
           os[q].st # "none" /\ os[q].px = orders[q].px
  BY DEF IInv, TypeOK, Order
<1>2. orders' = Kept(os, entries, exits, cancels')
  BY DEF RecenterCancel
<1>3. orders' \in [OrderId -> Order] /\ Tables'
  BY <1>1, <1>2, OrdersFrame DEF RecenterCancel
<1>4. TypeOK'
  BY <1>3 DEF RecenterCancel, IInv, TypeOK
<1>5. WorkFresh'
  BY DEF RecenterCancel, WorkFresh
<1>6. QED
  BY <1>3, <1>4, <1>5 DEF IInv, Tables

\* The exchange acting between two calls disturbs no work list.
LEMMA WorkFrame ==
  ASSUME IInv, UNCHANGED <<entries, exits, pc, todo>>
  PROVE  WorkFresh'
BY DEF IInv, WorkFresh, OpenExits, HeldIdx, Held

LEMMA FillIInv == ASSUME IInv, NEW o \in OrderId, Fill(o) PROVE IInv'
<1> DEFINE os == [orders EXCEPT ![o] = Traded(orders[o])]
<1>1. /\ os \in [OrderId -> Order]
      /\ \A q \in OrderId : orders[q].st # "none" =>
           os[q].st # "none" /\ os[q].px = orders[q].px
  <2>1. orders \in [OrderId -> Order] /\ orders[o] \in Order
    BY DEF IInv, TypeOK
  <2>2. /\ Traded(orders[o]) \in Order /\ Traded(orders[o]).st # "none"
        /\ Traded(orders[o]).px = orders[o].px
    BY <2>1 DEF Order, Traded
  <2>3. QED
    BY <2>1, <2>2
<1>2. orders' = Kept(os, entries, exits, cancels)
  BY DEF Fill
<1>3. orders' \in [OrderId -> Order] /\ Tables'
  BY <1>1, <1>2, OrdersFrame DEF Fill, engineVars
<1>4. pos' \in [BOOLEAN -> Nat]
  <2>1. orders[o].short \in BOOLEAN /\ pos \in [BOOLEAN -> Nat]
        /\ orders[o].kind \in {"entry", "exit"}
    BY DEF IInv, TypeOK, Order
  <2>2. QED
    BY <2>1 DEF Fill
<1>5. TypeOK'
  BY <1>3, <1>4 DEF Fill, engineVars, IInv, TypeOK
<1>6. WorkFresh'
  BY WorkFrame DEF Fill, engineVars
<1>7. QED
  BY <1>3, <1>5, <1>6 DEF IInv, Tables

LEMMA ManualCancelIInv == ASSUME IInv, NEW o \in OrderId, ManualCancel(o) PROVE IInv'
<1> DEFINE os == [orders EXCEPT ![o].st = "canceled"]
<1>1. /\ os \in [OrderId -> Order]
      /\ \A q \in OrderId : orders[q].st # "none" =>
           os[q].st # "none" /\ os[q].px = orders[q].px
  BY DEF IInv, TypeOK, Order
<1>2. orders' = Kept(os, entries, exits, cancels)
  BY DEF ManualCancel
<1>3. orders' \in [OrderId -> Order] /\ Tables'
  BY <1>1, <1>2, OrdersFrame DEF ManualCancel, engineVars
<1>4. TypeOK'
  BY <1>3 DEF ManualCancel, engineVars, IInv, TypeOK
<1>5. WorkFresh'
  BY WorkFrame DEF ManualCancel, engineVars
<1>6. QED
  BY <1>3, <1>4, <1>5 DEF IInv, Tables

-----------------------------------------------------------------------------
(* Steps that place a take-profit order                                    *)

\* PlaceExitFor on a table "ents" in which every exit already has its
\* position, and level i holds one: the new exit serves level i, no other
\* exit does, and all orders stay known.
LEMMA PlaceExitFacts ==
  ASSUME TypeOK, OpenRefs, PairOnce,
         NEW ents \in [EntryIdx -> EntryLevel], NEW i \in EntryIdx,
         ents[i].st = "held",
         \A x \in OpenExits : /\ exits[x].pair \in EntryIdx
                              /\ ents[exits[x].pair].st = "held"
                              /\ Serves(x, ents[exits[x].pair]),
         \A j \in EntryIdx : ents[j].st = "open" => ents[j].oid \in OrderId,
         PlaceExitFor(i, ents), pc # "seat", UNCHANGED pc
  PROVE  /\ entries' = ents
         /\ exits' \in [ExitIdx -> ExitLevel]
         /\ orders' \in [OrderId -> Order]
         /\ retry' \subseteq EntryIdx
         /\ OpenRefs' /\ PairOnce' /\ PairTable' /\ SeatTable'
         /\ OpenExits \subseteq OpenExits'
<1> DEFINE e == ents[i]
           tp == ExitPx(e)
           order == NewOrder("exit", e.short, tp, e.qty)
<1>1. /\ entries' = ents
      /\ exits \in [ExitIdx -> ExitLevel] /\ orders \in [OrderId -> Order]
      /\ retry \subseteq EntryIdx
      /\ e \in EntryLevel /\ tp \in Int /\ Profitable(e.short, e.px, tp)
  BY ExitPxFacts DEF PlaceExitFor, TypeOK
<1>2. order \in Order /\ order.st = "new" /\ order.px = tp
  BY <1>1, NewOrderFacts DEF EntryLevel
<1>3. CASE /\ UNCHANGED exits
           /\ retry' \subseteq EntryIdx
           /\ \/ orders' = Kept(orders, ents, exits, cancels)
              \/ \E s \in OrderId : FreeSlot(s) /\
                   orders' = Kept([orders EXCEPT ![s] = order], ents, exits, cancels)
  <2>1. PICK os \in [OrderId -> Order] :
          /\ orders' = Kept(os, ents, exits, cancels)
          /\ \A o \in OrderId : orders[o].st # "none" =>
               os[o].st # "none" /\ os[o].px = orders[o].px
    <3> HIDE DEF order
    <3>1. CASE orders' = Kept(orders, ents, exits, cancels)
      BY <3>1, <1>1
    <3>2. CASE \E s \in OrderId : FreeSlot(s) /\
                 orders' = Kept([orders EXCEPT ![s] = order], ents, exits, cancels)
      <4>1. PICK s \in OrderId :
              FreeSlot(s) /\ orders' = Kept([orders EXCEPT ![s] = order], ents, exits, cancels)
        BY <3>2
      <4> DEFINE os == [orders EXCEPT ![s] = order]
      <4>2. /\ os \in [OrderId -> Order]
            /\ \A o \in OrderId : orders[o].st # "none" => os[o] = orders[o]
        BY <4>1, <1>1, <1>2 DEF FreeSlot
      <4>3. orders' = Kept(os, ents, exits, cancels)
        BY <4>1
      <4> HIDE DEF os
      <4>4. QED
        BY <4>2, <4>3
    <3>3. QED
      BY <1>3, <3>1, <3>2
  <2>2. orders' \in [OrderId -> Order]
        /\ \A x \in OpenExits : orders'[exits[x].oid] = os[exits[x].oid]
    BY <2>1, KeptFacts DEF OpenRefs, OpenExits
  <2>3. OpenRefs'
    BY <1>1, <1>3, <2>1, <2>2 DEF OpenRefs, OpenExits
  <2>4. PairOnce' /\ PairTable' /\ SeatTable'
    BY <1>1, <1>3 DEF PairOnce, PairTable, SeatTable, OpenExits, HeldIdx, Held, Serves
  <2>5. QED
    BY <1>1, <1>3, <2>2, <2>3, <2>4 DEF OpenExits
<1>4. CASE \E s \in OrderId, x \in ExitIdx :
             /\ ~Covered(i) /\ FreeSlot(s) /\ IsNextExit(x)
             /\ exits' = [exits EXCEPT ![x] =
                  [st |-> "open", oid |-> s, qty |-> e.qty, px |-> tp,
                   short |-> e.short, pair |-> i]]
             /\ retry' = retry \ {i}
             /\ orders' = Kept([orders EXCEPT ![s] = order], ents, exits', cancels)
  <2>1. PICK s \in OrderId, x \in ExitIdx :
             /\ ~Covered(i) /\ FreeSlot(s) /\ IsNextExit(x)
             /\ exits' = [exits EXCEPT ![x] =
                  [st |-> "open", oid |-> s, qty |-> e.qty, px |-> tp,
                   short |-> e.short, pair |-> i]]
             /\ retry' = retry \ {i}
             /\ orders' = Kept([orders EXCEPT ![s] = order], ents, exits', cancels)
    BY <1>4
  <2> DEFINE new == [st |-> "open", oid |-> s, qty |-> e.qty, px |-> tp,
                     short |-> e.short, pair |-> i]
             os == [orders EXCEPT ![s] = order]
  <2>2. /\ new \in ExitLevel /\ new.st = "open" /\ new.oid = s /\ new.pair = i
        /\ new.px = tp /\ new.short = e.short /\ new.qty = e.qty
    BY <1>1 DEF ExitLevel, EntryLevel
  <2> HIDE DEF new, order
  <2>3. /\ exits' = [exits EXCEPT ![x] = new] /\ exits' \in [ExitIdx -> ExitLevel]
        /\ OpenExits' = OpenExits \cup {x} /\ x \notin OpenExits
        /\ exits'[x] = new /\ \A y \in OpenExits : exits'[y] = exits[y]
    BY <1>1, <2>1, <2>2 DEF OpenExits, IsNextExit, new
  <2>4. /\ os \in [OrderId -> Order]
        /\ os[s] = order
        /\ \A o \in OrderId : orders[o].st # "none" => os[o] = orders[o]
    BY <1>1, <1>2, <2>1 DEF FreeSlot
  <2>5. orders' \in [OrderId -> Order]
        /\ \A y \in ExitIdx : exits'[y].oid \in OrderId =>
             orders'[exits'[y].oid] = os[exits'[y].oid]
    <3>1. orders' = Kept(os, ents, exits', cancels)
      BY <2>1
    <3> HIDE DEF os
    <3>2. QED
      BY <3>1, <2>4, KeptFacts
  <2>6. OpenRefs'
    BY <1>1, <1>2, <2>2, <2>3, <2>4, <2>5 DEF OpenRefs, OpenExits
  <2>7. PairOnce'
    BY <2>1, <2>2, <2>3 DEF PairOnce, Covered
  <2>8. PairTable'
    <3>1. i \in HeldIdx' /\ Serves(x, ents[i])'
      BY <1>1, <2>2, <2>3 DEF HeldIdx, Held, Serves
    <3>2. \A y \in OpenExits : exits'[y].pair \in HeldIdx' /\ Serves(y, ents[exits[y].pair])'
      BY <1>1, <2>3 DEF HeldIdx, Held, Serves
    <3>3. QED
      BY <1>1, <2>2, <2>3, <3>1, <3>2 DEF PairTable
  <2>9. QED
    BY <1>1, <2>1, <2>3, <2>5, <2>6, <2>7, <2>8 DEF SeatTable
<1>5. QED
  BY <1>1, <1>3, <1>4 DEF PlaceExitFor

LEMMA EntryFilledIInv ==
  ASSUME IInv, NEW i \in EntryIdx \cup ExitIdx, EntryFilled(i) PROVE IInv'
<1> DEFINE o == orders[entries[i].oid]
           pos0 == [st |-> "held", oid |-> NoId, qty |-> o.filled, px |-> o.px,
                    short |-> entries[i].short]
           ents == [entries EXCEPT ![i] = pos0]
<1>1. /\ i \in EntryIdx /\ entries[i].st = "open" /\ pc = "scan" /\ i \notin HeldIdx
      /\ UNCHANGED pc
  BY DEF EntryFilled, First, IInv, WorkFresh, HeldIdx, Held
<1>2. o \in Order /\ entries[i] \in EntryLevel
  BY <1>1 DEF IInv, TypeOK, OpenRefs
<1>3. pos0 \in EntryLevel /\ pos0.st = "held"
  BY <1>2 DEF EntryLevel, Order
<1>4. PlaceExitFor(i, ents)
  BY DEF EntryFilled
<1> HIDE DEF pos0
<1>5. /\ ents \in [EntryIdx -> EntryLevel] /\ ents[i].st = "held"
      /\ \A j \in EntryIdx : j # i => ents[j] = entries[j]
  BY <1>1, <1>3 DEF IInv, TypeOK
<1>6. \A x \in OpenExits : exits[x].pair \in HeldIdx /\ exits[x].pair # i
                             /\ Serves(x, entries[exits[x].pair])
  BY <1>1 DEF IInv, PairTable
<1>7. \A x \in OpenExits : /\ exits[x].pair \in EntryIdx
                           /\ ents[exits[x].pair].st = "held"
                           /\ Serves(x, ents[exits[x].pair])
  BY <1>5, <1>6 DEF HeldIdx, Held
<1>8. \A j \in EntryIdx : ents[j].st = "open" => ents[j].oid \in OrderId
  BY <1>5 DEF IInv, OpenRefs
<1> HIDE DEF ents
<1>9. /\ entries' = ents
      /\ exits' \in [ExitIdx -> ExitLevel] /\ orders' \in [OrderId -> Order]
      /\ retry' \subseteq EntryIdx
      /\ OpenRefs' /\ PairOnce' /\ PairTable' /\ SeatTable'
      /\ OpenExits \subseteq OpenExits'
  BY <1>1, <1>4, <1>5, <1>7, <1>8, PlaceExitFacts DEF IInv
<1>10. TypeOK' /\ NoLossBooked'
  BY <1>5, <1>9 DEF EntryFilled, IInv, TypeOK, NoLossBooked
<1>11. WorkFresh'
  <2>1. todo' = todo \ {i} /\ pc' = "scan"
    BY <1>1 DEF EntryFilled
  <2>2. \A j \in todo' \cap EntryIdx : entries'[j].st = "open"
    BY <1>1, <1>5, <1>9, <2>1 DEF IInv, WorkFresh
  <2>3. todo' \cap ExitIdx \subseteq OpenExits'
    BY <1>1, <1>9, <2>1 DEF IInv, WorkFresh
  <2>4. QED
    BY <2>1, <2>2, <2>3 DEF WorkFresh
<1>12. QED
  BY <1>9, <1>10, <1>11 DEF IInv

LEMMA EnsureTakeProfitIInv ==
  ASSUME IInv, NEW i \in EntryIdx, EnsureTakeProfit(i) PROVE IInv'
<1>1. /\ pc = "ensure" /\ UNCHANGED pc /\ entries[i].st = "held"
      /\ entries \in [EntryIdx -> EntryLevel] /\ PlaceExitFor(i, entries)
  BY DEF EnsureTakeProfit, First, IInv, WorkFresh, HeldIdx, Held, TypeOK
<1>2. \A x \in OpenExits : /\ exits[x].pair \in EntryIdx
                           /\ entries[exits[x].pair].st = "held"
                           /\ Serves(x, entries[exits[x].pair])
  BY <1>1 DEF IInv, PairTable, HeldIdx, Held
<1>3. /\ entries' = entries
      /\ exits' \in [ExitIdx -> ExitLevel] /\ orders' \in [OrderId -> Order]
      /\ retry' \subseteq EntryIdx
      /\ OpenRefs' /\ PairOnce' /\ PairTable' /\ SeatTable'
  BY <1>1, <1>2, PlaceExitFacts DEF IInv, OpenRefs
<1>4. TypeOK' /\ NoLossBooked'
  BY <1>3 DEF EnsureTakeProfit, IInv, TypeOK, NoLossBooked
<1>5. WorkFresh'
  BY <1>1, <1>3 DEF EnsureTakeProfit, IInv, WorkFresh, HeldIdx, Held
<1>6. QED
  BY <1>3, <1>4, <1>5 DEF IInv

-----------------------------------------------------------------------------
(* The other steps that change the table                                   *)

LEMMA ExitFilledIInv ==
  ASSUME IInv, NEW x \in EntryIdx \cup ExitIdx, ExitFilled(x) PROVE IInv'
<1> DEFINE e == exits[x].pair
           o == orders[exits[x].oid]
<1>1. /\ x \in ExitIdx /\ x \in OpenExits /\ pc = "scan" /\ UNCHANGED pc
      /\ e \in HeldIdx /\ Serves(x, entries[e]) /\ o.px = exits[x].px
      /\ e \in EntryIdx /\ Held(e)
  BY DEF ExitFilled, First, IInv, WorkFresh, PairTable, OpenRefs, HeldIdx
<1>2. /\ exits' = [exits EXCEPT ![x] = NoExit]
      /\ entries' = [entries EXCEPT ![e] = Released(e)]
      /\ retry' = retry \ {e}
      /\ lossBooked' = (lossBooked \/ ~Profitable(entries[e].short, entries[e].px, o.px))
      /\ orders' = Kept(orders, entries', exits', cancels)
      /\ todo' = todo \ {x}
      /\ UNCHANGED <<grid, pc, tickPx, cancels, toSeat, oldToNew, pos>>
  BY <1>1 DEF ExitFilled
<1>3. NoLossBooked'
  BY <1>1, <1>2 DEF IInv, NoLossBooked, Serves
<1>4. /\ exits' \in [ExitIdx -> ExitLevel]
      /\ OpenExits' = OpenExits \ {x}
      /\ \A y \in OpenExits' : exits'[y] = exits[y]
  BY <1>1, <1>2, LevelFacts DEF OpenExits, IInv, TypeOK
<1>5. /\ entries' \in [EntryIdx -> EntryLevel]
      /\ HeldIdx' = HeldIdx \ {e}
      /\ \A j \in EntryIdx : j # e => entries'[j] = entries[j]
      /\ entries'[e].st \notin {"open", "held"}
  BY <1>1, <1>2, LevelFacts DEF HeldIdx, Held, IInv, TypeOK
<1>6. /\ orders' \in [OrderId -> Order]
      /\ \A y \in ExitIdx : exits'[y].oid \in OrderId =>
           orders'[exits'[y].oid] = orders[exits'[y].oid]
  <2>1. orders \in [OrderId -> Order]
    BY DEF IInv, TypeOK
  <2>2. orders' = Kept(orders, entries', exits', cancels)
    BY <1>2
  <2>3. QED
    BY <2>1, <2>2, KeptFacts
<1>7. TypeOK'
  <2>1. lossBooked' \in BOOLEAN
    BY <1>2
  <2>2. retry' \subseteq EntryIdx /\ todo' \subseteq EntryIdx \cup ExitIdx
    BY <1>2 DEF IInv, TypeOK
  <2>3. QED
    BY <1>2, <1>4, <1>5, <1>6, <2>1, <2>2 DEF IInv, TypeOK
<1>8. OpenRefs'
  BY <1>4, <1>5, <1>6 DEF IInv, OpenRefs, OpenExits
<1>9. PairOnce' /\ PairTable' /\ SeatTable'
  <2>1. \A y \in OpenExits' : exits[y].pair # e
    BY <1>1, <1>4 DEF IInv, PairOnce
  <2>2. \A y \in OpenExits' : exits'[y].pair \in HeldIdx' /\ Serves(y, entries[exits[y].pair])'
    BY <1>1, <1>4, <1>5, <2>1 DEF IInv, PairTable, HeldIdx, Serves
  <2>3. QED
    BY <1>1, <1>2, <1>4, <2>2 DEF IInv, PairOnce, PairTable, SeatTable, HeldIdx
<1>10. WorkFresh'
  BY <1>1, <1>2, <1>4, <1>5 DEF IInv, WorkFresh, HeldIdx, Held
<1>11. QED
  BY <1>3, <1>7, <1>8, <1>9, <1>10 DEF IInv

LEMMA EntryCanceledIInv ==
  ASSUME IInv, NEW i \in EntryIdx \cup ExitIdx, EntryCanceled(i) PROVE IInv'
<1>1. /\ i \in EntryIdx /\ entries[i].st = "open" /\ pc = "scan" /\ i \notin HeldIdx
  BY DEF EntryCanceled, First, IInv, WorkFresh, HeldIdx, Held
<1>2. /\ entries' = [entries EXCEPT ![i] = EmptyLevel]
      /\ orders' = Kept(orders, entries', exits, cancels)
      /\ todo' = todo \ {i}
      /\ UNCHANGED <<exits, grid, retry, pc, tickPx, cancels, toSeat, oldToNew,
                     lossBooked, pos>>
  BY DEF EntryCanceled
<1>3. /\ entries' \in [EntryIdx -> EntryLevel]
      /\ HeldIdx' = HeldIdx /\ OpenExits' = OpenExits
      /\ \A j \in EntryIdx : j # i => entries'[j] = entries[j]
      /\ entries'[i].st = "empty"
  BY <1>1, <1>2, LevelFacts DEF HeldIdx, Held, OpenExits, IInv, TypeOK
<1>4. /\ orders' \in [OrderId -> Order]
      /\ \A y \in ExitIdx : exits[y].oid \in OrderId =>
           orders'[exits[y].oid] = orders[exits[y].oid]
  BY <1>2, KeptFacts DEF IInv, TypeOK
<1>5. TypeOK' /\ NoLossBooked'
  BY <1>2, <1>3, <1>4 DEF IInv, TypeOK, NoLossBooked
<1>6. OpenRefs'
  BY <1>2, <1>3, <1>4 DEF IInv, OpenRefs, OpenExits
<1>7. PairOnce' /\ PairTable' /\ SeatTable'
  BY <1>1, <1>2, <1>3 DEF IInv, PairOnce, PairTable, SeatTable, HeldIdx, Serves
<1>8. WorkFresh'
  BY <1>1, <1>2, <1>3 DEF IInv, WorkFresh
<1>9. QED
  BY <1>5, <1>6, <1>7, <1>8 DEF IInv

LEMMA ExitCanceledIInv ==
  ASSUME IInv, NEW x \in EntryIdx \cup ExitIdx, ExitCanceled(x) PROVE IInv'
<1>1. x \in ExitIdx /\ pc = "scan"
  BY DEF ExitCanceled
<1>2. /\ exits' = [exits EXCEPT ![x] = NoExit]
      /\ orders' = Kept(orders, entries, exits', cancels)
      /\ todo' = todo \ {x}
      /\ UNCHANGED <<entries, grid, retry, pc, tickPx, cancels, toSeat, oldToNew,
                     lossBooked, pos>>
  BY DEF ExitCanceled
<1>3. /\ exits' \in [ExitIdx -> ExitLevel]
      /\ OpenExits' = OpenExits \ {x} /\ HeldIdx' = HeldIdx
      /\ \A y \in OpenExits' : exits'[y] = exits[y]
  BY <1>1, <1>2, LevelFacts DEF OpenExits, HeldIdx, Held, IInv, TypeOK
<1>4. /\ orders' \in [OrderId -> Order]
      /\ \A y \in ExitIdx : exits'[y].oid \in OrderId =>
           orders'[exits'[y].oid] = orders[exits'[y].oid]
  <2>1. orders \in [OrderId -> Order]
    BY DEF IInv, TypeOK
  <2>2. orders' = Kept(orders, entries', exits', cancels)
    BY <1>2
  <2>3. QED
    BY <2>1, <2>2, KeptFacts
<1>5. TypeOK' /\ NoLossBooked'
  <2>1. TypeOK'
    BY <1>2, <1>3, <1>4 DEF IInv, TypeOK
  <2>2. NoLossBooked'
    BY <1>2 DEF IInv, NoLossBooked
  <2>3. QED
    BY <2>1, <2>2
<1>6. OpenRefs'
  <2>1. \A y \in OpenExits' : y \in OpenExits /\ y \in ExitIdx
    BY <1>3 DEF OpenExits
  <2>2. \A y \in OpenExits' : /\ exits'[y].oid \in OrderId
                              /\ orders'[exits'[y].oid].st # "none"
                              /\ orders'[exits'[y].oid].px = exits'[y].px
    BY <1>3, <1>4, <2>1 DEF IInv, OpenRefs
  <2>3. QED
    BY <1>2, <2>2 DEF IInv, OpenRefs
<1>7. PairOnce' /\ PairTable' /\ SeatTable'
  <2>1. \A y \in OpenExits' : exits'[y].pair \in HeldIdx' /\ Serves(y, entries[exits[y].pair])'
    BY <1>1, <1>2, <1>3 DEF IInv, PairTable, HeldIdx, Serves
  <2>2. QED
    BY <1>1, <1>2, <1>3, <2>1 DEF IInv, PairOnce, PairTable, SeatTable
<1>8. WorkFresh'
  BY <1>1, <1>2, <1>3 DEF IInv, WorkFresh
<1>9. QED
  BY <1>5, <1>6, <1>7, <1>8 DEF IInv

LEMMA RecenterBuildIInv ==
  ASSUME IInv, NEW g \in Grids, RecenterBuild(g) PROVE IInv'
<1> DEFINE Taken(i) == [old |-> i, qty |-> entries[i].qty, px |-> entries[i].px,
                        short |-> entries[i].short]
<1>1. /\ pc = "cancel" /\ pc' = "seat" /\ grid' = g
      /\ toSeat' = {Taken(i) : i \in HeldIdx}
      /\ oldToNew' = [i \in EntryIdx |-> NoId]
      /\ entries' = BuildLevels
      /\ retry' = {}
      /\ orders' = Kept(orders, entries', exits, cancels)
      /\ UNCHANGED <<exits, tickPx, todo, cancels, lossBooked, pos>>
  BY DEF RecenterBuild
<1>2. /\ entries' \in [EntryIdx -> EntryLevel]
      /\ \A i \in EntryIdx : entries'[i].st \notin {"open", "held"}
  BY <1>1, LevelFacts
<1>3. toSeat' \subseteq Holding
  <2>1. \A i \in HeldIdx : i \in EntryIdx /\ entries[i] \in EntryLevel
    BY DEF HeldIdx, IInv, TypeOK
  <2>2. \A i \in HeldIdx : Taken(i) \in Holding
    BY <2>1 DEF EntryLevel, Holding
  <2>3. QED
    BY <1>1, <2>2
<1>4. /\ orders' \in [OrderId -> Order]
      /\ \A y \in ExitIdx : exits[y].oid \in OrderId =>
           orders'[exits[y].oid] = orders[exits[y].oid]
  <2>1. orders \in [OrderId -> Order]
    BY DEF IInv, TypeOK
  <2>2. orders' = Kept(orders, entries', exits, cancels)
    BY <1>1
  <2>3. QED
    BY <2>1, <2>2, KeptFacts
<1>5. TypeOK' /\ NoLossBooked'
  <2>1. NoLossBooked'
    BY <1>1 DEF IInv, NoLossBooked
  <2>2. TypeOK'
    BY <1>1, <1>2, <1>3, <1>4 DEF IInv, TypeOK
  <2>3. QED
    BY <2>1, <2>2
<1>6. OpenRefs'
  BY <1>1, <1>2, <1>4 DEF IInv, OpenRefs, OpenExits
<1>7. PairOnce' /\ PairTable'
  BY <1>1 DEF IInv, PairOnce, PairTable, OpenExits
<1>8. SeatTable'
  <2>1. \A x \in OpenExits : exits[x].pair \in HeldIdx /\ Serves(x, entries[exits[x].pair])
    BY <1>1 DEF IInv, PairTable
  <2>2. \A i \in HeldIdx : /\ Taken(i).old = i /\ Taken(i).qty = entries[i].qty
                           /\ Taken(i).px = entries[i].px
                           /\ Taken(i).short = entries[i].short
    OBVIOUS
  <2> HIDE DEF Taken
  <2>3. \A x \in OpenExits : /\ exits[x].pair \in EntryIdx
                             /\ Taken(exits[x].pair) \in toSeat'
                             /\ Serves(x, Taken(exits[x].pair))
    BY <1>1, <2>1, <2>2 DEF Serves, HeldIdx
  <2>4. OpenExits' = OpenExits
    BY <1>1 DEF OpenExits
  <2>5. \A x \in OpenExits' : /\ exits'[x].pair \in EntryIdx
                             /\ \E h \in toSeat' : h.old = exits'[x].pair /\ Serves(x, h)'
    BY <1>1, <2>1, <2>2, <2>3, <2>4 DEF Serves
  <2>6. \A a \in EntryIdx : oldToNew'[a] = NoId
    BY <1>1
  <2>7. \A h \in toSeat' : h.old \in EntryIdx
    BY <1>3 DEF Holding
  <2>8. \A p, h \in toSeat' : p.old = h.old => p = h
    BY <1>1, <2>2
  <2>9. QED
    BY <2>5, <2>6, <2>7, <2>8 DEF SeatTable
<1>9. WorkFresh'
  BY <1>1 DEF WorkFresh
<1>10. QED
  BY <1>5, <1>6, <1>7, <1>8, <1>9 DEF IInv

\* The seat taken is a free level of the table.
LEMMA SeatFacts ==
  ASSUME TypeOK, NEW k \in 1 .. N + Overflow, NEW px \in Int, NEW short \in BOOLEAN,
         IsSeat(k, px, short)
  PROVE  /\ Dir(short) * k \in EntryIdx
         /\ entries[Dir(short) * k].st \in {"none", "empty"}
<1>1. Dir(short) * k \in EntryIdx
  BY DEF Dir, EntryIdx
<1>2. k \in InnerSeats(px, short) \/ k \in OuterSeats(short)
  BY DEF IsSeat, Seats
<1>3. QED
  BY <1>1, <1>2 DEF InnerSeats, OuterSeats

LEMMA SeatEntryIInv ==
  ASSUME IInv, NEW h \in toSeat, NEW k \in 1 .. N + Overflow, SeatEntry(h, k)
  PROVE  IInv'
<1> DEFINE n == Dir(h.short) * k
           level == [st |-> "held", oid |-> NoId, qty |-> h.qty, px |-> h.px,
                     short |-> h.short]
<1>1. h \in Holding /\ h.old \in EntryIdx /\ h.px \in Int /\ h.short \in BOOLEAN /\ h.qty \in Nat
  BY DEF IInv, TypeOK, Holding
<1>2. n \in EntryIdx /\ entries[n].st \in {"none", "empty"} /\ n # NoId
  BY <1>1, SeatFacts, IndexFacts DEF SeatEntry, IInv
<1>3. /\ pc = "seat" /\ UNCHANGED pc
      /\ entries' = [entries EXCEPT ![n] = level]
      /\ oldToNew' = [oldToNew EXCEPT ![h.old] = n]
      /\ toSeat' = toSeat \ {h}
      /\ UNCHANGED <<exits, grid, retry, tickPx, todo, cancels, lossBooked, orders, pos>>
  BY DEF SeatEntry
<1>4. level \in EntryLevel /\ level.st = "held" /\ level.qty = h.qty
      /\ level.px = h.px /\ level.short = h.short
  BY <1>1 DEF EntryLevel
<1> HIDE DEF level, n
<1>5. /\ entries' \in [EntryIdx -> EntryLevel] /\ entries'[n] = level
      /\ \A j \in EntryIdx : j # n => entries'[j] = entries[j]
      /\ HeldIdx' = HeldIdx \cup {n} /\ n \notin HeldIdx
      /\ OpenExits' = OpenExits
  BY <1>2, <1>3, <1>4 DEF IInv, TypeOK, HeldIdx, Held, OpenExits
<1>6. /\ oldToNew' \in [EntryIdx -> EntryIdx \cup {NoId}] /\ oldToNew'[h.old] = n
      /\ \A a \in EntryIdx : a # h.old => oldToNew'[a] = oldToNew[a]
  BY <1>1, <1>2, <1>3 DEF IInv, TypeOK
<1>7. TypeOK' /\ NoLossBooked'
  <2>1. NoLossBooked'
    BY <1>3 DEF IInv, NoLossBooked
  <2>2. TypeOK'
    BY <1>3, <1>5, <1>6 DEF IInv, TypeOK
  <2>3. QED
    BY <2>1, <2>2
<1>8. OpenRefs'
  BY <1>3, <1>4, <1>5 DEF IInv, OpenRefs, OpenExits
<1>9. PairOnce' /\ PairTable' /\ WorkFresh'
  BY <1>3, <1>5 DEF IInv, PairOnce, PairTable, WorkFresh
<1>10. SeatTable'
  <2>1. /\ \A a \in EntryIdx : oldToNew[a] # NoId => oldToNew[a] \in HeldIdx
        /\ \A a, b \in EntryIdx : oldToNew[a] = oldToNew[b] /\ oldToNew[a] # NoId => a = b
        /\ \A p \in toSeat : oldToNew[p.old] = NoId /\ p.old \in EntryIdx
        /\ \A p, q \in toSeat : p.old = q.old => p = q
    BY <1>3 DEF IInv, SeatTable, TypeOK, Holding
  <2>2. ASSUME NEW x \in OpenExits
        PROVE  /\ exits[x].pair \in EntryIdx
               /\ \/ \E p \in toSeat' : p.old = exits[x].pair /\ Serves(x, p)
                  \/ /\ oldToNew'[exits[x].pair] \in HeldIdx'
                     /\ Serves(x, entries'[oldToNew'[exits[x].pair]])
    <3>1. exits[x].pair \in EntryIdx
      BY <1>3 DEF IInv, SeatTable
    <3>2. CASE \E p \in toSeat : p.old = exits[x].pair /\ Serves(x, p)
      <4>1. PICK p \in toSeat : p.old = exits[x].pair /\ Serves(x, p)
        BY <3>2
      <4>2. CASE p = h
        BY <1>4, <1>5, <1>6, <4>1, <4>2, <3>1 DEF Serves
      <4>3. CASE p # h
        BY <1>3, <3>1, <4>1, <4>3
      <4>4. QED
        BY <4>2, <4>3
    <3>3. CASE /\ oldToNew[exits[x].pair] \in HeldIdx
               /\ Serves(x, entries[oldToNew[exits[x].pair]])
      <4>1. exits[x].pair # h.old
        BY <2>1, <3>3, IndexFacts DEF HeldIdx
      <4>2. oldToNew'[exits[x].pair] = oldToNew[exits[x].pair]
        BY <1>6, <3>1, <4>1
      <4>3. QED
        BY <1>5, <3>1, <3>3, <4>2 DEF HeldIdx
    <3>4. QED
      BY <1>3, <3>1, <3>2, <3>3 DEF IInv, SeatTable
  <2>3. \A x \in OpenExits' :
          /\ exits'[x].pair \in EntryIdx
          /\ \/ \E p \in toSeat' : p.old = exits'[x].pair /\ Serves(x, p)'
             \/ /\ oldToNew'[exits'[x].pair] \in HeldIdx'
                /\ Serves(x, entries[oldToNew[exits[x].pair]])'
    BY <1>3, <1>5, <2>2 DEF Serves
  <2>4. \A a \in EntryIdx : oldToNew'[a] # NoId => oldToNew'[a] \in HeldIdx'
    BY <1>5, <1>6, <2>1
  <2>5. \A a, b \in EntryIdx : oldToNew'[a] = oldToNew'[b] /\ oldToNew'[a] # NoId => a = b
    BY <1>5, <1>6, <2>1
  <2>6. \A p \in toSeat' : oldToNew'[p.old] = NoId
    BY <1>3, <1>6, <2>1
  <2>7. \A p, q \in toSeat' : p.old = q.old => p = q
    BY <1>3, <2>1
  <2>8. QED
    BY <2>3, <2>4, <2>5, <2>6, <2>7 DEF SeatTable
<1>11. QED
  BY <1>7, <1>8, <1>9, <1>10 DEF IInv

LEMMA RecenterDoneIInv == ASSUME IInv, RecenterDone PROVE IInv'
<1>1. /\ pc = "seat" /\ pc' = "ensure" /\ toSeat = {}
      /\ exits' = [x \in ExitIdx |-> Repaired(x)]
      /\ oldToNew' = [i \in EntryIdx |-> NoId]
      /\ todo' = UncoveredIn(exits')
      /\ UNCHANGED <<entries, grid, retry, tickPx, cancels, toSeat, lossBooked, orders, pos>>
  BY DEF RecenterDone
<1>2. \A x \in OpenExits : /\ exits[x].pair \in EntryIdx
                           /\ oldToNew[exits[x].pair] \in HeldIdx
                           /\ oldToNew[exits[x].pair] # NoId
                           /\ Serves(x, entries[oldToNew[exits[x].pair]])
  BY <1>1, IndexFacts DEF IInv, SeatTable, HeldIdx
<1>3. \A x \in ExitIdx : exits[x] \in ExitLevel
  BY DEF IInv, TypeOK
<1>4. \A x \in OpenExits : Repaired(x) = [exits[x] EXCEPT !.pair = oldToNew[exits[x].pair]]
  BY <1>2 DEF Repaired, OpenExits
<1>5. \A x \in OpenExits :
        /\ Repaired(x) \in ExitLevel /\ Repaired(x).st = "open"
        /\ Repaired(x).pair = oldToNew[exits[x].pair]
        /\ Repaired(x).oid = exits[x].oid /\ Repaired(x).qty = exits[x].qty
        /\ Repaired(x).px = exits[x].px /\ Repaired(x).short = exits[x].short
  BY <1>2, <1>3, <1>4 DEF ExitLevel, OpenExits, HeldIdx
<1>6. \A x \in ExitIdx : x \notin OpenExits => Repaired(x) = exits[x]
  BY DEF Repaired, OpenExits
<1>7. /\ exits' \in [ExitIdx -> ExitLevel] /\ OpenExits' = OpenExits
      /\ \A x \in ExitIdx : exits'[x] = Repaired(x)
  BY <1>1, <1>3, <1>5, <1>6 DEF OpenExits
<1>8. TypeOK' /\ NoLossBooked'
  <2>1. NoLossBooked'
    BY <1>1 DEF IInv, NoLossBooked
  <2>2. todo' \subseteq EntryIdx
    BY <1>1 DEF UncoveredIn, HeldIdx
  <2>3. TypeOK'
    BY <1>1, <1>7, <2>2 DEF IInv, TypeOK
  <2>4. QED
    BY <2>1, <2>3
<1>9. \A x \in OpenExits :
        /\ exits'[x].pair = oldToNew[exits[x].pair]
        /\ exits'[x].oid = exits[x].oid /\ exits'[x].qty = exits[x].qty
        /\ exits'[x].px = exits[x].px /\ exits'[x].short = exits[x].short
  BY <1>5, <1>7 DEF OpenExits
<1>10. OpenRefs'
  <2>1. \A x \in OpenExits' : /\ exits'[x].oid \in OrderId
                              /\ orders'[exits'[x].oid].st # "none"
                              /\ orders'[exits'[x].oid].px = exits'[x].px
    <3>1. \A x \in OpenExits : exits'[x].oid = exits[x].oid /\ exits'[x].px = exits[x].px
      BY <1>9
    <3>2. OpenExits' = OpenExits /\ orders' = orders
      BY <1>1, <1>7
    <3>3. QED
      BY <3>1, <3>2 DEF IInv, OpenRefs
  <2>2. QED
    BY <1>1, <2>1 DEF IInv, OpenRefs
<1>11. PairOnce'
  <2>1. SUFFICES ASSUME NEW x \in OpenExits, NEW y \in OpenExits,
                        exits'[x].pair = exits'[y].pair
                 PROVE  x = y
    BY <1>7 DEF PairOnce
  <2>2. oldToNew[exits[x].pair] = oldToNew[exits[y].pair]
    BY <1>9, <2>1
  <2>3. \A a, b \in EntryIdx : oldToNew[a] = oldToNew[b] /\ oldToNew[a] # NoId => a = b
    BY <1>1 DEF IInv, SeatTable
  <2>4. exits[x].pair = exits[y].pair
    BY <1>2, <2>2, <2>3
  <2>5. QED
    BY <2>4 DEF IInv, PairOnce
<1>12. PairTable'
  BY <1>1, <1>2, <1>7, <1>9 DEF PairTable, Serves, HeldIdx, Held
<1>13. SeatTable' /\ WorkFresh'
  BY <1>1 DEF SeatTable, WorkFresh, UncoveredIn, HeldIdx, Held
<1>14. QED
  BY <1>8, <1>10, <1>11, <1>12, <1>13 DEF IInv

LEMMA PlaceMissingIInv ==
  ASSUME IInv, NEW i \in EntryIdx, PlaceMissing(i) PROVE IInv'
<1> DEFINE order == NewOrder("entry", i > 0, LevelPx(i), Lots)
<1>1. /\ pc = "place" /\ UNCHANGED pc /\ i \in todo /\ entries[i].st = "empty"
      /\ todo' = todo \ {i}
      /\ UNCHANGED <<exits, grid, retry, tickPx, cancels, toSeat, oldToNew, lossBooked, pos>>
  BY DEF PlaceMissing, First, IInv, WorkFresh
<1>2. i \in Int /\ (i > 0) \in BOOLEAN
  BY IndexFacts
<1>3. order \in Order /\ order.st = "new"
  <2>1. LevelPx(i) \in Int /\ Lots \in Nat
    BY <1>2, GridFacts DEF IInv
  <2>2. \A short \in BOOLEAN :
          LET r == NewOrder("entry", short, LevelPx(i), Lots)
          IN  r \in Order /\ r.st = "new"
    BY <2>1, NewOrderFacts
  <2>3. QED
    BY <1>2, <2>2, Zenon
<1> HIDE DEF order
<1>4. /\ \/ UNCHANGED orders
         \/ \E s \in OrderId : FreeSlot(s) /\ orders' = [orders EXCEPT ![s] = order]
      /\ \/ UNCHANGED entries
         \/ \E s \in OrderId : entries' = [entries EXCEPT ![i] =
              [st |-> "open", oid |-> s, qty |-> Lots, px |-> 0, short |-> i > 0]]
  BY DEF PlaceMissing, order
<1>5. /\ orders' \in [OrderId -> Order]
      /\ \A o \in OrderId : orders[o].st # "none" => orders'[o] = orders[o]
  BY <1>3, <1>4 DEF IInv, TypeOK, FreeSlot
<1>6. /\ entries' \in [EntryIdx -> EntryLevel]
      /\ \A j \in EntryIdx : j # i => entries'[j] = entries[j]
      /\ entries'[i].st \in {"empty", "open"}
      /\ entries'[i].st = "open" => entries'[i].oid \in OrderId
  <2>1. CASE UNCHANGED entries
    BY <1>1, <2>1 DEF IInv, TypeOK
  <2>2. CASE \E s \in OrderId : entries' = [entries EXCEPT ![i] =
              [st |-> "open", oid |-> s, qty |-> Lots, px |-> 0, short |-> i > 0]]
    <3>1. PICK s \in OrderId : entries' = [entries EXCEPT ![i] =
              [st |-> "open", oid |-> s, qty |-> Lots, px |-> 0, short |-> i > 0]]
      BY <2>2
    <3> DEFINE level == [st |-> "open", oid |-> s, qty |-> Lots, px |-> 0, short |-> i > 0]
    <3>2. level \in EntryLevel /\ level.st = "open" /\ level.oid = s
      BY <1>2 DEF EntryLevel
    <3> HIDE DEF level
    <3>3. entries' = [entries EXCEPT ![i] = level]
      BY <3>1 DEF level
    <3>4. QED
      BY <3>2, <3>3 DEF IInv, TypeOK
  <2>3. QED
    BY <1>4, <2>1, <2>2
<1>7. HeldIdx' = HeldIdx /\ OpenExits' = OpenExits /\ i \notin HeldIdx
  BY <1>1, <1>6 DEF HeldIdx, Held, OpenExits
<1>8. TypeOK' /\ NoLossBooked'
  <2>1. NoLossBooked'
    BY <1>1 DEF IInv, NoLossBooked
  <2>2. TypeOK'
    BY <1>1, <1>5, <1>6 DEF IInv, TypeOK
  <2>3. QED
    BY <2>1, <2>2
<1>9. OpenRefs'
  BY <1>1, <1>5, <1>6, <1>7 DEF IInv, OpenRefs
<1>10. PairOnce' /\ PairTable' /\ SeatTable'
  <2>1. \A x \in OpenExits : exits[x].pair \in HeldIdx /\ Serves(x, entries[exits[x].pair])
    BY <1>1 DEF IInv, PairTable
  <2>2. \A x \in OpenExits : exits[x].pair \in EntryIdx /\ exits[x].pair # i
    BY <1>7, <2>1 DEF HeldIdx
  <2>3. \A x \in OpenExits' : exits'[x].pair \in HeldIdx' /\ Serves(x, entries[exits[x].pair])'
    BY <1>1, <1>6, <1>7, <2>1, <2>2 DEF Serves
  <2>4. QED
    BY <1>1, <1>7, <2>3 DEF IInv, PairOnce, PairTable, SeatTable
<1>11. WorkFresh'
  <2>1. \A j \in todo : j \in GridIdx /\ entries[j].st = "empty"
    BY <1>1 DEF IInv, WorkFresh
  <2>2. \A j \in todo' : j \in GridIdx /\ entries'[j].st = "empty"
    BY <1>1, <1>6, <2>1, IndexFacts
  <2>3. QED
    BY <1>1, <2>2 DEF WorkFresh
<1>12. QED
  BY <1>8, <1>9, <1>10, <1>11 DEF IInv

-----------------------------------------------------------------------------
(* The specification                                                       *)

LEMMA NextIInv == IInv /\ [Next]_vars => IInv'
<1> SUFFICES ASSUME IInv, [Next]_vars PROVE IInv'
  OBVIOUS
<1>1. CASE UNCHANGED vars
  <2>1. Tables' /\ WorkFresh'
    BY <1>1 DEF vars, engineVars, IInv, Tables, OpenRefs, PairOnce, PairTable, SeatTable,
                NoLossBooked, WorkFresh, OpenExits, HeldIdx, Held, Serves
  <2>2. TypeOK'
    BY <1>1 DEF vars, engineVars, IInv, TypeOK
  <2>3. QED
    BY <2>1, <2>2 DEF IInv, Tables
<1>2. CASE \E p \in Prices : TickStart(p)
  BY <1>2, TickStartIInv
<1>3. CASE Scan
  BY <1>3, ScanKeepIInv, EntryFilledIInv, ExitFilledIInv, EntryCanceledIInv,
     ExitCanceledIInv DEF Scan
<1>4. CASE Recenter
  BY <1>4, SkipRecenterIInv, RecenterStartIInv, RecenterCancelIInv, RecenterBuildIInv,
     SeatEntryIInv, RecenterDoneIInv DEF Recenter
<1>5. CASE Replace
  BY <1>5, EnsureTakeProfitIInv, PlaceMissingIInv, EnsureDoneIInv, TickEndIInv DEF Replace
<1>6. CASE World
  BY <1>6, FillIInv, ManualCancelIInv, BackoffOverIInv DEF World
<1>7. QED
  BY <1>1, <1>2, <1>3, <1>4, <1>5, <1>6 DEF Next, OnTick

\* The invariant holds in every state of every behaviour.
THEOREM Invariance == Spec => []IInv
<1>1. Init => IInv
  BY InitIInv
<1>2. IInv /\ [Next]_vars => IInv'
  BY NextIInv
<1>3. QED
  BY <1>1, <1>2, PTL DEF Spec

\* Every variable of the engine and of the exchange keeps its type.
THEOREM TypeCorrect == Spec => []TypeOK
<1>1. IInv => TypeOK
  BY DEF IInv
<1>2. QED
  BY <1>1, Invariance, PTL

\* Every take-profit level serves exactly one held position, of its own
\* direction and size, through fills, failures and recenterings.
THEOREM Pairing == Spec => []PairingSound
<1>1. IInv => PairingSound
  BY DEF IInv, PairTable, PairOnce, Serves, PairingSound
<1>2. QED
  BY <1>1, Invariance, PTL

\* A take-profit order always closes its position above (or, for a short,
\* below) what the position cost.
THEOREM ExitsProfit == Spec => []ExitBeatsCost
<1>1. IInv => ExitBeatsCost
  BY DEF IInv, PairTable, Serves, ExitBeatsCost
<1>2. QED
  BY <1>1, Invariance, PTL

\* Settling a take-profit never books a loss.
THEOREM ProfitOnly == Spec => []NoLossBooked
<1>1. IInv => NoLossBooked
  BY DEF IInv
<1>2. QED
  BY <1>1, Invariance, PTL

-----------------------------------------------------------------------------
(* Naked positions: ensureTakeProfits works off a list.                     *)

\* Position i has its exit, or is left without one on purpose.
Attended(i) == Covered(i) \/ i \in retry \/ ExitPx(entries[i]) <= 0

\* A naked position is on ensureTakeProfits' list until it has been tried.
NakedListed ==
  /\ pc = "ensure" => \A i \in HeldIdx : i \in todo \/ Attended(i)
  /\ pc = "place" => \A i \in HeldIdx : Attended(i)

\* The list is made of all the positions without an exit.
LEMMA ListMade ==
  ASSUME pc' = "ensure", todo' = UncoveredIn(exits'), UNCHANGED entries
  PROVE  NakedListed'
BY DEF NakedListed, UncoveredIn, Attended, Covered, OpenExits, HeldIdx, Held

\* A step outside of the two loops, or one that changes none of what
\* NakedListed speaks about.
LEMMA NakedFrame ==
  ASSUME NakedListed,
         pc' \notin {"ensure", "place"} \/ UNCHANGED <<pc, todo, entries, exits, retry, grid>>
  PROVE  NakedListed'
BY DEF NakedListed, Attended, Covered, OpenExits, HeldIdx, Held, ExitPx

\* After placeExitFor the position it was called for is attended to, and the
\* others are as before.
LEMMA PlaceExitAttends ==
  ASSUME TypeOK, NEW i \in EntryIdx, PlaceExitFor(i, entries), UNCHANGED grid
  PROVE  /\ Attended(i)'
         /\ \A j \in EntryIdx : Attended(j) => Attended(j)'
<1>1. UNCHANGED entries /\ exits \in [ExitIdx -> ExitLevel]
  BY DEF PlaceExitFor, TypeOK
<1>2. CASE (Covered(i) \/ i \in retry \/ ExitPx(entries[i]) <= 0) /\ UNCHANGED <<exits, retry>>
  BY <1>1, <1>2 DEF Attended, Covered, OpenExits, ExitPx
<1>3. ASSUME NEW x \in ExitIdx, NEW s \in OrderId, exits[x].st = "none",
             exits' = [exits EXCEPT ![x] =
               [st |-> "open", oid |-> s, qty |-> entries[i].qty, px |-> ExitPx(entries[i]),
                short |-> entries[i].short, pair |-> i]],
             retry' = retry \ {i}
      PROVE  /\ Attended(i)' /\ \A j \in EntryIdx : Attended(j) => Attended(j)'
  <2>1. OpenExits' = OpenExits \cup {x} /\ exits'[x].pair = i
        /\ \A y \in OpenExits : exits'[y] = exits[y]
    BY <1>1, <1>3 DEF OpenExits
  <2>2. Covered(i)' /\ \A j \in EntryIdx : Covered(j) => Covered(j)'
    BY <2>1 DEF Covered
  <2>3. QED
    BY <1>1, <1>3, <2>2 DEF Attended, ExitPx
<1>4. CASE retry' = retry \cup {i} /\ UNCHANGED exits
  BY <1>1, <1>4 DEF Attended, Covered, OpenExits, ExitPx
<1>5. QED
  BY <1>2, <1>3, <1>4 DEF PlaceExitFor, IsNextExit

LEMMA EnsureStepsNaked ==
  ASSUME IInv, NakedListed,
         (\E i \in EntryIdx : EnsureTakeProfit(i) \/ PlaceMissing(i)) \/ EnsureDone \/ TickEnd
  PROVE  NakedListed'
<1>1. ASSUME NEW i \in EntryIdx, EnsureTakeProfit(i) PROVE NakedListed'
  <2>1. /\ pc = "ensure" /\ pc' = "ensure" /\ todo' = todo \ {i}
        /\ UNCHANGED <<grid, entries>> /\ PlaceExitFor(i, entries)
    BY <1>1 DEF EnsureTakeProfit, PlaceExitFor
  <2>2. Attended(i)' /\ \A j \in EntryIdx : Attended(j) => Attended(j)'
    BY <2>1, PlaceExitAttends DEF IInv
  <2>3. HeldIdx' = HeldIdx /\ HeldIdx \subseteq EntryIdx
    BY <2>1 DEF HeldIdx, Held
  <2>4. \A j \in HeldIdx' : j \in todo' \/ Attended(j)'
    BY <2>1, <2>2, <2>3 DEF NakedListed
  <2>5. QED
    BY <2>1, <2>4 DEF NakedListed
<1>2. ASSUME NEW i \in EntryIdx, PlaceMissing(i) PROVE NakedListed'
  <2>1. /\ pc = "place" /\ pc' = "place" /\ UNCHANGED <<grid, exits, retry>>
    BY <1>2 DEF PlaceMissing
  <2>2. \A j \in HeldIdx' : j \in HeldIdx /\ entries'[j] = entries[j]
    <3>1. UNCHANGED entries \/ \E s \in OrderId : entries' = [entries EXCEPT ![i] =
            [st |-> "open", oid |-> s, qty |-> Lots, px |-> 0, short |-> i > 0]]
      BY <1>2 DEF PlaceMissing
    <3>2. QED
      BY <3>1 DEF IInv, TypeOK, HeldIdx, Held
  <2>3. QED
    BY <2>1, <2>2 DEF NakedListed, Attended, Covered, OpenExits, ExitPx
<1>3. CASE EnsureDone
  BY <1>3 DEF EnsureDone, NakedListed, Attended, Covered, OpenExits, HeldIdx, Held, ExitPx
<1>4. CASE TickEnd
  BY <1>4, NakedFrame DEF TickEnd
<1>5. QED
  BY <1>1, <1>2, <1>3, <1>4

LEMMA NextNaked == IInv /\ NakedListed /\ [Next]_vars => NakedListed'
<1> SUFFICES ASSUME IInv, NakedListed, [Next]_vars PROVE NakedListed'
  OBVIOUS
<1>1. CASE UNCHANGED vars \/ World
  BY <1>1, NakedFrame DEF vars, engineVars, World, Fill, ManualCancel, BackoffOver
<1>2. CASE (\E p \in Prices : TickStart(p)) \/ Scan
  BY <1>2, NakedFrame DEF TickStart, Scan, ScanKeep, EntryFilled, ExitFilled, EntryCanceled,
                          ExitCanceled
<1>3. CASE Recenter
  <2>1. CASE SkipRecenter \/ RecenterDone
    <3>1. /\ pc' = "ensure" /\ todo' = UncoveredIn(exits') /\ UNCHANGED entries
      BY <2>1 DEF SkipRecenter, RecenterDone, UncoveredIn, HeldIdx, Held
    <3>2. QED
      BY <3>1, ListMade
  <2>2. CASE ~(SkipRecenter \/ RecenterDone)
    BY <1>3, <2>2, NakedFrame DEF Recenter, RecenterStart, RecenterCancel, RecenterBuild,
                                  SeatEntry
  <2>3. QED
    BY <2>1, <2>2
<1>4. CASE Replace
  BY <1>4, EnsureStepsNaked DEF Replace
<1>5. QED
  BY <1>1, <1>2, <1>3, <1>4 DEF Next, OnTick

\* When ensureTakeProfits is over, a position without an exit is waiting in
\* backoff, or is a short whose exit would have no positive price.
THEOREM NakedAwaitsRetry == Spec => []UncoveredAwaitsRetry
<1>1. Init => NakedListed
  BY LevelFacts, IndexFacts DEF Init, NakedListed, HeldIdx, Held, BuildLevels
<1>2. NakedListed => UncoveredAwaitsRetry
  BY DEF NakedListed, Attended, UncoveredAwaitsRetry
<1>3. QED
  BY <1>1, <1>2, NextNaked, Invariance, PTL DEF Spec

HIDE GridEngineAssumption

-----------------------------------------------------------------------------
(* The refinement to the position book                                     *)

TableAt(p)   == {i \in HeldIdx : PositionAt(entries[i]) = p}
SeatedAt(p) == {h \in toSeat : PositionAt(h) = p}

\* What BookOf counts can be counted, and toSeat is empty outside recenter.
CountInv == IsFiniteSet(toSeat) /\ (pc # "seat" => toSeat = {})

\* There are finitely many levels.
LEMMA HeldFinite ==
  ASSUME NEW S, S \subseteq EntryIdx
  PROVE  IsFiniteSet(S)
<1>1. IsFiniteSet(-(N + Overflow) .. N + Overflow)
  <2>1. -(N + Overflow) \in Int /\ N + Overflow \in Int
    BY GridEngineAssumption
  <2>2. QED
    BY ONLY <2>1, FS_Interval
<1>2. S \in SUBSET (-(N + Overflow) .. N + Overflow)
  BY DEF EntryIdx
<1>3. QED
  BY <1>1, <1>2, FS_Subset

\* Both parts of what BookOf counts are numbers.
LEMMA CountFacts ==
  ASSUME CountInv, NEW p
  PROVE  /\ IsFiniteSet(TableAt(p)) /\ Cardinality(TableAt(p)) \in Nat
         /\ IsFiniteSet(SeatedAt(p)) /\ Cardinality(SeatedAt(p)) \in Nat
         /\ p \in AllPositions =>
              BookOf[p] = Cardinality(TableAt(p)) + Cardinality(SeatedAt(p))
<1>1. IsFiniteSet(TableAt(p))
  BY HeldFinite DEF TableAt, HeldIdx
<1>2. IsFiniteSet(SeatedAt(p))
  <2>1. SeatedAt(p) \in SUBSET toSeat
    BY DEF SeatedAt
  <2>2. QED
    BY <2>1, FS_Subset DEF CountInv
<1>3. Cardinality(TableAt(p)) \in Nat /\ Cardinality(SeatedAt(p)) \in Nat
  BY <1>1, <1>2, FS_CardinalityType
<1>4. p \in AllPositions => BookOf[p] = Cardinality(TableAt(p)) + Cardinality(SeatedAt(p))
  BY DEF BookOf, TableAt, SeatedAt
<1>5. QED
  BY <1>1, <1>2, <1>3, <1>4

\* A step that touches no position leaves the book alone.
LEMMA BookFrame ==
  ASSUME UNCHANGED toSeat,
         HeldIdx' = HeldIdx, \A i \in HeldIdx : entries'[i] = entries[i]
  PROVE  UNCHANGED BookOf
<1>1. AllPositions' = AllPositions
  BY DEF AllPositions
<1>2. \A p : TableAt(p)' = TableAt(p) /\ SeatedAt(p)' = SeatedAt(p)
  BY DEF TableAt, SeatedAt, PositionAt
<1>3. BookOf' = [p \in AllPositions |-> Cardinality(TableAt(p)') + Cardinality(SeatedAt(p)')]
  BY <1>1 DEF BookOf, TableAt, SeatedAt, PositionAt
<1>4. QED
  BY <1>2, <1>3 DEF BookOf, TableAt, SeatedAt

\* The book of the next state, counted in the same way.
LEMMA NextBook ==
  BookOf' = [p \in AllPositions |-> Cardinality(TableAt(p)') + Cardinality(SeatedAt(p)')]
BY DEF BookOf, AllPositions, TableAt, SeatedAt, PositionAt, HeldIdx, Held

\* A position enters the book, or one the book does not count appears.
LEMMA OpensOne ==
  ASSUME CountInv, NEW i \in EntryIdx, i \notin HeldIdx, HeldIdx' = HeldIdx \cup {i},
         \A j \in HeldIdx : entries'[j] = entries[j], UNCHANGED <<toSeat, lossBooked>>
  PROVE  [Book!BookNext]_(Book!bookVars)
<1> DEFINE new == PositionAt(entries'[i])
<1>1. \A p : /\ p # new => TableAt(p)' = TableAt(p)
             /\ p = new => TableAt(p)' = TableAt(p) \cup {i}
             /\ SeatedAt(p)' = SeatedAt(p)
             /\ i \notin TableAt(p)
  BY DEF TableAt, SeatedAt, PositionAt
<1>2. Cardinality(TableAt(new) \cup {i}) = Cardinality(TableAt(new)) + 1
  BY <1>1, CountFacts, FS_AddElement
<1>3. \A p \in AllPositions :
        BookOf'[p] = IF p = new THEN BookOf[p] + 1 ELSE BookOf[p]
  <2> SUFFICES ASSUME NEW p \in AllPositions
               PROVE  BookOf'[p] = IF p = new THEN BookOf[p] + 1 ELSE BookOf[p]
    OBVIOUS
  <2>1. BookOf'[p] = Cardinality(TableAt(p)') + Cardinality(SeatedAt(p)')
    BY NextBook
  <2>2. /\ BookOf[p] = Cardinality(TableAt(p)) + Cardinality(SeatedAt(p))
        /\ Cardinality(TableAt(p)) \in Nat /\ Cardinality(SeatedAt(p)) \in Nat
    BY CountFacts
  <2>3. CASE p = new
    <3>1. Cardinality(TableAt(p)') = Cardinality(TableAt(p)) + 1
      BY <1>1, <1>2, <2>3
    <3>2. QED
      BY <1>1, <2>1, <2>2, <2>3, <3>1
  <2>4. CASE p # new
    BY <1>1, <2>1, <2>2, <2>4
  <2>5. QED
    BY <2>3, <2>4
<1>4. /\ BookOf = [p \in AllPositions |-> BookOf[p]]
      /\ BookOf' = [p \in AllPositions |-> BookOf'[p]]
  BY NextBook DEF BookOf
<1>5. CASE new \in AllPositions
  <2>1. BookOf' = [BookOf EXCEPT ![new] = @ + 1]
    BY <1>3, <1>4, <1>5
  <2>2. CountInv => BookOf[new] \in Nat
    BY <1>5, CountFacts
  <2>3. BookOf' # BookOf
    BY <1>3, <1>5, <2>2
  <2>4. Book!Open(new)
    BY <2>1 DEF Book!Open
  <2>5. QED
    BY <1>5, <2>3, <2>4 DEF Book!BookNext
<1>6. CASE new \notin AllPositions
  <2>1. BookOf' = BookOf
    BY <1>3, <1>4, <1>6
  <2>2. QED
    BY <2>1 DEF Book!bookVars
<1>7. QED
  BY <1>5, <1>6

\* A position leaves the book.
LEMMA ClosesOne ==
  ASSUME CountInv, NEW e \in HeldIdx, HeldIdx' = HeldIdx \ {e},
         \A j \in HeldIdx' : entries'[j] = entries[j], UNCHANGED <<toSeat, lossBooked>>
  PROVE  [Book!BookNext]_(Book!bookVars)
<1> DEFINE old == PositionAt(entries[e])
<1>1. \A p : /\ p # old => TableAt(p)' = TableAt(p)
             /\ p = old => TableAt(p)' = TableAt(p) \ {e}
             /\ SeatedAt(p)' = SeatedAt(p)
  BY DEF TableAt, SeatedAt, PositionAt
<1>2. e \in TableAt(old)
  BY DEF TableAt
<1>3. /\ Cardinality(TableAt(old) \ {e}) = Cardinality(TableAt(old)) - 1
      /\ Cardinality(TableAt(old) \ {e}) \in Nat
  <2>1. IsFiniteSet(TableAt(old))
    BY CountFacts
  <2>2. QED
    BY <1>2, <2>1, FS_RemoveElement, FS_CardinalityType
<1>4. \A p \in AllPositions :
        BookOf'[p] = IF p = old THEN BookOf[p] - 1 ELSE BookOf[p]
  <2> SUFFICES ASSUME NEW p \in AllPositions
               PROVE  BookOf'[p] = IF p = old THEN BookOf[p] - 1 ELSE BookOf[p]
    OBVIOUS
  <2>1. BookOf'[p] = Cardinality(TableAt(p)') + Cardinality(SeatedAt(p)')
    BY NextBook
  <2>2. /\ BookOf[p] = Cardinality(TableAt(p)) + Cardinality(SeatedAt(p))
        /\ Cardinality(TableAt(p)) \in Nat /\ Cardinality(SeatedAt(p)) \in Nat
    BY CountFacts
  <2>3. CASE p = old
    <3>1. Cardinality(TableAt(p)') = Cardinality(TableAt(p)) - 1
      BY <1>1, <1>3, <2>3
    <3>2. QED
      BY <1>1, <2>1, <2>2, <2>3, <3>1
  <2>4. CASE p # old
    BY <1>1, <2>1, <2>2, <2>4
  <2>5. QED
    BY <2>3, <2>4
<1>5. /\ BookOf = [p \in AllPositions |-> BookOf[p]]
      /\ BookOf' = [p \in AllPositions |-> BookOf'[p]]
  BY NextBook DEF BookOf
<1>6. CASE old \in AllPositions
  <2>1. BookOf' = [BookOf EXCEPT ![old] = @ - 1]
    BY <1>4, <1>5, <1>6
  <2>2. BookOf[old] \in Nat /\ BookOf[old] > 0
    <3>1. /\ BookOf[old] = Cardinality(TableAt(old)) + Cardinality(SeatedAt(old))
          /\ Cardinality(TableAt(old)) \in Nat /\ Cardinality(SeatedAt(old)) \in Nat
      BY <1>6, CountFacts
    <3>2. QED
      BY <1>3, <3>1
  <2>3. BookOf' # BookOf
    BY <1>4, <1>6, <2>2
  <2>4. Book!Close(old)
    BY <2>1, <2>2 DEF Book!Close
  <2>5. QED
    BY <1>6, <2>3, <2>4 DEF Book!BookNext
<1>7. CASE old \notin AllPositions
  <2>1. BookOf' = BookOf
    BY <1>4, <1>5, <1>7
  <2>2. QED
    BY <2>1 DEF Book!bookVars
<1>8. QED
  BY <1>6, <1>7

\* One position changes from the list of those to be seated to a level.
LEMMA SeatsOne ==
  ASSUME CountInv, NEW h \in toSeat, toSeat' = toSeat \ {h},
         NEW i \in EntryIdx, i \notin HeldIdx, HeldIdx' = HeldIdx \cup {i},
         \A j \in HeldIdx : entries'[j] = entries[j],
         PositionAt(entries'[i]) = PositionAt(h)
  PROVE  UNCHANGED BookOf
<1> DEFINE at == PositionAt(h)
<1>1. \A p : /\ p # at => TableAt(p)' = TableAt(p) /\ SeatedAt(p)' = SeatedAt(p)
             /\ p = at => TableAt(p)' = TableAt(p) \cup {i} /\ SeatedAt(p)' = SeatedAt(p) \ {h}
             /\ i \notin TableAt(p)
  BY DEF TableAt, SeatedAt, PositionAt
<1>2. /\ Cardinality(TableAt(at) \cup {i}) = Cardinality(TableAt(at)) + 1
      /\ Cardinality(SeatedAt(at) \ {h}) = Cardinality(SeatedAt(at)) - 1
  <2>1. h \in SeatedAt(at)
    BY DEF SeatedAt
  <2>2. QED
    BY <1>1, <2>1, CountFacts, FS_AddElement, FS_RemoveElement
<1>3. \A p \in AllPositions : Cardinality(TableAt(p)') + Cardinality(SeatedAt(p)')
                               = Cardinality(TableAt(p)) + Cardinality(SeatedAt(p))
  <2> SUFFICES ASSUME NEW p \in AllPositions
               PROVE  Cardinality(TableAt(p)') + Cardinality(SeatedAt(p)')
                        = Cardinality(TableAt(p)) + Cardinality(SeatedAt(p))
    OBVIOUS
  <2>1. Cardinality(TableAt(p)) \in Nat /\ Cardinality(SeatedAt(p)) \in Nat
    BY CountFacts
  <2>2. CASE p = at
    <3>1. /\ Cardinality(TableAt(p)') = Cardinality(TableAt(p)) + 1
          /\ Cardinality(SeatedAt(p)') = Cardinality(SeatedAt(p)) - 1
      BY <1>1, <1>2, <2>2
    <3>2. QED
      BY <2>1, <3>1
  <2>3. CASE p # at
    BY <1>1, <2>3
  <2>4. QED
    BY <2>2, <2>3
<1>4. BookOf = [p \in AllPositions |-> Cardinality(TableAt(p)) + Cardinality(SeatedAt(p))]
  BY DEF BookOf, TableAt, SeatedAt
<1>5. QED
  BY <1>3, <1>4, NextBook

\* Sets that an injection relates element by element are of one size.
LEMMA SameCount ==
  ASSUME NEW S, NEW T, NEW f \in [S -> T], IsFiniteSet(S),
         \A a, b \in S : f[a] = f[b] => a = b,
         \A t \in T : \E a \in S : f[a] = t
  PROVE  IsFiniteSet(T) /\ Cardinality(T) = Cardinality(S)
<1>1. f \in Bijection(S, T)
  BY DEF Bijection, Injection, Surjection, IsInjective
<1>2. ExistsBijection(S, T)
  BY <1>1 DEF ExistsBijection
<1>3. QED
  BY <1>2, FS_Bijection

\* All positions change from their levels to the list of those to be seated.
LEMMA MovesAll ==
  ASSUME CountInv, toSeat = {}, HeldIdx' = {},
         toSeat' = {[old |-> i, qty |-> entries[i].qty, px |-> entries[i].px,
                     short |-> entries[i].short] : i \in HeldIdx}
  PROVE  UNCHANGED BookOf /\ IsFiniteSet(toSeat')
<1> DEFINE Taken(i) == [old |-> i, qty |-> entries[i].qty, px |-> entries[i].px,
                        short |-> entries[i].short]
<1>1. ASSUME NEW S, S \subseteq HeldIdx
      PROVE  /\ IsFiniteSet({Taken(i) : i \in S})
             /\ Cardinality({Taken(i) : i \in S}) = Cardinality(S)
  <2> DEFINE T == {Taken(i) : i \in S}
             f == [i \in S |-> Taken(i)]
  <2>1. IsFiniteSet(S)
    BY <1>1, HeldFinite DEF HeldIdx
  <2>2. /\ f \in [S -> T]
        /\ \A a, b \in S : f[a] = f[b] => a = b
        /\ \A t \in T : \E a \in S : f[a] = t
    OBVIOUS
  <2> HIDE DEF T, f
  <2>3. IsFiniteSet(T) /\ Cardinality(T) = Cardinality(S)
    BY <2>1, <2>2, SameCount
  <2>4. QED
    BY <2>3 DEF T
<1>2. IsFiniteSet(toSeat')
  BY <1>1
<1>3. ASSUME NEW p PROVE Cardinality(SeatedAt(p)') = Cardinality(TableAt(p))
  <2>1. SeatedAt(p)' = {Taken(i) : i \in TableAt(p)}
    BY DEF SeatedAt, TableAt, PositionAt
  <2>2. TableAt(p) \subseteq HeldIdx
    BY DEF TableAt
  <2>3. QED
    BY <1>1, <2>1, <2>2
<1>4. \A p : TableAt(p)' = {} /\ SeatedAt(p) = {}
  BY DEF TableAt, SeatedAt
<1>5. \A p \in AllPositions : Cardinality(TableAt(p)') + Cardinality(SeatedAt(p)')
                               = Cardinality(TableAt(p)) + Cardinality(SeatedAt(p))
  BY <1>3, <1>4, CountFacts, FS_EmptySet
<1>6. BookOf = [p \in AllPositions |-> Cardinality(TableAt(p)) + Cardinality(SeatedAt(p))]
  BY DEF BookOf, TableAt, SeatedAt
<1>7. QED
  BY <1>2, <1>5, <1>6, NextBook

LEMMA LossFrame == ASSUME IInv, IInv' PROVE UNCHANGED lossBooked
<1>1. lossBooked \in BOOLEAN /\ ~lossBooked
  BY DEF IInv, TypeOK, NoLossBooked
<1>2. lossBooked' \in BOOLEAN /\ ~lossBooked'
  BY DEF IInv, TypeOK, NoLossBooked
<1>3. QED
  BY <1>1, <1>2, Zenon

\* The scan: a position is opened by EntryFilled and closed by ExitFilled.
LEMMA ScanBook ==
  ASSUME IInv, UNCHANGED lossBooked, CountInv, Scan
  PROVE  [Book!BookNext]_(Book!bookVars)
<1>0. entries \in [EntryIdx -> EntryLevel] /\ HeldIdx \subseteq EntryIdx
  BY DEF IInv, TypeOK, HeldIdx
<1>1. ASSUME NEW i, ScanKeep(i) \/ ExitCanceled(i) PROVE [Book!BookNext]_(Book!bookVars)
  <2>1. UNCHANGED <<entries, toSeat, lossBooked>>
    BY <1>1 DEF ScanKeep, ExitCanceled
  <2>2. QED
    BY <2>1, BookFrame DEF HeldIdx, Held, Book!bookVars
<1>2. ASSUME NEW i \in EntryIdx \cup ExitIdx, EntryCanceled(i) PROVE [Book!BookNext]_(Book!bookVars)
  <2>1. /\ i \in EntryIdx /\ entries[i].st = "open" /\ UNCHANGED toSeat
        /\ entries' = [entries EXCEPT ![i] = EmptyLevel]
    BY <1>2 DEF EntryCanceled, First, IInv, WorkFresh
  <2>2. HeldIdx' = HeldIdx /\ \A j \in HeldIdx : entries'[j] = entries[j]
    BY <1>0, <2>1, LevelFacts DEF HeldIdx, Held
  <2>3. QED
    BY <2>1, <2>2, BookFrame DEF Book!bookVars
<1>3. ASSUME NEW i \in EntryIdx \cup ExitIdx, EntryFilled(i) PROVE [Book!BookNext]_(Book!bookVars)
  <2>1. /\ i \in EntryIdx /\ entries[i].st = "open" /\ UNCHANGED toSeat
        /\ \E l : l.st = "held" /\ entries' = [entries EXCEPT ![i] = l]
    BY <1>3 DEF EntryFilled, First, IInv, WorkFresh, PlaceExitFor
  <2>2. /\ i \notin HeldIdx /\ HeldIdx' = HeldIdx \cup {i}
        /\ \A j \in HeldIdx : entries'[j] = entries[j]
    BY <1>0, <2>1 DEF HeldIdx, Held
  <2>3. QED
    BY <2>1, <2>2, OpensOne
<1>4. ASSUME NEW x, ExitFilled(x) PROVE [Book!BookNext]_(Book!bookVars)
  <2> DEFINE e == exits[x].pair
  <2>1. /\ UNCHANGED toSeat
        /\ \/ e \in EntryIdx /\ Held(e) /\ entries' = [entries EXCEPT ![e] = Released(e)]
           \/ UNCHANGED entries
    BY <1>4 DEF ExitFilled
  <2>2. CASE UNCHANGED entries
    BY <2>1, <2>2, BookFrame DEF HeldIdx, Held, Book!bookVars
  <2>3. CASE e \in EntryIdx /\ Held(e) /\ entries' = [entries EXCEPT ![e] = Released(e)]
    <3>1. /\ e \in HeldIdx /\ HeldIdx' = HeldIdx \ {e}
          /\ \A j \in HeldIdx' : entries'[j] = entries[j]
      BY <1>0, <2>3, LevelFacts DEF HeldIdx, Held
    <3>2. QED
      BY <2>1, <3>1, ClosesOne
  <2>4. QED
    BY <2>1, <2>2, <2>3
<1>5. QED
  BY <1>1, <1>2, <1>3, <1>4 DEF Scan

\* Recenter moves every position and drops or merges none.
LEMMA RecenterBook ==
  ASSUME IInv, UNCHANGED lossBooked, CountInv, Recenter
  PROVE  CountInv' /\ [Book!BookNext]_(Book!bookVars)
<1>0. entries \in [EntryIdx -> EntryLevel] /\ HeldIdx \subseteq EntryIdx
  BY DEF IInv, TypeOK, HeldIdx
<1>1. ASSUME NEW g \in Grids, RecenterBuild(g)
      PROVE  CountInv' /\ [Book!BookNext]_(Book!bookVars)
  <2>1. /\ pc = "cancel" /\ pc' = "seat" /\ entries' = BuildLevels
        /\ toSeat' = {[old |-> i, qty |-> entries[i].qty, px |-> entries[i].px,
                       short |-> entries[i].short] : i \in HeldIdx}
    BY <1>1 DEF RecenterBuild
  <2>2. toSeat = {}
    BY <2>1 DEF CountInv
  <2>3. HeldIdx' = {}
    BY <2>1, LevelFacts DEF HeldIdx, Held
  <2>4. UNCHANGED BookOf /\ IsFiniteSet(toSeat')
    BY <2>1, <2>2, <2>3, MovesAll
  <2>5. QED
    BY <2>1, <2>4 DEF CountInv, Book!bookVars
<1>2. ASSUME NEW h \in toSeat, NEW k \in 1 .. N + Overflow, SeatEntry(h, k)
      PROVE  CountInv' /\ [Book!BookNext]_(Book!bookVars)
  <2> DEFINE n == Dir(h.short) * k
             l == [st |-> "held", oid |-> NoId, qty |-> h.qty, px |-> h.px, short |-> h.short]
  <2>1. /\ pc' = "seat" /\ toSeat' = toSeat \ {h} /\ entries' = [entries EXCEPT ![n] = l]
        /\ IsSeat(k, h.px, h.short)
    BY <1>2 DEF SeatEntry
  <2>2. n \in EntryIdx /\ entries[n].st \in {"none", "empty"}
    <3>1. TypeOK /\ h.px \in Int /\ h.short \in BOOLEAN
      BY DEF IInv, TypeOK, Holding
    <3>2. QED
      BY <2>1, <3>1, SeatFacts
  <2>3. /\ n \notin HeldIdx /\ HeldIdx' = HeldIdx \cup {n} /\ entries'[n] = l
        /\ \A j \in HeldIdx : entries'[j] = entries[j]
    BY <1>0, <2>1, <2>2 DEF HeldIdx, Held
  <2>4. PositionAt(entries'[n]) = PositionAt(h)
    BY <2>3 DEF PositionAt
  <2>5. UNCHANGED BookOf
    BY <2>1, <2>2, <2>3, <2>4, SeatsOne
  <2>6. IsFiniteSet(toSeat')
    BY <2>1, FS_RemoveElement DEF CountInv
  <2>7. QED
    BY <2>1, <2>5, <2>6 DEF CountInv, Book!bookVars
<1>3. ASSUME UNCHANGED <<entries, toSeat>>, pc = "seat" => toSeat = {}
      PROVE  CountInv' /\ [Book!BookNext]_(Book!bookVars)
  BY <1>3, BookFrame DEF CountInv, HeldIdx, Held, Book!bookVars
<1>4. QED
  BY <1>1, <1>2, <1>3 DEF Recenter, SkipRecenter, RecenterStart, RecenterCancel, RecenterDone

LEMMA StepBook ==
  ASSUME IInv, IInv', CountInv, [Next]_vars
  PROVE  CountInv' /\ [Book!BookNext]_(Book!bookVars)
<1>0. UNCHANGED lossBooked /\ entries \in [EntryIdx -> EntryLevel]
  BY LossFrame DEF IInv, TypeOK
<1>1. ASSUME UNCHANGED toSeat, pc' = pc \/ (pc' # "seat" /\ pc # "seat"),
             HeldIdx' = HeldIdx, \A i \in HeldIdx : entries'[i] = entries[i]
      PROVE  CountInv' /\ [Book!BookNext]_(Book!bookVars)
  BY <1>0, <1>1, BookFrame DEF CountInv, Book!bookVars
<1>2. CASE Scan
  <2>1. UNCHANGED <<pc, toSeat>>
    BY <1>2 DEF Scan, ScanKeep, EntryFilled, ExitFilled, EntryCanceled, ExitCanceled
  <2>2. QED
    BY <1>0, <1>2, <2>1, ScanBook DEF CountInv
<1>3. CASE Recenter
  BY <1>0, <1>3, RecenterBook
<1>4. ASSUME NEW i \in EntryIdx, PlaceMissing(i)
      PROVE  CountInv' /\ [Book!BookNext]_(Book!bookVars)
  <2>1. entries[i].st = "empty"
    BY <1>4 DEF PlaceMissing, First, IInv, WorkFresh
  <2>2. /\ UNCHANGED pc /\ UNCHANGED toSeat
        /\ UNCHANGED entries \/ \E l : l.st = "open" /\ entries' = [entries EXCEPT ![i] = l]
    BY <1>4 DEF PlaceMissing
  <2>3. HeldIdx' = HeldIdx /\ \A j \in HeldIdx : entries'[j] = entries[j]
    BY <1>0, <2>1, <2>2 DEF HeldIdx, Held
  <2>4. QED
    BY <1>1, <2>2, <2>3
<1>5. CASE UNCHANGED vars \/ World \/ (\E p \in Prices : TickStart(p)) \/ EnsureDone \/ TickEnd
           \/ \E i \in EntryIdx : EnsureTakeProfit(i)
  <2>0. ASSUME NEW i \in EntryIdx, EnsureTakeProfit(i) PROVE UNCHANGED <<entries, toSeat, pc>>
    BY <2>0 DEF EnsureTakeProfit, PlaceExitFor
  <2>1. /\ UNCHANGED entries /\ UNCHANGED toSeat
        /\ pc' = pc \/ (pc' # "seat" /\ pc # "seat")
    BY <1>5, <2>0 DEF vars, engineVars, World, Fill, ManualCancel, BackoffOver, TickStart,
                      EnsureDone, TickEnd
  <2>2. HeldIdx' = HeldIdx
    BY <2>1 DEF HeldIdx, Held
  <2>3. QED
    BY <1>1, <2>1, <2>2
<1>6. QED
  BY <1>2, <1>3, <1>4, <1>5 DEF Next, OnTick, Replace

\* The engine implements the position book.
THEOREM BookRefined == Spec => ImplementsBook
<1>1. Init => Book!BookInit /\ CountInv
  <2> SUFFICES ASSUME Init PROVE Book!BookInit /\ CountInv
    OBVIOUS
  <2>1. toSeat = {} /\ HeldIdx = {} /\ lossBooked = FALSE
    BY LevelFacts DEF Init, HeldIdx, Held
  <2>2. CountInv
    BY <2>1, FS_EmptySet DEF CountInv
  <2>3. \A p : TableAt(p) = {} /\ SeatedAt(p) = {}
    BY <2>1 DEF TableAt, SeatedAt
  <2>4. BookOf = [p \in AllPositions |-> Cardinality(TableAt(p)) + Cardinality(SeatedAt(p))]
    BY DEF BookOf, TableAt, SeatedAt
  <2>5. BookOf = [p \in AllPositions |-> 0]
    BY <2>3, <2>4, FS_EmptySet
  <2>6. QED
    BY <2>1, <2>2, <2>5 DEF Book!BookInit
<1>2. IInv /\ IInv' /\ CountInv /\ [Next]_vars => CountInv' /\ [Book!BookNext]_(Book!bookVars)
  BY StepBook
<1>3. QED
  BY <1>1, <1>2, Invariance, PTL DEF Spec, ImplementsBook, Book!BookSpec

-----------------------------------------------------------------------------
(* No position is outside the book                                         *)

\* The order of open level i is the one placeMissingOrders placed there.
OrderFits(i) ==
  LET o == orders[entries[i].oid]
  IN  /\ i \in GridIdx /\ (Neutral \/ i < 0)
      /\ entries[i].short = (i > 0)
      /\ entries[i].oid \in OrderId
      /\ o.st # "none" /\ o.px = LevelPx(i) /\ o.qty = Lots
      /\ o.st = "filled" => o.filled = o.qty

InBook(p) == PositionAt(p) \in AllPositions

KnownInv ==
  /\ \A i \in HeldIdx : InBook(entries[i])
  /\ \A h \in toSeat : InBook(h)
  /\ \A i \in EntryIdx : entries[i].st = "open" => OrderFits(i)
  /\ pc = "place" => \A i \in todo : Neutral \/ i < 0

\* A level that is open in both states keeps its order when finished orders
\* are forgotten.
LEMMA FitsFrame ==
  ASSUME IInv, KnownInv, UNCHANGED grid, NEW os, NEW exs, NEW cs,
         orders' = Kept(os, entries', exs, cs),
         NEW i \in EntryIdx, entries[i].st = "open", entries'[i] = entries[i],
         LET r == orders[entries[i].oid]  s == os[entries[i].oid]
         IN  /\ s.st # "none" /\ s.px = r.px /\ s.qty = r.qty
             /\ s.st = "filled" => s.filled = s.qty
  PROVE  OrderFits(i)'
<1>1. OrderFits(i)
  BY DEF KnownInv
<1>2. entries[i].oid \in OrderId /\ entries'[i].oid = entries[i].oid
  BY <1>1 DEF OrderFits
<1>3. orders'[entries[i].oid] = os[entries[i].oid]
  BY <1>2 DEF Kept
<1>4. LevelPx(i)' = LevelPx(i)
  BY DEF LevelPx
<1>5. QED
  BY <1>1, <1>2, <1>3, <1>4 DEF OrderFits

\* What a step must do to the tables to keep KnownInv.
LEMMA KnownFrame ==
  ASSUME KnownInv, toSeat' \subseteq toSeat,
         \A i \in HeldIdx' : i \in HeldIdx /\ entries'[i] = entries[i],
         \A i \in EntryIdx : entries'[i].st = "open" => OrderFits(i)',
         pc' = "place" => \A i \in todo' : Neutral \/ i < 0
  PROVE  KnownInv'
BY DEF KnownInv, InBook, PositionAt, AllPositions

LEMMA KnownTables ==
  ASSUME \A i \in HeldIdx' : InBook(entries'[i]), \A h \in toSeat' : InBook(h),
         \A i \in EntryIdx : entries'[i].st = "open" => OrderFits(i)',
         pc' = "place" => \A i \in todo' : Neutral \/ i < 0
  PROVE  KnownInv'
BY DEF KnownInv, InBook, PositionAt, AllPositions

\* The position that comes of a filled entry order is in the book.
LEMMA FillInBook ==
  ASSUME IInv, KnownInv, NEW i \in EntryIdx, entries[i].st = "open",
         orders[entries[i].oid].st = "filled"
  PROVE  [px |-> orders[entries[i].oid].px, qty |-> orders[entries[i].oid].filled,
          short |-> entries[i].short] \in AllPositions
<1>1. OrderFits(i) /\ grid \in Grids
  BY DEF KnownInv, IInv, TypeOK
<1>2. /\ orders[entries[i].oid].px = grid.center + i * grid.spacing
      /\ orders[entries[i].oid].filled = Lots
      /\ entries[i].short = (i > 0)
      /\ i \in {j \in GridIdx : Neutral \/ j < 0}
  BY <1>1 DEF OrderFits, LevelPx
<1>3. Lots \in 1 .. Lots
  BY GridEngineAssumption
<1>4. QED
  BY <1>1, <1>2, <1>3 DEF AllPositions

\* Placing an exit order touches no other order.
LEMMA PlaceExitOrders ==
  ASSUME IInv, NEW i, NEW ents, PlaceExitFor(i, ents)
  PROVE  /\ entries' = ents
         /\ \E os : /\ orders' = Kept(os, entries', exits', cancels)
                    /\ \A o \in OrderId : orders[o].st # "none" => os[o] = orders[o]
<1> DEFINE order == NewOrder("exit", ents[i].short, ExitPx(ents[i]), ents[i].qty)
<1>1. entries' = ents /\ orders \in [OrderId -> Order]
  BY DEF PlaceExitFor, IInv, TypeOK
<1>2. \/ orders' = Kept(orders, ents, exits', cancels)
      \/ \E s \in OrderId : /\ orders[s].st = "none"
                            /\ orders' = Kept([orders EXCEPT ![s] = order], ents, exits', cancels)
  BY DEF PlaceExitFor, FreeSlot
<1>3. \A s \in OrderId : orders[s].st = "none" =>
        \A o \in OrderId : orders[o].st # "none" => [orders EXCEPT ![s] = order][o] = orders[o]
  BY <1>1
<1>4. CASE orders' = Kept(orders, ents, exits', cancels)
  BY <1>1, <1>4
<1>5. ASSUME NEW s \in OrderId, orders[s].st = "none",
             orders' = Kept([orders EXCEPT ![s] = order], ents, exits', cancels)
      PROVE  \E os : /\ orders' = Kept(os, entries', exits', cancels)
                     /\ \A o \in OrderId : orders[o].st # "none" => os[o] = orders[o]
  <2> DEFINE os == [orders EXCEPT ![s] = order]
  <2>1. /\ orders' = Kept(os, entries', exits', cancels)
        /\ \A o \in OrderId : orders[o].st # "none" => os[o] = orders[o]
    BY <1>1, <1>3, <1>5
  <2> HIDE DEF os
  <2>2. QED
    BY <2>1
<1>6. QED
  BY <1>1, <1>2, <1>4, <1>5

\* Open levels that a step leaves alone, orders included, still fit.
LEMMA SameOrders ==
  ASSUME IInv, KnownInv, UNCHANGED grid, NEW os, NEW exs, NEW cs,
         orders' = Kept(os, entries', exs, cs),
         \A o \in OrderId : orders[o].st # "none" => os[o] = orders[o],
         \A i \in EntryIdx : entries'[i].st = "open" => entries'[i] = entries[i]
  PROVE  \A i \in EntryIdx : entries'[i].st = "open" => OrderFits(i)'
<1> SUFFICES ASSUME NEW i \in EntryIdx, entries'[i].st = "open" PROVE OrderFits(i)'
  OBVIOUS
<1>1. entries[i].st = "open" /\ entries'[i] = entries[i] /\ OrderFits(i)
  BY DEF KnownInv
<1>2. /\ orders[entries[i].oid].st # "none"
      /\ os[entries[i].oid] = orders[entries[i].oid]
      /\ orders[entries[i].oid].st = "filled" =>
           orders[entries[i].oid].filled = orders[entries[i].oid].qty
  BY <1>1 DEF OrderFits
<1>3. QED
  BY <1>1, <1>2, FitsFrame

LEMMA ScanKnown == ASSUME IInv, KnownInv, Scan PROVE KnownInv'
<1>0. entries \in [EntryIdx -> EntryLevel]
  BY DEF IInv, TypeOK
<1>1. /\ pc' = "scan" /\ UNCHANGED toSeat /\ UNCHANGED grid
  BY DEF Scan, ScanKeep, EntryFilled, ExitFilled, EntryCanceled, ExitCanceled
<1>2. ASSUME NEW i, ScanKeep(i) PROVE KnownInv'
  <2>1. UNCHANGED <<entries, orders, toSeat, grid>>
    BY <1>2 DEF ScanKeep
  <2>2. QED
    BY <1>1, <2>1 DEF KnownInv, HeldIdx, Held, InBook, AllPositions, PositionAt, OrderFits, LevelPx
<1>3. ASSUME NEW x, ExitFilled(x) \/ ExitCanceled(x) PROVE KnownInv'
  <2>1. /\ orders' = Kept(orders, entries', exits', cancels)
        /\ UNCHANGED entries \/ \E e \in EntryIdx : entries' = [entries EXCEPT ![e] = Released(e)]
    BY <1>3 DEF ExitFilled, ExitCanceled
  <2>2. \A i \in EntryIdx : entries'[i].st \in {"open", "held"} => entries'[i] = entries[i]
    BY <1>0, <2>1, LevelFacts
  <2>3. \A i \in HeldIdx' : i \in HeldIdx /\ entries'[i] = entries[i]
    BY <2>2 DEF HeldIdx, Held
  <2>4. \A i \in EntryIdx : entries'[i].st = "open" => OrderFits(i)'
    BY <1>1, <2>1, <2>2, SameOrders
  <2>5. QED
    BY <1>1, <2>3, <2>4, KnownFrame
<1>4. ASSUME NEW i \in EntryIdx \cup ExitIdx, EntryCanceled(i) PROVE KnownInv'
  <2>1. /\ orders' = Kept(orders, entries', exits, cancels)
        /\ i \in EntryIdx /\ entries' = [entries EXCEPT ![i] = EmptyLevel]
    BY <1>4 DEF EntryCanceled
  <2>2. \A j \in EntryIdx : entries'[j].st \in {"open", "held"} => entries'[j] = entries[j]
    BY <1>0, <2>1, LevelFacts
  <2>3. \A j \in HeldIdx' : j \in HeldIdx /\ entries'[j] = entries[j]
    BY <2>2 DEF HeldIdx, Held
  <2>4. \A j \in EntryIdx : entries'[j].st = "open" => OrderFits(j)'
    BY <1>1, <2>1, <2>2, SameOrders
  <2>5. QED
    BY <1>1, <2>3, <2>4, KnownFrame
<1>5. ASSUME NEW i \in EntryIdx \cup ExitIdx, EntryFilled(i) PROVE KnownInv'
  <2> DEFINE o == orders[entries[i].oid]
             l == [st |-> "held", oid |-> NoId, qty |-> o.filled, px |-> o.px,
                   short |-> entries[i].short]
             ents == [entries EXCEPT ![i] = l]
  <2>1. /\ i \in EntryIdx /\ entries[i].st = "open" /\ o.st = "filled"
        /\ PlaceExitFor(i, ents)
    BY <1>5 DEF EntryFilled, First, IInv, WorkFresh
  <2>2. PICK os : /\ entries' = ents
                  /\ orders' = Kept(os, entries', exits', cancels)
                  /\ \A q \in OrderId : orders[q].st # "none" => os[q] = orders[q]
    BY <2>1, PlaceExitOrders
  <2>3. /\ entries'[i] = l
        /\ \A j \in EntryIdx : j # i => entries'[j] = entries[j]
    BY <1>0, <2>1, <2>2
  <2>4. \A j \in EntryIdx : entries'[j].st = "open" => OrderFits(j)'
    <3>1. \A j \in EntryIdx : entries'[j].st = "open" => entries'[j] = entries[j]
      BY <2>3
    <3>2. QED
      BY <1>1, <2>2, <3>1, SameOrders
  <2>5. PositionAt(l) \in AllPositions
    BY <2>1, FillInBook DEF PositionAt
  <2>6. \A j \in HeldIdx' : InBook(entries'[j])
    <3>1. \A j \in HeldIdx' : j = i \/ (j \in HeldIdx /\ entries'[j] = entries[j])
      BY <2>3 DEF HeldIdx, Held
    <3>2. InBook(l) /\ \A j \in HeldIdx : InBook(entries[j])
      BY <2>5 DEF KnownInv, InBook
    <3>3. QED
      BY <2>3, <3>1, <3>2
  <2>7. \A h \in toSeat' : InBook(h)
    BY <1>1 DEF KnownInv
  <2>8. QED
    BY <1>1, <2>4, <2>6, <2>7, KnownTables
<1>6. QED
  BY <1>2, <1>3, <1>4, <1>5 DEF Scan

LEMMA RecenterKnown == ASSUME IInv, KnownInv, Recenter PROVE KnownInv'
<1>0. entries \in [EntryIdx -> EntryLevel] /\ orders \in [OrderId -> Order]
  BY DEF IInv, TypeOK
<1>1. pc' # "place"
  BY DEF Recenter, SkipRecenter, RecenterStart, RecenterCancel, RecenterBuild, SeatEntry,
         RecenterDone, IInv, TypeOK
<1>2. CASE SkipRecenter \/ RecenterStart \/ RecenterDone
  <2>1. UNCHANGED <<entries, orders, toSeat, grid>>
    BY <1>2 DEF SkipRecenter, RecenterStart, RecenterDone
  <2>2. QED
    BY <1>1, <2>1 DEF KnownInv, HeldIdx, Held, InBook, AllPositions, PositionAt, OrderFits, LevelPx
<1>3. ASSUME NEW o \in OrderId, RecenterCancel(o) PROVE KnownInv'
  <2> DEFINE os == IF orders' = Kept(orders, entries, exits, cancels') THEN orders
                   ELSE [orders EXCEPT ![o].st = "canceled"]
  <2>1. UNCHANGED entries /\ UNCHANGED toSeat /\ UNCHANGED grid
    BY <1>3 DEF RecenterCancel
  <2>2. /\ orders' = Kept(os, entries', exits, cancels')
        /\ \A q \in OrderId : /\ orders[q].st # "none" => os[q].st # "none"
                              /\ os[q].px = orders[q].px /\ os[q].qty = orders[q].qty
                              /\ os[q].filled = orders[q].filled
                              /\ os[q].st = "filled" => orders[q].st = "filled"
    BY <1>0, <1>3, <2>1 DEF RecenterCancel, Order
  <2> HIDE DEF os
  <2>3. ASSUME NEW i \in EntryIdx, entries'[i].st = "open" PROVE OrderFits(i)'
    <3>1. entries[i].st = "open" /\ entries'[i] = entries[i] /\ OrderFits(i)
      BY <2>1, <2>3 DEF KnownInv
    <3>2. QED
      BY <2>1, <2>2, <3>1, FitsFrame DEF OrderFits
  <2>4. QED
    BY <1>1, <2>1, <2>3, KnownFrame DEF HeldIdx, Held
<1>4. ASSUME NEW g \in Grids, RecenterBuild(g) PROVE KnownInv'
  <2>1. /\ entries' = BuildLevels
        /\ toSeat' = {[old |-> i, qty |-> entries[i].qty, px |-> entries[i].px,
                       short |-> entries[i].short] : i \in HeldIdx}
    BY <1>4 DEF RecenterBuild
  <2>2. HeldIdx' = {} /\ \A i \in EntryIdx : entries'[i].st # "open"
    BY <2>1, LevelFacts DEF HeldIdx, Held
  <2>3. \A h \in toSeat' : InBook(h)
    <3> SUFFICES ASSUME NEW h \in toSeat' PROVE PositionAt(h) \in AllPositions
      BY DEF InBook
    <3>1. PICK i \in HeldIdx : h = [old |-> i, qty |-> entries[i].qty, px |-> entries[i].px,
                                   short |-> entries[i].short]
      BY <2>1
    <3>2. PositionAt(h) = PositionAt(entries[i])
      BY <3>1 DEF PositionAt
    <3>3. QED
      BY <3>2 DEF KnownInv, InBook
  <2>4. QED
    BY <1>1, <2>2, <2>3, KnownTables
<1>5. ASSUME NEW h \in toSeat, NEW k \in 1 .. N + Overflow, SeatEntry(h, k) PROVE KnownInv'
  <2> DEFINE n == Dir(h.short) * k
             l == [st |-> "held", oid |-> NoId, qty |-> h.qty, px |-> h.px, short |-> h.short]
  <2>1. /\ toSeat' = toSeat \ {h} /\ entries' = [entries EXCEPT ![n] = l]
        /\ UNCHANGED orders /\ UNCHANGED grid
    BY <1>5 DEF SeatEntry
  <2>2. \A i \in EntryIdx : entries'[i] = entries[i] \/ entries'[i] = l
    BY <1>0, <2>1
  <2>3. InBook(l)
    BY DEF KnownInv, InBook, PositionAt
  <2>4. \A i \in HeldIdx' : InBook(entries'[i])
    BY <2>2, <2>3 DEF KnownInv, HeldIdx, Held
  <2>5. \A i \in EntryIdx : entries'[i].st = "open" => OrderFits(i)'
    BY <2>1, <2>2 DEF KnownInv, OrderFits, LevelPx
  <2>6. \A g \in toSeat' : InBook(g)
    BY <2>1 DEF KnownInv
  <2>7. QED
    BY <1>1, <2>4, <2>5, <2>6, KnownTables
<1>6. QED
  BY <1>2, <1>3, <1>4, <1>5 DEF Recenter

LEMMA WorldKnown == ASSUME IInv, KnownInv, World PROVE KnownInv'
<1>0. orders \in [OrderId -> Order] /\ UNCHANGED <<entries, toSeat, grid, pc, todo>>
  BY DEF IInv, TypeOK, World, Fill, ManualCancel, BackoffOver, engineVars
<1>1. ASSUME NEW i, BackoffOver(i) PROVE KnownInv'
  <2>1. UNCHANGED orders
    BY <1>1 DEF BackoffOver
  <2>2. QED
    BY <1>0, <2>1 DEF KnownInv, HeldIdx, Held, InBook, AllPositions, PositionAt, OrderFits, LevelPx
<1>2. ASSUME NEW o \in OrderId, NEW os, orders' = Kept(os, entries, exits, cancels),
             \A q \in OrderId :
               /\ orders[q].st # "none" => os[q].st # "none"
               /\ os[q].px = orders[q].px /\ os[q].qty = orders[q].qty
               /\ os[q].st = "filled" => \/ os[q].filled = os[q].qty
                                         \/ orders[q].st = "filled" /\ os[q].filled = orders[q].filled
      PROVE  KnownInv'
  <2>1. ASSUME NEW i \in EntryIdx, entries'[i].st = "open" PROVE OrderFits(i)'
    <3>1. entries[i].st = "open" /\ entries'[i] = entries[i] /\ OrderFits(i)
      BY <1>0, <2>1 DEF KnownInv
    <3>2. orders' = Kept(os, entries', exits, cancels)
      BY <1>0, <1>2
    <3>3. QED
      BY <1>0, <1>2, <3>1, <3>2, FitsFrame DEF OrderFits
  <2>2. pc' = "place" => \A i \in todo' : Neutral \/ i < 0
    BY <1>0 DEF KnownInv
  <2>3. QED
    BY <1>0, <2>1, <2>2, KnownFrame DEF HeldIdx, Held
<1>3. ASSUME NEW o \in OrderId, Fill(o) PROVE KnownInv'
  <2> DEFINE os == [orders EXCEPT ![o] = Traded(orders[o])]
  <2>1. orders' = Kept(os, entries, exits, cancels)
    BY <1>3 DEF Fill
  <2>2. \A q \in OrderId :
          /\ orders[q].st # "none" => os[q].st # "none"
          /\ os[q].px = orders[q].px /\ os[q].qty = orders[q].qty
          /\ os[q].st = "filled" => \/ os[q].filled = os[q].qty
                                    \/ orders[q].st = "filled" /\ os[q].filled = orders[q].filled
    BY <1>0 DEF Traded, Order
  <2> HIDE DEF os
  <2>3. QED
    BY <1>2, <2>1, <2>2
<1>4. ASSUME NEW o \in OrderId, ManualCancel(o) PROVE KnownInv'
  <2> DEFINE os == [orders EXCEPT ![o].st = "canceled"]
  <2>1. orders' = Kept(os, entries, exits, cancels)
    BY <1>4 DEF ManualCancel
  <2>2. \A q \in OrderId :
          /\ orders[q].st # "none" => os[q].st # "none"
          /\ os[q].px = orders[q].px /\ os[q].qty = orders[q].qty
          /\ os[q].st = "filled" => \/ os[q].filled = os[q].qty
                                    \/ orders[q].st = "filled" /\ os[q].filled = orders[q].filled
    BY <1>0 DEF Order
  <2> HIDE DEF os
  <2>3. QED
    BY <1>2, <2>1, <2>2
<1>5. QED
  BY <1>1, <1>3, <1>4 DEF World

LEMMA ReplaceKnown == ASSUME IInv, KnownInv, Replace PROVE KnownInv'
<1>0. /\ entries \in [EntryIdx -> EntryLevel] /\ orders \in [OrderId -> Order]
      /\ UNCHANGED grid /\ UNCHANGED toSeat
  BY DEF IInv, TypeOK, Replace, EnsureTakeProfit, PlaceMissing, EnsureDone, TickEnd
<1>1. ASSUME NEW i \in EntryIdx, EnsureTakeProfit(i) PROVE KnownInv'
  <2>1. PlaceExitFor(i, entries) /\ pc' = "ensure"
    BY <1>1 DEF EnsureTakeProfit
  <2>2. PICK os : /\ entries' = entries
                  /\ orders' = Kept(os, entries', exits', cancels)
                  /\ \A q \in OrderId : orders[q].st # "none" => os[q] = orders[q]
    BY <2>1, PlaceExitOrders
  <2>3. \A j \in EntryIdx : entries'[j].st = "open" => OrderFits(j)'
    BY <1>0, <2>2, SameOrders
  <2>4. QED
    BY <1>0, <2>1, <2>2, <2>3, KnownFrame DEF HeldIdx, Held
<1>2. CASE EnsureDone \/ TickEnd
  <2>1. /\ UNCHANGED entries /\ UNCHANGED orders
        /\ pc' = "place" => \A i \in todo' : Neutral \/ i < 0
    BY <1>2 DEF EnsureDone, TickEnd, Missing
  <2>2. QED
    BY <1>0, <2>1 DEF KnownInv, HeldIdx, Held, InBook, AllPositions, PositionAt, OrderFits, LevelPx
<1>3. ASSUME NEW i \in EntryIdx, PlaceMissing(i) PROVE KnownInv'
  <2> DEFINE order == NewOrder("entry", i > 0, LevelPx(i), Lots)
             Level(s) == [st |-> "open", oid |-> s, qty |-> Lots, px |-> 0, short |-> i > 0]
  <2>1. /\ pc = "place" /\ pc' = "place" /\ i \in todo /\ todo' = todo \ {i}
        /\ i \in GridIdx /\ entries[i].st = "empty"
    BY <1>3 DEF PlaceMissing, First, IInv, WorkFresh
  <2>2. (Neutral \/ i < 0) /\ (pc' = "place" => \A j \in todo' : Neutral \/ j < 0)
    BY <2>1 DEF KnownInv
  <2>3. \/ UNCHANGED entries /\ UNCHANGED orders
        \/ \E s \in OrderId : /\ orders[s].st = "none"
                              /\ orders' = [orders EXCEPT ![s] = order]
                              /\ entries' \in {entries, [entries EXCEPT ![i] = Level(s)]}
    BY <1>3 DEF PlaceMissing, FreeSlot
  <2>4. CASE UNCHANGED entries /\ UNCHANGED orders
    BY <1>0, <2>2, <2>4 DEF KnownInv, HeldIdx, Held, InBook, AllPositions, PositionAt,
                            OrderFits, LevelPx
  <2>5. ASSUME NEW s \in OrderId, orders[s].st = "none",
               orders' = [orders EXCEPT ![s] = order],
               entries' \in {entries, [entries EXCEPT ![i] = Level(s)]}
        PROVE  KnownInv'
    <3>1. /\ orders'[s] = order
          /\ \A q \in OrderId : orders[q].st # "none" => orders'[q] = orders[q]
      BY <1>0, <2>5
    <3>2. \A j \in EntryIdx : \/ entries'[j] = entries[j]
                              \/ j = i /\ entries'[j] = Level(s)
      BY <1>0, <2>5
    <3>3. ASSUME NEW j \in EntryIdx, entries'[j].st = "open" PROVE OrderFits(j)'
      <4>1. CASE entries'[j] = entries[j]
        <5>1. OrderFits(j)
          BY <3>3, <4>1 DEF KnownInv
        <5>2. QED
          BY <1>0, <3>1, <4>1, <5>1 DEF OrderFits, LevelPx
      <4>2. CASE j = i /\ entries'[j] = Level(s)
        <5>1. /\ order.st = "new" /\ order.px = LevelPx(i) /\ order.qty = Lots
              /\ LevelPx(i)' = LevelPx(i)
          BY <1>0 DEF NewOrder, LevelPx
        <5>2. entries'[j].oid = s /\ entries'[j].short = (i > 0)
          BY <4>2
        <5>3. QED
          BY <2>1, <2>2, <3>1, <4>2, <5>1, <5>2 DEF OrderFits
      <4>3. QED
        BY <3>2, <4>1, <4>2
    <3>4. \A j \in HeldIdx' : j \in HeldIdx /\ entries'[j] = entries[j]
      BY <3>2 DEF HeldIdx, Held
    <3>5. QED
      BY <1>0, <2>2, <3>3, <3>4, KnownFrame
  <2>6. QED
    BY <2>3, <2>4, <2>5
<1>4. QED
  BY <1>1, <1>2, <1>3 DEF Replace

LEMMA NextKnown == IInv /\ KnownInv /\ [Next]_vars => KnownInv'
<1> SUFFICES ASSUME IInv, KnownInv, [Next]_vars PROVE KnownInv'
  OBVIOUS
<1>1. CASE UNCHANGED vars \/ \E p \in Prices : TickStart(p)
  <2>1. /\ UNCHANGED <<entries, orders, toSeat, grid>>
        /\ pc' = "place" => pc = "place" /\ todo' = todo
    BY <1>1 DEF vars, engineVars, TickStart
  <2>2. QED
    BY <2>1 DEF KnownInv, HeldIdx, Held, InBook, AllPositions, PositionAt, OrderFits, LevelPx
<1>2. QED
  BY <1>1, ScanKnown, RecenterKnown, ReplaceKnown, WorldKnown DEF Next, OnTick

\* Every position the engine holds, or is moving, is one the book counts.
THEOREM BookComplete ==
  Spec => [](/\ \A i \in HeldIdx : PositionAt(entries[i]) \in AllPositions
             /\ \A h \in toSeat : PositionAt(h) \in AllPositions)
<1>1. Init => KnownInv
  <2> SUFFICES ASSUME Init PROVE KnownInv
    OBVIOUS
  <2>1. toSeat = {} /\ \A i \in EntryIdx : entries[i].st \in {"none", "empty"}
    BY LevelFacts DEF Init
  <2>2. \A i \in todo : Neutral \/ i < 0
    BY DEF Init, Missing
  <2>3. QED
    BY <2>1, <2>2 DEF KnownInv, HeldIdx, Held
<1>2. KnownInv => /\ \A i \in HeldIdx : PositionAt(entries[i]) \in AllPositions
                  /\ \A h \in toSeat : PositionAt(h) \in AllPositions
  BY DEF KnownInv, InBook
<1>3. QED
  BY <1>1, <1>2, NextKnown, Invariance, PTL DEF Spec
=============================================================================
