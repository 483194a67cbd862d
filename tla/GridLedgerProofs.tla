-------------------------- MODULE GridLedgerProofs --------------------------
(***************************************************************************)
(* Proofs about the engine's books, for every grid, every combination of   *)
(* failing calls and every order of fills: that a running engine never     *)
(* believes in more than the account holds nor offers more than that for   *)
(* sale, and where lots can escape it.  The steps of the running engine    *)
(* are those of GridEngineProofs.                                          *)
(*                                                                         *)
(* Then about crashes and restarts, any number of them at any moment, with *)
(* the market trading throughout: what the level table keeps whatever      *)
(* happens; the books of an engine that is still taking its orders and     *)
(* positions over; and from those that a restarted engine never believes   *)
(* in more than the account holds, and that one which nothing disturbed    *)
(* believes in exactly that.                                               *)
(***************************************************************************)
EXTENDS GridRestartInv, GridEngineProofs, SumTheorems

-----------------------------------------------------------------------------
(* What the orders and the levels that name them agree on                  *)

\* An order that is not cancelled by hand after a part of it has traded:
\* nobody does, or it has no parts.
Uncut(r) == "manual" \notin Failing \/ r.qty = 1

OrderOk(r) ==
  r.st # "none" =>
    /\ r.qty \in Nat \ {0} /\ r.filled <= r.qty
    /\ r.st = "new" => r.filled < r.qty
    /\ r.st = "filled" => r.filled = r.qty
    /\ Uncut(r) /\ r.kind = "exit" /\ r.st = "canceled" => r.filled = 0
    /\ r.kind = "exit" /\ r.st = "canceled" => "manual" \in Failing
OrderLots(os) == \A o \in OrderId : OrderOk(os[o])

PositionLots(ents, seat) ==
  /\ \A i \in EntryIdx : ents[i].st = "held" => ents[i].qty \in Nat \ {0}
  /\ \A h \in seat : h.qty \in Nat \ {0}
  /\ IsFiniteSet(seat)

\* An open level names an entry order of its own direction, and no other
\* level does.  Outside recenter a cancelled one has not traded at all.
NamesEntry(e, os, p) ==
  LET r == os[e.oid]
  IN  /\ e.oid \in OrderId
      /\ r.st # "none" /\ r.kind = "entry" /\ r.short = e.short
      /\ Uncut(r) /\ p # "cancel" /\ r.st = "canceled" => r.filled = 0
EntriesNamed(ents, os, p) ==
  /\ \A i \in EntryIdx : ents[i].st = "open" => NamesEntry(ents[i], os, p)
  /\ \A i, j \in EntryIdx :
       ents[i].st = "open" /\ ents[j].st = "open" /\ ents[i].oid = ents[j].oid => i = j
  /\ \A i \in EntryIdx : ents[i].st # "open" => ents[i].oid = NoId

\* An exit level names a take-profit order of its direction, which has at
\* least the level's lots (an adopted order may have traded before) and no
\* more than these still to trade; no other level names it.
NamesExit(e, os) ==
  LET r == os[e.oid]
  IN  /\ e.oid \in OrderId
      /\ r.st # "none" /\ r.kind = "exit" /\ r.short = e.short
      /\ e.qty <= r.qty /\ r.qty - r.filled <= e.qty
ExitsNamed(exs, os) ==
  /\ \A x \in ExitIdx : exs[x].st = "open" => NamesExit(exs[x], os)
  /\ \A x, y \in ExitIdx :
       exs[x].st = "open" /\ exs[y].st = "open" /\ exs[x].oid = exs[y].oid => x = y
  /\ \A x \in ExitIdx : exs[x].st # "open" => exs[x].oid = NoId

\* Recenter cancels entry orders only.
ListsEntries(cs, os, p) ==
  p = "cancel" => \A o \in cs : os[o].st # "none" /\ os[o].kind = "entry"

LInv ==
  /\ OrderLots(orders)
  /\ PositionLots(entries, toSeat)
  /\ EntriesNamed(entries, orders, pc)
  /\ ExitsNamed(exits, orders)
  /\ ListsEntries(cancels, orders, pc)
  /\ pc # "seat" => toSeat = {}

\* Every live take-profit order is that of an exit level.
Named(exs, o) == \E x \in ExitIdx : exs[x].st = "open" /\ exs[x].oid = o
LiveExit(r)   == r.st = "new" /\ r.kind = "exit"
AllNamed(exs, os) == \A o \in OrderId : LiveExit(os[o]) => Named(exs, o)

\* No answer to a take-profit order gets lost, never or in this step.
Answered == "lost" \notin Failing \/ ~ExitAnswerLost

\* Forgetting finished orders nobody names touches none of it.
LEMMA KeptLedger ==
  ASSUME NEW os \in [OrderId -> Order], NEW ents, NEW exs, NEW cs, NEW p
  PROVE  LET ks == Kept(os, ents, exs, cs)
         IN  /\ OrderLots(os) => OrderLots(ks)
             /\ EntriesNamed(ents, os, p) => EntriesNamed(ents, ks, p)
             /\ ExitsNamed(exs, os) => ExitsNamed(exs, ks)
             /\ cs \subseteq OrderId /\ ListsEntries(cs, os, p) => ListsEntries(cs, ks, p)
             /\ \A i \in EntryIdx : ents[i].oid \in OrderId => ks[ents[i].oid] = os[ents[i].oid]
             /\ \A x \in ExitIdx : exs[x].oid \in OrderId => ks[exs[x].oid] = os[exs[x].oid]
<1> DEFINE ks == Kept(os, ents, exs, cs)
<1>1. \A o \in OrderId : ks[o] = os[o] \/ (ks[o] = NoOrder /\ os[o].st # "new")
  BY DEF Kept
<1>2. \A i \in EntryIdx : ents[i].oid \in OrderId => ks[ents[i].oid] = os[ents[i].oid]
  BY DEF Kept
<1>3. \A x \in ExitIdx : exs[x].oid \in OrderId => ks[exs[x].oid] = os[exs[x].oid]
  BY DEF Kept
<1>4. \A o \in cs : o \in OrderId => ks[o] = os[o]
  BY DEF Kept
<1>5. NoOrder.st = "none"
  BY DEF NoOrder
<1> HIDE DEF ks
<1>6. OrderLots(os) => OrderLots(ks)
  BY <1>1, <1>5 DEF OrderLots, OrderOk
<1>7. EntriesNamed(ents, os, p) => EntriesNamed(ents, ks, p)
  BY <1>2 DEF EntriesNamed, NamesEntry
<1>8. ExitsNamed(exs, os) => ExitsNamed(exs, ks)
  BY <1>1, <1>3, <1>5 DEF ExitsNamed, NamesExit
<1>9. cs \subseteq OrderId /\ ListsEntries(cs, os, p) => ListsEntries(cs, ks, p)
  BY <1>4 DEF ListsEntries
<1> QED BY <1>2, <1>3, <1>6, <1>7, <1>8, <1>9 DEF ks

\* What the exchange keeps although it is finished: the orders a loop of the
\* engine still has to visit; and it keeps every live order.
LEMMA KeptMore ==
  ASSUME NEW os, NEW ents, NEW exs, NEW cs, NEW o \in OrderId,
         o \in cs \/ os[o].st = "new"
  PROVE  Kept(os, ents, exs, cs)[o] = os[o]
BY DEF Kept

\* Putting a new order in a free slot, and an order changing its state.
LEMMA OrderPlaced ==
  ASSUME NEW os \in [OrderId -> Order], NEW ents, NEW exs, NEW cs, NEW p,
         NEW s \in OrderId, os[s].st = "none", NEW r \in Order,
         r.st = "new", r.filled = 0, r.qty \in Nat \ {0}
  PROVE  LET ns == [os EXCEPT ![s] = r]
         IN  /\ ns \in [OrderId -> Order]
             /\ OrderLots(os) => OrderLots(ns)
             /\ EntriesNamed(ents, os, p) =>
                  /\ EntriesNamed(ents, ns, p)
                  /\ \A i \in EntryIdx : ents[i].st = "open" => ents[i].oid # s
             /\ ExitsNamed(exs, os) =>
                  /\ \A x \in ExitIdx : exs[x].st = "open" => exs[x].oid # s
                  /\ ExitsNamed(exs, ns)
             /\ cs \subseteq OrderId /\ ListsEntries(cs, os, p) => ListsEntries(cs, ns, p)
<1> DEFINE ns == [os EXCEPT ![s] = r]
<1>1. ns \in [OrderId -> Order] /\ ns[s] = r /\ \A o \in OrderId : o # s => ns[o] = os[o]
  OBVIOUS
<1> HIDE DEF ns
<1>2. OrderLots(os) => OrderLots(ns)
  BY <1>1 DEF OrderLots, OrderOk
<1>3. EntriesNamed(ents, os, p) => \A i \in EntryIdx : ents[i].st = "open" => ents[i].oid # s
  BY DEF EntriesNamed, NamesEntry
<1>4. EntriesNamed(ents, os, p) => EntriesNamed(ents, ns, p)
  BY <1>1, <1>3 DEF EntriesNamed, NamesEntry
<1>5. ExitsNamed(exs, os) => \A x \in ExitIdx : exs[x].st = "open" => exs[x].oid # s
  BY DEF ExitsNamed, NamesExit
<1>6. ExitsNamed(exs, os) => \A x \in ExitIdx : exs[x].st = "open" => NamesExit(exs[x], ns)
  BY <1>1, <1>5 DEF ExitsNamed, NamesExit
<1>7. ExitsNamed(exs, os) => ExitsNamed(exs, ns)
  BY <1>1, <1>6 DEF ExitsNamed
<1>8. cs \subseteq OrderId /\ ListsEntries(cs, os, p) => ListsEntries(cs, ns, p)
  BY <1>1 DEF ListsEntries
<1> QED BY <1>1, <1>2, <1>3, <1>4, <1>5, <1>6, <1>7, <1>8 DEF ns

LEMMA OrderMoved ==
  ASSUME NEW os \in [OrderId -> Order], NEW ents, NEW exs, NEW cs, NEW p,
         NEW o \in OrderId, os[o].st = "new", NEW r \in Order, OrderOk(r),
         r.st # "none", r.kind = os[o].kind, r.short = os[o].short, r.qty = os[o].qty,
         exs \in [ExitIdx -> ExitLevel], r.filled >= os[o].filled,
         \/ (r.st = "canceled" /\ Uncut(r) /\ p # "cancel" => r.filled = 0)
         \/ \A i \in EntryIdx : ents[i].st # "open"
  PROVE  LET ns == [os EXCEPT ![o] = r]
         IN  /\ ns \in [OrderId -> Order]
             /\ OrderLots(os) => OrderLots(ns)
             /\ EntriesNamed(ents, os, p) => EntriesNamed(ents, ns, p)
             /\ ExitsNamed(exs, os) => ExitsNamed(exs, ns)
             /\ cs \subseteq OrderId /\ ListsEntries(cs, os, p) => ListsEntries(cs, ns, p)
<1> DEFINE ns == [os EXCEPT ![o] = r]
<1>1. ns \in [OrderId -> Order] /\ ns[o] = r /\ \A q \in OrderId : q # o => ns[q] = os[q]
  OBVIOUS
<1> HIDE DEF ns
<1>2. OrderLots(os) => OrderLots(ns)
  BY <1>1 DEF OrderLots
<1>3. EntriesNamed(ents, os, p) => EntriesNamed(ents, ns, p)
  BY <1>1 DEF EntriesNamed, NamesEntry
<1>4. ExitsNamed(exs, os) => ExitsNamed(exs, ns)
  <2>1. ASSUME NEW x \in ExitIdx, exs[x].st = "open", NamesExit(exs[x], os)
        PROVE  NamesExit(exs[x], ns)
    <3>1. /\ r.qty = os[o].qty /\ r.filled \in Nat /\ os[o].filled \in Nat /\ r.qty \in Nat
          /\ exs[x].qty \in Nat
      BY DEF Order, ExitLevel
    <3> QED BY <1>1, <2>1, <3>1 DEF NamesExit
  <2> QED BY <1>1, <2>1 DEF ExitsNamed
<1>5. cs \subseteq OrderId /\ ListsEntries(cs, os, p) => ListsEntries(cs, ns, p)
  BY <1>1 DEF ListsEntries
<1> QED BY <1>1, <1>2, <1>3, <1>4, <1>5 DEF ns

-----------------------------------------------------------------------------
(* Every step preserves it                                                 *)

LEMMA InitLInv == Init => LInv
<1> SUFFICES ASSUME Init PROVE LInv
  OBVIOUS
<1>1. /\ \A o \in OrderId : orders[o].st = "none"
      /\ \A i \in EntryIdx : entries[i] \in {NoLevel, EmptyLevel}
      /\ \A x \in ExitIdx : exits[x].st = "none" /\ exits[x].oid = NoId
  BY LevelFacts DEF Init, BuildLevels, NoExit
<1>2. toSeat = {} /\ cancels = {} /\ IsFiniteSet(toSeat)
  BY FS_EmptySet DEF Init
<1> QED
  BY <1>1, <1>2 DEF LInv, OrderLots, OrderOk, PositionLots, EntriesNamed, ExitsNamed,
                    ListsEntries, NoLevel, EmptyLevel

\* Steps that touch neither the orders nor what names them.
LEMMA QuietLInv ==
  ASSUME LInv, UNCHANGED <<entries, exits, toSeat, orders>>,
         pc \notin {"cancel", "seat"}, pc' # "cancel"
  PROVE  LInv'
BY DEF LInv, OrderLots, OrderOk, PositionLots, EntriesNamed, NamesEntry, ExitsNamed, NamesExit,
       ListsEntries

LEMMA RecenterStartLInv == ASSUME IInv, LInv, RecenterStart PROVE LInv'
<1>1. /\ pc' = "cancel" /\ pc \notin {"cancel", "seat"}
      /\ UNCHANGED <<entries, exits, toSeat, orders>>
  BY DEF RecenterStart
<1>2. EntriesNamed(entries, orders, pc)'
  BY <1>1 DEF LInv, EntriesNamed, NamesEntry
<1>3. ListsEntries(cancels, orders, pc)'
  BY <1>1 DEF RecenterStart, ListsEntries, ToCancel, EntryOrders
<1> QED BY <1>1, <1>2, <1>3 DEF LInv, OrderLots, OrderOk, PositionLots, ExitsNamed, NamesExit

\* Steps that only change the state of orders.
LEMMA OrdersLInv ==
  ASSUME IInv, LInv, NEW os \in [OrderId -> Order],
         orders' = Kept(os, entries, exits, cancels'), cancels' \subseteq cancels,
         OrderLots(os), EntriesNamed(entries, os, pc), ExitsNamed(exits, os),
         ListsEntries(cancels, os, pc), UNCHANGED <<entries, exits, toSeat, pc>>
  PROVE  LInv'
<1>1. cancels' \subseteq OrderId /\ ListsEntries(cancels', os, pc)
  BY DEF IInv, TypeOK, ListsEntries
<1>2. /\ OrderLots(orders') /\ EntriesNamed(entries, orders', pc) /\ ExitsNamed(exits, orders')
      /\ ListsEntries(cancels', orders', pc')
  BY <1>1, KeptLedger
<1> QED BY <1>2 DEF LInv, PositionLots

LEMMA RecenterCancelLInv ==
  ASSUME IInv, LInv, NEW o \in OrderId, RecenterCancel(o) PROVE LInv'
<1>1. /\ pc = "cancel" /\ o \in cancels /\ cancels' = cancels \ {o}
      /\ UNCHANGED <<entries, exits, toSeat, pc>>
      /\ orders \in [OrderId -> Order] /\ exits \in [ExitIdx -> ExitLevel]
  BY DEF RecenterCancel, IInv, TypeOK
<1>2. CASE orders' = Kept(orders, entries, exits, cancels')
  BY <1>1, <1>2, OrdersLInv DEF LInv
<1>3. CASE /\ orders[o].st = "new"
           /\ orders' = Kept([orders EXCEPT ![o].st = "canceled"], entries, exits, cancels')
  <2> DEFINE r == [orders[o] EXCEPT !.st = "canceled"]
             os == [orders EXCEPT ![o] = r]
  <2>1. orders[o].kind = "entry"
    BY <1>1 DEF LInv, ListsEntries
  <2>2. /\ r \in Order /\ r.st = "canceled" /\ r.kind = "entry" /\ r.short = orders[o].short
        /\ r.qty = orders[o].qty /\ r.filled = orders[o].filled
        /\ r.filled >= orders[o].filled
    BY <1>1, <2>1 DEF Order
  <2>3. OrderOk(r)
    BY <1>3, <2>2 DEF LInv, OrderLots, OrderOk
  <2>4. [orders EXCEPT ![o].st = "canceled"] = os
    BY <1>1
  <2> HIDE DEF r
  <2>5. /\ os \in [OrderId -> Order] /\ OrderLots(os) /\ EntriesNamed(entries, os, pc)
        /\ ExitsNamed(exits, os) /\ ListsEntries(cancels, os, pc)
    BY <1>1, <1>3, <2>1, <2>2, <2>3, OrderMoved DEF LInv, IInv, TypeOK
  <2> HIDE DEF os
  <2> QED BY <1>1, <1>3, <2>4, <2>5, OrdersLInv
<1> QED BY <1>1, <1>2, <1>3 DEF RecenterCancel

LEMMA ManualCancelLInv ==
  ASSUME IInv, LInv, NEW o \in OrderId, ManualCancel(o) PROVE LInv'
<1>1. /\ "manual" \in Failing /\ orders[o].st = "new"
      /\ orders' = Kept([orders EXCEPT ![o].st = "canceled"], entries, exits, cancels')
      /\ UNCHANGED <<entries, exits, toSeat, pc, cancels>>
      /\ orders \in [OrderId -> Order] /\ exits \in [ExitIdx -> ExitLevel]
  BY DEF ManualCancel, engineVars, IInv, TypeOK
<1> DEFINE r == [orders[o] EXCEPT !.st = "canceled"]
           os == [orders EXCEPT ![o] = r]
<1>2. /\ r \in Order /\ r.st = "canceled" /\ r.kind = orders[o].kind /\ r.short = orders[o].short
      /\ r.qty = orders[o].qty /\ r.filled = orders[o].filled /\ r.filled \in Nat /\ r.qty \in Nat
      /\ r.filled >= orders[o].filled
  BY <1>1 DEF Order
<1>3. Uncut(r) => r.filled = 0
  BY <1>1, <1>2 DEF LInv, OrderLots, OrderOk, Uncut
<1>4. OrderOk(r)
  BY <1>1, <1>2, <1>3 DEF LInv, OrderLots, OrderOk
<1>5. [orders EXCEPT ![o].st = "canceled"] = os
  BY <1>1
<1> HIDE DEF r
<1>6. /\ os \in [OrderId -> Order] /\ OrderLots(os) /\ EntriesNamed(entries, os, pc)
      /\ ExitsNamed(exits, os) /\ ListsEntries(cancels, os, pc)
  BY <1>1, <1>2, <1>3, <1>4, OrderMoved DEF LInv, IInv, TypeOK
<1> HIDE DEF os
<1> QED BY <1>1, <1>5, <1>6, OrdersLInv

\* Trading a lot more.
LEMMA TradedFacts ==
  ASSUME NEW r \in Order, r.st = "new", OrderOk(r)
  PROVE  /\ Traded(r) \in Order /\ OrderOk(Traded(r))
         /\ Traded(r).st \in {"new", "filled"} /\ Traded(r).kind = r.kind
         /\ Traded(r).short = r.short /\ Traded(r).qty = r.qty
         /\ Traded(r).filled = r.filled + 1
BY DEF Traded, OrderOk, Order

LEMMA FillLInv == ASSUME IInv, LInv, NEW o \in OrderId, Fill(o) PROVE LInv'
<1> DEFINE r == Traded(orders[o])
           os == [orders EXCEPT ![o] = r]
<1>1. /\ orders[o].st = "new" /\ orders' = Kept(os, entries, exits, cancels')
      /\ UNCHANGED <<entries, exits, toSeat, pc, cancels>>
      /\ orders \in [OrderId -> Order] /\ exits \in [ExitIdx -> ExitLevel]
  BY DEF Fill, engineVars, IInv, TypeOK
<1>2. /\ r \in Order /\ OrderOk(r) /\ r.st \in {"new", "filled"} /\ r.kind = orders[o].kind
      /\ r.short = orders[o].short /\ r.qty = orders[o].qty /\ r.filled >= orders[o].filled
  <2>1. orders[o] \in Order /\ OrderOk(orders[o]) /\ orders[o].filled \in Nat
    BY <1>1 DEF LInv, OrderLots, Order
  <2> QED BY <1>1, <2>1, TradedFacts
<1> HIDE DEF r
<1>3. /\ os \in [OrderId -> Order] /\ OrderLots(os) /\ EntriesNamed(entries, os, pc)
      /\ ExitsNamed(exits, os) /\ ListsEntries(cancels, os, pc)
  BY <1>1, <1>2, OrderMoved DEF LInv, IInv, TypeOK
<1> HIDE DEF os
<1> QED BY <1>1, <1>3, OrdersLInv

\* placeExitFor adds at most one order, which has not traded, and at most
\* one exit level, which names that order; "os" is the exchange before it
\* forgets what nobody names.
PlacedExit(os, i, ents) ==
  \/ exits' = exits
  \/ \E x \in ExitIdx, s \in OrderId :
       /\ exits[x].st = "none" /\ orders[s].st = "none"
       /\ exits' = [exits EXCEPT ![x] =
            [st |-> "open", oid |-> s, qty |-> ents[i].qty, px |-> ExitPx(ents[i]),
             short |-> ents[i].short, pair |-> i]]
       /\ os[s].qty = ents[i].qty /\ os[s].filled = 0
PlacedOrder(r, e) ==
  /\ LiveExit(r) /\ r.qty = e.qty /\ r.short = e.short /\ r.filled = 0
PlaceExitMakes(os, i, ents) ==
  /\ os \in [OrderId -> Order]
  /\ orders' = Kept(os, ents, exits', cancels)
  /\ \A o \in OrderId : \/ os[o] = orders[o]
                        \/ orders[o].st = "none" /\ PlacedOrder(os[o], ents[i])
  /\ "lost" \notin Failing \/ exits' # exits =>
       \A o \in OrderId : os[o] = orders[o] \/ Named(exits', o)
  /\ OrderLots(os) /\ EntriesNamed(ents, os, pc) /\ ExitsNamed(exits', os)
  /\ ListsEntries(cancels, os, pc)
  /\ PlacedExit(os, i, ents)

LEMMA PlaceExitLedger ==
  ASSUME TypeOK, OrderLots(orders), ExitsNamed(exits, orders), ListsEntries(cancels, orders, pc),
         NEW ents \in [EntryIdx -> EntryLevel], NEW i \in EntryIdx,
         EntriesNamed(ents, orders, pc), ents[i].qty \in Nat \ {0},
         PlaceExitFor(i, ents)
  PROVE  \E os : PlaceExitMakes(os, i, ents)
<1> USE DEF Named
<1> DEFINE e == ents[i]
           order == NewOrder("exit", e.short, ExitPx(e), e.qty)
<1>1. orders \in [OrderId -> Order] /\ exits \in [ExitIdx -> ExitLevel] /\ e \in EntryLevel
      /\ cancels \subseteq OrderId
  BY DEF TypeOK
<1>2. /\ order \in Order /\ order.st = "new" /\ order.filled = 0 /\ order.qty = e.qty
      /\ order.kind = "exit" /\ order.short = e.short /\ order.qty \in Nat \ {0}
      /\ PlacedOrder(order, ents[i])
  BY <1>1, ExitPxFacts DEF NewOrder, Order, EntryLevel, PlacedOrder, LiveExit
<1>3. ASSUME NEW s \in OrderId, FreeSlot(s)
      PROVE  LET os == [orders EXCEPT ![s] = order]
             IN  /\ os \in [OrderId -> Order] /\ os[s] = order /\ orders[s].st = "none"
                 /\ \A o \in OrderId : o # s => os[o] = orders[o]
                 /\ OrderLots(os) /\ EntriesNamed(ents, os, pc) /\ ListsEntries(cancels, os, pc)
                 /\ ExitsNamed(exits, os)
                 /\ \A x \in ExitIdx : exits[x].st = "open" => exits[x].oid # s
  <2> DEFINE os == [orders EXCEPT ![s] = order]
  <2> HIDE DEF order
  <2>1. orders[s].st = "none"
    BY <1>3 DEF FreeSlot
  <2>2. /\ os \in [OrderId -> Order] /\ OrderLots(os) /\ EntriesNamed(ents, os, pc)
        /\ ListsEntries(cancels, os, pc)
    BY <1>1, <1>2, <2>1, OrderPlaced
  <2>3. ExitsNamed(exits, os)
    BY <1>1, <1>2, <2>1, OrderPlaced
  <2>4. \A x \in ExitIdx : exits[x].st = "open" => exits[x].oid # s
    BY <2>1 DEF ExitsNamed, NamesExit
  <2>5. os[s] = order /\ \A o \in OrderId : o # s => os[o] = orders[o]
    BY <1>1
  <2> HIDE DEF os
  <2>6. /\ os \in [OrderId -> Order] /\ os[s] = order /\ orders[s].st = "none"
        /\ \A o \in OrderId : o # s => os[o] = orders[o]
        /\ OrderLots(os) /\ EntriesNamed(ents, os, pc) /\ ListsEntries(cancels, os, pc)
        /\ ExitsNamed(exits, os)
        /\ \A x \in ExitIdx : exits[x].st = "open" => exits[x].oid # s
    BY <2>1, <2>2, <2>3, <2>4, <2>5
  <2> QED BY <2>6 DEF os
<1>4. CASE exits' = exits /\ orders' = Kept(orders, ents, exits, cancels)
  <2>1. PlaceExitMakes(orders, i, ents)
    BY <1>1, <1>4 DEF PlaceExitMakes, PlacedExit
  <2> QED BY <2>1
<1>5. ASSUME NEW s \in OrderId, FreeSlot(s), "lost" \in Failing, exits' = exits,
             orders' = Kept([orders EXCEPT ![s] = order], ents, exits, cancels)
      PROVE  \E os : PlaceExitMakes(os, i, ents)
  <2> DEFINE os == [orders EXCEPT ![s] = order]
  <2>1. /\ os \in [OrderId -> Order] /\ orders[s].st = "none" /\ os[s] = order
        /\ \A o \in OrderId : o # s => os[o] = orders[o]
        /\ OrderLots(os) /\ EntriesNamed(ents, os, pc) /\ ListsEntries(cancels, os, pc)
        /\ ExitsNamed(exits, os)
    BY <1>3, <1>5
  <2>3. orders' = Kept(os, ents, exits', cancels)
    BY <1>5
  <2> HIDE DEF os, order
  <2>4. PlaceExitMakes(os, i, ents)
    BY <1>2, <1>5, <2>1, <2>3 DEF PlaceExitMakes, PlacedExit
  <2> QED BY <2>4
<1>6. ASSUME NEW s \in OrderId, NEW x \in ExitIdx, FreeSlot(s), IsNextExit(x),
             exits' = [exits EXCEPT ![x] =
                         [st |-> "open", oid |-> s, qty |-> e.qty, px |-> ExitPx(e),
                          short |-> e.short, pair |-> i]],
             orders' = Kept([orders EXCEPT ![s] = order], ents, exits', cancels)
      PROVE  \E os : PlaceExitMakes(os, i, ents)
  <2> DEFINE os == [orders EXCEPT ![s] = order]
             level == [st |-> "open", oid |-> s, qty |-> e.qty, px |-> ExitPx(e),
                       short |-> e.short, pair |-> i]
  <2>1. /\ os \in [OrderId -> Order] /\ orders[s].st = "none" /\ os[s] = order
        /\ \A o \in OrderId : o # s => os[o] = orders[o]
        /\ OrderLots(os) /\ EntriesNamed(ents, os, pc) /\ ListsEntries(cancels, os, pc)
        /\ ExitsNamed(exits, os)
        /\ \A y \in ExitIdx : exits[y].st = "open" => exits[y].oid # s
    BY <1>3, <1>6
  <2>2. exits[x].st = "none"
    BY <1>6 DEF IsNextExit
  <2>3. /\ exits'[x] = level /\ \A y \in ExitIdx : y # x => exits'[y] = exits[y]
    BY <1>1, <1>6
  <2>4. level.st = "open" /\ level.oid = s /\ level.qty = e.qty /\ level.short = e.short
    OBVIOUS
  <2>5. orders' = Kept(os, ents, exits', cancels)
    BY <1>6
  <2>6. PlacedExit(os, i, ents)
    BY <1>2, <1>6, <2>1, <2>2 DEF PlacedExit
  <2> HIDE DEF os, level, order
  <2>7. NamesExit(level, os)
    BY <1>2, <2>1, <2>4 DEF NamesExit
  <2>8. ExitsNamed(exits', os)
    <3>1. \A y \in ExitIdx : exits'[y].st = "open" => NamesExit(exits'[y], os)
      BY <2>1, <2>3, <2>7 DEF ExitsNamed
    <3>2. \A y, z \in ExitIdx :
            exits'[y].st = "open" /\ exits'[z].st = "open" /\ exits'[y].oid = exits'[z].oid
              => y = z
      BY <2>1, <2>3, <2>4 DEF ExitsNamed
    <3>3. \A y \in ExitIdx : exits'[y].st # "open" => exits'[y].oid = NoId
      BY <2>1, <2>3, <2>4 DEF ExitsNamed
    <3> QED BY <3>1, <3>2, <3>3 DEF ExitsNamed
  <2>9. Named(exits', s)
    BY <1>6, <2>3, <2>4 DEF Named
  <2>10. PlaceExitMakes(os, i, ents)
    BY <1>2, <2>1, <2>5, <2>6, <2>8, <2>9 DEF PlaceExitMakes
  <2> QED BY <2>10
<1> QED BY <1>4, <1>5, <1>6 DEF PlaceExitFor

LEMMA EntryFilledLInv ==
  ASSUME IInv, LInv, NEW i \in EntryIdx \cup ExitIdx, EntryFilled(i)
  PROVE  LInv' /\ \E os : PlaceExitMakes(os, i, entries')
<1> DEFINE o == orders[entries[i].oid]
           ents == [entries EXCEPT ![i] =
             [st |-> "held", oid |-> NoId, qty |-> o.filled, px |-> o.px,
              short |-> entries[i].short]]
<1>1. /\ i \in EntryIdx /\ pc = "scan" /\ entries[i].st = "open" /\ o.st = "filled"
      /\ PlaceExitFor(i, ents) /\ entries' = ents
      /\ UNCHANGED <<pc, toSeat, cancels>>
      /\ entries \in [EntryIdx -> EntryLevel]
  BY DEF EntryFilled, First, IInv, TypeOK, WorkFresh, PlaceExitFor
<1>2. /\ entries[i].oid \in OrderId /\ o \in Order /\ o.qty \in Nat \ {0} /\ o.filled = o.qty
  BY <1>1 DEF LInv, EntriesNamed, NamesEntry, OrderLots, OrderOk, IInv, TypeOK
<1>3. /\ ents \in [EntryIdx -> EntryLevel] /\ ents[i].st = "held" /\ ents[i].qty \in Nat \ {0}
      /\ ents[i].oid = NoId
      /\ \A j \in EntryIdx : j # i => ents[j] = entries[j]
  BY <1>1, <1>2 DEF EntryLevel, Order
<1> HIDE DEF ents
<1>4. EntriesNamed(ents, orders, pc)
  BY <1>3 DEF LInv, EntriesNamed
<1>5. PICK os : PlaceExitMakes(os, i, ents)
  BY <1>1, <1>3, <1>4, PlaceExitLedger DEF IInv, LInv
<1>6. cancels \subseteq OrderId
  BY DEF IInv, TypeOK
<1>7. /\ OrderLots(orders') /\ EntriesNamed(ents, orders', pc) /\ ExitsNamed(exits', orders')
      /\ ListsEntries(cancels, orders', pc)
  BY <1>5, <1>6, KeptLedger DEF PlaceExitMakes
<1>8. PositionLots(ents, toSeat)
  BY <1>3 DEF LInv, PositionLots
<1> QED BY <1>1, <1>5, <1>7, <1>8 DEF LInv

LEMMA EnsureTakeProfitLInv ==
  ASSUME IInv, LInv, NEW i \in EntryIdx, EnsureTakeProfit(i)
  PROVE  LInv' /\ \E os : PlaceExitMakes(os, i, entries)
<1>1. /\ pc = "ensure" /\ entries[i].st = "held" /\ PlaceExitFor(i, entries)
      /\ entries' = entries /\ UNCHANGED <<pc, toSeat, cancels>>
      /\ entries \in [EntryIdx -> EntryLevel]
  BY DEF EnsureTakeProfit, First, IInv, TypeOK, WorkFresh, PlaceExitFor, HeldIdx, Held
<1>2. entries[i].qty \in Nat \ {0}
  BY <1>1 DEF LInv, PositionLots
<1>3. PICK os : PlaceExitMakes(os, i, entries)
  BY <1>1, <1>2, PlaceExitLedger DEF IInv, LInv
<1>4. cancels \subseteq OrderId
  BY DEF IInv, TypeOK
<1>5. /\ OrderLots(orders') /\ EntriesNamed(entries, orders', pc) /\ ExitsNamed(exits', orders')
      /\ ListsEntries(cancels, orders', pc)
  BY <1>3, <1>4, KeptLedger DEF PlaceExitMakes
<1> QED BY <1>1, <1>3, <1>5 DEF LInv

\* Levels that stop naming their order.
LEMMA LevelsForget ==
  ASSUME IInv, LInv, UNCHANGED <<pc, cancels, toSeat>>,
         \A i \in EntryIdx : entries'[i] \in {entries[i], NoLevel, EmptyLevel},
         \A x \in ExitIdx : \/ exits'[x] = exits[x]
                            \/ exits'[x] = NoExit,
         orders' = Kept(orders, entries', exits', cancels)
  PROVE  LInv'
<1>1. EntriesNamed(entries', orders, pc) /\ PositionLots(entries', toSeat)
  BY DEF LInv, EntriesNamed, PositionLots, NoLevel, EmptyLevel
<1>2. ExitsNamed(exits', orders)
  BY DEF LInv, ExitsNamed, NoExit
<1>3. cancels \subseteq OrderId /\ orders \in [OrderId -> Order]
  BY DEF IInv, TypeOK
<1>4. /\ OrderLots(orders') /\ EntriesNamed(entries', orders', pc) /\ ExitsNamed(exits', orders')
      /\ ListsEntries(cancels, orders', pc)
  BY <1>1, <1>2, <1>3, KeptLedger DEF LInv
<1> QED BY <1>1, <1>4 DEF LInv

LEMMA ExitFilledLInv ==
  ASSUME IInv, LInv, NEW x \in EntryIdx \cup ExitIdx, ExitFilled(x) PROVE LInv'
<1>1. /\ x \in ExitIdx /\ orders[exits[x].oid].st = "filled"
      /\ exits' = [exits EXCEPT ![x] = NoExit]
      /\ \/ entries' = entries
         \/ entries' = [entries EXCEPT ![exits[x].pair] = Released(exits[x].pair)]
            /\ exits[x].pair \in EntryIdx
      /\ orders' = Kept(orders, entries', exits', cancels)
      /\ UNCHANGED <<pc, toSeat, cancels>>
  BY DEF ExitFilled
<1>2. \A i \in EntryIdx : entries'[i] \in {entries[i], NoLevel, EmptyLevel}
  BY <1>1, LevelFacts DEF IInv, TypeOK
<1>3. \A y \in ExitIdx : exits'[y] = exits[y] \/ exits'[y] = NoExit
  BY <1>1, LevelFacts DEF IInv, TypeOK
<1> QED BY <1>1, <1>2, <1>3, LevelsForget

LEMMA EntryCanceledLInv ==
  ASSUME IInv, LInv, NEW i \in EntryIdx \cup ExitIdx, EntryCanceled(i) PROVE LInv'
<1>1. /\ entries' = [entries EXCEPT ![i] = EmptyLevel] /\ exits' = exits
      /\ orders' = Kept(orders, entries', exits', cancels)
      /\ UNCHANGED <<pc, toSeat, cancels>>
  BY DEF EntryCanceled
<1>2. \A j \in EntryIdx : entries'[j] \in {entries[j], NoLevel, EmptyLevel}
  BY <1>1, LevelFacts DEF IInv, TypeOK
<1> QED BY <1>1, <1>2, LevelsForget

LEMMA ExitCanceledLInv ==
  ASSUME IInv, LInv, NEW x \in EntryIdx \cup ExitIdx, ExitCanceled(x) PROVE LInv'
<1>1. /\ exits' = [exits EXCEPT ![x] = NoExit] /\ entries' = entries
      /\ orders[exits[x].oid].st = "canceled"
      /\ orders' = Kept(orders, entries', exits', cancels)
      /\ UNCHANGED <<pc, toSeat, cancels>>
  BY DEF ExitCanceled
<1>2. \A y \in ExitIdx : exits'[y] = exits[y] \/ exits'[y] = NoExit
  BY <1>1, LevelFacts DEF IInv, TypeOK
<1> QED BY <1>1, <1>2, LevelsForget

LEMMA IndexSetsFinite == IsFiniteSet(EntryIdx) /\ IsFiniteSet(ExitIdx) /\ IsFiniteSet(OrderId)
<1>1. N + Overflow \in Int /\ ExitBase + MaxExits - 1 \in Int /\ MaxOrders \in Int
      /\ ExitBase \in Int
  BY GridEngineAssumption
<1>2. /\ IsFiniteSet(-(N + Overflow) .. N + Overflow)
      /\ IsFiniteSet(ExitBase .. ExitBase + MaxExits - 1)
      /\ IsFiniteSet(1 .. MaxOrders)
  BY <1>1, FS_Interval
<1> QED BY <1>2, FS_Difference DEF EntryIdx, ExitIdx, OrderId

\* The positions recenter takes off the table: each once, with its lots.
Taken(i) == [old |-> i, qty |-> entries[i].qty, px |-> entries[i].px,
             short |-> entries[i].short]

LEMMA RecenterBuildLInv == ASSUME IInv, LInv, NEW g, RecenterBuild(g) PROVE LInv'
<1>1. /\ pc' = "seat" /\ cancels = {} /\ cancels' = {} /\ exits' = exits
      /\ entries' = BuildLevels /\ toSeat' = {Taken(i) : i \in HeldIdx}
      /\ orders' = Kept(orders, entries', exits', cancels')
      /\ orders \in [OrderId -> Order]
  BY DEF RecenterBuild, Taken, IInv, TypeOK
<1>2. \A i \in EntryIdx : entries'[i].st \notin {"open", "held"} /\ entries'[i].oid = NoId
  BY <1>1, LevelFacts DEF NoLevel, EmptyLevel
<1>3. EntriesNamed(entries', orders, pc')
  BY <1>2 DEF EntriesNamed
<1>4. /\ OrderLots(orders') /\ EntriesNamed(entries', orders', pc') /\ ExitsNamed(exits', orders')
  BY <1>1, <1>3, KeptLedger DEF LInv
<1>5. IsFiniteSet(toSeat')
  <2> DEFINE m == [i \in HeldIdx |-> Taken(i)]
             zero == [i \in HeldIdx |-> 0]
             nought == [h \in toSeat' |-> 0]
  <2>1. IsFiniteSet(HeldIdx)
    BY IndexSetsFinite, FS_Subset DEF HeldIdx
  <2>2. /\ \A i, j \in HeldIdx : m[i] = m[j] => i = j
        /\ \A i \in HeldIdx : m[i] \in toSeat'
        /\ \A h \in toSeat' : \E i \in HeldIdx : h = m[i]
    BY <1>1 DEF Taken
  <2>3. \A i \in HeldIdx : zero[i] \in Int /\ nought[m[i]] = zero[i]
    BY <1>1
  <2> HIDE DEF m, zero, nought
  <2> QED BY <2>1, <2>2, <2>3, SumRenamed
<1>6. \A h \in toSeat' : h.qty \in Nat \ {0}
  BY <1>1 DEF Taken, LInv, PositionLots, HeldIdx, Held
<1>7. PositionLots(entries', toSeat')
  BY <1>2, <1>5, <1>6 DEF PositionLots
<1>8. ListsEntries(cancels', orders', pc')
  BY <1>1 DEF ListsEntries
<1> QED BY <1>1, <1>4, <1>7, <1>8 DEF LInv

LEMMA SeatEntryLInv ==
  ASSUME IInv, LInv, NEW h \in toSeat, NEW k \in 1 .. N + Overflow, SeatEntry(h, k) PROVE LInv'
<1> DEFINE n == Dir(h.short) * k
           level == [st |-> "held", oid |-> NoId, qty |-> h.qty, px |-> h.px, short |-> h.short]
<1>1. /\ entries' = [entries EXCEPT ![n] = level]
      /\ toSeat' = toSeat \ {h} /\ UNCHANGED <<pc, exits, cancels, orders>>
      /\ entries \in [EntryIdx -> EntryLevel] /\ pc # "cancel"
  BY DEF SeatEntry, IInv, TypeOK
<1>2. n \in EntryIdx
  <2>1. h.px \in Int /\ h.short \in BOOLEAN
    BY DEF IInv, TypeOK, Holding
  <2>2. IsSeat(k, h.px, h.short)
    BY DEF SeatEntry
  <2> QED BY <2>1, <2>2, SeatFacts DEF IInv
<1>3. \A j \in EntryIdx : entries'[j] = IF j = n THEN level ELSE entries[j]
  BY <1>1, <1>2
<1>4. PositionLots(entries', toSeat')
  <2>1. IsFiniteSet(toSeat')
    BY <1>1, FS_Subset DEF LInv, PositionLots
  <2> QED BY <1>1, <1>3, <2>1 DEF LInv, PositionLots
<1>5. EntriesNamed(entries', orders, pc)
  <2> HIDE DEF n
  <2> QED BY <1>3 DEF LInv, EntriesNamed
<1> QED BY <1>1, <1>4, <1>5 DEF LInv

LEMMA RecenterDoneLInv == ASSUME IInv, LInv, RecenterDone PROVE LInv'
<1>1. /\ pc = "seat" /\ pc' = "ensure" /\ exits' = [x \in ExitIdx |-> Repaired(x)]
      /\ toSeat = {} /\ UNCHANGED <<entries, toSeat, cancels, orders>>
      /\ exits \in [ExitIdx -> ExitLevel]
  BY DEF RecenterDone, IInv, TypeOK
<1>2. \A x \in ExitIdx : /\ exits'[x].st = exits[x].st /\ exits'[x].oid = exits[x].oid
                         /\ exits'[x].qty = exits[x].qty /\ exits'[x].short = exits[x].short
  BY <1>1 DEF Repaired, ExitLevel
<1>3. ExitsNamed(exits', orders)
  BY <1>2 DEF LInv, ExitsNamed, NamesExit
<1>4. EntriesNamed(entries, orders, pc')
  BY <1>1 DEF LInv, EntriesNamed, NamesEntry
<1>5. ListsEntries(cancels, orders, pc')
  BY <1>1 DEF ListsEntries
<1> QED BY <1>1, <1>3, <1>4, <1>5 DEF LInv

LEMMA PlaceMissingLInv ==
  ASSUME IInv, LInv, NEW i \in EntryIdx, PlaceMissing(i) PROVE LInv'
<1> DEFINE order == NewOrder("entry", i > 0, LevelPx(i), Lots)
<1>1. /\ pc = "place" /\ UNCHANGED <<pc, exits, cancels, toSeat>>
      /\ orders \in [OrderId -> Order] /\ entries \in [EntryIdx -> EntryLevel]
      /\ cancels \subseteq OrderId
  BY DEF PlaceMissing, IInv, TypeOK
<1>2. /\ order \in Order /\ order.st = "new" /\ order.filled = 0 /\ order.qty = Lots
      /\ order.kind = "entry" /\ order.short = (i > 0) /\ order.qty \in Nat \ {0}
  <2>1. LevelPx(i) \in Int /\ Lots \in Nat \ {0} /\ i \in Int
    BY GridFacts, IndexFacts, GridEngineAssumption DEF IInv
  <2> QED BY <2>1 DEF NewOrder, Order
<1>3. ASSUME NEW s \in OrderId, FreeSlot(s), orders' = [orders EXCEPT ![s] = order],
             \/ entries' = entries
             \/ entries' = [entries EXCEPT ![i] =
                  [st |-> "open", oid |-> s, qty |-> Lots, px |-> 0, short |-> i > 0]]
      PROVE  LInv'
  <2> HIDE DEF order
  <2>1. orders[s].st = "none"
    BY <1>3 DEF FreeSlot
  <2>2. /\ orders' \in [OrderId -> Order] /\ OrderLots(orders')
        /\ EntriesNamed(entries, orders', pc) /\ ListsEntries(cancels, orders', pc)
    BY <1>1, <1>2, <1>3, <2>1, OrderPlaced DEF LInv
  <2>3. ExitsNamed(exits, orders')
    BY <1>1, <1>2, <1>3, <2>1, OrderPlaced DEF LInv
  <2>4. \A j \in EntryIdx : entries[j].st = "open" => entries[j].oid # s
    BY <2>1 DEF LInv, EntriesNamed, NamesEntry
  <2>5. orders'[s] = order
    BY <1>1, <1>3
  <2>6. EntriesNamed(entries', orders', pc)
    <3>1. CASE entries' = entries BY <2>2, <3>1
    <3>2. CASE entries' = [entries EXCEPT ![i] =
                  [st |-> "open", oid |-> s, qty |-> Lots, px |-> 0, short |-> i > 0]]
      <4>1. /\ entries'[i].st = "open" /\ entries'[i].oid = s /\ entries'[i].short = (i > 0)
            /\ \A j \in EntryIdx : j # i => entries'[j] = entries[j]
        BY <1>1, <3>2
      <4>2. NamesEntry(entries'[i], orders', pc)
        BY <1>2, <2>5, <4>1 DEF NamesEntry
      <4> QED BY <2>2, <2>4, <4>1, <4>2 DEF EntriesNamed
    <3> QED BY <1>3, <3>1, <3>2
  <2>7. PositionLots(entries', toSeat)
    BY <1>1, <1>3 DEF LInv, PositionLots
  <2> QED BY <1>1, <2>2, <2>3, <2>6, <2>7 DEF LInv
<1>4. CASE UNCHANGED <<entries, orders>>
  BY <1>1, <1>4, QuietLInv
<1> QED BY <1>3, <1>4 DEF PlaceMissing

LEMMA NextLInv == IInv /\ LInv /\ [Next]_vars => LInv'
<1> SUFFICES ASSUME IInv, LInv, [Next]_vars PROVE LInv'
  OBVIOUS
<1>1. CASE UNCHANGED vars
  BY <1>1 DEF vars, engineVars, LInv, OrderLots, OrderOk, PositionLots, EntriesNamed, NamesEntry,
              ExitsNamed, NamesExit, ListsEntries
<1>2. CASE \E p \in Prices : TickStart(p)
  BY <1>2, QuietLInv DEF TickStart
<1>3. CASE Scan
  <2>1. ASSUME NEW i, ScanKeep(i) PROVE LInv'
    BY <2>1, QuietLInv DEF ScanKeep
  <2> QED BY <1>3, <2>1, EntryFilledLInv, ExitFilledLInv, EntryCanceledLInv, ExitCanceledLInv
          DEF Scan
<1>4. CASE Recenter
  <2>1. CASE SkipRecenter BY <2>1, QuietLInv DEF SkipRecenter
  <2> QED BY <1>4, <2>1, RecenterStartLInv, RecenterCancelLInv, RecenterBuildLInv, SeatEntryLInv,
             RecenterDoneLInv DEF Recenter
<1>5. CASE Replace
  <2>1. CASE EnsureDone BY <2>1, QuietLInv DEF EnsureDone
  <2>2. CASE TickEnd BY <2>2, QuietLInv DEF TickEnd
  <2> QED BY <1>5, <2>1, <2>2, EnsureTakeProfitLInv, PlaceMissingLInv DEF Replace
<1>6. CASE World
  <2>1. ASSUME NEW i, BackoffOver(i) PROVE LInv'
    BY <2>1, QuietLInv DEF BackoffOver
  <2> QED BY <1>6, <2>1, FillLInv, ManualCancelLInv DEF World
<1> QED BY <1>1, <1>2, <1>3, <1>4, <1>5, <1>6 DEF Next, OnTick

-----------------------------------------------------------------------------
(* The books as four sums over fixed sets of indices                       *)

HeldAt(e, short) == IF e.st = "held" /\ e.short = short THEN e.qty ELSE 0
MovingAt(h, short) == IF h.short = short THEN h.qty ELSE 0
OpenAt(e, os, short) == IF e.st = "open" /\ e.short = short THEN os[e.oid].filled ELSE 0
ExitAt(e, os, short) ==
  IF e.st = "open" /\ e.short = short THEN e.qty - (os[e.oid].qty - os[e.oid].filled) ELSE 0

HeldSum(ents, short) ==
  SumFunctionOnSet([i \in EntryIdx |-> HeldAt(ents[i], short)], EntryIdx)
MovingSum(seat, short) == SumFunctionOnSet([h \in seat |-> MovingAt(h, short)], seat)
OpenSum(ents, os, short) ==
  SumFunctionOnSet([i \in EntryIdx |-> OpenAt(ents[i], os, short)], EntryIdx)
ExitSum(exs, os, short) ==
  SumFunctionOnSet([x \in ExitIdx |-> ExitAt(exs[x], os, short)], ExitIdx)
Books(ents, seat, exs, os, short) ==
  HeldSum(ents, short) + MovingSum(seat, short) + OpenSum(ents, os, short)
    - ExitSum(exs, os, short)

\* The values the sums range over are numbers.
Countable(ents, seat, exs, os) ==
  /\ ents \in [EntryIdx -> EntryLevel] /\ exs \in [ExitIdx -> ExitLevel]
  /\ os \in [OrderId -> Order] /\ seat \subseteq Holding /\ IsFiniteSet(seat)
  /\ \A i \in EntryIdx : ents[i].st = "open" => ents[i].oid \in OrderId
  /\ \A x \in ExitIdx : exs[x].st = "open" => exs[x].oid \in OrderId

LEMMA AtTypes ==
  ASSUME NEW ents, NEW seat, NEW exs, NEW os, Countable(ents, seat, exs, os), NEW short
  PROVE  /\ \A i \in EntryIdx : /\ HeldAt(ents[i], short) \in Nat
                                /\ OpenAt(ents[i], os, short) \in Nat
         /\ \A h \in seat : MovingAt(h, short) \in Nat
         /\ \A x \in ExitIdx : ExitAt(exs[x], os, short) \in Int
<1>1. ASSUME NEW i \in EntryIdx
      PROVE  HeldAt(ents[i], short) \in Nat /\ OpenAt(ents[i], os, short) \in Nat
  BY DEF Countable, HeldAt, OpenAt, EntryLevel, Order
<1>2. ASSUME NEW h \in seat PROVE MovingAt(h, short) \in Nat
  BY DEF Countable, MovingAt, Holding
<1>3. ASSUME NEW x \in ExitIdx PROVE ExitAt(exs[x], os, short) \in Int
  BY DEF Countable, ExitAt, ExitLevel, Order
<1> QED BY <1>1, <1>2, <1>3

LEMMA SumTypes ==
  ASSUME NEW ents, NEW seat, NEW exs, NEW os, Countable(ents, seat, exs, os), NEW short
  PROVE  /\ HeldSum(ents, short) \in Nat /\ MovingSum(seat, short) \in Nat
         /\ OpenSum(ents, os, short) \in Nat /\ ExitSum(exs, os, short) \in Int
         /\ Books(ents, seat, exs, os, short) \in Int
<1> DEFINE f1 == [i \in EntryIdx |-> HeldAt(ents[i], short)]
           f2 == [h \in seat |-> MovingAt(h, short)]
           f3 == [i \in EntryIdx |-> OpenAt(ents[i], os, short)]
           f4 == [x \in ExitIdx |-> ExitAt(exs[x], os, short)]
<1>1. /\ \A i \in EntryIdx : f1[i] \in Nat /\ f3[i] \in Nat
      /\ \A h \in seat : f2[h] \in Nat
      /\ \A x \in ExitIdx : f4[x] \in Int
  BY AtTypes
<1>2. IsFiniteSet(seat)
  BY DEF Countable
<1> HIDE DEF f1, f2, f3, f4
<1>3. /\ SumFunctionOnSet(f1, EntryIdx) \in Nat /\ SumFunctionOnSet(f2, seat) \in Nat
      /\ SumFunctionOnSet(f3, EntryIdx) \in Nat /\ SumFunctionOnSet(f4, ExitIdx) \in Int
  BY <1>1, <1>2, IndexSetsFinite, SumNat, SumInt
<1>4. /\ HeldSum(ents, short) \in Nat /\ MovingSum(seat, short) \in Nat
      /\ OpenSum(ents, os, short) \in Nat /\ ExitSum(exs, os, short) \in Int
  BY <1>3 DEF HeldSum, MovingSum, OpenSum, ExitSum, f1, f2, f3, f4
<1> QED BY <1>4 DEF Books

\* Changing one level.
LEMMA HeldChange ==
  ASSUME NEW ents, NEW seat, NEW exs, NEW os, Countable(ents, seat, exs, os),
         NEW ents2, NEW short, NEW i \in EntryIdx, HeldAt(ents2[i], short) \in Int,
         \A j \in EntryIdx : j # i => HeldAt(ents2[j], short) = HeldAt(ents[j], short)
  PROVE  HeldSum(ents2, short)
           = HeldSum(ents, short) - HeldAt(ents[i], short) + HeldAt(ents2[i], short)
<1> DEFINE f == [j \in EntryIdx |-> HeldAt(ents[j], short)]
           g == [j \in EntryIdx |-> HeldAt(ents2[j], short)]
<1>1. /\ \A j \in EntryIdx : f[j] \in Int
      /\ \A j \in EntryIdx : j # i => g[j] = f[j]
      /\ f[i] = HeldAt(ents[i], short) /\ g[i] \in Int /\ g[i] = HeldAt(ents2[i], short)
  BY AtTypes
<1> HIDE DEF f, g
<1>2. SumFunctionOnSet(g, EntryIdx) = SumFunctionOnSet(f, EntryIdx) - f[i] + g[i]
  BY <1>1, IndexSetsFinite, SumChange
<1> QED BY <1>1, <1>2 DEF HeldSum, f, g

LEMMA OpenChange ==
  ASSUME NEW ents, NEW seat, NEW exs, NEW os, Countable(ents, seat, exs, os),
         NEW ents2, NEW os2, NEW short, NEW i \in EntryIdx, OpenAt(ents2[i], os2, short) \in Int,
         \A j \in EntryIdx : j # i => OpenAt(ents2[j], os2, short) = OpenAt(ents[j], os, short)
  PROVE  OpenSum(ents2, os2, short)
           = OpenSum(ents, os, short) - OpenAt(ents[i], os, short) + OpenAt(ents2[i], os2, short)
<1> DEFINE f == [j \in EntryIdx |-> OpenAt(ents[j], os, short)]
           g == [j \in EntryIdx |-> OpenAt(ents2[j], os2, short)]
<1>1. /\ \A j \in EntryIdx : f[j] \in Int
      /\ \A j \in EntryIdx : j # i => g[j] = f[j]
      /\ f[i] = OpenAt(ents[i], os, short) /\ g[i] \in Int /\ g[i] = OpenAt(ents2[i], os2, short)
  BY AtTypes
<1> HIDE DEF f, g
<1>2. SumFunctionOnSet(g, EntryIdx) = SumFunctionOnSet(f, EntryIdx) - f[i] + g[i]
  BY <1>1, IndexSetsFinite, SumChange
<1> QED BY <1>1, <1>2 DEF OpenSum, f, g

LEMMA ExitChange ==
  ASSUME NEW ents, NEW seat, NEW exs, NEW os, Countable(ents, seat, exs, os),
         NEW exs2, NEW os2, NEW short, NEW x \in ExitIdx, ExitAt(exs2[x], os2, short) \in Int,
         \A y \in ExitIdx : y # x => ExitAt(exs2[y], os2, short) = ExitAt(exs[y], os, short)
  PROVE  ExitSum(exs2, os2, short)
           = ExitSum(exs, os, short) - ExitAt(exs[x], os, short) + ExitAt(exs2[x], os2, short)
<1> DEFINE f == [y \in ExitIdx |-> ExitAt(exs[y], os, short)]
           g == [y \in ExitIdx |-> ExitAt(exs2[y], os2, short)]
<1>1. /\ \A y \in ExitIdx : f[y] \in Int
      /\ \A y \in ExitIdx : y # x => g[y] = f[y]
      /\ f[x] = ExitAt(exs[x], os, short) /\ g[x] \in Int /\ g[x] = ExitAt(exs2[x], os2, short)
  BY AtTypes
<1> HIDE DEF f, g
<1>2. SumFunctionOnSet(g, ExitIdx) = SumFunctionOnSet(f, ExitIdx) - f[x] + g[x]
  BY <1>1, IndexSetsFinite, SumChange
<1> QED BY <1>1, <1>2 DEF ExitSum, f, g

\* Changing none.
LEMMA HeldSame ==
  ASSUME NEW ents, NEW ents2, NEW short,
         \A i \in EntryIdx : HeldAt(ents2[i], short) = HeldAt(ents[i], short)
  PROVE  HeldSum(ents2, short) = HeldSum(ents, short)
BY DEF HeldSum

LEMMA OpenSame ==
  ASSUME NEW ents, NEW os, NEW ents2, NEW os2, NEW short,
         \A i \in EntryIdx : OpenAt(ents2[i], os2, short) = OpenAt(ents[i], os, short)
  PROVE  OpenSum(ents2, os2, short) = OpenSum(ents, os, short)
BY DEF OpenSum

LEMMA ExitSame ==
  ASSUME NEW exs, NEW os, NEW exs2, NEW os2, NEW short,
         \A x \in ExitIdx : ExitAt(exs2[x], os2, short) = ExitAt(exs[x], os, short)
  PROVE  ExitSum(exs2, os2, short) = ExitSum(exs, os, short)
BY DEF ExitSum

\* What the exchange forgets is on no level.
LEMMA BooksKept ==
  ASSUME NEW ents, NEW seat, NEW exs, NEW os, Countable(ents, seat, exs, os), NEW cs, NEW short
  PROVE  Books(ents, seat, exs, Kept(os, ents, exs, cs), short) = Books(ents, seat, exs, os, short)
<1> DEFINE ks == Kept(os, ents, exs, cs)
<1>1. /\ \A i \in EntryIdx : ents[i].oid \in OrderId => ks[ents[i].oid] = os[ents[i].oid]
      /\ \A x \in ExitIdx : exs[x].oid \in OrderId => ks[exs[x].oid] = os[exs[x].oid]
  BY DEF Kept
<1> HIDE DEF ks
<1>2. OpenSum(ents, ks, short) = OpenSum(ents, os, short)
  BY <1>1, OpenSame DEF OpenAt, Countable
<1>3. ExitSum(exs, ks, short) = ExitSum(exs, os, short)
  BY <1>1, ExitSame DEF ExitAt, Countable
<1> QED BY <1>2, <1>3 DEF Books, ks

\* Taking one position out of those being moved.
LEMMA MovingDrop ==
  ASSUME NEW ents, NEW seat, NEW exs, NEW os, Countable(ents, seat, exs, os),
         NEW h \in seat, NEW short
  PROVE  MovingSum(seat, short) = MovingAt(h, short) + MovingSum(seat \ {h}, short)
<1> DEFINE f == [k \in seat |-> MovingAt(k, short)]
           r == seat \ {h}
           g == [k \in r |-> MovingAt(k, short)]
<1>1. /\ \A k \in seat : f[k] \in Int
      /\ \A k \in r : g[k] = f[k]
      /\ f[h] = MovingAt(h, short)
  BY AtTypes
<1>2. IsFiniteSet(seat) /\ IsFiniteSet(r)
  BY FS_Subset DEF Countable
<1> HIDE DEF f, g
<1>3. SumFunctionOnSet(f, seat) = f[h] + SumFunctionOnSet(f, seat \ {h})
  BY <1>1, <1>2, SumTake
<1>4. SumFunctionOnSet(f, r) = SumFunctionOnSet(g, r)
  BY <1>1, <1>2, SumEqual
<1> QED BY <1>1, <1>3, <1>4 DEF MovingSum, f, g

\* The sums are the books the model keeps.
LEMMA BelievedIsBooks ==
  ASSUME Countable(entries, toSeat, exits, orders), NEW short
  PROVE  /\ Tracked(short) = HeldSum(entries, short) + MovingSum(toSeat, short)
         /\ Arriving(short) = OpenSum(entries, orders, short)
         /\ Believed(short) = Books(entries, toSeat, exits, orders, short)
<1> DEFINE f1 == [i \in HeldBy(short) |-> entries[i].qty]
           f2 == [h \in MovingBy(short) |-> h.qty]
           f3 == [i \in OpenBy(short) |-> orders[entries[i].oid].filled]
           f4 == [x \in ExitsBy(short) |-> exits[x].qty - Untraded(exits[x].oid)]
           g1 == [i \in EntryIdx |-> HeldAt(entries[i], short)]
           g2 == [h \in toSeat |-> MovingAt(h, short)]
           g3 == [i \in EntryIdx |-> OpenAt(entries[i], orders, short)]
           g4 == [x \in ExitIdx |-> ExitAt(exits[x], orders, short)]
<1>1. /\ \A i \in EntryIdx : g1[i] \in Int /\ g3[i] \in Int
      /\ \A h \in toSeat : g2[h] \in Int
      /\ \A x \in ExitIdx : g4[x] \in Int
  BY AtTypes
<1>2. /\ HeldBy(short) \subseteq EntryIdx /\ MovingBy(short) \subseteq toSeat
      /\ OpenBy(short) \subseteq EntryIdx /\ ExitsBy(short) \subseteq ExitIdx
  BY DEF HeldBy, MovingBy, OpenBy, ExitsBy, HeldIdx, OpenExits
<1>3. /\ \A i \in HeldBy(short) : f1[i] = g1[i]
      /\ \A i \in EntryIdx : i \notin HeldBy(short) => g1[i] = 0
  BY DEF HeldBy, HeldIdx, Held, HeldAt
<1>4. /\ \A h \in MovingBy(short) : f2[h] = g2[h]
      /\ \A h \in toSeat : h \notin MovingBy(short) => g2[h] = 0
  BY DEF MovingBy, MovingAt
<1>5. /\ \A i \in OpenBy(short) : f3[i] = g3[i]
      /\ \A i \in EntryIdx : i \notin OpenBy(short) => g3[i] = 0
  BY DEF OpenBy, OpenAt
<1>6. /\ \A x \in ExitsBy(short) : f4[x] = g4[x]
      /\ \A x \in ExitIdx : x \notin ExitsBy(short) => g4[x] = 0
  BY DEF ExitsBy, OpenExits, ExitAt, Untraded
<1>7. /\ DOMAIN f1 = HeldBy(short) /\ DOMAIN f2 = MovingBy(short)
      /\ DOMAIN f3 = OpenBy(short) /\ DOMAIN f4 = ExitsBy(short)
  OBVIOUS
<1>8. IsFiniteSet(toSeat)
  BY DEF Countable
<1>9. /\ Tracked(short) = SumFunction(f1) + SumFunction(f2)
      /\ Arriving(short) = SumFunction(f3) /\ Leaving(short) = SumFunction(f4)
  BY DEF Tracked, Arriving, Leaving
<1>10. /\ HeldSum(entries, short) = SumFunctionOnSet(g1, EntryIdx)
       /\ MovingSum(toSeat, short) = SumFunctionOnSet(g2, toSeat)
       /\ OpenSum(entries, orders, short) = SumFunctionOnSet(g3, EntryIdx)
       /\ ExitSum(exits, orders, short) = SumFunctionOnSet(g4, ExitIdx)
  BY DEF HeldSum, MovingSum, OpenSum, ExitSum
<1> HIDE DEF f1, f2, f3, f4, g1, g2, g3, g4
<1>11. SumFunctionOnSet(f1, HeldBy(short)) = SumFunctionOnSet(g1, EntryIdx)
  BY <1>1, <1>2, <1>3, IndexSetsFinite, SumPadded
<1>12. SumFunctionOnSet(f2, MovingBy(short)) = SumFunctionOnSet(g2, toSeat)
  BY <1>1, <1>2, <1>4, <1>8, SumPadded
<1>13. SumFunctionOnSet(f3, OpenBy(short)) = SumFunctionOnSet(g3, EntryIdx)
  BY <1>1, <1>2, <1>5, IndexSetsFinite, SumPadded
<1>14. SumFunctionOnSet(f4, ExitsBy(short)) = SumFunctionOnSet(g4, ExitIdx)
  BY <1>1, <1>2, <1>6, IndexSetsFinite, SumPadded
<1>15. /\ SumFunction(f1) = SumFunctionOnSet(f1, HeldBy(short))
       /\ SumFunction(f2) = SumFunctionOnSet(f2, MovingBy(short))
       /\ SumFunction(f3) = SumFunctionOnSet(f3, OpenBy(short))
       /\ SumFunction(f4) = SumFunctionOnSet(f4, ExitsBy(short))
  BY <1>7, SumOver
<1> QED BY <1>9, <1>10, <1>11, <1>12, <1>13, <1>14, <1>15 DEF Believed, Books

-----------------------------------------------------------------------------
(* What each step does to the books                                        *)

\* Lots the account holds beyond what the engine believes.
Gap(short) == pos[short] - Believed(short)

LEMMA StateCountable == ASSUME IInv, LInv PROVE Countable(entries, toSeat, exits, orders)
BY DEF IInv, TypeOK, LInv, PositionLots, EntriesNamed, NamesEntry, ExitsNamed, NamesExit, Countable

GapCounted ==
  \A short \in BOOLEAN :
    /\ Gap(short) = pos[short] - Books(entries, toSeat, exits, orders, short)
    /\ Gap(short) \in Int

LEMMA GapIsBooks == IInv /\ LInv => Countable(entries, toSeat, exits, orders) /\ GapCounted
<1> SUFFICES ASSUME IInv, LInv
             PROVE  Countable(entries, toSeat, exits, orders) /\ GapCounted
  OBVIOUS
<1>1. Countable(entries, toSeat, exits, orders)
  BY StateCountable
<1>2. ASSUME NEW short \in BOOLEAN
      PROVE  /\ Gap(short) = pos[short] - Books(entries, toSeat, exits, orders, short)
             /\ Gap(short) \in Int
  <2>1. Believed(short) = Books(entries, toSeat, exits, orders, short)
        /\ Books(entries, toSeat, exits, orders, short) \in Int
    BY <1>1, BelievedIsBooks, SumTypes
  <2>2. pos[short] \in Nat
    BY DEF IInv, TypeOK
  <2> QED BY <2>1, <2>2 DEF Gap
<1> QED BY <1>1, <1>2 DEF GapCounted

\* The same of the next state.
LEMMA GapIsBooksNext ==
  (IInv /\ LInv)' => (Countable(entries, toSeat, exits, orders) /\ GapCounted)'
BY GapIsBooks, PTL

\* The books after a step, before the exchange forgets anything.
LEMMA GapAfter ==
  ASSUME IInv', LInv', NEW os \in [OrderId -> Order], NEW cs,
         orders' = Kept(os, entries', exits', cs)
  PROVE  \A short \in BOOLEAN :
           Gap(short)' = pos'[short] - Books(entries', toSeat', exits', os, short)
<1>1. Countable(entries', toSeat', exits', orders') /\ GapCounted'
  BY GapIsBooksNext
<1>2. Countable(entries', toSeat', exits', os)
  BY <1>1 DEF Countable
<1>3. \A short \in BOOLEAN :
        Books(entries', toSeat', exits', orders', short)
          = Books(entries', toSeat', exits', os, short)
  BY <1>2, BooksKept
<1> QED BY <1>1, <1>3 DEF GapCounted

Sound == IInv /\ LInv
GapKept == \A short \in BOOLEAN : Gap(short)' = Gap(short)

LEMMA QuietGap ==
  ASSUME Sound, Sound', UNCHANGED <<entries, toSeat, exits, orders, pos>>
  PROVE  GapKept
BY GapIsBooks, GapIsBooksNext DEF Sound, GapKept, GapCounted

\* Cancelling an order changes no quantity.
LEMMA StateGap ==
  ASSUME Sound, Sound', NEW os \in [OrderId -> Order], NEW cs,
         orders' = Kept(os, entries, exits, cs), UNCHANGED <<entries, toSeat, exits, pos>>,
         \A o \in OrderId : os[o].qty = orders[o].qty /\ os[o].filled = orders[o].filled
  PROVE  GapKept
<1>1. Countable(entries, toSeat, exits, orders) /\ GapCounted
  BY GapIsBooks DEF Sound
<1>2. \A short : OpenSum(entries, os, short) = OpenSum(entries, orders, short)
  BY <1>1, OpenSame DEF OpenAt, Countable
<1>3. \A short : ExitSum(exits, os, short) = ExitSum(exits, orders, short)
  BY <1>1, ExitSame DEF ExitAt, Countable
<1>4. \A short \in BOOLEAN : Gap(short)' = pos'[short] - Books(entries', toSeat', exits', os, short)
  BY GapAfter DEF Sound
<1> QED BY <1>1, <1>2, <1>3, <1>4 DEF GapKept, GapCounted, Books

\* A trade of an order that a level names is in the books at once; one of an
\* order no level names is not.
OnLevel(o) == Named(exits, o) \/ \E i \in EntryIdx : entries[i].oid = o

LEMMA FillGap ==
  ASSUME Sound, Sound', NEW o \in OrderId, Fill(o)
  PROVE  /\ orders'[o] # orders[o]
         /\ ~OnLevel(o) /\ orders[o].kind = "entry" => Orphan(o)
         /\ \A short \in BOOLEAN :
              Gap(short)' = Gap(short) + (IF short # orders[o].short \/ OnLevel(o) THEN 0
                                          ELSE IF orders[o].kind = "entry" THEN 1 ELSE -1)
<1> DEFINE r == orders[o]
           os == [orders EXCEPT ![o] = Traded(r)]
<1>1. /\ r.st = "new" /\ UNCHANGED <<entries, exits, toSeat, cancels, pc>>
      /\ orders' = Kept(os, entries', exits', cancels)
      /\ pos' = [pos EXCEPT ![r.short] = IF r.kind = "entry" THEN @ + 1 ELSE @ - 1]
      /\ orders \in [OrderId -> Order] /\ pos \in [BOOLEAN -> Nat]
  BY DEF Fill, engineVars, Sound, IInv, TypeOK
<1>2. /\ Traded(r) \in Order /\ Traded(r).kind = r.kind /\ Traded(r).filled = r.filled + 1
      /\ Traded(r).qty = r.qty /\ r.filled \in Nat /\ r.qty \in Nat
      /\ r.short \in BOOLEAN /\ r.kind \in {"entry", "exit"}
  BY <1>1, TradedFacts DEF Sound, LInv, OrderLots, Order
<1>3. /\ os \in [OrderId -> Order] /\ os[o] = Traded(r)
      /\ \A q \in OrderId : q # o => os[q] = orders[q]
  BY <1>1, <1>2
<1> DEFINE t == Traded(r)
<1> HIDE DEF os
<1>4. orders'[o] # orders[o]
  <2>1. orders'[o] = t \/ orders'[o].st = "none"
    BY <1>1, <1>3, LevelFacts DEF Kept
  <2> QED BY <1>1, <1>2, <2>1
<1>5. /\ Countable(entries, toSeat, exits, orders) /\ GapCounted
      /\ \A short \in BOOLEAN : Gap(short)' = pos'[short] - Books(entries, toSeat, exits, os, short)
  BY <1>1, <1>3, GapIsBooks, GapAfter DEF Sound
<1>6. /\ EntriesNamed(entries, orders, pc) /\ ExitsNamed(exits, orders)
  BY DEF Sound, LInv
<1>7. \A short \in BOOLEAN :
         pos'[short] = pos[short] + (IF short # r.short THEN 0 ELSE IF r.kind = "entry" THEN 1 ELSE -1)
  BY <1>1, <1>2
<1>8. \A short \in BOOLEAN : pos[short] \in Int
  BY <1>1
<1>9. CASE r.kind = "entry"
  <2>1. \A short : ExitSum(exits, os, short) = ExitSum(exits, orders, short)
    <3>1. \A x \in ExitIdx : exits[x].st = "open" => exits[x].oid \in OrderId /\ exits[x].oid # o
      BY <1>6, <1>9 DEF ExitsNamed, NamesExit
    <3> QED BY <1>3, <3>1, ExitSame DEF ExitAt
  <2>2. CASE \E i \in EntryIdx : entries[i].oid = o
    <3>1. PICK i \in EntryIdx : entries[i].oid = o BY <2>2
    <3>2. entries[i].st = "open" /\ entries[i].short = r.short
      BY <1>6, <3>1, IndexFacts DEF EntriesNamed, NamesEntry
    <3>3. \A j \in EntryIdx : j # i /\ entries[j].st = "open" => entries[j].oid \in OrderId /\ entries[j].oid # o
      BY <1>6, <3>1, <3>2 DEF EntriesNamed, NamesEntry
    <3>4. ASSUME NEW short \in BOOLEAN
          PROVE  OpenSum(entries, os, short)
                   = OpenSum(entries, orders, short) + (IF short = r.short THEN 1 ELSE 0)
      <4>1. /\ OpenAt(entries[i], orders, short) = IF short = r.short THEN r.filled ELSE 0
            /\ OpenAt(entries[i], os, short) = IF short = r.short THEN r.filled + 1 ELSE 0
        BY <1>2, <1>3, <3>1, <3>2 DEF OpenAt
      <4>2. \A j \in EntryIdx : j # i => OpenAt(entries[j], os, short) = OpenAt(entries[j], orders, short)
        BY <1>3, <3>3 DEF OpenAt
      <4>3. OpenAt(entries[i], os, short) \in Int BY <1>2, <4>1
      <4>4. OpenSum(entries, os, short) = OpenSum(entries, orders, short)
              - OpenAt(entries[i], orders, short) + OpenAt(entries[i], os, short)
        BY <1>5, <4>2, <4>3, OpenChange
      <4>5. OpenSum(entries, orders, short) \in Int BY <1>5, SumTypes
      <4> QED BY <1>2, <4>1, <4>4, <4>5
    <3>5. ASSUME NEW short \in BOOLEAN PROVE Gap(short)' = Gap(short)
      <4>1. /\ HeldSum(entries, short) \in Int /\ MovingSum(toSeat, short) \in Int
            /\ OpenSum(entries, orders, short) \in Int /\ ExitSum(exits, orders, short) \in Int
        BY <1>5, SumTypes
      <4> QED BY <1>5, <1>7, <1>8, <1>9, <2>1, <3>4, <4>1 DEF GapCounted, Books
    <3>6. OnLevel(o) /\ \A short \in BOOLEAN : Gap(short) \in Int
      BY <1>5, <2>2 DEF GapCounted, OnLevel, Named
    <3> QED BY <1>4, <3>5, <3>6
  <2>3. CASE \A i \in EntryIdx : entries[i].oid # o
    <3>1. Orphan(o) BY <1>1, <1>9, <2>3 DEF Orphan
    <3>2. \A i \in EntryIdx : entries[i].st = "open" => entries[i].oid \in OrderId
      BY <1>6 DEF EntriesNamed, NamesEntry
    <3>3. \A short : OpenSum(entries, os, short) = OpenSum(entries, orders, short)
      BY <1>3, <2>3, <3>2, OpenSame DEF OpenAt
    <3>4. ASSUME NEW short \in BOOLEAN
          PROVE  Gap(short)' = Gap(short) + (IF short # r.short THEN 0 ELSE 1)
      <4>1. Books(entries, toSeat, exits, os, short) = Books(entries, toSeat, exits, orders, short)
        BY <2>1, <3>3 DEF Books
      <4>2. Books(entries, toSeat, exits, orders, short) \in Int BY <1>5, SumTypes
      <4> QED BY <1>5, <1>7, <1>8, <1>9, <4>1, <4>2 DEF GapCounted
    <3>5. ~OnLevel(o)
      BY <1>6, <1>9, <2>3 DEF OnLevel, Named, ExitsNamed, NamesExit
    <3> QED BY <1>4, <1>9, <3>1, <3>4, <3>5
  <2> QED BY <2>2, <2>3
<1>10. CASE r.kind = "exit"
  <2>1. \A short : OpenSum(entries, os, short) = OpenSum(entries, orders, short)
    <3>1. \A i \in EntryIdx : entries[i].st = "open" => entries[i].oid \in OrderId /\ entries[i].oid # o
      BY <1>6, <1>10 DEF EntriesNamed, NamesEntry
    <3> QED BY <1>3, <3>1, OpenSame DEF OpenAt
  <2>2. CASE \E x \in ExitIdx : exits[x].st = "open" /\ exits[x].oid = o
    <3>1. PICK x \in ExitIdx : exits[x].st = "open" /\ exits[x].oid = o BY <2>2
    <3>2. exits[x].short = r.short /\ exits[x].qty \in Nat
      BY <1>5, <1>6, <3>1 DEF ExitsNamed, NamesExit, Countable, ExitLevel
    <3>3. \A y \in ExitIdx : y # x /\ exits[y].st = "open" => exits[y].oid \in OrderId /\ exits[y].oid # o
      BY <1>6, <3>1 DEF ExitsNamed, NamesExit
    <3>4. ASSUME NEW short \in BOOLEAN
          PROVE  ExitSum(exits, os, short)
                   = ExitSum(exits, orders, short) + (IF short = r.short THEN 1 ELSE 0)
      <4>1. /\ ExitAt(exits[x], orders, short)
                 = IF short = r.short THEN exits[x].qty - (r.qty - r.filled) ELSE 0
            /\ ExitAt(exits[x], os, short)
                 = IF short = r.short THEN exits[x].qty - (r.qty - (r.filled + 1)) ELSE 0
        BY <1>2, <1>3, <3>1, <3>2 DEF ExitAt
      <4>2. \A y \in ExitIdx : y # x => ExitAt(exits[y], os, short) = ExitAt(exits[y], orders, short)
        BY <1>3, <3>3 DEF ExitAt
      <4>3. ExitAt(exits[x], os, short) \in Int BY <1>2, <3>2, <4>1
      <4>4. ExitSum(exits, os, short) = ExitSum(exits, orders, short)
              - ExitAt(exits[x], orders, short) + ExitAt(exits[x], os, short)
        BY <1>5, <4>2, <4>3, ExitChange
      <4>5. ExitSum(exits, orders, short) \in Int BY <1>5, SumTypes
      <4> QED BY <1>2, <3>2, <4>1, <4>4, <4>5
    <3>5. ASSUME NEW short \in BOOLEAN PROVE Gap(short)' = Gap(short)
      <4>1. /\ HeldSum(entries, short) \in Int /\ MovingSum(toSeat, short) \in Int
            /\ OpenSum(entries, orders, short) \in Int /\ ExitSum(exits, orders, short) \in Int
        BY <1>5, SumTypes
      <4> QED BY <1>5, <1>7, <1>8, <1>10, <2>1, <3>4, <4>1 DEF GapCounted, Books
    <3>6. OnLevel(o) /\ \A short \in BOOLEAN : Gap(short) \in Int
      BY <1>5, <2>2 DEF GapCounted, OnLevel, Named
    <3> QED BY <1>4, <3>5, <3>6
  <2>3. CASE \A x \in ExitIdx : exits[x].st = "open" => exits[x].oid # o
    <3>1. ~OnLevel(o)
      BY <1>6, <1>10, <2>3, IndexFacts DEF OnLevel, Named, EntriesNamed, NamesEntry
    <3>2. \A x \in ExitIdx : exits[x].st = "open" => exits[x].oid \in OrderId
      BY <1>6 DEF ExitsNamed, NamesExit
    <3>3. \A short : ExitSum(exits, os, short) = ExitSum(exits, orders, short)
      BY <1>3, <2>3, <3>2, ExitSame DEF ExitAt
    <3>4. ASSUME NEW short \in BOOLEAN
          PROVE  Gap(short)' = Gap(short) + (IF short # r.short THEN 0 ELSE -1)
      <4>1. Books(entries, toSeat, exits, os, short) = Books(entries, toSeat, exits, orders, short)
        BY <2>1, <3>3 DEF Books
      <4>2. Books(entries, toSeat, exits, orders, short) \in Int BY <1>5, SumTypes
      <4> QED BY <1>5, <1>7, <1>8, <1>10, <4>1, <4>2 DEF GapCounted
    <3> QED BY <1>4, <1>10, <3>1, <3>4
  <2> QED BY <2>2, <2>3
<1> QED BY <1>2, <1>9, <1>10

\* A take-profit order that is being placed has not traded.
LEMMA PlacedExitSum ==
  ASSUME Sound, NEW os, NEW i \in EntryIdx, NEW ents \in [EntryIdx -> EntryLevel],
         PlaceExitMakes(os, i, ents), NEW short
  PROVE  ExitSum(exits', os, short) = ExitSum(exits, orders, short)
<1>1. Countable(entries, toSeat, exits, orders)
  BY GapIsBooks DEF Sound
<1>2. \A x \in ExitIdx : exits[x].st = "open" => /\ exits[x].oid \in OrderId
                                                /\ os[exits[x].oid] = orders[exits[x].oid]
  BY DEF Sound, LInv, ExitsNamed, NamesExit, PlaceExitMakes
<1>3. CASE exits' = exits
  BY <1>2, <1>3, ExitSame DEF ExitAt
<1>4. ASSUME NEW x \in ExitIdx, NEW s \in OrderId, exits[x].st = "none",
             exits' = [exits EXCEPT ![x] =
               [st |-> "open", oid |-> s, qty |-> ents[i].qty, px |-> ExitPx(ents[i]),
                short |-> ents[i].short, pair |-> i]],
             os[s].qty = ents[i].qty, os[s].filled = 0
      PROVE  ExitSum(exits', os, short) = ExitSum(exits, orders, short)
  <2>1. /\ \A y \in ExitIdx : y # x => exits'[y] = exits[y]
        /\ exits'[x].oid = s /\ exits'[x].qty = ents[i].qty
    BY <1>1, <1>4 DEF Countable
  <2>2. ents[i].qty \in Nat
    BY DEF EntryLevel
  <2>3. ExitAt(exits'[x], os, short) = 0 /\ ExitAt(exits[x], orders, short) = 0
    BY <1>4, <2>1, <2>2 DEF ExitAt
  <2>4. \A y \in ExitIdx : y # x => ExitAt(exits'[y], os, short) = ExitAt(exits[y], orders, short)
    BY <1>2, <2>1 DEF ExitAt
  <2> QED BY <2>3, <2>4, ExitSame
<1> QED BY <1>3, <1>4 DEF PlaceExitMakes, PlacedExit

LEMMA EnsureTakeProfitGap ==
  ASSUME Sound, Sound', NEW i \in EntryIdx, EnsureTakeProfit(i) PROVE GapKept
<1>1. /\ UNCHANGED <<entries, toSeat, pos>> /\ entries \in [EntryIdx -> EntryLevel]
  BY DEF EnsureTakeProfit, PlaceExitFor, Sound, IInv, TypeOK
<1>2. PICK os : PlaceExitMakes(os, i, entries)
  BY EnsureTakeProfitLInv DEF Sound
<1>3. /\ Countable(entries, toSeat, exits, orders) /\ GapCounted
      /\ \A short \in BOOLEAN : Gap(short)' = pos'[short] - Books(entries', toSeat', exits', os, short)
  BY <1>1, <1>2, GapIsBooks, GapAfter DEF Sound, PlaceExitMakes
<1>4. \A short : ExitSum(exits', os, short) = ExitSum(exits, orders, short)
  BY <1>1, <1>2, PlacedExitSum
<1>5. \A j \in EntryIdx : entries[j].st = "open" => os[entries[j].oid] = orders[entries[j].oid]
  BY <1>2 DEF Sound, LInv, EntriesNamed, NamesEntry, PlaceExitMakes
<1>6. \A short : OpenSum(entries, os, short) = OpenSum(entries, orders, short)
  BY <1>5, OpenSame DEF OpenAt
<1> QED BY <1>1, <1>3, <1>4, <1>6 DEF GapKept, GapCounted, Books

\* A fill that is noticed moves from what arrives to what is held.
LEMMA EntryFilledGap ==
  ASSUME Sound, Sound', NEW i \in EntryIdx \cup ExitIdx, EntryFilled(i) PROVE GapKept
<1> DEFINE o == orders[entries[i].oid]
<1>1. /\ i \in EntryIdx /\ pc = "scan" /\ entries[i].st = "open" /\ o.st = "filled"
      /\ entries' = [entries EXCEPT ![i] =
             [st |-> "held", oid |-> NoId, qty |-> o.filled, px |-> o.px,
              short |-> entries[i].short]]
      /\ UNCHANGED <<toSeat, pos>>
      /\ entries \in [EntryIdx -> EntryLevel]
  BY DEF EntryFilled, First, Sound, IInv, TypeOK, WorkFresh, PlaceExitFor
<1>2. /\ entries'[i].st = "held" /\ entries'[i].qty = o.filled
      /\ entries'[i].short = entries[i].short
      /\ \A j \in EntryIdx : j # i => entries'[j] = entries[j]
      /\ entries' \in [EntryIdx -> EntryLevel] /\ o.filled \in Nat
  <2>1. entries' \in [EntryIdx -> EntryLevel] BY DEF Sound, IInv, TypeOK
  <2>2. o \in Order BY <1>1 DEF Sound, LInv, EntriesNamed, NamesEntry, IInv, TypeOK
  <2> QED BY <1>1, <2>1, <2>2 DEF Order
<1>3. PICK os : PlaceExitMakes(os, i, entries')
  BY EntryFilledLInv DEF Sound
<1>4. /\ Countable(entries, toSeat, exits, orders) /\ GapCounted
      /\ \A short \in BOOLEAN : Gap(short)' = pos'[short] - Books(entries', toSeat', exits', os, short)
  BY <1>1, <1>3, GapIsBooks, GapAfter DEF Sound, PlaceExitMakes
<1>5. \A short : ExitSum(exits', os, short) = ExitSum(exits, orders, short)
  BY <1>1, <1>2, <1>3, PlacedExitSum
<1>6. \A j \in EntryIdx : entries[j].st = "open" => os[entries[j].oid] = orders[entries[j].oid]
  BY <1>3 DEF Sound, LInv, EntriesNamed, NamesEntry, PlaceExitMakes
<1>8. i \in EntryIdx /\ UNCHANGED <<toSeat, pos>>
  BY <1>1
<1>9. Countable(entries, toSeat, exits, orders)
  BY <1>4
<1>10. i \in EntryIdx
  BY <1>1
<1> HIDE DEF o
<1>7. ASSUME NEW short \in BOOLEAN PROVE Gap(short)' = Gap(short)
  <2> DEFINE q == IF entries[i].short = short THEN o.filled ELSE 0
  <2>1. /\ HeldAt(entries[i], short) = 0 /\ HeldAt(entries'[i], short) = q
        /\ OpenAt(entries[i], orders, short) = q /\ OpenAt(entries'[i], os, short) = 0
        /\ q \in Int
    BY <1>1, <1>2 DEF HeldAt, OpenAt, o
  <2>2. \A j \in EntryIdx : j # i =>
          /\ HeldAt(entries'[j], short) = HeldAt(entries[j], short)
          /\ OpenAt(entries'[j], os, short) = OpenAt(entries[j], orders, short)
    BY <1>2, <1>6 DEF HeldAt, OpenAt
  <2> HIDE DEF q
  <2>0. HeldAt(entries'[i], short) \in Int /\ OpenAt(entries'[i], os, short) \in Int
    BY <2>1
  <2>3. HeldSum(entries', short)
          = HeldSum(entries, short) - HeldAt(entries[i], short) + HeldAt(entries'[i], short)
    BY <1>9, <1>10, <2>0, <2>2, HeldChange
  <2>4. OpenSum(entries', os, short)
          = OpenSum(entries, orders, short) - OpenAt(entries[i], orders, short)
            + OpenAt(entries'[i], os, short)
    BY <1>9, <1>10, <2>0, <2>2, OpenChange
  <2>5. /\ HeldSum(entries, short) \in Int /\ MovingSum(toSeat, short) \in Int
        /\ OpenSum(entries, orders, short) \in Int /\ ExitSum(exits, orders, short) \in Int
    BY <1>4, SumTypes
  <2> QED BY <1>4, <1>5, <1>8, <2>1, <2>3, <2>4, <2>5 DEF GapCounted, Books
<1> QED BY <1>7 DEF GapKept

\* Settling an exit takes its lots off the positions and off what leaves.
LEMMA ExitFilledGap ==
  ASSUME Sound, Sound', NEW x \in EntryIdx \cup ExitIdx, ExitFilled(x) PROVE GapKept
<1> DEFINE e == exits[x].pair
           o == orders[exits[x].oid]
<1>1. /\ x \in ExitIdx /\ x \in OpenExits /\ exits[x].st = "open" /\ pc = "scan"
      /\ e \in EntryIdx /\ Held(e) /\ Serves(x, entries[e]) /\ o.st = "filled"
  BY DEF ExitFilled, First, Sound, IInv, WorkFresh, PairTable, OpenExits, HeldIdx
<1>2. /\ exits' = [exits EXCEPT ![x] = NoExit]
      /\ entries' = [entries EXCEPT ![e] = Released(e)]
      /\ orders' = Kept(orders, entries', exits', cancels)
      /\ UNCHANGED <<toSeat, pos>>
      /\ entries \in [EntryIdx -> EntryLevel] /\ exits \in [ExitIdx -> ExitLevel]
      /\ orders \in [OrderId -> Order]
  BY <1>1 DEF ExitFilled, Sound, IInv, TypeOK
<1>3. /\ entries'[e].st \in {"none", "empty"} /\ exits'[x].st = "none"
      /\ \A j \in EntryIdx : j # e => entries'[j] = entries[j]
      /\ \A y \in ExitIdx : y # x => exits'[y] = exits[y]
  BY <1>1, <1>2, LevelFacts
<1>4. /\ o \in Order /\ o.filled = o.qty /\ o.qty \in Nat /\ exits[x].qty \in Nat
      /\ entries[e].qty = exits[x].qty /\ entries[e].short = exits[x].short
      /\ entries[e].st = "held"
  <2>1. exits[x].oid \in OrderId /\ o.st # "none"
    BY <1>1 DEF Sound, LInv, ExitsNamed, NamesExit
  <2>2. o \in Order /\ o.filled = o.qty
    BY <1>1, <1>2, <2>1 DEF Sound, LInv, OrderLots, OrderOk
  <2>3. exits[x].qty \in Nat
    BY <1>1, <1>2 DEF ExitLevel
  <2> QED BY <1>1, <2>1, <2>2, <2>3 DEF Serves, Held, Order
<1>5. /\ Countable(entries, toSeat, exits, orders) /\ GapCounted
      /\ \A short \in BOOLEAN :
           Gap(short)' = pos'[short] - Books(entries', toSeat', exits', orders, short)
  BY <1>2, GapIsBooks, GapAfter DEF Sound
<1>7. UNCHANGED <<toSeat, pos>>
  BY <1>2
<1>6. ASSUME NEW short \in BOOLEAN PROVE Gap(short)' = Gap(short)
  <2> DEFINE q == IF exits[x].short = short THEN exits[x].qty ELSE 0
  <2>1. /\ HeldAt(entries[e], short) = q /\ HeldAt(entries'[e], short) = 0
        /\ OpenAt(entries[e], orders, short) = 0 /\ OpenAt(entries'[e], orders, short) = 0
        /\ ExitAt(exits[x], orders, short) = q /\ ExitAt(exits'[x], orders, short) = 0
        /\ q \in Int
    BY <1>1, <1>3, <1>4 DEF HeldAt, OpenAt, ExitAt
  <2>2. /\ \A j \in EntryIdx : j # e =>
             /\ HeldAt(entries'[j], short) = HeldAt(entries[j], short)
             /\ OpenAt(entries'[j], orders, short) = OpenAt(entries[j], orders, short)
        /\ \A y \in ExitIdx : y # x =>
             ExitAt(exits'[y], orders, short) = ExitAt(exits[y], orders, short)
    BY <1>3
  <2> HIDE DEF q, e, o
  <2>0. HeldAt(entries'[e], short) \in Int /\ ExitAt(exits'[x], orders, short) \in Int
    BY <2>1
  <2>3. HeldSum(entries', short)
          = HeldSum(entries, short) - HeldAt(entries[e], short) + HeldAt(entries'[e], short)
    BY <1>1, <1>5, <2>0, <2>2, HeldChange
  <2>4. OpenSum(entries', orders, short) = OpenSum(entries, orders, short)
    BY <2>1, <2>2, OpenSame
  <2>5. ExitSum(exits', orders, short)
          = ExitSum(exits, orders, short) - ExitAt(exits[x], orders, short)
            + ExitAt(exits'[x], orders, short)
    BY <1>1, <1>5, <2>0, <2>2, ExitChange
  <2>6. /\ HeldSum(entries, short) \in Int /\ MovingSum(toSeat, short) \in Int
        /\ OpenSum(entries, orders, short) \in Int /\ ExitSum(exits, orders, short) \in Int
    BY <1>5, SumTypes
  <2> QED BY <1>5, <1>7, <2>1, <2>3, <2>4, <2>5, <2>6 DEF GapCounted, Books
<1> QED BY <1>6 DEF GapKept

AllUncut == \A o \in OrderId : orders[o].st # "none" => Uncut(orders[o])

\* A cancelled entry order takes out of the books what it had traded: the
\* part is lost to them.
LEMMA EntryCanceledGap ==
  ASSUME Sound, Sound', NEW i \in EntryIdx \cup ExitIdx, EntryCanceled(i)
  PROVE  /\ \A short \in BOOLEAN : Gap(short)' >= Gap(short)
         /\ AllUncut => GapKept
<1> DEFINE o == orders[entries[i].oid]
<1>1. /\ i \in EntryIdx /\ pc = "scan" /\ entries[i].st = "open" /\ o.st = "canceled"
      /\ entries' = [entries EXCEPT ![i] = EmptyLevel]
      /\ orders' = Kept(orders, entries', exits', cancels)
      /\ UNCHANGED <<exits, toSeat, pos>>
      /\ entries \in [EntryIdx -> EntryLevel] /\ orders \in [OrderId -> Order]
  BY DEF EntryCanceled, First, Sound, IInv, TypeOK, WorkFresh
<1>2. /\ entries'[i].st = "empty" /\ \A j \in EntryIdx : j # i => entries'[j] = entries[j]
      /\ i \in EntryIdx
  BY <1>1, LevelFacts
<1>3. o.filled \in Nat /\ (AllUncut => o.filled = 0)
  BY <1>1 DEF Sound, LInv, EntriesNamed, NamesEntry, Order, AllUncut
<1>4. /\ Countable(entries, toSeat, exits, orders) /\ GapCounted
      /\ \A short \in BOOLEAN :
           Gap(short)' = pos'[short] - Books(entries', toSeat', exits', orders, short)
  BY <1>1, GapIsBooks, GapAfter DEF Sound
<1>5. UNCHANGED <<exits, toSeat, pos>>
  BY <1>1
<1>6. ASSUME NEW short \in BOOLEAN
      PROVE  Gap(short)' = Gap(short) + (IF entries[i].short = short THEN o.filled ELSE 0)
  <2> DEFINE q == IF entries[i].short = short THEN o.filled ELSE 0
  <2>1. /\ OpenAt(entries[i], orders, short) = q /\ OpenAt(entries'[i], orders, short) = 0
        /\ HeldAt(entries[i], short) = 0 /\ HeldAt(entries'[i], short) = 0 /\ q \in Int
    BY <1>1, <1>2, <1>3 DEF HeldAt, OpenAt
  <2>2. \A j \in EntryIdx : j # i =>
          /\ HeldAt(entries'[j], short) = HeldAt(entries[j], short)
          /\ OpenAt(entries'[j], orders, short) = OpenAt(entries[j], orders, short)
    BY <1>2
  <2> HIDE DEF q, o
  <2>3. OpenAt(entries'[i], orders, short) \in Int
    BY <2>1
  <2>4. OpenSum(entries', orders, short)
          = OpenSum(entries, orders, short) - OpenAt(entries[i], orders, short)
            + OpenAt(entries'[i], orders, short)
    BY <1>2, <1>4, <2>2, <2>3, OpenChange
  <2>5. HeldSum(entries', short) = HeldSum(entries, short)
    BY <2>1, <2>2, HeldSame
  <2>6. /\ HeldSum(entries, short) \in Int /\ MovingSum(toSeat, short) \in Int
        /\ OpenSum(entries, orders, short) \in Int /\ ExitSum(exits, orders, short) \in Int
    BY <1>4, SumTypes
  <2>7. pos[short] \in Int
    BY DEF Sound, IInv, TypeOK
  <2>8. Gap(short)' = Gap(short) + q
    BY <1>4, <1>5, <2>1, <2>4, <2>5, <2>6, <2>7 DEF GapCounted, Books
  <2> QED BY <2>8 DEF q
<1>7. \A short \in BOOLEAN : Gap(short) \in Int
  BY <1>4 DEF GapCounted
<1> QED BY <1>3, <1>6, <1>7 DEF GapKept

\* A cancelled take-profit order that had traded gives back a position that
\* is partly gone.
LEMMA ExitCanceledGap ==
  ASSUME Sound, Sound', NEW x \in EntryIdx \cup ExitIdx, ExitCanceled(x)
  PROVE  /\ \A short \in BOOLEAN : Gap(short)' <= Gap(short)
         /\ AllUncut => GapKept
<1> DEFINE o == orders[exits[x].oid]
<1>1. /\ x \in ExitIdx /\ pc = "scan" /\ exits[x].st = "open" /\ o.st = "canceled"
      /\ exits' = [exits EXCEPT ![x] = NoExit]
      /\ orders' = Kept(orders, entries', exits', cancels)
      /\ UNCHANGED <<entries, toSeat, pos>>
      /\ exits \in [ExitIdx -> ExitLevel] /\ orders \in [OrderId -> Order]
  BY DEF ExitCanceled, First, Sound, IInv, TypeOK, WorkFresh, OpenExits
<1>2. /\ exits'[x].st = "none" /\ \A y \in ExitIdx : y # x => exits'[y] = exits[y]
      /\ x \in ExitIdx
  BY <1>1, LevelFacts
<1> DEFINE part == exits[x].qty - (o.qty - o.filled)
<1>3. part \in Nat /\ (AllUncut => part = 0)
  <2>1. exits[x].oid \in OrderId /\ NamesExit(exits[x], orders) /\ OrderOk(o) /\ o \in Order
        /\ exits[x].qty \in Nat
    BY <1>1 DEF Sound, LInv, ExitsNamed, NamesExit, OrderLots, ExitLevel
  <2>2. part \in Nat
    BY <2>1 DEF NamesExit, Order
  <2>3. AllUncut => o.filled = 0
    BY <1>1, <2>1 DEF AllUncut, OrderOk, NamesExit
  <2> QED BY <2>1, <2>2, <2>3 DEF NamesExit, Order
<1>4. /\ Countable(entries, toSeat, exits, orders) /\ GapCounted
      /\ \A short \in BOOLEAN :
           Gap(short)' = pos'[short] - Books(entries', toSeat', exits', orders, short)
  BY <1>1, GapIsBooks, GapAfter DEF Sound
<1>5. UNCHANGED <<entries, toSeat, pos>>
  BY <1>1
<1>6. ASSUME NEW short \in BOOLEAN
      PROVE  Gap(short)' = Gap(short) - (IF exits[x].short = short THEN part ELSE 0)
  <2> DEFINE q == IF exits[x].short = short THEN part ELSE 0
  <2>1. /\ ExitAt(exits[x], orders, short) = q /\ ExitAt(exits'[x], orders, short) = 0
        /\ q \in Int
    BY <1>1, <1>2, <1>3 DEF ExitAt
  <2>2. \A y \in ExitIdx : y # x =>
          ExitAt(exits'[y], orders, short) = ExitAt(exits[y], orders, short)
    BY <1>2
  <2> HIDE DEF q, o
  <2>3. ExitAt(exits'[x], orders, short) \in Int
    BY <2>1
  <2>4. ExitSum(exits', orders, short)
          = ExitSum(exits, orders, short) - ExitAt(exits[x], orders, short)
            + ExitAt(exits'[x], orders, short)
    BY <1>2, <1>4, <2>2, <2>3, ExitChange
  <2>5. /\ HeldSum(entries, short) \in Int /\ MovingSum(toSeat, short) \in Int
        /\ OpenSum(entries, orders, short) \in Int /\ ExitSum(exits, orders, short) \in Int
    BY <1>4, SumTypes
  <2>6. pos[short] \in Int
    BY DEF Sound, IInv, TypeOK
  <2>7. Gap(short)' = Gap(short) - q
    BY <1>4, <1>5, <2>1, <2>4, <2>5, <2>6 DEF GapCounted, Books
  <2> QED BY <2>7 DEF q
<1>7. \A short \in BOOLEAN : Gap(short) \in Int
  BY <1>4 DEF GapCounted
<1> QED BY <1>3, <1>6, <1>7 DEF GapKept

LEMMA PlaceMissingGap ==
  ASSUME Sound, Sound', NEW i \in EntryIdx, PlaceMissing(i) PROVE GapKept
<1> DEFINE order == NewOrder("entry", i > 0, LevelPx(i), Lots)
<1>1. /\ entries[i].st = "empty" /\ UNCHANGED <<exits, toSeat, pos>>
      /\ orders \in [OrderId -> Order] /\ entries \in [EntryIdx -> EntryLevel]
  BY DEF PlaceMissing, First, Sound, IInv, TypeOK, WorkFresh
<1>2. /\ Countable(entries, toSeat, exits, orders) /\ GapCounted /\ GapCounted'
  BY GapIsBooks, GapIsBooksNext DEF Sound
<1>3. ASSUME NEW s \in OrderId, FreeSlot(s), orders' = [orders EXCEPT ![s] = order],
             \/ entries' = entries
             \/ entries' = [entries EXCEPT ![i] =
                  [st |-> "open", oid |-> s, qty |-> Lots, px |-> 0, short |-> i > 0]]
      PROVE  GapKept
  <2>1. orders'[s].filled = 0 /\ \A q \in OrderId : q # s => orders'[q] = orders[q]
    BY <1>1, <1>3 DEF NewOrder
  <2>2. orders[s].st = "none"
    BY <1>3 DEF FreeSlot
  <2>3. \A x \in ExitIdx : exits[x].st = "open" => exits[x].oid \in OrderId /\ exits[x].oid # s
    BY <2>2 DEF Sound, LInv, ExitsNamed, NamesExit
  <2>4. \A j \in EntryIdx : entries[j].st = "open" => entries[j].oid \in OrderId /\ entries[j].oid # s
    BY <2>2 DEF Sound, LInv, EntriesNamed, NamesEntry
  <2>5. \A short : ExitSum(exits, orders', short) = ExitSum(exits, orders, short)
    BY <2>1, <2>3, ExitSame DEF ExitAt
  <2>6. /\ \A j \in EntryIdx : j # i => entries'[j] = entries[j]
        /\ entries'[i] = entries[i] \/ (entries'[i].st = "open" /\ entries'[i].oid = s)
    BY <1>1, <1>3
  <2>7. ASSUME NEW short \in BOOLEAN, NEW j \in EntryIdx
        PROVE  /\ HeldAt(entries'[j], short) = HeldAt(entries[j], short)
               /\ OpenAt(entries'[j], orders', short) = OpenAt(entries[j], orders, short)
    <3>1. CASE j # i BY <2>1, <2>4, <2>6, <3>1 DEF HeldAt, OpenAt
    <3>2. CASE j = i BY <1>1, <2>1, <2>6, <3>2 DEF HeldAt, OpenAt
    <3> QED BY <3>1, <3>2
  <2>8. \A short \in BOOLEAN : /\ HeldSum(entries', short) = HeldSum(entries, short)
                               /\ OpenSum(entries', orders', short) = OpenSum(entries, orders, short)
    BY <2>7, HeldSame, OpenSame
  <2> QED BY <1>1, <1>2, <2>5, <2>8 DEF GapKept, GapCounted, Books
<1>4. CASE UNCHANGED <<entries, orders>>
  BY <1>1, <1>4, QuietGap
<1> QED BY <1>3, <1>4 DEF PlaceMissing

\* recenter takes the positions off the table and forgets the orders on it.
LEMMA RecenterBuildGap ==
  ASSUME Sound, Sound', NEW g, RecenterBuild(g)
  PROVE  /\ \A short \in BOOLEAN : Gap(short)' >= Gap(short)
         /\ pc = "cancel" /\ pc' = "seat"
<1>1. /\ pc = "cancel" /\ pc' = "seat" /\ exits' = exits /\ toSeat = {}
      /\ entries' = BuildLevels /\ toSeat' = {Taken(i) : i \in HeldIdx}
      /\ orders' = Kept(orders, entries', exits', cancels)
      /\ pos' = pos /\ orders \in [OrderId -> Order]
  BY DEF RecenterBuild, Taken, Sound, IInv, LInv, TypeOK
<1>2. \A i \in EntryIdx : entries'[i].st \notin {"open", "held"}
  BY <1>1, LevelFacts
<1>3. /\ Countable(entries, toSeat, exits, orders) /\ GapCounted
      /\ \A short \in BOOLEAN :
           Gap(short)' = pos'[short] - Books(entries', toSeat', exits', orders, short)
  BY <1>1, GapIsBooks, GapAfter DEF Sound
<1>4. ASSUME NEW short \in BOOLEAN PROVE Gap(short)' >= Gap(short)
  <2>1. HeldSum(entries', short) = 0 /\ OpenSum(entries', orders, short) = 0
    <3> DEFINE f == [i \in EntryIdx |-> HeldAt(entries'[i], short)]
               k == [i \in EntryIdx |-> OpenAt(entries'[i], orders, short)]
    <3>1. \A i \in EntryIdx : f[i] = 0 /\ k[i] = 0
      BY <1>2 DEF HeldAt, OpenAt
    <3> HIDE DEF f, k
    <3>2. SumFunctionOnSet(f, EntryIdx) = 0 /\ SumFunctionOnSet(k, EntryIdx) = 0
      BY <3>1, IndexSetsFinite, SumZero
    <3> QED BY <3>2 DEF HeldSum, OpenSum, f, k
  <2>2. MovingSum(toSeat, short) = 0
    BY <1>1, SumEmpty DEF MovingSum
  <2>3. MovingSum(toSeat', short) = HeldSum(entries, short)
    <3> DEFINE m == [i \in HeldIdx |-> Taken(i)]
               f == [i \in HeldIdx |-> HeldAt(entries[i], short)]
               w == [i \in EntryIdx |-> HeldAt(entries[i], short)]
               k == [h \in toSeat' |-> MovingAt(h, short)]
               T == toSeat'
    <3>1. IsFiniteSet(HeldIdx)
      BY IndexSetsFinite, FS_Subset DEF HeldIdx
    <3>2. /\ \A i, j \in HeldIdx : m[i] = m[j] => i = j
          /\ \A i \in HeldIdx : m[i] \in T
          /\ \A h \in T : \E i \in HeldIdx : h = m[i]
      BY <1>1 DEF Taken
    <3>3. \A i \in HeldIdx : f[i] \in Int /\ k[m[i]] = f[i]
      <4>1. \A i \in EntryIdx : HeldAt(entries[i], short) \in Nat
        BY <1>3, AtTypes
      <4> QED BY <1>1, <4>1 DEF Taken, MovingAt, HeldAt, HeldIdx, Held
    <3>4. /\ HeldIdx \subseteq EntryIdx
          /\ \A i \in HeldIdx : w[i] = f[i]
          /\ \A i \in EntryIdx : i \notin HeldIdx => w[i] = 0
      BY DEF HeldIdx, Held, HeldAt
    <3> HIDE DEF m, f, k, w, T
    <3>5. SumFunctionOnSet(k, T) = SumFunctionOnSet(f, HeldIdx)
      BY <3>1, <3>2, <3>3, SumRenamed
    <3>6. SumFunctionOnSet(f, HeldIdx) = SumFunctionOnSet(w, EntryIdx)
      BY <3>3, <3>4, IndexSetsFinite, SumPadded
    <3> QED BY <3>5, <3>6 DEF MovingSum, HeldSum, k, w, T
  <2>4. /\ HeldSum(entries, short) \in Int /\ OpenSum(entries, orders, short) \in Nat
        /\ ExitSum(exits, orders, short) \in Int
    BY <1>3, SumTypes
  <2>5. pos[short] \in Int /\ pos' = pos /\ exits' = exits
    BY <1>1 DEF Sound, IInv, TypeOK
  <2> QED BY <1>3, <2>1, <2>2, <2>3, <2>4, <2>5 DEF GapCounted, Books
<1> QED BY <1>1, <1>4

LEMMA SeatEntryGap ==
  ASSUME Sound, Sound', NEW h \in toSeat, NEW k \in 1 .. N + Overflow, SeatEntry(h, k)
  PROVE  GapKept
<1> DEFINE n == Dir(h.short) * k
           level == [st |-> "held", oid |-> NoId, qty |-> h.qty, px |-> h.px, short |-> h.short]
<1>1. /\ entries' = [entries EXCEPT ![n] = level]
      /\ toSeat' = toSeat \ {h} /\ UNCHANGED <<exits, orders, pos>>
      /\ entries \in [EntryIdx -> EntryLevel]
  BY DEF SeatEntry, Sound, IInv, TypeOK
<1>2. n \in EntryIdx /\ entries[n].st \in {"none", "empty"} /\ h.qty \in Nat
  <2>1. h.px \in Int /\ h.short \in BOOLEAN /\ h.qty \in Nat
    BY DEF Sound, IInv, TypeOK, Holding
  <2>2. IsSeat(k, h.px, h.short)
    BY DEF SeatEntry
  <2> QED BY <2>1, <2>2, SeatFacts DEF Sound, IInv
<1> HIDE DEF n
<1>3. /\ entries'[n].st = "held" /\ entries'[n].qty = h.qty /\ entries'[n].short = h.short
      /\ \A j \in EntryIdx : j # n => entries'[j] = entries[j]
  BY <1>1, <1>2
<1>4. Countable(entries, toSeat, exits, orders) /\ GapCounted /\ GapCounted'
  BY GapIsBooks, GapIsBooksNext DEF Sound
<1>5. UNCHANGED <<exits, orders, pos>> /\ toSeat' = toSeat \ {h}
  BY <1>1
<1>6. ASSUME NEW short \in BOOLEAN PROVE Gap(short)' = Gap(short)
  <2>1. /\ HeldAt(entries[n], short) = 0 /\ HeldAt(entries'[n], short) = MovingAt(h, short)
        /\ MovingAt(h, short) \in Int
    BY <1>2, <1>3 DEF HeldAt, MovingAt
  <2>2. \A j \in EntryIdx : j # n => HeldAt(entries'[j], short) = HeldAt(entries[j], short)
    BY <1>3
  <2>3. \A j \in EntryIdx : OpenAt(entries'[j], orders, short) = OpenAt(entries[j], orders, short)
    BY <1>2, <1>3 DEF OpenAt
  <2>4. HeldAt(entries'[n], short) \in Int /\ n \in EntryIdx
    BY <1>2, <2>1
  <2>5. HeldSum(entries', short)
          = HeldSum(entries, short) - HeldAt(entries[n], short) + HeldAt(entries'[n], short)
    BY <1>4, <2>2, <2>4, HeldChange
  <2>6. OpenSum(entries', orders, short) = OpenSum(entries, orders, short)
    BY <2>3, OpenSame
  <2>7. MovingSum(toSeat, short) = MovingAt(h, short) + MovingSum(toSeat \ {h}, short)
    BY <1>4, MovingDrop
  <2>8. /\ HeldSum(entries, short) \in Int /\ MovingSum(toSeat, short) \in Int
        /\ OpenSum(entries, orders, short) \in Int /\ ExitSum(exits, orders, short) \in Int
    BY <1>4, SumTypes
  <2>9. MovingSum(toSeat \ {h}, short) \in Int /\ pos[short] \in Int
    <3>1. Countable(entries, toSeat \ {h}, exits, orders)
      BY <1>4, FS_Subset DEF Countable
    <3> QED BY <3>1, SumTypes DEF Sound, IInv, TypeOK
  <2> QED BY <1>4, <1>5, <2>1, <2>5, <2>6, <2>7, <2>8, <2>9 DEF GapCounted, Books
<1> QED BY <1>6 DEF GapKept

LEMMA RecenterDoneGap == ASSUME Sound, Sound', RecenterDone PROVE GapKept
<1>1. /\ exits' = [x \in ExitIdx |-> Repaired(x)]
      /\ UNCHANGED <<entries, toSeat, orders, pos>>
      /\ exits \in [ExitIdx -> ExitLevel]
  BY DEF RecenterDone, Sound, IInv, TypeOK
<1>2. \A x \in ExitIdx : /\ exits'[x].st = exits[x].st /\ exits'[x].oid = exits[x].oid
                         /\ exits'[x].qty = exits[x].qty /\ exits'[x].short = exits[x].short
  BY <1>1 DEF Repaired, ExitLevel
<1>3. \A short : ExitSum(exits', orders, short) = ExitSum(exits, orders, short)
  BY <1>2, ExitSame DEF ExitAt
<1>4. GapCounted /\ GapCounted'
  BY GapIsBooks, GapIsBooksNext DEF Sound
<1>5. UNCHANGED <<entries, toSeat, orders, pos>>
  BY <1>1
<1> QED BY <1>3, <1>4, <1>5 DEF GapKept, GapCounted, Books

\* Cancelling an order leaves its quantities alone.
LEMMA CanceledOrders ==
  ASSUME NEW os \in [OrderId -> Order], NEW o \in OrderId
  PROVE  LET ns == [os EXCEPT ![o].st = "canceled"]
         IN  /\ ns \in [OrderId -> Order]
             /\ \A q \in OrderId : ns[q].qty = os[q].qty /\ ns[q].filled = os[q].filled
<1> DEFINE r == [os[o] EXCEPT !.st = "canceled"]
           ns == [os EXCEPT ![o] = r]
<1>1. os[o] \in Order
  OBVIOUS
<1>2. r \in Order /\ r.qty = os[o].qty /\ r.filled = os[o].filled
  BY <1>1 DEF Order
<1> HIDE DEF r
<1>3. ns \in [OrderId -> Order] /\ ns[o] = r /\ \A q \in OrderId : q # o => ns[q] = os[q]
  BY <1>2
<1> QED BY <1>2, <1>3 DEF r

\* What a step may do to the gap while no order is cancelled in the middle.
\* It widens only where recenter or one of its orphans acts; it narrows only
\* where the engine does not know of a take-profit order.
Escape ==
  \/ pc = "cancel" /\ pc' = "seat"
  \/ \E o \in OrderId : Orphan(o) /\ orders'[o] # orders[o]
GapStep ==
  /\ AllUncut => \A short \in BOOLEAN : Gap(short)' > Gap(short) => Escape
  /\ AllUncut /\ AllNamed(exits, orders) =>
       \A short \in BOOLEAN : Gap(short)' >= Gap(short)

LEMMA NextGap == Sound /\ [Next]_vars => Sound' /\ GapStep
<1> SUFFICES ASSUME Sound, [Next]_vars PROVE Sound' /\ GapStep
  OBVIOUS
<1>1. Sound'
  BY NextIInv, NextLInv DEF Sound
<1>2. GapKept => GapStep
  <2>1. \A short \in BOOLEAN : Gap(short) \in Int
    BY GapIsBooks DEF Sound, GapCounted
  <2> QED BY <2>1 DEF GapKept, GapStep
<1>3. CASE UNCHANGED vars
  BY <1>1, <1>2, <1>3, QuietGap DEF vars, engineVars
<1>4. CASE \E p \in Prices : TickStart(p)
  BY <1>1, <1>2, <1>4, QuietGap DEF TickStart
<1>5. CASE Scan
  <2>1. PICK i \in EntryIdx \cup ExitIdx :
          \/ ScanKeep(i) \/ EntryFilled(i) \/ ExitFilled(i) \/ EntryCanceled(i)
          \/ ExitCanceled(i)
    BY <1>5 DEF Scan
  <2>2. CASE ScanKeep(i)
    BY <1>1, <1>2, <2>2, QuietGap DEF ScanKeep
  <2>3. CASE EntryFilled(i)
    BY <1>1, <1>2, <2>3, EntryFilledGap
  <2>4. CASE ExitFilled(i)
    BY <1>1, <1>2, <2>4, ExitFilledGap
  <2>5. CASE EntryCanceled(i)
    <3>1. AllUncut => GapKept
      BY <1>1, <2>5, EntryCanceledGap
    <3> QED BY <1>1, <1>2, <3>1 DEF GapStep
  <2>6. CASE ExitCanceled(i)
    <3>1. AllUncut => GapKept
      BY <1>1, <2>6, ExitCanceledGap
    <3> QED BY <1>1, <1>2, <3>1 DEF GapStep
  <2> QED BY <2>1, <2>2, <2>3, <2>4, <2>5, <2>6
<1>6. CASE Recenter
  <2>1. CASE SkipRecenter
    BY <1>1, <1>2, <2>1, QuietGap DEF SkipRecenter
  <2>2. CASE RecenterStart
    BY <1>1, <1>2, <2>2, QuietGap DEF RecenterStart
  <2>3. ASSUME NEW o \in OrderId, RecenterCancel(o) PROVE GapKept
    <3>1. UNCHANGED <<entries, toSeat, exits, pos>> /\ orders \in [OrderId -> Order]
      BY <2>3 DEF RecenterCancel, Sound, IInv, TypeOK
    <3>2. CASE orders' = Kept(orders, entries, exits, cancels')
      BY <1>1, <3>1, <3>2, StateGap
    <3>3. CASE orders' = Kept([orders EXCEPT ![o].st = "canceled"], entries, exits, cancels')
      BY <1>1, <3>1, <3>3, CanceledOrders, StateGap
    <3> QED BY <2>3, <3>2, <3>3 DEF RecenterCancel
  <2>4. ASSUME NEW g \in Grids, RecenterBuild(g) PROVE GapStep
    <3>1. (\A short \in BOOLEAN : Gap(short)' >= Gap(short)) /\ Escape
      BY <1>1, <2>4, RecenterBuildGap DEF Escape
    <3> QED BY <3>1 DEF GapStep
  <2>5. ASSUME NEW h \in toSeat, NEW k \in 1 .. N + Overflow, SeatEntry(h, k) PROVE GapKept
    BY <1>1, <2>5, SeatEntryGap
  <2>6. CASE RecenterDone
    BY <1>1, <1>2, <2>6, RecenterDoneGap
  <2> QED BY <1>1, <1>2, <1>6, <2>1, <2>2, <2>3, <2>4, <2>5, <2>6 DEF Recenter
<1>7. CASE Replace
  <2>1. ASSUME NEW i \in EntryIdx, EnsureTakeProfit(i) PROVE GapKept
    BY <1>1, <2>1, EnsureTakeProfitGap
  <2>2. ASSUME NEW i \in EntryIdx, PlaceMissing(i) PROVE GapKept
    BY <1>1, <2>2, PlaceMissingGap
  <2>3. CASE EnsureDone
    BY <1>1, <1>2, <2>3, QuietGap DEF EnsureDone
  <2>4. CASE TickEnd
    BY <1>1, <1>2, <2>4, QuietGap DEF TickEnd
  <2> QED BY <1>1, <1>2, <1>7, <2>1, <2>2, <2>3, <2>4 DEF Replace
<1>8. CASE World
  <2>1. ASSUME NEW o \in OrderId, Fill(o) PROVE GapStep
    <3>1. /\ ~OnLevel(o) /\ orders[o].kind = "entry" => Escape
          /\ orders[o].kind \in {"entry", "exit"} /\ orders[o].st = "new"
      BY <1>1, <2>1, FillGap DEF Escape, Fill, Sound, IInv, TypeOK, Order
    <3>2. AllNamed(exits, orders) /\ orders[o].kind = "exit" => OnLevel(o)
      BY <3>1 DEF AllNamed, LiveExit, OnLevel
    <3>3. \A short \in BOOLEAN :
            /\ Gap(short) \in Int
            /\ Gap(short)' = Gap(short) + (IF short # orders[o].short \/ OnLevel(o) THEN 0
                                          ELSE IF orders[o].kind = "entry" THEN 1 ELSE -1)
      BY <1>1, <2>1, FillGap, GapIsBooks DEF Sound, GapCounted
    <3> QED BY <3>1, <3>2, <3>3 DEF GapStep
  <2>2. ASSUME NEW o \in OrderId, ManualCancel(o) PROVE GapKept
    <3>1. UNCHANGED <<entries, toSeat, exits, pos>> /\ orders \in [OrderId -> Order]
      BY <2>2 DEF ManualCancel, engineVars, Sound, IInv, TypeOK
    <3>2. orders' = Kept([orders EXCEPT ![o].st = "canceled"], entries, exits, cancels)
      BY <2>2 DEF ManualCancel
    <3> QED BY <1>1, <3>1, <3>2, CanceledOrders, StateGap
  <2>3. ASSUME NEW i \in EntryIdx, BackoffOver(i) PROVE GapKept
    BY <1>1, <2>3, QuietGap DEF BackoffOver
  <2> QED BY <1>1, <1>2, <1>8, <2>1, <2>2, <2>3 DEF World
<1> QED BY <1>1, <1>3, <1>4, <1>5, <1>6, <1>7, <1>8 DEF Next, OnTick

LEMMA InitGap == Init => Sound /\ \A short \in BOOLEAN : Gap(short) = 0
<1> SUFFICES ASSUME Init PROVE Sound /\ \A short \in BOOLEAN : Gap(short) = 0
  OBVIOUS
<1>1. Sound
  BY InitIInv, InitLInv DEF Sound
<1>2. /\ \A i \in EntryIdx : entries[i].st \notin {"held", "open"}
      /\ \A x \in ExitIdx : exits[x].st = "none"
      /\ toSeat = {} /\ \A short \in BOOLEAN : pos[short] = 0
  BY LevelFacts DEF Init
<1>3. ASSUME NEW short \in BOOLEAN PROVE Books(entries, toSeat, exits, orders, short) = 0
  <2> DEFINE f == [i \in EntryIdx |-> HeldAt(entries[i], short)]
             g == [i \in EntryIdx |-> OpenAt(entries[i], orders, short)]
             k == [x \in ExitIdx |-> ExitAt(exits[x], orders, short)]
  <2>1. /\ \A i \in EntryIdx : f[i] = 0 /\ g[i] = 0
        /\ \A x \in ExitIdx : k[x] = 0
    BY <1>2 DEF HeldAt, OpenAt, ExitAt
  <2> HIDE DEF f, g, k
  <2>2. /\ SumFunctionOnSet(f, EntryIdx) = 0 /\ SumFunctionOnSet(g, EntryIdx) = 0
        /\ SumFunctionOnSet(k, ExitIdx) = 0
    BY <2>1, IndexSetsFinite, SumZero
  <2>3. MovingSum(toSeat, short) = 0
    BY <1>2, SumEmpty DEF MovingSum
  <2> QED BY <2>2, <2>3 DEF Books, HeldSum, OpenSum, ExitSum, f, g, k
<1>4. GapCounted
  BY <1>1, GapIsBooks DEF Sound
<1> QED BY <1>1, <1>2, <1>3, <1>4 DEF GapCounted

-----------------------------------------------------------------------------
(* Which take-profit orders the engine knows of, and how large orders are  *)

\* Exit levels keep naming the live orders they name, and none is added.
LEMMA NamedFrame ==
  ASSUME AllNamed(exits, orders),
         \A o \in OrderId : LiveExit(orders'[o]) => LiveExit(orders[o]),
         \A x \in ExitIdx : exits[x].st = "open" /\ LiveExit(orders'[exits[x].oid]) =>
                              exits'[x].st = "open" /\ exits'[x].oid = exits[x].oid
  PROVE  AllNamed(exits', orders')
BY DEF AllNamed, Named

LEMMA KeptLiveExit ==
  ASSUME NEW os \in [OrderId -> Order], NEW ents, NEW exs, NEW cs, NEW o \in OrderId,
         LiveExit(Kept(os, ents, exs, cs)[o])
  PROVE  LiveExit(os[o])
<1>1. NoOrder.st = "none"
  BY LevelFacts
<1> QED BY <1>1 DEF Kept, LiveExit

\* placeExitFor leaves an order the engine does not know of only where the
\* answer to it gets lost.
LEMMA PlaceExitNamed ==
  ASSUME Sound, Sound', Answered, AllNamed(exits, orders),
         NEW os, NEW i, NEW ents, PlaceExitMakes(os, i, ents)
  PROVE  AllNamed(exits', orders')
<1> SUFFICES ASSUME NEW o \in OrderId, LiveExit(orders'[o]) PROVE Named(exits', o)
  BY DEF AllNamed
<1>1. LiveExit(os[o])
  BY KeptLiveExit DEF PlaceExitMakes
<1>2. orders'[o] = os[o]
  BY <1>1, KeptMore DEF PlaceExitMakes, LiveExit
<1>3. \A x \in ExitIdx : exits[x].st = "open" =>
        exits'[x].st = "open" /\ exits'[x].oid = exits[x].oid
  BY DEF PlaceExitMakes, PlacedExit, Sound, IInv, TypeOK
<1>4. CASE os[o] = orders[o]
  BY <1>1, <1>3, <1>4 DEF AllNamed, Named
<1>5. CASE orders[o].st = "none" /\ os[o] # orders[o]
  <2>1. CASE "lost" \notin Failing
    BY <1>5, <2>1 DEF PlaceExitMakes
  <2>2. CASE ~ExitAnswerLost
    <3>1. PICK x \in ExitIdx : exits'[x].oid = o
      BY <1>1, <1>2, <1>5, <2>2 DEF ExitAnswerLost, LiveExit
    <3>2. ExitsNamed(exits', orders')
      BY DEF Sound, LInv
    <3> QED BY <3>1, <3>2, IndexFacts DEF ExitsNamed, Named, ExitLevel
  <2> QED BY <2>1, <2>2 DEF Answered
<1> QED BY <1>4, <1>5 DEF PlaceExitMakes

LEMMA NextNamed ==
  ASSUME Sound, Sound', [Next]_vars, Answered, AllNamed(exits, orders)
  PROVE  AllNamed(exits', orders')
<1>1. /\ orders \in [OrderId -> Order] /\ exits \in [ExitIdx -> ExitLevel]
      /\ \A x \in ExitIdx : exits[x].st = "open" => exits[x].oid \in OrderId
  BY DEF Sound, IInv, TypeOK, LInv, ExitsNamed, NamesExit
<1>2. CASE UNCHANGED <<exits, orders>>
  BY <1>2
<1>3. CASE UNCHANGED vars
  BY <1>2, <1>3 DEF vars, engineVars
<1>4. CASE \E p \in Prices : TickStart(p)
  BY <1>2, <1>4 DEF TickStart
<1>5. CASE Scan
  <2>1. PICK i \in EntryIdx \cup ExitIdx :
          \/ ScanKeep(i) \/ EntryFilled(i) \/ ExitFilled(i) \/ EntryCanceled(i)
          \/ ExitCanceled(i)
    BY <1>5 DEF Scan
  <2>2. CASE ScanKeep(i)
    BY <1>2, <2>2 DEF ScanKeep
  <2>3. CASE EntryFilled(i)
    BY <2>3, EntryFilledLInv, PlaceExitNamed DEF Sound
  <2>4. CASE ExitFilled(i) \/ ExitCanceled(i)
    <3>1. /\ orders' = Kept(orders, entries', exits', cancels)
          /\ exits' = [exits EXCEPT ![i] = NoExit]
          /\ orders[exits[i].oid].st \in {"filled", "canceled"}
      BY <2>4 DEF ExitFilled, ExitCanceled
    <3>2. \A o \in OrderId : LiveExit(orders'[o]) => LiveExit(orders[o])
      BY <1>1, <3>1, KeptLiveExit
    <3>3. \A x \in ExitIdx : exits[x].st = "open" /\ LiveExit(orders[exits[x].oid]) =>
                              exits'[x].st = "open" /\ exits'[x].oid = exits[x].oid
      BY <1>1, <3>1 DEF LiveExit
    <3> QED BY <1>1, <3>2, <3>3, NamedFrame
  <2>5. CASE EntryCanceled(i)
    <3>1. orders' = Kept(orders, entries', exits, cancels) /\ exits' = exits
      BY <2>5 DEF EntryCanceled
    <3> QED BY <1>1, <3>1, KeptLiveExit, NamedFrame
  <2> QED BY <2>1, <2>2, <2>3, <2>4, <2>5
<1>6. CASE Recenter
  <2>1. CASE SkipRecenter \/ RecenterStart \/ \E h \in toSeat, k \in 1 .. N + Overflow : SeatEntry(h, k)
    BY <1>2, <2>1 DEF SkipRecenter, RecenterStart, SeatEntry
  <2>2. ASSUME NEW o \in OrderId, RecenterCancel(o) PROVE AllNamed(exits', orders')
    <3> DEFINE os == [orders EXCEPT ![o].st = "canceled"]
    <3>1. \/ orders' = Kept(orders, entries, exits, cancels')
          \/ orders' = Kept(os, entries, exits, cancels')
      BY <2>2 DEF RecenterCancel
    <3>2. os \in [OrderId -> Order] /\ \A q \in OrderId : LiveExit(os[q]) => LiveExit(orders[q])
      BY <1>1 DEF Order, LiveExit
    <3> HIDE DEF os
    <3>3. \A q \in OrderId : LiveExit(orders'[q]) => LiveExit(orders[q])
      BY <1>1, <3>1, <3>2, KeptLiveExit
    <3>4. exits' = exits
      BY <2>2 DEF RecenterCancel
    <3> QED BY <3>3, <3>4, NamedFrame
  <2>3. ASSUME NEW g \in Grids, RecenterBuild(g) PROVE AllNamed(exits', orders')
    <3>1. orders' = Kept(orders, entries', exits, cancels) /\ exits' = exits
      BY <2>3 DEF RecenterBuild
    <3> QED BY <1>1, <3>1, KeptLiveExit, NamedFrame
  <2>4. CASE RecenterDone
    <3>1. exits' = [x \in ExitIdx |-> Repaired(x)] /\ orders' = orders
      BY <2>4 DEF RecenterDone
    <3>2. \A x \in ExitIdx : exits'[x].st = exits[x].st /\ exits'[x].oid = exits[x].oid
      BY <1>1, <3>1 DEF Repaired, ExitLevel
    <3> QED BY <3>1, <3>2, NamedFrame
  <2> QED BY <1>6, <2>1, <2>2, <2>3, <2>4 DEF Recenter
<1>7. CASE Replace
  <2>1. ASSUME NEW i \in EntryIdx, EnsureTakeProfit(i) PROVE AllNamed(exits', orders')
    BY <2>1, EnsureTakeProfitLInv, PlaceExitNamed DEF Sound
  <2>2. ASSUME NEW i \in EntryIdx, PlaceMissing(i) PROVE AllNamed(exits', orders')
    <3> DEFINE order == NewOrder("entry", i > 0, LevelPx(i), Lots)
    <3>1. /\ exits' = exits
          /\ orders' = orders \/ \E s \in OrderId : orders' = [orders EXCEPT ![s] = order]
      BY <2>2 DEF PlaceMissing
    <3>2. order.kind = "entry"
      BY DEF NewOrder
    <3> HIDE DEF order
    <3>3. \A o \in OrderId : LiveExit(orders'[o]) => LiveExit(orders[o])
      BY <1>1, <3>1, <3>2 DEF LiveExit
    <3> QED BY <3>1, <3>3, NamedFrame
  <2>3. CASE EnsureDone \/ TickEnd
    BY <1>2, <2>3 DEF EnsureDone, TickEnd
  <2> QED BY <1>7, <2>1, <2>2, <2>3 DEF Replace
<1>8. CASE World
  <2>1. ASSUME NEW o \in OrderId, Fill(o) PROVE AllNamed(exits', orders')
    <3> DEFINE r == Traded(orders[o])
               os == [orders EXCEPT ![o] = r]
    <3>1. /\ orders[o].st = "new" /\ exits' = exits
          /\ orders' = Kept(os, entries, exits, cancels)
      BY <2>1 DEF Fill, engineVars
    <3>2. r \in Order /\ r.kind = orders[o].kind
      BY <1>1, <3>1, TradedFacts DEF Sound, LInv, OrderLots
    <3> HIDE DEF r
    <3>3. os \in [OrderId -> Order] /\ \A q \in OrderId : LiveExit(os[q]) => LiveExit(orders[q])
      BY <1>1, <3>1, <3>2 DEF LiveExit
    <3> HIDE DEF os
    <3>4. \A q \in OrderId : LiveExit(orders'[q]) => LiveExit(orders[q])
      BY <3>1, <3>3, KeptLiveExit
    <3> QED BY <3>1, <3>4, NamedFrame
  <2>2. ASSUME NEW o \in OrderId, ManualCancel(o) PROVE AllNamed(exits', orders')
    <3> DEFINE os == [orders EXCEPT ![o].st = "canceled"]
    <3>1. exits' = exits /\ orders' = Kept(os, entries, exits, cancels)
      BY <2>2 DEF ManualCancel, engineVars
    <3>2. os \in [OrderId -> Order] /\ \A q \in OrderId : LiveExit(os[q]) => LiveExit(orders[q])
      BY <1>1 DEF Order, LiveExit
    <3> HIDE DEF os
    <3>3. \A q \in OrderId : LiveExit(orders'[q]) => LiveExit(orders[q])
      BY <3>1, <3>2, KeptLiveExit
    <3> QED BY <3>1, <3>3, NamedFrame
  <2>3. ASSUME NEW i \in EntryIdx, BackoffOver(i) PROVE AllNamed(exits', orders')
    BY <1>2, <2>3 DEF BackoffOver
  <2> QED BY <1>8, <2>1, <2>2, <2>3 DEF World
<1> QED BY <1>3, <1>4, <1>5, <1>6, <1>7, <1>8 DEF Next, OnTick

\* An engine that has never been restarted trades in levels' sizes.
Small ==
  /\ \A o \in OrderId : orders[o].qty <= Lots
  /\ \A i \in EntryIdx : entries[i].st = "held" => entries[i].qty <= Lots
  /\ \A h \in toSeat : h.qty <= Lots

LEMMA SmallFrame ==
  ASSUME Small, \A o \in OrderId : orders'[o].qty = orders[o].qty \/ orders'[o].qty = 0,
         \A i \in EntryIdx : entries'[i].st = "held" => entries'[i] = entries[i],
         toSeat' \subseteq toSeat
  PROVE  Small'
<1>1. Lots \in Nat
  BY GridEngineAssumption
<1> QED BY <1>1 DEF Small

LEMMA KeptQty ==
  ASSUME NEW os, NEW ents, NEW exs, NEW cs, NEW o \in OrderId
  PROVE  Kept(os, ents, exs, cs)[o].qty \in {os[o].qty, 0}
BY DEF Kept, NoOrder

LEMMA PlaceExitSmall ==
  ASSUME Sound, Small, NEW os, NEW i \in EntryIdx, PlaceExitMakes(os, i, entries'),
         entries'[i].st = "held", entries'[i].qty <= Lots,
         \A j \in EntryIdx : j # i => entries'[j] = entries[j], toSeat' = toSeat
  PROVE  Small'
<1>1. Lots \in Nat
  BY GridEngineAssumption
<1>2. \A o \in OrderId : os[o].qty <= Lots
  BY DEF PlaceExitMakes, PlacedOrder, Small
<1>3. \A o \in OrderId : orders'[o].qty \in {os[o].qty, 0}
  BY KeptQty DEF PlaceExitMakes
<1> QED BY <1>1, <1>2, <1>3 DEF Small

LEMMA NextSmall == ASSUME Sound, Small, [Next]_vars PROVE Small'
<1>1. /\ orders \in [OrderId -> Order] /\ entries \in [EntryIdx -> EntryLevel] /\ Lots \in Nat
      /\ toSeat \subseteq Holding
  BY GridEngineAssumption DEF Sound, IInv, TypeOK
<1>2. CASE UNCHANGED <<orders, entries, toSeat>>
  BY <1>2, SmallFrame
<1>3. CASE UNCHANGED vars
  BY <1>2, <1>3 DEF vars, engineVars
<1>4. CASE \E p \in Prices : TickStart(p)
  BY <1>2, <1>4 DEF TickStart
<1>5. CASE Scan
  <2>1. PICK i \in EntryIdx \cup ExitIdx :
          \/ ScanKeep(i) \/ EntryFilled(i) \/ ExitFilled(i) \/ EntryCanceled(i)
          \/ ExitCanceled(i)
    BY <1>5 DEF Scan
  <2>2. CASE ScanKeep(i)
    BY <1>2, <2>2 DEF ScanKeep
  <2>3. CASE EntryFilled(i)
    <3> DEFINE o == orders[entries[i].oid]
    <3>1. /\ i \in EntryIdx /\ entries[i].st = "open" /\ o.st = "filled" /\ toSeat' = toSeat
          /\ entries' = [entries EXCEPT ![i] =
                [st |-> "held", oid |-> NoId, qty |-> o.filled, px |-> o.px,
                 short |-> entries[i].short]]
      BY <2>3 DEF EntryFilled, First, Sound, IInv, WorkFresh, PlaceExitFor
    <3>2. entries[i].oid \in OrderId /\ o.filled = o.qty /\ o.qty <= Lots
      BY <3>1 DEF Sound, LInv, EntriesNamed, NamesEntry, OrderLots, OrderOk, Small
    <3>3. /\ entries'[i].st = "held" /\ entries'[i].qty <= Lots
          /\ \A j \in EntryIdx : j # i => entries'[j] = entries[j]
      BY <1>1, <3>1, <3>2
    <3> HIDE DEF o
    <3> QED BY <2>3, <3>1, <3>3, EntryFilledLInv, PlaceExitSmall DEF Sound
  <2>4. CASE ExitFilled(i)
    <3>1. /\ orders' = Kept(orders, entries', exits', cancels) /\ toSeat' = toSeat
          /\ \A j \in EntryIdx : entries'[j] = entries[j] \/ entries'[j].st # "held"
      BY <1>1, <2>4, LevelFacts DEF ExitFilled
    <3> QED BY <3>1, KeptQty, SmallFrame
  <2>5. CASE EntryCanceled(i)
    <3>1. /\ orders' = Kept(orders, entries', exits, cancels) /\ toSeat' = toSeat
          /\ \A j \in EntryIdx : entries'[j] = entries[j] \/ entries'[j].st # "held"
      BY <1>1, <2>5, LevelFacts DEF EntryCanceled
    <3> QED BY <3>1, KeptQty, SmallFrame
  <2>6. CASE ExitCanceled(i)
    <3>1. /\ orders' = Kept(orders, entries, exits', cancels) /\ UNCHANGED <<entries, toSeat>>
      BY <2>6 DEF ExitCanceled
    <3> QED BY <3>1, KeptQty, SmallFrame
  <2> QED BY <2>1, <2>2, <2>3, <2>4, <2>5, <2>6
<1>6. CASE Recenter
  <2>1. CASE SkipRecenter \/ RecenterStart \/ RecenterDone
    BY <1>2, <2>1 DEF SkipRecenter, RecenterStart, RecenterDone
  <2>2. ASSUME NEW o \in OrderId, RecenterCancel(o) PROVE Small'
    <3> DEFINE os == [orders EXCEPT ![o].st = "canceled"]
    <3>1. \/ orders' = Kept(orders, entries, exits, cancels')
          \/ orders' = Kept(os, entries, exits, cancels')
      BY <2>2 DEF RecenterCancel
    <3>2. \A q \in OrderId : os[q].qty = orders[q].qty
      BY <1>1, CanceledOrders
    <3> HIDE DEF os
    <3>3. \A q \in OrderId : orders'[q].qty \in {orders[q].qty, 0}
      BY <3>1, <3>2, KeptQty
    <3> QED BY <2>2, <3>3, SmallFrame DEF RecenterCancel
  <2>3. ASSUME NEW g \in Grids, RecenterBuild(g) PROVE Small'
    <3>1. /\ orders' = Kept(orders, entries', exits, cancels) /\ entries' = BuildLevels
          /\ toSeat' = {Taken(i) : i \in HeldIdx}
      BY <2>3 DEF RecenterBuild, Taken
    <3>2. \A i \in EntryIdx : entries'[i].st # "held"
      BY <3>1, LevelFacts
    <3>3. \A o \in OrderId : orders'[o].qty \in {orders[o].qty, 0}
      BY <3>1, KeptQty
    <3>4. \A h \in toSeat' : h.qty <= Lots
      BY <3>1 DEF Taken, HeldIdx, Held, Small
    <3> QED BY <1>1, <3>2, <3>3, <3>4 DEF Small
  <2>4. ASSUME NEW h \in toSeat, NEW k \in 1 .. N + Overflow, SeatEntry(h, k) PROVE Small'
    <3> DEFINE n == Dir(h.short) * k
               level == [st |-> "held", oid |-> NoId, qty |-> h.qty, px |-> h.px,
                         short |-> h.short]
    <3>1. /\ entries' = [entries EXCEPT ![n] = level]
          /\ toSeat' = toSeat \ {h} /\ orders' = orders
      BY <2>4 DEF SeatEntry
    <3>2. level.qty = h.qty /\ h.qty <= Lots
      BY DEF Small
    <3> HIDE DEF n, level
    <3>3. \A i \in EntryIdx : entries'[i] \in {entries[i], level}
      BY <1>1, <3>1
    <3> QED BY <3>1, <3>2, <3>3 DEF Small
  <2> QED BY <1>6, <2>1, <2>2, <2>3, <2>4 DEF Recenter
<1>7. CASE Replace
  <2>1. ASSUME NEW i \in EntryIdx, EnsureTakeProfit(i) PROVE Small'
    <3>1. entries' = entries /\ toSeat' = toSeat /\ entries[i].st = "held"
      BY <2>1 DEF EnsureTakeProfit, PlaceExitFor, First, Sound, IInv, WorkFresh, HeldIdx, Held
    <3>2. PICK os : PlaceExitMakes(os, i, entries')
      BY <2>1, <3>1, EnsureTakeProfitLInv DEF Sound
    <3> QED BY <3>1, <3>2, PlaceExitSmall DEF Small
  <2>2. ASSUME NEW i \in EntryIdx, PlaceMissing(i) PROVE Small'
    <3> DEFINE order == NewOrder("entry", i > 0, LevelPx(i), Lots)
    <3>1. /\ toSeat' = toSeat
          /\ orders' = orders \/ \E s \in OrderId : orders' = [orders EXCEPT ![s] = order]
          /\ \A j \in EntryIdx : entries'[j] = entries[j] \/ entries'[j].st # "held"
      BY <1>1, <2>2 DEF PlaceMissing
    <3>2. order.qty = Lots
      BY DEF NewOrder
    <3> HIDE DEF order
    <3>3. \A o \in OrderId : orders'[o].qty <= Lots
      BY <1>1, <3>1, <3>2 DEF Small
    <3> QED BY <3>1, <3>3 DEF Small
  <2>3. CASE EnsureDone \/ TickEnd
    BY <1>2, <2>3 DEF EnsureDone, TickEnd
  <2> QED BY <1>7, <2>1, <2>2, <2>3 DEF Replace
<1>8. CASE World
  <2>1. ASSUME NEW o \in OrderId, Fill(o) PROVE Small'
    <3> DEFINE r == Traded(orders[o])
               os == [orders EXCEPT ![o] = r]
    <3>1. /\ orders[o].st = "new" /\ UNCHANGED <<entries, toSeat>>
          /\ orders' = Kept(os, entries, exits, cancels)
      BY <2>1 DEF Fill, engineVars
    <3>2. r.qty = orders[o].qty
      BY DEF Traded
    <3> HIDE DEF r
    <3>3. \A q \in OrderId : os[q].qty = orders[q].qty
      BY <1>1, <3>2
    <3> HIDE DEF os
    <3>4. \A q \in OrderId : orders'[q].qty \in {orders[q].qty, 0}
      BY <3>1, <3>3, KeptQty
    <3> QED BY <3>1, <3>4, SmallFrame
  <2>2. ASSUME NEW o \in OrderId, ManualCancel(o) PROVE Small'
    <3> DEFINE os == [orders EXCEPT ![o].st = "canceled"]
    <3>1. UNCHANGED <<entries, toSeat>> /\ orders' = Kept(os, entries, exits, cancels)
      BY <2>2 DEF ManualCancel, engineVars
    <3>2. \A q \in OrderId : os[q].qty = orders[q].qty
      BY <1>1, CanceledOrders
    <3> HIDE DEF os
    <3>3. \A q \in OrderId : orders'[q].qty \in {orders[q].qty, 0}
      BY <3>1, <3>2, KeptQty
    <3> QED BY <3>1, <3>3, SmallFrame
  <2>3. ASSUME NEW i \in EntryIdx, BackoffOver(i) PROVE Small'
    BY <1>2, <2>3 DEF BackoffOver
  <2> QED BY <1>8, <2>1, <2>2, <2>3 DEF World
<1> QED BY <1>3, <1>4, <1>5, <1>6, <1>7, <1>8 DEF Next, OnTick

\* Nobody cancels by hand, or orders have no parts.
Whole == Lots = 1 \/ "manual" \notin Failing

\* What a run without crashes keeps beside the invariant.
Regular ==
  /\ Sound
  /\ Small
  /\ "lost" \notin Failing => AllNamed(exits, orders)

LEMMA InitRegular == Init => Regular
<1> SUFFICES ASSUME Init PROVE Regular
  OBVIOUS
<1>1. \A o \in OrderId : orders[o].st = "none" /\ orders[o].qty = 0
  BY DEF Init, NoOrder
<1>2. toSeat = {} /\ \A i \in EntryIdx : entries[i].st # "held"
  BY LevelFacts DEF Init
<1>3. Lots \in Nat
  BY GridEngineAssumption
<1> QED BY <1>1, <1>2, <1>3, InitGap DEF Regular, Small, AllNamed, LiveExit

LEMMA RegularUncut == ASSUME Regular, Whole PROVE AllUncut
BY GridEngineAssumption DEF Regular, Whole, Small, Sound, LInv, OrderLots, OrderOk, AllUncut, Uncut

LEMMA NextRegular == Regular /\ [Next]_vars => Regular' /\ GapStep
BY NextGap, NextSmall, NextNamed DEF Regular, Answered

-----------------------------------------------------------------------------
(* The theorems about the ledger                                           *)

\* The engine's invariant and the ledger's hold together in every state: the
\* lots of the account are those of the levels and their orders, plus what
\* only a recenter, a lost answer or a hand-cancelled part has put off them.
THEOREM Soundness == Spec => []Sound
<1>1. Init => Sound
  BY InitGap
<1>2. Sound /\ [Next]_vars => Sound'
  BY NextGap
<1> QED BY <1>1, <1>2, PTL DEF Spec

\* The engine never believes in lots the account does not have, whatever the
\* order of fills, failing calls and recenters, unless the answer to an
\* accepted take-profit order is lost or a partly traded one is cancelled by
\* hand.
THEOREM NoPhantomPosition ==
  ASSUME Whole, "lost" \notin Failing PROVE Spec => []NoPhantom
<1> DEFINE Inv == Regular /\ \A short \in BOOLEAN : Gap(short) \in Nat
<1>1. Init => Inv
  BY InitGap, InitRegular
<1>2. Inv /\ [Next]_vars => Inv'
  <2> SUFFICES ASSUME Inv, [Next]_vars PROVE Inv'
    OBVIOUS
  <2>1. Regular' /\ GapStep /\ AllUncut
    BY NextRegular, RegularUncut
  <2>2. \A short \in BOOLEAN : Gap(short)' \in Int
    BY <2>1, GapIsBooksNext DEF Regular, Sound, GapCounted
  <2> QED BY <2>1, <2>2 DEF GapStep, Regular
<1>3. Inv => NoPhantom
  <2> SUFFICES ASSUME Inv, NEW short \in BOOLEAN PROVE Believed(short) <= pos[short]
    BY DEF NoPhantom
  <2>1. Believed(short) \in Int /\ pos[short] \in Int
    BY GapIsBooks, BelievedIsBooks, SumTypes DEF Regular, Sound, IInv, TypeOK
  <2> QED BY <2>1 DEF Gap
<1> QED BY <1>1, <1>2, <1>3, PTL DEF Spec

\* Lots that the account holds and the books do not know of appear only when
\* recenter wipes the levels, or when an order that an earlier recenter left
\* behind trades; the scan, failing and lost calls and the placing of orders
\* lose none.
THEOREM EscapesAreRecenters == ASSUME Whole PROVE Spec => EscapesOnlyByRecenter
<1>1. Regular /\ [Next]_vars =>
        [\A short \in BOOLEAN :
           pos'[short] - Believed(short)' > pos[short] - Believed(short)
             => \/ pc = "cancel" /\ pc' = "seat"
                \/ \E o \in OrderId : Orphan(o) /\ orders'[o] # orders[o]]_vars
  BY NextRegular, RegularUncut DEF GapStep, Escape, Gap
<1>2. Spec => []Regular
  BY InitRegular, NextRegular, PTL DEF Spec
<1> QED BY <1>1, <1>2, PTL DEF Spec, EscapesOnlyByRecenter

-----------------------------------------------------------------------------
(* A grid that never recenters loses nothing                               *)

\* No price is far enough from any center to recenter.
Steady == \A p \in Prices, g \in Grids : Dist(p, g.center) < Threshold * g.spacing

LiveEntry(r) == r.st = "new" /\ r.kind = "entry"
OnBooks ==
  /\ pc \notin {"cancel", "seat"}
  /\ pc = "scan" => tickPx \in Prices
  /\ \A o \in OrderId : LiveEntry(orders[o]) => \E i \in EntryIdx : entries[i].oid = o

\* What the exchange forgets is not a live order.
LEMMA KeptLiveEntry ==
  ASSUME NEW os \in [OrderId -> Order], NEW ents, NEW exs, NEW cs, NEW o \in OrderId,
         LiveEntry(Kept(os, ents, exs, cs)[o])
  PROVE  LiveEntry(os[o])
<1>1. NoOrder.st = "none"
  BY LevelFacts
<1> QED BY <1>1 DEF Kept, LiveEntry

\* A step that makes no entry order and leaves the levels of live ones alone.
LEMMA OnBooksFrame ==
  ASSUME OnBooks,
         \A o \in OrderId : LiveEntry(orders'[o]) => LiveEntry(orders[o]),
         \A i \in EntryIdx : entries[i].oid \in OrderId /\ LiveEntry(orders[entries[i].oid])
                               => entries'[i].oid = entries[i].oid,
         pc' \notin {"cancel", "seat"}, pc' = "scan" => tickPx' \in Prices
  PROVE  OnBooks'
BY DEF OnBooks

LEMMA QuietOnBooks ==
  ASSUME OnBooks, UNCHANGED <<entries, orders>>,
         pc' \notin {"cancel", "seat"}, pc' = "scan" => tickPx' \in Prices
  PROVE  OnBooks'
BY DEF OnBooks

\* placeExitFor makes no entry order.
LEMMA PlaceExitOnBooks ==
  ASSUME IInv, NEW ents, NEW i, PlaceExitFor(i, ents)
  PROVE  \A o \in OrderId : LiveEntry(orders'[o]) => LiveEntry(orders[o])
<1> DEFINE order == NewOrder("exit", ents[i].short, ExitPx(ents[i]), ents[i].qty)
<1> SUFFICES ASSUME NEW o \in OrderId, LiveEntry(orders'[o]) PROVE LiveEntry(orders[o])
  OBVIOUS
<1>1. order.kind = "exit"
  BY DEF NewOrder
<1>2. orders \in [OrderId -> Order] /\ NoOrder.st = "none"
  BY LevelFacts DEF IInv, TypeOK
<1>3. \E s \in OrderId : \E exs :
        \/ orders' = Kept(orders, ents, exs, cancels)
        \/ orders' = Kept([orders EXCEPT ![s] = order], ents, exs, cancels)
  BY DEF PlaceExitFor
<1> HIDE DEF order
<1>4. PICK s \in OrderId : \E exs :
        \/ orders' = Kept(orders, ents, exs, cancels)
        \/ orders' = Kept([orders EXCEPT ![s] = order], ents, exs, cancels)
  BY <1>3
<1>5. ASSUME NEW exs, orders' = Kept(orders, ents, exs, cancels) PROVE LiveEntry(orders[o])
  BY <1>2, <1>5 DEF Kept, LiveEntry
<1>6. ASSUME NEW exs, orders' = Kept([orders EXCEPT ![s] = order], ents, exs, cancels)
      PROVE  LiveEntry(orders[o])
  <2>1. LiveEntry([orders EXCEPT ![s] = order][o])
    BY <1>2, <1>6 DEF Kept, LiveEntry
  <2> QED BY <1>1, <1>2, <2>1 DEF LiveEntry
<1> QED BY <1>4, <1>5, <1>6

LEMMA NextOnBooks ==
  ASSUME Steady, "lost" \notin Failing
  PROVE  Sound /\ OnBooks /\ [Next]_vars => OnBooks'
<1> SUFFICES ASSUME Sound, OnBooks, [Next]_vars PROVE OnBooks'
  OBVIOUS
<1>1. /\ orders \in [OrderId -> Order] /\ entries \in [EntryIdx -> EntryLevel]
      /\ pc \notin {"cancel", "seat"} /\ grid \in Grids
  BY DEF Sound, IInv, TypeOK, OnBooks
<1>2. CASE UNCHANGED vars
  BY <1>2, QuietOnBooks DEF vars, engineVars, OnBooks
<1>3. CASE \E p \in Prices : TickStart(p)
  BY <1>3, QuietOnBooks DEF TickStart
<1>4. CASE Scan
  <2>1. PICK i \in EntryIdx \cup ExitIdx :
          \/ ScanKeep(i) \/ EntryFilled(i) \/ ExitFilled(i) \/ EntryCanceled(i)
          \/ ExitCanceled(i)
    BY <1>4 DEF Scan
  <2>2. CASE ScanKeep(i)
    BY <2>2, QuietOnBooks DEF ScanKeep, OnBooks
  <2>3. CASE EntryFilled(i)
    <3>1. /\ orders[entries[i].oid].st = "filled" /\ UNCHANGED <<pc, tickPx>>
          /\ \A j \in EntryIdx : j # i => entries'[j] = entries[j]
      BY <1>1, <2>3 DEF EntryFilled, PlaceExitFor
    <3>2. \A o \in OrderId : LiveEntry(orders'[o]) => LiveEntry(orders[o])
      BY <2>3, PlaceExitOnBooks DEF EntryFilled, Sound
    <3> QED BY <1>1, <3>1, <3>2, OnBooksFrame DEF LiveEntry, OnBooks
  <2>4. CASE ExitFilled(i)
    <3> DEFINE e == exits[i].pair
    <3>1. /\ i \in ExitIdx /\ i \in OpenExits /\ e \in EntryIdx /\ Held(e)
      BY <2>4 DEF ExitFilled, First, Sound, IInv, WorkFresh, PairTable, OpenExits, HeldIdx
    <3>2. /\ entries' = [entries EXCEPT ![e] = Released(e)]
          /\ orders' = Kept(orders, entries', exits', cancels) /\ UNCHANGED <<pc, tickPx>>
      BY <2>4, <3>1 DEF ExitFilled
    <3>3. \A j \in EntryIdx : j # e => entries'[j] = entries[j]
      BY <1>1, <3>2
    <3>4. entries[e].oid \notin OrderId
      BY <3>1, IndexFacts DEF Held, Sound, LInv, EntriesNamed
    <3>5. \A o \in OrderId : LiveEntry(orders'[o]) => LiveEntry(orders[o])
      BY <1>1, <3>2, KeptLiveEntry
    <3> QED BY <1>1, <3>2, <3>3, <3>4, <3>5, OnBooksFrame DEF OnBooks
  <2>5. CASE EntryCanceled(i)
    <3>1. /\ orders[entries[i].oid].st = "canceled" /\ UNCHANGED <<pc, tickPx>>
          /\ \A j \in EntryIdx : j # i => entries'[j] = entries[j]
          /\ orders' = Kept(orders, entries', exits, cancels)
      BY <1>1, <2>5 DEF EntryCanceled
    <3>2. \A o \in OrderId : LiveEntry(orders'[o]) => LiveEntry(orders[o])
      BY <1>1, <3>1, KeptLiveEntry
    <3> QED BY <1>1, <3>1, <3>2, OnBooksFrame DEF LiveEntry, OnBooks
  <2>6. CASE ExitCanceled(i)
    <3>1. orders' = Kept(orders, entries, exits', cancels) /\ UNCHANGED <<pc, tickPx, entries>>
      BY <2>6 DEF ExitCanceled
    <3>2. \A o \in OrderId : LiveEntry(orders'[o]) => LiveEntry(orders[o])
      BY <1>1, <3>1, KeptLiveEntry
    <3> QED BY <1>1, <3>1, <3>2, OnBooksFrame DEF OnBooks
  <2> QED BY <2>1, <2>2, <2>3, <2>4, <2>5, <2>6
<1>5. CASE Recenter
  <2>1. CASE SkipRecenter
    BY <2>1, QuietOnBooks DEF SkipRecenter
  <2>2. CASE RecenterStart
    <3>1. Dist(tickPx, grid.center) < Threshold * grid.spacing
      BY <1>1, <2>2 DEF RecenterStart, OnBooks, Steady
    <3>2. Dist(tickPx, grid.center) >= Threshold * grid.spacing
      BY <2>2 DEF RecenterStart
    <3>3. /\ tickPx \in Int /\ grid.center \in Int /\ grid.spacing \in Int /\ Threshold \in Int
      <4>1. tickPx \in Prices /\ grid \in Grids
        BY <1>1, <2>2 DEF RecenterStart, OnBooks
      <4> QED BY <4>1, GridEngineAssumption
    <3>4. Dist(tickPx, grid.center) \in Int /\ Threshold * grid.spacing \in Int
      BY <3>3 DEF Dist
    <3> QED BY <3>1, <3>2, <3>4
  <2> QED BY <1>1, <1>5, <2>1, <2>2 DEF Recenter, RecenterCancel, RecenterBuild, SeatEntry,
                                        RecenterDone
<1>6. CASE Replace
  <2>1. ASSUME NEW i \in EntryIdx, EnsureTakeProfit(i) PROVE OnBooks'
    <3>1. PlaceExitFor(i, entries) /\ UNCHANGED <<entries, pc, tickPx>>
      BY <2>1 DEF EnsureTakeProfit, PlaceExitFor
    <3>2. \A o \in OrderId : LiveEntry(orders'[o]) => LiveEntry(orders[o])
      BY <3>1, PlaceExitOnBooks DEF Sound
    <3> QED BY <1>1, <3>1, <3>2, OnBooksFrame DEF OnBooks
  <2>2. ASSUME NEW i \in EntryIdx, PlaceMissing(i) PROVE OnBooks'
    <3> DEFINE order == NewOrder("entry", i > 0, LevelPx(i), Lots)
    <3>1. pc' = pc /\ pc = "place" /\ entries[i].st = "empty"
      BY <2>2 DEF PlaceMissing, First, Sound, IInv, WorkFresh
    <3>2. entries[i].oid \notin OrderId
      BY <3>1, IndexFacts DEF Sound, LInv, EntriesNamed
    <3>3. CASE UNCHANGED <<entries, orders>>
      BY <3>1, <3>3, QuietOnBooks
    <3>4. ASSUME NEW s \in OrderId, orders' = [orders EXCEPT ![s] = order],
                 entries' = [entries EXCEPT ![i] =
                   [st |-> "open", oid |-> s, qty |-> Lots, px |-> 0, short |-> i > 0]]
          PROVE  OnBooks'
      <4> HIDE DEF order
      <4>1. /\ \A o \in OrderId : o # s => orders'[o] = orders[o]
            /\ entries'[i].oid = s /\ \A j \in EntryIdx : j # i => entries'[j] = entries[j]
        BY <1>1, <3>4
      <4> QED BY <3>1, <3>2, <4>1 DEF OnBooks
    <3> QED BY <2>2, <3>3, <3>4 DEF PlaceMissing
  <2>3. CASE EnsureDone
    BY <2>3, QuietOnBooks DEF EnsureDone
  <2>4. CASE TickEnd
    BY <2>4, QuietOnBooks DEF TickEnd
  <2> QED BY <1>6, <2>1, <2>2, <2>3, <2>4 DEF Replace
<1>7. CASE World
  <2>1. ASSUME NEW o \in OrderId, Fill(o) PROVE OnBooks'
    <3> DEFINE r == Traded(orders[o])
               os == [orders EXCEPT ![o] = r]
    <3>1. /\ orders[o].st = "new" /\ UNCHANGED <<entries, pc, tickPx>>
          /\ orders' = Kept(os, entries, exits, cancels)
      BY <2>1 DEF Fill, engineVars
    <3>2. r \in Order /\ r.kind = orders[o].kind
      BY <1>1, <3>1, TradedFacts DEF Sound, LInv, OrderLots
    <3> HIDE DEF r
    <3>3. os \in [OrderId -> Order] /\ os[o] = r /\ \A q \in OrderId : q # o => os[q] = orders[q]
      BY <1>1, <3>2
    <3> HIDE DEF os
    <3>4. \A q \in OrderId : LiveEntry(os[q]) => LiveEntry(orders[q])
      BY <3>1, <3>2, <3>3 DEF LiveEntry
    <3>5. \A q \in OrderId : LiveEntry(orders'[q]) => LiveEntry(orders[q])
      BY <3>1, <3>3, <3>4, KeptLiveEntry
    <3> QED BY <1>1, <3>1, <3>5, OnBooksFrame DEF OnBooks
  <2>2. ASSUME NEW o \in OrderId, ManualCancel(o) PROVE OnBooks'
    <3> DEFINE os == [orders EXCEPT ![o].st = "canceled"]
    <3>1. UNCHANGED <<entries, pc, tickPx>> /\ orders' = Kept(os, entries, exits, cancels)
      BY <2>2 DEF ManualCancel, engineVars
    <3>2. os \in [OrderId -> Order]
      BY <1>1, CanceledOrders
    <3>3. \A q \in OrderId : LiveEntry(os[q]) => LiveEntry(orders[q])
      BY <1>1 DEF LiveEntry, Order
    <3> HIDE DEF os
    <3>4. \A q \in OrderId : LiveEntry(orders'[q]) => LiveEntry(orders[q])
      BY <3>1, <3>2, <3>3, KeptLiveEntry
    <3> QED BY <1>1, <3>1, <3>4, OnBooksFrame DEF OnBooks
  <2>3. ASSUME NEW i \in EntryIdx, BackoffOver(i) PROVE OnBooks'
    BY <2>3, QuietOnBooks DEF BackoffOver, OnBooks
  <2> QED BY <1>7, <2>1, <2>2, <2>3 DEF World
<1> QED BY <1>2, <1>3, <1>4, <1>5, <1>6, <1>7 DEF Next, OnTick

\* A grid whose price stays near its center accounts for every lot the
\* account holds, whatever calls fail and whatever is cancelled by hand.
THEOREM SteadyLedgerExact ==
  ASSUME Steady, Whole, "lost" \notin Failing PROVE Spec => []LedgerExact
<1> DEFINE Inv == Regular /\ OnBooks /\ \A short \in BOOLEAN : Gap(short) = 0
<1>1. Init => Inv
  <2> SUFFICES ASSUME Init PROVE OnBooks
    BY InitGap, InitRegular
  <2> QED BY LevelFacts DEF Init, OnBooks, LiveEntry
<1>2. Inv /\ [Next]_vars => Inv'
  <2> SUFFICES ASSUME Inv, [Next]_vars PROVE Inv'
    OBVIOUS
  <2>1. Regular' /\ GapStep /\ OnBooks' /\ AllUncut /\ AllNamed(exits, orders)
    BY NextRegular, NextOnBooks, RegularUncut DEF Regular
  <2>2. ~Escape
    BY DEF Escape, OnBooks, Orphan, LiveEntry
  <2>3. \A short \in BOOLEAN : Gap(short)' \in Int
    BY <2>1, GapIsBooksNext DEF Regular, Sound, GapCounted
  <2>4. \A short \in BOOLEAN : Gap(short)' <= 0 /\ Gap(short)' >= 0
    BY <2>1, <2>2, <2>3 DEF GapStep
  <2> QED BY <2>1, <2>3, <2>4
<1>3. Inv => LedgerExact
  <2> SUFFICES ASSUME Inv, NEW short \in BOOLEAN PROVE Believed(short) = pos[short]
    BY DEF LedgerExact
  <2>1. Believed(short) \in Int /\ pos[short] \in Int
    BY GapIsBooks, BelievedIsBooks, SumTypes DEF Regular, Sound, IInv, TypeOK
  <2> QED BY <2>1 DEF Gap
<1> QED BY <1>1, <1>2, <1>3, PTL DEF Spec

-----------------------------------------------------------------------------
(* What the take-profit orders may still close                             *)

\* What the live take-profit orders no level names want to close.
LooseAt(exs, os, o, short) ==
  IF LiveExit(os[o]) /\ os[o].short = short /\ ~Named(exs, o)
  THEN os[o].qty - os[o].filled ELSE 0
LooseSum(exs, os, short) ==
  SumFunctionOnSet([o \in OrderId |-> LooseAt(exs, os, o, short)], OrderId)
Loose(short) == LooseSum(exits, orders, short)

\* The exit levels of live orders.
LiveBy(short) == {x \in ExitsBy(short) : orders[exits[x].oid].st = "new"}

LEMMA ExitsByFacts ==
  ASSUME Sound, NEW short
  PROVE  /\ ExitsBy(short) \subseteq ExitIdx /\ IsFiniteSet(ExitsBy(short))
         /\ LiveBy(short) \in SUBSET ExitsBy(short) /\ IsFiniteSet(LiveBy(short))
         /\ \A x \in ExitsBy(short) : /\ exits[x].oid \in OrderId /\ exits[x].st = "open"
                                       /\ NamesExit(exits[x], orders) /\ exits[x].short = short
                                       /\ exits[x].qty \in Nat /\ Untraded(exits[x].oid) \in Nat
<1>1. /\ ExitsNamed(exits, orders) /\ OrderLots(orders) /\ orders \in [OrderId -> Order]
      /\ exits \in [ExitIdx -> ExitLevel]
  BY DEF Sound, LInv, IInv, TypeOK
<1>2. ExitsBy(short) \subseteq ExitIdx /\ LiveBy(short) \subseteq ExitsBy(short)
  BY DEF ExitsBy, OpenExits, LiveBy
<1>3. IsFiniteSet(ExitsBy(short)) /\ IsFiniteSet(LiveBy(short))
  BY <1>2, IndexSetsFinite, FS_Subset
<1>4. ASSUME NEW x \in ExitsBy(short)
      PROVE  /\ exits[x].oid \in OrderId /\ exits[x].st = "open"
             /\ NamesExit(exits[x], orders) /\ exits[x].short = short
             /\ exits[x].qty \in Nat /\ Untraded(exits[x].oid) \in Nat
  <2>1. /\ exits[x].oid \in OrderId /\ exits[x].st = "open"
        /\ NamesExit(exits[x], orders) /\ exits[x].short = short
        /\ exits[x].qty \in Nat /\ orders[exits[x].oid].st # "none"
    BY <1>1 DEF ExitsNamed, NamesExit, ExitsBy, OpenExits, ExitLevel
  <2> QED BY <1>1, <2>1 DEF OrderLots, OrderOk, Untraded, Order
<1> QED BY <1>2, <1>3, <1>4

\* The live take-profit orders are those of exit levels and the loose ones.
LEMMA ClosingSplit ==
  ASSUME Sound, NEW short \in BOOLEAN
  PROVE  LET U == [x \in ExitsBy(short) |-> Untraded(exits[x].oid)]
         IN  /\ Closing(short) = Loose(short) + SumFunctionOnSet(U, LiveBy(short))
             /\ SumFunctionOnSet(U, LiveBy(short)) <= SumFunctionOnSet(U, ExitsBy(short))
             /\ Closing(short) \in Nat /\ Loose(short) \in Nat
             /\ SumFunctionOnSet(U, LiveBy(short)) \in Nat
             /\ SumFunctionOnSet(U, ExitsBy(short)) \in Nat
<1> DEFINE E == ExitsBy(short)
           L == LiveBy(short)
           T == LiveExits(short)
           M == {exits[x].oid : x \in L}
           U == [x \in E |-> Untraded(exits[x].oid)]
           m == [x \in L |-> exits[x].oid]
           g == [o \in T |-> Untraded(o)]
           c == [o \in OrderId |-> IF o \in T THEN Untraded(o) ELSE 0]
           l == [o \in OrderId |-> LooseAt(exits, orders, o, short)]
           n == [o \in OrderId |-> IF o \in M THEN Untraded(o) ELSE 0]
           w == [o \in M |-> Untraded(o)]
<1>1. ExitsNamed(exits, orders) /\ OrderLots(orders) /\ orders \in [OrderId -> Order]
  BY DEF Sound, LInv, IInv, TypeOK
<1>2. /\ E \subseteq ExitIdx /\ IsFiniteSet(E) /\ L \in SUBSET E /\ IsFiniteSet(L)
      /\ \A x \in E : /\ exits[x].oid \in OrderId /\ exits[x].st = "open"
                      /\ NamesExit(exits[x], orders) /\ exits[x].short = short
                      /\ Untraded(exits[x].oid) \in Nat
  BY ExitsByFacts
<1>3. \A o \in OrderId : o \in T <=> LiveExit(orders[o]) /\ orders[o].short = short
  BY DEF LiveExits, LiveExit
<1>4. \A o \in T : o \in OrderId /\ Untraded(o) \in Nat
                  /\ Untraded(o) = orders[o].qty - orders[o].filled
  BY <1>1, <1>3 DEF LiveExits, OrderLots, OrderOk, Untraded, Order
<1>5. M \subseteq T /\ \A o \in T : o \in M <=> Named(exits, o)
  <2>1. M \subseteq T
    BY <1>2 DEF LiveBy, LiveExits, NamesExit
  <2>2. ASSUME NEW o \in T, Named(exits, o) PROVE o \in M
    <3>1. PICK x \in ExitIdx : exits[x].st = "open" /\ exits[x].oid = o
      BY <2>2 DEF Named
    <3>2. NamesExit(exits[x], orders)
      BY <1>1, <3>1 DEF ExitsNamed
    <3>3. x \in L
      BY <3>1, <3>2 DEF LiveBy, ExitsBy, OpenExits, NamesExit, LiveExits
    <3> QED BY <3>1, <3>3
  <2>3. ASSUME NEW x \in L PROVE Named(exits, exits[x].oid)
    BY <1>2 DEF Named
  <2> QED BY <2>1, <2>2, <2>3
<1>6. \A x, y \in L : m[x] = m[y] => x = y
  BY <1>1, <1>2 DEF ExitsNamed
<1>7. (\A x \in L : m[x] \in M) /\ \A o \in M : \E x \in L : o = m[x]
  OBVIOUS
<1>8. \A x \in L : U[x] \in Int /\ w[m[x]] = U[x]
  BY <1>2
<1>9. /\ \A o \in OrderId : c[o] \in Nat /\ l[o] \in Nat /\ n[o] \in Nat /\ n[o] = c[o] - l[o]
      /\ \A o \in T : g[o] \in Int /\ c[o] = g[o]
      /\ \A o \in OrderId : o \notin T => c[o] = 0
      /\ \A o \in M : w[o] \in Int /\ n[o] = w[o]
      /\ \A o \in OrderId : o \notin M => n[o] = 0
  BY <1>3, <1>4, <1>5 DEF LooseAt
<1>10. T \subseteq OrderId /\ M \subseteq OrderId /\ DOMAIN g = T
  BY <1>4, <1>5
<1>11. \A x \in E : U[x] \in Nat
  BY <1>2
<1>12. Closing(short) = SumFunction(g) /\ Loose(short) = SumFunctionOnSet(l, OrderId)
  BY DEF Closing, Loose, LooseSum
<1> HIDE DEF E, L, T, M, U, m, g, c, l, n, w
<1>13. SumFunction(g) = SumFunctionOnSet(g, T)
  BY <1>10, SumOver
<1>14. SumFunctionOnSet(g, T) = SumFunctionOnSet(c, OrderId)
  BY <1>9, <1>10, IndexSetsFinite, SumPadded
<1>15. SumFunctionOnSet(n, OrderId) = SumFunctionOnSet(c, OrderId) - SumFunctionOnSet(l, OrderId)
  BY <1>9, IndexSetsFinite, SumMinus
<1>16. SumFunctionOnSet(w, M) = SumFunctionOnSet(n, OrderId)
  BY <1>9, <1>10, IndexSetsFinite, SumPadded
<1>17. SumFunctionOnSet(w, M) = SumFunctionOnSet(U, L)
  <2>1. IsFiniteSet(L)
    BY <1>2
  <2> QED BY <2>1, <1>6, <1>7, <1>8, SumRenamed
<1>18. SumFunctionOnSet(U, L) <= SumFunctionOnSet(U, E)
  BY <1>2, <1>11, SumSubset
<1>19. /\ SumFunctionOnSet(U, L) \in Nat /\ SumFunctionOnSet(U, E) \in Nat
       /\ SumFunctionOnSet(c, OrderId) \in Nat /\ SumFunctionOnSet(l, OrderId) \in Nat
  BY <1>2, <1>9, <1>11, IndexSetsFinite, SumNat
<1> QED BY <1>12, <1>13, <1>14, <1>15, <1>16, <1>17, <1>18, <1>19 DEF U, E, L

\* With every live take-profit order named, none is loose.
LEMMA LooseNone ==
  ASSUME AllNamed(exits, orders), NEW short PROVE Loose(short) = 0
<1> DEFINE l == [o \in OrderId |-> LooseAt(exits, orders, o, short)]
<1>1. \A o \in OrderId : l[o] = 0
  BY DEF LooseAt, AllNamed
<1> HIDE DEF l
<1>2. SumFunctionOnSet(l, OrderId) = 0
  BY <1>1, IndexSetsFinite, SumZero
<1> QED BY <1>2 DEF Loose, LooseSum, l

\* The exit levels are paired with positions of their size, one each.
PairedIdx(short) == {exits[x].pair : x \in ExitsBy(short)}

LEMMA PairedSum ==
  ASSUME Sound, pc # "seat", NEW short \in BOOLEAN
  PROVE  LET Q == [x \in ExitsBy(short) |-> exits[x].qty]
             f == [i \in EntryIdx |-> HeldAt(entries[i], short)]
         IN  /\ SumFunctionOnSet(f, PairedIdx(short)) = SumFunctionOnSet(Q, ExitsBy(short))
             /\ PairedIdx(short) \in SUBSET EntryIdx
             /\ \A i \in EntryIdx : f[i] \in Nat
<1> DEFINE E == ExitsBy(short)
           Q == [x \in E |-> exits[x].qty]
           m == [x \in E |-> exits[x].pair]
           T == PairedIdx(short)
           f == [i \in EntryIdx |-> HeldAt(entries[i], short)]
<1>1. PairOnce /\ PairTable /\ Countable(entries, toSeat, exits, orders)
  BY GapIsBooks DEF Sound, IInv
<1>2. E \subseteq ExitIdx /\ IsFiniteSet(E) /\ E \subseteq OpenExits
  <2>1. E \subseteq ExitIdx /\ E \subseteq OpenExits BY DEF ExitsBy, OpenExits
  <2> QED BY <2>1, IndexSetsFinite, FS_Subset
<1>3. \A x \in E : /\ exits[x].pair \in HeldIdx /\ exits[x].short = short
                   /\ entries[exits[x].pair].short = short
                   /\ entries[exits[x].pair].qty = exits[x].qty
  BY <1>1, <1>2 DEF PairTable, Serves, ExitsBy
<1>4. \A i \in EntryIdx : f[i] \in Nat
  BY <1>1, AtTypes
<1>5. T \in SUBSET EntryIdx
  BY <1>3 DEF HeldIdx, PairedIdx
<1>6. \A x, y \in E : m[x] = m[y] => x = y
  BY <1>1, <1>2 DEF PairOnce
<1>7. (\A x \in E : m[x] \in T) /\ \A i \in T : \E x \in E : i = m[x]
  BY DEF PairedIdx
<1>8. \A x \in E : Q[x] \in Int /\ f[m[x]] = Q[x]
  <2> SUFFICES ASSUME NEW x \in E PROVE exits[x].qty \in Int /\ f[exits[x].pair] = exits[x].qty
    OBVIOUS
  <2>1. exits[x].pair \in EntryIdx /\ entries[exits[x].pair].st = "held"
    BY <1>3 DEF HeldIdx, Held
  <2>2. f[exits[x].pair] = entries[exits[x].pair].qty
    BY <1>3, <2>1 DEF HeldAt
  <2> QED BY <1>3, <1>4, <2>1, <2>2
<1> HIDE DEF E, Q, m, T, f
<1>9. SumFunctionOnSet(f, T) = SumFunctionOnSet(Q, E)
  BY <1>2, <1>6, <1>7, <1>8, SumRenamed
<1> QED BY <1>4, <1>5, <1>9 DEF E, Q, T, f

\* So together they are no larger than the positions.
LEMMA PairedWithin ==
  ASSUME Sound, pc # "seat", NEW short \in BOOLEAN
  PROVE  LET Q == [x \in ExitsBy(short) |-> exits[x].qty]
         IN  SumFunctionOnSet(Q, ExitsBy(short)) <= HeldSum(entries, short)
<1> DEFINE Q == [x \in ExitsBy(short) |-> exits[x].qty]
           f == [i \in EntryIdx |-> HeldAt(entries[i], short)]
<1>1. /\ SumFunctionOnSet(f, PairedIdx(short)) = SumFunctionOnSet(Q, ExitsBy(short))
      /\ PairedIdx(short) \in SUBSET EntryIdx
      /\ \A i \in EntryIdx : f[i] \in Nat
  BY PairedSum
<1> HIDE DEF Q, f
<1>2. SumFunctionOnSet(f, PairedIdx(short)) <= SumFunctionOnSet(f, EntryIdx)
  BY <1>1, IndexSetsFinite, SumSubset
<1> QED BY <1>1, <1>2 DEF HeldSum, Q, f

\* So the take-profit orders want no more than the engine believes in, but
\* for the loose ones.
LEMMA ClosingBelieved ==
  ASSUME Sound, pc # "seat", NEW short \in BOOLEAN
  PROVE  Closing(short) <= Loose(short) + Believed(short)
<1> DEFINE E == ExitsBy(short)
           Q == [x \in E |-> exits[x].qty]
           U == [x \in E |-> Untraded(exits[x].oid)]
           h == [x \in E |-> exits[x].qty - Untraded(exits[x].oid)]
<1>1. Countable(entries, toSeat, exits, orders)
  BY GapIsBooks DEF Sound
<1>2. IsFiniteSet(E) /\ \A x \in E : x \in ExitIdx /\ exits[x].oid \in OrderId
  <2>1. E \subseteq ExitIdx BY DEF ExitsBy, OpenExits
  <2>2. IsFiniteSet(E) BY <2>1, IndexSetsFinite, FS_Subset
  <2> QED BY <1>1, <2>1, <2>2 DEF ExitsBy, OpenExits, Countable
<1>3. \A x \in E : Q[x] \in Int /\ U[x] \in Int /\ h[x] = Q[x] - U[x]
  BY <1>1, <1>2 DEF Countable, ExitLevel, Order, Untraded
<1>4. Leaving(short) = SumFunction(h) /\ DOMAIN h = E
  BY DEF Leaving
<1>5. /\ Closing(short) <= Loose(short) + SumFunctionOnSet(U, E)
      /\ Closing(short) \in Int /\ Loose(short) \in Int
  <2>1. /\ Closing(short) = Loose(short) + SumFunctionOnSet(U, LiveBy(short))
        /\ SumFunctionOnSet(U, LiveBy(short)) <= SumFunctionOnSet(U, E)
        /\ Closing(short) \in Nat /\ Loose(short) \in Nat
        /\ SumFunctionOnSet(U, LiveBy(short)) \in Nat /\ SumFunctionOnSet(U, E) \in Nat
    BY ClosingSplit
  <2> HIDE DEF U
  <2> QED BY <2>1
<1>6. SumFunctionOnSet(Q, E) <= HeldSum(entries, short)
  BY PairedWithin
<1> HIDE DEF E, Q, U, h
<1>7. SumFunctionOnSet(h, E) = SumFunctionOnSet(Q, E) - SumFunctionOnSet(U, E)
  BY <1>2, <1>3, SumMinus
<1>8. SumFunctionOnSet(Q, E) \in Int /\ SumFunctionOnSet(U, E) \in Int
  BY <1>2, <1>3, SumInt
<1>9. SumFunction(h) = SumFunctionOnSet(h, E)
  BY <1>4, SumOver
<1>10. /\ HeldSum(entries, short) \in Nat /\ MovingSum(toSeat, short) \in Nat
       /\ OpenSum(entries, orders, short) \in Nat
  BY <1>1, SumTypes
<1>11. Tracked(short) = HeldSum(entries, short) + MovingSum(toSeat, short)
  BY <1>1, BelievedIsBooks
<1>12. Arriving(short) \in Nat
  BY <1>1, <1>10, BelievedIsBooks
<1> QED BY <1>4, <1>5, <1>6, <1>7, <1>8, <1>9, <1>10, <1>11, <1>12 DEF Believed

\* Moving the positions changes neither the account nor the live orders.
LEMMA SeatingKeeps ==
  ASSUME Sound, [Next]_vars, pc' = "seat"
  PROVE  pos' = pos /\ \A short \in BOOLEAN : Closing(short)' = Closing(short)
<1>1. CASE UNCHANGED <<orders, pos>>
  BY <1>1 DEF Closing, LiveExits, Untraded
<1>2. CASE \E g \in Grids : RecenterBuild(g)
  <2>1. /\ pos' = pos /\ orders \in [OrderId -> Order]
        /\ orders' = Kept(orders, entries', exits, cancels)
    BY <1>2 DEF RecenterBuild, Sound, IInv, TypeOK
  <2>2. \A o \in OrderId : \/ orders'[o] = orders[o]
                           \/ orders'[o].st # "new" /\ orders[o].st # "new"
    BY <2>1, LevelFacts DEF Kept
  <2>3. ASSUME NEW short \in BOOLEAN PROVE Closing(short)' = Closing(short)
    <3> DEFINE T == LiveExits(short)
               T2 == {o \in OrderId : /\ orders'[o].st = "new" /\ orders'[o].kind = "exit"
                                      /\ orders'[o].short = short}
    <3>1. T2 = T
      BY <2>2 DEF LiveExits
    <3>2. \A o \in T : orders'[o] = orders[o]
      BY <2>2 DEF LiveExits
    <3>3. [o \in T2 |-> orders'[o].qty - orders'[o].filled]
            = [o \in T |-> orders[o].qty - orders[o].filled]
      BY <3>1, <3>2
    <3> QED BY <3>3 DEF Closing, LiveExits, Untraded
  <2> QED BY <2>1, <2>3
<1>3. CASE UNCHANGED vars
  BY <1>1, <1>3 DEF vars, engineVars
<1>4. CASE Next /\ ~ \E g \in Grids : RecenterBuild(g)
  <2>1. UNCHANGED <<orders, pos>>
    BY <1>4 DEF Next, OnTick, TickStart, Scan, ScanKeep, EntryFilled, ExitFilled, EntryCanceled,
                ExitCanceled, Recenter, SkipRecenter, RecenterStart, RecenterCancel, SeatEntry,
                RecenterDone, Replace, EnsureTakeProfit, PlaceMissing, EnsureDone, TickEnd,
                World, Fill, ManualCancel, BackoffOver, ExchangeActs, engineVars
  <2> QED BY <1>1, <2>1
<1> QED BY <1>2, <1>3, <1>4

\* The take-profit orders together never close more than the account holds,
\* in no state of a tick or of recenter, under the same conditions.
THEOREM ExitsNeverOvershoot ==
  ASSUME Whole, "lost" \notin Failing PROVE Spec => []ExitsWithinPosition
<1> DEFINE Inv == /\ Regular /\ \A short \in BOOLEAN : Gap(short) \in Nat
                  /\ ExitsWithinPosition
<1>1. Regular /\ (\A short \in BOOLEAN : Gap(short) \in Nat) /\ pc # "seat"
        => ExitsWithinPosition
  <2> SUFFICES ASSUME Regular, \A short \in BOOLEAN : Gap(short) \in Nat, pc # "seat",
                      NEW short \in BOOLEAN
               PROVE  Closing(short) <= pos[short]
    BY DEF ExitsWithinPosition
  <2>1. Believed(short) \in Int /\ pos[short] \in Int
    BY GapIsBooks, BelievedIsBooks, SumTypes DEF Regular, Sound, IInv, TypeOK
  <2>2. Closing(short) <= Loose(short) + Believed(short) /\ Closing(short) \in Nat
    BY ClosingBelieved, ClosingSplit DEF Regular
  <2>3. Loose(short) = 0
    BY LooseNone DEF Regular
  <2> QED BY <2>1, <2>2, <2>3 DEF Gap
<1>2. Init => Inv
  BY <1>1, InitGap, InitRegular DEF Init
<1>3. Inv /\ [Next]_vars => Inv'
  <2> SUFFICES ASSUME Inv, [Next]_vars PROVE Inv'
    OBVIOUS
  <2>1. Regular' /\ GapStep /\ AllUncut /\ AllNamed(exits, orders)
    BY NextRegular, RegularUncut DEF Regular
  <2>2. \A short \in BOOLEAN : Gap(short)' \in Int
    BY <2>1, GapIsBooksNext DEF Regular, Sound, GapCounted
  <2>3. \A short \in BOOLEAN : Gap(short)' \in Nat
    BY <2>1, <2>2 DEF GapStep
  <2>4. CASE pc' = "seat"
    <3>1. pos' = pos /\ \A short \in BOOLEAN : Closing(short)' = Closing(short)
      BY <2>4, SeatingKeeps DEF Regular
    <3> QED BY <2>1, <2>3, <3>1 DEF ExitsWithinPosition
  <2>5. CASE pc' # "seat"
    <3>1. (Regular /\ (\A short \in BOOLEAN : Gap(short) \in Nat) /\ pc # "seat"
             => ExitsWithinPosition)'
      BY <1>1, PTL
    <3> QED BY <2>1, <2>3, <2>5, <3>1
  <2> QED BY <2>4, <2>5
<1> QED BY <1>2, <1>3, PTL DEF Spec

-----------------------------------------------------------------------------
(* Crashes and restarts: what the level table keeps                        *)

USE GridRestartAssumption

LEMMA NoLotsType == NoLots \in [BOOLEAN -> Nat]
BY DEF NoLots

\* A step after which the orders still to be visited are some of those of
\* before, and which neither forgets nor rewrites an order, keeps what is
\* known of them.
LEMMA CancelsFrame ==
  ASSUME RInv, NEW os, NEW ents, NEW exs,
         orders' = Kept(os, ents, exs, cancels'),
         \A o \in OrderId : os[o].kind = orders[o].kind,
         \A o \in OrderId : orders[o].st # "none" =>
           os[o].st # "none" /\ os[o].px = orders[o].px,
         cancels' \subseteq cancels, leftover' \subseteq leftover,
         \A r \in leftover' : r.oid \in cancels',
         pc' = pc
  PROVE  LeftoverKept' /\ CancelsEntries'
<1>1. cancels \subseteq OrderId
  BY DEF RInv, IInv, TypeOK
<1>2. \A o \in cancels' : orders'[o] = os[o]
  BY <1>1, KeptMore
<1>3. CancelsEntries'
  BY <1>1, <1>2 DEF RInv, CancelsEntries
<1>4. LeftoverKept'
  BY <1>1, <1>2 DEF RInv, LeftoverKept
<1>5. QED
  BY <1>3, <1>4

\* The same for a step that leaves the orders alone.
LEMMA LeftoverFrame ==
  ASSUME RInv, UNCHANGED <<orders, cancels, pc>>, leftover' \subseteq leftover
  PROVE  LeftoverKept' /\ CancelsEntries'
BY DEF RInv, LeftoverKept, CancelsEntries

\* A step that changes neither the engine nor the exchange.
LEMMA EngineFrame == ASSUME IInv, UNCHANGED vars PROVE IInv'
BY NextIInv

-----------------------------------------------------------------------------
(* The initial state, the running engine, and the exchange                 *)

LEMMA InitRInv == RInit => RInv
<1> SUFFICES ASSUME RInit PROVE RInv
  OBVIOUS
<1>1. IInv
  BY InitIInv DEF RInit
<1>2. RTypeOK
  <2>1. 0 \in 0 .. MaxCrashes
    BY DEF GridRestartAssumption
  <2>2. QED
    BY <2>1, NoLotsType DEF RInit, RTypeOK
<1>3. StageTable /\ LeftoverKept /\ CancelsEntries
  BY DEF RInit, Init, StageTable, LeftoverKept, CancelsEntries
<1>4. QED
  BY <1>1, <1>2, <1>3 DEF RInv

\* While recenter cancels, what it has chosen stays an entry order.
LEMMA OnTickCancels == ASSUME RInv, OnTick PROVE CancelsEntries'
<1>1. CASE RecenterStart
  BY <1>1 DEF RecenterStart, ToCancel, EntryOrders, CancelsEntries
<1>2. CASE \E o \in OrderId : RecenterCancel(o)
  <2>1. PICK o \in OrderId : RecenterCancel(o)
    BY <1>2
  <2> DEFINE os == IF orders' = Kept([orders EXCEPT ![o].st = "canceled"], entries, exits, cancels')
                   THEN [orders EXCEPT ![o].st = "canceled"] ELSE orders
  <2>2. \A q \in OrderId : os[q].kind = orders[q].kind
    BY DEF RInv, IInv, TypeOK, Order
  <2>3. orders' = Kept(os, entries, exits, cancels') /\ cancels' \subseteq cancels
        /\ cancels' \subseteq OrderId /\ pc = "cancel"
    BY <2>1 DEF RecenterCancel, RInv, IInv, TypeOK
  <2> HIDE DEF os
  <2>4. \A q \in cancels' : orders'[q].kind = orders[q].kind
    BY <2>2, <2>3, KeptMore
  <2>5. QED
    BY <2>3, <2>4 DEF RInv, CancelsEntries
<1>3. CASE ~RecenterStart /\ \A o \in OrderId : ~RecenterCancel(o)
  <2>1. pc' # "cancel"
    <3>1. CASE \E p \in Prices : TickStart(p)
      BY <3>1 DEF TickStart
    <3>2. CASE Scan
      BY <3>2 DEF Scan, ScanKeep, EntryFilled, ExitFilled, EntryCanceled, ExitCanceled
    <3>3. CASE Recenter
      BY <3>3, <1>3 DEF Recenter, SkipRecenter, RecenterBuild, SeatEntry, RecenterDone
    <3>4. CASE Replace
      BY <3>4 DEF Replace, EnsureTakeProfit, PlaceMissing, EnsureDone, TickEnd
    <3>5. QED
      BY <3>1, <3>2, <3>3, <3>4 DEF OnTick
  <2>2. QED
    BY <2>1 DEF CancelsEntries
<1>4. QED
  BY <1>1, <1>2, <1>3

LEMMA OnTickRInv ==
  ASSUME RInv, UNCHANGED market, stage = "up", OnTick, blind' \in BOOLEAN,
         UNCHANGED <<stage, leftover, adopted, view, quiet, crashes>>
  PROVE  RInv'
<1>1. IInv'
  BY NextIInv DEF RInv, Next
<1>2. leftover = {}
  BY DEF RInv, StageTable
<1>3. RTypeOK'
  BY DEF RInv, RTypeOK
<1>4. StageTable' /\ LeftoverKept'
  BY <1>2 DEF StageTable, LeftoverKept
<1>5. QED
  BY <1>1, <1>3, <1>4, OnTickCancels DEF RInv

LEMMA WorldRInv ==
  ASSUME RInv, UNCHANGED market, World, quiet' \in BOOLEAN,
         UNCHANGED <<stage, leftover, adopted, view, blind, crashes>>
  PROVE  RInv'
<1>1. IInv'
  BY NextIInv DEF RInv, Next
<1>2. RTypeOK'
  BY DEF RInv, RTypeOK
<1>3. UNCHANGED <<pc, toSeat, exits, cancels>>
  BY DEF World, Fill, ManualCancel, BackoffOver, engineVars
<1>4. StageTable'
  BY <1>3 DEF RInv, StageTable, OpenExits
<1>5. LeftoverKept' /\ CancelsEntries'
  <2>1. orders \in [OrderId -> Order]
    BY DEF RInv, IInv, TypeOK
  <2>2. ASSUME NEW o \in OrderId, Fill(o) PROVE LeftoverKept' /\ CancelsEntries'
    <3> DEFINE os == [orders EXCEPT ![o] = Traded(orders[o])]
    <3>1. /\ \A q \in OrderId : os[q].kind = orders[q].kind
          /\ \A q \in OrderId : orders[q].st # "none" =>
               os[q].st # "none" /\ os[q].px = orders[q].px
      BY <2>1 DEF Order, Traded
    <3>2. orders' = Kept(os, entries, exits, cancels')
      BY <2>2 DEF Fill, engineVars
    <3> HIDE DEF os
    <3>3. QED
      BY <1>3, <3>1, <3>2, CancelsFrame DEF RInv, LeftoverKept
  <2>3. ASSUME NEW o \in OrderId, ManualCancel(o) PROVE LeftoverKept' /\ CancelsEntries'
    <3> DEFINE os == [orders EXCEPT ![o].st = "canceled"]
    <3>1. /\ \A q \in OrderId : os[q].kind = orders[q].kind
          /\ \A q \in OrderId : orders[q].st # "none" =>
               os[q].st # "none" /\ os[q].px = orders[q].px
      BY <2>1 DEF Order
    <3>2. orders' = Kept(os, entries, exits, cancels')
      BY <2>3 DEF ManualCancel, engineVars
    <3> HIDE DEF os
    <3>3. QED
      BY <1>3, <3>1, <3>2, CancelsFrame DEF RInv, LeftoverKept
  <2>4. ASSUME NEW i \in EntryIdx, BackoffOver(i) PROVE LeftoverKept' /\ CancelsEntries'
    BY <2>4, LeftoverFrame DEF BackoffOver
  <2>5. QED
    BY <2>2, <2>3, <2>4 DEF World
<1>6. QED
  BY <1>1, <1>2, <1>4, <1>5 DEF RInv

-----------------------------------------------------------------------------
(* Dying, and building the grid anew                                       *)

LEMMA CrashRInv == ASSUME RInv, UNCHANGED market, Crash PROVE RInv'
<1>1. /\ entries' = [i \in EntryIdx |-> NoLevel]
      /\ exits' = [x \in ExitIdx |-> NoExit]
      /\ retry' = {} /\ pc' = "idle" /\ tickPx' = NoPx /\ todo' = {} /\ cancels' = {}
      /\ toSeat' = {} /\ oldToNew' = [i \in EntryIdx |-> NoId]
      /\ orders' = Kept(orders, entries', exits', cancels')
      /\ UNCHANGED <<grid, lossBooked, pos>>
  BY DEF Crash
<1>2. OpenExits' = {} /\ \A i \in EntryIdx : entries'[i].st = "none"
  BY <1>1, LevelFacts DEF OpenExits
<1>3. TypeOK'
  <2>1. orders' \in [OrderId -> Order]
    BY <1>1, KeptFacts DEF RInv, IInv, TypeOK
  <2>2. entries' \in [EntryIdx -> EntryLevel] /\ exits' \in [ExitIdx -> ExitLevel]
    BY <1>1, LevelFacts
  <2>3. QED
    BY <1>1, <2>1, <2>2 DEF RInv, IInv, TypeOK
<1>4. IInv'
  BY <1>1, <1>2, <1>3 DEF RInv, IInv, OpenRefs, WorkFresh, PairOnce, PairTable, SeatTable,
                          NoLossBooked
<1>5. RTypeOK'
  <2>1. crashes' \in 0 .. MaxCrashes
    BY DEF Crash, RInv, RTypeOK, GridRestartAssumption
  <2>2. QED
    BY <2>1, NoLotsType DEF Crash, RInv, RTypeOK
<1>6. StageTable' /\ LeftoverKept' /\ CancelsEntries'
  BY <1>1, <1>2 DEF Crash, StageTable, LeftoverKept, CancelsEntries
<1>7. QED
  BY <1>4, <1>5, <1>6 DEF RInv

LEMMA BuildRInv == ASSUME RInv, UNCHANGED market, NEW g \in Grids, NEW p \in Prices, Build(g, p) PROVE RInv'
<1>1. /\ stage = "down" /\ stage' = "list" /\ grid' = g /\ tickPx' = p
      /\ entries' = BuildLevels
      /\ UNCHANGED <<exits, retry, pc, todo, cancels, toSeat, oldToNew, lossBooked, orders,
                     pos, leftover, adopted, view, blind, crashes>>
  BY DEF Build
<1>2. pc = "idle" /\ toSeat = {} /\ OpenExits = {} /\ leftover = {}
  BY <1>1 DEF RInv, StageTable
<1>3. OpenExits' = {} /\ \A i \in EntryIdx : entries'[i].st \in {"none", "empty"}
  BY <1>1, <1>2, LevelFacts DEF OpenExits
<1>4. TypeOK'
  <2>1. entries' \in [EntryIdx -> EntryLevel]
    BY <1>1, LevelFacts
  <2>2. QED
    BY <1>1, <2>1 DEF RInv, IInv, TypeOK
<1>5. IInv'
  BY <1>1, <1>2, <1>3, <1>4 DEF RInv, IInv, OpenRefs, WorkFresh, PairOnce, PairTable,
                                SeatTable, NoLossBooked
<1>6. RTypeOK'
  BY <1>1 DEF Build, RInv, RTypeOK
<1>7. StageTable' /\ LeftoverKept' /\ CancelsEntries'
  BY <1>1, <1>2 DEF StageTable, LeftoverKept, CancelsEntries
<1>8. QED
  BY <1>5, <1>6, <1>7 DEF RInv

-----------------------------------------------------------------------------
(* Listing, cancelling and adopting                                        *)

\* What is listed for adoption has the type of a leftover.
LEMMA AsLeftoverType ==
  ASSUME TypeOK, NEW o \in Adoptable
  PROVE  /\ AsLeftover(o) \in Leftover /\ AsLeftover(o).oid = o
         /\ AsLeftover(o).px = orders[o].px
         /\ orders[o].kind = "exit" /\ orders[o].st # "none"
<1>1. o \in OrderId /\ orders[o] \in Order /\ orders[o].kind = "exit" /\ orders[o].st = "new"
      /\ Untraded(o) > 0
  BY DEF Adoptable, OursListed, Listed, TypeOK
<1>2. Untraded(o) \in Nat
  BY <1>1 DEF Untraded, Order
<1>3. QED
  BY <1>1, <1>2 DEF AsLeftover, Leftover, Order

\* A step of Initialize that touches neither the tables nor the orders.
LEMMA ListingFrame ==
  ASSUME IInv, pc = "idle", cancels' \subseteq OrderId,
         UNCHANGED <<entries, exits, grid, retry, pc, tickPx, todo, toSeat, oldToNew,
                     lossBooked, orders, pos>>
  PROVE  IInv'
<1>1. TypeOK'
  BY DEF IInv, TypeOK
<1>2. WorkFresh'
  BY WorkFrame
<1>3. Tables'
  BY TablesFrame
<1>4. QED
  BY <1>1, <1>2, <1>3 DEF IInv, Tables

LEMMA ListOrdersRInv == ASSUME RInv, UNCHANGED market, ListOrders PROVE RInv'
<1>1. /\ stage = "list" /\ stage' \in {"clear", "recheck"}
      /\ UNCHANGED <<entries, exits, grid, retry, pc, tickPx, todo, toSeat, oldToNew,
                     lossBooked, orders, pos, adopted, view, crashes>>
  BY DEF ListOrders
<1>2. pc = "idle" /\ toSeat = {} /\ leftover = {}
  BY <1>1 DEF RInv, StageTable
<1>3. \/ stage' = "clear" /\ cancels' = OursListed
         /\ leftover' = {AsLeftover(o) : o \in Adoptable} /\ UNCHANGED <<quiet, blind>>
      \/ stage' = "recheck" /\ quiet' = FALSE /\ blind' = TRUE /\ UNCHANGED <<cancels, leftover>>
  BY DEF ListOrders
<1>4. IInv'
  <2>1. cancels' \subseteq OrderId
    BY <1>3 DEF OursListed, RInv, IInv, TypeOK
  <2>2. QED
    BY <1>1, <1>2, <2>1, ListingFrame DEF RInv
<1>5. \A o \in Adoptable : /\ AsLeftover(o) \in Leftover /\ AsLeftover(o).oid = o
                           /\ AsLeftover(o).px = orders[o].px
                           /\ orders[o].kind = "exit" /\ orders[o].st # "none"
                           /\ o \in OursListed
  BY AsLeftoverType DEF RInv, IInv, Adoptable
<1>6. RTypeOK'
  <2>1. leftover' \subseteq Leftover
    BY <1>2, <1>3, <1>5
  <2>2. QED
    BY <1>1, <1>3, <2>1 DEF RInv, RTypeOK
<1>7. StageTable' /\ CancelsEntries'
  BY <1>1, <1>2, <1>3 DEF StageTable, CancelsEntries
<1>8. LeftoverKept'
  BY <1>1, <1>2, <1>3, <1>5 DEF LeftoverKept
<1>9. QED
  BY <1>4, <1>6, <1>7, <1>8 DEF RInv

\* A step of Initialize that may end orders but leaves the tables alone.
LEMMA EndingFrame ==
  ASSUME IInv, pc = "idle", cancels' \subseteq OrderId, NEW os \in [OrderId -> Order],
         \A o \in OrderId : orders[o].st # "none" =>
           os[o].st # "none" /\ os[o].px = orders[o].px,
         orders' = Kept(os, entries, exits, cancels'),
         UNCHANGED <<entries, exits, grid, retry, pc, tickPx, todo, toSeat, oldToNew,
                     lossBooked, pos>>
  PROVE  IInv'
<1>1. orders' \in [OrderId -> Order] /\ Tables'
  BY OrdersFrame
<1>2. TypeOK'
  BY <1>1 DEF IInv, TypeOK
<1>3. WorkFresh'
  BY WorkFrame
<1>4. QED
  BY <1>1, <1>2, <1>3 DEF IInv, Tables

LEMMA CancelLeftoverRInv == ASSUME RInv, UNCHANGED market, NEW o \in OrderId, CancelLeftover(o) PROVE RInv'
<1>1. /\ stage = "clear" /\ o \in cancels /\ orders[o].kind = "entry"
      /\ cancels' = cancels \ {o}
      /\ UNCHANGED <<entries, exits, grid, retry, pc, tickPx, todo, toSeat, oldToNew,
                     lossBooked, pos, stage, leftover, adopted, view, blind, crashes>>
  BY DEF CancelLeftover, LeftoverEntries
<1>2. pc = "idle" /\ orders \in [OrderId -> Order] /\ cancels' \subseteq OrderId
  BY <1>1 DEF RInv, StageTable, IInv, TypeOK
<1> DEFINE os == IF orders' = Kept([orders EXCEPT ![o].st = "canceled"], entries, exits, cancels')
                 THEN [orders EXCEPT ![o].st = "canceled"] ELSE orders
<1>3. /\ os \in [OrderId -> Order]
      /\ \A q \in OrderId : os[q].kind = orders[q].kind
      /\ \A q \in OrderId : orders[q].st # "none" =>
           os[q].st # "none" /\ os[q].px = orders[q].px
  BY <1>2 DEF Order
<1>4. orders' = Kept(os, entries, exits, cancels')
  BY DEF CancelLeftover
<1> HIDE DEF os
<1>5. IInv'
  BY <1>1, <1>2, <1>3, <1>4, EndingFrame DEF RInv
<1>6. \A r \in leftover' : r.oid \in cancels'
  BY <1>1 DEF RInv, LeftoverKept
<1>7. LeftoverKept' /\ CancelsEntries'
  BY <1>1, <1>3, <1>4, <1>6, CancelsFrame
<1>8. RTypeOK' /\ StageTable'
  <2>1. quiet' \in BOOLEAN
    BY DEF CancelLeftover, RInv, RTypeOK
  <2>2. QED
    BY <1>1, <2>1 DEF RInv, RTypeOK, StageTable, OpenExits
<1>9. QED
  BY <1>5, <1>7, <1>8 DEF RInv

\* Going on to the next part of Initialize.
LEMMA StageRInv ==
  ASSUME RInv, UNCHANGED market, UNCHANGED <<vars, adopted, leftover, crashes>>, pc = "idle", toSeat = {},
         view' \in [BOOLEAN -> Nat], quiet' \in BOOLEAN, blind' \in BOOLEAN,
         stage' \in {"caps", "adopt", "recheck", "reconcile"},
         leftover # {} => stage' \in {"caps", "adopt"}
  PROVE  RInv'
<1>1. IInv'
  BY EngineFrame DEF RInv
<1>2. LeftoverKept' /\ CancelsEntries'
  BY LeftoverFrame DEF vars, engineVars
<1>3. RTypeOK' /\ StageTable'
  BY DEF RInv, RTypeOK, StageTable, vars, engineVars
<1>4. QED
  BY <1>1, <1>2, <1>3 DEF RInv

LEMMA StageStepsRInv ==
  ASSUME RInv, UNCHANGED market, ClearDone \/ AdoptDone \/ Recheck \/ \E short \in BOOLEAN : Covers(short)
  PROVE  RInv'
<1>1. stage # "up" /\ pc = "idle" /\ toSeat = {}
  BY DEF ClearDone, AdoptDone, Recheck, Covers, RInv, StageTable
<1>2. view \in [BOOLEAN -> Nat] /\ pos \in [BOOLEAN -> Nat] /\ quiet \in BOOLEAN
      /\ blind \in BOOLEAN /\ (leftover # {} => stage \in {"clear", "caps", "adopt"})
  BY DEF RInv, RTypeOK, StageTable, IInv, TypeOK
<1>3. CASE ClearDone
  BY <1>1, <1>2, <1>3, StageRInv DEF ClearDone
<1>4. CASE AdoptDone
  BY <1>1, <1>2, <1>4, StageRInv DEF AdoptDone
<1>5. CASE Recheck
  <2>1. view' \in [BOOLEAN -> Nat] /\ quiet' \in BOOLEAN
    BY <1>2, <1>5, NoLotsType DEF Recheck
  <2>2. QED
    BY <1>1, <1>2, <1>5, <2>1, StageRInv DEF Recheck
<1>6. CASE \E short \in BOOLEAN : Covers(short)
  <2>1. view' \in [BOOLEAN -> Nat]
    BY <1>2, <1>6 DEF Covers
  <2>2. QED
    BY <1>1, <1>2, <1>6, <2>1, StageRInv DEF Covers
<1>7. QED
  BY <1>3, <1>4, <1>5, <1>6

LEMMA ReadCapsRInv == ASSUME RInv, UNCHANGED market, ReadCaps PROVE RInv'
<1>1. /\ stage = "caps" /\ pc = "idle" /\ toSeat = {} /\ UNCHANGED <<pc, toSeat>>
  BY DEF ReadCaps, RInv, StageTable
<1>2. CASE stage' = "adopt" /\ view' = pos /\ UNCHANGED <<cancels, orders, leftover, quiet, blind>>
  <2>1. UNCHANGED <<vars, adopted, leftover, crashes>>
    BY <1>2 DEF ReadCaps, vars, engineVars
  <2>2. view' \in [BOOLEAN -> Nat] /\ quiet' \in BOOLEAN /\ blind' \in BOOLEAN
    BY <1>2 DEF RInv, RTypeOK, IInv, TypeOK
  <2>3. QED
    BY <1>1, <1>2, <2>1, <2>2, StageRInv
<1>3. CASE /\ stage' = "recheck" /\ quiet' = FALSE /\ blind' = TRUE
           /\ leftover' = {} /\ cancels' = {}
           /\ orders' = Kept(orders, entries, exits, cancels')
           /\ UNCHANGED view
  <2>1. /\ UNCHANGED <<entries, exits, grid, retry, pc, tickPx, todo, toSeat, oldToNew,
                       lossBooked, pos, adopted, crashes>>
        /\ orders \in [OrderId -> Order]
    BY DEF ReadCaps, RInv, IInv, TypeOK
  <2>2. IInv'
    BY <1>1, <1>3, <2>1, EndingFrame DEF RInv
  <2>3. RTypeOK' /\ StageTable' /\ LeftoverKept' /\ CancelsEntries'
    BY <1>1, <1>3, <2>1 DEF RInv, RTypeOK, StageTable, LeftoverKept, CancelsEntries
  <2>4. QED
    BY <2>2, <2>3 DEF RInv
<1>4. QED
  BY <1>2, <1>3 DEF ReadCaps

LEMMA RefuseExitRInv == ASSUME RInv, UNCHANGED market, NEW r \in leftover, RefuseExit(r) PROVE RInv'
<1>1. /\ stage = "adopt" /\ pc = "idle" /\ toSeat = {}
      /\ leftover' = leftover \ {r} /\ cancels' = cancels \ {r.oid} /\ blind' = TRUE
      /\ orders' = Kept(orders, entries, exits, cancels')
      /\ UNCHANGED <<entries, exits, grid, retry, pc, tickPx, todo, toSeat, oldToNew,
                     lossBooked, pos, stage, adopted, view, quiet, crashes>>
  BY DEF RefuseExit, RInv, StageTable
<1>2. orders \in [OrderId -> Order] /\ cancels' \subseteq OrderId
  BY <1>1 DEF RInv, IInv, TypeOK
<1>3. IInv'
  BY <1>1, <1>2, EndingFrame DEF RInv
<1>4. \A q \in leftover' : q.oid \in cancels'
  BY <1>1 DEF RInv, LeftoverKept
<1>5. LeftoverKept' /\ CancelsEntries'
  BY <1>1, <1>4, CancelsFrame
<1>6. RTypeOK' /\ StageTable'
  BY <1>1 DEF RInv, RTypeOK, StageTable
<1>7. QED
  BY <1>3, <1>5, <1>6 DEF RInv

\* A position put on a free level is paired with no exit, and every other
\* exit keeps its position.
LEMMA SeatedFacts ==
  ASSUME IInv, pc = "idle", NEW i \in EntryIdx, entries[i].st \in {"none", "empty"},
         NEW level \in EntryLevel, level.st = "held",
         NEW ents \in [EntryIdx -> EntryLevel], ents = [entries EXCEPT ![i] = level]
  PROVE  /\ ents[i] = level
         /\ \A j \in EntryIdx : ents[j].st = "open" => ents[j].oid \in OrderId
         /\ \A x \in OpenExits : /\ exits[x].pair \in EntryIdx /\ exits[x].pair # i
                                 /\ ents[exits[x].pair].st = "held"
                                 /\ Serves(x, ents[exits[x].pair])
<1>1. entries \in [EntryIdx -> EntryLevel]
  BY DEF IInv, TypeOK
<1>2. /\ ents[i] = level
      /\ \A j \in EntryIdx : j # i => ents[j] = entries[j]
  BY <1>1
<1>3. \A x \in OpenExits : exits[x].pair \in HeldIdx /\ Serves(x, entries[exits[x].pair])
  BY DEF IInv, PairTable
<1>4. \A x \in OpenExits : /\ exits[x].pair \in EntryIdx /\ exits[x].pair # i
                           /\ entries[exits[x].pair].st = "held"
  BY <1>3 DEF HeldIdx, Held
<1>5. \A j \in EntryIdx : ents[j].st = "open" => ents[j].oid \in OrderId
  BY <1>2 DEF IInv, OpenRefs
<1>6. QED
  BY <1>2, <1>3, <1>4, <1>5

\* The cost restored from an exit order is on the side of it that earns.
LEMMA CostOfFacts ==
  ASSUME TypeOK, NEW r \in Leftover
  PROVE  CostOf(r) \in Int /\ Profitable(r.short, CostOf(r), r.px)
BY GridFacts DEF CostOf, Profitable, Leftover

LEMMA AdoptExitRInv ==
  ASSUME RInv, UNCHANGED market, NEW r \in leftover, NEW k \in 1 .. N + Overflow, NEW x \in ExitIdx,
         AdoptExit(r, k, x)
  PROVE  RInv'
<1> DEFINE i == Dir(r.short) * k
           level == [st |-> "held", oid |-> NoId, qty |-> r.qty, px |-> CostOf(r),
                     short |-> r.short]
           new == [st |-> "open", oid |-> r.oid, qty |-> r.qty, px |-> r.px,
                   short |-> r.short, pair |-> i]
           ents == [entries EXCEPT ![i] = level]
<1>1. /\ stage = "adopt" /\ pc = "idle" /\ toSeat = {}
      /\ IsSeat(k, CostOf(r), r.short) /\ IsNextExit(x)
      /\ entries' = ents /\ exits' = [exits EXCEPT ![x] = new]
      /\ adopted' = [adopted EXCEPT ![r.short] = adopted[r.short] + r.qty]
      /\ leftover' = leftover \ {r} /\ cancels' = cancels \ {r.oid}
      /\ UNCHANGED <<grid, retry, pc, tickPx, todo, toSeat, oldToNew, lossBooked, orders,
                     pos, stage, view, quiet, blind, crashes>>
  BY DEF AdoptExit, RInv, StageTable
<1>2. /\ r \in Leftover /\ r.oid \in OrderId /\ r.qty \in Nat /\ r.px \in Int
      /\ r.short \in BOOLEAN
      /\ orders[r.oid].st # "none" /\ orders[r.oid].px = r.px
      /\ CostOf(r) \in Int /\ Profitable(r.short, CostOf(r), r.px)
  <2>1. r \in Leftover /\ r.oid \in OrderId /\ r.qty \in Nat /\ r.px \in Int
        /\ r.short \in BOOLEAN
    BY DEF RInv, RTypeOK, Leftover
  <2>2. orders[r.oid].st # "none" /\ orders[r.oid].px = r.px
    BY DEF RInv, LeftoverKept
  <2>3. QED
    BY <2>1, <2>2, CostOfFacts DEF RInv, IInv
<1>3. /\ i \in EntryIdx /\ ents \in [EntryIdx -> EntryLevel]
      /\ level.st = "held" /\ level.qty = r.qty /\ level.px = CostOf(r)
      /\ level.short = r.short
      /\ ents[i] = level
      /\ \A j \in EntryIdx : ents[j].st = "open" => ents[j].oid \in OrderId
      /\ \A y \in OpenExits : /\ exits[y].pair \in EntryIdx /\ exits[y].pair # i
                              /\ ents[exits[y].pair].st = "held"
                              /\ Serves(y, ents[exits[y].pair])
  <2>1. IInv
    BY DEF RInv
  <2>2. i \in EntryIdx /\ entries[i].st \in {"none", "empty"}
    BY <1>1, <1>2, <2>1, SeatFacts DEF IInv
  <2>3. /\ level \in EntryLevel /\ level.st = "held" /\ level.qty = r.qty
        /\ level.px = CostOf(r) /\ level.short = r.short
    BY <1>2 DEF EntryLevel
  <2>4. ents \in [EntryIdx -> EntryLevel] /\ ents = [entries EXCEPT ![i] = level]
    BY <2>1, <2>3 DEF IInv, TypeOK
  <2> HIDE DEF level, ents, i
  <2>5. QED
    BY <1>1, <2>1, <2>2, <2>3, <2>4, SeatedFacts
<1>4. /\ new \in ExitLevel /\ new.st = "open" /\ new.oid = r.oid /\ new.pair = i
      /\ new.px = r.px /\ new.short = r.short /\ new.qty = r.qty
  BY <1>2, <1>3 DEF ExitLevel
<1> HIDE DEF new, level, ents, i
<1>5. /\ exits' \in [ExitIdx -> ExitLevel] /\ exits'[x] = new
      /\ OpenExits' = OpenExits \cup {x} /\ x \notin OpenExits
      /\ \A y \in OpenExits : exits'[y] = exits[y]
  BY <1>1, <1>4 DEF RInv, IInv, TypeOK, OpenExits, IsNextExit
<1>6. TypeOK' /\ NoLossBooked'
  <2>1. NoLossBooked'
    BY <1>1 DEF RInv, IInv, NoLossBooked
  <2>2. TypeOK'
    BY <1>1, <1>3, <1>5 DEF RInv, IInv, TypeOK
  <2>3. QED
    BY <2>1, <2>2
<1>7. OpenRefs'
  BY <1>1, <1>2, <1>3, <1>4, <1>5 DEF RInv, IInv, OpenRefs
<1>8. PairOnce'
  BY <1>3, <1>4, <1>5 DEF RInv, IInv, PairOnce
<1>9. PairTable'
  <2>1. \A y \in OpenExits : exits'[y].pair \in HeldIdx' /\ Serves(y, entries[exits[y].pair])'
    BY <1>1, <1>3, <1>5 DEF Serves, HeldIdx, Held
  <2>2. exits'[x].pair \in HeldIdx' /\ Serves(x, entries[exits[x].pair])'
    BY <1>1, <1>2, <1>3, <1>4, <1>5 DEF Serves, HeldIdx, Held
  <2>3. QED
    BY <1>5, <2>1, <2>2 DEF PairTable
<1>10. WorkFresh' /\ SeatTable'
  BY <1>1 DEF WorkFresh, SeatTable
<1>11. RTypeOK'
  <2>1. adopted' \in [BOOLEAN -> Nat]
    BY <1>1, <1>2 DEF RInv, RTypeOK
  <2>2. QED
    BY <1>1, <2>1 DEF RInv, RTypeOK
<1>12. StageTable' /\ CancelsEntries'
  BY <1>1 DEF RInv, StageTable, CancelsEntries
<1>13. LeftoverKept'
  BY <1>1 DEF RInv, LeftoverKept
<1>14. QED
  BY <1>6, <1>7, <1>8, <1>9, <1>10, <1>11, <1>12, <1>13 DEF RInv, IInv

-----------------------------------------------------------------------------
(* Taking over the rest of a position                                      *)

LEMMA TakeOverRInv ==
  ASSUME RInv, UNCHANGED market, NEW short \in BOOLEAN, NEW cost \in Costs, NEW k \in 1 .. N + Overflow,
         TakeOver(short, cost, k)
  PROVE  RInv'
<1> DEFINE i == Dir(short) * k
           level == [st |-> "held", oid |-> NoId, qty |-> Remainder(short), px |-> cost,
                     short |-> short]
           ents == [entries EXCEPT ![i] = level]
<1>1. /\ stage = "reconcile" /\ pc = "idle" /\ toSeat = {} /\ leftover = {}
      /\ view' = [view EXCEPT ![short] = 0]
      /\ IsSeat(k, cost, short) /\ PlaceExitFor(i, ents)
      /\ quiet' = (quiet /\ exits' # exits) /\ blind' = (blind \/ ExitAnswerLost)
      /\ UNCHANGED <<grid, pc, tickPx, todo, cancels, toSeat, oldToNew, lossBooked, pos,
                     stage, leftover, adopted, crashes>>
  BY DEF TakeOver, RInv, StageTable
<1>2. cost \in Int /\ Remainder(short) \in Nat
  <2>1. view[short] \in Nat /\ adopted[short] \in Nat
    BY DEF RInv, RTypeOK
  <2>2. QED
    BY <2>1 DEF TakeOver, Remainder, GridRestartAssumption
<1>3. /\ i \in EntryIdx /\ ents \in [EntryIdx -> EntryLevel]
      /\ level.st = "held" /\ ents[i] = level
      /\ \A j \in EntryIdx : ents[j].st = "open" => ents[j].oid \in OrderId
      /\ \A x \in OpenExits : /\ exits[x].pair \in EntryIdx
                              /\ ents[exits[x].pair].st = "held"
                              /\ Serves(x, ents[exits[x].pair])
  <2>1. IInv
    BY DEF RInv
  <2>2. i \in EntryIdx /\ entries[i].st \in {"none", "empty"}
    BY <1>1, <1>2, <2>1, SeatFacts DEF IInv
  <2>3. /\ level \in EntryLevel /\ level.st = "held" /\ level.qty = Remainder(short)
        /\ level.px = cost /\ level.short = short
    BY <1>2 DEF EntryLevel
  <2>4. ents \in [EntryIdx -> EntryLevel] /\ ents = [entries EXCEPT ![i] = level]
    BY <2>1, <2>3 DEF IInv, TypeOK
  <2> HIDE DEF level, ents, i
  <2>5. QED
    BY <1>1, <2>1, <2>2, <2>3, <2>4, SeatedFacts
<1> HIDE DEF level, ents, i
<1>4. /\ entries' = ents
      /\ exits' \in [ExitIdx -> ExitLevel] /\ orders' \in [OrderId -> Order]
      /\ retry' \subseteq EntryIdx
      /\ OpenRefs' /\ PairOnce' /\ PairTable' /\ SeatTable'
  BY <1>1, <1>3, PlaceExitFacts DEF RInv, IInv
<1>5. TypeOK' /\ NoLossBooked'
  <2>1. NoLossBooked'
    BY <1>1 DEF RInv, IInv, NoLossBooked
  <2>2. TypeOK'
    BY <1>1, <1>3, <1>4 DEF RInv, IInv, TypeOK
  <2>3. QED
    BY <2>1, <2>2
<1>6. WorkFresh'
  BY <1>1 DEF WorkFresh
<1>7. RTypeOK'
  <2>1. view' \in [BOOLEAN -> Nat] /\ quiet' \in BOOLEAN /\ blind' \in BOOLEAN
    BY <1>1 DEF RInv, RTypeOK
  <2>2. QED
    BY <1>1, <2>1 DEF RInv, RTypeOK
<1>8. StageTable' /\ LeftoverKept' /\ CancelsEntries'
  BY <1>1 DEF StageTable, LeftoverKept, CancelsEntries
<1>9. QED
  BY <1>4, <1>5, <1>6, <1>7, <1>8 DEF RInv, IInv

LEMMA InitializeDoneRInv == ASSUME RInv, UNCHANGED market, InitializeDone PROVE RInv'
<1>1. /\ stage = "reconcile" /\ pc = "idle" /\ toSeat = {} /\ leftover = {}
      /\ stage' = "up" /\ adopted' = NoLots /\ quiet' = FALSE
      /\ pc' = "place" /\ todo' = Missing(entries, tickPx) /\ tickPx' = NoPx
      /\ UNCHANGED <<entries, exits, grid, retry, cancels, toSeat, oldToNew, lossBooked,
                     orders, pos, leftover, view, blind, crashes>>
  BY DEF InitializeDone, RInv, StageTable
<1>2. \A j \in Missing(entries, tickPx) : j \in GridIdx /\ j \in EntryIdx /\ entries[j].st = "empty"
  BY IndexFacts DEF Missing
<1>3. TypeOK'
  BY <1>1, <1>2 DEF RInv, IInv, TypeOK
<1>4. WorkFresh'
  BY <1>1, <1>2 DEF WorkFresh
<1>5. Tables'
  BY <1>1, TablesFrame DEF RInv
<1>6. RTypeOK' /\ StageTable' /\ LeftoverKept' /\ CancelsEntries'
  BY <1>1, NoLotsType DEF RInv, RTypeOK, StageTable, LeftoverKept, CancelsEntries
<1>7. QED
  BY <1>3, <1>4, <1>5, <1>6 DEF RInv, IInv, Tables

-----------------------------------------------------------------------------
(* The specification                                                       *)

LEMMA InitializeRInv == ASSUME RInv, UNCHANGED market, Initialize PROVE RInv'
<1>1. CASE \E g \in Grids, p \in Prices : Build(g, p)
  BY <1>1, BuildRInv
<1>2. CASE ListOrders \/ ReadCaps \/ InitializeDone
  BY <1>2, ListOrdersRInv, ReadCapsRInv, InitializeDoneRInv
<1>3. CASE \E o \in OrderId : CancelLeftover(o)
  BY <1>3, CancelLeftoverRInv
<1>4. CASE ClearDone \/ AdoptDone \/ Recheck \/ \E short \in BOOLEAN : Covers(short)
  BY <1>4, StageStepsRInv
<1>5. CASE \E r \in leftover :
             \/ RefuseExit(r)
             \/ \E k \in 1 .. N + Overflow, x \in ExitIdx : AdoptExit(r, k, x)
  BY <1>5, RefuseExitRInv, AdoptExitRInv
<1>6. CASE \E short \in BOOLEAN, cost \in Costs, k \in 1 .. N + Overflow :
             TakeOver(short, cost, k)
  BY <1>6, TakeOverRInv
<1>7. QED
  BY <1>1, <1>2, <1>3, <1>4, <1>5, <1>6 DEF Initialize

LEMMA RNextRInv == RInv /\ [RNext]_rVars => RInv'
<1> SUFFICES ASSUME RInv, [RNext]_rVars PROVE RInv'
  OBVIOUS
<1>1. CASE UNCHANGED rVars
  <2>1. IInv'
    BY <1>1, EngineFrame DEF rVars, RInv
  <2>2. LeftoverKept' /\ CancelsEntries'
    BY <1>1, LeftoverFrame DEF rVars, restartVars, vars, engineVars
  <2>3. RTypeOK' /\ StageTable'
    BY <1>1 DEF rVars, restartVars, vars, engineVars, RInv, RTypeOK, StageTable, OpenExits
  <2>4. QED
    BY <2>1, <2>2, <2>3 DEF RInv
<1>2. CASE UNCHANGED market /\ Initialize
  BY <1>2, InitializeRInv
<1>3. CASE UNCHANGED market /\ Crash
  BY <1>3, CrashRInv
<1>4. CASE /\ UNCHANGED market
           /\ stage = "up" /\ OnTick
           /\ blind' = (blind \/ ExitAnswerLost)
           /\ UNCHANGED <<stage, leftover, adopted, view, quiet, crashes>>
  <2>1. blind' \in BOOLEAN
    BY <1>4 DEF RInv, RTypeOK
  <2>2. QED
    BY <1>4, <2>1, OnTickRInv
<1>5. CASE /\ UNCHANGED market
           /\ World
           /\ quiet' = (quiet /\ orders' = orders)
           /\ UNCHANGED <<stage, leftover, adopted, view, blind, crashes>>
  <2>1. quiet' \in BOOLEAN
    BY <1>5 DEF RInv, RTypeOK
  <2>2. QED
    BY <1>5, <2>1, WorldRInv
<1>6. QED
  BY <1>1, <1>2, <1>3, <1>4, <1>5 DEF RNext

\* The invariant holds in every state of every behaviour with any number of
\* crashes and restarts.
THEOREM RestartInvariance == RSpec => []RInv
<1>1. RInit => RInv
  BY InitRInv
<1>2. RInv /\ [RNext]_rVars => RInv'
  BY RNextRInv
<1>3. QED
  BY <1>1, <1>2, PTL DEF RSpec

\* Through crashes and restarts, every take-profit level serves exactly one
\* held position of its own direction and size: an adopted order included.
THEOREM RestartPairing == RSpec => []PairingSound
<1>1. RInv => PairingSound
  BY DEF RInv, IInv, PairTable, PairOnce, Serves, PairingSound
<1>2. QED
  BY <1>1, RestartInvariance, PTL

\* Through crashes and restarts, a take-profit order closes its position
\* above (or, for a short, below) the cost the engine has recorded for it.
THEOREM RestartExitsProfit == RSpec => []ExitBeatsCost
<1>1. RInv => ExitBeatsCost
  BY DEF RInv, IInv, PairTable, Serves, ExitBeatsCost
<1>2. QED
  BY <1>1, RestartInvariance, PTL
-----------------------------------------------------------------------------
(* What the engine does to its live exit orders                            *)

\* A live order survives the exchange's forgetting of finished ones, and the
\* placing of another.
LEMMA KeptLive ==
  ASSUME NEW o \in OrderId, orders[o].st = "new", orders \in [OrderId -> Order],
         NEW ents, NEW exs, NEW cs
  PROVE  /\ Kept(orders, ents, exs, cs)[o] = orders[o]
         /\ \A s \in OrderId : \A new :
              FreeSlot(s) => /\ [orders EXCEPT ![s] = new][o] = orders[o]
                             /\ Kept([orders EXCEPT ![s] = new], ents, exs, cs)[o] = orders[o]
BY DEF Kept, FreeSlot

LEMMA PlaceExitKeeps ==
  ASSUME TypeOK, NEW o \in OrderId, orders[o].st = "new",
         NEW i, NEW ents, PlaceExitFor(i, ents)
  PROVE  orders'[o] = orders[o]
<1> DEFINE order == NewOrder("exit", ents[i].short, ExitPx(ents[i]), ents[i].qty)
<1>1. orders \in [OrderId -> Order]
  BY DEF TypeOK
<1>2. \/ orders' = Kept(orders, ents, exits, cancels)
      \/ \E s \in OrderId :
           /\ FreeSlot(s)
           /\ orders' \in {Kept([orders EXCEPT ![s] = order], ents, exits, cancels),
                           Kept([orders EXCEPT ![s] = order], ents, exits', cancels)}
  BY Zenon DEF PlaceExitFor
<1> HIDE DEF order
<1>3. CASE orders' = Kept(orders, ents, exits, cancels)
  BY <1>1, <1>3, KeptLive
<1>4. CASE \E s \in OrderId :
             /\ FreeSlot(s)
             /\ orders' \in {Kept([orders EXCEPT ![s] = order], ents, exits, cancels),
                             Kept([orders EXCEPT ![s] = order], ents, exits', cancels)}
  <2>1. PICK s \in OrderId :
          /\ FreeSlot(s)
          /\ orders' \in {Kept([orders EXCEPT ![s] = order], ents, exits, cancels),
                          Kept([orders EXCEPT ![s] = order], ents, exits', cancels)}
    BY <1>4
  <2> DEFINE os == [orders EXCEPT ![s] = order]
  <2>2. os[o] = orders[o]
    BY <1>1, <2>1 DEF FreeSlot
  <2>3. \/ orders' = Kept(os, ents, exits, cancels)
        \/ orders' = Kept(os, ents, exits', cancels)
    BY <2>1
  <2> HIDE DEF os
  <2>4. QED
    BY <2>2, <2>3, KeptMore
<1>5. QED
  BY <1>2, <1>3, <1>4

\* No call of OnTick but RecenterCancel ends a live order.
LEMMA OnTickKeeps ==
  ASSUME RInv, OnTick, NEW o \in OrderId, orders[o].st = "new", orders[o].kind = "exit"
  PROVE  orders'[o] = orders[o]
<1>1. TypeOK /\ orders \in [OrderId -> Order]
  BY DEF RInv, IInv, TypeOK
<1>2. CASE \E i \in EntryIdx : EntryFilled(i) \/ EnsureTakeProfit(i)
  BY <1>1, <1>2, PlaceExitKeeps DEF EntryFilled, EnsureTakeProfit
<1>3. CASE \/ \E i \in EntryIdx : EntryCanceled(i)
           \/ \E x \in ExitIdx : ExitFilled(x) \/ ExitCanceled(x)
           \/ \E g \in Grids : RecenterBuild(g)
  BY <1>1, <1>3, KeptLive DEF EntryCanceled, ExitFilled, ExitCanceled, RecenterBuild
<1>4. CASE \E p \in OrderId : RecenterCancel(p)
  <2>1. PICK p \in OrderId : RecenterCancel(p)
    BY <1>4
  <2>2. p # o
    BY <2>1 DEF RecenterCancel, RInv, CancelsEntries
  <2>3. PICK os \in [OrderId -> Order] :
          os[o] = orders[o] /\ orders' = Kept(os, entries, exits, cancels')
    <3>1. [orders EXCEPT ![p].st = "canceled"] \in [OrderId -> Order]
      BY <1>1, <2>1 DEF Order
    <3>2. [orders EXCEPT ![p].st = "canceled"][o] = orders[o]
      BY <1>1, <2>2
    <3>3. QED
      BY <1>1, <2>1, <3>1, <3>2 DEF RecenterCancel
  <2>4. QED
    BY <2>3, KeptMore
<1>5. CASE \E i \in EntryIdx : PlaceMissing(i)
  BY <1>1, <1>5, KeptLive DEF PlaceMissing
<1>6. CASE \/ \E p \in Prices : TickStart(p)
           \/ \E i \in EntryIdx \cup ExitIdx : ScanKeep(i)
           \/ SkipRecenter \/ RecenterStart \/ RecenterDone
           \/ \E h \in toSeat, k \in 1 .. N + Overflow : SeatEntry(h, k)
           \/ EnsureDone \/ TickEnd
  BY <1>6 DEF TickStart, ScanKeep, SkipRecenter, RecenterStart, SeatEntry, RecenterDone,
              EnsureDone, TickEnd
<1>7. CASE Scan
  BY <1>2, <1>3, <1>6, <1>7 DEF Scan, EntryFilled, EntryCanceled, ExitFilled, ExitCanceled
<1>8. QED
  BY <1>2, <1>3, <1>4, <1>5, <1>6, <1>7 DEF OnTick, Recenter, Replace

LEMMA InitializeKeeps ==
  ASSUME RInv, Initialize, NEW o \in OrderId, orders[o].st = "new", orders[o].kind = "exit"
  PROVE  orders'[o] = orders[o]
<1>1. TypeOK /\ orders \in [OrderId -> Order]
  BY DEF RInv, IInv, TypeOK
<1>2. CASE \E p \in OrderId : CancelLeftover(p)
  <2>1. PICK p \in OrderId : CancelLeftover(p)
    BY <1>2
  <2>2. p # o
    BY <2>1 DEF CancelLeftover, LeftoverEntries
  <2>3. PICK os \in [OrderId -> Order] :
          os[o] = orders[o] /\ orders' = Kept(os, entries, exits, cancels')
    <3>1. [orders EXCEPT ![p].st = "canceled"] \in [OrderId -> Order]
      BY <1>1, <2>1 DEF Order
    <3>2. [orders EXCEPT ![p].st = "canceled"][o] = orders[o]
      BY <1>1, <2>2
    <3>3. QED
      BY <1>1, <2>1, <3>1, <3>2 DEF CancelLeftover
  <2>4. QED
    BY <2>3, KeptMore
<1>3. CASE \E short \in BOOLEAN, cost \in Costs, k \in 1 .. N + Overflow :
             TakeOver(short, cost, k)
  BY <1>1, <1>3, PlaceExitKeeps DEF TakeOver
<1>4. CASE ReadCaps \/ \E r \in leftover : RefuseExit(r)
  BY <1>1, <1>4, KeptLive DEF ReadCaps, RefuseExit
<1>5. CASE UNCHANGED orders
  BY <1>5
<1>6. QED
  BY <1>2, <1>3, <1>4, <1>5
     DEF Initialize, Build, ListOrders, ClearDone, AdoptExit, AdoptDone, Recheck, Covers,
         InitializeDone, vars

\* Neither a tick nor a crash nor a restart, wherever it is interrupted, ends
\* a take-profit order that is live: the cancelling loops of recenter and
\* inheritExistingOrders never reach one.
THEOREM RestartExitsSurvive == RSpec => ExitOrdersSurvive
<1> DEFINE Survive ==
      engineVars' # engineVars =>
        \A o \in OrderId :
          orders[o].st = "new" /\ orders[o].kind = "exit" => orders'[o] = orders[o]
<1>1. ASSUME RInv, [RNext]_rVars PROVE [Survive]_vars
  <2>1. orders \in [OrderId -> Order]
    BY <1>1 DEF RInv, IInv, TypeOK
  <2>2. CASE UNCHANGED rVars
    BY <2>2 DEF rVars
  <2>3. CASE Initialize
    BY <1>1, <2>3, InitializeKeeps
  <2>4. CASE Crash
    BY <2>1, <2>4, KeptLive DEF Crash
  <2>5. CASE OnTick
    BY <1>1, <2>5, OnTickKeeps
  <2>6. CASE World
    BY <2>6 DEF World, Fill, ManualCancel, BackoffOver
  <2>7. QED
    BY <1>1, <2>2, <2>3, <2>4, <2>5, <2>6 DEF RNext
<1>2. QED
  BY <1>1, RestartInvariance, PTL DEF RSpec, ExitOrdersSurvive

-----------------------------------------------------------------------------
(* The ledger's invariant across restarts                                  *)

\* An exit order waits for adoption with the lots it had left when it was
\* listed; it may have traded since, and no level names it yet.
LeftoverLots(r, os, exs) ==
  /\ r.qty \in Nat \ {0} /\ r.qty <= os[r.oid].qty
  /\ os[r.oid].qty - os[r.oid].filled <= r.qty
  /\ os[r.oid].short = r.short
  /\ ~Named(exs, r.oid)

\* What the levels and the two reads of the positions hold in each part of
\* Initialize.
StageBooks ==
  /\ stage # "up" => \A i \in EntryIdx : entries[i].st # "open"
  /\ stage \in {"down", "list", "clear", "caps"} =>
       /\ \A x \in ExitIdx : exits[x].st # "open"
       /\ \A i \in EntryIdx : entries[i].st # "held"
  /\ stage \in {"up", "down", "list", "clear", "caps"} => adopted = NoLots /\ view = NoLots
  /\ stage = "caps" => ~IsSpot
  /\ \A r \in leftover : LeftoverLots(r, orders, exits)

RSound == RInv /\ LInv /\ StageBooks

LEMMA LeftoverFacts ==
  ASSUME RInv, NEW r \in leftover
  PROVE  /\ r.oid \in OrderId /\ r.qty \in Nat /\ r.px \in Int /\ r.short \in BOOLEAN
         /\ r.oid \in cancels /\ orders[r.oid].kind = "exit" /\ orders[r.oid].st # "none"
BY DEF RInv, RTypeOK, Leftover, LeftoverKept

\* What trades, or is cancelled, while it waits keeps its lots.
LEMMA LeftoverBooks ==
  ASSUME RInv, RInv', StageBooks, NEW os \in [OrderId -> Order], NEW ents,
         orders' = Kept(os, ents, exits, cancels'), exits' = exits,
         \A o \in OrderId : /\ os[o].qty = orders[o].qty /\ os[o].short = orders[o].short
                            /\ os[o].filled >= orders[o].filled,
         leftover' \subseteq leftover
  PROVE  \A r \in leftover' : LeftoverLots(r, orders', exits')
<1> SUFFICES ASSUME NEW r \in leftover' PROVE LeftoverLots(r, orders', exits')
  OBVIOUS
<1>1. r \in leftover /\ r.oid \in OrderId /\ r.qty \in Nat
  BY LeftoverFacts
<1>2. r.oid \in cancels'
  BY DEF RInv, LeftoverKept
<1>3. orders'[r.oid] = os[r.oid]
  BY <1>1, <1>2, KeptMore
<1>4. os[r.oid].qty \in Nat /\ os[r.oid].filled \in Nat /\ orders[r.oid].filled \in Nat
  BY <1>1 DEF Order, RInv, IInv, TypeOK
<1>5. /\ LeftoverLots(r, orders, exits)
      /\ os[r.oid].qty = orders[r.oid].qty /\ os[r.oid].short = orders[r.oid].short
      /\ os[r.oid].filled >= orders[r.oid].filled
  BY <1>1 DEF StageBooks
<1> QED BY <1>1, <1>3, <1>4, <1>5 DEF LeftoverLots

LEMMA InitStageBooks == RInit => StageBooks
BY LevelFacts DEF RInit, Init, StageBooks

\* The parts of Initialize that touch neither the levels nor the orders.
LEMMA ReadSteps ==
  ASSUME RSound, RInv', UNCHANGED market,
         \/ ListOrders \/ ClearDone \/ AdoptDone \/ Recheck \/ InitializeDone
         \/ \E short \in BOOLEAN : Covers(short)
  PROVE  /\ LInv' /\ StageBooks'
         /\ UNCHANGED <<entries, exits, toSeat, orders, pos>>
<1>1. UNCHANGED <<entries, exits, toSeat, orders, pos>>
  BY DEF ListOrders, ClearDone, AdoptDone, Recheck, InitializeDone, Covers, vars, engineVars
<1>2. pc = "idle" /\ pc' \in {"idle", "place"}
  BY DEF ListOrders, ClearDone, AdoptDone, Recheck, InitializeDone, Covers, vars, engineVars,
         RSound, RInv, StageTable
<1>3. LInv'
  BY <1>1, <1>2, QuietLInv DEF RSound
<1>4. \A r \in leftover' : LeftoverLots(r, orders, exits)
  <2>1. CASE leftover' \subseteq leftover
    BY <2>1 DEF RSound, StageBooks
  <2>2. CASE ListOrders /\ leftover' = {AsLeftover(o) : o \in Adoptable}
    <3> SUFFICES ASSUME NEW o \in Adoptable PROVE LeftoverLots(AsLeftover(o), orders, exits)
      BY <2>2
    <3>1. /\ o \in OrderId /\ orders[o] \in Order /\ orders[o].st = "new" /\ Untraded(o) > 0
          /\ OrderOk(orders[o])
      BY DEF Adoptable, OursListed, Listed, RSound, RInv, IInv, TypeOK, LInv, OrderLots
    <3>2. AsLeftover(o).oid = o /\ AsLeftover(o).qty = orders[o].qty - orders[o].filled
          /\ AsLeftover(o).short = orders[o].short
      BY DEF AsLeftover, Untraded
    <3>3. ~Named(exits, o)
      BY <2>2 DEF ListOrders, RSound, StageBooks, Named
    <3> QED BY <3>1, <3>2, <3>3 DEF LeftoverLots, Order, OrderOk, Untraded
  <2> QED BY <2>1, <2>2 DEF ListOrders, ClearDone, AdoptDone, Recheck, InitializeDone, Covers
<1>5. market' = market
  OBVIOUS
<1>6. CASE ListOrders
  BY <1>1, <1>3, <1>4, <1>5, <1>6 DEF ListOrders, RSound, StageBooks, IsSpot
<1>7. CASE ClearDone
  BY <1>1, <1>3, <1>4, <1>5, <1>7 DEF ClearDone, RSound, StageBooks, vars, engineVars, IsSpot
<1>8. CASE AdoptDone \/ Recheck \/ \E short \in BOOLEAN : Covers(short)
  BY <1>1, <1>3, <1>4, <1>5, <1>8 DEF AdoptDone, Recheck, Covers, RSound, StageBooks, vars, engineVars,
                                IsSpot
<1>9. CASE InitializeDone
  BY <1>1, <1>3, <1>4, <1>5, <1>9 DEF InitializeDone, RSound, StageBooks, IsSpot
<1> QED BY <1>1, <1>3, <1>6, <1>7, <1>8, <1>9

\* A step that ends no live take-profit order and places none.
LiveExitsKept ==
  \A o \in OrderId : \/ orders'[o] = orders[o]
                     \/ ~LiveExit(orders[o]) /\ ~LiveExit(orders'[o])

\* Cancelling an order, or none, changes no quantity.
EndsEntry(os) ==
  \A o \in OrderId : \/ os[o] = orders[o]
                     \/ /\ os[o].st # "new" /\ orders[o].kind = "entry"
                        /\ os[o].qty = orders[o].qty /\ os[o].filled = orders[o].filled
                        /\ os[o].short = orders[o].short

LEMMA KeptEnds ==
  ASSUME NEW os, EndsEntry(os), NEW ents, NEW exs, NEW cs, orders' = Kept(os, ents, exs, cs)
  PROVE  LiveExitsKept
<1> SUFFICES ASSUME NEW o \in OrderId
             PROVE  \/ orders'[o] = orders[o]
                    \/ ~LiveExit(orders[o]) /\ ~LiveExit(orders'[o])
  BY DEF LiveExitsKept
<1>1. /\ orders'[o] = os[o] \/ (orders'[o] = NoOrder /\ os[o].st # "new")
      /\ NoOrder.st = "none"
  BY LevelFacts DEF Kept
<1> QED BY <1>1 DEF EndsEntry, LiveExit

\* Forgetting, after the cancelling of at most one entry order.
LEMMA ForgetBooks ==
  ASSUME RSound, RInv', NEW os \in [OrderId -> Order], EndsEntry(os),
         OrderLots(os), EntriesNamed(entries, os, pc), ExitsNamed(exits, os),
         orders' = Kept(os, entries, exits, cancels'), cancels' \subseteq cancels,
         leftover' \subseteq leftover, pc = "idle", UNCHANGED <<entries, exits, toSeat, pc, pos>>
  PROVE  /\ LInv' /\ GapKept /\ LiveExitsKept
         /\ \A r \in leftover' : LeftoverLots(r, orders', exits')
<1>1. LInv'
  BY OrdersLInv DEF RSound, RInv, ListsEntries
<1>2. \A o \in OrderId : /\ os[o].qty = orders[o].qty /\ os[o].filled = orders[o].filled
                         /\ os[o].short = orders[o].short /\ os[o].filled \in Nat
  BY DEF EndsEntry, Order
<1>3. GapKept
  BY <1>1, <1>2, StateGap DEF RSound, RInv, Sound
<1>4. LiveExitsKept
  BY KeptEnds
<1>5. \A r \in leftover' : LeftoverLots(r, orders', exits')
  BY <1>2, LeftoverBooks DEF RSound
<1> QED BY <1>1, <1>3, <1>4, <1>5

LEMMA CancelLeftoverBooks ==
  ASSUME RSound, RInv', UNCHANGED market, NEW o \in OrderId, CancelLeftover(o)
  PROVE  /\ LInv' /\ StageBooks' /\ GapKept /\ LiveExitsKept
<1>1. /\ stage = "clear" /\ stage' = stage /\ pc = "idle" /\ orders[o].kind = "entry"
      /\ cancels' = cancels \ {o}
      /\ UNCHANGED <<market, entries, exits, toSeat, pc, pos, leftover, adopted, view>>
      /\ orders \in [OrderId -> Order] /\ exits \in [ExitIdx -> ExitLevel]
  BY DEF CancelLeftover, LeftoverEntries, RSound, RInv, IInv, TypeOK, StageTable
<1>2. LInv' /\ GapKept /\ LiveExitsKept /\ \A r \in leftover' : LeftoverLots(r, orders', exits')
  <2>1. CASE orders' = Kept(orders, entries, exits, cancels')
    <3>1. EndsEntry(orders) BY DEF EndsEntry
    <3> QED BY <1>1, <2>1, <3>1, ForgetBooks DEF RSound, LInv
  <2>2. CASE /\ orders[o].st = "new"
             /\ orders' = Kept([orders EXCEPT ![o].st = "canceled"], entries, exits, cancels')
    <3> DEFINE r == [orders[o] EXCEPT !.st = "canceled"]
               os == [orders EXCEPT ![o] = r]
    <3>1. /\ r \in Order /\ r.st = "canceled" /\ r.kind = "entry" /\ r.short = orders[o].short
          /\ r.qty = orders[o].qty /\ r.filled = orders[o].filled /\ r.filled >= orders[o].filled
      BY <1>1 DEF Order
    <3>2. OrderOk(r)
      BY <2>2, <3>1 DEF RSound, LInv, OrderLots, OrderOk
    <3>3. [orders EXCEPT ![o].st = "canceled"] = os
      BY <1>1
    <3>4. os[o] = r /\ \A q \in OrderId : q # o => os[q] = orders[q]
      BY <1>1
    <3> HIDE DEF r
    <3>5. \A i \in EntryIdx : entries[i].st # "open"
      BY <1>1 DEF RSound, StageBooks
    <3>6. /\ os \in [OrderId -> Order] /\ OrderLots(os) /\ EntriesNamed(entries, os, pc)
          /\ ExitsNamed(exits, os)
      BY <1>1, <2>2, <3>1, <3>2, <3>5, OrderMoved DEF RSound, LInv
    <3> HIDE DEF os
    <3>7. EndsEntry(os)
      BY <1>1, <3>1, <3>4 DEF EndsEntry
    <3> QED BY <1>1, <2>2, <3>3, <3>6, <3>7, ForgetBooks
  <2> QED BY <2>1, <2>2 DEF CancelLeftover
<1> QED BY <1>1, <1>2 DEF StageBooks, RSound, IsSpot

LEMMA RefuseExitBooks ==
  ASSUME RSound, RInv', UNCHANGED market, NEW r \in leftover, RefuseExit(r)
  PROVE  /\ LInv' /\ StageBooks' /\ GapKept /\ LiveExitsKept
<1>1. /\ stage = "adopt" /\ stage' = stage /\ pc = "idle"
      /\ cancels' = cancels \ {r.oid} /\ leftover' = leftover \ {r}
      /\ UNCHANGED <<market, entries, exits, toSeat, pc, pos, adopted, view>>
      /\ orders \in [OrderId -> Order] /\ orders' = Kept(orders, entries, exits, cancels')
  BY DEF RefuseExit, RSound, RInv, IInv, TypeOK, StageTable
<1>2. LInv' /\ GapKept /\ LiveExitsKept /\ \A q \in leftover' : LeftoverLots(q, orders', exits')
  <2>1. EndsEntry(orders) BY DEF EndsEntry
  <2> QED BY <1>1, <2>1, ForgetBooks DEF RSound, LInv
<1> QED BY <1>1, <1>2 DEF StageBooks, RSound, IsSpot

LEMMA ReadCapsBooks ==
  ASSUME RSound, RInv', UNCHANGED market, ReadCaps
  PROVE  /\ LInv' /\ StageBooks' /\ GapKept /\ LiveExitsKept
<1>1. /\ stage = "caps" /\ stage' \in {"adopt", "recheck"} /\ pc = "idle"
      /\ cancels' \subseteq cancels /\ leftover' \subseteq leftover
      /\ UNCHANGED <<market, entries, exits, toSeat, pc, pos, adopted>>
      /\ orders \in [OrderId -> Order]
  BY DEF ReadCaps, RSound, RInv, IInv, TypeOK, StageTable
<1>2. LInv' /\ GapKept /\ LiveExitsKept /\ \A q \in leftover' : LeftoverLots(q, orders', exits')
  <2>1. CASE orders' = orders
    <3>1. LInv'
      BY <1>1, <2>1, QuietLInv DEF RSound
    <3>2. GapKept
      BY <1>1, <2>1, <3>1, QuietGap DEF RSound, RInv, Sound
    <3> QED BY <1>1, <2>1, <3>1, <3>2 DEF LiveExitsKept, RSound, StageBooks
  <2>2. CASE orders' = Kept(orders, entries, exits, cancels')
    <3>1. EndsEntry(orders) BY DEF EndsEntry
    <3> QED BY <1>1, <2>2, <3>1, ForgetBooks DEF RSound, LInv
  <2> QED BY <2>1, <2>2 DEF ReadCaps
<1> QED BY <1>1, <1>2 DEF StageBooks, RSound, IsSpot

LEMMA CrashBooks ==
  ASSUME RSound, RInv', UNCHANGED market, Crash
  PROVE  /\ LInv' /\ StageBooks' /\ LiveExitsKept /\ pos' = pos
         /\ \A short \in BOOLEAN : Books(entries, toSeat, exits, orders, short)' = 0
<1>1. /\ stage' = "down" /\ pc' = "idle" /\ toSeat' = {} /\ leftover' = {}
      /\ adopted' = NoLots /\ view' = NoLots /\ pos' = pos
      /\ orders' = Kept(orders, entries', exits', cancels')
      /\ orders \in [OrderId -> Order]
      /\ \A i \in EntryIdx : entries'[i] = NoLevel
      /\ \A x \in ExitIdx : exits'[x] = NoExit
  BY DEF Crash, RSound, RInv, IInv, TypeOK
<1>2. /\ \A i \in EntryIdx : entries'[i].st = "none" /\ entries'[i].oid = NoId
      /\ \A x \in ExitIdx : exits'[x].st = "none" /\ exits'[x].oid = NoId
  BY <1>1 DEF NoLevel, NoExit
<1>3. LInv'
  <2>1. OrderLots(orders')
    BY <1>1, KeptLedger DEF RSound, LInv
  <2>2. EntriesNamed(entries', orders', pc') /\ ExitsNamed(exits', orders')
    BY <1>2 DEF EntriesNamed, ExitsNamed
  <2>3. PositionLots(entries', toSeat') /\ ListsEntries(cancels', orders', pc')
    BY <1>1, <1>2, FS_EmptySet DEF PositionLots, ListsEntries
  <2> QED BY <1>1, <2>1, <2>2, <2>3 DEF LInv
<1>4. StageBooks'
  BY <1>1, <1>2 DEF StageBooks
<1>5. LiveExitsKept
  <2>1. EndsEntry(orders) BY DEF EndsEntry
  <2> QED BY <1>1, <2>1, KeptEnds
<1>6. ASSUME NEW short \in BOOLEAN PROVE Books(entries', toSeat', exits', orders', short) = 0
  <2> DEFINE f == [i \in EntryIdx |-> HeldAt(entries'[i], short)]
             g == [i \in EntryIdx |-> OpenAt(entries'[i], orders', short)]
             k == [x \in ExitIdx |-> ExitAt(exits'[x], orders', short)]
  <2>1. /\ \A i \in EntryIdx : f[i] = 0 /\ g[i] = 0
        /\ \A x \in ExitIdx : k[x] = 0
    BY <1>2 DEF HeldAt, OpenAt, ExitAt
  <2> HIDE DEF f, g, k
  <2>2. /\ SumFunctionOnSet(f, EntryIdx) = 0 /\ SumFunctionOnSet(g, EntryIdx) = 0
        /\ SumFunctionOnSet(k, ExitIdx) = 0
    BY <2>1, IndexSetsFinite, SumZero
  <2>3. MovingSum(toSeat', short) = 0
    BY <1>1, SumEmpty DEF MovingSum
  <2> QED BY <2>2, <2>3 DEF Books, HeldSum, OpenSum, ExitSum, f, g, k
<1> QED BY <1>1, <1>3, <1>4, <1>5, <1>6

LEMMA BuildBooks ==
  ASSUME RSound, RInv', UNCHANGED market, NEW g \in Grids, NEW p \in Prices, Build(g, p)
  PROVE  /\ LInv' /\ StageBooks' /\ GapKept /\ LiveExitsKept
<1>1. /\ stage = "down" /\ stage' = "list" /\ pc = "idle" /\ toSeat = {} /\ leftover = {}
      /\ entries' = BuildLevels
      /\ UNCHANGED <<market, exits, pc, cancels, toSeat, orders, pos, leftover, adopted, view>>
  BY DEF Build, RSound, RInv, StageTable
<1>2. \A i \in EntryIdx : entries'[i].st \notin {"open", "held"} /\ entries'[i].oid = NoId
  BY <1>1, LevelFacts DEF NoLevel, EmptyLevel
<1>3. \A i \in EntryIdx : entries[i].st \notin {"open", "held"}
  BY <1>1 DEF RSound, StageBooks
<1>4. LInv'
  BY <1>1, <1>2 DEF RSound, LInv, EntriesNamed, PositionLots, ListsEntries
<1>5. StageBooks'
  BY <1>1, <1>2 DEF RSound, StageBooks, IsSpot
<1>6. /\ Countable(entries, toSeat, exits, orders) /\ GapCounted
      /\ Countable(entries', toSeat', exits', orders') /\ GapCounted'
  BY <1>4, GapIsBooks, GapIsBooksNext DEF RSound, RInv
<1>7. ASSUME NEW short \in BOOLEAN PROVE Gap(short)' = Gap(short)
  <2>1. HeldSum(entries', short) = HeldSum(entries, short)
    BY <1>2, <1>3, HeldSame DEF HeldAt
  <2>2. OpenSum(entries', orders', short) = OpenSum(entries, orders, short)
    BY <1>1, <1>2, <1>3, OpenSame DEF OpenAt
  <2>3. Books(entries', toSeat', exits', orders', short) = Books(entries, toSeat, exits, orders, short)
    BY <1>1, <2>1, <2>2 DEF Books
  <2> QED BY <1>1, <1>6, <2>3 DEF GapCounted
<1> QED BY <1>1, <1>4, <1>5, <1>7 DEF GapKept, LiveExitsKept

\* Adopting an exit order puts what it has left on the books.
LEMMA AdoptExitBooks ==
  ASSUME RSound, RInv', UNCHANGED market, NEW r \in leftover, NEW k \in 1 .. N + Overflow,
         NEW x \in ExitIdx, AdoptExit(r, k, x)
  PROVE  /\ LInv' /\ StageBooks' /\ orders' = orders /\ pos' = pos
         /\ exits[x].st = "none" /\ exits'[x].st = "open" /\ exits'[x].oid = r.oid
         /\ \A y \in ExitIdx : y # x => exits'[y] = exits[y]
         /\ \A short \in BOOLEAN :
              Gap(short)' = Gap(short) - (IF short = r.short THEN Untraded(r.oid) ELSE 0)
<1> DEFINE i == Dir(r.short) * k
           level == [st |-> "held", oid |-> NoId, qty |-> r.qty, px |-> CostOf(r),
                     short |-> r.short]
           new == [st |-> "open", oid |-> r.oid, qty |-> r.qty, px |-> r.px, short |-> r.short,
                   pair |-> i]
<1>1. /\ stage = "adopt" /\ stage' = stage /\ pc = "idle" /\ toSeat = {}
      /\ IsSeat(k, CostOf(r), r.short) /\ IsNextExit(x)
      /\ entries' = [entries EXCEPT ![i] = level] /\ exits' = [exits EXCEPT ![x] = new]
      /\ leftover' = leftover \ {r}
      /\ UNCHANGED <<market, toSeat, orders, pos, pc, view>>
      /\ entries \in [EntryIdx -> EntryLevel] /\ exits \in [ExitIdx -> ExitLevel]
      /\ orders \in [OrderId -> Order] /\ TypeOK
  BY DEF AdoptExit, RSound, RInv, StageTable, IInv, TypeOK
<1>2. /\ r.oid \in OrderId /\ r.short \in BOOLEAN /\ r.qty \in Nat \ {0}
      /\ LeftoverLots(r, orders, exits) /\ orders[r.oid].kind = "exit" /\ orders[r.oid].st # "none"
      /\ \A q \in leftover : q.oid = r.oid => q = r
  BY LeftoverFacts DEF RSound, StageBooks, LeftoverLots, RInv, LeftoverKept
<1>3. i \in EntryIdx /\ entries[i].st \in {"none", "empty"}
  <2>1. CostOf(r) \in Int
    BY <1>1, CostOfFacts DEF RSound, RInv, RTypeOK
  <2> QED BY <1>1, <1>2, <2>1, SeatFacts
<1>4. exits[x].st = "none"
  BY <1>1 DEF IsNextExit
<1>5. /\ new.st = "open" /\ new.oid = r.oid /\ new.qty = r.qty /\ new.short = r.short
      /\ level.st = "held" /\ level.qty = r.qty /\ level.short = r.short /\ level.oid = NoId
  OBVIOUS
<1> HIDE DEF i, level, new
<1>6. /\ entries'[i] = level /\ \A j \in EntryIdx : j # i => entries'[j] = entries[j]
      /\ exits'[x] = new /\ \A y \in ExitIdx : y # x => exits'[y] = exits[y]
  BY <1>1, <1>3
<1>7. \A j \in EntryIdx : entries[j].st # "open" /\ entries'[j].st # "open"
  BY <1>1, <1>5, <1>6 DEF RSound, StageBooks
<1>8. LInv'
  <2>1. ExitsNamed(exits', orders)
    <3>1. \A y \in ExitIdx : exits'[y].st = "open" => NamesExit(exits'[y], orders)
      BY <1>2, <1>5, <1>6 DEF RSound, LInv, ExitsNamed, NamesExit, LeftoverLots
    <3>2. \A y, z \in ExitIdx :
            exits'[y].st = "open" /\ exits'[z].st = "open" /\ exits'[y].oid = exits'[z].oid
              => y = z
      BY <1>2, <1>5, <1>6 DEF RSound, LInv, ExitsNamed, LeftoverLots, Named
    <3>3. \A y \in ExitIdx : exits'[y].st # "open" => exits'[y].oid = NoId
      BY <1>5, <1>6 DEF RSound, LInv, ExitsNamed
    <3> QED BY <3>1, <3>2, <3>3 DEF ExitsNamed
  <2>2. EntriesNamed(entries', orders, pc)
    BY <1>5, <1>6, <1>7 DEF RSound, LInv, EntriesNamed
  <2>3. PositionLots(entries', toSeat)
    BY <1>2, <1>5, <1>6 DEF RSound, LInv, PositionLots
  <2> QED BY <1>1, <2>1, <2>2, <2>3 DEF RSound, LInv, ListsEntries
<1>9. StageBooks'
  <2>1. ASSUME NEW q \in leftover' PROVE LeftoverLots(q, orders, exits')
    <3>1. q \in leftover /\ q # r /\ q.oid # r.oid
      BY <1>1, <1>2, <2>1
    <3> QED BY <1>5, <1>6, <3>1 DEF RSound, StageBooks, LeftoverLots, Named
  <2>2. stage' = "adopt" /\ orders' = orders
    BY <1>1
  <2> QED BY <1>7, <2>1, <2>2 DEF StageBooks
<1>10. /\ Countable(entries, toSeat, exits, orders) /\ GapCounted
       /\ Countable(entries', toSeat', exits', orders') /\ GapCounted'
  BY <1>8, GapIsBooks, GapIsBooksNext DEF RSound, RInv
<1>11. ASSUME NEW short \in BOOLEAN
       PROVE  Gap(short)' = Gap(short) - (IF short = r.short THEN Untraded(r.oid) ELSE 0)
  <2> DEFINE u == IF short = r.short THEN Untraded(r.oid) ELSE 0
             q == IF short = r.short THEN r.qty ELSE 0
  <2>1. /\ u \in Int /\ q \in Nat
        /\ HeldAt(entries'[i], short) = q /\ HeldAt(entries[i], short) = 0
        /\ ExitAt(exits'[x], orders, short) = q - u /\ ExitAt(exits[x], orders, short) = 0
    BY <1>1, <1>2, <1>3, <1>4, <1>5, <1>6 DEF HeldAt, ExitAt, Untraded, Order
  <2> HIDE DEF u, q
  <2>2. HeldSum(entries', short) = HeldSum(entries, short) - 0 + q
    BY <1>3, <1>6, <1>10, <2>1, HeldChange DEF HeldAt
  <2>3. ExitSum(exits', orders, short) = ExitSum(exits, orders, short) - 0 + (q - u)
    <3>1. \A y \in ExitIdx : y # x => ExitAt(exits'[y], orders, short) = ExitAt(exits[y], orders, short)
      BY <1>6
    <3>2. ExitAt(exits'[x], orders, short) \in Int
      BY <2>1
    <3>3. ExitSum(exits', orders, short)
            = ExitSum(exits, orders, short) - ExitAt(exits[x], orders, short)
                + ExitAt(exits'[x], orders, short)
      BY <1>10, <3>1, <3>2, ExitChange
    <3> QED BY <2>1, <3>3
  <2>4. OpenSum(entries', orders, short) = OpenSum(entries, orders, short)
    BY <1>7, OpenSame DEF OpenAt
  <2>5. /\ HeldSum(entries, short) \in Nat /\ MovingSum(toSeat, short) \in Nat
        /\ OpenSum(entries, orders, short) \in Nat /\ ExitSum(exits, orders, short) \in Int
        /\ pos[short] \in Nat
    BY <1>1, <1>10, SumTypes DEF TypeOK
  <2>6. Books(entries', toSeat', exits', orders', short)
          = Books(entries, toSeat, exits, orders, short) + u
    BY <1>1, <2>1, <2>2, <2>3, <2>4, <2>5 DEF Books
  <2>7. /\ Gap(short)' = pos'[short] - Books(entries', toSeat', exits', orders', short)
        /\ Gap(short) = pos[short] - Books(entries, toSeat, exits, orders, short)
        /\ Books(entries, toSeat, exits, orders, short) \in Int
    BY <1>10, SumTypes DEF GapCounted
  <2> QED BY <1>1, <2>1, <2>5, <2>6, <2>7 DEF u
<1> QED BY <1>1, <1>4, <1>5, <1>6, <1>8, <1>9, <1>11

\* Taking over a remainder: a new position, and placeExitFor for it.
TakesOver(i, short, os) ==
  /\ PlaceExitMakes(os, i, entries')
  /\ entries[i].st \in {"none", "empty"}
  /\ entries'[i].st = "held" /\ entries'[i].qty = Remainder(short) /\ entries'[i].short = short
  /\ \A j \in EntryIdx : j # i => entries'[j] = entries[j]

LEMMA TakeOverBooks ==
  ASSUME RSound, RInv', UNCHANGED market, NEW short \in BOOLEAN, NEW cost \in Costs,
         NEW k \in 1 .. N + Overflow, TakeOver(short, cost, k)
  PROVE  /\ LInv' /\ StageBooks' /\ pos' = pos
         /\ \E i \in EntryIdx : \E os : TakesOver(i, short, os)
         /\ \A s \in BOOLEAN :
              Gap(s)' = Gap(s) - (IF s = short THEN Remainder(short) ELSE 0)
<1> DEFINE i == Dir(short) * k
           level == [st |-> "held", oid |-> NoId, qty |-> Remainder(short), px |-> cost,
                     short |-> short]
           ents == [entries EXCEPT ![i] = level]
<1>1. /\ stage = "reconcile" /\ stage' = stage /\ pc = "idle" /\ toSeat = {} /\ leftover = {}
      /\ IsSeat(k, cost, short) /\ PlaceExitFor(i, ents) /\ entries' = ents
      /\ Remainder(short) > 0 /\ view[short] \in Nat /\ adopted[short] \in Nat
      /\ UNCHANGED <<market, cancels, toSeat, pos, pc, leftover>>
      /\ entries \in [EntryIdx -> EntryLevel] /\ cancels \subseteq OrderId
      /\ orders \in [OrderId -> Order] /\ TypeOK
  BY DEF TakeOver, PlaceExitFor, RSound, RInv, RTypeOK, StageTable, IInv, TypeOK
<1>2. cost \in Int /\ Remainder(short) \in Nat \ {0}
  BY <1>1 DEF Remainder
<1>3. i \in EntryIdx /\ entries[i].st \in {"none", "empty"}
  BY <1>1, <1>2, SeatFacts
<1>4. /\ level.st = "held" /\ level.qty = Remainder(short) /\ level.short = short
      /\ level.oid = NoId /\ level \in EntryLevel
  BY <1>2 DEF EntryLevel
<1> HIDE DEF i, level
<1>5. /\ ents[i] = level /\ \A j \in EntryIdx : j # i => ents[j] = entries[j]
      /\ ents \in [EntryIdx -> EntryLevel]
  BY <1>1, <1>3, <1>4
<1> HIDE DEF ents
<1>6. \A j \in EntryIdx : entries[j].st # "open" /\ ents[j].st # "open"
  BY <1>1, <1>4, <1>5 DEF RSound, StageBooks
<1>7. EntriesNamed(ents, orders, pc)
  BY <1>4, <1>5, <1>6 DEF RSound, LInv, EntriesNamed
<1>8. PICK os : PlaceExitMakes(os, i, ents)
  BY <1>1, <1>2, <1>3, <1>4, <1>5, <1>7, PlaceExitLedger DEF RSound, LInv
<1>9. LInv'
  <2>1. /\ OrderLots(orders') /\ EntriesNamed(ents, orders', pc) /\ ExitsNamed(exits', orders')
        /\ ListsEntries(cancels, orders', pc)
    BY <1>1, <1>8, KeptLedger DEF PlaceExitMakes
  <2>2. PositionLots(ents, toSeat)
    BY <1>2, <1>4, <1>5 DEF RSound, LInv, PositionLots
  <2> QED BY <1>1, <2>1, <2>2 DEF LInv
<1>10. StageBooks'
  BY <1>1, <1>6 DEF StageBooks
<1>11. /\ Countable(entries, toSeat, exits, orders) /\ GapCounted
       /\ Countable(entries', toSeat', exits', orders') /\ GapCounted'
  BY <1>9, GapIsBooks, GapIsBooksNext DEF RSound, RInv
<1>12. \A s \in BOOLEAN : Gap(s)' = pos'[s] - Books(entries', toSeat', exits', os, s)
  BY <1>1, <1>8, <1>9, GapAfter DEF PlaceExitMakes, RInv
<1>13. ASSUME NEW s \in BOOLEAN
       PROVE  Gap(s)' = Gap(s) - (IF s = short THEN Remainder(short) ELSE 0)
  <2> DEFINE q == IF s = short THEN Remainder(short) ELSE 0
  <2>1. q \in Nat /\ HeldAt(ents[i], s) = q /\ HeldAt(entries[i], s) = 0
    BY <1>2, <1>3, <1>4, <1>5 DEF HeldAt
  <2>2. HeldSum(ents, s) = HeldSum(entries, s) + q
    <3>1. \A j \in EntryIdx : j # i => HeldAt(ents[j], s) = HeldAt(entries[j], s)
      BY <1>5
    <3>2. HeldAt(ents[i], s) \in Int
      BY <2>1
    <3>3. HeldSum(ents, s) = HeldSum(entries, s) - HeldAt(entries[i], s) + HeldAt(ents[i], s)
      BY <1>3, <1>11, <3>1, <3>2, HeldChange
    <3>4. HeldSum(entries, s) \in Nat
      BY <1>11, SumTypes
    <3> QED BY <2>1, <3>3, <3>4
  <2>3. OpenSum(ents, os, s) = OpenSum(entries, orders, s)
    BY <1>6, OpenSame DEF OpenAt
  <2>4. ExitSum(exits', os, s) = ExitSum(exits, orders, s)
    BY <1>3, <1>5, <1>8, PlacedExitSum DEF RSound, RInv, Sound
  <2>5. /\ HeldSum(entries, s) \in Nat /\ MovingSum(toSeat, s) \in Nat
        /\ OpenSum(entries, orders, s) \in Nat /\ ExitSum(exits, orders, s) \in Int
        /\ pos[s] \in Nat
    BY <1>1, <1>11, SumTypes DEF TypeOK
  <2>6. Gap(s) = pos[s] - Books(entries, toSeat, exits, orders, s)
    BY <1>11 DEF GapCounted
  <2>7. Gap(s)' = pos[s] - Books(ents, toSeat, exits', os, s)
    BY <1>1, <1>12
  <2> HIDE DEF q
  <2>8. Gap(s)' = Gap(s) - q
    BY <2>1, <2>2, <2>3, <2>4, <2>5, <2>6, <2>7 DEF Books
  <2> QED BY <2>8 DEF q
<1>14. TakesOver(i, short, os)
  BY <1>1, <1>3, <1>4, <1>5, <1>8 DEF TakesOver
<1> QED BY <1>1, <1>3, <1>9, <1>10, <1>13, <1>14

LEMMA TickBooks ==
  ASSUME RSound, RInv', UNCHANGED market, stage = "up", OnTick,
         UNCHANGED <<stage, leftover, adopted, view, quiet, crashes>>
  PROVE  LInv' /\ StageBooks'
<1>1. LInv'
  BY NextLInv DEF RSound, RInv, Next
<1>2. leftover' = {} /\ stage' = "up" /\ adopted' = adopted /\ view' = view
  BY DEF RSound, RInv, StageTable
<1> QED BY <1>1, <1>2 DEF RSound, StageBooks

LEMMA WorldBooks ==
  ASSUME RSound, RInv', UNCHANGED market, World,
         UNCHANGED <<stage, leftover, adopted, view, blind, crashes>>
  PROVE  LInv' /\ StageBooks'
<1>1. LInv'
  BY NextLInv DEF RSound, RInv, Next
<1>2. UNCHANGED <<entries, exits, cancels, pc, market, stage, leftover, adopted, view>>
  BY DEF World, Fill, ManualCancel, BackoffOver, engineVars
<1>3. orders \in [OrderId -> Order]
  BY DEF RSound, RInv, IInv, TypeOK
<1>4. \A r \in leftover' : LeftoverLots(r, orders', exits')
  <2>1. ASSUME NEW o \in OrderId, Fill(o) PROVE \A r \in leftover' : LeftoverLots(r, orders', exits')
    <3> DEFINE t == Traded(orders[o])
               os == [orders EXCEPT ![o] = t]
    <3>1. orders[o].st = "new" /\ orders' = Kept(os, entries, exits, cancels)
      BY <2>1 DEF Fill, engineVars
    <3>2. /\ t \in Order /\ t.qty = orders[o].qty /\ t.short = orders[o].short
          /\ t.filled = orders[o].filled + 1 /\ orders[o].filled \in Nat
      BY <1>3, <3>1, TradedFacts DEF RSound, LInv, OrderLots, Order
    <3> HIDE DEF t
    <3>3. os \in [OrderId -> Order] /\ os[o] = t /\ \A q \in OrderId : q # o => os[q] = orders[q]
      BY <1>3, <3>2
    <3> HIDE DEF os
    <3>4. \A q \in OrderId : /\ os[q].qty = orders[q].qty /\ os[q].short = orders[q].short
                             /\ os[q].filled >= orders[q].filled
      BY <1>3, <3>2, <3>3 DEF Order
    <3> QED BY <1>2, <3>1, <3>3, <3>4, LeftoverBooks DEF RSound
  <2>2. ASSUME NEW o \in OrderId, ManualCancel(o)
        PROVE  \A r \in leftover' : LeftoverLots(r, orders', exits')
    <3> DEFINE t == [orders[o] EXCEPT !.st = "canceled"]
               os == [orders EXCEPT ![o] = t]
    <3>1. /\ t \in Order /\ t.qty = orders[o].qty /\ t.short = orders[o].short
          /\ t.filled = orders[o].filled
      BY <1>3 DEF Order
    <3>2. [orders EXCEPT ![o].st = "canceled"] = os
      BY <1>3
    <3> HIDE DEF t
    <3>3. os \in [OrderId -> Order] /\ os[o] = t /\ \A q \in OrderId : q # o => os[q] = orders[q]
      BY <1>3, <3>1
    <3> HIDE DEF os
    <3>4. orders' = Kept(os, entries, exits, cancels)
      BY <2>2, <3>2 DEF ManualCancel, engineVars
    <3>5. \A q \in OrderId : /\ os[q].qty = orders[q].qty /\ os[q].short = orders[q].short
                             /\ os[q].filled >= orders[q].filled
      BY <1>3, <3>1, <3>3 DEF Order
    <3> QED BY <1>2, <3>3, <3>4, <3>5, LeftoverBooks DEF RSound
  <2>3. ASSUME NEW i \in EntryIdx, BackoffOver(i)
        PROVE  \A r \in leftover' : LeftoverLots(r, orders', exits')
    BY <1>2, <2>3 DEF BackoffOver, RSound, StageBooks
  <2> QED BY <2>1, <2>2, <2>3 DEF World
<1> QED BY <1>1, <1>2, <1>4 DEF RSound, StageBooks, IsSpot

\* The steps of the restarting engine.
RStep ==
  \/ UNCHANGED rVars
  \/ \E g \in Grids, p \in Prices : Build(g, p)
  \/ ListOrders \/ ClearDone \/ AdoptDone \/ Recheck \/ InitializeDone
  \/ \E short \in BOOLEAN : Covers(short)
  \/ \E o \in OrderId : CancelLeftover(o)
  \/ ReadCaps
  \/ \E r \in leftover : RefuseExit(r)
  \/ \E r \in leftover, k \in 1 .. N + Overflow, x \in ExitIdx : AdoptExit(r, k, x)
  \/ \E short \in BOOLEAN, cost \in Costs, k \in 1 .. N + Overflow : TakeOver(short, cost, k)
  \/ Crash
  \/ /\ stage = "up" /\ OnTick
     /\ blind' = (blind \/ ExitAnswerLost)
     /\ UNCHANGED <<stage, leftover, adopted, view, quiet, crashes>>
  \/ /\ World
     /\ quiet' = (quiet /\ orders' = orders)
     /\ UNCHANGED <<stage, leftover, adopted, view, blind, crashes>>

LEMMA RNextIsRStep == ASSUME [RNext]_rVars PROVE RStep /\ UNCHANGED market
<1>1. CASE UNCHANGED rVars
  BY <1>1 DEF RStep, rVars, restartVars
<1>2. CASE RNext /\ Initialize
  <2>1. market' = market
    BY <1>2 DEF RNext
  <2> QED BY <1>2, <2>1 DEF Initialize, RStep
<1>3. CASE RNext /\ ~Initialize
  BY <1>3 DEF RNext, RStep
<1> QED BY <1>1, <1>2, <1>3

LEMMA RNextRSound == RSound /\ [RNext]_rVars => RSound'
<1> SUFFICES ASSUME RSound, [RNext]_rVars PROVE RSound'
  OBVIOUS
<1>1. RStep /\ UNCHANGED market
  BY RNextIsRStep
<1>2. RInv'
  BY RNextRInv DEF RSound
<1>3. CASE UNCHANGED rVars
  <2>1. UNCHANGED <<entries, exits, toSeat, cancels, orders, pc, market, stage, leftover, adopted, view>>
    BY <1>3 DEF rVars, vars, engineVars, restartVars
  <2>2. LInv'
    BY <2>1 DEF RSound, LInv, OrderLots, OrderOk, PositionLots, EntriesNamed, NamesEntry,
                ExitsNamed, NamesExit, ListsEntries
  <2>3. StageBooks'
    BY <2>1 DEF RSound, StageBooks, IsSpot
  <2> QED BY <1>2, <2>2, <2>3 DEF RSound
<1>4. LInv' /\ StageBooks' => RSound'
  BY <1>2 DEF RSound
<1> QED BY <1>1, <1>2, <1>3, <1>4, BuildBooks, ReadSteps, CancelLeftoverBooks, ReadCapsBooks,
           RefuseExitBooks, AdoptExitBooks, TakeOverBooks, CrashBooks, TickBooks, WorldBooks
        DEF RStep

-----------------------------------------------------------------------------
(* The restarted engine never believes in too much                         *)

\* An exit order Initialize has listed and not yet adopted.
Waiting(o) == \E r \in leftover : r.oid = o

\* The lots no level knows of are enough for the exit orders no level names.
LooseInGap == \A short \in BOOLEAN : Loose(short) <= Gap(short)

\* Once they are listed, every live exit order is adopted or about to be.
ExitsKnown ==
  stage \notin {"down", "list"} =>
    \A o \in OrderId : LiveExit(orders[o]) => Named(exits, o) \/ Waiting(o)

\* Initialize believes in nothing but what it has adopted, until it has read
\* the positions again: adopted orders may have traded since.
NotAhead ==
  stage \notin {"up", "reconcile"} => \A short \in BOOLEAN : Believed(short) <= adopted[short]

\* What it is about to take over is on no level.
RestIsFree ==
  stage = "reconcile" =>
    \A short \in BOOLEAN : view[short] > 0 => Remainder(short) <= Gap(short)

Known ==
  ~blind => LooseInGap /\ ExitsKnown /\ NotAhead /\ RestIsFree /\ ExitsWithinPosition

LEMMA SoundNumbers ==
  Sound => \A short \in BOOLEAN :
    /\ Gap(short) = pos[short] - Believed(short)
    /\ Gap(short) \in Int /\ Believed(short) \in Int /\ pos[short] \in Nat
    /\ Loose(short) \in Nat /\ Closing(short) \in Nat
<1> SUFFICES ASSUME Sound, NEW short \in BOOLEAN
             PROVE  /\ Gap(short) = pos[short] - Believed(short)
                    /\ Gap(short) \in Int /\ Believed(short) \in Int /\ pos[short] \in Nat
                    /\ Loose(short) \in Nat /\ Closing(short) \in Nat
  OBVIOUS
<1>1. Believed(short) \in Int
  BY GapIsBooks, BelievedIsBooks, SumTypes DEF Sound
<1>2. pos[short] \in Nat
  BY DEF Sound, IInv, TypeOK
<1>3. Loose(short) \in Nat /\ Closing(short) \in Nat
  BY ClosingSplit
<1> QED BY <1>1, <1>2, <1>3 DEF Gap

LEMMA SoundNumbersNext ==
  Sound' => \A short \in BOOLEAN :
    /\ Gap(short)' = pos'[short] - Believed(short)'
    /\ Gap(short)' \in Int /\ Believed(short)' \in Int /\ pos'[short] \in Nat
    /\ Loose(short)' \in Nat /\ Closing(short)' \in Nat
<1>1. (Sound => \A short \in BOOLEAN :
        /\ Gap(short) = pos[short] - Believed(short)
        /\ Gap(short) \in Int /\ Believed(short) \in Int /\ pos[short] \in Nat
        /\ Loose(short) \in Nat /\ Closing(short) \in Nat)'
  BY SoundNumbers, PTL
<1> QED BY <1>1

\* So the take-profit orders stay within the position.
LEMMA GapCoversLoose ==
  Sound /\ pc # "seat" /\ LooseInGap => ExitsWithinPosition
<1> SUFFICES ASSUME Sound, pc # "seat", LooseInGap, NEW short \in BOOLEAN
             PROVE  Closing(short) <= pos[short]
  BY DEF ExitsWithinPosition
<1>1. Closing(short) <= Loose(short) + Believed(short)
  BY ClosingBelieved
<1> QED BY <1>1, SoundNumbers DEF LooseInGap

LEMMA ClosingKept ==
  ASSUME LiveExitsKept, NEW short \in BOOLEAN PROVE Closing(short)' = Closing(short)
<1> DEFINE T == LiveExits(short)
           T2 == {o \in OrderId : /\ orders'[o].st = "new" /\ orders'[o].kind = "exit"
                                  /\ orders'[o].short = short}
<1>1. T2 = T
  BY DEF LiveExits, LiveExitsKept, LiveExit
<1>2. \A o \in T : orders'[o] = orders[o]
  BY DEF LiveExits, LiveExitsKept, LiveExit
<1>3. [o \in T2 |-> orders'[o].qty - orders'[o].filled]
        = [o \in T |-> orders[o].qty - orders[o].filled]
  BY <1>1, <1>2
<1> QED BY <1>3 DEF Closing, LiveExits, Untraded

LEMMA LooseSame ==
  ASSUME NEW exs, NEW os, NEW exs2, NEW os2, NEW short,
         \A o \in OrderId : LooseAt(exs2, os2, o, short) = LooseAt(exs, os, o, short)
  PROVE  LooseSum(exs2, os2, short) = LooseSum(exs, os, short)
BY DEF LooseSum

LEMMA LooseChange ==
  ASSUME NEW exs, NEW os, NEW exs2, NEW os2, NEW short, NEW o \in OrderId,
         \A q \in OrderId : LooseAt(exs, os, q, short) \in Nat,
         LooseAt(exs2, os2, o, short) \in Nat,
         \A q \in OrderId : q # o => LooseAt(exs2, os2, q, short) = LooseAt(exs, os, q, short)
  PROVE  LooseSum(exs2, os2, short)
           = LooseSum(exs, os, short) - LooseAt(exs, os, o, short) + LooseAt(exs2, os2, o, short)
<1> DEFINE f == [q \in OrderId |-> LooseAt(exs, os, q, short)]
           g == [q \in OrderId |-> LooseAt(exs2, os2, q, short)]
<1>1. /\ \A q \in OrderId : f[q] \in Int
      /\ \A q \in OrderId : q # o => g[q] = f[q]
      /\ f[o] = LooseAt(exs, os, o, short) /\ g[o] \in Int /\ g[o] = LooseAt(exs2, os2, o, short)
  OBVIOUS
<1> HIDE DEF f, g
<1>2. SumFunctionOnSet(g, OrderId) = SumFunctionOnSet(f, OrderId) - f[o] + g[o]
  BY <1>1, IndexSetsFinite, SumChange
<1> QED BY <1>1, <1>2 DEF LooseSum, f, g

LEMMA LooseTypes ==
  ASSUME Sound, NEW short PROVE \A o \in OrderId : LooseAt(exits, orders, o, short) \in Nat
<1> SUFFICES ASSUME NEW o \in OrderId PROVE LooseAt(exits, orders, o, short) \in Nat
  OBVIOUS
<1>1. OrderOk(orders[o]) /\ orders[o] \in Order
  BY DEF Sound, LInv, OrderLots, IInv, TypeOK
<1> QED BY <1>1 DEF LooseAt, LiveExit, OrderOk, Order

\* A step that leaves the levels and the live exit orders alone leaves all
\* the accounts alone.
LEMMA SameBooks ==
  ASSUME Sound, Sound', GapKept, LiveExitsKept, exits' = exits, pos' = pos, NEW short \in BOOLEAN
  PROVE  /\ Gap(short)' = Gap(short) /\ Believed(short)' = Believed(short)
         /\ Loose(short)' = Loose(short) /\ Closing(short)' = Closing(short)
<1>1. Loose(short)' = Loose(short)
  <2>1. \A o \in OrderId : LooseAt(exits', orders', o, short) = LooseAt(exits, orders, o, short)
    BY DEF LiveExitsKept, LooseAt
  <2> QED BY <2>1, LooseSame DEF Loose
<1>2. Gap(short)' = Gap(short)
  BY DEF GapKept
<1> QED BY <1>1, <1>2, ClosingKept, SoundNumbers, SoundNumbersNext

\* A level names orders of its own kind only.
LEMMA OnLevelKind ==
  ASSUME Sound, NEW o \in OrderId, orders[o].kind \in {"entry", "exit"}
  PROVE  /\ orders[o].kind = "exit" => (OnLevel(o) <=> Named(exits, o))
         /\ orders[o].kind = "entry" /\ OnLevel(o) =>
              \E i \in EntryIdx : entries[i].st = "open"
<1>1. Named(exits, o) => orders[o].kind = "exit"
  BY DEF Sound, LInv, ExitsNamed, NamesExit, Named
<1>2. \A i \in EntryIdx : entries[i].oid = o => entries[i].st = "open" /\ orders[o].kind = "entry"
  BY IndexFacts DEF Sound, LInv, EntriesNamed, NamesEntry
<1> QED BY <1>1, <1>2 DEF OnLevel

\* A trade of an exit order no level names is one fewer to come.
LEMMA FillLoose ==
  ASSUME Sound, NEW o \in OrderId, Fill(o), NEW short \in BOOLEAN
  PROVE  Loose(short)' = Loose(short)
           - (IF LiveExit(orders[o]) /\ orders[o].short = short /\ ~Named(exits, o) THEN 1 ELSE 0)
<1> DEFINE r == orders[o]
           t == Traded(r)
           os == [orders EXCEPT ![o] = t]
           d == IF LiveExit(r) /\ r.short = short /\ ~Named(exits, o) THEN 1 ELSE 0
<1>1. /\ r.st = "new" /\ exits' = exits /\ orders' = Kept(os, entries, exits, cancels)
      /\ orders \in [OrderId -> Order]
  BY DEF Fill, engineVars, Sound, IInv, TypeOK
<1>2. /\ t \in Order /\ OrderOk(t) /\ t.st \in {"new", "filled"} /\ t.kind = r.kind
      /\ t.short = r.short /\ t.qty = r.qty /\ t.filled = r.filled + 1
      /\ r.filled \in Nat /\ r.qty \in Nat
  BY <1>1, TradedFacts DEF Sound, LInv, OrderLots, Order
<1>3. os[o] = t /\ \A q \in OrderId : q # o => os[q] = orders[q]
  BY <1>1
<1> HIDE DEF t
<1> HIDE DEF os
<1>4. \A q \in OrderId : orders'[q] = os[q] \/ (~LiveExit(os[q]) /\ ~LiveExit(orders'[q]))
  BY <1>1, LevelFacts DEF Kept, LiveExit
<1>5. \A q \in OrderId : q # o => LooseAt(exits, orders', q, short) = LooseAt(exits, orders, q, short)
  BY <1>3, <1>4 DEF LooseAt
<1>6. LooseAt(exits, orders', o, short) = LooseAt(exits, orders, o, short) - d
  <2>1. LooseAt(exits, orders', o, short) = LooseAt(exits, os, o, short)
    BY <1>4 DEF LooseAt
  <2>2. t.st = "filled" => t.filled = t.qty
    BY <1>2 DEF OrderOk
  <2> QED BY <1>1, <1>2, <1>3, <2>1, <2>2 DEF LooseAt, LiveExit
<1>7. LooseAt(exits, orders', o, short) \in Nat
  <2>1. LooseAt(exits, orders, o, short) \in Nat
    BY LooseTypes
  <2>2. LiveExit(r) /\ r.short = short /\ ~Named(exits, o) => LooseAt(exits, orders, o, short) > 0
    BY <1>1 DEF LooseAt, Sound, LInv, OrderLots, OrderOk, LiveExit, Order
  <2> QED BY <1>6, <2>1, <2>2
<1>8. \A q \in OrderId : LooseAt(exits, orders, q, short) \in Nat
  BY LooseTypes
<1>9. LooseSum(exits, orders', short)
        = LooseSum(exits, orders, short) - LooseAt(exits, orders, o, short)
            + LooseAt(exits, orders', o, short)
  BY <1>5, <1>7, <1>8, LooseChange
<1>10. Loose(short) \in Nat /\ Loose(short)' = LooseSum(exits, orders', short)
  BY <1>1, SoundNumbers DEF Loose
<1> QED BY <1>6, <1>8, <1>9, <1>10 DEF Loose

LEMMA FillKnown ==
  ASSUME RSound, RSound', Known, ~blind, NEW o \in OrderId, Fill(o),
         UNCHANGED <<stage, leftover, adopted, view, blind>>
  PROVE  Known'
<1> DEFINE r == orders[o]
<1>1. Sound /\ Sound'
  BY DEF RSound, RInv, Sound
<1>2. /\ r.st = "new" /\ UNCHANGED <<entries, exits, pc>> /\ pc # "seat"
      /\ r.short \in BOOLEAN /\ r.kind \in {"entry", "exit"}
      /\ pos' = [pos EXCEPT ![r.short] = IF r.kind = "entry" THEN @ + 1 ELSE @ - 1]
      /\ pos \in [BOOLEAN -> Nat]
  BY <1>1 DEF Fill, engineVars, ExchangeActs, Sound, IInv, TypeOK, Order
<1>3. /\ r.kind = "exit" => (OnLevel(o) <=> Named(exits, o))
      /\ r.kind = "entry" /\ OnLevel(o) => stage = "up"
  BY <1>1, <1>2, OnLevelKind DEF RSound, StageBooks
<1>4. \A short \in BOOLEAN :
        /\ Gap(short) = pos[short] - Believed(short) /\ Gap(short)' = pos'[short] - Believed(short)'
        /\ Gap(short) \in Int /\ Believed(short) \in Int /\ Believed(short)' \in Int
        /\ Loose(short) \in Nat /\ pos[short] \in Nat
        /\ pos'[short] = pos[short] + (IF short # r.short THEN 0
                                       ELSE IF r.kind = "entry" THEN 1 ELSE -1)
  BY <1>1, <1>2, SoundNumbers, SoundNumbersNext
<1>5. \A short \in BOOLEAN :
        Gap(short)' = Gap(short) + (IF short # r.short \/ OnLevel(o) THEN 0
                                    ELSE IF r.kind = "entry" THEN 1 ELSE -1)
  BY <1>1, FillGap
<1>6. \A short \in BOOLEAN :
        Loose(short)' = Loose(short)
          - (IF r.kind = "exit" /\ r.short = short /\ ~Named(exits, o) THEN 1 ELSE 0)
  BY <1>1, <1>2, FillLoose DEF LiveExit
<1>7. \A q \in OrderId : LiveExit(orders'[q]) => LiveExit(orders[q])
  <2> DEFINE t == Traded(r)
             os == [orders EXCEPT ![o] = t]
  <2>1. orders \in [OrderId -> Order] /\ orders' = Kept(os, entries, exits, cancels)
    BY <1>1 DEF Fill, engineVars, Sound, IInv, TypeOK
  <2>2. t \in Order /\ t.kind = r.kind
    BY <1>1, <1>2, <2>1, TradedFacts DEF Sound, LInv, OrderLots
  <2> HIDE DEF t
  <2>3. os \in [OrderId -> Order] /\ \A q \in OrderId : LiveExit(os[q]) => LiveExit(orders[q])
    BY <1>2, <2>1, <2>2 DEF LiveExit
  <2> HIDE DEF os
  <2> QED BY <2>1, <2>3, KeptLiveExit
<1> HIDE DEF r
<1>8. LooseInGap'
  <2> SUFFICES ASSUME NEW short \in BOOLEAN PROVE Loose(short)' <= Gap(short)'
    BY DEF LooseInGap
  <2>1. Loose(short) <= Gap(short)
    BY DEF Known, LooseInGap
  <2> QED BY <1>2, <1>3, <1>4, <1>5, <1>6, <2>1
<1>9. ExitsKnown'
  BY <1>2, <1>7 DEF Known, ExitsKnown, Waiting
<1>10. NotAhead'
  <2> SUFFICES ASSUME stage \notin {"up", "reconcile"}, NEW short \in BOOLEAN
               PROVE  Believed(short)' <= adopted[short]
    BY DEF NotAhead
  <2>1. Believed(short) <= adopted[short] /\ adopted[short] \in Nat
    BY DEF Known, NotAhead, RSound, RInv, RTypeOK
  <2> QED BY <1>2, <1>3, <1>4, <1>5, <2>1
<1>11. RestIsFree'
  <2> SUFFICES ASSUME stage = "reconcile", NEW short \in BOOLEAN, view[short] > 0
               PROVE  Remainder(short) <= Gap(short)'
    BY DEF RestIsFree, Remainder
  <2>1. Remainder(short) <= Gap(short) /\ Remainder(short) \in Int
    BY DEF Known, RestIsFree, Remainder, RSound, RInv, RTypeOK
  <2>2. r.kind = "exit" => Named(exits, o)
    BY <1>2 DEF Known, ExitsKnown, Waiting, LiveExit, RSound, RInv, StageTable, r
  <2> QED BY <1>2, <1>3, <1>4, <1>5, <2>1, <2>2
<1>12. ExitsWithinPosition'
  <2>1. (Sound /\ pc # "seat" /\ LooseInGap => ExitsWithinPosition)'
    BY GapCoversLoose, PTL
  <2> QED BY <1>1, <1>2, <1>8, <2>1
<1> QED BY <1>8, <1>9, <1>10, <1>11, <1>12 DEF Known

LEMMA QuietNumbers ==
  ASSUME RSound, RSound', Known, ~blind, GapKept, LiveExitsKept, exits' = exits, pos' = pos
  PROVE  /\ LooseInGap' /\ ExitsWithinPosition'
         /\ \A short \in BOOLEAN : Gap(short)' = Gap(short) /\ Believed(short)' = Believed(short)
<1>1. Sound /\ Sound'
  BY DEF RSound, RInv, Sound
<1>2. \A short \in BOOLEAN :
        /\ Gap(short)' = Gap(short) /\ Believed(short)' = Believed(short)
        /\ Loose(short)' = Loose(short) /\ Closing(short)' = Closing(short)
  BY <1>1, SameBooks
<1>3. LooseInGap'
  BY <1>2 DEF Known, LooseInGap
<1>4. ExitsWithinPosition'
  BY <1>2 DEF Known, ExitsWithinPosition
<1> QED BY <1>2, <1>3, <1>4

\* What a step that leaves levels, orders and positions alone keeps.
LEMMA ReadNumbers ==
  ASSUME RSound, RSound', Known, ~blind, UNCHANGED <<entries, exits, toSeat, orders, pos>>
  PROVE  /\ LooseInGap' /\ ExitsWithinPosition'
         /\ \A short \in BOOLEAN : Gap(short)' = Gap(short) /\ Believed(short)' = Believed(short)
<1>1. GapKept
  BY QuietGap DEF RSound, RInv, Sound
<1>2. LiveExitsKept
  BY DEF LiveExitsKept
<1> QED BY <1>1, <1>2, QuietNumbers

LEMMA ReadKnown ==
  ASSUME RSound, RSound', Known, ~blind', UNCHANGED market, EchoesClientId,
         \/ ListOrders \/ ClearDone \/ AdoptDone \/ Recheck \/ InitializeDone
         \/ \E short \in BOOLEAN : Covers(short)
  PROVE  Known'
<1>1. ~blind
  BY DEF ListOrders, ClearDone, AdoptDone, Recheck, InitializeDone, Covers
<1>2. UNCHANGED <<entries, exits, toSeat, orders, pos>>
  BY ReadSteps DEF RSound
<1>3. /\ LooseInGap' /\ ExitsWithinPosition'
      /\ \A short \in BOOLEAN : Gap(short)' = Gap(short) /\ Believed(short)' = Believed(short)
  BY <1>1, <1>2, ReadNumbers
<1>4. Known <=> LooseInGap /\ ExitsKnown /\ NotAhead /\ RestIsFree /\ ExitsWithinPosition
  BY <1>1 DEF Known
<1>5. ExitsKnown' /\ NotAhead' /\ RestIsFree' => Known'
  BY <1>3 DEF Known
<1>6. CASE ListOrders
  <2>1. /\ stage = "list" /\ stage' = "clear" /\ leftover' = {AsLeftover(o) : o \in Adoptable}
        /\ UNCHANGED <<adopted, view>>
    BY <1>1, <1>6 DEF ListOrders
  <2>2. ExitsKnown'
    <3> SUFFICES ASSUME NEW o \in OrderId, LiveExit(orders[o]) PROVE \E r \in leftover' : r.oid = o
      BY <1>2, <2>1 DEF ExitsKnown, Waiting
    <3>1. orders[o] \in Order /\ OrderOk(orders[o])
      BY DEF RSound, RInv, IInv, TypeOK, LInv, OrderLots
    <3>2. o \in Adoptable
      BY <3>1 DEF Adoptable, OursListed, Listed, Untraded, LiveExit, OrderOk, Order
    <3>3. AsLeftover(o).oid = o
      BY DEF AsLeftover
    <3> QED BY <2>1, <3>2, <3>3
  <2>3. NotAhead' /\ RestIsFree'
    BY <1>3, <1>4, <2>1 DEF NotAhead, RestIsFree
  <2> QED BY <1>5, <2>2, <2>3
<1>7. CASE ClearDone
  <2>1. /\ stage = "clear" /\ stage' \in {"recheck", "adopt", "caps"}
        /\ UNCHANGED <<leftover, adopted, view>>
    BY <1>7 DEF ClearDone
  <2>2. ExitsKnown' /\ NotAhead' /\ RestIsFree'
    BY <1>2, <1>3, <1>4, <2>1 DEF ExitsKnown, Waiting, NotAhead, RestIsFree
  <2> QED BY <1>5, <2>2
<1>8. CASE AdoptDone
  <2>1. /\ stage = "adopt" /\ stage' = "recheck" /\ UNCHANGED <<leftover, adopted, view>>
    BY <1>8 DEF AdoptDone
  <2>2. ExitsKnown' /\ NotAhead' /\ RestIsFree'
    BY <1>2, <1>3, <1>4, <2>1 DEF ExitsKnown, Waiting, NotAhead, RestIsFree
  <2> QED BY <1>5, <2>2
<1>9. CASE Recheck
  <2>1. /\ stage = "recheck" /\ stage' = "reconcile" /\ UNCHANGED <<leftover, adopted>>
        /\ view' = pos \/ view' = NoLots
    BY <1>9 DEF Recheck
  <2>2. ExitsKnown' /\ NotAhead'
    BY <1>2, <1>3, <1>4, <2>1 DEF ExitsKnown, Waiting, NotAhead
  <2>3. RestIsFree'
    <3> SUFFICES ASSUME NEW short \in BOOLEAN, view'[short] > 0
                 PROVE  view'[short] - adopted[short] <= Gap(short)
      BY <1>3, <2>1 DEF RestIsFree, Remainder
    <3>1. view'[short] = pos[short]
      BY <2>1 DEF NoLots
    <3>2. Believed(short) <= adopted[short] /\ adopted[short] \in Nat
      BY <1>4, <2>1 DEF NotAhead, RSound, RInv, RTypeOK
    <3>3. Gap(short) = pos[short] - Believed(short) /\ Believed(short) \in Int /\ pos[short] \in Nat
      BY SoundNumbers DEF RSound, RInv, Sound
    <3> QED BY <3>1, <3>2, <3>3
  <2> QED BY <1>5, <2>2, <2>3
<1>10. CASE InitializeDone
  <2>1. stage = "reconcile" /\ stage' = "up" /\ UNCHANGED leftover
    BY <1>10 DEF InitializeDone
  <2>2. ExitsKnown' /\ NotAhead' /\ RestIsFree'
    BY <1>2, <1>4, <2>1 DEF ExitsKnown, Waiting, NotAhead, RestIsFree
  <2> QED BY <1>5, <2>2
<1>11. CASE \E short \in BOOLEAN : Covers(short)
  <2>1. PICK short \in BOOLEAN : Covers(short)
    BY <1>11
  <2>2. /\ stage = "reconcile" /\ stage' = stage /\ UNCHANGED <<leftover, adopted>>
        /\ view' = [view EXCEPT ![short] = 0] /\ view \in [BOOLEAN -> Nat]
    BY <2>1 DEF Covers, RSound, RInv, RTypeOK
  <2>3. \A s \in BOOLEAN : view'[s] > 0 => view'[s] = view[s]
    BY <2>2
  <2>4. ExitsKnown' /\ NotAhead' /\ RestIsFree'
    BY <1>2, <1>3, <1>4, <2>2, <2>3 DEF ExitsKnown, Waiting, NotAhead, RestIsFree, Remainder
  <2> QED BY <1>5, <2>4
<1> QED BY <1>6, <1>7, <1>8, <1>9, <1>10, <1>11

LEMMA ClearingKnown ==
  ASSUME RSound, RSound', Known, ~blind', UNCHANGED market,
         \/ \E g \in Grids, p \in Prices : Build(g, p)
         \/ \E o \in OrderId : CancelLeftover(o)
         \/ ReadCaps
         \/ \E r \in leftover : RefuseExit(r)
  PROVE  Known'
<1>1. /\ GapKept /\ LiveExitsKept
  BY BuildBooks, CancelLeftoverBooks, ReadCapsBooks, RefuseExitBooks DEF RSound
<1>2. ~blind /\ \A r \in leftover : ~RefuseExit(r)
  <2>1. \A r \in leftover : ~RefuseExit(r)
    BY DEF RefuseExit
  <2>2. blind' = blind
    BY <2>1 DEF Build, CancelLeftover, ReadCaps
  <2> QED BY <2>1, <2>2
<1>3. /\ exits' = exits /\ pos' = pos /\ UNCHANGED <<leftover, adopted>>
      /\ stage \in {"down", "clear", "caps"} /\ stage' \in {"list", "clear", "adopt"}
      /\ stage = "down" <=> stage' = "list"
  BY <1>2 DEF Build, CancelLeftover, ReadCaps
<1>4. /\ LooseInGap' /\ ExitsWithinPosition'
      /\ \A short \in BOOLEAN : Gap(short)' = Gap(short) /\ Believed(short)' = Believed(short)
  BY <1>1, <1>2, <1>3, QuietNumbers
<1>5. ExitsKnown' /\ NotAhead' /\ RestIsFree'
  <2>1. \A o \in OrderId : LiveExit(orders'[o]) => LiveExit(orders[o])
    BY <1>1 DEF LiveExitsKept
  <2>2. ExitsKnown /\ NotAhead
    BY <1>2 DEF Known
  <2> QED BY <1>3, <1>4, <2>1, <2>2 DEF ExitsKnown, Waiting, NotAhead, RestIsFree
<1> QED BY <1>4, <1>5 DEF Known

\* With every live exit order named there is nothing loose.
LEMMA NamedNotLoose == AllNamed(exits, orders) => \A short \in BOOLEAN : Loose(short) = 0
BY LooseNone

LEMMA NamedKnown ==
  ASSUME RSound', AllNamed(exits', orders'), \A short \in BOOLEAN : Gap(short)' >= 0
  PROVE  LooseInGap' /\ ExitsKnown'
<1>1. \A short \in BOOLEAN : Loose(short)' = 0
  <2>1. (AllNamed(exits, orders) => \A short \in BOOLEAN : Loose(short) = 0)'
    BY NamedNotLoose, PTL
  <2> QED BY <2>1
<1> QED BY <1>1 DEF LooseInGap, ExitsKnown, AllNamed

LEMMA UpAllNamed ==
  ASSUME RSound, Known, ~blind, stage \in {"up", "reconcile", "recheck"}
  PROVE  AllNamed(exits, orders)
BY DEF Known, ExitsKnown, AllNamed, Waiting, RSound, RInv, StageTable

LEMMA TickKnown ==
  ASSUME RSound, RSound', Known, ~blind', "manual" \notin Failing, stage = "up", OnTick,
         blind' = (blind \/ ExitAnswerLost), UNCHANGED <<stage, leftover, adopted, view>>
  PROVE  Known'
<1>1. Sound /\ Sound' /\ blind \in BOOLEAN
  BY DEF RSound, RInv, Sound, RTypeOK
<1>2. ~blind /\ ~ExitAnswerLost /\ [Next]_vars
  BY <1>1 DEF Next
<1>3. AllNamed(exits, orders) /\ AllNamed(exits', orders')
  BY <1>1, <1>2, UpAllNamed, NextNamed DEF Answered
<1>4. \A short \in BOOLEAN : Gap(short)' >= 0 /\ Gap(short)' \in Int
  <2>1. GapStep
    BY <1>1, <1>2, NextGap
  <2>2. AllUncut
    BY DEF AllUncut, Uncut
  <2>3. \A short \in BOOLEAN : Gap(short)' >= Gap(short)
    BY <1>3, <2>1, <2>2 DEF GapStep
  <2>4. \A short \in BOOLEAN : Gap(short) >= Loose(short)
    BY <1>1, <1>2, SoundNumbers DEF Known, LooseInGap
  <2> QED BY <1>1, <2>3, <2>4, SoundNumbers, SoundNumbersNext
<1>5. LooseInGap' /\ ExitsKnown'
  BY <1>3, <1>4, NamedKnown
<1>6. ExitsWithinPosition'
  <2>1. CASE pc' = "seat"
    <3>1. pos' = pos /\ \A short \in BOOLEAN : Closing(short)' = Closing(short)
      BY <1>1, <1>2, <2>1, SeatingKeeps
    <3> QED BY <1>2, <3>1 DEF Known, ExitsWithinPosition
  <2>2. CASE pc' # "seat"
    <3>1. (Sound /\ pc # "seat" /\ LooseInGap => ExitsWithinPosition)'
      BY GapCoversLoose, PTL
    <3> QED BY <1>1, <1>5, <2>2, <3>1
  <2> QED BY <2>1, <2>2
<1>7. NotAhead' /\ RestIsFree'
  BY DEF NotAhead, RestIsFree
<1> QED BY <1>5, <1>6, <1>7 DEF Known

LEMMA LooseIsClosing == Sound => \A short \in BOOLEAN : Loose(short) <= Closing(short)
<1> SUFFICES ASSUME Sound, NEW short \in BOOLEAN PROVE Loose(short) <= Closing(short)
  OBVIOUS
<1> DEFINE U == [x \in ExitsBy(short) |-> Untraded(exits[x].oid)]
<1>1. /\ Closing(short) = Loose(short) + SumFunctionOnSet(U, LiveBy(short))
      /\ Loose(short) \in Nat /\ SumFunctionOnSet(U, LiveBy(short)) \in Nat
  BY ClosingSplit
<1> HIDE DEF U
<1> QED BY <1>1

LEMMA CrashKnown ==
  ASSUME RSound, RSound', Known, ~blind', UNCHANGED market, Crash
  PROVE  Known'
<1>1. /\ Sound /\ Sound' /\ ~blind /\ stage' = "down" /\ pos' = pos
      /\ adopted' = NoLots
  BY DEF RSound, RInv, Sound, Crash
<1>2. /\ LiveExitsKept
      /\ \A short \in BOOLEAN : Books(entries', toSeat', exits', orders', short) = 0
  BY CrashBooks DEF RSound
<1>3. \A short \in BOOLEAN : Closing(short)' = Closing(short)
  BY <1>2, ClosingKept
<1>4. ExitsWithinPosition'
  BY <1>1, <1>3 DEF Known, ExitsWithinPosition
<1>5. \A short \in BOOLEAN : Gap(short)' = pos[short] /\ Believed(short)' = 0
  <2>1. \A short \in BOOLEAN : Gap(short)' = pos'[short] - Books(entries', toSeat', exits', orders', short)
    BY <1>1, GapIsBooksNext DEF GapCounted, Sound
  <2>2. \A short \in BOOLEAN : Gap(short)' = pos'[short] - Believed(short)'
                              /\ Believed(short)' \in Int /\ pos'[short] \in Nat
    BY <1>1, SoundNumbersNext
  <2> QED BY <1>1, <1>2, <2>1, <2>2
<1>6. LooseInGap'
  <2>1. (Sound => \A short \in BOOLEAN : Loose(short) <= Closing(short))'
    BY LooseIsClosing, PTL
  <2>2. \A short \in BOOLEAN : /\ Loose(short)' <= Closing(short)' /\ Closing(short)' <= pos[short]
                               /\ Loose(short)' \in Nat /\ Closing(short)' \in Nat /\ pos[short] \in Nat
    BY <1>1, <1>3, <2>1, SoundNumbers, SoundNumbersNext DEF Known, ExitsWithinPosition
  <2> QED BY <1>5, <2>2 DEF LooseInGap
<1>7. ExitsKnown' /\ NotAhead' /\ RestIsFree'
  BY <1>1, <1>5 DEF ExitsKnown, NotAhead, RestIsFree, NoLots
<1> QED BY <1>4, <1>6, <1>7 DEF Known

LEMMA AdoptExitKnown ==
  ASSUME RSound, RSound', Known, ~blind', UNCHANGED market, "manual" \notin Failing,
         NEW r \in leftover, NEW k \in 1 .. N + Overflow, NEW x \in ExitIdx, AdoptExit(r, k, x)
  PROVE  Known'
<1> DEFINE u == Untraded(r.oid)
<1>1. /\ Sound /\ Sound' /\ ~blind /\ stage = "adopt" /\ stage' = stage /\ leftover' = leftover \ {r}
      /\ adopted' = [adopted EXCEPT ![r.short] = @ + r.qty] /\ adopted \in [BOOLEAN -> Nat]
  BY DEF AdoptExit, RSound, RInv, Sound, RTypeOK
<1>2. /\ orders' = orders /\ pos' = pos
      /\ exits[x].st = "none" /\ exits'[x].st = "open" /\ exits'[x].oid = r.oid
      /\ \A y \in ExitIdx : y # x => exits'[y] = exits[y]
      /\ \A short \in BOOLEAN : Gap(short)' = Gap(short) - (IF short = r.short THEN u ELSE 0)
  BY AdoptExitBooks DEF RSound
<1>3. /\ r.oid \in OrderId /\ r.short \in BOOLEAN /\ r.qty \in Nat
      /\ orders[r.oid].kind = "exit" /\ orders[r.oid].st # "none"
      /\ LeftoverLots(r, orders, exits)
  BY LeftoverFacts DEF RSound, StageBooks
<1>4. /\ u \in Nat /\ u <= r.qty /\ (~LiveExit(orders[r.oid]) => u = 0)
      /\ orders[r.oid].short = r.short /\ ~Named(exits, r.oid)
  <2>1. orders[r.oid] \in Order /\ OrderOk(orders[r.oid])
    BY <1>1, <1>3 DEF Sound, LInv, OrderLots, IInv, TypeOK
  <2> QED BY <1>3, <2>1 DEF OrderOk, Order, Untraded, LiveExit, LeftoverLots
<1>5. \A o \in OrderId : Named(exits', o) <=> Named(exits, o) \/ o = r.oid
  BY <1>2 DEF Named
<1>6. ASSUME NEW short \in BOOLEAN
      PROVE  Loose(short)' = Loose(short) - (IF short = r.short THEN u ELSE 0)
  <2>1. \A q \in OrderId : LooseAt(exits, orders, q, short) \in Nat
    BY <1>1, LooseTypes
  <2>2. \A q \in OrderId : q # r.oid =>
          LooseAt(exits', orders, q, short) = LooseAt(exits, orders, q, short)
    BY <1>5 DEF LooseAt
  <2>3. /\ LooseAt(exits', orders, r.oid, short) = 0
        /\ LooseAt(exits, orders, r.oid, short) = IF short = r.short THEN u ELSE 0
    BY <1>3, <1>4, <1>5 DEF LooseAt, Untraded
  <2>4. LooseAt(exits', orders, r.oid, short) \in Nat
    BY <2>3
  <2>5. LooseSum(exits', orders, short)
          = LooseSum(exits, orders, short) - LooseAt(exits, orders, r.oid, short)
              + LooseAt(exits', orders, r.oid, short)
    BY <1>3, <2>1, <2>2, <2>4, LooseChange
  <2>6. /\ Loose(short)' = LooseSum(exits', orders, short) /\ Loose(short) = LooseSum(exits, orders, short)
        /\ Loose(short) \in Nat
    BY <1>1, <1>2, SoundNumbers DEF Loose
  <2> QED BY <1>4, <2>3, <2>5, <2>6
<1>7. \A short \in BOOLEAN :
        /\ Gap(short) = pos[short] - Believed(short) /\ Gap(short)' = pos[short] - Believed(short)'
        /\ Gap(short) \in Int /\ Believed(short) \in Int /\ Believed(short)' \in Int
        /\ Loose(short) \in Nat /\ pos[short] \in Nat
  BY <1>1, <1>2, SoundNumbers, SoundNumbersNext
<1> HIDE DEF u
<1>8. LooseInGap'
  <2> SUFFICES ASSUME NEW short \in BOOLEAN PROVE Loose(short)' <= Gap(short)'
    BY DEF LooseInGap
  <2>1. Loose(short) <= Gap(short)
    BY <1>1 DEF Known, LooseInGap
  <2> QED BY <1>2, <1>4, <1>6, <1>7, <2>1
<1>9. ExitsKnown'
  <2> SUFFICES ASSUME NEW o \in OrderId, LiveExit(orders[o])
               PROVE  Named(exits', o) \/ \E q \in leftover' : q.oid = o
    BY <1>2 DEF ExitsKnown, Waiting
  <2>1. Named(exits, o) \/ \E q \in leftover : q.oid = o
    BY <1>1 DEF Known, ExitsKnown, Waiting
  <2> QED BY <1>1, <1>5, <2>1
<1>10. NotAhead'
  <2> SUFFICES ASSUME NEW short \in BOOLEAN PROVE Believed(short)' <= adopted'[short]
    BY DEF NotAhead
  <2>1. Believed(short) <= adopted[short] /\ adopted[short] \in Nat
    BY <1>1 DEF Known, NotAhead
  <2>2. adopted'[short] = adopted[short] + (IF short = r.short THEN r.qty ELSE 0)
    BY <1>1, <1>3
  <2> QED BY <1>2, <1>3, <1>4, <1>7, <2>1, <2>2
<1>11. RestIsFree'
  BY <1>1 DEF RestIsFree
<1>12. ExitsWithinPosition'
  <2>1. \A short \in BOOLEAN : Closing(short)' = Closing(short)
    BY <1>2, ClosingKept DEF LiveExitsKept
  <2> QED BY <1>1, <1>2, <2>1 DEF Known, ExitsWithinPosition
<1> QED BY <1>8, <1>9, <1>10, <1>11, <1>12 DEF Known

LEMMA TakeOverKnown ==
  ASSUME RSound, RSound', Known, ~blind', UNCHANGED market,
         NEW short \in BOOLEAN, NEW cost \in Costs, NEW k \in 1 .. N + Overflow,
         TakeOver(short, cost, k)
  PROVE  Known'
<1>1. /\ Sound /\ Sound' /\ ~blind /\ ~ExitAnswerLost /\ stage = "reconcile" /\ stage' = stage
      /\ view[short] > 0 /\ view' = [view EXCEPT ![short] = 0] /\ UNCHANGED <<leftover, adopted>>
      /\ view \in [BOOLEAN -> Nat] /\ adopted \in [BOOLEAN -> Nat]
      /\ pc' # "seat"
  BY DEF TakeOver, RSound, RInv, Sound, RTypeOK, StageTable
<1>2. PICK i \in EntryIdx : \E os : TakesOver(i, short, os)
  BY TakeOverBooks DEF RSound
<1>3. PICK os : TakesOver(i, short, os)
  BY <1>2
<1>4. \A s \in BOOLEAN : Gap(s)' = Gap(s) - (IF s = short THEN Remainder(short) ELSE 0)
  BY TakeOverBooks DEF RSound
<1>5. AllNamed(exits', orders')
  <2>1. AllNamed(exits, orders)
    BY <1>1, UpAllNamed
  <2>2. PlaceExitMakes(os, i, entries')
    BY <1>3 DEF TakesOver
  <2> QED BY <1>1, <2>1, <2>2, PlaceExitNamed DEF Answered
<1>6. \A s \in BOOLEAN : Gap(s) \in Int /\ Loose(s) \in Nat /\ Loose(s) <= Gap(s)
                         /\ (view[s] > 0 => Remainder(s) <= Gap(s))
                         /\ Remainder(s) \in Int
  BY <1>1, SoundNumbers DEF Known, LooseInGap, RestIsFree, Remainder
<1>7. \A s \in BOOLEAN : Gap(s)' >= 0
  BY <1>1, <1>4, <1>6
<1>8. LooseInGap' /\ ExitsKnown'
  BY <1>5, <1>7, NamedKnown
<1>9. RestIsFree'
  <2> SUFFICES ASSUME NEW s \in BOOLEAN, view'[s] > 0
               PROVE  view'[s] - adopted[s] <= Gap(s)'
    BY <1>1 DEF RestIsFree, Remainder
  <2>1. s # short /\ view'[s] = view[s]
    BY <1>1
  <2> QED BY <1>4, <1>6, <2>1 DEF Remainder
<1>10. NotAhead'
  BY <1>1 DEF NotAhead
<1>11. ExitsWithinPosition'
  <2>1. (Sound /\ pc # "seat" /\ LooseInGap => ExitsWithinPosition)'
    BY GapCoversLoose, PTL
  <2> QED BY <1>1, <1>8, <2>1
<1> QED BY <1>8, <1>9, <1>10, <1>11 DEF Known

LEMMA WorldKeepsKnown ==
  ASSUME RSound, RSound', Known, ~blind', UNCHANGED market, "manual" \notin Failing, World,
         UNCHANGED <<stage, leftover, adopted, view, blind>>
  PROVE  Known'
<1>0. ~blind
  OBVIOUS
<1>1. CASE \E o \in OrderId : Fill(o)
  <2>1. PICK o \in OrderId : Fill(o)
    BY <1>1
  <2> QED BY <1>0, <2>1, FillKnown
<1>2. CASE \E i \in EntryIdx : BackoffOver(i)
  <2>1. UNCHANGED <<entries, exits, toSeat, orders, pos>>
    BY <1>2 DEF BackoffOver
  <2>2. /\ LooseInGap' /\ ExitsWithinPosition'
        /\ \A short \in BOOLEAN : Gap(short)' = Gap(short) /\ Believed(short)' = Believed(short)
    BY <1>0, <2>1, ReadNumbers
  <2>3. ExitsKnown' /\ NotAhead' /\ RestIsFree'
    BY <1>0, <2>1, <2>2 DEF Known, ExitsKnown, Waiting, NotAhead, RestIsFree, Remainder
  <2> QED BY <2>2, <2>3 DEF Known
<1> QED BY <1>1, <1>2 DEF World, ManualCancel

LEMMA StillKnown ==
  ASSUME RSound, RSound', Known, UNCHANGED rVars PROVE Known'
<1>1. UNCHANGED <<entries, exits, toSeat, orders, pos, stage, leftover, adopted, view, blind>>
  BY DEF rVars, vars, engineVars, restartVars
<1>2. CASE ~blind
  <2>2. /\ LooseInGap' /\ ExitsWithinPosition'
        /\ \A short \in BOOLEAN : Gap(short)' = Gap(short) /\ Believed(short)' = Believed(short)
    BY <1>1, <1>2, ReadNumbers
  <2>3. ExitsKnown' /\ NotAhead' /\ RestIsFree'
    BY <1>1, <1>2, <2>2 DEF Known, ExitsKnown, Waiting, NotAhead, RestIsFree, Remainder
  <2> QED BY <2>2, <2>3 DEF Known
<1> QED BY <1>1, <1>2 DEF Known

LEMMA RNextKnown ==
  ASSUME EchoesClientId, "manual" \notin Failing
  PROVE  RSound /\ Known /\ [RNext]_rVars => RSound' /\ Known'
<1> SUFFICES ASSUME RSound, Known, [RNext]_rVars PROVE RSound' /\ Known'
  OBVIOUS
<1>1. RStep /\ UNCHANGED market
  BY RNextIsRStep
<1>2. RSound'
  BY RNextRSound
<1>3. CASE blind'
  BY <1>2, <1>3 DEF Known
<1>4. CASE ~blind'
  <2>1. CASE UNCHANGED rVars
    BY <1>2, <2>1, StillKnown
  <2>2. CASE \/ ListOrders \/ ClearDone \/ AdoptDone \/ Recheck \/ InitializeDone
             \/ \E short \in BOOLEAN : Covers(short)
    BY <1>1, <1>2, <1>4, <2>2, ReadKnown
  <2>3. CASE \/ \E g \in Grids, p \in Prices : Build(g, p)
             \/ \E o \in OrderId : CancelLeftover(o)
             \/ ReadCaps
             \/ \E r \in leftover : RefuseExit(r)
    BY <1>1, <1>2, <1>4, <2>3, ClearingKnown
  <2>4. CASE \E r \in leftover, k \in 1 .. N + Overflow, x \in ExitIdx : AdoptExit(r, k, x)
    BY <1>1, <1>2, <1>4, <2>4, AdoptExitKnown
  <2>5. CASE \E short \in BOOLEAN, cost \in Costs, k \in 1 .. N + Overflow : TakeOver(short, cost, k)
    BY <1>1, <1>2, <1>4, <2>5, TakeOverKnown
  <2>6. CASE Crash
    BY <1>1, <1>2, <1>4, <2>6, CrashKnown
  <2>7. CASE /\ stage = "up" /\ OnTick
             /\ blind' = (blind \/ ExitAnswerLost)
             /\ UNCHANGED <<stage, leftover, adopted, view, quiet, crashes>>
    BY <1>1, <1>2, <1>4, <2>7, TickKnown
  <2>8. CASE /\ World
             /\ quiet' = (quiet /\ orders' = orders)
             /\ UNCHANGED <<stage, leftover, adopted, view, blind, crashes>>
    BY <1>1, <1>2, <1>4, <2>8, WorldKeepsKnown
  <2> QED BY <1>1, <1>2, <2>1, <2>2, <2>3, <2>4, <2>5, <2>6, <2>7, <2>8 DEF RStep
<1> QED BY <1>3, <1>4

LEMMA InitRSound == RInit => RSound
<1> SUFFICES ASSUME RInit PROVE RSound
  OBVIOUS
<1>1. Sound
  BY InitGap DEF RInit
<1> QED BY <1>1, InitRInv, InitStageBooks DEF RSound, Sound

\* Wherever the listing, the cancellations and the two reads of the positions
\* fall between the trades, a restarted engine never believes in a lot the
\* account does not have, as long as it has heard of every exit order it
\* placed.  The exchange has to echo the client ids and nobody else may
\* cancel an exit order that waits for adoption.
THEOREM RestartBelievesNoPhantom ==
  ASSUME EchoesClientId, "manual" \notin Failing PROVE RSpec => []RestartNoPhantom
<1>1. RInit => RSound /\ Known
  <2> SUFFICES ASSUME RInit PROVE RSound /\ Known
    OBVIOUS
  <2>1. RSound
    BY InitRSound
  <2>2. Sound /\ (\A short \in BOOLEAN : Gap(short) = 0) /\ AllNamed(exits, orders)
    <3>1. Init
      BY DEF RInit
    <3>2. AllNamed(exits, orders)
      BY <3>1, LevelFacts DEF Init, AllNamed, LiveExit
    <3> QED BY <3>1, <3>2, InitGap
  <2>3. LooseInGap /\ pc # "seat" /\ stage = "up"
    <3>1. \A short \in BOOLEAN : Loose(short) = 0
      BY <2>2, LooseNone
    <3> QED BY <2>2, <3>1 DEF LooseInGap, RInit, Init
  <2>4. ExitsKnown /\ NotAhead /\ RestIsFree /\ ExitsWithinPosition
    BY <2>2, <2>3, GapCoversLoose DEF ExitsKnown, AllNamed, NotAhead, RestIsFree
  <2> QED BY <2>1, <2>3, <2>4 DEF Known
<1>2. RSound /\ Known /\ [RNext]_rVars => (RSound /\ Known)'
  BY RNextKnown
<1>3. RSound /\ Known => RestartNoPhantom
  <2> SUFFICES ASSUME RSound, Known, ~blind, NEW short \in BOOLEAN
               PROVE  Believed(short) <= pos[short]
    BY DEF RestartNoPhantom, NoPhantom
  <2> QED BY SoundNumbers DEF Known, LooseInGap, RSound, RInv, Sound
<1> QED BY <1>1, <1>2, <1>3, PTL DEF RSpec

-----------------------------------------------------------------------------
(* A restart that nothing disturbs                                         *)

\* Nothing has traded since, so every exit order on the table is live with
\* all its level's lots, and every position has one.
LevelsQuiet ==
  /\ \A x \in OpenExits : orders[exits[x].oid].st = "new" /\ Untraded(exits[x].oid) = exits[x].qty
  /\ \A i \in HeldIdx : Covered(i)

\* An exit order is on a level, waits for adoption, or was one too many.
Accounted(o) ==
  \/ Named(exits, o)
  \/ Waiting(o)
  \/ ~IsSpot /\ Closing(orders[o].short) > pos[orders[o].short]

OrdersQuiet ==
  stage # "list" =>
    /\ \A r \in leftover : orders[r.oid].st = "new" /\ r.qty = Untraded(r.oid)
    /\ \A o \in OrderId : LiveExit(orders[o]) => Accounted(o)
    /\ \A o \in EntryOrders : stage = "clear" /\ o \in cancels

\* The two reads of the positions agree; what they leave is taken over.
ReadsQuiet ==
  /\ IsSpot => view = NoLots
  /\ stage = "adopt" /\ ~IsSpot => view = pos
  /\ \A short \in BOOLEAN :
       /\ ~IsSpot => adopted[short] <= pos[short]
       /\ IF stage = "reconcile" /\ ~IsSpot
          THEN /\ view[short] \in {0, pos[short]}
               /\ Believed(short) = IF view[short] = 0 THEN pos[short] ELSE adopted[short]
          ELSE Believed(short) = adopted[short]

QuietBooks ==
  quiet => stage \notin {"up", "down"} /\ LevelsQuiet /\ OrdersQuiet /\ ReadsQuiet

\* The books of a table without open entry levels.
LEMMA NoOpenBooks ==
  ASSUME Sound, toSeat = {}, \A i \in EntryIdx : entries[i].st # "open", NEW short \in BOOLEAN
  PROVE  /\ Believed(short) = HeldSum(entries, short) - ExitSum(exits, orders, short)
         /\ HeldSum(entries, short) \in Nat /\ ExitSum(exits, orders, short) \in Int
<1> DEFINE g == [i \in EntryIdx |-> OpenAt(entries[i], orders, short)]
<1>1. Countable(entries, toSeat, exits, orders)
  BY GapIsBooks DEF Sound
<1>2. Believed(short) = Books(entries, toSeat, exits, orders, short)
  BY <1>1, BelievedIsBooks
<1>3. \A i \in EntryIdx : g[i] = 0
  BY DEF OpenAt
<1> HIDE DEF g
<1>4. SumFunctionOnSet(g, EntryIdx) = 0
  BY <1>3, IndexSetsFinite, SumZero
<1>5. OpenSum(entries, orders, short) = 0 /\ MovingSum(toSeat, short) = 0
  BY <1>4, SumEmpty DEF OpenSum, MovingSum, g
<1> QED BY <1>1, <1>2, <1>5, SumTypes DEF Books

LEMMA QuietExitSum ==
  ASSUME Sound, LevelsQuiet, NEW short PROVE ExitSum(exits, orders, short) = 0
<1> DEFINE k == [x \in ExitIdx |-> ExitAt(exits[x], orders, short)]
<1>1. \A x \in ExitIdx : k[x] = 0
  <2> SUFFICES ASSUME NEW x \in ExitIdx, exits[x].st = "open"
               PROVE  exits[x].qty - (orders[exits[x].oid].qty - orders[exits[x].oid].filled) = 0
    BY DEF ExitAt
  <2>1. exits[x].qty = orders[exits[x].oid].qty - orders[exits[x].oid].filled /\ exits[x].qty \in Nat
    BY DEF LevelsQuiet, OpenExits, Untraded, Sound, IInv, TypeOK, ExitLevel
  <2> QED BY <2>1
<1> HIDE DEF k
<1>2. SumFunctionOnSet(k, ExitIdx) = 0
  BY <1>1, IndexSetsFinite, SumZero
<1> QED BY <1>2 DEF ExitSum, k

\* On such a table the positions are just those the exit levels close.
LEMMA PairedEqual ==
  ASSUME Sound, pc # "seat", LevelsQuiet, NEW short \in BOOLEAN
  PROVE  LET Q == [x \in ExitsBy(short) |-> exits[x].qty]
         IN  SumFunctionOnSet(Q, ExitsBy(short)) = HeldSum(entries, short)
<1> DEFINE Q == [x \in ExitsBy(short) |-> exits[x].qty]
           T == PairedIdx(short)
           f == [i \in EntryIdx |-> HeldAt(entries[i], short)]
<1>1. /\ SumFunctionOnSet(f, T) = SumFunctionOnSet(Q, ExitsBy(short))
      /\ T \in SUBSET EntryIdx
      /\ \A i \in EntryIdx : f[i] \in Nat
  BY PairedSum
<1>2. \A i \in EntryIdx : i \notin T => f[i] = 0
  <2> SUFFICES ASSUME NEW i \in EntryIdx, entries[i].st = "held", entries[i].short = short
               PROVE  i \in T
    BY DEF HeldAt
  <2>1. PICK x \in OpenExits : exits[x].pair = i
    BY DEF LevelsQuiet, HeldIdx, Held, Covered
  <2>2. exits[x].short = short
    BY <2>1 DEF Sound, IInv, PairTable, Serves
  <2> QED BY <2>1, <2>2 DEF ExitsBy, PairedIdx
<1>3. (\A i \in T : f[i] \in Int /\ f[i] = f[i]) /\ T \subseteq EntryIdx
  BY <1>1
<1> HIDE DEF Q, T, f
<1>4. SumFunctionOnSet(f, T) = SumFunctionOnSet(f, EntryIdx)
  BY <1>2, <1>3, IndexSetsFinite, SumPadded
<1> QED BY <1>1, <1>4 DEF HeldSum, Q, f

\* So the exit orders close what the engine believes in, and the loose ones.
LEMMA QuietClosing ==
  ASSUME Sound, pc # "seat", toSeat = {}, \A i \in EntryIdx : entries[i].st # "open",
         LevelsQuiet, NEW short \in BOOLEAN
  PROVE  Closing(short) = Loose(short) + Believed(short)
<1> DEFINE E == ExitsBy(short)
           Q == [x \in E |-> exits[x].qty]
           U == [x \in E |-> Untraded(exits[x].oid)]
<1>1. Closing(short) = Loose(short) + SumFunctionOnSet(U, LiveBy(short))
  BY ClosingSplit
<1>2. LiveBy(short) = E
  BY DEF LiveBy, LevelsQuiet, ExitsBy
<1>3. U = Q
  <2>1. \A x \in E : Untraded(exits[x].oid) = exits[x].qty
    BY DEF LevelsQuiet, ExitsBy
  <2> QED BY <2>1
<1>4. SumFunctionOnSet(Q, E) = HeldSum(entries, short)
  BY PairedEqual
<1> HIDE DEF E, Q, U
<1>5. Believed(short) = HeldSum(entries, short) - 0
  BY NoOpenBooks, QuietExitSum
<1> QED BY <1>1, <1>2, <1>3, <1>4, <1>5, NoOpenBooks

\* Before the first adoption the table is empty.
LEMMA EmptyTable ==
  RSound /\ stage \in {"list", "clear", "caps"} =>
    LevelsQuiet /\ \A short \in BOOLEAN : Believed(short) = 0
<1> SUFFICES ASSUME RSound, stage \in {"list", "clear", "caps"}
             PROVE  LevelsQuiet /\ \A short \in BOOLEAN : Believed(short) = 0
  OBVIOUS
<1>1. /\ \A x \in ExitIdx : exits[x].st # "open"
      /\ \A i \in EntryIdx : entries[i].st \notin {"held", "open"}
      /\ toSeat = {} /\ Sound
  BY DEF RSound, StageBooks, RInv, StageTable, Sound
<1>2. LevelsQuiet
  BY <1>1 DEF LevelsQuiet, OpenExits, HeldIdx, Held
<1>3. ASSUME NEW short \in BOOLEAN PROVE Believed(short) = 0
  <2> DEFINE f == [i \in EntryIdx |-> HeldAt(entries[i], short)]
  <2>1. \A i \in EntryIdx : f[i] = 0
    BY <1>1 DEF HeldAt
  <2> HIDE DEF f
  <2>2. SumFunctionOnSet(f, EntryIdx) = 0
    BY <2>1, IndexSetsFinite, SumZero
  <2>3. HeldSum(entries, short) = 0
    BY <2>2 DEF HeldSum, f
  <2> QED BY <1>1, <1>2, <2>3, NoOpenBooks, QuietExitSum
<1> QED BY <1>2, <1>3

\* A step that leaves the levels and the live exit orders alone.
LEMMA QuietSame ==
  ASSUME RSound, RSound', GapKept, LiveExitsKept, UNCHANGED <<entries, exits, pos>>
  PROVE  /\ LevelsQuiet => LevelsQuiet'
         /\ \A short \in BOOLEAN :
              Believed(short)' = Believed(short) /\ Closing(short)' = Closing(short)
<1>1. Sound /\ Sound'
  BY DEF RSound, RInv, Sound
<1>2. \A short \in BOOLEAN :
        Believed(short)' = Believed(short) /\ Closing(short)' = Closing(short)
  BY <1>1, SameBooks
<1>3. ASSUME LevelsQuiet PROVE LevelsQuiet'
  <2>1. \A i \in EntryIdx : entries'[i].st = "held" => \E x \in ExitIdx : exits'[x].st = "open" /\ exits'[x].pair = i
    BY <1>3 DEF LevelsQuiet, HeldIdx, Held, Covered, OpenExits
  <2>2. ASSUME NEW x \in ExitIdx, exits[x].st = "open"
        PROVE  /\ orders'[exits'[x].oid].st = "new"
               /\ orders'[exits'[x].oid].qty - orders'[exits'[x].oid].filled = exits'[x].qty
    <3>1. exits[x].oid \in OrderId /\ LiveExit(orders[exits[x].oid])
      BY <1>1, <1>3, <2>2 DEF Sound, LInv, ExitsNamed, NamesExit, LevelsQuiet, OpenExits, LiveExit
    <3>2. orders'[exits[x].oid] = orders[exits[x].oid]
      BY <3>1 DEF LiveExitsKept
    <3> QED BY <1>3, <2>2, <3>1, <3>2 DEF LevelsQuiet, OpenExits, Untraded
  <2> QED BY <2>1, <2>2 DEF LevelsQuiet, HeldIdx, Held, Covered, OpenExits, Untraded
<1> QED BY <1>2, <1>3

LEMMA ReadSame ==
  ASSUME RSound, RSound', UNCHANGED <<entries, exits, toSeat, orders, pos>>
  PROVE  /\ LevelsQuiet => LevelsQuiet'
         /\ \A short \in BOOLEAN :
              Believed(short)' = Believed(short) /\ Closing(short)' = Closing(short)
<1>1. GapKept
  BY QuietGap DEF RSound, RInv, Sound
<1>2. LiveExitsKept
  BY DEF LiveExitsKept
<1> QED BY <1>1, <1>2, QuietSame

LEMMA BuildQuiet ==
  ASSUME RSound, RSound', UNCHANGED market, NEW g \in Grids, NEW p \in Prices, Build(g, p)
  PROVE  QuietBooks'
<1>1. stage' = "list"
  BY DEF Build
<1>2. LevelsQuiet' /\ \A short \in BOOLEAN : Believed(short)' = 0
  <2>1. (RSound /\ stage \in {"list", "clear", "caps"} =>
           LevelsQuiet /\ \A short \in BOOLEAN : Believed(short) = 0)'
    BY EmptyTable, PTL
  <2> QED BY <1>1, <2>1
<1>3. adopted' = NoLots /\ view' = NoLots /\ pos' \in [BOOLEAN -> Nat]
  BY <1>1 DEF RSound, StageBooks, RInv, IInv, TypeOK
<1>4. OrdersQuiet'
  BY <1>1 DEF OrdersQuiet
<1>5. ReadsQuiet'
  BY <1>1, <1>2, <1>3 DEF ReadsQuiet, NoLots
<1> QED BY <1>1, <1>2, <1>4, <1>5 DEF QuietBooks

LEMMA ReadQuiet ==
  ASSUME RSound, RSound', QuietBooks, quiet', UNCHANGED market, EchoesClientId,
         \/ ListOrders \/ ClearDone \/ AdoptDone \/ Recheck
         \/ \E short \in BOOLEAN : Covers(short)
  PROVE  QuietBooks'
<1>1. quiet /\ stage' \notin {"up", "down"}
  BY DEF ListOrders, ClearDone, AdoptDone, Recheck, Covers
<1>2. UNCHANGED <<entries, exits, toSeat, orders, pos>>
  BY ReadSteps DEF RSound
<1>3. /\ LevelsQuiet'
      /\ \A short \in BOOLEAN : Believed(short)' = Believed(short) /\ Closing(short)' = Closing(short)
  BY <1>1, <1>2, ReadSame DEF QuietBooks
<1>4. OrdersQuiet /\ ReadsQuiet
  BY <1>1 DEF QuietBooks
<1>5. OrdersQuiet' /\ ReadsQuiet' => QuietBooks'
  BY <1>1, <1>3 DEF QuietBooks
<1>6. /\ IsSpot' <=> IsSpot
      /\ pos \in [BOOLEAN -> Nat] /\ adopted \in [BOOLEAN -> Nat] /\ view \in [BOOLEAN -> Nat]
      /\ orders \in [OrderId -> Order]
      /\ \A o \in OrderId : orders[o].short \in BOOLEAN
  BY DEF IsSpot, RSound, RInv, RTypeOK, IInv, TypeOK, Order
<1>7. ASSUME stage # "list", leftover' = leftover
      PROVE  /\ \A r \in leftover' : orders'[r.oid].st = "new" /\ r.qty = Untraded(r.oid)'
             /\ \A o \in OrderId : LiveExit(orders'[o]) => Accounted(o)'
             /\ EntryOrders' = EntryOrders
  BY <1>2, <1>3, <1>4, <1>6, <1>7 DEF OrdersQuiet, Accounted, Waiting, Untraded, EntryOrders
<1>8. CASE ListOrders
  <2>1. /\ stage = "list" /\ stage' = "clear" /\ leftover' = {AsLeftover(o) : o \in Adoptable}
        /\ cancels' = OursListed /\ UNCHANGED <<adopted, view>>
    BY <1>8 DEF ListOrders
  <2>2. \A r \in leftover' : orders[r.oid].st = "new" /\ r.qty = Untraded(r.oid)
    <3>1. \A o \in Adoptable : AsLeftover(o).oid = o /\ AsLeftover(o).qty = Untraded(o)
                                /\ orders[o].st = "new"
      BY DEF AsLeftover, Adoptable, OursListed, Listed
    <3> QED BY <2>1, <3>1
  <2>3. \A o \in OrderId : LiveExit(orders[o]) => \E r \in leftover' : r.oid = o
    <3> SUFFICES ASSUME NEW o \in OrderId, LiveExit(orders[o]) PROVE \E r \in leftover' : r.oid = o
      OBVIOUS
    <3>1. orders[o] \in Order /\ OrderOk(orders[o])
      BY DEF RSound, RInv, IInv, TypeOK, LInv, OrderLots
    <3>2. o \in Adoptable
      BY <3>1 DEF Adoptable, OursListed, Listed, Untraded, LiveExit, OrderOk, Order
    <3>3. AsLeftover(o).oid = o
      BY DEF AsLeftover
    <3> QED BY <2>1, <3>2, <3>3
  <2>4. \A o \in EntryOrders : o \in cancels'
    BY <2>1 DEF EntryOrders, OursListed, Listed
  <2>5. OrdersQuiet'
    BY <1>2, <2>1, <2>2, <2>3, <2>4 DEF OrdersQuiet, Accounted, Waiting, Untraded, EntryOrders
  <2>6. ReadsQuiet'
    BY <1>2, <1>3, <1>4, <1>6, <2>1 DEF ReadsQuiet
  <2> QED BY <1>5, <2>5, <2>6
<1>9. CASE ClearDone
  <2>1. /\ stage = "clear" /\ LeftoverEntries = {}
        /\ stage' = IF leftover = {} THEN "recheck" ELSE IF IsSpot THEN "adopt" ELSE "caps"
        /\ UNCHANGED <<leftover, adopted, view>>
    BY <1>9 DEF ClearDone
  <2>2. EntryOrders = {}
    BY <1>4, <2>1 DEF OrdersQuiet, LeftoverEntries, EntryOrders
  <2>3. OrdersQuiet'
    BY <1>7, <2>1, <2>2 DEF OrdersQuiet
  <2>4. ReadsQuiet'
    BY <1>2, <1>3, <1>4, <1>6, <2>1 DEF ReadsQuiet
  <2> QED BY <1>5, <2>3, <2>4
<1>10. CASE AdoptDone
  <2>1. /\ stage = "adopt" /\ stage' = "recheck" /\ UNCHANGED <<leftover, adopted, view>>
    BY <1>10 DEF AdoptDone
  <2>2. OrdersQuiet'
    BY <1>4, <1>7, <2>1 DEF OrdersQuiet
  <2>3. ReadsQuiet'
    BY <1>2, <1>3, <1>4, <1>6, <2>1 DEF ReadsQuiet
  <2> QED BY <1>5, <2>2, <2>3
<1>11. CASE Recheck
  <2>1. /\ stage = "recheck" /\ stage' = "reconcile" /\ UNCHANGED <<leftover, adopted>>
        /\ IF IsSpot THEN view' = NoLots ELSE view' = pos
    BY <1>11 DEF Recheck
  <2>2. OrdersQuiet'
    BY <1>4, <1>7, <2>1 DEF OrdersQuiet
  <2>3. ReadsQuiet'
    <3>1. CASE IsSpot
      BY <1>2, <1>3, <1>4, <1>6, <2>1, <3>1 DEF ReadsQuiet
    <3>2. CASE ~IsSpot
      <4>1. view' = pos
        BY <2>1, <3>2
      <4>2. ASSUME NEW short \in BOOLEAN
            PROVE  /\ adopted[short] <= pos[short]
                   /\ Believed(short) = IF pos[short] = 0 THEN pos[short] ELSE adopted[short]
        <5>1. adopted[short] <= pos[short] /\ Believed(short) = adopted[short]
              /\ adopted[short] \in Nat /\ pos[short] \in Nat
          BY <1>4, <1>6, <2>1, <3>2 DEF ReadsQuiet
        <5> QED BY <5>1
      <4> QED BY <1>2, <1>3, <1>6, <2>1, <3>2, <4>1, <4>2 DEF ReadsQuiet
    <3> QED BY <3>1, <3>2
  <2> QED BY <1>5, <2>2, <2>3
<1>12. CASE \E short \in BOOLEAN : Covers(short)
  <2>1. PICK short \in BOOLEAN : Covers(short)
    BY <1>12
  <2>2. /\ stage = "reconcile" /\ stage' = stage /\ UNCHANGED <<leftover, adopted>>
        /\ view' = [view EXCEPT ![short] = 0] /\ view[short] > 0
        /\ view[short] - adopted[short] <= 0
    BY <2>1 DEF Covers, Remainder
  <2>3. OrdersQuiet'
    BY <1>4, <1>7, <2>2 DEF OrdersQuiet
  <2>4. ~IsSpot
    BY <1>4, <2>2 DEF ReadsQuiet, NoLots
  <2>5. Believed(short) = pos[short]
    <3>1. /\ adopted[short] <= pos[short] /\ view[short] \in {0, pos[short]}
          /\ Believed(short) = adopted[short]
          /\ adopted[short] \in Nat /\ pos[short] \in Nat /\ view[short] \in Nat
      BY <1>4, <1>6, <2>2, <2>4 DEF ReadsQuiet
    <3> QED BY <2>2, <3>1
  <2>6. ReadsQuiet'
    <3>1. view'[short] = 0 /\ \A s \in BOOLEAN : s # short => view'[s] = view[s]
      BY <1>6, <2>2
    <3>2. ASSUME NEW s \in BOOLEAN
          PROVE  /\ adopted[s] <= pos[s] /\ view'[s] \in {0, pos[s]}
                 /\ Believed(s) = IF view'[s] = 0 THEN pos[s] ELSE adopted[s]
      BY <1>4, <2>2, <2>4, <2>5, <3>1 DEF ReadsQuiet
    <3> QED BY <1>2, <1>3, <1>6, <2>2, <2>4, <3>2 DEF ReadsQuiet
  <2> QED BY <1>5, <2>3, <2>6
<1> QED BY <1>8, <1>9, <1>10, <1>11, <1>12

\* What is known of the orders outlives the cancelling of an entry order,
\* and the forgetting.
LEMMA OrdersSame ==
  ASSUME RSound, RSound', LiveExitsKept, UNCHANGED <<exits, pos, market, leftover>>,
         LevelsQuiet, OrdersQuiet, stage # "list",
         \A short \in BOOLEAN : Closing(short)' = Closing(short)
  PROVE  /\ \A r \in leftover' : orders'[r.oid].st = "new" /\ r.qty = Untraded(r.oid)'
         /\ \A o \in OrderId : LiveExit(orders'[o]) => Accounted(o)'
<1>1. ASSUME NEW r \in leftover'
      PROVE  orders'[r.oid].st = "new" /\ r.qty = Untraded(r.oid)'
  <2>1. /\ r.oid \in OrderId /\ LiveExit(orders[r.oid]) /\ r.qty = Untraded(r.oid)
    BY LeftoverFacts DEF OrdersQuiet, LiveExit, RSound
  <2>2. orders'[r.oid] = orders[r.oid]
    BY <2>1 DEF LiveExitsKept
  <2> QED BY <2>1, <2>2 DEF Untraded, LiveExit
<1>2. ASSUME NEW o \in OrderId, LiveExit(orders'[o]) PROVE Accounted(o)'
  <2>1. orders'[o] = orders[o]
    BY <1>2 DEF LiveExitsKept
  <2>2. Accounted(o) /\ orders[o].short \in BOOLEAN
    BY <1>2, <2>1 DEF OrdersQuiet, RSound, RInv, IInv, TypeOK, Order
  <2> QED BY <2>1, <2>2 DEF Accounted, Waiting, IsSpot
<1> QED BY <1>1, <1>2

LEMMA CancelLeftoverQuiet ==
  ASSUME RSound, RSound', QuietBooks, quiet', UNCHANGED market, NEW o \in OrderId, CancelLeftover(o)
  PROVE  QuietBooks'
<1>1. /\ quiet /\ stage = "clear" /\ stage' = stage /\ orders[o].st = "new"
      /\ cancels' = cancels \ {o}
      /\ orders' = Kept([orders EXCEPT ![o].st = "canceled"], entries, exits, cancels')
      /\ UNCHANGED <<entries, exits, pos, market, leftover, adopted, view>>
  BY DEF CancelLeftover
<1>2. GapKept /\ LiveExitsKept
  BY CancelLeftoverBooks DEF RSound
<1>3. /\ LevelsQuiet /\ LevelsQuiet'
      /\ \A short \in BOOLEAN : Believed(short)' = Believed(short) /\ Closing(short)' = Closing(short)
  BY <1>1, <1>2, QuietSame DEF QuietBooks
<1>4. OrdersQuiet /\ ReadsQuiet
  BY <1>1 DEF QuietBooks
<1>5. /\ \A r \in leftover' : orders'[r.oid].st = "new" /\ r.qty = Untraded(r.oid)'
      /\ \A q \in OrderId : LiveExit(orders'[q]) => Accounted(q)'
  BY <1>1, <1>2, <1>3, <1>4, OrdersSame
<1>6. ASSUME NEW q \in OrderId, orders'[q].st = "new", orders'[q].kind = "entry"
      PROVE  q \in cancels'
  <2> DEFINE os == [orders EXCEPT ![o].st = "canceled"]
  <2>1. orders \in [OrderId -> Order]
    BY DEF RSound, RInv, IInv, TypeOK
  <2>2. os[o].st = "canceled" /\ \A p \in OrderId : p # o => os[p] = orders[p]
    BY <2>1 DEF Order
  <2> HIDE DEF os
  <2>3. orders' = Kept(os, entries, exits, cancels')
    BY <1>1 DEF os
  <2>4. orders'[q] = os[q]
    BY <1>6, <2>3, LevelFacts DEF Kept
  <2>5. q # o /\ q \in EntryOrders
    BY <1>6, <2>2, <2>4 DEF EntryOrders
  <2> QED BY <1>1, <1>4, <2>5 DEF OrdersQuiet
<1>7. OrdersQuiet'
  BY <1>1, <1>5, <1>6 DEF OrdersQuiet, EntryOrders
<1>8. ReadsQuiet'
  BY <1>1, <1>3, <1>4 DEF ReadsQuiet, IsSpot
<1> QED BY <1>1, <1>3, <1>7, <1>8 DEF QuietBooks

LEMMA ReadCapsQuiet ==
  ASSUME RSound, RSound', QuietBooks, quiet', UNCHANGED market, ReadCaps
  PROVE  QuietBooks'
<1>1. /\ quiet /\ stage = "caps" /\ stage' = "adopt" /\ view' = pos
      /\ UNCHANGED <<entries, exits, toSeat, orders, pos, market, cancels, leftover, adopted>>
  BY DEF ReadCaps
<1>2. LiveExitsKept
  BY <1>1 DEF LiveExitsKept
<1>3. /\ LevelsQuiet /\ LevelsQuiet'
      /\ \A short \in BOOLEAN : Believed(short)' = Believed(short) /\ Closing(short)' = Closing(short)
  BY <1>1, ReadSame DEF QuietBooks
<1>4. OrdersQuiet /\ ReadsQuiet /\ ~IsSpot
  BY <1>1 DEF QuietBooks, RSound, StageBooks
<1>5. OrdersQuiet'
  <2>1. /\ \A r \in leftover' : orders'[r.oid].st = "new" /\ r.qty = Untraded(r.oid)'
        /\ \A q \in OrderId : LiveExit(orders'[q]) => Accounted(q)'
    BY <1>1, <1>2, <1>3, <1>4, OrdersSame
  <2>2. EntryOrders = {}
    BY <1>1, <1>4 DEF OrdersQuiet
  <2> QED BY <1>1, <2>1, <2>2 DEF OrdersQuiet, EntryOrders
<1>6. ReadsQuiet'
  BY <1>1, <1>3, <1>4 DEF ReadsQuiet, IsSpot
<1> QED BY <1>1, <1>3, <1>5, <1>6 DEF QuietBooks

\* What is refused is more than the position: the exit orders together want
\* to close more than the account holds.
LEMMA RefuseExitQuiet ==
  ASSUME RSound, RSound', QuietBooks, quiet', UNCHANGED market, NEW r \in leftover, RefuseExit(r)
  PROVE  QuietBooks'
<1>1. /\ quiet /\ stage = "adopt" /\ stage' = stage /\ ~WithinCap(r)
      /\ leftover' = leftover \ {r} /\ cancels' = cancels \ {r.oid}
      /\ orders' = Kept(orders, entries, exits, cancels')
      /\ UNCHANGED <<entries, exits, pos, market, adopted, view>>
  BY DEF RefuseExit
<1>2. GapKept /\ LiveExitsKept
  BY RefuseExitBooks DEF RSound
<1>3. /\ LevelsQuiet /\ LevelsQuiet'
      /\ \A short \in BOOLEAN : Believed(short)' = Believed(short) /\ Closing(short)' = Closing(short)
  BY <1>1, <1>2, QuietSame DEF QuietBooks
<1>4. OrdersQuiet /\ ReadsQuiet
  BY <1>1 DEF QuietBooks
<1>5. /\ r.oid \in OrderId /\ r.short \in BOOLEAN /\ r.qty \in Nat /\ orders[r.oid].st = "new"
      /\ orders[r.oid].kind = "exit" /\ r.qty = Untraded(r.oid)
      /\ orders[r.oid].short = r.short /\ ~Named(exits, r.oid)
      /\ \A q \in leftover : q.oid = r.oid => q = r
  BY <1>1, <1>4, LeftoverFacts DEF OrdersQuiet, RSound, StageBooks, LeftoverLots, RInv, LeftoverKept
<1>6. ~IsSpot /\ adopted[r.short] + r.qty > pos[r.short] /\ Believed(r.short) = adopted[r.short]
  <2>1. ~IsSpot /\ ~(adopted[r.short] + r.qty <= view[r.short])
    BY <1>1 DEF WithinCap
  <2>2. view = pos /\ Believed(r.short) = adopted[r.short]
    BY <1>1, <1>4, <1>5, <2>1 DEF ReadsQuiet
  <2>3. adopted[r.short] \in Nat /\ pos[r.short] \in Nat
    BY <1>5 DEF RSound, RInv, RTypeOK, IInv, TypeOK
  <2> QED BY <1>5, <2>1, <2>2, <2>3
<1>7. Closing(r.short) > pos[r.short]
  <2>1. Sound /\ pc # "seat" /\ toSeat = {} /\ \A i \in EntryIdx : entries[i].st # "open"
    BY <1>1 DEF RSound, RInv, Sound, StageTable, StageBooks
  <2>2. Closing(r.short) = Loose(r.short) + Believed(r.short)
    BY <1>3, <1>5, <2>1, QuietClosing
  <2>3. r.qty <= Loose(r.short)
    <3> DEFINE l == [o \in OrderId |-> LooseAt(exits, orders, o, r.short)]
    <3>1. \A o \in OrderId : l[o] \in Nat
      BY <2>1, LooseTypes
    <3>2. l[r.oid] = r.qty
      BY <1>5 DEF LooseAt, LiveExit, Untraded
    <3> HIDE DEF l
    <3>3. l[r.oid] <= SumFunctionOnSet(l, OrderId)
      BY <1>5, <3>1, IndexSetsFinite, SumNat
    <3> QED BY <3>2, <3>3 DEF Loose, LooseSum, l
  <2>4. /\ Loose(r.short) \in Nat /\ Believed(r.short) \in Int /\ pos[r.short] \in Nat
    BY <1>5, <2>1, SoundNumbers
  <2> QED BY <1>5, <1>6, <2>2, <2>3, <2>4
<1>8. ASSUME NEW o \in OrderId, LiveExit(orders'[o]) PROVE Accounted(o)'
  <2>1. orders'[o] = orders[o] /\ orders[o].short \in BOOLEAN
    BY <1>2, <1>8 DEF LiveExitsKept, RSound, RInv, IInv, TypeOK, Order
  <2>2. CASE o = r.oid
    BY <1>1, <1>3, <1>5, <1>6, <1>7, <2>1, <2>2 DEF Accounted, IsSpot
  <2>3. CASE o # r.oid
    <3>1. Accounted(o)
      BY <1>1, <1>4, <1>8, <2>1 DEF OrdersQuiet
    <3> QED BY <1>1, <1>3, <2>1, <2>3, <3>1 DEF Accounted, Waiting, IsSpot
  <2> QED BY <2>2, <2>3
<1>9. ASSUME NEW q \in leftover' PROVE orders'[q.oid].st = "new" /\ q.qty = Untraded(q.oid)'
  <2>1. q \in leftover /\ q.oid \in OrderId /\ LiveExit(orders[q.oid]) /\ q.qty = Untraded(q.oid)
    BY <1>1, <1>4, LeftoverFacts DEF OrdersQuiet, LiveExit, RSound
  <2>2. orders'[q.oid] = orders[q.oid]
    BY <1>2, <2>1 DEF LiveExitsKept
  <2> QED BY <2>1, <2>2 DEF Untraded, LiveExit
<1>10. EntryOrders' = {}
  <2>1. EntryOrders = {}
    BY <1>1, <1>4 DEF OrdersQuiet
  <2>2. \A o \in OrderId : orders'[o] = orders[o] \/ orders'[o].st = "none"
    BY <1>1, LevelFacts DEF Kept
  <2> QED BY <2>1, <2>2 DEF EntryOrders
<1>11. OrdersQuiet'
  BY <1>8, <1>9, <1>10 DEF OrdersQuiet
<1>12. ReadsQuiet'
  BY <1>1, <1>3, <1>4 DEF ReadsQuiet, IsSpot
<1> QED BY <1>1, <1>3, <1>11, <1>12 DEF QuietBooks

LEMMA AdoptExitQuiet ==
  ASSUME RSound, RSound', QuietBooks, quiet', UNCHANGED market,
         NEW r \in leftover, NEW k \in 1 .. N + Overflow, NEW x \in ExitIdx, AdoptExit(r, k, x)
  PROVE  QuietBooks'
<1> DEFINE i == Dir(r.short) * k
<1>1. /\ quiet /\ stage = "adopt" /\ stage' = stage /\ WithinCap(r)
      /\ leftover' = leftover \ {r}
      /\ adopted' = [adopted EXCEPT ![r.short] = @ + r.qty] /\ adopted \in [BOOLEAN -> Nat]
      /\ entries' = [entries EXCEPT ![i] =
            [st |-> "held", oid |-> NoId, qty |-> r.qty, px |-> CostOf(r), short |-> r.short]]
      /\ exits' = [exits EXCEPT ![x] =
            [st |-> "open", oid |-> r.oid, qty |-> r.qty, px |-> r.px, short |-> r.short,
             pair |-> i]]
      /\ exits \in [ExitIdx -> ExitLevel]
      /\ UNCHANGED <<pos, market, view, orders>>
  BY DEF AdoptExit, RSound, RInv, RTypeOK, IInv, TypeOK
<1>2. /\ exits[x].st = "none" /\ exits'[x].st = "open" /\ exits'[x].oid = r.oid
      /\ exits'[x].qty = r.qty /\ exits'[x].pair = i
      /\ \A y \in ExitIdx : y # x => exits'[y] = exits[y]
      /\ \A short \in BOOLEAN : Gap(short)' = Gap(short) - (IF short = r.short THEN Untraded(r.oid) ELSE 0)
  <2>1. exits'[x].qty = r.qty /\ exits'[x].pair = i
    BY <1>1
  <2> QED BY <2>1, AdoptExitBooks DEF RSound
<1>3. LevelsQuiet /\ OrdersQuiet /\ ReadsQuiet
  BY <1>1 DEF QuietBooks
<1>4. /\ r.oid \in OrderId /\ r.short \in BOOLEAN /\ r.qty \in Nat /\ orders[r.oid].st = "new"
      /\ r.qty = Untraded(r.oid)
  BY <1>1, <1>3, LeftoverFacts DEF OrdersQuiet, RSound
<1>5. LevelsQuiet'
  <2>1. \A y \in ExitIdx : exits'[y].st = "open" =>
          orders[exits'[y].oid].st = "new" /\ Untraded(exits'[y].oid) = exits'[y].qty
    BY <1>2, <1>3, <1>4 DEF LevelsQuiet, OpenExits
  <2>2. ASSUME NEW j \in EntryIdx, entries'[j].st = "held"
        PROVE  \E y \in ExitIdx : exits'[y].st = "open" /\ exits'[y].pair = j
    <3>1. CASE j = i
      BY <1>2, <3>1
    <3>2. CASE j # i
      <4>1. entries[j].st = "held"
        BY <1>1, <2>2, <3>2 DEF RSound, RInv, IInv, TypeOK
      <4>2. PICK y \in ExitIdx : exits[y].st = "open" /\ exits[y].pair = j
        BY <1>3, <4>1 DEF LevelsQuiet, HeldIdx, Held, Covered, OpenExits
      <4> QED BY <1>2, <4>2
    <3> QED BY <3>1, <3>2
  <2> QED BY <1>1, <2>1, <2>2 DEF LevelsQuiet, HeldIdx, Held, Covered, OpenExits, Untraded
<1>6. \A short \in BOOLEAN : Closing(short)' = Closing(short)
  BY <1>1, ClosingKept DEF LiveExitsKept
<1>7. OrdersQuiet'
  <2>1. ASSUME NEW o \in OrderId, LiveExit(orders[o]) PROVE Accounted(o)'
    <3>1. Accounted(o) /\ orders[o].short \in BOOLEAN
      BY <1>1, <1>3, <2>1 DEF OrdersQuiet, RSound, RInv, IInv, TypeOK, Order
    <3>2. CASE Named(exits, o)
      BY <1>2, <3>2 DEF Named, Accounted
    <3>3. CASE Waiting(o)
      <4>1. PICK q \in leftover : q.oid = o
        BY <3>3 DEF Waiting
      <4> QED BY <1>1, <1>2, <4>1 DEF Accounted, Waiting, Named
    <3> QED BY <1>1, <1>6, <3>1, <3>2, <3>3 DEF Accounted, IsSpot
  <2>2. \A q \in leftover' : orders[q.oid].st = "new" /\ q.qty = Untraded(q.oid)
    BY <1>1, <1>3 DEF OrdersQuiet
  <2>3. EntryOrders = {}
    BY <1>1, <1>3 DEF OrdersQuiet
  <2> QED BY <1>1, <2>1, <2>2, <2>3 DEF OrdersQuiet, EntryOrders, Untraded
<1>8. ReadsQuiet'
  <2> SUFFICES ASSUME NEW short \in BOOLEAN
               PROVE  /\ ~IsSpot => adopted'[short] <= pos[short]
                      /\ Believed(short)' = adopted'[short]
    BY <1>1, <1>3 DEF ReadsQuiet, IsSpot
  <2>1. adopted'[short] = adopted[short] + (IF short = r.short THEN r.qty ELSE 0)
    BY <1>1, <1>4
  <2>2. Believed(short) = adopted[short] /\ (~IsSpot => adopted[short] <= pos[short] /\ view = pos)
    BY <1>1, <1>3 DEF ReadsQuiet
  <2>3. Gap(short) = pos[short] - Believed(short) /\ Gap(short)' = pos[short] - Believed(short)'
        /\ Believed(short)' \in Int /\ pos[short] \in Nat /\ adopted[short] \in Nat
    BY <1>1, SoundNumbers, SoundNumbersNext DEF RSound, RInv, Sound
  <2>4. Gap(short)' = Gap(short) - (IF short = r.short THEN r.qty ELSE 0)
    BY <1>2, <1>4
  <2>5. Believed(short)' = adopted'[short]
    BY <1>4, <2>1, <2>2, <2>3, <2>4
  <2>6. ~IsSpot /\ short = r.short => adopted[short] + r.qty <= pos[short]
    BY <1>1, <2>2 DEF WithinCap
  <2> QED BY <2>1, <2>2, <2>3, <2>5, <2>6
<1> QED BY <1>1, <1>5, <1>7, <1>8 DEF QuietBooks

LEMMA RestingClosing ==
  RSound /\ stage # "up" /\ LevelsQuiet =>
    \A s \in BOOLEAN : Closing(s) = Loose(s) + Believed(s)
<1> SUFFICES ASSUME RSound, stage # "up", LevelsQuiet, NEW short \in BOOLEAN
             PROVE  Closing(short) = Loose(short) + Believed(short)
  OBVIOUS
<1>1. Sound /\ pc # "seat" /\ toSeat = {} /\ \A i \in EntryIdx : entries[i].st # "open"
  BY DEF RSound, RInv, Sound, StageTable, StageBooks
<1> QED BY <1>1, QuietClosing

LEMMA RestingClosingNext ==
  RSound' /\ stage' # "up" /\ LevelsQuiet' =>
    \A s \in BOOLEAN : Closing(s)' = Loose(s)' + Believed(s)'
<1>1. (RSound /\ stage # "up" /\ LevelsQuiet =>
         \A s \in BOOLEAN : Closing(s) = Loose(s) + Believed(s))'
  BY RestingClosing, PTL
<1> QED BY <1>1

\* The exit order for what is taken over is one more that a level names.
LEMMA TakeOverOrders ==
  ASSUME RSound, RSound', NEW i \in EntryIdx, NEW short, NEW os, TakesOver(i, short, os),
         LevelsQuiet, exits' # exits
  PROVE  /\ LevelsQuiet'
         /\ \A s \in BOOLEAN : Loose(s)' = Loose(s)
         /\ \A o \in OrderId : Named(exits, o) => Named(exits', o)
         /\ \A o \in OrderId : orders'[o].st = "new" =>
              \/ orders'[o] = orders[o]
              \/ orders'[o].kind = "exit" /\ Named(exits', o)
<1>1. /\ PlaceExitMakes(os, i, entries') /\ os \in [OrderId -> Order]
      /\ orders' = Kept(os, entries', exits', cancels)
      /\ \A j \in EntryIdx : j # i => entries'[j] = entries[j]
      /\ exits \in [ExitIdx -> ExitLevel] /\ ExitsNamed(exits, orders) /\ ExitsNamed(exits', os)
  BY DEF TakesOver, PlaceExitMakes, RSound, RInv, IInv, TypeOK, LInv
<1>2. PICK x \in ExitIdx, s \in OrderId :
        /\ exits[x].st = "none" /\ orders[s].st = "none"
        /\ exits' = [exits EXCEPT ![x] =
             [st |-> "open", oid |-> s, qty |-> entries'[i].qty, px |-> ExitPx(entries'[i]),
              short |-> entries'[i].short, pair |-> i]]
        /\ os[s].qty = entries'[i].qty /\ os[s].filled = 0
  BY <1>1 DEF PlaceExitMakes, PlacedExit
<1>3. /\ exits'[x].st = "open" /\ exits'[x].oid = s /\ exits'[x].qty = os[s].qty
      /\ exits'[x].pair = i
      /\ \A y \in ExitIdx : y # x => exits'[y] = exits[y]
  BY <1>1, <1>2
<1>4. \A o \in OrderId : \/ os[o] = orders[o]
                         \/ orders[o].st = "none" /\ LiveExit(os[o]) /\ Named(exits', o)
  BY <1>1, <1>2 DEF PlaceExitMakes, PlacedOrder
<1>5. LiveExit(os[s]) /\ orders[s].st = "none"
  <2>1. os[s].st # "none"
    BY <1>1, <1>3 DEF ExitsNamed, NamesExit
  <2> QED BY <1>2, <1>4, <2>1
<1>6. \A o \in OrderId : \/ orders'[o] = os[o]
                         \/ orders'[o].st = "none" /\ os[o].st # "new"
  BY <1>1, LevelFacts DEF Kept
<1>7. \A o \in OrderId : Named(exits', o) <=> Named(exits, o) \/ o = s
  BY <1>2, <1>3 DEF Named
<1>8. LevelsQuiet'
  <2>1. ASSUME NEW y \in ExitIdx, exits'[y].st = "open"
        PROVE  /\ orders'[exits'[y].oid].st = "new"
               /\ orders'[exits'[y].oid].qty - orders'[exits'[y].oid].filled = exits'[y].qty
    <3>1. CASE y = x
      <4>1. orders'[s] = os[s] /\ os[s].qty \in Nat /\ os[s].filled = 0
        BY <1>1, <1>2, <1>5, <1>6 DEF LiveExit, Order
      <4> QED BY <1>3, <1>5, <3>1, <4>1 DEF LiveExit
    <3>2. CASE y # x
      <4>1. exits'[y] = exits[y] /\ exits[y].oid \in OrderId /\ orders[exits[y].oid].st = "new"
            /\ exits[y].qty = orders[exits[y].oid].qty - orders[exits[y].oid].filled
        BY <1>1, <1>3, <2>1, <3>2 DEF LevelsQuiet, OpenExits, ExitsNamed, NamesExit, Untraded
      <4>2. orders'[exits[y].oid] = orders[exits[y].oid]
        BY <1>4, <1>6, <4>1
      <4> QED BY <4>1, <4>2
    <3> QED BY <3>1, <3>2
  <2>2. ASSUME NEW j \in EntryIdx, entries'[j].st = "held"
        PROVE  \E y \in ExitIdx : exits'[y].st = "open" /\ exits'[y].pair = j
    <3>1. CASE j = i
      BY <1>3, <3>1
    <3>2. CASE j # i
      <4>1. entries[j].st = "held"
        BY <1>1, <2>2, <3>2
      <4>2. PICK y \in ExitIdx : exits[y].st = "open" /\ exits[y].pair = j
        BY <4>1 DEF LevelsQuiet, HeldIdx, Held, Covered, OpenExits
      <4> QED BY <1>2, <1>3, <4>2
    <3> QED BY <3>1, <3>2
  <2> QED BY <2>1, <2>2 DEF LevelsQuiet, HeldIdx, Held, Covered, OpenExits, Untraded
<1>9. ASSUME NEW short2 \in BOOLEAN PROVE Loose(short2)' = Loose(short2)
  <2>1. \A o \in OrderId : LooseAt(exits', orders', o, short2) = LooseAt(exits, orders, o, short2)
    <3> SUFFICES ASSUME NEW o \in OrderId
                 PROVE  LooseAt(exits', orders', o, short2) = LooseAt(exits, orders, o, short2)
      OBVIOUS
    <3>1. CASE orders[o].st = "none"
      <4>1. Named(exits', o) \/ ~LiveExit(orders'[o])
        BY <1>4, <1>6, <3>1 DEF LiveExit
      <4> QED BY <3>1, <4>1 DEF LooseAt, LiveExit
    <3>2. CASE orders[o].st # "none"
      <4>1. os[o] = orders[o] /\ o # s
        BY <1>4, <1>5, <3>2
      <4>2. orders'[o] = orders[o] \/ (~LiveExit(orders'[o]) /\ ~LiveExit(orders[o]))
        BY <1>6, <4>1 DEF LiveExit
      <4> QED BY <1>7, <4>1, <4>2 DEF LooseAt
    <3> QED BY <3>1, <3>2
  <2> QED BY <2>1, LooseSame DEF Loose
<1>10. \A o \in OrderId : orders'[o].st = "new" =>
         orders'[o] = orders[o] \/ (orders'[o].kind = "exit" /\ Named(exits', o))
  BY <1>4, <1>6 DEF LiveExit
<1> QED BY <1>7, <1>8, <1>9, <1>10

LEMMA TakeOverQuiet ==
  ASSUME RSound, RSound', QuietBooks, quiet', UNCHANGED market,
         NEW short \in BOOLEAN, NEW cost \in Costs, NEW k \in 1 .. N + Overflow,
         TakeOver(short, cost, k)
  PROVE  QuietBooks'
<1>1. /\ quiet /\ exits' # exits /\ stage = "reconcile" /\ stage' = stage
      /\ view[short] > 0 /\ view' = [view EXCEPT ![short] = 0] /\ Remainder(short) > 0
      /\ leftover = {} /\ UNCHANGED <<leftover, adopted, market>>
      /\ view \in [BOOLEAN -> Nat] /\ adopted \in [BOOLEAN -> Nat]
  BY DEF TakeOver, RSound, RInv, RTypeOK, StageTable
<1>2. /\ pos' = pos
      /\ \A s \in BOOLEAN : Gap(s)' = Gap(s) - (IF s = short THEN Remainder(short) ELSE 0)
  BY TakeOverBooks DEF RSound
<1>3. PICK i \in EntryIdx : \E os : TakesOver(i, short, os)
  BY TakeOverBooks DEF RSound
<1>4. PICK os : TakesOver(i, short, os)
  BY <1>3
<1>5. LevelsQuiet /\ OrdersQuiet /\ ReadsQuiet
  BY <1>1 DEF QuietBooks
<1>6. /\ LevelsQuiet'
      /\ \A s \in BOOLEAN : Loose(s)' = Loose(s)
      /\ \A o \in OrderId : Named(exits, o) => Named(exits', o)
      /\ \A o \in OrderId : orders'[o].st = "new" =>
           orders'[o] = orders[o] \/ (orders'[o].kind = "exit" /\ Named(exits', o))
  BY <1>1, <1>4, <1>5, TakeOverOrders
<1>7. ~IsSpot
  BY <1>1, <1>5 DEF ReadsQuiet, NoLots
<1>8. \A s \in BOOLEAN :
        /\ Gap(s) = pos[s] - Believed(s) /\ Gap(s)' = pos[s] - Believed(s)'
        /\ Believed(s) \in Int /\ Believed(s)' \in Int /\ pos[s] \in Nat
        /\ Loose(s) \in Nat
  BY <1>2, SoundNumbers, SoundNumbersNext DEF RSound, RInv, Sound
<1>9. Remainder(short) = view[short] - adopted[short] /\ Remainder(short) \in Int
  BY <1>1 DEF Remainder
<1>10. ReadsQuiet'
  <2>1. view[short] = pos[short] /\ Believed(short) = adopted[short]
    BY <1>1, <1>5, <1>7 DEF ReadsQuiet
  <2>2. Believed(short)' = pos[short]
    <3>1. Gap(short)' = Gap(short) - Remainder(short)
      BY <1>2
    <3>2. adopted[short] \in Int /\ pos[short] \in Int
      BY <1>1, <1>8
    <3>3. /\ Gap(short) = pos[short] - Believed(short) /\ Gap(short)' = pos[short] - Believed(short)'
          /\ Believed(short)' \in Int
      BY <1>8
    <3>4. Remainder(short) = pos[short] - adopted[short]
      BY <1>9, <2>1
    <3> QED BY <2>1, <3>1, <3>2, <3>3, <3>4
  <2>3. view'[short] = 0 /\ \A s \in BOOLEAN : s # short => view'[s] = view[s]
    BY <1>1
  <2>4. \A s \in BOOLEAN : s # short => Believed(s)' = Believed(s)
    BY <1>2, <1>8
  <2>5. ASSUME NEW s \in BOOLEAN
        PROVE  /\ adopted[s] <= pos[s] /\ view'[s] \in {0, pos[s]}
               /\ Believed(s)' = IF view'[s] = 0 THEN pos[s] ELSE adopted[s]
    BY <1>1, <1>5, <1>7, <2>2, <2>3, <2>4 DEF ReadsQuiet
  <2> QED BY <1>1, <1>2, <1>7, <2>5 DEF ReadsQuiet, IsSpot
<1>11. \A s \in BOOLEAN : Closing(s)' >= Closing(s) /\ Closing(s)' \in Int /\ Closing(s) \in Int
  <2>1. \A s \in BOOLEAN : Closing(s)' = Loose(s)' + Believed(s)'
    BY <1>1, <1>6, RestingClosingNext
  <2>2. \A s \in BOOLEAN : /\ Closing(s)' = Loose(s)' + Believed(s)'
                           /\ Closing(s) = Loose(s) + Believed(s)
    BY <1>1, <1>5, <2>1, RestingClosing
  <2>3. \A s \in BOOLEAN : Believed(s)' >= Believed(s)
    BY <1>1, <1>2, <1>8, <1>9
  <2> QED BY <1>6, <1>8, <2>2, <2>3
<1>12. OrdersQuiet'
  <2>1. ASSUME NEW o \in OrderId, LiveExit(orders'[o]) PROVE Accounted(o)'
    <3>1. CASE Named(exits', o)
      BY <3>1 DEF Accounted
    <3>2. CASE ~Named(exits', o)
      <4>1. orders'[o] = orders[o] /\ ~Named(exits, o) /\ orders[o].short \in BOOLEAN
        BY <1>6, <2>1, <3>2 DEF LiveExit, RSound, RInv, IInv, TypeOK, Order
      <4>2. Accounted(o)
        BY <1>1, <1>5, <2>1, <4>1 DEF OrdersQuiet
      <4>3. Closing(orders[o].short) > pos[orders[o].short]
        BY <1>1, <4>1, <4>2 DEF Accounted, Waiting
      <4>4. Closing(orders[o].short)' > pos[orders[o].short]
        BY <1>8, <1>11, <4>1, <4>3
      <4> QED BY <1>2, <1>7, <4>1, <4>4 DEF Accounted, IsSpot
    <3> QED BY <3>1, <3>2
  <2>2. EntryOrders' = {}
    BY <1>1, <1>5, <1>6 DEF OrdersQuiet, EntryOrders
  <2> QED BY <1>1, <2>1, <2>2 DEF OrdersQuiet
<1> QED BY <1>1, <1>6, <1>10, <1>12 DEF QuietBooks

LEMMA StillQuiet ==
  ASSUME RSound, RSound', QuietBooks, quiet,
         UNCHANGED <<entries, exits, toSeat, orders, pos, market, stage, leftover, adopted, view, cancels>>
  PROVE  QuietBooks'
<1>1. /\ LevelsQuiet /\ LevelsQuiet' /\ OrdersQuiet /\ ReadsQuiet
      /\ \A short \in BOOLEAN : Believed(short)' = Believed(short) /\ Closing(short)' = Closing(short)
  BY ReadSame DEF QuietBooks
<1>2. \A o \in OrderId : orders[o].short \in BOOLEAN
  BY DEF RSound, RInv, IInv, TypeOK, Order
<1>3. OrdersQuiet'
  BY <1>1, <1>2 DEF OrdersQuiet, Accounted, Waiting, Untraded, EntryOrders, IsSpot
<1>4. ReadsQuiet'
  BY <1>1 DEF ReadsQuiet, IsSpot
<1> QED BY <1>1, <1>3, <1>4 DEF QuietBooks

\* Whatever the exchange does is noticed.
LEMMA WorldQuiet ==
  ASSUME RSound, RSound', QuietBooks, quiet', UNCHANGED market, World,
         quiet' = (quiet /\ orders' = orders),
         UNCHANGED <<stage, leftover, adopted, view, blind, crashes>>
  PROVE  QuietBooks'
<1>1. quiet /\ orders' = orders
  BY DEF RSound, RInv, RTypeOK
<1>2. \A o \in OrderId : ~Fill(o)
  BY <1>1, FillGap DEF RSound, RInv, Sound
<1>3. ASSUME NEW o \in OrderId, ManualCancel(o) PROVE FALSE
  <2> DEFINE os == [orders EXCEPT ![o].st = "canceled"]
  <2>1. orders \in [OrderId -> Order]
    BY DEF RSound, RInv, IInv, TypeOK
  <2>2. os[o].st = "canceled"
    BY <2>1 DEF Order
  <2> HIDE DEF os
  <2>3. orders' = Kept(os, entries, exits, cancels) /\ orders[o].st = "new"
    BY <1>3 DEF ManualCancel, os
  <2>4. orders'[o].st # "new"
    BY <2>2, <2>3, LevelFacts DEF Kept
  <2> QED BY <1>1, <2>3, <2>4
<1>4. PICK i \in EntryIdx : BackoffOver(i)
  BY <1>2, <1>3 DEF World
<1>5. UNCHANGED <<entries, exits, toSeat, orders, pos, market, stage, leftover, adopted, view, cancels>>
  BY <1>4 DEF BackoffOver
<1> QED BY <1>1, <1>5, StillQuiet

LEMMA RNextQuiet ==
  ASSUME EchoesClientId PROVE RSound /\ QuietBooks /\ [RNext]_rVars => RSound' /\ QuietBooks'
<1> SUFFICES ASSUME RSound, QuietBooks, [RNext]_rVars PROVE RSound' /\ QuietBooks'
  OBVIOUS
<1>1. RStep /\ UNCHANGED market
  BY RNextIsRStep
<1>2. RSound'
  BY RNextRSound
<1>3. CASE ~quiet'
  BY <1>2, <1>3 DEF QuietBooks
<1>4. CASE quiet'
  <2>1. CASE UNCHANGED rVars
    <3>1. quiet /\ UNCHANGED <<entries, exits, toSeat, orders, pos, market, stage, leftover,
                               adopted, view, cancels>>
      BY <1>4, <2>1 DEF rVars, vars, engineVars, restartVars
    <3> QED BY <1>2, <3>1, StillQuiet
  <2>2. CASE \/ ListOrders \/ ClearDone \/ AdoptDone \/ Recheck
             \/ \E short \in BOOLEAN : Covers(short)
    BY <1>1, <1>2, <1>4, <2>2, ReadQuiet
  <2>3. CASE \E g \in Grids, p \in Prices : Build(g, p)
    BY <1>1, <1>2, <2>3, BuildQuiet
  <2>4. CASE \/ \E o \in OrderId : CancelLeftover(o)
             \/ ReadCaps
             \/ \E r \in leftover : RefuseExit(r)
    BY <1>1, <1>2, <1>4, <2>4, CancelLeftoverQuiet, ReadCapsQuiet, RefuseExitQuiet
  <2>5. CASE \E r \in leftover, k \in 1 .. N + Overflow, x \in ExitIdx : AdoptExit(r, k, x)
    BY <1>1, <1>2, <1>4, <2>5, AdoptExitQuiet
  <2>6. CASE \E short \in BOOLEAN, cost \in Costs, k \in 1 .. N + Overflow : TakeOver(short, cost, k)
    BY <1>1, <1>2, <1>4, <2>6, TakeOverQuiet
  <2>7. CASE Crash \/ InitializeDone
    BY <1>4, <2>7 DEF Crash, InitializeDone
  <2>8. CASE /\ stage = "up" /\ OnTick
             /\ blind' = (blind \/ ExitAnswerLost)
             /\ UNCHANGED <<stage, leftover, adopted, view, quiet, crashes>>
    BY <1>4, <2>8 DEF QuietBooks
  <2>9. CASE /\ World
             /\ quiet' = (quiet /\ orders' = orders)
             /\ UNCHANGED <<stage, leftover, adopted, view, blind, crashes>>
    BY <1>1, <1>2, <1>4, <2>9, WorldQuiet
  <2> QED BY <1>1, <1>2, <2>1, <2>2, <2>3, <2>4, <2>5, <2>6, <2>7, <2>8, <2>9 DEF RStep
<1> QED BY <1>3, <1>4

\* A restart that nothing disturbs puts the books right, whatever went wrong
\* before it, in any number of crashes, lost answers and cancelled orders:
\* the engine knows every lot of the account, each position has its exit
\* order, and no entry order is left over.  The exchange has to echo the
\* client ids.
THEOREM QuietRestartsAreExact ==
  ASSUME EchoesClientId PROVE RSpec => []QuietRestartExact
<1>1. RInit => RSound /\ QuietBooks
  BY InitRSound DEF RInit, QuietBooks
<1>2. RSound /\ QuietBooks /\ [RNext]_rVars => (RSound /\ QuietBooks)'
  BY RNextQuiet
<1>3. RSound /\ QuietBooks => QuietRestartExact
  <2> SUFFICES ASSUME RSound, QuietBooks, stage = "reconcile", view = NoLots, quiet
               PROVE  /\ \A short \in BOOLEAN :
                           Believed(short) = IF IsSpot THEN Closing(short) ELSE pos[short]
                      /\ \A i \in HeldIdx : Covered(i)
                      /\ EntryOrders = {}
                      /\ \A o \in OrderId :
                           orders[o].st = "new" =>
                             \/ \E x \in OpenExits : exits[x].oid = o
                             \/ Closing(orders[o].short) > pos[orders[o].short]
    BY DEF QuietRestartExact
  <2>1. LevelsQuiet /\ OrdersQuiet /\ ReadsQuiet /\ leftover = {} /\ Sound
    BY DEF QuietBooks, RSound, RInv, StageTable, Sound
  <2>2. EntryOrders = {}
    BY <2>1 DEF OrdersQuiet
  <2>3. \A o \in OrderId : orders[o].st = "new" => LiveExit(orders[o])
    BY <2>1, <2>2 DEF EntryOrders, LiveExit, Sound, IInv, TypeOK, Order
  <2>4. \A o \in OrderId : orders[o].st = "new" =>
          Named(exits, o) \/ (~IsSpot /\ Closing(orders[o].short) > pos[orders[o].short])
    BY <2>1, <2>3 DEF OrdersQuiet, Accounted, Waiting
  <2>5. ASSUME NEW short \in BOOLEAN
        PROVE  Believed(short) = IF IsSpot THEN Closing(short) ELSE pos[short]
    <3>1. CASE ~IsSpot
      BY <2>1, <3>1 DEF ReadsQuiet, NoLots
    <3>2. CASE IsSpot
      <4>1. AllNamed(exits, orders)
        BY <2>4, <3>2 DEF AllNamed, LiveExit
      <4>2. Loose(short) = 0 /\ Closing(short) = Loose(short) + Believed(short)
        BY <2>1, <4>1, LooseNone, RestingClosing
      <4> QED BY <2>1, <3>2, <4>2, SoundNumbers
    <3> QED BY <3>1, <3>2
  <2> QED BY <2>1, <2>2, <2>4, <2>5 DEF LevelsQuiet, Named, OpenExits
<1> QED BY <1>1, <1>2, <1>3, PTL DEF RSpec
=============================================================================
