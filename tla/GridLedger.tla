----------------------------- MODULE GridLedger -----------------------------
(***************************************************************************)
(* The grid engine's books against the account: what the engine believes   *)
(* it holds, what its orders have traded that it has not seen yet, and     *)
(* what the exchange says it holds.                                        *)
(***************************************************************************)
EXTENDS GridEngine, Functions

\* Lots of the positions in the table, those recenter is moving included.
HeldBy(short)   == {i \in HeldIdx : entries[i].short = short}
MovingBy(short) == {h \in toSeat : h.short = short}
Tracked(short) ==
  SumFunction([i \in HeldBy(short) |-> entries[i].qty])
  + SumFunction([h \in MovingBy(short) |-> h.qty])

Untraded(o) == orders[o].qty - orders[o].filled

\* Lots traded by the orders of open levels, which the next scan will book;
\* an exit counts from the moment the engine placed or adopted it.
OpenBy(short)  == {i \in EntryIdx : entries[i].st = "open" /\ entries[i].short = short}
ExitsBy(short) == {x \in OpenExits : exits[x].short = short}
Arriving(short) == SumFunction([i \in OpenBy(short) |-> orders[entries[i].oid].filled])
Leaving(short) ==
  SumFunction([x \in ExitsBy(short) |-> exits[x].qty - Untraded(exits[x].oid)])

\* What the engine will believe it holds once it has looked at its orders.
Believed(short) == Tracked(short) + Arriving(short) - Leaving(short)

\* Lots the live take-profit orders still want to close.
LiveExits(short) ==
  {o \in OrderId : /\ orders[o].st = "new" /\ orders[o].kind = "exit"
                   /\ orders[o].short = short}
Closing(short) == SumFunction([o \in LiveExits(short) |-> Untraded(o)])

-----------------------------------------------------------------------------
\* The engine never believes in a position the account does not have, so it
\* never books profit on, or offers for sale, what was never bought.
NoPhantom == \A short \in BOOLEAN : Believed(short) <= pos[short]

\* The take-profit orders together never close more than the position
\* (the exchange refuses them otherwise, error -2022).
ExitsWithinPosition == \A short \in BOOLEAN : Closing(short) <= pos[short]

\* The engine accounts for every lot the account holds: no fill is lost.
LedgerExact == \A short \in BOOLEAN : Believed(short) = pos[short]

\* An order no level knows about: recenter wiped its level and did not get
\* it cancelled.
Orphan(o) ==
  orders[o].st = "new" /\ orders[o].kind = "entry"
    /\ \A i \in EntryIdx : entries[i].oid # o

\* Lots escape the books in two ways only: recenter wipes the level of a
\* fill not yet seen, or an orphan of an earlier recenter fills.  The scan,
\* failing calls and the placing of orders lose nothing.
EscapesOnlyByRecenter ==
  [][\A short \in BOOLEAN :
       pos'[short] - Believed(short)' > pos[short] - Believed(short)
         => \/ pc = "cancel" /\ pc' = "seat"
            \/ \E o \in OrderId : Orphan(o) /\ orders'[o] # orders[o]]_vars

-----------------------------------------------------------------------------
(* Refinement: the positions of the table, with those recenter is moving,  *)
(* form a position book.                                                   *)

PositionAt(e) == [px |-> e.px, qty |-> e.qty, short |-> e.short]
AllPositions ==
  {[px |-> g.center + i * g.spacing, qty |-> q, short |-> i > 0] :
     g \in Grids, i \in {j \in GridIdx : Neutral \/ j < 0}, q \in 1 .. Lots}
BookOf ==
  [p \in AllPositions |->
     Cardinality({i \in HeldIdx : PositionAt(entries[i]) = p})
     + Cardinality({h \in toSeat : PositionAt(h) = p})]

Book == INSTANCE PositionBook WITH Position <- AllPositions, book <- BookOf

\* The engine implements the position book: every step opens or closes one
\* position or leaves the book alone, through every recenter.
ImplementsBook == Book!BookSpec
=============================================================================
