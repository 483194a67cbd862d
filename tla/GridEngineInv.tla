--------------------------- MODULE GridEngineInv ---------------------------
(***************************************************************************)
(* The inductive invariant behind PairingSound, ExitBeatsCost and          *)
(* NoLossBooked.  Pairing alone is not inductive: it is suspended while    *)
(* recenter moves the positions, and it depends on the work lists naming   *)
(* levels of the right kind and on order ids not being mixed up.           *)
(***************************************************************************)
EXTENDS GridEngine

\* Open levels name orders the exchange remembers, at the level's price.
OpenRefs ==
  /\ \A i \in EntryIdx : entries[i].st = "open" => entries[i].oid \in OrderId
  /\ \A x \in OpenExits : /\ exits[x].oid \in OrderId
                          /\ orders[exits[x].oid].st # "none"
                          /\ orders[exits[x].oid].px = exits[x].px

\* The level a loop of OnTick visits next is still what it was when the loop
\* chose it.
WorkFresh ==
  /\ pc = "scan" => /\ \A i \in todo \cap EntryIdx : entries[i].st = "open"
                    /\ todo \cap ExitIdx \subseteq OpenExits
  /\ pc = "ensure" => todo \subseteq HeldIdx
  /\ pc = "place" => \A i \in todo : i \in GridIdx /\ entries[i].st = "empty"

\* Exit level x is the right one for position p.
Serves(x, p) ==
  /\ exits[x].short = p.short
  /\ exits[x].qty = p.qty
  /\ Profitable(p.short, p.px, exits[x].px)

PairOnce == \A x, y \in OpenExits : exits[x].pair = exits[y].pair => x = y
PairTable ==
  pc # "seat" => \A x \in OpenExits :
                   exits[x].pair \in HeldIdx /\ Serves(x, entries[exits[x].pair])

\* While positions are being moved, the position of an exit is either still
\* to be seated or is where oldToNew says; no two share a place.
SeatTable ==
  pc = "seat" =>
    /\ \A x \in OpenExits :
         /\ exits[x].pair \in EntryIdx
         /\ \/ \E h \in toSeat : h.old = exits[x].pair /\ Serves(x, h)
            \/ /\ oldToNew[exits[x].pair] \in HeldIdx
               /\ Serves(x, entries[oldToNew[exits[x].pair]])
    /\ \A a \in EntryIdx : oldToNew[a] # NoId => oldToNew[a] \in HeldIdx
    /\ \A a, b \in EntryIdx : oldToNew[a] = oldToNew[b] /\ oldToNew[a] # NoId => a = b
    /\ \A h \in toSeat : oldToNew[h.old] = NoId
    /\ \A g, h \in toSeat : g.old = h.old => g = h

IInv ==
  /\ TypeOK
  /\ OpenRefs
  /\ WorkFresh
  /\ PairOnce
  /\ PairTable
  /\ SeatTable
  /\ NoLossBooked
=============================================================================
