-------------------------- MODULE GridRestartInv ----------------------------
(***************************************************************************)
(* The inductive invariant of the restarting grid engine: that of the      *)
(* running engine, and what Initialize relies on between its calls.        *)
(***************************************************************************)
EXTENDS GridRestart, GridEngineInv

\* While Initialize runs, or no process does, OnTick does not; before the
\* grid is built there is no exit level.
StageTable ==
  /\ stage # "up" => pc = "idle" /\ toSeat = {}
  /\ stage = "down" => OpenExits = {}
  /\ leftover # {} => stage \in {"clear", "caps", "adopt"}

\* An exit order waiting for adoption is remembered by the exchange under
\* its price, whatever has become of it since it was listed.
LeftoverKept ==
  /\ \A r \in leftover : /\ r.oid \in cancels /\ orders[r.oid].kind = "exit"
                         /\ orders[r.oid].st # "none" /\ orders[r.oid].px = r.px
  /\ \A r, q \in leftover : r.oid = q.oid => r = q

\* Recenter has chosen entry orders only.
CancelsEntries == pc = "cancel" => \A o \in cancels : orders[o].kind = "entry"

RInv ==
  /\ IInv
  /\ RTypeOK
  /\ StageTable
  /\ LeftoverKept
  /\ CancelsEntries
=============================================================================
