---------------------------- MODULE GridManager ----------------------------
(***************************************************************************)
(* The lifecycle of grids: manager/manager.go with the requests of         *)
(* server/server.go that change it, the rows of store/store.go it keeps    *)
(* across restarts, and the startup of main.go.                            *)
(*                                                                         *)
(* Three kinds of processes act: admins (HTTP requests, each in its own    *)
(* goroutine), one goroutine per trader (runLoop), and main.  What happens *)
(* under Manager.mu is one step; everything else is a step of its own.     *)
(* A tick is known here only by its outcome: what it does to the grid is   *)
(* the subject of GridEngine and StopLoss.                                 *)
(***************************************************************************)
EXTENDS Integers, FiniteSets

CONSTANTS
  Symbols,       \* trading pairs
  Traders,       \* bound: Trader objects alive at a time, 1 .. n
  Admins,        \* bound: requests in progress at a time
  Exchanges,     \* exchange ids, each with its testnet flag
  Paper,         \* the built-in exchange
  SpotExchanges, \* the exchanges IsSpotExchange names
  MaxErrs,       \* maxConsecutiveErrors
  MaxTransient,  \* maxConsecutiveTransientErrors
  MaxProfit,     \* bound: settlements per symbol
  Failing        \* what may go wrong: "test" a connection test, "tick" and
                 \* "transient" OnTick, "ticker" GetTicker, "crash"

ASSUME GridManagerAssumption ==
  /\ Traders \subseteq Nat \ {0}
  /\ "none" \notin Symbols /\ "none" \notin Exchanges
  /\ Paper \in Exchanges /\ SpotExchanges \subseteq Exchanges
  /\ MaxErrs \in Nat \ {0} /\ MaxTransient \in Nat \ {0} /\ MaxProfit \in Nat
  /\ Failing \subseteq {"test", "tick", "transient", "ticker", "crash"}

NoTrader   == 0
NoSymbol   == "none"
NoExchange == "none"
NoRow      == -1

VARIABLES
  table,     \* Manager.traders
  tr,        \* the Trader objects and their goroutines
  ex,        \* Manager.exchangeID and isTestnet
  saved,     \* grid_configs: absent ("none"), "enabled" or "disabled"
  pnl,       \* pnl_history: the realized profit of the newest row
  active,    \* active_exchange
  creds,     \* exchange_credentials
  op,        \* the request of each admin
  restoring, \* the grids restoreGrids has still to start
  earned     \* history: settlements of each symbol since the first start

mem  == <<table, tr, ex, op, restoring>>
db   == <<saved, pnl, active, creds>>
vars == <<table, tr, ex, saved, pnl, active, creds, op, restoring, earned>>

Unused == [sym |-> NoSymbol, running |-> FALSE, cancelled |-> FALSE, loop |-> "free",
           spot |-> FALSE, realized |-> 0, errs |-> 0, transient |-> 0]
NoOp   == [kind |-> "idle", sym |-> NoSymbol, ex |-> NoExchange, spot |-> FALSE, todo |-> {}]

Alive == {"idle", "tick", "record", "pause"}
Trader ==
  [sym : Symbols \cup {NoSymbol}, running : BOOLEAN, cancelled : BOOLEAN,
   loop : Alive \cup {"free", "gone"}, spot : BOOLEAN,
   realized : Nat, errs : 0 .. MaxErrs, transient : 0 .. MaxTransient]
Request ==
  [kind : {"idle", "start", "delete", "test", "unbound", "list", "switch", "record"},
   sym : Symbols \cup {NoSymbol}, ex : Exchanges \cup {NoExchange}, spot : BOOLEAN,
   todo : SUBSET Symbols]

TypeOK ==
  /\ table \in [Symbols -> Traders \cup {NoTrader}]
  /\ tr \in [Traders -> Trader]
  /\ ex \in Exchanges
  /\ saved \in [Symbols -> {"none", "enabled", "disabled"}]
  /\ pnl \in [Symbols -> Nat \cup {NoRow}]
  /\ active \in Exchanges \cup {NoExchange}
  /\ creds \subseteq Exchanges
  /\ op \in [Admins -> Request]
  /\ restoring \subseteq Symbols
  /\ earned \in [Symbols -> Nat]

-----------------------------------------------------------------------------
(* The manager's operations under its lock                                 *)

Running(s) == table[s] # NoTrader /\ tr[table[s]].running
IsSpotExchange == ex \in SpotExchanges

\* Only its own goroutine still knows a Trader that the table has dropped;
\* once that has ended it is garbage.  This recycles Traders, clears what
\* nobody reads any more, and is no behaviour of the code.
Swept(ts, tab) ==
  [t \in Traders |->
     IF \E s \in Symbols : tab[s] = t THEN ts[t]
     ELSE IF ts[t].loop = "gone" THEN Unused
     ELSE [ts[t] EXCEPT !.running = FALSE, !.spot = FALSE]]

\* The Trader StartGrid makes for s: the first one that is unused, or the one
\* it replaces once that has ended.
Fresh(s) == {t \in Traders : tr[t].loop = "free" \/ (tr[t].loop = "gone" /\ table[s] = t)}
IsFirst(t, s) == t \in Fresh(s) /\ \A u \in Fresh(s) : t <= u

\* Mutant of Seed: the profit of the old trader is added to the saved one.
MutSeed(s) == (IF pnl[s] = NoRow THEN 0 ELSE pnl[s])
              + (IF table[s] = NoTrader THEN 0 ELSE tr[table[s]].realized)

\* The realized profit a new engine starts from: the newest row, if any.
Seed(s) == IF pnl[s] = NoRow THEN 0 ELSE pnl[s]

\* Mutant of CancelOld: only a trader that runs by another market's rules
\* is cancelled.
MutCancelOld(s, spot) ==
  [t \in Traders |-> IF t = table[s] /\ Running(s) /\ tr[t].spot # spot
                     THEN [tr[t] EXCEPT !.cancelled = TRUE] ELSE tr[t]]

\* StartGrid cancels the trader it replaces.  Its goroutine may be in a tick.
CancelOld(s, spot) ==
  [t \in Traders |-> IF t = table[s] /\ Running(s)
                     THEN [tr[t] EXCEPT !.cancelled = TRUE] ELSE tr[t]]

\* The part of StartGrid under the lock.
StartLocked(s, spot) ==
  \E t \in Traders :
    /\ IsFirst(t, s)
    /\ table' = [table EXCEPT ![s] = t]
    /\ tr' = Swept([CancelOld(s, spot) EXCEPT ![t] =
               [Unused EXCEPT !.sym = s, !.running = TRUE, !.loop = "idle",
                              !.spot = spot, !.realized = Seed(s)]], table')
    /\ saved' = [saved EXCEPT ![s] = "enabled"]

\* StopGrid.
Stopped(s) ==
  [t \in Traders |-> IF t = table[s] /\ Running(s)
                     THEN [tr[t] EXCEPT !.cancelled = TRUE, !.running = FALSE] ELSE tr[t]]

\* Mutant of Disabled: the enabled flag of the row is left alone.
MutDisabled(s) == saved

Disabled(s) == [saved EXCEPT ![s] = IF @ = "none" THEN "none" ELSE "disabled"]

-----------------------------------------------------------------------------
(* Requests                                                                *)

Serving == restoring = {}
Begin(a, kind, s, e, spot) ==
  op' = [op EXCEPT ![a] = [NoOp EXCEPT !.kind = kind, !.sym = s, !.ex = e, !.spot = spot]]
Done(a) == op' = [op EXCEPT ![a] = NoOp]
Idle(a) == Serving /\ op[a].kind = "idle"

\* handleCreateGrid: StartGrid looks at the exchange before it takes the lock.
StartRead(a, s) ==
  /\ Idle(a)
  /\ Begin(a, "start", s, NoExchange, IsSpotExchange)
  /\ UNCHANGED <<table, tr, ex, db, restoring, earned>>
StartGrid(a) ==
  /\ op[a].kind = "start"
  /\ StartLocked(op[a].sym, op[a].spot)
  /\ Done(a)
  /\ UNCHANGED <<ex, pnl, active, creds, restoring, earned>>

\* handleStopGrid.
StopGrid(a, s) ==
  /\ Idle(a)
  /\ tr' = Stopped(s)
  /\ saved' = Disabled(s)
  /\ UNCHANGED <<table, ex, pnl, active, creds, op, restoring, earned>>

\* handleDeleteGrid: the grid leaves the table under the lock, its rows are
\* deleted after the lock is given up.
DeleteCheck(a, s) ==
  /\ Idle(a)
  /\ table[s] # NoTrader /\ ~Running(s)
  /\ table' = [table EXCEPT ![s] = NoTrader]
  /\ tr' = Swept(tr, table')
  /\ Begin(a, "delete", s, NoExchange, FALSE)
  /\ UNCHANGED <<ex, db, restoring, earned>>
DeleteGridData(a) ==
  /\ op[a].kind = "delete"
  /\ saved' = [saved EXCEPT ![op[a].sym] = "none"]
  /\ pnl' = [pnl EXCEPT ![op[a].sym] = NoRow]
  /\ Done(a)
  /\ UNCHANGED <<table, tr, ex, active, creds, restoring, earned>>

\* handleBindExchange: the credential is saved, then tested.
BindExchange(a, e) ==
  /\ Idle(a) /\ e # Paper
  /\ creds' = creds \cup {e}
  /\ Begin(a, "test", NoSymbol, e, FALSE)
  /\ UNCHANGED <<table, tr, ex, saved, pnl, active, restoring, earned>>
BindTest(a) ==
  /\ op[a].kind = "test"
  /\ \/ Begin(a, "list", NoSymbol, op[a].ex, FALSE)
     \/ "test" \in Failing /\ Done(a)
  /\ UNCHANGED <<table, tr, ex, db, restoring, earned>>

\* handleActivateExchange.
ActivateExchange(a, e) ==
  /\ Idle(a) /\ e \in creds
  /\ Begin(a, "list", NoSymbol, e, FALSE)
  /\ UNCHANGED <<table, tr, ex, db, restoring, earned>>

\* handleUnbindExchange: the credential is deleted, then the exchange in use
\* is looked at; if it was that one, fallbackToPaper.
UnbindExchange(a, e) ==
  /\ Idle(a)
  /\ creds' = creds \ {e}
  /\ Begin(a, "unbound", NoSymbol, e, FALSE)
  /\ UNCHANGED <<table, tr, ex, saved, pnl, active, restoring, earned>>
UnbindCheck(a) ==
  /\ op[a].kind = "unbound"
  /\ IF ex = op[a].ex THEN Begin(a, "list", NoSymbol, Paper, FALSE) ELSE Done(a)
  /\ UNCHANGED <<table, tr, ex, db, restoring, earned>>

\* Mutant of Listed: only the grids that run on a spot market are listed.
MutListed == {s \in Symbols : table[s] # NoTrader /\ tr[table[s]].spot}

\* SetExchange: ListSymbols, StopGrid of each, then the switch; the handlers
\* record the new exchange afterwards.
Listed == {s \in Symbols : table[s] # NoTrader}
SwitchList(a) ==
  /\ op[a].kind = "list"
  /\ op' = [op EXCEPT ![a].kind = "switch", ![a].todo = Listed]
  /\ UNCHANGED <<table, tr, ex, db, restoring, earned>>
SwitchStop(a, s) ==
  /\ op[a].kind = "switch" /\ s \in op[a].todo
  /\ tr' = Stopped(s)
  /\ saved' = Disabled(s)
  /\ op' = [op EXCEPT ![a].todo = @ \ {s}]
  /\ UNCHANGED <<table, ex, pnl, active, creds, restoring, earned>>
SwitchSet(a) ==
  /\ op[a].kind = "switch" /\ op[a].todo = {}
  /\ ex' = op[a].ex
  /\ op' = [op EXCEPT ![a].kind = "record"]
  /\ UNCHANGED <<table, tr, db, restoring, earned>>

\* Mutant of Recorded: the insert has no ON CONFLICT clause that updates.
MutRecorded(e) == IF active = NoExchange THEN e ELSE active

Recorded(e) == e
SetActiveExchange(a) ==
  /\ op[a].kind = "record"
  /\ active' = Recorded(op[a].ex)
  /\ Done(a)
  /\ UNCHANGED <<table, tr, ex, saved, pnl, creds, restoring, earned>>

Requests ==
  \E a \in Admins :
    \/ \E s \in Symbols : StartRead(a, s) \/ StopGrid(a, s) \/ DeleteCheck(a, s)
                          \/ SwitchStop(a, s)
    \/ \E e \in Exchanges : BindExchange(a, e) \/ ActivateExchange(a, e)
                            \/ UnbindExchange(a, e)
    \/ StartGrid(a) \/ DeleteGridData(a) \/ BindTest(a) \/ UnbindCheck(a)
    \/ SwitchList(a) \/ SwitchSet(a) \/ SetActiveExchange(a)

-----------------------------------------------------------------------------
(* runLoop and tick                                                        *)

\* Mutant of LoopExit: the loop asks the table, not its context.
MutLoopExit(t) ==
  /\ tr[t].loop = "idle" /\ tr[t].cancelled /\ table[tr[t].sym] = t
  /\ tr' = Swept([tr EXCEPT ![t].loop = "gone"], table)
  /\ UNCHANGED <<table, ex, db, op, restoring, earned>>

\* The select of runLoop: with the context cancelled and the ticker ready
\* it picks either.
LoopExit(t) ==
  /\ tr[t].loop = "idle" /\ tr[t].cancelled
  /\ tr' = Swept([tr EXCEPT ![t].loop = "gone"], table)
  /\ UNCHANGED <<table, ex, db, op, restoring, earned>>
TickBegin(t) ==
  /\ tr[t].loop = "idle"
  /\ tr' = [tr EXCEPT ![t].loop = "tick"]
  /\ UNCHANGED <<table, ex, db, op, restoring, earned>>

\* A take-profit settles, or a forced close is booked.
Settle(t) ==
  /\ tr[t].loop = "tick" /\ earned[tr[t].sym] < MaxProfit
  /\ tr' = [tr EXCEPT ![t].realized = @ + 1]
  /\ earned' = [earned EXCEPT ![tr[t].sym] = @ + 1]
  /\ UNCHANGED <<table, ex, db, op, restoring>>

OnTickOk(t) ==
  /\ tr[t].loop = "tick"
  /\ tr' = [tr EXCEPT ![t].loop = "record", ![t].errs = 0, ![t].transient = 0]
  /\ UNCHANGED <<table, ex, db, op, restoring, earned>>

\* The counters need not pass the limits they are compared with.
Counted(n, max) == IF n < max THEN n + 1 ELSE max
AfterError(r) == IF r.errs >= MaxErrs \/ r.transient >= MaxTransient THEN "pause" ELSE "idle"
OnTickErr(t) ==
  /\ tr[t].loop = "tick"
  /\ \E kind \in Failing \cap {"tick", "transient"} :
       LET r == IF kind = "tick"
                THEN [tr[t] EXCEPT !.errs = Counted(@, MaxErrs)]
                ELSE [tr[t] EXCEPT !.transient = Counted(@, MaxTransient)]
       IN  tr' = [tr EXCEPT ![t] = [r EXCEPT !.loop = AfterError(r)]]
  /\ UNCHANGED <<table, ex, db, op, restoring, earned>>

\* The automatic pause is StopGrid by symbol.
AutoPause(t) ==
  /\ tr[t].loop = "pause"
  /\ tr' = [Stopped(tr[t].sym) EXCEPT ![t].loop = "idle"]
  /\ saved' = Disabled(tr[t].sym)
  /\ UNCHANGED <<table, ex, pnl, active, creds, op, restoring, earned>>

\* RecordPnLSnapshot, if the second GetTicker of the tick answers.
Record(t) ==
  /\ tr[t].loop = "record"
  /\ tr' = [tr EXCEPT ![t].loop = "idle"]
  /\ \/ pnl' = [pnl EXCEPT ![tr[t].sym] = tr[t].realized]
     \/ "ticker" \in Failing /\ UNCHANGED pnl
  /\ UNCHANGED <<table, ex, saved, active, creds, op, restoring, earned>>

Loops ==
  \E t \in Traders : \/ LoopExit(t) \/ TickBegin(t) \/ Settle(t) \/ OnTickOk(t)
                     \/ OnTickErr(t) \/ AutoPause(t) \/ Record(t)

-----------------------------------------------------------------------------
(* main                                                                    *)

\* Mutant of StartupExchange: the credential is not looked up.
MutStartupExchange == active

\* startupExchange: the recorded exchange if its credential is still there.
StartupExchange == IF active \in creds THEN active ELSE Paper

\* The process dies and is started again: only the database survives.
Restart ==
  /\ "crash" \in Failing
  /\ table' = [s \in Symbols |-> NoTrader]
  /\ tr' = [t \in Traders |-> Unused]
  /\ op' = [a \in Admins |-> NoOp]
  /\ ex' = StartupExchange
  /\ restoring' = {s \in Symbols : saved[s] = "enabled"}
  /\ UNCHANGED <<db, earned>>

\* restoreGrids, before the server listens.
RestoreGrid(s) ==
  /\ s \in restoring
  /\ StartLocked(s, IsSpotExchange)
  /\ restoring' = restoring \ {s}
  /\ UNCHANGED <<ex, pnl, active, creds, op, earned>>

Main == Restart \/ \E s \in Symbols : RestoreGrid(s)

Init ==
  /\ table = [s \in Symbols |-> NoTrader]
  /\ tr = [t \in Traders |-> Unused]
  /\ ex = Paper /\ active = NoExchange /\ creds = {}
  /\ saved = [s \in Symbols |-> "none"]
  /\ pnl = [s \in Symbols |-> NoRow]
  /\ op = [a \in Admins |-> NoOp]
  /\ restoring = {}
  /\ earned = [s \in Symbols |-> 0]

Next == Requests \/ Loops \/ Main
Spec == Init /\ [][Next]_vars

\* The goroutines are scheduled, calls to the exchange time out, and select
\* chooses among its ready cases at random.
Fairness ==
  \A t \in Traders : /\ WF_vars(OnTickOk(t) \/ OnTickErr(t) \/ AutoPause(t) \/ Record(t))
                     /\ SF_vars(LoopExit(t))
FairSpec == Spec /\ Fairness

-----------------------------------------------------------------------------
(* Properties                                                              *)

\* A goroutine nobody has cancelled is the one in the table for its symbol,
\* and that one counts as running: a symbol is never traded by two grids for
\* longer than the last tick of a cancelled one.
OneLoopPerSymbol ==
  \A t \in Traders :
    tr[t].loop \in Alive /\ ~tr[t].cancelled
      => table[tr[t].sym] = t /\ tr[t].running

\* A restart resumes exactly the grids that are running: stopping one is
\* remembered, pausing one automatically is too, and starting one is.
RunningIsSaved ==
  \A s \in Symbols \ restoring : Running(s) <=> saved[s] = "enabled"

\* SetExchange stops every grid before it switches.
SwitchStopsAll == [][ex' # ex => \A s \in Symbols : ~(Running(s))']_vars

\* A running grid follows the rules of the market the exchange in use is.
MarketMatches ==
  \A s \in Symbols : Running(s) => (tr[table[s]].spot <=> IsSpotExchange)

\* Between requests, a restart would reconnect to the exchange in use.  (The
\* built-in one is left out: when the process dies between deleting the
\* credential of the exchange in use and falling back, "active" keeps naming
\* that exchange, and binding it again makes the next restart connect to it.)
RestartReconnects ==
  (\A a \in Admins : op[a].kind = "idle") /\ ex # Paper => StartupExchange = ex

\* However grids are restarted, stopped and deleted, and however their last
\* ticks overlap, no profit is recorded twice.
NoDoubleCount == \A s \in Symbols : pnl[s] <= earned[s]

\* The goroutine of a grid that was stopped or replaced ends.
CancelledLoopEnds ==
  \A t \in Traders : tr[t].cancelled ~> tr[t].loop \notin Alive
=============================================================================
