------------------------- MODULE GridManagerProofs -------------------------
(***************************************************************************)
(* A symbol is traded by one grid, for any number of symbols, traders,     *)
(* admins and exchanges, whatever fails; and no profit is counted twice.   *)
(* What the manager promises when requests come one at a time is the       *)
(* second part of the module.                                              *)
(***************************************************************************)
EXTENDS GridManager, TLAPS

\* The table names Traders of the right symbol that are in use.
TableSound ==
  \A s \in Symbols :
    table[s] # NoTrader => tr[table[s]].sym = s /\ tr[table[s]].loop # "free"

\* Requests in progress know what they work on.
OpNamed ==
  /\ creds \subseteq Exchanges
  /\ \A a \in Admins :
       /\ op[a].kind \in {"start", "delete"} => op[a].sym \in Symbols
       /\ op[a].kind \in {"test", "unbound", "list", "switch", "record"}
            => op[a].ex \in Exchanges

\* So do the goroutines that run.
LoopNamed == \A t \in Traders : tr[t].loop \in Alive => tr[t].sym \in Symbols

LoopInv == TypeOK /\ TableSound /\ OpNamed /\ LoopNamed /\ OneLoopPerSymbol

-----------------------------------------------------------------------------
(* The operators on Traders                                                *)

LEMMA UnusedType == Unused \in Trader
BY GridManagerAssumption DEF Unused, Trader, NoSymbol

\* Recycling touches no Trader of the table and wakes or renames no other.
LEMMA SweptFacts ==
  ASSUME NEW ts \in [Traders -> Trader], NEW tab
  PROVE  /\ Swept(ts, tab) \in [Traders -> Trader]
         /\ \A t \in Traders :
              /\ \A s \in Symbols : tab[s] = t => Swept(ts, tab)[t] = ts[t]
              /\ Swept(ts, tab)[t].loop \in Alive
                   => /\ ts[t].loop = Swept(ts, tab)[t].loop
                      /\ ts[t].sym = Swept(ts, tab)[t].sym
                      /\ ts[t].cancelled = Swept(ts, tab)[t].cancelled
<1> DEFINE sw(t) == IF \E s \in Symbols : tab[s] = t THEN ts[t]
                    ELSE IF ts[t].loop = "gone" THEN Unused
                    ELSE [ts[t] EXCEPT !.running = FALSE, !.spot = FALSE]
<1>1. Swept(ts, tab) = [t \in Traders |-> sw(t)]
  BY DEF Swept
<1>2. ASSUME NEW t \in Traders
      PROVE  /\ sw(t) \in Trader
             /\ \A s \in Symbols : tab[s] = t => sw(t) = ts[t]
             /\ sw(t).loop \in Alive => /\ ts[t].loop = sw(t).loop
                                        /\ ts[t].sym = sw(t).sym
                                        /\ ts[t].cancelled = sw(t).cancelled
  <2>1. CASE \E s \in Symbols : tab[s] = t
    BY <2>1
  <2>2. CASE ~(\E s \in Symbols : tab[s] = t) /\ ts[t].loop = "gone"
    BY <2>2, UnusedType DEF Unused, Alive
  <2>3. CASE ~(\E s \in Symbols : tab[s] = t) /\ ts[t].loop # "gone"
    <3> DEFINE r == [ts[t] EXCEPT !.running = FALSE, !.spot = FALSE]
    <3>1. ts[t] \in Trader
      OBVIOUS
    <3>2. r \in Trader /\ r.loop = ts[t].loop /\ r.sym = ts[t].sym
          /\ r.cancelled = ts[t].cancelled
      BY <3>1 DEF Trader
    <3>3. sw(t) = r
      BY <2>3
    <3> HIDE DEF r, sw
    <3> QED BY <2>3, <3>2, <3>3
  <2> QED BY <2>1, <2>2, <2>3
<1> HIDE DEF sw
<1> QED BY <1>1, <1>2

\* Stopping a symbol cancels its Trader and changes no other.
LEMMA StoppedFacts ==
  ASSUME TypeOK, NEW s
  PROVE  /\ Stopped(s) \in [Traders -> Trader]
         /\ \A t \in Traders :
              /\ Stopped(s)[t].loop = tr[t].loop
              /\ Stopped(s)[t].sym = tr[t].sym
              /\ Stopped(s)[t].errs = tr[t].errs
              /\ Stopped(s)[t].transient = tr[t].transient
              /\ \/ Stopped(s)[t] = tr[t]
                 \/ Stopped(s)[t].cancelled
<1> DEFINE st(t) == IF t = table[s] /\ Running(s)
                    THEN [tr[t] EXCEPT !.cancelled = TRUE, !.running = FALSE] ELSE tr[t]
<1>1. Stopped(s) = [t \in Traders |-> st(t)]
  BY DEF Stopped
<1>2. ASSUME NEW t \in Traders
      PROVE  /\ st(t) \in Trader
             /\ st(t).loop = tr[t].loop /\ st(t).sym = tr[t].sym
             /\ st(t).errs = tr[t].errs /\ st(t).transient = tr[t].transient
             /\ st(t) = tr[t] \/ st(t).cancelled
  <2>1. tr[t] \in Trader
    BY DEF TypeOK
  <2> DEFINE r == [tr[t] EXCEPT !.cancelled = TRUE, !.running = FALSE]
  <2>2. /\ r \in Trader /\ r.cancelled
        /\ r.loop = tr[t].loop /\ r.sym = tr[t].sym
        /\ r.errs = tr[t].errs /\ r.transient = tr[t].transient
    BY <2>1 DEF Trader
  <2>3. st(t) = r \/ st(t) = tr[t]
    OBVIOUS
  <2> HIDE DEF r, st
  <2> QED BY <2>1, <2>2, <2>3
<1> HIDE DEF st
<1> QED BY <1>1, <1>2

LEMMA CancelOldFacts ==
  ASSUME TypeOK, NEW s \in Symbols, NEW spot
  PROVE  /\ CancelOld(s, spot) \in [Traders -> Trader]
         /\ \A t \in Traders :
              /\ CancelOld(s, spot)[t].loop = tr[t].loop
              /\ CancelOld(s, spot)[t].sym = tr[t].sym
              /\ CancelOld(s, spot)[t].running = tr[t].running
              /\ CancelOld(s, spot)[t].cancelled
                   \/ (CancelOld(s, spot)[t] = tr[t] /\ ~(t = table[s] /\ Running(s)))
<1> DEFINE co(t) == IF t = table[s] /\ Running(s)
                    THEN [tr[t] EXCEPT !.cancelled = TRUE] ELSE tr[t]
<1>1. CancelOld(s, spot) = [t \in Traders |-> co(t)]
  BY DEF CancelOld
<1>2. ASSUME NEW t \in Traders
      PROVE  /\ co(t) \in Trader
             /\ co(t).loop = tr[t].loop /\ co(t).sym = tr[t].sym
             /\ co(t).running = tr[t].running
             /\ co(t).cancelled \/ (co(t) = tr[t] /\ ~(t = table[s] /\ Running(s)))
  <2>1. tr[t] \in Trader
    BY DEF TypeOK
  <2> DEFINE r == [tr[t] EXCEPT !.cancelled = TRUE]
  <2>2. /\ r \in Trader /\ r.cancelled
        /\ r.loop = tr[t].loop /\ r.sym = tr[t].sym /\ r.running = tr[t].running
    BY <2>1 DEF Trader
  <2>3. \/ co(t) = r
        \/ co(t) = tr[t] /\ ~(t = table[s] /\ Running(s))
    OBVIOUS
  <2> HIDE DEF r, co
  <2> QED BY <2>1, <2>2, <2>3
<1> HIDE DEF co
<1> QED BY <1>1, <1>2

-----------------------------------------------------------------------------
(* The invariant                                                           *)

\* StopGrid, from whichever caller.
LEMMA StopKeeps ==
  ASSUME LoopInv, NEW s \in Symbols, tr' = Stopped(s), saved' = Disabled(s),
         UNCHANGED <<table, ex, pnl, active, creds, restoring, earned>>,
         op' \in [Admins -> Request], OpNamed'
  PROVE  LoopInv'
<1> USE GridManagerAssumption DEF LoopInv
<1>1. TypeOK'
  <2>1. tr' \in [Traders -> Trader]
    BY StoppedFacts
  <2>2. saved' \in [Symbols -> {"none", "enabled", "disabled"}]
    BY DEF TypeOK, Disabled
  <2> QED BY <2>1, <2>2 DEF TypeOK
<1>2. ASSUME NEW t \in Traders
      PROVE  /\ tr'[t].loop = tr[t].loop /\ tr'[t].sym = tr[t].sym
             /\ tr'[t] = tr[t] \/ tr'[t].cancelled
  BY StoppedFacts
<1>5. LoopNamed'
  BY <1>2 DEF LoopNamed
<1>3. TableSound'
  <2>1. \A z \in Symbols : table[z] # NoTrader => table[z] \in Traders
    BY DEF TypeOK
  <2> QED BY <1>2, <2>1 DEF TableSound
<1>4. OneLoopPerSymbol'
  BY <1>2 DEF OneLoopPerSymbol
<1> QED BY <1>1, <1>3, <1>4, <1>5

\* StartGrid: the new Trader takes the place of the old one, which is
\* cancelled.
LEMMA StartKeeps ==
  ASSUME LoopInv, NEW s \in Symbols, NEW spot \in BOOLEAN, StartLocked(s, spot),
         UNCHANGED <<ex, pnl, active, creds, earned>>,
         op' \in [Admins -> Request], restoring' \subseteq Symbols,
         OpNamed'
  PROVE  LoopInv'
<1> USE GridManagerAssumption DEF LoopInv
<1>0. PICK t \in Traders :
      /\ IsFirst(t, s)
      /\ table' = [table EXCEPT ![s] = t]
      /\ tr' = Swept([CancelOld(s, spot) EXCEPT ![t] =
                 [Unused EXCEPT !.sym = s, !.running = TRUE, !.loop = "idle",
                                !.spot = spot, !.realized = Seed(s)]], table')
      /\ saved' = [saved EXCEPT ![s] = "enabled"]
  BY DEF StartLocked
<1> DEFINE new == [Unused EXCEPT !.sym = s, !.running = TRUE, !.loop = "idle",
                                 !.spot = spot, !.realized = Seed(s)]
           ts  == [CancelOld(s, spot) EXCEPT ![t] = new]
<1>1. /\ new \in Trader
      /\ new.sym = s /\ new.running /\ new.loop = "idle"
  <2>1. Seed(s) \in Nat
    BY DEF Seed, TypeOK, NoRow
  <2> QED BY <2>1, UnusedType DEF Trader, Alive
<1>2. /\ ts \in [Traders -> Trader]
      /\ ts[t] = new
      /\ \A u \in Traders : u # t => ts[u] = CancelOld(s, spot)[u]
  <2> HIDE DEF new
  <2> QED BY <1>1, CancelOldFacts
<1>3. tr' = Swept(ts, table')
  BY <1>0
<1> HIDE DEF new, ts
<1>4. /\ tr' \in [Traders -> Trader]
      /\ \A u \in Traders :
           /\ \A z \in Symbols : table'[z] = u => tr'[u] = ts[u]
           /\ tr'[u].loop \in Alive => /\ ts[u].loop = tr'[u].loop
                                       /\ ts[u].sym = tr'[u].sym
                                       /\ ts[u].cancelled = tr'[u].cancelled
  <2>1. ts \in [Traders -> Trader]
    BY <1>2
  <2> QED BY <1>3, <2>1, SweptFacts
<1>5. /\ table' \in [Symbols -> Traders \cup {NoTrader}]
      /\ table'[s] = t
      /\ \A z \in Symbols : z # s => table'[z] = table[z]
  BY <1>0 DEF TypeOK
<1>6. tr[t].loop = "free" \/ (tr[t].loop = "gone" /\ table[s] = t)
  BY <1>0 DEF IsFirst, Fresh
<1>7. TypeOK'
  <2>1. saved' \in [Symbols -> {"none", "enabled", "disabled"}]
    BY <1>0 DEF TypeOK
  <2> QED BY <1>4, <1>5, <2>1 DEF TypeOK
<1>8. TableSound'
  <2> SUFFICES ASSUME NEW z \in Symbols, table'[z] # NoTrader
               PROVE  tr'[table'[z]].sym = z /\ tr'[table'[z]].loop # "free"
    BY DEF TableSound
  <2>1. CASE z = s
    BY <2>1, <1>1, <1>2, <1>4, <1>5
  <2>2. CASE z # s
    <3>1. table'[z] = table[z] /\ table[z] \in Traders
      BY <2>2, <1>5 DEF TypeOK
    <3>2. table[z] # t
      BY <2>2, <3>1, <1>6 DEF TableSound
    <3>3. tr'[table[z]] = CancelOld(s, spot)[table[z]]
      BY <3>1, <3>2, <1>2, <1>4
    <3>4. /\ CancelOld(s, spot)[table[z]].loop = tr[table[z]].loop
          /\ CancelOld(s, spot)[table[z]].sym = tr[table[z]].sym
      <4>1. \A u \in Traders : /\ CancelOld(s, spot)[u].loop = tr[u].loop
                               /\ CancelOld(s, spot)[u].sym = tr[u].sym
        BY CancelOldFacts
      <4> QED BY <3>1, <4>1
    <3>5. tr[table[z]].sym = z /\ tr[table[z]].loop # "free"
      BY <3>1 DEF TableSound
    <3> QED BY <3>1, <3>3, <3>4, <3>5
  <2> QED BY <2>1, <2>2
<1>9. ASSUME NEW u \in Traders, tr'[u].loop \in Alive, u # t
      PROVE  /\ tr[u].loop \in Alive /\ tr[u].sym = tr'[u].sym
             /\ ~tr'[u].cancelled => ~tr[u].cancelled /\ ~(u = table[s] /\ Running(s))
  BY <1>9, <1>2, <1>4, CancelOldFacts
<1>10. LoopNamed'
  <2> SUFFICES ASSUME NEW u \in Traders, tr'[u].loop \in Alive
               PROVE  tr'[u].sym \in Symbols
    BY DEF LoopNamed
  <2>1. CASE u = t
    BY <2>1, <1>1, <1>2, <1>4
  <2>2. CASE u # t
    BY <2>2, <1>9 DEF LoopNamed
  <2> QED BY <2>1, <2>2
<1>11. OneLoopPerSymbol'
  <2> SUFFICES ASSUME NEW u \in Traders, tr'[u].loop \in Alive, ~tr'[u].cancelled
               PROVE  table'[tr'[u].sym] = u /\ tr'[u].running
    BY DEF OneLoopPerSymbol
  <2>1. CASE u = t
    BY <2>1, <1>1, <1>2, <1>4, <1>5
  <2>2. CASE u # t
    <3>1. /\ tr[u].sym = tr'[u].sym /\ tr[u].sym \in Symbols
          /\ table[tr[u].sym] = u /\ tr[u].running
          /\ ~(u = table[s] /\ Running(s))
      BY <2>2, <1>9 DEF OneLoopPerSymbol, LoopNamed
    <3>2. tr[u].sym # s
      BY <3>1, GridManagerAssumption DEF Running, NoTrader, TypeOK
    <3>3. table'[tr'[u].sym] = u
      BY <3>1, <3>2, <1>5
    <3>4. tr'[u] = CancelOld(s, spot)[u]
      BY <2>2, <3>1, <3>3, <1>2, <1>4
    <3>5. CancelOld(s, spot)[u].running = tr[u].running
      <4>1. \A v \in Traders : CancelOld(s, spot)[v].running = tr[v].running
        BY CancelOldFacts
      <4> QED BY <4>1
    <3> QED BY <3>1, <3>3, <3>4, <3>5
  <2> QED BY <2>1, <2>2
<1> QED BY <1>7, <1>8, <1>10, <1>11

\* A step that changes only what requests and the database say.
LEMMA OpKeeps ==
  ASSUME LoopInv, UNCHANGED <<table, tr, earned, restoring>>,
         ex' \in Exchanges, active' \in Exchanges \cup {NoExchange},
         saved' \in [Symbols -> {"none", "enabled", "disabled"}],
         pnl' \in [Symbols -> Nat \cup {NoRow}],
         op' \in [Admins -> Request], OpNamed'
  PROVE  LoopInv'
<1>1. TypeOK'
  BY DEF LoopInv, TypeOK, OpNamed
<1>2. TableSound' /\ LoopNamed' /\ OneLoopPerSymbol'
  BY DEF LoopInv, TableSound, LoopNamed, OneLoopPerSymbol
<1> QED BY <1>1, <1>2 DEF LoopInv

\* A request that begins, or goes on to its next part.
LEMMA BeginFacts ==
  ASSUME LoopInv, NEW a \in Admins, NEW s \in Symbols \cup {NoSymbol},
         NEW e \in Exchanges \cup {NoExchange}, NEW spot \in BOOLEAN,
         NEW kind \in {"start", "delete", "test", "unbound", "list"},
         kind \in {"start", "delete"} => s \in Symbols,
         kind \in {"test", "unbound", "list"} => e \in Exchanges,
         Begin(a, kind, s, e, spot), creds' \subseteq Exchanges
  PROVE  op' \in [Admins -> Request] /\ OpNamed'
<1> DEFINE r == [NoOp EXCEPT !.kind = kind, !.sym = s, !.ex = e, !.spot = spot]
<1>1. NoOp \in Request
  BY DEF NoOp, Request
<1>2. r \in Request /\ r.kind = kind /\ r.sym = s /\ r.ex = e
  BY <1>1 DEF Request
<1>3. op' = [op EXCEPT ![a] = r] /\ op \in [Admins -> Request]
  BY DEF Begin, LoopInv, TypeOK
<1> HIDE DEF r
<1>4. op' \in [Admins -> Request]
  BY <1>2, <1>3
<1>5. \A b \in Admins : op'[b] = IF b = a THEN r ELSE op[b]
  BY <1>3
<1> QED BY <1>2, <1>4, <1>5 DEF LoopInv, OpNamed

\* A request that is done.
LEMMA DoneFacts ==
  ASSUME LoopInv, NEW a \in Admins, Done(a), UNCHANGED creds
  PROVE  op' \in [Admins -> Request] /\ OpNamed'
<1>1. NoOp \in Request /\ NoOp.kind = "idle"
  BY DEF NoOp, Request
<1>2. op' = [op EXCEPT ![a] = NoOp] /\ op \in [Admins -> Request]
  BY DEF Done, LoopInv, TypeOK
<1>3. op' \in [Admins -> Request]
  BY <1>1, <1>2
<1>4. \A b \in Admins : op'[b] = IF b = a THEN NoOp ELSE op[b]
  BY <1>2
<1> QED BY <1>1, <1>3, <1>4 DEF LoopInv, OpNamed

\* A goroutine that goes on, with its Trader where and what it was.
LEMMA LoopKeeps ==
  ASSUME LoopInv, NEW t \in Traders, tr[t].loop \in Alive,
         NEW r \in Trader, r.loop \in Alive, r.sym = tr[t].sym,
         r.running = tr[t].running, r.cancelled = tr[t].cancelled,
         tr' = [tr EXCEPT ![t] = r],
         UNCHANGED <<table, ex, saved, active, creds, op, restoring>>,
         pnl' \in [Symbols -> Nat \cup {NoRow}], earned' \in [Symbols -> Nat]
  PROVE  LoopInv'
<1>1. TypeOK'
  BY DEF LoopInv, TypeOK
<1>2. ASSUME NEW u \in Traders
      PROVE  /\ tr'[u].loop \in Alive <=> tr[u].loop \in Alive
             /\ tr'[u].sym = tr[u].sym /\ tr'[u].running = tr[u].running
             /\ tr'[u].cancelled = tr[u].cancelled
             /\ tr[u].loop # "free" => tr'[u].loop # "free"
  BY DEF LoopInv, TypeOK, Alive
<1>3. TableSound'
  <2>1. \A z \in Symbols : table[z] # NoTrader => table[z] \in Traders
    BY DEF LoopInv, TypeOK
  <2> QED BY <1>2, <2>1 DEF LoopInv, TableSound
<1>4. LoopNamed' /\ OneLoopPerSymbol'
  BY <1>2 DEF LoopInv, LoopNamed, OneLoopPerSymbol
<1>5. OpNamed'
  BY DEF LoopInv, OpNamed
<1> QED BY <1>1, <1>3, <1>4, <1>5 DEF LoopInv

\* A Trader leaves the table, or a goroutine ends: the rest are swept.
LEMMA SweepKeeps ==
  ASSUME LoopInv, NEW ts \in [Traders -> Trader],
         tr' = Swept(ts, table'),
         \A s \in Symbols : table'[s] = table[s] \/ table'[s] = NoTrader,
         table' \in [Symbols -> Traders \cup {NoTrader}],
         \A t \in Traders : /\ ts[t].sym = tr[t].sym
                            /\ ts[t].running = tr[t].running
                            /\ ts[t].cancelled = tr[t].cancelled
                            /\ ts[t].loop = tr[t].loop \/ ts[t].loop = "gone",
         \A t \in Traders : ts[t].loop \in Alive /\ ~ts[t].cancelled
                            => table'[tr[t].sym] = table[tr[t].sym],
         UNCHANGED <<ex, saved, pnl, active, creds, restoring, earned>>,
         op' \in [Admins -> Request], OpNamed'
  PROVE  LoopInv'
<1>1. /\ tr' \in [Traders -> Trader]
      /\ \A t \in Traders :
           /\ \A s \in Symbols : table'[s] = t => tr'[t] = ts[t]
           /\ tr'[t].loop \in Alive => /\ ts[t].loop = tr'[t].loop
                                       /\ ts[t].sym = tr'[t].sym
                                       /\ ts[t].cancelled = tr'[t].cancelled
  BY SweptFacts
<1>2. TypeOK'
  BY <1>1 DEF LoopInv, TypeOK
<1>3. TableSound'
  <2> SUFFICES ASSUME NEW z \in Symbols, table'[z] # NoTrader
               PROVE  tr'[table'[z]].sym = z /\ tr'[table'[z]].loop # "free"
    BY DEF TableSound
  <2>1. table'[z] = table[z] /\ table[z] \in Traders
    BY DEF LoopInv, TypeOK
  <2>2. tr[table[z]].sym = z /\ tr[table[z]].loop # "free"
    BY <2>1 DEF LoopInv, TableSound
  <2>3. tr'[table[z]] = ts[table[z]]
    BY <1>1, <2>1
  <2>4. ts[table[z]].sym = z /\ ts[table[z]].loop # "free"
    BY <2>1, <2>2
  <2> QED BY <2>1, <2>3, <2>4
<1>4. ASSUME NEW t \in Traders, tr'[t].loop \in Alive
      PROVE  /\ tr[t].loop \in Alive /\ tr'[t].sym = tr[t].sym
             /\ tr[t].sym \in Symbols
             /\ tr'[t].cancelled = tr[t].cancelled
             /\ ts[t].loop \in Alive
  BY <1>1, <1>4 DEF LoopInv, LoopNamed, Alive
<1>5. LoopNamed'
  BY <1>4 DEF LoopNamed
<1>6. OneLoopPerSymbol'
  <2> SUFFICES ASSUME NEW t \in Traders, tr'[t].loop \in Alive, ~tr'[t].cancelled
               PROVE  table'[tr'[t].sym] = t /\ tr'[t].running
    BY DEF OneLoopPerSymbol
  <2>1. table[tr[t].sym] = t /\ tr[t].running
    BY <1>4 DEF LoopInv, OneLoopPerSymbol
  <2>2. table'[tr[t].sym] = t
    BY <1>4, <2>1
  <2>3. tr'[t] = ts[t]
    BY <1>1, <1>4, <2>2
  <2> QED BY <1>4, <2>1, <2>2, <2>3
<1> QED BY <1>2, <1>3, <1>5, <1>6 DEF LoopInv

-----------------------------------------------------------------------------
(* Every action keeps the invariant                                        *)

LEMMA StartingKeeps ==
  ASSUME LoopInv, Restart \/ (\E s \in Symbols : RestoreGrid(s))
  PROVE  LoopInv'
<1>0. StartupExchange \in Exchanges
  BY GridManagerAssumption DEF StartupExchange, LoopInv, OpNamed
<1>1. ASSUME Restart PROVE LoopInv'
  <2>1. NoOp \in Request /\ NoOp.kind = "idle"
    BY DEF NoOp, Request
  <2>2. Unused.loop = "free"
    BY DEF Unused
  <2>3. TypeOK'
    <3>1. table' \in [Symbols -> Traders \cup {NoTrader}] /\ restoring' \subseteq Symbols
      BY <1>1 DEF Restart
    <3>2. tr' \in [Traders -> Trader] /\ op' \in [Admins -> Request]
      BY <1>1, <2>1, UnusedType DEF Restart
    <3>3. ex' \in Exchanges
      BY <1>0, <1>1 DEF Restart
    <3> QED BY <1>1, <3>1, <3>2, <3>3 DEF Restart, db, LoopInv, TypeOK
  <2>4. \A t \in Traders : tr'[t].loop \notin Alive
    BY <1>1, <2>2 DEF Restart, Alive
  <2>5. TableSound' /\ LoopNamed' /\ OneLoopPerSymbol'
    BY <1>1, <2>4 DEF Restart, TableSound, LoopNamed, OneLoopPerSymbol, NoTrader
  <2>6. OpNamed'
    BY <1>1, <2>1 DEF Restart, db, LoopInv, OpNamed
  <2> QED BY <2>3, <2>5, <2>6 DEF LoopInv
<1>2. ASSUME NEW s \in Symbols, RestoreGrid(s) PROVE LoopInv'
  <2>1. StartLocked(s, IsSpotExchange) /\ UNCHANGED <<ex, pnl, active, creds, op, earned>>
        /\ restoring' = restoring \ {s}
    BY <1>2 DEF RestoreGrid
  <2>2. IsSpotExchange \in BOOLEAN
    BY DEF IsSpotExchange
  <2>3. op' \in [Admins -> Request] /\ restoring' \subseteq Symbols /\ OpNamed'
    BY <2>1 DEF LoopInv, TypeOK, OpNamed
  <2> QED BY <2>1, <2>2, <2>3, StartKeeps
<1> QED BY <1>1, <1>2

LEMMA StartStopKeeps ==
  ASSUME LoopInv, NEW a \in Admins, NEW s \in Symbols,
         \/ StartRead(a, s) \/ StartGrid(a) \/ StopGrid(a, s)
         \/ DeleteCheck(a, s) \/ DeleteGridData(a)
  PROVE  LoopInv'
<1> USE DEF LoopInv
<1>1. ASSUME StartRead(a, s) PROVE LoopInv'
  <2>1. Begin(a, "start", s, NoExchange, IsSpotExchange) /\ IsSpotExchange \in BOOLEAN
        /\ UNCHANGED <<table, tr, ex, saved, pnl, active, creds, restoring, earned>>
    BY <1>1 DEF StartRead, IsSpotExchange, db
  <2>2. op' \in [Admins -> Request] /\ OpNamed'
    BY <2>1, BeginFacts DEF OpNamed
  <2> QED BY <2>1, <2>2, OpKeeps DEF TypeOK
<1>2. ASSUME StartGrid(a) PROVE LoopInv'
  <2>1. StartLocked(op[a].sym, op[a].spot) /\ op[a].kind = "start" /\ Done(a)
        /\ UNCHANGED <<ex, pnl, active, creds, restoring, earned>>
    BY <1>2 DEF StartGrid
  <2>2. op[a].sym \in Symbols /\ op[a].spot \in BOOLEAN
    BY <2>1 DEF OpNamed, TypeOK, Request
  <2>3. op' \in [Admins -> Request] /\ OpNamed'
    BY <2>1, DoneFacts
  <2>4. restoring' \subseteq Symbols
    BY <2>1 DEF TypeOK
  <2> QED BY <2>1, <2>2, <2>3, <2>4, StartKeeps
<1>3. ASSUME StopGrid(a, s) PROVE LoopInv'
  <2>1. op' \in [Admins -> Request] /\ OpNamed'
    BY <1>3 DEF StopGrid, TypeOK, OpNamed
  <2> QED BY <1>3, <2>1, StopKeeps DEF StopGrid
<1>4. ASSUME DeleteCheck(a, s) PROVE LoopInv'
  <2>1. /\ ~Running(s) /\ table' = [table EXCEPT ![s] = NoTrader]
        /\ tr' = Swept(tr, table') /\ Begin(a, "delete", s, NoExchange, FALSE)
        /\ UNCHANGED <<ex, saved, pnl, active, creds, restoring, earned>>
    BY <1>4 DEF DeleteCheck, db
  <2>2. op' \in [Admins -> Request] /\ OpNamed'
    BY <2>1, BeginFacts DEF OpNamed
  <2>3. /\ table' \in [Symbols -> Traders \cup {NoTrader}]
        /\ \A z \in Symbols : table'[z] = table[z] \/ table'[z] = NoTrader
        /\ \A z \in Symbols : z # s => table'[z] = table[z]
    BY <2>1 DEF TypeOK
  <2>4. ASSUME NEW t \in Traders, tr[t].loop \in Alive, ~tr[t].cancelled
        PROVE  table'[tr[t].sym] = table[tr[t].sym]
    <3>1. tr[t].sym \in Symbols /\ table[tr[t].sym] = t /\ tr[t].running
      BY <2>4 DEF LoopNamed, OneLoopPerSymbol
    <3>2. tr[t].sym # s
      BY <2>1, <3>1, GridManagerAssumption DEF Running, NoTrader
    <3> QED BY <2>3, <3>1, <3>2
  <2>5. tr \in [Traders -> Trader]
    BY DEF TypeOK
  <2> HIDE DEF LoopInv
  <2> QED BY <2>1, <2>2, <2>3, <2>4, <2>5, SweepKeeps
<1>5. ASSUME DeleteGridData(a) PROVE LoopInv'
  <2>1. op' \in [Admins -> Request] /\ OpNamed'
    BY <1>5, DoneFacts DEF DeleteGridData
  <2>2. saved' \in [Symbols -> {"none", "enabled", "disabled"}]
        /\ pnl' \in [Symbols -> Nat \cup {NoRow}]
    BY <1>5 DEF DeleteGridData, TypeOK
  <2> QED BY <1>5, <2>1, <2>2, OpKeeps DEF DeleteGridData, TypeOK
<1> QED BY <1>1, <1>2, <1>3, <1>4, <1>5

LEMMA ExchangeKeeps ==
  ASSUME LoopInv, NEW a \in Admins, NEW e \in Exchanges,
         \/ BindExchange(a, e) \/ BindTest(a) \/ ActivateExchange(a, e)
         \/ UnbindExchange(a, e) \/ UnbindCheck(a) \/ SwitchList(a)
         \/ SwitchSet(a) \/ SetActiveExchange(a)
  PROVE  LoopInv'
<1>0. op \in [Admins -> Request] /\ op[a] \in Request /\ creds \subseteq Exchanges
      /\ (op[a].kind \in {"test", "unbound", "list", "switch", "record"}
            => op[a].ex \in Exchanges)
  BY DEF LoopInv, TypeOK, OpNamed
<1>1. CASE BindExchange(a, e)
  <2>1. Begin(a, "test", NoSymbol, e, FALSE) /\ creds' = creds \cup {e}
    BY <1>1 DEF BindExchange
  <2>2. op' \in [Admins -> Request] /\ OpNamed'
    BY <1>0, <2>1, BeginFacts
  <2> QED BY <1>1, <2>2, OpKeeps DEF BindExchange, LoopInv, TypeOK
<1>2. CASE BindTest(a)
  <2>1. /\ op[a].kind = "test"
        /\ Begin(a, "list", NoSymbol, op[a].ex, FALSE) \/ Done(a)
        /\ UNCHANGED <<table, tr, ex, saved, pnl, active, creds, restoring, earned>>
    BY <1>2 DEF BindTest, db
  <2>2. op' \in [Admins -> Request] /\ OpNamed'
    BY <1>0, <2>1, BeginFacts, DoneFacts
  <2> QED BY <2>1, <2>2, OpKeeps DEF LoopInv, TypeOK
<1>3. CASE ActivateExchange(a, e)
  <2>1. /\ Begin(a, "list", NoSymbol, e, FALSE)
        /\ UNCHANGED <<table, tr, ex, saved, pnl, active, creds, restoring, earned>>
    BY <1>3 DEF ActivateExchange, db
  <2>2. op' \in [Admins -> Request] /\ OpNamed'
    BY <1>0, <2>1, BeginFacts
  <2> QED BY <2>1, <2>2, OpKeeps DEF LoopInv, TypeOK
<1>4. CASE UnbindExchange(a, e)
  <2>1. Begin(a, "unbound", NoSymbol, e, FALSE) /\ creds' = creds \ {e}
    BY <1>4 DEF UnbindExchange
  <2>2. op' \in [Admins -> Request] /\ OpNamed'
    BY <1>0, <2>1, BeginFacts
  <2> QED BY <1>4, <2>2, OpKeeps DEF UnbindExchange, LoopInv, TypeOK
<1>5. CASE UnbindCheck(a)
  <2>1. /\ Begin(a, "list", NoSymbol, Paper, FALSE) \/ Done(a)
        /\ UNCHANGED <<table, tr, ex, saved, pnl, active, creds, restoring, earned>>
    BY <1>5 DEF UnbindCheck, db
  <2>2. op' \in [Admins -> Request] /\ OpNamed'
    BY <1>0, <2>1, BeginFacts, DoneFacts, GridManagerAssumption
  <2> QED BY <2>1, <2>2, OpKeeps DEF LoopInv, TypeOK
<1>6. CASE SwitchList(a)
  <2>1. /\ op[a].kind = "list" /\ Listed \subseteq Symbols
        /\ op' = [op EXCEPT ![a].kind = "switch", ![a].todo = Listed]
        /\ UNCHANGED <<table, tr, ex, saved, pnl, active, creds, restoring, earned>>
    BY <1>6 DEF SwitchList, db, Listed
  <2> DEFINE r == [op[a] EXCEPT !.kind = "switch", !.todo = Listed]
  <2>2. r \in Request /\ r.kind = "switch" /\ r.ex = op[a].ex /\ op' = [op EXCEPT ![a] = r]
    BY <1>0, <2>1 DEF Request
  <2> HIDE DEF r
  <2>3. op' \in [Admins -> Request] /\ OpNamed'
    BY <1>0, <2>1, <2>2 DEF LoopInv, OpNamed
  <2> QED BY <2>1, <2>3, OpKeeps DEF LoopInv, TypeOK
<1>7. CASE SwitchSet(a)
  <2>1. /\ op[a].kind = "switch" /\ ex' = op[a].ex
        /\ op' = [op EXCEPT ![a].kind = "record"]
        /\ UNCHANGED <<table, tr, saved, pnl, active, creds, restoring, earned>>
    BY <1>7 DEF SwitchSet, db
  <2> DEFINE r == [op[a] EXCEPT !.kind = "record"]
  <2>2. r \in Request /\ r.kind = "record" /\ r.ex = op[a].ex /\ op' = [op EXCEPT ![a] = r]
    BY <1>0, <2>1 DEF Request
  <2> HIDE DEF r
  <2>3. op' \in [Admins -> Request] /\ OpNamed' /\ ex' \in Exchanges
    BY <1>0, <2>1, <2>2 DEF LoopInv, OpNamed
  <2> QED BY <2>1, <2>3, OpKeeps DEF LoopInv, TypeOK
<1>8. CASE SetActiveExchange(a)
  <2>1. active' \in Exchanges
    BY <1>0, <1>8 DEF SetActiveExchange, Recorded
  <2>2. op' \in [Admins -> Request] /\ OpNamed'
    BY <1>8, DoneFacts DEF SetActiveExchange
  <2> QED BY <1>8, <2>1, <2>2, OpKeeps DEF SetActiveExchange, LoopInv, TypeOK
<1> QED BY <1>1, <1>2, <1>3, <1>4, <1>5, <1>6, <1>7, <1>8

LEMMA SwitchStopKeeps ==
  ASSUME LoopInv, NEW a \in Admins, NEW s \in Symbols, SwitchStop(a, s)
  PROVE  LoopInv'
<1>1. op[a] \in Request /\ op \in [Admins -> Request]
  BY DEF LoopInv, TypeOK
<1> DEFINE r == [op[a] EXCEPT !.todo = @ \ {s}]
<1>2. /\ r \in Request /\ r.kind = op[a].kind /\ r.ex = op[a].ex /\ r.sym = op[a].sym
      /\ op' = [op EXCEPT ![a] = r]
  BY <1>1 DEF SwitchStop, Request
<1> HIDE DEF r
<1>3. op' \in [Admins -> Request] /\ OpNamed'
  BY <1>1, <1>2 DEF LoopInv, OpNamed, SwitchStop
<1> QED BY <1>3, StopKeeps DEF SwitchStop

LEMMA TickKeeps ==
  ASSUME LoopInv, NEW t \in Traders,
         \/ TickBegin(t) \/ Settle(t) \/ OnTickOk(t) \/ OnTickErr(t) \/ Record(t)
  PROVE  LoopInv'
<1>0. /\ tr \in [Traders -> Trader] /\ tr[t] \in Trader
      /\ pnl \in [Symbols -> Nat \cup {NoRow}] /\ earned \in [Symbols -> Nat]
      /\ tr[t].realized \in Nat
  BY DEF LoopInv, TypeOK, Trader
<1>a. MaxErrs \in Nat \ {0} /\ MaxTransient \in Nat \ {0}
  BY GridManagerAssumption
<1>1. CASE TickBegin(t)
  <2> DEFINE r == [tr[t] EXCEPT !.loop = "tick"]
  <2>1. /\ r \in Trader /\ r.loop \in Alive /\ r.sym = tr[t].sym
        /\ r.running = tr[t].running /\ r.cancelled = tr[t].cancelled
        /\ tr' = [tr EXCEPT ![t] = r] /\ tr[t].loop \in Alive
    BY <1>0, <1>1 DEF TickBegin, Trader, Alive
  <2> HIDE DEF r
  <2> QED BY <1>0, <1>1, <2>1, LoopKeeps DEF TickBegin, db
<1>2. CASE Settle(t)
  <2> DEFINE r == [tr[t] EXCEPT !.realized = @ + 1]
  <2>1. /\ r \in Trader /\ r.loop \in Alive /\ r.sym = tr[t].sym
        /\ r.running = tr[t].running /\ r.cancelled = tr[t].cancelled
        /\ tr' = [tr EXCEPT ![t] = r] /\ tr[t].loop \in Alive
    BY <1>0, <1>2 DEF Settle, Trader, Alive
  <2> HIDE DEF r
  <2>2. earned' \in [Symbols -> Nat]
    <3>1. earned' = [earned EXCEPT ![tr[t].sym] = earned[tr[t].sym] + 1]
      BY <1>2 DEF Settle
    <3>2. tr[t].sym \in Symbols
      BY <2>1 DEF LoopInv, LoopNamed
    <3>3. earned[tr[t].sym] + 1 \in Nat
      BY <1>0, <3>2
    <3> QED BY <1>0, <3>1, <3>2, <3>3
  <2>3. UNCHANGED <<table, ex, saved, pnl, active, creds, op, restoring>>
    BY <1>2 DEF Settle, db
  <2>4. pnl' \in [Symbols -> Nat \cup {NoRow}]
    BY <1>0, <2>3
  <2> QED BY <2>1, <2>2, <2>3, <2>4, LoopKeeps
<1>3. CASE OnTickOk(t)
  <2> DEFINE r == [tr[t] EXCEPT !.loop = "record", !.errs = 0, !.transient = 0]
  <2>1. /\ r \in Trader /\ r.loop \in Alive /\ r.sym = tr[t].sym
        /\ r.running = tr[t].running /\ r.cancelled = tr[t].cancelled
        /\ tr' = [tr EXCEPT ![t] = r] /\ tr[t].loop \in Alive
    <3>1. 0 \in 0 .. MaxErrs /\ 0 \in 0 .. MaxTransient
      BY <1>a
    <3>2. /\ r \in Trader /\ r.loop = "record" /\ r.sym = tr[t].sym
          /\ r.running = tr[t].running /\ r.cancelled = tr[t].cancelled
      BY <1>0, <3>1 DEF Trader, Alive
    <3>3. tr' = [tr EXCEPT ![t] = r] /\ tr[t].loop = "tick"
      BY <1>3 DEF OnTickOk
    <3> HIDE DEF r
    <3> QED BY <3>2, <3>3 DEF Alive
  <2> HIDE DEF r
  <2>3. UNCHANGED <<table, ex, saved, pnl, active, creds, op, restoring, earned>>
    BY <1>3 DEF OnTickOk, db
  <2>4. pnl' \in [Symbols -> Nat \cup {NoRow}] /\ earned' \in [Symbols -> Nat]
    BY <1>0, <2>3
  <2> QED BY <2>1, <2>3, <2>4, LoopKeeps
<1>4. CASE OnTickErr(t)
  <2>a. /\ Counted(tr[t].errs, MaxErrs) \in 0 .. MaxErrs
        /\ Counted(tr[t].transient, MaxTransient) \in 0 .. MaxTransient
    BY <1>0, <1>a DEF Trader, Counted
  <2>b. \A q : AfterError(q) \in Alive
    BY DEF AfterError, Alive
  <2> DEFINE failed == [tr[t] EXCEPT !.errs = Counted(@, MaxErrs)]
             slow   == [tr[t] EXCEPT !.transient = Counted(@, MaxTransient)]
  <2>c. PICK q \in {failed, slow} : tr' = [tr EXCEPT ![t] = [q EXCEPT !.loop = AfterError(q)]]
    <3>1. PICK kind \in Failing \cap {"tick", "transient"} :
            LET q == IF kind = "tick" THEN failed ELSE slow
            IN  tr' = [tr EXCEPT ![t] = [q EXCEPT !.loop = AfterError(q)]]
      BY <1>4, Zenon DEF OnTickErr
    <3> HIDE DEF failed, slow
    <3>2. CASE kind = "tick"
      BY <3>1, <3>2
    <3>3. CASE kind # "tick"
      BY <3>1, <3>3
    <3> QED BY <3>2, <3>3
  <2>d. /\ q \in Trader /\ q.sym = tr[t].sym
        /\ q.running = tr[t].running /\ q.cancelled = tr[t].cancelled
    <3>1. CASE q = failed
      BY <3>1, <1>0, <2>a DEF Trader
    <3>2. CASE q = slow
      BY <3>2, <1>0, <2>a DEF Trader
    <3> QED BY <3>1, <3>2
  <2>e. AfterError(q) \in Alive /\ tr[t].loop \in Alive
    BY <1>4, <2>b DEF OnTickErr, Alive
  <2> HIDE DEF failed, slow
  <2> DEFINE r == [q EXCEPT !.loop = AfterError(q)]
  <2>2. /\ r \in Trader /\ r.loop \in Alive /\ r.sym = tr[t].sym
        /\ r.running = tr[t].running /\ r.cancelled = tr[t].cancelled
        /\ tr' = [tr EXCEPT ![t] = r] /\ tr[t].loop \in Alive
    <3> HIDE DEF failed, slow
    <3>1. q \in Trader /\ AfterError(q) \in {"pause", "idle"}
      BY <2>d DEF AfterError
    <3>2. r \in Trader /\ r.loop = AfterError(q) /\ r.sym = q.sym
          /\ r.running = q.running /\ r.cancelled = q.cancelled
      BY <3>1 DEF Trader, Alive
    <3> HIDE DEF r
    <3> QED BY <2>c, <2>d, <2>e, <3>2 DEF r
  <2> HIDE DEF r
  <2> QED BY <1>0, <1>4, <2>2, LoopKeeps DEF OnTickErr, db
<1>5. CASE Record(t)
  <2> DEFINE r == [tr[t] EXCEPT !.loop = "idle"]
  <2>1. /\ r \in Trader /\ r.loop \in Alive /\ r.sym = tr[t].sym
        /\ r.running = tr[t].running /\ r.cancelled = tr[t].cancelled
        /\ tr' = [tr EXCEPT ![t] = r] /\ tr[t].loop \in Alive
    BY <1>0, <1>5 DEF Record, Trader, Alive
  <2> HIDE DEF r
  <2>2. pnl' \in [Symbols -> Nat \cup {NoRow}]
    BY <1>0, <1>5 DEF Record
  <2> QED BY <1>0, <1>5, <2>1, <2>2, LoopKeeps DEF Record
<1> QED BY <1>1, <1>2, <1>3, <1>4, <1>5

\* The automatic pause stops whatever the table holds for the symbol; the
\* goroutine itself then waits for its next tick or its end.
LEMMA PauseKeeps ==
  ASSUME LoopInv, NEW t \in Traders, AutoPause(t)
  PROVE  LoopInv'
<1>1. /\ tr[t].loop = "pause" /\ tr[t].sym \in Symbols
      /\ tr' = [Stopped(tr[t].sym) EXCEPT ![t].loop = "idle"]
      /\ saved' = Disabled(tr[t].sym)
      /\ UNCHANGED <<table, ex, pnl, active, creds, op, restoring, earned>>
  BY DEF AutoPause, LoopInv, LoopNamed, Alive
<1> DEFINE st == Stopped(tr[t].sym)
<1>2. /\ st \in [Traders -> Trader]
      /\ \A u \in Traders : /\ st[u].loop = tr[u].loop /\ st[u].sym = tr[u].sym
                            /\ st[u] = tr[u] \/ st[u].cancelled
  BY StoppedFacts DEF LoopInv
<1>3. tr' = [st EXCEPT ![t].loop = "idle"]
  BY <1>1
<1> HIDE DEF st
<1>4. /\ tr' \in [Traders -> Trader]
      /\ tr'[t].loop = "idle" /\ tr'[t].sym = tr[t].sym
      /\ tr'[t].running = st[t].running /\ tr'[t].cancelled = st[t].cancelled
      /\ \A u \in Traders : u # t => tr'[u] = st[u]
  <2> DEFINE r == [st[t] EXCEPT !.loop = "idle"]
  <2>1. /\ r \in Trader /\ r.loop = "idle" /\ r.sym = st[t].sym
        /\ r.running = st[t].running /\ r.cancelled = st[t].cancelled
    BY <1>2 DEF Trader, Alive
  <2>2. tr' = [st EXCEPT ![t] = r]
    BY <1>3
  <2> HIDE DEF r
  <2> QED BY <1>2, <2>1, <2>2
<1>5. ASSUME NEW u \in Traders
      PROVE  /\ tr'[u].sym = tr[u].sym
             /\ tr'[u].loop \in Alive <=> tr[u].loop \in Alive
             /\ tr[u].loop # "free" => tr'[u].loop # "free"
             /\ ~tr'[u].cancelled => tr'[u].running = tr[u].running /\ ~tr[u].cancelled
  BY <1>1, <1>2, <1>4 DEF Alive
<1>6. TypeOK'
  <2>1. saved' \in [Symbols -> {"none", "enabled", "disabled"}]
    BY <1>1 DEF LoopInv, TypeOK, Disabled
  <2> QED BY <1>1, <1>4, <2>1 DEF LoopInv, TypeOK
<1>7. TableSound'
  <2>1. \A z \in Symbols : table[z] # NoTrader => table[z] \in Traders
    BY DEF LoopInv, TypeOK
  <2> QED BY <1>1, <1>5, <2>1 DEF LoopInv, TableSound
<1>8. LoopNamed' /\ OneLoopPerSymbol'
  BY <1>1, <1>5 DEF LoopInv, LoopNamed, OneLoopPerSymbol
<1>9. OpNamed'
  BY <1>1 DEF LoopInv, OpNamed
<1> QED BY <1>6, <1>7, <1>8, <1>9 DEF LoopInv

LEMMA ExitKeeps ==
  ASSUME LoopInv, NEW t \in Traders, LoopExit(t)
  PROVE  LoopInv'
<1> DEFINE ts == [tr EXCEPT ![t].loop = "gone"]
<1>1. /\ tr[t].cancelled /\ tr' = Swept(ts, table') /\ tr \in [Traders -> Trader]
      /\ UNCHANGED <<table, ex, saved, pnl, active, creds, op, restoring, earned>>
  BY DEF LoopExit, db, LoopInv, TypeOK
<1> DEFINE r == [tr[t] EXCEPT !.loop = "gone"]
<1>2. /\ r \in Trader /\ r.loop = "gone" /\ r.sym = tr[t].sym
      /\ r.running = tr[t].running /\ r.cancelled = tr[t].cancelled
      /\ ts = [tr EXCEPT ![t] = r]
  BY <1>1 DEF Trader
<1> HIDE DEF r, ts
<1>3. /\ ts \in [Traders -> Trader]
      /\ \A u \in Traders : /\ ts[u].sym = tr[u].sym
                            /\ ts[u].running = tr[u].running
                            /\ ts[u].cancelled = tr[u].cancelled
                            /\ ts[u].loop = tr[u].loop \/ ts[u].loop = "gone"
  BY <1>1, <1>2
<1>4. table \in [Symbols -> Traders \cup {NoTrader}] /\ op' \in [Admins -> Request] /\ OpNamed'
  BY <1>1 DEF LoopInv, TypeOK, OpNamed
<1> QED BY <1>1, <1>3, <1>4, SweepKeeps

-----------------------------------------------------------------------------

LEMMA LoopInvInit == Init => LoopInv
<1> SUFFICES ASSUME Init PROVE LoopInv
  OBVIOUS
<1>1. NoOp \in Request /\ NoOp.kind = "idle" /\ Unused.loop = "free"
  BY DEF NoOp, Request, Unused
<1>2. table = [s \in Symbols |-> NoTrader] /\ tr = [t \in Traders |-> Unused]
      /\ op = [a \in Admins |-> NoOp] /\ creds = {}
  BY DEF Init
<1>3. TypeOK
  <2>1. tr \in [Traders -> Trader] /\ op \in [Admins -> Request]
    BY <1>1, <1>2, UnusedType
  <2>2. /\ table \in [Symbols -> Traders \cup {NoTrader}] /\ ex \in Exchanges
        /\ saved \in [Symbols -> {"none", "enabled", "disabled"}]
        /\ active \in Exchanges \cup {NoExchange} /\ creds \subseteq Exchanges
    BY GridManagerAssumption DEF Init
  <2>3. pnl \in [Symbols -> Nat \cup {NoRow}] /\ earned \in [Symbols -> Nat]
        /\ restoring \subseteq Symbols
    BY DEF Init
  <2> QED BY <2>1, <2>2, <2>3 DEF TypeOK
<1>4. \A t \in Traders : tr[t].loop \notin Alive
  BY <1>1, <1>2 DEF Alive
<1>5. TableSound /\ LoopNamed /\ OneLoopPerSymbol
  BY <1>2, <1>4 DEF TableSound, LoopNamed, OneLoopPerSymbol
<1>6. OpNamed
  BY <1>1, <1>2 DEF OpNamed
<1> QED BY <1>3, <1>5, <1>6 DEF LoopInv

LEMMA LoopInvStutter == LoopInv /\ UNCHANGED vars => LoopInv'
<1> SUFFICES ASSUME LoopInv, UNCHANGED vars PROVE LoopInv'
  OBVIOUS
<1>1. TypeOK'
  BY DEF vars, LoopInv, TypeOK
<1>2. TableSound' /\ LoopNamed' /\ OneLoopPerSymbol' /\ OpNamed'
  BY DEF vars, LoopInv, TableSound, LoopNamed, OneLoopPerSymbol, OpNamed
<1> QED BY <1>1, <1>2 DEF LoopInv

LEMMA LoopInvNext == LoopInv /\ [Next]_vars => LoopInv'
<1> SUFFICES ASSUME LoopInv, [Next]_vars PROVE LoopInv'
  OBVIOUS
<1>1. CASE Requests
  <2> PICK a \in Admins :
        \/ \E s \in Symbols : \/ StartRead(a, s) \/ StopGrid(a, s) \/ DeleteCheck(a, s)
                              \/ SwitchStop(a, s)
        \/ \E e \in Exchanges : BindExchange(a, e) \/ ActivateExchange(a, e)
                                \/ UnbindExchange(a, e)
        \/ StartGrid(a) \/ DeleteGridData(a) \/ BindTest(a) \/ UnbindCheck(a)
        \/ SwitchList(a) \/ SwitchSet(a) \/ SetActiveExchange(a)
    BY <1>1 DEF Requests
  <2>1. CASE \E s \in Symbols : StartRead(a, s) \/ StopGrid(a, s) \/ DeleteCheck(a, s)
    BY <2>1, StartStopKeeps
  <2>2. CASE \E s \in Symbols : SwitchStop(a, s)
    BY <2>2, SwitchStopKeeps
  <2>3. CASE \E e \in Exchanges : BindExchange(a, e) \/ ActivateExchange(a, e)
                                 \/ UnbindExchange(a, e)
    BY <2>3, ExchangeKeeps
  <2>4. CASE BindTest(a) \/ UnbindCheck(a) \/ SwitchList(a) \/ SwitchSet(a)
             \/ SetActiveExchange(a)
    BY <2>4, ExchangeKeeps, GridManagerAssumption
  <2>5. CASE StartGrid(a) \/ DeleteGridData(a)
    <3>1. op[a].sym \in Symbols
      BY <2>5 DEF StartGrid, DeleteGridData, LoopInv, OpNamed
    <3> QED BY <2>5, <3>1, StartStopKeeps
  <2> QED BY <2>1, <2>2, <2>3, <2>4, <2>5
<1>2. CASE Loops
  BY <1>2, ExitKeeps, TickKeeps, PauseKeeps DEF Loops
<1>3. CASE Main
  BY <1>3, StartingKeeps DEF Main
<1>4. CASE UNCHANGED vars
  BY <1>4, LoopInvStutter
<1> QED BY <1>1, <1>2, <1>3, <1>4 DEF Next

\* However many admins start, stop, delete and switch, however ticks fail and
\* wherever the process is killed: the goroutine of a grid that nobody has
\* cancelled is the one the manager's table names, so a symbol is never
\* traded by two grids for longer than a cancelled one's last tick (StartGrid
\* cancels what it replaces, manager.go).
THEOREM OneLoop == Spec => []OneLoopPerSymbol
<1>1. LoopInv => OneLoopPerSymbol
  BY DEF LoopInv
<1> QED BY <1>1, LoopInvInit, LoopInvNext, PTL DEF Spec

\* Every state of the manager has the declared type.
THEOREM ManagerTypes == Spec => []TypeOK
<1>1. LoopInv => TypeOK
  BY DEF LoopInv
<1> QED BY <1>1, LoopInvInit, LoopInvNext, PTL DEF Spec

-----------------------------------------------------------------------------
(* One request at a time; crashes, failing ticks and pauses at any time    *)

\* The market of the running grid of s.
Spot(s) == tr[table[s]].spot

\* The grid of s runs as it did before.
AsBefore(s) ==
  /\ Running(s)' <=> Running(s)
  /\ Running(s) => Spot(s)' = Spot(s)

-----------------------------------------------------------------------------
(* What the steps do to the running grids                                  *)

\* Different symbols have different Traders.
LEMMA TableInjective ==
  ASSUME LoopInv, NEW s \in Symbols, NEW z \in Symbols, s # z, table[s] # NoTrader
  PROVE  table[s] # table[z]
BY DEF LoopInv, TableSound

LEMMA SameRuns ==
  ASSUME LoopInv, NEW s \in Symbols, table'[s] = table[s],
         table[s] # NoTrader => /\ tr'[table[s]].running = tr[table[s]].running
                                /\ tr'[table[s]].spot = tr[table[s]].spot
  PROVE  AsBefore(s)
<1>1. CASE table[s] = NoTrader
  BY <1>1, Zenon DEF AsBefore, Running
<1>2. CASE table[s] # NoTrader
  BY <1>2, Zenon DEF AsBefore, Running, Spot
<1> QED BY <1>1, <1>2

\* A goroutine's own step leaves its Trader running by the same rules.
LEMMA OneTrader ==
  ASSUME LoopInv, NEW t \in Traders, NEW r,
         r.running = tr[t].running, r.spot = tr[t].spot,
         tr' = [tr EXCEPT ![t] = r], UNCHANGED table
  PROVE  \A s \in Symbols : AsBefore(s)
<1>1. \A u \in Traders : tr'[u].running = tr[u].running /\ tr'[u].spot = tr[u].spot
  <2>1. \A u \in Traders : u # t => tr'[u] = tr[u]
    BY DEF LoopInv, TypeOK
  <2>2. tr'[t] = r
    BY DEF LoopInv, TypeOK
  <2> QED
    BY <2>1, <2>2, Zenon
<1>2. \A s \in Symbols : table[s] # NoTrader => table[s] \in Traders
  BY DEF LoopInv, TypeOK
<1> QED
  BY <1>1, <1>2, SameRuns, Zenon

LEMMA TickRuns ==
  ASSUME LoopInv, NEW t \in Traders,
         TickBegin(t) \/ Settle(t) \/ OnTickOk(t) \/ OnTickErr(t) \/ Record(t)
  PROVE  /\ UNCHANGED <<table, ex, saved, active, creds, op, restoring>>
         /\ \A s \in Symbols : AsBefore(s)
<1>0. tr[t] \in Trader
  BY DEF LoopInv, TypeOK
<1>1. UNCHANGED <<table, ex, saved, active, creds, op, restoring>>
  BY DEF TickBegin, Settle, OnTickOk, OnTickErr, Record, db
<1>2. CASE TickBegin(t)
  <2> DEFINE r == [tr[t] EXCEPT !.loop = "tick"]
  <2>1. r.running = tr[t].running /\ r.spot = tr[t].spot
    BY <1>0 DEF Trader
  <2>2. tr' = [tr EXCEPT ![t] = r]
    BY <1>2 DEF TickBegin
  <2> HIDE DEF r
  <2> QED BY <1>1, <2>1, <2>2, OneTrader
<1>3. CASE Settle(t)
  <2> DEFINE r == [tr[t] EXCEPT !.realized = @ + 1]
  <2>1. r.running = tr[t].running /\ r.spot = tr[t].spot
    BY <1>0 DEF Trader
  <2>2. tr' = [tr EXCEPT ![t] = r]
    BY <1>3 DEF Settle
  <2> HIDE DEF r
  <2> QED BY <1>1, <2>1, <2>2, OneTrader
<1>4. CASE OnTickOk(t)
  <2> DEFINE r == [tr[t] EXCEPT !.loop = "record", !.errs = 0, !.transient = 0]
  <2>1. r.running = tr[t].running /\ r.spot = tr[t].spot
    BY <1>0 DEF Trader
  <2>2. tr' = [tr EXCEPT ![t] = r]
    BY <1>4 DEF OnTickOk
  <2> HIDE DEF r
  <2> QED BY <1>1, <2>1, <2>2, OneTrader
<1>5. CASE OnTickErr(t)
  <2> DEFINE failed == [tr[t] EXCEPT !.errs = Counted(@, MaxErrs)]
             slow   == [tr[t] EXCEPT !.transient = Counted(@, MaxTransient)]
  <2>1. PICK q \in {failed, slow} : tr' = [tr EXCEPT ![t] = [q EXCEPT !.loop = AfterError(q)]]
    <3>1. PICK kind \in Failing \cap {"tick", "transient"} :
            LET q == IF kind = "tick" THEN failed ELSE slow
            IN  tr' = [tr EXCEPT ![t] = [q EXCEPT !.loop = AfterError(q)]]
      BY <1>5, Zenon DEF OnTickErr
    <3> HIDE DEF failed, slow
    <3>2. CASE kind = "tick"
      BY <3>1, <3>2
    <3>3. CASE kind # "tick"
      BY <3>1, <3>3
    <3> QED BY <3>2, <3>3
  <2>2. /\ DOMAIN q = DOMAIN tr[t] /\ q.running = tr[t].running /\ q.spot = tr[t].spot
    <3>1. CASE q = failed
      BY <3>1, <1>0 DEF Trader
    <3>2. CASE q = slow
      BY <3>2, <1>0 DEF Trader
    <3> QED BY <3>1, <3>2
  <2> DEFINE r == [q EXCEPT !.loop = AfterError(q)]
  <2>3. r.running = q.running /\ r.spot = q.spot
    BY <1>0, <2>2 DEF Trader
  <2> HIDE DEF r, failed, slow
  <2>4. tr' = [tr EXCEPT ![t] = r]
    BY <2>1 DEF r
  <2>5. r.running = tr[t].running /\ r.spot = tr[t].spot
    BY <2>2, <2>3
  <2> QED BY <1>1, <2>4, <2>5, OneTrader
<1>6. CASE Record(t)
  <2> DEFINE r == [tr[t] EXCEPT !.loop = "idle"]
  <2>1. r.running = tr[t].running /\ r.spot = tr[t].spot
    BY <1>0 DEF Trader
  <2>2. tr' = [tr EXCEPT ![t] = r]
    BY <1>6 DEF Record
  <2> HIDE DEF r
  <2> QED BY <1>1, <2>1, <2>2, OneTrader
<1> QED BY <1>1, <1>2, <1>3, <1>4, <1>5, <1>6

\* Recycling stops no grid of the table.
LEMMA SweepRuns ==
  ASSUME LoopInv, NEW s \in Symbols, NEW ts \in [Traders -> Trader],
         tr' = Swept(ts, table'), table'[s] = table[s],
         table[s] # NoTrader => /\ ts[table[s]].running = tr[table[s]].running
                                /\ ts[table[s]].spot = tr[table[s]].spot
  PROVE  AsBefore(s)
<1>1. CASE table[s] = NoTrader
  BY <1>1, SameRuns
<1>2. CASE table[s] # NoTrader
  <2>1. table[s] \in Traders
    BY <1>2 DEF LoopInv, TypeOK
  <2>2. tr'[table[s]] = ts[table[s]]
    BY <2>1, SweptFacts, Zenon
  <2> QED
    BY <1>2, <2>2, SameRuns, Zenon
<1> QED BY <1>1, <1>2

LEMMA ExitRuns ==
  ASSUME LoopInv, NEW t \in Traders, LoopExit(t)
  PROVE  /\ UNCHANGED <<table, ex, saved, active, creds, op, restoring>>
         /\ \A s \in Symbols : AsBefore(s)
<1> DEFINE r  == [tr[t] EXCEPT !.loop = "gone"]
           ts == [tr EXCEPT ![t] = r]
<1>1. /\ tr' = Swept(ts, table') /\ tr \in [Traders -> Trader]
      /\ UNCHANGED <<table, ex, saved, active, creds, op, restoring>>
  BY DEF LoopExit, db, LoopInv, TypeOK
<1>2. r \in Trader /\ r.running = tr[t].running /\ r.spot = tr[t].spot
  BY <1>1 DEF Trader
<1> HIDE DEF r
<1>3. ts \in [Traders -> Trader]
  BY <1>1, <1>2
<1>4. \A u \in Traders : ts[u].running = tr[u].running /\ ts[u].spot = tr[u].spot
  <2>1. \A u \in Traders : u # t => ts[u] = tr[u]
    BY <1>1
  <2>2. ts[t] = r
    BY <1>1
  <2> QED BY <1>2, <2>1, <2>2, Zenon
<1> HIDE DEF ts
<1>5. \A s \in Symbols : table[s] # NoTrader => table[s] \in Traders
  BY DEF LoopInv, TypeOK
<1> QED
  BY <1>1, <1>3, <1>4, <1>5, SweepRuns, Zenon

\* StopGrid stops the grid of its symbol and no other.
LEMMA StoppedRuns ==
  ASSUME LoopInv, NEW s \in Symbols, UNCHANGED table,
         \A u \in Traders : /\ tr'[u].running = Stopped(s)[u].running
                            /\ tr'[u].spot = Stopped(s)[u].spot
  PROVE  ~Running(s)' /\ \A z \in Symbols : z # s => AsBefore(z)
<1>0. \A z \in Symbols : table[z] # NoTrader => table[z] \in Traders
  BY DEF LoopInv, TypeOK
<1>1. ~Running(s)'
  <2>1. CASE table[s] = NoTrader
    BY <2>1, Zenon DEF Running
  <2>2. CASE table[s] # NoTrader /\ Running(s)
    <3>1. Stopped(s)[table[s]] = [tr[table[s]] EXCEPT !.cancelled = TRUE, !.running = FALSE]
      BY <1>0, <2>2 DEF Stopped
    <3>2. tr[table[s]] \in Trader
      BY <1>0, <2>2 DEF LoopInv, TypeOK
    <3>3. ~Stopped(s)[table[s]].running
      BY <3>1, <3>2 DEF Trader
    <3> QED
      BY <1>0, <2>2, <3>3, Zenon DEF Running
  <2>3. CASE table[s] # NoTrader /\ ~Running(s)
    <3>1. Stopped(s)[table[s]] = tr[table[s]]
      BY <1>0, <2>3 DEF Stopped
    <3> QED
      BY <1>0, <2>3, <3>1, Zenon DEF Running
  <2> QED BY <2>1, <2>2, <2>3
<1>2. ASSUME NEW z \in Symbols, z # s PROVE AsBefore(z)
  <2>1. CASE table[z] = NoTrader
    BY <2>1, SameRuns
  <2>2. CASE table[z] # NoTrader
    <3>1. table[z] # table[s] /\ table[z] \in Traders
      BY <1>0, <1>2, <2>2, TableInjective
    <3>2. Stopped(s)[table[z]] = tr[table[z]]
      BY <3>1 DEF Stopped
    <3> QED
      BY <3>1, <3>2, SameRuns, Zenon
  <2> QED BY <2>1, <2>2
<1> QED BY <1>1, <1>2

LEMMA PauseRuns ==
  ASSUME LoopInv, NEW t \in Traders, NEW s \in Symbols, s = tr[t].sym, AutoPause(t)
  PROVE  /\ UNCHANGED <<table, ex, active, creds, op, restoring>>
         /\ saved' = Disabled(s)
         /\ ~Running(s)' /\ \A z \in Symbols : z # s => AsBefore(z)
<1>1. /\ tr' = [Stopped(s) EXCEPT ![t].loop = "idle"]
      /\ saved' = Disabled(s)
      /\ UNCHANGED <<table, ex, active, creds, op, restoring>>
  BY DEF AutoPause
<1> DEFINE st == Stopped(s)
           r  == [st[t] EXCEPT !.loop = "idle"]
<1>2. st \in [Traders -> Trader]
  BY StoppedFacts DEF LoopInv
<1>3. tr' = [st EXCEPT ![t] = r]
  BY <1>1
<1> HIDE DEF st
<1>4. r.running = st[t].running /\ r.spot = st[t].spot
  BY <1>2 DEF Trader
<1> HIDE DEF r
<1>5. \A u \in Traders : tr'[u].running = st[u].running /\ tr'[u].spot = st[u].spot
  <2>1. \A u \in Traders : u # t => tr'[u] = st[u]
    BY <1>2, <1>3
  <2>2. tr'[t] = r
    BY <1>2, <1>3
  <2> QED BY <1>4, <2>1, <2>2, Zenon
<1>6. ~Running(s)' /\ \A z \in Symbols : z # s => AsBefore(z)
  BY <1>1, <1>5, StoppedRuns DEF st
<1> QED BY <1>1, <1>6, Zenon

\* StartGrid starts the grid of its symbol by the rules it is given and
\* leaves the others alone.
LEMMA StartRuns ==
  ASSUME LoopInv, NEW s \in Symbols, NEW spot \in BOOLEAN, StartLocked(s, spot)
  PROVE  /\ Running(s)' /\ (Spot(s)' <=> spot)
         /\ saved' = [saved EXCEPT ![s] = "enabled"]
         /\ \A z \in Symbols : z # s => AsBefore(z)
<1>0. PICK t \in Traders :
      /\ IsFirst(t, s)
      /\ table' = [table EXCEPT ![s] = t]
      /\ tr' = Swept([CancelOld(s, spot) EXCEPT ![t] =
                 [Unused EXCEPT !.sym = s, !.running = TRUE, !.loop = "idle",
                                !.spot = spot, !.realized = Seed(s)]], table')
      /\ saved' = [saved EXCEPT ![s] = "enabled"]
  BY DEF StartLocked
<1> DEFINE new == [Unused EXCEPT !.sym = s, !.running = TRUE, !.loop = "idle",
                                 !.spot = spot, !.realized = Seed(s)]
           ts  == [CancelOld(s, spot) EXCEPT ![t] = new]
<1>1. new \in Trader /\ new.running /\ (new.spot <=> spot)
  <2>1. Seed(s) \in Nat
    BY DEF Seed, LoopInv, TypeOK, NoRow
  <2>2. new.running /\ new.spot = spot
    BY DEF Unused
  <2> QED BY <2>1, <2>2, UnusedType DEF Trader, Alive
<1>2. tr' = Swept(ts, table')
  BY <1>0
<1> HIDE DEF new
<1>3. CancelOld(s, spot) \in [Traders -> Trader]
  BY CancelOldFacts DEF LoopInv
<1>4. /\ ts \in [Traders -> Trader] /\ ts[t] = new
      /\ \A u \in Traders : u # t => ts[u] = CancelOld(s, spot)[u]
  BY <1>1, <1>3
<1> HIDE DEF ts
<1>5. /\ table'[s] = t /\ t # NoTrader
      /\ \A z \in Symbols : z # s => table'[z] = table[z]
  BY <1>0, GridManagerAssumption DEF LoopInv, TypeOK, NoTrader
<1>6. tr'[t] = new
  BY <1>2, <1>4, <1>5, SweptFacts, Zenon
<1>7. Running(s)' /\ (Spot(s)' <=> spot)
  BY <1>1, <1>5, <1>6, Zenon DEF Running, Spot
<1>8. tr[t].loop = "free" \/ (tr[t].loop = "gone" /\ table[s] = t)
  BY <1>0 DEF IsFirst, Fresh
<1>9. ASSUME NEW z \in Symbols, z # s PROVE AsBefore(z)
  <2>1. CASE table[z] = NoTrader
    BY <1>5, <1>9, <2>1, SameRuns
  <2>2. CASE table[z] # NoTrader
    <3>1. table[z] # table[s] /\ table[z] \in Traders
      BY <1>9, <2>2, TableInjective DEF LoopInv, TypeOK
    <3>2. table[z] # t
      BY <1>8, <2>2, <3>1 DEF LoopInv, TableSound
    <3>3. CancelOld(s, spot)[table[z]] = tr[table[z]]
      BY <3>1 DEF CancelOld
    <3>4. ts[table[z]] = tr[table[z]]
      BY <1>4, <3>1, <3>2, <3>3
    <3> QED
      BY <1>2, <1>4, <1>5, <1>9, <3>4, SweepRuns, Zenon
  <2> QED BY <2>1, <2>2
<1> QED BY <1>0, <1>7, <1>9

\* DeleteGrid removes a grid that does not run.
LEMMA DeleteRuns ==
  ASSUME LoopInv, NEW a, NEW s \in Symbols, DeleteCheck(a, s)
  PROVE  \A z \in Symbols : AsBefore(z)
<1>1. /\ ~Running(s) /\ table' = [table EXCEPT ![s] = NoTrader] /\ tr' = Swept(tr, table')
      /\ tr \in [Traders -> Trader]
  BY DEF DeleteCheck, LoopInv, TypeOK
<1>2. table'[s] = NoTrader /\ \A z \in Symbols : z # s => table'[z] = table[z]
  BY <1>1 DEF LoopInv, TypeOK
<1>3. AsBefore(s)
  BY <1>1, <1>2, Zenon DEF AsBefore, Running
<1>4. \A z \in Symbols : z # s => AsBefore(z)
  BY <1>1, <1>2, SweepRuns, Zenon
<1> QED BY <1>3, <1>4, Zenon

-----------------------------------------------------------------------------
(* One request at a time                                                   *)

OneAdmin == \A a, b \in Admins : a = b

\* What a request has found out still holds at its next step: no grid is
\* being restored, the market is the one StartGrid looked at, the grid to
\* delete does not run, and every grid that runs is on SetExchange's list.
OpReady ==
  \A a \in Admins :
    /\ op[a].kind # "idle" => restoring = {}
    /\ op[a].kind = "start" => (op[a].spot <=> IsSpotExchange)
    /\ op[a].kind = "delete" => ~Running(op[a].sym)
    /\ op[a].kind = "switch" => \A s \in Symbols : Running(s) => s \in op[a].todo

SerialInv == RunningIsSaved /\ MarketMatches /\ OpReady

\* A request that begins, or goes on: the only one there is.
LEMMA BeginOp ==
  ASSUME LoopInv, OneAdmin, NEW a \in Admins, NEW kind, NEW s, NEW e, NEW spot,
         Begin(a, kind, s, e, spot)
  PROVE  \A b \in Admins : /\ op'[b].kind = kind /\ op'[b].sym = s
                           /\ op'[b].ex = e /\ op'[b].spot = spot
<1> DEFINE r == [NoOp EXCEPT !.kind = kind, !.sym = s, !.ex = e, !.spot = spot]
<1>1. r.kind = kind /\ r.sym = s /\ r.ex = e /\ r.spot = spot
  BY DEF NoOp
<1>2. op' = [op EXCEPT ![a] = r]
  BY DEF Begin
<1> HIDE DEF r
<1>3. op'[a] = r
  BY <1>2 DEF LoopInv, TypeOK
<1> QED
  BY <1>1, <1>3, Zenon DEF OneAdmin

LEMMA DoneOp ==
  ASSUME LoopInv, OneAdmin, NEW a \in Admins, Done(a)
  PROVE  \A b \in Admins : op'[b].kind = "idle"
<1>1. op'[a] = NoOp
  BY DEF Done, LoopInv, TypeOK
<1> QED
  BY <1>1 DEF OneAdmin, NoOp

\* Steps that stop and start nothing.
LEMMA QuietKeeps ==
  ASSUME LoopInv, SerialInv, \A s \in Symbols : AsBefore(s),
         UNCHANGED <<ex, saved, restoring>>
  PROVE  /\ RunningIsSaved' /\ MarketMatches'
         /\ UNCHANGED op => OpReady'
<1>1. \A s \in Symbols : (Running(s)' <=> Running(s)) /\ (Running(s) => Spot(s)' = Spot(s))
  BY Zenon DEF AsBefore
<1>2. RunningIsSaved'
  BY <1>1 DEF SerialInv, RunningIsSaved
<1>3. MarketMatches'
  <2> SUFFICES ASSUME NEW s \in Symbols, Running(s)'
               PROVE  Spot(s)' <=> IsSpotExchange'
    BY Zenon DEF MarketMatches, Spot
  <2>1. Running(s) /\ Spot(s)' = Spot(s)
    BY <1>1, Zenon
  <2>2. Spot(s) <=> IsSpotExchange
    BY <2>1, Zenon DEF SerialInv, MarketMatches, Spot
  <2>3. IsSpotExchange' <=> IsSpotExchange
    BY DEF IsSpotExchange
  <2> QED BY <2>1, <2>2, <2>3, Zenon
<1>4. ASSUME UNCHANGED op PROVE OpReady'
  <2> SUFFICES ASSUME NEW a \in Admins
               PROVE  /\ op[a].kind # "idle" => restoring = {}
                      /\ op[a].kind = "start" => (op[a].spot <=> IsSpotExchange)
                      /\ op[a].kind = "delete" => ~Running(op[a].sym)'
                      /\ op[a].kind = "switch" =>
                           \A s \in Symbols : Running(s)' => s \in op[a].todo
    BY <1>4 DEF OpReady, IsSpotExchange
  <2>1. ASSUME op[a].kind = "delete" PROVE ~Running(op[a].sym)'
    <3>1. ~Running(op[a].sym) /\ op[a].sym \in Symbols
      BY <2>1 DEF SerialInv, OpReady, LoopInv, OpNamed
    <3>2. PICK z \in Symbols : z = op[a].sym
      BY <3>1
    <3>3. ~Running(z)'
      BY <1>1, <3>1, <3>2
    <3>4. z = op'[a].sym
      BY <1>4, <3>2
    <3> QED
      BY <3>3, <3>4 DEF Running
  <2> QED
    BY <1>1, <2>1, Zenon DEF SerialInv, OpReady
<1> QED BY <1>2, <1>3, <1>4

\* StopGrid, from whichever caller.
LEMMA StopsSaved ==
  ASSUME LoopInv, SerialInv, NEW s \in Symbols, UNCHANGED <<ex, restoring>>,
         saved' = Disabled(s), ~Running(s)', \A z \in Symbols : z # s => AsBefore(z)
  PROVE  /\ RunningIsSaved' /\ MarketMatches'
         /\ \A z \in Symbols : Running(z)' => z # s /\ Running(z)
<1>1. \A z \in Symbols : z # s => /\ Running(z)' <=> Running(z)
                                  /\ Running(z) => Spot(z)' = Spot(z)
  BY Zenon DEF AsBefore
<1>2. /\ saved'[s] # "enabled"
      /\ \A z \in Symbols : z # s => saved'[z] = saved[z]
  BY DEF Disabled, LoopInv, TypeOK
<1>3. RunningIsSaved'
  BY <1>1, <1>2, Zenon DEF SerialInv, RunningIsSaved
<1>4. MarketMatches'
  <2> SUFFICES ASSUME NEW z \in Symbols, Running(z)' PROVE Spot(z)' <=> IsSpotExchange'
    BY Zenon DEF MarketMatches, Spot
  <2>1. Running(z) /\ Spot(z)' = Spot(z)
    BY <1>1, Zenon
  <2>2. Spot(z) <=> IsSpotExchange
    BY <2>1, Zenon DEF SerialInv, MarketMatches, Spot
  <2>3. IsSpotExchange' <=> IsSpotExchange
    BY DEF IsSpotExchange
  <2> QED BY <2>1, <2>2, <2>3, Zenon
<1>5. \A z \in Symbols : Running(z)' => z # s /\ Running(z)
  BY <1>1, Zenon
<1> QED BY <1>3, <1>4, <1>5, Zenon

\* StartGrid by the rules of the exchange in use.
LEMMA StartsSaved ==
  ASSUME LoopInv, SerialInv, NEW s \in Symbols, NEW spot \in BOOLEAN,
         StartLocked(s, spot), spot <=> IsSpotExchange, UNCHANGED ex,
         restoring \ {s} \subseteq restoring'
  PROVE  RunningIsSaved' /\ MarketMatches'
<1>0. /\ Running(s)' /\ (Spot(s)' <=> spot)
      /\ saved' = [saved EXCEPT ![s] = "enabled"]
      /\ \A z \in Symbols : z # s => AsBefore(z)
  BY StartRuns, Zenon
<1>1. \A z \in Symbols : z # s => /\ Running(z)' <=> Running(z)
                                  /\ Running(z) => Spot(z)' = Spot(z)
  BY <1>0, Zenon DEF AsBefore
<1>2. /\ saved'[s] = "enabled"
      /\ \A z \in Symbols : z # s => saved'[z] = saved[z]
  BY <1>0 DEF LoopInv, TypeOK
<1>a. \A z \in Symbols : Running(z)' => z = s \/ Running(z)
  BY <1>1, Zenon
<1>3. RunningIsSaved'
  <2> SUFFICES ASSUME NEW z \in Symbols \ restoring' PROVE Running(z)' <=> saved'[z] = "enabled"
    BY Zenon DEF RunningIsSaved
  <2>1. CASE z = s
    BY <1>0, <1>2, <2>1, Zenon
  <2>2. CASE z # s
    <3>1. z \in Symbols \ restoring
      BY <2>2
    <3>2. Running(z) <=> saved[z] = "enabled"
      BY <3>1, Zenon DEF SerialInv, RunningIsSaved
    <3> QED BY <1>1, <1>2, <2>2, <3>2, Zenon
  <2> QED BY <2>1, <2>2
<1>4. MarketMatches'
  <2> SUFFICES ASSUME NEW z \in Symbols, Running(z)' PROVE Spot(z)' <=> IsSpotExchange'
    BY Zenon DEF MarketMatches, Spot
  <2>1. IsSpotExchange' <=> IsSpotExchange
    BY DEF IsSpotExchange
  <2>2. CASE z = s
    BY <1>0, <2>1, <2>2, Zenon
  <2>3. CASE z # s
    <3>1. Running(z) /\ Spot(z)' = Spot(z)
      BY <1>1, <2>3, Zenon
    <3>2. Spot(z) <=> IsSpotExchange
      BY <3>1, Zenon DEF SerialInv, MarketMatches, Spot
    <3> QED BY <2>1, <3>1, <3>2, Zenon
  <2> QED BY <2>2, <2>3
<1> QED BY <1>3, <1>4

\* With no request in progress there is nothing to be ready for.
LEMMA IdleReady == (\A b \in Admins : op'[b].kind = "idle") => OpReady'
BY DEF OpReady

\* A request with no more to remember than that nothing is being restored.
LEMMA PlainReady ==
  (/\ \A b \in Admins : op'[b].kind \notin {"start", "delete", "switch"}
   /\ restoring' = {}) => OpReady'
BY DEF OpReady

LEMMA LoopsSerial ==
  ASSUME LoopInv, SerialInv, Loops
  PROVE  SerialInv'
<1> PICK t \in Traders : \/ LoopExit(t) \/ TickBegin(t) \/ Settle(t) \/ OnTickOk(t)
                         \/ OnTickErr(t) \/ AutoPause(t) \/ Record(t)
  BY DEF Loops
<1>1. CASE TickBegin(t) \/ Settle(t) \/ OnTickOk(t) \/ OnTickErr(t) \/ Record(t)
  <2>1. /\ UNCHANGED <<ex, saved, op, restoring>>
        /\ \A s \in Symbols : AsBefore(s)
    BY <1>1, TickRuns
  <2> QED
    BY <2>1, QuietKeeps DEF SerialInv
<1>2. CASE LoopExit(t)
  <2>1. /\ UNCHANGED <<ex, saved, op, restoring>>
        /\ \A s \in Symbols : AsBefore(s)
    BY <1>2, ExitRuns
  <2> QED
    BY <2>1, QuietKeeps DEF SerialInv
<1>3. CASE AutoPause(t)
  <2>0. tr[t].sym \in Symbols
    BY <1>3 DEF AutoPause, LoopInv, LoopNamed, Alive
  <2>1. PICK s \in Symbols : s = tr[t].sym
    BY <2>0
  <2>2. /\ UNCHANGED <<ex, op, restoring>> /\ saved' = Disabled(s)
        /\ ~Running(s)' /\ \A z \in Symbols : z # s => AsBefore(z)
    BY <1>3, <2>1, PauseRuns
  <2>3. /\ RunningIsSaved' /\ MarketMatches'
        /\ \A z \in Symbols : Running(z)' => Running(z)
    BY <2>2, StopsSaved
  <2>4. OpReady'
    <3> SUFFICES ASSUME NEW a \in Admins
                 PROVE  /\ op[a].kind # "idle" => restoring = {}
                        /\ op[a].kind = "start" => (op[a].spot <=> IsSpotExchange)
                        /\ op[a].kind = "delete" => ~Running(op[a].sym)'
                        /\ op[a].kind = "switch" =>
                             \A z \in Symbols : Running(z)' => z \in op[a].todo
      BY <2>2 DEF OpReady, IsSpotExchange
    <3>1. ASSUME op[a].kind = "delete" PROVE ~Running(op[a].sym)'
      <4>1. ~Running(op[a].sym) /\ op[a].sym \in Symbols
        BY <3>1 DEF SerialInv, OpReady, LoopInv, OpNamed
      <4>2. PICK z \in Symbols : z = op[a].sym
        BY <4>1
      <4>3. ~Running(z)'
        BY <2>3, <4>1, <4>2
      <4>4. z = op'[a].sym
        BY <2>2, <4>2
      <4> QED
        BY <4>3, <4>4 DEF Running
    <3> QED
      BY <2>3, <3>1, Zenon DEF SerialInv, OpReady
  <2> QED BY <2>3, <2>4 DEF SerialInv
<1> QED BY <1>1, <1>2, <1>3

LEMMA UntouchedRuns ==
  ASSUME LoopInv, UNCHANGED <<table, tr>>
  PROVE  \A s \in Symbols : AsBefore(s)
BY SameRuns

LEMMA StartStopSerial ==
  ASSUME LoopInv, SerialInv, OneAdmin, NEW a \in Admins, NEW s \in Symbols,
         StartRead(a, s) \/ (StartGrid(a) /\ s = op[a].sym) \/ StopGrid(a, s)
  PROVE  SerialInv'
<1>1. CASE StartRead(a, s)
  <2>1. Idle(a) /\ UNCHANGED <<table, tr, ex, saved, restoring>>
        /\ Begin(a, "start", s, NoExchange, IsSpotExchange)
    BY <1>1 DEF StartRead, db
  <2>2. RunningIsSaved' /\ MarketMatches'
    BY <2>1, UntouchedRuns, QuietKeeps
  <2>3. \A b \in Admins : op'[b].kind = "start" /\ op'[b].spot = IsSpotExchange
    BY <2>1, BeginOp
  <2>4. OpReady'
    BY <2>1, <2>3 DEF OpReady, Idle, Serving, IsSpotExchange
  <2> QED BY <2>2, <2>4 DEF SerialInv
<1>2. CASE StartGrid(a) /\ s = op[a].sym
  <2>1. /\ op[a].kind = "start" /\ StartLocked(s, op[a].spot) /\ Done(a)
        /\ UNCHANGED <<ex, restoring>>
    BY <1>2 DEF StartGrid
  <2>2. (op[a].spot <=> IsSpotExchange) /\ op[a].spot \in BOOLEAN
    <3>1. op[a] \in Request
      BY DEF LoopInv, TypeOK
    <3>2. op[a].spot \in BOOLEAN
      BY <3>1 DEF Request
    <3> QED
      BY <2>1, <3>2, Zenon DEF SerialInv, OpReady
  <2>3. PICK spot \in BOOLEAN : spot = op[a].spot
    BY <2>2, Zenon
  <2>4. StartLocked(s, spot) /\ (spot <=> IsSpotExchange)
    BY <2>1, <2>2, <2>3, Zenon
  <2>5. RunningIsSaved' /\ MarketMatches'
    BY <2>1, <2>4, StartsSaved
  <2> QED
    BY <2>1, <2>5, DoneOp, IdleReady DEF SerialInv
<1>3. CASE StopGrid(a, s)
  <2>1. /\ Idle(a) /\ tr' = Stopped(s) /\ saved' = Disabled(s)
        /\ UNCHANGED <<table, ex, op, restoring>>
    BY <1>3 DEF StopGrid
  <2>2. ~Running(s)' /\ \A z \in Symbols : z # s => AsBefore(z)
    BY <2>1, StoppedRuns
  <2>3. RunningIsSaved' /\ MarketMatches'
    BY <2>1, <2>2, StopsSaved
  <2>4. \A b \in Admins : op'[b].kind = "idle"
    BY <2>1 DEF Idle, OneAdmin
  <2> QED
    BY <2>3, <2>4, IdleReady DEF SerialInv
<1> QED BY <1>1, <1>2, <1>3

LEMMA DeleteSerial ==
  ASSUME LoopInv, SerialInv, OneAdmin, NEW a \in Admins, NEW s \in Symbols,
         DeleteCheck(a, s) \/ (DeleteGridData(a) /\ s = op[a].sym)
  PROVE  SerialInv'
<1>1. CASE DeleteCheck(a, s)
  <2>1. /\ Idle(a) /\ ~Running(s) /\ UNCHANGED <<ex, saved, restoring>>
        /\ Begin(a, "delete", s, NoExchange, FALSE)
    BY <1>1 DEF DeleteCheck, db
  <2>2. \A z \in Symbols : AsBefore(z)
    BY <1>1, DeleteRuns
  <2>3. RunningIsSaved' /\ MarketMatches'
    BY <2>1, <2>2, QuietKeeps
  <2>4. ~Running(s)'
    BY <2>1, <2>2, Zenon DEF AsBefore
  <2>5. \A b \in Admins : op'[b].kind = "delete" /\ op'[b].sym = s
    <3>1. PICK no \in BOOLEAN : Begin(a, "delete", s, NoExchange, no)
      BY <2>1, Zenon
    <3> QED BY <3>1, BeginOp
  <2>6. OpReady'
    BY <2>1, <2>4, <2>5 DEF OpReady, Idle, Serving, Running
  <2> QED BY <2>3, <2>6 DEF SerialInv
<1>2. CASE DeleteGridData(a) /\ s = op[a].sym
  <2>1. /\ op[a].kind = "delete" /\ saved' = [saved EXCEPT ![s] = "none"] /\ Done(a)
        /\ UNCHANGED <<table, tr, ex, restoring>>
    BY <1>2 DEF DeleteGridData
  <2>2. ~Running(s)
    BY <1>2, <2>1 DEF SerialInv, OpReady
  <2>3. \A z \in Symbols : Running(z)' <=> Running(z)
    BY <2>1, UntouchedRuns, Zenon DEF AsBefore
  <2>4. saved'[s] = "none" /\ \A z \in Symbols : z # s => saved'[z] = saved[z]
    BY <2>1 DEF LoopInv, TypeOK
  <2>5. RunningIsSaved'
    BY <2>1, <2>2, <2>3, <2>4 DEF SerialInv, RunningIsSaved
  <2>6. MarketMatches'
    BY <2>1 DEF SerialInv, MarketMatches, Running, IsSpotExchange
  <2> QED
    BY <2>1, <2>5, <2>6, DoneOp, IdleReady DEF SerialInv
<1> QED BY <1>1, <1>2

LEMMA ExchangeSerial ==
  ASSUME LoopInv, SerialInv, OneAdmin, NEW a \in Admins, NEW e \in Exchanges,
         \/ BindExchange(a, e) \/ BindTest(a) \/ ActivateExchange(a, e)
         \/ UnbindExchange(a, e) \/ UnbindCheck(a) \/ SetActiveExchange(a)
  PROVE  SerialInv'
<1>1. UNCHANGED <<table, tr, ex, saved, restoring>>
  BY DEF BindExchange, BindTest, ActivateExchange, UnbindExchange, UnbindCheck,
         SetActiveExchange, db
<1>2. RunningIsSaved' /\ MarketMatches'
  BY <1>1, UntouchedRuns, QuietKeeps
<1>3. restoring = {}
  BY DEF BindExchange, BindTest, ActivateExchange, UnbindExchange, UnbindCheck,
         SetActiveExchange, Idle, Serving, SerialInv, OpReady
<1>4. \/ \E kind \in {"test", "list", "unbound"} : \E x, y : Begin(a, kind, NoSymbol, x, y)
      \/ Done(a)
  BY Zenon DEF BindExchange, BindTest, ActivateExchange, UnbindExchange, UnbindCheck,
         SetActiveExchange
<1>5. \A b \in Admins : op'[b].kind \in {"test", "list", "unbound", "idle"}
  <2>1. CASE Done(a)
    BY <2>1, DoneOp
  <2>2. ASSUME NEW kind \in {"test", "list", "unbound"}, NEW x, NEW y,
               Begin(a, kind, NoSymbol, x, y)
        PROVE  \A b \in Admins : op'[b].kind \in {"test", "list", "unbound"}
    <3>1. \A b \in Admins : op'[b].kind = kind
      BY <2>2, BeginOp
    <3> QED BY <3>1
  <2> QED BY <1>4, <2>1, <2>2
<1> QED
  BY <1>1, <1>2, <1>3, <1>5, PlainReady DEF SerialInv

LEMMA ListSerial ==
  ASSUME LoopInv, SerialInv, OneAdmin, NEW a \in Admins, SwitchList(a)
  PROVE  SerialInv'
<1>0. op[a] \in Request /\ op \in [Admins -> Request]
  BY DEF LoopInv, TypeOK
<1> DEFINE r == [op[a] EXCEPT !.kind = "switch", !.todo = Listed]
<1>1. /\ op[a].kind = "list" /\ UNCHANGED <<table, tr, ex, saved, restoring>>
      /\ op' = [op EXCEPT ![a] = r]
  BY DEF SwitchList, db
<1>2. r.kind = "switch" /\ r.todo = Listed
  BY <1>0 DEF Request
<1> HIDE DEF r
<1>3. RunningIsSaved' /\ MarketMatches'
  BY <1>1, UntouchedRuns, QuietKeeps
<1>4. \A b \in Admins : op'[b].kind = "switch" /\ op'[b].todo = Listed
  BY <1>0, <1>1, <1>2 DEF OneAdmin
<1>5. \A z \in Symbols : Running(z)' => z \in Listed
  BY <1>1 DEF Running, Listed
<1>6. restoring' = {}
  BY <1>1 DEF SerialInv, OpReady
<1>7. OpReady'
  BY <1>4, <1>5, <1>6 DEF OpReady
<1> QED BY <1>3, <1>7 DEF SerialInv

LEMMA SwitchSerial ==
  ASSUME LoopInv, SerialInv, OneAdmin, NEW a \in Admins, NEW s \in Symbols, SwitchStop(a, s)
  PROVE  SerialInv'
<1>0. op[a] \in Request /\ op \in [Admins -> Request]
  BY DEF LoopInv, TypeOK
<1> DEFINE r == [op[a] EXCEPT !.todo = op[a].todo \ {s}]
<1>1. /\ op[a].kind = "switch" /\ tr' = Stopped(s) /\ saved' = Disabled(s)
      /\ UNCHANGED <<table, ex, restoring>> /\ op' = [op EXCEPT ![a] = r]
  BY DEF SwitchStop
<1>2. r.kind = op[a].kind /\ r.todo = op[a].todo \ {s}
  BY <1>0 DEF Request
<1> HIDE DEF r
<1>3. ~Running(s)' /\ \A z \in Symbols : z # s => AsBefore(z)
  BY <1>1, StoppedRuns
<1>4. /\ RunningIsSaved' /\ MarketMatches'
      /\ \A z \in Symbols : Running(z)' => z # s /\ Running(z)
  BY <1>1, <1>3, StopsSaved
<1>5. \A b \in Admins : op'[b].kind = "switch" /\ op'[b].todo = op[a].todo \ {s}
  BY <1>0, <1>1, <1>2 DEF OneAdmin
<1>6. restoring' = {}
  BY <1>1 DEF SerialInv, OpReady
<1>7. \A z \in Symbols : Running(z) => z \in op[a].todo
  BY <1>1, Zenon DEF SerialInv, OpReady
<1>8. OpReady'
  BY <1>4, <1>5, <1>6, <1>7 DEF OpReady
<1> QED BY <1>4, <1>8 DEF SerialInv

\* SetExchange switches when every grid it listed is stopped, and it listed
\* every grid that ran.
LEMMA NoneRuns ==
  ASSUME SerialInv, NEW a \in Admins, SwitchSet(a)
  PROVE  \A s \in Symbols : ~Running(s)
BY DEF SwitchSet, SerialInv, OpReady

LEMMA SetSerial ==
  ASSUME LoopInv, SerialInv, OneAdmin, NEW a \in Admins, SwitchSet(a)
  PROVE  SerialInv' /\ \A s \in Symbols : ~Running(s)'
<1> DEFINE r == [op[a] EXCEPT !.kind = "record"]
<1>1. /\ op[a].kind = "switch" /\ UNCHANGED <<table, tr, saved, restoring>>
      /\ op' = [op EXCEPT ![a] = r]
  BY DEF SwitchSet, db
<1>2. op[a] \in Request /\ op \in [Admins -> Request]
  BY DEF LoopInv, TypeOK
<1>3. r.kind = "record"
  BY <1>2 DEF Request
<1> HIDE DEF r
<1>4. \A s \in Symbols : Running(s)' <=> Running(s)
  BY <1>1, UntouchedRuns, Zenon DEF AsBefore
<1>5. \A s \in Symbols : ~Running(s)'
  BY <1>4, NoneRuns, Zenon
<1>6. RunningIsSaved'
  BY <1>1, <1>4 DEF SerialInv, RunningIsSaved
<1>7. MarketMatches'
  BY <1>5 DEF MarketMatches
<1>8. \A b \in Admins : op'[b].kind = "record"
  BY <1>1, <1>2, <1>3 DEF OneAdmin
<1>9. restoring' = {}
  BY <1>1 DEF SerialInv, OpReady
<1> QED
  BY <1>5, <1>6, <1>7, <1>8, <1>9, PlainReady DEF SerialInv

LEMMA RestartSerial ==
  ASSUME LoopInv, Restart
  PROVE  SerialInv' /\ \A s \in Symbols : ~Running(s)'
<1>1. /\ table' = [s \in Symbols |-> NoTrader] /\ op' = [a \in Admins |-> NoOp]
      /\ restoring' = {s \in Symbols : saved[s] = "enabled"} /\ saved' = saved
  BY DEF Restart, db
<1>2. \A s \in Symbols : ~Running(s)'
  BY <1>1 DEF Running
<1>3. RunningIsSaved'
  BY <1>1, <1>2 DEF RunningIsSaved
<1>4. MarketMatches'
  BY <1>2 DEF MarketMatches
<1>5. \A b \in Admins : op'[b].kind = "idle"
  BY <1>1 DEF NoOp
<1> QED BY <1>2, <1>3, <1>4, <1>5, IdleReady DEF SerialInv

LEMMA RestoreSerial ==
  ASSUME LoopInv, SerialInv, NEW s \in Symbols, RestoreGrid(s)
  PROVE  SerialInv'
<1>1. /\ s \in restoring /\ restoring' = restoring \ {s}
      /\ StartLocked(s, IsSpotExchange) /\ UNCHANGED <<ex, op>>
  BY DEF RestoreGrid
<1>2. PICK spot \in BOOLEAN : spot = IsSpotExchange
  <2>1. IsSpotExchange \in BOOLEAN
    BY DEF IsSpotExchange
  <2> QED BY <2>1, Zenon
<1>3. StartLocked(s, spot) /\ (spot <=> IsSpotExchange)
  BY <1>1, <1>2, Zenon
<1>4. RunningIsSaved' /\ MarketMatches'
  BY <1>1, <1>3, StartsSaved
<1>5. \A b \in Admins : op'[b].kind = "idle"
  BY <1>1 DEF SerialInv, OpReady
<1> QED BY <1>4, <1>5, IdleReady DEF SerialInv

LEMMA SerialInit == Init => SerialInv
<1> SUFFICES ASSUME Init PROVE SerialInv
  OBVIOUS
<1>1. table = [s \in Symbols |-> NoTrader] /\ op = [a \in Admins |-> NoOp]
      /\ saved = [s \in Symbols |-> "none"]
  BY DEF Init
<1>2. \A s \in Symbols : ~Running(s) /\ saved[s] # "enabled"
  BY <1>1 DEF Running
<1>3. \A a \in Admins : op[a].kind = "idle"
  BY <1>1 DEF NoOp
<1> QED
  BY <1>2, <1>3 DEF SerialInv, RunningIsSaved, MarketMatches, OpReady

LEMMA SerialNext ==
  ASSUME OneAdmin
  PROVE  LoopInv /\ SerialInv /\ [Next]_vars
           => SerialInv' /\ (ex' # ex => \A s \in Symbols : ~Running(s)')
<1> SUFFICES ASSUME LoopInv, SerialInv, [Next]_vars
             PROVE  SerialInv' /\ (ex' # ex => \A s \in Symbols : ~Running(s)')
  OBVIOUS
<1>1. CASE Requests
  <2> PICK a \in Admins :
        \/ \E s \in Symbols : \/ StartRead(a, s) \/ StopGrid(a, s) \/ DeleteCheck(a, s)
                              \/ SwitchStop(a, s)
        \/ \E e \in Exchanges : BindExchange(a, e) \/ ActivateExchange(a, e)
                                \/ UnbindExchange(a, e)
        \/ StartGrid(a) \/ DeleteGridData(a) \/ BindTest(a) \/ UnbindCheck(a)
        \/ SwitchList(a) \/ SwitchSet(a) \/ SetActiveExchange(a)
    BY <1>1 DEF Requests
  <2>1. ASSUME NEW s \in Symbols, StartRead(a, s) \/ StopGrid(a, s) PROVE SerialInv' /\ ex' = ex
    BY <2>1, StartStopSerial DEF StartRead, StopGrid
  <2>2. ASSUME NEW s \in Symbols, DeleteCheck(a, s) PROVE SerialInv' /\ ex' = ex
    BY <2>2, DeleteSerial DEF DeleteCheck
  <2>3. ASSUME NEW s \in Symbols, SwitchStop(a, s) PROVE SerialInv' /\ ex' = ex
    BY <2>3, SwitchSerial DEF SwitchStop
  <2>4. ASSUME NEW e \in Exchanges,
               BindExchange(a, e) \/ ActivateExchange(a, e) \/ UnbindExchange(a, e)
        PROVE  SerialInv' /\ ex' = ex
    BY <2>4, ExchangeSerial DEF BindExchange, ActivateExchange, UnbindExchange
  <2>5. CASE BindTest(a) \/ UnbindCheck(a) \/ SetActiveExchange(a)
    <3>1. ex' = ex
      BY <2>5 DEF BindTest, UnbindCheck, SetActiveExchange
    <3> QED
      BY <2>5, <3>1, ExchangeSerial, GridManagerAssumption
  <2>6. CASE StartGrid(a) \/ DeleteGridData(a)
    <3>1. ex' = ex
      BY <2>6 DEF StartGrid, DeleteGridData
    <3>2. PICK s \in Symbols : s = op[a].sym
      BY <2>6 DEF StartGrid, DeleteGridData, LoopInv, OpNamed
    <3> QED
      BY <2>6, <3>1, <3>2, StartStopSerial, DeleteSerial
  <2>7. CASE SwitchList(a)
    BY <2>7, ListSerial DEF SwitchList
  <2>8. CASE SwitchSet(a)
    BY <2>8, SetSerial
  <2> QED BY <2>1, <2>2, <2>3, <2>4, <2>5, <2>6, <2>7, <2>8
<1>2. CASE Loops
  <2>1. ex' = ex
    BY <1>2 DEF Loops, LoopExit, TickBegin, Settle, OnTickOk, OnTickErr, AutoPause, Record
  <2> QED
    BY <1>2, <2>1, LoopsSerial
<1>3. CASE Main
  <2>1. CASE Restart
    BY <2>1, RestartSerial
  <2>2. ASSUME NEW s \in Symbols, RestoreGrid(s) PROVE SerialInv' /\ ex' = ex
    BY <2>2, RestoreSerial DEF RestoreGrid
  <2> QED BY <1>3, <2>1, <2>2 DEF Main
<1>4. CASE UNCHANGED vars
  <2>1. UNCHANGED <<table, tr, ex, saved, restoring, op>>
    BY <1>4 DEF vars
  <2> QED
    BY <2>1, UntouchedRuns, QuietKeeps DEF SerialInv
<1> QED BY <1>1, <1>2, <1>3, <1>4 DEF Next

\* With one request at a time, a restart resumes exactly the grids that run:
\* what StartGrid, StopGrid, SetExchange and the automatic pause write to the
\* database is what the table says, whenever the process dies.
THEOREM RunningSaved ==
  ASSUME OneAdmin
  PROVE  Spec => []RunningIsSaved
<1>1. LoopInv /\ SerialInv /\ [Next]_vars => SerialInv'
  BY SerialNext
<1>2. SerialInv => RunningIsSaved
  BY DEF SerialInv
<1> QED BY <1>1, <1>2, LoopInvInit, LoopInvNext, SerialInit, PTL DEF Spec

\* With one request at a time, a grid never runs by the rules of another
\* market than the one of the exchange in use.
THEOREM MarketsMatch ==
  ASSUME OneAdmin
  PROVE  Spec => []MarketMatches
<1>1. LoopInv /\ SerialInv /\ [Next]_vars => SerialInv'
  BY SerialNext
<1>2. SerialInv => MarketMatches
  BY DEF SerialInv
<1> QED BY <1>1, <1>2, LoopInvInit, LoopInvNext, SerialInit, PTL DEF Spec

\* With one request at a time, no grid runs on when SetExchange switches the
\* exchange, or when a restart finds another one.
THEOREM SwitchStops ==
  ASSUME OneAdmin
  PROVE  Spec => SwitchStopsAll
<1> DEFINE Stops == ex' # ex => \A s \in Symbols : ~Running(s)'
<1>1. LoopInv /\ SerialInv /\ [Next]_vars => SerialInv' /\ Stops
  BY SerialNext
<1> HIDE DEF Stops
<1>2. LoopInv /\ SerialInv /\ [Next]_vars => [Stops]_vars
  BY <1>1
<1>3. Spec => [][Stops]_vars
  BY <1>1, <1>2, LoopInvInit, LoopInvNext, SerialInit, PTL DEF Spec
<1> QED BY <1>3 DEF Stops, SwitchStopsAll

-----------------------------------------------------------------------------
(* The exchange in use and the one recorded                                *)

\* Each stage of a request knows enough of the credential and the record for
\* the stages after it to leave them in agreement.
Connected ==
  /\ Paper \notin creds
  /\ \A a \in Admins :
       /\ op[a].kind = "test" => op[a].ex \in creds
       /\ op[a].kind \in {"list", "switch"} => op[a].ex \in creds \cup {Paper}
       /\ op[a].kind = "record" => ex = op[a].ex /\ ex \in creds \cup {Paper}
       /\ op[a].kind = "unbound" =>
            ex = Paper \/ (active = ex /\ ex \in creds \cup {op[a].ex})
  /\ (\A a \in Admins : op[a].kind \in {"idle", "start", "delete", "test"})
       => ex = Paper \/ (active = ex /\ ex \in creds)

LEMMA ConnectedNext ==
  ASSUME OneAdmin
  PROVE  LoopInv /\ Connected /\ [Next]_vars => Connected'
<1> SUFFICES ASSUME LoopInv, Connected, [Next]_vars PROVE Connected'
  OBVIOUS
<1>0. op \in [Admins -> Request]
  BY DEF LoopInv, TypeOK
<1>1. ASSUME NEW a \in Admins, NEW s \in Symbols, StartRead(a, s) \/ DeleteCheck(a, s)
      PROVE  Connected'
  <2>1. op[a].kind = "idle" /\ UNCHANGED <<ex, active, creds>>
    BY <1>1 DEF StartRead, DeleteCheck, Idle, db
  <2>2. \E kind \in {"start", "delete"}, x \in BOOLEAN : Begin(a, kind, s, NoExchange, x)
    <3>1. IsSpotExchange \in BOOLEAN
      BY DEF IsSpotExchange
    <3> QED BY <1>1, <3>1, Zenon DEF StartRead, DeleteCheck
  <2>3. \A b \in Admins : op'[b].kind \in {"start", "delete"}
    BY <2>2, BeginOp
  <2>4. \A b \in Admins : op[b].kind = "idle"
    BY <2>1 DEF OneAdmin
  <2> QED BY <2>1, <2>3, <2>4 DEF Connected
<1>2. ASSUME NEW a \in Admins, StartGrid(a) \/ DeleteGridData(a) PROVE Connected'
  <2>1. /\ op[a].kind \in {"start", "delete"} /\ UNCHANGED <<ex, active, creds>>
        /\ Done(a)
    BY <1>2 DEF StartGrid, DeleteGridData
  <2>2. \A b \in Admins : op[b].kind \in {"start", "delete"} /\ op'[b].kind = "idle"
    BY <2>1, DoneOp DEF OneAdmin
  <2> QED BY <2>1, <2>2 DEF Connected
<1>3. ASSUME NEW a \in Admins, NEW e \in Exchanges,
             BindExchange(a, e) \/ ActivateExchange(a, e) \/ UnbindExchange(a, e)
      PROVE  Connected'
  <2>1. \A b \in Admins : op[b].kind = "idle"
    BY <1>3 DEF BindExchange, ActivateExchange, UnbindExchange, Idle, OneAdmin
  <2>2. ex' = ex /\ active' = active
    BY <1>3 DEF BindExchange, ActivateExchange, UnbindExchange, db
  <2>3. CASE BindExchange(a, e)
    <3>1. e # Paper /\ creds' = creds \cup {e}
      BY <2>3 DEF BindExchange
    <3>2. PICK no \in BOOLEAN : Begin(a, "test", NoSymbol, e, no)
      BY <2>3, Zenon DEF BindExchange
    <3>3. \A b \in Admins : op'[b].kind = "test" /\ op'[b].ex = e
      BY <3>2, BeginOp
    <3> QED BY <2>1, <2>2, <3>1, <3>3 DEF Connected
  <2>4. CASE ActivateExchange(a, e)
    <3>1. e \in creds /\ creds' = creds
      BY <2>4 DEF ActivateExchange, db
    <3>2. PICK no \in BOOLEAN : Begin(a, "list", NoSymbol, e, no)
      BY <2>4, Zenon DEF ActivateExchange
    <3>3. \A b \in Admins : op'[b].kind = "list" /\ op'[b].ex = e
      BY <3>2, BeginOp
    <3> QED BY <2>1, <2>2, <3>1, <3>3 DEF Connected
  <2>5. CASE UnbindExchange(a, e)
    <3>1. creds' = creds \ {e}
      BY <2>5 DEF UnbindExchange
    <3>2. PICK no \in BOOLEAN : Begin(a, "unbound", NoSymbol, e, no)
      BY <2>5, Zenon DEF UnbindExchange
    <3>3. \A b \in Admins : op'[b].kind = "unbound" /\ op'[b].ex = e
      BY <3>2, BeginOp
    <3> QED BY <2>1, <2>2, <3>1, <3>3 DEF Connected
  <2> QED BY <1>3, <2>3, <2>4, <2>5
<1>4. ASSUME NEW a \in Admins, BindTest(a) PROVE Connected'
  <2>1. op[a].kind = "test" /\ UNCHANGED <<ex, active, creds>>
    BY <1>4 DEF BindTest, db
  <2>2. \A b \in Admins : op[b].kind = "test"
    BY <2>1 DEF OneAdmin
  <2>3. op[a].ex \in creds /\ (ex = Paper \/ (active = ex /\ ex \in creds))
    BY <2>1, <2>2 DEF Connected
  <2>4. CASE Done(a)
    <3>1. \A b \in Admins : op'[b].kind = "idle"
      BY <2>4, DoneOp
    <3> QED BY <2>1, <2>3, <3>1 DEF Connected
  <2>5. CASE Begin(a, "list", NoSymbol, op[a].ex, FALSE)
    <3>1. PICK e \in creds : e = op[a].ex
      BY <2>3
    <3>2. PICK no \in BOOLEAN : Begin(a, "list", NoSymbol, e, no)
      BY <2>5, <3>1, Zenon
    <3>3. \A b \in Admins : op'[b].kind = "list" /\ op'[b].ex = e
      BY <3>2, BeginOp
    <3> QED BY <2>1, <3>1, <3>3 DEF Connected
  <2> QED BY <1>4, <2>4, <2>5, Zenon DEF BindTest
<1>5. ASSUME NEW a \in Admins, UnbindCheck(a) PROVE Connected'
  <2>1. op[a].kind = "unbound" /\ UNCHANGED <<ex, active, creds>>
    BY <1>5 DEF UnbindCheck, db
  <2>2. ex = Paper \/ (active = ex /\ ex \in creds \cup {op[a].ex})
    BY <2>1 DEF Connected
  <2>3. CASE ex = op[a].ex
    <3>1. PICK no \in BOOLEAN : Begin(a, "list", NoSymbol, Paper, no)
      BY <1>5, <2>3, Zenon DEF UnbindCheck
    <3>2. \A b \in Admins : op'[b].kind = "list" /\ op'[b].ex = Paper
      BY <3>1, BeginOp
    <3> QED BY <2>1, <3>2 DEF Connected
  <2>4. CASE ex # op[a].ex
    <3>1. Done(a)
      BY <1>5, <2>4, Zenon DEF UnbindCheck
    <3>2. \A b \in Admins : op'[b].kind = "idle"
      BY <3>1, DoneOp
    <3> QED BY <2>1, <2>2, <2>4, <3>2 DEF Connected
  <2> QED BY <2>3, <2>4
<1>6. ASSUME NEW a \in Admins, SwitchList(a) \/ (\E s \in Symbols : SwitchStop(a, s))
      PROVE  Connected'
  <2>1. op[a].kind \in {"list", "switch"} /\ UNCHANGED <<ex, active, creds>>
    BY <1>6 DEF SwitchList, SwitchStop, db
  <2>2. op'[a].kind = "switch" /\ op'[a].ex = op[a].ex
    <3>1. op[a] \in Request
      BY <1>0
    <3>2. CASE SwitchList(a)
      <4> DEFINE r == [op[a] EXCEPT !.kind = "switch", !.todo = Listed]
      <4>1. r.kind = "switch" /\ r.ex = op[a].ex
        BY <3>1 DEF Request
      <4>2. op' = [op EXCEPT ![a] = r]
        BY <3>2 DEF SwitchList
      <4> HIDE DEF r
      <4> QED BY <1>0, <4>1, <4>2
    <3>3. ASSUME NEW s \in Symbols, SwitchStop(a, s)
          PROVE  op'[a].kind = "switch" /\ op'[a].ex = op[a].ex
      <4> DEFINE r == [op[a] EXCEPT !.todo = op[a].todo \ {s}]
      <4>1. r.kind = "switch" /\ r.ex = op[a].ex
        BY <3>1, <3>3 DEF Request, SwitchStop
      <4>2. op' = [op EXCEPT ![a] = r]
        BY <3>3 DEF SwitchStop
      <4> HIDE DEF r
      <4> QED BY <1>0, <4>1, <4>2
    <3> QED BY <1>6, <3>2, <3>3
  <2>3. \A b \in Admins : b = a
    BY DEF OneAdmin
  <2> QED BY <2>1, <2>2, <2>3 DEF Connected
<1>7. ASSUME NEW a \in Admins, SwitchSet(a) PROVE Connected'
  <2> DEFINE r == [op[a] EXCEPT !.kind = "record"]
  <2>1. /\ op[a].kind = "switch" /\ ex' = op[a].ex /\ UNCHANGED <<active, creds>>
        /\ op' = [op EXCEPT ![a] = r]
    BY <1>7 DEF SwitchSet, db
  <2>2. r.kind = "record" /\ r.ex = op[a].ex
    BY <1>0 DEF Request
  <2> HIDE DEF r
  <2>3. op'[a] = r
    BY <1>0, <2>1
  <2>4. \A b \in Admins : b = a
    BY DEF OneAdmin
  <2> QED BY <2>1, <2>2, <2>3, <2>4 DEF Connected
<1>8. ASSUME NEW a \in Admins, SetActiveExchange(a) PROVE Connected'
  <2>1. /\ op[a].kind = "record" /\ active' = op[a].ex /\ Done(a)
        /\ UNCHANGED <<ex, creds>>
    BY <1>8 DEF SetActiveExchange, Recorded
  <2>2. \A b \in Admins : op'[b].kind = "idle"
    BY <2>1, DoneOp
  <2> QED BY <2>1, <2>2 DEF Connected
<1>9. CASE Restart
  <2>1. /\ op' = [a \in Admins |-> NoOp] /\ UNCHANGED <<active, creds>>
        /\ ex' = IF active \in creds THEN active ELSE Paper
    BY <1>9 DEF Restart, StartupExchange, db
  <2>2. \A b \in Admins : op'[b].kind = "idle"
    BY <2>1 DEF NoOp
  <2> QED BY <2>1, <2>2 DEF Connected
<1>10. CASE UNCHANGED <<ex, active, creds, op>>
  BY <1>10 DEF Connected
<1>11. ASSUME \/ \E a \in Admins, s \in Symbols : StopGrid(a, s)
              \/ Loops \/ (\E s \in Symbols : RestoreGrid(s)) \/ UNCHANGED vars
       PROVE  UNCHANGED <<ex, active, creds, op>>
  BY <1>11 DEF StopGrid, Loops, LoopExit, TickBegin, Settle, OnTickOk, OnTickErr, AutoPause,
               Record, RestoreGrid, vars, db
<1> QED
  BY <1>1, <1>2, <1>3, <1>4, <1>5, <1>6, <1>7, <1>8, <1>9, <1>10, <1>11
     DEF Next, Requests, Main

\* With one request at a time, a restart between requests would reconnect to
\* the exchange in use, whatever was bound, activated and unbound before and
\* wherever the process died.
THEOREM Reconnects ==
  ASSUME OneAdmin
  PROVE  Spec => []RestartReconnects
<1>1. Init => Connected
  BY DEF Init, Connected, NoOp
<1>2. Connected => RestartReconnects
  BY DEF Connected, RestartReconnects, StartupExchange
<1>3. LoopInv /\ Connected /\ [Next]_vars => Connected'
  BY ConnectedNext
<1> QED BY <1>1, <1>2, <1>3, LoopInvInit, LoopInvNext, PTL DEF Spec

-----------------------------------------------------------------------------
(* Profit: here requests may run side by side                              *)

\* No engine has counted more than its symbol has earned.
Counts(t) == tr[t].sym \in Symbols => tr[t].realized <= earned[tr[t].sym]

CountInv == NoDoubleCount /\ \A t \in Traders : Counts(t)

\* Recycling clears a Trader or leaves what it has counted.
LEMMA SweptCounts ==
  ASSUME NEW ts \in [Traders -> Trader], NEW tab, NEW t \in Traders
  PROVE  \/ Swept(ts, tab)[t].sym = NoSymbol
         \/ /\ Swept(ts, tab)[t].sym = ts[t].sym
            /\ Swept(ts, tab)[t].realized = ts[t].realized
<1> DEFINE r == [ts[t] EXCEPT !.running = FALSE, !.spot = FALSE]
<1>1. Swept(ts, tab)[t] \in {ts[t], Unused, r}
  BY DEF Swept
<1>2. r.sym = ts[t].sym /\ r.realized = ts[t].realized
  BY DEF Trader
<1>3. Unused.sym = NoSymbol
  BY DEF Unused
<1> HIDE DEF r
<1> QED BY <1>1, <1>2, <1>3

\* A Trader whose count and symbol stay, or that is cleared, stays in bounds.
LEMMA CountStays ==
  ASSUME CountInv, UNCHANGED earned, NEW t \in Traders,
         tr'[t].sym = NoSymbol \/ (tr'[t].sym = tr[t].sym /\ tr'[t].realized = tr[t].realized)
  PROVE  Counts(t)'
BY GridManagerAssumption DEF CountInv, Counts, NoSymbol

LEMMA StoppedCounts ==
  ASSUME LoopInv, NEW s, NEW t \in Traders
  PROVE  Stopped(s)[t].sym = tr[t].sym /\ Stopped(s)[t].realized = tr[t].realized
<1> DEFINE r == [tr[t] EXCEPT !.cancelled = TRUE, !.running = FALSE]
<1>1. Stopped(s)[t] = r \/ Stopped(s)[t] = tr[t]
  BY DEF Stopped
<1>2. r.sym = tr[t].sym /\ r.realized = tr[t].realized
  BY DEF LoopInv, TypeOK, Trader
<1> HIDE DEF r
<1> QED BY <1>1, <1>2

\* A new engine starts from the newest row, which is no more than was earned.
LEMMA StartCounts ==
  ASSUME LoopInv, CountInv, NEW s \in Symbols, NEW spot \in BOOLEAN,
         StartLocked(s, spot), UNCHANGED earned
  PROVE  \A t \in Traders : Counts(t)'
<1>0. PICK t \in Traders :
      tr' = Swept([CancelOld(s, spot) EXCEPT ![t] =
                 [Unused EXCEPT !.sym = s, !.running = TRUE, !.loop = "idle",
                                !.spot = spot, !.realized = Seed(s)]], table')
  BY DEF StartLocked
<1> DEFINE new == [Unused EXCEPT !.sym = s, !.running = TRUE, !.loop = "idle",
                                 !.spot = spot, !.realized = Seed(s)]
           ts  == [CancelOld(s, spot) EXCEPT ![t] = new]
<1>1. Seed(s) \in Nat /\ Seed(s) <= earned[s]
  BY DEF Seed, LoopInv, TypeOK, NoRow, CountInv, NoDoubleCount
<1>2. new \in Trader /\ new.sym = s /\ new.realized = Seed(s)
  BY <1>1, UnusedType DEF Trader, Alive, Unused
<1>3. tr' = Swept(ts, table')
  BY <1>0
<1> HIDE DEF new
<1>4. /\ ts \in [Traders -> Trader] /\ ts[t] = new
      /\ \A u \in Traders : u # t => ts[u] = CancelOld(s, spot)[u]
  BY <1>2, CancelOldFacts DEF LoopInv
<1> HIDE DEF ts
<1>5. ASSUME NEW u \in Traders, u # t
      PROVE  ts[u].sym = tr[u].sym /\ ts[u].realized = tr[u].realized
  <2> DEFINE r == [tr[u] EXCEPT !.cancelled = TRUE]
  <2>1. CancelOld(s, spot)[u] = r \/ CancelOld(s, spot)[u] = tr[u]
    BY DEF CancelOld
  <2>2. r.sym = tr[u].sym /\ r.realized = tr[u].realized
    BY DEF LoopInv, TypeOK, Trader
  <2> HIDE DEF r
  <2> QED BY <1>4, <1>5, <2>1, <2>2
<1> TAKE u \in Traders
<1>6. \/ tr'[u].sym = NoSymbol
      \/ tr'[u].sym = ts[u].sym /\ tr'[u].realized = ts[u].realized
  BY <1>3, <1>4, SweptCounts
<1>7. CASE u = t
  BY <1>1, <1>2, <1>4, <1>6, <1>7, GridManagerAssumption DEF Counts, NoSymbol
<1>8. CASE u # t
  BY <1>5, <1>6, <1>8, CountStays
<1> QED BY <1>7, <1>8

LEMMA LoopsCount ==
  ASSUME LoopInv, CountInv, Loops
  PROVE  CountInv'
<1> PICK t \in Traders : \/ LoopExit(t) \/ TickBegin(t) \/ Settle(t) \/ OnTickOk(t)
                         \/ OnTickErr(t) \/ AutoPause(t) \/ Record(t)
  BY DEF Loops
<1>0. tr \in [Traders -> Trader] /\ tr[t] \in Trader
  BY DEF LoopInv, TypeOK
<1>1. CASE LoopExit(t)
  <2> DEFINE r  == [tr[t] EXCEPT !.loop = "gone"]
             ts == [tr EXCEPT ![t] = r]
  <2>1. tr' = Swept(ts, table) /\ UNCHANGED <<pnl, earned>>
    BY <1>1 DEF LoopExit, db
  <2>2. r \in Trader /\ r.sym = tr[t].sym /\ r.realized = tr[t].realized
    BY <1>0 DEF Trader
  <2> HIDE DEF r
  <2>3. /\ ts \in [Traders -> Trader]
        /\ \A u \in Traders : ts[u].sym = tr[u].sym /\ ts[u].realized = tr[u].realized
    BY <1>0, <2>2
  <2> HIDE DEF ts
  <2>4. \A u \in Traders : \/ tr'[u].sym = NoSymbol
                           \/ tr'[u].sym = tr[u].sym /\ tr'[u].realized = tr[u].realized
    BY <2>1, <2>3, SweptCounts
  <2> QED
    BY <2>1, <2>4, CountStays DEF CountInv, NoDoubleCount
<1>2. CASE AutoPause(t)
  <2>0. PICK s \in Symbols : s = tr[t].sym
    BY <1>2 DEF AutoPause, LoopInv, LoopNamed, Alive
  <2> DEFINE st == Stopped(s)
             r  == [st[t] EXCEPT !.loop = "idle"]
  <2>1. tr' = [st EXCEPT ![t] = r] /\ UNCHANGED <<pnl, earned>>
    BY <1>2, <2>0 DEF AutoPause
  <2>2. /\ st \in [Traders -> Trader]
        /\ \A u \in Traders : st[u].sym = tr[u].sym /\ st[u].realized = tr[u].realized
    BY StoppedFacts, StoppedCounts DEF LoopInv
  <2> HIDE DEF st
  <2>3. r.sym = st[t].sym /\ r.realized = st[t].realized
    BY <2>2 DEF Trader
  <2> HIDE DEF r
  <2>4. \A u \in Traders : tr'[u].sym = tr[u].sym /\ tr'[u].realized = tr[u].realized
    BY <2>1, <2>2, <2>3
  <2> QED
    BY <2>1, <2>4, CountStays DEF CountInv, NoDoubleCount
<1>3. CASE Settle(t)
  <2> DEFINE r == [tr[t] EXCEPT !.realized = @ + 1]
  <2>0. PICK s \in Symbols : s = tr[t].sym
    BY <1>3 DEF Settle, LoopInv, LoopNamed, Alive
  <2>1. /\ tr' = [tr EXCEPT ![t] = r] /\ earned' = [earned EXCEPT ![s] = earned[s] + 1]
        /\ pnl' = pnl
    BY <1>3, <2>0 DEF Settle, db
  <2>2. r.sym = s /\ r.realized = tr[t].realized + 1 /\ tr[t].realized \in Nat
    BY <1>0, <2>0 DEF Trader
  <2> HIDE DEF r
  <2>3. /\ earned'[s] = earned[s] + 1 /\ earned \in [Symbols -> Nat]
        /\ \A z \in Symbols : z # s => earned'[z] = earned[z]
    BY <2>1 DEF LoopInv, TypeOK
  <2>4. tr'[t] = r /\ \A u \in Traders : u # t => tr'[u] = tr[u]
    BY <1>0, <2>1
  <2>5. ASSUME NEW u \in Traders PROVE Counts(u)'
    <3>1. \A z \in Symbols : earned[z] <= earned'[z] /\ earned'[z] \in Nat
      BY <2>3
    <3>2. CASE u = t
      BY <2>0, <2>2, <2>3, <2>4, <3>2 DEF CountInv, Counts
    <3>3. CASE u # t
      <4>1. tr'[u] = tr[u] /\ tr[u].realized \in Nat
        BY <1>0, <2>4, <3>3 DEF Trader
      <4> QED BY <2>3, <3>1, <4>1 DEF CountInv, Counts
    <3> QED BY <3>2, <3>3
  <2>6. NoDoubleCount'
    <3>1. \A z \in Symbols : pnl[z] \in Nat \cup {NoRow}
      BY DEF LoopInv, TypeOK
    <3> QED BY <2>1, <2>3, <3>1 DEF CountInv, NoDoubleCount, NoRow
  <2> QED BY <2>5, <2>6 DEF CountInv
<1>4. CASE TickBegin(t) \/ OnTickOk(t) \/ OnTickErr(t) \/ Record(t)
  <2>0. UNCHANGED earned
    BY <1>4 DEF TickBegin, OnTickOk, OnTickErr, Record
  <2>a. ASSUME NEW r, tr' = [tr EXCEPT ![t] = r],
               r.sym = tr[t].sym, r.realized = tr[t].realized
        PROVE  \A u \in Traders : tr'[u].sym = tr[u].sym /\ tr'[u].realized = tr[u].realized
    <3>1. tr'[t] = r /\ \A u \in Traders : u # t => tr'[u] = tr[u]
      BY <1>0, <2>a
    <3> QED BY <2>a, <3>1
  <2>1. \A u \in Traders : tr'[u].sym = tr[u].sym /\ tr'[u].realized = tr[u].realized
    <3>1. CASE TickBegin(t)
      <4> DEFINE r == [tr[t] EXCEPT !.loop = "tick"]
      <4>1. r.sym = tr[t].sym /\ r.realized = tr[t].realized /\ tr' = [tr EXCEPT ![t] = r]
        BY <1>0, <3>1 DEF TickBegin, Trader
      <4> HIDE DEF r
      <4> QED BY <2>a, <4>1
    <3>2. CASE OnTickOk(t)
      <4> DEFINE r == [tr[t] EXCEPT !.loop = "record", !.errs = 0, !.transient = 0]
      <4>1. r.sym = tr[t].sym /\ r.realized = tr[t].realized
        BY <1>0 DEF Trader
      <4>2. tr' = [tr EXCEPT ![t] = r]
        BY <3>2 DEF OnTickOk
      <4> HIDE DEF r
      <4> QED BY <2>a, <4>1, <4>2
    <3>3. CASE Record(t)
      <4> DEFINE r == [tr[t] EXCEPT !.loop = "idle"]
      <4>1. r.sym = tr[t].sym /\ r.realized = tr[t].realized /\ tr' = [tr EXCEPT ![t] = r]
        BY <1>0, <3>3 DEF Record, Trader
      <4> HIDE DEF r
      <4> QED BY <2>a, <4>1
    <3>4. CASE OnTickErr(t)
      <4> DEFINE failed == [tr[t] EXCEPT !.errs = Counted(@, MaxErrs)]
                 slow   == [tr[t] EXCEPT !.transient = Counted(@, MaxTransient)]
      <4>1. PICK q \in {failed, slow} :
              tr' = [tr EXCEPT ![t] = [q EXCEPT !.loop = AfterError(q)]]
        <5>1. PICK kind \in Failing \cap {"tick", "transient"} :
                LET q == IF kind = "tick" THEN failed ELSE slow
                IN  tr' = [tr EXCEPT ![t] = [q EXCEPT !.loop = AfterError(q)]]
          BY <3>4, Zenon DEF OnTickErr
        <5> HIDE DEF failed, slow
        <5>2. CASE kind = "tick"
          BY <5>1, <5>2
        <5>3. CASE kind # "tick"
          BY <5>1, <5>3
        <5> QED BY <5>2, <5>3
      <4>2. /\ DOMAIN q = DOMAIN tr[t] /\ q.sym = tr[t].sym /\ q.realized = tr[t].realized
        <5>1. CASE q = failed
          BY <5>1, <1>0 DEF Trader
        <5>2. CASE q = slow
          BY <5>2, <1>0 DEF Trader
        <5> QED BY <5>1, <5>2
      <4> DEFINE r == [q EXCEPT !.loop = AfterError(q)]
      <4>3. r.sym = q.sym /\ r.realized = q.realized
        BY <1>0, <4>2 DEF Trader
      <4>4. tr' = [tr EXCEPT ![t] = r]
        BY <4>1
      <4> HIDE DEF r, failed, slow
      <4> QED BY <2>a, <4>2, <4>3, <4>4
    <3> QED BY <1>4, <3>1, <3>2, <3>3, <3>4
  <2>2. NoDoubleCount'
    <3>1. CASE UNCHANGED pnl
      BY <2>0, <3>1 DEF CountInv, NoDoubleCount
    <3>2. CASE Record(t) /\ pnl' = [pnl EXCEPT ![tr[t].sym] = tr[t].realized]
      <4>1. tr[t].sym \in Symbols
        BY <3>2 DEF Record, LoopInv, LoopNamed, Alive
      <4> QED BY <2>0, <3>2, <4>1 DEF CountInv, Counts, NoDoubleCount, LoopInv, TypeOK
    <3> QED BY <1>4, <3>1, <3>2 DEF TickBegin, OnTickOk, OnTickErr, Record, db
  <2> QED BY <2>0, <2>1, <2>2, CountStays DEF CountInv
<1> QED BY <1>1, <1>2, <1>3, <1>4

LEMMA CountNext == LoopInv /\ CountInv /\ [Next]_vars => CountInv'
<1> SUFFICES ASSUME LoopInv, CountInv, [Next]_vars PROVE CountInv'
  OBVIOUS
<1>0. tr \in [Traders -> Trader] /\ pnl \in [Symbols -> Nat \cup {NoRow}]
      /\ earned \in [Symbols -> Nat]
  BY DEF LoopInv, TypeOK
<1>1. CASE UNCHANGED <<tr, pnl, earned>>
  BY <1>1, CountStays DEF CountInv, NoDoubleCount
<1>2. ASSUME NEW a \in Admins, NEW s \in Symbols,
             StopGrid(a, s) \/ DeleteCheck(a, s) \/ SwitchStop(a, s)
      PROVE  CountInv'
  <2>1. UNCHANGED <<pnl, earned>> /\ (tr' = Stopped(s) \/ tr' = Swept(tr, table'))
    BY <1>2 DEF StopGrid, DeleteCheck, SwitchStop, db
  <2>2. \A u \in Traders : \/ tr'[u].sym = NoSymbol
                           \/ tr'[u].sym = tr[u].sym /\ tr'[u].realized = tr[u].realized
    BY <1>0, <2>1, StoppedCounts, SweptCounts
  <2> QED BY <2>1, <2>2, CountStays DEF CountInv, NoDoubleCount
<1>3. ASSUME NEW a \in Admins, StartGrid(a) PROVE CountInv'
  <2>1. op[a].sym \in Symbols /\ op[a] \in Request
    BY <1>3 DEF StartGrid, LoopInv, OpNamed, TypeOK
  <2>2. op[a].spot \in BOOLEAN
    BY <2>1 DEF Request
  <2>3. PICK s \in Symbols : s = op[a].sym
    BY <2>1
  <2>4. PICK spot \in BOOLEAN : spot = op[a].spot
    BY <2>2, Zenon
  <2>5. StartLocked(s, spot) /\ UNCHANGED <<pnl, earned>>
    BY <1>3, <2>3, <2>4, Zenon DEF StartGrid
  <2> QED BY <2>5, StartCounts DEF CountInv, NoDoubleCount
<1>4. ASSUME NEW s \in Symbols, RestoreGrid(s) PROVE CountInv'
  <2>1. IsSpotExchange \in BOOLEAN
    BY DEF IsSpotExchange
  <2>2. PICK spot \in BOOLEAN : spot = IsSpotExchange
    BY <2>1, Zenon
  <2>3. StartLocked(s, spot) /\ UNCHANGED <<pnl, earned>>
    BY <1>4, <2>2, Zenon DEF RestoreGrid
  <2> QED BY <2>3, StartCounts DEF CountInv, NoDoubleCount
<1>5. ASSUME NEW a \in Admins, DeleteGridData(a) PROVE CountInv'
  <2>1. op[a].sym \in Symbols /\ pnl' = [pnl EXCEPT ![op[a].sym] = NoRow]
        /\ UNCHANGED <<tr, earned>>
    BY <1>5 DEF DeleteGridData, LoopInv, OpNamed
  <2> QED BY <1>0, <2>1, CountStays DEF CountInv, NoDoubleCount, NoRow
<1>6. CASE Restart
  <2>1. tr' = [t \in Traders |-> Unused] /\ UNCHANGED <<pnl, earned>>
    BY <1>6 DEF Restart, db
  <2>2. \A u \in Traders : tr'[u].sym = NoSymbol
    BY <2>1 DEF Unused
  <2> QED BY <2>1, <2>2, CountStays DEF CountInv, NoDoubleCount
<1>7. ASSUME NEW a \in Admins,
             \/ \E s \in Symbols : StartRead(a, s)
             \/ \E e \in Exchanges : BindExchange(a, e) \/ ActivateExchange(a, e)
                                     \/ UnbindExchange(a, e)
             \/ BindTest(a) \/ UnbindCheck(a) \/ SwitchList(a) \/ SwitchSet(a)
             \/ SetActiveExchange(a)
      PROVE  UNCHANGED <<tr, pnl, earned>>
  BY <1>7 DEF StartRead, BindExchange, ActivateExchange, UnbindExchange, BindTest, UnbindCheck,
              SwitchList, SwitchSet, SetActiveExchange, db
<1>8. UNCHANGED vars => UNCHANGED <<tr, pnl, earned>>
  BY DEF vars
<1> QED
  BY <1>1, <1>2, <1>3, <1>4, <1>5, <1>6, <1>7, <1>8, LoopsCount DEF Next, Requests, Main

\* However grids are restarted, stopped and deleted, by any number of
\* requests at once, and wherever the process dies: the profit on record is
\* never more than was earned.
THEOREM CountedOnce == Spec => []NoDoubleCount
<1>1. Init => CountInv
  <2> SUFFICES ASSUME Init PROVE CountInv
    OBVIOUS
  <2>1. /\ \A s \in Symbols : pnl[s] = NoRow /\ earned[s] = 0
        /\ \A t \in Traders : tr[t].sym = NoSymbol
    BY DEF Init, Unused
  <2> QED BY <2>1, GridManagerAssumption DEF CountInv, NoDoubleCount, Counts, NoRow, NoSymbol
<1>2. CountInv => NoDoubleCount
  BY DEF CountInv
<1> QED BY <1>1, <1>2, LoopInvInit, LoopInvNext, CountNext, PTL DEF Spec
=============================================================================
