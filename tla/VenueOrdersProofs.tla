------------------------- MODULE VenueOrdersProofs -------------------------
(***************************************************************************)
(* A round trip through any exchange account earns money: proof for every  *)
(* number of slots, every tick and lot, every spacing of at least a tick.  *)
(*                                                                         *)
(* The argument: rounding to the tick keeps two prices apart that are at   *)
(* least a tick apart (RoundApart), and leaves multiples of the tick where *)
(* they are (RoundMultiple).  An entry order therefore trades at or better *)
(* than the rounded price of the level, and whichever of the two prices    *)
(* the engine remembers, the rounded exit price is a tick beyond it.       *)
(*                                                                         *)
(* A forced close on a derivatives account is for exactly what is held:    *)
(* whole lots survive the conversion to coins and back.                    *)
(*                                                                         *)
(* And two sums over the slots.  The live closing orders claim no more     *)
(* than the account has (BookedInv), so no account is overdrawn.  Where    *)
(* quantities come back in coins, the shares of the slots in the account,  *)
(* what an entry bought less what its exit sold, add up to no more than    *)
(* the account has (CoinInv), so the exchange takes every exit at the size *)
(* it was bought.                                                          *)
(***************************************************************************)
EXTENDS VenueOrders, SumTheorems

-----------------------------------------------------------------------------
(* Rounding                                                                *)

LEMMA DivFacts ==
  ASSUME NEW a \in Int, NEW d \in Int, d > 0
  PROVE  /\ a \div d \in Int
         /\ d * (a \div d) <= a
         /\ a < d * (a \div d) + d
OBVIOUS

LEMMA TimesGrows ==
  ASSUME NEW p \in Int, NEW q \in Int, NEW t \in Int, t > 0, p <= q
  PROVE  p * t <= q * t
OBVIOUS

LEMMA TimesReflects ==
  ASSUME NEW p \in Int, NEW q \in Int, NEW d \in Int, d > 0, d * p < d * q + d
  PROVE  p <= q
<1>1. SUFFICES ASSUME p >= q + 1 PROVE FALSE
  OBVIOUS
<1>2. (q + 1) * d <= p * d
  BY <1>1, TimesGrows
<1>3. (q + 1) * d = d * q + d /\ p * d = d * p
  OBVIOUS
<1> QED BY <1>2, <1>3

LEMMA RoundInt ==
  ASSUME NEW x \in Int, NEW t \in Int, t > 0
  PROVE  RoundTo(x, t) \in Int
<1>1. (2 * x + t) \div (2 * t) \in Int
  BY DivFacts
<1> QED BY <1>1 DEF RoundTo

LEMMA RoundMultiple ==
  ASSUME NEW k \in Int, NEW t \in Int, t > 0
  PROVE  RoundTo(k * t, t) = k * t
<1> DEFINE a == 2 * (k * t) + t   d == 2 * t   m == a \div d
<1>1. a \in Int /\ d \in Int /\ d > 0
  OBVIOUS
<1>2. m \in Int /\ d * m <= a /\ a < d * m + d
  BY <1>1, DivFacts
<1>3. a = d * k + t /\ d * k \in Int
  OBVIOUS
<1>4. d * m < d * k + d /\ d * k < d * m + d
  BY <1>1, <1>2, <1>3
<1>5. m <= k /\ k <= m
  <2> HIDE DEF m, d, a
  <2> QED BY <1>1, <1>2, <1>4, TimesReflects
<1>6. m = k
  BY <1>2, <1>5
<1> QED BY <1>6 DEF RoundTo

LEMMA RoundApart ==
  ASSUME NEW x \in Int, NEW y \in Int, NEW t \in Int, t > 0, y >= x + t
  PROVE  RoundTo(y, t) >= RoundTo(x, t) + t
<1> DEFINE a == 2 * x + t   b == 2 * y + t   d == 2 * t   m == a \div d   n == b \div d
<1>1. a \in Int /\ b \in Int /\ d \in Int /\ d > 0 /\ b >= a + d
  OBVIOUS
<1>2. m \in Int /\ d * m <= a /\ n \in Int /\ b < d * n + d
  <2> HIDE DEF a, b, d
  <2> QED BY <1>1, DivFacts
<1>3. d * (m + 1) < d * n + d
  <2> HIDE DEF a, b, d, m, n
  <2>1. d * (m + 1) = d * m + d /\ d * n \in Int /\ d * m \in Int
    BY <1>1, <1>2
  <2> QED BY <1>1, <1>2, <2>1
<1>4. m + 1 <= n
  <2> HIDE DEF d, m, n
  <2> QED BY <1>1, <1>2, <1>3, TimesReflects
<1>5. (m + 1) * t <= n * t /\ (m + 1) * t = m * t + t
  <2> HIDE DEF d, m, n
  <2> QED BY <1>2, <1>4, TimesGrows
<1>6. m * t \in Int /\ n * t \in Int
  <2> HIDE DEF d, m, n
  <2> QED BY <1>2
<1> QED BY <1>5, <1>6 DEF RoundTo

-----------------------------------------------------------------------------
(* The inductive invariant                                                 *)

VShape ==
  /\ venue \in Venues
  /\ level \in [Slots -> Level]
  /\ order \in [Slots -> Order]

TickMultiple(px) == \E k \in Int : px = k * venue.tick

\* A price paid for a position of direction "short" is at or better than px.
AtOrBetter(paid, px, short) == IF short THEN paid >= px ELSE paid <= px

\* The entry order of level l was sent at the level's price, rounded, and
\* has traded there or better, on a tick.
EntrySound(l, o) ==
  /\ o.st # "none" /\ o.buy = ~l.short /\ o.px = Price(l.px)
  /\ o.filled >= 0 /\ (o.st = "filled" => o.filled > 0)
  /\ o.filled > 0 => TickMultiple(o.avg) /\ AtOrBetter(o.avg, o.px, l.short)

\* A recorded position was paid for at or better than its rounded cost.
HeldSound(l) == AtOrBetter(l.paid, Price(l.px), l.short)

ExitSound(l, o) == IF l.short THEN o.px < l.paid ELSE o.px > l.paid

VInv ==
  /\ VShape
  /\ \A s \in Slots : /\ level[s].st = "entry" => EntrySound(level[s], order[s])
                      /\ level[s].st \in {"held", "exit"} => HeldSound(level[s])
                      /\ level[s].st = "exit" => ExitSound(level[s], order[s])

LEMMA VenueFacts ==
  ASSUME VShape
  PROVE  /\ venue.tick \in Int /\ venue.tick > 0 /\ venue.tick <= Spacing
         /\ venue.lot \in Int /\ venue.lot > 0
         /\ venue.ctVal \in Int /\ venue.ctVal > 0
         /\ venue.min \in Int /\ venue.hedge \in BOOLEAN
         /\ Spacing \in Int /\ One \in Int
BY VenueOrdersAssumption DEF VShape, Venue

LEMMA PriceInt ==
  ASSUME VShape, NEW px \in Int
  PROVE  Price(px) \in Int
BY VenueFacts, RoundInt DEF Price

LEMMA PriceOnTick ==
  ASSUME VShape, NEW px \in Int
  PROVE  TickMultiple(Price(px))
<1>1. (2 * px + venue.tick) \div (2 * venue.tick) \in Int
  BY VenueFacts, DivFacts
<1> QED BY <1>1 DEF TickMultiple, Price, RoundTo

LEMMA SizeInt ==
  ASSUME VShape, NEW qty \in Int
  PROVE  Size(qty) \in Int
<1> DEFINE step == venue.ctVal * venue.lot
<1>1. step \in Int /\ step > 0
  BY VenueFacts
<1>2. RoundTo(qty, step) \in Int
  <2> HIDE DEF step
  <2> QED BY <1>1, RoundInt
<1>3. RoundTo(qty, step) \div venue.ctVal \in Int
  <2> HIDE DEF step
  <2> QED BY <1>2, VenueFacts, DivFacts
<1> QED BY <1>3, VenueFacts DEF Size

LEMMA ReducingOrder ==
  ASSUME VShape, NEW short \in BOOLEAN, NEW px \in Int, NEW qty \in Int
  PROVE  /\ NewOrder(short, short, TRUE, px, qty) \in Order
         /\ NewOrder(short, short, TRUE, px, qty).px = Price(px)
<1>1. Price(px) \in Int /\ Size(qty) \in Int
  BY PriceInt, SizeInt
<1>2. Leg(short) \in BOOLEAN
  BY DEF Leg
<1> QED BY <1>1, <1>2 DEF NewOrder, Order

LEMMA OpeningOrder ==
  ASSUME VShape, NEW short \in BOOLEAN, NEW px \in Int, NEW qty \in Int
  PROVE  /\ EntryOrder(px, qty, short) \in Order
         /\ EntryOrder(px, qty, short).px = Price(px)
         /\ EntryOrder(px, qty, short).st = "live"
         /\ EntryOrder(px, qty, short).buy = ~short
         /\ EntryOrder(px, qty, short).filled = 0
<1>1. Price(px) \in Int /\ Size(qty) \in Int
  BY PriceInt, SizeInt
<1>2. Leg(short) \in BOOLEAN
  BY DEF Leg
<1> QED BY <1>1, <1>2 DEF NewOrder, Order, EntryOrder

\* The exit order of a soundly recorded position beats the price paid.
LEMMA ExitBeatsPaid ==
  ASSUME VShape, NEW l \in Level, HeldSound(l)
  PROVE  ExitOrder(l) \in Order /\ ExitSound(l, ExitOrder(l))
<1>0. l.px \in Int /\ l.qty \in Int /\ l.paid \in Int /\ l.short \in BOOLEAN
  BY DEF Level
<1> DEFINE target == IF l.short THEN l.px - Spacing ELSE l.px + Spacing
<1>1. target \in Int
  BY <1>0, VenueFacts
<1>2. ExitOrder(l) \in Order /\ ExitOrder(l).px = Price(target)
  <2> DEFINE o == NewOrder(l.short, l.short, TRUE, target, l.qty)
  <2>1. o \in Order /\ o.px = Price(target)
    <3> HIDE DEF target
    <3> QED BY <1>0, <1>1, ReducingOrder, Zenon
  <2>2. ExitOrder(l) = o
    BY DEF ExitOrder
  <2> HIDE DEF o, target
  <2> QED BY <2>1, <2>2
<1>3. Price(l.px) \in Int /\ Price(target) \in Int
  <2> HIDE DEF target
  <2> QED BY <1>0, <1>1, PriceInt
<1>4. CASE l.short
  <2>1. l.px >= target + venue.tick
    BY <1>0, <1>4, VenueFacts
  <2>2. Price(l.px) >= Price(target) + venue.tick
    <3> HIDE DEF target
    <3> QED BY <1>0, <1>1, <2>1, VenueFacts, RoundApart DEF Price
  <2> HIDE DEF target
  <2> QED BY <1>0, <1>2, <1>3, <1>4, <2>2, VenueFacts DEF ExitSound, HeldSound, AtOrBetter
<1>5. CASE ~l.short
  <2>1. target >= l.px + venue.tick
    BY <1>0, <1>5, VenueFacts
  <2>2. Price(target) >= Price(l.px) + venue.tick
    <3> HIDE DEF target
    <3> QED BY <1>0, <1>1, <2>1, VenueFacts, RoundApart DEF Price
  <2> HIDE DEF target
  <2> QED BY <1>0, <1>2, <1>3, <1>5, <2>2, VenueFacts DEF ExitSound, HeldSound, AtOrBetter
<1> QED BY <1>4, <1>5
-----------------------------------------------------------------------------
(* The steps                                                               *)

\* PlaceExit for a soundly recorded position, taken or refused.
LEMMA PlaceExitSound ==
  ASSUME VInv, NEW s \in Slots, NEW l \in Level, l.st = "held", HeldSound(l),
         PlaceExit(s, l), venue' = venue
  PROVE  VInv'
<1>1. ExitOrder(l) \in Order /\ ExitSound(l, ExitOrder(l))
  BY ExitBeatsPaid DEF VInv
<1>2. NoOrder \in Order
  BY DEF NoOrder, Order
<1> DEFINE taken == [l EXCEPT !.st = "exit"]
<1>3. /\ taken \in Level /\ taken.st = "exit" /\ taken.px = l.px
      /\ taken.paid = l.paid /\ taken.short = l.short
  BY DEF Level
<1>4. PICK k \in Level, o \in Order :
        /\ level' = [level EXCEPT ![s] = k] /\ order' = [order EXCEPT ![s] = o]
        /\ k.px = l.px /\ k.paid = l.paid /\ k.short = l.short
        /\ \/ k.st = "exit" /\ o = ExitOrder(l)
           \/ k.st = "held"
  <2>1. CASE level' = [level EXCEPT ![s] = taken] /\ order' = [order EXCEPT ![s] = ExitOrder(l)]
    <3> HIDE DEF taken
    <3> QED BY <1>1, <1>3, <2>1
  <2>2. CASE level' = [level EXCEPT ![s] = l] /\ order' = [order EXCEPT ![s] = NoOrder]
    BY <1>2, <2>2
  <2> QED BY <2>1, <2>2 DEF PlaceExit
<1>5. VShape'
  BY <1>4 DEF VInv, VShape
<1>6. Price(l.px)' = Price(l.px)
  BY DEF Price
<1>7. ASSUME NEW z \in Slots
      PROVE  /\ level'[z].st = "entry" => EntrySound(level[z], order[z])'
             /\ level'[z].st \in {"held", "exit"} => HeldSound(level[z])'
             /\ level'[z].st = "exit" => ExitSound(level[z], order[z])'
  <2>1. CASE z = s
    <3>1. level'[z] = k /\ order'[z] = o
      BY <1>4, <2>1 DEF VInv, VShape
    <3>2. Price(k.px)' = Price(l.px)
      BY <1>4 DEF Price
    <3> QED BY <1>1, <1>4, <3>1, <3>2 DEF HeldSound, ExitSound, AtOrBetter
  <2>2. CASE z # s
    <3>1. level'[z] = level[z] /\ order'[z] = order[z]
      BY <1>4, <2>2 DEF VInv, VShape
    <3> QED BY <3>1 DEF VInv, EntrySound, HeldSound, ExitSound, TickMultiple, Price
  <2> QED BY <2>1, <2>2
<1> QED BY <1>5, <1>7 DEF VInv

LEMMA InitSound == Init => VInv
<1>1. NoLevel \in Level /\ NoOrder \in Order /\ NoLevel.st = "empty"
  BY DEF NoLevel, Level, NoOrder, Order
<1> QED BY <1>1 DEF Init, VInv, VShape

LEMMA PlaceEntrySound ==
  ASSUME VInv, NEW s \in Slots, NEW px \in Levels, NEW qty \in Sizes,
         NEW short \in BOOLEAN, PlaceEntry(s, px, qty, short)
  PROVE  VInv'
<1> DEFINE o == EntryOrder(px, qty, short)
           l == [st |-> "entry", qty |-> qty, px |-> px, short |-> short,
                 got |-> 0, paid |-> 0]
<1>1. px \in Int /\ qty \in Int
  BY VenueOrdersAssumption
<1>2. /\ o \in Order /\ o.px = Price(px) /\ o.st = "live" /\ o.buy = ~short
      /\ o.filled = 0
  BY <1>1, OpeningOrder DEF VInv
<1>3. l \in Level /\ l.st = "entry" /\ l.px = px /\ l.short = short
  BY <1>1 DEF Level
<1>4. level' = [level EXCEPT ![s] = l] /\ order' = [order EXCEPT ![s] = o] /\ venue' = venue
  BY DEF PlaceEntry
<1> HIDE DEF o, l
<1>5. VShape'
  BY <1>2, <1>3, <1>4 DEF VInv, VShape
<1>6. ASSUME NEW z \in Slots
      PROVE  /\ level'[z].st = "entry" => EntrySound(level[z], order[z])'
             /\ level'[z].st \in {"held", "exit"} => HeldSound(level[z])'
             /\ level'[z].st = "exit" => ExitSound(level[z], order[z])'
  <2>1. CASE z = s
    <3>1. level'[z] = l /\ order'[z] = o
      BY <1>4, <2>1 DEF VInv, VShape
    <3>2. Price(px)' = Price(px)
      BY <1>4 DEF Price
    <3> QED BY <1>2, <1>3, <3>1, <3>2 DEF EntrySound, Price
  <2>2. CASE z # s
    <3>1. level'[z] = level[z] /\ order'[z] = order[z]
      BY <1>4, <2>2 DEF VInv, VShape
    <3> QED BY <1>4, <3>1 DEF VInv, EntrySound, HeldSound, ExitSound, TickMultiple, Price
  <2> QED BY <2>1, <2>2
<1> QED BY <1>5, <1>6 DEF VInv

LEMMA TradeSound ==
  ASSUME VInv, NEW s \in Slots, Trade(s)
  PROVE  VInv'
<1> DEFINE o == order[s]
           better == IF o.buy THEN o.px - venue.tick ELSE o.px + venue.tick
           rest == o.sz - o.filled
<1>1. PICK n \in (1 .. rest) \cap {venue.lot, rest}, px \in {o.px, better} :
        /\ o.filled > 0 => px = o.avg
        /\ order' = [order EXCEPT ![s] =
             [o EXCEPT !.filled = @ + n, !.avg = px,
                       !.st = IF n = rest THEN "filled" ELSE "live"]]
  BY DEF Trade
<1>2. level' = level /\ venue' = venue /\ o.st = "live"
  BY DEF Trade
<1>3. o \in Order /\ o.px \in Int /\ o.avg \in Int /\ o.filled \in Int /\ o.sz \in Int
  BY DEF VInv, VShape, Order
<1>4. rest \in Int /\ better \in Int /\ n \in Int /\ n > 0 /\ px \in Int
  BY <1>1, <1>3, VenueFacts DEF VInv
<1> DEFINE t == [o EXCEPT !.filled = @ + n, !.avg = px,
                          !.st = IF n = rest THEN "filled" ELSE "live"]
<1>5. /\ t \in Order /\ t.px = o.px /\ t.buy = o.buy /\ t.filled = o.filled + n
      /\ t.avg = px /\ t.st # "none"
  <2> DEFINE st == IF n = rest THEN "filled" ELSE "live"
  <2>1. st \in {"filled", "live"} /\ t = [o EXCEPT !.filled = @ + n, !.avg = px, !.st = st]
    OBVIOUS
  <2>2. o.filled + n \in Int
    BY <1>3, <1>4
  <2> HIDE DEF st, t, o, rest, better
  <2>3. t \in Order
    BY <1>3, <1>4, <2>1, <2>2 DEF Order
  <2>4. t.px = o.px /\ t.filled = o.filled + n /\ t.avg = px /\ t.st # "none"
    BY <1>3, <2>1 DEF Order
  <2>5. t.buy = o.buy
    BY <1>3, <2>1 DEF Order
  <2> QED BY <2>3, <2>4, <2>5
<1>6. VShape'
  BY <1>1, <1>2, <1>5 DEF VInv, VShape
<1>7. ASSUME NEW z \in Slots
      PROVE  /\ level'[z].st = "entry" => EntrySound(level[z], order[z])'
             /\ level'[z].st \in {"held", "exit"} => HeldSound(level[z])'
             /\ level'[z].st = "exit" => ExitSound(level[z], order[z])'
  <2>1. CASE z = s
    <3>1. order'[z] = t /\ level'[z] = level[s]
      BY <1>1, <1>2, <2>1 DEF VInv, VShape
    <3>2. Price(level[s].px)' = Price(level[s].px) /\ (venue.tick)' = venue.tick
      BY <1>2 DEF Price
    <3>3. CASE level[s].st = "entry"
      <4> DEFINE l == level[s]
      <4>1. EntrySound(l, o) /\ l.px \in Int /\ l.short \in BOOLEAN
        BY <3>3 DEF VInv, VShape, Level
      <4>2. o.px = Price(l.px) /\ o.buy = ~l.short /\ TickMultiple(o.px)
        BY <4>1, PriceOnTick DEF EntrySound, VInv
      <4>3. TickMultiple(better)
        <5>1. PICK k \in Int : o.px = k * venue.tick
          BY <4>2 DEF TickMultiple
        <5>2. /\ venue.tick \in Int /\ (k - 1) * venue.tick = k * venue.tick - venue.tick
              /\ (k + 1) * venue.tick = k * venue.tick + venue.tick
          BY VenueFacts DEF VInv
        <5> QED BY <5>1, <5>2 DEF TickMultiple
      <4>4. AtOrBetter(px, o.px, l.short)
        <5>1. CASE px = o.px
          BY <1>3, <5>1 DEF AtOrBetter
        <5>2. CASE px = better
          <6>1. CASE l.short
            <7>1. px = o.px + venue.tick
              BY <4>2, <5>2, <6>1
            <7> QED BY <1>3, <6>1, <7>1, VenueFacts DEF AtOrBetter, VInv
          <6>2. CASE ~l.short
            <7>1. px = o.px - venue.tick
              BY <4>2, <5>2, <6>2
            <7> QED BY <1>3, <6>2, <7>1, VenueFacts DEF AtOrBetter, VInv
          <6> QED BY <6>1, <6>2
        <5> QED BY <1>1, <5>1, <5>2
      <4>5. TickMultiple(px)
        BY <1>1, <4>2, <4>3
      <4>6. t.filled >= 0 /\ t.filled > 0
        BY <1>3, <1>4, <1>5, <4>1 DEF EntrySound
      <4> HIDE DEF o, t, better, rest
      <4>7. EntrySound(l, t)
        BY <1>5, <4>1, <4>2, <4>4, <4>5, <4>6 DEF EntrySound
      <4>8. EntrySound(level[z], order[z])'
        BY <1>2, <3>1, <3>2, <4>7 DEF EntrySound, TickMultiple
      <4> QED BY <3>1, <3>3, <4>8
    <3>4. CASE level[s].st # "entry"
      <4>1. level[s].st \in {"held", "exit"} => HeldSound(level[s])
        BY DEF VInv
      <4>2. level[s].st = "exit" => ExitSound(level[s], t)
        BY <1>5 DEF VInv, ExitSound
      <4> HIDE DEF t, o, rest, better
      <4>3. HeldSound(level[z])' <=> HeldSound(level[s])
        BY <1>2, <2>1 DEF HeldSound, AtOrBetter, Price
      <4>4. ExitSound(level[z], order[z])' <=> ExitSound(level[s], t)
        BY <3>1 DEF ExitSound
      <4> QED BY <3>1, <3>4, <4>1, <4>2, <4>3, <4>4
    <3> QED BY <3>3, <3>4
  <2>2. CASE z # s
    <3>1. level'[z] = level[z] /\ order'[z] = order[z]
      BY <1>1, <1>2, <2>2 DEF VInv, VShape
    <3> QED BY <1>2, <3>1 DEF VInv, EntrySound, HeldSound, ExitSound, TickMultiple, Price
  <2> QED BY <2>1, <2>2
<1> QED BY <1>6, <1>7 DEF VInv

\* A slot that keeps its level and order, or is emptied, keeps its soundness.
LEMMA KeptSound ==
  ASSUME VInv, VShape', venue' = venue,
         \A s \in Slots : \/ level'[s] = level[s] /\ order'[s] = order[s]
                         \/ level'[s] = NoLevel
  PROVE  VInv'
<1>1. ASSUME NEW z \in Slots
      PROVE  /\ level'[z].st = "entry" => EntrySound(level[z], order[z])'
             /\ level'[z].st \in {"held", "exit"} => HeldSound(level[z])'
             /\ level'[z].st = "exit" => ExitSound(level[z], order[z])'
  <2>1. CASE level'[z] = NoLevel
    BY <2>1 DEF NoLevel
  <2>2. CASE level'[z] = level[z] /\ order'[z] = order[z]
    BY <2>2 DEF VInv, EntrySound, HeldSound, ExitSound, TickMultiple, Price
  <2> QED BY <2>1, <2>2
<1> QED BY <1>1 DEF VInv

LEMMA EmptyShapes == NoLevel \in Level /\ NoOrder \in Order
BY DEF NoLevel, Level, NoOrder, Order

LEMMA EntryFilledSound ==
  ASSUME VInv, NEW s \in Slots, EntryFilled(s)
  PROVE  VInv'
<1> DEFINE o == order[s]   r == Report(o)   l == level[s]
           q == IF r.filled > 0 THEN r.filled ELSE l.qty
           p == IF r.avg > 0 THEN r.avg ELSE l.px
           h == [l EXCEPT !.st = "held", !.qty = q, !.px = p,
                          !.got = o.filled, !.paid = o.avg]
<1>1. /\ l \in Level /\ l.px \in Int /\ l.qty \in Int /\ l.short \in BOOLEAN
      /\ o.filled \in Int /\ o.avg \in Int
  BY DEF VInv, VShape, Level, Order
<1>2. EntrySound(l, o) /\ o.st = "filled"
  BY DEF EntryFilled, VInv
<1>3. /\ TickMultiple(o.avg) /\ AtOrBetter(o.avg, Price(l.px), l.short)
  BY <1>2 DEF EntrySound
<1>4. r.filled \in Int /\ r.avg \in {0, o.avg}
  BY <1>1, VenueFacts DEF Report, NumberReported, VInv
<1>5. q \in Int /\ p \in {o.avg, l.px}
  <2> HIDE DEF r
  <2> QED BY <1>1, <1>4
<1>6. /\ h \in Level /\ h.st = "held" /\ h.px = p /\ h.paid = o.avg
      /\ h.short = l.short
  <2> HIDE DEF o, l, q, p
  <2> QED BY <1>1, <1>5 DEF Level
<1>7. PlaceExit(s, h) /\ venue' = venue
  BY DEF EntryFilled
<1>8. HeldSound(h)
  <2>1. CASE p = l.px
    <3> HIDE DEF o, l, q, p, h
    <3> QED BY <1>3, <1>6, <2>1 DEF HeldSound, AtOrBetter
  <2>2. CASE p = o.avg
    <3>1. PICK k \in Int : o.avg = k * venue.tick
      BY <1>3 DEF TickMultiple
    <3> HIDE DEF o, l, q, p, h
    <3>2. Price(o.avg) = o.avg
      BY <3>1, RoundMultiple, VenueFacts DEF Price, VInv
    <3> QED BY <1>1, <1>6, <2>2, <3>2 DEF HeldSound, AtOrBetter
  <2> HIDE DEF o, l, q, p, h
  <2> QED BY <1>5, <2>1, <2>2
<1> HIDE DEF o, l, q, p, h
<1> QED BY <1>6, <1>7, <1>8, PlaceExitSound

LEMMA EnsureTakeProfitSound ==
  ASSUME VInv, NEW s \in Slots, EnsureTakeProfit(s)
  PROVE  VInv'
<1>1. level[s] \in Level /\ level[s].st = "held" /\ HeldSound(level[s])
  BY DEF EnsureTakeProfit, VInv, VShape
<1> QED BY <1>1, PlaceExitSound DEF EnsureTakeProfit

LEMMA ExitFilledSound ==
  ASSUME VInv, NEW s \in Slots, ExitFilled(s)
  PROVE  VInv'
<1>1. /\ level' = [level EXCEPT ![s] = NoLevel] /\ order' = [order EXCEPT ![s] = NoOrder]
      /\ venue' = venue
  BY DEF ExitFilled
<1> QED BY <1>1, EmptyShapes, KeptSound DEF VInv, VShape

LEMMA ForceCloseSound ==
  ASSUME VInv, NEW short \in BOOLEAN, ForceClose(short)
  PROVE  VInv'
<1>1. PICK ofSide \in SUBSET Slots :
        /\ level' = [s \in Slots |-> IF s \in ofSide THEN NoLevel ELSE level[s]]
        /\ order' = [s \in Slots |-> IF s \in ofSide THEN NoOrder ELSE order[s]]
  BY DEF ForceClose, OfSide
<1>2. venue' = venue
  BY DEF ForceClose
<1> QED BY <1>1, <1>2, EmptyShapes, KeptSound DEF VInv, VShape

\* The invariant holds in every reachable state.
THEOREM RoundTripInvariance == Spec => []VInv
<1>1. VInv /\ [Next]_vars => VInv'
  <2> SUFFICES ASSUME VInv, [Next]_vars PROVE VInv'
    OBVIOUS
  <2>1. CASE UNCHANGED vars
    BY <2>1, KeptSound DEF vars, VInv, VShape
  <2>2. ASSUME NEW s \in Slots, NEW px \in Levels, NEW qty \in Sizes,
               NEW short \in BOOLEAN, PlaceEntry(s, px, qty, short)
        PROVE  VInv'
    BY <2>2, PlaceEntrySound
  <2>3. ASSUME NEW s \in Slots, Trade(s) PROVE VInv'
    BY <2>3, TradeSound
  <2>4. ASSUME NEW s \in Slots, EntryFilled(s) PROVE VInv'
    BY <2>4, EntryFilledSound
  <2>5. ASSUME NEW s \in Slots, EnsureTakeProfit(s) PROVE VInv'
    BY <2>5, EnsureTakeProfitSound
  <2>6. ASSUME NEW s \in Slots, ExitFilled(s) PROVE VInv'
    BY <2>6, ExitFilledSound
  <2>7. ASSUME NEW short \in BOOLEAN, ForceClose(short) PROVE VInv'
    BY <2>7, ForceCloseSound
  <2> QED BY <2>1, <2>2, <2>3, <2>4, <2>5, <2>6, <2>7 DEF Next
<1> QED BY <1>1, InitSound, PTL DEF Spec

\* A take-profit order is priced beyond what was paid for the position it
\* closes, on every exchange account whose tick is at most the grid's
\* spacing: rounding in PlaceOrder, and an average price that is reported or
\* not, never turn a round trip into a loss.
THEOREM RoundTripEarns == Spec => []RoundTripProfits
<1>1. VInv => RoundTripProfits
  BY DEF VInv, ExitSound, RoundTripProfits
<1> QED BY <1>1, RoundTripInvariance, PTL

-----------------------------------------------------------------------------
(* Quantities stay on the lot                                              *)

\* An exchange that has a minimum order size has one of whole lots; with
\* VenueOrdersAssumption, one lot.
WholeMinimum == \A v \in Venues : v.min \in {0, v.lot}

LotMultiple(n) == \E k \in Int : n = k * venue.lot

\* Everything ordered, traded and held is a multiple of the lot.
LotInv ==
  /\ account \in [BOOLEAN -> Int]
  /\ \A leg \in BOOLEAN : LotMultiple(account[leg])
  /\ \A s \in Slots : LotMultiple(order[s].sz) /\ LotMultiple(order[s].filled)

LEMMA DivExact ==
  ASSUME NEW k \in Int, NEW c \in Int, c > 0
  PROVE  (k * c) \div c = k
<1> DEFINE a == k * c   q == a \div c
<1>1. a \in Int /\ a = c * k
  OBVIOUS
<1>2. q \in Int /\ c * q <= a /\ a < c * q + c
  <2> HIDE DEF a
  <2> QED BY <1>1, DivFacts
<1> HIDE DEF q, a
<1>3. c * q \in Int /\ c * k \in Int
  BY <1>2
<1>4. c * q < c * k + c /\ c * k < c * q + c
  <2> DEFINE x == c * q   y == c * k
  <2>1. x \in Int /\ y \in Int /\ x <= y /\ y < x + c
    BY <1>1, <1>2, <1>3
  <2> HIDE DEF x, y
  <2>2. x < y + c /\ y < x + c
    BY <2>1
  <2> QED BY <2>2 DEF x, y
<1>5. q <= k /\ k <= q
  BY <1>2, <1>4, TimesReflects
<1>6. q = k
  BY <1>2, <1>5
<1> QED BY <1>6 DEF a, q

LEMMA LotSums ==
  ASSUME VShape, NEW a, NEW b, LotMultiple(a), LotMultiple(b)
  PROVE  LotMultiple(a + b) /\ LotMultiple(a - b)
<1>1. PICK j \in Int : a = j * venue.lot
  BY DEF LotMultiple
<1>2. PICK k \in Int : b = k * venue.lot
  BY DEF LotMultiple
<1>3. a + b = (j + k) * venue.lot /\ a - b = (j - k) * venue.lot
  BY <1>1, <1>2, VenueFacts
<1>4. j + k \in Int /\ j - k \in Int
  OBVIOUS
<1> QED BY <1>3, <1>4 DEF LotMultiple

\* What a quantity in coins becomes on its way out.
LEMMA SizeWhole ==
  ASSUME WholeMinimum, VShape, NEW qty \in Int
  PROVE  LotMultiple(Size(qty))
<1> DEFINE c == venue.ctVal   t == venue.lot   step == c * t
           m == (2 * qty + step) \div (2 * step)   n == RoundTo(qty, step) \div c
<1>1. c \in Int /\ c > 0 /\ t \in Int /\ t > 0 /\ step \in Int /\ step > 0
  BY VenueFacts
<1>2. m \in Int
  <2> HIDE DEF step
  <2> QED BY <1>1, DivFacts
<1>3. RoundTo(qty, step) = (m * t) * c /\ m * t \in Int
  <2>1. RoundTo(qty, step) = m * step
    BY DEF RoundTo
  <2> HIDE DEF m, c, t
  <2> QED BY <1>1, <1>2, <2>1
<1>4. n = m * t
  <2> HIDE DEF m, c, t, step
  <2> QED BY <1>1, <1>3, DivExact
<1>5. LotMultiple(n)
  <2> HIDE DEF m, n
  <2> QED BY <1>2, <1>4 DEF LotMultiple
<1>6. LotMultiple(venue.min)
  <2>1. venue.min = 0 * venue.lot \/ venue.min = 1 * venue.lot
    BY VenueFacts DEF WholeMinimum, VShape
  <2> QED BY <2>1 DEF LotMultiple
<1>7. Size(qty) = n \/ Size(qty) = venue.min
  BY DEF Size
<1> QED BY <1>5, <1>6, <1>7

\* A whole number of lots, read in coins and sent again, is the same number.
LEMMA SizeReturns ==
  ASSUME WholeMinimum, VShape, NEW a \in Int, LotMultiple(a), a > 0
  PROVE  Size(a * venue.ctVal) = a
<1> DEFINE c == venue.ctVal   t == venue.lot
<1>1. c \in Int /\ c > 0 /\ t \in Int /\ t > 0 /\ c * t \in Int /\ c * t > 0
  BY VenueFacts
<1>2. PICK k \in Int : a = k * t
  BY DEF LotMultiple
<1>3. a * c = k * (c * t)
  <2> HIDE DEF c, t
  <2> QED BY <1>1, <1>2
<1>4. RoundTo(a * c, c * t) = a * c
  <2> HIDE DEF c, t
  <2> QED BY <1>1, <1>2, <1>3, RoundMultiple
<1>5. RoundTo(a * c, c * t) \div c = a
  <2> HIDE DEF c, t
  <2> QED BY <1>1, <1>4, DivExact
<1>6. t <= a
  <2>1. k >= 1
    <3>1. SUFFICES ASSUME k <= 0 PROVE FALSE
      OBVIOUS
    <3>2. k * t <= 0 * t
      <4> HIDE DEF t
      <4> QED BY <1>1, <3>1, TimesGrows
    <3>3. 0 * t = 0
      BY <1>1
    <3> HIDE DEF t
    <3> QED BY <1>2, <3>2, <3>3
  <2>2. 1 * t <= k * t
    <3> HIDE DEF t
    <3> QED BY <1>1, <2>1, TimesGrows
  <2>3. 1 * t = t
    BY <1>1
  <2> HIDE DEF t
  <2> QED BY <1>2, <2>2, <2>3
<1>7. venue.min <= a
  <2>1. venue.min = 0 \/ venue.min = t
    BY DEF WholeMinimum, VShape
  <2> HIDE DEF t
  <2> QED BY <1>6, <2>1
<1> QED BY <1>5, <1>7, VenueFacts DEF Size

\* A step that leaves the account alone and gives each slot its old order, or
\* one on the lot that has not traded.
LEMMA LotFrame ==
  ASSUME LotInv, VShape, UNCHANGED <<venue, account>>,
         \A s \in Slots : \/ order'[s] = order[s]
                          \/ LotMultiple(order'[s].sz) /\ order'[s].filled = 0
  PROVE  LotInv'
<1>1. LotMultiple(0)
  <2>1. 0 = 0 * venue.lot
    BY VenueFacts
  <2> QED BY <2>1 DEF LotMultiple
<1> QED BY <1>1 DEF LotInv, LotMultiple

LEMMA EmptyingWhole ==
  ASSUME LotInv, VShape, UNCHANGED <<venue, account>>, NEW s \in Slots,
         order' = [order EXCEPT ![s] = NoOrder]
  PROVE  LotInv'
<1>1. NoOrder.sz = 0 * venue.lot /\ NoOrder.filled = 0
  BY VenueFacts DEF NoOrder
<1>2. LotMultiple(NoOrder.sz)
  BY <1>1 DEF LotMultiple
<1> QED BY <1>1, <1>2, LotFrame DEF VShape

LEMMA PlacingWhole ==
  ASSUME WholeMinimum, LotInv, VShape, UNCHANGED <<venue, account>>, NEW s \in Slots,
         NEW buy, NEW short, NEW reduceOnly, NEW px \in Int, NEW qty \in Int,
         order' = [order EXCEPT ![s] = NewOrder(buy, short, reduceOnly, px, qty)]
  PROVE  LotInv'
<1> DEFINE o == NewOrder(buy, short, reduceOnly, px, qty)
<1>1. o.sz = Size(qty) /\ o.filled = 0
  BY DEF NewOrder
<1>2. LotMultiple(o.sz)
  BY <1>1, SizeWhole
<1> HIDE DEF o
<1>3. order' = [order EXCEPT ![s] = o]
  BY DEF o
<1> QED BY <1>1, <1>2, <1>3, LotFrame DEF VShape

LEMMA TradeWhole == ASSUME LotInv, VShape, NEW s \in Slots, Trade(s) PROVE LotInv'
<1> DEFINE o == order[s]   rest == o.sz - o.filled
           better == IF o.buy THEN o.px - venue.tick ELSE o.px + venue.tick
<1>1. /\ order \in [Slots -> Order] /\ o \in Order /\ o.leg \in BOOLEAN
      /\ o.sz \in Int /\ o.filled \in Int
  BY DEF VShape, Order
<1>2. LotMultiple(o.sz) /\ LotMultiple(o.filled) /\ LotMultiple(venue.lot)
  <2>1. venue.lot = 1 * venue.lot
    BY VenueFacts
  <2> QED BY <2>1 DEF LotInv, LotMultiple
<1>3. PICK n \in (1 .. rest) \cap {venue.lot, rest}, px \in {o.px, better} :
        /\ order' = [order EXCEPT ![s] =
             [o EXCEPT !.filled = @ + n, !.avg = px,
                       !.st = IF n = rest THEN "filled" ELSE "live"]]
        /\ account' = [account EXCEPT ![o.leg] = IF Adds(o) THEN @ + n ELSE @ - n]
  BY DEF Trade
<1>4. n \in Int /\ LotMultiple(n)
  <2>1. LotMultiple(rest)
    <3> HIDE DEF o
    <3> QED BY <1>2, LotSums
  <2> HIDE DEF rest
  <2> QED BY <1>2, <1>3, <2>1
<1>5. UNCHANGED venue
  BY DEF Trade
<1>6. account' \in [BOOLEAN -> Int] /\ \A leg \in BOOLEAN : LotMultiple(account'[leg])
  <2>1. account[o.leg] \in Int /\ LotMultiple(account[o.leg])
    BY <1>1 DEF LotInv
  <2>2. /\ account[o.leg] + n \in Int /\ LotMultiple(account[o.leg] + n)
        /\ account[o.leg] - n \in Int /\ LotMultiple(account[o.leg] - n)
    <3> HIDE DEF o, rest
    <3> QED BY <1>4, <2>1, LotSums
  <2> HIDE DEF o, rest
  <2> QED BY <1>1, <1>3, <2>2 DEF LotInv
<1>7. \A z \in Slots : LotMultiple(order'[z].sz) /\ LotMultiple(order'[z].filled)
  <2>1. LotMultiple(o.filled + n)
    <3> HIDE DEF o, rest
    <3> QED BY <1>2, <1>4, LotSums
  <2>2. order'[s].sz = o.sz /\ order'[s].filled = o.filled + n
    BY <1>1, <1>3
  <2>3. \A z \in Slots : z # s => order'[z] = order[z]
    BY <1>1, <1>3
  <2> HIDE DEF o, rest
  <2> QED BY <1>2, <2>1, <2>2, <2>3 DEF LotInv
<1> HIDE DEF o, rest
<1> QED BY <1>5, <1>6, <1>7 DEF LotInv, LotMultiple

LEMMA ForceCloseWhole ==
  ASSUME WholeMinimum, LotInv, VShape, ~IsSpot(venue), NEW short \in BOOLEAN, ForceClose(short)
  PROVE  LotInv'
<1> DEFINE leg == Leg(short)
<1>1. leg \in BOOLEAN /\ account[leg] \in Int
  BY DEF Leg, LotInv
<1>2. PICK meta \in BOOLEAN :
        /\ \E n \in Closable(Size(PositionQty(short, meta)), leg) :
             account' = [account EXCEPT ![leg] = @ - n]
        /\ order' = [z \in Slots |-> IF z \in OfSide(short) THEN NoOrder ELSE order[z]]
        /\ UNCHANGED venue
  BY DEF ForceClose
<1> DEFINE qty == PositionQty(short, meta)
<1>3. PICK n \in Closable(Size(qty), leg) : account' = [account EXCEPT ![leg] = @ - n]
  BY <1>2
<1>4. n \in Int /\ LotMultiple(n)
  <2>1. qty \in Int
    <3>1. account[leg] * venue.ctVal \in Int /\ NumberReported(account[leg]) \in Int
      BY <1>1, VenueFacts DEF NumberReported
    <3> QED BY <3>1 DEF PositionQty
  <2>2. n = Size(qty) \/ n = account[leg]
    BY <1>3 DEF Closable
  <2>3. LotMultiple(account[leg])
    BY <1>1 DEF LotInv
  <2> HIDE DEF qty, leg
  <2> QED BY <1>1, <2>1, <2>2, <2>3, SizeInt, SizeWhole
<1>5. account' \in [BOOLEAN -> Int] /\ \A side \in BOOLEAN : LotMultiple(account'[side])
  <2>1. account[leg] - n \in Int /\ LotMultiple(account[leg] - n)
    <3>1. LotMultiple(account[leg])
      BY <1>1 DEF LotInv
    <3> HIDE DEF leg
    <3> QED BY <1>1, <1>4, <3>1, LotSums
  <2> HIDE DEF leg, qty
  <2> QED BY <1>1, <1>3, <2>1 DEF LotInv
<1>6. \A z \in Slots : LotMultiple(order'[z].sz) /\ LotMultiple(order'[z].filled)
  <2>1. NoOrder.sz = 0 * venue.lot /\ NoOrder.filled = 0 * venue.lot
    BY VenueFacts DEF NoOrder
  <2>2. LotMultiple(NoOrder.sz) /\ LotMultiple(NoOrder.filled)
    BY <2>1 DEF LotMultiple
  <2> HIDE DEF leg
  <2> QED BY <1>2, <2>2 DEF LotInv
<1> HIDE DEF leg
<1> QED BY <1>2, <1>5, <1>6 DEF LotInv, LotMultiple

\* The account in use does not change, and on a spot account the position is
\* not read from the exchange.
DerivativeInv == IsSpot(venue) \/ LotInv

LEMMA NextWhole ==
  ASSUME WholeMinimum, VInv, DerivativeInv, [Next]_vars
  PROVE  DerivativeInv'
<1>1. VShape /\ venue' = venue /\ order \in [Slots -> Order] /\ level \in [Slots -> Level]
  BY DEF VInv, VShape, Next, PlaceEntry, Trade, EntryFilled, EnsureTakeProfit, ExitFilled,
         ForceClose, vars
<1>2. SUFFICES ASSUME ~IsSpot(venue), LotInv PROVE LotInv'
  BY <1>1 DEF DerivativeInv
<1>3. CASE UNCHANGED vars
  BY <1>1, <1>2, <1>3, LotFrame DEF vars
<1>4. ASSUME NEW s \in Slots, NEW px \in Levels, NEW qty \in Sizes, NEW short \in BOOLEAN,
             PlaceEntry(s, px, qty, short)
      PROVE  LotInv'
  <2>1. /\ order' = [order EXCEPT ![s] = NewOrder(~short, short, FALSE, px, qty)]
        /\ UNCHANGED <<venue, account>>
    BY <1>4 DEF PlaceEntry, EntryOrder
  <2>2. px \in Int /\ qty \in Int
    BY VenueOrdersAssumption
  <2> QED BY <1>1, <1>2, <2>1, <2>2, PlacingWhole
<1>5. ASSUME NEW s \in Slots, NEW l, PlaceExit(s, l), UNCHANGED <<venue, account>>,
             l.short \in BOOLEAN, l.px \in Int, l.qty \in Int
      PROVE  LotInv'
  <2> DEFINE px == IF l.short THEN l.px - Spacing ELSE l.px + Spacing
  <2>1. px \in Int
    BY <1>5, VenueFacts, <1>1
  <2>2. \/ order' = [order EXCEPT ![s] = NoOrder]
        \/ order' = [order EXCEPT ![s] = NewOrder(l.short, l.short, TRUE, px, l.qty)]
    BY <1>5 DEF PlaceExit, ExitOrder
  <2> HIDE DEF px
  <2>3. CASE order' = [order EXCEPT ![s] = NoOrder]
    BY <1>1, <1>2, <1>5, <2>3, EmptyingWhole
  <2>4. CASE order' = [order EXCEPT ![s] = NewOrder(l.short, l.short, TRUE, px, l.qty)]
    BY <1>1, <1>2, <1>5, <2>1, <2>4, PlacingWhole
  <2> QED BY <2>2, <2>3, <2>4
<1>6. ASSUME NEW s \in Slots, EntryFilled(s) PROVE LotInv'
  <2> DEFINE o == order[s]   r == Report(o)
             h == [level[s] EXCEPT !.st = "held",
                     !.qty = IF r.filled > 0 THEN r.filled ELSE @,
                     !.px  = IF r.avg > 0 THEN r.avg ELSE @,
                     !.got = o.filled, !.paid = o.avg]
  <2>1. PlaceExit(s, h) /\ UNCHANGED <<venue, account>>
    BY <1>6 DEF EntryFilled
  <2>2. r.filled \in Int /\ r.avg \in Int
    BY <1>1, VenueFacts DEF Report, NumberReported, Order
  <2>3. h.short \in BOOLEAN /\ h.px \in Int /\ h.qty \in Int
    <3> HIDE DEF r
    <3> QED BY <1>1, <2>2 DEF Level
  <2> HIDE DEF h, r, o
  <2> QED BY <1>5, <2>1, <2>3
<1>7. ASSUME NEW s \in Slots, EnsureTakeProfit(s) PROVE LotInv'
  <2>1. PlaceExit(s, level[s]) /\ UNCHANGED <<venue, account>>
    BY <1>7 DEF EnsureTakeProfit
  <2>2. level[s].short \in BOOLEAN /\ level[s].px \in Int /\ level[s].qty \in Int
    BY <1>1 DEF Level
  <2> QED BY <1>5, <2>1, <2>2
<1>8. ASSUME NEW s \in Slots, ExitFilled(s) PROVE LotInv'
  BY <1>1, <1>2, <1>8, EmptyingWhole DEF ExitFilled
<1> QED
  BY <1>1, <1>2, <1>3, <1>4, <1>6, <1>7, <1>8, TradeWhole, ForceCloseWhole DEF Next

\* A forced close on a derivatives account is for exactly what is held, for
\* every lot and every worth of a contract that GetPositions could read; where
\* it could not, only if a contract is worth one coin.  A minimum order size
\* has to be one lot.  The position read in coins turns back into the order
\* units it came from.
THEOREM ClosesExactly ==
  ASSUME WholeMinimum
  PROVE  Spec => []CloseIsExact
<1>1. Init => DerivativeInv
  <2> SUFFICES ASSUME Init PROVE LotInv
    BY DEF DerivativeInv
  <2>1. VShape
    BY InitSound DEF VInv
  <2>2. 0 = 0 * venue.lot
    BY <2>1, VenueFacts
  <2>3. LotMultiple(0)
    BY <2>2 DEF LotMultiple
  <2> QED BY <2>3 DEF Init, LotInv, NoOrder
<1>2. VInv /\ DerivativeInv /\ [Next]_vars => DerivativeInv'
  BY NextWhole
<1>3. VInv /\ DerivativeInv => CloseIsExact
  <2> SUFFICES ASSUME VInv, DerivativeInv, NEW short \in BOOLEAN, NEW meta \in BOOLEAN,
                      ~IsSpot(venue), meta \/ InCoins, PositionQty(short, meta) > 0
               PROVE  Size(PositionQty(short, meta)) = account[Leg(short)]
    BY DEF CloseIsExact
  <2> DEFINE a == account[Leg(short)]   c == venue.ctVal
  <2>1. VShape /\ a \in Int /\ LotMultiple(a) /\ c \in Int /\ c > 0
    BY VenueFacts DEF VInv, DerivativeInv, LotInv, Leg
  <2>2. PositionQty(short, meta) = a * c
    <3>1. ~meta => NumberReported(a) = a * c
      BY <2>1, VenueOrdersAssumption DEF NumberReported, InCoins, VShape
    <3> QED BY <3>1 DEF PositionQty
  <2>3. a > 0
    <3>1. SUFFICES ASSUME a <= 0 PROVE FALSE
      BY <2>1
    <3>2. a * c <= 0 * c /\ 0 * c = 0
      <4> HIDE DEF a, c
      <4> QED BY <2>1, <3>1, TimesGrows
    <3> HIDE DEF a, c
    <3> QED BY <2>1, <2>2, <3>2
  <2> HIDE DEF a
  <2> QED BY <2>1, <2>2, <2>3, SizeReturns DEF a
<1> QED BY <1>1, <1>2, <1>3, RoundTripInvariance, PTL DEF Spec

-----------------------------------------------------------------------------
(* The account never runs below what closing orders may take from it       *)

\* What an order and its level have to do with each other.
SlotSound(v, l, o) ==
  /\ l.short => v.hedge
  /\ l.st \in {"empty", "held"} => o.st = "none"
  /\ l.st = "entry" => o.buy = ~l.short
  /\ l.st = "exit" => o.buy = l.short /\ o.reduce = (~v.hedge /\ ~IsSpot(v))
  /\ l.st \in {"entry", "exit"} =>
       /\ o.st # "none" /\ o.leg = (v.hedge /\ l.short)
       /\ o.sz > 0 /\ o.filled >= 0 /\ o.filled <= o.sz
       /\ o.st = "filled" => o.filled = o.sz

\* What a live closing order is still to take from a side of the account.
Claim(v, o, leg) ==
  IF o.st = "live" /\ ~Adds(o) /\ (o.reduce \/ v.hedge \/ IsSpot(v)) /\ o.leg = leg
  THEN o.sz - o.filled ELSE 0
ClaimSum(v, os, leg) == SumFunctionOnSet([s \in Slots |-> Claim(v, os[s], leg)], Slots)

BookedInv ==
  /\ VShape
  /\ account \in [BOOLEAN -> Int]
  /\ \A s \in Slots : SlotSound(venue, level[s], order[s])
  /\ \A leg \in BOOLEAN : ClaimSum(venue, order, leg) <= account[leg]

LEMMA SlotsFinite == IsFiniteSet(Slots)
BY VenueOrdersAssumption

LEMMA ClaimInt == ASSUME NEW v, NEW o \in Order, NEW leg PROVE Claim(v, o, leg) \in Int
BY DEF Claim, Order

\* Only exits claim, and nothing negative.
LEMMA ClaimFacts ==
  ASSUME NEW v \in Venue, NEW l \in Level, NEW o \in Order, SlotSound(v, l, o), NEW leg
  PROVE  /\ Claim(v, o, leg) \in Nat
         /\ l.st # "exit" => Claim(v, o, leg) = 0
         /\ leg # (v.hedge /\ l.short) => Claim(v, o, leg) = 0
         /\ l.st = "exit" /\ leg = (v.hedge /\ l.short) => Claim(v, o, leg) = o.sz - o.filled
<1>1. /\ l.st \in {"empty", "entry", "held", "exit"} /\ l.short \in BOOLEAN
      /\ o.st \in {"none", "live", "filled"} /\ o.buy \in BOOLEAN /\ o.leg \in BOOLEAN
      /\ o.reduce \in BOOLEAN /\ o.sz \in Int /\ o.filled \in Int /\ v.hedge \in BOOLEAN
  BY DEF Level, Order, Venue
<1>2. CASE l.st \in {"empty", "held"}
  BY <1>2 DEF SlotSound, Claim
<1>3. CASE l.st = "entry"
  <2>1. Adds(o)
    BY <1>1, <1>3 DEF SlotSound, Adds
  <2> QED BY <1>3, <2>1 DEF Claim
<1>4. CASE l.st = "exit"
  <2>1. ~Adds(o) /\ (o.reduce \/ v.hedge \/ IsSpot(v))
    BY <1>1, <1>4 DEF SlotSound, Adds
  <2> QED BY <1>1, <1>4, <2>1 DEF SlotSound, Claim
<1> QED BY <1>1, <1>2, <1>3, <1>4

LEMMA ClaimSumInt ==
  ASSUME NEW v, NEW os \in [Slots -> Order], NEW leg
  PROVE  ClaimSum(v, os, leg) \in Int
<1> DEFINE f == [s \in Slots |-> Claim(v, os[s], leg)]
<1>1. \A s \in Slots : f[s] \in Int
  BY ClaimInt
<1> HIDE DEF f
<1>2. SumFunctionOnSet(f, Slots) \in Int
  BY <1>1, SlotsFinite, SumInt
<1> QED BY <1>2 DEF ClaimSum, f

LEMMA ClaimSumNat ==
  ASSUME NEW v, NEW os, NEW leg, \A s \in Slots : Claim(v, os[s], leg) \in Nat
  PROVE  ClaimSum(v, os, leg) \in Nat
<1> DEFINE f == [s \in Slots |-> Claim(v, os[s], leg)]
<1>1. \A s \in Slots : f[s] \in Nat
  OBVIOUS
<1> HIDE DEF f
<1>2. SumFunctionOnSet(f, Slots) \in Nat
  BY <1>1, SlotsFinite, SumNat
<1> QED BY <1>2 DEF ClaimSum, f

LEMMA ClaimSumZero ==
  ASSUME NEW v, NEW os, NEW leg, \A s \in Slots : Claim(v, os[s], leg) = 0
  PROVE  ClaimSum(v, os, leg) = 0
<1> DEFINE f == [s \in Slots |-> Claim(v, os[s], leg)]
<1>1. \A s \in Slots : f[s] = 0
  OBVIOUS
<1> HIDE DEF f
<1>2. SumFunctionOnSet(f, Slots) = 0
  BY <1>1, SlotsFinite, SumZero
<1> QED BY <1>2 DEF ClaimSum, f

LEMMA ClaimSumSame ==
  ASSUME NEW v, NEW os, NEW ns, NEW leg,
         \A s \in Slots : Claim(v, ns[s], leg) = Claim(v, os[s], leg)
  PROVE  ClaimSum(v, ns, leg) = ClaimSum(v, os, leg)
<1> DEFINE f == [s \in Slots |-> Claim(v, os[s], leg)]
           g == [s \in Slots |-> Claim(v, ns[s], leg)]
<1>1. \A s \in Slots : g[s] = f[s]
  OBVIOUS
<1> HIDE DEF f, g
<1>2. SumFunctionOnSet(g, Slots) = SumFunctionOnSet(f, Slots)
  BY <1>1, SlotsFinite, SumEqual
<1> QED BY <1>2 DEF ClaimSum, f, g

LEMMA ClaimSumChange ==
  ASSUME NEW v, NEW os \in [Slots -> Order], NEW ns \in [Slots -> Order], NEW leg,
         NEW s \in Slots, \A z \in Slots : z # s => ns[z] = os[z]
  PROVE  ClaimSum(v, ns, leg)
           = ClaimSum(v, os, leg) - Claim(v, os[s], leg) + Claim(v, ns[s], leg)
<1> DEFINE f == [z \in Slots |-> Claim(v, os[z], leg)]
           g == [z \in Slots |-> Claim(v, ns[z], leg)]
<1>1. /\ \A z \in Slots : f[z] \in Int
      /\ \A z \in Slots : z # s => g[z] = f[z]
      /\ f[s] = Claim(v, os[s], leg) /\ g[s] = Claim(v, ns[s], leg) /\ g[s] \in Int
  BY ClaimInt
<1> HIDE DEF f, g
<1>2. SumFunctionOnSet(g, Slots) = SumFunctionOnSet(f, Slots) - f[s] + g[s]
  BY <1>1, SlotsFinite, SumChange
<1>3. /\ ClaimSum(v, ns, leg) = SumFunctionOnSet(g, Slots)
      /\ ClaimSum(v, os, leg) = SumFunctionOnSet(f, Slots)
  BY DEF ClaimSum, f, g
<1> QED BY <1>1, <1>2, <1>3

\* They are the claims of the model.
LEMMA ClaimedIs ==
  ASSUME VShape, NEW leg PROVE Claimed(leg) = ClaimSum(venue, order, leg)
<1> DEFINE c == [s \in Claimants(leg) |-> order[s].sz - order[s].filled]
           f == [s \in Slots |-> Claim(venue, order[s], leg)]
<1>1. \A s \in Slots : f[s] \in Int
  BY ClaimInt DEF VShape
<1>2. Claimants(leg) \subseteq Slots /\ DOMAIN c = Claimants(leg)
  BY DEF Claimants
<1>3. /\ \A s \in Claimants(leg) : c[s] = f[s]
      /\ \A s \in Slots : s \notin Claimants(leg) => f[s] = 0
  BY DEF Claimants, Claim, Closes
<1> HIDE DEF c, f
<1>4. SumFunctionOnSet(c, Claimants(leg)) = SumFunctionOnSet(f, Slots)
  BY <1>1, <1>2, <1>3, SlotsFinite, SumPadded
<1>5. SumFunction(c) = SumFunctionOnSet(c, Claimants(leg))
  BY <1>2, SumOver
<1>6. Claimed(leg) = SumFunction(c)
  BY DEF Claimed, c
<1> QED BY <1>4, <1>5, <1>6 DEF ClaimSum, f

\* The step writes one slot.
OneSlot(s) ==
  /\ venue' = venue /\ level' \in [Slots -> Level] /\ order' \in [Slots -> Order]
  /\ \A z \in Slots : z # s => level'[z] = level[z] /\ order'[z] = order[z]

LEMMA VenueIs == ASSUME VShape PROVE venue \in Venue
BY VenueOrdersAssumption DEF VShape

LEMMA OneSlotSound ==
  ASSUME BookedInv, NEW s \in Slots, OneSlot(s), SlotSound(venue, level'[s], order'[s])
  PROVE  VShape' /\ \A z \in Slots : SlotSound(venue', level'[z], order'[z])
<1>1. \A z \in Slots : SlotSound(venue, level[z], order[z])
  BY DEF BookedInv
<1>2. venue' \in Venues
  BY DEF BookedInv, VShape, OneSlot
<1>3. \A z \in Slots : SlotSound(venue', level'[z], order'[z])
  BY <1>1 DEF OneSlot
<1> QED BY <1>2, <1>3 DEF OneSlot, VShape

\* A step that writes one slot and leaves the account: what the new order
\* claims, if anything, must still be there.
LEMMA SlotWritten ==
  ASSUME BookedInv, NEW s \in Slots, OneSlot(s), account' = account,
         SlotSound(venue, level'[s], order'[s]),
         \A leg \in BOOLEAN :
           \/ Claim(venue, order'[s], leg) = 0
           \/ ClaimSum(venue, order, leg) + Claim(venue, order'[s], leg) <= account[leg]
  PROVE  BookedInv'
<1>1. VShape' /\ \A z \in Slots : SlotSound(venue', level'[z], order'[z])
  BY OneSlotSound
<1>2. /\ order \in [Slots -> Order] /\ order' \in [Slots -> Order]
      /\ \A z \in Slots : z # s => order'[z] = order[z]
      /\ venue \in Venue /\ level[s] \in Level /\ venue' = venue
      /\ SlotSound(venue, level[s], order[s])
  BY VenueIs DEF BookedInv, VShape, OneSlot
<1>3. ASSUME NEW leg \in BOOLEAN PROVE ClaimSum(venue, order', leg) <= account'[leg]
  <2>1. ClaimSum(venue, order', leg)
          = ClaimSum(venue, order, leg) - Claim(venue, order[s], leg) + Claim(venue, order'[s], leg)
    BY <1>2, ClaimSumChange
  <2>2. Claim(venue, order[s], leg) \in Nat
    BY <1>2, ClaimFacts
  <2>3. Claim(venue, order'[s], leg) \in Int
    BY <1>2, ClaimInt
  <2>4. ClaimSum(venue, order, leg) \in Int
    BY <1>2, ClaimSumInt
  <2>5. account[leg] \in Int /\ account'[leg] = account[leg] /\ ClaimSum(venue, order, leg) <= account[leg]
    BY DEF BookedInv
  <2> QED BY <2>1, <2>2, <2>3, <2>4, <2>5
<1> QED BY <1>1, <1>2, <1>3 DEF BookedInv

LEMMA EntryOrderIs ==
  ASSUME VShape, NEW px \in Int, NEW qty \in Int, NEW short \in BOOLEAN
  PROVE  LET o == EntryOrder(px, qty, short)
         IN  /\ o \in Order /\ o.st = "live" /\ o.buy = ~short /\ o.leg = (venue.hedge /\ short)
             /\ o.sz = Size(qty) /\ o.filled = 0 /\ o.px = Price(px)
<1>1. EntryOrder(px, qty, short) \in Order
  BY OpeningOrder
<1> QED BY <1>1 DEF EntryOrder, NewOrder, Leg

LEMMA ExitOrderIs ==
  ASSUME VShape, NEW l \in Level
  PROVE  LET o == ExitOrder(l)
         IN  /\ o \in Order /\ o.st = "live" /\ o.buy = l.short /\ o.leg = (venue.hedge /\ l.short)
             /\ o.reduce = (~venue.hedge /\ ~IsSpot(venue))
             /\ o.sz = Size(l.qty) /\ o.filled = 0
             /\ o.px = Price(IF l.short THEN l.px - Spacing ELSE l.px + Spacing)
<1> DEFINE px == IF l.short THEN l.px - Spacing ELSE l.px + Spacing
<1>1. l.px \in Int /\ l.qty \in Int /\ l.short \in BOOLEAN /\ Spacing \in Int /\ px \in Int
  BY VenueFacts DEF Level
<1>2. ExitOrder(l) = NewOrder(l.short, l.short, TRUE, px, l.qty)
  BY DEF ExitOrder
<1> HIDE DEF px
<1>3. NewOrder(l.short, l.short, TRUE, px, l.qty) \in Order
  BY <1>1, ReducingOrder
<1>4. venue.hedge \in BOOLEAN
  BY VenueFacts
<1>5. ExitOrder(l).reduce = (~venue.hedge /\ ~IsSpot(venue))
  BY <1>2 DEF NewOrder
<1>6. /\ ExitOrder(l).st = "live" /\ ExitOrder(l).buy = l.short
      /\ ExitOrder(l).leg = (venue.hedge /\ l.short)
      /\ ExitOrder(l).sz = Size(l.qty) /\ ExitOrder(l).filled = 0 /\ ExitOrder(l).px = Price(px)
  BY <1>2 DEF NewOrder, Leg
<1> QED BY <1>2, <1>3, <1>5, <1>6 DEF px

\* Emptied: nothing is claimed.
LEMMA NoOrderSound ==
  ASSUME NEW l \in Level, l.st \in {"empty", "held"}, NEW v, l.short => v.hedge
  PROVE  /\ NoOrder \in Order /\ SlotSound(v, l, NoOrder)
         /\ \A leg : Claim(v, NoOrder, leg) = 0
BY EmptyShapes DEF NoOrder, SlotSound, Claim

LEMMA PlaceEntryBooked ==
  ASSUME BookedInv, NEW s \in Slots, NEW px \in Levels, NEW qty \in Sizes,
         NEW short \in BOOLEAN, PlaceEntry(s, px, qty, short)
  PROVE  BookedInv'
<1> DEFINE o == EntryOrder(px, qty, short)
           l == [st |-> "entry", qty |-> qty, px |-> px, short |-> short,
                 got |-> 0, paid |-> 0]
<1>1. px \in Int /\ qty \in Int /\ VShape
  BY VenueOrdersAssumption DEF BookedInv
<1>2. /\ o \in Order /\ o.st = "live" /\ o.buy = ~short /\ o.leg = (venue.hedge /\ short)
      /\ o.filled = 0
  BY <1>1, EntryOrderIs
<1>3. l \in Level /\ l.st = "entry" /\ l.short = short
  BY <1>1 DEF Level
<1>4. /\ level' = [level EXCEPT ![s] = l] /\ order' = [order EXCEPT ![s] = o]
      /\ UNCHANGED <<venue, account>> /\ o.sz > 0 /\ (short => venue.hedge)
  BY DEF PlaceEntry, Accepts
<1> HIDE DEF o, l
<1>5. OneSlot(s) /\ level'[s] = l /\ order'[s] = o
  BY <1>1, <1>2, <1>3, <1>4 DEF OneSlot, VShape
<1>6. o.sz \in Int
  BY <1>2 DEF Order
<1>7. SlotSound(venue, l, o)
  BY <1>2, <1>3, <1>4, <1>6 DEF SlotSound
<1>8. \A leg : Claim(venue, o, leg) = 0
  BY <1>1, <1>2, <1>3, <1>7, ClaimFacts, VenueIs
<1> QED BY <1>4, <1>5, <1>7, <1>8, SlotWritten

\* placeExitFor, from an order that claims nothing any more.
LEMMA PlaceExitBooked ==
  ASSUME BookedInv, NEW s \in Slots, NEW l \in Level, l.st = "held", l.short => venue.hedge,
         PlaceExit(s, l), UNCHANGED <<venue, account>>
  PROVE  BookedInv'
<1> DEFINE o == ExitOrder(l)
           taken == [l EXCEPT !.st = "exit"]
<1>1. VShape
  BY DEF BookedInv
<1>2. /\ o \in Order /\ o.st = "live" /\ o.buy = l.short /\ o.leg = (venue.hedge /\ l.short)
      /\ o.reduce = (~venue.hedge /\ ~IsSpot(venue)) /\ o.filled = 0
  BY <1>1, ExitOrderIs
<1>3. taken \in Level /\ taken.st = "exit" /\ taken.short = l.short
  BY DEF Level
<1>4. CASE Accepts(o) /\ level' = [level EXCEPT ![s] = taken] /\ order' = [order EXCEPT ![s] = o]
  <2>1. o.sz > 0 /\ (Closes(o) => Claimed(o.leg) + o.sz <= account[o.leg]) /\ o.sz \in Int
    BY <1>2, <1>4 DEF Accepts, Order
  <2> HIDE DEF o, taken
  <2>2. OneSlot(s) /\ level'[s] = taken /\ order'[s] = o
    BY <1>1, <1>2, <1>3, <1>4 DEF OneSlot, VShape
  <2>3. SlotSound(venue, taken, o)
    BY <1>2, <1>3, <2>1 DEF SlotSound
  <2>4. ASSUME NEW leg \in BOOLEAN
        PROVE  \/ Claim(venue, o, leg) = 0
               \/ ClaimSum(venue, order, leg) + Claim(venue, o, leg) <= account[leg]
    <3>1. CASE Claim(venue, o, leg) # 0
      <4>1. leg = o.leg /\ Closes(o) /\ Claim(venue, o, leg) = o.sz - o.filled
        BY <3>1 DEF Claim, Closes
      <4>2. Claimed(leg) = ClaimSum(venue, order, leg)
        BY <1>1, ClaimedIs
      <4> QED BY <1>2, <2>1, <4>1, <4>2
    <3> QED BY <3>1
  <2> QED BY <2>2, <2>3, <2>4, SlotWritten
<1>5. CASE level' = [level EXCEPT ![s] = l] /\ order' = [order EXCEPT ![s] = NoOrder]
  <2>1. /\ NoOrder \in Order /\ SlotSound(venue, l, NoOrder)
        /\ \A leg : Claim(venue, NoOrder, leg) = 0
    BY NoOrderSound
  <2>2. OneSlot(s) /\ level'[s] = l /\ order'[s] = NoOrder
    BY <1>1, <1>5, <2>1 DEF OneSlot, VShape
  <2> QED BY <2>1, <2>2, SlotWritten
<1> QED BY <1>4, <1>5 DEF PlaceExit

\* What the engine notes of a filled entry order.
Recorded(l, o) ==
  [l EXCEPT !.st = "held",
            !.qty = IF Report(o).filled > 0 THEN Report(o).filled ELSE @,
            !.px  = IF Report(o).avg > 0 THEN Report(o).avg ELSE @,
            !.got = o.filled, !.paid = o.avg]
LEMMA RecordedIs ==
  ASSUME VShape, NEW l \in Level, NEW o \in Order
  PROVE  LET h == Recorded(l, o)
         IN  /\ h \in Level /\ h.st = "held" /\ h.short = l.short /\ h.got = o.filled
             /\ h.qty = (IF Report(o).filled > 0 THEN Report(o).filled ELSE l.qty)
             /\ h.px = (IF Report(o).avg > 0 THEN Report(o).avg ELSE l.px)
<1> DEFINE q == IF Report(o).filled > 0 THEN Report(o).filled ELSE l.qty
           p == IF Report(o).avg > 0 THEN Report(o).avg ELSE l.px
<1>1. o.filled \in Int /\ o.avg \in Int /\ l.qty \in Int /\ l.px \in Int
  BY DEF Order, Level
<1>2. Report(o).filled \in Int /\ Report(o).avg \in Int
  BY <1>1, VenueFacts DEF Report, NumberReported
<1>3. q \in Int /\ p \in Int
  BY <1>1, <1>2
<1>4. Recorded(l, o) = [l EXCEPT !.st = "held", !.qty = q, !.px = p,
                                 !.got = o.filled, !.paid = o.avg]
  BY DEF Recorded
<1> HIDE DEF q, p
<1>5. /\ Recorded(l, o) \in Level /\ Recorded(l, o).st = "held"
      /\ Recorded(l, o).short = l.short /\ Recorded(l, o).got = o.filled
      /\ Recorded(l, o).qty = q /\ Recorded(l, o).px = p
  BY <1>1, <1>3, <1>4 DEF Level
<1> QED BY <1>5 DEF q, p

LEMMA EntryFilledBooked == ASSUME BookedInv, NEW s \in Slots, EntryFilled(s) PROVE BookedInv'
<1> DEFINE h == Recorded(level[s], order[s])
<1>1. /\ level[s] \in Level /\ order[s] \in Order /\ VShape
      /\ level[s].short => venue.hedge
  BY DEF BookedInv, VShape, SlotSound
<1>2. h \in Level /\ h.st = "held" /\ h.short = level[s].short
  BY <1>1, RecordedIs
<1>3. PlaceExit(s, h) /\ UNCHANGED <<venue, account>>
  BY DEF EntryFilled, Recorded
<1> HIDE DEF h
<1> QED BY <1>1, <1>2, <1>3, PlaceExitBooked

LEMMA ExitFilledBooked == ASSUME BookedInv, NEW s \in Slots, ExitFilled(s) PROVE BookedInv'
<1>1. NoLevel \in Level /\ NoLevel.st = "empty" /\ ~NoLevel.short
  BY EmptyShapes DEF NoLevel
<1>2. /\ NoOrder \in Order /\ SlotSound(venue, NoLevel, NoOrder)
      /\ \A leg : Claim(venue, NoOrder, leg) = 0
  BY <1>1, NoOrderSound
<1>3. OneSlot(s) /\ level'[s] = NoLevel /\ order'[s] = NoOrder /\ account' = account
  BY <1>1, <1>2 DEF ExitFilled, OneSlot, BookedInv, VShape
<1> QED BY <1>2, <1>3, SlotWritten

\* What a trade changes.
Traded(s, n) ==
  /\ n \in Nat \ {0} /\ n <= order[s].sz - order[s].filled
  /\ order[s].st = "live" /\ order'[s] \in Order /\ level'[s] = level[s]
  /\ order'[s].buy = order[s].buy /\ order'[s].leg = order[s].leg
  /\ order'[s].reduce = order[s].reduce /\ order'[s].sz = order[s].sz
  /\ order'[s].filled = order[s].filled + n
  /\ order'[s].st = (IF n = order[s].sz - order[s].filled THEN "filled" ELSE "live")
  /\ account' = [account EXCEPT ![order[s].leg] = IF Adds(order[s]) THEN @ + n ELSE @ - n]

LEMMA TradeIs ==
  ASSUME VShape, NEW s \in Slots, Trade(s)
  PROVE  OneSlot(s) /\ \E n \in Int : Traded(s, n)
<1> DEFINE o == order[s]
           better == IF o.buy THEN o.px - venue.tick ELSE o.px + venue.tick
           rest == o.sz - o.filled
<1>1. PICK n \in (1 .. rest) \cap {venue.lot, rest}, px \in {o.px, better} :
        /\ order' = [order EXCEPT ![s] =
             [o EXCEPT !.filled = @ + n, !.avg = px,
                       !.st = IF n = rest THEN "filled" ELSE "live"]]
        /\ account' = [account EXCEPT ![o.leg] = IF Adds(o) THEN @ + n ELSE @ - n]
  BY DEF Trade
<1>2. level' = level /\ venue' = venue /\ o.st = "live"
  BY DEF Trade
<1>3. /\ order \in [Slots -> Order] /\ o \in Order /\ o.px \in Int /\ o.avg \in Int
      /\ o.filled \in Int /\ o.sz \in Int
  BY DEF VShape, Order
<1>4. rest \in Int /\ better \in Int /\ n \in Int /\ n > 0 /\ n <= rest /\ px \in Int
  BY <1>1, <1>3, VenueFacts
<1> DEFINE st == IF n = rest THEN "filled" ELSE "live"
           t == [o EXCEPT !.filled = o.filled + n, !.avg = px, !.st = st]
<1>5. order' = [order EXCEPT ![s] = t]
  BY <1>1
<1>6. st \in {"filled", "live"} /\ o.filled + n \in Int
  BY <1>3, <1>4
<1>7. /\ t \in Order /\ t.buy = o.buy /\ t.leg = o.leg /\ t.reduce = o.reduce /\ t.sz = o.sz
      /\ t.filled = o.filled + n /\ t.st = st
  <2> HIDE DEF st, o, rest, better
  <2> QED BY <1>3, <1>4, <1>6 DEF Order
<1> HIDE DEF t
<1>8. OneSlot(s) /\ order'[s] = t /\ level'[s] = level[s]
  BY <1>2, <1>3, <1>5, <1>7 DEF OneSlot, VShape
<1>9. Traded(s, n)
  BY <1>1, <1>2, <1>4, <1>7, <1>8 DEF Traded
<1> QED BY <1>4, <1>8, <1>9

LEMMA TradeBooked == ASSUME BookedInv, NEW s \in Slots, Trade(s) PROVE BookedInv'
<1> DEFINE l == level[s]
           o == order[s]
           t == order'[s]
<1>1. VShape /\ OneSlot(s)
  BY TradeIs DEF BookedInv
<1>2. PICK n \in Int : Traded(s, n)
  BY <1>1, TradeIs
<1>3. /\ l \in Level /\ o \in Order /\ t \in Order /\ venue \in Venue /\ SlotSound(venue, l, o)
      /\ o.filled \in Int /\ o.sz \in Int /\ o.leg \in BOOLEAN
  BY <1>1, <1>2, VenueIs DEF BookedInv, VShape, Traded, Order
<1>4. l.st \in {"entry", "exit"} /\ o.leg = (venue.hedge /\ l.short)
  BY <1>2, <1>3 DEF Traded, SlotSound, Level
<1>5. SlotSound(venue, l, t)
  BY <1>2, <1>3, <1>4 DEF Traded, SlotSound
<1>6. VShape' /\ \A z \in Slots : SlotSound(venue', level'[z], order'[z])
  <2>1. SlotSound(venue, level'[s], order'[s])
    BY <1>2, <1>5 DEF Traded
  <2> QED BY <1>1, <2>1, OneSlotSound
<1>7. account \in [BOOLEAN -> Int]
  BY DEF BookedInv
<1>8. account' \in [BOOLEAN -> Int]
  BY <1>2, <1>3, <1>7 DEF Traded
<1>9. /\ order \in [Slots -> Order] /\ order' \in [Slots -> Order] /\ venue' = venue
      /\ \A z \in Slots : z # s => order'[z] = order[z]
  BY <1>1 DEF OneSlot, VShape
<1>10. ASSUME NEW leg \in BOOLEAN PROVE ClaimSum(venue, order', leg) <= account'[leg]
  <2>1. ClaimSum(venue, order', leg)
          = ClaimSum(venue, order, leg) - Claim(venue, o, leg) + Claim(venue, t, leg)
    BY <1>9, ClaimSumChange
  <2>2. ClaimSum(venue, order, leg) \in Int /\ ClaimSum(venue, order, leg) <= account[leg]
    BY <1>9, ClaimSumInt DEF BookedInv
  <2>3. CASE leg # o.leg
    <3>1. Claim(venue, o, leg) = 0 /\ Claim(venue, t, leg) = 0
      BY <1>2, <2>3 DEF Claim, Traded
    <3>2. account'[leg] = account[leg]
      BY <1>2, <1>3, <1>7, <2>3 DEF Traded
    <3> QED BY <2>1, <2>2, <3>1, <3>2
  <2>4. CASE leg = o.leg /\ l.st = "entry"
    <3>1. Claim(venue, o, leg) = 0 /\ Claim(venue, t, leg) = 0
      BY <1>3, <1>5, <2>4, ClaimFacts
    <3>2. Adds(o)
      BY <1>3, <2>4 DEF SlotSound, Adds, Level, Venue
    <3>3. account'[leg] = account[leg] + n
      BY <1>2, <1>3, <1>7, <2>4, <3>2 DEF Traded
    <3>4. n > 0 /\ account[leg] \in Int
      BY <1>2, <1>7 DEF Traded
    <3> QED BY <2>1, <2>2, <3>1, <3>3, <3>4
  <2>5. CASE leg = o.leg /\ l.st = "exit"
    <3>1. Claim(venue, o, leg) = o.sz - o.filled /\ Claim(venue, t, leg) = t.sz - t.filled
      BY <1>3, <1>4, <1>5, <2>5, ClaimFacts
    <3>2. t.sz - t.filled = o.sz - o.filled - n
      BY <1>2, <1>3 DEF Traded
    <3>3. ~Adds(o)
      BY <1>3, <1>4, <2>5 DEF SlotSound, Adds, Level, Venue
    <3>4. account'[leg] = account[leg] - n
      BY <1>2, <1>3, <1>7, <2>5, <3>3 DEF Traded
    <3> QED BY <1>3, <1>7, <2>1, <2>2, <3>1, <3>2, <3>4
  <2> QED BY <1>4, <2>3, <2>4, <2>5
<1> QED BY <1>6, <1>8, <1>9, <1>10 DEF BookedInv

\* Emptied slots, and what the account gives up.
Emptied(short) ==
  /\ venue' = venue /\ (short => venue.hedge)
  /\ \A s \in Slots :
       \/ /\ level[s].st \in {"held", "exit"} /\ level[s].short = short
          /\ level'[s] = NoLevel /\ order'[s] = NoOrder
       \/ /\ ~(level[s].st \in {"held", "exit"} /\ level[s].short = short)
          /\ level'[s] = level[s] /\ order'[s] = order[s]
  /\ VShape'

LEMMA PositionInt ==
  ASSUME VShape, account \in [BOOLEAN -> Int], NEW short \in BOOLEAN, NEW meta \in BOOLEAN
  PROVE  PositionQty(short, meta) \in Int
<1>1. CASE IsSpot(venue)
  <2> DEFINE f == [s \in OfSide(short) |-> level[s].qty]
  <2>1. IsFiniteSet(OfSide(short)) /\ DOMAIN f = OfSide(short)
    <3>1. OfSide(short) \subseteq Slots
      BY DEF OfSide
    <3> QED BY <3>1, SlotsFinite, FS_Subset
  <2>2. \A s \in OfSide(short) : f[s] \in Int
    BY DEF OfSide, VShape, Level
  <2> HIDE DEF f
  <2>3. SumFunctionOnSet(f, OfSide(short)) \in Int
    BY <2>1, <2>2, SumInt
  <2>4. SumFunction(f) = SumFunctionOnSet(f, OfSide(short))
    BY <2>1, SumOver
  <2>5. PositionQty(short, meta) = SumFunction(f)
    BY <1>1 DEF PositionQty, f
  <2> QED BY <2>3, <2>4, <2>5
<1>2. CASE ~IsSpot(venue)
  <2>1. Leg(short) \in BOOLEAN
    BY DEF Leg
  <2>2. account[Leg(short)] * venue.ctVal \in Int /\ NumberReported(account[Leg(short)]) \in Int
    BY <2>1, VenueFacts DEF NumberReported
  <2> QED BY <1>2, <2>2 DEF PositionQty
<1> QED BY <1>1, <1>2

LEMMA BookedClaims ==
  ASSUME BookedInv, NEW leg
  PROVE  Claimed(leg) = ClaimSum(venue, order, leg) /\ Claimed(leg) \in Nat
<1>1. \A s \in Slots : Claim(venue, order[s], leg) \in Nat
  BY ClaimFacts, VenueIs DEF BookedInv, VShape
<1>2. ClaimSum(venue, order, leg) \in Nat
  BY <1>1, ClaimSumNat
<1> QED BY <1>2, ClaimedIs DEF BookedInv

LEMMA ForceCloseIs ==
  ASSUME BookedInv, NEW short \in BOOLEAN, ForceClose(short)
  PROVE  /\ Emptied(short)
         /\ \E n \in Int : /\ account' = [account EXCEPT ![Leg(short)] = @ - n]
                           /\ n <= account[Leg(short)]
<1> DEFINE leg == Leg(short)
<1>1. VShape /\ account \in [BOOLEAN -> Int] /\ leg \in BOOLEAN
  BY DEF BookedInv, Leg
<1>2. /\ (short => venue.hedge) /\ UNCHANGED venue
      /\ level' = [s \in Slots |-> IF s \in OfSide(short) THEN NoLevel ELSE level[s]]
      /\ order' = [s \in Slots |-> IF s \in OfSide(short) THEN NoOrder ELSE order[s]]
  BY DEF ForceClose
<1>3. PICK meta \in BOOLEAN :
        \E n \in Closable(Size(PositionQty(short, meta)), leg) :
          account' = [account EXCEPT ![leg] = @ - n]
  BY DEF ForceClose
<1>4. PICK n \in Closable(Size(PositionQty(short, meta)), leg) :
        account' = [account EXCEPT ![leg] = @ - n]
  BY <1>3
<1>5. n \in Int /\ n <= account[leg]
  <2> DEFINE size == Size(PositionQty(short, meta))
  <2>1. size \in Int /\ account[leg] \in Int /\ Claimed(leg) \in Nat
    BY <1>1, PositionInt, SizeInt, BookedClaims
  <2>2. n \in Closable(size, leg)
    BY <1>4
  <2> HIDE DEF size, leg
  <2> QED BY <2>1, <2>2 DEF Closable
<1> HIDE DEF leg
<1>6. VShape'
  <2>1. venue' \in Venues
    BY <1>1, <1>2 DEF VShape
  <2>2. level' \in [Slots -> Level]
    BY <1>1, <1>2, EmptyShapes DEF VShape
  <2>3. order' \in [Slots -> Order]
    BY <1>1, <1>2, EmptyShapes DEF VShape
  <2> QED BY <2>1, <2>2, <2>3 DEF VShape
<1>7. Emptied(short)
  <2>1. ASSUME NEW s \in Slots
        PROVE  /\ level'[s] = IF s \in OfSide(short) THEN NoLevel ELSE level[s]
               /\ order'[s] = IF s \in OfSide(short) THEN NoOrder ELSE order[s]
    BY <1>2
  <2>2. \A s \in Slots :
          s \in OfSide(short) <=> level[s].st \in {"held", "exit"} /\ level[s].short = short
    BY DEF OfSide
  <2> QED BY <1>2, <1>6, <2>1, <2>2 DEF Emptied
<1> QED BY <1>4, <1>5, <1>7 DEF leg

LEMMA ForceCloseBooked ==
  ASSUME BookedInv, NEW short \in BOOLEAN, ForceClose(short) PROVE BookedInv'
<1>1. Emptied(short) /\ venue' = venue /\ VShape' /\ (short => venue.hedge)
  BY ForceCloseIs DEF Emptied
<1>2. PICK n \in Int : /\ account' = [account EXCEPT ![Leg(short)] = @ - n]
                       /\ n <= account[Leg(short)]
  BY ForceCloseIs
<1>3. /\ account \in [BOOLEAN -> Int] /\ Leg(short) = (venue.hedge /\ short)
      /\ venue \in Venue /\ venue.hedge \in BOOLEAN /\ Leg(short) \in BOOLEAN
      /\ level \in [Slots -> Level] /\ order \in [Slots -> Order]
      /\ level' \in [Slots -> Level] /\ order' \in [Slots -> Order]
      /\ \A s \in Slots : SlotSound(venue, level[s], order[s])
  BY <1>1, VenueIs DEF BookedInv, VShape, Leg, Venue
<1>4. \A s \in Slots : SlotSound(venue, level'[s], order'[s])
  <2>1. NoLevel \in Level /\ NoLevel.st = "empty" /\ ~NoLevel.short
    BY EmptyShapes DEF NoLevel
  <2>2. SlotSound(venue, NoLevel, NoOrder)
    BY <2>1, NoOrderSound
  <2> QED BY <1>1, <1>3, <2>2 DEF Emptied
<1>5. account' \in [BOOLEAN -> Int]
  BY <1>2, <1>3
<1>6. ASSUME NEW leg \in BOOLEAN PROVE ClaimSum(venue, order', leg) <= account'[leg]
  <2>1. CASE leg = Leg(short)
    <3>1. ASSUME NEW s \in Slots PROVE Claim(venue, order'[s], leg) = 0
      <4>1. level'[s].st # "exit" \/ leg # (venue.hedge /\ level'[s].short)
        <5>1. level[s].short \in BOOLEAN /\ (level[s].short => venue.hedge)
          BY <1>3 DEF Level, SlotSound
        <5> QED BY <1>1, <1>3, <2>1, <5>1 DEF Emptied, NoLevel
      <4> QED BY <1>3, <1>4, <4>1, ClaimFacts
    <3>2. ClaimSum(venue, order', leg) = 0
      BY <3>1, ClaimSumZero
    <3>3. account'[leg] = account[leg] - n /\ n <= account[leg] /\ account[leg] \in Int
      BY <1>2, <1>3, <2>1
    <3> QED BY <3>2, <3>3
  <2>2. CASE leg # Leg(short)
    <3>1. ASSUME NEW s \in Slots
          PROVE  Claim(venue, order'[s], leg) = Claim(venue, order[s], leg)
      <4>1. CASE order'[s] = order[s]
        BY <4>1
      <4>2. CASE level[s].st \in {"held", "exit"} /\ level[s].short = short /\ level'[s] = NoLevel
        <5>1. leg # (venue.hedge /\ level[s].short)
          BY <1>3, <2>2, <4>2
        <5>2. level'[s].st # "exit"
          BY <4>2 DEF NoLevel
        <5>3. Claim(venue, order[s], leg) = 0
          BY <1>3, <5>1, ClaimFacts
        <5>4. Claim(venue, order'[s], leg) = 0
          BY <1>3, <1>4, <5>2, ClaimFacts
        <5> QED BY <5>3, <5>4
      <4> QED BY <1>1, <4>1, <4>2 DEF Emptied
    <3>2. ClaimSum(venue, order', leg) = ClaimSum(venue, order, leg)
      BY <3>1, ClaimSumSame
    <3>3. account'[leg] = account[leg]
      BY <1>2, <1>3, <2>2
    <3> QED BY <3>2, <3>3 DEF BookedInv
  <2> QED BY <2>1, <2>2
<1> QED BY <1>1, <1>4, <1>5, <1>6 DEF BookedInv

\* The invariant holds in every reachable state.
THEOREM ClaimsInvariance == Spec => []BookedInv
<1>1. Init => BookedInv
  <2> SUFFICES ASSUME Init PROVE BookedInv
    OBVIOUS
  <2>1. VShape
    BY InitSound DEF VInv
  <2>2. NoLevel \in Level /\ NoLevel.st = "empty" /\ ~NoLevel.short
    BY EmptyShapes DEF NoLevel
  <2>3. /\ SlotSound(venue, NoLevel, NoOrder)
        /\ \A leg : Claim(venue, NoOrder, leg) = 0
    BY <2>2, NoOrderSound
  <2>4. \A s \in Slots : level[s] = NoLevel /\ order[s] = NoOrder
    BY DEF Init
  <2>5. \A leg \in BOOLEAN : ClaimSum(venue, order, leg) = 0
    BY <2>3, <2>4, ClaimSumZero
  <2>6. account \in [BOOLEAN -> Int] /\ \A leg \in BOOLEAN : account[leg] = 0
    BY DEF Init
  <2> QED BY <2>1, <2>3, <2>4, <2>5, <2>6 DEF BookedInv
<1>2. BookedInv /\ [Next]_vars => BookedInv'
  <2> SUFFICES ASSUME BookedInv, [Next]_vars PROVE BookedInv'
    OBVIOUS
  <2>1. CASE UNCHANGED vars
    BY <2>1 DEF vars, BookedInv, VShape
  <2>2. ASSUME NEW s \in Slots, EnsureTakeProfit(s) PROVE BookedInv'
    <3>1. /\ level[s] \in Level /\ level[s].st = "held" /\ (level[s].short => venue.hedge)
          /\ PlaceExit(s, level[s]) /\ UNCHANGED <<venue, account>>
      BY <2>2 DEF EnsureTakeProfit, BookedInv, VShape, SlotSound
    <3> QED BY <3>1, PlaceExitBooked
  <2> QED
    BY <2>1, <2>2, PlaceEntryBooked, TradeBooked, EntryFilledBooked, ExitFilledBooked,
       ForceCloseBooked DEF Next
<1> QED BY <1>1, <1>2, PTL DEF Spec

\* An account is never drawn below nothing: closing orders and forced closes
\* take no more than is there, on every exchange, also where quantities are
\* not in coins.
THEOREM AccountsHold == Spec => []VTypeOK
<1>1. BookedInv => VTypeOK
  <2> SUFFICES ASSUME BookedInv PROVE VTypeOK
    OBVIOUS
  <2>1. \A leg \in BOOLEAN : ClaimSum(venue, order, leg) \in Nat
    BY BookedClaims
  <2>2. \A leg \in BOOLEAN : account[leg] \in Nat
    BY <2>1 DEF BookedInv
  <2> QED BY <2>2 DEF BookedInv, VShape, VTypeOK
<1> QED BY <1>1, ClaimsInvariance, PTL

-----------------------------------------------------------------------------
(* Where quantities come back in coins, exits close what entries bought    *)

\* A level is no lower than twice the spacing: the exit of the lowest short
\* is still at a price.  The code does not see to it.
RoomBelow == \A px \in Levels : 2 * Spacing <= px

Lots(v, n) == \E k \in Int : n = k * v.lot

\* What a slot holds of a side of the account.
Share(v, l, o, leg) ==
  IF leg # (v.hedge /\ l.short) THEN 0
  ELSE IF l.st = "entry" THEN o.filled
  ELSE IF l.st = "held" THEN l.got
  ELSE IF l.st = "exit" THEN o.sz - o.filled
  ELSE 0
ShareSum(v, ls, os, leg) ==
  SumFunctionOnSet([s \in Slots |-> Share(v, ls[s], os[s], leg)], Slots)

\* What was bought is on the lot and noted as it was bought.
CoinSlot(v, l, o) ==
  /\ l.st = "entry" => Lots(v, o.sz) /\ o.sz >= v.min /\ l.px >= 2 * Spacing
  /\ l.st \in {"held", "exit"} =>
       /\ Lots(v, l.got) /\ l.got > 0 /\ l.got >= v.min /\ l.qty = l.got * v.ctVal
       /\ l.px >= 0 /\ (l.short => 2 * l.px + v.tick >= 4 * Spacing)
  /\ l.st = "exit" => o.sz = l.got

\* The slots' shares are there.
CoinInv ==
  InCoins =>
    /\ \A s \in Slots : CoinSlot(venue, level[s], order[s])
    /\ \A leg \in BOOLEAN : ShareSum(venue, level, order, leg) <= account[leg]

LEMMA LotsIs == ASSUME NEW n PROVE Lots(venue, n) <=> LotMultiple(n)
BY DEF Lots, LotMultiple

LEMMA ShareInt ==
  ASSUME NEW v, NEW l \in Level, NEW o \in Order, NEW leg PROVE Share(v, l, o, leg) \in Int
BY DEF Share, Level, Order

\* A closing order claims no more than its slot holds.
LEMMA ShareFacts ==
  ASSUME NEW v \in Venue, NEW l \in Level, NEW o \in Order, SlotSound(v, l, o),
         CoinSlot(v, l, o), NEW leg
  PROVE  Share(v, l, o, leg) \in Nat /\ Claim(v, o, leg) <= Share(v, l, o, leg)
<1>1. /\ l.st \in {"empty", "entry", "held", "exit"} /\ l.got \in Int
      /\ o.sz \in Int /\ o.filled \in Int
  BY DEF Level, Order
<1>2. Share(v, l, o, leg) \in Nat
  BY <1>1 DEF Share, SlotSound, CoinSlot
<1>3. CASE l.st = "exit" /\ leg = (v.hedge /\ l.short)
  BY <1>1, <1>3, ClaimFacts DEF Share
<1>4. CASE ~(l.st = "exit" /\ leg = (v.hedge /\ l.short))
  <2>1. Claim(v, o, leg) = 0
    BY <1>4, ClaimFacts
  <2> QED BY <1>2, <2>1
<1> QED BY <1>2, <1>3, <1>4

LEMMA ShareSumSame ==
  ASSUME NEW v, NEW ls, NEW os, NEW ks, NEW ns, NEW leg,
         \A s \in Slots : Share(v, ks[s], ns[s], leg) = Share(v, ls[s], os[s], leg)
  PROVE  ShareSum(v, ks, ns, leg) = ShareSum(v, ls, os, leg)
<1> DEFINE f == [s \in Slots |-> Share(v, ls[s], os[s], leg)]
           g == [s \in Slots |-> Share(v, ks[s], ns[s], leg)]
<1>1. \A s \in Slots : g[s] = f[s]
  OBVIOUS
<1> HIDE DEF f, g
<1>2. SumFunctionOnSet(g, Slots) = SumFunctionOnSet(f, Slots)
  BY <1>1, SlotsFinite, SumEqual
<1> QED BY <1>2 DEF ShareSum, f, g

LEMMA ShareSumZero ==
  ASSUME NEW v, NEW ls, NEW os, NEW leg, \A s \in Slots : Share(v, ls[s], os[s], leg) = 0
  PROVE  ShareSum(v, ls, os, leg) = 0
<1> DEFINE f == [s \in Slots |-> Share(v, ls[s], os[s], leg)]
<1>1. \A s \in Slots : f[s] = 0
  OBVIOUS
<1> HIDE DEF f
<1>2. SumFunctionOnSet(f, Slots) = 0
  BY <1>1, SlotsFinite, SumZero
<1> QED BY <1>2 DEF ShareSum, f

LEMMA ShareSumChange ==
  ASSUME NEW v, NEW ls \in [Slots -> Level], NEW os \in [Slots -> Order],
         NEW ks \in [Slots -> Level], NEW ns \in [Slots -> Order], NEW leg, NEW s \in Slots,
         \A z \in Slots : z # s => ks[z] = ls[z] /\ ns[z] = os[z]
  PROVE  /\ ShareSum(v, ls, os, leg) \in Int
         /\ ShareSum(v, ks, ns, leg)
              = ShareSum(v, ls, os, leg) - Share(v, ls[s], os[s], leg) + Share(v, ks[s], ns[s], leg)
<1> DEFINE f == [z \in Slots |-> Share(v, ls[z], os[z], leg)]
           g == [z \in Slots |-> Share(v, ks[z], ns[z], leg)]
<1>1. \A z \in Slots : f[z] \in Int
  BY ShareInt
<1>2. /\ \A z \in Slots : z # s => g[z] = f[z]
      /\ f[s] = Share(v, ls[s], os[s], leg) /\ g[s] = Share(v, ks[s], ns[s], leg)
  OBVIOUS
<1>3. g[s] \in Int
  BY ShareInt
<1> HIDE DEF f, g
<1>4. SumFunctionOnSet(g, Slots) = SumFunctionOnSet(f, Slots) - f[s] + g[s]
  BY <1>1, <1>2, <1>3, SlotsFinite, SumChange
<1>5. SumFunctionOnSet(f, Slots) \in Int
  BY <1>1, SlotsFinite, SumInt
<1>6. /\ ShareSum(v, ks, ns, leg) = SumFunctionOnSet(g, Slots)
      /\ ShareSum(v, ls, os, leg) = SumFunctionOnSet(f, Slots)
  BY DEF ShareSum, f, g
<1> QED BY <1>2, <1>4, <1>5, <1>6

\* All claims together are within the shares.
LEMMA ClaimsInShares ==
  ASSUME NEW v, NEW ls \in [Slots -> Level], NEW os \in [Slots -> Order],
         NEW ns \in [Slots -> Order], NEW leg,
         \A s \in Slots : Claim(v, ns[s], leg) <= Share(v, ls[s], os[s], leg)
  PROVE  ClaimSum(v, ns, leg) <= ShareSum(v, ls, os, leg)
<1> DEFINE f == [s \in Slots |-> Claim(v, ns[s], leg)]
           g == [s \in Slots |-> Share(v, ls[s], os[s], leg)]
<1>1. \A s \in Slots : f[s] \in Int
  BY ClaimInt
<1>2. \A s \in Slots : g[s] \in Int
  BY ShareInt
<1>3. \A s \in Slots : f[s] <= g[s]
  OBVIOUS
<1> HIDE DEF f, g
<1>4. SumFunctionOnSet(f, Slots) <= SumFunctionOnSet(g, Slots)
  BY <1>1, <1>2, <1>3, SlotsFinite, SumMonotone
<1> QED BY <1>4 DEF ClaimSum, ShareSum, f, g

\* Prices: rounding moves a price by half a tick at most, and half a tick is
\* rounded up.
LEMMA RoundNear ==
  ASSUME NEW x \in Int, NEW t \in Int, t > 0
  PROVE  2 * RoundTo(x, t) + t >= 2 * x /\ (2 * x >= t => RoundTo(x, t) > 0)
<1> DEFINE a == 2 * x + t   d == 2 * t   m == a \div d
<1>1. a \in Int /\ d \in Int /\ d > 0
  OBVIOUS
<1>2. m \in Int /\ a < d * m + d
  <2> HIDE DEF a, d
  <2> QED BY <1>1, DivFacts
<1>3. m * t \in Int /\ d * m = 2 * (m * t)
  <2> HIDE DEF m
  <2> QED BY <1>2
<1>4. RoundTo(x, t) = m * t
  BY DEF RoundTo
<1>5. ASSUME 2 * x >= t PROVE m * t > 0
  <2>1. d * 1 < d * m + d
    <3>1. d * 1 <= a
      BY <1>5
    <3> HIDE DEF a, d, m
    <3> QED BY <1>1, <1>2, <1>3, <3>1
  <2>2. 1 <= m
    <3> HIDE DEF a, d, m
    <3> QED BY <1>1, <1>2, <2>1, TimesReflects
  <2>3. 1 * t <= m * t
    <3> HIDE DEF a, d, m
    <3> QED BY <1>2, <2>2, TimesGrows
  <2> HIDE DEF m
  <2> QED BY <1>3, <2>3
<1>6. 2 * x + t < 2 * (m * t) + 2 * t
  <2> HIDE DEF m
  <2> QED BY <1>2, <1>3
<1> HIDE DEF m
<1> QED BY <1>3, <1>4, <1>5, <1>6

\* A position that waits for its take-profit order gets it: it has a price,
\* the size of the entry, and the exchange takes it.
LEMMA HeldAccepted ==
  ASSUME WholeMinimum, BookedInv, CoinInv, InCoins, NEW s \in Slots, level[s].st = "held"
  PROVE  ExitOrder(level[s]).sz = level[s].got /\ Accepts(ExitOrder(level[s]))
<1> DEFINE l == level[s]
           o == ExitOrder(l)
           px == IF l.short THEN l.px - Spacing ELSE l.px + Spacing
           leg == venue.hedge /\ l.short
           taken == [l EXCEPT !.st = "exit"]
           ns == [order EXCEPT ![s] = o]
<1>1. /\ VShape /\ venue \in Venue /\ l \in Level /\ l.px \in Int /\ l.got \in Int
      /\ l.short \in BOOLEAN /\ order \in [Slots -> Order] /\ level \in [Slots -> Level]
      /\ leg \in BOOLEAN
  BY VenueIs DEF BookedInv, VShape, Level, Venue
<1>2. /\ o \in Order /\ o.st = "live" /\ o.buy = l.short /\ o.leg = leg
      /\ o.reduce = (~venue.hedge /\ ~IsSpot(venue)) /\ o.sz = Size(l.qty) /\ o.filled = 0
      /\ o.px = Price(px)
  BY <1>1, ExitOrderIs
<1>3. /\ CoinSlot(venue, l, order[s]) /\ LotMultiple(l.got) /\ l.got > 0
      /\ l.got >= venue.min /\ l.qty = l.got * venue.ctVal /\ l.px >= 0
      /\ (l.short => 2 * l.px + venue.tick >= 4 * Spacing)
  BY LotsIs DEF CoinInv, CoinSlot
<1>4. o.sz = l.got
  BY <1>1, <1>2, <1>3, SizeReturns
<1>5. o.px > 0
  <2>1. px \in Int /\ 2 * px >= venue.tick
    BY <1>1, <1>3, VenueFacts
  <2> HIDE DEF px
  <2>2. RoundTo(px, venue.tick) > 0
    BY <1>1, <2>1, RoundNear, VenueFacts
  <2> QED BY <1>2, <2>2 DEF Price
<1>6. taken \in Level /\ taken.st = "exit" /\ taken.short = l.short
  BY <1>1 DEF Level
<1>7. l.short => venue.hedge
  BY DEF BookedInv, SlotSound
<1> HIDE DEF l, o, px, leg, taken
<1>8. SlotSound(venue, taken, o)
  BY <1>1, <1>2, <1>3, <1>4, <1>6, <1>7 DEF SlotSound, leg
<1>9. Claim(venue, o, leg) = l.got
  BY <1>1, <1>2, <1>4, <1>6, <1>8, ClaimFacts DEF leg
<1>10. /\ ns \in [Slots -> Order] /\ ns[s] = o /\ \A z \in Slots : z # s => ns[z] = order[z]
  BY <1>1, <1>2
<1> HIDE DEF ns
<1>11. ClaimSum(venue, ns, leg)
         = ClaimSum(venue, order, leg) - Claim(venue, order[s], leg) + Claim(venue, ns[s], leg)
  BY <1>1, <1>10, ClaimSumChange
<1>12. Claim(venue, order[s], leg) = 0
  BY <1>1, ClaimFacts DEF BookedInv, l
<1>13. ASSUME NEW z \in Slots
       PROVE  Claim(venue, ns[z], leg) <= Share(venue, level[z], order[z], leg)
  <2>1. CASE z = s
    <3>1. Share(venue, l, order[s], leg) = l.got
      BY DEF Share, leg, l
    <3> QED BY <1>1, <1>9, <1>10, <2>1, <3>1 DEF l
  <2>2. CASE z # s
    <3>1. SlotSound(venue, level[z], order[z]) /\ CoinSlot(venue, level[z], order[z])
      BY DEF BookedInv, CoinInv
    <3> QED BY <1>1, <1>10, <2>2, <3>1, ShareFacts
  <2> QED BY <2>1, <2>2
<1>14. ClaimSum(venue, ns, leg) <= ShareSum(venue, level, order, leg)
  BY <1>1, <1>10, <1>13, ClaimsInShares
<1>15. ShareSum(venue, level, order, leg) <= account[leg] /\ account[leg] \in Int
  BY <1>1 DEF CoinInv, BookedInv
<1>16. /\ ClaimSum(venue, order, leg) \in Int /\ Claimed(leg) = ClaimSum(venue, order, leg)
       /\ ShareSum(venue, level, order, leg) \in Int
  BY <1>1, ClaimSumInt, ClaimedIs, ShareSumChange
<1>17. Claimed(leg) + o.sz <= account[leg]
  BY <1>1, <1>4, <1>9, <1>10, <1>11, <1>12, <1>14, <1>15, <1>16
<1>18. Accepts(o)
  BY <1>2, <1>3, <1>4, <1>5, <1>17 DEF Accepts
<1> QED BY <1>4, <1>18 DEF o, l

\* A step that writes one slot, leaves the account, and neither adds to nor
\* takes from what the slot holds.
LEMMA CoinWritten ==
  ASSUME BookedInv, CoinInv, InCoins, NEW s \in Slots, OneSlot(s), account' = account,
         CoinSlot(venue, level'[s], order'[s]),
         \A leg \in BOOLEAN :
           Share(venue, level'[s], order'[s], leg) = Share(venue, level[s], order[s], leg)
  PROVE  CoinInv'
<1>1. \A z \in Slots : CoinSlot(venue, level'[z], order'[z])
  BY DEF OneSlot, CoinInv
<1>2. ASSUME NEW leg \in BOOLEAN PROVE ShareSum(venue, level', order', leg) <= account'[leg]
  <2>1. \A z \in Slots :
          Share(venue, level'[z], order'[z], leg) = Share(venue, level[z], order[z], leg)
    BY DEF OneSlot
  <2>2. ShareSum(venue, level', order', leg) = ShareSum(venue, level, order, leg)
    BY <2>1, ShareSumSame
  <2> QED BY <2>2 DEF CoinInv
<1> QED BY <1>1, <1>2 DEF CoinInv, OneSlot

\* placeExitFor writes the position with its exit, or without one.
LEMMA PlaceExitIs ==
  ASSUME VShape, NEW s \in Slots, NEW l \in Level, PlaceExit(s, l), venue' = venue
  PROVE  /\ OneSlot(s)
         /\ \/ /\ level'[s] = [l EXCEPT !.st = "exit"] /\ order'[s] = ExitOrder(l)
            \/ level'[s] = l /\ order'[s] = NoOrder
<1> DEFINE o == ExitOrder(l)
           taken == [l EXCEPT !.st = "exit"]
<1>1. o \in Order /\ taken \in Level
  BY ExitOrderIs DEF Level
<1>2. CASE level' = [level EXCEPT ![s] = taken] /\ order' = [order EXCEPT ![s] = o]
  <2> HIDE DEF o, taken
  <2>1. OneSlot(s) /\ level'[s] = taken /\ order'[s] = o
    BY <1>1, <1>2 DEF OneSlot, VShape
  <2> QED BY <2>1 DEF o, taken
<1>3. CASE level' = [level EXCEPT ![s] = l] /\ order' = [order EXCEPT ![s] = NoOrder]
  BY <1>3, EmptyShapes DEF OneSlot, VShape
<1> QED BY <1>2, <1>3 DEF PlaceExit

LEMMA PlaceExitCoin ==
  ASSUME WholeMinimum, BookedInv, CoinInv, InCoins, NEW s \in Slots, NEW l \in Level,
         l.st = "held", CoinSlot(venue, l, NoOrder), PlaceExit(s, l), UNCHANGED <<venue, account>>,
         \A leg \in BOOLEAN :
           Share(venue, l, NoOrder, leg) = Share(venue, level[s], order[s], leg)
  PROVE  CoinInv'
<1> DEFINE o == ExitOrder(l)
           taken == [l EXCEPT !.st = "exit"]
<1>1. /\ VShape /\ l.got \in Int
      /\ LotMultiple(l.got) /\ l.got > 0 /\ l.qty = l.got * venue.ctVal
  BY LotsIs DEF BookedInv, CoinSlot, Level
<1>2. o.sz = Size(l.qty) /\ o.filled = 0
  BY <1>1, ExitOrderIs
<1>3. o.sz = l.got
  BY <1>1, <1>2, SizeReturns
<1>4. /\ taken.st = "exit" /\ taken.got = l.got /\ taken.qty = l.qty /\ taken.px = l.px
      /\ taken.short = l.short
  BY DEF Level
<1> HIDE DEF o, taken
<1>5. CoinSlot(venue, taken, o)
  BY <1>3, <1>4 DEF CoinSlot
<1>6. \A leg : Share(venue, taken, o, leg) = Share(venue, l, NoOrder, leg)
  BY <1>1, <1>2, <1>3, <1>4 DEF Share
<1>7. /\ OneSlot(s)
      /\ \/ level'[s] = taken /\ order'[s] = o
         \/ level'[s] = l /\ order'[s] = NoOrder
  BY <1>1, PlaceExitIs DEF o, taken
<1> QED BY <1>5, <1>6, <1>7, CoinWritten

LEMMA PlaceEntryCoin ==
  ASSUME WholeMinimum, RoomBelow, BookedInv, CoinInv, InCoins, NEW s \in Slots, NEW px \in Levels,
         NEW qty \in Sizes, NEW short \in BOOLEAN, PlaceEntry(s, px, qty, short)
  PROVE  CoinInv'
<1> DEFINE o == EntryOrder(px, qty, short)
           l == [st |-> "entry", qty |-> qty, px |-> px, short |-> short,
                 got |-> 0, paid |-> 0]
<1>1. px \in Int /\ qty \in Int /\ VShape /\ px >= 2 * Spacing
  BY VenueOrdersAssumption DEF BookedInv, RoomBelow
<1>2. o \in Order /\ o.sz = Size(qty) /\ o.filled = 0
  BY <1>1, EntryOrderIs
<1>3. l \in Level /\ l.st = "entry" /\ l.short = short /\ l.px = px
  BY <1>1 DEF Level
<1>4. /\ level' = [level EXCEPT ![s] = l] /\ order' = [order EXCEPT ![s] = o]
      /\ UNCHANGED <<venue, account>> /\ o.sz >= venue.min /\ level[s].st = "empty"
  BY DEF PlaceEntry, Accepts
<1> HIDE DEF o, l
<1>5. OneSlot(s) /\ level'[s] = l /\ order'[s] = o
  BY <1>1, <1>2, <1>3, <1>4 DEF OneSlot, VShape
<1>6. LotMultiple(o.sz)
  BY <1>1, <1>2, SizeWhole
<1>7. CoinSlot(venue, l, o)
  BY <1>1, <1>3, <1>4, <1>6, LotsIs DEF CoinSlot
<1>8. \A leg : Share(venue, l, o, leg) = 0 /\ Share(venue, level[s], order[s], leg) = 0
  BY <1>2, <1>3, <1>4 DEF Share
<1> QED BY <1>4, <1>5, <1>7, <1>8, CoinWritten

LEMMA EntryFilledCoin ==
  ASSUME WholeMinimum, VInv, BookedInv, CoinInv, InCoins, NEW s \in Slots, EntryFilled(s)
  PROVE  CoinInv'
<1> DEFINE l == level[s]
           o == order[s]
           h == Recorded(l, o)
<1>1. /\ VShape /\ l \in Level /\ o \in Order /\ l.px \in Int /\ l.short \in BOOLEAN
      /\ o.sz \in Int /\ o.filled \in Int /\ o.avg \in Int
  BY DEF BookedInv, VShape, Level, Order
<1>2. /\ l.st = "entry" /\ o.st = "filled" /\ PlaceExit(s, h) /\ UNCHANGED <<venue, account>>
  BY DEF EntryFilled, Recorded
<1>3. /\ SlotSound(venue, l, o) /\ CoinSlot(venue, l, o) /\ EntrySound(l, o)
  BY <1>2 DEF BookedInv, CoinInv, VInv
<1>4. /\ o.filled = o.sz /\ o.sz > 0 /\ Lots(venue, o.sz) /\ o.sz >= venue.min
      /\ l.px >= 2 * Spacing
  BY <1>2, <1>3 DEF SlotSound, CoinSlot
<1>5. /\ h \in Level /\ h.st = "held" /\ h.short = l.short /\ h.got = o.filled
      /\ h.qty = (IF Report(o).filled > 0 THEN Report(o).filled ELSE l.qty)
      /\ h.px = (IF Report(o).avg > 0 THEN Report(o).avg ELSE l.px)
  BY <1>1, RecordedIs
<1>6. Report(o).filled = o.filled * venue.ctVal
  <2>1. CASE venue.type = "okx"
    BY <2>1 DEF Report, NumberReported, InCoins
  <2>2. CASE venue.type # "okx"
    <3>1. venue.ctVal = 1
      BY <1>1, <2>2, VenueOrdersAssumption DEF VShape
    <3> QED BY <1>1, <2>2, <3>1 DEF Report, NumberReported
  <2> QED BY <2>1, <2>2
<1>7. Report(o).avg \in {0, o.avg}
  BY DEF Report
<1> HIDE DEF h, o, l
<1>8. h.qty = h.got * venue.ctVal
  <2>1. venue.ctVal \in Int /\ venue.ctVal > 0
    BY <1>1, VenueFacts
  <2>2. o.filled * venue.ctVal > 0
    BY <1>1, <1>4, <2>1
  <2> QED BY <1>5, <1>6, <2>2
<1>9. h.px >= 0 /\ (h.short => 2 * h.px + venue.tick >= 4 * Spacing)
  <2>1. /\ venue.tick \in Int /\ venue.tick > 0 /\ Spacing \in Int /\ Spacing >= 0
    BY <1>1, VenueFacts, VenueOrdersAssumption
  <2>2. CASE h.px = l.px
    BY <1>1, <1>4, <2>1, <2>2
  <2>3. CASE h.px = o.avg /\ o.avg > 0
    <3>1. l.short => o.avg >= Price(l.px)
      BY <1>3, <1>4 DEF EntrySound, AtOrBetter
    <3>2. 2 * Price(l.px) + venue.tick >= 2 * l.px
      BY <1>1, <2>1, RoundNear DEF Price
    <3>3. Price(l.px) \in Int
      BY <1>1, PriceInt
    <3> QED BY <1>1, <1>4, <1>5, <2>1, <2>3, <3>1, <3>2, <3>3
  <2> QED BY <1>1, <1>5, <1>7, <2>2, <2>3
<1>10. CoinSlot(venue, h, NoOrder)
  BY <1>4, <1>5, <1>8, <1>9 DEF CoinSlot
<1>11. \A leg : Share(venue, h, NoOrder, leg) = Share(venue, l, o, leg)
  BY <1>2, <1>5 DEF Share
<1> QED BY <1>2, <1>5, <1>10, <1>11, PlaceExitCoin DEF l, o

LEMMA EnsureTakeProfitCoin ==
  ASSUME WholeMinimum, BookedInv, CoinInv, InCoins, NEW s \in Slots, EnsureTakeProfit(s)
  PROVE  CoinInv'
<1> DEFINE l == level[s]
<1>1. /\ l \in Level /\ l.st = "held" /\ PlaceExit(s, l) /\ UNCHANGED <<venue, account>>
      /\ CoinSlot(venue, l, order[s])
  BY DEF EnsureTakeProfit, BookedInv, VShape, CoinInv
<1> HIDE DEF l
<1>2. CoinSlot(venue, l, NoOrder)
  BY <1>1 DEF CoinSlot
<1>3. \A leg : Share(venue, l, NoOrder, leg) = Share(venue, l, order[s], leg)
  BY <1>1 DEF Share
<1> QED BY <1>1, <1>2, <1>3, PlaceExitCoin DEF l

LEMMA ExitFilledCoin ==
  ASSUME BookedInv, CoinInv, InCoins, NEW s \in Slots, ExitFilled(s)
  PROVE  CoinInv'
<1>1. /\ level[s].st = "exit" /\ order[s].st = "filled" /\ order[s].sz \in Int
      /\ SlotSound(venue, level[s], order[s])
  BY DEF ExitFilled, BookedInv, VShape, Order
<1>2. OneSlot(s) /\ level'[s] = NoLevel /\ order'[s] = NoOrder /\ account' = account
  BY EmptyShapes DEF ExitFilled, OneSlot, BookedInv, VShape
<1>3. CoinSlot(venue, NoLevel, NoOrder)
  BY DEF CoinSlot, NoLevel
<1>4. \A leg : Share(venue, NoLevel, NoOrder, leg) = 0
  BY DEF Share, NoLevel
<1>5. \A leg : Share(venue, level[s], order[s], leg) = 0
  BY <1>1 DEF Share, SlotSound
<1> QED BY <1>2, <1>3, <1>4, <1>5, CoinWritten

LEMMA TradeCoin ==
  ASSUME BookedInv, CoinInv, InCoins, NEW s \in Slots, Trade(s)
  PROVE  CoinInv'
<1> DEFINE l == level[s]
           o == order[s]
           t == order'[s]
<1>1. VShape /\ OneSlot(s)
  BY TradeIs DEF BookedInv
<1>2. PICK n \in Int : Traded(s, n)
  BY <1>1, TradeIs
<1>3. /\ l \in Level /\ o \in Order /\ t \in Order /\ venue \in Venue /\ SlotSound(venue, l, o)
      /\ CoinSlot(venue, l, o) /\ account \in [BOOLEAN -> Int]
      /\ o.filled \in Int /\ o.sz \in Int /\ o.leg \in BOOLEAN
  BY <1>1, <1>2, VenueIs DEF BookedInv, VShape, Traded, Order, CoinInv
<1>4. l.st \in {"entry", "exit"} /\ o.leg = (venue.hedge /\ l.short)
  BY <1>2, <1>3 DEF Traded, SlotSound, Level
<1>5. CoinSlot(venue, l, t)
  BY <1>2, <1>3 DEF Traded, CoinSlot
<1>6. \A z \in Slots : CoinSlot(venue, level'[z], order'[z])
  <2>1. CoinSlot(venue, level'[s], order'[s])
    BY <1>2, <1>5 DEF Traded
  <2> QED BY <1>1, <2>1 DEF OneSlot, CoinInv
<1>7. ASSUME NEW leg \in BOOLEAN PROVE ShareSum(venue, level', order', leg) <= account'[leg]
  <2>1. /\ level \in [Slots -> Level] /\ order \in [Slots -> Order]
        /\ level' \in [Slots -> Level] /\ order' \in [Slots -> Order]
        /\ \A z \in Slots : z # s => level'[z] = level[z] /\ order'[z] = order[z]
    BY <1>1 DEF OneSlot, VShape
  <2>2. /\ ShareSum(venue, level, order, leg) \in Int
        /\ ShareSum(venue, level', order', leg)
             = ShareSum(venue, level, order, leg) - Share(venue, l, o, leg)
               + Share(venue, level'[s], t, leg)
    BY <2>1, ShareSumChange
  <2>3. level'[s] = l
    BY <1>2 DEF Traded
  <2>4. ShareSum(venue, level, order, leg) <= account[leg] /\ account[leg] \in Int
    BY <1>3 DEF CoinInv
  <2>5. n \in Int /\ t.filled = o.filled + n /\ t.sz = o.sz
    BY <1>2 DEF Traded
  <2>6. CASE leg # o.leg
    <3>1. Share(venue, l, o, leg) = 0 /\ Share(venue, l, t, leg) = 0
      BY <1>4, <2>6 DEF Share
    <3>2. account'[leg] = account[leg]
      BY <1>2, <1>3, <2>6 DEF Traded
    <3> QED BY <2>2, <2>3, <2>4, <3>1, <3>2
  <2>7. CASE leg = o.leg /\ l.st = "entry"
    <3>1. Share(venue, l, o, leg) = o.filled /\ Share(venue, l, t, leg) = t.filled
      BY <1>4, <2>7 DEF Share
    <3>2. Adds(o)
      BY <1>3, <2>7 DEF SlotSound, Adds, Level, Venue
    <3>3. account'[leg] = account[leg] + n
      BY <1>2, <1>3, <2>7, <3>2 DEF Traded
    <3> QED BY <1>3, <2>2, <2>3, <2>4, <2>5, <3>1, <3>3
  <2>8. CASE leg = o.leg /\ l.st = "exit"
    <3>1. Share(venue, l, o, leg) = o.sz - o.filled /\ Share(venue, l, t, leg) = t.sz - t.filled
      BY <1>4, <2>8 DEF Share
    <3>2. ~Adds(o)
      BY <1>3, <1>4, <2>8 DEF SlotSound, Adds, Level, Venue
    <3>3. account'[leg] = account[leg] - n
      BY <1>2, <1>3, <2>8, <3>2 DEF Traded
    <3> QED BY <1>3, <2>2, <2>3, <2>4, <2>5, <3>1, <3>3
  <2> QED BY <1>4, <2>6, <2>7, <2>8
<1> QED BY <1>1, <1>6, <1>7 DEF CoinInv, OneSlot

LEMMA ForceCloseCoin ==
  ASSUME BookedInv, CoinInv, InCoins, NEW short \in BOOLEAN, ForceClose(short)
  PROVE  CoinInv'
<1>1. Emptied(short) /\ venue' = venue /\ (short => venue.hedge)
  BY ForceCloseIs DEF Emptied
<1>2. PICK n \in Int : /\ account' = [account EXCEPT ![Leg(short)] = @ - n]
                       /\ n <= account[Leg(short)]
  BY ForceCloseIs
<1>3. /\ account \in [BOOLEAN -> Int] /\ Leg(short) = (venue.hedge /\ short)
      /\ venue \in Venue /\ venue.hedge \in BOOLEAN /\ Leg(short) \in BOOLEAN
      /\ level \in [Slots -> Level] /\ order \in [Slots -> Order]
      /\ \A s \in Slots : SlotSound(venue, level[s], order[s])
  BY VenueIs DEF BookedInv, VShape, Leg, Venue
<1>4. \A s \in Slots : CoinSlot(venue, level'[s], order'[s])
  <2>1. CoinSlot(venue, NoLevel, NoOrder)
    BY DEF CoinSlot, NoLevel
  <2> QED BY <1>1, <2>1 DEF Emptied, CoinInv
<1>5. ASSUME NEW s \in Slots, NEW leg
      PROVE  \/ Share(venue, level'[s], order'[s], leg) = Share(venue, level[s], order[s], leg)
             \/ leg = Leg(short) /\ Share(venue, level'[s], order'[s], leg) = 0
  <2>1. CASE level'[s] = level[s] /\ order'[s] = order[s]
    BY <2>1
  <2>2. CASE level[s].short = short /\ level'[s] = NoLevel
    <3>1. Share(venue, level'[s], order'[s], leg) = 0
      BY <2>2 DEF Share, NoLevel
    <3>2. leg # Leg(short) => Share(venue, level[s], order[s], leg) = 0
      BY <1>3, <2>2 DEF Share
    <3> QED BY <3>1, <3>2
  <2> QED BY <1>1, <2>1, <2>2 DEF Emptied
<1>6. ASSUME NEW s \in Slots PROVE Share(venue, level'[s], order'[s], Leg(short)) = 0
  <2>1. CASE level'[s] = NoLevel
    BY <2>1 DEF Share, NoLevel
  <2>2. CASE /\ level'[s] = level[s] /\ order'[s] = order[s]
             /\ ~(level[s].st \in {"held", "exit"} /\ level[s].short = short)
    <3>1. level[s].short \in BOOLEAN /\ (level[s].short => venue.hedge)
      BY <1>3 DEF Level, SlotSound
    <3>2. level[s].st = "entry" /\ level[s].short = short => order[s].filled = 0
      BY DEF ForceClose
    <3> QED BY <1>1, <1>3, <2>2, <3>1, <3>2 DEF Share
  <2> QED BY <1>1, <2>1, <2>2 DEF Emptied
<1>7. ASSUME NEW leg \in BOOLEAN PROVE ShareSum(venue, level', order', leg) <= account'[leg]
  <2>1. CASE leg = Leg(short)
    <3>1. ShareSum(venue, level', order', leg) = 0
      BY <1>6, <2>1, ShareSumZero
    <3>2. account'[leg] = account[leg] - n /\ n <= account[leg] /\ account[leg] \in Int
      BY <1>2, <1>3, <2>1
    <3> QED BY <3>1, <3>2
  <2>2. CASE leg # Leg(short)
    <3>1. ShareSum(venue, level', order', leg) = ShareSum(venue, level, order, leg)
      BY <1>5, <2>2, ShareSumSame
    <3>2. account'[leg] = account[leg]
      BY <1>2, <1>3, <2>2
    <3> QED BY <3>1, <3>2 DEF CoinInv
  <2> QED BY <2>1, <2>2
<1> QED BY <1>1, <1>4, <1>7 DEF CoinInv

\* Where quantities come back in coins, a take-profit order is for exactly what
\* its entry order bought, and the exchange always takes it: for every number
\* of levels, every lot, tick and contract value, provided that a minimum
\* order size is one lot and that the levels are no lower than twice the
\* spacing.
THEOREM ExitsCloseEntries ==
  ASSUME WholeMinimum, RoomBelow PROVE Spec => []ExitClosesEntry
<1>1. Init => CoinInv
  <2> SUFFICES ASSUME Init PROVE CoinInv
    OBVIOUS
  <2>1. \A s \in Slots : level[s] = NoLevel /\ order[s] = NoOrder
    BY DEF Init
  <2>2. \A s \in Slots, leg \in BOOLEAN : Share(venue, level[s], order[s], leg) = 0
    BY <2>1 DEF Share, NoLevel
  <2>3. \A leg \in BOOLEAN : ShareSum(venue, level, order, leg) = 0
    BY <2>2, ShareSumZero
  <2>4. \A s \in Slots : CoinSlot(venue, level[s], order[s])
    BY <2>1 DEF CoinSlot, NoLevel
  <2>5. \A leg \in BOOLEAN : account[leg] = 0
    BY DEF Init
  <2> QED BY <2>3, <2>4, <2>5 DEF CoinInv
<1>2. VInv /\ BookedInv /\ CoinInv /\ [Next]_vars => CoinInv'
  <2> SUFFICES ASSUME VInv, BookedInv, CoinInv, [Next]_vars PROVE CoinInv'
    OBVIOUS
  <2>1. CASE UNCHANGED vars
    BY <2>1 DEF vars, CoinInv, InCoins
  <2>2. CASE Next
    <3>1. venue' = venue
      BY <2>2 DEF Next, PlaceEntry, Trade, EntryFilled, EnsureTakeProfit, ExitFilled, ForceClose
    <3>2. CASE ~InCoins
      BY <3>1, <3>2 DEF CoinInv, InCoins
    <3>3. CASE InCoins
      BY <2>2, <3>3, PlaceEntryCoin, TradeCoin, EntryFilledCoin, EnsureTakeProfitCoin,
         ExitFilledCoin, ForceCloseCoin DEF Next
    <3> QED BY <3>2, <3>3
  <2> QED BY <2>1, <2>2
<1>3. BookedInv /\ CoinInv => ExitClosesEntry
  BY HeldAccepted DEF ExitClosesEntry, CoinInv, CoinSlot
<1> QED BY <1>1, <1>2, <1>3, RoundTripInvariance, ClaimsInvariance, PTL DEF Spec
=============================================================================
