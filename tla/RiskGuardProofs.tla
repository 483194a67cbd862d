-------------------------- MODULE RiskGuardProofs --------------------------
(***************************************************************************)
(* What the risk guard does promise, for any number of symbols and any     *)
(* limits.                                                                 *)
(***************************************************************************)
EXTENDS RiskGuard, TLAPS

\* A call in progress saw a position that leaves, whatever has filled or
\* closed since, at most the other levels' orders above it and what filled
\* unknown to any level; the level it means to fill is still Empty.
CallsBounded ==
  \A s \in Symbols :
    /\ call[s].step # "idle" => /\ held[s] + open[s] <= call[s].seen + Levels - 1 + strayed[s]
                                /\ open[s] + taken[s] < Levels
    /\ call[s].step = "approved" => call[s].seen + 1 <= MaxPosition

\* Orders rest on levels only where the limit has room for one.
SomeRoom ==
  \A s \in Symbols : open[s] > 0 => MaxPosition >= 1

GuardInv ==
  /\ TypeOK
  /\ CallsBounded
  /\ ExposureBounded
  /\ SomeRoom

\* Every step keeps the invariant: only Send adds to what the levels have
\* resting, and it does so after a read that left room for it; a stray order
\* that fills adds to both sides of the bound.
LEMMA GuardInductive == GuardInv /\ [Next]_vars => GuardInv'
<1> USE RiskGuardAssumption
<1> SUFFICES ASSUME GuardInv, [Next]_vars PROVE GuardInv'
  OBVIOUS
<1> USE DEF GuardInv, TypeOK, CallsBounded, ExposureBounded, SomeRoom, account
<1>1. ASSUME NEW s \in Symbols, ReadState(s) PROVE GuardInv'
  BY <1>1, SMTT(60) DEF ReadState, HasEmptyLevel
<1>2. ASSUME NEW s \in Symbols, Evaluate(s) PROVE GuardInv'
  <2>1. CASE Approved(call[s].seen)
    <3>1. call[s].seen + 1 <= MaxPosition
      BY <2>1 DEF Approved
    <3>2. call' = [call EXCEPT ![s] = [call[s] EXCEPT !.step = "approved"]]
      BY <1>2, <2>1 DEF Evaluate
    <3> QED
      BY <1>2, <3>1, <3>2, SMTT(60) DEF Evaluate
  <2>2. CASE ~Approved(call[s].seen)
    <3>1. call' = [call EXCEPT ![s] = NoCall]
      BY <1>2, <2>2 DEF Evaluate
    <3> QED
      BY <1>2, <3>1, SMTT(60) DEF Evaluate, NoCall
  <2> QED BY <2>1, <2>2
<1>3. ASSUME NEW s \in Symbols, Send(s) PROVE GuardInv'
  <2>1. /\ call[s].seen \in Nat /\ call[s].seen + 1 <= MaxPosition
        /\ held[s] + open[s] <= call[s].seen + Levels - 1 + strayed[s]
        /\ open[s] + taken[s] < Levels
    BY <1>3 DEF Send
  <2>2. call' = [call EXCEPT ![s] = NoCall] /\ UNCHANGED <<taken, held, strayed, breaker, overtaken>>
    BY <1>3 DEF Send
  <2>3. CASE open' = [open EXCEPT ![s] = @ + 1] /\ UNCHANGED stray
    BY <2>1, <2>2, <2>3, SMTT(60) DEF NoCall
  <2>4. CASE UNCHANGED <<open, stray>>
    BY <2>2, <2>4, SMTT(60) DEF NoCall
  <2>5. CASE stray' = [stray EXCEPT ![s] = @ + 1] /\ UNCHANGED open
    BY <2>2, <2>5, SMTT(60) DEF NoCall
  <2> QED BY <1>3, <2>3, <2>4, <2>5 DEF Send
<1>4. ASSUME NEW s \in Symbols, EntryFills(s) \/ EntryGoes(s) PROVE GuardInv'
  <2>1. CASE EntryFills(s)
    BY <2>1, SMTT(60) DEF EntryFills
  <2>2. CASE EntryGoes(s)
    BY <2>2, SMTT(60) DEF EntryGoes
  <2> QED BY <1>4, <2>1, <2>2
<1>5. ASSUME NEW s \in Symbols, StrayFills(s) PROVE GuardInv'
  BY <1>5, SMTT(60) DEF StrayFills
<1>6. ASSUME NEW s \in Symbols, PositionCloses(s) PROVE GuardInv'
  BY <1>6, SMTT(60) DEF PositionCloses, Lower
<1>7. ASSUME NEW s \in Symbols, LevelFreed(s) PROVE GuardInv'
  BY <1>7, SMTT(60) DEF LevelFreed
<1>8. ASSUME NEW s \in Symbols, Recenter(s) PROVE GuardInv'
  BY <1>8, SMTT(60) DEF Recenter
<1>9. CASE Restart
  <2>1. \A s \in Symbols : open'[s] = 0 /\ call'[s] = NoCall
    BY <1>9 DEF Restart
  <2>2. TypeOK'
    <3>1. NoCall \in [step : {"idle", "read", "approved"}, seen : Nat]
      BY DEF NoCall
    <3>2. call' \in [Symbols -> [step : {"idle", "read", "approved"}, seen : Nat]]
      BY <3>1, <1>9 DEF Restart
    <3>3. open' \in [Symbols -> 0 .. Levels] /\ taken' \in [Symbols -> 0 .. Levels]
      BY <1>9 DEF Restart
    <3>4. \A s \in Symbols : open'[s] + taken'[s] <= Levels
      BY <2>1, <3>3
    <3>5. stray' \in [Symbols -> Nat]
      BY <1>9 DEF Restart
    <3> QED
      BY <3>2, <3>3, <3>4, <3>5, <1>9 DEF Restart
  <2>3. CallsBounded' /\ SomeRoom'
    BY <2>1 DEF NoCall
  <2>4. ExposureBounded'
    <3>1. UNCHANGED <<held, strayed>>
      BY <1>9 DEF Restart
    <3> QED
      BY <2>1, <3>1
  <2> QED BY <2>2, <2>3, <2>4
<1>10. CASE Trip \/ CooldownOver \/ UNCHANGED vars
  BY <1>10 DEF Trip, CooldownOver, vars
<1> QED
  BY <1>1, <1>2, <1>3, <1>4, <1>5, <1>6, <1>7, <1>8, <1>9, <1>10 DEF Next

\* The program starts with no order and no position.
LEMMA GuardInit == Init => GuardInv
<1> SUFFICES ASSUME Init PROVE GuardInv
  OBVIOUS
<1>1. TypeOK
  <2>1. NoCall \in [step : {"idle", "read", "approved"}, seen : Nat]
    BY DEF NoCall
  <2>2. 0 \in 0 .. Levels /\ 0 + 0 <= Levels
    BY RiskGuardAssumption
  <2> QED
    BY <2>1, <2>2 DEF Init, TypeOK
<1>2. CallsBounded
  BY DEF Init, CallsBounded, NoCall
<1>3. ExposureBounded
  <2>1. 0 + 0 <= MaxPosition + Levels - 1 + 0
    BY RiskGuardAssumption
  <2>2. \A s \in Symbols : held[s] = 0 /\ open[s] = 0 /\ strayed[s] = 0
    BY DEF Init
  <2> QED
    BY <2>1, <2>2 DEF ExposureBounded
<1>4. SomeRoom
  BY DEF Init, SomeRoom
<1> QED
  BY <1>1, <1>2, <1>3, <1>4 DEF GuardInv

\* The limit on a symbol's position holds up to the orders the other levels
\* can have resting and what filled while no level knew of it, for every
\* interleaving of reads, verdicts, sends, fills, lost answers, failed
\* cancellations and restarts.
THEOREM ExposureTheorem == Spec => []ExposureBounded
<1>1. GuardInv => ExposureBounded
  BY DEF GuardInv
<1> QED
  BY <1>1, GuardInit, GuardInductive, PTL DEF Spec

\* The guard's state keeps its types: the orders that levels wait for and the
\* positions that levels hold never share a level, whatever rests besides.
THEOREM GuardTypes == Spec => []TypeOK
<1>1. GuardInv => TypeOK
  BY DEF GuardInv
<1> QED
  BY <1>1, GuardInit, GuardInductive, PTL DEF Spec

-----------------------------------------------------------------------------
(* The circuit breaker                                                     *)

\* While the breaker is on, a call that is past the judgement was judged
\* before it tripped.
ApprovedBefore ==
  breaker => \A s \in Symbols : call[s].step = "approved" => overtaken[s]

\* Only Evaluate approves, and not while the breaker is on; Trip marks the
\* calls it overtakes, in all symbols.
LEMMA BreakerInductive == TypeOK /\ ApprovedBefore /\ [Next]_vars => ApprovedBefore'
<1> SUFFICES ASSUME TypeOK, ApprovedBefore, [Next]_vars PROVE ApprovedBefore'
  OBVIOUS
<1>1. ASSUME NEW s \in Symbols, ReadState(s) PROVE ApprovedBefore'
  BY <1>1 DEF ReadState, TypeOK, ApprovedBefore
<1>2. ASSUME NEW s \in Symbols, Evaluate(s) PROVE ApprovedBefore'
  <2>1. CASE breaker
    <3>1. call' = [call EXCEPT ![s] = NoCall]
      BY <1>2, <2>1 DEF Evaluate, Approved
    <3>2. \A u \in Symbols : call'[u].step = "approved" => u # s /\ call[u].step = "approved"
      BY <3>1 DEF TypeOK, NoCall
    <3>3. \A u \in Symbols : u # s => overtaken'[u] = overtaken[u]
      BY <1>2 DEF Evaluate, TypeOK
    <3> QED
      BY <2>1, <3>2, <3>3 DEF ApprovedBefore
  <2>2. CASE ~breaker
    BY <1>2, <2>2 DEF Evaluate, ApprovedBefore
  <2> QED BY <2>1, <2>2
<1>3. ASSUME NEW s \in Symbols, Send(s) PROVE ApprovedBefore'
  BY <1>3 DEF Send, NoCall, TypeOK, ApprovedBefore
<1>4. ASSUME NEW s \in Symbols,
             \/ EntryFills(s) \/ EntryGoes(s) \/ StrayFills(s) \/ PositionCloses(s)
             \/ LevelFreed(s) \/ Recenter(s)
      PROVE ApprovedBefore'
  BY <1>4 DEF EntryFills, EntryGoes, StrayFills, PositionCloses, LevelFreed, Recenter,
              ApprovedBefore
<1>5. CASE Restart
  BY <1>5 DEF Restart, ApprovedBefore
<1>6. CASE Trip
  BY <1>6 DEF Trip, ApprovedBefore
<1>7. CASE CooldownOver
  BY <1>7 DEF CooldownOver, ApprovedBefore
<1>8. CASE UNCHANGED vars
  BY <1>8 DEF vars, ApprovedBefore
<1> QED
  BY <1>1, <1>2, <1>3, <1>4, <1>5, <1>6, <1>7, <1>8 DEF Next

\* Of all steps only Send puts an order on the exchange, and it sends what
\* Evaluate approved.
LEMMA SendsApproved ==
  ASSUME TypeOK, [Next]_vars, NEW s \in Symbols,
         open'[s] + stray'[s] > open[s] + stray[s]
  PROVE  call[s].step = "approved"
<1> USE RiskGuardAssumption DEF TypeOK
<1>1. ASSUME NEW u \in Symbols, Send(u) PROVE call[s].step = "approved"
  BY <1>1 DEF Send
<1>2. ASSUME NEW u \in Symbols, EntryFills(u) \/ EntryGoes(u) \/ StrayFills(u) PROVE FALSE
  BY <1>2 DEF EntryFills, EntryGoes, StrayFills
<1>3. ASSUME NEW u \in Symbols, Recenter(u) PROVE FALSE
  BY <1>3 DEF Recenter
<1>4. CASE Restart
  BY <1>4 DEF Restart
<1>5. ASSUME NEW u \in Symbols,
             ReadState(u) \/ Evaluate(u) \/ PositionCloses(u) \/ LevelFreed(u)
      PROVE  FALSE
  BY <1>5 DEF ReadState, Evaluate, PositionCloses, LevelFreed, account
<1>6. CASE Trip \/ CooldownOver \/ UNCHANGED vars
  BY <1>6 DEF Trip, CooldownOver, vars, account
<1> QED
  BY <1>1, <1>2, <1>3, <1>4, <1>5, <1>6 DEF Next

\* A breaker that one symbol's trader trips holds back the entries of every
\* symbol, but for the calls already past the judgement: for any number of
\* traders between any two of their steps.
THEOREM BreakerHolds == Spec => BreakerHoldsEntries
<1> DEFINE Held == \A s \in Symbols : breaker /\ open'[s] + stray'[s] > open[s] + stray[s] => overtaken[s]
<1>1. Init => ApprovedBefore
  BY DEF Init, ApprovedBefore
<1>2. TypeOK /\ ApprovedBefore /\ [Next]_vars => Held
  <2> SUFFICES ASSUME TypeOK, ApprovedBefore, [Next]_vars, NEW s \in Symbols,
                      breaker, open'[s] + stray'[s] > open[s] + stray[s]
               PROVE  overtaken[s]
    OBVIOUS
  <2>1. call[s].step = "approved"
    BY SendsApproved
  <2> QED
    BY <2>1 DEF ApprovedBefore
<1>3. TypeOK /\ ApprovedBefore /\ [Next]_vars => [Held]_vars
  BY <1>2
<1> HIDE DEF Held
<1>4. Spec => [][Held]_vars
  BY <1>1, <1>3, GuardTypes, BreakerInductive, PTL DEF Spec
<1> QED
  BY <1>4 DEF Held, BreakerHoldsEntries
=============================================================================
