------------------------------ MODULE BooksProofs ------------------------------
(***************************************************************************)
(* Proofs about Books: a fill is applied once, a trade of the operator's   *)
(* is tallied once and never without its row, and the running totals count *)
(* a settlement at most once for its row and once for each write that      *)
(* failed, for any orders, trades, sizes, crashes, faults and              *)
(* interleavings.                                                          *)
(***************************************************************************)
EXTENDS Books, TLAPS

USE BooksAssumption

-----------------------------------------------------------------------------
(* The inductive invariant.                                                *)

\* The trade in hand is one of those fetched.
Batch ==
    /\ pos.at \in {"look", "book", "accrue"} => pos.next >= 1 /\ pos.last <= Len(history)
    /\ pos.at \in {"book", "accrue"} => pos.next <= pos.last

\* A call that has looked up its order and found nothing is the only one that
\* will record it.
Looked == \A o \in Orders : rec[o] = "checked" => fills[o] = 0

\* The trade the sweep has in hand: not tallied, and on the ledger once it is to
\* be.
Tally ==
    /\ pos.at \in {"book", "accrue"} => tallied[history[pos.next]] = 0
    /\ pos.at = "accrue" => byTrade[history[pos.next]] # NoRow

\* The settlement in hand: not on the ledger when it is to be booked; one that was
\* not known is behind what its row and its failed writes allow.
InHand ==
    /\ res.at = "book" => bySettle[res.token] = NoRow
    /\ res.at = "clean" /\ ~res.known =>
         accrued[res.token] < missed[res.token]
                                + (IF bySettle[res.token] = NoRow THEN 0 ELSE 1)

IInv ==
    /\ TypeOK
    /\ Batch
    /\ Looked
    /\ RecordedOnce
    /\ Tally
    /\ TalliedOnce
    /\ InHand
    /\ AccruedOnce

-----------------------------------------------------------------------------

\* The tasks start well formed.
LEMMA Starts == PosStart \in PosState /\ MonStart \in MonState /\ ResStart \in ResState
BY DEF PosStart, PosState, MonStart, MonState, ResStart, ResState, Token

\* What is held of a token is a number of shares.
LEMMA HeldNat == ASSUME TypeOK, NEW t \in Token PROVE HeldFor(t) \in Nat
<1>1. basis[t] \in Nat
  BY DEF TypeOK
<1>2. Recorded(t, "BUY") \in SUBSET Orders /\ Recorded(t, "SELL") \in SUBSET Orders
  BY DEF Recorded
<1>3. SharesIn(Recorded(t, "BUY")) \in Nat /\ SharesIn(Recorded(t, "SELL")) \in Nat
  BY <1>2
<1> DEFINE bought == SharesIn(Recorded(t, "BUY"))
           sold == SharesIn(Recorded(t, "SELL"))
<1>4. bought \in Nat /\ sold \in Nat
  BY <1>3
<1> HIDE DEF bought, sold
<1>5. (IF bought > sold THEN bought - sold ELSE 0) \in Nat
  BY <1>4
<1> QED BY <1>1, <1>5 DEF HeldFor, bought, sold

\* A count that goes up is still a number.
LEMMA Incremented ==
  ASSUME NEW S, NEW f \in [S -> Nat], NEW x \in S
  PROVE  [f EXCEPT ![x] = f[x] + 1] \in [S -> Nat]
OBVIOUS

\* A statement that raises is counted.
LEMMA RaiseTyped ==
  ASSUME TypeOK, StatementRaises
  PROVE  crashes' \in Nat /\ faults' \in Nat /\ scene' \in Scenes
BY DEF TypeOK, StatementRaises

\* Every step keeps the state well formed: one case per action.
LEMMA TypeStep ==
  ASSUME TypeOK, Batch, [Next]_vars
  PROVE  TypeOK'
<1> USE DEF TypeOK, Batch, Trades, RecPlaces, venue, holdings, settlements, ledger, tasks, mishaps
<1>1. ASSUME NEW x \in Trades, VenueTrades(x) PROVE TypeOK'
  <2>1. history' \in Seq(Trades)
    BY <1>1 DEF VenueTrades
  <2>2. wallet' \in [Token -> Nat]
    BY <1>1 DEF VenueTrades
  <2> QED BY <1>1, <2>1, <2>2 DEF VenueTrades
<1>2. ASSUME VenueEnds PROVE TypeOK'
  BY <1>2 DEF VenueEnds
<1>3. ASSUME VenueConfirms PROVE TypeOK'
  BY <1>3 DEF VenueConfirms
<1>4. ASSUME NEW o \in Orders, RecChecks(o) PROVE TypeOK'
  BY <1>4 DEF RecChecks
<1>5. ASSUME NEW o \in Orders, RecCommits(o) PROVE TypeOK'
  <2>1. TradeToken[o] \in Token /\ TradeSize[o] \in Nat
    OBVIOUS
  <2>2. Sold(o) \in Nat /\ basis[TradeToken[o]] \in Nat /\ Sold(o) <= basis[TradeToken[o]]
    BY <2>1 DEF Sold, Least
  <2>3. basis' \in [Token -> Nat]
    BY <1>5, <2>1, <2>2 DEF RecCommits
  <2>4. fills' \in [Orders -> Nat] /\ rec' \in [Orders -> RecPlaces] /\ owed' \in [Orders -> Nat]
    BY <1>5, <2>2 DEF RecCommits, Event
  <2> QED BY <1>5, <2>3, <2>4 DEF RecCommits
<1>6. ASSUME NEW o \in Orders, RecRaises(o) PROVE TypeOK'
  BY <1>6 DEF RecRaises
<1>7. ASSUME NEW o \in Orders, RecBooks(o) PROVE TypeOK'
  BY <1>7 DEF RecBooks
<1>8. ASSUME NEW o \in Orders, RecBookFails(o) PROVE TypeOK'
  BY <1>8 DEF RecBookFails, StatementRaises
<1>9. ASSUME PosFetchesTrades PROVE TypeOK'
  <2>1. Len(history) \in Nat /\ cursor + 1 \in Nat
    BY <1>9
  <2>2. pos' \in PosState
    BY <1>9, <2>1 DEF PosFetchesTrades, PosState
  <2> QED BY <1>9, <2>1, <2>2 DEF PosFetchesTrades, PosKeeps, PosOthers
<1>10. ASSUME PosSweepFails PROVE TypeOK'
  <2>1. pos' \in PosState
    BY <1>10, Starts DEF PosSweepFails, PosState, PosGoes
  <2> QED BY <1>10, <2>1 DEF PosSweepFails, PosKeeps, PosOthers
<1>11. ASSUME PosLooks PROVE TypeOK'
  <2>1. /\ pos.next \in Nat /\ pos.next \in DOMAIN history
         /\ history[pos.next] \in Trades
    BY <1>11 DEF PosLooks, PosState
  <2>2. HeldFor(TradeToken[history[pos.next]]) \in Nat
    BY <1>11, <2>1, HeldNat
  <2>3. TradeSize[history[pos.next]] \in Nat
    BY <1>11, <2>1
  <2>4. \A n \in Nat : [pos EXCEPT !.at = "book", !.qty = n] \in PosState
    BY <1>11 DEF PosState
  <2>5. \A n \in Nat : [pos EXCEPT !.next = n] \in PosState
    BY <1>11 DEF PosState
  <2>6. pos.next + 1 \in Nat
    BY <1>11, <2>1
  <2>7. Least(TradeSize[history[pos.next]], HeldFor(TradeToken[history[pos.next]])) \in Nat
    BY <1>11, <2>2, <2>3 DEF Least
  <2>8. pos' \in PosState
    BY <1>11, <2>4, <2>5, <2>6, <2>7 DEF PosLooks
  <2> QED BY <1>11, <2>1, <2>2, <2>3, <2>4, <2>5, <2>6, <2>7, <2>8 DEF PosLooks, PosKeeps, PosOthers
<1>12. ASSUME PosBooks PROVE TypeOK'
  BY <1>12 DEF PosBooks, PosGoes, PosState, PosKeeps, PosOthers
<1>13. ASSUME PosBookFails PROVE TypeOK'
  <2>1. pos' \in PosState
    BY <1>13, Starts DEF PosBookFails, PosSweepOver, PosState
  <2> QED BY <1>13, <2>1, RaiseTyped DEF PosBookFails, PosRaises, PosOthers
<1>14. ASSUME PosAccrues PROVE TypeOK'
  <2>1. pos.next \in Nat /\ pos.next + 1 \in Nat
    BY <1>14 DEF PosState
  <2>2. cursor' \in Nat
    BY <1>14, <2>1 DEF PosAccrues
  <2>3. pos' \in PosState
    BY <1>14, <2>1 DEF PosAccrues, PosState
  <2>4. tallied' \in [Trades -> Nat]
    <3>1. pos.next \in DOMAIN history /\ history[pos.next] \in Trades
      BY <1>14, <2>1 DEF PosAccrues, PosState
    <3>2. tallied' = [tallied EXCEPT ![history[pos.next]] = tallied[history[pos.next]] + 1]
      BY <1>14 DEF PosAccrues
    <3>3. tallied \in [Trades -> Nat]
      OBVIOUS
    <3> QED BY <3>1, <3>2, <3>3, Incremented
  <2> QED BY <1>14, <2>2, <2>3, <2>4 DEF PosAccrues, PosKeeps, PosOthers
<1>15. ASSUME PosAccrueFails PROVE TypeOK'
  <2>1. pos' \in PosState
    BY <1>15, Starts DEF PosAccrueFails, PosSweepOver, PosState
  <2> QED BY <1>15, <2>1, RaiseTyped DEF PosAccrueFails, PosRaises, PosOthers
<1>16. ASSUME PosSwept PROVE TypeOK'
  <2>1. pos.last \in Nat
    BY <1>16 DEF PosState
  <2>2. cursor' \in Nat
    BY <1>16, <2>1 DEF PosSwept, PosSweepOver
  <2>3. [PosStart EXCEPT !.at = "mirror"] \in PosState
    BY <1>16, Starts DEF PosState
  <2>4. pos' \in PosState
    BY <1>16, <2>3 DEF PosSwept, PosSweepOver
  <2> QED BY <1>16, <2>1, <2>2, <2>3, <2>4 DEF PosSwept, PosKeeps, PosOthers
<1>17. ASSUME PosFetchesWallet PROVE TypeOK'
  <2>1. pos' \in PosState
    BY <1>17 DEF PosFetchesWallet, PosState, Listed
  <2> QED BY <1>17, <2>1 DEF PosFetchesWallet, PosKeeps, PosOthers
<1>18. ASSUME PosMirrorFails PROVE TypeOK'
  BY <1>18 DEF PosMirrorFails, PosState, PosStart, PosKeeps, PosOthers
<1>19. ASSUME PosReadsKeys PROVE TypeOK'
  BY <1>19 DEF PosReadsKeys, PosState, SettledKeys, PosKeeps, PosOthers
<1>20. ASSUME PosMissesKeys PROVE TypeOK'
  <2>1. pos' \in PosState
    BY <1>20 DEF PosMissesKeys, PosState
  <2> QED BY <1>20, <2>1, RaiseTyped DEF PosMissesKeys, PosRaises, PosOthers
<1>21. ASSUME PosWrites PROVE TypeOK'
  BY <1>21 DEF PosWrites, PosState, PosStart, Mirrored, PosKeeps, PosOthers
<1>22. ASSUME MonReads PROVE TypeOK'
  BY <1>22 DEF MonReads, MonState, MonKeeps, MonOthers
<1>23. ASSUME MonFetchesWallet PROVE TypeOK'
  <2>1. [t \in Token |-> Listed(t)] \in [Token -> Nat]
    BY <1>23 DEF Listed
  <2>2. [t \in Token |-> 0] \in [Token -> Nat]
    BY <1>23
  <2>3. mon' \in MonState
    BY <1>23, <2>1, <2>2 DEF MonFetchesWallet, MonState
  <2> QED BY <1>23, <2>1, <2>2, <2>3 DEF MonFetchesWallet, MonKeeps, MonOthers
<1>24. ASSUME MonReadsKeys PROVE TypeOK'
  BY <1>24 DEF MonReadsKeys, MonState, SettledKeys, MonKeeps, MonOthers
<1>25. ASSUME MonMissesKeys PROVE TypeOK'
  <2>1. mon' \in MonState
    BY <1>25 DEF MonMissesKeys, MonState
  <2> QED BY <1>25, <2>1, RaiseTyped DEF MonMissesKeys, MonOthers
<1>26. ASSUME MonWrites PROVE TypeOK'
  BY <1>26 DEF MonWrites, MonState, MonStart, MonKeeps, MonOthers
<1>27. ASSUME ResDetects PROVE TypeOK'
  BY <1>27 DEF ResDetects, ResState, ResKeeps, ResOthers
<1>28. ASSUME ResMisses PROVE TypeOK'
  BY <1>28 DEF ResMisses, ResState, ResKeeps, ResOthers
<1>29. ASSUME ResSweeps PROVE TypeOK'
  BY <1>29 DEF ResSweeps, ResState, ResKeeps, ResOthers, Holding
<1>30. ASSUME ResSweepFails PROVE TypeOK'
  <2>1. res' \in ResState
    BY <1>30, Starts DEF ResSweepFails
  <2> QED BY <1>30, <2>1 DEF ResSweepFails, ResKeeps, ResOthers
<1>31. ASSUME ResReadsPrior PROVE TypeOK'
  BY <1>31 DEF ResReadsPrior, ResState, ResKeeps, ResOthers
<1>32. ASSUME ResSwept PROVE TypeOK'
  <2>1. res' \in ResState
    BY <1>32, Starts DEF ResSwept
  <2> QED BY <1>32, <2>1 DEF ResSwept, ResKeeps, ResOthers
<1>33. ASSUME ResCorrects PROVE TypeOK'
  BY <1>33 DEF ResCorrects, ResState, ResKeeps, ResOthers
<1>34. ASSUME ResFinds PROVE TypeOK'
  <2>1. \A t \in Token : Holding(t) \in Nat
    BY <1>34 DEF Holding
  <2>2. \A t \in Token : [res EXCEPT !.at = "check", !.token = t, !.qty = Holding(t)] \in ResState
    BY <1>34, <2>1 DEF ResState
  <2>3. PICK t \in Token : res' = [res EXCEPT !.at = "check", !.token = t, !.qty = Holding(t)]
    BY <1>34 DEF ResFinds
  <2>4. Holding(t) \in Nat
    BY <1>34, <2>1
  <2>5. res' \in ResState
    BY <1>34, <2>3, <2>4 DEF ResState
  <2> QED BY <1>34, <2>1, <2>2, <2>3, <2>4, <2>5 DEF ResFinds, ResKeeps, ResOthers
<1>35. ASSUME ResFindsNothing PROVE TypeOK'
  <2>1. res' \in ResState
    BY <1>35, Starts DEF ResFindsNothing, ResGoesOn, ResState
  <2> QED BY <1>35, <2>1 DEF ResFindsNothing, ResKeeps, ResOthers
<1>36. ASSUME ResChecks PROVE TypeOK'
  <2>1. \A b \in BOOLEAN : [res EXCEPT !.known = b, !.at = "clean"] \in ResState /\ [res EXCEPT !.known = b, !.at = "book"] \in ResState
    BY <1>36 DEF ResState
  <2>2. Prior(res.token) \in BOOLEAN
    BY <1>36 DEF Prior
  <2>3. res' \in ResState
    BY <1>36, <2>1, <2>2 DEF ResChecks
  <2> QED BY <1>36, <2>1, <2>2, <2>3 DEF ResChecks, ResKeeps, ResOthers
<1>37. ASSUME ResBooks PROVE TypeOK'
  BY <1>37 DEF ResBooks, ResState, ResKeeps, ResOthers
<1>38. ASSUME ResBookFails PROVE TypeOK'
  <2>1. res' \in ResState
    BY <1>38 DEF ResBookFails, ResState
  <2>2. missed' \in [Token -> Nat]
    <3>1. res.token \in Token /\ missed \in [Token -> Nat]
      BY <1>38 DEF ResState
    <3>2. missed' = [missed EXCEPT ![res.token] = missed[res.token] + 1]
      BY <1>38 DEF ResBookFails
    <3> QED BY <3>1, <3>2, Incremented
  <2> QED BY <1>38, <2>1, <2>2, RaiseTyped DEF ResBookFails, ResRaises, ResOthers
<1>39. ASSUME ResCleans PROVE TypeOK'
  <2>1. res' \in ResState
    BY <1>39, Starts DEF ResCleans, ResGoesOn, ResState
  <2>2. res.token \in Token
    BY <1>39 DEF ResState
  <2>3. accrued' \in [Token -> Nat]
    BY <1>39, <2>2 DEF ResCleans, Counted, Emptied
  <2>4. basis' \in [Token -> Nat] /\ portfolio' \in [Token -> Nat]
    BY <1>39 DEF ResCleans, Counted, Emptied
  <2> QED BY <1>39, <2>1, <2>2, <2>3, <2>4 DEF ResCleans, ResKeeps, ResOthers
<1>40. ASSUME ResCleanSkips PROVE TypeOK'
  <2>1. res' \in ResState
    BY <1>40, Starts DEF ResCleanSkips, ResGoesOn, ResState
  <2>2. res.token \in Token
    BY <1>40 DEF ResState
  <2>3. Counted \in [Token -> Nat]
    BY <1>40, <2>2 DEF Counted
  <2>4. Emptied(basis) \in [Token -> Nat] /\ Emptied(portfolio) \in [Token -> Nat]
    BY <1>40 DEF Emptied
  <2>5. accrued' \in [Token -> Nat] /\ basis' \in [Token -> Nat] /\ portfolio' \in [Token -> Nat]
    BY <1>40, <2>3, <2>4 DEF ResCleanSkips
  <2> QED BY <1>40, <2>1, <2>5, RaiseTyped DEF ResCleanSkips, ResRaises, ResOthers
<1>41. ASSUME ResCleanFails PROVE TypeOK'
  <2>1. res' \in ResState
    BY <1>41, Starts DEF ResCleanFails, ResState
  <2> QED BY <1>41, <2>1, RaiseTyped DEF ResCleanFails, ResRaises, ResOthers
<1>42. ASSUME Crash PROVE TypeOK'
  <2>1. pos' \in PosState /\ mon' \in MonState /\ res' \in ResState
    BY <1>42, Starts DEF Crash
  <2> QED BY <1>42, <2>1 DEF Crash
<1>43. ASSUME UNCHANGED vars PROVE TypeOK'
  BY <1>43 DEF vars
<1> QED
  BY <1>1, <1>2, <1>3, <1>4, <1>5, <1>6, <1>7, <1>8, <1>9, <1>10, <1>11,
     <1>12, <1>13, <1>14, <1>15, <1>16, <1>17, <1>18, <1>19, <1>20, <1>21,
     <1>22, <1>23, <1>24, <1>25, <1>26, <1>27, <1>28, <1>29, <1>30, <1>31,
     <1>32, <1>33, <1>34, <1>35, <1>36, <1>37, <1>38, <1>39, <1>40, <1>41,
     <1>42, <1>43
  DEF Next, Venue, RecSteps, PosSteps, MonSteps, ResSteps

-----------------------------------------------------------------------------
(* What the steps of each part leave alone.                                *)

LEMMA VenueFrame ==
  Venue => UNCHANGED <<fills, byTrade, tallied, settlements, rec, pos, res>>
BY DEF Venue, VenueTrades, VenueEnds, VenueConfirms, ledger, tasks

LEMMA RecFrame ==
  ASSUME NEW o \in Orders, RecChecks(o) \/ RecSteps(o)
  PROVE  UNCHANGED <<history, byTrade, tallied, settlements, pos, res>>
BY DEF RecSteps, RecChecks, RecCommits, RecRaises, RecBooks, RecBookFails, venue, ledger

LEMMA PosFrame == PosSteps => UNCHANGED <<history, fills, settlements, rec, res>>
BY DEF PosSteps, PosFetchesTrades, PosSweepFails, PosLooks, PosBooks, PosBookFails,
       PosAccrues, PosAccrueFails, PosSwept, PosFetchesWallet, PosMirrorFails,
       PosReadsKeys, PosMissesKeys, PosWrites, PosKeeps, PosRaises, PosOthers, venue, ledger

LEMMA MonFrame ==
  MonSteps => UNCHANGED <<history, fills, byTrade, tallied, settlements, rec, pos, res>>
BY DEF MonSteps, MonReads, MonFetchesWallet, MonReadsKeys, MonMissesKeys, MonWrites,
       MonKeeps, MonOthers, venue, ledger

LEMMA ResFrame == ResSteps => UNCHANGED <<history, fills, byTrade, tallied, rec, pos>>
BY DEF ResSteps, ResDetects, ResMisses, ResSweeps, ResSweepFails, ResReadsPrior, ResSwept,
       ResCorrects, ResFinds, ResFindsNothing, ResChecks, ResBooks, ResBookFails,
       ResCleans, ResCleanSkips, ResCleanFails, ResKeeps, ResRaises, ResOthers, venue

\* The history only grows, and a batch within it stays the same trades.
LEMMA HistoryGrows ==
  ASSUME TypeOK, Venue
  PROVE  /\ Len(history') >= Len(history)
         /\ \A i \in 1 .. Len(history) : history'[i] = history[i]
<1> USE DEF TypeOK
<1>1. CASE \E x \in Trades : VenueTrades(x)
  BY <1>1 DEF VenueTrades
<1>2. CASE VenueEnds \/ VenueConfirms
  <2>1. history' = history /\ Len(history) \in Nat
    BY <1>2 DEF VenueEnds, VenueConfirms
  <2> QED BY <2>1
<1> QED BY <1>1, <1>2 DEF Venue

-----------------------------------------------------------------------------
(* The steps.                                                              *)

\* Every step keeps the batch within the history.
LEMMA BatchStep ==
  ASSUME TypeOK, Batch, [Next]_vars
  PROVE  Batch'
<1> USE DEF Batch
<1>t. /\ pos \in PosState /\ pos.next \in Nat /\ pos.last \in Nat /\ cursor \in Nat
      /\ Len(history) \in Nat
  BY DEF TypeOK, PosState
<1>1. CASE Venue
  <2>1. pos' = pos
    BY <1>1, VenueFrame
  <2>2. Len(history') >= Len(history) /\ Len(history') \in Nat
    <3>1. TypeOK'
      BY TypeStep
    <3>2. Len(history') \in Nat
      BY <3>1 DEF TypeOK
    <3> QED BY <1>1, <3>2, HistoryGrows
  <2> QED BY <1>t, <2>1, <2>2
<1>2. CASE \E o \in Orders : RecChecks(o) \/ RecSteps(o)
  BY <1>2, RecFrame
<1>3. CASE PosSteps
  <2>1. history' = history
    BY <1>3, PosFrame
  <2>2. CASE PosFetchesTrades
    BY <1>t, <2>1, <2>2 DEF PosFetchesTrades, PosState
  <2>3. CASE PosLooks
    BY <1>t, <2>1, <2>3 DEF PosLooks, PosState
  <2>4. CASE PosBooks
    BY <1>t, <2>1, <2>4 DEF PosBooks, PosGoes, PosState
  <2>5. CASE PosAccrues
    BY <1>t, <2>1, <2>5 DEF PosAccrues, PosState
  <2>6. CASE PosSweepFails \/ PosFetchesWallet \/ PosReadsKeys \/ PosMissesKeys
    BY <1>t, <2>6 DEF PosSweepFails, PosGoes, PosFetchesWallet, PosReadsKeys,
                      PosMissesKeys, PosState
  <2>7. CASE PosBookFails \/ PosAccrueFails \/ PosSwept \/ PosMirrorFails \/ PosWrites
    BY <2>7 DEF PosBookFails, PosAccrueFails, PosSwept, PosMirrorFails, PosWrites,
                PosSweepOver, PosStart
  <2> QED BY <1>3, <2>2, <2>3, <2>4, <2>5, <2>6, <2>7 DEF PosSteps
<1>4. CASE MonSteps
  BY <1>4, MonFrame
<1>5. CASE ResSteps
  BY <1>5, ResFrame
<1>6. CASE Crash
  BY <1>6 DEF Crash, PosStart
<1>7. CASE UNCHANGED vars
  BY <1>7 DEF vars, venue, tasks
<1> QED BY <1>1, <1>2, <1>3, <1>4, <1>5, <1>6, <1>7 DEF Next

\* Every step keeps what is known of the fills.
LEMMA FillStep ==
  ASSUME TypeOK, Looked, RecordedOnce, [Next]_vars
  PROVE  Looked' /\ RecordedOnce'
<1> USE DEF Looked, RecordedOnce
<1>t. fills \in [Orders -> Nat] /\ rec \in [Orders -> RecPlaces]
  BY DEF TypeOK
<1>1. CASE Venue
  BY <1>1, VenueFrame
<1>2. ASSUME NEW o \in Orders, RecChecks(o) \/ RecSteps(o)
      PROVE  Looked' /\ RecordedOnce'
  <2>1. CASE RecChecks(o)
    BY <1>t, <2>1 DEF RecChecks, Unrecorded
  <2>2. CASE RecCommits(o)
    BY <1>t, <2>2 DEF RecCommits, Event
  <2>3. CASE RecRaises(o) \/ RecBooks(o) \/ RecBookFails(o)
    BY <1>t, <2>3 DEF RecRaises, RecBooks, RecBookFails
  <2> QED BY <1>2, <2>1, <2>2, <2>3 DEF RecSteps
<1>3. CASE PosSteps
  BY <1>3, PosFrame
<1>4. CASE MonSteps
  BY <1>4, MonFrame
<1>5. CASE ResSteps
  BY <1>5, ResFrame
<1>6. CASE Crash
  BY <1>6 DEF Crash
<1>7. CASE UNCHANGED vars
  BY <1>7 DEF vars, tasks
<1> QED BY <1>1, <1>2, <1>3, <1>4, <1>5, <1>6, <1>7 DEF Next

\* Every step keeps what is known of the operator's trades.
LEMMA TallyStep ==
  ASSUME TypeOK, Batch, Tally, TalliedOnce, [Next]_vars
  PROVE  Tally' /\ TalliedOnce'
<1> USE DEF Tally, TalliedOnce
<1>t. /\ byTrade \in [Trades -> Nat \cup {NoRow}] /\ tallied \in [Trades -> Nat]
      /\ pos \in PosState
  BY DEF TypeOK
<1>h. pos.at \in {"look", "book", "accrue"} /\ pos.next <= pos.last =>
        pos.next \in 1 .. Len(history) /\ history[pos.next] \in Trades
  <2>1. history \in Seq(Trades) /\ pos.next \in Nat /\ pos.last \in Nat
    BY <1>t DEF TypeOK, PosState
  <2>2. pos.at \in {"look", "book", "accrue"} => pos.next >= 1 /\ pos.last <= Len(history)
    BY DEF Batch
  <2> QED BY <2>1, <2>2
<1>b. pos.at \in {"book", "accrue"} => pos.next <= pos.last
  BY DEF Batch
<1>1. CASE Venue
  <2>1. pos' = pos /\ byTrade' = byTrade /\ tallied' = tallied
    BY <1>1, VenueFrame
  <2>2. pos.at \in {"book", "accrue"} => history'[pos.next] = history[pos.next]
    BY <1>1, <1>h, <1>b, HistoryGrows
  <2> QED BY <2>1, <2>2
<1>2. CASE \E o \in Orders : RecChecks(o) \/ RecSteps(o)
  BY <1>2, RecFrame
<1>3. CASE PosSteps
  <2>1. history' = history
    BY <1>3, PosFrame
  <2>2. CASE PosLooks
    <3> DEFINE x == history[pos.next]
    <3>1. byTrade' = byTrade /\ tallied' = tallied
      BY <2>2 DEF PosLooks, PosKeeps, ledger
    <3>2. x \in Trades
      BY <1>h, <2>2 DEF PosLooks
    <3>3. CASE pos'.at = "book"
      <4>1. byTrade[x] = NoRow /\ pos'.next = pos.next
        BY <1>t, <2>2, <3>3 DEF PosLooks, PosState
      <4>2. tallied[x] = 0
        BY <1>t, <3>2, <4>1
      <4> QED BY <2>1, <3>1, <3>3, <4>1, <4>2
    <3>4. CASE pos'.at = "look"
      BY <3>1, <3>4
    <3> QED BY <1>t, <2>2, <3>3, <3>4 DEF PosLooks, PosState
  <2>3. CASE PosBooks
    <3> DEFINE x == history[pos.next]
    <3>1. /\ pos'.at = "accrue" /\ pos'.next = pos.next
          /\ pos.qty \in Nat
          /\ x \in Trades
          /\ tallied' = tallied /\ tallied[x] = 0
      BY <1>t, <1>h, <1>b, <2>3 DEF PosBooks, PosGoes, PosState
    <3>2. /\ byTrade'[x] # NoRow
          /\ \A y \in Trades : byTrade[y] # NoRow => byTrade'[y] # NoRow
      BY <1>t, <2>3, <3>1 DEF PosBooks
    <3> QED BY <2>1, <3>1, <3>2
  <2>4. CASE PosAccrues
    <3>1. history[pos.next] \in Trades
      BY <1>h, <1>b, <2>4 DEF PosAccrues
    <3>2. pos'.at = "look" /\ byTrade' = byTrade
      BY <1>t, <2>4 DEF PosAccrues, PosState
    <3> QED BY <1>t, <2>4, <3>1, <3>2 DEF PosAccrues
  <2>5. CASE \/ PosFetchesTrades \/ PosSweepFails \/ PosBookFails \/ PosAccrueFails
             \/ PosSwept \/ PosFetchesWallet \/ PosMirrorFails \/ PosReadsKeys
             \/ PosMissesKeys \/ PosWrites
    <3>1. byTrade' = byTrade /\ tallied' = tallied
      BY <2>5 DEF PosFetchesTrades, PosSweepFails, PosBookFails, PosAccrueFails, PosSwept,
                  PosFetchesWallet, PosMirrorFails, PosReadsKeys, PosMissesKeys, PosWrites,
                  ledger
    <3>2. pos'.at \notin {"book", "accrue"}
      <4>1. CASE PosFetchesTrades \/ PosSweepFails \/ PosFetchesWallet
        BY <1>t, <4>1 DEF PosFetchesTrades, PosSweepFails, PosFetchesWallet, PosGoes, PosState
      <4>2. CASE PosReadsKeys \/ PosMissesKeys
        BY <1>t, <4>2 DEF PosReadsKeys, PosMissesKeys, PosState
      <4>3. CASE PosBookFails \/ PosAccrueFails \/ PosSwept
        BY <4>3 DEF PosBookFails, PosAccrueFails, PosSwept, PosSweepOver, PosStart
      <4>4. CASE PosMirrorFails \/ PosWrites
        BY <4>4 DEF PosMirrorFails, PosWrites, PosStart
      <4> QED BY <2>5, <4>1, <4>2, <4>3, <4>4
    <3> QED BY <3>1, <3>2
  <2> QED BY <1>3, <2>2, <2>3, <2>4, <2>5 DEF PosSteps
<1>4. CASE MonSteps
  BY <1>4, MonFrame
<1>5. CASE ResSteps
  BY <1>5, ResFrame
<1>6. CASE Crash
  BY <1>6 DEF Crash, ledger, PosStart
<1>7. CASE UNCHANGED vars
  BY <1>7 DEF vars, venue, ledger, tasks
<1> QED BY <1>1, <1>2, <1>3, <1>4, <1>5, <1>6, <1>7 DEF Next

\* After a settlement nothing is in hand.
LEMMA Onward == ResGoesOn => res'.at \in {"prior", "sweep"}
<1>1. ASSUME NEW f PROVE [ResStart EXCEPT !.at = "prior", !.rows = f].at = "prior"
  BY DEF ResStart
<1>2. [ResStart EXCEPT !.at = "sweep"].at = "sweep"
  BY DEF ResStart
<1> QED BY <1>1, <1>2 DEF ResGoesOn

\* Every step keeps what is known of the settlements.
LEMMA SettleStep ==
  ASSUME TypeOK, InHand, AccruedOnce, [Next]_vars
  PROVE  InHand' /\ AccruedOnce'
<1> USE DEF InHand, AccruedOnce
<1>t. /\ bySettle \in [Token -> Nat \cup {NoRow}]
      /\ accrued \in [Token -> Nat] /\ missed \in [Token -> Nat]
      /\ res \in ResState
      /\ res.token \in Token
  BY DEF TypeOK, ResState
<1>1. CASE Venue
  BY <1>1, VenueFrame DEF settlements
<1>2. CASE \E o \in Orders : RecChecks(o) \/ RecSteps(o)
  BY <1>2, RecFrame DEF settlements
<1>3. CASE PosSteps
  BY <1>3, PosFrame DEF settlements
<1>4. CASE MonSteps
  BY <1>4, MonFrame DEF settlements
<1>5. CASE ResSteps
  <2>1. CASE \/ ResDetects \/ ResMisses \/ ResSweeps \/ ResSweepFails \/ ResReadsPrior
             \/ ResSwept \/ ResFinds \/ ResFindsNothing \/ ResCleanFails
    <3>1. bySettle' = bySettle /\ accrued' = accrued /\ missed' = missed
      BY <2>1 DEF ResDetects, ResMisses, ResSweeps, ResSweepFails, ResReadsPrior, ResSwept,
                  ResFinds, ResFindsNothing, ResCleanFails, settlements
    <3>2. res'.at \notin {"book", "clean"}
      <4>1. CASE ResDetects \/ ResMisses \/ ResSweeps
        BY <1>t, <4>1 DEF ResDetects, ResMisses, ResSweeps, ResState
      <4>2. CASE ResReadsPrior
        BY <1>t, <4>2 DEF ResReadsPrior, ResState
      <4>3. CASE ResFinds
        BY <1>t, <4>3 DEF ResFinds, ResState
      <4>4. CASE ResFindsNothing
        BY <4>4, Onward DEF ResFindsNothing
      <4>5. CASE ResSweepFails \/ ResSwept \/ ResCleanFails
        BY <4>5 DEF ResSweepFails, ResSwept, ResCleanFails, ResStart
      <4> QED BY <2>1, <4>1, <4>2, <4>3, <4>4, <4>5
    <3> QED BY <3>1, <3>2
  <2>2. CASE ResCorrects
    <3>1. res'.at = "find" /\ accrued' = accrued /\ missed' = missed
      BY <1>t, <2>2 DEF ResCorrects, ResState
    <3>2. \A t \in Token : bySettle[t] # NoRow => bySettle'[t] # NoRow
      BY <1>t, <2>2 DEF ResCorrects, ResState
    <3> QED BY <1>t, <3>1, <3>2
  <2>3. CASE ResChecks
    <3>1. bySettle' = bySettle /\ accrued' = accrued /\ missed' = missed
      BY <2>3 DEF ResChecks, settlements
    <3>2. /\ res'.token = res.token
          /\ res'.at = "book" => bySettle[res.token] = NoRow
          /\ res'.at = "clean" => res'.known
      BY <1>t, <2>3 DEF ResChecks, Prior, ResState
    <3> QED BY <3>1, <3>2
  <2>4. CASE ResBooks
    <3>1. res'.at = "clean" /\ res'.token = res.token /\ accrued' = accrued /\ missed' = missed
      BY <1>t, <2>4 DEF ResBooks, ResState
    <3>2. /\ bySettle[res.token] = NoRow /\ bySettle'[res.token] # NoRow
          /\ \A t \in Token : bySettle[t] # NoRow => bySettle'[t] # NoRow
      BY <1>t, <2>4 DEF ResBooks, ResState
    <3> QED BY <1>t, <3>1, <3>2
  <2>5. CASE ResBookFails
    <3>1. res'.at = "clean" /\ res'.token = res.token /\ accrued' = accrued /\ bySettle' = bySettle
      BY <1>t, <2>5 DEF ResBookFails, ResState
    <3>2. /\ missed'[res.token] = missed[res.token] + 1
          /\ \A t \in Token : missed'[t] \in Nat /\ missed'[t] >= missed[t]
      BY <1>t, <2>5 DEF ResBookFails
    <3>3. AccruedOnce'
      BY <1>t, <3>1, <3>2
    <3> QED BY <1>t, <3>1, <3>2, <3>3
  <2>6. CASE ResCleans \/ ResCleanSkips
    <3>1. /\ bySettle' = bySettle /\ missed' = missed
          /\ accrued' = accrued \/ accrued' = Counted
      BY <2>6 DEF ResCleans, ResCleanSkips
    <3>2. res'.at \notin {"book", "clean"}
      BY <2>6, Onward DEF ResCleans, ResCleanSkips
    <3>3. res.at = "clean"
      BY <2>6 DEF ResCleans, ResCleanSkips
    <3>4. \A t \in Token : Counted[t] <= missed[t] + (IF bySettle[t] = NoRow THEN 0 ELSE 1)
      BY <1>t, <3>3 DEF Counted
    <3> QED BY <3>1, <3>2, <3>4
  <2> QED BY <1>5, <2>1, <2>2, <2>3, <2>4, <2>5, <2>6 DEF ResSteps
<1>6. CASE Crash
  BY <1>6 DEF Crash, ledger, settlements, ResStart
<1>7. CASE UNCHANGED vars
  BY <1>7 DEF vars, ledger, settlements, tasks
<1> QED BY <1>1, <1>2, <1>3, <1>4, <1>5, <1>6, <1>7 DEF Next

-----------------------------------------------------------------------------
\* The invariant holds at first.
LEMMA InitInv == Init => IInv
<1> SUFFICES ASSUME Init PROVE IInv
  OBVIOUS
<1>1. <<>> \in Seq(Trades)
  OBVIOUS
<1>2. TypeOK
  BY <1>1, Starts DEF Init, TypeOK, RecPlaces
<1>3. Batch /\ Looked /\ RecordedOnce /\ Tally /\ TalliedOnce
  BY DEF Init, Batch, Looked, RecordedOnce, Tally, TalliedOnce, PosStart
<1>4. InHand /\ AccruedOnce
  BY DEF Init, InHand, AccruedOnce, ResStart
<1> QED BY <1>2, <1>3, <1>4 DEF IInv

\* Every step keeps the invariant.
LEMMA StepInv == IInv /\ [Next]_vars => IInv'
BY TypeStep, BatchStep, FillStep, TallyStep, SettleStep DEF IInv

LEMMA Invariance == Spec => []IInv
BY InitInv, StepInv, PTL DEF Spec

\* Every reachable state is well formed (TypeOK).
THEOREM TypeCorrect == Spec => []TypeOK
BY Invariance, PTL DEF IInv

\* No fill is applied twice to the cost basis, whatever is replayed, wherever a
\* statement raises and whenever the process dies (pnl.py, record_fill).
THEOREM FillsAppliedOnce == Spec => []RecordedOnce
BY Invariance, PTL DEF IInv

\* A trade of the operator's is added to daily_stats once at most, and never
\* without its ledger row (manual_trades.py, _book_manual_sell).
THEOREM ManualTradesTalliedOnce == Spec => []TalliedOnce
BY Invariance, PTL DEF IInv

\* The totals count a settlement once for its ledger row and at most once more
\* for each ledger write that was swallowed (resolution_tracker.py,
\* _settle_position).
THEOREM SettlementsAccruedOnce == Spec => []AccruedOnce
BY Invariance, PTL DEF IInv
=============================================================================
