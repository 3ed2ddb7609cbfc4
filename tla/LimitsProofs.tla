------------------------------ MODULE LimitsProofs ------------------------------
(***************************************************************************)
(* The limits hold for every value of the constants: the budget of Claude  *)
(* calls (CallBudget), the stake cap of a market (EntryCap), the daily cap *)
(* of directed orders (DirectedOrders), the wallet of paper trading        *)
(* (PaperBook) and the checks an entry passes before it is live (RiskGate).*)
(* The components share nothing; each part has its own inductive invariant.*)
(***************************************************************************)
EXTENDS CallBudget, EntryCap, DirectedOrders, PaperBook, RiskGate, FiniteSetTheorems, TLAPS

-----------------------------------------------------------------------------
(* The count of Claude calls is exact.  It is inductive with the types and *)
(* one fact about days: no process remembers a day to come, so that        *)
(* midnight expires everything that is pending.                            *)

BudgetInv ==
    /\ BudgetTypeOK
    /\ \A p \in Process : memDay[p] <= today
    /\ today >= 1
    /\ CountExact

LEMMA UnwrittenIsNat ==
    ASSUME BudgetTypeOK, NEW c \in Caller
    PROVE  Unwritten(c) \in Nat /\ RunsIn[c] \in Process
BY BudgetAssumption DEF BudgetTypeOK, Unwritten

LEMMA BudgetInitInv == BudgetInit => BudgetInv
<1> SUFFICES ASSUME BudgetInit
             PROVE  BudgetInv
  OBVIOUS
<1>1. None \in [Caller -> Nat] /\ \A c \in Caller : None[c] = 0
  BY DEF None
<1>2. BudgetTypeOK
  BY <1>1 DEF BudgetInit, BudgetTypeOK
<1>3. today = 1 /\ \A p \in Process : memDay[p] = 0
  BY DEF BudgetInit
<1>4. ASSUME NEW c \in Caller
      PROVE  Unwritten(c) = 0
  BY <1>3, BudgetAssumption DEF Unwritten
<1>5. row = None /\ lost = None /\ made = None /\ recounted = None
  BY DEF BudgetInit
<1>6. CountExact
  BY <1>1, <1>4, <1>5 DEF CountExact
<1> QED BY <1>2, <1>3, <1>6 DEF BudgetInv

\* The types, through a count: what the three outcomes of the write share.
LEMMA CountsTyped ==
    ASSUME BudgetInv, NEW c \in Caller, Counts(c)
    PROVE  /\ calling' \in SUBSET Caller
           /\ made' \in [Caller -> Nat]
           /\ memCalls' \in [Process -> Nat]
           /\ memDay' \in [Process -> Nat]
           /\ \A p \in Process : memDay'[p] <= today'
           /\ today' = today /\ today' \in Nat /\ today' >= 1
           /\ peak' \in BOOLEAN /\ lost' \in [Caller -> Nat] /\ deaths' \in Nat
<1>1. RunsIn[c] \in Process /\ Remembered(RunsIn[c]) \in Nat
  BY BudgetAssumption DEF BudgetInv, BudgetTypeOK, Remembered
<1> QED BY <1>1 DEF BudgetInv, BudgetTypeOK, Counts

\* What every caller has unwritten after a count: its process's day is today.
LEMMA CountsUnwritten ==
    ASSUME BudgetInv, NEW c \in Caller, Counts(c), NEW d \in Caller
    PROVE  Unwritten(d)' = IF d \in Of(RunsIn[c]) \/ memDay[RunsIn[d]] = today
                           THEN pending'[d] ELSE 0
BY BudgetAssumption DEF BudgetInv, BudgetTypeOK, Counts, Unwritten, Of

LEMMA CountLandsInv ==
    ASSUME BudgetInv, NEW c \in Caller, CountLands(c)
    PROVE  BudgetInv'
<1>1. Counts(c) /\ row' = Folded(c) /\ pending' = Left(c, 0)
      /\ UNCHANGED <<recounted, faults>>
  BY DEF CountLands
<1>2. \A d \in Caller : Unwritten(d) \in Nat
  BY UnwrittenIsNat DEF BudgetInv
<1>3. row' \in [Caller -> Nat] /\ pending' \in [Caller -> Nat]
  BY <1>1, <1>2 DEF BudgetInv, BudgetTypeOK, Folded, Left
<1>4. BudgetTypeOK' /\ (\A p \in Process : memDay'[p] <= today') /\ today' >= 1
  BY <1>1, <1>3, CountsTyped DEF BudgetInv, BudgetTypeOK
<1>5. ASSUME NEW d \in Caller
      PROVE  /\ row'[d] + Unwritten(d)' + lost'[d] >= made'[d]
             /\ row'[d] + Unwritten(d)' + lost'[d] <= made'[d] + recounted'[d]
  <2>1. /\ row[d] + Unwritten(d) + lost[d] >= made[d]
        /\ row[d] + Unwritten(d) + lost[d] <= made[d] + recounted[d]
    BY DEF BudgetInv, CountExact
  <2>2. /\ lost'[d] = lost[d] /\ recounted'[d] = recounted[d]
        /\ made'[d] = made[d] + IF d = c THEN 1 ELSE 0
    BY <1>1 DEF Counts, BudgetInv, BudgetTypeOK
  <2>3. c \in Of(RunsIn[c])
    BY DEF Of
  <2>4. row'[d] + Unwritten(d)' = row[d] + Unwritten(d) + IF d = c THEN 1 ELSE 0
    <3>1. CASE d \in Of(RunsIn[c])
      <4>1. row'[d] = row[d] + (IF d = c THEN 1 ELSE 0) + Unwritten(d)
        BY <1>1, <3>1 DEF Folded
      <4>2. Unwritten(d)' = 0
        BY <1>1, <3>1, CountsUnwritten DEF Left
      <4> QED BY <4>1, <4>2, <1>2 DEF BudgetInv, BudgetTypeOK
    <3>2. CASE d \notin Of(RunsIn[c])
      <4>1. row'[d] = row[d] /\ d # c
        BY <1>1, <2>3, <3>2 DEF Folded, BudgetInv, BudgetTypeOK
      <4>2. Unwritten(d)' = Unwritten(d)
        BY <1>1, <2>3, <3>2, CountsUnwritten DEF Left, Unwritten
      <4> QED BY <4>1, <4>2, <1>2 DEF BudgetInv, BudgetTypeOK
    <3> QED BY <3>1, <3>2
  <2> QED BY <2>1, <2>2, <2>4, <1>2 DEF BudgetInv, BudgetTypeOK
<1> QED BY <1>4, <1>5 DEF BudgetInv, CountExact

LEMMA CountMissesInv ==
    ASSUME BudgetInv, NEW c \in Caller, CountMisses(c)
    PROVE  BudgetInv'
<1>1. Counts(c) /\ Fault /\ pending' = Kept(c) /\ UNCHANGED <<row, recounted>>
  BY DEF CountMisses
<1>2. \A d \in Caller : Unwritten(d) \in Nat
  BY UnwrittenIsNat DEF BudgetInv
<1>3. pending' \in [Caller -> Nat] /\ faults' \in Nat
  BY <1>1, <1>2, BudgetAssumption DEF BudgetInv, BudgetTypeOK, Kept, Fault
<1>4. BudgetTypeOK' /\ (\A p \in Process : memDay'[p] <= today') /\ today' >= 1
  BY <1>1, <1>3, CountsTyped DEF BudgetInv, BudgetTypeOK
<1>5. ASSUME NEW d \in Caller
      PROVE  /\ row'[d] + Unwritten(d)' + lost'[d] >= made'[d]
             /\ row'[d] + Unwritten(d)' + lost'[d] <= made'[d] + recounted'[d]
  <2>1. /\ row[d] + Unwritten(d) + lost[d] >= made[d]
        /\ row[d] + Unwritten(d) + lost[d] <= made[d] + recounted[d]
    BY DEF BudgetInv, CountExact
  <2>2. /\ lost'[d] = lost[d] /\ recounted'[d] = recounted[d] /\ row'[d] = row[d]
        /\ made'[d] = made[d] + IF d = c THEN 1 ELSE 0
    BY <1>1 DEF Counts, BudgetInv, BudgetTypeOK
  <2>3. c \in Of(RunsIn[c])
    BY DEF Of
  <2>4. Unwritten(d)' = Unwritten(d) + IF d = c THEN 1 ELSE 0
    <3>1. CASE d \in Of(RunsIn[c])
      BY <1>1, <1>2, <3>1, CountsUnwritten DEF Kept
    <3>2. CASE d \notin Of(RunsIn[c])
      <4>1. d # c /\ pending'[d] = pending[d]
        BY <1>1, <2>3, <3>2 DEF Kept
      <4>2. Unwritten(d)' = Unwritten(d)
        BY <1>1, <3>2, <4>1, CountsUnwritten DEF Unwritten
      <4> QED BY <4>1, <4>2, <1>2
    <3> QED BY <3>1, <3>2
  <2> QED BY <2>1, <2>2, <2>4, <1>2 DEF BudgetInv, BudgetTypeOK
<1> QED BY <1>4, <1>5 DEF BudgetInv, CountExact

LEMMA CountReadFailsInv ==
    ASSUME BudgetInv, NEW c \in Caller, CountReadFails(c)
    PROVE  BudgetInv'
<1>1. /\ Counts(c) /\ Fault /\ row' = Folded(c) /\ pending' = Left(c, 1)
      /\ recounted' = [recounted EXCEPT ![c] = @ + 1]
  BY DEF CountReadFails
<1>2. \A d \in Caller : Unwritten(d) \in Nat
  BY UnwrittenIsNat DEF BudgetInv
<1>3. row' \in [Caller -> Nat] /\ pending' \in [Caller -> Nat]
  BY <1>1, <1>2 DEF BudgetInv, BudgetTypeOK, Folded, Left
<1>4. recounted' \in [Caller -> Nat] /\ faults' \in Nat
  BY <1>1, BudgetAssumption DEF BudgetInv, BudgetTypeOK, Fault
<1>5. BudgetTypeOK' /\ (\A p \in Process : memDay'[p] <= today') /\ today' >= 1
  BY <1>1, <1>3, <1>4, CountsTyped DEF BudgetInv, BudgetTypeOK
<1>6. ASSUME NEW d \in Caller
      PROVE  /\ row'[d] + Unwritten(d)' + lost'[d] >= made'[d]
             /\ row'[d] + Unwritten(d)' + lost'[d] <= made'[d] + recounted'[d]
  <2>1. /\ row[d] + Unwritten(d) + lost[d] >= made[d]
        /\ row[d] + Unwritten(d) + lost[d] <= made[d] + recounted[d]
    BY DEF BudgetInv, CountExact
  <2>2. /\ lost'[d] = lost[d]
        /\ recounted'[d] = recounted[d] + IF d = c THEN 1 ELSE 0
        /\ made'[d] = made[d] + IF d = c THEN 1 ELSE 0
    BY <1>1 DEF Counts, BudgetInv, BudgetTypeOK
  <2>3. c \in Of(RunsIn[c])
    BY DEF Of
  \* The call is in the row and in what is pending.
  <2>4. row'[d] + Unwritten(d)' = row[d] + Unwritten(d) + IF d = c THEN 2 ELSE 0
    <3>1. CASE d \in Of(RunsIn[c])
      <4>1. row'[d] = row[d] + (IF d = c THEN 1 ELSE 0) + Unwritten(d)
        BY <1>1, <3>1 DEF Folded
      <4>2. Unwritten(d)' = IF d = c THEN 1 ELSE 0
        BY <1>1, <3>1, CountsUnwritten DEF Left
      <4> QED BY <4>1, <4>2, <1>2 DEF BudgetInv, BudgetTypeOK
    <3>2. CASE d \notin Of(RunsIn[c])
      <4>1. row'[d] = row[d] /\ d # c
        BY <1>1, <2>3, <3>2 DEF Folded, BudgetInv, BudgetTypeOK
      <4>2. Unwritten(d)' = Unwritten(d)
        BY <1>1, <2>3, <3>2, CountsUnwritten DEF Left, Unwritten
      <4> QED BY <4>1, <4>2, <1>2 DEF BudgetInv, BudgetTypeOK
    <3> QED BY <3>1, <3>2
  <2> QED BY <2>1, <2>2, <2>4, <1>2 DEF BudgetInv, BudgetTypeOK
<1> QED BY <1>5, <1>6 DEF BudgetInv, CountExact

\* Starting, giving up and the peak window touch no count.
LEMMA CountsUntouched ==
    ASSUME BudgetInv, UNCHANGED <<today, counts, made, lost, recounted, deaths>>,
           peak' \in BOOLEAN, faults' \in Nat, calling' \in SUBSET Caller
    PROVE  BudgetInv'
<1>1. /\ today' = today /\ row' = row /\ pending' = pending /\ memCalls' = memCalls
      /\ memDay' = memDay /\ made' = made /\ lost' = lost /\ recounted' = recounted
      /\ deaths' = deaths
  BY DEF counts
<1>2. \A c \in Caller : Unwritten(c)' = Unwritten(c)
  BY <1>1 DEF Unwritten
<1>3. BudgetTypeOK'
  BY <1>1 DEF BudgetInv, BudgetTypeOK
<1>4. CountExact'
  BY <1>1, <1>2 DEF BudgetInv, CountExact
<1> QED BY <1>1, <1>3, <1>4 DEF BudgetInv

\* At midnight whatever is pending belongs to a day gone by.
LEMMA MidnightInv ==
    ASSUME BudgetInv, BudgetMidnight
    PROVE  BudgetInv'
<1>1. None \in [Caller -> Nat] /\ \A c \in Caller : None[c] = 0
  BY DEF None
<1>2. /\ today' = today + 1 /\ memDay' = memDay /\ peak' = FALSE
      /\ row' = None /\ made' = None /\ lost' = None /\ recounted' = None
      /\ pending' = pending /\ memCalls' = memCalls /\ calling' = calling
      /\ faults' = faults /\ deaths' = deaths
  BY DEF BudgetMidnight
<1>3. today \in Nat /\ (\A p \in Process : memDay[p] \in Nat /\ memDay[p] <= today)
  BY DEF BudgetInv, BudgetTypeOK
<1>4. ASSUME NEW c \in Caller
      PROVE  Unwritten(c)' = 0
  <2>1. RunsIn[c] \in Process
    BY BudgetAssumption
  <2>2. memDay'[RunsIn[c]] # today'
    BY <1>2, <1>3, <2>1
  <2> QED BY <2>2 DEF Unwritten
<1>5. BudgetTypeOK'
  <2>1. /\ pending \in [Caller -> Nat] /\ memCalls \in [Process -> Nat]
        /\ memDay \in [Process -> Nat] /\ calling \in SUBSET Caller
        /\ faults \in Nat /\ deaths \in Nat
    BY DEF BudgetInv, BudgetTypeOK
  <2>2. today' \in Nat
    BY <1>2, <1>3
  <2>5. peak' \in BOOLEAN
    BY ZenonT(20) DEF BudgetMidnight
  <2>3. /\ row' \in [Caller -> Nat] /\ made' \in [Caller -> Nat]
        /\ lost' \in [Caller -> Nat] /\ recounted' \in [Caller -> Nat]
    BY <1>1, <1>2
  <2>4. /\ pending' \in [Caller -> Nat] /\ memCalls' \in [Process -> Nat]
        /\ memDay' \in [Process -> Nat] /\ calling' \in SUBSET Caller
        /\ faults' \in Nat /\ deaths' \in Nat
    BY <1>2, <2>1
  <2> QED BY <2>2, <2>3, <2>4, <2>5 DEF BudgetTypeOK
<1>6. CountExact'
  BY <1>1, <1>2, <1>4 DEF CountExact
<1>7. today' >= 1 /\ \A p \in Process : memDay'[p] <= today'
  BY <1>2, <1>3 DEF BudgetInv
<1> QED BY <1>5, <1>6, <1>7 DEF BudgetInv

\* A dead process's unwritten calls are lost, all of them and no others.
LEMMA RestartInv ==
    ASSUME BudgetInv, NEW p \in Process, BudgetRestart(p)
    PROVE  BudgetInv'
<1>1. /\ today' = today /\ peak' = peak /\ row' = row /\ made' = made
      /\ recounted' = recounted /\ faults' = faults /\ deaths' = deaths + 1
      /\ memDay' = [memDay EXCEPT ![p] = 0] /\ memCalls' = [memCalls EXCEPT ![p] = 0]
      /\ calling' = calling \ Of(p)
      /\ lost' = [c \in Caller |-> lost[c] + IF c \in Of(p) THEN Unwritten(c) ELSE 0]
      /\ pending' = [c \in Caller |-> IF c \in Of(p) THEN 0 ELSE pending[c]]
  BY DEF BudgetRestart, counts
<1>2. \A c \in Caller : Unwritten(c) \in Nat
  BY UnwrittenIsNat DEF BudgetInv
<1>3. lost' \in [Caller -> Nat] /\ pending' \in [Caller -> Nat]
  BY <1>1, <1>2 DEF BudgetInv, BudgetTypeOK
<1>4. BudgetTypeOK' /\ (\A q \in Process : memDay'[q] <= today') /\ today' >= 1
  BY <1>1, <1>3 DEF BudgetInv, BudgetTypeOK
<1>5. ASSUME NEW c \in Caller
      PROVE  Unwritten(c)' + lost'[c] = Unwritten(c) + lost[c]
  <2>1. CASE c \in Of(p)
    <3>1. Unwritten(c)' = 0
      BY <1>1, <2>1 DEF Unwritten
    <3>2. lost'[c] = lost[c] + Unwritten(c)
      BY <1>1, <2>1
    <3> QED BY <3>1, <3>2, <1>2 DEF BudgetInv, BudgetTypeOK
  <2>2. CASE c \notin Of(p)
    <3>1. RunsIn[c] # p /\ RunsIn[c] \in Process
      BY <2>2, BudgetAssumption DEF Of
    <3>2. Unwritten(c)' = Unwritten(c)
      BY <1>1, <2>2, <3>1 DEF Unwritten, BudgetInv, BudgetTypeOK
    <3>3. lost'[c] = lost[c]
      BY <1>1, <2>2 DEF BudgetInv, BudgetTypeOK
    <3> QED BY <3>2, <3>3
  <2> QED BY <2>1, <2>2
<1>6. \A c \in Caller : /\ Unwritten(c)' \in Nat /\ lost'[c] \in Nat /\ lost[c] \in Nat
                       /\ row[c] \in Nat /\ made[c] \in Nat /\ recounted[c] \in Nat
  BY <1>3, <1>4, UnwrittenIsNat, BudgetAssumption DEF BudgetInv, BudgetTypeOK, Unwritten
<1>7. CountExact'
  BY <1>1, <1>2, <1>5, <1>6 DEF BudgetInv, CountExact
<1> QED BY <1>4, <1>7 DEF BudgetInv

LEMMA BudgetStepInv == BudgetInv /\ [BudgetNext]_budgetVars => BudgetInv'
<1> SUFFICES ASSUME BudgetInv, [BudgetNext]_budgetVars
             PROVE  BudgetInv'
  OBVIOUS
<1>1. ASSUME NEW c \in Caller, CallStarts(c)
      PROVE  BudgetInv'
  <2>1. calling' \in SUBSET Caller /\ faults' \in Nat /\ peak' \in BOOLEAN
    BY <1>1 DEF CallStarts, Fault, BudgetInv, BudgetTypeOK
  <2> QED BY <1>1, <2>1, CountsUntouched DEF CallStarts
<1>2. ASSUME NEW c \in Caller, CallGivesUp(c)
      PROVE  BudgetInv'
  <2>1. calling' \in SUBSET Caller /\ faults' \in Nat /\ peak' \in BOOLEAN
    BY <1>2 DEF CallGivesUp, BudgetInv, BudgetTypeOK
  <2> QED BY <1>2, <2>1, CountsUntouched DEF CallGivesUp
<1>3. CASE PeakOpens
  <2>1. calling' \in SUBSET Caller /\ faults' \in Nat /\ peak' \in BOOLEAN
    BY <1>3 DEF PeakOpens, BudgetInv, BudgetTypeOK
  <2> QED BY <1>3, <2>1, CountsUntouched DEF PeakOpens
<1>4. CASE UNCHANGED budgetVars
  <2>1. calling' \in SUBSET Caller /\ faults' \in Nat /\ peak' \in BOOLEAN
    BY <1>4 DEF budgetVars, BudgetInv, BudgetTypeOK
  <2> QED BY <1>4, <2>1, CountsUntouched DEF budgetVars
<1> QED BY <1>1, <1>2, <1>3, <1>4, CountLandsInv, CountMissesInv, CountReadFailsInv,
           MidnightInv, RestartInv DEF BudgetNext, CallStep

\* The counters keep their types, through every outcome of a write.
THEOREM BudgetTyped == BudgetSpec => []BudgetTypeOK
<1>1. BudgetInv => BudgetTypeOK
  BY DEF BudgetInv
<1> QED BY <1>1, BudgetInitInv, BudgetStepInv, PTL DEF BudgetSpec

\* A missed write is made good by the next, over midnights, restarts and the
\* writes of other processes (record_call and calls_today).
THEOREM CountIsExact == BudgetSpec => []CountExact
<1>1. BudgetInv => CountExact
  BY DEF BudgetInv
<1> QED BY <1>1, BudgetInitInv, BudgetStepInv, PTL DEF BudgetSpec

-----------------------------------------------------------------------------
(* The ceilings are kept, but for one call for each fault.  A count is a   *)
(* set of pairs, one for each call, so that sums are compared by           *)
(* injections: what the callers spent is covered by what was counted, what *)
(* they hold and the faults.                                               *)

LEMMA InTally ==
    ASSUME NEW f \in [Caller -> Nat]
    PROVE  /\ \A x \in Tally(f) : /\ x = <<x[1], x[2]>> /\ x[1] \in Caller
                                  /\ x[2] \in Nat /\ 1 <= x[2] /\ x[2] <= f[x[1]]
           /\ \A c \in Caller : \A k \in 1 .. f[c] : <<c, k>> \in Tally(f)
BY DEF Tally

LEMMA TallyIsFinite ==
    ASSUME NEW f \in [Caller -> Nat]
    PROVE  IsFiniteSet(Tally(f)) /\ Total(f) \in Nat
<1> DEFINE Part(c) == {c} \X (1 .. f[c])
           g == [c \in Caller |-> Part(c)]
           Parts == {g[c] : c \in Caller}
<1>1. \A c \in Caller : IsFiniteSet(g[c])
  <2> TAKE c \in Caller
  <2>1. IsFiniteSet({c}) BY FS_Singleton
  <2>2. 1 \in Int /\ f[c] \in Int OBVIOUS
  <2>3. IsFiniteSet(1 .. f[c]) BY <2>2, FS_Interval
  <2>4. QED BY <2>1, <2>3, FS_Product
<1>2. g \in Surjection(Caller, Parts) BY DEF Surjection
<1>3. IsFiniteSet(Parts) BY <1>2, FS_Surjection, BudgetAssumption
<1>4. IsFiniteSet(UNION Parts) BY <1>1, <1>3, FS_UNION
<1>5. UNION Parts = Tally(f) BY DEF Tally
<1>6. QED BY <1>4, <1>5, FS_CardinalityType DEF Total

\* A count that two others cover sums to no more than they do.
LEMMA TotalCovered ==
    ASSUME NEW f \in [Caller -> Nat], NEW g \in [Caller -> Nat], NEW h \in [Caller -> Nat],
           \A c \in Caller : f[c] <= g[c] + h[c]
    PROVE  Total(f) <= Total(g) + Total(h)
<1> DEFINE Rest == Tally(f) \ Tally(g)
           shift == [x \in Rest |-> <<x[1], x[2] - g[x[1]]>>]
<1>1. ASSUME NEW x \in Rest
      PROVE  /\ x = <<x[1], x[2]>> /\ x[1] \in Caller /\ x[2] \in Nat
             /\ x[2] > g[x[1]] /\ x[2] <= f[x[1]]
  <2>1. x = <<x[1], x[2]>> /\ x[1] \in Caller /\ x[2] \in Nat /\ 1 <= x[2] /\ x[2] <= f[x[1]]
    BY InTally
  <2>2. x[2] \notin 1 .. g[x[1]] BY <2>1, InTally
  <2>3. QED BY <2>1, <2>2
<1>2. \A x \in Rest : shift[x] \in Tally(h)
  <2> TAKE x \in Rest
  <2>1. x[2] - g[x[1]] \in 1 .. h[x[1]] BY <1>1
  <2>2. QED BY <1>1, <2>1, InTally
<1>3. ASSUME NEW x \in Rest, NEW y \in Rest, shift[x] = shift[y]
      PROVE  x = y
  <2>1. x[1] = y[1] /\ x[2] - g[x[1]] = y[2] - g[y[1]] BY <1>3
  <2>2. x[2] \in Nat /\ y[2] \in Nat /\ g[x[1]] \in Nat BY <1>1
  <2>3. \A i, j, k \in Nat : i - k = j - k => i = j OBVIOUS
  <2>4. x[2] = y[2] BY <2>1, <2>2, <2>3
  <2>5. QED BY <1>1, <2>1, <2>4
<1>4. shift \in Injection(Rest, Tally(h)) BY <1>2, <1>3 DEF Injection, IsInjective
<1> HIDE DEF Rest, shift
<1>5. Cardinality(Rest) <= Total(h)
  BY <1>4, TallyIsFinite, FS_Injection DEF Total
<1>6. Cardinality(Rest) = Total(f) - Cardinality(Tally(f) \cap Tally(g))
  BY TallyIsFinite, FS_Difference DEF Total, Rest
<1>7. Cardinality(Tally(f) \cap Tally(g)) <= Total(g)
      /\ IsFiniteSet(Tally(f) \cap Tally(g))
  BY TallyIsFinite, FS_Intersection DEF Total
<1>8. Cardinality(Tally(f) \cap Tally(g)) \in Nat BY <1>7, FS_CardinalityType
<1>9. QED BY <1>5, <1>6, <1>7, <1>8, TallyIsFinite

LEMMA NothingSums == Total(None) = 0 /\ None \in [Caller -> Nat]
<1>1. None \in [Caller -> Nat] /\ \A c \in Caller : None[c] = 0 BY DEF None
<1>2. Tally(None) = {} BY <1>1, InTally
<1>3. QED BY <1>1, <1>2, FS_EmptySet DEF Total

LEMMA TotalLess ==
    ASSUME NEW f \in [Caller -> Nat], NEW g \in [Caller -> Nat],
           \A c \in Caller : f[c] <= g[c]
    PROVE  Total(f) <= Total(g)
<1>1. \A c \in Caller : f[c] <= g[c] + None[c] BY DEF None
<1>2. QED BY <1>1, NothingSums, TotalCovered, TallyIsFinite

\* One call of each caller of a set.
Ones(S) == [c \in Caller |-> IF c \in S THEN 1 ELSE 0]

LEMMA OnesSum ==
    ASSUME NEW S \in SUBSET Caller
    PROVE  Ones(S) \in [Caller -> Nat] /\ Total(Ones(S)) <= Cardinality(S)
           /\ IsFiniteSet(S) /\ Cardinality(S) \in Nat
<1>1. Ones(S) \in [Caller -> Nat] BY DEF Ones
<1>2. IsFiniteSet(S) /\ Cardinality(S) \in Nat
  BY BudgetAssumption, FS_Subset, FS_CardinalityType
<1> DEFINE T == Tally(Ones(S))
           first == [x \in T |-> x[1]]
<1>3. \A x \in T : x = <<x[1], x[2]>> /\ x[1] \in S /\ x[2] = 1
  <2> TAKE x \in T
  <2>1. x = <<x[1], x[2]>> /\ x[1] \in Caller /\ x[2] \in Nat /\ 1 <= x[2]
        /\ x[2] <= Ones(S)[x[1]]
    BY <1>1, InTally
  <2>2. QED BY <2>1 DEF Ones
<1>4. first \in Injection(T, S) BY <1>3 DEF Injection, IsInjective
<1> HIDE DEF T, first
<1>5. Cardinality(T) <= Cardinality(S) BY <1>2, <1>4, FS_Injection
<1>6. QED BY <1>1, <1>2, <1>5 DEF T, Total

-----------------------------------------------------------------------------
\* What the processes have not written, and what died unwritten.
Outstanding == [c \in Caller |-> Unwritten(c) + lost[c]]

\* What the callers of a set made today, and are about to.
Claims(S) == [c \in Caller |-> IF c \in S THEN made[c] + (IF c \in calling THEN 1 ELSE 0) ELSE 0]

\* Nothing is outstanding but for a fault.
FaultsCover == Total(Outstanding) <= faults

\* Any callers who all stop at a limit: each was below it when it last began, with at
\* most one call of each other one to come.
WithinReach ==
    \A S \in SUBSET Caller, limit \in Nat :
        limit >= 1 /\ (\A c \in S : Ceiling(c) <= limit)
            => Total(Claims(S)) < limit + Cardinality(S) + faults

CeilingInv == BudgetInv /\ FaultsCover /\ WithinReach

LEMMA ClaimsTyped ==
    ASSUME BudgetTypeOK
    PROVE  /\ Outstanding \in [Caller -> Nat] /\ Total(Outstanding) \in Nat
           /\ \A S \in SUBSET Caller : Claims(S) \in [Caller -> Nat] /\ Total(Claims(S)) \in Nat
<1>1. Outstanding \in [Caller -> Nat]
  BY UnwrittenIsNat DEF Outstanding, BudgetTypeOK
<1>2. \A S \in SUBSET Caller : Claims(S) \in [Caller -> Nat]
  BY DEF Claims, BudgetTypeOK
<1>3. QED BY <1>1, <1>2, TallyIsFinite

LEMMA ClaimsTypedNext ==
    ASSUME BudgetTypeOK'
    PROVE  /\ Outstanding' \in [Caller -> Nat]
           /\ \A S \in SUBSET Caller : Claims(S)' \in [Caller -> Nat] /\ Total(Claims(S)') \in Nat
<1>1. \A c \in Caller : Unwritten(c)' \in Nat
  BY BudgetAssumption DEF BudgetTypeOK, Unwritten
<1>2. Outstanding' \in [Caller -> Nat]
  BY <1>1 DEF Outstanding, BudgetTypeOK
<1>3. \A S \in SUBSET Caller : Claims(S)' \in [Caller -> Nat]
  BY DEF Claims, BudgetTypeOK
<1>4. QED BY <1>2, <1>3, TallyIsFinite

\* A step leaves more outstanding only by faults, one for each call.
LEMMA FaultsStillCover ==
    ASSUME CeilingInv, BudgetTypeOK', NEW E \in SUBSET Caller,
           \A c \in Caller : Outstanding'[c] <= Outstanding[c] + Ones(E)[c],
           faults' = faults + Cardinality(E)
    PROVE  FaultsCover'
<1>1. BudgetTypeOK /\ faults \in Nat BY DEF CeilingInv, BudgetInv, BudgetTypeOK
<1>2. Total(Outstanding') <= Total(Outstanding) + Total(Ones(E))
  BY <1>1, ClaimsTyped, ClaimsTypedNext, OnesSum, TotalCovered
<1>3. Total(Ones(E)) <= Cardinality(E) /\ Cardinality(E) \in Nat /\ Total(Ones(E)) \in Nat
  BY OnesSum, TallyIsFinite
<1>4. Total(Outstanding) <= faults /\ Total(Outstanding) \in Nat
  BY <1>1, ClaimsTyped DEF CeilingInv, FaultsCover
<1>5. Total(Outstanding') \in Nat BY ClaimsTypedNext, TallyIsFinite
<1>6. Total(Outstanding') <= faults' BY <1>1, <1>2, <1>3, <1>4, <1>5
<1>7. QED BY <1>6 DEF FaultsCover

\* A step that adds a claim without a check does so by a fault; no ceiling comes down.
LEMMA StillWithinReach ==
    ASSUME CeilingInv, BudgetTypeOK', NEW E \in SUBSET Caller,
           \A S \in SUBSET Caller, c \in Caller : Claims(S)'[c] <= Claims(S)[c] + Ones(E)[c],
           \A c \in Caller : Ceiling(c) <= Ceiling(c)',
           faults' = faults + Cardinality(E)
    PROVE  WithinReach'
<1> SUFFICES ASSUME NEW S \in SUBSET Caller, NEW limit \in Nat,
                    limit >= 1, \A c \in S : Ceiling(c)' <= limit
             PROVE  Total(Claims(S)') < limit + Cardinality(S) + faults'
  BY DEF WithinReach
<1>1. BudgetTypeOK /\ faults \in Nat BY DEF CeilingInv, BudgetInv, BudgetTypeOK
<1>2. Total(Claims(S)') <= Total(Claims(S)) + Total(Ones(E))
  BY <1>1, ClaimsTyped, ClaimsTypedNext, OnesSum, TotalCovered
<1>3. Total(Ones(E)) <= Cardinality(E) /\ Cardinality(E) \in Nat /\ Total(Ones(E)) \in Nat
      /\ Cardinality(S) \in Nat
  BY OnesSum, TallyIsFinite
<1>4. \A c \in S : Ceiling(c) <= limit
  <2> TAKE c \in S
  <2>1. Ceiling(c) \in Nat /\ Ceiling(c)' \in Nat BY BudgetAssumption DEF Ceiling
  <2>2. QED BY <2>1
<1>5. Total(Claims(S)) < limit + Cardinality(S) + faults
  BY <1>4 DEF CeilingInv, WithinReach
<1>6. Total(Claims(S)) \in Nat /\ Total(Claims(S)') \in Nat
  BY <1>1, ClaimsTyped, ClaimsTypedNext
<1>7. QED BY <1>1, <1>2, <1>3, <1>5, <1>6

\* A call that was admitted: what its process saw lacks only what is outstanding.
LEMMA AdmittedWithinReach ==
    ASSUME CeilingInv, BudgetTypeOK', NEW c \in Caller, c \notin calling,
           Admitted(c, CallsToday(RunsIn[c])),
           calling' = calling \cup {c}, made' = made, peak' = peak, faults' = faults
    PROVE  WithinReach'
<1> SUFFICES ASSUME NEW S \in SUBSET Caller, NEW limit \in Nat,
                    limit >= 1, \A d \in S : Ceiling(d)' <= limit
             PROVE  Total(Claims(S)') < limit + Cardinality(S) + faults'
  BY DEF WithinReach
<1>1. BudgetTypeOK /\ CountExact /\ faults \in Nat
  BY DEF CeilingInv, BudgetInv, BudgetTypeOK
<1>2. \A d \in S : Ceiling(d) <= limit BY DEF Ceiling
<1>3. CASE c \notin S
  <2>1. Claims(S)' = Claims(S) BY <1>3 DEF Claims
  <2>2. QED BY <1>2, <2>1 DEF CeilingInv, WithinReach
<1>4. CASE c \in S
  <2> DEFINE p == RunsIn[c]
             seen == [d \in Caller |-> row[d] + IF d \in Of(p) THEN Unwritten(d) ELSE 0]
             both == [d \in Caller |-> seen[d] + Outstanding[d]]
  <2>1. Total(seen) < limit
    <3>1. Total(seen) < Ceiling(c) BY DEF Admitted, CallsToday
    <3>2. Ceiling(c) \in Nat BY BudgetAssumption DEF Ceiling
    <3>3. seen \in [Caller -> Nat] BY <1>1, UnwrittenIsNat DEF BudgetTypeOK
    <3>4. Total(seen) \in Nat BY <3>3, TallyIsFinite
    <3>5. QED BY <1>2, <1>4, <3>1, <3>2, <3>4
  <2>2. seen \in [Caller -> Nat] /\ Total(seen) \in Nat
    <3>1. seen \in [Caller -> Nat] BY <1>1, UnwrittenIsNat DEF BudgetTypeOK
    <3>2. QED BY <3>1, TallyIsFinite
  <2>3. both \in [Caller -> Nat] /\ \A d \in Caller : both[d] = seen[d] + Outstanding[d]
    BY <1>1, <2>2, ClaimsTyped
  <2>4. \A d \in Caller : Claims(S)'[d] <= both[d] + Ones(S)[d]
    <3> TAKE d \in Caller
    <3>1. row[d] \in Nat /\ Unwritten(d) \in Nat /\ lost[d] \in Nat /\ made[d] \in Nat
      BY <1>1, UnwrittenIsNat DEF BudgetTypeOK
    <3>2. row[d] + Unwritten(d) + lost[d] >= made[d] BY <1>1 DEF CountExact
    <3>3. Claims(S)'[d] <= made[d] + Ones(S)[d] BY <3>1 DEF Claims, Ones
    <3>4. both[d] >= row[d] + Unwritten(d) + lost[d] /\ both[d] \in Nat
      BY <3>1 DEF Outstanding
    <3>5. Ones(S)[d] \in Nat /\ Claims(S)'[d] \in Nat
      BY ClaimsTypedNext, OnesSum
    <3>6. QED BY <3>1, <3>2, <3>3, <3>4, <3>5
  <2> HIDE DEF seen, both
  <2>5. Total(Claims(S)') <= Total(both) + Total(Ones(S))
    BY <2>3, <2>4, ClaimsTypedNext, OnesSum, TotalCovered
  <2>6. Total(both) <= Total(seen) + Total(Outstanding)
    <3>1. \A d \in Caller : both[d] <= seen[d] + Outstanding[d]
      BY <1>1, <2>2, <2>3, ClaimsTyped
    <3>2. QED BY <1>1, <2>2, <2>3, <3>1, ClaimsTyped, TotalCovered
  <2>7. Total(both) \in Nat BY <2>3, TallyIsFinite
  <2>8. Total(Ones(S)) <= Cardinality(S) /\ Cardinality(S) \in Nat /\ Total(Ones(S)) \in Nat
    BY OnesSum, TallyIsFinite
  <2>9. Total(Outstanding) <= faults /\ Total(Outstanding) \in Nat
    BY <1>1, ClaimsTyped DEF CeilingInv, FaultsCover
  <2>10. Total(Claims(S)') \in Nat BY ClaimsTypedNext
  <2>11. QED BY <1>1, <2>1, <2>2, <2>5, <2>6, <2>7, <2>8, <2>9, <2>10
<1>5. QED BY <1>3, <1>4

LEMMA OneAndNone ==
    /\ {} \in SUBSET Caller /\ Cardinality({}) = 0
    /\ \A c \in Caller : /\ {c} \in SUBSET Caller /\ Cardinality({c}) = 1
                         /\ Ones({c})[c] = 1 /\ \A d \in Caller : d # c => Ones({c})[d] = 0
    /\ \A c \in Caller : Ones({})[c] = 0
BY FS_EmptySet, FS_Singleton DEF Ones

LEMMA CeilingInitInv == BudgetInit => CeilingInv
<1> SUFFICES ASSUME BudgetInit PROVE CeilingInv OBVIOUS
<1>1. BudgetInv /\ BudgetTypeOK BY BudgetInitInv DEF BudgetInv
<1>2. faults = 0 /\ today = 1 /\ calling = {} /\ made = None /\ lost = None
      /\ \A p \in Process : memDay[p] = 0
  BY DEF BudgetInit
<1>3. \A c \in Caller : Outstanding[c] = 0
  BY <1>2, BudgetAssumption DEF Outstanding, Unwritten, None
<1>4. \A S \in SUBSET Caller : \A c \in Caller : Claims(S)[c] = 0
  BY <1>2 DEF Claims, None
<1>5. \A c \in Caller : None[c] = 0 BY DEF None
<1>6. Total(Outstanding) <= 0
  BY <1>1, <1>3, <1>5, ClaimsTyped, NothingSums, TotalLess
<1>7. ASSUME NEW S \in SUBSET Caller PROVE Total(Claims(S)) <= 0
  BY <1>1, <1>4, <1>5, ClaimsTyped, NothingSums, TotalLess
<1>8. WithinReach
  <2> SUFFICES ASSUME NEW S \in SUBSET Caller, NEW limit \in Nat, limit >= 1
               PROVE  Total(Claims(S)) < limit + Cardinality(S) + faults
    BY DEF WithinReach
  <2>1. Total(Claims(S)) \in Nat BY <1>1, ClaimsTyped
  <2>2. QED BY <1>2, <1>7, <2>1, OnesSum
<1>9. QED BY <1>1, <1>2, <1>6, <1>8 DEF CeilingInv, FaultsCover

\* Whatever becomes of its write, a call that is counted was claimed.
LEMMA CountsClaimed ==
    ASSUME BudgetTypeOK, NEW c \in Caller, Counts(c)
    PROVE  /\ \A S \in SUBSET Caller, d \in Caller : Claims(S)'[d] = Claims(S)[d]
           /\ \A d \in Caller : Ceiling(d)' = Ceiling(d)
<1>1. c \in calling /\ calling' = calling \ {c} /\ made' = [made EXCEPT ![c] = @ + 1]
      /\ peak' = peak
  BY DEF Counts
<1>2. ASSUME NEW S \in SUBSET Caller, NEW d \in Caller PROVE Claims(S)'[d] = Claims(S)[d]
  BY <1>1 DEF BudgetTypeOK, Claims
<1>3. QED BY <1>1, <1>2 DEF Ceiling

LEMMA CeilingCounts ==
    ASSUME CeilingInv, BudgetInv', NEW c \in Caller, Counts(c), NEW E \in SUBSET Caller,
           \A d \in Caller : Unwritten(d)' <= Unwritten(d) + Ones(E)[d],
           faults' = faults + Cardinality(E)
    PROVE  CeilingInv'
<1>1. BudgetTypeOK /\ BudgetTypeOK' BY DEF CeilingInv, BudgetInv
<1>2. \A d \in Caller : Outstanding'[d] <= Outstanding[d] + Ones(E)[d]
  <2> TAKE d \in Caller
  <2>1. Unwritten(d) \in Nat /\ Unwritten(d)' \in Nat /\ lost[d] \in Nat /\ lost'[d] = lost[d]
    BY <1>1, UnwrittenIsNat, BudgetAssumption DEF BudgetTypeOK, Unwritten, Counts
  <2>2. Ones(E)[d] \in Nat BY OnesSum
  <2>3. QED BY <2>1, <2>2 DEF Outstanding
<1>3. FaultsCover' BY <1>1, <1>2, FaultsStillCover
<1>4. \A S \in SUBSET Caller, d \in Caller : Claims(S)'[d] <= Claims(S)[d] + Ones(E)[d]
  <2> TAKE S \in SUBSET Caller, d \in Caller
  <2>1. Claims(S)'[d] = Claims(S)[d] BY <1>1, CountsClaimed
  <2>2. Claims(S)[d] \in Nat /\ Ones(E)[d] \in Nat BY <1>1, ClaimsTyped, OnesSum
  <2>3. QED BY <2>1, <2>2
<1>5. \A d \in Caller : Ceiling(d) <= Ceiling(d)'
  <2> TAKE d \in Caller
  <2>1. Ceiling(d) \in Nat /\ Ceiling(d)' = Ceiling(d)
    BY <1>1, CountsClaimed, BudgetAssumption DEF Ceiling
  <2>2. QED BY <2>1
<1>6. WithinReach' BY <1>1, <1>4, <1>5, StillWithinReach
<1>7. QED BY <1>3, <1>6 DEF CeilingInv

\* A step that writes nothing, raises no ceiling and claims, by a fault, at most E.
LEMMA CeilingQuiet ==
    ASSUME CeilingInv, BudgetInv', NEW E \in SUBSET Caller,
           \A d \in Caller : Outstanding'[d] = Outstanding[d],
           made' = made, calling' \subseteq calling \cup E, peak' = peak \/ peak',
           faults' = faults + Cardinality(E)
    PROVE  CeilingInv'
<1>1. BudgetTypeOK /\ BudgetTypeOK' BY DEF CeilingInv, BudgetInv
<1>2. \A d \in Caller : Outstanding'[d] <= Outstanding[d] + Ones(E)[d]
  <2> TAKE d \in Caller
  <2>1. Outstanding[d] \in Nat /\ Ones(E)[d] \in Nat BY <1>1, ClaimsTyped, OnesSum
  <2>2. QED BY <2>1
<1>3. FaultsCover' BY <1>1, <1>2, FaultsStillCover
<1>4. \A S \in SUBSET Caller, d \in Caller : Claims(S)'[d] <= Claims(S)[d] + Ones(E)[d]
  BY <1>1 DEF Claims, Ones, BudgetTypeOK
<1>5. \A d \in Caller : Ceiling(d) <= Ceiling(d)'
  BY BudgetAssumption DEF Ceiling
<1>6. WithinReach' BY <1>1, <1>4, <1>5, StillWithinReach
<1>7. QED BY <1>3, <1>6 DEF CeilingInv

\* What is pending expires with the day, and what is under way is one call each.
LEMMA CeilingMidnight ==
    ASSUME CeilingInv, BudgetInv', BudgetMidnight
    PROVE  CeilingInv'
<1>1. BudgetTypeOK /\ BudgetTypeOK' BY DEF CeilingInv, BudgetInv
<1>2. today' = today + 1 /\ memDay' = memDay /\ lost' = None /\ made' = None
      /\ calling' = calling /\ faults' = faults
  BY DEF BudgetMidnight, counts
<1>3. faults \in Nat /\ \A c \in Caller : None[c] = 0
  BY <1>1 DEF BudgetTypeOK, None
<1>4. ASSUME NEW c \in Caller PROVE Outstanding'[c] = 0
  <2>1. memDay[RunsIn[c]] \in Nat /\ memDay[RunsIn[c]] <= today /\ today \in Nat
    BY <1>1, BudgetAssumption DEF BudgetTypeOK, CeilingInv, BudgetInv
  <2>2. Unwritten(c)' = 0 BY <1>2, <2>1 DEF Unwritten
  <2>3. QED BY <1>2, <1>3, <2>2 DEF Outstanding
<1>5. Total(Outstanding') <= 0
  BY <1>1, <1>3, <1>4, ClaimsTypedNext, NothingSums, TotalLess
<1>6. FaultsCover'
  <2>1. Total(Outstanding') \in Nat BY <1>1, ClaimsTypedNext, TallyIsFinite
  <2>2. Total(Outstanding') <= faults' BY <1>2, <1>3, <1>5, <2>1
  <2>3. QED BY <2>2 DEF FaultsCover
<1>7. WithinReach'
  <2> SUFFICES ASSUME NEW S \in SUBSET Caller, NEW limit \in Nat, limit >= 1
               PROVE  Total(Claims(S)') < limit + Cardinality(S) + faults'
    BY DEF WithinReach
  <2>1. \A c \in Caller : Claims(S)'[c] <= Ones(S)[c]
    BY <1>2, <1>3 DEF Claims, Ones
  <2>2. Total(Claims(S)') <= Total(Ones(S))
    BY <1>1, <2>1, ClaimsTypedNext, OnesSum, TotalLess
  <2>3. Total(Claims(S)') \in Nat /\ Total(Ones(S)) \in Nat
    BY <1>1, ClaimsTypedNext, OnesSum, TallyIsFinite
  <2>4. Total(Ones(S)) <= Cardinality(S) /\ Cardinality(S) \in Nat
    BY OnesSum
  <2>5. QED BY <1>2, <1>3, <2>2, <2>3, <2>4
<1>8. QED BY <1>6, <1>7 DEF CeilingInv

LEMMA CeilingStepInv == CeilingInv /\ [BudgetNext]_budgetVars => CeilingInv'
<1> SUFFICES ASSUME CeilingInv, [BudgetNext]_budgetVars PROVE CeilingInv' OBVIOUS
<1>1. BudgetInv /\ BudgetInv' /\ BudgetTypeOK /\ BudgetTypeOK' /\ faults \in Nat
  BY BudgetStepInv DEF CeilingInv, BudgetInv, BudgetTypeOK
<1>2. ASSUME NEW c \in Caller, CallStarts(c) PROVE CeilingInv'
  <2>1. \A d \in Caller : Outstanding'[d] = Outstanding[d]
    BY <1>2 DEF CallStarts, counts, Outstanding, Unwritten
  <2>2. CASE faults' = faults /\ Admitted(c, CallsToday(RunsIn[c]))
    <3>1. WithinReach'
      BY <1>1, <1>2, <2>2, AdmittedWithinReach DEF CallStarts
    <3>2. \A d \in Caller : Outstanding'[d] <= Outstanding[d] + Ones({})[d]
      <4> TAKE d \in Caller
      <4>1. Outstanding[d] \in Nat /\ Ones({})[d] = 0 BY <1>1, ClaimsTyped, OneAndNone
      <4>2. QED BY <2>1, <4>1
    <3>3. faults' = faults + Cardinality({}) BY <1>1, <2>2, OneAndNone
    <3>4. FaultsCover' BY <1>1, <3>2, <3>3, OneAndNone, FaultsStillCover
    <3>5. QED BY <1>1, <3>1, <3>4 DEF CeilingInv
  <2>3. CASE Fault
    <3>1. faults' = faults + Cardinality({c}) /\ {c} \in SUBSET Caller
      BY <2>3, OneAndNone DEF Fault
    <3>2. QED BY <1>1, <1>2, <2>1, <3>1, CeilingQuiet DEF CallStarts
  <2>4. QED BY <1>2, <2>2, <2>3 DEF CallStarts
<1>3. ASSUME NEW c \in Caller, CallGivesUp(c) PROVE CeilingInv'
  <2>1. \A d \in Caller : Outstanding'[d] = Outstanding[d]
    BY <1>3 DEF CallGivesUp, counts, Outstanding, Unwritten
  <2>2. faults' = faults + Cardinality({}) BY <1>1, <1>3, OneAndNone DEF CallGivesUp
  <2>3. QED BY <1>1, <1>3, <2>1, <2>2, OneAndNone, CeilingQuiet DEF CallGivesUp
<1>4. ASSUME NEW c \in Caller, CountLands(c) PROVE CeilingInv'
  <2>1. \A d \in Caller : Unwritten(d)' <= Unwritten(d) + Ones({})[d]
    <3> TAKE d \in Caller
    <3>1. Unwritten(d) \in Nat /\ Ones({})[d] = 0 BY <1>1, UnwrittenIsNat, OneAndNone
    <3>2. Unwritten(d)' <= Unwritten(d)
      BY <1>1, <1>4, <3>1, CountsUnwritten DEF CountLands, Left, Of, Unwritten
    <3>3. QED BY <3>1, <3>2
  <2>2. faults' = faults + Cardinality({}) BY <1>1, <1>4, OneAndNone DEF CountLands
  <2>3. QED BY <1>1, <1>4, <2>1, <2>2, OneAndNone, CeilingCounts DEF CountLands
<1>5. ASSUME NEW c \in Caller, CountMisses(c) PROVE CeilingInv'
  <2>1. \A d \in Caller : Unwritten(d)' <= Unwritten(d) + Ones({c})[d]
    <3> TAKE d \in Caller
    <3>1. Unwritten(d) \in Nat /\ Ones({c})[d] = (IF d = c THEN 1 ELSE 0)
      BY <1>1, UnwrittenIsNat, OneAndNone
    <3>2. Unwritten(d)' <= Unwritten(d) + IF d = c THEN 1 ELSE 0
      BY <1>1, <1>5, <3>1, CountsUnwritten DEF CountMisses, Kept, Of, Unwritten
    <3>3. QED BY <3>1, <3>2
  <2>2. faults' = faults + Cardinality({c}) BY <1>5, OneAndNone DEF CountMisses, Fault
  <2>3. QED BY <1>1, <1>5, <2>1, <2>2, OneAndNone, CeilingCounts DEF CountMisses
<1>6. ASSUME NEW c \in Caller, CountReadFails(c) PROVE CeilingInv'
  <2>1. \A d \in Caller : Unwritten(d)' <= Unwritten(d) + Ones({c})[d]
    <3> TAKE d \in Caller
    <3>1. Unwritten(d) \in Nat /\ Ones({c})[d] = (IF d = c THEN 1 ELSE 0)
      BY <1>1, UnwrittenIsNat, OneAndNone
    <3>2. Unwritten(d)' <= Unwritten(d) + IF d = c THEN 1 ELSE 0
      BY <1>1, <1>6, <3>1, CountsUnwritten DEF CountReadFails, Left, Of, Unwritten
    <3>3. QED BY <3>1, <3>2
  <2>2. faults' = faults + Cardinality({c}) BY <1>6, OneAndNone DEF CountReadFails, Fault
  <2>3. QED BY <1>1, <1>6, <2>1, <2>2, OneAndNone, CeilingCounts DEF CountReadFails
<1>7. ASSUME PeakOpens PROVE CeilingInv'
  <2>1. \A d \in Caller : Outstanding'[d] = Outstanding[d]
    BY <1>7 DEF PeakOpens, counts, Outstanding, Unwritten
  <2>2. faults' = faults + Cardinality({}) BY <1>1, <1>7, OneAndNone DEF PeakOpens
  <2>3. QED BY <1>1, <1>7, <2>1, <2>2, OneAndNone, CeilingQuiet DEF PeakOpens
<1>8. ASSUME BudgetMidnight PROVE CeilingInv' BY <1>1, <1>8, CeilingMidnight
<1>9. ASSUME NEW p \in Process, BudgetRestart(p) PROVE CeilingInv'
  <2>1. \A d \in Caller : Outstanding'[d] = Outstanding[d]
    <3> TAKE d \in Caller
    <3>1. Unwritten(d) \in Nat /\ lost[d] \in Nat /\ RunsIn[d] \in Process
      BY <1>1, UnwrittenIsNat DEF BudgetTypeOK
    <3>2. lost'[d] = lost[d] + (IF d \in Of(p) THEN Unwritten(d) ELSE 0)
      BY <1>9 DEF BudgetRestart
    <3>3. Unwritten(d)' = IF d \in Of(p) THEN 0 ELSE Unwritten(d)
      BY <1>1, <1>9, <3>1 DEF BudgetRestart, Unwritten, Of, BudgetTypeOK
    <3>4. QED BY <3>1, <3>2, <3>3 DEF Outstanding
  <2>2. faults' = faults + Cardinality({}) BY <1>1, <1>9, OneAndNone DEF BudgetRestart
  <2>3. QED BY <1>1, <1>9, <2>1, <2>2, OneAndNone, CeilingQuiet DEF BudgetRestart
<1>10. ASSUME UNCHANGED budgetVars PROVE CeilingInv'
  <2>1. \A d \in Caller : Outstanding'[d] = Outstanding[d]
    BY <1>10 DEF budgetVars, counts, Outstanding, Unwritten
  <2>2. faults' = faults + Cardinality({}) BY <1>1, <1>10, OneAndNone DEF budgetVars
  <2>3. QED BY <1>1, <1>10, <2>1, <2>2, OneAndNone, CeilingQuiet DEF budgetVars
<1>11. QED
  BY <1>2, <1>3, <1>4, <1>5, <1>6, <1>7, <1>8, <1>9, <1>10 DEF BudgetNext, CallStep

\* What the callers who stop at c's ceiling made is among what they claim.
LEMMA CeilingFollows == CeilingInv => CeilingKept
<1> SUFFICES ASSUME CeilingInv, NEW c \in Caller
             PROVE  LET bulk == {d \in Caller : Ceiling(d) <= Ceiling(c)}
                        limit == IF Ceiling(c) = 0 THEN 1 ELSE Ceiling(c)
                    IN Total([d \in Caller |-> IF d \in bulk THEN made[d] ELSE 0])
                          < limit + Cardinality(bulk) + faults
  BY DEF CeilingKept
<1> DEFINE bulk == {d \in Caller : Ceiling(d) <= Ceiling(c)}
           limit == IF Ceiling(c) = 0 THEN 1 ELSE Ceiling(c)
           spent == [d \in Caller |-> IF d \in bulk THEN made[d] ELSE 0]
<1>1. BudgetTypeOK /\ faults \in Nat BY DEF CeilingInv, BudgetInv, BudgetTypeOK
<1>2. \A d \in Caller : Ceiling(d) \in Nat BY BudgetAssumption DEF Ceiling
<1>3. limit \in Nat /\ limit >= 1 /\ \A d \in bulk : Ceiling(d) <= limit
  BY <1>2
<1>4. bulk \in SUBSET Caller OBVIOUS
<1>5. spent \in [Caller -> Nat] BY <1>1 DEF BudgetTypeOK
<1>6. \A d \in Caller : spent[d] <= Claims(bulk)[d] BY <1>1 DEF Claims, BudgetTypeOK
<1> HIDE DEF bulk, limit, spent
<1>7. Total(spent) <= Total(Claims(bulk)) BY <1>1, <1>4, <1>5, <1>6, ClaimsTyped, TotalLess
<1>8. Total(Claims(bulk)) < limit + Cardinality(bulk) + faults
  BY <1>3, <1>4 DEF CeilingInv, WithinReach
<1>9. Total(spent) \in Nat /\ Total(Claims(bulk)) \in Nat /\ Cardinality(bulk) \in Nat
  BY <1>1, <1>4, <1>5, ClaimsTyped, TallyIsFinite, OnesSum
<1>10. Total(spent) < limit + Cardinality(bulk) + faults BY <1>1, <1>3, <1>7, <1>8, <1>9
<1>11. QED BY <1>10 DEF bulk, limit, spent

\* For any callers and ceilings, those who stop at one pass it by no more than their
\* calls under way and the faults of the counter (CeilingKept: _call_claude_cli checks
\* calls_today minutes before record_call counts).
THEOREM CeilingIsKept == BudgetSpec => []CeilingKept
<1>1. BudgetInit => CeilingInv BY CeilingInitInv
<1>2. CeilingInv /\ [BudgetNext]_budgetVars => CeilingInv' BY CeilingStepInv
<1>3. CeilingInv => CeilingKept BY CeilingFollows
<1>4. QED BY <1>1, <1>2, <1>3, PTL DEF BudgetSpec

-----------------------------------------------------------------------------
(* The exposure of one side of a market is bounded.  The bound is          *)
(* inductive with the types: where a leg passes, what is held fits under   *)
(* the ceiling with it, and what is ordered fits in the room with it.      *)

\* What the bound rests on; that working is the sum of what rests and what is
\* reserved is not needed, nor that it stays positive.
EntryInv ==
    /\ stake \in Nat
    /\ checked \in [Entrant -> Nat]
    /\ reserved \in [Entrant -> 0..MarketCap]
    /\ resting \in Int
    /\ working \in Int
    /\ ExposureBounded

\* A leg that is left to check has a positive number of dollars.
LEMMA LegIsPositive ==
    ASSUME NEW e \in Entrant, checked \in [Entrant -> Nat], checked[e] < Len(Batch[e])
    PROVE  NextLeg(e) \in Nat \ {0}
<1>1. Batch[e] \in Seq(Nat \ {0})
  BY EntryAssumption
<1>2. checked[e] + 1 \in 1..Len(Batch[e])
  BY <1>1
<1> QED BY <1>1, <1>2 DEF NextLeg

LEMMA LessIsBelow ==
    ASSUME NEW less \in Nat, NEW held \in Nat, NEW ordered \in Int, NEW bound \in Int,
           less <= held, held + ordered < bound
    PROVE  less + ordered < bound
OBVIOUS

LEMMA EntryInitInv == EntryInit => EntryInv
BY EntryAssumption DEF EntryInit, EntryInv, ExposureBounded

LEMMA EntryStepInv == EntryInv /\ [EntryNext]_entryVars => EntryInv'
<1> SUFFICES ASSUME EntryInv, [EntryNext]_entryVars
             PROVE  EntryInv'
  OBVIOUS
<1> USE EntryAssumption DEF EntryInv, ExposureBounded
<1>1. ASSUME NEW e \in Entrant, LegPasses(e)
      PROVE  EntryInv'
  <2>1. NextLeg(e) \in Nat \ {0}
    BY <1>1, LegIsPositive DEF LegPasses
  <2>2. reserved'[e] \in 0..MarketCap /\ reserved' \in [Entrant -> 0..MarketCap]
    BY <1>1, <2>1 DEF LegPasses, FitsInBatch
  <2>3. checked' \in [Entrant -> Nat]
    BY <1>1 DEF LegPasses
  <2>4. stake' + working' < MarketCap + Room
    BY <1>1, <2>1 DEF LegPasses, Fits
  <2>5. stake' \in Nat /\ resting' \in Int /\ working' \in Int
    BY <1>1, <2>1 DEF LegPasses
  <2> QED BY <2>2, <2>3, <2>4, <2>5
<1>2. ASSUME NEW e \in Entrant, BatchBlocked(e)
      PROVE  EntryInv'
  BY <1>2 DEF BatchBlocked, EntryEnds
<1>3. ASSUME NEW e \in Entrant, BatchPlaced(e)
      PROVE  EntryInv'
  BY <1>3 DEF BatchPlaced, EntryEnds
<1>4. CASE EntryBooked
  BY <1>4 DEF EntryBooked
<1>5. CASE EntryCancelled
  BY <1>5 DEF EntryCancelled
<1>6. CASE StakeReduced
  <2>1. stake' \in Nat /\ stake' <= stake
    BY <1>6 DEF StakeReduced
  <2>2. working' = working /\ resting' = resting /\ reserved' = reserved /\ checked' = checked
    BY <1>6 DEF StakeReduced
  <2>3. stake + working < MarketCap + Room /\ stake \in Nat /\ working \in Int
    OBVIOUS
  <2>4. MarketCap + Room \in Int
    OBVIOUS
  <2>5. stake' + working < MarketCap + Room
    BY <2>1, <2>3, <2>4, LessIsBelow
  <2> QED BY <2>1, <2>2, <2>5
<1>7. CASE UNCHANGED entryVars
  BY <1>7 DEF entryVars
<1> QED BY <1>1, <1>2, <1>3, <1>4, <1>5, <1>6, <1>7 DEF EntryNext

\* Stacked entries stay under the ceiling and what was unbooked at once, whatever
\* the interleaving of checks, placements and fills (_exceeds_market_cap).
THEOREM ExposureIsBounded == EntrySpec => []ExposureBounded
<1>1. EntryInv => ExposureBounded
  BY DEF EntryInv
<1> QED BY <1>1, EntryInitInv, EntryStepInv, PTL DEF EntrySpec

-----------------------------------------------------------------------------
(* The dollars at work are those that rest and those that are reserved:    *)
(* with one element for each reserved dollar, no sum over the entrants is  *)
(* needed.                                                                 *)

Reservation(e) == {e} \X (1 .. reserved[e])

Reserved == UNION {Reservation(e) : e \in Entrant}

WorkingSums ==
    /\ IsFiniteSet(Reserved)
    /\ working = resting + Cardinality(Reserved)

CapInv == EntryInv /\ EntryTypeOK /\ WorkingSums

\* Reservation of one entrant are as many as the numbers they carry.
LEMMA ReservationCounted ==
    ASSUME NEW e, NEW a \in Int, NEW b \in Int, a <= b + 1
    PROVE  IsFiniteSet({e} \X (a .. b)) /\ Cardinality({e} \X (a .. b)) = b - a + 1
<1>1. IsFiniteSet({e}) /\ Cardinality({e}) = 1 BY FS_Singleton
<1>2. IsFiniteSet(a .. b) /\ Cardinality(a .. b) = IF a > b THEN 0 ELSE b - a + 1
  BY FS_Interval
<1>3. Cardinality(a .. b) = b - a + 1 BY <1>2
<1>4. /\ IsFiniteSet({e} \X (a .. b))
      /\ Cardinality({e} \X (a .. b)) = Cardinality({e}) * Cardinality(a .. b)
  <2> DEFINE one == {e}
             range == a .. b
  <2>1. IsFiniteSet(one) /\ IsFiniteSet(range) BY <1>1, <1>2
  <2> HIDE DEF one, range
  <2>2. IsFiniteSet(one \X range) /\ Cardinality(one \X range) = Cardinality(one) * Cardinality(range)
    BY <2>1, FS_Product
  <2>3. QED BY <2>2 DEF one, range
<1>5. b - a + 1 \in Int /\ 1 * (b - a + 1) = b - a + 1 OBVIOUS
<1>6. Cardinality({e}) * Cardinality(a .. b) = 1 * (b - a + 1) BY <1>1, <1>3
<1>7. QED BY <1>4, <1>5, <1>6

\* One dollar more for an entrant.
LEMMA ReservedGrows ==
    ASSUME EntryInv, WorkingSums, NEW e \in Entrant, NEW n \in Nat,
           reserved' = [reserved EXCEPT ![e] = @ + n]
    PROVE  IsFiniteSet(Reserved') /\ Cardinality(Reserved') = Cardinality(Reserved) + n
<1> DEFINE more == {e} \X (reserved[e] + 1 .. reserved[e] + n)
<1>1. reserved[e] \in Nat /\ reserved \in [Entrant -> Nat]
  BY EntryAssumption DEF EntryInv
<1>2. IsFiniteSet(more) /\ Cardinality(more) = n
  <2>1. /\ reserved[e] + 1 \in Int /\ reserved[e] + n \in Int
        /\ reserved[e] + 1 <= (reserved[e] + n) + 1
        /\ (reserved[e] + n) - (reserved[e] + 1) + 1 = n
    BY <1>1
  <2>2. QED BY <1>1, <2>1, ReservationCounted
<1>3. Reserved' = Reserved \cup more
  <2>1. \A c \in Entrant : reserved'[c] = IF c = e THEN reserved[e] + n ELSE reserved[c]
    BY <1>1
  <2>2. 1 .. reserved[e] + n = (1 .. reserved[e]) \cup (reserved[e] + 1 .. reserved[e] + n)
    BY <1>1
  <2>3. Reservation(e)' = Reservation(e) \cup more BY <2>1, <2>2 DEF Reservation
  <2>4. \A c \in Entrant \ {e} : Reservation(c)' = Reservation(c) BY <2>1 DEF Reservation
  <2>5. QED BY <2>3, <2>4 DEF Reserved
<1>4. Reserved \cap more = {}
  <2>1. \A x \in Reserved : \E c \in Entrant : x[1] = c /\ x[2] \in 1 .. reserved[c]
    BY DEF Reserved, Reservation
  <2>2. \A x \in more : x[1] = e /\ x[2] \in reserved[e] + 1 .. reserved[e] + n
    OBVIOUS
  <2>3. (1 .. reserved[e]) \cap (reserved[e] + 1 .. reserved[e] + n) = {} BY <1>1
  <2>4. QED BY <2>1, <2>2, <2>3
<1>5. Cardinality(Reserved) \in Nat BY FS_CardinalityType DEF WorkingSums
<1>6. IsFiniteSet(Reserved') /\ Cardinality(Reserved') = Cardinality(Reserved) + n - 0
  <2>1. IsFiniteSet(Reserved) BY DEF WorkingSums
  <2> HIDE DEF more
  <2>2. /\ IsFiniteSet(Reserved \cup more)
        /\ Cardinality(Reserved \cup more) =
             Cardinality(Reserved) + Cardinality(more) - Cardinality(Reserved \cap more)
    BY <1>2, <2>1, FS_Union
  <2>3. QED BY <1>2, <1>3, <1>4, <2>2, FS_EmptySet
<1>7. QED BY <1>5, <1>6

\* An entrant is done: its dollars are reserved no more.
LEMMA ReservedGoes ==
    ASSUME EntryInv, WorkingSums, NEW e \in Entrant, reserved' = [reserved EXCEPT ![e] = 0]
    PROVE  /\ IsFiniteSet(Reserved') /\ Cardinality(Reserved') \in Nat
           /\ Cardinality(Reserved) = Cardinality(Reserved') + reserved[e]
<1>1. reserved[e] \in Nat /\ reserved \in [Entrant -> Nat]
  BY EntryAssumption DEF EntryInv
<1>2. IsFiniteSet(Reservation(e)) /\ Cardinality(Reservation(e)) = reserved[e]
  <2>1. 1 \in Int /\ reserved[e] \in Int /\ 1 <= reserved[e] + 1
        /\ reserved[e] - 1 + 1 = reserved[e]
    BY <1>1
  <2>2. QED BY <1>1, <2>1, ReservationCounted DEF Reservation
<1>3. Reserved' = Reserved \ Reservation(e)
  <2>1. \A c \in Entrant : reserved'[c] = IF c = e THEN 0 ELSE reserved[c] BY <1>1
  <2>2. Reservation(e)' = {} BY <2>1 DEF Reservation
  <2>3. \A c \in Entrant \ {e} : Reservation(c)' = Reservation(c) /\ Reservation(c) \cap Reservation(e) = {}
    BY <2>1 DEF Reservation
  <2>4. QED BY <2>2, <2>3 DEF Reserved
<1>4. Reserved \cap Reservation(e) = Reservation(e) BY DEF Reserved
<1>5. IsFiniteSet(Reserved') /\ Cardinality(Reserved') = Cardinality(Reserved) - reserved[e]
  <2>1. IsFiniteSet(Reserved) BY DEF WorkingSums
  <2>2. /\ IsFiniteSet(Reserved \ Reservation(e))
        /\ Cardinality(Reserved \ Reservation(e)) =
             Cardinality(Reserved) - Cardinality(Reserved \cap Reservation(e))
    BY <2>1, FS_Difference
  <2>3. QED BY <1>2, <1>3, <1>4, <2>2
<1>6. Cardinality(Reserved) \in Nat /\ Cardinality(Reserved') \in Nat
  BY <1>5, FS_CardinalityType DEF WorkingSums
<1>7. QED BY <1>1, <1>5, <1>6

LEMMA CapInit == EntryInit => CapInv
<1> SUFFICES ASSUME EntryInit PROVE CapInv OBVIOUS
<1>1. Reserved = {} BY DEF EntryInit, Reserved, Reservation
<1>2. WorkingSums BY <1>1, FS_EmptySet DEF WorkingSums, EntryInit
<1>3. EntryTypeOK BY EntryAssumption DEF EntryInit, EntryTypeOK
<1>4. QED BY <1>2, <1>3, EntryInitInv DEF CapInv

LEMMA CapStep == ASSUME CapInv, [EntryNext]_entryVars PROVE CapInv'
<1>1. EntryInv /\ EntryInv' /\ WorkingSums /\ EntryTypeOK
  BY EntryStepInv DEF CapInv
<1>2. Cardinality(Reserved) \in Nat BY <1>1, FS_CardinalityType DEF WorkingSums
<1>3. /\ stake' \in Nat /\ checked' \in [Entrant -> Nat] /\ reserved' \in [Entrant -> 0..MarketCap]
      /\ Room \in Nat /\ resting \in 0 .. Room /\ working \in 0 .. Room
      /\ working = resting + Cardinality(Reserved)
  BY <1>1, EntryAssumption DEF EntryInv, EntryTypeOK, WorkingSums
<1> SUFFICES /\ IsFiniteSet(Reserved') /\ working' = resting' + Cardinality(Reserved')
             /\ resting' \in 0 .. Room /\ working' \in 0 .. Room
  BY <1>1, <1>3 DEF CapInv, EntryTypeOK, WorkingSums
<1>4. ASSUME reserved' = reserved PROVE Reserved' = Reserved BY <1>4 DEF Reserved, Reservation
<1>5. ASSUME NEW e \in Entrant, LegPasses(e)
      PROVE  /\ IsFiniteSet(Reserved') /\ working' = resting' + Cardinality(Reserved')
             /\ resting' \in 0 .. Room /\ working' \in 0 .. Room
  <2>1. NextLeg(e) \in Nat /\ NextLeg(e) > 0
    BY <1>1, <1>5, LegIsPositive DEF LegPasses, EntryInv
  <2>2. IsFiniteSet(Reserved') /\ Cardinality(Reserved') = Cardinality(Reserved) + NextLeg(e)
    BY <1>1, <1>5, <2>1, ReservedGrows DEF LegPasses
  <2>3. resting' = resting /\ working' = working + NextLeg(e) /\ working + NextLeg(e) <= Room
    BY <1>5 DEF LegPasses
  <2>4. QED BY <1>2, <1>3, <2>1, <2>2, <2>3
<1>6. ASSUME NEW e \in Entrant, BatchBlocked(e) \/ BatchPlaced(e)
      PROVE  /\ IsFiniteSet(Reserved') /\ working' = resting' + Cardinality(Reserved')
             /\ resting' \in 0 .. Room /\ working' \in 0 .. Room
  <2>1. /\ IsFiniteSet(Reserved') /\ Cardinality(Reserved') \in Nat
        /\ Cardinality(Reserved) = Cardinality(Reserved') + reserved[e]
    BY <1>1, <1>6, ReservedGoes DEF BatchBlocked, BatchPlaced, EntryEnds
  <2>2. reserved[e] \in Nat BY <1>1, EntryAssumption DEF EntryInv
  <2>3. \E refused \in 0 .. reserved[e] :
          resting' = resting + (reserved[e] - refused) /\ working' = working - refused
    <3>1. CASE BatchBlocked(e)
      <4>1. resting' = resting + (reserved[e] - reserved[e]) /\ working' = working - reserved[e]
        BY <1>3, <2>2, <3>1 DEF BatchBlocked
      <4>2. QED BY <2>2, <4>1
    <3>2. CASE BatchPlaced(e)
      BY <1>3, <2>2, <3>2 DEF BatchPlaced
    <3>3. QED BY <1>6, <3>1, <3>2
  <2>4. QED BY <1>2, <1>3, <2>1, <2>2, <2>3
<1>7. CASE EntryBooked
  BY <1>2, <1>3, <1>4, <1>1, <1>7 DEF EntryBooked, WorkingSums
<1>8. CASE EntryCancelled
  BY <1>2, <1>3, <1>4, <1>1, <1>8 DEF EntryCancelled, WorkingSums
<1>9. CASE StakeReduced \/ UNCHANGED entryVars
  BY <1>2, <1>3, <1>4, <1>1, <1>9 DEF StakeReduced, entryVars, WorkingSums
<1>10. QED BY <1>5, <1>6, <1>7, <1>8, <1>9 DEF EntryNext

\* A batch's reservations stay within the cap, and what is at work is never less than
\* what rests, nor more than the room (EntryTypeOK, of which a leg's check makes sure).
THEOREM EntryTyped == EntrySpec => []EntryTypeOK
<1>1. CapInv => EntryTypeOK BY DEF CapInv
<1>2. QED BY <1>1, CapInit, CapStep, PTL DEF EntrySpec

-----------------------------------------------------------------------------
(* Directed orders are answerable and keep the daily cap.  The first is    *)
(* inductive once an order that is not sent yet is known to the table      *)
(* only; the second, once an order that was gated and not overtaken still  *)
(* fits under the cap.                                                     *)

\* What is at the broker of an order, and in its row, at each place.
PlaceTells ==
    \A o \in Directive :
        /\ place[o] \in {"new", "passed"} => broker[o] = "none" /\ audit[o] = "none"
        /\ place[o] = "recorded" => broker[o] = "none"
        /\ place[o] \in {"recorded", "sent"} => audit[o] = "submitted"
        /\ submittedAt[o] <= date

\* An order past the gates fits under the cap, while nothing has come in between.
StillFits ==
    \A o \in Gated \ overtaken : Dollars(Committed) + Notional[o] <= DailyCap

DirectedInv ==
    /\ DirectedTypeOK
    /\ PlaceTells
    /\ Answerable
    /\ StillFits
    /\ DailyCapKept

LEMMA DirectedInitInv == DirectedInit => DirectedInv
<1> SUFFICES ASSUME DirectedInit
             PROVE  DirectedInv
  OBVIOUS
<1>1. DirectedTypeOK
  BY DirectedAssumption DEF DirectedInit, DirectedTypeOK
<1>2. PlaceTells /\ Answerable
  BY DEF DirectedInit, PlaceTells, Answerable
<1>3. Committed = {} /\ Gated = {}
  BY DEF DirectedInit, Committed, CountsAs, Gated
<1>4. StillFits
  BY <1>3 DEF StillFits
<1>5. DailyCapKept
  BY <1>3, DollarsAssumption, DirectedAssumption DEF DailyCapKept
<1> QED BY <1>1, <1>2, <1>4, <1>5 DEF DirectedInv

\* The sum without one order, whether it was in it or not.
LEMMA DollarsWithout ==
    ASSUME NEW S \in SUBSET Directive, NEW o \in Directive
    PROVE  /\ Dollars(S) \in Nat /\ Dollars(S \ {o}) \in Nat /\ Notional[o] \in Nat
           /\ o \in S => Dollars(S) = Dollars(S \ {o}) + Notional[o]
           /\ o \notin S => S \ {o} = S
<1>1. o \in S => (S \ {o}) \cup {o} = S
  OBVIOUS
<1>2. Dollars((S \ {o}) \cup {o}) = Dollars(S \ {o}) + Notional[o]
  BY DollarsAssumption
<1> QED BY <1>1, <1>2, DollarsAssumption, DirectedAssumption

\* The same rows count, and nothing is gated anew: the cap stays as it was.
LEMMA CapUntouched ==
    ASSUME DirectedInv, Committed' = Committed, overtaken' = overtaken, Gated' \subseteq Gated
    PROVE  StillFits' /\ DailyCapKept'
BY DEF DirectedInv, StillFits, DailyCapKept

\* One row no longer counts.
LEMMA CapReleased ==
    ASSUME DirectedInv, NEW o \in Directive, Committed' = Committed \ {o},
           overtaken' = overtaken, Gated' \subseteq Gated
    PROVE  StillFits' /\ DailyCapKept'
<1> DEFINE C == Committed  D == Committed \cap overtaken
<1>1. C \in SUBSET Directive /\ D \in SUBSET Directive
  BY DEF Committed
<1>2. Committed' \cap overtaken' = D \ {o}
  OBVIOUS
<1>3. /\ Dollars(C) \in Nat /\ Dollars(C \ {o}) \in Nat /\ Notional[o] \in Nat
      /\ o \in C => Dollars(C) = Dollars(C \ {o}) + Notional[o]
      /\ o \notin C => C \ {o} = C
  BY <1>1, DollarsWithout
<1>4. /\ Dollars(D) \in Nat /\ Dollars(D \ {o}) \in Nat
      /\ o \in D => Dollars(D) = Dollars(D \ {o}) + Notional[o]
      /\ o \notin D => D \ {o} = D
  BY <1>1, DollarsWithout
<1>5. o \in D => o \in C
  OBVIOUS
<1>6. Dollars(C) <= DailyCap + Dollars(D) /\ DailyCap \in Nat
  BY DirectedAssumption DEF DirectedInv, DailyCapKept
<1>7. Dollars(C \ {o}) <= Dollars(C)
  <2>1. CASE o \in C
    BY <2>1, <1>3
  <2>2. CASE o \notin C
    <3>1. C \ {o} = C
      BY <2>2
    <3>2. Dollars(C \ {o}) = Dollars(C)
      BY <3>1, Zenon
    <3> QED BY <3>2, <1>3
  <2> QED BY <2>1, <2>2
<1>8. Dollars(C \ {o}) <= DailyCap + Dollars(D \ {o})
  <2>1. CASE o \in D
    BY <2>1, <1>3, <1>4, <1>5, <1>6
  <2>2. CASE o \notin D
    BY <2>2, <1>3, <1>4, <1>6, <1>7
  <2> QED BY <2>1, <2>2
<1>9. DailyCapKept'
  BY <1>2, <1>8 DEF DailyCapKept
<1>10. ASSUME NEW g \in Gated \ overtaken
       PROVE  Dollars(C \ {o}) + Notional[g] <= DailyCap
  <2>1. Dollars(C) + Notional[g] <= DailyCap /\ Notional[g] \in Nat
    BY DirectedAssumption DEF DirectedInv, StillFits, Gated
  <2> QED BY <2>1, <1>3, <1>6, <1>7
<1>11. StillFits'
  BY <1>10 DEF StillFits
<1> QED BY <1>9, <1>11

\* A row is written: it fits if nothing came in between, and is known to have been
\* overtaken otherwise; whoever is still gated is overtaken by it.
LEMMA AuditWrittenInv ==
    ASSUME DirectedInv, NEW o \in Directive, AuditWritten(o)
    PROVE  DirectedInv'
<1>1. /\ place[o] = "passed"
      /\ place' = [place EXCEPT ![o] = "recorded"]
      /\ audit' = [audit EXCEPT ![o] = "submitted"]
      /\ submittedAt' = [submittedAt EXCEPT ![o] = date]
      /\ overtaken' = overtaken \cup (Gated \ {o})
      /\ date' = date /\ broker' = broker
  BY DEF AuditWritten
<1>2. DirectedTypeOK'
  BY <1>1 DEF DirectedInv, DirectedTypeOK, Gated
<1>3. PlaceTells' /\ Answerable'
  BY <1>1 DEF DirectedInv, DirectedTypeOK, PlaceTells, Answerable, CountsAs
<1>4. \A g \in Gated : g \notin Committed
  BY DEF DirectedInv, PlaceTells, Gated, Committed, CountsAs
<1>5. Committed' = Committed \cup {o} /\ o \notin Committed /\ o \in Gated
  <2>1. o \in Gated
    BY <1>1 DEF Gated
  <2>2. \A d \in Directive : d \in Committed' <=> d \in Committed \cup {o}
    BY <1>1 DEF DirectedInv, DirectedTypeOK, Committed, CountsAs
  <2>3. Committed' \subseteq Directive /\ Committed \subseteq Directive
    BY DEF Committed
  <2> QED BY <2>1, <2>2, <2>3, <1>4
<1>6. Gated' \subseteq overtaken'
  BY <1>1 DEF DirectedInv, DirectedTypeOK, Gated
<1>7. StillFits'
  BY <1>6 DEF StillFits
<1> DEFINE D == Committed \cap overtaken
<1>8. Committed \in SUBSET Directive /\ D \in SUBSET Directive /\ o \notin D
  BY <1>5 DEF Committed
<1>9. Dollars(Committed \cup {o}) = Dollars(Committed) + Notional[o]
      /\ Dollars(D \cup {o}) = Dollars(D) + Notional[o]
      /\ Dollars(Committed) \in Nat /\ Dollars(D) \in Nat
      /\ Notional[o] \in Nat /\ DailyCap \in Nat
  BY <1>5, <1>8, DollarsAssumption, DirectedAssumption
<1>10. Dollars(Committed) <= DailyCap + Dollars(D)
  BY DEF DirectedInv, DailyCapKept
<1>11. DailyCapKept'
  <2>1. CASE o \in overtaken
    <3>1. Committed' \cap overtaken' = D \cup {o}
      BY <1>1, <1>4, <1>5, <2>1
    <3>2. Dollars(Committed \cup {o}) <= DailyCap + Dollars(D \cup {o})
      BY <1>9, <1>10
    <3> QED BY <3>1, <3>2, <1>5 DEF DailyCapKept
  <2>2. CASE o \notin overtaken
    <3>1. Committed' \cap overtaken' = D
      BY <1>1, <1>4, <1>5, <2>2
    <3>2. Dollars(Committed) + Notional[o] <= DailyCap
      BY <1>5, <2>2 DEF DirectedInv, StillFits
    <3>3. Dollars(Committed \cup {o}) <= DailyCap + Dollars(D)
      BY <1>9, <3>2
    <3> QED BY <3>1, <3>3, <1>5 DEF DailyCapKept
  <2> QED BY <2>1, <2>2
<1> QED BY <1>2, <1>3, <1>7, <1>11 DEF DirectedInv

\* At midnight the sum starts again, and whoever is gated was gated by the old one.
LEMMA DateTurnsInv ==
    ASSUME DirectedInv, DateTurns
    PROVE  DirectedInv'
<1>1. /\ date < Dates /\ date' = date + 1
      /\ overtaken' = overtaken \cup Gated
      /\ place' = place /\ audit' = audit /\ submittedAt' = submittedAt /\ broker' = broker
  BY DEF DateTurns
<1>2. DirectedTypeOK'
  BY <1>1, DirectedAssumption DEF DirectedInv, DirectedTypeOK, Gated
<1>3. PlaceTells' /\ Answerable'
  BY <1>1 DEF DirectedInv, DirectedTypeOK, PlaceTells, Answerable, CountsAs
<1>4. Committed' = {}
  BY <1>1, DirectedAssumption DEF DirectedInv, DirectedTypeOK, PlaceTells, Committed
<1>5. StillFits'
  BY <1>1 DEF StillFits, Gated
<1>6. DailyCapKept'
  BY <1>4, DollarsAssumption, DirectedAssumption DEF DailyCapKept
<1> QED BY <1>2, <1>3, <1>5, <1>6 DEF DirectedInv

LEMMA DirectedStepInv == DirectedInv /\ [DirectedNext]_directedVars => DirectedInv'
<1> SUFFICES ASSUME DirectedInv, [DirectedNext]_directedVars
             PROVE  DirectedInv'
  OBVIOUS
<1> USE DEF DirectedInv
<1>1. ASSUME NEW o \in Directive, GatePasses(o)
      PROVE  DirectedInv'
  <2>1. DirectedTypeOK' /\ PlaceTells' /\ Answerable'
    BY <1>1 DEF GatePasses, DirectedTypeOK, PlaceTells, Answerable, CountsAs
  <2>2. Committed' = Committed /\ overtaken' = overtaken /\ Gated' = Gated \cup {o}
    BY <1>1 DEF GatePasses, DirectedTypeOK, Committed, Gated
  <2>3. Dollars(Committed) + Notional[o] <= DailyCap
    BY <1>1 DEF GatePasses
  <2>4. StillFits' /\ DailyCapKept'
    BY <2>2, <2>3 DEF StillFits, DailyCapKept
  <2> QED BY <2>1, <2>4
<1>2. ASSUME NEW o \in Directive, GateRefuses(o)
      PROVE  DirectedInv'
  <2>1. DirectedTypeOK' /\ PlaceTells' /\ Answerable'
    BY <1>2 DEF GateRefuses, DirectedTypeOK, PlaceTells, Answerable, CountsAs
  <2>2. Committed' = Committed /\ overtaken' = overtaken /\ Gated' \subseteq Gated
    BY <1>2 DEF GateRefuses, DirectedTypeOK, PlaceTells, Committed, CountsAs, Gated
  <2> QED BY <2>1, <2>2, CapUntouched
<1>3. ASSUME NEW o \in Directive, SendRaises(o)
      PROVE  DirectedInv'
  <2>1. DirectedTypeOK' /\ PlaceTells' /\ Answerable'
    BY <1>3 DEF SendRaises, DirectedTypeOK, PlaceTells, Answerable, CountsAs
  <2>2. Committed' = Committed \ {o} /\ overtaken' = overtaken /\ Gated' \subseteq Gated
    BY <1>3 DEF SendRaises, DirectedTypeOK, Committed, CountsAs, Gated
  <2> QED BY <2>1, <2>2, CapReleased
<1>4. ASSUME NEW o \in Directive, Sends(o)
      PROVE  DirectedInv'
  <2>1. DirectedTypeOK' /\ PlaceTells' /\ Answerable'
    BY <1>4 DEF Sends, DirectedTypeOK, PlaceTells, Answerable, CountsAs
  <2>2. Committed' = Committed /\ overtaken' = overtaken /\ Gated' \subseteq Gated
    BY <1>4 DEF Sends, DirectedTypeOK, Committed, Gated
  <2> QED BY <2>1, <2>2, CapUntouched
<1>5. ASSUME NEW o \in Directive, BrokerEnds(o)
      PROVE  DirectedInv'
  <2>1. DirectedTypeOK' /\ PlaceTells' /\ Answerable'
    BY <1>5 DEF BrokerEnds, DirectedTypeOK, PlaceTells, Answerable, CountsAs
  <2>2. Committed' = Committed /\ overtaken' = overtaken /\ Gated' \subseteq Gated
    BY <1>5 DEF BrokerEnds, Committed, Gated
  <2> QED BY <2>1, <2>2, CapUntouched
<1>6. ASSUME NEW o \in Directive, Settles(o)
      PROVE  DirectedInv'
  <2>1. DirectedTypeOK' /\ PlaceTells' /\ Answerable'
    BY <1>6 DEF Settles, Settled, DirectedTypeOK, PlaceTells, Answerable, CountsAs
  <2>2. overtaken' = overtaken /\ Gated' \subseteq Gated
    BY <1>6 DEF Settles, DirectedTypeOK, Gated
  <2>3. CASE broker[o] = "gone"
    <3>1. Committed' = Committed \ {o}
      BY <1>6, <2>3 DEF Settles, Settled, DirectedTypeOK, Committed, CountsAs
    <3> QED BY <2>1, <2>2, <3>1, CapReleased
  <2>4. CASE broker[o] # "gone"
    <3>1. Committed' = Committed
      BY <1>6, <2>4 DEF Settles, Settled, DirectedTypeOK, PlaceTells, Committed, CountsAs
    <3> QED BY <2>1, <2>2, <3>1, CapUntouched
  <2> QED BY <2>3, <2>4
<1>7. ASSUME NEW o \in Directive, PlaceDies(o)
      PROVE  DirectedInv'
  <2>1. DirectedTypeOK' /\ PlaceTells' /\ Answerable'
    BY <1>7 DEF PlaceDies, DirectedTypeOK, PlaceTells, Answerable, CountsAs
  <2>2. Committed' = Committed /\ overtaken' = overtaken /\ Gated' \subseteq Gated
    BY <1>7 DEF PlaceDies, DirectedTypeOK, Committed, Gated
  <2> QED BY <2>1, <2>2, CapUntouched
<1>8. CASE UNCHANGED directedVars
  <2>1. DirectedTypeOK' /\ PlaceTells' /\ Answerable'
    BY <1>8 DEF directedVars, DirectedTypeOK, PlaceTells, Answerable, CountsAs
  <2>2. Committed' = Committed /\ overtaken' = overtaken /\ Gated' \subseteq Gated
    BY <1>8 DEF directedVars, Committed, Gated
  <2> QED BY <2>1, <2>2, CapUntouched
<1> QED BY <1>1, <1>2, <1>3, <1>4, <1>5, <1>6, <1>7, <1>8, AuditWrittenInv, DateTurnsInv
        DEF DirectedNext

\* Every order is in one place of place(), with one status in its audit row and at the
\* broker, submitted on one of the days or on none (DirectedTypeOK).
THEOREM DirectedTyped == DirectedSpec => []DirectedTypeOK
<1>1. DirectedInv => DirectedTypeOK
  BY DEF DirectedInv
<1> QED BY <1>1, DirectedInitInv, DirectedStepInv, PTL DEF DirectedSpec

\* Whatever is at the broker, or filled there, counts in the table: through every
\* crash and timeout of place().
THEOREM IsAnswerable == DirectedSpec => []Answerable
<1>1. DirectedInv => Answerable
  BY DEF DirectedInv
<1> QED BY <1>1, DirectedInitInv, DirectedStepInv, PTL DEF DirectedSpec

\* The day's cap holds but for the orders gated before another's row was written
\* (gate_reason and place).
THEOREM DailyCapIsKept == DirectedSpec => []DailyCapKept
<1>1. DirectedInv => DailyCapKept
  BY DEF DirectedInv
<1> QED BY <1>1, DirectedInitInv, DirectedStepInv, PTL DEF DirectedSpec

-----------------------------------------------------------------------------
(* The paper wallet.  The invariant adds to the property the one order     *)
(* that was granted in turn and waits to be booked: it fits with           *)
(* everything booked in turn.                                              *)

Booked == InPlace("held")
InTurn == InPlace("granted") \ late

\* A walk that is over has looked at every order.
WalkOver == monitor # "walks" => walk = {}

\* What was booked in turn fits in the wallet, and with it the one order that is granted
\* and was granted in turn.  An order that has not been granted is not late.
WalletInv ==
    /\ PaperTypeOK /\ WalkOver
    /\ \A o \in late : paper[o] \notin {"new", "queued"}
    /\ \A o, p \in InTurn : o = p
    /\ Costs(Booked \ late) <= PaperCash
    /\ \A o \in InTurn : Costs(Booked \ late) + Costs({o}) <= PaperCash

\* A part of a set of orders costs no more than the set.
LEMMA CostsLess ==
    ASSUME NEW T \in SUBSET PaperOrder, NEW S \in SUBSET T
    PROVE  Costs(S) \in Nat /\ Costs(T) \in Nat /\ Costs(S) <= Costs(T)
<1>1. S \in SUBSET PaperOrder /\ T \ S \in SUBSET PaperOrder /\ S \cap (T \ S) = {} OBVIOUS
<1>2. T = S \cup (T \ S) OBVIOUS
<1>3. Costs(S \cup (T \ S)) = Costs(S) + Costs(T \ S) BY <1>1, PaperAssumption
<1>4. Costs(S) \in Nat /\ Costs(T) \in Nat /\ Costs(T \ S) \in Nat BY <1>1, PaperAssumption
<1>5. QED BY <1>2, <1>3, <1>4

\* Whatever takes no order to the books, grants none and leaves the late ones alone.
LEMMA WalletQuiet ==
    ASSUME WalletInv, PaperTypeOK', WalkOver', late' = late,
           Booked' \subseteq Booked, InPlace("granted")' \subseteq InPlace("granted"),
           \A o \in PaperOrder : paper'[o] \in {"new", "queued"} => paper[o] \in {"new", "queued"}
    PROVE  WalletInv'
<1>1. Booked' \ late' \subseteq Booked \ late /\ InTurn' \subseteq InTurn BY DEF InTurn
<1>2. Booked \ late \in SUBSET PaperOrder BY DEF Booked, InPlace
<1>3. Costs(Booked' \ late') <= Costs(Booked \ late)
      /\ Costs(Booked' \ late') \in Nat /\ Costs(Booked \ late) \in Nat
  BY <1>1, <1>2, CostsLess
<1>4. \A o \in InTurn : Costs({o}) \in Nat
  BY PaperAssumption DEF InTurn, InPlace
<1>5. \A o \in late' : paper'[o] \notin {"new", "queued"}
  BY DEF WalletInv, PaperTypeOK
<1>6. \A o, p \in InTurn' : o = p BY <1>1 DEF WalletInv
<1>7. Costs(Booked' \ late') <= PaperCash BY <1>3, PaperAssumption DEF WalletInv
<1>8. \A o \in InTurn' : Costs(Booked' \ late') + Costs({o}) <= PaperCash
  <2> TAKE o \in InTurn'
  <2>1. Costs({o}) \in Nat /\ Costs(Booked \ late) + Costs({o}) <= PaperCash
    BY <1>1, <1>4 DEF WalletInv
  <2>2. QED BY <1>3, <2>1, PaperAssumption
<1>9. QED
  BY <1>5, <1>6, <1>7, <1>8 DEF WalletInv, InTurn, Booked, InPlace

\* An order the balance covered is granted: in turn, or late.
LEMMA WalletGrants ==
    ASSUME WalletInv, PaperTypeOK', WalkOver', NEW o \in PaperOrder, paper[o] \in {"new", "queued"},
           Affordable(o), Granted(o)
    PROVE  WalletInv'
<1>1. paper \in [PaperOrder -> {"new", "queued", "granted", "held", "closed"}]
      /\ late \subseteq PaperOrder /\ o \notin late
  BY DEF WalletInv, PaperTypeOK
<1>2. paper' = [paper EXCEPT ![o] = "granted"] BY DEF Granted, Moves
<1>3. Booked' = Booked /\ InPlace("granted")' = InPlace("granted") \cup {o}
  BY <1>1, <1>2 DEF Booked, InPlace
<1>4. Booked \in SUBSET PaperOrder /\ Booked \ late \in SUBSET Booked /\ {o} \in SUBSET PaperOrder
  BY DEF Booked, InPlace
<1>5. Costs(Booked \ late) <= Costs(Booked) /\ Costs(Booked \ late) \in Nat /\ Costs(Booked) \in Nat
  BY <1>4, CostsLess
<1>6. Costs({o}) \in Nat BY <1>4, PaperAssumption
<1>7. CASE InPlace("granted") = {}
  <2>1. late' = late /\ InTurn' = {o} BY <1>1, <1>3, <1>7 DEF Granted, InTurn
  <2>2. Costs(Booked) + Costs({o}) <= PaperCash BY DEF Affordable, Booked
  <2>3. Costs(Booked' \ late') + Costs({o}) <= PaperCash
        /\ Costs(Booked' \ late') <= PaperCash
    BY <1>3, <1>5, <1>6, <2>1, <2>2, PaperAssumption
  <2>4. \A p \in late' : paper'[p] \notin {"new", "queued"}
    BY <1>1, <1>2, <2>1 DEF WalletInv
  <2>5. QED BY <2>1, <2>3, <2>4 DEF WalletInv
<1>8. CASE InPlace("granted") # {}
  <2>1. late' = late \cup {o} /\ InTurn' = InTurn /\ Booked' \ late' = Booked \ late
    BY <1>1, <1>2, <1>3, <1>8 DEF Granted, InTurn, Booked, InPlace
  <2>2. \A p \in late' : paper'[p] \notin {"new", "queued"}
    BY <1>1, <1>2, <2>1 DEF WalletInv
  <2>3. QED BY <2>1, <2>2 DEF WalletInv
<1>9. QED BY <1>7, <1>8

\* A granted order gets to the books: one that is late, or the one that was next.
LEMMA WalletBooks ==
    ASSUME WalletInv, PaperTypeOK', WalkOver', NEW o \in PaperOrder, paper[o] = "granted",
           Moves(o, "held"), late' = late
    PROVE  WalletInv'
<1>1. paper \in [PaperOrder -> {"new", "queued", "granted", "held", "closed"}]
      /\ late \subseteq PaperOrder
  BY DEF WalletInv, PaperTypeOK
<1>2. paper' = [paper EXCEPT ![o] = "held"] BY DEF Moves
<1>3. Booked' = Booked \cup {o} /\ InPlace("granted")' = InPlace("granted") \ {o} /\ o \notin Booked
  BY <1>1, <1>2 DEF Booked, InPlace
<1>4. \A p \in late' : paper'[p] \notin {"new", "queued"}
  BY <1>1, <1>2 DEF WalletInv
<1>5. InTurn' = InTurn \ {o} BY <1>3 DEF InTurn
<1>6. CASE o \in late
  <2>1. Booked' \ late' = Booked \ late BY <1>3, <1>6
  <2>2. QED BY <1>4, <1>5, <2>1 DEF WalletInv
<1>7. CASE o \notin late
  <2>1. o \in InTurn BY <1>7 DEF InTurn, InPlace
  <2>2. InTurn' = {} BY <1>5, <2>1 DEF WalletInv
  <2>3. Booked' \ late' = (Booked \ late) \cup {o} /\ (Booked \ late) \cap {o} = {}
        /\ Booked \ late \in SUBSET PaperOrder /\ {o} \in SUBSET PaperOrder
    BY <1>3, <1>7 DEF Booked, InPlace
  <2>4. Costs((Booked \ late) \cup {o}) = Costs(Booked \ late) + Costs({o})
    BY <2>3, PaperAssumption
  <2>5. Costs(Booked' \ late') = Costs(Booked \ late) + Costs({o})
    BY <2>3, <2>4
  <2>6. Costs(Booked' \ late') <= PaperCash BY <2>1, <2>5 DEF WalletInv
  <2>7. QED BY <1>4, <2>2, <2>6 DEF WalletInv
<1>8. QED BY <1>6, <1>7

LEMMA WalletInit == PaperInit => WalletInv
<1> SUFFICES ASSUME PaperInit PROVE WalletInv OBVIOUS
<1>1. PaperTypeOK /\ WalkOver BY DEF PaperInit, PaperTypeOK, WalkOver, InPlace
<1>2. Booked = {} /\ InTurn = {} /\ late = {}
  BY DEF PaperInit, Booked, InTurn, InPlace
<1>3. ASSUME NEW S \in SUBSET PaperOrder, S = {} PROVE Costs(S) = 0
  <2>1. Costs(S \cup S) = Costs(S) + Costs(S) /\ Costs(S) \in Nat
    BY <1>3, PaperAssumption
  <2>2. S \cup S = S OBVIOUS
  <2>3. Costs(S \cup S) = Costs(S) BY <2>2, Zenon
  <2>4. \A n \in Nat : n = n + n => n = 0 OBVIOUS
  <2>5. QED BY <2>1, <2>3, <2>4
<1>4. Booked \ late \in SUBSET PaperOrder /\ Booked \ late = {} BY <1>2
<1>5. Costs(Booked \ late) = 0 BY <1>3, <1>4
<1>6. Costs(Booked \ late) <= PaperCash BY <1>5, PaperAssumption
<1>7. QED BY <1>1, <1>2, <1>6 DEF WalletInv

\* The places, the walk over the queue and the fills to book keep to one another.
LEMMA WalletTypes ==
    ASSUME PaperTypeOK, WalkOver, [PaperNext]_paperVars
    PROVE  PaperTypeOK' /\ WalkOver'
<1> USE DEF PaperTypeOK, WalkOver, InPlace
<1>1. ASSUME NEW o \in PaperOrder, PaperRests(o) PROVE PaperTypeOK' /\ WalkOver'
  BY <1>1 DEF PaperRests, Moves
<1>2. ASSUME NEW o \in PaperOrder, PaperExecutes(o) PROVE PaperTypeOK' /\ WalkOver'
  BY <1>2 DEF PaperExecutes, Granted, Moves
<1>3. ASSUME NEW o \in PaperOrder, PaperRefuses(o) PROVE PaperTypeOK' /\ WalkOver'
  BY <1>3 DEF PaperRefuses, Moves
<1>4. ASSUME NEW o \in PaperOrder, PaperBooked(o) PROVE PaperTypeOK' /\ WalkOver'
  BY <1>4 DEF PaperBooked, Moves
<1>5. ASSUME NEW o \in PaperOrder, WalkPasses(o) PROVE PaperTypeOK' /\ WalkOver'
  BY <1>5 DEF WalkPasses
<1>6. ASSUME NEW o \in PaperOrder, WalkFills(o) PROVE PaperTypeOK' /\ WalkOver'
  BY <1>6 DEF WalkFills, Granted, Moves
<1>7. ASSUME NEW o \in PaperOrder, TradedBooked(o) PROVE PaperTypeOK' /\ WalkOver'
  BY <1>7 DEF TradedBooked, Moves
<1>8. ASSUME NEW o \in PaperOrder, PaperPositionEnds(o) PROVE PaperTypeOK' /\ WalkOver'
  BY <1>8 DEF PaperPositionEnds, Moves
<1>9. ASSUME WalkStarts PROVE PaperTypeOK' /\ WalkOver' BY <1>9 DEF WalkStarts
<1>10. ASSUME WalkEnds PROVE PaperTypeOK' /\ WalkOver' BY <1>10 DEF WalkEnds
<1>11. ASSUME QueueExpires PROVE PaperTypeOK' /\ WalkOver' BY <1>11 DEF QueueExpires
<1>12. ASSUME PaperRestart PROVE PaperTypeOK' /\ WalkOver' BY <1>12 DEF PaperRestart
<1>13. ASSUME UNCHANGED paperVars PROVE PaperTypeOK' /\ WalkOver' BY <1>13 DEF paperVars
<1>14. QED
  BY <1>1, <1>2, <1>3, <1>4, <1>5, <1>6, <1>7, <1>8, <1>9, <1>10, <1>11, <1>12, <1>13
  DEF PaperNext

LEMMA WalletStep == ASSUME WalletInv, [PaperNext]_paperVars PROVE WalletInv'
<1> PaperTypeOK' /\ WalkOver' BY WalletTypes DEF WalletInv
<1> USE DEF Booked, InPlace
<1>0. paper \in [PaperOrder -> {"new", "queued", "granted", "held", "closed"}]
      /\ walk \subseteq InPlace("queued") /\ traded \subseteq InPlace("granted")
  BY DEF WalletInv, PaperTypeOK
<1>1. ASSUME NEW o \in PaperOrder, PaperRests(o) PROVE WalletInv'
  BY <1>0, <1>1, WalletQuiet DEF PaperRests, Moves
<1>2. ASSUME NEW o \in PaperOrder, PaperExecutes(o) PROVE WalletInv'
  BY <1>2, WalletGrants DEF PaperExecutes
<1>3. ASSUME NEW o \in PaperOrder, PaperRefuses(o) PROVE WalletInv'
  BY <1>0, <1>3, WalletQuiet DEF PaperRefuses, Moves
<1>4. ASSUME NEW o \in PaperOrder, PaperBooked(o) PROVE WalletInv'
  <2>1. CASE Moves(o, "held") BY <1>4, <2>1, WalletBooks DEF PaperBooked
  <2>2. CASE Moves(o, "closed") BY <1>0, <1>4, <2>2, WalletQuiet DEF PaperBooked, Moves
  <2>3. QED BY <1>4, <2>1, <2>2 DEF PaperBooked
<1>5. ASSUME NEW o \in PaperOrder, WalkPasses(o) PROVE WalletInv'
  BY <1>5, WalletQuiet DEF WalkPasses
<1>6. ASSUME NEW o \in PaperOrder, WalkFills(o) PROVE WalletInv'
  BY <1>0, <1>6, WalletGrants DEF WalkFills, TradeThrough
<1>7. ASSUME NEW o \in PaperOrder, TradedBooked(o) PROVE WalletInv'
  <2>0. paper[o] = "granted" BY <1>0, <1>7 DEF TradedBooked
  <2>1. CASE Moves(o, "held") BY <1>7, <2>0, <2>1, WalletBooks DEF TradedBooked
  <2>2. CASE Moves(o, "closed")
    BY <1>0, <1>7, <2>2, WalletQuiet DEF TradedBooked, Moves
  <2>3. QED BY <1>7, <2>1, <2>2 DEF TradedBooked
<1>8. ASSUME NEW o \in PaperOrder, PaperPositionEnds(o) PROVE WalletInv'
  BY <1>0, <1>8, WalletQuiet DEF PaperPositionEnds, Moves
<1>9. ASSUME WalkStarts PROVE WalletInv' BY <1>9, WalletQuiet DEF WalkStarts
<1>10. ASSUME WalkEnds PROVE WalletInv' BY <1>10, WalletQuiet DEF WalkEnds
<1>11. ASSUME QueueExpires PROVE WalletInv' BY <1>11, WalletQuiet DEF QueueExpires
<1>12. ASSUME PaperRestart PROVE WalletInv' BY <1>12, WalletQuiet DEF PaperRestart
<1>13. ASSUME UNCHANGED paperVars PROVE WalletInv' BY <1>13, WalletQuiet DEF paperVars
<1>14. QED
  BY <1>1, <1>2, <1>3, <1>4, <1>5, <1>6, <1>7, <1>8, <1>9, <1>10, <1>11, <1>12, <1>13
  DEF PaperNext

\* What the late orders cost aside, the books stay within the wallet.
LEMMA WalletKept == WalletInv => PaperCashKept
<1> SUFFICES ASSUME WalletInv PROVE PaperCashKept OBVIOUS
<1>1. Booked = (Booked \ late) \cup (Booked \cap late) /\ (Booked \ late) \cap (Booked \cap late) = {}
      /\ Booked \ late \in SUBSET PaperOrder /\ Booked \cap late \in SUBSET PaperOrder
  BY DEF Booked, InPlace
<1>2. Costs((Booked \ late) \cup (Booked \cap late)) = Costs(Booked \ late) + Costs(Booked \cap late)
      /\ Costs(Booked \ late) \in Nat /\ Costs(Booked \cap late) \in Nat
  BY <1>1, PaperAssumption
<1>3. Costs(Booked) = Costs(Booked \ late) + Costs(Booked \cap late) BY <1>1, <1>2
<1>4. Costs(Booked) <= PaperCash + Costs(Booked \cap late)
  BY <1>2, <1>3, PaperAssumption DEF WalletInv
<1>5. QED BY <1>4 DEF PaperCashKept, Booked

\* Whatever the orders cost, and in whatever order they fill at once, rest, are traded
\* through, booked or lost: the positions cost no more than the wallet had, but for the
\* orders granted while another one waited to be booked (PaperCashKept).
THEOREM PaperMoneyIsThere == PaperSpec => []PaperCashKept
<1>1. PaperInit => WalletInv BY WalletInit
<1>2. WalletInv /\ [PaperNext]_paperVars => WalletInv' BY WalletStep
<1>3. WalletInv => PaperCashKept BY WalletKept
<1>4. QED BY <1>1, <1>2, <1>3, PTL DEF PaperSpec

\* An order of the paper book is in one place, walked over while it waits and traded
\* through while its grant does (paper_trader.py).
THEOREM PaperTyped == PaperSpec => []PaperTypeOK
<1>1. PaperInit => WalletInv BY WalletInit
<1>2. WalletInv /\ [PaperNext]_paperVars => WalletInv' BY WalletStep
<1>3. WalletInv => PaperTypeOK BY DEF WalletInv
<1>4. QED BY <1>1, <1>2, <1>3, PTL DEF PaperSpec

-----------------------------------------------------------------------------
(* The checks of a live entry.  The invariant adds why an entry is judged  *)
(* as paper at each of its steps, which is what makes the last of them     *)
(* refuse it.                                                              *)

\* An entry is judged as paper while something keeps it on paper: the decision that
\* scoped its checks, or the kill switch, unless that was lifted since.
ScopeHolds ==
    \A e \in Intent \ lifted :
        /\ intent[e].at = "scoped" /\ intent[e].asPaper => intent[e].forced \/ halt
        /\ e \in Unfit /\ intent[e].at = "approved" => intent[e].forced
        /\ e \in Unfit /\ intent[e].at = "built" => intent[e].dry

GateInv ==
    /\ RiskTypeOK
    /\ ScopeHolds
    /\ LiveIsScreened

LEMMA RiskInitInv == RiskInit => GateInv
BY RiskAssumption DEF RiskInit, GateInv, RiskTypeOK, ScopeHolds, LiveIsScreened, IntentPlaces

\* What a turn of the conditions leaves alone.
LEMMA TurnTyped ==
    ASSUME GateInv, Turn
    PROVE  turns' \in 0 .. Turns
BY RiskAssumption DEF GateInv, RiskTypeOK, Turn

LEMMA RiskStepInv == GateInv /\ [RiskNext]_gateVars => GateInv'
<1> SUFFICES ASSUME GateInv, [RiskNext]_gateVars
             PROVE  GateInv'
  OBVIOUS
<1> USE RiskAssumption
          DEF GateInv, RiskTypeOK, IntentPlaces, ScopeHolds, LiveIsScreened, conditions
<1>1. ASSUME NEW e \in Intent, NEW declared \in BOOLEAN, EntryScoped(e, declared)
      PROVE  GateInv'
  <2>1. PaperForced(e, declared) \in BOOLEAN
    BY DEF PaperForced
  <2> QED BY <1>1, <2>1 DEF EntryScoped
<1>2. ASSUME NEW e \in Intent, EntryApproved(e)
      PROVE  GateInv'
  BY <1>2 DEF EntryApproved, Clears
<1>3. ASSUME NEW e \in Intent, EntryRefused(e) \/ EntrySkipped(e)
      PROVE  GateInv'
  BY <1>3 DEF EntryRefused, EntrySkipped, Refuses
<1>4. ASSUME NEW e \in Intent, EntryBuilt(e)
      PROVE  GateInv'
  <2> DEFINE dry == halt \/ Restricted(e)
  <2>1. dry \in BOOLEAN /\ (intent[e].forced => dry)
    BY DEF Restricted
  <2>2. /\ intent[e].at = "approved"
        /\ intent' = [intent EXCEPT ![e].at = "built", ![e].dry = dry]
        /\ UNCHANGED conditions
    BY <1>4 DEF EntryBuilt
  <2> HIDE DEF dry
  <2>3. intent' = [intent EXCEPT ![e] = [@ EXCEPT !.at = "built", !.dry = dry]]
    BY <2>2
  <2>4. intent'[e] = [intent[e] EXCEPT !.at = "built", !.dry = dry]
    BY <2>3
  <2> QED BY <2>1, <2>2, <2>3, <2>4
<1>5. ASSUME NEW e \in Intent, EntryPlaced(e)
      PROVE  GateInv'
  BY <1>5 DEF EntryPlaced, Refuses
<1>6. ASSUME NEW e \in Intent, CellTurns(e)
      PROVE  GateInv'
  BY <1>6, TurnTyped DEF CellTurns, Turn
<1>7. CASE TouchesHalt
  BY <1>7, TurnTyped DEF TouchesHalt, Turn
<1>8. CASE LiftsHalt
  BY <1>8, TurnTyped DEF LiftsHalt, Turn, UnderWay
<1>9. CASE LiveGateRuns
  BY <1>9, TurnTyped DEF LiveGateRuns, Turn
<1>10. CASE UNCHANGED gateVars
  BY <1>10 DEF gateVars
<1> QED BY <1>1, <1>2, <1>3, <1>4, <1>5, <1>6, <1>7, <1>8, <1>9, <1>10 DEF RiskNext

\* What a live-only check would refuse never goes out with real money, however the
\* latch, the ladder and the kill switch turn between the gate and the order.
THEOREM LiveEntriesAreScreened == RiskSpec => []LiveIsScreened
<1>1. GateInv => LiveIsScreened
  BY DEF GateInv
<1> QED BY <1>1, RiskInitInv, RiskStepInv, PTL DEF RiskSpec

\* An entry is at one of the steps of RiskManager.evaluate and of the gateway, with the
\* verdict, the scope and the dry_run flag that those have computed (RiskTypeOK).
THEOREM RiskTyped == RiskSpec => []RiskTypeOK
<1>1. GateInv => RiskTypeOK BY DEF GateInv
<1>2. QED BY <1>1, RiskInitInv, RiskStepInv, PTL DEF RiskSpec
=============================================================================
