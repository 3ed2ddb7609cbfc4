------------------------- MODULE TransferLedgerProofs -------------------------
(***************************************************************************)
(* Proofs about TransferLedger: the daily cap holds, and money that may    *)
(* have left stays counted, for any calls, amounts, caps and midnights.    *)
(***************************************************************************)
EXTENDS TransferLedger, TLAPS

USE TransferLedgerAssumption

-----------------------------------------------------------------------------
(* The inductive invariant.                                                *)

\* The file's write lock is held by the one call between its sum and its insert.
Writing == \A c \in Calls : writer = c <=> at[c] = "reading"

\* No row is dated in the future.
NotLater == \A c \in Calls : day[c] <= utcDay

\* A row about to be inserted fits into the day its sum was read for, and no later
\* day has a row yet: it fits into whichever day the second reading of the clock gives.
FitsCap ==
    \A c \in Calls : at[c] = "reading" =>
        \E d \in LedgerDays : /\ d <= utcDay
                        /\ Spent(Counted(d)) + Amount[c] <= DailyTransferCap
                        /\ \A e \in LedgerDays : e > d => Counted(e) = {}

\* The row and the withdrawal of a call, by where it is.
Record(c) ==
    /\ at[c] \in {"idle", "asked", "approved", "reading"} => reservation[c] = "none" /\ kraken[c] = "none"
    /\ at[c] = "reserved" => reservation[c] = "reserved" /\ kraken[c] = "none"
    /\ at[c] = "waiting" => reservation[c] = "reserved" /\ kraken[c] # "none"
    /\ at[c] = "releasing" => reservation[c] = "reserved" /\ kraken[c] = "refused"
    /\ at[c] = "finalizing" => reservation[c] = "reserved" /\ kraken[c] = "landed"
    /\ kraken[c] \in {"sent", "landed"} => reservation[c] # "none"
    /\ told[c] = "executed" => at[c] = "done" /\ kraken[c] = "landed" /\ reservation[c] = "executed"

IInv ==
    /\ TransferTypeOK
    /\ Writing
    /\ NotLater
    /\ CapKept
    /\ FitsCap
    /\ \A c \in Calls : Record(c)

-----------------------------------------------------------------------------
(* Types, and the records of the calls.                                    *)

\* Every step keeps the state well formed: one case per action.
LEMMA TypeStep ==
  ASSUME TransferTypeOK, [TransferNext]_transferVars
  PROVE  TransferTypeOK'
<1> USE DEF TransferTypeOK, Goto, Ends, Places, TransferStatuses, ledgerVars
<1>1. ASSUME NEW c \in Calls, Blocked(c) PROVE TransferTypeOK'
  BY <1>1 DEF Blocked
<1>2. ASSUME NEW c \in Calls, NotArmed(c) PROVE TransferTypeOK'
  BY <1>2 DEF NotArmed
<1>3. ASSUME NEW c \in Calls, AsksApprover(c) PROVE TransferTypeOK'
  BY <1>3 DEF AsksApprover
<1>4. ASSUME NEW c \in Calls, Approves(c) PROVE TransferTypeOK'
  BY <1>4 DEF Approves
<1>5. ASSUME NEW c \in Calls, Denies(c) PROVE TransferTypeOK'
  BY <1>5 DEF Denies
<1>6. ASSUME NEW c \in Calls, ReserveReads(c) PROVE TransferTypeOK'
  BY <1>6 DEF ReserveReads
<1>7. ASSUME NEW c \in Calls, ReserveInserts(c) PROVE TransferTypeOK'
  BY <1>7 DEF ReserveInserts
<1>8. ASSUME NEW c \in Calls, ReserveFails(c) PROVE TransferTypeOK'
  BY <1>8 DEF ReserveFails
<1>9. ASSUME NEW c \in Calls, Withdraws(c) PROVE TransferTypeOK'
  BY <1>9 DEF Withdraws
<1>10. ASSUME NEW c \in Calls, Uncertain(c) PROVE TransferTypeOK'
  BY <1>10 DEF Uncertain
<1>11. ASSUME NEW c \in Calls, Refused(c) PROVE TransferTypeOK'
  BY <1>11 DEF Refused
<1>12. ASSUME NEW c \in Calls, Releases(c) PROVE TransferTypeOK'
  BY <1>12 DEF Releases, Released
<1>13. ASSUME NEW c \in Calls, Accepted(c) PROVE TransferTypeOK'
  BY <1>13 DEF Accepted
<1>14. ASSUME NEW c \in Calls, MarksExecuted(c) PROVE TransferTypeOK'
  BY <1>14 DEF MarksExecuted
<1>15. ASSUME NEW c \in Calls, SettleRaises(c) PROVE TransferTypeOK'
  BY <1>15 DEF SettleRaises
<1>16. ASSUME NEW c \in Calls, Dies(c) PROVE TransferTypeOK'
  BY <1>16 DEF Dies
<1>17. ASSUME NEW c \in Calls, KrakenPays(c) PROVE TransferTypeOK'
  BY <1>17 DEF KrakenPays
<1>18. ASSUME NEW c \in Calls, KrakenRefuses(c) PROVE TransferTypeOK'
  BY <1>18 DEF KrakenRefuses
<1>19. CASE Midnight
  BY <1>19 DEF Midnight
<1>20. CASE TouchesKillSwitch
  BY <1>20 DEF TouchesKillSwitch
<1>21. CASE RemovesKillSwitch
  BY <1>21 DEF RemovesKillSwitch
<1>22. CASE UNCHANGED transferVars
  BY <1>22 DEF transferVars
<1> QED
  BY <1>1, <1>2, <1>3, <1>4, <1>5, <1>6, <1>7, <1>8, <1>9, <1>10, <1>11, <1>12, <1>13,
     <1>14, <1>15, <1>16, <1>17, <1>18, <1>19, <1>20, <1>21, <1>22
  DEF TransferNext, TransferStep, KrakenStep

\* Every call keeps its record, whichever call moves.
LEMMA RecordStep ==
  ASSUME TransferTypeOK, [TransferNext]_transferVars, NEW b \in Calls, Record(b)
  PROVE  Record(b)'
<1> USE DEF TransferTypeOK, Goto, Ends, ledgerVars, Record
<1>1. ASSUME NEW c \in Calls, Blocked(c) \/ NotArmed(c) \/ AsksApprover(c) \/ Approves(c) \/ Denies(c)
      PROVE  Record(b)'
  BY <1>1 DEF Blocked, NotArmed, AsksApprover, Approves, Denies
<1>2. ASSUME NEW c \in Calls, ReserveReads(c) PROVE Record(b)'
  BY <1>2 DEF ReserveReads
<1>3. ASSUME NEW c \in Calls, ReserveInserts(c) PROVE Record(b)'
  BY <1>3 DEF ReserveInserts
<1>4. ASSUME NEW c \in Calls, ReserveFails(c) PROVE Record(b)'
  BY <1>4 DEF ReserveFails
<1>5. ASSUME NEW c \in Calls, Withdraws(c) PROVE Record(b)'
  BY <1>5 DEF Withdraws
<1>6. ASSUME NEW c \in Calls, Uncertain(c) \/ Refused(c) \/ Accepted(c) PROVE Record(b)'
  BY <1>6 DEF Uncertain, Refused, Accepted
<1>7. ASSUME NEW c \in Calls, Releases(c) PROVE Record(b)'
  BY <1>7 DEF Releases, Released
<1>8. ASSUME NEW c \in Calls, MarksExecuted(c) PROVE Record(b)'
  BY <1>8 DEF MarksExecuted
<1>9. ASSUME NEW c \in Calls, SettleRaises(c) \/ Dies(c) PROVE Record(b)'
  BY <1>9 DEF SettleRaises, Dies
<1>10. ASSUME NEW c \in Calls, KrakenPays(c) \/ KrakenRefuses(c) PROVE Record(b)'
  BY <1>10 DEF KrakenPays, KrakenRefuses
<1>11. CASE Midnight \/ TouchesKillSwitch \/ RemovesKillSwitch \/ UNCHANGED transferVars
  BY <1>11 DEF Midnight, TouchesKillSwitch, RemovesKillSwitch, transferVars
<1> QED
  BY <1>1, <1>2, <1>3, <1>4, <1>5, <1>6, <1>7, <1>8, <1>9, <1>10, <1>11
  DEF TransferNext, TransferStep, KrakenStep

-----------------------------------------------------------------------------
(* The lock, the sum and the cap.                                          *)

\* The same calls have a row after the step, or one has lost it.
SameRows == \A c \in Calls : reservation'[c] # "none" <=> reservation[c] # "none"
RowGone(c) == /\ reservation'[c] = "none"
              /\ \A b \in Calls \ {c} : reservation'[b] = reservation[b]

\* Only the insert of a reservation adds to the ledger, and only for the call that
\* holds the lock; while it is held no row changes but by its holder.
LEMMA LedgerMoves ==
  ASSUME TransferTypeOK, Writing, NotLater, \A c \in Calls : Record(c), [TransferNext]_transferVars
  PROVE  /\ Writing'
         /\ NotLater'
         /\ utcDay <= utcDay'
         /\ \/ \E c \in Calls : ReserveInserts(c)
            \/ /\ day' = day
               /\ SameRows \/ \E c \in Calls : RowGone(c)
               /\ writer # NoCall => SameRows
               /\ \A c \in Calls : at'[c] = "reading" => at[c] = "reading" \/ ReserveReads(c)
<1> DEFINE Frame == /\ day' = day
                    /\ SameRows \/ \E c \in Calls : RowGone(c)
                    /\ writer # NoCall => SameRows
                    /\ \A c \in Calls : at'[c] = "reading" => at[c] = "reading" \/ ReserveReads(c)
           Goal == /\ Writing'
                   /\ NotLater'
                   /\ utcDay <= utcDay'
                   /\ (\E c \in Calls : ReserveInserts(c)) \/ Frame
<1> USE DEF TransferTypeOK, Goto, Ends, ledgerVars, Writing, NotLater, SameRows, RowGone
<1>1. ASSUME NEW c \in Calls, Blocked(c) \/ NotArmed(c) \/ AsksApprover(c) \/ Approves(c) \/ Denies(c)
      PROVE  Goal
  BY <1>1 DEF Blocked, NotArmed, AsksApprover, Approves, Denies
<1>2. ASSUME NEW c \in Calls, ReserveReads(c) PROVE Goal
  BY <1>2 DEF ReserveReads
<1>3. ASSUME NEW c \in Calls, ReserveInserts(c) PROVE Goal
  <2>1. Writing'
    BY <1>3 DEF ReserveInserts
  <2>2. NotLater' /\ utcDay <= utcDay'
    BY <1>3 DEF ReserveInserts
  <2>3. \E b \in Calls : ReserveInserts(b)
    BY <1>3
  <2> QED
    BY <2>1, <2>2, <2>3
<1>4. ASSUME NEW c \in Calls, ReserveFails(c) PROVE Goal
  BY <1>4 DEF ReserveFails
<1>5. ASSUME NEW c \in Calls, Withdraws(c) \/ Uncertain(c) \/ Refused(c) \/ Accepted(c) \/ SettleRaises(c)
      PROVE  Goal
  BY <1>5 DEF Withdraws, Uncertain, Refused, Accepted, SettleRaises
<1>6. ASSUME NEW c \in Calls, Releases(c) PROVE Goal
  BY <1>6 DEF Releases, Released
<1>7. ASSUME NEW c \in Calls, MarksExecuted(c) PROVE Goal
  BY <1>7 DEF MarksExecuted
<1>8. ASSUME NEW c \in Calls, Dies(c) PROVE Goal
  BY <1>8 DEF Dies
<1>9. ASSUME NEW c \in Calls, KrakenPays(c) \/ KrakenRefuses(c) PROVE Goal
  BY <1>9 DEF KrakenPays, KrakenRefuses
<1>10. CASE Midnight
  BY <1>10 DEF Midnight
<1>11. CASE TouchesKillSwitch \/ RemovesKillSwitch \/ UNCHANGED transferVars
  BY <1>11 DEF TouchesKillSwitch, RemovesKillSwitch, transferVars
<1>12. Goal
  BY <1>1, <1>2, <1>3, <1>4, <1>5, <1>6, <1>7, <1>8, <1>9, <1>10, <1>11
  DEF TransferNext, TransferStep, KrakenStep
<1> QED
  BY <1>12

\* A released reservation gives its amount back.
LEMMA SpentOfFewer ==
  ASSUME NEW S \in SUBSET Calls, NEW T \in SUBSET Calls, NEW c \in Calls,
         T = S \/ T = S \ {c}
  PROVE  Spent(T) <= Spent(S)
<1>1. Spent(S) \in Nat /\ Spent(T) \in Nat /\ Amount[c] \in Nat
  OBVIOUS
<1>2. CASE T = S
  BY <1>1, <1>2
<1>3. CASE c \in S /\ T = S \ {c}
  <2>1. S = T \cup {c} /\ c \in Calls \ T
    BY <1>3
  <2>2. Spent(T \cup {c}) = Spent(T) + Amount[c]
    BY <2>1
  <2> QED
    BY <1>1, <2>1, <2>2
<1>4. CASE c \notin S /\ T = S \ {c}
  <2>1. T = S
    BY <1>4
  <2> QED
    BY <1>1, <2>1
<1> QED
  BY <1>2, <1>3, <1>4

\* The insert keeps the cap on whichever day it carries.
LEMMA InsertKeepsCap ==
  ASSUME IInv, NEW c \in Calls, ReserveInserts(c)
  PROVE  CapKept' /\ FitsCap'
<1>1. /\ at[c] = "reading"
      /\ reservation' = [reservation EXCEPT ![c] = "reserved"]
      /\ day' = [day EXCEPT ![c] = utcDay]
      /\ at' = [at EXCEPT ![c] = "reserved"]
      /\ utcDay' = utcDay
  BY DEF ReserveInserts, Goto
<1>2. TransferTypeOK /\ Writing /\ CapKept /\ FitsCap /\ Record(c)
  BY DEF IInv
<1>3. reservation[c] = "none" /\ utcDay \in LedgerDays
  BY <1>1, <1>2 DEF Record, TransferTypeOK, LedgerDays
<1>4. PICK d \in LedgerDays : /\ d <= utcDay
                        /\ Spent(Counted(d)) + Amount[c] <= DailyTransferCap
                        /\ \A e \in LedgerDays : e > d => Counted(e) = {}
  BY <1>1, <1>2 DEF FitsCap
<1>5. \A e \in LedgerDays : Counted(e) \in SUBSET Calls /\ c \notin Counted(e)
  BY <1>3 DEF Counted
<1>6. \A e \in LedgerDays : Counted(e)' = IF e = utcDay THEN Counted(e) \cup {c} ELSE Counted(e)
  BY <1>1, <1>2, <1>3 DEF Counted, TransferTypeOK
<1>7. Spent(Counted(utcDay) \cup {c}) = Spent(Counted(utcDay)) + Amount[c]
  BY <1>3, <1>5
<1>8. Spent(Counted(utcDay)) + Amount[c] <= DailyTransferCap
  <2>1. CASE d = utcDay
    BY <1>4, <2>1
  <2>2. CASE d # utcDay
    <3>1. Counted(utcDay) = {}
      BY <1>3, <1>4, <2>2 DEF LedgerDays
    <3>2. Spent(Counted(d)) \in Nat /\ Amount[c] \in Nat
      BY <1>5
    <3> QED
      BY <1>4, <3>1, <3>2
  <2> QED
    BY <2>1, <2>2
<1>9. CapKept'
  BY <1>2, <1>6, <1>7, <1>8 DEF CapKept, LedgerDays
<1>10. FitsCap'
  <2>1. \A b \in Calls : at'[b] # "reading"
    BY <1>1, <1>2 DEF TransferTypeOK, Writing
  <2> QED
    BY <2>1 DEF FitsCap
<1> QED
  BY <1>9, <1>10

\* Every other step keeps it as well.
LEMMA OthersKeepCap ==
  ASSUME IInv, [TransferNext]_transferVars, TransferTypeOK', utcDay <= utcDay', day' = day,
         SameRows \/ \E c \in Calls : RowGone(c),
         writer # NoCall => SameRows,
         \A c \in Calls : at'[c] = "reading" => at[c] = "reading" \/ ReserveReads(c)
  PROVE  CapKept' /\ FitsCap'
<1>1. TransferTypeOK /\ Writing /\ NotLater /\ CapKept /\ FitsCap
  BY DEF IInv
<1>2. \A d \in LedgerDays : Counted(d) \in SUBSET Calls /\ Counted(d)' \in SUBSET Calls
  BY DEF Counted
<1>3. ASSUME SameRows PROVE \A d \in LedgerDays : Counted(d)' = Counted(d)
  BY <1>3 DEF SameRows, Counted
<1>4. ASSUME NEW d \in LedgerDays PROVE Spent(Counted(d)') <= Spent(Counted(d))
  <2>1. CASE SameRows
    BY <1>2, <1>3, <2>1, SpentOfFewer
  <2>2. CASE \E c \in Calls : RowGone(c)
    <3>1. PICK c \in Calls : RowGone(c)
      BY <2>2
    <3>2. Counted(d)' = Counted(d) \ {c}
      BY <3>1 DEF RowGone, Counted
    <3> QED
      BY <1>2, <3>2, SpentOfFewer
  <2> QED
    BY <2>1, <2>2
<1>5. CapKept'
  <2> SUFFICES ASSUME NEW d \in LedgerDays PROVE Spent(Counted(d)') <= DailyTransferCap
    BY DEF CapKept
  <2>1. Spent(Counted(d)) <= DailyTransferCap /\ Spent(Counted(d)') <= Spent(Counted(d))
    BY <1>1, <1>4 DEF CapKept
  <2>2. Spent(Counted(d)) \in Nat /\ Spent(Counted(d)') \in Nat
    BY <1>2
  <2> QED
    BY <2>1, <2>2
<1>6. FitsCap'
  <2> SUFFICES ASSUME NEW c \in Calls, at'[c] = "reading"
               PROVE  \E d \in LedgerDays : /\ d <= utcDay'
                                      /\ Spent(Counted(d)') + Amount[c] <= DailyTransferCap
                                      /\ \A e \in LedgerDays : e > d => Counted(e)' = {}
    BY DEF FitsCap
  <2>1. CASE at[c] = "reading"
    <3>1. SameRows
      BY <1>1, <2>1 DEF Writing
    <3>2. PICK d \in LedgerDays : /\ d <= utcDay
                            /\ Spent(Counted(d)) + Amount[c] <= DailyTransferCap
                            /\ \A e \in LedgerDays : e > d => Counted(e) = {}
      BY <1>1, <2>1 DEF FitsCap
    <3>3. d <= utcDay'
      BY <1>1, <3>2 DEF TransferTypeOK, LedgerDays
    <3> QED
      BY <1>3, <3>1, <3>2, <3>3
  <2>2. CASE ReserveReads(c)
    <3>1. /\ Spent(Counted(utcDay)) + Amount[c] <= DailyTransferCap
          /\ reservation' = reservation
          /\ utcDay' = utcDay
      <4>1. ~(Spent(Counted(utcDay)) + Amount[c] > DailyTransferCap) /\ reservation' = reservation /\ utcDay' = utcDay
        BY <1>1, <2>2 DEF ReserveReads, Ends, Goto, TransferTypeOK
      <4>2. Counted(utcDay) \in SUBSET Calls
        BY DEF Counted
      <4>3. Spent(Counted(utcDay)) \in Nat /\ Amount[c] \in Nat
        BY <4>2
      <4> QED
        BY <4>1, <4>3
    <3>2. utcDay \in LedgerDays
      BY <1>1 DEF TransferTypeOK, LedgerDays
    <3>3. \A d \in LedgerDays : Counted(d)' = Counted(d)
      BY <3>1 DEF Counted
    <3>4. \A e \in LedgerDays : e > utcDay => Counted(e) = {}
      BY <1>1 DEF NotLater, Counted, TransferTypeOK, LedgerDays
    <3>5. utcDay <= utcDay'
      BY <1>1, <3>1 DEF TransferTypeOK
    <3> QED
      BY <3>1, <3>2, <3>3, <3>4, <3>5
  <2> QED
    BY <2>1, <2>2
<1> QED
  BY <1>5, <1>6

-----------------------------------------------------------------------------
(* The theorems.                                                           *)

\* What holds of every state: types, the lock, the cap, and every call's record.
THEOREM LedgerInvariance == TransferSpec => []IInv
<1>1. TransferInit => IInv
  <2> SUFFICES ASSUME TransferInit PROVE IInv
    OBVIOUS
  <2>1. TransferTypeOK
    <3>1. utcDay \in 1..LastDay /\ 0 \in 0..LastDay
      BY DEF TransferInit
    <3> QED
      BY <3>1 DEF TransferInit, TransferTypeOK, Places, TransferStatuses
  <2>2. Writing /\ NotLater /\ FitsCap /\ \A c \in Calls : Record(c)
    BY DEF TransferInit, Writing, NotLater, FitsCap, Record
  <2>3. \A d \in LedgerDays : Counted(d) = {}
    BY DEF TransferInit, Counted
  <2>4. CapKept
    BY <2>3 DEF CapKept
  <2> QED
    BY <2>1, <2>2, <2>4 DEF IInv
<1>2. IInv /\ [TransferNext]_transferVars => IInv'
  <2> SUFFICES ASSUME IInv, [TransferNext]_transferVars PROVE IInv'
    OBVIOUS
  <2>1. TransferTypeOK /\ Writing /\ NotLater /\ \A c \in Calls : Record(c)
    BY DEF IInv
  <2>2. TransferTypeOK'
    BY <2>1, TypeStep
  <2>3. \A c \in Calls : Record(c)'
    BY <2>1, RecordStep
  <2>4. Writing' /\ NotLater' /\ utcDay <= utcDay'
    BY <2>1, LedgerMoves
  <2>5. CapKept' /\ FitsCap'
    BY <2>1, <2>2, <2>4, LedgerMoves, InsertKeepsCap, OthersKeepCap
  <2> QED
    BY <2>2, <2>3, <2>4, <2>5 DEF IInv
<1> QED
  BY <1>1, <1>2, PTL DEF TransferSpec

\* The ledger's rows, the calls and the clock stay well formed.
THEOREM LedgerTypeCorrect == TransferSpec => []TransferTypeOK
<1>1. IInv => TransferTypeOK
  BY DEF IInv
<1> QED
  BY <1>1, LedgerInvariance, PTL

\* No day's reservations ever exceed the daily cap, whichever processes reserve, die
\* or retry, and whenever midnight passes.
THEOREM CapKeptHolds == TransferSpec => []CapKept
<1>1. IInv => CapKept
  BY DEF IInv
<1> QED
  BY <1>1, LedgerInvariance, PTL

\* A withdrawal that has landed, or still may, keeps its row and so its share of the cap.
THEOREM WithdrawalsCountedHolds == TransferSpec => []WithdrawalsCounted
<1>1. IInv => WithdrawalsCounted
  BY DEF IInv, WithdrawalsCounted, Record
<1> QED
  BY <1>1, LedgerInvariance, PTL

\* Finalization finds its row, and "executed" is said of landed withdrawals alone.
THEOREM ExecutedIsFinalHolds == TransferSpec => []ExecutedIsFinal
<1>1. IInv => ExecutedIsFinal
  BY DEF IInv, ExecutedIsFinal, Record
<1> QED
  BY <1>1, LedgerInvariance, PTL
=============================================================================
