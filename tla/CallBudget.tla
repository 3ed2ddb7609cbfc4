------------------------------- MODULE CallBudget -------------------------------
(***************************************************************************)
(* The daily budget of Claude calls (nlp/call_budget.py) and the analyzers *)
(* that spend it.  One row a day counts the calls of all processes; what a *)
(* process could not write at once it keeps in memory and adds to its next *)
(* write.  The helpers never await, so each is one step; a call to the     *)
(* model takes minutes between the check and the count, and others come in *)
(* between.                                                                *)
(*                                                                         *)
(* Every count is kept apart by the caller it stands for: the row, and a   *)
(* process's _pending, are the totals.                                     *)
(***************************************************************************)
EXTENDS Integers, FiniteSets

CONSTANTS
    Process,    \* processes that share the counter
    Caller,     \* coroutines that call Claude
    RunsIn,     \* the process of a caller
    Budget,     \* the calls a day a caller may find spent, at most ...
    Paced,      \* ... and before the peak window opens
    Days, Faults, Deaths \* bounds: midnights, SQLite errors, dead processes

ASSUME BudgetAssumption ==
    /\ IsFiniteSet(Caller)
    /\ RunsIn \in [Caller -> Process]
    /\ Budget \in [Caller -> Nat]
    /\ Paced \in [Caller -> Nat]
    /\ \A c \in Caller : Paced[c] <= Budget[c]
    /\ Days \in Nat /\ Faults \in Nat /\ Deaths \in Nat

VARIABLES
    today,      \* days since the start
    peak,       \* the peak window has opened today
    row,        \* claude_calls of today's row
    pending,    \* _pending
    memCalls,   \* _mem_calls, of a process
    memDay,     \* _mem_day
    calling,    \* the callers between their check and their count
    made,       \* the calls that succeeded today
    lost,       \* those of them that died with a process's _pending
    recounted,  \* those counted twice: the write landed, the read after it failed
    faults, deaths

counts == <<row, pending, memCalls, memDay>>
budgetVars == <<today, peak, counts, calling, made, lost, recounted, faults, deaths>>

None == [c \in Caller |-> 0]

\* A count stands for so many calls of each caller, and sums to their number.
Tally(count) == UNION {{c} \X (1 .. count[c]) : c \in Caller}
Total(count) == Cardinality(Tally(count))

Of(p) == {c \in Caller : RunsIn[c] = p}

BudgetTypeOK ==
    /\ today \in Nat /\ faults \in Nat /\ deaths \in Nat
    /\ peak \in BOOLEAN
    /\ row \in [Caller -> Nat]
    /\ pending \in [Caller -> Nat]
    /\ memCalls \in [Process -> Nat]
    /\ memDay \in [Process -> Nat]
    /\ calling \in SUBSET Caller
    /\ made \in [Caller -> Nat]
    /\ lost \in [Caller -> Nat]
    /\ recounted \in [Caller -> Nat]

\* Days are counted from 1; _mem_day is 0 until the first call.
BudgetInit ==
    /\ today = 1
    /\ peak = FALSE
    /\ row = None
    /\ pending = None
    /\ memCalls = [p \in Process |-> 0]
    /\ memDay = [p \in Process |-> 0]
    /\ calling = {}
    /\ made = None
    /\ lost = None
    /\ recounted = None
    /\ faults = 0
    /\ deaths = 0

-----------------------------------------------------------------------------
\* What a caller has pending today: yesterday's expires.
Unwritten(c) == IF memDay[RunsIn[c]] = today THEN pending[c] ELSE 0

\* calls_today(): the row and what this process has yet to add to it.
CallsToday(p) == Total([c \in Caller |-> row[c] + IF c \in Of(p) THEN Unwritten(c) ELSE 0])

\* ... or, when the row cannot be read, what this process remembers.
Remembered(p) == IF memDay[p] = today THEN memCalls[p] ELSE 0

\* paced_limit: before the peak window opens, a share of the pool.
Ceiling(c) == IF peak THEN Budget[c] ELSE Paced[c]

Fault ==
    /\ faults < Faults
    /\ faults' = faults + 1

\* Mutant: the last call too many.
Admitted_Last(c, spent) == spent <= Ceiling(c)

Admitted(c, spent) == spent < Ceiling(c)

\* _call_claude_cli: the budget is checked, and the CLI runs.
CallStarts(c) ==
    /\ c \notin calling
    /\ \/ /\ Admitted(c, CallsToday(RunsIn[c]))
          /\ UNCHANGED faults
       \/ /\ Admitted(c, Remembered(RunsIn[c]))
          /\ Fault
    /\ calling' = calling \cup {c}
    /\ UNCHANGED <<today, peak, counts, made, lost, recounted, deaths>>

\* Three attempts, or a known outage: a failed call is not counted.
CallGivesUp(c) ==
    /\ c \in calling
    /\ calling' = calling \ {c}
    /\ UNCHANGED <<today, peak, counts, made, lost, recounted, faults, deaths>>

\* Mutant: the write adds the one call, and forgets the others.
Folded_One(c) == [d \in Caller |-> row[d] + IF d = c THEN 1 ELSE 0]

\* The row, with this call and everything its process had pending.
Folded(c) == [d \in Caller |-> row[d] + (IF d = c THEN 1 ELSE 0)
                                      + (IF d \in Of(RunsIn[c]) THEN Unwritten(d) ELSE 0)]

\* The process's pending calls, all gone but for those of c.
Left(c, n) == [d \in Caller |-> IF d = c THEN n
                                ELSE IF d \in Of(RunsIn[c]) THEN 0 ELSE pending[d]]

\* The process's pending calls with c's, those of another day dropped.
Kept(c) == [d \in Caller |-> IF d = c THEN Unwritten(d) + 1
                             ELSE IF d \in Of(RunsIn[c]) THEN Unwritten(d) ELSE pending[d]]

\* record_call, whatever becomes of the write.
Counts(c) ==
    /\ c \in calling
    /\ calling' = calling \ {c}
    /\ made' = [made EXCEPT ![c] = @ + 1]
    /\ memCalls' = [memCalls EXCEPT ![RunsIn[c]] = Remembered(RunsIn[c]) + 1]
    /\ memDay' = [memDay EXCEPT ![RunsIn[c]] = today]
    /\ UNCHANGED <<today, peak, lost, deaths>>

CountLands(c) ==
    /\ Counts(c)
    /\ row' = Folded(c)
    /\ pending' = Left(c, 0)
    /\ UNCHANGED <<recounted, faults>>

\* The write misses the lock, within 250 ms.
CountMisses(c) ==
    /\ Counts(c)
    /\ Fault
    /\ pending' = Kept(c)
    /\ UNCHANGED <<row, recounted>>

\* It lands, and the read of the new total raises into the same handler.
CountReadFails(c) ==
    /\ Counts(c)
    /\ Fault
    /\ row' = Folded(c)
    /\ pending' = Left(c, 1)
    /\ recounted' = [recounted EXCEPT ![c] = @ + 1]

-----------------------------------------------------------------------------
PeakOpens ==
    /\ ~peak
    /\ peak' = TRUE
    /\ UNCHANGED <<today, counts, calling, made, lost, recounted, faults, deaths>>

\* A new row.
BudgetMidnight ==
    /\ today < Days
    /\ today' = today + 1
    /\ peak' = FALSE
    /\ row' = None
    /\ made' = None
    /\ lost' = None
    /\ recounted' = None
    /\ UNCHANGED <<pending, memCalls, memDay, calling, faults, deaths>>

\* A process restarts: its memory is gone.
BudgetRestart(p) ==
    /\ deaths < Deaths
    /\ deaths' = deaths + 1
    /\ lost' = [c \in Caller |-> lost[c] + IF c \in Of(p) THEN Unwritten(c) ELSE 0]
    /\ pending' = [c \in Caller |-> IF c \in Of(p) THEN 0 ELSE pending[c]]
    /\ memCalls' = [memCalls EXCEPT ![p] = 0]
    /\ memDay' = [memDay EXCEPT ![p] = 0]
    /\ calling' = calling \ Of(p)
    /\ UNCHANGED <<today, peak, row, made, recounted, faults>>

CallStep(c) ==
    \/ CallStarts(c)
    \/ CallGivesUp(c)
    \/ CountLands(c)
    \/ CountMisses(c)
    \/ CountReadFails(c)

BudgetNext ==
    \/ \E c \in Caller : CallStep(c)
    \/ PeakOpens
    \/ BudgetMidnight
    \/ \E p \in Process : BudgetRestart(p)

BudgetSpec == BudgetInit /\ [][BudgetNext]_budgetVars

-----------------------------------------------------------------------------
\* A missed write is made good by the next one, over midnights, restarts and the
\* writes of other processes: today's row and what the processes have pending
\* lack only what died with one, and exceed the calls made only by what a failed
\* read made it count again.
CountExact ==
    \A c \in Caller :
        LET counted == row[c] + Unwritten(c) + lost[c]
        IN counted >= made[c] /\ counted <= made[c] + recounted[c]

\* Bulk consumers cannot starve the pinned ones: those who stop at a ceiling pass
\* it by no more than the calls they had under way at once, and one for each time
\* the counter could not be read or written.  At a ceiling of none, too: a call that
\* began before midnight counts for the new day.
CeilingKept ==
    \A c \in Caller :
        LET bulk == {d \in Caller : Ceiling(d) <= Ceiling(c)}
            limit == IF Ceiling(c) = 0 THEN 1 ELSE Ceiling(c)
        IN Total([d \in Caller |-> IF d \in bulk THEN made[d] ELSE 0])
              < limit + Cardinality(bulk) + faults
=============================================================================
