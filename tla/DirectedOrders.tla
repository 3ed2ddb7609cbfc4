----------------------------- MODULE DirectedOrders -----------------------------
(***************************************************************************)
(* Orders an operator or an agent directs to IBKR                          *)
(* (broker/directed_orders.py): the gates, the last of which reads what    *)
(* the day's rows have used of the daily cap; the audit row; the broker;   *)
(* the row's final status.  The gate and the row are two awaits.  One kind *)
(* of order (trade or treasury): each has a cap of its own.                *)
(***************************************************************************)
EXTENDS Integers, FiniteSets

CONSTANTS
    Directive,      \* the orders that may be placed, each at most once
    Notional,       \* the dollars of each one, within the cap per order
    DailyCap,       \* directed_orders_daily_notional_usd
    Dollars(_),     \* the sum of Notional over a set of them
    Dates           \* bound: the days of the model

ASSUME DirectedAssumption ==
    /\ Notional \in [Directive -> Nat \ {0}]
    /\ DailyCap \in Nat /\ Dates \in Nat \ {0}

ASSUME DollarsAssumption ==
    /\ Dollars({}) = 0
    /\ \A S \in SUBSET Directive :
         /\ Dollars(S) \in Nat
         /\ \A o \in Directive \ S : Dollars(S \cup {o}) = Dollars(S) + Notional[o]

VARIABLES
    date,       \* today
    place,      \* what place() does with each order
    audit,      \* its row's status
    submittedAt,\* its row's date
    broker,     \* what the broker has of it
    overtaken   \* the orders whose gate read a sum that their row finds changed

directedVars == <<date, place, audit, submittedAt, broker, overtaken>>

DirectedTypeOK ==
    /\ date \in 1..Dates
    /\ place \in [Directive -> {"new", "passed", "recorded", "sent", "done"}]
    /\ audit \in [Directive -> {"none", "refused", "submitted", "filled", "error"}]
    /\ submittedAt \in [Directive -> 0..Dates]
    /\ broker \in [Directive -> {"none", "working", "filled", "gone"}]
    /\ overtaken \in SUBSET Directive

DirectedInit ==
    /\ date = 1
    /\ place = [o \in Directive |-> "new"]
    /\ audit = [o \in Directive |-> "none"]
    /\ submittedAt = [o \in Directive |-> 0]
    /\ broker = [o \in Directive |-> "none"]
    /\ overtaken = {}

\* Mutant: an order counts when it has filled.
Counts_Filled(status) == status = "filled"

\* An unfilled order is committed exposure until it is cancelled.
CountsAs(status) == status \in {"submitted", "filled"}

Committed == {o \in Directive : submittedAt[o] = date /\ CountsAs(audit[o])}

Gated == {o \in Directive : place[o] = "passed"}

\* gate_reason: every gate passes; the daily cap is read last.
GatePasses(o) ==
    /\ place[o] = "new"
    /\ Dollars(Committed) + Notional[o] <= DailyCap
    /\ place' = [place EXCEPT ![o] = "passed"]
    /\ UNCHANGED <<date, audit, submittedAt, broker, overtaken>>

\* A gate says no, or the order is a dry run: its row does not count.
GateRefuses(o) ==
    /\ place[o] = "new"
    /\ place' = [place EXCEPT ![o] = "done"]
    /\ audit' = [audit EXCEPT ![o] = "refused"]
    /\ submittedAt' = [submittedAt EXCEPT ![o] = date]
    /\ UNCHANGED <<date, broker, overtaken>>

\* The audit row is written before anything is sent.
AuditWritten(o) ==
    /\ place[o] = "passed"
    /\ place' = [place EXCEPT ![o] = "recorded"]
    /\ audit' = [audit EXCEPT ![o] = "submitted"]
    /\ submittedAt' = [submittedAt EXCEPT ![o] = date]
    /\ overtaken' = overtaken \cup (Gated \ {o})
    /\ UNCHANGED <<date, broker>>

\* The contract is not qualified, or its time in force is not accepted.
SendRaises(o) ==
    /\ place[o] = "recorded"
    /\ place' = [place EXCEPT ![o] = "done"]
    /\ audit' = [audit EXCEPT ![o] = "error"]
    /\ UNCHANGED <<date, submittedAt, broker, overtaken>>

Sends(o) ==
    /\ place[o] = "recorded"
    /\ place' = [place EXCEPT ![o] = "sent"]
    /\ broker' = [broker EXCEPT ![o] = "working"]
    /\ UNCHANGED <<date, audit, submittedAt, overtaken>>

\* The broker fills it, or cancels or refuses it.
BrokerEnds(o) ==
    /\ broker[o] = "working"
    /\ \E end \in {"filled", "gone"} : broker' = [broker EXCEPT ![o] = end]
    /\ UNCHANGED <<date, place, audit, submittedAt, overtaken>>

\* Mutant: an order that has not filled in time is taken for refused.
Settled_Timeout(o) == IF broker[o] = "filled" THEN "filled" ELSE "error"

\* What the broker's last word makes of the row.
Settled(o) == CASE broker[o] = "filled" -> "filled"
                [] broker[o] = "gone" -> "error"
                [] OTHER -> "submitted"

\* place() sees the end, or has waited long enough.
Settles(o) ==
    /\ place[o] = "sent"
    /\ place' = [place EXCEPT ![o] = "done"]
    /\ audit' = [audit EXCEPT ![o] = Settled(o)]
    /\ UNCHANGED <<date, submittedAt, broker, overtaken>>

\* The process dies, at any point.
PlaceDies(o) ==
    /\ place[o] \in {"passed", "recorded", "sent"}
    /\ place' = [place EXCEPT ![o] = "done"]
    /\ UNCHANGED <<date, audit, submittedAt, broker, overtaken>>

DateTurns ==
    /\ date < Dates
    /\ date' = date + 1
    /\ overtaken' = overtaken \cup Gated
    /\ UNCHANGED <<place, audit, submittedAt, broker>>

DirectedNext ==
    \/ \E o \in Directive :
         \/ GatePasses(o) \/ GateRefuses(o) \/ AuditWritten(o)
         \/ SendRaises(o) \/ Sends(o) \/ BrokerEnds(o) \/ Settles(o) \/ PlaceDies(o)
    \/ DateTurns

DirectedSpec == DirectedInit /\ [][DirectedNext]_directedVars

-----------------------------------------------------------------------------
\* Whatever is at the broker, or was filled there, is in the table and counts
\* towards the cap of its day, through every crash and timeout: an operator who
\* asks the table what may still be exposed is told.
Answerable ==
    \A o \in Directive : broker[o] \in {"working", "filled"} => CountsAs(audit[o])

\* The day's cap holds but for the orders that were gated when another's row was
\* not written yet, or before midnight.
DailyCapKept == Dollars(Committed) <= DailyCap + Dollars(Committed \cap overtaken)
=============================================================================
