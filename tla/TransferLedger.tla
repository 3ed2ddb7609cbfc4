---------------------------- MODULE TransferLedger ----------------------------
(***************************************************************************)
(* TransferManager (treasury/transfers.py): irreversible withdrawals from  *)
(* Kraken, each called by a process of its own (scripts/kraken_transfer.py)*)
(* and all of them counted against a daily cap in one SQLite file.         *)
(*                                                                         *)
(* A call is transfer() once: its reservation id is its own.  A process    *)
(* may die at any of its steps, and midnight (UTC) may pass between any    *)
(* two of them, the two readings of the clock in _reserve included.        *)
(***************************************************************************)
EXTENDS Integers, FiniteSets

CONSTANTS
    Calls,             \* the calls of transfer()
    Amount,            \* amount_usd of each
    Whitelisted,       \* those whose dest_key is in allowed_withdraw_keys
    MinTransfer,       \* min_transfer_usd
    TransferCap,       \* per_transfer_cap_usd
    DailyTransferCap,  \* daily_cap_usd
    Spent(_),          \* SUM(amount_usd) of a set of reservations
    LastDay,           \* bound: days
    NoCall             \* no call

\* SUM counts every row once.
ASSUME TransferLedgerAssumption ==
    /\ Amount \in [Calls -> Nat]
    /\ Whitelisted \subseteq Calls
    /\ MinTransfer \in Nat
    /\ TransferCap \in Nat
    /\ DailyTransferCap \in Nat
    /\ LastDay \in Nat \ {0}
    /\ NoCall \notin Calls
    /\ \A S \in SUBSET Calls : Spent(S) \in Nat
    /\ Spent({}) = 0
    /\ \A S \in SUBSET Calls : \A c \in Calls \ S : Spent(S \cup {c}) = Spent(S) + Amount[c]

VARIABLES
    at,           \* where each call is
    told,         \* the status it returned
    reservation,  \* its row of transfer_reservations
    day,          \* the day of that row
    writer,       \* the call that holds the file's write lock
    kraken,       \* what Kraken has made of its withdrawal
    utcDay,       \* the UTC day
    killed        \* the KILL_SWITCH file exists

ledgerVars == <<reservation, day, writer>>
transferVars == <<at, told, ledgerVars, kraken, utcDay, killed>>

-----------------------------------------------------------------------------
LedgerDays == 1..LastDay

Places == {"idle", "asked", "approved", "reading", "reserved", "waiting",
           "releasing", "finalizing", "done", "dead"}

TransferStatuses == {"none", "blocked", "dry_run", "rejected", "executed", "raised"}

Goto(c, place) == at' = [at EXCEPT ![c] = place]

\* The call is over and its caller told.
Ends(c, status) ==
    /\ Goto(c, "done")
    /\ told' = [told EXCEPT ![c] = status]

\* The reservations that count on a day, released ones excluded.
Counted(d) == {c \in Calls : reservation[c] # "none" /\ day[c] = d}

WithinBounds(c) == Amount[c] >= MinTransfer /\ Amount[c] <= TransferCap

-----------------------------------------------------------------------------
(* The guardrails that come before the ledger.                             *)

\* Kill switch, whitelist, bounds; an unreadable ledger blocks as well.
Blocked(c) ==
    /\ at[c] = "idle"
    /\ Ends(c, "blocked")
    /\ UNCHANGED <<ledgerVars, kraken, utcDay, killed>>

Passes(c) == ~killed /\ c \in Whitelisted /\ WithinBounds(c)

NotArmed(c) ==
    /\ at[c] = "idle"
    /\ Passes(c)
    /\ Ends(c, "dry_run")
    /\ UNCHANGED <<ledgerVars, kraken, utcDay, killed>>

AsksApprover(c) ==
    /\ at[c] = "idle"
    /\ Passes(c)
    /\ Goto(c, "asked")
    /\ UNCHANGED <<told, ledgerVars, kraken, utcDay, killed>>

\* The approver may take any time: it waits for what a human types.
Approves(c) ==
    /\ at[c] = "asked"
    /\ Goto(c, "approved")
    /\ UNCHANGED <<told, ledgerVars, kraken, utcDay, killed>>

Denies(c) ==
    /\ at[c] = "asked"
    /\ Ends(c, "rejected")
    /\ UNCHANGED <<ledgerVars, kraken, utcDay, killed>>

-----------------------------------------------------------------------------
(* _reserve, in one BEGIN IMMEDIATE transaction.                           *)

\* Mutant: the sum is read before the transaction begins.
ReserveReads_NoLock(c) ==
    /\ at[c] = "approved"
    /\ IF Spent(Counted(utcDay)) + Amount[c] > DailyTransferCap
       THEN Ends(c, "blocked") /\ writer' = writer
       ELSE Goto(c, "reading") /\ told' = told /\ writer' = c
    /\ UNCHANGED <<reservation, day, kraken, utcDay, killed>>

\* The file is locked, and today's sum read.
ReserveReads(c) ==
    /\ at[c] = "approved"
    /\ writer = NoCall
    /\ IF Spent(Counted(utcDay)) + Amount[c] > DailyTransferCap
       THEN Ends(c, "blocked") /\ writer' = writer
       ELSE Goto(c, "reading") /\ told' = told /\ writer' = c
    /\ UNCHANGED <<reservation, day, kraken, utcDay, killed>>

\* The clock is read again for the row.
ReserveInserts(c) ==
    /\ at[c] = "reading"
    /\ reservation' = [reservation EXCEPT ![c] = "reserved"]
    /\ day' = [day EXCEPT ![c] = utcDay]
    /\ writer' = NoCall
    /\ Goto(c, "reserved")
    /\ UNCHANGED <<told, kraken, utcDay, killed>>

\* A locked, full or broken ledger.
ReserveFails(c) ==
    /\ at[c] \in {"approved", "reading"}
    /\ writer' = IF writer = c THEN NoCall ELSE writer
    /\ Ends(c, "blocked")
    /\ UNCHANGED <<reservation, day, kraken, utcDay, killed>>

-----------------------------------------------------------------------------
(* The withdrawal, and what is made of its answer.                         *)

Withdraws(c) ==
    /\ at[c] = "reserved"
    /\ kraken' = [kraken EXCEPT ![c] = "sent"]
    /\ Goto(c, "waiting")
    /\ UNCHANGED <<told, ledgerVars, utcDay, killed>>

\* Mutant: an exception is taken for a refusal.
Uncertain_Releases(c) ==
    /\ at[c] = "waiting"
    /\ Goto(c, "releasing")
    /\ UNCHANGED <<told, ledgerVars, kraken, utcDay, killed>>

\* The request raises (a timeout, a cut connection), or its answer has no refid:
\* the reservation is retained.
Uncertain(c) ==
    /\ at[c] = "waiting"
    /\ Ends(c, "rejected")
    /\ UNCHANGED <<ledgerVars, kraken, utcDay, killed>>

Refused(c) ==
    /\ at[c] = "waiting"
    /\ kraken[c] = "refused"
    /\ Goto(c, "releasing")
    /\ UNCHANGED <<told, ledgerVars, kraken, utcDay, killed>>

\* Mutant: every reservation that is not executed is released.
Released_All(c) == [d \in Calls |-> IF reservation[d] = "reserved" THEN "none" ELSE reservation[d]]

\* DELETE WHERE id = ? AND status = 'reserved'.
Released(c) == [reservation EXCEPT ![c] = IF @ = "reserved" THEN "none" ELSE @]

Releases(c) ==
    /\ at[c] = "releasing"
    /\ writer = NoCall
    /\ reservation' = Released(c)
    /\ Ends(c, "rejected")
    /\ UNCHANGED <<day, writer, kraken, utcDay, killed>>

Accepted(c) ==
    /\ at[c] = "waiting"
    /\ kraken[c] = "landed"
    /\ Goto(c, "finalizing")
    /\ UNCHANGED <<told, ledgerVars, kraken, utcDay, killed>>

\* UPDATE WHERE id = ? AND status = 'reserved' must find its row.
MarksExecuted(c) ==
    /\ at[c] = "finalizing"
    /\ writer = NoCall
    /\ IF reservation[c] = "reserved"
       THEN reservation' = [reservation EXCEPT ![c] = "executed"] /\ Ends(c, "executed")
       ELSE reservation' = reservation /\ Ends(c, "raised")
    /\ UNCHANGED <<day, writer, kraken, utcDay, killed>>

\* The ledger raises in _release or _mark_executed, which nobody catches.
SettleRaises(c) ==
    /\ at[c] \in {"releasing", "finalizing"}
    /\ Ends(c, "raised")
    /\ UNCHANGED <<ledgerVars, kraken, utcDay, killed>>

\* The process dies, or the task is cancelled; SQLite drops its lock.
Dies(c) ==
    /\ at[c] \notin {"idle", "done", "dead"}
    /\ Goto(c, "dead")
    /\ writer' = IF writer = c THEN NoCall ELSE writer
    /\ UNCHANGED <<told, reservation, day, kraken, utcDay, killed>>

-----------------------------------------------------------------------------
(* Kraken, the clock and the operator.                                     *)

KrakenPays(c) ==
    /\ kraken[c] = "sent"
    /\ kraken' = [kraken EXCEPT ![c] = "landed"]
    /\ UNCHANGED <<at, told, ledgerVars, utcDay, killed>>

KrakenRefuses(c) ==
    /\ kraken[c] = "sent"
    /\ kraken' = [kraken EXCEPT ![c] = "refused"]
    /\ UNCHANGED <<at, told, ledgerVars, utcDay, killed>>

Midnight ==
    /\ utcDay < LastDay
    /\ utcDay' = utcDay + 1
    /\ UNCHANGED <<at, told, ledgerVars, kraken, killed>>

TouchesKillSwitch ==
    /\ ~killed
    /\ killed' = TRUE
    /\ UNCHANGED <<at, told, ledgerVars, kraken, utcDay>>

RemovesKillSwitch ==
    /\ killed
    /\ killed' = FALSE
    /\ UNCHANGED <<at, told, ledgerVars, kraken, utcDay>>

-----------------------------------------------------------------------------
TransferInit ==
    /\ at = [c \in Calls |-> "idle"]
    /\ told = [c \in Calls |-> "none"]
    /\ reservation = [c \in Calls |-> "none"]
    /\ day = [c \in Calls |-> 0]
    /\ writer = NoCall
    /\ kraken = [c \in Calls |-> "none"]
    /\ utcDay = 1
    /\ killed = FALSE

TransferStep(c) ==
    \/ Blocked(c) \/ NotArmed(c) \/ AsksApprover(c) \/ Approves(c) \/ Denies(c)
    \/ ReserveReads(c) \/ ReserveInserts(c) \/ ReserveFails(c)
    \/ Withdraws(c) \/ Uncertain(c) \/ Refused(c) \/ Releases(c)
    \/ Accepted(c) \/ MarksExecuted(c) \/ SettleRaises(c) \/ Dies(c)

KrakenStep(c) == KrakenPays(c) \/ KrakenRefuses(c)

TransferNext ==
    \/ \E c \in Calls : TransferStep(c) \/ KrakenStep(c)
    \/ Midnight
    \/ TouchesKillSwitch
    \/ RemovesKillSwitch

TransferSpec == TransferInit /\ [][TransferNext]_transferVars

-----------------------------------------------------------------------------
(* Properties.                                                             *)

\* The type invariant.
TransferTypeOK ==
    /\ at \in [Calls -> Places]
    /\ told \in [Calls -> TransferStatuses]
    /\ reservation \in [Calls -> {"none", "reserved", "executed"}]
    /\ day \in [Calls -> 0..LastDay]
    /\ writer \in Calls \cup {NoCall}
    /\ kraken \in [Calls -> {"none", "sent", "landed", "refused"}]
    /\ utcDay \in 1..LastDay
    /\ killed \in BOOLEAN

\* "today's running total + amount <= daily_cap_usd", for the day each row carries:
\* also when midnight passes between the sum and the insert.
CapKept == \A d \in LedgerDays : Spent(Counted(d)) <= DailyTransferCap

\* "retain the reservation so a retry cannot exceed the cap": money that has left
\* Kraken, or still may, is on the ledger, whoever died or was told what.
WithdrawalsCounted ==
    \A c \in Calls : kraken[c] \in {"sent", "landed"} => reservation[c] # "none"

\* "transfer reservation missing during finalization" is never raised, and a call is
\* told "executed" only of a withdrawal that landed.
ExecutedIsFinal ==
    \A c \in Calls :
        /\ at[c] = "finalizing" => reservation[c] = "reserved"
        /\ told[c] = "executed" => kraken[c] = "landed" /\ reservation[c] = "executed"

\* "A real withdrawal executes ONLY when ... 1. Kill switch absent."
KillSwitchStopsWithdrawals ==
    [][\A c \in Calls : kraken[c] = "none" /\ kraken'[c] = "sent" => ~killed]_transferVars
=============================================================================
