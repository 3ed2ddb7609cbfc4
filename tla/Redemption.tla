------------------------------- MODULE Redemption -------------------------------
(***************************************************************************)
(* Winning Polymarket positions are redeemed on chain (broker/onchain.py)  *)
(* by the bot's hourly task and by the CLI, two processes that share the   *)
(* redemptions table and the nonce of one Safe.  The table's row of a      *)
(* condition is the guard against sending it again; it is read before the  *)
(* transaction is built and written after it is broadcast.                 *)
(*                                                                         *)
(* The chain: a Safe transaction is fresh while no other one has run since *)
(* it was signed, and runs only then.  It may revert or be dropped besides.*)
(***************************************************************************)
EXTENDS Integers, FiniteSets

CONSTANTS
    Sender,     \* the processes that redeem
    Hourly,     \* the one of them that is the bot
    Condition,  \* resolved conditions the Safe holds winning tokens of
    Asked,      \* those within the CLI's --limit and --min-payout
    NegRisk,    \* those that go through the adapter, which pays once or reverts
    Unset,      \* no condition
    InFlight    \* bound: transactions in the mempool

ASSUME RedemptionAssumption ==
    /\ Hourly \in Sender
    /\ Asked \subseteq Condition /\ NegRisk \subseteq Condition
    /\ Unset \notin Condition
    /\ InFlight \in Nat

VARIABLES
    guard,      \* redemptions.status, by condition
    claimed,    \* the conditions that have paid
    mempool,    \* broadcast and neither mined nor dropped
    ready,      \* the positions the bot has yet to go through this hour
    attempt,    \* what each sender is doing
    gates,      \* _is_live_submission_allowed()
    untracked   \* conditions whose broadcast the table does not show

redeemVars == <<guard, claimed, mempool, ready, attempt, gates, untracked>>

\* "open": no row, or one that guards nothing, built or rejected.
Statuses == {"open", "submitted", "confirmed"}
Transactions == [cond : Condition, by : Sender, watched : BOOLEAN, fresh : BOOLEAN]
Attempts == [at : {"idle", "passed", "sent", "waiting"},
             cond : Condition \cup {Unset}, receipt : {"none", "ok", "reverted"}]

AtRest == [at |-> "idle", cond |-> Unset, receipt |-> "none"]

RedemptionTypeOK ==
    /\ guard \in [Condition -> Statuses]
    /\ claimed \in SUBSET Condition
    /\ mempool \in SUBSET Transactions
    /\ ready \in SUBSET Condition
    /\ attempt \in [Sender -> Attempts]
    /\ gates \in BOOLEAN
    /\ untracked \in SUBSET Condition

RedemptionInit ==
    /\ guard = [c \in Condition |-> "open"]
    /\ claimed = {}
    /\ mempool = {}
    /\ ready = {}
    /\ attempt = [s \in Sender |-> AtRest]
    /\ gates \in BOOLEAN
    /\ untracked = {}

-----------------------------------------------------------------------------
\* Mutant: only a confirmed one is guarded.
AlreadySubmitted_Confirmed(c) == guard[c] = "confirmed"

AlreadySubmitted(c) == guard[c] \in {"submitted", "confirmed"}

\* Every hour, when the gates are open: the winners that the data API lists, which
\* may lag behind the chain.
RedeemLists ==
    /\ attempt[Hourly].at = "idle" /\ ready = {}
    /\ gates
    /\ \E late \in SUBSET claimed : ready' = (Condition \ claimed) \cup late
    /\ UNCHANGED <<guard, claimed, mempool, attempt, gates, untracked>>

RedeemSkips ==
    /\ attempt[Hourly].at = "idle"
    /\ \E c \in ready :
         /\ AlreadySubmitted(c)
         /\ ready' = ready \ {c}
    /\ UNCHANGED <<guard, claimed, mempool, attempt, gates, untracked>>

\* The CLI goes through its positions at any time.
RedeemStarts(s) ==
    /\ attempt[s].at = "idle"
    /\ \E c \in IF s = Hourly THEN ready ELSE Asked :
         /\ ~AlreadySubmitted(c)
         /\ ready' = IF s = Hourly THEN ready \ {c} ELSE ready
         /\ attempt' = [attempt EXCEPT ![s] = [AtRest EXCEPT !.at = "passed", !.cond = c]]
    /\ UNCHANGED <<guard, claimed, mempool, gates, untracked>>

\* A status that guards nothing is written over another sender's broadcast.
Unguards(s, c) ==
    untracked' = untracked \cup (IF \E t \in mempool : t.cond = c /\ t.by # s THEN {c} ELSE {})

RedeemEnds(s, status) ==
    /\ guard' = [guard EXCEPT ![attempt[s].cond] = status]
    /\ attempt' = [attempt EXCEPT ![s] = AtRest]

\* Built for a dry run or behind closed gates, or rejected as its gas estimate fails.
RedeemDeclines(s) ==
    /\ attempt[s].at = "passed"
    /\ RedeemEnds(s, "open")
    /\ Unguards(s, attempt[s].cond)
    /\ UNCHANGED <<claimed, mempool, ready, gates>>

\* Broadcast: nothing is awaited since the nonce was read.
RedeemSends(s) ==
    /\ attempt[s].at = "passed" /\ gates
    /\ Cardinality(mempool) < InFlight
    /\ mempool' = mempool \cup
         {[cond |-> attempt[s].cond, by |-> s, watched |-> TRUE, fresh |-> TRUE]}
    /\ attempt' = [attempt EXCEPT ![s].at = "sent"]
    /\ UNCHANGED <<guard, claimed, ready, gates, untracked>>

RedeemRecords(s) ==
    /\ attempt[s].at = "sent"
    /\ guard' = [guard EXCEPT ![attempt[s].cond] = "submitted"]
    /\ attempt' = [attempt EXCEPT ![s].at = "waiting"]
    /\ UNCHANGED <<claimed, mempool, ready, gates, untracked>>

Unwatched(s) ==
    {IF t.by = s THEN [t EXCEPT !.watched = FALSE] ELSE t : t \in mempool}

\* An RPC call or the table's write raises, and the sender goes on with the next
\* one; or the process dies, and begins again.
RedeemRaises(s) ==
    /\ attempt[s].at \in {"passed", "sent"}
    /\ attempt' = [attempt EXCEPT ![s] = AtRest]
    /\ mempool' = Unwatched(s)
    /\ untracked' = untracked \cup (IF attempt[s].at = "sent" THEN {attempt[s].cond} ELSE {})
    /\ UNCHANGED <<guard, claimed, ready, gates>>

\* Mutant: a mined transaction is a redemption.
Outcome_Mined(receipt) == "confirmed"

Outcome(receipt) == IF receipt = "ok" THEN "confirmed" ELSE "open"

\* The receipt arrives within five minutes.
RedeemSettles(s) ==
    /\ attempt[s].at = "waiting" /\ attempt[s].receipt # "none"
    /\ RedeemEnds(s, Outcome(attempt[s].receipt))
    /\ IF attempt[s].receipt = "ok" THEN UNCHANGED untracked ELSE Unguards(s, attempt[s].cond)
    /\ UNCHANGED <<claimed, mempool, ready, gates>>

\* Mutant: the receipt is waited for without a timeout.
RedeemTimesOut_Never(s) == FALSE

\* It does not, or it cannot be noted, or the process dies: the row stays as it is.
RedeemTimesOut(s) ==
    /\ attempt[s].at = "waiting"
    /\ attempt' = [attempt EXCEPT ![s] = AtRest]
    /\ mempool' = Unwatched(s)
    /\ UNCHANGED <<guard, claimed, ready, gates, untracked>>

-----------------------------------------------------------------------------
Receipt(t, outcome) ==
    attempt' = IF t.watched THEN [attempt EXCEPT ![t.by].receipt = outcome] ELSE attempt

\* The Safe's nonce moves on: what else was signed with it will revert.  Redeeming
\* a standard condition again succeeds and pays nothing.
TxExecutes(t) ==
    /\ t.fresh
    /\ t.cond \notin claimed \cap NegRisk
    /\ claimed' = claimed \cup {t.cond}
    /\ mempool' = {[u EXCEPT !.fresh = FALSE] : u \in mempool \ {t}}
    /\ Receipt(t, "ok")
    /\ UNCHANGED <<guard, ready, gates, untracked>>

TxReverts(t) ==
    /\ mempool' = mempool \ {t}
    /\ Receipt(t, "reverted")
    /\ UNCHANGED <<guard, claimed, ready, gates, untracked>>

TxDrops(t) ==
    /\ mempool' = mempool \ {t}
    /\ UNCHANGED <<guard, claimed, ready, attempt, gates, untracked>>

\* The kill switch comes or goes, or the settings change.
GatesTurn ==
    /\ gates' = ~gates
    /\ UNCHANGED <<guard, claimed, mempool, ready, attempt, untracked>>

RedeemStep(s) ==
    \/ RedeemStarts(s) \/ RedeemDeclines(s) \/ RedeemSends(s) \/ RedeemRecords(s)
    \/ RedeemRaises(s) \/ RedeemSettles(s) \/ RedeemTimesOut(s)

HourlyStep == RedeemLists \/ RedeemSkips \/ RedeemStep(Hourly)

RedemptionNext ==
    \/ HourlyStep
    \/ \E s \in Sender \ {Hourly} : RedeemStep(s)
    \/ \E t \in mempool : TxExecutes(t) \/ TxReverts(t) \/ TxDrops(t)
    \/ GatesTurn

\* The bot goes through its positions every hour; each of its waits has a timeout.
RedemptionFairness == WF_redeemVars(HourlyStep)

RedemptionSpec == RedemptionInit /\ [][RedemptionNext]_redeemVars

-----------------------------------------------------------------------------
\* A condition recorded as confirmed has paid, whichever sender's receipt said so
\* and whatever the other one wrote meanwhile.
ConfirmedMeansPaid == \A c \in Condition : guard[c] = "confirmed" => c \in claimed

\* The replay guard: a sender has one transaction of a condition in the mempool at
\* most, however its wait for the receipt ended.  Two ways are left: the row of a
\* broadcast was never written, or the other sender, past the guard already, wrote
\* a status over it that guards nothing.
SentOnce ==
    \A c \in Condition \ untracked, s \in Sender :
        Cardinality({t \in mempool : t.cond = c /\ t.by = s}) <= 1

Redeeming(c) == attempt[Hourly].at # "idle" /\ attempt[Hourly].cond = c

\* A winner that has not paid is tried again as long as the gates are open, unless
\* the row says that it was sent; a row whose receipt never came says so for good.
RedemptionRetried ==
    \A c \in Condition : []<>(Redeeming(c) \/ c \in claimed \/ AlreadySubmitted(c) \/ ~gates)
=============================================================================
