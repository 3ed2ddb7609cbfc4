------------------------------- MODULE KalshiBook -------------------------------
(***************************************************************************)
(* What the bot's books say of one live Kalshi market: the position sync   *)
(* (exchange/kalshi.py), which copies the venue's positions into three     *)
(* tables, statement by statement, each of them committed alone; and the   *)
(* booking of the market's settlement, by the sweep of the venue's feed    *)
(* (broker/kalshi_settlements.py) and by the resolution tracker.           *)
(***************************************************************************)
EXTENDS Integers, Sequences, FiniteSets

CONSTANTS
    Trades, KalshiDeaths    \* bounds: fills at the venue, restarts of the bot

ASSUME KalshiAssumption == Trades \in Nat /\ KalshiDeaths \in Nat

Tokens == {"YES", "NO"}
Position == Tokens \cup {"flat"}

\* The tables, in the order the sync writes them and then prunes them.
Tables == <<"portfolio", "cost_basis", "venue_positions">>

VARIABLES
    position,   \* the side the venue says is held
    bought,     \* the sides ever bought: the costs in the settlement record
    unbooked,   \* fills that record_fill has yet to book, by token
    settled,    \* the settlement is in the venue's feed
    book,       \* each table's rows of the market, with a size, by token
    sync,       \* sync_positions: what it fetched, and its next statement
    sweep,      \* the sweep: what it does next with the market
    ledger,     \* the pnl_ledger's settlement rows, by the prefix of source_ref
    trades, kalshiDeaths

kalshiVars ==
    <<position, bought, unbooked, settled, book, sync, sweep, ledger, trades, kalshiDeaths>>

SyncIdle == [at |-> "idle", table |-> 1, found |-> "flat"]

KalshiTypeOK ==
    /\ position \in Position
    /\ bought \in SUBSET Tokens
    /\ unbooked \in SUBSET Tokens
    /\ settled \in BOOLEAN
    /\ book \in [{Tables[i] : i \in 1..3} -> SUBSET Tokens]
    /\ sync \in [at : {"idle", "upsert", "prune"}, table : 1..3, found : Position]
    /\ sweep \in {"idle", "book", "close", "drop"}
    /\ ledger \in SUBSET {"kalshi-settle", "settle"}
    /\ trades \in 0..Trades
    /\ kalshiDeaths \in 0..KalshiDeaths

KalshiInit ==
    /\ position = "flat"
    /\ bought = {}
    /\ unbooked = {}
    /\ settled = FALSE
    /\ book = [t \in {Tables[i] : i \in 1..3} |-> {}]
    /\ sync = SyncIdle
    /\ sweep = "idle"
    /\ ledger = {}
    /\ trades = 0
    /\ kalshiDeaths = 0

-----------------------------------------------------------------------------
(* The venue, and the order monitor.                                       *)

\* A BUY of a token fills: it adds to the position, or reduces or turns it.
KalshiFill(token) ==
    /\ ~settled /\ trades < Trades
    /\ trades' = trades + 1
    /\ \/ position' = token
       \/ position \notin {"flat", token} /\ position' \in {"flat", position}
    /\ bought' = bought \cup {token}
    /\ unbooked' = unbooked \cup {token}
    /\ UNCHANGED <<settled, book, sync, sweep, ledger, kalshiDeaths>>

\* record_fill adds to cost_basis, however late.
KalshiFillBooked(token) ==
    /\ token \in unbooked
    /\ unbooked' = unbooked \ {token}
    /\ book' = [book EXCEPT !["cost_basis"] = @ \cup {token}]
    /\ UNCHANGED <<position, bought, settled, sync, sweep, ledger, trades, kalshiDeaths>>

\* The market settles: the position is paid out and gone.
KalshiSettles ==
    /\ ~settled /\ position # "flat"
    /\ settled' = TRUE
    /\ position' = "flat"
    /\ UNCHANGED <<bought, unbooked, book, sync, sweep, ledger, trades, kalshiDeaths>>

-----------------------------------------------------------------------------
(* sync_positions.                                                         *)

\* The positions are fetched, and the prices of each: it takes a while.
SyncFetches ==
    /\ sync.at = "idle"
    /\ sync' = [at |-> "upsert", table |-> 1, found |-> position]
    /\ UNCHANGED <<position, bought, unbooked, settled, book, sweep, ledger, trades, kalshiDeaths>>

\* The next statement of the pass, or its end.
SyncGoesOn ==
    IF sync.table < Len(Tables) THEN [sync EXCEPT !.table = @ + 1]
    ELSE IF sync.at = "upsert" THEN [sync EXCEPT !.at = "prune", !.table = 1]
    ELSE SyncIdle

SyncUpserts ==
    /\ sync.at = "upsert"
    /\ book' = IF sync.found = "flat" THEN book
               ELSE [book EXCEPT ![Tables[sync.table]] = @ \cup {sync.found}]
    /\ sync' = SyncGoesOn
    /\ UNCHANGED <<position, bought, unbooked, settled, sweep, ledger, trades, kalshiDeaths>>

\* Mutant: with no position at all, nothing is deleted.
Pruned_Listed(rows) == rows

\* The market's rows go when it was not found: by its ticker, whatever the token.
Pruned(rows) == IF sync.found = "flat" THEN {} ELSE rows

SyncPrunes ==
    /\ sync.at = "prune"
    /\ book' = [book EXCEPT ![Tables[sync.table]] = Pruned(@)]
    /\ sync' = SyncGoesOn
    /\ UNCHANGED <<position, bought, unbooked, settled, sweep, ledger, trades, kalshiDeaths>>

-----------------------------------------------------------------------------
(* The settlement.                                                         *)

\* Mutant: only our own basis tells the side.
HeldSides_Own == book["cost_basis"]

\* The side we held: our own basis's or, without one, the only side that the
\* venue's record has a cost for.
HeldSides ==
    IF book["cost_basis"] # {} THEN book["cost_basis"]
    ELSE IF Cardinality(bought) = 1 THEN bought ELSE {}

\* The sweep finds the record, and no ledger row with its source_ref.
SweepReads ==
    /\ sweep = "idle"
    /\ settled /\ "kalshi-settle" \notin ledger
    /\ HeldSides # {}
    /\ sweep' = "book"
    /\ UNCHANGED <<position, bought, unbooked, settled, book, sync, ledger, trades, kalshiDeaths>>

\* record_ledger_event, whose failure is swallowed.
Ledgered(ref) == ledger' \in {ledger, ledger \cup {ref}}

SweepBooks ==
    /\ sweep = "book"
    /\ Ledgered("kalshi-settle")
    /\ sweep' = "close"
    /\ UNCHANGED <<position, bought, unbooked, settled, book, sync, trades, kalshiDeaths>>

\* Its rows are closed whether or not the row landed: two statements.
SweepCloses ==
    /\ \/ /\ sweep = "close"
          /\ book' = [book EXCEPT !["cost_basis"] = {}]
          /\ sweep' = "drop"
       \/ /\ sweep = "drop"
          /\ book' = [book EXCEPT !["portfolio"] = {}]
          /\ sweep' = "idle"
    /\ UNCHANGED <<position, bought, unbooked, settled, sync, ledger, trades, kalshiDeaths>>

\* The resolution tracker settles what the books still hold (see Books), in the task
\* that runs the sweep after it.
TrackerSettles ==
    /\ sweep = "idle"
    /\ settled
    /\ book["cost_basis"] \cup book["portfolio"] # {}
    /\ Ledgered("settle")
    /\ book' = [book EXCEPT !["cost_basis"] = {}, !["portfolio"] = {}]
    /\ UNCHANGED <<position, bought, unbooked, settled, sync, sweep, trades, kalshiDeaths>>

\* The bot dies, between any two statements; what was filled meanwhile is booked
\* by the next session or never.
KalshiRestart ==
    /\ kalshiDeaths < KalshiDeaths
    /\ kalshiDeaths' = kalshiDeaths + 1
    /\ sync' = SyncIdle
    /\ sweep' = "idle"
    /\ unbooked' \in {unbooked, {}}
    /\ UNCHANGED <<position, bought, settled, book, ledger, trades>>

SyncStep == SyncFetches \/ SyncUpserts \/ SyncPrunes
SweepStep == SweepReads \/ SweepBooks \/ SweepCloses

KalshiNext ==
    \/ \E token \in Tokens : KalshiFill(token) \/ KalshiFillBooked(token)
    \/ KalshiSettles
    \/ SyncStep \/ SweepStep \/ TrackerSettles
    \/ KalshiRestart

\* A sweep's ledger write that lands.
SweepLands == SweepBooks /\ "kalshi-settle" \in ledger'

\* The sync runs every few minutes, the sweep every half an hour, and a ledger that is
\* written again and again takes the row.
KalshiFairness ==
    /\ WF_kalshiVars(SyncStep)
    /\ WF_kalshiVars(SweepStep)
    /\ SF_kalshiVars(SweepLands)

KalshiSpec == KalshiInit /\ [][KalshiNext]_kalshiVars

-----------------------------------------------------------------------------
\* The profit of a settled market is booked, though the sync may delete the basis
\* before the sweep comes to read it, a ledger write that failed closes the basis all
\* the same, and the bot may die anywhere: unless both sides were ever bought, when
\* nothing is left to tell which one was held.
KalshiPnlBooked ==
    []<>(settled /\ Cardinality(bought) = 1 => ledger # {})

\* A settled market leaves the books for good, although a sync that had fetched
\* its position earlier, or a late fill, brings it back after it was closed.
KalshiBooksClear ==
    <>[](settled => \A t \in DOMAIN book : book[t] = {})
=============================================================================
