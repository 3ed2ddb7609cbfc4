--------------------------------- MODULE Books ---------------------------------
(***************************************************************************)
(* The live Polymarket book: the tables fills, cost_basis, portfolio and   *)
(* pnl_ledger, and the four tasks of one event loop that write them:       *)
(*                                                                         *)
(*   Rec   PnLTracker.record_fill (broker/pnl.py), called by the order     *)
(*         monitor when it learns that an order of ours filled;            *)
(*   Pos   _task_position_sync (bot.py): the sweep of off-bot trades       *)
(*         (broker/manual_trades.py), then the mirror of the wallet;       *)
(*   Mon   the portfolio monitor's sync and merge (broker/sync.py);        *)
(*   Res   the resolution checker (strategy/resolution_tracker.py): the    *)
(*         unscoped settlement of a detected outcome and the venue sweep.  *)
(*                                                                         *)
(* One market, held on two tokens.  A transaction() is one step, which is  *)
(* what AtomicStore promises; every other statement and every request is a *)
(* step of its own.  A realization is the number of shares it accounts     *)
(* for: what they cost and fetched is left out.                            *)
(***************************************************************************)
EXTENDS Integers, Sequences

CONSTANTS
    Orders,     \* orders of ours
    Manual,     \* trades the operator makes at the venue
    TradeSide,  \* "BUY" or "SELL"
    TradeToken, \* the token traded
    TradeSize,  \* in shares
    SharesIn(_), \* the shares of a set of orders
    Scenes,     \* bound: what may happen together (see scene)
    NoRow       \* no such row

Trades == Orders \cup Manual

Token == {"YES", "NO"}

\* The tasks that come round by themselves.
Tasks == {"pos", "mon", "res"}

ASSUME BooksAssumption ==
    /\ Orders \cap Manual = {}
    /\ TradeSide \in [Trades -> {"BUY", "SELL"}]
    /\ TradeToken \in [Trades -> Token]
    /\ TradeSize \in [Trades -> Nat \ {0}]
    /\ \A S \in SUBSET Orders : SharesIn(S) \in Nat
    /\ Scenes \subseteq [trades : SUBSET Trades, tasks : SUBSET Tasks, crashes : Nat, faults : Nat]
    /\ NoRow \notin Nat

VARIABLES
    history,    \* the venue's trades of this wallet, oldest first
    wallet,     \* the shares it holds
    ended,      \* trading is over and the price is at 0 or 1
    redeemable, \* the oracle has confirmed it
    fills,      \* rows of fills, by order
    basis,      \* cost_basis.size
    portfolio,  \* portfolio.size
    bySell,     \* pnl_ledger: qty under fill:<id>
    byTrade,    \* pnl_ledger: qty under venue-trade:<tx>
    bySettle,   \* pnl_ledger: qty under settle:<market>:<token>:0
    accrued,    \* settlements added to daily_stats, by token
    missed,     \* settlements whose ledger row was not written, by token
    tallied,    \* trades of the operator's added to daily_stats
    cursor,     \* manual_trade_state.cursor_ts, as a position in history
    rec, owed,  \* each call of record_fill, and the ledger event it holds
    pos,        \* _task_position_sync
    mon,        \* the portfolio monitor
    res,        \* the resolution checker
    crashes,    \* of the process, so far
    faults,     \* statements that raised, so far
    scene       \* the trades made, the tasks that come round (a task may sleep
                \* through it all), how often the process dies and how many
                \* statements raise

venue == <<history, wallet, ended, redeemable>>
settlements == <<bySettle, accrued, missed>>
ledger == <<bySell, byTrade, tallied, settlements>>
holdings == <<basis, portfolio>>
tasks == <<rec, owed, pos, mon, res>>
mishaps == <<crashes, faults>>
vars == <<venue, fills, holdings, ledger, cursor, tasks, mishaps, scene>>

-----------------------------------------------------------------------------
RecPlaces == {"idle", "checked", "owes"}

\* Locals of _task_position_sync: the trade in hand, the last one fetched, the
\* quantity to book, the positions fetched and the keys found settled.
PosState == [at : {"sweep", "look", "book", "accrue", "mirror", "keys", "write"},
             next : Nat, last : Nat, qty : Nat,
             held : [Token -> Nat], settled : SUBSET Token]

PosStart == [at |-> "sweep", next |-> 0, last |-> 0, qty |-> 0,
             held |-> [t \in Token |-> 0], settled |-> {}]

MonState == [at : {"read", "keys", "merge", "write"},
             held : [Token -> Nat], settled : SUBSET Token]

MonStart == [at |-> "read", held |-> [t \in Token |-> 0], settled |-> {}]

\* The settlement in hand; rows are the holdings the sweep matched and has yet
\* to settle.
ResState == [at : {"start", "sweep", "prior", "correct", "find", "check", "book", "clean"},
             rows : [Token -> Nat], token : Token, scoped : BOOLEAN,
             qty : Nat, known : BOOLEAN]

ResStart == [at |-> "start", rows |-> [t \in Token |-> 0], token |-> "YES",
             scoped |-> FALSE, qty |-> 0, known |-> FALSE]

\* Mutant: the keys of the paper book.
SettledKeys_Paper == {}

\* _settled_keys(0).
SettledKeys == {t \in Token : bySettle[t] # NoRow}

Recorded(t, side) == {o \in Orders : /\ fills[o] > 0
                                     /\ TradeToken[o] = t
                                     /\ TradeSide[o] = side}

Least(a, b) == IF a <= b THEN a ELSE b

Executed == {history[i] : i \in DOMAIN history}

\* A statement raises, on a locked database say.
StatementRaises ==
    /\ faults < scene.faults
    /\ faults' = faults + 1
    /\ UNCHANGED <<crashes, scene>>

-----------------------------------------------------------------------------
TypeOK ==
    /\ history \in Seq(Trades)
    /\ wallet \in [Token -> Nat]
    /\ ended \in BOOLEAN
    /\ redeemable \in BOOLEAN
    /\ fills \in [Orders -> Nat]
    /\ basis \in [Token -> Nat]
    /\ portfolio \in [Token -> Nat]
    /\ bySell \in [Orders -> Nat \cup {NoRow}]
    /\ byTrade \in [Trades -> Nat \cup {NoRow}]
    /\ bySettle \in [Token -> Nat \cup {NoRow}]
    /\ accrued \in [Token -> Nat]
    /\ missed \in [Token -> Nat]
    /\ tallied \in [Trades -> Nat]
    /\ cursor \in Nat
    /\ rec \in [Orders -> RecPlaces]
    /\ owed \in [Orders -> Nat]
    /\ pos \in PosState
    /\ mon \in MonState
    /\ res \in ResState
    /\ crashes \in Nat
    /\ faults \in Nat
    /\ scene \in Scenes

Init ==
    /\ history = <<>>
    /\ wallet = [t \in Token |-> 0]
    /\ ended = FALSE
    /\ redeemable = FALSE
    /\ fills = [o \in Orders |-> 0]
    /\ basis = [t \in Token |-> 0]
    /\ portfolio = [t \in Token |-> 0]
    /\ bySell = [o \in Orders |-> NoRow]
    /\ byTrade = [x \in Trades |-> NoRow]
    /\ bySettle = [t \in Token |-> NoRow]
    /\ accrued = [t \in Token |-> 0]
    /\ missed = [t \in Token |-> 0]
    /\ tallied = [x \in Trades |-> 0]
    /\ cursor = 0
    /\ rec = [o \in Orders |-> "idle"]
    /\ owed = [o \in Orders |-> 0]
    /\ pos = PosStart
    /\ mon = MonStart
    /\ res = ResStart
    /\ crashes = 0
    /\ faults = 0
    /\ scene \in Scenes

-----------------------------------------------------------------------------
(* The venue.                                                              *)

\* A trade happens once, while the price still moves.
VenueTrades(x) ==
    /\ x \in scene.trades
    /\ x \notin Executed
    /\ ~ended
    /\ TradeSide[x] = "SELL" => wallet[TradeToken[x]] >= TradeSize[x]
    /\ history' = Append(history, x)
    /\ wallet' = [wallet EXCEPT ![TradeToken[x]] =
                    IF TradeSide[x] = "BUY" THEN @ + TradeSize[x]
                                            ELSE @ - TradeSize[x]]
    /\ UNCHANGED <<ended, redeemable, fills, holdings, ledger, cursor, tasks, mishaps, scene>>

\* The market ends: the price goes to 0 or 1, hours before the oracle confirms.
VenueEnds ==
    /\ ~ended
    /\ ended' = TRUE
    /\ UNCHANGED <<history, wallet, redeemable, fills, holdings, ledger, cursor, tasks, mishaps, scene>>

VenueConfirms ==
    /\ ended
    /\ ~redeemable
    /\ redeemable' = TRUE
    /\ UNCHANGED <<history, wallet, ended, fills, holdings, ledger, cursor, tasks, mishaps, scene>>

-----------------------------------------------------------------------------
(* record_fill.  One call at a time for an order: the monitor polls its    *)
(* orders one after the other.                                             *)

\* Mutant: no look-up.
Unrecorded_Any(o) == o \in Orders

Unrecorded(o) == fills[o] = 0

\* The look-up by order id and side, outside the transaction.  A replay of the
\* same fill is ignored and a conflicting one raises: neither writes.
RecChecks(o) ==
    /\ rec[o] = "idle"
    /\ o \in Executed
    /\ Unrecorded(o)
    /\ rec' = [rec EXCEPT ![o] = "checked"]
    /\ UNCHANGED <<venue, fills, holdings, ledger, cursor, owed, pos, mon, res, mishaps, scene>>

\* Mutant: the whole sale, whatever is held.
Sold_Whole(o) == TradeSize[o]

\* A sale is capped to the size on the books.
Sold(o) == Least(TradeSize[o], basis[TradeToken[o]])

\* A sale leaves a ledger event to write, a purchase does not.
Event(o) == IF TradeSide[o] = "SELL" THEN "owes" ELSE "idle"

\* _record_fill_once: the fill and its cost basis in one transaction.
RecCommits(o) ==
    /\ rec[o] = "checked"
    /\ fills' = [fills EXCEPT ![o] = @ + 1]
    /\ rec' = [rec EXCEPT ![o] = Event(o)]
    /\ owed' = [owed EXCEPT ![o] = IF TradeSide[o] = "SELL" THEN Sold(o) ELSE 0]
    /\ basis' = [basis EXCEPT ![TradeToken[o]] =
                    IF TradeSide[o] = "BUY" THEN @ + TradeSize[o] ELSE @ - Sold(o)]
    /\ UNCHANGED <<venue, portfolio, ledger, cursor, pos, mon, res, mishaps, scene>>

\* The transaction raises: the monitor logs it and drops the order.
RecRaises(o) ==
    /\ rec[o] = "checked"
    /\ rec' = [rec EXCEPT ![o] = "idle"]
    /\ UNCHANGED <<venue, fills, holdings, ledger, cursor, owed, pos, mon, res, mishaps, scene>>

\* record_ledger_event, after the commit: INSERT OR IGNORE under fill:<id>.
RecBooks(o) ==
    /\ rec[o] = "owes"
    /\ bySell' = [bySell EXCEPT ![o] = IF @ = NoRow THEN owed[o] ELSE @]
    /\ rec' = [rec EXCEPT ![o] = "idle"]
    /\ owed' = [owed EXCEPT ![o] = 0]
    /\ UNCHANGED <<venue, fills, holdings, byTrade, tallied, settlements, cursor,
                   pos, mon, res, mishaps, scene>>

\* It raises, which record_ledger_event logs and swallows: the sale is never on
\* the ledger, as the replay of its fill is ignored.
RecBookFails(o) ==
    /\ rec[o] = "owes"
    /\ StatementRaises
    /\ rec' = [rec EXCEPT ![o] = "idle"]
    /\ owed' = [owed EXCEPT ![o] = 0]
    /\ UNCHANGED <<venue, fills, holdings, ledger, cursor, pos, mon, res>>

-----------------------------------------------------------------------------
(* _task_position_sync: the sweep of off-bot trades ...                    *)

PosGoes(place) == pos' = [pos EXCEPT !.at = place]

\* What the task leaves alone, whether or not its statement raises.
PosOthers == <<venue, fills, rec, owed, mon, res>>
PosKeeps == UNCHANGED <<PosOthers, mishaps, scene>>
PosRaises == StatementRaises /\ UNCHANGED PosOthers

\* fetch_trades_since(cursor).
PosFetchesTrades ==
    /\ pos.at = "sweep"
    /\ pos' = [pos EXCEPT !.at = "look", !.next = cursor + 1, !.last = Len(history)]
    /\ PosKeeps /\ UNCHANGED <<holdings, ledger, cursor>>

\* The fetch fails: a warning, and on to the mirror.
PosSweepFails ==
    /\ pos.at = "sweep"
    /\ PosGoes("mirror")
    /\ PosKeeps /\ UNCHANGED <<holdings, ledger, cursor>>

\* Sales of ours on the books are large enough to be this trade, or one of them
\* is on the ledger at this quantity.
IsBotTrade(x) ==
    \/ LET ours == Recorded(TradeToken[x], "SELL")
       IN ours # {} /\ TradeSize[x] <= SharesIn(ours)
    \/ \E o \in Orders : /\ TradeToken[o] = TradeToken[x]
                         /\ bySell[o] = TradeSize[x]

\* _basis_for: the cost_basis row, else what a walk of the fills leaves.
HeldFor(t) ==
    IF basis[t] > 0 THEN basis[t]
    ELSE LET bought == SharesIn(Recorded(t, "BUY"))
             sold == SharesIn(Recorded(t, "SELL"))
         IN IF bought > sold THEN bought - sold ELSE 0

\* One trade of the batch: skipped, or to be booked as a manual sale.
PosLooks ==
    /\ pos.at = "look"
    /\ pos.next <= pos.last
    /\ LET x == history[pos.next]
           manual == /\ TradeSide[x] = "SELL"
                     /\ ~IsBotTrade(x)
                     /\ byTrade[x] = NoRow
                     /\ HeldFor(TradeToken[x]) > 0
       IN pos' = IF manual
                 THEN [pos EXCEPT !.at = "book",
                                  !.qty = Least(TradeSize[x], HeldFor(TradeToken[x]))]
                 ELSE [pos EXCEPT !.next = @ + 1]
    /\ PosKeeps /\ UNCHANGED <<holdings, ledger, cursor>>

\* record_ledger_event under venue-trade:<tx>.
PosBooks ==
    /\ pos.at = "book"
    /\ byTrade' = [byTrade EXCEPT ![history[pos.next]] = IF @ = NoRow THEN pos.qty ELSE @]
    /\ PosGoes("accrue")
    /\ PosKeeps /\ UNCHANGED <<holdings, bySell, tallied, settlements, cursor>>

\* A sweep that raises is over, with its cursor where it was: on to the mirror.
PosSweepOver == pos' = [PosStart EXCEPT !.at = "mirror"]

\* Mutant: whether the row landed is not asked.
PosBookFails_Trusts ==
    /\ pos.at = "book"
    /\ PosGoes("accrue")
    /\ PosRaises /\ UNCHANGED <<holdings, ledger, cursor>>

\* record_ledger_event swallows its error, but the row is looked for and missed.
PosBookFails ==
    /\ pos.at = "book"
    /\ PosSweepOver
    /\ PosRaises /\ UNCHANGED <<holdings, ledger, cursor>>

\* daily_stats and the cursor in one transaction.
PosAccrues ==
    /\ pos.at = "accrue"
    /\ tallied' = [tallied EXCEPT ![history[pos.next]] = @ + 1]
    /\ cursor' = IF pos.next > cursor THEN pos.next ELSE cursor
    /\ pos' = [pos EXCEPT !.at = "look", !.next = @ + 1, !.qty = 0]
    /\ PosKeeps /\ UNCHANGED <<holdings, bySell, byTrade, settlements>>

PosAccrueFails ==
    /\ pos.at = "accrue"
    /\ PosSweepOver
    /\ PosRaises /\ UNCHANGED <<holdings, ledger, cursor>>

\* The batch is done: the cursor passes all of it.
PosSwept ==
    /\ pos.at = "look"
    /\ pos.next > pos.last
    /\ cursor' = IF pos.last > cursor THEN pos.last ELSE cursor
    /\ PosSweepOver
    /\ PosKeeps /\ UNCHANGED <<holdings, ledger>>

\* ... then the mirror.  reconcile() lists the wallet, without the tokens the
\* oracle has confirmed.
Listed(t) == IF redeemable THEN 0 ELSE wallet[t]

PosFetchesWallet ==
    /\ pos.at = "mirror"
    /\ pos' = [pos EXCEPT !.at = "keys", !.held = [t \in Token |-> Listed(t)]]
    /\ PosKeeps /\ UNCHANGED <<holdings, ledger, cursor>>

\* The fetch fails (last_fetch_ok is FALSE): nothing is written.
PosMirrorFails ==
    /\ pos.at = "mirror"
    /\ pos' = PosStart
    /\ PosKeeps /\ UNCHANGED <<holdings, ledger, cursor>>

\* _settled_keys(0).
PosReadsKeys ==
    /\ pos.at = "keys"
    /\ pos' = [pos EXCEPT !.at = "write", !.settled = SettledKeys]
    /\ PosKeeps /\ UNCHANGED <<holdings, ledger, cursor>>

\* The query raises: nothing counts as settled.
PosMissesKeys ==
    /\ pos.at = "keys"
    /\ pos' = [pos EXCEPT !.at = "write", !.settled = {}]
    /\ PosRaises /\ UNCHANGED <<holdings, ledger, cursor>>

\* Mutant: rows are only written, never deleted.
Mirrored_Upserts(t, live) == IF t \in live THEN pos.held[t] ELSE basis[t]

\* Upsert what is held and unsettled, delete every other row of ours.
Mirrored(t, live) == IF t \in live THEN pos.held[t] ELSE 0

PosWrites ==
    LET live == {t \in Token : pos.held[t] > 0} \ pos.settled
    IN /\ pos.at = "write"
       /\ basis' = [t \in Token |-> Mirrored(t, live)]
       /\ portfolio' = [t \in Token |-> IF t \in live THEN portfolio[t] ELSE 0]
       /\ pos' = PosStart
       /\ PosKeeps /\ UNCHANGED <<ledger, cursor>>

-----------------------------------------------------------------------------
(* The portfolio monitor: PositionSyncer.sync, then the merge of what the  *)
(* wallet holds in markets that sync did not list.                         *)

MonOthers == <<venue, fills, basis, ledger, cursor, rec, owed, pos, res>>
MonKeeps == UNCHANGED <<MonOthers, mishaps, scene>>

\* _sync_live reads cost_basis; when it lists nothing, the merge has work to do.
MonReads ==
    /\ mon.at = "read"
    /\ mon' = [mon EXCEPT !.at = IF \E t \in Token : basis[t] > 0 THEN "keys" ELSE "merge",
                          !.held = basis]
    /\ MonKeeps /\ UNCHANGED portfolio

\* reconcile(), for the merge; a failed fetch lists nothing.
MonFetchesWallet ==
    /\ mon.at = "merge"
    /\ \E answer \in {[t \in Token |-> Listed(t)], [t \in Token |-> 0]} :
         mon' = [mon EXCEPT !.at = "keys", !.held = answer]
    /\ MonKeeps /\ UNCHANGED portfolio

\* _settled_keys(0).
MonReadsKeys ==
    /\ mon.at = "keys"
    /\ mon' = [mon EXCEPT !.at = "write", !.settled = SettledKeys]
    /\ MonKeeps /\ UNCHANGED portfolio

\* The query raises: nothing counts as settled.
MonMissesKeys ==
    /\ mon.at = "keys"
    /\ mon' = [mon EXCEPT !.at = "write", !.settled = {}]
    /\ StatementRaises /\ UNCHANGED <<MonOthers, portfolio>>

\* _reconcile and _merge_new_positions: upsert what is unsettled.  _reconcile
\* deletes by market, and a market with a leg left keeps all its rows; with no
\* leg left it deletes nothing.
MonWrites ==
    /\ mon.at = "write"
    /\ portfolio' = [t \in Token |-> IF mon.held[t] > 0 /\ t \notin mon.settled
                                     THEN mon.held[t] ELSE portfolio[t]]
    /\ mon' = MonStart
    /\ MonKeeps

-----------------------------------------------------------------------------
(* The resolution checker.                                                 *)

ResOthers == <<venue, fills, bySell, byTrade, tallied, cursor, rec, owed, pos, mon>>
ResKeeps == UNCHANGED <<ResOthers, mishaps, scene>>
ResRaises == StatementRaises /\ UNCHANGED ResOthers

\* check_resolutions: Gamma says the market ended, and each mode is settled
\* without naming a token.
ResDetects ==
    /\ res.at = "start"
    /\ ended
    /\ res' = [res EXCEPT !.at = "find", !.scoped = FALSE]
    /\ ResKeeps /\ UNCHANGED <<holdings, settlements>>

\* It is open, or Gamma no longer lists it.
ResMisses ==
    /\ res.at = "start"
    /\ res' = [res EXCEPT !.at = "sweep"]
    /\ ResKeeps /\ UNCHANGED <<holdings, settlements>>

\* settle_via_venue: the holdings of the tokens the venue lists as resolved, the
\* portfolio's row before the cost basis's.
Holding(t) == IF portfolio[t] > 0 THEN portfolio[t] ELSE basis[t]

ResSweeps ==
    /\ res.at = "sweep"
    /\ res' = [res EXCEPT !.at = "prior",
                          !.rows = [t \in Token |-> IF ended /\ wallet[t] > 0
                                                    THEN Holding(t) ELSE 0]]
    /\ ResKeeps /\ UNCHANGED <<holdings, settlements>>

\* The request fails: a warning, and the pass is over.
ResSweepFails ==
    /\ res.at = "sweep"
    /\ res' = ResStart
    /\ ResKeeps /\ UNCHANGED <<holdings, settlements>>

\* _prior_settlement of the next one.
ResReadsPrior ==
    /\ res.at = "prior"
    /\ \E t \in Token :
         /\ res.rows[t] > 0
         /\ res' = [res EXCEPT !.token = t, !.scoped = TRUE,
                               !.at = IF bySettle[t] \notin {NoRow, res.rows[t]}
                                      THEN "correct" ELSE "find"]
    /\ ResKeeps /\ UNCHANGED <<holdings, settlements>>

ResSwept ==
    /\ res.at = "prior"
    /\ \A t \in Token : res.rows[t] = 0
    /\ res' = ResStart
    /\ ResKeeps /\ UNCHANGED <<holdings, settlements>>

\* The booked value disagrees with the venue's: it is overwritten.
ResCorrects ==
    /\ res.at = "correct"
    /\ bySettle' = [bySettle EXCEPT ![res.token] = res.rows[res.token]]
    /\ res' = [res EXCEPT !.at = "find"]
    /\ ResKeeps /\ UNCHANGED <<holdings, accrued, missed>>

\* One settlement is over.
ResGoesOn ==
    res' = IF res.scoped
           THEN [ResStart EXCEPT !.at = "prior", !.rows = [res.rows EXCEPT ![res.token] = 0]]
           ELSE [ResStart EXCEPT !.at = "sweep"]

\* _settle_position finds the leg: a portfolio row, else the largest cost basis.
ResScope == IF res.scoped THEN {res.token} ELSE Token

\* Mutant: only the portfolio is looked at.
Found_Portfolio(t) == t \in ResScope /\ portfolio[t] > 0

Found(t) ==
    /\ t \in ResScope
    /\ \/ portfolio[t] > 0
       \/ /\ \A u \in ResScope : portfolio[u] = 0 /\ basis[u] <= basis[t]
          /\ basis[t] > 0

ResFinds ==
    /\ res.at = "find"
    /\ \E t \in Token :
         /\ Found(t)
         /\ res' = [res EXCEPT !.at = "check", !.token = t, !.qty = Holding(t)]
    /\ ResKeeps /\ UNCHANGED <<holdings, settlements>>

ResFindsNothing ==
    /\ res.at = "find"
    /\ \A t \in Token : ~Found(t)
    /\ ResGoesOn
    /\ ResKeeps /\ UNCHANGED <<holdings, settlements>>

\* Mutant: settled is what has no row left.
Prior_Row(t) == portfolio[t] = 0 /\ basis[t] = 0

\* Is the leg on the ledger already?
Prior(t) == bySettle[t] # NoRow

ResChecks ==
    /\ res.at = "check"
    /\ res' = [res EXCEPT !.known = Prior(res.token),
                          !.at = IF Prior(res.token) THEN "clean" ELSE "book"]
    /\ ResKeeps /\ UNCHANGED <<holdings, settlements>>

\* record_ledger_event, before the transaction.
ResBooks ==
    /\ res.at = "book"
    /\ bySettle' = [bySettle EXCEPT ![res.token] = IF @ = NoRow THEN res.qty ELSE @]
    /\ res' = [res EXCEPT !.at = "clean"]
    /\ ResKeeps /\ UNCHANGED <<holdings, accrued, missed>>

\* It raises, which record_ledger_event logs and swallows: the settlement goes on.
ResBookFails ==
    /\ res.at = "book"
    /\ missed' = [missed EXCEPT ![res.token] = @ + 1]
    /\ res' = [res EXCEPT !.at = "clean"]
    /\ ResRaises /\ UNCHANGED <<holdings, bySettle, accrued>>

\* The running totals, unless the leg was booked before, ...
Counted == [accrued EXCEPT ![res.token] = IF res.known THEN @ ELSE @ + 1]

\* ... and the cleanup, in one transaction.
Emptied(holding) == [holding EXCEPT ![res.token] = 0]

ResCleans ==
    /\ res.at = "clean"
    /\ accrued' = Counted
    /\ basis' = Emptied(basis)
    /\ portfolio' = Emptied(portfolio)
    /\ ResGoesOn
    /\ ResKeeps /\ UNCHANGED <<bySettle, missed>>

\* The statement on daily_stats raises, or the one on the cost basis: it is logged,
\* and the transaction goes on without it.
ResCleanSkips ==
    /\ res.at = "clean"
    /\ \/ accrued' = accrued /\ basis' = Emptied(basis)
       \/ accrued' = Counted /\ basis' = basis
    /\ portfolio' = Emptied(portfolio)
    /\ ResGoesOn
    /\ ResRaises /\ UNCHANGED <<bySettle, missed>>

\* The transaction raises: the detected market is left for the next pass, and
\* the venue sweep is over.
ResCleanFails ==
    /\ res.at = "clean"
    /\ res' = IF res.scoped THEN ResStart ELSE [ResStart EXCEPT !.at = "sweep"]
    /\ ResRaises /\ UNCHANGED <<holdings, settlements>>

-----------------------------------------------------------------------------
\* The process dies and starts again: its tasks are lost, its tables are not.
Crash ==
    /\ crashes < scene.crashes
    /\ crashes' = crashes + 1
    /\ rec' = [o \in Orders |-> "idle"]
    /\ owed' = [o \in Orders |-> 0]
    /\ pos' = PosStart
    /\ mon' = MonStart
    /\ res' = ResStart
    /\ UNCHANGED <<venue, fills, holdings, ledger, cursor, faults, scene>>

Venue ==
    \/ \E x \in Trades : VenueTrades(x)
    \/ VenueEnds
    \/ VenueConfirms

RecSteps(o) == RecCommits(o) \/ RecRaises(o) \/ RecBooks(o) \/ RecBookFails(o)

PosSteps ==
    /\ "pos" \in scene.tasks
    /\ \/ PosFetchesTrades \/ PosSweepFails \/ PosLooks \/ PosBooks \/ PosBookFails
       \/ PosAccrues \/ PosAccrueFails \/ PosSwept
       \/ PosFetchesWallet \/ PosMirrorFails \/ PosReadsKeys \/ PosMissesKeys \/ PosWrites

MonSteps ==
    /\ "mon" \in scene.tasks
    /\ MonReads \/ MonFetchesWallet \/ MonReadsKeys \/ MonMissesKeys \/ MonWrites

ResSteps ==
    /\ "res" \in scene.tasks
    /\ \/ ResDetects \/ ResMisses \/ ResSweeps \/ ResSweepFails \/ ResReadsPrior \/ ResSwept
       \/ ResCorrects \/ ResFinds \/ ResFindsNothing \/ ResChecks \/ ResBooks
       \/ ResBookFails \/ ResCleans \/ ResCleanSkips \/ ResCleanFails

Next ==
    \/ Venue
    \/ \E o \in Orders : RecChecks(o) \/ RecSteps(o)
    \/ PosSteps
    \/ MonSteps
    \/ ResSteps
    \/ Crash

Spec == Init /\ [][Next]_vars

\* The event loop runs what is ready, each task comes round after its interval,
\* and a venue that is asked again and again answers again and again.  Nothing
\* makes the monitor record a fill: it may have dropped the order.
FairSpec ==
    /\ Spec
    /\ \A o \in Orders : WF_vars(RecSteps(o))
    /\ WF_vars(PosSteps)
    /\ SF_vars(PosSteps /\ PosFetchesWallet)
    /\ WF_vars(MonSteps)
    /\ WF_vars(ResSteps)
    /\ SF_vars(ResSteps /\ ResSweeps)

-----------------------------------------------------------------------------
\* record_fill is replayed after a restart or a time-out, and its look-up is not
\* in its transaction: a fill is still applied once.
RecordedOnce == \A o \in Orders : fills[o] <= 1

\* A trade of the operator's is added to daily_stats, which has no key, in a
\* transaction of its own after its ledger row: wherever the process dies and
\* whichever statement raises, once at most, and never without the row.
TalliedOnce ==
    \A x \in Trades : /\ tallied[x] <= 1
                      /\ tallied[x] = 1 => byTrade[x] # NoRow

\* A settlement is added to running totals that have no key either, after a
\* ledger write whose failure is swallowed: whatever resurrects the leg and
\* wherever the process dies, they count it once for its ledger row and at most
\* once more for each write that failed.
AccruedOnce ==
    \A t \in Token :
        accrued[t] <= missed[t] + (IF bySettle[t] = NoRow THEN 0 ELSE 1)

\* The mirror overwrites sizes that record_fill is changing, from a wallet read
\* earlier: once trading is over the books agree with the venue's list for good,
\* but for the legs the ledger has settled.
HoldingsConverge ==
    "pos" \in scene.tasks =>
        <>[](\A t \in Token : bySettle[t] = NoRow => basis[t] = Listed(t))

\* A settled leg is brought back by whoever read the keys before it settled, or
\* by a fill recorded late; none of them can do so for ever.
SettledStaysGone ==
    "res" \in scene.tasks =>
        <>[](\A t \in Token : bySettle[t] # NoRow => basis[t] = 0 /\ portfolio[t] = 0)

\* A leg the wallet holds when the market ends is settled, whatever was lost of
\* its fill, as long as the oracle has not confirmed it: from then on the mirror
\* deletes the leg, settled or not.
HeldLegsSettle ==
    {"pos", "res"} \subseteq scene.tasks =>
        \A t \in Token : (ended /\ wallet[t] > 0) ~> (bySettle[t] # NoRow \/ redeemable)

\* The sweep takes a sale for the operator's when its fill is not recorded yet:
\* manual_trades.py says its predicate errs the other way, because a false
\* "manual" would book the sale twice.
NoSaleBookedTwice ==
    \A o \in Orders : ~(/\ bySell[o] \notin {NoRow, 0}
                        /\ byTrade[o] \notin {NoRow, 0})
=============================================================================
