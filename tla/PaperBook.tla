-------------------------------- MODULE PaperBook --------------------------------
(***************************************************************************)
(* The paper wallet (exchange/paper.py): entries that fill at once, those  *)
(* that rest until the market trades through them, and the order monitor's *)
(* cycle that fills, books and expires them.  The wallet has no balance of *)
(* its own: what may be spent is computed from the books, and an order     *)
(* that was granted gets there only with record_fill.                      *)
(*                                                                         *)
(* Entries only, and no profit: a position ends for what it cost.          *)
(***************************************************************************)
EXTENDS Integers, FiniteSets

CONSTANTS
    PaperOrder,     \* paper BUYs
    PaperCash,      \* initial_balance
    Costs(_)        \* the cost of a set of them

ASSUME PaperAssumption ==
    /\ PaperCash \in Nat
    /\ \A S \in SUBSET PaperOrder : Costs(S) \in Nat
    /\ \A S, T \in SUBSET PaperOrder :
         S \cap T = {} => Costs(S \cup T) = Costs(S) + Costs(T)

VARIABLES
    paper,      \* where each order is
    monitor,    \* what the order monitor does with the paper book
    walk,       \* the orders check_fills has yet to look at
    traded,     \* the fills it has to book
    late        \* ghost: granted while another order was granted and not booked

paperVars == <<paper, monitor, walk, traded, late>>

InPlace(place) == {o \in PaperOrder : paper[o] = place}

PaperInit ==
    /\ paper = [o \in PaperOrder |-> "new"]
    /\ monitor = "idle"
    /\ walk = {} /\ traded = {}
    /\ late = {}

Moves(o, place) == paper' = [paper EXCEPT ![o] = place]

-----------------------------------------------------------------------------
(* PaperTrader.execute.                                                    *)

\* _compute_balance covers the order's cost.
Affordable(o) == Costs(InPlace("held")) + Costs({o}) <= PaperCash

Granted(o) ==
    /\ Moves(o, "granted")
    /\ late' = IF InPlace("granted") = {} THEN late ELSE late \cup {o}

\* Not marketable: queued; a walk under way comes to it, too.
PaperRests(o) ==
    /\ paper[o] = "new"
    /\ Moves(o, "queued")
    /\ walk' = IF monitor = "walks" THEN walk \cup {o} ELSE walk
    /\ UNCHANGED <<monitor, traded, late>>

PaperExecutes(o) ==
    /\ paper[o] = "new" /\ Affordable(o)
    /\ Granted(o)
    /\ UNCHANGED <<monitor, walk, traded>>

PaperRefuses(o) ==
    /\ paper[o] = "new" /\ ~Affordable(o)
    /\ Moves(o, "closed")
    /\ UNCHANGED <<monitor, walk, traded, late>>

\* The gateway books what filled at once; a fill it cannot book is lost.
PaperBooked(o) ==
    /\ paper[o] = "granted" /\ o \notin traded
    /\ Moves(o, "held") \/ Moves(o, "closed")
    /\ UNCHANGED <<monitor, walk, traded, late>>

-----------------------------------------------------------------------------
(* The order monitor: check_fills, the booking of what it found,           *)
(* cancel_expired.                                                         *)

WalkStarts ==
    /\ monitor = "idle" /\ InPlace("queued") # {}
    /\ monitor' = "walks"
    /\ walk' = InPlace("queued")
    /\ UNCHANGED <<paper, traded, late>>

\* Without a price, or not traded through: it goes on resting.
WalkPasses(o) ==
    /\ monitor = "walks" /\ o \in walk
    /\ walk' = walk \ {o}
    /\ UNCHANGED <<paper, monitor, traded, late>>

\* Mutant: force stamps a refusal "filled".
TradeThrough_Forced(o) == TRUE

\* force skips the question whether the order is marketable, not the balance.
TradeThrough(o) == Affordable(o)

WalkFills(o) ==
    /\ monitor = "walks" /\ o \in walk
    /\ TradeThrough(o)
    /\ Granted(o)
    /\ walk' = walk \ {o}
    /\ traded' = traded \cup {o}
    /\ UNCHANGED monitor

WalkEnds ==
    /\ monitor = "walks" /\ walk = {}
    /\ monitor' = "books"
    /\ UNCHANGED <<paper, walk, traded, late>>

\* _record_deferred_paper_fills: a fill that cannot be booked is reported and lost.
TradedBooked(o) ==
    /\ monitor = "books" /\ o \in traded
    /\ Moves(o, "held") \/ Moves(o, "closed")
    /\ traded' = traded \ {o}
    /\ UNCHANGED <<monitor, walk, late>>

\* Whatever its age, and whether or not check_fills has seen it.
QueueExpires ==
    /\ monitor = "books" /\ traded = {}
    /\ paper' = [o \in PaperOrder |-> IF paper[o] = "queued" THEN "closed" ELSE paper[o]]
    /\ monitor' = "idle"
    /\ UNCHANGED <<walk, traded, late>>

-----------------------------------------------------------------------------
\* Sold, or settled: what it cost is free again.
PaperPositionEnds(o) ==
    /\ paper[o] = "held"
    /\ Moves(o, "closed")
    /\ UNCHANGED <<monitor, walk, traded, late>>

\* The queue and what was not booked are memory.
PaperRestart ==
    /\ paper' = [o \in PaperOrder |-> IF paper[o] \in {"queued", "granted"} THEN "closed" ELSE paper[o]]
    /\ monitor' = "idle"
    /\ walk' = {} /\ traded' = {}
    /\ UNCHANGED late

PaperNext ==
    \/ \E o \in PaperOrder :
         \/ PaperRests(o) \/ PaperExecutes(o) \/ PaperRefuses(o) \/ PaperBooked(o)
         \/ WalkPasses(o) \/ WalkFills(o) \/ TradedBooked(o) \/ PaperPositionEnds(o)
    \/ WalkStarts \/ WalkEnds \/ QueueExpires \/ PaperRestart

PaperSpec == PaperInit /\ [][PaperNext]_paperVars

-----------------------------------------------------------------------------
(* Properties.                                                             *)

PaperTypeOK ==
    /\ paper \in [PaperOrder -> {"new", "queued", "granted", "held", "closed"}]
    /\ monitor \in {"idle", "walks", "books"}
    /\ walk \subseteq InPlace("queued") /\ traded \subseteq InPlace("granted")
    /\ late \subseteq PaperOrder

\* The evidence paper trading gives is of money it had: what the positions cost stays
\* within the wallet, whether they filled at once or in the monitor's walk, but for
\* the orders that were granted while another one waited to be booked.
PaperCashKept == Costs(InPlace("held")) <= PaperCash + Costs(InPlace("held") \cap late)
=============================================================================
