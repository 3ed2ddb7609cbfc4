------------------------------ MODULE MarketMaker ------------------------------
(***************************************************************************)
(* Live quoting of one market: the market maker's task (_task_market_maker,*)
(* run_cycle, check_fills) and the gateway it posts and cancels through.   *)
(* The order monitor, which finds again and reaps what the maker loses     *)
(* sight of, is in LiveOrders; here it may cancel any order that rests.    *)
(*                                                                         *)
(* A pair is one two-sided quote: a bid (BUY YES) and an ask (BUY NO) of   *)
(* one size.  What form_coupled_quote may offer is in QuoteFormation: here *)
(* a size is anything the inventory the maker counts leaves room for.      *)
(* Each of the awaits may be abandoned by the watchdog (wait_for), while   *)
(* the request it waited on goes on to the venue; such mishaps are counted.*)
(***************************************************************************)
EXTENDS Integers, FiniteSets
LOCAL Sets == INSTANCE FiniteSetsExt

CONSTANTS
    MaxInventory,  \* max_inventory
    Pairs,         \* how many quotes the maker posts (bound of the model)
    Mishaps        \* how many lost answers, timeouts and restarts (bound of the model)

ASSUME MakerAssumption ==
    /\ MaxInventory \in Nat \ {0}
    /\ Pairs \in Nat /\ Mishaps \in Nat

Sides == {"bid", "ask"}
Quote == Sides \X (1 .. Pairs)

VARIABLES
    leg,        \* each order: where it is on the venue, and its size
    active,     \* _active_quotes: the pair that is quoted, 0 for none
    polled,     \* _pending_orders: the orders check_fills polls
    inventory,  \* _inventory: net YES tokens, as counted
    maker,      \* where the task is, and its locals
    posted,     \* how many pairs have been posted
    mishaps     \* how many mishaps there were

books == <<active, polled, inventory>>
makerVars == <<leg, books, maker, posted, mishaps>>

-----------------------------------------------------------------------------
Absolute(n) == IF n < 0 THEN -n ELSE n

Both(pair) == Sides \X {pair}

\* The task's locals: the pair it cancels or has quoted, the legs still to be cancelled,
\* those that were accepted, the orders left to poll and the ones seen to have ended.
Awake(at) == [at |-> at, pair |-> 0, todo |-> {}, live |-> {}, left |-> {}, ended |-> {}]
Asleep == Awake("asleep")

Rests(o) == leg[o].at = "resting"

Filled(o) == leg[o].at = "filled"

\* What the quotes have filled on a side.
Bought(side) == Sets!MapThenSumSet(LAMBDA o : leg[o].size, {o \in Quote : o[1] = side /\ Filled(o)})

MakerInit ==
    /\ leg = [o \in Quote |-> [at |-> "unsent", size |-> 0]]
    /\ polled = {}
    /\ active = 0 /\ inventory = 0
    /\ maker = Asleep
    /\ posted = 0 /\ mishaps = 0

Mishap == mishaps < Mishaps /\ mishaps' = mishaps + 1

-----------------------------------------------------------------------------
(* run_cycle: the quote.                                                   *)

\* _cancel_stale_quotes: the quote is older than two refreshes.
CancelsStale ==
    /\ maker.at = "asleep" /\ active # 0
    /\ active' = 0
    /\ maker' = [Awake("stale") EXCEPT !.todo = Both(active)]
    /\ UNCHANGED <<leg, polled, inventory, posted, mishaps>>

\* The market is no candidate, its book is empty, or no quote is to be had.
QuotesNothing ==
    /\ maker.at \in {"asleep", "quotes"}
    /\ maker' = [Awake("fills") EXCEPT !.left = polled]
    /\ UNCHANGED <<leg, books, posted, mishaps>>

\* reconcile_quote answers KEEP.
KeepsQuote ==
    /\ maker.at = "asleep"
    /\ active # 0 /\ Both(active) \subseteq polled
    /\ leg[<<"bid", active>>].size <= MaxInventory - Absolute(inventory)
    /\ maker' = [Awake("fills") EXCEPT !.left = polled]
    /\ UNCHANGED <<leg, books, posted, mishaps>>

\* The legs to cancel before a new pair is posted.
Prior == IF active = 0 THEN {} ELSE Both(active)

\* A quote is formed of the inventory as counted; the one before it is cancelled first.
FormsPair ==
    /\ maker.at \in {"asleep", "quotes"} /\ posted < Pairs
    /\ \E size \in 1 .. MaxInventory - Absolute(inventory) :
         leg' = [o \in Quote |-> IF o[2] = posted + 1 THEN [leg[o] EXCEPT !.size = size] ELSE leg[o]]
    /\ posted' = posted + 1
    /\ active' = 0
    /\ maker' = [Awake("replaces") EXCEPT !.pair = posted + 1, !.todo = Prior]
    /\ UNCHANGED <<polled, inventory, mishaps>>

-----------------------------------------------------------------------------
(* cancel_resting, for each leg of a quote.                                *)

\* What the venue does: an order that has ended stays as it ended.
Cancelled(o) == IF Rests(o) THEN [leg EXCEPT ![o].at = "cancelled"] ELSE leg

\* What the task cancels now: the bid before the ask.
NextToCancel(o) ==
    /\ maker.at \in {"stale", "replaces", "survivor"}
    /\ o \in maker.todo
    /\ o[1] = "bid" \/ <<"bid", o[2]>> \notin maker.todo

\* Once the last leg was cancelled, or was not: _pending_orders forgets them both.
CancelEnds(o) ==
    LET last == maker.todo = {o}
    IN  /\ polled' = IF last THEN polled \ Both(o[2]) ELSE polled
        /\ maker' =
             IF ~last THEN [maker EXCEPT !.todo = @ \ {o}]
             ELSE CASE maker.at = "stale" -> Awake("quotes")
                    [] maker.at = "replaces" -> [maker EXCEPT !.todo = {}, !.at = "posts"]
                    [] maker.at = "survivor" -> [Awake("fills") EXCEPT !.left = polled']

LegCancelled(o) ==
    /\ NextToCancel(o) /\ CancelEnds(o)
    /\ leg' = Cancelled(o)
    /\ UNCHANGED <<active, inventory, posted, mishaps>>

\* The venue declines, or the answer is lost: reported, and the task goes on.
LegCancelLost(o) ==
    /\ NextToCancel(o) /\ Mishap /\ CancelEnds(o)
    /\ leg' \in {leg, Cancelled(o)}
    /\ UNCHANGED <<active, inventory, posted>>

\* Nothing was quoted before.
NothingToCancel ==
    /\ maker.at = "replaces" /\ maker.todo = {}
    /\ maker' = [maker EXCEPT !.at = "posts"]
    /\ UNCHANGED <<leg, books, posted, mishaps>>

-----------------------------------------------------------------------------
(* place_quote_pair: bid, then ask.                                        *)

\* The leg the task posts now.
Posting == IF leg[<<"bid", maker.pair>>].at = "unsent" THEN "bid" ELSE "ask"

NextToPost(o) == maker.at = "posts" /\ o = <<Posting, maker.pair>>
Awaited(o) == maker.at = "answer" /\ o \in maker.todo

LegSent(o) ==
    /\ NextToPost(o)
    /\ leg' = [leg EXCEPT ![o].at = "sent"]
    /\ maker' = [maker EXCEPT !.at = "answer", !.todo = {o}]
    /\ UNCHANGED <<books, posted, mishaps>>

\* Mutant: the order that rests alone is left to rest.
Survivor_Left(live) == {}

\* The legs that rest although their twin was refused.
Survivor(live) == IF Cardinality(live) = 1 THEN live ELSE {}

\* _place_two_sided, with the leg's answer: after the bid the ask is posted; after
\* the ask the pair is quoted, or its survivor cancelled, or nothing rests.
PostEnds(o, live) ==
    IF o[1] = "bid"
    THEN /\ maker' = [maker EXCEPT !.at = "posts", !.todo = {}, !.live = live]
         /\ UNCHANGED <<active, polled>>
    ELSE /\ active' = IF live = Both(o[2]) THEN o[2] ELSE active
         /\ polled' = IF live = Both(o[2]) \/ Survivor(live) # {} THEN polled \cup live ELSE polled
         /\ maker' = IF Survivor(live) # {}
                     THEN [Awake("survivor") EXCEPT !.todo = Survivor(live)]
                     ELSE [Awake("fills") EXCEPT !.left = polled']

\* place_order answers "pending": the order reached the book, whatever became of it.
LegPosted(o) ==
    /\ Awaited(o) /\ leg[o].at # "sent"
    /\ PostEnds(o, maker.live \cup {o})
    /\ UNCHANGED <<leg, inventory, posted, mishaps>>

\* Refused: post-only, balance, a halt, a guard.
LegRefused(o) ==
    /\ Awaited(o) /\ leg[o].at = "sent"
    /\ leg' = [leg EXCEPT ![o].at = "refused"]
    /\ PostEnds(o, maker.live)
    /\ UNCHANGED <<inventory, posted, mishaps>>

\* "rejected" for an order that reached the book, or may yet.
LegLost(o) ==
    /\ Awaited(o) /\ Mishap
    /\ PostEnds(o, maker.live)
    /\ UNCHANGED <<leg, inventory, posted>>

-----------------------------------------------------------------------------
(* check_fills.                                                            *)

\* _update_inventory.
Tallied(o) == IF o[1] = "bid" THEN inventory + leg[o].size ELSE inventory - leg[o].size

\* Mutant: a fill is counted on every poll.
Ended_Cancelled(o) == leg[o].at = "cancelled"

\* The status for which the order is polled no longer.
Ended(o) == leg[o].at \in {"filled", "cancelled"}

\* The orders are polled as they were added: pair by pair, the bid before the ask.
NextToPoll(o) ==
    /\ maker.at = "fills" /\ o \in maker.left
    /\ \A other \in maker.left : o[2] <= other[2]
    /\ o[1] = "bid" \/ <<"bid", o[2]>> \notin maker.left

PollsLeg(o) ==
    /\ NextToPoll(o)
    /\ inventory' = IF Filled(o) THEN Tallied(o) ELSE inventory
    /\ maker' = [maker EXCEPT !.left = @ \ {o}, !.ended = IF Ended(o) THEN @ \cup {o} ELSE @]
    /\ UNCHANGED <<leg, active, polled, posted, mishaps>>

PollFails(o) ==
    /\ NextToPoll(o)
    /\ maker' = [maker EXCEPT !.left = @ \ {o}]
    /\ UNCHANGED <<leg, books, posted, mishaps>>

FillsChecked ==
    /\ maker.at = "fills" /\ maker.left = {}
    /\ polled' = polled \ maker.ended
    /\ maker' = Asleep
    /\ UNCHANGED <<leg, active, inventory, posted, mishaps>>

-----------------------------------------------------------------------------
(* The watchdog, and a restart.                                            *)

\* wait_for abandons the operation at its await; what it would have done is not done.
Abandons ==
    /\ maker.at # "asleep" /\ Mishap
    /\ maker' = CASE maker.at = "stale" -> Awake("quotes")
                  [] maker.at = "fills" -> Asleep
                  [] OTHER -> [Awake("fills") EXCEPT !.left = polled]
    /\ UNCHANGED <<leg, books, posted>>

MakerRestart ==
    /\ Mishap
    /\ active' = 0 /\ inventory' = 0
    /\ polled' = {}
    /\ maker' = Asleep
    /\ UNCHANGED <<leg, posted>>

-----------------------------------------------------------------------------
(* The venue.                                                              *)

QuoteLands(o) ==
    /\ leg[o].at = "sent"
    /\ leg' = [leg EXCEPT ![o].at = "resting"]
    /\ UNCHANGED <<books, maker, posted, mishaps>>

\* In full: what of an order has matched when it is cancelled is counted nowhere.
QuoteMatches(o) ==
    /\ Rests(o)
    /\ leg' = [leg EXCEPT ![o].at = "filled"]
    /\ UNCHANGED <<books, maker, posted, mishaps>>

-----------------------------------------------------------------------------
(* The order monitor.                                                      *)

\* The order's TTL is over; one that nobody tracks is adopted first (LiveOrders).
MonitorReaps(o) ==
    /\ Rests(o)
    /\ leg' = Cancelled(o)
    /\ UNCHANGED <<books, maker, posted, mishaps>>

-----------------------------------------------------------------------------
MakerStep ==
    \/ CancelsStale \/ QuotesNothing \/ KeepsQuote \/ FormsPair \/ NothingToCancel
    \/ FillsChecked \/ Abandons \/ MakerRestart
    \/ \E o \in Quote :
         \/ LegCancelled(o) \/ LegCancelLost(o)
         \/ LegSent(o) \/ LegPosted(o) \/ LegRefused(o) \/ LegLost(o)
         \/ PollsLeg(o) \/ PollFails(o)

MakerNext ==
    \/ MakerStep
    \/ \E o \in Quote : QuoteLands(o) \/ QuoteMatches(o) \/ MonitorReaps(o)

MakerSpec == MakerInit /\ [][MakerNext]_makerVars

-----------------------------------------------------------------------------
(* Properties.                                                             *)

MakerTypeOK ==
    /\ leg \in [Quote -> [at : {"unsent", "sent", "refused", "resting", "filled", "cancelled"},
                          size : 0 .. MaxInventory]]
    /\ polled \subseteq Quote
    /\ active \in 0 .. posted /\ posted \in 0 .. Pairs /\ mishaps \in 0 .. Mishaps
    /\ inventory \in Int

\* "Leaving it here is how duplicates stack": as often as the quote is refreshed, refused
\* in part, abandoned or forgotten, a side of the book holds one order of the maker's,
\* and one more for each time an answer, a cancel or the process was lost.
QuotesDoNotStack ==
    \A side \in Sides :
        Cardinality({n \in 1 .. Pairs : Rests(<<side, n>>)}) <= 1 + mishaps

\* Without mishaps, the inventory as counted stays within its capacity: a leg is counted
\* once, and the quote it belongs to was sized for what had been counted before it.
TrackedWithinCapacity == mishaps = 0 => Absolute(inventory) <= MaxInventory

\* max_inventory, "max directional exposure per market": without mishaps, what the
\* quotes have filled on the one side exceeds the other by no more.
ExposureWithinCapacity == mishaps = 0 => Absolute(Bought("bid") - Bought("ask")) <= MaxInventory
=============================================================================
