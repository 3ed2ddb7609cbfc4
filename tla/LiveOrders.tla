------------------------------ MODULE LiveOrders ------------------------------
(***************************************************************************)
(* The life of live Polymarket orders: PolymarketClient (place, adopt,     *)
(* query, cancel), the gateway's placement and cancel contracts, the order *)
(* monitor's loop with its TTL reaper and orphan sweep, and the shutdown / *)
(* kill-switch sweep, over the CLOB, the in-memory _live_pending map and   *)
(* the tables trades and fills.                                            *)
(*                                                                         *)
(* All tasks share one event loop: the code between two awaits is one      *)
(* action, and every await is a point where another task may run.          *)
(***************************************************************************)
EXTENDS Integers, Sequences, FiniteSets

CONSTANTS
    Orders,      \* live orders, named by their CLOB id
    NoLeg,       \* those that trade the market's NO token
    Exits,       \* the exit sells, built without a token= argument
    Quotes,      \* market-maker quotes: placed, but never mirrored by the gateway
    Size,        \* shares in an order
    MaxCrashes,  \* bound: process crashes
    MaxHalts,    \* bound: kill-switch or shutdown sweeps
    DbFaults,    \* whether a bookkeeping statement may raise
    NoOrder      \* no order

ASSUME LiveOrdersAssumption ==
    /\ NoLeg \subseteq Orders
    /\ Exits \subseteq Orders
    /\ Quotes \subseteq Orders \ Exits
    /\ Size \in Nat \ {0}
    /\ MaxCrashes \in Nat
    /\ MaxHalts \in Nat
    /\ DbFaults \in BOOLEAN
    /\ NoOrder \notin Orders

VARIABLES
    venue,    \* the CLOB's own record of each order
    aged,     \* orders get_order no longer returns
    phase,    \* the bot process
    crashes,  \* crashes so far
    halts,    \* sweeps so far
    place,    \* the placement coroutine of each order
    pending,  \* PolymarketClient._live_pending
    rows,     \* the trades rows of each order
    fills,    \* the fills rows of each order
    mon,      \* the order monitor's coroutine
    cxl,      \* the cancel_order calls in progress
    retire    \* _cancel_resting_live_orders

vars == <<venue, aged, phase, crashes, halts, place, pending, rows, fills,
          mon, cxl, retire>>

-----------------------------------------------------------------------------
(* What the tasks pass around.                                             *)

\* The CLOB's statuses: matched in full, or expired or cancelled alike.
VenueState == {v \in [st : {"none", "open", "matched", "dead"}, matched : 0..Size] :
                 v.st = "matched" <=> v.matched = Size}
Dead(v) == [st |-> "dead", matched |-> v.matched]

\* An Order as _live_pending keeps it: the market id it names (the bot's own,
\* or the CLOB's condition hash) and its token field.
Leg(o) == IF o \in NoLeg THEN "NO" ELSE "YES"
Tracked == [market : {"own", "hash"}, token : {"YES", "NO"}]
Untracked == [market |-> "none", token |-> "none"]
Own(o) == [market |-> "own", token |-> IF o \in Exits THEN "YES" ELSE Leg(o)]
Adopted == [market |-> "hash", token |-> "YES"]

\* A trades row is written by the gateway's mirror or by the monitor's
\* fallback INSERT.
Writers == {"gateway", "monitor"}
RowStatus == {"none", "pending", "filled", "cancelled"}
Terminal == {"filled", "cancelled"}

Result == [st : {"pending", "filled", "cancelled"}, size : 0..Size]
NoResult == [st |-> "pending", size |-> 0]
Fill == [market : {"own", "hash"}, token : {"YES", "NO"}, size : 1..Size]

\* Who may have a cancel call open, for which orders, and what it came back with.
Callers == {"monitor", "gateway", "exit", "retire"}
Call == [pc : {"idle", "ack", "nak", "write"}, orders : SUBSET Orders]
NoCall == [pc |-> "idle", orders |-> {}]

\* The coroutines of the order monitor and of _cancel_resting_live_orders; pc
\* names the await each is suspended at.
InHand == {"lookup", "polled", "mirror", "drop", "reap", "expire"}
MonState ==
    {m \in [pc   : InHand \cup {"start", "adopt", "poll", "sweep", "wake"},
            todo : SUBSET Orders,                    \* orders of this pass left
            cur  : Orders \cup {NoOrder},            \* the one in hand,
            ord  : Tracked \cup {Untracked},         \* its Order as last read,
            res  : Result,                           \* and its status
            upd  : [Orders -> RowStatus \ {"none"}]] : \* the orphan sweep's batch
        m.pc \in InHand => m.cur \in Orders}
MonStart == [pc |-> "start", todo |-> {}, cur |-> NoOrder, ord |-> Untracked,
             res |-> NoResult, upd |-> [o \in Orders |-> "pending"]]
RetireState == [pc : {"idle", "next", "wait"}, todo : SUBSET Orders,
                ids : SUBSET Orders]

IsTracked(o) == pending[o] # Untracked
Running == phase = "running"                 \* self._running
Scheduled == phase \in {"running", "halted"} \* the tasks' coroutines still run

\* Mutant: the CLOB's status words are passed on unmapped.
StatusOf_Unmapped(o) == [st |-> venue[o].st, size |-> venue[o].matched]

\* PolymarketClient.get_order_status: an order the CLOB no longer indexes is
\* reported pending, with nothing matched.
StatusOf(o) ==
    IF o \in aged THEN NoResult
    ELSE [st   |-> CASE venue[o].st = "matched" -> "filled"
                     [] venue[o].st = "dead"    -> "cancelled"
                     [] OTHER                   -> "pending",
          size |-> venue[o].matched]

\* UPDATE trades SET status = st WHERE order_id IN os
Marked(os, st) ==
    [o \in Orders |-> [w \in Writers |->
        IF o \in os /\ rows[o][w] # "none" THEN st ELSE rows[o][w]]]

\* A bookkeeping statement lands, or raises and is logged.
Lands(update) == rows' = update \/ (DbFaults /\ rows' = rows)

-----------------------------------------------------------------------------
(* The venue.                                                              *)

VenueMatches(o) ==
    /\ venue[o].st = "open"
    /\ LET m == venue[o].matched + 1 IN
       venue' = [venue EXCEPT ![o] = [st |-> IF m = Size THEN "matched" ELSE "open",
                                      matched |-> m]]
    /\ UNCHANGED <<aged, phase, crashes, halts, place, pending, rows, fills,
                   mon, cxl, retire>>

\* The order expires, or its owner cancels it elsewhere.
VenueCloses(o) ==
    /\ venue[o].st = "open"
    /\ venue' = [venue EXCEPT ![o] = Dead(@)]
    /\ UNCHANGED <<aged, phase, crashes, halts, place, pending, rows, fills,
                   mon, cxl, retire>>

VenueForgets(o) ==
    /\ venue[o].st \in {"matched", "dead"}
    /\ aged' = aged \cup {o}
    /\ UNCHANGED <<venue, phase, crashes, halts, place, pending, rows, fills,
                   mon, cxl, retire>>

-----------------------------------------------------------------------------
(* Placement: PolymarketClient.place_order, then the gateway's mirror row. *)

\* The kill-switch check, before the geoblock and collateral awaits.
PlaceChecked(o) ==
    /\ Running
    /\ place[o] = "new"
    /\ place' = [place EXCEPT ![o] = "checked"]
    /\ UNCHANGED <<venue, aged, phase, crashes, halts, pending, rows, fills,
                   mon, cxl, retire>>

\* A guard refuses the order, or the CLOB does: nothing rests anywhere.
PlaceRefused(o) ==
    /\ Scheduled
    /\ place[o] = "checked"
    /\ place' = [place EXCEPT ![o] = "lost"]
    /\ UNCHANGED <<venue, aged, phase, crashes, halts, pending, rows, fills,
                   mon, cxl, retire>>

\* The order reaches the book: the client is still awaiting the answer, or has
\* given up on it while the worker thread it abandoned goes on.
Submit(o) ==
    /\ \/ /\ Scheduled
          /\ place[o] = "checked"
          /\ place' = [place EXCEPT ![o] = "sent"]
       \/ /\ place[o] = "late"
          /\ place' = [place EXCEPT ![o] = "lost"]
    /\ venue' = [venue EXCEPT ![o] = [st |-> "open", matched |-> 0]]
    /\ UNCHANGED <<aged, phase, crashes, halts, pending, rows, fills, mon,
                   cxl, retire>>

SubmitReturns(o) ==
    /\ Scheduled
    /\ place[o] = "sent"
    /\ pending' = [pending EXCEPT ![o] = Own(o)]
    /\ place' = [place EXCEPT ![o] = IF o \in Quotes THEN "done" ELSE "placed"]
    /\ UNCHANGED <<venue, aged, phase, crashes, halts, rows, fills, mon, cxl,
                   retire>>

\* The submit deadline passes, before or after the order reached the book:
\* reported as ERROR, and nothing is tracked.
SubmitTimesOut(o) ==
    /\ Scheduled
    /\ place[o] \in {"checked", "sent"}
    /\ place' = [place EXCEPT ![o] = IF @ = "sent" THEN "lost" ELSE "late"]
    /\ UNCHANGED <<venue, aged, phase, crashes, halts, pending, rows, fills,
                   mon, cxl, retire>>

\* _record_result: the pending trades-mirror.
MirrorOrder(o) ==
    /\ Scheduled
    /\ place[o] = "placed"
    /\ place' = [place EXCEPT ![o] = "done"]
    /\ Lands([rows EXCEPT ![o].gateway = "pending"])
    /\ UNCHANGED <<venue, aged, phase, crashes, halts, pending, fills, mon,
                   cxl, retire>>

-----------------------------------------------------------------------------
(* PolymarketClient.cancel_order: the CLOB acts, then the caller resumes.  *)

\* The CLOB closes the orders of os that are still open.
Closed(os) ==
    [o \in Orders |-> IF o \in os /\ venue[o].st = "open"
                      THEN Dead(venue[o]) ELSE venue[o]]

Answer(c, os, pc) == cxl' = [cxl EXCEPT ![c] = [pc |-> pc, orders |-> os]]

\* Mutant: an exception is reported as success.
CancelSent_ErrorIsSuccess(c, o) ==
    /\ venue' \in {venue, Closed({o})}
    /\ Answer(c, {o}, "ack")

\* Every refusal that means "already over" is acknowledged like a cancel; any
\* other refusal is not, nor is an exception before or after the CLOB acted.
CancelSent(c, o) ==
    \/ /\ venue' = Closed({o})
       /\ \E pc \in {"ack", "nak"} : Answer(c, {o}, pc)
    \/ /\ venue' = venue
       /\ Answer(c, {o}, "nak")

Dropped(os) == [o \in Orders |-> IF o \in os THEN Untracked ELSE pending[o]]

\* cancel_resting: a quote refresh, or the unwind of a paired leg.
GatewayCancels(o) ==
    /\ Scheduled
    /\ cxl.gateway = NoCall
    /\ place[o] = "done"
    /\ o \notin Exits
    /\ CancelSent("gateway", o)
    /\ UNCHANGED <<aged, phase, crashes, halts, place, pending, rows, fills,
                   mon, retire>>

GatewayCancelReturns ==
    /\ Scheduled
    /\ \/ /\ cxl.gateway.pc = "ack"
          /\ pending' = Dropped(cxl.gateway.orders)
          /\ Answer("gateway", cxl.gateway.orders, "write")
       \/ /\ cxl.gateway.pc = "nak"
          /\ pending' = pending
          /\ cxl' = [cxl EXCEPT !.gateway = NoCall]
    /\ UNCHANGED <<venue, aged, phase, crashes, halts, place, rows, fills,
                   mon, retire>>

\* _mark_cancelled: only rows that are still pending.
GatewayMarksCancelled ==
    /\ Scheduled
    /\ cxl.gateway.pc = "write"
    /\ Lands([o \in Orders |-> [w \in Writers |->
                 IF o \in cxl.gateway.orders /\ rows[o][w] = "pending"
                 THEN "cancelled" ELSE rows[o][w]]])
    /\ cxl' = [cxl EXCEPT !.gateway = NoCall]
    /\ UNCHANGED <<venue, aged, phase, crashes, halts, place, pending, fills,
                   mon, retire>>

\* cancel_open_orders_for_token, before a new exit sell: the orders it closed
\* leave _live_pending, and their rows are left alone.
ExitClearsToken(leg) ==
    LET os == {o \in Orders : Leg(o) = leg /\ venue[o].st = "open"} IN
    /\ Running
    /\ cxl.exit = NoCall
    /\ os # {}
    /\ venue' = Closed(os)
    /\ \E pc \in {"ack", "nak"} : Answer("exit", os, pc)
    /\ UNCHANGED <<aged, phase, crashes, halts, place, pending, rows, fills,
                   mon, retire>>

ExitClearReturns ==
    /\ Scheduled
    /\ cxl.exit # NoCall
    /\ pending' = IF cxl.exit.pc = "ack" THEN Dropped(cxl.exit.orders) ELSE pending
    /\ cxl' = [cxl EXCEPT !.exit = NoCall]
    /\ UNCHANGED <<venue, aged, phase, crashes, halts, place, rows, fills,
                   mon, retire>>

-----------------------------------------------------------------------------
(* The order monitor.                                                      *)

Goto(pc) == mon' = [mon EXCEPT !.pc = pc]

\* Mutant: orphans are pulled in at startup only.
MonitorReconciles_StartupOnly ==
    /\ Running
    /\ mon.pc = "start"
    /\ mon' = [mon EXCEPT !.pc = "adopt",
                          !.todo = {o \in Orders : venue[o].st = "open"}]
    /\ UNCHANGED <<venue, aged, phase, crashes, halts, place, pending, rows,
                   fills, cxl, retire>>

\* reconcile_open_orders: the CLOB's open orders as they are now.  It runs at
\* startup, then on every tenth cycle; a failed query adopts nothing.
MonitorReconciles ==
    /\ Running
    /\ mon.pc \in {"start", "wake"}
    /\ mon' = [mon EXCEPT !.pc = "adopt",
                          !.todo = {o \in Orders : venue[o].st = "open"}]
    /\ UNCHANGED <<venue, aged, phase, crashes, halts, place, pending, rows,
                   fills, cxl, retire>>

MonitorSkipsReconcile ==
    /\ Running
    /\ mon.pc \in {"start", "wake"}
    /\ Goto("adopt")
    /\ UNCHANGED <<venue, aged, phase, crashes, halts, place, pending, rows,
                   fills, cxl, retire>>

\* An order not yet tracked is looked up in trades; ...
AdoptLooksUp(o) ==
    /\ Scheduled
    /\ mon.pc = "adopt"
    /\ o \in mon.todo
    /\ mon' = IF IsTracked(o)
              THEN [mon EXCEPT !.todo = @ \ {o}]
              ELSE [mon EXCEPT !.pc = "lookup", !.cur = o, !.todo = @ \ {o}]
    /\ UNCHANGED <<venue, aged, phase, crashes, halts, place, pending, rows,
                   fills, cxl, retire>>

\* ... and, after that await, tracked from what the CLOB said of it.
Adopts ==
    /\ Scheduled
    /\ mon.pc = "lookup"
    /\ pending' = [pending EXCEPT ![mon.cur] = Adopted]
    /\ Goto("adopt")
    /\ UNCHANGED <<venue, aged, phase, crashes, halts, place, rows, fills, cxl,
                   retire>>

\* One pass over list(pending.keys()).
MonitorLists ==
    /\ Scheduled
    /\ mon.pc = "adopt"
    /\ mon.todo = {}
    /\ mon' = [mon EXCEPT !.pc = "poll", !.todo = {o \in Orders : IsTracked(o)},
                          !.cur = NoOrder]
    /\ UNCHANGED <<venue, aged, phase, crashes, halts, place, pending, rows,
                   fills, cxl, retire>>

\* The tracked Order is taken now and used after the await; an order that
\* another task dropped meanwhile is still asked about.
MonitorPolls(o) ==
    /\ Scheduled
    /\ mon.pc = "poll"
    /\ o \in mon.todo
    /\ mon' = [mon EXCEPT !.pc = "polled", !.cur = o, !.todo = @ \ {o},
                          !.ord = pending[o], !.res = StatusOf(o)]
    /\ UNCHANGED <<venue, aged, phase, crashes, halts, place, pending, rows,
                   fills, cxl, retire>>

MonitorPollFails(o) ==
    /\ Scheduled
    /\ mon.pc = "poll"
    /\ o \in mon.todo
    /\ mon' = [mon EXCEPT !.todo = @ \ {o}]
    /\ UNCHANGED <<venue, aged, phase, crashes, halts, place, pending, rows,
                   fills, cxl, retire>>

\* Mutant: any terminal status books, falling back to the order's size.
FillOf_OrderSize(res, ord) ==
    IF res.st \in Terminal /\ ord # Untracked
    THEN {[market |-> ord.market, token |-> ord.token,
           size |-> IF res.size > 0 THEN res.size ELSE Size]}
    ELSE {}

\* booked_as_position decides whether a result is an execution at all; what the
\* monitor books of it, under the market and token of the tracked Order.
FillOf(res, ord) ==
    IF res.st = "filled" /\ res.size > 0 /\ ord # Untracked
    THEN {[market |-> ord.market, token |-> ord.token, size |-> res.size]}
    ELSE {}

\* PnLTracker.record_fill: the order id is the idempotency key.
Recorded(o, fill) ==
    IF fills[o] = <<>> THEN [fills EXCEPT ![o] = <<fill>>] ELSE fills

\* The status is terminal: the fill first, ...
MonitorBooks ==
    /\ Scheduled
    /\ mon.pc = "polled"
    /\ mon.res.st \in Terminal
    /\ \/ \E fill \in FillOf(mon.res, mon.ord) : fills' = Recorded(mon.cur, fill)
       \/ (DbFaults \/ FillOf(mon.res, mon.ord) = {}) /\ fills' = fills
    /\ Goto("mirror")
    /\ UNCHANGED <<venue, aged, phase, crashes, halts, place, pending, rows,
                   cxl, retire>>

\* ... then the trades rows, with a fallback row for an execution nobody
\* mirrored, ...
MonitorMirrors ==
    LET o == mon.cur
        status == mon.res.st IN
    /\ Scheduled
    /\ mon.pc = "mirror"
    /\ IF mon.ord = Untracked
       THEN rows' = rows
       ELSE Lands(IF status = "filled" /\ \A w \in Writers : rows[o][w] = "none"
                  THEN [rows EXCEPT ![o].monitor = "filled"]
                  ELSE Marked({o}, status))
    /\ Goto("drop")
    /\ UNCHANGED <<venue, aged, phase, crashes, halts, place, pending, fills,
                   cxl, retire>>

\* ... and only then does the order leave _live_pending.
MonitorDrops ==
    /\ Scheduled
    /\ mon.pc = "drop"
    /\ pending' = Dropped({mon.cur})
    /\ Goto("poll")
    /\ UNCHANGED <<venue, aged, phase, crashes, halts, place, rows, fills, cxl,
                   retire>>

\* The order still rests and is younger than the TTL, or is gone from the map.
MonitorKeeps ==
    /\ Scheduled
    /\ mon.pc = "polled"
    /\ mon.res.st = "pending"
    /\ Goto("poll")
    /\ UNCHANGED <<venue, aged, phase, crashes, halts, place, pending, rows,
                   fills, cxl, retire>>

\* The order has outlived limit_order_ttl_seconds.
MonitorReaps ==
    /\ Scheduled
    /\ mon.pc = "polled"
    /\ mon.res.st = "pending"
    /\ mon.ord # Untracked
    /\ CancelSent("monitor", mon.cur)
    /\ Goto("reap")
    /\ UNCHANGED <<aged, phase, crashes, halts, place, pending, rows, fills,
                   retire>>

MonitorReapReturns ==
    /\ Scheduled
    /\ mon.pc = "reap"
    /\ \/ /\ cxl.monitor.pc = "ack"
          /\ pending' = Dropped({mon.cur})
          /\ Goto("expire")
       \/ /\ cxl.monitor.pc = "nak"
          /\ pending' = pending
          /\ Goto("poll")
    /\ cxl' = [cxl EXCEPT !.monitor = NoCall]
    /\ UNCHANGED <<venue, aged, phase, crashes, halts, place, rows, fills,
                   retire>>

MonitorExpires ==
    /\ Scheduled
    /\ mon.pc = "expire"
    /\ Lands(Marked({mon.cur}, "cancelled"))
    /\ Goto("poll")
    /\ UNCHANGED <<venue, aged, phase, crashes, halts, place, pending, fills,
                   cxl, retire>>

-----------------------------------------------------------------------------
(* _reconcile_orphaned_pending_trades: after each pass, rows still pending  *)
(* whose orders are not tracked; the CLOB is asked first, then one batch    *)
(* of writes.                                                               *)

\* Mutant: orders still tracked are not left to the poll.
OrphanRows_Tracked == {o \in Orders : \E w \in Writers : rows[o][w] = "pending"}

OrphanRows ==
    {o \in Orders : ~IsTracked(o) /\ \E w \in Writers : rows[o][w] = "pending"}

\* The query returns the rows older than ten minutes.
SweepSelects ==
    /\ Scheduled
    /\ mon.pc = "poll"
    /\ mon.todo = {}
    /\ \E os \in SUBSET OrphanRows :
          mon' = [MonStart EXCEPT !.pc = "sweep", !.todo = os]
    /\ UNCHANGED <<venue, aged, phase, crashes, halts, place, pending, rows,
                   fills, cxl, retire>>

SweepAsks(o) ==
    /\ Scheduled
    /\ mon.pc = "sweep"
    /\ o \in mon.todo
    /\ mon' = [mon EXCEPT !.todo = @ \ {o}, !.upd[o] = StatusOf(o).st]
    /\ UNCHANGED <<venue, aged, phase, crashes, halts, place, pending, rows,
                   fills, cxl, retire>>

SweepAskFails(o) ==
    /\ Scheduled
    /\ mon.pc = "sweep"
    /\ o \in mon.todo
    /\ mon' = [mon EXCEPT !.todo = @ \ {o}]
    /\ UNCHANGED <<venue, aged, phase, crashes, halts, place, pending, rows,
                   fills, cxl, retire>>

SweepWrites ==
    /\ Scheduled
    /\ mon.pc = "sweep"
    /\ mon.todo = {}
    /\ Lands([o \in Orders |-> [w \in Writers |->
                 IF mon.upd[o] \in Terminal /\ rows[o][w] # "none"
                 THEN mon.upd[o] ELSE rows[o][w]]])
    /\ mon' = [mon EXCEPT !.pc = "wake", !.upd = [o \in Orders |-> "pending"]]
    /\ UNCHANGED <<venue, aged, phase, crashes, halts, place, pending, fills,
                   cxl, retire>>

-----------------------------------------------------------------------------
(* _cancel_resting_live_orders, by the kill switch or by shutdown, and the  *)
(* end of the process.                                                      *)

RetireIdle == [pc |-> "idle", todo |-> {}, ids |-> {}]
RetireAll == [pc |-> "next", todo |-> {o \in Orders : IsTracked(o)}, ids |-> {}]

\* Placements in flight die with the process.
PlacementsLost ==
    place' = [o \in Orders |-> IF place[o] \in {"checked", "sent", "placed"}
                               THEN "lost" ELSE place[o]]

\* _check_kill_switch: the first task to notice runs the sweep, once.
KillSwitch ==
    /\ Running
    /\ halts < MaxHalts
    /\ halts' = halts + 1
    /\ phase' = "halted"
    /\ retire' = RetireAll
    /\ UNCHANGED <<venue, aged, crashes, place, pending, rows, fills, mon, cxl>>

\* shutdown(): the tasks are over, the sweep runs before the process ends.
Shutdown ==
    /\ phase = "running" \/ (phase = "halted" /\ retire.pc = "idle")
    /\ halts < MaxHalts
    /\ halts' = halts + 1
    /\ phase' = "exiting"
    /\ retire' = RetireAll
    /\ mon' = MonStart
    /\ cxl' = [c \in Callers |-> NoCall]
    /\ PlacementsLost
    /\ UNCHANGED <<venue, aged, crashes, pending, rows, fills>>

RetireCancels(o) ==
    /\ retire.pc = "next"
    /\ o \in retire.todo
    /\ CancelSent("retire", o)
    /\ retire' = [retire EXCEPT !.pc = "wait", !.todo = @ \ {o}]
    /\ UNCHANGED <<aged, phase, crashes, halts, place, pending, rows, fills, mon>>

RetireReturns ==
    /\ retire.pc = "wait"
    /\ IF cxl.retire.pc = "ack"
       THEN /\ pending' = Dropped(cxl.retire.orders)
            /\ retire' = [retire EXCEPT !.pc = "next", !.ids = @ \cup cxl.retire.orders]
       ELSE /\ pending' = pending
            /\ retire' = [retire EXCEPT !.pc = "next"]
    /\ cxl' = [cxl EXCEPT !.retire = NoCall]
    /\ UNCHANGED <<venue, aged, phase, crashes, halts, place, rows, fills, mon>>

\* The whole batch is written once every cancel has been answered.
RetireWrites ==
    /\ retire.pc = "next"
    /\ retire.todo = {}
    /\ Lands(Marked(retire.ids, "cancelled"))
    /\ retire' = RetireIdle
    /\ phase' = IF phase = "exiting" THEN "down" ELSE phase
    /\ pending' = IF phase = "exiting" THEN [o \in Orders |-> Untracked] ELSE pending
    /\ UNCHANGED <<venue, aged, crashes, halts, place, fills, mon, cxl>>

Crash ==
    /\ phase # "down"
    /\ crashes < MaxCrashes
    /\ crashes' = crashes + 1
    /\ phase' = "down"
    /\ pending' = [o \in Orders |-> Untracked]
    /\ mon' = MonStart
    /\ cxl' = [c \in Callers |-> NoCall]
    /\ retire' = RetireIdle
    /\ PlacementsLost
    /\ UNCHANGED <<venue, aged, halts, rows, fills>>

\* The supervisor starts a new process on the same tables.
Restart ==
    /\ phase = "down"
    /\ phase' = "running"
    /\ UNCHANGED <<venue, aged, crashes, halts, place, pending, rows, fills,
                   mon, cxl, retire>>

-----------------------------------------------------------------------------
Init ==
    /\ venue = [o \in Orders |-> [st |-> "none", matched |-> 0]]
    /\ aged = {}
    /\ phase = "running"
    /\ crashes = 0
    /\ halts = 0
    /\ place = [o \in Orders |-> "new"]
    /\ pending = [o \in Orders |-> Untracked]
    /\ rows = [o \in Orders |-> [w \in Writers |-> "none"]]
    /\ fills = [o \in Orders |-> <<>>]
    /\ mon = MonStart
    /\ cxl = [c \in Callers |-> NoCall]
    /\ retire = RetireIdle

VenueStep == \E o \in Orders : VenueMatches(o) \/ VenueCloses(o) \/ VenueForgets(o)

PlaceStep ==
    \E o \in Orders : \/ PlaceChecked(o) \/ PlaceRefused(o) \/ Submit(o)
                      \/ SubmitReturns(o) \/ SubmitTimesOut(o) \/ MirrorOrder(o)

CancelStep ==
    \/ \E o \in Orders : GatewayCancels(o)
    \/ GatewayCancelReturns \/ GatewayMarksCancelled
    \/ \E leg \in {"YES", "NO"} : ExitClearsToken(leg)
    \/ ExitClearReturns

MonitorStep ==
    \/ MonitorReconciles \/ MonitorSkipsReconcile \/ Adopts \/ MonitorLists
    \/ \E o \in Orders : \/ AdoptLooksUp(o) \/ SweepAsks(o) \/ SweepAskFails(o)
                      \/ MonitorPolls(o) \/ MonitorPollFails(o)
    \/ MonitorBooks \/ MonitorMirrors \/ MonitorDrops
    \/ MonitorKeeps \/ MonitorReaps \/ MonitorReapReturns \/ MonitorExpires
    \/ SweepSelects \/ SweepWrites

ProcessStep ==
    \/ KillSwitch \/ Shutdown \/ Crash \/ Restart
    \/ \E o \in Orders : RetireCancels(o)
    \/ RetireReturns \/ RetireWrites

Next == VenueStep \/ PlaceStep \/ CancelStep \/ MonitorStep \/ ProcessStep

Spec == Init /\ [][Next]_vars

(* Fairness.  The event loop resumes every task, and the supervisor restarts  *)
(* the process.  The re-pull comes round every tenth cycle.  An order stays   *)
(* older than its TTL, so a poll that says "pending" reaps it in the end; and *)
(* the CLOB answers a query, or a cancel, that is repeated for ever.          *)
Fairness ==
    /\ WF_vars(MonitorStep)
    /\ WF_vars(Restart)
    /\ SF_vars(MonitorReconciles)
    /\ \A o \in Orders : /\ WF_vars(SubmitReturns(o) \/ SubmitTimesOut(o))
                         /\ SF_vars(MonitorPolls(o))
    /\ SF_vars(MonitorReaps /\ cxl'.monitor.pc = "ack")

FairSpec == Spec /\ Fairness

\* Every cancel in progress resumes and writes; the orphan sweep is answered
\* too, and its rows grow old.
SweepFairness ==
    /\ WF_vars(GatewayCancelReturns)
    /\ WF_vars(GatewayMarksCancelled)
    /\ WF_vars(ExitClearReturns)
    /\ SF_vars(SweepSelects /\ mon'.todo = OrphanRows)
    /\ \A o \in Orders : WF_vars(MirrorOrder(o)) /\ SF_vars(SweepAsks(o))

FairSweepSpec == FairSpec /\ SweepFairness

-----------------------------------------------------------------------------
(* Properties.                                                             *)

\* The type invariant.
TypeOK ==
    /\ venue \in [Orders -> VenueState]
    /\ aged \subseteq Orders
    /\ phase \in {"running", "halted", "exiting", "down"}
    /\ crashes \in 0..MaxCrashes
    /\ halts \in 0..MaxHalts
    /\ place \in [Orders -> {"new", "checked", "sent", "late", "placed",
                            "done", "lost"}]
    /\ pending \in [Orders -> Tracked \cup {Untracked}]
    /\ rows \in [Orders -> [Writers -> RowStatus]]
    /\ fills \in [Orders -> Seq(Fill)]
    /\ mon \in MonState
    /\ cxl \in [Callers -> Call]
    /\ retire \in RetireState

\* The monitor polls, adopts and sweeps by turns, over answers that may be old: a
\* trades row says "filled" of an order it still tracks only once the fill is
\* booked, and a fallback row is only ever of a booked fill.  The orphan sweep,
\* which books nothing, has to keep off the orders a poll would still book.
\* (A booking that raises is logged, and the row is marked all the same.)
BookedBeforeMarked ==
    ~DbFaults =>
        \A o \in Orders :
            /\ rows[o].monitor # "none" => fills[o] # <<>>
            /\ rows[o].gateway = "filled" => fills[o] # <<>> \/ ~IsTracked(o)

\* Nothing is booked that the CLOB did not match (booked_as_position).
BookedWithinMatched ==
    \A o \in Orders : \A i \in DOMAIN fills[o] :
        /\ venue[o].st = "matched"
        /\ fills[o][i].size <= venue[o].matched

\* The trades rows never run ahead of the venue: a terminal row means the order
\* no longer rests, and a filled row that it was matched in full.
RowsNeverAhead ==
    \A o \in Orders, w \in Writers :
        /\ rows[o][w] \in Terminal => venue[o].st \in {"matched", "dead"}
        /\ rows[o][w] = "filled" => venue[o].st = "matched"

\* Exposure winds down: while the process stays up, every order comes to rest
\* nowhere and be tracked nowhere, whether its submit was lost, its cancel was
\* lost, or a stale re-pull put it back in _live_pending ("a periodic re-pull
\* self-heals those"; the TTL reaps what it finds).
StaysUp == <>[](phase = "running")
OrdersWindDown ==
    StaysUp => \A o \in Orders :
                  (venue[o].st = "open" \/ IsTracked(o))
                      ~> (venue[o].st # "open" /\ ~IsTracked(o))

\* A row does not stay pending once its order is over: the orphan sweep asks the
\* CLOB, which "maps unknown/aged-out orders to 'cancelled'".
PendingRowsResolve ==
    StaysUp => \A o \in Orders, w \in Writers :
                  (rows[o][w] = "pending") ~> (rows[o][w] # "pending")

\* "Cancel can race a fill -- keep the order tracked so the next status poll
\* resolves it": an order the CLOB matched leaves _live_pending only once its
\* fill is booked.
MatchedStaysTracked ==
    [][\A o \in Orders :
          (venue[o].st = "matched" /\ IsTracked(o) /\ ~IsTracked(o)')
              => fills[o] # <<>>]_vars

\* A fill moves the cost basis of the token the order traded: "a NO sell" does
\* not "realize against the YES side's basis".
BookedOnOwnToken ==
    \A o \in Orders : \A i \in DOMAIN fills[o] : fills[o][i].token = Leg(o)

=============================================================================
