---------------------------------- MODULE Exits ----------------------------------
(***************************************************************************)
(* The exits of one live Polymarket market, held on both tokens: the       *)
(* portfolio monitor's exit loop (bot.py), the executor (bot_exits.py) and *)
(* what the order monitor does when a SELL ends.  A position whose SELL    *)
(* rests is suppressed by its key in _exit_pending, one whose attempt      *)
(* failed by a wall in _exit_failures.  The lifecycle rows of              *)
(* risk/exit_lifecycle.py only report; they are left out.                  *)
(***************************************************************************)
EXTENDS Integers

CONSTANTS
    Holdings,   \* what the wallet may hold at first (see held)
    Resting,    \* bound: SELLs of one token at once
    Restarts    \* bound: restarts of the process

Legs == {"YES", "NO"}

\* Nothing, less than the venue lets one sell, or enough.
Sizes == {"none", "dust", "lot"}

ASSUME ExitsAssumption ==
    /\ Holdings \subseteq [Legs -> Sizes]
    /\ Resting \in Nat /\ Restarts \in Nat

VARIABLES
    held,       \* the wallet, by token
    listed,     \* the portfolio's rows: every one of them should exit
    keys,       \* _exit_pending, by leg
    walls,      \* _exit_failures whose retry time has not come
    selling,    \* the tracked SELLs of each token
    tick,       \* the exit loop: the legs left, the leg in hand and its token
    orphaned,   \* a key was left with no tracked SELL to clear it
    restarts

exitVars == <<held, listed, keys, walls, selling, tick, orphaned, restarts>>

TickStates == [at : {"idle", "next", "clear", "sell", "placed"},
               todo : SUBSET Legs, leg : Legs, token : Legs]

TickIdle == [at |-> "idle", todo |-> {}, leg |-> "YES", token |-> "YES"]

ExitsTypeOK ==
    /\ held \in [Legs -> Sizes]
    /\ listed \in SUBSET Legs
    /\ keys \in SUBSET Legs
    /\ walls \in SUBSET Legs
    /\ selling \in [Legs -> 0..Resting]
    /\ tick \in TickStates
    /\ orphaned \in BOOLEAN
    /\ restarts \in 0..Restarts

ExitsInit ==
    /\ held \in Holdings
    /\ listed = {}
    /\ keys = {}
    /\ walls = {}
    /\ selling = [t \in Legs |-> 0]
    /\ tick = TickIdle
    /\ orphaned = FALSE
    /\ restarts = 0

Orphans(some, tracked) == some # {} /\ \A t \in Legs : tracked[t] = 0

-----------------------------------------------------------------------------
(* The exit loop.                                                          *)

\* check_exits lists the positions to leave.
TickStarts ==
    /\ tick.at = "idle"
    /\ tick' = [tick EXCEPT !.at = "next", !.todo = listed]
    /\ UNCHANGED <<held, listed, keys, walls, selling, orphaned, restarts>>

TickSkips ==
    /\ tick.at = "next"
    /\ \E l \in tick.todo \cap (keys \cup walls) : tick' = [tick EXCEPT !.todo = @ \ {l}]
    /\ UNCHANGED <<held, listed, keys, walls, selling, orphaned, restarts>>

TickEnds ==
    /\ tick.at = "next"
    /\ tick.todo = {}
    /\ tick' = TickIdle
    /\ UNCHANGED <<held, listed, keys, walls, selling, orphaned, restarts>>

\* The token to sell is looked up by market: the first one of it in the wallet
\* or, when that cannot be read, in cost_basis; only then by the leg.
Resolved(l) ==
    LET found == {t \in Legs : held[t] # "none"} \cup listed
    IN IF found = {} THEN {l} ELSE found

AttemptStarts ==
    /\ tick.at = "next"
    /\ \E l \in tick.todo \ (keys \cup walls) : \E t \in Resolved(l) :
         tick' = [at |-> "clear", todo |-> tick.todo \ {l}, leg |-> l, token |-> t]
    /\ UNCHANGED <<held, listed, keys, walls, selling, orphaned, restarts>>

\* cancel_open_orders_for_token stops tracking what it cancels, and clears no
\* key; when it fails the attempt goes on.
AttemptClears ==
    /\ tick.at = "clear"
    /\ tick' = [tick EXCEPT !.at = "sell"]
    /\ selling' \in {selling, [selling EXCEPT ![tick.token] = 0]}
    /\ orphaned' = (orphaned \/ (selling' # selling /\ Orphans(keys, selling')))
    /\ UNCHANGED <<held, listed, keys, walls, restarts>>

\* Too small, no bid to cross to, or refused by the venue.
AttemptFails ==
    /\ tick.at = "sell"
    /\ walls' = walls \cup {tick.leg}
    /\ tick' = [tick EXCEPT !.at = "next"]
    /\ UNCHANGED <<held, listed, keys, selling, orphaned, restarts>>

\* The chain says nothing is held: the rows of the market go, both of them.
AttemptPrunes ==
    /\ tick.at = "sell"
    /\ held[tick.token] = "none"
    /\ listed' = {}
    /\ walls' = walls \cup {tick.leg}
    /\ tick' = [tick EXCEPT !.at = "next"]
    /\ UNCHANGED <<held, keys, selling, orphaned, restarts>>

\* submit_exit: the SELL is placed and tracked ...
AttemptPlaces ==
    /\ tick.at = "sell"
    /\ held[tick.token] = "lot"
    /\ selling[tick.token] < Resting
    /\ selling' = [selling EXCEPT ![tick.token] = @ + 1]
    /\ tick' = [tick EXCEPT !.at = "placed"]
    /\ UNCHANGED <<held, listed, keys, walls, orphaned, restarts>>

\* ... and its key is set when its row is mirrored and the alert is sent.
AttemptRecords ==
    /\ tick.at = "placed"
    /\ keys' = keys \cup {tick.leg}
    /\ walls' = walls \ {tick.leg}
    /\ orphaned' = (orphaned \/ Orphans(keys', selling))
    /\ tick' = [tick EXCEPT !.at = "next"]
    /\ UNCHANGED <<held, listed, selling, restarts>>

-----------------------------------------------------------------------------
\* Mutant: a key is kept until its order fills.
Cleared_Filled(sold) == IF sold THEN {} ELSE keys

\* _clear_exit_suppression: every key of the market.
Cleared(sold) == {}

\* A tracked SELL ends: it fills, or it is cancelled, expired or reaped.
SellEnds(t) ==
    /\ selling[t] > 0
    /\ \E sold \in {FALSE, held[t] = "lot"} :
         /\ held' = [held EXCEPT ![t] = IF sold THEN "none" ELSE @]
         /\ keys' = Cleared(sold)
    /\ walls' = {}
    /\ selling' = [selling EXCEPT ![t] = @ - 1]
    /\ UNCHANGED <<listed, tick, orphaned, restarts>>

\* The position mirror (see Books).
ExitsMirror ==
    /\ listed' = {t \in Legs : held[t] # "none"}
    /\ UNCHANGED <<held, keys, walls, selling, tick, orphaned, restarts>>

\* Fifteen minutes have passed.
WallFalls(l) ==
    /\ l \in walls
    /\ walls' = walls \ {l}
    /\ UNCHANGED <<held, listed, keys, selling, tick, orphaned, restarts>>

\* The keys and walls are memory; the SELLs are adopted again.
ExitsRestart ==
    /\ restarts < Restarts
    /\ restarts' = restarts + 1
    /\ keys' = {}
    /\ walls' = {}
    /\ tick' = TickIdle
    /\ orphaned' = FALSE
    /\ UNCHANGED <<held, listed, selling>>

TickStep ==
    \/ TickStarts \/ TickSkips \/ TickEnds
    \/ AttemptStarts \/ AttemptClears \/ AttemptFails \/ AttemptPrunes
    \/ AttemptPlaces \/ AttemptRecords

ExitsNext ==
    \/ TickStep
    \/ \E t \in Legs : SellEnds(t)
    \/ ExitsMirror
    \/ \E l \in Legs : WallFalls(l)
    \/ ExitsRestart

ExitsSpec == ExitsInit /\ [][ExitsNext]_exitVars

\* The monitor comes round, time passes, and the order monitor polls every SELL
\* until it ends: one that rests is reaped.
ExitsFairness ==
    /\ WF_exitVars(TickStep)
    /\ WF_exitVars(ExitsMirror)
    /\ \A l \in Legs : WF_exitVars(SellEnds(l)) /\ WF_exitVars(WallFalls(l))

-----------------------------------------------------------------------------
Attempting(l) == tick.at \in {"clear", "sell", "placed"} /\ tick.leg = l

\* A position that should exit is attempted again and again, however its attempts
\* end and whatever becomes of its sibling's; but for one thing: the SELL that
\* would clear its key ended before the key was set, or was cancelled by an
\* attempt that looked the sibling's token up.  Then it waits for a restart.
ExitsKeepTrying ==
    \A l \in Legs : []<>(Attempting(l) \/ l \notin listed \/ orphaned)
=============================================================================
