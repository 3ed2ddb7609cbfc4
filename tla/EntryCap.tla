-------------------------------- MODULE EntryCap --------------------------------
(***************************************************************************)
(* The stake cap of one side of one market (broker/execution_gateway.py):  *)
(* before a BUY is placed, singly by submit or in a batch by place_legs,   *)
(* cost_basis plus the order must stay within the ceiling.  A live order   *)
(* reaches cost_basis only when the order monitor books its fill, and      *)
(* nothing is reserved for it meanwhile but within its own batch.          *)
(***************************************************************************)
EXTENDS Integers, Sequences

CONSTANTS
    Entrant,        \* coroutines that enter the market
    Batch,          \* the dollars of the legs each one places together
    MarketCap,      \* risk.max_stake_abs_ceiling
    Room            \* bound: dollars ordered and not booked, at once

ASSUME EntryAssumption ==
    /\ Batch \in [Entrant -> Seq(Nat \ {0})]
    /\ MarketCap \in Nat /\ Room \in Nat \ {0}

VARIABLES
    stake,      \* SUM(size * avg_cost) of the side's cost_basis
    checked,    \* how many legs of its batch each entrant has checked ...
    reserved,   \* ... and their dollars: reservations
    resting,    \* the dollars ordered and not booked, of all entrants
    working     \* those and the reserved ones

entryVars == <<stake, checked, reserved, resting, working>>

EntryTypeOK ==
    /\ stake \in Nat
    /\ checked \in [Entrant -> Nat]
    /\ reserved \in [Entrant -> 0..MarketCap]
    /\ resting \in 0..Room
    /\ working \in 0..Room

EntryInit ==
    /\ stake \in 0..MarketCap
    /\ checked = [e \in Entrant |-> 0]
    /\ reserved = [e \in Entrant |-> 0]
    /\ resting = 0
    /\ working = 0

\* Mutant: what is held is left out.
Fits_Unheld(dollars) == dollars <= MarketCap

\* _exceeds_market_cap passes the order.
Fits(dollars) == stake + dollars <= MarketCap

NextLeg(e) == Batch[e][checked[e] + 1]

\* Mutant: the batch's earlier legs are not added.
FitsInBatch_Each(e) == NextLeg(e) <= MarketCap

\* Its batch stays within the ceiling, too: what is held is not added there.
FitsInBatch(e) == reserved[e] + NextLeg(e) <= MarketCap

\* A leg is checked: each one reads cost_basis anew.
LegPasses(e) ==
    /\ checked[e] < Len(Batch[e])
    /\ working + NextLeg(e) <= Room
    /\ Fits(NextLeg(e)) /\ FitsInBatch(e)
    /\ checked' = [checked EXCEPT ![e] = @ + 1]
    /\ reserved' = [reserved EXCEPT ![e] = @ + NextLeg(e)]
    /\ working' = working + NextLeg(e)
    /\ UNCHANGED <<stake, resting>>

EntryEnds(e) ==
    /\ checked' = [checked EXCEPT ![e] = 0]
    /\ reserved' = [reserved EXCEPT ![e] = 0]

\* One leg is over the cap: none of the batch is placed.
BatchBlocked(e) ==
    /\ checked[e] < Len(Batch[e])
    /\ ~Fits(NextLeg(e)) \/ ~FitsInBatch(e)
    /\ EntryEnds(e)
    /\ working' = working - reserved[e]
    /\ UNCHANGED <<stake, resting>>

\* All are placed; the venue refuses some of them, and the others rest.
BatchPlaced(e) ==
    /\ checked[e] = Len(Batch[e])
    /\ EntryEnds(e)
    /\ \E refused \in 0..reserved[e] :
         /\ resting' = resting + reserved[e] - refused
         /\ working' = working - refused
    /\ UNCHANGED stake

\* The order monitor books a fill, or a part of one (a paper fill is booked at once).
EntryBooked ==
    \E filled \in 1..resting :
        /\ stake' = stake + filled
        /\ resting' = resting - filled
        /\ working' = working - filled
        /\ UNCHANGED <<checked, reserved>>

\* A resting order is cancelled, or expires.
EntryCancelled ==
    \E dropped \in 1..resting :
        /\ resting' = resting - dropped
        /\ working' = working - dropped
        /\ UNCHANGED <<stake, checked, reserved>>

\* A SELL is booked, or the position settles.
StakeReduced ==
    /\ stake' \in 0..stake
    /\ UNCHANGED <<checked, reserved, resting, working>>

EntryNext ==
    \/ \E e \in Entrant : LegPasses(e) \/ BatchBlocked(e) \/ BatchPlaced(e)
    \/ EntryBooked \/ EntryCancelled \/ StakeReduced

EntrySpec == EntryInit /\ [][EntryNext]_entryVars

-----------------------------------------------------------------------------
\* Stacked entries pass the ceiling by less than what was ordered and not booked
\* at once: cost_basis does not see it, so the cap alone does not stop them there.
ExposureBounded == stake + working < MarketCap + Room
=============================================================================
