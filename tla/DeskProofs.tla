------------------------------ MODULE DeskProofs ------------------------------
(***************************************************************************)
(* The desk runs each of its components as the component's own module says:*)
(* a behaviour of MCDesk is, seen by the variables of any one of them, a   *)
(* behaviour of its specification, for every value of the constants.  What *)
(* is proved of a component therefore holds on the desk, the types of all  *)
(* components among it.  The types of the two components that have no      *)
(* proof elsewhere, the exits and the Kalshi books, are proved here.       *)
(***************************************************************************)
EXTENDS MCDesk, LimitsProofs, QuotingProofs, RedemptionProofs, TransferLedgerProofs

-----------------------------------------------------------------------------
(* The exits.                                                              *)

LEMMA IdleTick == TickIdle \in TickStates
BY DEF TickIdle, TickStates, Legs

LEMMA ExitsTypeInit == ExitsInit => ExitsTypeOK
<1> SUFFICES ASSUME ExitsInit PROVE ExitsTypeOK OBVIOUS
<1>1. selling \in [Legs -> 0..Resting] /\ held \in [Legs -> Sizes] /\ restarts \in 0..Restarts
  BY ExitsAssumption DEF ExitsInit
<1>2. QED BY <1>1, IdleTick DEF ExitsInit, ExitsTypeOK

LEMMA ExitsTypeStep == ASSUME ExitsTypeOK, [ExitsNext]_exitVars PROVE ExitsTypeOK'
<1> USE ExitsAssumption DEF ExitsTypeOK
<1>0. /\ tick.at \in {"idle", "next", "clear", "sell", "placed"} /\ tick.todo \in SUBSET Legs
      /\ tick.leg \in Legs /\ tick.token \in Legs
      /\ tick = [at |-> tick.at, todo |-> tick.todo, leg |-> tick.leg, token |-> tick.token]
  BY DEF TickStates
<1>1. CASE TickStarts
  BY <1>0, <1>1 DEF TickStarts, TickStates
<1>2. CASE TickSkips
  BY <1>0, <1>2 DEF TickSkips, TickStates
<1>3. CASE TickEnds
  BY <1>3, IdleTick DEF TickEnds
<1>4. CASE AttemptStarts
  BY <1>0, <1>4 DEF AttemptStarts, Resolved, TickStates
<1>5. CASE AttemptClears
  BY <1>0, <1>5 DEF AttemptClears, TickStates
<1>6. CASE AttemptFails
  BY <1>0, <1>6 DEF AttemptFails, TickStates
<1>7. CASE AttemptPrunes
  BY <1>0, <1>7 DEF AttemptPrunes, TickStates
<1>8. CASE AttemptPlaces
  BY <1>0, <1>8 DEF AttemptPlaces, TickStates
<1>9. CASE AttemptRecords
  BY <1>0, <1>9 DEF AttemptRecords, TickStates
<1>10. ASSUME NEW t \in Legs, SellEnds(t) PROVE ExitsTypeOK'
  BY <1>10 DEF SellEnds, Cleared, Sizes
<1>11. CASE ExitsMirror
  BY <1>11 DEF ExitsMirror
<1>12. ASSUME NEW l \in Legs, WallFalls(l) PROVE ExitsTypeOK'
  BY <1>12 DEF WallFalls
<1>13. CASE ExitsRestart
  <2>1. restarts' \in 0..Restarts BY <1>13 DEF ExitsRestart
  <2>2. /\ held' = held /\ listed' = listed /\ selling' = selling /\ tick' = TickIdle
        /\ keys' = {} /\ walls' = {} /\ orphaned' = FALSE
    BY <1>13 DEF ExitsRestart
  <2>3. QED BY <2>1, <2>2, IdleTick
<1>14. CASE UNCHANGED exitVars
  BY <1>14 DEF exitVars
<1>15. QED
  BY <1>1, <1>2, <1>3, <1>4, <1>5, <1>6, <1>7, <1>8, <1>9, <1>10, <1>11, <1>12, <1>13, <1>14
  DEF ExitsNext, TickStep

\* The exit loop is at one of its awaits with one leg and token in hand, a token has no
\* more SELLs than the venue is given, and none less than nothing (ExitsTypeOK).
THEOREM ExitsTyped == ExitsSpec => []ExitsTypeOK
BY ExitsTypeInit, ExitsTypeStep, PTL DEF ExitsSpec

-----------------------------------------------------------------------------
(* The Kalshi books.                                                       *)

LEMMA IdleSync ==
    SyncIdle \in [at : {"idle", "upsert", "prune"}, table : 1..3, found : Position]
<1>1. 1 \in 1 .. 3 OBVIOUS
<1>2. QED BY <1>1 DEF SyncIdle, Position

LEMMA KalshiTypeInit == KalshiInit => KalshiTypeOK
<1> SUFFICES ASSUME KalshiInit PROVE KalshiTypeOK OBVIOUS
<1>1. book \in [{Tables[i] : i \in 1..3} -> SUBSET Tokens] BY DEF KalshiInit
<1>2. trades \in 0..Trades /\ kalshiDeaths \in 0..KalshiDeaths
  BY KalshiAssumption DEF KalshiInit
<1>3. QED BY <1>1, <1>2, IdleSync DEF KalshiInit, KalshiTypeOK, Position

\* The tables the sync writes, and the statement it comes to next.
LEMMA SyncTyped ==
    ASSUME KalshiTypeOK
    PROVE  /\ \A i \in 1 .. 3 : Tables[i] \in {Tables[j] : j \in 1 .. 3}
           /\ "cost_basis" \in {Tables[j] : j \in 1 .. 3}
           /\ "portfolio" \in {Tables[j] : j \in 1 .. 3}
           /\ sync.at \in {"upsert", "prune"} =>
                SyncGoesOn \in [at : {"idle", "upsert", "prune"}, table : 1..3, found : Position]
<1>1. Len(Tables) = 3 /\ Tables[1] = "portfolio" /\ Tables[2] = "cost_basis"
  BY DEF Tables
<1>2. \A i \in 1 .. 3 : Tables[i] \in {Tables[j] : j \in 1 .. 3} OBVIOUS
<1>3. sync \in [at : {"idle", "upsert", "prune"}, table : 1..3, found : Position]
  BY DEF KalshiTypeOK
<1>4. [sync EXCEPT !.at = "prune", !.table = 1]
        \in [at : {"idle", "upsert", "prune"}, table : 1..3, found : Position]
  <2> DEFINE pruning == [sync EXCEPT !.at = "prune"]
  <2>1. pruning \in [at : {"idle", "upsert", "prune"}, table : 1..3, found : Position]
    BY <1>3
  <2>2. [sync EXCEPT !.at = "prune", !.table = 1] = [pruning EXCEPT !.table = 1]
    OBVIOUS
  <2> HIDE DEF pruning
  <2>3. [pruning EXCEPT !.table = 1]
          \in [at : {"idle", "upsert", "prune"}, table : 1..3, found : Position]
    BY <2>1
  <2>4. QED BY <2>2, <2>3
<1>5. sync.table < 3 => [sync EXCEPT !.table = @ + 1]
        \in [at : {"idle", "upsert", "prune"}, table : 1..3, found : Position]
  BY <1>3
<1>6. SyncGoesOn \in [at : {"idle", "upsert", "prune"}, table : 1..3, found : Position]
  <2>1. CASE sync.table < 3
    BY <1>1, <1>5, <2>1 DEF SyncGoesOn
  <2>2. CASE ~(sync.table < 3)
    BY <1>1, <1>4, <2>2, IdleSync DEF SyncGoesOn
  <2>3. QED BY <2>1, <2>2
<1>7. 1 \in 1 .. 3 /\ 2 \in 1 .. 3 OBVIOUS
<1>8. QED BY <1>1, <1>2, <1>6, <1>7

\* A settlement row lands or does not.
LEMMA LedgeredTyped ==
    ASSUME KalshiTypeOK, NEW ref \in {"kalshi-settle", "settle"}, Ledgered(ref)
    PROVE  ledger' \in SUBSET {"kalshi-settle", "settle"}
<1>1. ledger \in SUBSET {"kalshi-settle", "settle"}
  BY DEF KalshiTypeOK
<1>2. ledger \cup {ref} \in SUBSET {"kalshi-settle", "settle"}
  BY <1>1
<1>3. ledger' = ledger \/ ledger' = ledger \cup {ref}
  BY DEF Ledgered
<1>4. QED BY <1>1, <1>2, <1>3

LEMMA KalshiTypeStep == ASSUME KalshiTypeOK, [KalshiNext]_kalshiVars PROVE KalshiTypeOK'
<1> USE KalshiAssumption DEF KalshiTypeOK
<1>1. /\ \A i \in 1 .. 3 : Tables[i] \in {Tables[j] : j \in 1 .. 3}
      /\ "cost_basis" \in {Tables[j] : j \in 1 .. 3}
      /\ "portfolio" \in {Tables[j] : j \in 1 .. 3}
      /\ sync.at \in {"upsert", "prune"} =>
           SyncGoesOn \in [at : {"idle", "upsert", "prune"}, table : 1..3, found : Position]
  BY SyncTyped
<1> DEFINE Named == {Tables[j] : j \in 1 .. 3}
<1> HIDE DEF Named
<1>2. /\ \A i \in 1 .. 3 : Tables[i] \in Named
      /\ "cost_basis" \in Named /\ "portfolio" \in Named /\ book \in [Named -> SUBSET Tokens]
      /\ book' \in [Named -> SUBSET Tokens] =>
           book' \in [{Tables[i] : i \in 1..3} -> SUBSET Tokens]
  BY <1>1 DEF Named
<1>3. ASSUME NEW token \in Tokens, KalshiFill(token) PROVE KalshiTypeOK'
  BY <1>3 DEF KalshiFill, Position
<1>4. ASSUME NEW token \in Tokens, KalshiFillBooked(token) PROVE KalshiTypeOK'
  <2>1. book' \in [Named -> SUBSET Tokens] BY <1>2, <1>4 DEF KalshiFillBooked
  <2>2. QED BY <1>2, <1>4, <2>1 DEF KalshiFillBooked
<1>5. CASE KalshiSettles
  BY <1>5 DEF KalshiSettles, Position
<1>6. CASE SyncFetches
  BY <1>6 DEF SyncFetches
<1>7. CASE SyncUpserts
  <2>1. sync.found \in Position /\ sync.table \in 1 .. 3 OBVIOUS
  <2>2. book' \in [Named -> SUBSET Tokens]
    BY <1>2, <1>7, <2>1 DEF SyncUpserts, Position
  <2>3. QED BY <1>1, <1>2, <1>7, <2>2 DEF SyncUpserts
<1>8. CASE SyncPrunes
  <2>1. book' \in [Named -> SUBSET Tokens]
    BY <1>2, <1>8 DEF SyncPrunes, Pruned
  <2>2. QED BY <1>1, <1>2, <1>8, <2>1 DEF SyncPrunes
<1>9. CASE SweepReads
  BY <1>9 DEF SweepReads
<1>10. CASE SweepBooks
  <2>1. ledger' \in SUBSET {"kalshi-settle", "settle"}
    BY <1>10, LedgeredTyped DEF SweepBooks
  <2>2. QED BY <1>10, <2>1 DEF SweepBooks
<1>11. CASE SweepCloses
  <2>1. book' \in [Named -> SUBSET Tokens]
    BY <1>2, <1>11 DEF SweepCloses
  <2>2. QED BY <1>2, <1>11, <2>1 DEF SweepCloses
<1>12. CASE TrackerSettles
  <2>1. book' \in [Named -> SUBSET Tokens]
    BY <1>2, <1>12 DEF TrackerSettles
  <2>2. ledger' \in SUBSET {"kalshi-settle", "settle"}
    BY <1>12, LedgeredTyped DEF TrackerSettles
  <2>3. QED BY <1>2, <1>12, <2>1, <2>2 DEF TrackerSettles
<1>13. CASE KalshiRestart
  BY <1>13, IdleSync DEF KalshiRestart
<1>14. CASE UNCHANGED kalshiVars
  BY <1>14 DEF kalshiVars
<1>15. QED
  BY <1>3, <1>4, <1>5, <1>6, <1>7, <1>8, <1>9, <1>10, <1>11, <1>12, <1>13, <1>14
  DEF KalshiNext, SyncStep, SweepStep

\* The tables hold rows of the market's tokens only, and the sync is at one of its six
\* statements with the position it fetched (KalshiTypeOK).
THEOREM KalshiTyped == KalshiSpec => []KalshiTypeOK
BY KalshiTypeInit, KalshiTypeStep, PTL DEF KalshiSpec

-----------------------------------------------------------------------------
(* The desk.                                                               *)

LEMMA DeskStarts ==
    DeskInit => /\ BudgetInit /\ ExitsInit /\ RedemptionInit /\ EntryInit /\ DirectedInit
                /\ KalshiInit /\ TransferInit /\ MakerInit /\ FormationInit /\ RiskInit
                /\ PaperInit
BY DEF DeskInit

\* A step of the desk is a step of one component, or leaves it as it is.
LEMMA DeskMoves ==
    [DeskNext]_deskVars =>
        /\ [BudgetNext]_budgetVars /\ [ExitsNext]_exitVars /\ [RedemptionNext]_redeemVars
        /\ [EntryNext]_entryVars /\ [DirectedNext]_directedVars /\ [KalshiNext]_kalshiVars
        /\ [TransferNext]_transferVars /\ [MakerNext]_makerVars /\ [FormsQuote]_formationVars
        /\ [RiskNext]_gateVars /\ [PaperNext]_paperVars
<1> SUFFICES ASSUME [DeskNext]_deskVars
             PROVE  /\ [BudgetNext]_budgetVars /\ [ExitsNext]_exitVars
                    /\ [RedemptionNext]_redeemVars /\ [EntryNext]_entryVars
                    /\ [DirectedNext]_directedVars /\ [KalshiNext]_kalshiVars
                    /\ [TransferNext]_transferVars /\ [MakerNext]_makerVars
                    /\ [FormsQuote]_formationVars /\ [RiskNext]_gateVars
                    /\ [PaperNext]_paperVars
  OBVIOUS
<1>1. CASE DeskNext
  BY <1>1 DEF DeskNext, On
<1>2. CASE UNCHANGED deskVars
  BY <1>2 DEF deskVars
<1>3. QED BY <1>1, <1>2

\* Each component on the desk does what its own specification says: what TLC checks on
\* the desk it checks of the components' specifications, and what is proved of those
\* holds on the desk.
THEOREM DeskRunsComponents ==
    DeskSpec => /\ BudgetSpec /\ ExitsSpec /\ RedemptionSpec /\ EntrySpec /\ DirectedSpec
                /\ KalshiSpec /\ TransferSpec /\ MakerSpec /\ FormationSpec /\ RiskSpec
                /\ PaperSpec
BY DeskStarts, DeskMoves, PTL
DEF DeskSpec, BudgetSpec, ExitsSpec, RedemptionSpec, EntrySpec, DirectedSpec, KalshiSpec,
    TransferSpec, MakerSpec, FormationSpec, RiskSpec, PaperSpec

\* The state of every component is of its type, through every step of any of them: counts
\* and dollars do not go below nothing, reservations stay within the cap (DeskTypeOK).
THEOREM DeskTyped == DeskSpec => []DeskTypeOK
<1>1. /\ BudgetTypeOK /\ ExitsTypeOK /\ RedemptionTypeOK /\ EntryTypeOK /\ DirectedTypeOK
      /\ KalshiTypeOK /\ TransferTypeOK /\ MakerTypeOK /\ RiskTypeOK /\ PaperTypeOK
      => DeskTypeOK
  BY DEF DeskTypeOK
<1>2. QED
  BY <1>1, DeskRunsComponents, BudgetTyped, ExitsTyped, RedemptionTyped, EntryTyped,
     DirectedTyped, KalshiTyped, LedgerTypeCorrect, MakerTyped, RiskTyped, PaperTyped, PTL
=============================================================================
