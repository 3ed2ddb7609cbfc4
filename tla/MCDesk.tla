--------------------------------- MODULE MCDesk ---------------------------------
(***************************************************************************)
(* Small instances of the components that share no state with each other: *)
(* a behaviour follows one of them, its focus, and the others stand still. *)
(***************************************************************************)
EXTENDS CallBudget, Exits, Redemption, EntryCap, DirectedOrders, KalshiBook,
        MCTransferLedger, MarketMaker, QuoteFormation, RiskGate, PaperBook
LOCAL INSTANCE FiniteSetsExt

\* A bulk analyzer and a pinned one share the bot, another, which has nothing to spend
\* before the peak, runs in a CLI.
MCProcess == {"bot", "cli"}
MCCaller == {"bulk", "pinned", "other"}
MCRunsIn == [c \in MCCaller |-> IF c = "other" THEN "cli" ELSE "bot"]
MCBudget == [c \in MCCaller |-> IF c = "pinned" THEN 3 ELSE 2]
MCPaced == [bulk |-> 1, pinned |-> 3, other |-> 0]

\* Both tokens held, one of them perhaps too little to sell.
MCHoldings == {[YES |-> "lot", NO |-> "dust"], [YES |-> "lot", NO |-> "lot"]}

\* The bot and the CLI; a standard condition, for either, and a negative-risk one.
MCCondition == {"plain", "negrisk"}
MCAsked == {"plain"}
MCNegRisk == {"negrisk"}

\* A single order, a batch that fits under the cap and one that does not.
MCEntrant == {"single", "fits", "exceeds"}
MCBatch == [single |-> <<2>>, fits |-> <<1, 2>>, exceeds |-> <<2, 2>>]

\* Any two of them exceed the cap of the day, or just fit.
MCDirective == {"d1", "d2", "d3"}
MCNotional == [o \in MCDirective |-> IF o = "d1" THEN 2 ELSE 1]
MCDollars(S) == MapThenSumSet(LAMBDA o : MCNotional[o], S)

\* The wallet has money for one of them, or for both the small ones.
MCPaperOrder == {"p1", "p2", "p3"}
MCCosts(S) == MapThenSumSet(LAMBDA o : IF o = "p3" THEN 2 ELSE 1, S)

\* Books at either end of the prices and in the middle, narrower and wider than quoted.
MCBestPrices ==
    LET from == 1 .. 30 \cup 441 .. 450 \cup 970 .. 998
        wide == 1 .. 8 \cup 19 .. 26 \cup 149 .. 151
    IN  {[bid |-> p, ask |-> p + w] : p \in from, w \in wide} \cap [bid : 1 .. 998, ask : 2 .. 999]

\* Flat, full on either side, nearly so, and skewed by a half or a whole cent.
MCHeld == {-5000, -4950, -2500, -833, 0, 2500, 4100}

-----------------------------------------------------------------------------
VARIABLE focus

deskVars == <<focus, budgetVars, exitVars, redeemVars, entryVars, directedVars,
              kalshiVars, transferVars, makerVars, formationVars, gateVars,
              paperVars>>

On(component) == focus = component

DeskInit ==
    /\ focus \in {"budget", "exits", "redemption", "entries", "directed", "kalshi",
                 "transfers", "maker", "quote", "gate", "paper"}
    /\ BudgetInit /\ DirectedInit /\ KalshiInit /\ TransferInit /\ MakerInit /\ PaperInit
    /\ ExitsInit /\ (On("exits") \/ held = [YES |-> "lot", NO |-> "lot"])
    /\ RedemptionInit /\ (On("redemption") \/ ~gates)
    /\ EntryInit /\ (On("entries") \/ stake = 0)
    /\ RiskInit /\ (On("gate") \/ (~halt /\ ~latch /\ demoted = {}))
    /\ FormationInit /\ (On("quote") \/ (bbo = [bid |-> 450, ask |-> 470] /\ stock = 0))

DeskNext ==
    /\ UNCHANGED focus
    /\ On("budget") \/ UNCHANGED budgetVars
    /\ On("exits") \/ UNCHANGED exitVars
    /\ On("redemption") \/ UNCHANGED redeemVars
    /\ On("entries") \/ UNCHANGED entryVars
    /\ On("directed") \/ UNCHANGED directedVars
    /\ On("kalshi") \/ UNCHANGED kalshiVars
    /\ On("transfers") \/ UNCHANGED transferVars
    /\ On("maker") \/ UNCHANGED makerVars
    /\ On("quote") \/ UNCHANGED formationVars
    /\ On("gate") \/ UNCHANGED gateVars
    /\ On("paper") \/ UNCHANGED paperVars
    /\ \/ On("budget") /\ BudgetNext
       \/ On("exits") /\ ExitsNext
       \/ On("redemption") /\ RedemptionNext
       \/ On("entries") /\ EntryNext
       \/ On("directed") /\ DirectedNext
       \/ On("kalshi") /\ KalshiNext
       \/ On("transfers") /\ TransferNext
       \/ On("maker") /\ MakerNext
       \/ On("quote") /\ FormsQuote
       \/ On("gate") /\ RiskNext
       \/ On("paper") /\ PaperNext

\* The fairness of the components (ExitsFairness, RedemptionFairness, KalshiFairness),
\* each in the behaviours that follow it.
DeskFairness ==
    /\ WF_exitVars(On("exits") /\ TickStep)
    /\ WF_exitVars(On("exits") /\ ExitsMirror)
    /\ \A l \in Legs :
         /\ WF_exitVars(On("exits") /\ SellEnds(l))
         /\ WF_exitVars(On("exits") /\ WallFalls(l))
    /\ WF_redeemVars(On("redemption") /\ HourlyStep)
    /\ WF_kalshiVars(On("kalshi") /\ SyncStep)
    /\ WF_kalshiVars(On("kalshi") /\ SweepStep)
    /\ SF_kalshiVars(On("kalshi") /\ SweepLands)

DeskSpec == DeskInit /\ [][DeskNext]_deskVars /\ DeskFairness

\* The state of the component in focus is of its type, through every step of it: counts
\* and dollars do not go below nothing, a batch's reservations stay within the cap.
DeskTypeOK ==
    /\ On("budget") => BudgetTypeOK
    /\ On("exits") => ExitsTypeOK
    /\ On("redemption") => RedemptionTypeOK
    /\ On("entries") => EntryTypeOK
    /\ On("directed") => DirectedTypeOK
    /\ On("kalshi") => KalshiTypeOK
    /\ On("transfers") => TransferTypeOK
    /\ On("maker") => MakerTypeOK
    /\ On("gate") => RiskTypeOK
    /\ On("paper") => PaperTypeOK
=============================================================================
