SPECIFICATION DeskSpec
CONSTANTS
    Process <- MCProcess
    Caller <- MCCaller
    RunsIn <- MCRunsIn
    Budget <- MCBudget
    Paced <- MCPaced
    Days = 2
    Faults = 1
    Deaths = 1
    Holdings <- MCHoldings
    Resting = 2
    Restarts = 1
    Sender = {"bot", "cli"}
    Hourly = "bot"
    Condition <- MCCondition
    Asked <- MCAsked
    NegRisk <- MCNegRisk
    Unset = "unset"
    InFlight = 2
    Entrant <- MCEntrant
    Batch <- MCBatch
    MarketCap = 3
    Room = 4
    Directive <- MCDirective
    Notional <- MCNotional
    Dollars <- MCDollars
    DailyCap = 2
    Dates = 2
    Trades = 2
    KalshiDeaths = 1
    c1 = c1
    c2 = c2
    Calls <- MCCalls
    Amount <- MCAmount
    Whitelisted <- MCCalls
    MinTransfer = 1
    TransferCap = 3
    DailyTransferCap = 3
    Spent <- MCSpent
    LastDay = 2
    NoCall = NoCall
    MaxInventory = 2
    Pairs = 2
    Mishaps = 1
    BestPrices <- MCBestPrices
    Held <- MCHeld
    QuoteSize = 1000
    MaxHeld = 5000
    MinSpread = 4
    MaxSpread = 150
    Intent = {"fit", "unfit"}
    Unfit = {"unfit"}
    Turns = 3
    PaperOrder <- MCPaperOrder
    PaperCash = 2
    Costs <- MCCosts
INVARIANTS
    DeskTypeOK
    CountExact
    CeilingKept
    ConfirmedMeansPaid
    SentOnce
    ExposureBounded
    Answerable
    DailyCapKept
    CapKept
    WithdrawalsCounted
    ExecutedIsFinal
    QuotesDoNotStack
    TrackedWithinCapacity
    QuotesAreSound
    LiveIsScreened
    PaperCashKept
PROPERTIES
    ExitsKeepTrying
    RedemptionRetried
    KalshiPnlBooked
    KalshiBooksClear
\* The bounds of the model stop the components that do not go on for ever.
CHECK_DEADLOCK FALSE
