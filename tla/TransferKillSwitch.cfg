\* The kill switch is touched while the approver is asked.
SPECIFICATION TransferSpec
CONSTANTS
    c1 = c1
    c2 = c2
    Calls <- MCCalls
    Amount <- MCAmount
    Whitelisted <- MCCalls
    MinTransfer = 1
    TransferCap = 3
    DailyTransferCap = 3
    Spent <- MCSpent
    LastDay = 2
    NoCall = NoCall
PROPERTIES
    KillSwitchStopsWithdrawals
