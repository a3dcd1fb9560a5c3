CONSTANTS
    P = 4
    MinExponent <- MCMinExponent
    MaxExponent = 40
    SecondsPerYear = 10
    TimeModulus = 64
    loanMaximumPaymentsPerTransaction = 3
    LoanTerms <- MCTerms
    FeeRates = {0, 10000}
    Amounts <- MCAmounts
    LedgerGaps = {1, 3}
    CloseTimeResolutions = {1, 3}
    LastClose = 6
SPECIFICATION Spec
INVARIANTS OverExactlyWhenRepaid RepaymentsAddUp PaymentsWithinAmount
CHECK_DEADLOCK FALSE
