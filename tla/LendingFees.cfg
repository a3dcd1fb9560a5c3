CONSTANTS
    P = 4
    MinExponent <- MCMinExponent
    MaxExponent = 40
    SecondsPerYear = 10
    TimeModulus = 64
    loanMaximumPaymentsPerTransaction = 3
    Accounts = {o, l, b}
    Owners = {o}
    Lenders = {l}
    Destinations = {l}
    ClawAmounts = {0}
    Borrowers = {b}
    VaultAccount = va
    Brokers = {k}
    None = None
    Funds <- FeeFunds
    AssetAmounts = {20}
    ShareAmounts = {}
    AssetMaximums = {30}
    BrokerTerms <- FeeRates
    DebtMaximums = {0, 24}
    CoverAmounts = {6}
    LoanTerms <- FeeTerms
    PayAmounts = {14, 24}
    OwnerFrozen = {FALSE, TRUE}
    LedgerGaps = {3}
    CloseTimeResolutions = {2}
    LastClose = 6
    MaxLoans = 1
SPECIFICATION Spec
INVARIANT PaymentsKeepVaultValid
PROPERTY ImplementsLedger
CHECK_DEADLOCK FALSE
