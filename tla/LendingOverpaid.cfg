CONSTANTS
    P = 4
    MinExponent <- MCMinExponent
    MaxExponent = 40
    SecondsPerYear = 10
    TimeModulus = 64
    loanMaximumPaymentsPerTransaction = 3
    Accounts = {o, l, b}
    Owners = {o}
    Lenders = {l}
    Destinations = {}
    ClawAmounts = {}
    Borrowers = {b}
    VaultAccount = va
    Brokers = {k}
    None = None
    Funds <- FeeFunds
    AssetAmounts = {20}
    ShareAmounts = {}
    AssetMaximums = {0}
    BrokerTerms <- ShareRates
    DebtMaximums = {0}
    CoverAmounts = {}
    LoanTerms <- OverTerms
    PayAmounts = {13, 17}
    OwnerFrozen = {FALSE}
    LedgerGaps = {3}
    CloseTimeResolutions = {2}
    LastClose = 6
    MaxLoans = 1
SPECIFICATION Spec
INVARIANT BrokerDebtAgrees
CHECK_DEADLOCK FALSE
