CONSTANTS
    P = 4
    MinExponent <- MCMinExponent
    MaxExponent = 40
    SecondsPerYear = 10
    TimeModulus = 64
    loanMaximumPaymentsPerTransaction = 3
    Accounts = {o, l, b}
    Owners = {o}
    Lenders = {l}
    Destinations = {}
    ClawAmounts = {}
    Borrowers = {b}
    VaultAccount = va
    Brokers = {k}
    None = None
    Funds <- CoreFunds
    AssetAmounts = {14}
    ShareAmounts = {}
    AssetMaximums = {0}
    BrokerTerms <- CoreRates
    DebtMaximums = {0}
    CoverAmounts = {4}
    LoanTerms <- CoreTerms
    PayAmounts = {6, 9}
    OwnerFrozen = {FALSE}
    LedgerGaps = {3}
    CloseTimeResolutions = {2}
    LastClose = 6
    MaxLoans = 2
SPECIFICATION Spec
INVARIANTS OwnershipAgrees
PROPERTIES ImplementsLedger 
CHECK_DEADLOCK FALSE
