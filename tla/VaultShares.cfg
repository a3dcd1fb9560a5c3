CONSTANTS
    P = 4
    MinExponent <- MCMinExponent
    MaxExponent = 40
    SecondsPerYear = 10
    TimeModulus = 64
    loanMaximumPaymentsPerTransaction = 3
    Accounts = {o, l, m, b}
    Owners = {o}
    Lenders = {l, m}
    Destinations = {}
    ClawAmounts = {0, 2}
    Borrowers = {b}
    VaultAccount = va
    Brokers = {k}
    None = None
    Funds <- ShareFunds
    AssetAmounts = {5}
    ShareAmounts = {2}
    AssetMaximums = {9}
    BrokerTerms <- ShareRates
    DebtMaximums = {0}
    CoverAmounts = {}
    LoanTerms <- ShareTerms
    PayAmounts = {7}
    OwnerFrozen = {FALSE}
    LedgerGaps = {3}
    CloseTimeResolutions = {2}
    LastClose = 3
    MaxLoans = 1
SPECIFICATION Spec
INVARIANTS SharesAddUp NoGainFromRoundTrip
PROPERTY OthersKeepTheirWorth
CHECK_DEADLOCK FALSE
SYMMETRY LenderSymmetry
