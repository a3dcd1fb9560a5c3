SPECIFICATION Spec
CONSTANTS
    p = p
    q = q
    L = L
    N = N
    a = a
    b = b
    None = None
    Peers = {p, q}
    Ledgers = {L, N}
    FirstLedger = L
    closeTimeOf <- MCcloseTimeOf
    closeAgree <- MCcloseAgree
    closeResolution = 2
    PeerProposals <- MCProposals
    OpenSets <- MCOpenSets
    Validated = {0}
    Finished = {0, 2}
    Lags <- MCLags
    Delays = {6}
    MaxRounds = 1
    MaxProposals = 2
    MaxSwitches = 1
    MaxTime = 60
    proposeFRESHNESS = 13
    proposeINTERVAL = 7
    ledgerIDLE_INTERVAL = 6
    ledgerMIN_CONSENSUS = 3
    ledgerMAX_CONSENSUS = 8
    ledgerMIN_CLOSE = 2
    ledgerABANDON_CONSENSUS_FACTOR = 10
    ledgerABANDON_CONSENSUS = 11
    avMIN_CONSENSUS_TIME = 4
    minCONSENSUS_PCT = 80
    avCT_CONSENSUS_PCT = 75
    avMIN_ROUNDS = 1
    avSTALLED_ROUNDS = 2
    TenMinutes = 600
    seqLeave = 99
    MaxRecent = 2
INVARIANTS DisputesFollowSets WrongLedgerIsKnown ProposalsInOrder
PROPERTIES PeersDoNotGoBack RoundEnds
CHECK_DEADLOCK FALSE
