SPECIFICATION Spec
CONSTANTS
    None = None
    x = x
    y = y
    Accounts = {x, y}
    Txs <- MCTxs
    Slow <- MCSlow
    Foreign <- MCForeign
    MayRetry <- MCMayRetry
    MayFail <- MCMayFail
    MaxSeq = 3
    MaxLedger = 3
    Crowds = {0, 2}
    baseLevel = 1
    minimumEscalationMultiplier = 2
    minimumTxnCount = 1
    targetTxnCount = 1
    maximumTxnCount = 2
    normalConsensusIncreasePercent = 20
    slowConsensusDecreasePercent = 50
    ledgersInQueue = 1
    queueSizeMin = 2
    retriesAllowed = 3
    maximumTxnPerAccount = 2
    retrySequencePercent = 25
    minimumLastLedgerBuffer = 1
INVARIANTS QueueIsSound
PROPERTIES BlockerStaysAlone AppliedIsGone HeldNotLost ClearingPays AcceptIsComplete
