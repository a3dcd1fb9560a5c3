----------------------------- MODULE FeeMetrics -----------------------------
(***************************************************************************)
(* How many transactions the next ledger is expected to hold and what a    *)
(* transaction has to pay once the open ledger holds more: TxQ::FeeMetrics *)
(* (TxQ.h, TxQ.cpp).  Fee levels are multiples of baseLevel; counts and    *)
(* levels stay far below the 64 bits at which mulDiv would saturate.       *)
(***************************************************************************)
EXTENDS Integers, Sequences, FiniteSets, FiniteSetsExt

CONSTANTS
    baseLevel, minimumEscalationMultiplier,
    minimumTxnCount, targetTxnCount, maximumTxnCount,
    normalConsensusIncreasePercent, slowConsensusDecreasePercent,
    ledgersInQueue

VARIABLES txnsExpected, recentTxnCounts, escalationMultiplier

metricsVars == <<txnsExpected, recentTxnCounts, escalationMultiplier>>

MetricsInit ==
    /\ txnsExpected = minimumTxnCount
    /\ recentTxnCounts = <<>>
    /\ escalationMultiplier = minimumEscalationMultiplier

mulDiv(value, mul, div) == (value * mul) \div div

-----------------------------------------------------------------------------
(* Element i, from 0, of the fee levels in ascending order: count says how *)
(* many transactions of the ledger pay each level.                         *)
feeLevelAt(count, i) ==
    Min({l \in DOMAIN count : SumFunctionOnSet(count, {k \in DOMAIN count : k <= l}) > i})

Multiplier(count, size) ==
    IF size = 0 THEN minimumEscalationMultiplier
    ELSE Max({(feeLevelAt(count, size \div 2) + feeLevelAt(count, (size - 1) \div 2) + 1) \div 2,
              minimumEscalationMultiplier})

(* Ledgers take too long: clamp down, and forget the recent counts. *)
ClampDown(size) ==
    LET cutPct == 100 - slowConsensusDecreasePercent
        upperLimit == Max({mulDiv(txnsExpected, cutPct, 100), minimumTxnCount})
    IN  /\ txnsExpected' = Min({Max({mulDiv(size, cutPct, 100), minimumTxnCount}), upperLimit})
        /\ recentTxnCounts' = <<>>

(* The counts are kept in a circular buffer of ledgersInQueue entries. *)
PushRecent(n) ==
    LET all == Append(recentTxnCounts, n)
    IN  IF Len(all) > ledgersInQueue THEN Tail(all) ELSE all

(* Grow at once to the largest recent count, shrink slowly towards it. *)
Grow(size) ==
    \E recent \in {PushRecent(mulDiv(size, 100 + normalConsensusIncreasePercent, 100))} :
        LET most == Max({recent[i] : i \in DOMAIN recent})
            next == IF most >= txnsExpected THEN most ELSE (txnsExpected * 9 + most) \div 10
        IN  /\ txnsExpected' = Min({next, maximumTxnCount})
            /\ recentTxnCounts' = recent

update(count, timeLeap) ==
    LET size == SumFunction(count)
    IN  /\ \/ timeLeap /\ ClampDown(size)
           \/ ~timeLeap /\ (size > txnsExpected \/ size > targetTxnCount) /\ Grow(size)
           \/ ~timeLeap /\ size <= txnsExpected /\ size <= targetTxnCount
              /\ UNCHANGED <<txnsExpected, recentTxnCounts>>
        /\ escalationMultiplier' = Multiplier(count, size)

-----------------------------------------------------------------------------
(* What a transaction has to pay when the open ledger holds txCount. *)
scaleFeeLevel(txCount) ==
    IF txCount > txnsExpected
    THEN mulDiv(escalationMultiplier, txCount * txCount, txnsExpected * txnsExpected)
    ELSE baseLevel

sumOfFirstSquares(x) == (x * (x + 1) * (2 * x + 1)) \div 6

(* What seriesSize transactions have to pay together. *)
escalatedSeriesFeeLevel(txCount, seriesSize) ==
    mulDiv(escalationMultiplier,
           sumOfFirstSquares(txCount + seriesSize - 1) - sumOfFirstSquares(txCount - 1),
           txnsExpected * txnsExpected)
=============================================================================
