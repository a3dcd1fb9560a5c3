----------------------------- MODULE LoanBroker -----------------------------
(***************************************************************************)
(* Loan brokers (XLS-66): LoanBrokerSet, LoanBrokerDelete and the three    *)
(* transactions on the first-loss cover, LoanBrokerCoverDeposit,           *)
(* LoanBrokerCoverWithdraw and LoanBrokerCoverClawback.                    *)
(***************************************************************************)
EXTENDS Vault

CONSTANTS BrokerTerms,   \* records [managementFeeRate, coverRateMinimum, coverRateLiquidation]
          DebtMaximums,  \* values of sfDebtMaximum; 0 is no limit
          CoverAmounts   \* amounts of the asset in cover transactions

VARIABLE brokers  \* the broker objects, or None

(* The owner of every broker is the owner of its vault: LoanBrokerSet      *)
(* insists on it and neither object ever changes hands.                    *)
BrokerOwner == vault.owner

BrokerInit == brokers = [b \in Brokers |-> None]

BrokerExists(b) == brokers[b] # None

MinimumCover(broker) ==
    tenthBipsOfValue(Num(broker.debtTotal), broker.terms.coverRateMinimum)

(* LoanBrokerSet without and with a LoanBrokerID. *)
LoanBrokerCreate(b, terms, debtMaximum) ==
    /\ vault # None /\ ~BrokerExists(b)
    /\ brokers' = [brokers EXCEPT ![b] =
          [terms |-> terms, debtMaximum |-> debtMaximum, debtTotal |-> 0,
           coverAvailable |-> 0, ownerCount |-> 0]]
    /\ ownerCount' = [ownerCount EXCEPT ![BrokerOwner] = @ + 2]
    /\ UNCHANGED <<vault, shares, holders, balance>>

LoanBrokerModify(b, debtMaximum) ==
    /\ BrokerExists(b)
    /\ brokers' = [brokers EXCEPT ![b].debtMaximum = debtMaximum]
    /\ UNCHANGED vaultVars

(* Mutant: with loans that still name the broker. *)
LoanBrokerDeleteAnyway(b) ==
    /\ BrokerExists(b)
    /\ balance[b] = brokers[b].coverAvailable
    /\ balance' = Send(balance, b, BrokerOwner, brokers[b].coverAvailable)
    /\ brokers' = [brokers EXCEPT ![b] = None]
    /\ ownerCount' = [ownerCount EXCEPT ![BrokerOwner] = @ - 2]
    /\ UNCHANGED <<vault, shares, holders>>

(* The cover goes back to the owner; any other balance of the              *)
(* pseudo-account keeps its holding from being removed.                    *)
LoanBrokerDelete(b) ==
    /\ BrokerExists(b)
    /\ brokers[b].ownerCount = 0
    /\ balance[b] = brokers[b].coverAvailable
    /\ balance' = Send(balance, b, BrokerOwner, brokers[b].coverAvailable)
    /\ brokers' = [brokers EXCEPT ![b] = None]
    /\ ownerCount' = [ownerCount EXCEPT ![BrokerOwner] = @ - 2]
    /\ UNCHANGED <<vault, shares, holders>>

LoanBrokerCoverDeposit(b, amount) ==
    /\ BrokerExists(b)
    /\ amount > 0 /\ balance[BrokerOwner] >= amount
    /\ balance' = Send(balance, BrokerOwner, b, amount)
    /\ brokers' = [brokers EXCEPT ![b].coverAvailable = @ + amount]
    /\ UNCHANGED <<vault, shares, holders, ownerCount>>


LoanBrokerCoverWithdraw(b, destination, amount) ==
    /\ BrokerExists(b)
    /\ amount > 0 /\ brokers[b].coverAvailable >= amount
    /\ brokers[b].coverAvailable - amount
          >= roundToAsset(MinimumCover(brokers[b]), Nearest)
    /\ balance[b] >= amount
    /\ balance' = Send(balance, b, destination, amount)
    /\ brokers' = [brokers EXCEPT ![b].coverAvailable = @ - amount]
    /\ UNCHANGED <<vault, shares, holders, ownerCount>>

(* determineClawAmount: what is above the minimum, at most the amount; an  *)
(* amount of 0 takes it all.                                               *)
MaxClawAmount(broker) ==
    Sub(Nearest, Num(broker.coverAvailable), MinimumCover(broker))

ClawAmount(max, amount) ==
    IF amount = 0 \/ Lt(max, Num(amount)) THEN roundToAsset(max, Nearest) ELSE amount

Claw(b, claw) ==
    /\ balance[b] >= claw
    /\ brokers' = [brokers EXCEPT ![b].coverAvailable = @ - claw]
    /\ balance' = [balance EXCEPT ![b] = @ - claw]
    /\ UNCHANGED <<vault, shares, holders, ownerCount>>

ClawUpTo(b, max, amount) == max.m > 0 /\ Claw(b, ClawAmount(max, amount))

LoanBrokerCoverClawback(b, amount) ==
    BrokerExists(b) /\ ClawUpTo(b, MaxClawAmount(brokers[b]), amount)

BrokerNext ==
    \E b \in Brokers :
      \/ \E terms \in BrokerTerms, debtMaximum \in DebtMaximums :
            LoanBrokerCreate(b, terms, debtMaximum)
      \/ \E debtMaximum \in DebtMaximums : LoanBrokerModify(b, debtMaximum)
      \/ LoanBrokerDelete(b)
      \/ \E amount \in CoverAmounts : LoanBrokerCoverDeposit(b, amount)
      \/ /\ BrokerExists(b)
         /\ \E destination \in {BrokerOwner} \cup Destinations, amount \in CoverAmounts :
               LoanBrokerCoverWithdraw(b, destination, amount)
      \/ \E amount \in ClawAmounts : LoanBrokerCoverClawback(b, amount)
=============================================================================
