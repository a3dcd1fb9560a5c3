------------------------------- MODULE Lending -------------------------------
(***************************************************************************)
(* The lending protocol: one vault, the brokers that lend from it, and     *)
(* their loans.  LoanSet, LoanPay, LoanManage and LoanDelete on top of the *)
(* vault and broker transactions, in any order, while ledgers close.       *)
(*                                                                         *)
(* Loans are named by a slot instead of (broker, sfLoanSequence): a slot   *)
(* is free again after LoanDelete, since nothing remembers a deleted loan. *)
(***************************************************************************)
EXTENDS LoanBroker, Loan, FiniteSets
LOCAL INSTANCE FiniteSetsExt

CONSTANTS Borrowers,    \* accounts that may take loans
          LoanTerms,    \* the terms that loans are asked for with
          PayAmounts,   \* what a LoanPay transaction offers
          OwnerFrozen,  \* subset of BOOLEAN: can the owner be deep frozen?
          LedgerGaps,   \* possible times between two ledger closes
          CloseTimeResolutions,  \* possible resolutions of a close time
          LastClose,    \* the clock stops here
          MaxLoans      \* loans in the ledger at the same time

VARIABLES
    loans,            \* the loan objects by slot, or None
    parentCloseTime,  \* of the ledger being built
    closeTime         \* the estimate it is built with

clockVars == <<parentCloseTime, closeTime>>
vars == <<vaultVars, brokers, loans, clockVars>>

Slots == 1..MaxLoans

Init ==
    /\ VaultInit /\ BrokerInit
    /\ loans = [i \in Slots |-> None]
    /\ parentCloseTime = 1
    /\ closeTime \in {parentCloseTime + r : r \in CloseTimeResolutions}

Now == parentCloseTime
FeeRate(b) == brokers[b].terms.managementFeeRate
LoanExists(i) == loans[i] # None

-----------------------------------------------------------------------------
(* The first free slot; the choice of a name makes no difference. *)
FreeSlot(i) == ~LoanExists(i) /\ \A j \in 1..(i - 1) : LoanExists(j)

(* What LoanSet does once the terms are accepted as the loan new. *)
Lend(i, new, debtDelta) ==
    LET b         == new.broker
        principal == new.terms.principalRequested
        fee       == new.terms.loanOriginationFee
        broker    == [brokers[b] EXCEPT !.debtTotal = @ + debtDelta,
                                        !.ownerCount = @ + 1]
        v         == [vault EXCEPT !.assetsAvailable = @ - principal,
                                   !.assetsTotal = @ + debtDelta - principal]
    IN  /\ broker.debtMaximum # 0 => broker.debtMaximum >= broker.debtTotal
        /\ ~Lt(Num(broker.coverAvailable), MinimumCover(broker))
        /\ ValidVault(v)
        /\ vault' = v
        /\ brokers' = [brokers EXCEPT ![b] = broker]
        /\ loans' = [loans EXCEPT ![i] = new]
        /\ ownerCount' = [ownerCount EXCEPT ![new.borrower] = @ + 1]
        /\ balance' = Send(Send(balance, VaultAccount, new.borrower, principal - fee),
                           VaultAccount, BrokerOwner, fee)
        /\ UNCHANGED <<shares, holders, clockVars>>

LendOn(i, new) == Lend(i, new, new.principalOutstanding + InterestDue(new))

LoanSet(i, b, borrower, t) ==
    /\ FreeSlot(i) /\ BrokerExists(b)
    /\ vault.assetsAvailable >= t.principalRequested
    /\ LoanAccepted(t, closeTime, FeeRate(b))
    /\ LendOn(i, NewLoan(t, b, borrower, closeTime, FeeRate(b)))

-----------------------------------------------------------------------------
(* LoanPay unimpairs first.  It ignores the error unimpairLoan returns     *)
(* when the unrealized loss is too small to take the loan's share off.     *)
Unimpairs(i) == loans[i].impaired /\ vault.lossUnrealized >= owedToVault(loans[i])

PaidLoan(i) == IF Unimpairs(i) THEN UnimpairedLoan(loans[i], Now) ELSE loans[i]

(* kind is the flag of the transaction. *)
PaymentResult(i, amount, kind) ==
    LET fee == FeeRate(loans[i].broker)
    IN  IF kind = "full" THEN loanMakeFullPayment(PaidLoan(i), Now, amount, fee)
        ELSE loanMakePayment(PaidLoan(i), Now, amount, kind = "overpayment", fee)

(* Mutant: the unrealized loss stays. *)
PaidVaultStillImpaired(i, parts) ==
    [vault EXCEPT
        !.assetsAvailable = @ + parts.principalPaid + parts.interestPaid,
        !.assetsTotal = @ + parts.valueChange]

(* The vault after a payment with the given parts. *)
PaidVault(i, parts) ==
    [vault EXCEPT
        !.lossUnrealized = @ - (IF Unimpairs(i) THEN owedToVault(loans[i]) ELSE 0),
        !.assetsAvailable = @ + parts.principalPaid + parts.interestPaid,
        !.assetsTotal = @ + parts.valueChange]

(* The broker's fee goes to the owner while the cover is sufficient. *)
FeeToOwner(b, ownerFrozen) ==
    /\ brokers[b].coverAvailable >= roundToAsset(MinimumCover(brokers[b]), Nearest)
    /\ ~ownerFrozen

(* Mutant: the debt forgets that the loan's value changed. *)
DebtLessPayment(debt, parts) ==
    IntMax(0, debt - (parts.principalPaid + parts.interestPaid))

DebtLeft(debt, parts) ==
    IntMax(0, debt - (parts.principalPaid + parts.interestPaid - parts.valueChange))

(* Mutant: the fee goes to the vault when the cover should get it. *)
PayeeOfVault(i, ownerFrozen) ==
    IF FeeToOwner(loans[i].broker, ownerFrozen) THEN BrokerOwner ELSE VaultAccount

Payee(i, ownerFrozen) ==
    IF FeeToOwner(loans[i].broker, ownerFrozen) THEN BrokerOwner ELSE loans[i].broker

(* What LoanPay does with the result of the payment functions. *)
Distribute(i, result, payee) ==
    LET b       == loans[i].broker
        parts   == result.parts
        toVault == parts.principalPaid + parts.interestPaid
    IN  /\ result.ok
        /\ ValidParts(parts)
        /\ ValidVault(PaidVault(i, parts))
        /\ vault' = PaidVault(i, parts)
        /\ brokers' = [brokers EXCEPT
              ![b].debtTotal = DebtLeft(@, parts),
              ![b].coverAvailable = @ + (IF payee = b THEN parts.feePaid ELSE 0)]
        /\ loans' = [loans EXCEPT ![i] = result.loan]
        /\ balance' = Send(Send(balance, loans[i].borrower, VaultAccount, toVault),
                           loans[i].borrower, payee, parts.feePaid)
        /\ UNCHANGED <<shares, holders, ownerCount, clockVars>>

(* Mutant: the borrower need not have the amount. *)
LoanPayOnCredit(i, amount, kind, ownerFrozen) ==
    /\ LoanExists(i)
    /\ kind = "overpayment" => loans[i].terms.allowOverpayment
    /\ Distribute(i, PaymentResult(i, amount, kind), Payee(i, ownerFrozen))

LoanPay(i, amount, kind, ownerFrozen) ==
    /\ LoanExists(i)
    /\ balance[loans[i].borrower] >= amount
    /\ kind = "overpayment" => loans[i].terms.allowOverpayment
    /\ Distribute(i, PaymentResult(i, amount, kind), Payee(i, ownerFrozen))

-----------------------------------------------------------------------------
(* LoanManage with each of its flags. *)

LoanImpair(i) ==
    LET v == [vault EXCEPT !.lossUnrealized = @ + owedToVault(loans[i])]
    IN  /\ LoanExists(i) /\ CanImpair(loans[i])
        /\ v.lossUnrealized <= v.assetsTotal - v.assetsAvailable
        /\ ValidVault(v)
        /\ vault' = v
        /\ loans' = [loans EXCEPT ![i] = ImpairedLoan(@, Now)]
        /\ UNCHANGED <<shares, holders, balance, ownerCount, brokers, clockVars>>

LoanUnimpair(i) ==
    /\ LoanExists(i) /\ CanUnimpair(loans[i])
    /\ vault.lossUnrealized >= owedToVault(loans[i])
    /\ vault' = [vault EXCEPT !.lossUnrealized = @ - owedToVault(loans[i])]
    /\ ValidVault(vault')
    /\ loans' = [loans EXCEPT ![i] = UnimpairedLoan(@, Now)]
    /\ UNCHANGED <<shares, holders, balance, ownerCount, brokers, clockVars>>

(* The part of a default that the first-loss cover pays. *)
DefaultCovered(i) ==
    LET broker == brokers[loans[i].broker]
    IN  roundToAsset(MinNumber(tenthBipsOfValue(MinimumCover(broker),
                                                broker.terms.coverRateLiquidation),
                               Num(owedToVault(loans[i]))), Nearest)

Liquidate(i, covered) ==
    LET b    == loans[i].broker
        owed == owedToVault(loans[i])
        v    == [vault EXCEPT
                   !.assetsTotal = @ - (owed - covered),
                   !.assetsAvailable = @ + covered,
                   !.lossUnrealized = @ - (IF loans[i].impaired THEN owed ELSE 0)]
    IN  /\ v.assetsTotal >= 0 /\ v.assetsAvailable <= v.assetsTotal
        /\ v.lossUnrealized >= 0
        /\ brokers[b].debtTotal >= owed /\ brokers[b].coverAvailable >= covered
        /\ ValidVault(v)
        /\ vault' = v
        /\ brokers' = [brokers EXCEPT ![b].debtTotal = @ - owed,
                                      ![b].coverAvailable = @ - covered]
        /\ loans' = [loans EXCEPT ![i] = DefaultedLoan(@)]
        /\ balance' = Send(balance, b, VaultAccount, covered)
        /\ UNCHANGED <<shares, holders, ownerCount, clockVars>>

LoanDefault(i) ==
    LoanExists(i) /\ CanDefault(loans[i], Now) /\ Liquidate(i, DefaultCovered(i))

(* Mutant: the borrower's owner count stays. *)
LoanDeleteUncounted(i) ==
    /\ LoanExists(i) /\ loans[i].paymentRemaining = 0
    /\ loans' = [loans EXCEPT ![i] = None]
    /\ brokers' = [brokers EXCEPT ![loans[i].broker].ownerCount = @ - 1]
    /\ UNCHANGED <<vault, shares, holders, balance, ownerCount, clockVars>>

LoanDelete(i) ==
    /\ LoanExists(i) /\ loans[i].paymentRemaining = 0
    /\ loans' = [loans EXCEPT ![i] = None]
    /\ brokers' = [brokers EXCEPT ![loans[i].broker].ownerCount = @ - 1]
    /\ ownerCount' = [ownerCount EXCEPT ![loans[i].borrower] = @ - 1]
    /\ UNCHANGED <<vault, shares, holders, balance, clockVars>>

(* The next ledger is built with an estimate of its close time, that of    *)
(* its parent plus the resolution, which consensus then replaces by a time *)
(* at least one second after the parent's.                                 *)
NewLedger ==
    /\ parentCloseTime < LastClose
    /\ \E gap \in LedgerGaps, resolution \in CloseTimeResolutions :
         /\ parentCloseTime' = parentCloseTime + gap
         /\ closeTime' = parentCloseTime + gap + resolution
    /\ UNCHANGED <<vaultVars, brokers, loans>>

-----------------------------------------------------------------------------
BrokerLinked == \E b \in Brokers : BrokerExists(b)

LoanNext ==
    \/ \E i \in Slots, b \in Brokers, borrower \in Borrowers, t \in LoanTerms :
          LoanSet(i, b, borrower, t)
    \/ \E i \in Slots, amount \in PayAmounts,
          kind \in {"regular", "overpayment", "full"}, frozen \in OwnerFrozen :
          LoanPay(i, amount, kind, frozen)
    \/ \E i \in Slots : LoanImpair(i)
    \/ \E i \in Slots : LoanUnimpair(i)
    \/ \E i \in Slots : LoanDefault(i)
    \/ \E i \in Slots : LoanDelete(i)

Next ==
    \/ VaultNext(BrokerLinked) /\ UNCHANGED <<brokers, loans, clockVars>>
    \/ BrokerNext /\ UNCHANGED <<loans, clockVars>>
    \/ LoanNext
    \/ NewLedger

Spec == Init /\ [][Next]_vars
-----------------------------------------------------------------------------
Dates == 0..(TimeModulus - 1)
Existing == {i \in Slots : LoanExists(i)}

(* No amount, balance or count ever goes below zero, and every loan's      *)
(* amounts have the signs ValidLoan asks for.                              *)
TypeOK ==
    /\ \A h \in Holdings : balance[h] \in Nat
    /\ \A a \in Accounts : shares[a] \in Nat /\ ownerCount[a] \in Nat
    /\ holders \subseteq Accounts
    /\ vault # None =>
         /\ vault.owner \in Accounts
         /\ vault.lossUnrealized \in Nat /\ vault.sharesTotal \in Nat
    /\ \A b \in Brokers : BrokerExists(b) =>
         brokers[b].debtTotal \in Nat /\ brokers[b].coverAvailable \in Nat
    /\ \A i \in Existing :
         /\ loans[i].principalOutstanding \in Nat
         /\ loans[i].totalValueOutstanding \in Nat
         /\ loans[i].managementFeeOutstanding \in Nat
         /\ loans[i].nextPaymentDueDate \in Dates \cup {NoDate}
    /\ parentCloseTime \in Dates /\ closeTime \in Dates

(* The share issuance is what the accounts hold, and exactly the vault's   *)
(* owner and the accounts with shares have an MPToken for them: deposits,  *)
(* withdrawals and clawbacks create and remove it at the right moment.     *)
SharesAddUp ==
    IF vault = None THEN holders = {} /\ \A a \in Accounts : shares[a] = 0
    ELSE /\ vault.sharesTotal = MapThenSumSet(LAMBDA a : shares[a], Accounts)
         /\ holders = {vault.owner} \cup {a \in Accounts : shares[a] > 0}

(* Deletion never leaves an object behind and nothing is counted twice: a  *)
(* loan's broker and a broker's vault exist, and owner counts are the      *)
(* numbers of objects owned.  An account owns the vault (with the owner's  *)
(* MPToken), an MPToken of another holder, two objects per broker and the  *)
(* loans it has taken; a broker owns its loans.                            *)
OwnershipAgrees ==
    /\ TypeOK
    /\ BrokerLinked => vault # None
    /\ \A i \in Existing : BrokerExists(loans[i].broker)
    /\ \A b \in Brokers : BrokerExists(b) =>
         brokers[b].ownerCount = Cardinality({i \in Existing : loans[i].broker = b})
    /\ \A a \in Accounts :
         ownerCount[a] =
           (IF vault # None /\ a = vault.owner
            THEN 2 + 2 * Cardinality({b \in Brokers : BrokerExists(b)})
            ELSE IF a \in holders THEN 1 ELSE 0)
           + Cardinality({i \in Existing : loans[i].borrower = a})

(* Loan_test.cpp (LoanVerifier of the tests): "expectedDebt =              *)
(* principalOutstanding + interestOwed", which the broker's debt equals.   *)
BrokerDebtAgrees ==
    \A b \in Brokers : BrokerExists(b) =>
      brokers[b].debtTotal =
        MapThenSumSet(LAMBDA i : owedToVault(loans[i]),
                      {i \in Existing : loans[i].broker = b})

(* What redeeming s shares of vault v pays. *)
Worth(v, s) == IF s = 0 THEN 0 ELSE sharesToAssetsWithdraw(v, s)

(* Deposits, withdrawals and clawbacks round shares and assets separately, *)
(* but at no one else's expense: as long as the loans do not change, what  *)
(* an account would get for the shares it keeps falls by one unit at most. *)
OthersKeepTheirWorth ==
    [][\A a \in Accounts :
         /\ loans' = loans /\ vault # None /\ vault' # None
         /\ shares'[a] = shares[a]
         => Worth(vault', shares[a]) >= Worth(vault, shares[a]) - 1]_vars

(* Whatever is deposited next, up to doubling the vault, redeeming the new *)
(* shares at once pays no more than they cost, although the conversions go *)
(* by different totals and both round to the nearest unit.                 *)
NoGainFromRoundTrip ==
    vault # None =>
      \A amount \in 1..vault.assetsTotal :
        \A created \in {assetsToSharesDeposit(vault, amount)} \ {0} :
          \A paid \in {sharesToAssetsDeposit(vault, created)} :
            sharesToAssetsWithdraw(
                [vault EXCEPT !.assetsTotal = @ + paid, !.sharesTotal = @ + created],
                created) <= paid

(* No payment that the payment functions accept is thrown away by the      *)
(* invariant checker: the parts always add up to a valid vault.            *)
PaymentsKeepVaultValid ==
    \A i \in Existing, amount \in PayAmounts, kind \in {"regular", "full"} :
      \A result \in {PaymentResult(i, amount, kind)} :
        result.ok /\ ValidParts(result.parts) => ValidVault(PaidVault(i, result.parts))

(* The cover a broker is to keep for its debt. *)
CoverSuffices(broker) ==
    broker.coverAvailable >= roundToAsset(MinimumCover(broker), Nearest)


-----------------------------------------------------------------------------
(* The books of this module, as LendingLedger has them. *)
Anyone == CHOOSE b \in Brokers : TRUE
MostAssets == MapThenSumSet(LAMBDA a : Funds[a], Accounts)

Ledger ==
    INSTANCE LendingLedger WITH
        N         <- MaxLoans,
        Amounts   <- 0..MostAssets,
        Changes   <- (-MostAssets)..MostAssets,
        total     <- IF vault = None THEN 0 ELSE vault.assetsTotal,
        available <- IF vault = None THEN 0 ELSE vault.assetsAvailable,
        loss      <- IF vault = None THEN 0 ELSE vault.lossUnrealized,
        cash      <- balance[VaultAccount],
        debt      <- [b \in Brokers |-> IF BrokerExists(b) THEN brokers[b].debtTotal ELSE 0],
        cover     <- [b \in Brokers |-> IF BrokerExists(b) THEN brokers[b].coverAvailable ELSE 0],
        coverCash <- [b \in Brokers |-> balance[b]],
        owed      <- [i \in Slots |-> IF LoanExists(i) THEN owedToVault(loans[i]) ELSE 0],
        impaired  <- [i \in Slots |->
                        LoanExists(i) /\ loans[i].impaired /\ ~loans[i].defaulted],
        brokerOf  <- [i \in Slots |-> IF LoanExists(i) THEN loans[i].broker ELSE Anyone]

(* Every transaction is one of LendingLedger's, or changes none of its     *)
(* books: whatever the roundings, an amount that leaves one book arrives   *)
(* in another.                                                             *)
ImplementsLedger == Ledger!Spec
=============================================================================
