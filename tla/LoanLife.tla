------------------------------ MODULE LoanLife ------------------------------
(***************************************************************************)
(* One loan object from the ledger that creates it to the one that ends    *)
(* it.  This is the payment and rounding algorithm on its own: the vault,  *)
(* the broker and the balances the same transactions change are in module  *)
(* Lending.  Here a loan can be followed for many more terms and amounts,  *)
(* through every order of regular, late, full and over-payments and of     *)
(* impairment.                                                             *)
(***************************************************************************)
EXTENDS Loan

CONSTANTS LoanTerms,   \* the terms that loans are asked for with
          FeeRates,    \* management fee rates of the broker
          Amounts(_),  \* what a LoanPay transaction offers, for a loan's terms
          LedgerGaps,  \* possible times between two ledger closes
          CloseTimeResolutions,  \* of the ledger that creates the loan
          LastClose    \* the clock stops here

VARIABLES
    loan,
    feeRate,          \* sfManagementFeeRate of the broker
    parentCloseTime,  \* of the ledger being built
    paid              \* the parts of all the payments so far, added up

vars == <<loan, feeRate, parentCloseTime, paid>>

NothingPaid == [principalPaid |-> 0, interestPaid |-> 0,
                valueChange |-> 0, feePaid |-> 0]

(* While a ledger is built its close time is an estimate: that of its      *)
(* parent plus the close time resolution.                                  *)
Init ==
    /\ parentCloseTime = 1
    /\ feeRate \in FeeRates
    /\ \E t \in LoanTerms, resolution \in CloseTimeResolutions :
         /\ LoanAccepted(t, parentCloseTime + resolution, feeRate)
         /\ loan = NewLoan(t, "broker", "borrower", parentCloseTime + resolution, feeRate)
    /\ paid = NothingPaid

(* The loan as LoanPay hands it to the payment functions. *)
LoanToPay ==
    IF loan.impaired THEN UnimpairedLoan(loan, parentCloseTime) ELSE loan

Take(result) ==
    /\ result.ok /\ ValidParts(result.parts)
    /\ loan' = result.loan
    /\ paid' = AddParts(paid, result.parts)
    /\ UNCHANGED <<feeRate, parentCloseTime>>

Pay(amount, overpayment) ==
    /\ overpayment => loan.terms.allowOverpayment
    /\ Take(loanMakePayment(LoanToPay, parentCloseTime, amount, overpayment, feeRate))

PayInFull(amount) ==
    Take(loanMakeFullPayment(LoanToPay, parentCloseTime, amount, feeRate))

Change(new) ==
    loan' = new /\ UNCHANGED <<feeRate, parentCloseTime, paid>>

Impair == CanImpair(loan) /\ Change(ImpairedLoan(loan, parentCloseTime))
Unimpair == CanUnimpair(loan) /\ Change(UnimpairedLoan(loan, parentCloseTime))
Default == CanDefault(loan, parentCloseTime) /\ Change(DefaultedLoan(loan))

(* The next ledger; consensus has replaced the estimate of the close time  *)
(* by a time at least one second after the parent's.                       *)
NewLedger ==
    /\ parentCloseTime < LastClose
    /\ \E gap \in LedgerGaps : parentCloseTime' = parentCloseTime + gap
    /\ UNCHANGED <<loan, feeRate, paid>>

Next ==
    \/ \E amount \in Amounts(loan.terms), overpayment \in BOOLEAN : Pay(amount, overpayment)
    \/ \E amount \in Amounts(loan.terms) : PayInFull(amount)
    \/ Impair
    \/ Unimpair
    \/ Default
    \/ NewLedger

Spec == Init /\ [][Next]_vars

-----------------------------------------------------------------------------
Dates == 0..(TimeModulus - 1)

(* The fields of the loan keep the types the ledger format gives them: no  *)
(* amount goes negative, whatever the payments.                            *)
TypeOK ==
    /\ loan.principalOutstanding \in Nat
    /\ loan.totalValueOutstanding \in Nat
    /\ loan.managementFeeOutstanding \in Nat
    /\ loan.periodicPayment.m > 0
    /\ loan.paymentRemaining \in 0..loan.terms.paymentTotal
    /\ loan.nextPaymentDueDate \in Dates \cup {NoDate}
    /\ loan.previousPaymentDate \in Dates
    /\ paid.principalPaid \in Nat /\ paid.interestPaid \in Nat /\ paid.feePaid \in Nat

(* A loan whose payments are all made owes nothing, and one with payments  *)
(* to make can make them: it still owes principal and has a due date, both *)
(* of which loanMakePayment insists on.                                    *)
OverExactlyWhenRepaid ==
    /\ TypeOK
    /\ IF loan.paymentRemaining = 0
       THEN /\ loan.principalOutstanding = 0 /\ loan.totalValueOutstanding = 0
            /\ loan.managementFeeOutstanding = 0 /\ loan.nextPaymentDueDate = NoDate
       ELSE /\ loan.principalOutstanding > 0
            /\ loan.nextPaymentDueDate # NoDate

(* What is repaid and what is outstanding are together what was lent, to   *)
(* the unit, although every payment rounds its parts; and the rounding     *)
(* loses no interest either: what is received and what is due are what the *)
(* vault was promised at the start, changed only by the reported           *)
(* valueChanges.  The payment that ends the loan may bring the vault more  *)
(* than that but never less.  Interest is not followed through             *)
(* overpayments: what they save is reported as paid and as value change.   *)
RepaymentsAddUp ==
    LET promised == InterestDue(NewLoan(loan.terms, "broker", "borrower",
                                        loan.startDate, feeRate))
        received == paid.interestPaid - paid.valueChange
    IN  ~loan.defaulted =>
          /\ paid.principalPaid + loan.principalOutstanding = loan.terms.principalRequested
          /\ ~loan.terms.allowOverpayment =>
               IF loan.paymentRemaining > 0 THEN received + InterestDue(loan) = promised
                                            ELSE received >= promised

(* Whatever is offered next, but as an overpayment, the parts that LoanPay *)
(* then distributes are non-negative and together at most the amount       *)
(* offered (the assertion "amount is sufficient" of LoanPay::doApply).     *)
PaymentsWithinAmount ==
    \A amount \in Amounts(loan.terms) :
      \A result \in {loanMakePayment(LoanToPay, parentCloseTime, amount, FALSE, feeRate),
                     loanMakeFullPayment(LoanToPay, parentCloseTime, amount, feeRate)} :
        result.ok =>
          /\ result.parts.principalPaid >= 0 /\ result.parts.interestPaid >= 0
          /\ result.parts.feePaid >= 0
          /\ result.parts.principalPaid + result.parts.interestPaid
                + result.parts.feePaid <= amount
=============================================================================
