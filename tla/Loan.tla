-------------------------------- MODULE Loan --------------------------------
(***************************************************************************)
(* What the Loan transactors do to the loan object alone: LoanSet's checks *)
(* of the terms and the object it creates, and the changes of LoanManage.  *)
(* Payments are in LendingHelpers.  The modules that extend this one add   *)
(* the state around the loan.                                              *)
(***************************************************************************)
EXTENDS LendingHelpers

(* preflight: the ranges of the fields that come with the transaction. *)
ValidTerms(t) ==
    /\ t.principalRequested > 0
    /\ t.loanOriginationFee \in 0..t.principalRequested
    /\ t.paymentTotal > 0
    /\ t.paymentInterval > 0
    /\ t.gracePeriod \in 0..t.paymentInterval

(* preclaim: the last due date must be a std::uint32_t. *)
ScheduleFits(t, startDate) ==
    LET timeAvailable == TimeModulus - 1 - startDate
    IN  /\ t.paymentInterval <= timeAvailable
        /\ t.paymentTotal <= timeAvailable
        /\ timeAvailable \div t.paymentInterval >= t.paymentTotal

PropertiesOf(t, feeRate) ==
    computeLoanProperties(Num(t.principalRequested), t.interestRate,
                          t.paymentInterval, t.paymentTotal, feeRate)

(* doApply: is the rounded loan one that can be repaid as agreed?  The     *)
(* first conjunct is the exception of a division by raisedRate - 1 = 0.    *)
Repayable(t, props, rounded) ==
    LET total    == props.totalValueOutstanding
        interest == total - t.principalRequested
    IN  /\ t.interestRate > 0 => interest > 0
        /\ t.interestRate = 0 => interest <= 0
        /\ props.firstPaymentPrincipal.m > 0
        /\ rounded # 0
        /\ ToInt("upward", Div("upward", Num(total), Num(rounded))) >= t.paymentTotal
        /\ props.managementFeeOwedToBroker >= 0
        /\ total > 0
        /\ props.periodicPayment.m > 0

RepayableWith(t, props) ==
    Repayable(t, props, roundPeriodicPayment(props.periodicPayment))

HasPaymentFactor(r, n) == r.m = 0 \/ PaymentFactorExists(r, n)

LoanGuards(t, feeRate) ==
    /\ HasPaymentFactor(loanPeriodicRate(t.interestRate, t.paymentInterval), t.paymentTotal)
    /\ RepayableWith(t, PropertiesOf(t, feeRate))

LoanAccepted(t, startDate, feeRate) ==
    ValidTerms(t) /\ ScheduleFits(t, startDate) /\ LoanGuards(t, feeRate)

LoanWith(t, broker, borrower, startDate, props) ==
    [terms |-> t, broker |-> broker, borrower |-> borrower,
     principalOutstanding     |-> t.principalRequested,
     totalValueOutstanding    |-> props.totalValueOutstanding,
     managementFeeOutstanding |-> props.managementFeeOwedToBroker,
     periodicPayment          |-> props.periodicPayment,
     paymentRemaining         |-> t.paymentTotal,
     nextPaymentDueDate       |-> startDate + t.paymentInterval,
     previousPaymentDate      |-> 0,
     startDate                |-> startDate,
     impaired |-> FALSE, defaulted |-> FALSE]

NewLoan(t, broker, borrower, startDate, feeRate) ==
    LoanWith(t, broker, borrower, startDate, PropertiesOf(t, feeRate))

(* LoanPay refuses a payment with a negative part. *)
ValidParts(parts) ==
    parts.principalPaid >= 0 /\ parts.interestPaid >= 0 /\ parts.feePaid >= 0

-----------------------------------------------------------------------------
owedToVault(l) == l.totalValueOutstanding - l.managementFeeOutstanding

(* LoanManage::preclaim for each of the three flags. *)
Manageable(l) == ~l.defaulted /\ l.paymentRemaining # 0
CanImpair(l) == Manageable(l) /\ ~l.impaired
CanUnimpair(l) == Manageable(l) /\ l.impaired
CanDefault(l, now) ==
    /\ Manageable(l)
    /\ hasExpired(now, (l.nextPaymentDueDate + l.terms.gracePeriod) % TimeModulus)

(* An impaired loan is due at once. *)
ImpairedLoan(l, now) ==
    [l EXCEPT !.impaired = TRUE,
              !.nextPaymentDueDate = IF hasExpired(now, @) THEN @ ELSE now]

(* An unimpaired one gets its due date back, or a new interval. *)
UnimpairedLoan(l, now) ==
    LET normal == (IntMax(l.previousPaymentDate, l.startDate)
                      + l.terms.paymentInterval) % TimeModulus
    IN  [l EXCEPT !.impaired = FALSE,
                  !.nextPaymentDueDate =
                     IF ~hasExpired(now, normal) THEN normal
                     ELSE (now + l.terms.paymentInterval) % TimeModulus]

DefaultedLoan(l) ==
    [l EXCEPT !.defaulted = TRUE, !.totalValueOutstanding = 0,
              !.paymentRemaining = 0, !.principalOutstanding = 0,
              !.managementFeeOutstanding = 0, !.nextPaymentDueDate = NoDate]
=============================================================================
