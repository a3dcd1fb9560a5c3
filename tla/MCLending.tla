----------------------------- MODULE MCLending -----------------------------
(* Finite instances of Lending. *)
EXTENDS Lending, TLC

(* Below every exponent that amounts of at most four digits lead to. *)
MCMinExponent == -40

Terms(principals, rates, totals, over) ==
    [principalRequested : principals, interestRate : rates,
     paymentInterval : {2}, paymentTotal : totals, gracePeriod : {1},
     loanOriginationFee : {1}, loanServiceFee : {1}, latePaymentFee : {1},
     closePaymentFee : {1}, lateInterestRate : {100000},
     closeInterestRate : {5000}, overpaymentFee : {0},
     overpaymentInterestRate : {0}, allowOverpayment : {over}]

BrokerRates(fee, minimum, liquidation) ==
    {[managementFeeRate |-> fee, coverRateMinimum |-> minimum,
      coverRateLiquidation |-> liquidation]}

FundsOf(owner, lender, borrower) ==
    [a \in Accounts |-> IF a \in Owners THEN owner
                        ELSE IF a \in Lenders THEN lender ELSE borrower]

CoreTerms == Terms({7}, {100000}, {2}, FALSE)
CoreFunds == FundsOf(4, 14, 3)
CoreRates == BrokerRates(0, 20000, 50000)

(* One payment, with interest: the price of a share changes. *)
ShareTerms == Terms({4}, {200000}, {1}, FALSE)
ShareFunds == FundsOf(2, 5, 4)
ShareRates == BrokerRates(0, 0, 0)

(* Enough interest for the management fee to be several units. *)
FeeTerms == Terms({16}, {200000}, {2}, FALSE)
FeeFunds == FundsOf(6, 20, 10)

(* Loans that may be overpaid. *)
OverTerms == Terms({16}, {100000}, {3}, TRUE)

FeeRates == BrokerRates(10000, 20000, 50000)

LenderSymmetry == Permutations(Lenders)
=============================================================================
