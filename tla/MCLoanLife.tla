----------------------------- MODULE MCLoanLife -----------------------------
(* Finite instances of LoanLife. *)
EXTENDS LoanLife

(* Below every exponent that amounts of at most four digits lead to. *)
MCMinExponent == -40

Terms(principals, rates, totals, over) ==
    [principalRequested : principals, interestRate : rates,
     paymentInterval : {2}, paymentTotal : totals, gracePeriod : {1},
     loanOriginationFee : {0}, loanServiceFee : {1}, latePaymentFee : {2},
     closePaymentFee : {3}, lateInterestRate : {20000},
     closeInterestRate : {5000}, overpaymentFee : {5000},
     overpaymentInterestRate : {5000}, allowOverpayment : {over}]

(* Small loans, where one unit of rounding is a large part of a payment. *)
SmallTerms == Terms({7, 16}, {0, 20000, 100000}, {3, 5}, FALSE)

OverpaymentTerms == Terms({16, 100}, {100000}, {3}, TRUE)

MCTerms == SmallTerms \cup OverpaymentTerms
MCAmounts(terms) == IF terms.allowOverpayment THEN {13, 18, 60} ELSE {4, 7, 13, 28}
=============================================================================
