--------------------------- MODULE LendingHelpers ---------------------------
(***************************************************************************)
(* The arithmetic of a loan (app/misc/LendingHelpers.h, detail/            *)
(* LendingHelpers.cpp): its periodic payment and total value, the parts a  *)
(* payment is split into, and what late, full and over-payments add.       *)
(*                                                                         *)
(* The vault's asset is integral (XRP or an MPT).  Every amount that is    *)
(* stored in whole units of the asset is an integer here; the periodic     *)
(* payment, the rates and every "raw" value is a Number.  Sums of integers *)
(* of at most P digits are exact in Number, so the two agree.              *)
(***************************************************************************)
EXTENDS Number

CONSTANTS SecondsPerYear,  \* 365 * 24 * 60 * 60 in the code; the clock's unit
          TimeModulus,     \* 2^32 in the code: dates are std::uint32_t
          loanMaximumPaymentsPerTransaction  \* 100 in the code

ASSUME HelpersAssumption ==
    /\ SecondsPerYear \in Nat \ {0}
    /\ TimeModulus \in Nat \ {0}
    /\ loanMaximumPaymentsPerTransaction \in Nat \ {0}

tenthBipsPerUnity == 100000

(* The mode in force unless the code names another. *)
Nearest == "to_nearest"
Num(i) == FromInt(Nearest, i)

IntMax(i, j) == IF i < j THEN j ELSE i
IntMin(i, j) == IF j < i THEN j ELSE i

(* roundToAsset for an integral asset: STAmount's constructor canonicalises *)
(* the value to whole units.  Values with an offset of -20 or less (that is *)
(* 10^-(P+4) for the sixteen digits of the code) are dropped whatever the   *)
(* rounding mode.                                                           *)
roundToAsset(x, mode) == IF x.e <= -(P + 4) THEN 0 ELSE ToInt(mode, x)

roundPeriodicPayment(x) == roundToAsset(x, "upward")

tenthBipsOfValue(x, bips) ==
    Div(Nearest, Mul(Nearest, x, Num(bips)), Num(tenthBipsPerUnity))

-----------------------------------------------------------------------------
(* Rates and the amortisation formulas of XLS-66. *)

loanPeriodicRate(rate, interval) ==
    Div(Nearest, tenthBipsOfValue(Num(interval), rate), Num(SecondsPerYear))

computeRaisedRate(r, n) == Power(Nearest, Add(Nearest, One, r), n)

(* The code divides by raisedRate - 1, and throws when the rate is too     *)
(* small for 1 + r to differ from 1.                                       *)
PaymentFactorExists(r, n) == computeRaisedRate(r, n) # One

PaymentFactor(r, raised) ==
    Div(Nearest, Mul(Nearest, r, raised), Sub(Nearest, raised, One))

computePaymentFactor(r, n) == PaymentFactor(r, computeRaisedRate(r, n))

loanPeriodicPayment(principal, r, n) ==
    IF principal.m = 0 \/ n = 0 THEN Zero
    ELSE IF r.m = 0 THEN Div(Nearest, principal, Num(n))
    ELSE Mul(Nearest, principal, computePaymentFactor(r, n))

loanPrincipalFromPeriodicPayment(payment, r, n) ==
    IF r.m = 0 THEN Mul(Nearest, payment, Num(n))
    ELSE Div(Nearest, payment, computePaymentFactor(r, n))

(* What the schedule says is outstanding, before any rounding. *)
RawState(value, principal, interest, feeRate) ==
    [value |-> value, principal |-> principal, interest |-> interest,
     fee |-> tenthBipsOfValue(interest, feeRate)]

RawStateOf(value, principal, feeRate) ==
    RawState(value, principal, Sub(Nearest, value, principal), feeRate)

calculateRawLoanState(payment, r, n, feeRate) ==
    IF n = 0
    THEN [value |-> Zero, principal |-> Zero, interest |-> Zero, fee |-> Zero]
    ELSE RawStateOf(Mul(Nearest, payment, Num(n)),
                    loanPrincipalFromPeriodicPayment(payment, r, n), feeRate)

(* The management fee on an amount of interest. *)
computeFee(value, feeRate) ==
    roundToAsset(tenthBipsOfValue(value, feeRate), "downward")

-----------------------------------------------------------------------------
(* The parts of one regular payment. *)

(* How far a stored amount is ahead of the schedule's. *)
RoundingError(stored, raw) ==
    roundToAsset(Sub(Nearest, Num(stored), raw), "downward")

(* A part of the payment, within the payment and what is outstanding. *)
Bounded(part, payment, outstanding) ==
    IF part > payment \/ part > outstanding THEN IntMin(payment, outstanding)
    ELSE IntMax(0, part)

computeRoundedPrincipalComponent(outstanding, rawOutstanding, rawPrincipal, payment) ==
    Bounded(roundToAsset(Add(Nearest, rawPrincipal,
                             Num(RoundingError(outstanding, rawOutstanding))),
                         "downward"),
            payment, outstanding)

computeRoundedInterestComponent(outstanding, principal, rawOutstanding, payment) ==
    IntMax(0, payment - principal + RoundingError(outstanding, rawOutstanding))

(* Interest and fee together: first each within what is outstanding, then  *)
(* what exceeds the payment comes off the interest and then off the fee.   *)
FeeComponent(gross, outstanding, raw, feeRate) ==
    IntMin(outstanding, IntMax(0, computeFee(Num(gross), feeRate)
                                     + RoundingError(outstanding, raw.fee)))

TakeOff(interest, fee, over) ==
    [interest |-> interest - IntMin(interest, over),
     fee      |-> fee - IntMin(fee, over - IntMin(interest, over))]

WithinPayment(interest, fee, principal, payment) ==
    TakeOff(interest, fee, IntMax(0, principal + interest + fee - payment))

InterestGivenFee(gross, fee, outstanding, principal, payment) ==
    WithinPayment(IntMin(outstanding, IntMax(0, gross - fee)), fee, principal, payment)

InterestAndFee(gross, outstanding, feeOutstanding, principal, raw, payment, feeRate) ==
    InterestGivenFee(gross, FeeComponent(gross, feeOutstanding, raw, feeRate),
                     outstanding, principal, payment)

computeRoundedInterestAndFeeComponents(interest, fee, principal, raw, payment, r, feeRate) ==
    IF r.m = 0 THEN [interest |-> 0, fee |-> 0]
    ELSE InterestAndFee(computeRoundedInterestComponent(
                           interest, principal, raw.interest, payment),
                        interest, fee, principal, raw,
                        payment, feeRate)

(* PaymentComponents of the loan's next payment: value, principal and fee  *)
(* are the tracked deltas, final is specialCase == final.                  *)
FinalComponents(totalValue, principal, fee, rawPrincipal) ==
    [value     |-> IntMax(0, totalValue - principal - fee) + principal + fee,
     principal |-> principal, fee |-> fee, final |-> TRUE,
     rawPrincipal |-> rawPrincipal]

Components(principal, split, rawPrincipal) ==
    [value     |-> split.interest + principal + split.fee,
     principal |-> principal, fee |-> split.fee, final |-> FALSE,
     rawPrincipal |-> rawPrincipal]

SplitPayment(totalValue, outstanding, fee, principal, rounded, raw, rawPrin, r, feeRate) ==
    Components(principal,
               computeRoundedInterestAndFeeComponents(
                  totalValue - outstanding, fee, principal, raw, rounded, r, feeRate),
               rawPrin)

RegularComponents(totalValue, principal, fee, rounded, raw, rawPrincipal, r, feeRate) ==
    SplitPayment(totalValue, principal, fee,
                 computeRoundedPrincipalComponent(
                    principal, raw.principal, rawPrincipal, rounded),
                 rounded, raw, rawPrincipal, r, feeRate)

ComponentsFromRaw(totalValue, principal, fee, payment, rounded, raw, r, n, feeRate) ==
    IF n = 1 \/ totalValue <= rounded
    THEN FinalComponents(totalValue, principal, fee, raw.principal)
    ELSE RegularComponents(totalValue, principal, fee, rounded, raw,
                           Sub(Nearest, payment, Mul(Nearest, raw.principal, r)),
                           r, feeRate)

computePaymentComponents(totalValue, principal, fee, payment, r, n, feeRate) ==
    ComponentsFromRaw(totalValue, principal, fee, payment,
                      roundPeriodicPayment(payment),
                      calculateRawLoanState(payment, r, n, feeRate), r, n, feeRate)

(* The periodic payment and the totals a loan starts with. *)
LoanProperties(payment, total, whole, fee, r, n, feeRate) ==
    [periodicPayment |-> payment,
     totalValueOutstanding |-> total,
     managementFeeOwedToBroker |-> fee,
     firstPaymentPrincipal |->
        computePaymentComponents(total, whole, fee, payment, r, n, feeRate).rawPrincipal]

LoanPropertiesOf(payment, total, whole, r, n, feeRate) ==
    LoanProperties(payment, total, whole, computeFee(Num(total - whole), feeRate),
                   r, n, feeRate)

PropertiesFromPayment(payment, principal, r, n, feeRate) ==
    LoanPropertiesOf(payment,
                     roundToAsset(Mul(Nearest, payment, Num(n)), Nearest),
                     roundToAsset(principal, Nearest), r, n, feeRate)

PropertiesAtRate(principal, r, n, feeRate) ==
    PropertiesFromPayment(loanPeriodicPayment(principal, r, n), principal, r, n, feeRate)

computeLoanProperties(principal, rate, interval, n, feeRate) ==
    PropertiesAtRate(principal, loanPeriodicRate(rate, interval), n, feeRate)

-----------------------------------------------------------------------------
(***************************************************************************)
(* A loan object is a record                                               *)
(*   [terms, broker, borrower, principalOutstanding, totalValueOutstanding,*)
(*    managementFeeOutstanding, periodicPayment, paymentRemaining,         *)
(*    nextPaymentDueDate, previousPaymentDate, startDate, impaired,        *)
(*    defaulted]                                                           *)
(* where terms are the fields LoanSet fixes for good and NoDate is an      *)
(* absent nextPaymentDueDate.                                              *)
(***************************************************************************)
NoDate == -1

(* Differences of dates are computed in std::uint32_t. *)
Elapsed(from, to) == (to - from) % TimeModulus

(* hasExpired of View.cpp, for a date that is present. *)
hasExpired(now, date) == now >= date

PeriodicRate(l) == loanPeriodicRate(l.terms.interestRate, l.terms.paymentInterval)

(* LoanState::interestDue: the interest the vault is still to receive. *)
InterestDue(l) ==
    l.totalValueOutstanding - l.principalOutstanding - l.managementFeeOutstanding

(* PaymentComponentsPlus: the tracked parts, and what is paid on top. *)
Payment(tracked, managementFee, interest) ==
    [tracked |-> tracked, untrackedManagementFee |-> managementFee,
     untrackedInterest |-> interest]

totalDue(p) == p.tracked.value + p.untrackedManagementFee + p.untrackedInterest

NextPayment(l, feeRate) ==
    Payment(computePaymentComponents(
                l.totalValueOutstanding, l.principalOutstanding,
                l.managementFeeOutstanding, l.periodicPayment, PeriodicRate(l),
                l.paymentRemaining, feeRate),
            l.terms.loanServiceFee, 0)

(* Mutant: late interest is not reported as new value. *)
PartsWithoutValueChange(p) ==
    [principalPaid |-> p.tracked.principal,
     interestPaid  |-> p.tracked.value - p.tracked.principal - p.tracked.fee
                          + p.untrackedInterest,
     valueChange   |-> 0,
     feePaid       |-> p.tracked.fee + p.untrackedManagementFee]

(* LoanPaymentParts, what doPayment reports to its caller ... *)
PartsOf(p) ==
    [principalPaid |-> p.tracked.principal,
     interestPaid  |-> p.tracked.value - p.tracked.principal - p.tracked.fee
                          + p.untrackedInterest,
     valueChange   |-> p.untrackedInterest,
     feePaid       |-> p.tracked.fee + p.untrackedManagementFee]

AddParts(a, b) == [part \in DOMAIN a |-> a[part] + b[part]]

(* Mutant: the last payment leaves the due date. *)
PaidOffWithDate(l) ==
    [l EXCEPT !.paymentRemaining = 0, !.principalOutstanding = 0,
              !.totalValueOutstanding = 0, !.managementFeeOutstanding = 0]

(* ... and what it does to the loan. *)
PaidOff(l) ==
    [l EXCEPT !.paymentRemaining = 0,
              !.previousPaymentDate = l.nextPaymentDueDate,
              !.nextPaymentDueDate = NoDate,
              !.principalOutstanding = 0, !.totalValueOutstanding = 0,
              !.managementFeeOutstanding = 0]

doPayment(l, p) ==
    IF p.tracked.final THEN PaidOff(l)
    ELSE [l EXCEPT !.paymentRemaining = @ - 1,
                   !.previousPaymentDate = l.nextPaymentDueDate,
                   !.nextPaymentDueDate = (@ + l.terms.paymentInterval) % TimeModulus,
                   !.principalOutstanding = @ - p.tracked.principal,
                   !.totalValueOutstanding = @ - p.tracked.value,
                   !.managementFeeOutstanding = @ - p.tracked.fee]

(* What a payment operation returns: the loan and the parts paid, or an    *)
(* error, after which the transaction changes nothing.                     *)
Made(l, parts) == [ok |-> TRUE, loan |-> l, parts |-> parts]
NotMade == [ok |-> FALSE]

(* Interest that comes on top, split by computeInterestAndFeeParts. *)
LessFee(whole, fee) == [interest |-> whole - fee, fee |-> fee]
SplitOffFee(whole, feeRate) == LessFee(whole, computeFee(Num(whole), feeRate))
WholeInterest(x, feeRate) ==
    SplitOffFee(roundToAsset(x, Nearest), feeRate)

loanLatePaymentInterest(l, now) ==
    Mul(Nearest, Num(l.principalOutstanding),
        loanPeriodicRate(l.terms.lateInterestRate, Elapsed(l.nextPaymentDueDate, now)))

AddLateCharges(l, periodic, late) ==
    [periodic EXCEPT
        !.untrackedManagementFee = @ + l.terms.latePaymentFee + late.fee,
        !.untrackedInterest = @ + late.interest]

computeLatePayment(l, now, periodic, feeRate) ==
    AddLateCharges(l, periodic, WholeInterest(loanLatePaymentInterest(l, now), feeRate))

loanAccruedInterest(l, rawPrincipal, now) ==
    Div(Nearest,
        Mul(Nearest, Mul(Nearest, rawPrincipal, PeriodicRate(l)),
            Num(Elapsed(IntMax(l.previousPaymentDate, l.startDate), now))),
        Num(l.terms.paymentInterval))

AccruedAndPenalty(l, rawPrincipal, now) ==
    Add(Nearest, loanAccruedInterest(l, rawPrincipal, now),
        tenthBipsOfValue(rawPrincipal, l.terms.closeInterestRate))

calculateFullPaymentInterest(l, now) ==
    AccruedAndPenalty(l, loanPrincipalFromPeriodicPayment(
                            l.periodicPayment, PeriodicRate(l), l.paymentRemaining), now)

FullPayment(l, full) ==
    Payment([value     |-> l.principalOutstanding + InterestDue(l)
                              + l.managementFeeOutstanding,
             principal |-> l.principalOutstanding,
             fee       |-> l.managementFeeOutstanding,
             final     |-> TRUE],
            l.terms.closePaymentFee + full.fee - l.managementFeeOutstanding,
            full.interest - InterestDue(l))

computeFullPayment(l, now, feeRate) ==
    FullPayment(l, WholeInterest(calculateFullPaymentInterest(l, now), feeRate))

(* An overpayment: fee first, then interest and its fee, the rest is       *)
(* principal.                                                              *)
OverpaymentComponents(payment, fee, rawInterest, whole) ==
    Payment([value     |-> payment,
             principal |-> payment - whole.interest - whole.fee,
             fee       |-> whole.fee, final |-> FALSE,
             rawPrincipal |-> Sub(Nearest, Num(payment), rawInterest)],
            fee, whole.interest)

LessRawFee(interest, feeRate) ==
    Sub(Nearest, interest, tenthBipsOfValue(interest, feeRate))

OverpaymentInterest(payment, fee, rawInterest, feeRate) ==
    OverpaymentComponents(payment, fee, rawInterest, WholeInterest(rawInterest, feeRate))

OverpaymentLessFee(terms, payment, fee, feeRate) ==
    OverpaymentInterest(payment, fee,
        LessRawFee(tenthBipsOfValue(Num(payment), terms.overpaymentInterestRate), feeRate),
        feeRate)

OverpaymentGivenFee(terms, overpayment, fee, feeRate) ==
    OverpaymentLessFee(terms, overpayment - fee, fee, feeRate)

computeOverpaymentComponents(terms, overpayment, feeRate) ==
    OverpaymentGivenFee(terms, overpayment,
        roundToAsset(tenthBipsOfValue(Num(overpayment), terms.overpaymentFee), Nearest),
        feeRate)

(* tryOverpayment: the loan re-amortised over its remaining payments after *)
(* a principal overpayment, keeping the rounding error of each total.      *)
Carried(new, stored, old) == Add(Nearest, new, Sub(Nearest, Num(stored), old))

Readjusted(l, raw, newRaw, props) ==
    [props |-> props,
     loan  |-> [l EXCEPT
        !.totalValueOutstanding = roundToAsset(
            Carried(newRaw.value, @, raw.value), Nearest),
        !.principalOutstanding = roundToAsset(
            Carried(newRaw.principal, @, raw.principal), "downward"),
        !.managementFeeOutstanding = roundToAsset(
            Carried(newRaw.fee, @, raw.fee), Nearest),
        !.periodicPayment = props.periodicPayment]]

ReamortisedWith(l, raw, props, r, feeRate) ==
    Readjusted(l, raw, calculateRawLoanState(props.periodicPayment, r,
                                             l.paymentRemaining, feeRate), props)

ReamortisedFrom(l, raw, p, r, feeRate) ==
    ReamortisedWith(l, raw,
        computeLoanProperties(
            MaxNumber(Sub(Nearest, raw.principal, Num(p.tracked.principal)), Zero),
            l.terms.interestRate, l.terms.paymentInterval, l.paymentRemaining, feeRate),
        r, feeRate)

Reamortised(l, p, feeRate) ==
    ReamortisedFrom(l, calculateRawLoanState(l.periodicPayment, PeriodicRate(l),
                                             l.paymentRemaining, feeRate),
                    p, PeriodicRate(l), feeRate)

(* Mutant: the fall of the total value is reported as principal. *)
OverpaymentPartsOfTotal(l, new, p) ==
    [principalPaid |-> l.totalValueOutstanding - new.totalValueOutstanding,
     interestPaid  |-> 0, valueChange |-> p.untrackedInterest,
     feePaid       |-> p.untrackedManagementFee]

(* The parts of an overpayment that turns loan l into new. *)
OverpaymentParts(l, new, p) ==
    [principalPaid |-> l.principalOutstanding - new.principalOutstanding,
     interestPaid  |-> InterestDue(l) - InterestDue(new),
     valueChange   |-> (new.totalValueOutstanding - new.principalOutstanding)
                          - (l.totalValueOutstanding - l.principalOutstanding)
                          + p.untrackedInterest,
     feePaid       |-> l.managementFeeOutstanding - new.managementFeeOutstanding
                          + p.untrackedManagementFee]

(* doOverpayment applies p unless the new loan would be stuck or invalid,  *)
(* or its principal would not go down: those rejections are no error, and  *)
(* the rest of the payment stands.                                         *)
OverpaymentAccepted(l, re) ==
    /\ re.props.firstPaymentPrincipal.m > 0 \/ re.loan.principalOutstanding <= 0
    /\ re.props.periodicPayment.m > 0
    /\ re.props.totalValueOutstanding > 0
    /\ re.props.managementFeeOwedToBroker >= 0
    /\ re.loan.principalOutstanding < l.principalOutstanding

ApplyReamortised(made, p, re) ==
    IF OverpaymentAccepted(made.loan, re)
    THEN Made(re.loan, AddParts(made.parts, OverpaymentParts(made.loan, re.loan, p)))
    ELSE made

ApplyOverpayment(made, p, feeRate) ==
    IF p.tracked.rawPrincipal.m > 0 /\ p.tracked.principal > 0
    THEN ApplyReamortised(made, p, Reamortised(made.loan, p, feeRate))
    ELSE made

doOverpayment(made, left, feeRate) ==
    ApplyOverpayment(made,
        computeOverpaymentComponents(
            made.loan.terms, IntMin(left, made.loan.totalValueOutstanding), feeRate),
        feeRate)

(* The regular payments an amount covers, starting with the one that is    *)
(* next.  Once the loop has stopped, further iterations change nothing.    *)
PayOnce(s, payment) ==
    [loan  |-> doPayment(s.loan, payment), parts |-> AddParts(s.parts, PartsOf(payment)),
     paid  |-> s.paid + totalDue(payment), num |-> s.num + 1]

(* Mutant: earlier payments are not counted. *)
PayIfAlone(s, payment, amount) ==
    IF amount < totalDue(payment) THEN s ELSE PayOnce(s, payment)

PayIfCovered(s, payment, amount) ==
    IF amount < s.paid + totalDue(payment) THEN s ELSE PayOnce(s, payment)

(* Mutant: the loop goes on after the last payment. *)
PayNextAnyway(s, amount, feeRate) ==
    IF s.paid >= amount THEN s ELSE PayIfCovered(s, NextPayment(s.loan, feeRate), amount)

PayNext(s, amount, feeRate) ==
    IF s.paid >= amount \/ s.loan.paymentRemaining = 0 THEN s
    ELSE PayIfCovered(s, NextPayment(s.loan, feeRate), amount)

Unpaid(l) ==
    [loan |-> l, paid |-> 0, num |-> 0,
     parts |-> [principalPaid |-> 0, interestPaid |-> 0, valueChange |-> 0, feePaid |-> 0]]

RegularPayments(l, amount, feeRate) ==
    LET done[k \in 0..loanMaximumPaymentsPerTransaction] ==
          IF k = 0 THEN Unpaid(l) ELSE PayNext(done[k - 1], amount, feeRate)
    IN  done[loanMaximumPaymentsPerTransaction]

Payable(l) ==
    /\ l.paymentRemaining # 0 /\ l.principalOutstanding # 0
    /\ l.nextPaymentDueDate # NoDate

(* A payment that is made alone, if the amount covers it. *)
PayAlone(l, payment, amount) ==
    IF amount >= totalDue(payment) THEN Made(doPayment(l, payment), PartsOf(payment))
    ELSE NotMade

loanMakeFullPayment(l, now, amount, feeRate) ==
    IF Payable(l) /\ l.paymentRemaining > 1
    THEN PayAlone(l, computeFullPayment(l, now, feeRate), amount)
    ELSE NotMade

(* The regular payments done, and an overpayment with the rest of the      *)
(* amount when loan and transaction both allow it.                         *)
PayRest(done, amount, overpaymentAllowed, feeRate) ==
    IF done.num = 0 THEN NotMade
    ELSE IF /\ overpaymentAllowed /\ done.loan.terms.allowOverpayment
            /\ done.loan.paymentRemaining > 0
            /\ done.paid < amount
            /\ done.num < loanMaximumPaymentsPerTransaction
         THEN doOverpayment(Made(done.loan, done.parts), amount - done.paid, feeRate)
    ELSE Made(done.loan, done.parts)

(* A late payment is made alone; otherwise as many regular payments as the *)
(* amount covers.                                                          *)
loanMakePayment(l, now, amount, overpaymentAllowed, feeRate) ==
    IF ~Payable(l) THEN NotMade
    ELSE IF hasExpired(now, l.nextPaymentDueDate)
         THEN PayAlone(l, computeLatePayment(l, now, NextPayment(l, feeRate), feeRate),
                       amount)
    ELSE PayRest(RegularPayments(l, amount, feeRate), amount, overpaymentAllowed, feeRate)
=============================================================================
