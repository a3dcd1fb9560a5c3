--------------------------- MODULE LendingLedger ---------------------------
(***************************************************************************)
(* What the lending protocol promises about its books, without saying how  *)
(* amounts are computed: the vault's total, available and unrealized-loss  *)
(* amounts, each broker's debt and cover, what every loan owes the vault,  *)
(* and the assets the pseudo-accounts really hold.  Module Lending is      *)
(* checked to implement this specification, and LendingLedgerProofs proves *)
(* its invariants for any number of brokers and loans.                     *)
(***************************************************************************)
EXTENDS Integers

CONSTANTS Brokers,
          N,        \* loans are numbered 1..N
          Amounts,  \* amounts that transactions move
          Changes   \* changes of a loan's value: interest added or waived

ASSUME LedgerAssumption ==
    N \in Nat /\ Amounts \subseteq Nat /\ Changes \subseteq Int

Loans == 1..N

VARIABLES
    total, available, loss,  \* sfAssetsTotal, sfAssetsAvailable, sfLossUnrealized
    cash,                    \* what the vault's pseudo-account holds
    debt, cover,             \* sfDebtTotal and sfCoverAvailable of each broker
    coverCash,               \* what each broker's pseudo-account holds
    owed,                    \* what each loan owes the vault: its value less fees
    impaired,                \* is the loan impaired?
    brokerOf                 \* the broker of each loan

vars == <<total, available, loss, cash, debt, cover, coverCash, owed,
          impaired, brokerOf>>

(* The sum of f[1], ..., f[N]. *)
Prefix(f) ==
    LET s[i \in 0..N] == IF i = 0 THEN 0 ELSE s[i - 1] + f[i]
    IN  s

Sum(f) == Prefix(f)[N]

Zeros == [l \in Loans |-> 0]

Init ==
    /\ total = 0 /\ available = 0 /\ loss = 0 /\ cash = 0
    /\ debt = [b \in Brokers |-> 0]
    /\ cover = [b \in Brokers |-> 0]
    /\ coverCash = [b \in Brokers |-> 0]
    /\ owed = Zeros
    /\ impaired = [l \in Loans |-> FALSE]
    /\ brokerOf \in [Loans -> Brokers]

loanVars == <<owed, impaired, brokerOf>>
coverVars == <<cover, coverCash>>

(* Shares are bought from the vault ... *)
Deposit(x) ==
    /\ available' = available + x
    /\ total' = total + x
    /\ cash' = cash + x
    /\ UNCHANGED <<loss, debt, coverVars, loanVars>>

(* Mutant: more than is available. *)
WithdrawAnything(x) ==
    /\ available' = available - x
    /\ total' = total - x
    /\ cash' = cash - x
    /\ UNCHANGED <<loss, debt, coverVars, loanVars>>

(* ... and sold back, or clawed back. *)
Withdraw(x) ==
    /\ x <= available
    /\ available' = available - x
    /\ total' = total - x
    /\ cash' = cash - x
    /\ UNCHANGED <<loss, debt, coverVars, loanVars>>

CoverIn(b, x) ==
    /\ cover' = [cover EXCEPT ![b] = @ + x]
    /\ coverCash' = [coverCash EXCEPT ![b] = @ + x]
    /\ UNCHANGED <<total, available, loss, cash, debt, loanVars>>

(* Mutant: the assets stay in the pseudo-account. *)
CoverOutOnPaper(b, x) ==
    /\ x <= cover[b]
    /\ cover' = [cover EXCEPT ![b] = @ - x]
    /\ UNCHANGED <<total, available, loss, cash, debt, coverCash, loanVars>>

CoverOut(b, x) ==
    /\ x <= cover[b]
    /\ cover' = [cover EXCEPT ![b] = @ - x]
    /\ coverCash' = [coverCash EXCEPT ![b] = @ - x]
    /\ UNCHANGED <<total, available, loss, cash, debt, loanVars>>

(* Mutant: the interest is not part of the debt. *)
OriginateForFree(l, b, x) ==
    /\ owed[l] = 0 /\ ~impaired[l]
    /\ x <= available
    /\ available' = available - x
    /\ cash' = cash - x
    /\ \E v \in Changes :
         /\ x + v >= 0
         /\ total' = total + v
         /\ owed' = [owed EXCEPT ![l] = x + v]
         /\ debt' = [debt EXCEPT ![b] = @ + x]
    /\ brokerOf' = [brokerOf EXCEPT ![l] = b]
    /\ UNCHANGED <<loss, coverVars, impaired>>

(* A loan of principal x with interest v for the vault. *)
Originate(l, b, x) ==
    /\ owed[l] = 0 /\ ~impaired[l]
    /\ x <= available
    /\ available' = available - x
    /\ cash' = cash - x
    /\ \E v \in Changes :
         /\ x + v >= 0
         /\ total' = total + v
         /\ owed' = [owed EXCEPT ![l] = x + v]
         /\ debt' = [debt EXCEPT ![b] = @ + x + v]
    /\ brokerOf' = [brokerOf EXCEPT ![l] = b]
    /\ UNCHANGED <<loss, coverVars, impaired>>

(* What an impairment of loan l counts for in the unrealized loss. *)
PaperLoss(l) == IF impaired[l] THEN owed[l] ELSE 0

(* Mutant: the loan's unrealized loss stays. *)
PayStillImpaired(l, x) ==
    /\ available' = available + x
    /\ cash' = cash + x
    /\ \E v \in Changes :
         /\ x - v <= owed[l]
         /\ total' = total + v
         /\ owed' = [owed EXCEPT ![l] = @ - (x - v)]
         /\ debt' = [debt EXCEPT ![brokerOf[l]] = @ - (x - v)]
    /\ impaired' = [impaired EXCEPT ![l] = FALSE]
    /\ UNCHANGED <<loss, coverVars, brokerOf>>

(* A payment that brings the vault x, after the loan's value changed by v, *)
(* and the broker's cover a fee f.  An impaired loan is unimpaired first.  *)
Pay(l, x) ==
    /\ available' = available + x
    /\ cash' = cash + x
    /\ \E v \in Changes :
         /\ x - v <= owed[l]
         /\ total' = total + v
         /\ owed' = [owed EXCEPT ![l] = @ - (x - v)]
         /\ debt' = [debt EXCEPT ![brokerOf[l]] = @ - (x - v)]
    /\ \E f \in Amounts :
         /\ cover' = [cover EXCEPT ![brokerOf[l]] = @ + f]
         /\ coverCash' = [coverCash EXCEPT ![brokerOf[l]] = @ + f]
    /\ loss' = loss - PaperLoss(l)
    /\ impaired' = [impaired EXCEPT ![l] = FALSE]
    /\ UNCHANGED brokerOf

Impair(l) ==
    /\ ~impaired[l]
    /\ loss' = loss + owed[l]
    /\ impaired' = [impaired EXCEPT ![l] = TRUE]
    /\ UNCHANGED <<total, available, cash, debt, coverVars, owed, brokerOf>>

Unimpair(l) ==
    /\ impaired[l]
    /\ loss' = loss - owed[l]
    /\ impaired' = [impaired EXCEPT ![l] = FALSE]
    /\ UNCHANGED <<total, available, cash, debt, coverVars, owed, brokerOf>>

(* Mutant: the loss is not realized. *)
DefaultForgettingLoss(l, x) ==
    LET b == brokerOf[l]
    IN  /\ x <= owed[l] /\ x <= cover[b]
        /\ available' = available + x
        /\ total' = total - (owed[l] - x)
        /\ cash' = cash + x
        /\ owed' = [owed EXCEPT ![l] = 0]
        /\ impaired' = [impaired EXCEPT ![l] = FALSE]
        /\ debt' = [debt EXCEPT ![b] = @ - owed[l]]
        /\ cover' = [cover EXCEPT ![b] = @ - x]
        /\ coverCash' = [coverCash EXCEPT ![b] = @ - x]
        /\ UNCHANGED <<loss, brokerOf>>

(* A default, of which the first-loss cover pays x. *)
Default(l, x) ==
    LET b == brokerOf[l]
    IN  /\ x <= owed[l] /\ x <= cover[b]
        /\ available' = available + x
        /\ total' = total - (owed[l] - x)
        /\ cash' = cash + x
        /\ loss' = loss - PaperLoss(l)
        /\ owed' = [owed EXCEPT ![l] = 0]
        /\ impaired' = [impaired EXCEPT ![l] = FALSE]
        /\ debt' = [debt EXCEPT ![b] = @ - owed[l]]
        /\ cover' = [cover EXCEPT ![b] = @ - x]
        /\ coverCash' = [coverCash EXCEPT ![b] = @ - x]
        /\ UNCHANGED brokerOf

(* A loan that owes nothing is deleted and its number is free again. *)
Forget(l, b) ==
    /\ owed[l] = 0 /\ ~impaired[l]
    /\ brokerOf' = [brokerOf EXCEPT ![l] = b]
    /\ UNCHANGED <<total, available, loss, cash, debt, coverVars, owed, impaired>>

Next ==
    \/ \E x \in Amounts : Deposit(x) \/ Withdraw(x)
    \/ \E b \in Brokers, x \in Amounts : CoverIn(b, x) \/ CoverOut(b, x)
    \/ \E l \in Loans, b \in Brokers, x \in Amounts : Originate(l, b, x)
    \/ \E l \in Loans, x \in Amounts : Pay(l, x)
    \/ \E l \in Loans : Impair(l) \/ Unimpair(l)
    \/ \E l \in Loans, x \in Amounts : Default(l, x)
    \/ \E l \in Loans, b \in Brokers : Forget(l, b)

Spec == Init /\ [][Next]_vars

-----------------------------------------------------------------------------
(* No transaction takes more than there is: what is available, a broker's  *)
(* cover and what a loan owes never go below zero.                         *)
TypeOK ==
    /\ total \in Int /\ available \in Nat /\ loss \in Int /\ cash \in Int
    /\ debt \in [Brokers -> Int]
    /\ cover \in [Brokers -> Nat] /\ coverCash \in [Brokers -> Int]
    /\ owed \in [Loans -> Nat]
    /\ impaired \in [Loans -> BOOLEAN]
    /\ brokerOf \in [Loans -> Brokers]

(* The assets behind the books are there: the pseudo-accounts of the vault *)
(* and of every broker hold exactly what is recorded as available.         *)
FundsBackTheBooks == cash = available /\ coverCash = cover

OwedTo(b) == [l \in Loans |-> IF brokerOf[l] = b THEN owed[l] ELSE 0]

(* The vault's total exceeds what it has available by what its loans owe   *)
(* it, and every broker's debt is what the loans of that broker owe.       *)
DebtIsWhatIsOwed ==
    /\ total - available = Sum(owed)
    /\ \A b \in Brokers : debt[b] = Sum(OwedTo(b))

Losses == [l \in Loans |-> PaperLoss(l)]

(* The unrealized loss is what the impaired loans owe. *)
LossIsImpairment == loss = Sum(Losses)

(* The inductive invariant: every book entry is tied to the entries and    *)
(* holdings it stands for, in the vault and in each broker, after every    *)
(* transaction that changes one of them.                                   *)
IInv == TypeOK /\ FundsBackTheBooks /\ DebtIsWhatIsOwed /\ LossIsImpairment

(* The vault clauses of the invariant checker (ValidVault) hold without    *)
(* its help: 0 <= available <= total and 0 <= loss <= total - available,   *)
(* and no broker's debt is negative (ValidLoanBroker).                     *)
BooksAreValid ==
    /\ 0 <= available /\ available <= total
    /\ 0 <= loss /\ loss <= total - available
    /\ \A b \in Brokers : 0 <= debt[b] /\ 0 <= cover[b]
=============================================================================
