------------------------ MODULE LendingLedgerProofs ------------------------
(***************************************************************************)
(* Proofs about LendingLedger, for any number of brokers and loans.        *)
(* The first part is about sums, by induction on the number of loans; the  *)
(* second shows that the books stay in order.                              *)
(***************************************************************************)
EXTENDS LendingLedger, TLAPS, WellFoundedInduction

(* A non-empty set of natural numbers has a least element. *)
LEMMA NatMin ==
  ASSUME NEW T \in SUBSET Nat, T # {}
  PROVE  \E n \in T : \A m \in T : n <= m
<1> DEFINE R == {ss \in Nat \X Nat : ss[1] < ss[2]}
<1>1. IsWellFoundedOn(R, Nat)
  BY NatLessThanWellFounded DEF OpToRel
<1>2. PICK x \in T : \A y \in T : ~(<<y, x>> \in R)
  <2> HIDE DEF R
  <2> QED BY <1>1, WFMin
<1>3. \A y \in T : <<y, x>> \in Nat \X Nat /\ <<y, x>>[1] = y /\ <<y, x>>[2] = x
  OBVIOUS
<1>4. \A y \in T : ~(y < x)
  BY <1>2, <1>3
<1> QED BY <1>4

(* Induction over 0..N, for a property given as the set where it holds. *)
LEMMA UpTo ==
  ASSUME NEW T \in SUBSET (0..N), 0 \in T,
         \A n \in 1..N : n - 1 \in T => n \in T
  PROVE  \A n \in 0..N : n \in T
<1> DEFINE F == (0..N) \ T
<1>1. SUFFICES ASSUME F # {} PROVE FALSE
  OBVIOUS
<1>2. PICK n \in F : \A m \in F : n <= m
  <2>1. F \in SUBSET Nat
    BY LedgerAssumption
  <2> HIDE DEF F
  <2> QED BY <1>1, <2>1, NatMin
<1>3. n \in 1..N /\ n - 1 \in 0..N
  BY <1>2, LedgerAssumption
<1>4. n - 1 \notin F
  <2> HIDE DEF F
  <2> QED BY <1>2, <1>3, LedgerAssumption
<1> QED BY <1>2, <1>3, <1>4

(* There is a function that satisfies the recursion of Prefix. *)
LEMMA PrefixExists ==
  ASSUME NEW f \in [Loans -> Int]
  PROVE  \A n \in 0..N : \E g \in [0..n -> Int] :
             g[0] = 0 /\ \A i \in 1..n : g[i] = g[i - 1] + f[i]
<1> DEFINE Q(n) == \E g \in [0..n -> Int] :
                      g[0] = 0 /\ \A i \in 1..n : g[i] = g[i - 1] + f[i]
<1> DEFINE T == {n \in 0..N : Q(n)}
<1>1. Q(0)
  <2>1. [i \in 0..0 |-> 0] \in [0..0 -> Int]
    OBVIOUS
  <2>2. [i \in 0..0 |-> 0][0] = 0
    OBVIOUS
  <2>3. \A i \in 1..0 : FALSE
    OBVIOUS
  <2> QED BY <2>1, <2>2, <2>3
<1>2. ASSUME NEW n \in 1..N, Q(n - 1) PROVE Q(n)
  <2>1. PICK g \in [0..(n - 1) -> Int] :
           g[0] = 0 /\ \A i \in 1..(n - 1) : g[i] = g[i - 1] + f[i]
    BY <1>2
  <2> DEFINE h == [i \in 0..n |-> IF i = n THEN g[n - 1] + f[n] ELSE g[i]]
  <2>2. h \in [0..n -> Int]
    BY <2>1, LedgerAssumption DEF Loans
  <2>3. h[0] = 0
    BY <2>1
  <2>4. \A i \in 1..n : h[i] = h[i - 1] + f[i]
    BY <2>1, LedgerAssumption DEF Loans
  <2> QED BY <2>2, <2>3, <2>4
<1> HIDE DEF Q
<1>3. 0 \in T
  BY <1>1, LedgerAssumption
<1>4. \A n \in 1..N : n - 1 \in T => n \in T
  BY <1>2
<1>5. \A n \in 0..N : n \in T
  <2>1. T \in SUBSET (0..N)
    OBVIOUS
  <2> HIDE DEF T
  <2> QED BY <1>3, <1>4, <2>1, UpTo
<1> QED BY <1>5 DEF Q

(* Hence Prefix satisfies it ... *)
LEMMA PrefixDef ==
  ASSUME NEW f \in [Loans -> Int]
  PROVE  Prefix(f) = [i \in 0..N |-> IF i = 0 THEN 0 ELSE Prefix(f)[i - 1] + f[i]]
<1>1. N \in 0..N
  BY LedgerAssumption
<1>2. PICK g \in [0..N -> Int] : g[0] = 0 /\ \A i \in 1..N : g[i] = g[i - 1] + f[i]
  BY PrefixExists, <1>1
<1>3. g = [i \in 0..N |-> IF i = 0 THEN 0 ELSE g[i - 1] + f[i]]
  BY <1>2, LedgerAssumption
<1> QED BY <1>3, Zenon DEF Prefix

(* ... and its values are integers. *)
LEMMA PrefixSteps ==
  ASSUME NEW f \in [Loans -> Int]
  PROVE  /\ Prefix(f)[0] = 0
         /\ \A n \in 1..N : Prefix(f)[n] = Prefix(f)[n - 1] + f[n]
         /\ \A n \in 0..N : Prefix(f)[n] \in Int
<1>1. 0 \in 0..N /\ \A n \in 1..N : n \in 0..N /\ n # 0 /\ n - 1 \in 0..N
  BY LedgerAssumption
<1>2. Prefix(f)[0] = 0
  BY <1>1, PrefixDef
<1>3. \A n \in 1..N : Prefix(f)[n] = Prefix(f)[n - 1] + f[n]
  BY <1>1, PrefixDef
<1> DEFINE T == {n \in 0..N : Prefix(f)[n] \in Int}
<1>4. 0 \in T
  BY <1>1, <1>2
<1>5. \A n \in 1..N : n - 1 \in T => n \in T
  BY <1>1, <1>3 DEF Loans
<1>6. \A n \in 0..N : n \in T
  <2>1. T \in SUBSET (0..N)
    OBVIOUS
  <2> HIDE DEF T
  <2> QED BY <1>4, <1>5, <2>1, UpTo
<1> QED BY <1>2, <1>3, <1>6

(* A sum of integers is an integer. *)
LEMMA SumType ==
  ASSUME NEW f \in [Loans -> Int]
  PROVE  Sum(f) \in Int
<1>1. N \in 0..N
  BY LedgerAssumption
<1> QED BY <1>1, PrefixSteps DEF Sum

(* Changing one term changes the sum by the same amount. *)
LEMMA SumChange ==
  ASSUME NEW f \in [Loans -> Int], NEW g \in [Loans -> Int], NEW k \in Loans,
         \A j \in Loans : j # k => g[j] = f[j]
  PROVE  Sum(g) = Sum(f) - f[k] + g[k]
<1> DEFINE d(n) == IF n >= k THEN g[k] - f[k] ELSE 0
           T == {n \in 0..N : Prefix(g)[n] = Prefix(f)[n] + d(n)}
<1>1. k \in 1..N /\ N \in 0..N /\ 0 \in 0..N
  BY LedgerAssumption DEF Loans
<1>2. 0 \in T
  BY <1>1, PrefixSteps
<1>3. ASSUME NEW n \in 1..N, n - 1 \in T PROVE n \in T
  <2>1. Prefix(g)[n] = Prefix(g)[n - 1] + g[n] /\ Prefix(f)[n] = Prefix(f)[n - 1] + f[n]
    BY PrefixSteps
  <2>2. /\ Prefix(f)[n - 1] \in Int /\ f[n] \in Int /\ g[n] \in Int
        /\ f[k] \in Int /\ g[k] \in Int /\ n \in Int /\ k \in Int
    BY <1>1, PrefixSteps DEF Loans
  <2>3. n # k => g[n] = f[n]
    BY DEF Loans
  <2>4. d(n) = d(n - 1) + (g[n] - f[n])
    BY <1>1, <2>2, <2>3
  <2>5. Prefix(g)[n - 1] = Prefix(f)[n - 1] + d(n - 1) /\ d(n - 1) \in Int
    BY <1>3, <2>2
  <2>6. Prefix(g)[n] = Prefix(f)[n] + d(n)
    <3> HIDE DEF d
    <3> QED BY <2>1, <2>2, <2>4, <2>5
  <2> QED BY <2>6, LedgerAssumption
<1>4. \A n \in 0..N : n \in T
  <2>1. T \in SUBSET (0..N)
    OBVIOUS
  <2>2. \A n \in 1..N : n - 1 \in T => n \in T
    BY <1>3
  <2> HIDE DEF T
  <2> QED BY <1>2, <2>1, <2>2, UpTo
<1>5. Prefix(g)[N] = Prefix(f)[N] + (g[k] - f[k])
  BY <1>1, <1>4, LedgerAssumption
<1>6. Prefix(f)[N] \in Int /\ f[k] \in Int /\ g[k] \in Int
  BY <1>1, PrefixSteps
<1> QED BY <1>5, <1>6 DEF Sum

(* Sums are monotone ... *)
LEMMA SumLe ==
  ASSUME NEW f \in [Loans -> Int], NEW g \in [Loans -> Int],
         \A j \in Loans : f[j] <= g[j]
  PROVE  Sum(f) <= Sum(g)
<1> DEFINE T == {n \in 0..N : Prefix(f)[n] <= Prefix(g)[n]}
<1>1. N \in 0..N /\ 0 \in 0..N
  BY LedgerAssumption
<1>2. 0 \in T
  BY <1>1, PrefixSteps
<1>3. ASSUME NEW n \in 1..N, n - 1 \in T PROVE n \in T
  <2>1. Prefix(g)[n] = Prefix(g)[n - 1] + g[n] /\ Prefix(f)[n] = Prefix(f)[n - 1] + f[n]
    BY PrefixSteps
  <2>2. /\ Prefix(f)[n - 1] \in Int /\ Prefix(g)[n - 1] \in Int
        /\ f[n] \in Int /\ g[n] \in Int /\ f[n] <= g[n] /\ n \in 0..N
    BY PrefixSteps, LedgerAssumption DEF Loans
  <2> QED BY <1>3, <2>1, <2>2
<1>4. \A n \in 0..N : n \in T
  <2>1. T \in SUBSET (0..N)
    OBVIOUS
  <2>2. \A n \in 1..N : n - 1 \in T => n \in T
    BY <1>3
  <2> HIDE DEF T
  <2> QED BY <1>2, <2>1, <2>2, UpTo
<1> QED BY <1>1, <1>4 DEF Sum

(* ... and the sum of zeros is zero. *)
LEMMA SumZeros == Sum(Zeros) = 0
<1> DEFINE T == {n \in 0..N : Prefix(Zeros)[n] = 0}
<1>1. N \in 0..N /\ 0 \in 0..N
  BY LedgerAssumption
<1>2. Zeros \in [Loans -> Int] /\ \A n \in 1..N : Zeros[n] = 0
  BY DEF Zeros, Loans
<1>3. 0 \in T
  BY <1>1, <1>2, PrefixSteps
<1>4. \A n \in 1..N : n - 1 \in T => n \in T
  BY <1>2, PrefixSteps, LedgerAssumption
<1>5. \A n \in 0..N : n \in T
  <2>1. T \in SUBSET (0..N)
    OBVIOUS
  <2> HIDE DEF T
  <2> QED BY <1>3, <1>4, <2>1, UpTo
<1> QED BY <1>1, <1>5 DEF Sum
-----------------------------------------------------------------------------
(* What a step has to show when it only touches loan l: the sums follow    *)
(* from the terms of l alone.                                              *)
LEMMA OneLoan ==
  ASSUME TypeOK, TypeOK', NEW l \in Loans,
         \A j \in Loans : j # l =>
            owed'[j] = owed[j] /\ impaired'[j] = impaired[j]
            /\ brokerOf'[j] = brokerOf[j]
  PROVE  /\ Sum(owed)' = Sum(owed) - owed[l] + owed'[l]
         /\ Sum(Losses)' = Sum(Losses) - PaperLoss(l) + PaperLoss(l)'
         /\ \A b \in Brokers :
               Sum(OwedTo(b))' = Sum(OwedTo(b)) - OwedTo(b)[l] + OwedTo(b)'[l]
         /\ Sum(owed) \in Int /\ Sum(Losses) \in Int
         /\ \A b \in Brokers : Sum(OwedTo(b)) \in Int
<1>1. owed \in [Loans -> Int] /\ owed' \in [Loans -> Int]
  BY DEF TypeOK
<1>2. Losses \in [Loans -> Int] /\ Losses' \in [Loans -> Int]
  BY DEF TypeOK, Losses, PaperLoss
<1>3. \A b \in Brokers : OwedTo(b) \in [Loans -> Int] /\ OwedTo(b)' \in [Loans -> Int]
  BY DEF TypeOK, OwedTo
<1>4. Sum(owed)' = Sum(owed) - owed[l] + owed'[l]
  <2>1. Sum(owed') = Sum(owed) - owed[l] + owed'[l]
    BY <1>1, SumChange
  <2> QED BY <2>1 DEF Sum, Prefix
<1>5. Sum(Losses)' = Sum(Losses) - PaperLoss(l) + PaperLoss(l)'
  <2>1. \A j \in Loans : j # l => Losses'[j] = Losses[j]
    BY DEF Losses, PaperLoss
  <2>2. Sum(Losses') = Sum(Losses) - Losses[l] + Losses'[l]
    BY <1>2, <2>1, SumChange
  <2>3. Losses[l] = PaperLoss(l) /\ Losses'[l] = PaperLoss(l)'
    BY DEF Losses, PaperLoss
  <2> QED BY <2>2, <2>3 DEF Sum, Prefix
<1>6. ASSUME NEW b \in Brokers
      PROVE  Sum(OwedTo(b))' = Sum(OwedTo(b)) - OwedTo(b)[l] + OwedTo(b)'[l]
  <2>1. \A j \in Loans : j # l => OwedTo(b)'[j] = OwedTo(b)[j]
    BY DEF OwedTo
  <2>2. Sum(OwedTo(b)') = Sum(OwedTo(b)) - OwedTo(b)[l] + OwedTo(b)'[l]
    BY <1>3, <2>1, SumChange
  <2> QED BY <2>2 DEF Sum, Prefix
<1> QED BY <1>1, <1>2, <1>3, <1>4, <1>5, <1>6, SumType

(* The books are in order, and empty, before the first deposit. *)
LEMMA InitIInv == Init => IInv
<1> SUFFICES ASSUME Init PROVE IInv
  OBVIOUS
<1>1. TypeOK
  BY DEF Init, TypeOK, Zeros
<1>2. FundsBackTheBooks
  BY DEF Init, FundsBackTheBooks
<1>3. owed = Zeros /\ Losses = Zeros /\ \A b \in Brokers : OwedTo(b) = Zeros
  BY DEF Init, Zeros, Losses, PaperLoss, OwedTo
<1>4. DebtIsWhatIsOwed
  BY <1>3, SumZeros DEF Init, DebtIsWhatIsOwed
<1>5. LossIsImpairment
  BY <1>3, SumZeros DEF Init, LossIsImpairment
<1> QED BY <1>1, <1>2, <1>4, <1>5 DEF IInv

(* Steps that leave the loans alone keep all the sums. *)
LEMMA SameLoans ==
  ASSUME UNCHANGED loanVars
  PROVE  /\ Sum(owed)' = Sum(owed) /\ Sum(Losses)' = Sum(Losses)
         /\ \A b \in Brokers : Sum(OwedTo(b))' = Sum(OwedTo(b))
BY DEF loanVars, Sum, Prefix, Losses, PaperLoss, OwedTo

(* Deposits and withdrawals move the total, the available assets and the   *)
(* pseudo-account's balance together, and touch no loan.                   *)
LEMMA VaultSteps ==
  ASSUME IInv, NEW x \in Amounts, Deposit(x) \/ Withdraw(x)
  PROVE  IInv'
<1>1. x \in Nat
  BY LedgerAssumption
<1>2. TypeOK' /\ FundsBackTheBooks'
  BY <1>1 DEF IInv, TypeOK, FundsBackTheBooks, Deposit, Withdraw, loanVars, coverVars
<1>3. total' - available' = total - available /\ debt' = debt /\ loss' = loss
  BY <1>1 DEF IInv, TypeOK, Deposit, Withdraw
<1>4. UNCHANGED loanVars
  BY DEF Deposit, Withdraw
<1> QED BY <1>2, <1>3, <1>4, SameLoans DEF IInv, DebtIsWhatIsOwed, LossIsImpairment

(* So do deposits and withdrawals of cover, for the broker's account. *)
LEMMA CoverSteps ==
  ASSUME IInv, NEW b \in Brokers, NEW x \in Amounts, CoverIn(b, x) \/ CoverOut(b, x)
  PROVE  IInv'
<1>1. x \in Nat
  BY LedgerAssumption
<1>2. TypeOK' /\ FundsBackTheBooks'
  BY <1>1 DEF IInv, TypeOK, FundsBackTheBooks, CoverIn, CoverOut, loanVars
<1>3. total' = total /\ available' = available /\ debt' = debt /\ loss' = loss
  BY DEF CoverIn, CoverOut
<1>4. UNCHANGED loanVars
  BY DEF CoverIn, CoverOut
<1> QED BY <1>2, <1>3, <1>4, SameLoans DEF IInv, DebtIsWhatIsOwed, LossIsImpairment

(* A step on loan l alone is right when the books change as the terms of l *)
(* do.                                                                     *)
LEMMA LoanStep ==
  ASSUME IInv, TypeOK', FundsBackTheBooks', NEW l \in Loans,
         \A j \in Loans : j # l =>
            owed'[j] = owed[j] /\ impaired'[j] = impaired[j]
            /\ brokerOf'[j] = brokerOf[j],
         total' - available' = total - available - owed[l] + owed'[l],
         \A c \in Brokers : debt'[c] = debt[c] - OwedTo(c)[l] + OwedTo(c)'[l],
         loss' = loss - PaperLoss(l) + PaperLoss(l)'
  PROVE  IInv'
<1>1. TypeOK
  BY DEF IInv
<1>2. total' - available' = Sum(owed)'
  <2>1. Sum(owed)' = Sum(owed) - owed[l] + owed'[l]
    BY <1>1, OneLoan
  <2> QED BY <2>1 DEF IInv, DebtIsWhatIsOwed
<1>3. ASSUME NEW c \in Brokers PROVE debt'[c] = Sum(OwedTo(c))'
  <2>1. Sum(OwedTo(c))' = Sum(OwedTo(c)) - OwedTo(c)[l] + OwedTo(c)'[l]
    BY <1>1, OneLoan
  <2> QED BY <2>1 DEF IInv, DebtIsWhatIsOwed
<1>4. loss' = Sum(Losses)'
  <2>1. Sum(Losses)' = Sum(Losses) - PaperLoss(l) + PaperLoss(l)'
    BY <1>1, OneLoan
  <2> QED BY <2>1 DEF IInv, LossIsImpairment
<1> QED BY <1>2, <1>3, <1>4 DEF IInv, DebtIsWhatIsOwed, LossIsImpairment

(* LoanSet: the principal leaves the vault and the loan owes it with the    *)
(* interest, which total and the broker's debt grow by.                    *)
LEMMA OriginateStep ==
  ASSUME IInv, NEW l \in Loans, NEW b \in Brokers, NEW x \in Amounts,
         Originate(l, b, x)
  PROVE  IInv'
<1>0. PICK v \in Changes :
         /\ x + v >= 0
         /\ total' = total + v
         /\ owed' = [owed EXCEPT ![l] = x + v]
         /\ debt' = [debt EXCEPT ![b] = @ + x + v]
  BY DEF Originate
<1>1. x \in Nat /\ v \in Int
  BY LedgerAssumption
<1>2. TypeOK'
  BY <1>0, <1>1 DEF IInv, TypeOK, Originate, coverVars
<1>3. FundsBackTheBooks'
  BY DEF IInv, FundsBackTheBooks, Originate, coverVars
<1>4. \A j \in Loans : j # l =>
         owed'[j] = owed[j] /\ impaired'[j] = impaired[j] /\ brokerOf'[j] = brokerOf[j]
  BY <1>0 DEF IInv, TypeOK, Originate
<1>5. owed[l] = 0 /\ owed'[l] = x + v /\ brokerOf'[l] = b
      /\ ~impaired[l] /\ ~impaired'[l]
  BY <1>0 DEF IInv, TypeOK, Originate
<1>6. total' - available' = total - available - owed[l] + owed'[l]
  BY <1>0, <1>1, <1>5 DEF IInv, TypeOK, Originate
<1>7. ASSUME NEW c \in Brokers
      PROVE  debt'[c] = debt[c] - OwedTo(c)[l] + OwedTo(c)'[l]
  <2>1. OwedTo(c)[l] = 0 /\ OwedTo(c)'[l] = IF b = c THEN x + v ELSE 0
    BY <1>5 DEF OwedTo
  <2>2. debt'[c] = debt[c] + (IF b = c THEN x + v ELSE 0) /\ debt[c] \in Int
    BY <1>0, <1>1 DEF IInv, TypeOK, Originate
  <2> QED BY <1>1, <2>1, <2>2
<1>8. loss' = loss - PaperLoss(l) + PaperLoss(l)'
  BY <1>5 DEF IInv, TypeOK, PaperLoss, Originate
<1> QED BY <1>2, <1>3, <1>4, <1>6, <1>7, <1>8, LoanStep

(* Pay and Default change the debt of the loan's broker only. *)
LEMMA SameBroker ==
  ASSUME TypeOK, TypeOK', NEW l \in Loans, brokerOf' = brokerOf,
         debt' = [debt EXCEPT ![brokerOf[l]] = @ - (owed[l] - owed'[l])]
  PROVE  \A c \in Brokers : debt'[c] = debt[c] - OwedTo(c)[l] + OwedTo(c)'[l]
<1> SUFFICES ASSUME NEW c \in Brokers
             PROVE  debt'[c] = debt[c] - OwedTo(c)[l] + OwedTo(c)'[l]
  OBVIOUS
<1>1. /\ OwedTo(c)[l] = IF brokerOf[l] = c THEN owed[l] ELSE 0
      /\ OwedTo(c)'[l] = IF brokerOf[l] = c THEN owed'[l] ELSE 0
  BY DEF OwedTo
<1>2. debt[c] \in Int /\ owed[l] \in Int /\ owed'[l] \in Int
  BY DEF TypeOK
<1>3. debt'[c] = debt[c] - (IF brokerOf[l] = c THEN owed[l] - owed'[l] ELSE 0)
  BY <1>2 DEF TypeOK
<1> QED BY <1>1, <1>2, <1>3

(* LoanPay: what arrives is what the loan owes less, after the change of   *)
(* its value; the impairment's part of the unrealized loss goes first.     *)
LEMMA PayStep ==
  ASSUME IInv, NEW l \in Loans, NEW x \in Amounts, Pay(l, x)
  PROVE  IInv'
<1>0. PICK v \in Changes, f \in Amounts :
         /\ x - v <= owed[l]
         /\ total' = total + v
         /\ owed' = [owed EXCEPT ![l] = @ - (x - v)]
         /\ debt' = [debt EXCEPT ![brokerOf[l]] = @ - (x - v)]
         /\ cover' = [cover EXCEPT ![brokerOf[l]] = @ + f]
         /\ coverCash' = [coverCash EXCEPT ![brokerOf[l]] = @ + f]
  BY DEF Pay
<1>1. x \in Nat /\ f \in Nat /\ v \in Int /\ owed[l] \in Nat
      /\ brokerOf[l] \in Brokers /\ impaired[l] \in BOOLEAN
  BY LedgerAssumption DEF IInv, TypeOK
<1>2. TypeOK'
  BY <1>0, <1>1 DEF IInv, TypeOK, Pay, PaperLoss
<1>3. FundsBackTheBooks'
  BY <1>0, <1>1 DEF IInv, FundsBackTheBooks, Pay
<1>4. \A j \in Loans : j # l =>
         owed'[j] = owed[j] /\ impaired'[j] = impaired[j] /\ brokerOf'[j] = brokerOf[j]
  BY <1>0 DEF IInv, TypeOK, Pay
<1>5. owed'[l] = owed[l] - (x - v) /\ ~impaired'[l] /\ brokerOf' = brokerOf
  BY <1>0 DEF IInv, TypeOK, Pay
<1>6. total' - available' = total - available - owed[l] + owed'[l]
  BY <1>0, <1>1, <1>5 DEF IInv, TypeOK, Pay
<1>7. \A c \in Brokers : debt'[c] = debt[c] - OwedTo(c)[l] + OwedTo(c)'[l]
  <2>1. owed[l] - owed'[l] = x - v
    BY <1>1, <1>5
  <2> QED BY <1>0, <1>2, <1>5, <2>1, SameBroker DEF IInv
<1>8. loss' = loss - PaperLoss(l) + PaperLoss(l)'
  BY <1>0, <1>1, <1>5 DEF IInv, TypeOK, PaperLoss, Pay
<1> QED BY <1>2, <1>3, <1>4, <1>6, <1>7, <1>8, LoanStep

(* LoanManage, impair and unimpair: only the unrealized loss changes, by   *)
(* what the loan owes.                                                     *)
LEMMA ImpairSteps ==
  ASSUME IInv, NEW l \in Loans, Impair(l) \/ Unimpair(l)
  PROVE  IInv'
<1>1. owed[l] \in Nat /\ owed' = owed /\ brokerOf' = brokerOf
  BY DEF IInv, TypeOK, Impair, Unimpair
<1>2. TypeOK'
  <2>1. /\ impaired' \in [Loans -> BOOLEAN] /\ loss' \in Int
        /\ UNCHANGED <<total, available, cash, debt, cover, coverCash, owed, brokerOf>>
    <3>1. CASE Impair(l)
      BY <1>1, <3>1 DEF IInv, TypeOK, Impair, coverVars
    <3>2. CASE Unimpair(l)
      BY <1>1, <3>2 DEF IInv, TypeOK, Unimpair, coverVars
    <3> QED BY <3>1, <3>2
  <2> QED BY <2>1 DEF IInv, TypeOK
<1>3. FundsBackTheBooks'
  BY DEF IInv, FundsBackTheBooks, Impair, Unimpair, coverVars
<1>4. \A j \in Loans : j # l =>
         owed'[j] = owed[j] /\ impaired'[j] = impaired[j] /\ brokerOf'[j] = brokerOf[j]
  BY DEF IInv, TypeOK, Impair, Unimpair
<1>5. total' - available' = total - available - owed[l] + owed'[l]
  BY <1>1 DEF IInv, TypeOK, Impair, Unimpair
<1>6. ASSUME NEW c \in Brokers
      PROVE  debt'[c] = debt[c] - OwedTo(c)[l] + OwedTo(c)'[l]
  <2>1. OwedTo(c)[l] = OwedTo(c)'[l] /\ OwedTo(c)[l] \in Int
    BY <1>1 DEF OwedTo
  <2>2. debt'[c] = debt[c] /\ debt[c] \in Int
    BY DEF IInv, TypeOK, Impair, Unimpair
  <2> QED BY <2>1, <2>2
<1>7. loss' = loss - PaperLoss(l) + PaperLoss(l)'
  <2>1. loss \in Int
    BY DEF IInv, TypeOK
  <2>2. CASE Impair(l)
    <3>1. ~impaired[l] /\ impaired'[l]
      BY <2>2 DEF IInv, TypeOK, Impair
    <3> QED BY <1>1, <2>1, <2>2, <3>1 DEF PaperLoss, Impair
  <2>3. CASE Unimpair(l)
    <3>1. impaired[l] /\ ~impaired'[l]
      BY <2>3 DEF IInv, TypeOK, Unimpair
    <3> QED BY <1>1, <2>1, <2>3, <3>1 DEF PaperLoss, Unimpair
  <2> QED BY <2>2, <2>3
<1> QED BY <1>2, <1>3, <1>4, <1>5, <1>6, <1>7, LoanStep

(* LoanManage, default: everything the loan owes leaves the books, and the *)
(* part the cover pays for becomes available.                              *)
LEMMA DefaultStep ==
  ASSUME IInv, NEW l \in Loans, NEW x \in Amounts, Default(l, x)
  PROVE  IInv'
<1>1. x \in Nat /\ owed[l] \in Nat /\ brokerOf[l] \in Brokers
      /\ impaired[l] \in BOOLEAN
  BY LedgerAssumption DEF IInv, TypeOK
<1>2. TypeOK'
  BY <1>1 DEF IInv, TypeOK, Default, PaperLoss
<1>3. FundsBackTheBooks'
  BY <1>1 DEF IInv, FundsBackTheBooks, Default
<1>4. \A j \in Loans : j # l =>
         owed'[j] = owed[j] /\ impaired'[j] = impaired[j] /\ brokerOf'[j] = brokerOf[j]
  BY DEF IInv, TypeOK, Default
<1>5. owed'[l] = 0 /\ ~impaired'[l] /\ brokerOf' = brokerOf
  BY DEF IInv, TypeOK, Default
<1>6. total' - available' = total - available - owed[l] + owed'[l]
  BY <1>1, <1>5 DEF IInv, TypeOK, Default
<1>7. \A c \in Brokers : debt'[c] = debt[c] - OwedTo(c)[l] + OwedTo(c)'[l]
  <2>1. owed[l] - owed'[l] = owed[l]
    BY <1>1, <1>5
  <2> QED BY <1>2, <1>5, <2>1, SameBroker DEF IInv, Default
<1>8. loss' = loss - PaperLoss(l) + PaperLoss(l)'
  BY <1>1, <1>5 DEF IInv, TypeOK, PaperLoss, Default
<1> QED BY <1>2, <1>3, <1>4, <1>6, <1>7, <1>8, LoanStep

(* LoanDelete: the loan's broker no longer matters, since it owes nothing. *)
LEMMA ForgetStep ==
  ASSUME IInv, NEW l \in Loans, NEW b \in Brokers, Forget(l, b)
  PROVE  IInv'
<1>1. owed[l] = 0 /\ owed' = owed /\ impaired' = impaired
  BY DEF Forget
<1>2. TypeOK'
  BY DEF IInv, TypeOK, Forget, coverVars
<1>3. FundsBackTheBooks'
  BY DEF IInv, FundsBackTheBooks, Forget, coverVars
<1>4. \A j \in Loans : j # l =>
         owed'[j] = owed[j] /\ impaired'[j] = impaired[j] /\ brokerOf'[j] = brokerOf[j]
  BY DEF IInv, TypeOK, Forget
<1>5. total' - available' = total - available - owed[l] + owed'[l]
  BY <1>1 DEF IInv, TypeOK, Forget
<1>6. \A c \in Brokers : debt'[c] = debt[c] - OwedTo(c)[l] + OwedTo(c)'[l]
  BY <1>1 DEF IInv, TypeOK, Forget, OwedTo
<1>7. loss' = loss - PaperLoss(l) + PaperLoss(l)'
  BY <1>1 DEF IInv, TypeOK, Forget, PaperLoss
<1> QED BY <1>2, <1>3, <1>4, <1>5, <1>6, <1>7, LoanStep

(* A step that changes none of the books keeps them in order. *)
LEMMA StutterStep == IInv /\ UNCHANGED vars => IInv'
<1> SUFFICES ASSUME IInv, UNCHANGED vars PROVE IInv'
  OBVIOUS
<1>1. UNCHANGED loanVars /\ TypeOK' /\ FundsBackTheBooks'
  BY DEF IInv, vars, loanVars, TypeOK, FundsBackTheBooks
<1> QED BY <1>1, SameLoans DEF IInv, vars, DebtIsWhatIsOwed, LossIsImpairment

(* The inductive step, by the transactions. *)
LEMMA NextIInv == IInv /\ [Next]_vars => IInv'
<1> SUFFICES ASSUME IInv, [Next]_vars PROVE IInv'
  OBVIOUS
<1>1. CASE \E x \in Amounts : Deposit(x) \/ Withdraw(x)
  BY <1>1, VaultSteps
<1>2. CASE \E b \in Brokers, x \in Amounts : CoverIn(b, x) \/ CoverOut(b, x)
  BY <1>2, CoverSteps
<1>3. CASE \E l \in Loans, b \in Brokers, x \in Amounts : Originate(l, b, x)
  BY <1>3, OriginateStep
<1>4. CASE \E l \in Loans, x \in Amounts : Pay(l, x)
  BY <1>4, PayStep
<1>5. CASE \E l \in Loans : Impair(l) \/ Unimpair(l)
  BY <1>5, ImpairSteps
<1>6. CASE \E l \in Loans, x \in Amounts : Default(l, x)
  BY <1>6, DefaultStep
<1>7. CASE \E l \in Loans, b \in Brokers : Forget(l, b)
  BY <1>7, ForgetStep
<1>8. CASE UNCHANGED vars
  BY <1>8, StutterStep
<1> QED BY <1>1, <1>2, <1>3, <1>4, <1>5, <1>6, <1>7, <1>8 DEF Next

(* Hence the books are in order in every reachable state. *)
THEOREM BooksInOrder == Spec => []IInv
BY InitIInv, NextIInv, PTL DEF Spec

(* The consequences for the invariant checker: sums of what is owed are    *)
(* not negative, and those of the impaired loans are at most all of them.  *)
LEMMA IInvGivesValidBooks == IInv => BooksAreValid
<1> SUFFICES ASSUME IInv PROVE BooksAreValid
  OBVIOUS
<1>1. /\ Zeros \in [Loans -> Int] /\ owed \in [Loans -> Int]
      /\ Losses \in [Loans -> Int]
      /\ \A b \in Brokers : OwedTo(b) \in [Loans -> Int]
  BY DEF IInv, TypeOK, Zeros, Losses, PaperLoss, OwedTo
<1>2. \A l \in Loans : /\ Zeros[l] <= owed[l] /\ Zeros[l] <= Losses[l]
                       /\ Losses[l] <= owed[l]
                       /\ \A b \in Brokers : Zeros[l] <= OwedTo(b)[l]
  BY DEF IInv, TypeOK, Zeros, Losses, PaperLoss, OwedTo
<1>3. /\ 0 <= Sum(owed) /\ 0 <= Sum(Losses) /\ Sum(Losses) <= Sum(owed)
      /\ \A b \in Brokers : 0 <= Sum(OwedTo(b))
  BY <1>1, <1>2, SumLe, SumZeros
<1>4. /\ total \in Int /\ available \in Nat /\ loss \in Int
      /\ Sum(owed) \in Int /\ \A b \in Brokers : cover[b] \in Nat
  BY <1>1, SumType DEF IInv, TypeOK
<1>5. total - available = Sum(owed) /\ loss = Sum(Losses)
      /\ \A b \in Brokers : debt[b] = Sum(OwedTo(b))
  BY DEF IInv, DebtIsWhatIsOwed, LossIsImpairment
<1> QED BY <1>3, <1>4, <1>5 DEF BooksAreValid

(* No book entry has a wrong type; in particular no loan owes a negative   *)
(* amount, and neither the available assets nor a cover go below zero.     *)
THEOREM TypeCorrect == Spec => []TypeOK
<1>1. IInv => TypeOK
  BY DEF IInv
<1> QED BY <1>1, BooksInOrder, PTL

(* The pseudo-accounts always hold exactly the available assets and cover, *)
(* so a transaction that the books allow is never short of funds.          *)
THEOREM FundsAlwaysBackTheBooks == Spec => []FundsBackTheBooks
<1>1. IInv => FundsBackTheBooks
  BY DEF IInv
<1> QED BY <1>1, BooksInOrder, PTL

(* However many loans and brokers there are, the vault's unavailable       *)
(* assets and the brokers' debts are what the loans owe.                   *)
THEOREM DebtIsAlwaysWhatIsOwed == Spec => []DebtIsWhatIsOwed
<1>1. IInv => DebtIsWhatIsOwed
  BY DEF IInv
<1> QED BY <1>1, BooksInOrder, PTL

(* The unrealized loss is always what the impaired loans owe, so that      *)
(* unimpairing, paying or defaulting one never finds too little of it.     *)
THEOREM LossIsAlwaysImpairment == Spec => []LossIsImpairment
<1>1. IInv => LossIsImpairment
  BY DEF IInv
<1> QED BY <1>1, BooksInOrder, PTL

(* The vault and broker clauses of the invariant checker always hold. *)
THEOREM BooksAreAlwaysValid == Spec => []BooksAreValid
BY IInvGivesValidBooks, BooksInOrder, PTL
=============================================================================
