-------------------------------- MODULE TxQ --------------------------------
(***************************************************************************)
(* The transaction queue (TxQ.h, TxQ.cpp) and the open ledger that it      *)
(* feeds: transactions that pay too little for the open ledger are held,   *)
(* and applied to the next ones in the order of their fee levels.          *)
(*                                                                         *)
(* TxQ::apply runs with the open ledger locked but takes the queue's mutex *)
(* twice, and TxQ::processClosedLedger, which the thread that accepts a    *)
(* ledger calls before it rebuilds the open one, may come in between.      *)
(*                                                                         *)
(* A SeqProxy is a number: the sequences are 1 to MaxSeq and tickets,      *)
(* which come after every sequence, are larger.  The transactors are       *)
(* outside: a transaction whose turn it is applies, or fails if MayRetry   *)
(* (a ter or tel code) or MayFail (tef or tem) has it.                     *)
(***************************************************************************)
EXTENDS FeeMetrics

CONSTANTS
    Txs,             \* records [account, prox, uses, fee, lastValid, blocker, id]
    Accounts, MaxSeq,
    MayRetry, MayFail,
    Foreign,         \* transactions the closed ledger may have although the open one lacks them
    None,
    MaxLedger,       \* bound: ledgers
    Slow,            \* bound: transactions in whose TxQ::apply a ledger may close
    Crowds,          \* bound: how many transactions of other accounts a ledger may have
    retriesAllowed, maximumTxnPerAccount, retrySequencePercent,
    minimumLastLedgerBuffer, queueSizeMin

VARIABLES
    ledgerSeq,       \* the last closed ledger
    closed, open,    \* the views: [seq, tickets, txs, others]
    phase,           \* "open", "closed" (queue told, open ledger not yet rebuilt) or "accept"
    submitted,       \* the transaction that TxQ::apply is at, with its stage, or None
    byAccount,       \* held transaction -> retriesRemaining
    byFee,           \* the held transactions as the fee index has them
    retryPenalty, dropPenalty,     \* accounts
    maxSize,         \* None before the first closed ledger
    parentHash,      \* the order among equal fees
    candidate,       \* where TxQ::accept is in byFee; None: at the end
    tried            \* history: tried by this TxQ::accept

queueVars == <<byAccount, byFee, retryPenalty, dropPenalty>>
acceptVars == <<candidate, tried, parentHash>>
vars == <<metricsVars, ledgerSeq, closed, open, phase, submitted, queueVars, maxSize, acceptVars>>

-----------------------------------------------------------------------------
(* The views. *)

isTicket(t) == t.prox > MaxSeq
isSeq(t) == ~isTicket(t)

TicketsOf == {<<t.account, t.prox>> : t \in {u \in Txs : isTicket(u)}}

followingSeq(t) == t.prox + t.uses

txCount(view) == Cardinality(view.txs) + view.others

(* The transactions S apply to a view, each in its turn. *)
Applicable(view, S) ==
    /\ \A t \in S :
          IF isTicket(t) THEN <<t.account, t.prox>> \in view.tickets
          ELSE \/ t.prox = view.seq[t.account]
               \/ \E u \in S : u.account = t.account /\ isSeq(u) /\ followingSeq(u) = t.prox
    /\ \A t, u \in S : t # u /\ t.account = u.account => t.prox # u.prox

Applied(view, S) ==
    [view EXCEPT !.seq = [a \in Accounts |->
                            Max({view.seq[a]} \cup {followingSeq(t) :
                                   t \in {u \in S : u.account = a /\ isSeq(u)}})],
                 !.tickets = @ \ {<<t.account, t.prox>> : t \in S},
                 !.txs = @ \cup S]

(* What applying t to a view may come to: a used sequence or ticket is a   *)
(* tef code, a sequence whose turn has not come a ter code.                *)
Outcomes(view, t) ==
    IF Applicable(view, {t})
    THEN {"applied"} \cup {r \in {"retry"} : t \in MayRetry} \cup {r \in {"fail"} : t \in MayFail}
    ELSE IF isSeq(t) /\ t.prox > view.seq[t.account] THEN {"retry"} ELSE {"fail"}

-----------------------------------------------------------------------------
(* The two indexes of the queue. *)

Held == DOMAIN byAccount
transactions(a) == {t \in Held : t.account = a}
empty(a) == transactions(a) = {}

(* OrderCandidates: by fee level, then by ID under the parent's hash. *)
Before(t, u) ==
    \/ t.fee > u.fee
    \/ t.fee = u.fee /\ (IF parentHash = 0 THEN t.id < u.id ELSE t.id > u.id)

First(S) == IF S = {} THEN None ELSE CHOOSE t \in S : \A u \in S \ {t} : Before(t, u)
Last(S) == CHOOSE t \in S : \A u \in S \ {t} : Before(u, t)
After(t) == First({u \in byFee : Before(t, u)})

Lowest(S) == CHOOSE t \in S : \A u \in S : t.prox <= u.prox
Highest(S) == CHOOSE t \in S : \A u \in S : t.prox >= u.prox

Without(S) == [t \in Held \ S |-> byAccount[t]]
Retry(S) == [t \in Held |-> IF t \in S THEN byAccount[t] - 1 ELSE byAccount[t]]

erase(S) ==
    /\ byAccount' = Without(S)
    /\ byFee' = byFee \ S

isFull(fillPercentage) ==
    maxSize # None /\ Cardinality(byFee) >= (maxSize * fillPercentage) \div 100

(* The account's transactions that are still to come in the open ledger. *)
ToCome(a) == {t \in transactions(a) : t.prox >= open.seq[a]}

replaced(t) == {u \in transactions(t.account) : u.prox = t.prox}

(* The first sequence of the account that no held transaction has. *)
nextQueuableSeq(a) ==
    LET seqs == {t \in ToCome(a) : isSeq(t)}
    IN  Min(({open.seq[a]} \cup {followingSeq(t) : t \in seqs}) \ {t.prox : t \in seqs})

-----------------------------------------------------------------------------
(* TxQ::apply, first part: may t go straight into the open ledger? *)

viewSeq == IF phase = "closed" THEN ledgerSeq ELSE ledgerSeq + 1

getRequiredFeeLevel == scaleFeeLevel(txCount(open))

MayApplyDirectly(t) ==
    /\ isSeq(t) => t.prox = open.seq[t.account]
    /\ t.fee >= getRequiredFeeLevel

(* Mutant: the transaction that was replaced stays in the queue. *)
tryDirectApplyBeside(t) ==
    \/ "applied" \in Outcomes(open, t) /\ open' = Applied(open, {t}) /\ UNCHANGED <<byAccount, byFee>>
    \/ Outcomes(open, t) # {"applied"} /\ UNCHANGED <<open, byAccount, byFee>>

(* A transaction that applies takes the place of one that is held. *)
tryDirectApply(t) ==
    \/ /\ "applied" \in Outcomes(open, t)
       /\ open' = Applied(open, {t})
       /\ erase(replaced(t))
    \/ /\ Outcomes(open, t) # {"applied"}
       /\ UNCHANGED <<open, byAccount, byFee>>

-----------------------------------------------------------------------------
(* TxQ::apply, second part: may t be held, and at whose cost? *)

(* Mutant: a blocker may join the only one that is held. *)
NotBlockedByOne(t) ==
    t.blocker => Cardinality(ToCome(t.account)) <= 1

(* A blocker is only held alone, or in place of the one that is. *)
NotBlocked(t) ==
    LET others == {u \in ToCome(t.account) : u.prox # t.prox}
        lone == Cardinality(ToCome(t.account)) = 1
    IN  /\ t.blocker => others = {}
        /\ lone => \A u \in others : ~u.blocker

increase(level, increasePercent) == mulDiv(level, 100 + increasePercent, 100)

Outbids(t) == \A u \in replaced(t) : t.fee > increase(u.fee, retrySequencePercent)

FillsGap(t) ==
    /\ isSeq(t) /\ t.prox = nextQueuableSeq(t.account)
    /\ \E u \in transactions(t.account) : isSeq(u) /\ u.prox > t.prox

(* Mutant: the last ledger need not be after the view's. *)
canBeHeldToTheEnd(t) ==
    /\ t.lastValid # None => t.lastValid >= viewSeq
    /\ \/ replaced(t) # {}
       \/ Cardinality(transactions(t.account)) < maximumTxnPerAccount
       \/ FillsGap(t)

canBeHeld(t) ==
    /\ t.lastValid # None => t.lastValid >= viewSeq + minimumLastLedgerBuffer
    /\ \/ replaced(t) # {}
       \/ Cardinality(transactions(t.account)) < maximumTxnPerAccount
       \/ FillsGap(t)

(* Others of the account are held, and t does not replace the only one. *)
RequiresMultiTxn(t) ==
    ToCome(t.account) # {} /\ (Cardinality(ToCome(t.account)) > 1 \/ replaced(t) = {})

(* At the front a sequence must be the account's; behind others it must    *)
(* fill the first gap, unless t is a replacement.                          *)
InSequence(t) ==
    LET front == \A u \in transactions(t.account) : u.prox > t.prox
    IN  isSeq(t) =>
          /\ t.prox >= open.seq[t.account]
          /\ (ToCome(t.account) = {} \/ (RequiresMultiTxn(t) /\ front)) => t.prox = open.seq[t.account]
          /\ (RequiresMultiTxn(t) /\ ~front /\ replaced(t) = {}) => t.prox = nextQueuableSeq(t.account)

Queueable(t) ==
    /\ isTicket(t) => <<t.account, t.prox>> \in open.tickets
    /\ NotBlocked(t) /\ Outbids(t) /\ InSequence(t) /\ canBeHeld(t)

(* The end account's fee level: of its cheapest, or the average of all. *)
endEffectiveFeeLevel(t, last) ==
    LET all == transactions(last.account)
        n == Cardinality(all)
    IN  IF last.fee > t.fee \/ n = 1 THEN last.fee
        ELSE SumFunctionOnSet([u \in all |-> u.fee \div n], all)
             + SumFunctionOnSet([u \in all |-> u.fee % n], all) \div n

(* Mutant: the cheapest itself goes. *)
EvictedCheapest(t) ==
    LET strangers == {u \in byFee : u.account # t.account}
        last == Last(strangers)
    IN  IF strangers = {} \/ t.fee <= endEffectiveFeeLevel(t, last) THEN {} ELSE {last}

(* Who goes when the queue is full: the last transaction of the account    *)
(* that has the cheapest one.  Nobody, when t pays no more than they do.   *)
Evicted(t) ==
    LET strangers == {u \in byFee : u.account # t.account}
        last == Last(strangers)
    IN  IF strangers = {} \/ t.fee <= endEffectiveFeeLevel(t, last) THEN {}
        ELSE {Highest(transactions(last.account))}

(* Mutant: what is replaced stays in the fee index. *)
HoldTwice(t, base) ==
    LET full == replaced(t) = {} /\ isFull(100)
        gone == IF full THEN Evicted(t) ELSE replaced(t)
    IN  IF full /\ gone = {} THEN byAccount' = base /\ UNCHANGED byFee
        ELSE /\ byAccount' = [u \in (Held \ gone) \cup {t} |-> IF u = t THEN retriesAllowed ELSE base[u]]
             /\ byFee' = byFee \cup {t}

(* t is held, unless the queue is full; base has the retries that are left. *)
Hold(t, base) ==
    LET full == replaced(t) = {} /\ isFull(100)
        gone == IF full THEN Evicted(t) ELSE replaced(t)
        turnedDown == full /\ gone = {}
    IN  /\ byAccount' = IF turnedDown THEN base
                        ELSE [u \in (Held \ gone) \cup {t} |-> IF u = t THEN retriesAllowed ELSE base[u]]
        /\ byFee' = IF turnedDown THEN byFee ELSE (byFee \ gone) \cup {t}

(* The account's transactions in front of t. *)
InFront(t) == {u \in ToCome(t.account) : u.prox < t.prox}

(* Mutant: t itself is not counted. *)
PaysForSeriesBefore(t) ==
    LET front == InFront(t)
    IN  t.fee + SumFunctionOnSet([u \in front |-> u.fee], front)
          >= escalatedSeriesFeeLevel(txCount(open), Cardinality(front))

(* t pays enough to take everything in front of it into the open ledger. *)
PaysForSeries(t) ==
    LET front == InFront(t)
    IN  t.fee + SumFunctionOnSet([u \in front |-> u.fee], front)
          >= escalatedSeriesFeeLevel(txCount(open), Cardinality(front) + 1)

MayClear(t) ==
    /\ isSeq(t) /\ RequiresMultiTxn(t)
    /\ byAccount[Lowest(ToCome(t.account))] = retriesAllowed
    /\ t.fee > getRequiredFeeLevel /\ getRequiredFeeLevel > baseLevel
    /\ PaysForSeries(t)

(* All of them apply, and t, to a sandbox that becomes the open ledger. *)
Clear(t) ==
    /\ Applicable(open, InFront(t) \cup {t})
    /\ open' = Applied(open, InFront(t) \cup {t})
    /\ erase(InFront(t) \cup replaced(t))

(* Or f is the first that does not: the sandbox is dropped, what was tried *)
(* has used a retry, and t is held like any other.                         *)
FailToClear(t, f) ==
    LET upTo == {u \in InFront(t) : u.prox <= f.prox}
    IN  /\ f \in MayRetry \cup MayFail \/ ~Applicable(open, upTo \cup {f})
        /\ Applicable(open, upTo \ {f})
        /\ Hold(t, Retry(upTo))
        /\ UNCHANGED open

(* TxQ::apply turns t down also when its account could not pay for all     *)
(* that it has in the queue, or preclaim finds it unlikely to pay a fee.   *)
tryQueue(t) ==
    \/ UNCHANGED <<open, byAccount, byFee>>
    \/ Queueable(t) /\ ~MayClear(t) /\ Hold(t, byAccount) /\ UNCHANGED open
    \/ Queueable(t) /\ MayClear(t) /\ Clear(t)
    \/ Queueable(t) /\ MayClear(t) /\ \E f \in InFront(t) \cup {t} : FailToClear(t, f)

apply(t, direct) ==
    /\ phase # "accept"
    /\ IF direct THEN tryDirectApply(t) ELSE tryQueue(t)
    /\ submitted' = None
    /\ UNCHANGED <<metricsVars, ledgerSeq, closed, phase, retryPenalty, dropPenalty, maxSize, acceptVars>>

ApplyAtOnce(t) ==
    submitted = None /\ apply(t, MayApplyDirectly(t))

(* Or a ledger may close after the required fee level has been read. *)
BeginApply(t) ==
    /\ phase = "open" /\ submitted = None /\ t \in Slow
    /\ submitted' = [tx |-> t, direct |-> MayApplyDirectly(t)]
    /\ UNCHANGED <<metricsVars, ledgerSeq, closed, open, phase, queueVars, maxSize, acceptVars>>

EndApply ==
    submitted # None /\ apply(submitted.tx, submitted.direct)

-----------------------------------------------------------------------------
(* A ledger closes with the transactions S and some of other accounts. *)

feeLevelCounts(S, others) ==
    [l \in {baseLevel} \cup {t.fee : t \in S} |->
        Cardinality({t \in S : t.fee = l}) + (IF l = baseLevel THEN others ELSE 0)]

Expired(seq) == {t \in Held : t.lastValid # None /\ t.lastValid <= seq}

processClosedLedger(seq, S, others, timeLeap) ==
    LET gone == Expired(seq)
        kept(a) == transactions(a) \ gone # {}
    IN  /\ update(feeLevelCounts(S, others), timeLeap)
        /\ maxSize' = IF timeLeap THEN maxSize
                      ELSE Max({txnsExpected' * ledgersInQueue, queueSizeMin})
        /\ erase(gone)
        /\ retryPenalty' = {a \in retryPenalty : kept(a)}
        /\ dropPenalty' = {a \in dropPenalty \cup {t.account : t \in gone} : kept(a)}

CloseLedger(S, others, timeLeap) ==
    /\ phase = "open" /\ ledgerSeq < MaxLedger
    /\ Applicable(closed, S)
    /\ ledgerSeq' = ledgerSeq + 1
    /\ closed' = [Applied(closed, S) EXCEPT !.txs = {}]
    /\ processClosedLedger(ledgerSeq', S, others, timeLeap)
    /\ phase' = "closed"
    /\ UNCHANGED <<open, submitted, acceptVars>>

(* OpenLedger::accept makes a new open ledger of disputed transactions and *)
(* of what the closed one left of the old, whatever they pay, and then     *)
(* calls TxQ::accept.                                                      *)
RebuildOpen(S, others) ==
    /\ phase = "closed" /\ submitted = None
    /\ Applicable(closed, S)
    /\ \A t \in open.txs \ S : t \in MayRetry \cup MayFail \/ ~Applicable(closed, S \cup {t})
    /\ open' = [Applied(closed, S) EXCEPT !.txs = S, !.others = others]
    /\ phase' = "accept"
    /\ candidate' = First(byFee) /\ tried' = {}
    /\ UNCHANGED <<metricsVars, ledgerSeq, closed, submitted, queueVars, maxSize, parentHash>>

OthersApply(others) ==
    /\ phase # "accept" /\ submitted = None
    /\ open.others < others
    /\ open' = [open EXCEPT !.others = others]
    /\ UNCHANGED <<metricsVars, ledgerSeq, closed, phase, submitted, queueVars, maxSize, acceptVars>>

-----------------------------------------------------------------------------
(* TxQ::accept, one candidate at a time. *)

(* Mutant: what was passed over waits for the next ledger. *)
AdvancedOnly(t) == After(t)

(* Where to go on once t is out: back to the account's next transaction if *)
(* it pays more than the one after t, for then it was passed over.         *)
Advanced(t) ==
    LET later == {u \in transactions(t.account) : u.prox > t.prox}
        next == Lowest(later)
    IN  IF later # {} /\ (After(t) = None \/ Before(next, After(t))) THEN next ELSE After(t)

eraseAndAdvance(t) ==
    /\ erase({t})
    /\ candidate' = Advanced(t)

(* A sequence waits for the account's earlier ones. *)
NotFirst(t) == isSeq(t) /\ \E u \in transactions(t.account) : u.prox < t.prox

Skip(t) ==
    /\ NotFirst(t)
    /\ candidate' = After(t)
    /\ UNCHANGED <<open, queueVars, tried>>

AcceptApplied(t) ==
    /\ open' = Applied(open, {t})
    /\ eraseAndAdvance(t)
    /\ UNCHANGED <<retryPenalty, dropPenalty>>

AcceptFailed(t) ==
    /\ eraseAndAdvance(t)
    /\ IF byAccount[t] <= 0
       THEN retryPenalty' = retryPenalty \cup {t.account} /\ UNCHANGED dropPenalty
       ELSE dropPenalty' = dropPenalty \cup {t.account} /\ UNCHANGED retryPenalty
    /\ UNCHANGED open

RetriesLeft(t) ==
    IF t.account \in retryPenalty /\ byAccount[t] > 2 THEN 1 ELSE byAccount[t] - 1

(* With the queue nearly full, an account that has had a failure loses the *)
(* transaction itself if it has a ticket, else its last one.               *)
Penalized(t) ==
    IF t.account \in dropPenalty /\ Cardinality(transactions(t.account)) > 1 /\ isFull(95)
    THEN IF isTicket(t) THEN {t} ELSE {Highest(transactions(t.account))} \ {t}
    ELSE {}

(* Mutant: the next one is looked up before the penalty. *)
AcceptRetryEarly(t) ==
    LET gone == Penalized(t)
        left == [byAccount EXCEPT ![t] = RetriesLeft(t)]
    IN  /\ byAccount' = [u \in Held \ gone |-> left[u]]
        /\ byFee' = byFee \ gone
        /\ candidate' = After(t)
        /\ UNCHANGED <<open, retryPenalty, dropPenalty>>

AcceptRetry(t) ==
    LET gone == Penalized(t)
        left == [byAccount EXCEPT ![t] = RetriesLeft(t)]
    IN  /\ byAccount' = [u \in Held \ gone |-> left[u]]
        /\ byFee' = byFee \ gone
        /\ candidate' = IF gone = {t} THEN Advanced(t)
                        ELSE First({u \in byFee \ gone : Before(t, u)})
        /\ UNCHANGED <<open, retryPenalty, dropPenalty>>

AcceptCandidate ==
    /\ phase = "accept" /\ candidate # None
    /\ LET t == candidate
       IN  \/ Skip(t)
           \/ /\ ~NotFirst(t)
              /\ t.fee >= getRequiredFeeLevel
              /\ \E r \in Outcomes(open, t) :
                    \/ r = "applied" /\ AcceptApplied(t)
                    \/ (r = "fail" \/ (r = "retry" /\ byAccount[t] <= 0)) /\ AcceptFailed(t)
                    \/ r = "retry" /\ byAccount[t] > 0 /\ AcceptRetry(t)
              /\ tried' = tried \cup {t}
    /\ UNCHANGED <<metricsVars, ledgerSeq, closed, phase, submitted, maxSize, parentHash>>

(* The index is built again, ordered by the new parent's hash; the hashes  *)
(* take turns.                                                             *)
EndAccept ==
    /\ phase = "accept"
    /\ candidate # None => (~NotFirst(candidate) /\ candidate.fee < getRequiredFeeLevel)
    /\ phase' = "open"
    /\ parentHash' = ledgerSeq % 2
    /\ byFee' = Held
    /\ candidate' = None /\ tried' = {}
    /\ UNCHANGED <<metricsVars, ledgerSeq, closed, open, submitted, byAccount, retryPenalty, dropPenalty, maxSize>>

-----------------------------------------------------------------------------
Init ==
    /\ MetricsInit
    /\ ledgerSeq = 0
    /\ closed = [seq |-> [a \in Accounts |-> 1], tickets |-> TicketsOf, txs |-> {}, others |-> 0]
    /\ open = closed
    /\ phase = "open"
    /\ submitted = None
    /\ byAccount = <<>> /\ byFee = {}
    /\ retryPenalty = {} /\ dropPenalty = {}
    /\ maxSize = None
    /\ parentHash = 0 /\ candidate = None /\ tried = {}

Apply == (\E t \in Txs : ApplyAtOnce(t) \/ BeginApply(t)) \/ EndApply

NextLedger ==
    \/ \E S \in SUBSET (open.txs \cup Foreign), others \in Crowds, timeLeap \in BOOLEAN :
          CloseLedger(S, others, timeLeap)
    \/ \E S \in SUBSET (open.txs \cup Foreign), others \in Crowds : RebuildOpen(S, others)
    \/ AcceptCandidate
    \/ EndAccept

Next == Apply \/ (\E others \in Crowds : OthersApply(others)) \/ NextLedger

Spec == Init /\ [][Next]_vars

-----------------------------------------------------------------------------
(* The state has its type; TxQ::accept is never at a transaction that has  *)
(* left the fee index (its iterator would dangle).                         *)
TypeOK ==
    /\ byAccount \in [Held -> (-1)..retriesAllowed] /\ Held \subseteq Txs
    /\ maxSize \in Nat \cup {None}
    /\ candidate \in byFee \cup {None}
    /\ txnsExpected >= minimumTxnCount

(* Both indexes have the same transactions, an account has one for each    *)
(* sequence or ticket (the assertions of erase, add and accept), and none  *)
(* has passed its last ledger, in whatever order TxQ::apply and            *)
(* TxQ::processClosedLedger get the mutex.                                 *)
QueueIsSound ==
    /\ TypeOK
    /\ byFee = Held
    /\ \A t, u \in Held : t # u /\ t.account = u.account => t.prox # u.prox
    /\ \A t \in Held : t.lastValid # None => t.lastValid > ledgerSeq

BlockersAlone ==
    \A t \in Held : t.blocker /\ t \in ToCome(t.account) => ToCome(t.account) = {t}

(* A blocker stays alone among what its account has to come, as the        *)
(* comment on TxQ::apply says, unless the open ledger is rebuilt: then a   *)
(* sequence that was used up, by a disputed transaction, may come again.   *)
BlockerStaysAlone ==
    [][~(phase = "closed" /\ phase' = "accept") /\ BlockersAlone => BlockersAlone']_vars

(* When TxQ::apply or TxQ::accept use up a sequence or a ticket in the     *)
(* open ledger, nothing that needs it stays in the queue.                  *)
AppliedIsGone ==
    [][~(phase = "closed" /\ phase' = "accept") =>
         \A t \in Held' :
            IF isSeq(t) THEN t.prox < open'.seq[t.account] => t.prox < open.seq[t.account]
            ELSE <<t.account, t.prox>> \in open.tickets => <<t.account, t.prox>> \in open'.tickets]_vars

(* What leaves the queue in TxQ::apply has been applied, or replaced by a  *)
(* transaction with its sequence or ticket, or evicted for one of another  *)
(* account that pays more than the cheapest of its own; then no later one  *)
(* of its account is left behind.                                          *)
HeldNotLost ==
    [][phase # "accept" /\ phase' = phase =>
         LET new == (Held' \cup open'.txs) \ (Held \cup open.txs)
         IN  \A t \in Held \ Held' :
                \/ t \in open'.txs
                \/ \E u \in new : u.account = t.account /\ u.prox = t.prox
                \/ \E u \in new :
                     /\ u.account # t.account
                     /\ \E v \in Held : v.account = t.account /\ v.fee < u.fee
                     /\ \A v \in Held' : v.account = t.account => v.prox < t.prox]_vars

(* Transactions that an expensive one takes along into the open ledger     *)
(* have together paid what each would have had to pay in its turn.         *)
ClearingPays ==
    [][phase # "accept" /\ phase' = phase =>
         LET added == open'.txs \ open.txs
             levels == [i \in 0..(Cardinality(added) - 1) |-> scaleFeeLevel(txCount(open) + i)]
         IN  Cardinality(added) > 1 =>
               SumFunctionOnSet([t \in added |-> t.fee], added) >= SumFunction(levels)]_vars

(* TxQ::accept ends only when it has tried everything whose turn it was    *)
(* and that pays enough, those it first had to pass over included.         *)
AcceptIsComplete ==
    [][phase = "accept" /\ phase' = "open" =>
         \A t \in Held : ~NotFirst(t) /\ t.fee >= getRequiredFeeLevel => t \in tried]_vars
=============================================================================
