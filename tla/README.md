# A TLA+ development of the XRPL server and its lending protocol

This directory models the vaults (XLS-65) and the lending protocol (XLS-66) of
the server in `src/`, and the parts of the server that decide which
transactions get into a ledger: the transaction queue, consensus, validations,
the negative UNL, and the job queue that runs all of them. TLC checks the
modules on small instances. TLAPS proves the accounting of the lending protocol
and the rules of the negative UNL for every instance.

## The system

The server (`xrpld`) is a node of a replicated ledger. Its parts, with what is
modelled here (`PROJECT.json` lists them with their files):

| Part | State | Operations | Modelled |
| --- | --- | --- | --- |
| `Number` | none (a value type) | `normalize`, `+=`, `*=`, `/=`, conversion, `power` | all but roots and printing |
| Loan arithmetic (`LendingHelpers.cpp`) | none | amortisation and the four kinds of payment | for whole units (scale 0) |
| Loans | `ltLOAN` entries | LoanSet, LoanPay, LoanManage, LoanDelete | yes |
| Loan brokers | `ltLOAN_BROKER` entries | Set, Delete, CoverDeposit, CoverWithdraw, CoverClawback | yes |
| Vaults | `ltVAULT` entries, share issuance, MPTokens | Create, Set, Delete, Deposit, Withdraw, Clawback | yes |
| Invariant checker | none | checks after each transaction | `ValidVault`'s balance clauses |
| Ledger close times | header of the open ledger | closing a ledger | as the clock of the loans; the agreed close time in `Consensus` |
| Consensus | positions, disputes, timers, parent ledger | `startRound`, `timerEntry`, `peerProposal`, `gotTxSet` | one server's round |
| Validations | validations by node and ledger, trie of ledgers | `add`, `trustChanged`, `expire`, `setSeqToKeep`, `getPreferred` | yes, without flushing and statistics |
| Negative UNL | list in the ledger, score table, new validators | `doVoting`, `applyUNLModify`, `updateNegativeUNL` | yes |
| Transaction queue | two indexes, fee metrics | `apply`, `accept`, `processClosedLedger` | yes |
| Job queue and workers | jobs, closures, threads, coroutines | `addJob`, `processTask`, `setNumberOfThreads`, `stop`, `post`, `yield` | yes, without load reports |
| Transaction application | account roots | fee, reset on a `tec` result, batches | no |
| Amendments, fee votes | majorities | voting at flag ledgers | no |
| Overlay, hash router, squelching | peers, slots | relay, squelch | no |
| Ledger acquisition, online deletion, node store | back ends, timers | acquire, rotate | no |
| Other transactors, RPC | | | no |

How the lending parts interact: a lender deposits assets in a vault and holds
shares. A broker attached to the vault lends the vault's assets, and puts up
first-loss cover that pays part of a default. Every payment divides into
principal, interest and fees, and changes the loan, the broker's debt, and the
vault's total and available assets in one transaction. Vault and broker keep
their assets in pseudo-accounts, whose balances must agree with the books.

How the server's parts interact: transactions wait in the queue until the open
ledger has room. A consensus round turns the open ledger into a set that the
trusted peers agree on. The ledger built from it is validated, and validations
from all validators decide which branch a server follows and so the parent of
its next round. Every 256 ledgers validations are counted and servers may vote
a silent validator off the list that counts for the quorum. All of it runs as
jobs on a pool of threads.

What is hard here: every part of a payment is rounded separately, and three
entries must agree after each transaction; proposals, transaction sets, ledgers
and validations arrive late, twice, out of order or never; the parent ledger
changes in the middle of a round; a validator restarts and repeats itself; the
queue must give up, take back or skip what it holds while ledgers close; and
threads are paused, resumed and stopped while they work. The hazards in
`PROJECT.json` name the lines.

## Modules

| Module | Models | State and actions |
| --- | --- | --- |
| `Number` | `Number.h`, `Number.cpp` | operators on records `[m, e]` with `P` decimal digits (16 in the code) |
| `NumberRounding` | calls of the operators | picks operands, mode and operation, keeps the result |
| `LendingHelpers` | `LendingHelpers.cpp` | operators under the source's names; `doPayment`, `loanMakePayment`, ... return the changed loan and the parts paid |
| `Loan` | guards and new values of LoanSet and LoanManage | operators on a loan record |
| `LoanLife` | one loan | `Pay`, `PayInFull`, `Impair`, `Unimpair`, `Default`, `NewLedger` |
| `Vault` | vault transactions, share conversions of `View.cpp` | `VaultCreate`, `VaultSet`, `VaultDelete`, `VaultDeposit`, `VaultWithdraw`, `VaultClawback` |
| `LoanBroker` | broker transactions | `LoanBrokerCreate`, `LoanBrokerModify`, `LoanBrokerDelete`, the three cover actions |
| `Lending` | all of it, composed | the above with `LoanSet`, `LoanPay`, `LoanImpair`, `LoanUnimpair`, `LoanDefault`, `LoanDelete`, `NewLedger` |
| `LendingLedger` | the accounting contract | one action per kind of change of the books, amounts left open |
| `Workers` | `Workers.cpp`, `semaphore.h` | one step per atomic operation or critical section of a thread |
| `JobQueue` | `JobQueue.cpp`, `ClosureCounter.h`, `Coro.ipp` | on top of `Workers`: callers, workers and the owner as three kinds of thread |
| `Consensus` | `Consensus.h`, `Consensus.cpp`, `DisputedTx.h`, `RCLConsensus.cpp` | one server; `calls` is the stack of calls that the running handler has still to make |
| `LedgerAncestry` | `RCLValidatedLedger` | ancestors and mismatch of ledgers |
| `LedgerTrie` | `LedgerTrie.h` | the compressed trie as a function from nodes to supports |
| `ValidationSets` | `SeqEnforcer` and the sets of `Validations.h` | current validations, by ledger and by sequence; expiry and the range to keep |
| `Validations` | `Validations.h`, `handleNewValidation` | the two above with trust, acquisition and the trie; `todo` holds the trie updates of the running handler |
| `NegativeUNL` | `Change.cpp`, `Ledger.cpp` | the list, what is voted and agreed, ledger by ledger |
| `NegativeUNLVote` | `NegativeUNLVote.cpp` | one server's history, score table and vote, composed with `ValidationSets` and `NegativeUNL` |
| `FeeMetrics` | `TxQ::FeeMetrics` | expected ledger size and escalation |
| `TxQ` | `TxQ.cpp`, `OpenLedger::accept` | the two indexes, the open ledger, and `accept` one candidate at a time |
| `LendingLedgerProofs`, `NegativeUNLProofs` | | theorems |
| `MC*` | | constants for TLC |

Modelling decisions, lending:

- One action is one transaction that succeeds. A failed transaction leaves the
  lending entries as they were, so failures are the absence of a step. This
  includes the transactions that the invariant checker throws away:
  `ValidVault` is a conjunct of the actions that touch a vault.
- The asset is an MPT, so amounts are whole units and the loan scale is 0.
  Transfer fees, freezes, authorisation and reserves can only refuse a
  transaction and are left out. The exception is a frozen broker owner, which
  changes who gets a fee in LoanPay; `OwnerFrozen` says whether it can happen.
- `XRPL_ASSERT` does nothing in a release build, so assertions are not guards.
  Some of them are properties instead.
- While a ledger is built its close time is an estimate: the parent's close
  time plus the close time resolution. LoanSet takes a loan's start date from
  it, and expiry is judged by the parent's close time. `NewLedger` moves both.
- Time is scaled: a year is `SecondsPerYear`, and the 60-second minimum of the
  payment interval becomes "positive". Dates are taken modulo `TimeModulus`
  (2^32 in the code).
- Loans are numbered by slots that are free again after LoanDelete. The code
  uses the broker and a sequence number, which no property depends on.

Job queue:

- A step is one atomic operation or one critical section. A thread's place in
  its function is `pc`.
- The owner changes the number of threads only while no task is pending, as
  the server and `Workers_test.cpp` do. `nSuspend_` and `running_` serve
  assertions and waits that the modelled code does not use, and are left out.

Consensus:

- The consensus mutex makes every handler atomic. Long handlers are still
  several steps, with `calls` as their stack, and no other handler starts
  before the stack is empty.
- Yays and nays are counted from the votes. The close time resolution is a
  constant, peers' raw close times (which only adjust the clock) are left out,
  and `shouldPause` compares integers where the code compares fractions.
- A round starts on the ledger that the network prefers. `simulate` and
  `doAccept` are not modelled.

Validations and negative UNL:

- Trust is looked up when a validation arrives and the validation is added in a
  later step, as in `handleNewValidation`. `trustChanged` follows a change of
  the list of validators in a step of its own, one validator at a time.
- The 256 ancestors that `RCLValidatedLedger` keeps are all ancestors here, and
  the network's and the server's clock are one.
- `NegativeUNL` lets the network agree on any set of votes that servers with
  any scores may cast. `NegativeUNLVote` is one server with real scores. Its
  chain has no forks and time goes by ledgers. It starts when the amendment has
  just been enabled.

Transaction queue:

- A transaction is a member of `Txs`: account, sequence or ticket, fee level,
  last ledger, whether it blocks. The failures that only turn a transaction
  down (preflight, balance, preclaim, `tapFAIL_HARD`) are one. Results and
  flags kept with a transaction are left out, and no transaction makes tickets.
- `apply` may be interrupted between the decision to apply directly and the
  application, where the code holds no lock.
- When a ledger has closed, the open ledger is rebuilt with any of the
  transactions that were disputed or left over (`Foreign`, `OthersApply`), and
  then `accept` goes through the queue.

Definitions under a comment that starts with "Mutant" are deliberately wrong
variants of the definition that follows. No specification uses them.
`PROJECT.json` names the property that fails when one takes the place of the
right definition.

## Runs that pass

| Run | States | What it shows |
| --- | --- | --- |
| `number_rounding` | 106128 | Products, sums of one sign and conversions to whole units round correctly in all modes. Quotients are one of the two neighbours of the exact value. Differences are off by less than a unit, and sums of integers are exact when they fit. |
| `loan_life` | 18576 | A loan is over exactly when all is repaid. Principal adds up to the unit, and interest with the reported value changes. No payment takes more than was offered. |
| `lending` | 50571 | Owner counts are right and nothing dangles, cover falls short of its minimum only through a default, and every step is a step of `LendingLedger`. |
| `vault_shares` | 30481 | Shares and MPTokens add up. A deposit redeemed at once pays no more than it cost. Others' shares lose at most one unit by anyone's deposit, withdrawal or clawback. |
| `lending_fees` | 15941 | With fees: accepted payments pass the invariant checker, and steps still implement `LendingLedger`. |
| `lending_ledger` | 1280 | The inductive invariant of the proofs, on two brokers and two loans. |
| `job_queue` | 208865 | A worker that takes a task finds a job it may run. A coroutine is on one thread at a time. Every job runs, `stop` returns with nothing left, and the pool settles on its size. |
| `consensus` | 626884 | Votes are those of the current sets of current peers, every difference is disputed, our set is our votes. Positions do not go back, our proposals are in order up to the one that bows out. The round ends. |
| `validations` | 223822 | The trie counts the last validation of each trusted validator, and the walk over the compressed trie finds the ledger that a definition over the whole tree prefers. No validator counts for two ledgers of a sequence, and an honest one is never called conflicting. |
| `negative_unl` | 922881 | The validations a vote needs are still there. The list is consistent and within its limit. Nobody is voted out who validated everything or is new. |
| `txq` | 298828 | The indexes agree and hold nothing expired. Blockers stay alone, nothing already applied stays queued, nothing is lost but by replacement or a fair eviction. Clearing an account pays for itself, and `accept` tries everything whose turn it is. |

Each module also has a `TypeOK`, which is a conjunct of its first invariant.

Bounds and why they are enough for these questions:

- `P = 2` in `number_rounding` with mantissas at the ends of the range and
  around a half: the code treats every digit alike, and these are the values
  where carries, borrows and ties happen. `P = 4` in the lending runs holds
  every amount that occurs with digits to spare. It is a scaled precision, so
  these runs say nothing about errors that only appear at 16 digits.
- Loans of 7 and 16 units (16 and 100 with overpayments), so that one unit of
  rounding is a large part of a payment. Up to five payments, at most three
  per transaction, so that the limit is met.
- The clock stops at `LastClose`, after due dates and grace periods have
  passed, so that late payments and defaults occur.
- One vault, one broker, at most two loans, and two lenders where they can
  affect each other. Two brokers only appear in `lending_ledger`, which bounds
  the vault's total and the cover with a constraint.
- `job_queue`: three threads, two changes of size, one client, one coroutine
  and one ordinary job besides its posts; a type limited to one job, so that
  deferral happens.
- `consensus`: two peers, one of which changes its position and bows out while
  the other moves to another parent ledger; two proposals may arrive, one switch,
  one round. `MaxTime` is 60 because a round in which the peers fall silent
  takes that long to end; with 54 the end is cut off. Times are scaled so that
  the order of the constants in `ConsensusParms.h` is kept.
- `validations`: five ledgers with a fork and three validators. One moves along
  a branch, one validates both branches at the same sequence, and one of two
  gains or loses our trust, once (see below for why not twice).
- `negative_unl`: a flag ledger every 4 ledgers, 10 ledgers, one validator that
  is always silent, one that joins, one restart, one sweep.
- `txq`: two accounts, three sequences, three ledgers, queues of two and more.

Deadlock is not checked where the clock stops, because then the model may.

## A run that shows a disagreement

`lending_overpaid` checks what `Loan_test.cpp` expects, that a broker's debt is
what its loans owe. TLC finds a behaviour where an overpayment takes the
interest it saves off twice (`LendingHelpers.cpp:680`). `ImplementsLedger` is
therefore checked with loans that do not allow overpayments.

## Other disagreements, which no run keeps

Found with TLC on these models, by an invariant or bounds that no kept run has:

- `Number.cpp:60` says that guard digits make results correctly rounded. When a
  borrow in `doRoundDown` (line 207) leaves a mantissa below the minimum, it is
  shifted without its guard digit, and a difference can be a neighbour of the
  correctly rounded one. It is always within a unit (`DifferencesAreClose`).
- `LendingHelpers.cpp:1079` says that interest outstanding does not become
  negative. With a management fee it does, because line 1100 takes the total
  less the principal, fee included, as the bound of the interest part.
- A full payment is to charge accrued interest (`LendingHelpers.cpp:924`). The
  start date of a loan is the estimated close time of its ledger. In that
  ledger, and possibly the next, the parent close time is before it and the
  unsigned difference of line 209 wraps around.
- A clawback of "it all" is to leave the minimum cover
  (`LoanBrokerCoverClawback.cpp:50`). Line 131 rounds what is above the minimum
  to nearest and can so take more.
- With overpayments `PaymentsWithinAmount` fails: the interest that
  `tryOverpayment` reports is not bounded by the overpayment, against the
  assertion "amount is sufficient" (`LoanPay.cpp:421`). The invariant therefore
  leaves them out.
- The total value falls by more than principal and untracked interest in an
  overpayment, against "value change agrees" (`LendingHelpers.cpp:761`).
- With a liquidation rate of 100% a first default uses up the cover, and a
  second is refused as `tefBAD_LEDGER` until cover is added
  (`LoanManage.cpp:270`, a branch excluded from test coverage).
- When due date plus grace period wraps around, a loan can be defaulted before
  its due date (`LoanManage.cpp:108`).
- `Workers.h` says that each `addTask` results in exactly one `processTask`. If
  the number of threads is lowered by two while tasks are pending, a worker can
  miss its pause and call `processTask` without a task. Neither the server nor
  the test does that.
- `stop` does not wait for suspended coroutines, so its assertion that none is
  suspended can fail when a path request is dropped at shutdown.
- After the parent ledger changes to one that is not here and back again, within
  a round, the mode remains `wrongLedger`. The run allows one change.
- `Validations.h:788` says that only trusted nodes' validations are used once
  trust has changed. A node's counted ledger is taken back only if it is the
  ledger of its newest validation; while that one is being acquired the older
  ledger remains counted. With a second change of trust, and a validation that
  arrives in between, the last validation of a trusted node is not counted.
- `ValidationParms` describes the tolerance for early and late validations the
  other way round from how `isCurrent` uses them, and the condition on the time
  a validation was seen never fails.
- A server with exactly `negativeUNLMinLocalValsToVote` validations of its own
  is reported to have too many, and does not vote. A validator that is removed
  and added again keeps the time of its first addition.
- `TxQ.cpp:644` says that a blocker is always alone in its account's queue. A
  disputed transaction that goes back into the open ledger bypasses the queue
  and uses up sequences, and those that come again later may join a blocker.
  `BlockerStaysAlone` leaves that step out. Item 3b of the same comment is not
  enforced by the code, "at least 1.25 times" (line 668) is more than 1.25
  times, and of the results that line 1419 names `tel` is not treated so.

## Fairness

Lending, validations, the negative UNL and the queue have none: every step is a
transaction, a message or a ledger that somebody sends, and nothing in the code
makes them.

- `JobQueue`: weak fairness of every thread's own step. A thread that can run
  runs in the end, and a blocked one is woken when its semaphore, mutex or
  condition allows. Clients need not add jobs and the owner need not stop.
- `Consensus`: weak fairness of the heartbeat timer and of the handler that is
  running. `NetworkOPs` sets the timer again after every tick. Nothing that the
  network does is fair: peers may fall silent and ledgers may never arrive.

## Proofs

`LendingLedgerProofs` proves about `LendingLedger`, for any set of brokers and
any number of loans `N`:

- `BooksInOrder`: the inductive invariant `IInv`, and from it
- `TypeCorrect`: available assets, cover and what a loan owes stay at or above 0;
- `FundsAlwaysBackTheBooks`: pseudo-accounts hold what the books say is available;
- `DebtIsAlwaysWhatIsOwed`: the total less the available is what the loans owe,
  and each broker's debt is what its loans owe;
- `LossIsAlwaysImpairment`: the unrealized loss is what the impaired loans owe;
- `BooksAreAlwaysValid`: `0 <= available <= total`,
  `0 <= loss <= total - available`, and no negative debt or cover.

The assumption is `LedgerAssumption`: `N` is a natural number, amounts are
natural numbers and changes of value are integers.

`BooksAreValid` is not inductive: that a withdrawal or an unimpairment keeps
the loss within bounds needs to know what the loss consists of. `IInv` is
therefore the conjunction of the other four. `BooksAreValid` follows because
the impaired loans are some of the loans. A step on a loan changes one term of
each sum (`OneLoan`, from `SumChange`). The lemmas on sums are proved by
induction on the set of numbers up to which a fact holds (`UpTo`), from the
well-foundedness of the natural numbers.

`NegativeUNLProofs` proves, for any finite set of validators and any positive
flag ledger interval:

- `ListStaysConsistent`: what is to be disabled is not on the list, what is to
  be re-enabled is, and the two differ;
- `ListStaysLimited`: a validator is only to be disabled while the disabled ones
  and it are within the limit of `findAllCandidates`;
- `VoteImplementsList`: a server that scores and votes (`NegativeUNLVote`) takes
  only steps of `NegativeUNL`.

`ListIsConsistent` is not inductive: a change is voted one ledger before it is
recorded. `UNLInv` adds that the votes on their way fit the list (`ChangesFit`)
and leave room (`RoomForVotes`). The assumptions are `IntervalIsPositive`,
`ValidatorsAreFinite`, and for the refinement `SameValidators`,
`FirstLedgerIsNat` and `OneChain`. `ListStaysLimited` is about servers that
share one UNL.

Only model-checked: that `Lending` implements `LendingLedger`, everything about
`Number`, rounding, payments, shares, owner counts and references, and the
properties of the job queue, consensus, validations and the transaction queue.
Liveness, induction with an operator as parameter, and recursive operators are
outside what the prover handles.

## Not modelled

- Within lending: IOU and XRP assets (loan scales other than 0), transfer fees,
  freezes and authorisation except as said, reserves, permissioned domains,
  counterparty signatures, batches, and the metadata fields.
- Within the other parts: `simulate`, `doAccept` and the choice of the close time
  resolution; our own sequence enforcer, `flush` and the queries of
  `Validations`; the quorum (`ValidatorList::calculateQuorum`); ticket creation
  and jumps of ledger in the queue; load events of the job queue. A transaction
  that fills a gap may take an account over `maximumTxnPerAccount`, and a
  candidate that is retried may be tried twice in one `accept`; both are in the
  model and no property is about them.
- The unsigned difference of `NegativeUNLVote.cpp:346` would wrap around if a
  server went back to an earlier ledger; the model has one chain.
- Other parts: those marked "no" above. Most are parsing, formatting, I/O and
  sequential data structures, where a model would repeat the code. Amendments,
  squelching, ledger acquisition and online deletion are the ones worth adding.

## Plan

1. Online deletion with a crash between any two steps, and ledger acquisition
   with its timer (`SHAMapStoreImp.cpp`, `TimeoutCounter.cpp`).
2. Squelching as peers come and go (`Slot.h`).
3. Amendment majorities at flag ledgers (`AmendmentTable.cpp`).
4. Several servers of `Consensus` with `Validations` deciding their parents.
5. Proofs: that `Lending`'s actions implement `LendingLedger` (action by
   action), and the order of proposals.
