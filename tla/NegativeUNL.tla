---------------------------- MODULE NegativeUNL -----------------------------
(***************************************************************************)
(* The negative UNL: the ledger's list of validators that are disabled for *)
(* being unreliable (NegativeUNLVote.cpp, Change.cpp, Ledger.cpp).  In the *)
(* last round before a flag ledger any server may vote to disable one      *)
(* validator and to re-enable one; the flag ledger takes the changes of    *)
(* the one before into its list and records the next.                      *)
(*                                                                         *)
(* The servers have the same UNL; how reliable each has found its          *)
(* validators, and which ones are new to it, is open.                      *)
(***************************************************************************)
EXTENDS Integers, FiniteSets

CONSTANTS Validators, FLAG_LEDGER_INTERVAL

ASSUME IntervalIsPositive == FLAG_LEDGER_INTERVAL \in Nat \ {0}
ASSUME ValidatorsAreFinite == IsFiniteSet(Validators)

VARIABLES
    unl,
    ledgerSeq,
    disabled,        \* validator -> number of its entries in sfDisabledValidators
    toDisable,       \* sfValidatorToDisable: none or one
    toReEnable,      \* sfValidatorToReEnable
    agreed           \* transactions that the ledger being built has yet to apply

objectVars == <<disabled, toDisable, toReEnable>>
unlVars == <<unl, ledgerSeq, objectVars, agreed>>

negativeUNLLowWaterMark == (FLAG_LEDGER_INTERVAL * 50) \div 100
negativeUNLHighWaterMark == (FLAG_LEDGER_INTERVAL * 80) \div 100

isFlagLedger(s) == s % FLAG_LEDGER_INTERVAL = 0
isVotingLedger(s) == (s + 1) % FLAG_LEDGER_INTERVAL = 0

negativeUNL == {v \in Validators : disabled[v] > 0}

(* Mutant: the changes that are due are forgotten. *)
nextNegativeUNLNow == negativeUNL

(* The list as the next flag ledger will have it. *)
nextNegativeUNL == (negativeUNL \cup toDisable) \ toReEnable

-----------------------------------------------------------------------------
(* A quarter of the UNL, rounded up. *)
maxNegativeListed == (Cardinality(unl) + 3) \div 4

canAdd(negUnl) == Cardinality(unl \cap negUnl) < maxNegativeListed

toDisableCandidates(negUnl, scoreTable, new) ==
    {v \in unl \ (negUnl \cup new) : canAdd(negUnl) /\ scoreTable[v] < negativeUNLLowWaterMark}

(* Validators that have left the UNL come last. *)
toReEnableCandidates(negUnl, scoreTable) ==
    LET reliable == {v \in unl \cap negUnl : scoreTable[v] > negativeUNLHighWaterMark}
    IN  IF reliable # {} THEN reliable ELSE negUnl \ unl

UNLModify(disabling, v) ==
    [disabling |-> disabling, seq |-> ledgerSeq + 1, validator |-> v]

(* What a server with these scores and these new validators may vote. *)
Votes(scoreTable, new) ==
    {UNLModify(TRUE, v) : v \in toDisableCandidates(nextNegativeUNL, scoreTable, new)}
      \cup {UNLModify(FALSE, v) : v \in toReEnableCandidates(nextNegativeUNL, scoreTable)}

(* What some server may vote: to most servers no validator is new. *)
AnyVotes == UNION {Votes(scoreTable, {}) : scoreTable \in [unl -> 0..FLAG_LEDGER_INTERVAL]}

-----------------------------------------------------------------------------
(* Mutant: what was due stays due. *)
updateNegativeUNLAgain ==
    /\ disabled' = [v \in Validators |->
                      (IF v \in toReEnable THEN 0 ELSE disabled[v])
                        + (IF v \in toDisable THEN 1 ELSE 0)]
    /\ UNCHANGED <<toDisable, toReEnable>>

(* The flag ledger's list: what was due is done. *)
updateNegativeUNL ==
    /\ disabled' = [v \in Validators |->
                      (IF v \in toReEnable THEN 0 ELSE disabled[v])
                        + (IF v \in toDisable THEN 1 ELSE 0)]
    /\ toDisable' = {} /\ toReEnable' = {}

(* The next ledger, with the transactions that the servers agreed on. *)
BuildLedger ==
    /\ agreed = {}
    /\ agreed' \in SUBSET (IF isVotingLedger(ledgerSeq) THEN AnyVotes ELSE {})
    /\ ledgerSeq' = ledgerSeq + 1
    /\ IF isFlagLedger(ledgerSeq') THEN updateNegativeUNL ELSE UNCHANGED objectVars

MayApply(tx) ==
    /\ isFlagLedger(ledgerSeq) /\ tx.seq = ledgerSeq
    /\ IF tx.disabling
       THEN toDisable = {} /\ tx.validator \notin toReEnable /\ tx.validator \notin negativeUNL
       ELSE toReEnable = {} /\ tx.validator \notin toDisable /\ tx.validator \in negativeUNL

applyUNLModify ==
    \E tx \in agreed :
      /\ agreed' = agreed \ {tx}
      /\ toDisable' = IF tx.disabling /\ MayApply(tx) THEN {tx.validator} ELSE toDisable
      /\ toReEnable' = IF ~tx.disabling /\ MayApply(tx) THEN {tx.validator} ELSE toReEnable
      /\ UNCHANGED <<unl, ledgerSeq, disabled>>

(* Publishers change the UNL between two rounds. *)
UNLChanges ==
    /\ agreed = {}
    /\ unl' \in SUBSET Validators
    /\ UNCHANGED <<ledgerSeq, objectVars, agreed>>

UNLInit ==
    /\ unl \in SUBSET Validators
    /\ ledgerSeq \in Nat
    /\ disabled = [v \in Validators |-> 0] /\ toDisable = {} /\ toReEnable = {}
    /\ agreed = {}

UNLNext == (BuildLedger /\ UNCHANGED unl) \/ applyUNLModify \/ UNLChanges
UNLSpec == UNLInit /\ [][UNLNext]_unlVars

-----------------------------------------------------------------------------
(* The list has every validator at most once, only validators on it are to *)
(* be re-enabled, only others are to be disabled, one at a time, whatever  *)
(* sets of votes the servers agree on: what applyUNLModify checks when it  *)
(* records a change still holds when updateNegativeUNL carries it out.     *)
ListIsConsistent ==
    /\ \A v \in Validators : disabled[v] <= 1
    /\ Cardinality(toDisable) <= 1 /\ toDisable \cap negativeUNL = {}
    /\ Cardinality(toReEnable) <= 1 /\ toReEnable \subseteq negativeUNL

(* "We only want to put 25% of the UNL on the NegativeUNL"                 *)
(* (NegativeUNLVote.h): when another validator is to be disabled, the list *)
(* and it are at most a quarter of the UNL, although servers vote on the   *)
(* list of the ledger before, when other changes were due.                 *)
LimitRespected ==
    [][toDisable' # {} /\ toDisable' # toDisable =>
         Cardinality(unl \cap (negativeUNL' \cup toDisable')) <= maxNegativeListed]_unlVars
=============================================================================
