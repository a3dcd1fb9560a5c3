-------------------------- MODULE NegativeUNLVote ---------------------------
(***************************************************************************)
(* One server's vote on the negative UNL (NegativeUNLVote.cpp): it scores  *)
(* the validators by the validations that it still has of the ledgers      *)
(* since the last flag ledger.  Those have to be kept for longer than the  *)
(* store of validations keeps any, from vote to vote; the server may miss  *)
(* a vote, or restart and start with none.                                 *)
(*                                                                         *)
(* The ledgers form one chain and take one unit of time each; ledger l     *)
(* has sequence l.                                                         *)
(***************************************************************************)
EXTENDS ValidationSets, NegativeUNL

CONSTANTS
    me,
    FirstLedger,        \* the first ledger in which the amendment is enabled
    FirstUNL,
    Validating,         \* validators that are online
    Lossy,              \* of those, the ones whose validations may not reach us
    Comers, Leavers,    \* validators that may join or leave the UNL
    MaxChanges, MaxRestarts

ASSUME SameValidators == Nodes = Validators /\ FirstUNL \cup Comers \subseteq Validators
ASSUME FirstLedgerIsNat == FirstLedger \in Nat
ASSUME OneChain == \A l \in Ledgers : seq(l) = l

VARIABLES
    newValidators,      \* validator -> the sequence as of which it is new, or None
    voted,              \* transactions that we added to our set in the last round
    taken,              \* history: <<validator, ledger>> whose validation we took
    joined,             \* history: validator -> when it was first on our UNL, or None
    restartedAt,        \* history: ledgerSeq at the last restart
    changed, restarts   \* for the bounds

voteVars == <<newValidators, voted>>
historyVars == <<taken, joined, restartedAt>>
boundVars == <<changed, restarts>>
vars == <<now, setVars, keepVars, unlVars, voteVars, historyVars, boundVars>>

negativeUNLMinLocalValsToVote == (FLAG_LEDGER_INTERVAL * 90) \div 100
(* Mutant: flag ledgers, not ledgers. *)
newValidatorDisableSkipFlags == 2

newValidatorDisableSkip == FLAG_LEDGER_INTERVAL * 2

-----------------------------------------------------------------------------
(* A validation of the last ledger arrives. *)
ValidationArrives ==
    /\ agreed = {}
    /\ \E n \in Validating :
         LET v == [node |-> n, ledger |-> ledgerSeq, signTime |-> now, cookie |-> 0,
                   trusted |-> n \in unl, added |-> None]
         IN  /\ Taken(v)
             /\ addToSets(v)
             /\ taken' = taken \cup {<<n, ledgerSeq>>}
    /\ UNCHANGED <<now, keepVars, unlVars, voteVars, joined, restartedAt, boundVars>>

Sweep ==
    /\ agreed = {}
    /\ expire
    /\ UNCHANGED <<now, unlVars, voteVars, historyVars, boundVars>>

-----------------------------------------------------------------------------
(* The ledgers whose validations count, before ledgerSeq. *)
Interval == (ledgerSeq - FLAG_LEDGER_INTERVAL)..(ledgerSeq - 1)
HasHistory == ledgerSeq - 1 >= FLAG_LEDGER_INTERVAL

(* Validations of a ledger from before the server's start are not there. *)
getTrustedForLedger(l) ==
    IF l \notin Ledgers \/ byLedger[l] = None THEN {}
    ELSE {n \in Nodes : byLedger[l].vals[n] # None /\ byLedger[l].vals[n].trusted}

scoreTable == [n \in unl |-> Cardinality({l \in Interval : n \in getTrustedForLedger(l)})]
myValidationCount == IF me \in unl THEN scoreTable[me] ELSE 0

(* Mutant: whatever is left of our own validations. *)
ScoresAreAnyGood == HasHistory

(* There is a score table: the server has enough of its own validations.   *)
ScoresAreGood ==
    /\ HasHistory
    /\ myValidationCount > negativeUNLMinLocalValsToVote
    /\ myValidationCount <= FLAG_LEDGER_INTERVAL

purgeNewValidators ==
    [n \in Nodes |-> IF newValidators[n] # None
                          /\ ledgerSeq + 1 - newValidators[n] > newValidatorDisableSkip
                     THEN None ELSE newValidators[n]]

(* At most one to disable and one to re-enable, each chosen by the ledger's *)
(* hash.                                                                    *)
choose(txs) ==
    {vote \in SUBSET txs : \A kind \in BOOLEAN :
        Cardinality({tx \in vote : tx.disabling = kind})
          = (IF \E tx \in txs : tx.disabling = kind THEN 1 ELSE 0)}

doVoting ==
    /\ setSeqToKeep(ledgerSeq, ledgerSeq + 1 + FLAG_LEDGER_INTERVAL)
    /\ IF HasHistory THEN touch(Interval) ELSE UNCHANGED byLedger
    /\ IF ScoresAreGood
       THEN /\ newValidators' = purgeNewValidators
            /\ voted' \in choose(Votes(scoreTable, {n \in Nodes : newValidators'[n] # None}))
       ELSE voted' = {} /\ UNCHANGED newValidators

(* onClose: a server that proposes votes in the last round before a flag   *)
(* ledger.  The network then agrees on a set and builds the next ledger.   *)
CloseLedger ==
    /\ now < MaxTime
    /\ \A n \in Validating \ Lossy : <<n, ledgerSeq>> \in taken
    /\ BuildLedger
    /\ now' = now + 1 /\ sweeps' = 0
    /\ \/ isVotingLedger(ledgerSeq) /\ doVoting
       \/ voted' = {} /\ UNCHANGED <<toKeep, byLedger, newValidators>>
    /\ UNCHANGED <<unl, seqEnforcers, bySequence, refreshTime, historyVars, boundVars>>

ApplyUNLModify ==
    /\ applyUNLModify
    /\ UNCHANGED <<now, setVars, keepVars, voteVars, historyVars, boundVars>>

-----------------------------------------------------------------------------
(* trustChanged in the store of validations. *)
SetTrusted(n, trusted) ==
    byLedger' = [l \in Ledgers |->
        IF byLedger[l] = None \/ byLedger[l].vals[n] = None THEN byLedger[l]
        ELSE [byLedger[l] EXCEPT !.vals[n].trusted = trusted]]

(* beginConsensus: the UNL has changed; preStartRound marks who is new.    *)
Join ==
    /\ agreed = {} /\ changed < MaxChanges
    /\ changed' = changed + 1
    /\ \E n \in Comers \ unl :
         /\ unl' = unl \cup {n}
         /\ SetTrusted(n, TRUE)
         /\ newValidators' = [newValidators EXCEPT ![n] = IF @ = None THEN ledgerSeq + 1 ELSE @]
         /\ joined' = [joined EXCEPT ![n] = IF @ = None THEN ledgerSeq + 1 ELSE @]
    /\ UNCHANGED <<now, seqEnforcers, bySequence, keepVars, ledgerSeq, objectVars, agreed, voted,
                   taken, restartedAt, restarts>>

Leave ==
    /\ agreed = {} /\ changed < MaxChanges
    /\ changed' = changed + 1
    /\ \E n \in Leavers \cap unl :
         /\ unl' = unl \ {n}
         /\ SetTrusted(n, FALSE)
    /\ UNCHANGED <<now, seqEnforcers, bySequence, keepVars, ledgerSeq, objectVars, agreed, voteVars,
                   historyVars, restarts>>

(* The server stops and starts: nothing of this is stored.  In its first   *)
(* round all validators are new.                                           *)
Restart ==
    /\ agreed = {} /\ restarts < MaxRestarts
    /\ restarts' = restarts + 1 /\ restartedAt' = ledgerSeq
    /\ seqEnforcers' = [n \in Nodes |-> [seq |-> 0, when |-> 0]]
    /\ byLedger' = [l \in Ledgers |-> None] /\ bySequence' = [s \in Seqs |-> None]
    /\ toKeep' = None /\ refreshTime' = 0
    /\ newValidators' = [n \in Nodes |-> IF n \in unl THEN ledgerSeq + 1 ELSE None]
    /\ voted' = {}
    /\ UNCHANGED <<now, sweeps, unlVars, taken, joined, changed>>

Init ==
    /\ SetsInit
    /\ unl = FirstUNL /\ ledgerSeq = FirstLedger
    /\ disabled = [v \in Validators |-> 0] /\ toDisable = {} /\ toReEnable = {} /\ agreed = {}
    /\ newValidators = NoVals /\ joined = NoVals
    /\ voted = {} /\ taken = {} /\ restartedAt = 0 /\ changed = 0 /\ restarts = 0

Next ==
    \/ ValidationArrives \/ Sweep \/ CloseLedger \/ ApplyUNLModify
    \/ Join \/ Leave \/ Restart

Spec == Init /\ [][Next]_vars

-----------------------------------------------------------------------------
(* Votes are about validators, at most one of each kind (doVoting); the    *)
(* range that setSeqToKeep protects is not empty; a new validator is as    *)
(* old as the ledger that it joined at (newValidators_).                   *)
TypeOK ==
    /\ unl \subseteq Nodes /\ \A tx \in agreed \cup voted : tx.validator \in Nodes
    /\ \A n \in Nodes : newValidators[n] \in {None} \cup (FirstLedger + 1)..(ledgerSeq + 1)
    /\ toKeep # None => toKeep.low < toKeep.high
    /\ \A kind \in BOOLEAN : Cardinality({tx \in voted : tx.disabling = kind}) <= 1

(* The validations of the ledgers that the next vote reads, from the last  *)
(* vote on, are all still there, although sets of validations expire long  *)
(* before the next vote (Validations.h, expire): of those taken since the  *)
(* server started.                                                         *)
HistoryIsKept ==
    /\ TypeOK
    /\ toKeep # None =>
         \A n \in Nodes, l \in Ledgers \cap toKeep.low..(toKeep.high - 1) :
             <<n, l>> \in taken /\ l > restartedAt =>
                 byLedger[l] # None /\ byLedger[l].vals[n] # None

(* A validator is voted out only for what it did not do.  However little   *)
(* of the history a server has when it votes, after it has missed a vote   *)
(* or restarted, it does not vote to disable a validator that validated    *)
(* every ledger of the interval, nor one that is new: "We don't want to    *)
(* disable new validators immediately after adding them.  So we skip       *)
(* voting for disabling them for 2 flag ledgers." (NegativeUNLVote.h)      *)
OnlyAbsentVotedOut ==
    [][\A tx \in voted' \ voted : tx.disabling =>
         /\ \E l \in Interval : <<tx.validator, l>> \notin taken
         /\ joined[tx.validator] # None =>
              tx.seq - joined[tx.validator] > 2 * FLAG_LEDGER_INTERVAL]_vars
=============================================================================
