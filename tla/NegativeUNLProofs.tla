------------------------- MODULE NegativeUNLProofs --------------------------
(***************************************************************************)
(* Proofs about the negative UNL, for any validators and any flag          *)
(* interval: the ledger's list stays consistent and within its limit       *)
(* whatever the servers vote, and one server's view of it follows.         *)
(***************************************************************************)
EXTENDS NegativeUNLVote, FiniteSetTheorems, TLAPS

UNLModifies == [disabling : BOOLEAN, seq : Nat, validator : Validators]

UNLTypeOK ==
    /\ unl \in SUBSET Validators
    /\ ledgerSeq \in Nat
    /\ disabled \in [Validators -> Nat]
    /\ toDisable \in SUBSET Validators /\ toReEnable \in SUBSET Validators
    /\ agreed \in SUBSET UNLModifies

(* What ListIsConsistent says, without counting. *)
ChangesFit ==
    /\ \A v \in Validators : disabled[v] <= 1
    /\ toDisable = {} \/ \E v \in Validators : toDisable = {v}
    /\ toReEnable = {} \/ \E v \in Validators : toReEnable = {v}
    /\ toDisable \cap negativeUNL = {} /\ toReEnable \subseteq negativeUNL

(* A vote to disable waits to be applied only while the list has room: it  *)
(* was cast on the list as it now is.                                      *)
RoomForVotes == toDisable = {} /\ (\E tx \in agreed : tx.disabling) => canAdd(negativeUNL)

UNLInv == UNLTypeOK /\ ChangesFit /\ RoomForVotes

-----------------------------------------------------------------------------
(* Votes are transactions of the next ledger, and those to disable are     *)
(* cast only when the next list has room.                                  *)
LEMMA VotesAreModifies ==
    ASSUME UNLTypeOK
    PROVE  /\ AnyVotes \in SUBSET UNLModifies
           /\ \A tx \in AnyVotes : tx.disabling => canAdd(nextNegativeUNL)
  <1>1. SUFFICES ASSUME NEW scoreTable_, NEW tx \in Votes(scoreTable_, {})
                 PROVE  tx \in UNLModifies /\ (tx.disabling => canAdd(nextNegativeUNL))
    BY DEF AnyVotes
  <1>2. CASE \E v \in toDisableCandidates(nextNegativeUNL, scoreTable_, {}) :
               tx = UNLModify(TRUE, v)
    BY <1>2 DEF toDisableCandidates, UNLModify, UNLModifies, UNLTypeOK
  <1>3. CASE \E v \in toReEnableCandidates(nextNegativeUNL, scoreTable_) :
               tx = UNLModify(FALSE, v)
    <2>1. PICK v \in toReEnableCandidates(nextNegativeUNL, scoreTable_) : tx = UNLModify(FALSE, v)
      BY <1>3
    <2>2. v \in Validators
      BY DEF toReEnableCandidates, nextNegativeUNL, negativeUNL, UNLTypeOK
    <2> QED
      BY <2>1, <2>2 DEF UNLModify, UNLModifies, UNLTypeOK
  <1> QED
    BY <1>1, <1>2, <1>3 DEF Votes

(* The flag ledger's list is the next list of the ledger before. *)
LEMMA UpdateGivesNext ==
    ASSUME UNLTypeOK, ChangesFit, updateNegativeUNL
    PROVE  /\ negativeUNL' = nextNegativeUNL
           /\ disabled' \in [Validators -> Nat]
           /\ \A v \in Validators : disabled'[v] <= 1
  <1>1. \A v \in Validators :
          disabled'[v] = (IF v \in toReEnable THEN 0 ELSE disabled[v])
                           + (IF v \in toDisable THEN 1 ELSE 0)
    BY DEF updateNegativeUNL
  <1>2. \A v \in Validators : v \in toDisable => disabled[v] = 0 /\ v \notin toReEnable
    BY DEF ChangesFit, negativeUNL, UNLTypeOK
  <1>3. \A v \in Validators : disabled'[v] \in Nat /\ disabled'[v] <= 1
    BY <1>1, <1>2 DEF UNLTypeOK, ChangesFit
  <1>4. \A v \in Validators : disabled'[v] > 0 <=> v \in nextNegativeUNL
    BY <1>1, <1>2 DEF UNLTypeOK, nextNegativeUNL, negativeUNL
  <1>5. nextNegativeUNL \subseteq Validators
    BY DEF nextNegativeUNL, negativeUNL, UNLTypeOK
  <1>6. negativeUNL' = nextNegativeUNL
    BY <1>4, <1>5 DEF negativeUNL
  <1>7. disabled' \in [Validators -> Nat]
    BY <1>3 DEF updateNegativeUNL
  <1> QED
    BY <1>3, <1>6, <1>7

(* A new ledger keeps the invariant: a flag ledger starts with the next   *)
(* list and nothing due, so every vote it is given fits.                   *)
LEMMA BuildKeeps ==
    ASSUME UNLInv, BuildLedger, UNCHANGED unl
    PROVE  UNLInv'
  <1> USE DEF UNLInv
  <1>1. agreed' \in SUBSET UNLModifies
    BY VotesAreModifies DEF BuildLedger
  <1>2. CASE isFlagLedger(ledgerSeq')
    <2>1. updateNegativeUNL
      BY <1>2 DEF BuildLedger
    <2>2. UNLTypeOK'
      BY <1>1, <2>1, UpdateGivesNext DEF UNLTypeOK, BuildLedger, updateNegativeUNL
    <2>3. ChangesFit'
      BY <2>1, UpdateGivesNext DEF ChangesFit, updateNegativeUNL
    <2>4. RoomForVotes'
      <3>1. SUFFICES ASSUME \E tx \in agreed' : tx.disabling
                     PROVE  canAdd(negativeUNL)'
        BY DEF RoomForVotes
      <3>2. canAdd(nextNegativeUNL)
        BY <3>1, VotesAreModifies DEF BuildLedger
      <3> QED
        BY <2>1, <3>2, UpdateGivesNext DEF canAdd, maxNegativeListed
    <2> QED
      BY <2>2, <2>3, <2>4
  <1>3. CASE ~isFlagLedger(ledgerSeq')
    <2>1. UNCHANGED objectVars /\ agreed' = {}
      BY <1>3 DEF BuildLedger, isFlagLedger, isVotingLedger
    <2> QED
      BY <2>1 DEF UNLTypeOK, ChangesFit, RoomForVotes, BuildLedger, objectVars, negativeUNL
  <1> QED
    BY <1>2, <1>3

(* A UNLModify that applyUNLModify lets through fits the list, and takes   *)
(* the room of its kind.                                                   *)
LEMMA ApplyKeeps ==
    ASSUME UNLInv, applyUNLModify
    PROVE  UNLInv'
  <1> USE DEF UNLInv
  <1>1. PICK tx \in agreed :
          /\ agreed' = agreed \ {tx}
          /\ toDisable' = IF tx.disabling /\ MayApply(tx) THEN {tx.validator} ELSE toDisable
          /\ toReEnable' = IF ~tx.disabling /\ MayApply(tx) THEN {tx.validator} ELSE toReEnable
          /\ UNCHANGED <<unl, ledgerSeq, disabled>>
    BY DEF applyUNLModify
  <1>2. tx \in UNLModifies
    BY DEF UNLTypeOK
  <1>3. negativeUNL' = negativeUNL
    BY <1>1 DEF negativeUNL
  <1>4. UNLTypeOK'
    BY <1>1, <1>2 DEF UNLTypeOK, UNLModifies
  <1>5. ChangesFit'
    BY <1>1, <1>2, <1>3 DEF ChangesFit, MayApply, UNLModifies
  <1>6. RoomForVotes'
    BY <1>1, <1>3 DEF RoomForVotes, canAdd, maxNegativeListed
  <1> QED
    BY <1>4, <1>5, <1>6

(* Validators may come and go: the list does not depend on it. *)
LEMMA ChangeKeeps ==
    ASSUME UNLInv, UNLChanges
    PROVE  UNLInv'
  BY DEF UNLInv, UNLTypeOK, ChangesFit, RoomForVotes, UNLChanges, objectVars, negativeUNL

(* Every step keeps the invariant. *)
LEMMA UNLInductive == UNLInv /\ [UNLNext]_unlVars => UNLInv'
  <1>1. ASSUME UNLInv, UNCHANGED unlVars
        PROVE  UNLInv'
    BY <1>1 DEF UNLInv, UNLTypeOK, ChangesFit, RoomForVotes, unlVars, objectVars, negativeUNL,
                canAdd, maxNegativeListed
  <1> QED
    BY <1>1, BuildKeeps, ApplyKeeps, ChangeKeeps DEF UNLNext

(* The amendment starts with an empty list, which satisfies it. *)
LEMMA UNLInitially == UNLInit => UNLInv
  BY DEF UNLInit, UNLInv, UNLTypeOK, ChangesFit, RoomForVotes, negativeUNL

(* It gives the property: nobody is both due to be disabled and listed,    *)
(* and at most one change of each kind is due.                             *)
LEMMA FitIsConsistent == UNLInv => ListIsConsistent
  <1>1. SUFFICES ASSUME UNLInv
                 PROVE  Cardinality(toDisable) <= 1 /\ Cardinality(toReEnable) <= 1
    BY DEF UNLInv, ChangesFit, ListIsConsistent
  <1>2. Cardinality(toDisable) = 0 \/ Cardinality(toDisable) = 1
    BY <1>1, FS_EmptySet, FS_Singleton, Zenon DEF UNLInv, ChangesFit
  <1>3. Cardinality(toReEnable) = 0 \/ Cardinality(toReEnable) = 1
    BY <1>1, FS_EmptySet, FS_Singleton, Zenon DEF UNLInv, ChangesFit
  <1> QED
    BY <1>2, <1>3

(* One more to disable fits where there was room. *)
LEMMA RoomForOne ==
    ASSUME UNLTypeOK, canAdd(negativeUNL), NEW v \in Validators
    PROVE  Cardinality(unl \cap (negativeUNL \cup {v})) <= maxNegativeListed
  <1> DEFINE listed == unl \cap negativeUNL
  <1>1. IsFiniteSet(listed) /\ IsFiniteSet(unl)
    BY ValidatorsAreFinite, FS_Subset DEF UNLTypeOK, negativeUNL
  <1>2. /\ IsFiniteSet(listed \cup {v})
        /\ Cardinality(listed \cup {v}) <= Cardinality(listed) + 1
    <2> HIDE DEF listed
    <2>1. /\ IsFiniteSet(listed \cup {v})
          /\ Cardinality(listed \cup {v}) =
               IF v \in listed THEN Cardinality(listed) ELSE Cardinality(listed) + 1
      BY <1>1, FS_AddElement
    <2>2. Cardinality(listed) \in Nat
      BY <1>1, FS_CardinalityType
    <2> QED
      BY <2>1, <2>2
  <1>3. unl \cap (negativeUNL \cup {v}) \in SUBSET (listed \cup {v})
    OBVIOUS
  <1>4. Cardinality(unl \cap (negativeUNL \cup {v})) <= Cardinality(listed \cup {v})
    BY <1>2, <1>3, FS_Subset
  <1>5. /\ Cardinality(listed) \in Nat /\ Cardinality(unl) \in Nat
        /\ Cardinality(listed \cup {v}) \in Nat
        /\ Cardinality(unl \cap (negativeUNL \cup {v})) \in Nat
    BY <1>1, <1>2, <1>3, FS_Subset, FS_CardinalityType
  <1>6. Cardinality(listed) < maxNegativeListed
    BY DEF canAdd
  <1>7. maxNegativeListed \in Nat
    BY <1>5 DEF maxNegativeListed
  <1> HIDE DEF listed
  <1> QED
    BY <1>2, <1>4, <1>5, <1>6, <1>7

(* A step that makes a validator due to be disabled was voted for when     *)
(* the limit left room for one more.                                       *)
LEMMA StepRespectsLimit ==
    ASSUME UNLInv, UNLNext, toDisable' # {}, toDisable' # toDisable
    PROVE  Cardinality(unl \cap (negativeUNL' \cup toDisable')) <= maxNegativeListed
  <1>1. ~BuildLedger /\ ~UNLChanges
    BY DEF BuildLedger, UNLChanges, updateNegativeUNL, objectVars
  <1>2. applyUNLModify
    BY <1>1 DEF UNLNext
  <1>3. PICK tx \in agreed :
          /\ tx.disabling /\ MayApply(tx)
          /\ toDisable' = {tx.validator}
          /\ UNCHANGED disabled
    BY <1>2 DEF applyUNLModify
  <1>4. tx.validator \in Validators /\ canAdd(negativeUNL)
    BY <1>3 DEF UNLInv, UNLTypeOK, UNLModifies, RoomForVotes, MayApply
  <1>5. negativeUNL' = negativeUNL
    BY <1>3 DEF negativeUNL
  <1> QED
    BY <1>3, <1>4, <1>5, RoomForOne DEF UNLInv

-----------------------------------------------------------------------------
(* Whatever the servers vote, the negative UNL lists nobody twice, and     *)
(* what is due can be done (applyUNLModify, updateNegativeUNL).            *)
THEOREM ListStaysConsistent == UNLSpec => []ListIsConsistent
  BY UNLInitially, UNLInductive, FitIsConsistent, PTL DEF UNLSpec

(* Whatever they vote, another validator is to be disabled only if that    *)
(* makes at most a quarter of the UNL (findAllCandidates).                 *)
THEOREM ListStaysLimited == UNLSpec => LimitRespected
  <1>1. ASSUME UNLInv, [UNLNext]_unlVars
        PROVE  [toDisable' # {} /\ toDisable' # toDisable =>
                  Cardinality(unl \cap (negativeUNL' \cup toDisable')) <= maxNegativeListed]_unlVars
    BY <1>1, StepRespectsLimit
  <1> QED
    BY <1>1, UNLInitially, UNLInductive, PTL DEF UNLSpec, LimitRespected

(* One server and its votes see the list change as NegativeUNL says. *)
THEOREM VoteImplementsList == Spec => UNLSpec
  <1>1. Init => UNLInit
    BY SameValidators, FirstLedgerIsNat DEF Init, UNLInit
  <1>2. ASSUME UNLInv, [Next]_vars
        PROVE  [UNLNext]_unlVars
    <2>1. CASE CloseLedger
      BY <2>1 DEF CloseLedger, UNLNext
    <2>2. CASE ApplyUNLModify
      BY <2>2 DEF ApplyUNLModify, UNLNext
    <2>3. CASE Join
      BY <2>3, <1>2, SameValidators DEF Join, UNLNext, UNLChanges, UNLInv, UNLTypeOK
    <2>4. CASE Leave
      BY <2>4, <1>2 DEF Leave, UNLNext, UNLChanges, UNLInv, UNLTypeOK
    <2>5. CASE ValidationArrives \/ Sweep \/ Restart \/ UNCHANGED vars
      BY <2>5 DEF ValidationArrives, Sweep, Restart, vars
    <2> QED
      BY <1>2, <2>1, <2>2, <2>3, <2>4, <2>5 DEF Next
  <1>3. Spec => []UNLInv
    BY <1>1, <1>2, UNLInitially, UNLInductive, PTL DEF Spec
  <1> QED
    BY <1>1, <1>2, <1>3, PTL DEF Spec, UNLSpec
=============================================================================
