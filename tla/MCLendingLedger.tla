-------------------------- MODULE MCLendingLedger --------------------------
(* A finite instance of LendingLedger. *)
EXTENDS LendingLedger

CONSTANT MaxTotal  \* the vault's total and a broker's cover stay below this

MCChanges == {-1, 0, 1}

Bounded == total <= MaxTotal /\ \A b \in Brokers : cover[b] <= 1
=============================================================================
