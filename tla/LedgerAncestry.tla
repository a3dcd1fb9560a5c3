--------------------------- MODULE LedgerAncestry ---------------------------
(***************************************************************************)
(* Ledgers and their ancestors (the ledgers that LedgerTrie and            *)
(* Validations are about).  Ledgers are the numbers that are their         *)
(* identifiers, and know all their ancestors.                              *)
(***************************************************************************)
EXTENDS Integers, FiniteSets, FiniteSetsExt, Sequences

CONSTANTS
    Ledgers, Genesis,
    lineage            \* of each ledger: its ancestors from Genesis on, and itself

seq(l) == Len(lineage[l]) - 1
MaxSeq == Max({seq(l) : l \in Ledgers})
Seqs == 0..MaxSeq

(* The ancestor of l with sequence s, or l. *)
ancestor(l, s) == lineage[l][s + 1]
parent(l) == ancestor(l, seq(l) - 1)

(* The first sequence at which two ledgers can differ. *)
mismatch(a, b) ==
    1 + Max({s \in 0..Min({seq(a), seq(b)}) : ancestor(a, s) = ancestor(b, s)})
=============================================================================
