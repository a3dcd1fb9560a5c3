--------------------------- MODULE MCNegativeUNL ---------------------------
(* An instance of NegativeUNLVote for model checking.                      *)
EXTENDS NegativeUNLVote

CONSTANTS va, vb, vc

(* One chain of ledgers. *)
MClineage == [l \in Ledgers |-> [i \in 1..(l + 1) |-> i - 1]]
=============================================================================
