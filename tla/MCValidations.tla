--------------------------- MODULE MCValidations ---------------------------
(* Instances of Validations for model checking.                            *)
EXTENDS Validations

CONSTANTS p, q, r

MClineage ==
    [l \in Ledgers |-> <<<<0>>, <<0, 1>>, <<0, 1, 2>>, <<0, 1, 3>>, <<0, 1, 3, 4>>>>[l + 1]]

Val(node, ledger, signTime) == [node |-> node, ledger |-> ledger, signTime |-> signTime, cookie |-> 0]

(* One validator moves along a branch, the second validates a ledger of    *)
(* each branch at the same sequence, and the third only the tip of one.    *)
MCValidated == {Val(p, 1, 0), Val(p, 4, 2), Val(q, 2, 0), Val(q, 3, 1), Val(r, 4, 1)}
=============================================================================
