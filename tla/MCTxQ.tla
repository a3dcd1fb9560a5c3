------------------------------- MODULE MCTxQ -------------------------------
(* An instance of TxQ for model checking: two accounts.                    *)
EXTENDS TxQ

CONSTANTS x, y

Tx(id, account, prox, fee, lastValid, blocker) ==
    [id |-> id, account |-> account, prox |-> prox, fee |-> fee, uses |-> IF prox > MaxSeq THEN 0 ELSE 1,
     lastValid |-> lastValid, blocker |-> blocker]

X1 == Tx(1, x, 1, 2, 3, FALSE)
X1b == Tx(2, x, 1, 5, None, TRUE)
X2 == Tx(3, x, 2, 10, None, FALSE)
X2b == Tx(4, x, 2, 30, None, FALSE)
XT == Tx(5, x, 4, 7, None, FALSE)
Y1 == Tx(6, y, 1, 7, 2, FALSE)

MCTxs == {X1, X1b, X2, X2b, XT, Y1}
MCSlow == {X2}
MCForeign == {X1}
MCMayRetry == {X1, XT}
MCMayFail == {Y1}
=============================================================================
