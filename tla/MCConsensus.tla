---------------------------- MODULE MCConsensus ----------------------------
(* Instances of Consensus for model checking.                              *)
EXTENDS Consensus

CONSTANTS p, q, L, N, a, b

MCcloseTimeOf == [l \in Ledgers |-> 0]
MCcloseAgree == [l \in Ledgers |-> l = L]

Prop(peer, ledger, seq, position, closeTime) ==
    [peer |-> peer, prevLedger |-> ledger, seq |-> seq, position |-> position,
     closeTime |-> closeTime]

(* Two peers: one changes its set and bows out, the other is first on one  *)
(* ledger and then on another.                                             *)
MCProposals ==
    {Prop(p, L, 0, {a}, 4), Prop(p, L, 1, {b}, 8), Prop(p, L, seqLeave, {b}, 8),
     Prop(q, L, 0, {}, 4), Prop(q, N, 0, {b}, 4)}

MCOpenSets == {{}, {a}}

Lag(ahead) == [ahead |-> ahead, laggards |-> 1, offline |-> 0, total |-> 3, quorum |-> 3,
               validator |-> TRUE]
MCLags == {Lag(n) : n \in {0, 1}}
=============================================================================
