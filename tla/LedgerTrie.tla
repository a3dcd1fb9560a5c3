----------------------------- MODULE LedgerTrie -----------------------------
(***************************************************************************)
(* The trie of validated ledgers (LedgerTrie.h): how many validators stand *)
(* behind each ledger and behind its descendants.  A node of it stands for *)
(* a span of ledgers, each the parent of the next, and is named after the  *)
(* last one, the tip; no two nodes have the same tip.                      *)
(***************************************************************************)
EXTENDS LedgerAncestry

VARIABLES
    trie,          \* tip -> [start, tipSupport, branchSupport, parent]
    seqSupport     \* sequence -> sum of the tip support of its ledgers

trieVars == <<trie, seqSupport>>

(* The whole span of a node with this tip ends here (exclusive). *)
End(tip) == seq(tip) + 1
startID(t, k) == ancestor(k, t[k].start)
Children(t, k) == {c \in DOMAIN t \ {Genesis} : t[c].parent = k}

(* The node that has most of its ancestry in common with l, and where they *)
(* part.                                                                   *)
find(l) ==
    LET path == {k \in DOMAIN trie : trie[k].start <= seq(l)
                                       /\ startID(trie, k) = ancestor(l, trie[k].start)}
        loc == CHOOSE k \in path : \A j \in path : trie[j].start <= trie[k].start
    IN  [loc |-> loc, diff |-> Min({Max({trie[loc].start, mismatch(loc, l)}), End(loc)})]

RECURSIVE Up(_, _)
(* The node k and those above it. *)
Up(t, k) == {k} \cup (IF k = Genesis THEN {} ELSE Up(t, t[k].parent))

Support(n, by) == [s \in DOMAIN seqSupport |-> IF s = n THEN seqSupport[s] + by ELSE seqSupport[s]]

-----------------------------------------------------------------------------
(* The span of k is cut at diff: its tip keeps its support and its         *)
(* children below a node for the part before.                              *)
Split(t, k, at, diff) ==
    [j \in DOMAIN t \cup {at} |->
        IF j = k THEN [t[k] EXCEPT !.start = diff, !.parent = at]
        ELSE IF j = at THEN [t[k] EXCEPT !.tipSupport = 0]
        ELSE t[j]]

(* A node for the rest of the ancestry of l. *)
Extend(t, l, at, diff) ==
    [j \in DOMAIN t \cup {l} |->
        IF j = l THEN [start |-> diff, tipSupport |-> 0, branchSupport |-> 0, parent |-> at]
        ELSE t[j]]

insert(l) ==
    \E f \in {find(l)} :
    \E at \in {IF f.diff < End(f.loc) THEN ancestor(f.loc, f.diff - 1) ELSE f.loc} :
    \E t \in {IF f.diff < End(f.loc) THEN Split(trie, f.loc, at, f.diff) ELSE trie} :
    \E u \in {IF f.diff <= seq(l) THEN Extend(t, l, at, f.diff) ELSE t} :
    \E path \in {Up(u, l)} :
      /\ trie' = [k \in DOMAIN u |->
                    [u[k] EXCEPT !.tipSupport = IF k = l THEN @ + 1 ELSE @,
                                 !.branchSupport = IF k \in path THEN @ + 1 ELSE @]]
      /\ seqSupport' = Support(seq(l), 1)

Without(t, k) == [j \in DOMAIN t \ {k} |-> t[j]]

(* Mutant: a node with one child stays. *)
RECURSIVE CompressLeaves(_, _)
CompressLeaves(t, k) ==
    IF t[k].tipSupport # 0 \/ k = Genesis \/ Children(t, k) # {} THEN t
    ELSE CompressLeaves(Without(t, k), t[k].parent)

RECURSIVE Compress(_, _)
(* From k upwards, nodes without support of their own go: they have no     *)
(* child, or one that takes over their span.                               *)
Compress(t, k) ==
    IF t[k].tipSupport # 0 \/ k = Genesis \/ Cardinality(Children(t, k)) > 1 THEN t
    ELSE Compress(
           Without([j \in DOMAIN t |->
                      IF j \in Children(t, k)
                      THEN [t[j] EXCEPT !.start = t[k].start, !.parent = t[k].parent]
                      ELSE t[j]], k),
           t[k].parent)

remove(l) ==
    IF l \notin DOMAIN trie \/ trie[l].tipSupport = 0 THEN UNCHANGED trieVars
    ELSE \E path \in {Up(trie, l)} :
         \E t \in {[k \in DOMAIN trie |->
                      [trie[k] EXCEPT !.tipSupport = IF k = l THEN @ - 1 ELSE @,
                                      !.branchSupport = IF k \in path THEN @ - 1 ELSE @]]} :
           /\ trie' = Compress(t, l)
           /\ seqSupport' = Support(seq(l), -1)

TrieInit ==
    /\ trie = [k \in {Genesis} |-> [start |-> 0, tipSupport |-> 0, branchSupport |-> 0,
                                    parent |-> Genesis]]
    /\ seqSupport = [s \in Seqs |-> 0]

-----------------------------------------------------------------------------
(* The walk of getPreferred from the root.  Everything in seqSupport below *)
(* `seen' has been counted as uncommitted.                                 *)
tipSupport(l) == IF l \in DOMAIN trie THEN trie[l].tipSupport ELSE 0

branchSupport(l) ==
    LET f == find(l) IN
    IF l \in DOMAIN trie THEN trie[l].branchSupport
    ELSE IF f.diff > seq(l) /\ seq(l) < End(f.loc) THEN trie[f.loc].branchSupport
    ELSE 0

empty == trie[Genesis].branchSupport = 0

Uncommitted(seen) == MapThenSumSet(LAMBDA s : seqSupport[s], {s \in Seqs : s < seen})

RECURSIVE AlongSpan(_, _, _)
(* How far the span of k is preferred. *)
AlongSpan(k, nextSeq, seen) ==
    LET later == {s \in Seqs : seqSupport[s] > 0 /\ s >= seen /\ s < End(k)} IN
    IF nextSeq >= End(k) \/ trie[k].branchSupport <= Uncommitted(seen)
    THEN [nextSeq |-> nextSeq, seen |-> seen]
    ELSE IF later # {} THEN AlongSpan(k, Min(later) + 1, Min(later) + 1)
    ELSE [nextSeq |-> End(k), seen |-> seen]

Better(j, k) ==
    \/ trie[j].branchSupport > trie[k].branchSupport
    \/ /\ trie[j].branchSupport = trie[k].branchSupport
       /\ startID(trie, j) > startID(trie, k)

(* Mutant: the tie breaker does not count. *)
MarginOfCounts(best, second) == trie[best].branchSupport - trie[second].branchSupport

(* What the second best lacks. *)
Margin(best, second) ==
    trie[best].branchSupport - trie[second].branchSupport
      + (IF startID(trie, best) > startID(trie, second) THEN 1 ELSE 0)

RECURSIVE Prefer(_, _, _)
Prefer(k, seen, largestIssued) ==
    LET first == Max({seen, trie[k].start + 1, largestIssued})
        walk == AlongSpan(k, trie[k].start + 1, first)
        kids == Children(trie, k)
        best == CHOOSE c \in kids : \A d \in kids \ {c} : Better(c, d)
        second == CHOOSE c \in kids \ {best} : \A d \in kids \ {best, c} : Better(c, d)
        margin == IF Cardinality(kids) = 1 THEN trie[best].branchSupport ELSE Margin(best, second)
    IN  IF walk.nextSeq < End(k) THEN ancestor(k, walk.nextSeq - 1)
        ELSE IF kids # {} /\ (margin > Uncommitted(walk.seen) \/ Uncommitted(walk.seen) = 0)
        THEN Prefer(best, walk.seen, largestIssued)
        ELSE k

(* The ledger that most validators back, whatever those do that have not   *)
(* validated as far yet; the trie is not empty.                            *)
preferred(largestIssued) == Prefer(Genesis, 0, largestIssued)
=============================================================================
