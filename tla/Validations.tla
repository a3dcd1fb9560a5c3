---------------------------- MODULE Validations -----------------------------
(***************************************************************************)
(* The store of validations of a server (Validations.h) with the trie of   *)
(* validated ledgers that it keeps.  Validations arrive late, repeatedly   *)
(* and out of order, the ledgers they name arrive later still, validations *)
(* go stale, and validators gain and lose our trust while their            *)
(* validations are being handled.                                          *)
(*                                                                         *)
(* Each public function is a step, except for its operations on the trie:  *)
(* these wait in `todo' and nothing else happens before they are done.     *)
(***************************************************************************)
EXTENDS LedgerTrie, ValidationSets

CONSTANTS
    Validated,          \* what validators send: [node, ledger, signTime, cookie]
    FirstTrusted,       \* validators trusted at first
    Unsettled,          \* validators that may gain or lose our trust
    MaxChanges

VARIABLES
    arriving,           \* a validation on its way to add, with what we thought of it
    current,            \* node -> its last validation or None
    acquiring,          \* ledger that is missing -> nodes that validated it
    lastLedger,         \* node -> the ledger counted for it in the trie, or None
    todo,               \* operations on the trie that the running function has left
    have,               \* ledgers that the server has
    unl,                \* trusted validators
    changes,            \* the validator on its way to trustChanged, or None
    changed             \* number of changes, for the bound

envVars == <<have, unl, changes, changed>>
vars == <<now, arriving, current, setVars, keepVars, acquiring, lastLedger, todo, envVars,
          trieVars>>

-----------------------------------------------------------------------------
(* The trie.                                                               *)
Op(op, n, l) == [op |-> op, node |-> n, ledger |-> l]

RECURSIVE Each(_, _, _)
(* A sequence of operations, one for each node of N. *)
Each(op, N, l) ==
    IF N = {} THEN << >>
    ELSE LET n == CHOOSE n \in N : TRUE IN <<Op(op, n, l)>> \o Each(op, N \ {n}, l)

RECURSIVE OpsFor(_, _)
OpsFor(acq, L) ==
    IF L = {} THEN << >>
    ELSE LET l == CHOOSE l \in L : TRUE IN Each("update", acq[l], l) \o OpsFor(acq, L \ {l})

RECURSIVE Removals(_)
(* The current validations of the nodes N leave the trie. *)
Removals(N) ==
    IF N = {} THEN << >>
    ELSE LET n == CHOOSE n \in N : TRUE IN
         <<Op("remove", n, current[n].ledger)>> \o Removals(N \ {n})

(* Mutant: whether they are here or not. *)
AcquiredAll(acq) == {l \in Ledgers : acq[l] # {}}

(* Ledgers that were missing and are here. *)
Acquired(acq) == {l \in have : acq[l] # {}}
checkAcquired(acq) == OpsFor(acq, Acquired(acq))
StillAcquiring(acq) == [l \in Ledgers |-> IF l \in have THEN {} ELSE acq[l]]


(* The node no longer waits for the ledger of its last validation. *)
ClearPrior(acq, prior) ==
    IF prior = None THEN acq ELSE [acq EXCEPT ![prior.ledger] = @ \ {prior.node}]

(* updateTrie for a new trusted validation. *)
updateTrie(v, prior) ==
    \E acq \in {ClearPrior(acquiring, prior)} :
      /\ acquiring' = [StillAcquiring(acq) EXCEPT
                         ![v.ledger] = IF v.ledger \in have THEN @ ELSE @ \cup {v.node}]
      /\ todo' = checkAcquired(acq)
                   \o (IF v.ledger \in have THEN <<Op("update", v.node, v.ledger)>> ELSE << >>)

(* updateTrie with a ledger: it replaces the one counted for the node. *)
UpdateTrie ==
    /\ todo # << >> /\ Head(todo).op = "update"
    /\ LET n == Head(todo).node
           l == Head(todo).ledger
       IN  IF lastLedger[n] = None
           THEN /\ insert(l)
                /\ lastLedger' = [lastLedger EXCEPT ![n] = l]
                /\ todo' = Tail(todo)
           ELSE /\ remove(lastLedger[n])
                /\ lastLedger' = [lastLedger EXCEPT ![n] = None]
                /\ UNCHANGED todo
    /\ UNCHANGED <<now, arriving, current, setVars, keepVars, acquiring, envVars>>

(* removeTrie: only the ledger of this validation is taken back. *)
RemoveTrie ==
    /\ todo # << >> /\ Head(todo).op = "remove"
    /\ LET n == Head(todo).node
           l == Head(todo).ledger
       IN  IF lastLedger[n] = l
           THEN remove(l) /\ lastLedger' = [lastLedger EXCEPT ![n] = None]
           ELSE UNCHANGED <<lastLedger, trieVars>>
    /\ todo' = Tail(todo)
    /\ UNCHANGED <<now, arriving, current, setVars, keepVars, acquiring, envVars>>

-----------------------------------------------------------------------------
(* The validation becomes the validator's last one. *)
Newer(v) ==
    LET old == current[v.node] IN
    IF old # None /\ v.signTime <= old.signTime THEN UNCHANGED <<current, acquiring, todo>>
    ELSE /\ current' = Put(current, v)
         /\ IF v.trusted THEN updateTrie(v, old) ELSE UNCHANGED <<acquiring, todo>>

add ==
    /\ todo = << >> /\ arriving # None
    /\ arriving' = None
    /\ LET v == [arriving EXCEPT !.added = now] IN
       /\ addToSets(v)
       /\ IF Taken(v) THEN Newer(v) ELSE UNCHANGED <<current, acquiring, todo>>
    /\ UNCHANGED <<now, keepVars, lastLedger, envVars, trieVars>>

(* handleNewValidation: whether the signer is trusted is looked up before  *)
(* the store is locked.                                                    *)
handleNewValidation ==
    /\ todo = << >> /\ arriving = None
    /\ \E m \in Validated :
         arriving' = [node |-> m.node, ledger |-> m.ledger, signTime |-> m.signTime,
                      cookie |-> m.cookie, trusted |-> m.node \in unl, added |-> None]
    /\ UNCHANGED <<now, current, setVars, keepVars, acquiring, lastLedger, todo, envVars,
                   trieVars>>

-----------------------------------------------------------------------------
(* `current': iterating over the validations flushes the stale ones.       *)
(* withTrie: the ledgers that have arrived are counted too; getPreferred   *)
(* and getNodesAfter begin with it.                                        *)
Flush(acquired) ==
    LET stale == {n \in Nodes : current[n] # None /\ ~isCurrent(current[n])}
        acq == [l \in Ledgers |-> acquiring[l] \ {n \in stale : current[n].ledger = l}]
    IN  /\ todo = << >>
        /\ todo' = Removals(stale) \o (IF acquired THEN checkAcquired(acq) ELSE << >>)
        /\ acquiring' = IF acquired THEN StillAcquiring(acq) ELSE acq
        /\ current' = [n \in Nodes |-> IF n \in stale THEN None ELSE current[n]]
        /\ UNCHANGED <<now, arriving, seqEnforcers, byLedger, bySequence, keepVars, lastLedger,
                       envVars, trieVars>>

flushCurrent == Flush(FALSE)
withTrie == Flush(TRUE)

-----------------------------------------------------------------------------
(* Trust.                                                                  *)

(* The validators that we trust become others; trustChanged follows.       *)
updateTrusted ==
    /\ todo = << >> /\ changes = None /\ changed < MaxChanges
    /\ changed' = changed + 1
    /\ \E n \in Unsettled :
         /\ unl' = SymDiff(unl, {n})
         /\ changes' = n
    /\ UNCHANGED <<now, arriving, current, setVars, keepVars, acquiring, lastLedger, todo, have,
                   trieVars>>

SetTrust(v) == IF v = None THEN v ELSE [v EXCEPT !.trusted = changes \in unl]

trustChanged ==
    /\ todo = << >> /\ changes # None
    /\ LET n == changes
           v == SetTrust(current[n])
       IN  /\ current' = [current EXCEPT ![n] = v]
           /\ IF v = None THEN UNCHANGED <<acquiring, todo>>
              ELSE IF v.trusted THEN updateTrie(v, None)
              ELSE /\ acquiring' = [acquiring EXCEPT ![v.ledger] = @ \ {n}]
                   /\ todo' = Removals({n})
           /\ byLedger' = [l \in Ledgers |->
                 IF byLedger[l] = None THEN None
                 ELSE [byLedger[l] EXCEPT !.vals[n] = SetTrust(@)]]
    /\ changes' = None
    /\ UNCHANGED <<now, arriving, seqEnforcers, bySequence, keepVars, lastLedger, have,
                   unl, changed, trieVars>>

-----------------------------------------------------------------------------
LedgerArrives ==
    /\ todo = << >>
    /\ \E l \in {x \in Ledgers : acquiring[x] # {}} \ have : have' = have \cup {l}
    /\ UNCHANGED <<now, arriving, current, setVars, keepVars, acquiring, lastLedger, todo, unl,
                   changes, changed, trieVars>>

Tick ==
    /\ todo = << >> /\ now < MaxTime
    /\ now' = now + 1
    /\ UNCHANGED <<arriving, current, setVars, keepVars, acquiring, lastLedger, todo, envVars,
                   trieVars>>

Init ==
    /\ TrieInit
    /\ SetsInit
    /\ arriving = None /\ current = NoVals
    /\ acquiring = [l \in Ledgers |-> {}] /\ lastLedger = NoVals
    /\ todo = << >>
    /\ have = {Genesis}
    /\ unl = FirstTrusted /\ changes = None /\ changed = 0

Next ==
    \/ UpdateTrie \/ RemoveTrie
    \/ handleNewValidation \/ add \/ flushCurrent \/ withTrie
    \/ updateTrusted \/ trustChanged \/ LedgerArrives \/ Tick

Spec == Init /\ [][Next]_vars

-----------------------------------------------------------------------------
(* A validator is counted only for a ledger that we have, and no node of   *)
(* the trie has negative support (withTrie, LedgerTrie::remove).           *)
TypeOK ==
    /\ \A n \in Nodes : lastLedger[n] \in have \cup {None}
    /\ \A l \in Ledgers : acquiring[l] \subseteq Nodes
    /\ \A k \in DOMAIN trie : trie[k].tipSupport >= 0 /\ trie[k].branchSupport >= 0

Backers(l) ==
    {n \in Nodes : lastLedger[n] # None /\ seq(lastLedger[n]) >= seq(l)
                     /\ ancestor(lastLedger[n], seq(l)) = l}


RECURSIVE ByBranch(_, _)
(* The ledger that is preferred, ledger by ledger: a child is preferred to *)
(* its siblings when it stays ahead whatever those do that have validated  *)
(* nothing as late.                                                        *)
ByBranch(l, largestIssued) ==
    LET kids == {c \in Ledgers \ {Genesis} : parent(c) = l /\ Backers(c) # {}}
        Votes(c) == Cardinality(Backers(c))
        best == CHOOSE c \in kids :
                    \A d \in kids : Votes(c) > Votes(d) \/ (Votes(c) = Votes(d) /\ c >= d)
        open == Cardinality({n \in Nodes : lastLedger[n] # None
                                /\ seq(lastLedger[n]) < Max({seq(l) + 1, largestIssued})})
        Beats(c, d) == Votes(c) > Votes(d) + open \/ (Votes(c) = Votes(d) + open /\ c > d)
    IN  IF kids # {} /\ (open = 0 \/ (Votes(best) > open /\ \A d \in kids \ {best} : Beats(best, d)))
        THEN ByBranch(best, largestIssued) ELSE l

(* The walk over the compressed trie finds what the definition by branches *)
(* of the comment on getPreferred says, whatever we have issued ourselves. *)
PreferredIsByBranch ==
    todo = << >> /\ ~empty =>
        \A largest \in Seqs : preferred(largest) = ByBranch(Genesis, largest)

(* Validators that signed one validation per sequence. *)
Honest ==
    {n \in Nodes : \A a, b \in Validated :
        a.node = n /\ b.node = n /\ seq(a.ledger) = seq(b.ledger) => a = b}

(* However late, often or out of order the validations of such a validator *)
(* arrive, it is not reported as Byzantine or misconfigured.               *)
HonestNotAccused ==
    [][/\ arriving # None /\ arriving' = None /\ arriving.node \in Honest
       /\ isCurrent(arriving) /\ ~Taken(arriving)
       => Rejected(arriving, Tracked(arriving)) = "badSeq"]_vars
=============================================================================
