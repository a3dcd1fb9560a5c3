--------------------------- MODULE ValidationSets ---------------------------
(***************************************************************************)
(* The validations that a server keeps by ledger and by sequence           *)
(* (Validations.h): which ones are taken, how long the sets live, and what *)
(* the negative UNL's vote asks to keep longer.  The server's two clocks   *)
(* are one.                                                                *)
(***************************************************************************)
EXTENDS LedgerAncestry

CONSTANTS
    Nodes, None,
    MaxTime, MaxSweeps,
    validationCURRENT_WALL, validationCURRENT_EARLY, validationSET_EXPIRES,
    validationFRESHNESS

VARIABLES
    now,
    seqEnforcers,       \* node -> [seq, when]
    byLedger,           \* ledger -> [vals, touched] or None
    bySequence,         \* sequence -> [vals, touched] or None
    toKeep, refreshTime,
    sweeps              \* number of sweeps, for the bound

setVars == <<seqEnforcers, byLedger, bySequence>>
keepVars == <<toKeep, refreshTime, sweeps>>

isCurrent(v) ==
    /\ v.signTime > now - validationCURRENT_EARLY
    /\ v.signTime < now + validationCURRENT_WALL

NoVals == [n \in Nodes |-> None]
Put(vals, v) == [vals EXCEPT ![v.node] = v]
(* The set for a key in an aged map, made if there is none. *)
SetOf(map, key) == IF map[key] = None THEN [vals |-> NoVals, touched |-> now] ELSE map[key]

(* Mutant: a validation of the last sequence again is taken. *)
EnforcedLoosely(n, s) ==
    s >= (IF now > seqEnforcers[n].when + validationSET_EXPIRES THEN 0 ELSE seqEnforcers[n].seq)

(* SeqEnforcer: greater than all of the node's sequences that have not     *)
(* expired.                                                                *)
Enforced(n, s) ==
    s > (IF now > seqEnforcers[n].when + validationSET_EXPIRES THEN 0 ELSE seqEnforcers[n].seq)

Enforce(n, s) ==
    seqEnforcers' = [seqEnforcers EXCEPT ![n] =
        IF Enforced(n, s) THEN [seq |-> s, when |-> now]
        ELSE IF now > @.when + validationSET_EXPIRES THEN [@ EXCEPT !.seq = 0] ELSE @]

(* What bySequence keeps for the node: the first, unless that is too old. *)
Tracked(v) ==
    LET old == SetOf(bySequence, seq(v.ledger)).vals[v.node] IN
    IF old = None \/ (v.signTime > old.signTime /\ v.signTime - old.signTime > validationCURRENT_WALL)
    THEN v ELSE old

(* Mutant: any second validation for a sequence is a conflict. *)
RejectedAlways(v, old) == "conflicting"

(* Why the validation is not taken: old is tracked for the same sequence.  *)
Rejected(v, old) ==
    IF old.ledger # v.ledger \/ old.signTime # v.signTime THEN "conflicting"
    ELSE IF old.cookie # v.cookie THEN "multiple"
    ELSE "badSeq"

(* The validation is the validator's newest. *)
Taken(v) == isCurrent(v) /\ Enforced(v.node, seq(v.ledger))

(* The part of add that is about the sets. *)
addToSets(v) ==
    LET s == seq(v.ledger) IN
    IF ~isCurrent(v) THEN UNCHANGED setVars
    ELSE /\ bySequence' = [bySequence EXCEPT ![s] =
                [SetOf(bySequence, s) EXCEPT !.vals = Put(@, Tracked(v))]]
         /\ Enforce(v.node, s)
         /\ byLedger' = IF ~Enforced(v.node, s) THEN byLedger
                        ELSE [byLedger EXCEPT ![v.ledger] =
                                [SetOf(byLedger, v.ledger) EXCEPT !.vals = Put(@, v)]]

-----------------------------------------------------------------------------
(* Reading the validations of a ledger (numTrustedForLedger, fees, ...)    *)
(* makes their set young again.                                            *)
touch(L) ==
    byLedger' = [l \in Ledgers |->
        IF l \in L /\ byLedger[l] # None THEN [byLedger[l] EXCEPT !.touched = now] ELSE byLedger[l]]

(* Mutant: the range is open. *)
KeptInside(s) == toKeep # None /\ toKeep.low < s /\ s < toKeep.high

Kept(s) == toKeep # None /\ toKeep.low <= s /\ s < toKeep.high

(* Mutant: the bounds are swapped. *)
setSeqToKeepSwapped(low, high) == toKeep' = [low |-> high, high |-> low]

setSeqToKeep(low, high) == toKeep' = [low |-> low, high |-> high]

(* Shortly before what is kept would expire. *)
NextRefresh == now + validationSET_EXPIRES - validationFRESHNESS

Swept(set, keep) ==
    IF set = None THEN None
    ELSE LET touched == IF keep THEN now ELSE set.touched IN
         IF touched <= now - validationSET_EXPIRES THEN None ELSE [set EXCEPT !.touched = touched]

expire ==
    LET refresh == toKeep # None /\ refreshTime <= now IN
    /\ sweeps < MaxSweeps
    /\ sweeps' = sweeps + 1
    /\ refreshTime' = IF refresh THEN NextRefresh ELSE refreshTime
    /\ byLedger' = [l \in Ledgers |-> Swept(byLedger[l], refresh /\ Kept(seq(l)))]
    /\ bySequence' = [s \in Seqs |-> Swept(bySequence[s], refresh /\ Kept(s))]
    /\ UNCHANGED <<seqEnforcers, toKeep>>

SetsInit ==
    /\ now = 0
    /\ seqEnforcers = [n \in Nodes |-> [seq |-> 0, when |-> 0]]
    /\ byLedger = [l \in Ledgers |-> None] /\ bySequence = [s \in Seqs |-> None]
    /\ toKeep = None /\ refreshTime = 0 /\ sweeps = 0

-----------------------------------------------------------------------------
(* A validator counts for two ledgers of one sequence only if its second   *)
(* validation was taken after the first had expired: quorums on both       *)
(* cannot come from the same validators.                                   *)
OneLedgerPerSequence ==
    \A l, m \in Ledgers, n \in Nodes :
        /\ l # m /\ seq(l) = seq(m) /\ byLedger[l] # None /\ byLedger[m] # None
        /\ byLedger[l].vals[n] # None /\ byLedger[m].vals[n] # None
        => LET a == byLedger[l].vals[n].added
               b == byLedger[m].vals[n].added
           IN  a - b > validationSET_EXPIRES \/ b - a > validationSET_EXPIRES

=============================================================================
