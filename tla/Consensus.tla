----------------------------- MODULE Consensus -----------------------------
(***************************************************************************)
(* The consensus round of one server (Consensus.h, Consensus.cpp,          *)
(* DisputedTx.h, ConsensusParms.h): it opens a ledger, closes it, votes on *)
(* the transactions that its set and those of its peers do not share, and  *)
(* accepts.  Around it the proposals of the peers arrive late, twice, out  *)
(* of order or not at all, transaction sets arrive after the proposals     *)
(* that name them, and the network may turn out to be on another parent    *)
(* ledger.                                                                 *)
(*                                                                         *)
(* Every handler runs under one lock.  The timer's handler and the start   *)
(* of a round are long and call each other, so `calls' is the stack of the *)
(* calls that are still to be made: each is a step, and nothing else       *)
(* happens until the stack is empty.  A ledger and a proposal stand for    *)
(* themselves, a transaction set is its own identifier, and times are      *)
(* numbers.                                                                *)
(***************************************************************************)
EXTENDS Integers, FiniteSets, FiniteSetsExt, Sequences, SequencesExt

CONSTANTS
    Peers, Ledgers, None,
    FirstLedger,       \* the ledger that the network is on at first, and that the server has
    closeTimeOf,       \* close time of each ledger
    closeAgree,        \* whether its close time was agreed on, and not one after its parent's
    closeResolution,
    PeerProposals,     \* what peers propose: [peer, prevLedger, seq, position, closeTime]
    OpenSets,          \* sets of transactions of the open ledger
    Validated,         \* trusted validations of the parent ledger
    Finished,          \* trusted validations of descendants of it
    Lags,              \* how far the validators are: see shouldPause
    Delays,            \* time from one timer entry to the next
    MaxRounds, MaxProposals, MaxSwitches, MaxTime

CONSTANTS  \* ConsensusParms and ConsensusProposal
    proposeFRESHNESS, proposeINTERVAL, ledgerIDLE_INTERVAL, ledgerMIN_CONSENSUS,
    ledgerMAX_CONSENSUS, ledgerMIN_CLOSE, ledgerABANDON_CONSENSUS_FACTOR,
    ledgerABANDON_CONSENSUS, avMIN_CONSENSUS_TIME, minCONSENSUS_PCT, avCT_CONSENSUS_PCT,
    avMIN_ROUNDS, avSTALLED_ROUNDS, TenMinutes, seqLeave, MaxRecent

seqJoin == 0

VARIABLES
    calls,                   \* what the running handler has still to call
    now,
    phase, mode,
    prevLedgerID,            \* the parent ledger of the round
    previousLedger,          \* the parent ledger that we have
    result,                  \* our position and the disputes, or None
    acquired,                \* sets of transactions that the round has
    inbound,                 \* sets that the server has
    currPeerPositions, recentPeerPositions, deadNodes,
    prevProposers, prevRoundTime, prevCloseTime, selfCloseTime, openedAt,
    haveCloseTimeConsensus, closeTimeAvalancheState,
    peerUnchangedCounter, establishCounter,
    sent,                    \* numbers of the proposals we sent in this round
    net,                     \* the ledger that the network prefers
    ledgers,                 \* ledgers the server has
    rounds, proposals, switches  \* counts, for the bounds

voteVars == <<result, peerUnchangedCounter>>
peerVars == <<currPeerPositions, deadNodes>>
setVars == <<acquired, inbound>>
ledgerVars == <<prevLedgerID, previousLedger>>
lastVars == <<prevProposers, prevRoundTime, prevCloseTime>>
timeVars == <<selfCloseTime, openedAt, haveCloseTimeConsensus, closeTimeAvalancheState,
              establishCounter>>
envVars == <<net, ledgers, rounds, proposals, switches>>
vars == <<calls, now, phase, mode, ledgerVars, voteVars, setVars, peerVars,
          recentPeerPositions, lastVars, timeVars, sent, envVars>>

Proposing == mode = "proposing"
Live == {p \in Peers : currPeerPositions[p] # None}
NoPositions == [p \in Peers |-> None]
Call(op) == [op |-> op]

(* The call that is next, and what is called in its place. *)
Called(op) == calls # << >> /\ Head(calls).op = op
Then(more) == calls' = more \o Tail(calls)

-----------------------------------------------------------------------------
(* DisputedTx *)

yays(d) == Cardinality({p \in Peers : d.votes[p] = TRUE})
nays(d) == Cardinality({p \in Peers : d.votes[p] = FALSE})

(* Counters are only compared with these bounds and stop there. *)
UpTo(n, bound) == IF n < bound THEN n ELSE bound

avalancheCutoffs ==
    [init  |-> [consensusTime |-> 0,   consensusPct |-> 50, next |-> "mid"],
     mid   |-> [consensusTime |-> 50,  consensusPct |-> 65, next |-> "late"],
     late  |-> [consensusTime |-> 85,  consensusPct |-> 70, next |-> "stuck"],
     stuck |-> [consensusTime |-> 200, consensusPct |-> 95, next |-> "stuck"]]

(* The state after this one, and with it the weight that is needed. *)
getNeededWeight(state, percentTime, currentRounds, minimumRounds) ==
    LET next == avalancheCutoffs[state].next IN
    IF currentRounds >= minimumRounds /\ percentTime >= avalancheCutoffs[next].consensusTime
    THEN next ELSE state

(* Our vote with the votes of our peers and with the weight it needs. *)
NewVote(d, state) ==
    IF Proposing
    THEN (yays(d) * 100 + (IF d.ourVote THEN 100 ELSE 0)) \div (nays(d) + yays(d) + 1)
           > avalancheCutoffs[state].consensusPct
    ELSE yays(d) > nays(d)

updateVote(d, percentTime) ==
    LET count == UpTo(d.avalancheCounter + 1, avMIN_ROUNDS)
        state == getNeededWeight(d.avalancheState, percentTime, count, avMIN_ROUNDS)
        vote == NewVote(d, state)
    IN  IF (d.ourVote /\ nays(d) = 0) \/ (~d.ourVote /\ yays(d) = 0) THEN d
        ELSE [d EXCEPT
                !.avalancheState = state,
                !.avalancheCounter = IF state = d.avalancheState THEN count ELSE 0,
                !.ourVote = vote,
                !.currentVoteCounter = IF vote = d.ourVote
                                       THEN UpTo(@ + 1, avSTALLED_ROUNDS) ELSE 0]

(* We and our peers will probably not change our votes any more. *)
stalled(d) ==
    LET own == IF Proposing THEN 1 ELSE 0
        total == nays(d) + yays(d) + own
        weight == ((yays(d) + (IF d.ourVote THEN own ELSE 0)) * 100) \div total
    IN  /\ d.avalancheState = "stuck" /\ d.avalancheCounter >= avMIN_ROUNDS
        /\ Proposing => d.currentVoteCounter >= avMIN_ROUNDS
        /\ \/ peerUnchangedCounter >= avSTALLED_ROUNDS
           \/ ~Proposing
           \/ d.currentVoteCounter >= avSTALLED_ROUNDS
        /\ total # 0
        /\ weight > minCONSENSUS_PCT \/ weight < 100 - minCONSENSUS_PCT

-----------------------------------------------------------------------------
(* Disputes: r is our result, curr the positions of the peers and acq the  *)
(* sets that are here.                                                     *)

(* Mutant: the votes of peers that are gone stay. *)
unVoteNobody(r, P) == r

(* The votes of the peers P go from every dispute. *)
unVote(r, P) ==
    IF r = None THEN r
    ELSE [r EXCEPT !.disputes = [t \in DOMAIN @ |->
              [@[t] EXCEPT !.votes = [p \in Peers |-> IF p \in P THEN None ELSE @[p]]]]]

(* A vote for every peer whose set is here. *)
NewDispute(t, r, curr, acq) ==
    [ourVote |-> t \in r.txns,
     votes |-> [p \in Peers |-> IF curr[p] # None /\ curr[p].position \in acq
                                THEN t \in curr[p].position ELSE None],
     currentVoteCounter |-> 0, avalancheState |-> "init", avalancheCounter |-> 0]

(* Mutant: only what we have and they do not is disputed. *)
ToDisputeOneSided(r, O) == UNION {r.txns \ o : o \in O \ r.compares} \ DOMAIN r.disputes

(* What our set and those of O that it was not compared with do not share. *)
ToDispute(r, O) == UNION {SymDiff(r.txns, o) : o \in O \ r.compares} \ DOMAIN r.disputes

(* The result with disputes with all of O. *)
createDisputes(r, O, curr, acq) ==
    [r EXCEPT !.compares = @ \cup O,
              !.disputes = [t \in DOMAIN @ \cup ToDispute(r, O) |->
                  IF t \in DOMAIN @ THEN @[t] ELSE NewDispute(t, r, curr, acq)]]

(* A peer has voted, or voted otherwise. *)
VotesChanged(r, new) ==
    \E t \in DOMAIN new.disputes, p \in Peers :
        new.disputes[t].votes[p] #
            (IF t \in DOMAIN r.disputes THEN r.disputes[t].votes[p] ELSE None)

(* The peers P are at set o; their votes on everything that is disputed. *)
Vote(r, P, o) ==
    [r EXCEPT !.disputes = [t \in DOMAIN @ |->
        [@[t] EXCEPT !.votes = [p \in Peers |-> IF p \in P THEN t \in o ELSE @[p]]]]]

updateDisputes(P, o) ==
    IF result = None \/ P = {} THEN UNCHANGED voteVars
    ELSE /\ result' = Vote(createDisputes(result, {o}, currPeerPositions', acquired'), P, o)
         /\ peerUnchangedCounter' = IF VotesChanged(result, result')
                                    THEN 0 ELSE peerUnchangedCounter

-----------------------------------------------------------------------------
(* Proposals and transaction sets of the peers.                            *)

gotTxSet(o) ==
    IF phase = "accepted" \/ o \in acquired THEN UNCHANGED <<acquired, voteVars>>
    ELSE /\ acquired' = acquired \cup {o}
         /\ updateDisputes({p \in Peers : /\ currPeerPositions'[p] # None
                                          /\ currPeerPositions'[p].position = o}, o)

(* Mutant: the order of a peer's proposals is not looked at. *)
OutdatedNever(prop) == FALSE

(* Not newer than what the peer has proposed. *)
Outdated(prop) ==
    /\ prop.peer \in Live
    /\ prop.seq <= currPeerPositions[prop.peer].seq

Ignored(prop) ==
    \/ phase = "accepted" \/ prop.prevLedger # prevLedgerID
    \/ prop.peer \in deadNodes \/ Outdated(prop)

BowOut(p) ==
    /\ currPeerPositions' = [currPeerPositions EXCEPT ![p] = None]
    /\ deadNodes' = deadNodes \cup {p}
    /\ result' = unVote(result, {p})
    /\ UNCHANGED <<acquired, peerUnchangedCounter>>

TakePosition(prop) ==
    LET o == prop.position IN
    /\ currPeerPositions' = [currPeerPositions EXCEPT ![prop.peer] = prop]
    /\ UNCHANGED deadNodes
    /\ IF o \in acquired THEN UNCHANGED acquired /\ updateDisputes({prop.peer}, o)
       ELSE IF o \in inbound THEN gotTxSet(o)
       ELSE UNCHANGED <<acquired, voteVars>>

peerProposalInternal(prop) ==
    /\ IF Ignored(prop) THEN UNCHANGED <<peerVars, acquired, voteVars>>
       ELSE IF prop.seq = seqLeave THEN BowOut(prop.peer)
       ELSE TakePosition(prop)
    /\ UNCHANGED <<now, phase, mode, ledgerVars, inbound, lastVars, timeVars, sent>>

(* playbackProposals handles the stored proposals, each peer's in order.   *)
playbackProposals(recent) ==
    FoldSet(LAMBDA p, acc : acc \o [i \in DOMAIN recent[p] |->
                                      [op |-> "proposal", prop |-> recent[p][i]]],
            << >>, Peers)

PlaybackProposal ==
    /\ Called("proposal")
    /\ peerProposalInternal(Head(calls).prop)
    /\ Then(<< >>)
    /\ UNCHANGED <<recentPeerPositions, envVars>>

-----------------------------------------------------------------------------
(* The open phase.                                                         *)

roundCloseTime(t) ==
    IF t = 0 THEN 0 ELSE LET u == t + closeResolution \div 2 IN u - (u % closeResolution)

sinceClose ==
    now - (IF mode # "wrongLedger" /\ closeAgree[previousLedger]
           THEN closeTimeOf[previousLedger] ELSE prevCloseTime)

(* Mutant: a ledger closes only after those of the peers. *)
shouldCloseLedgerLast(txns, validated) ==
    \/ prevRoundTime > TenMinutes \/ sinceClose > TenMinutes
    \/ Cardinality(Live) + validated > prevProposers \div 2

shouldCloseLedger(txns, validated) ==
    \/ prevRoundTime > TenMinutes \/ sinceClose > TenMinutes
    \/ Cardinality(Live) + validated > prevProposers \div 2
    \/ txns = {} /\ sinceClose >= Max({ledgerIDLE_INTERVAL, 2 * closeResolution})
    \/ /\ txns # {}
       /\ now - openedAt >= ledgerMIN_CLOSE /\ now - openedAt >= prevRoundTime \div 2

NewResult(txns) ==
    [txns |-> txns, seq |-> seqJoin, closeTime |-> now, time |-> now, disputes |-> << >>,
     compares |-> {}, closedAt |-> now, state |-> "No"]

(* onClose takes the transactions of the open ledger for our position.     *)
closeLedger(txns) ==
    /\ phase' = "establish"
    /\ selfCloseTime' = now
    /\ establishCounter' = 0 /\ peerUnchangedCounter' = 0
    /\ acquired' = acquired \cup {txns} /\ inbound' = inbound \cup {txns}
    /\ result' = createDisputes(NewResult(txns),
                     {currPeerPositions[p].position : p \in Live} \cap acquired',
                     currPeerPositions, acquired')
    /\ sent' = IF Proposing THEN Append(sent, seqJoin) ELSE sent
    /\ UNCHANGED <<openedAt, haveCloseTimeConsensus, closeTimeAvalancheState>>

phaseOpen ==
    /\ Called("phase") /\ phase = "open"
    /\ \E txns \in OpenSets, validated \in Validated :
         IF shouldCloseLedger(txns, validated) THEN closeLedger(txns)
         ELSE UNCHANGED <<phase, voteVars, setVars, timeVars, sent>>
    /\ Then(<< >>)
    /\ UNCHANGED <<now, mode, ledgerVars, peerVars, recentPeerPositions, lastVars, envVars>>

-----------------------------------------------------------------------------
(* The establish phase.                                                    *)
roundTime == now - result.closedAt

minimumCounter == Cardinality(DOMAIN avalancheCutoffs) * avMIN_ROUNDS

participantsNeeded(participants, percent) ==
    Max({1, (participants * percent + percent \div 2) \div 100})

(* The close time that gets most votes, the latest of several, if it gets  *)
(* enough: times has the rounded close times with the number of votes.     *)
closeTimeVotes(curr, ours) ==
    LET Theirs(t) == {p \in Peers : curr[p] # None /\ roundCloseTime(curr[p].closeTime) = t}
        own == IF Proposing THEN {ours} ELSE {}
        times == {roundCloseTime(curr[p].closeTime) : p \in {x \in Peers : curr[x] # None}}
    IN  [t \in times \cup own |-> Cardinality(Theirs(t)) + Cardinality({t} \cap own)]

(* Another call of phaseEstablish without a changed vote of a peer. *)
Unchanged == UpTo(peerUnchangedCounter + 1, avSTALLED_ROUNDS)

(* Our new set is shared, and peers that have it vote with it.             *)
Adopt(r, new) ==
    LET o == new.txns
        same == {p \in Peers : currPeerPositions'[p] # None /\ currPeerPositions'[p].position = o}
    IN  IF o \in acquired
        THEN result' = new /\ peerUnchangedCounter' = Unchanged /\ UNCHANGED setVars
        ELSE /\ acquired' = acquired \cup {o}
             /\ inbound' = IF new.seq # seqLeave THEN inbound \cup {o} ELSE inbound
             /\ result' = IF same = {} THEN new
                          ELSE Vote(createDisputes(new, {o}, currPeerPositions', acquired'),
                                    same, o)
             /\ peerUnchangedCounter' = IF VotesChanged(new, result') THEN 0 ELSE Unchanged

changePosition(r, txns, closeTime) ==
    [r EXCEPT !.txns = txns, !.closeTime = closeTime, !.time = now,
              !.seq = IF @ = seqLeave THEN @ ELSE @ + 1]

(* Mutant: votes change but the set stays. *)
VotedSetUnchanged(r, D) == r.txns

(* Our set with the disputed transactions that are now a yes and without   *)
(* those that are now a no.                                                *)
VotedSet(r, D) ==
    LET flipped == {t \in DOMAIN D : D[t].ourVote # r.disputes[t].ourVote} IN
    (r.txns \ flipped) \cup {t \in flipped : D[t].ourVote}

(* A new position, because of the votes, the close time or its age.        *)
TakeStand(r, D, closeTime) ==
    LET txns == VotedSet(r, D) IN
    IF /\ \A t \in DOMAIN D : D[t].ourVote = r.disputes[t].ourVote
       /\ closeTime = roundCloseTime(r.closeTime) /\ r.time > now - proposeINTERVAL
    THEN /\ result' = [r EXCEPT !.disputes = D]
         /\ peerUnchangedCounter' = Unchanged
         /\ UNCHANGED <<setVars, sent>>
    ELSE /\ Adopt(r, changePosition([r EXCEPT !.disputes = D], txns, closeTime))
         /\ sent' = IF Proposing /\ result'.seq # seqLeave THEN Append(sent, result'.seq)
                    ELSE sent

Stale == {p \in Live : currPeerPositions[p].time <= now - proposeFRESHNESS}

(* Proposals that are too old go, with their votes; then we vote on what   *)
(* is disputed and look for a close time.                                  *)
updateOurPositions ==
    LET stale == Stale
        percent == (roundTime * 100) \div Max({prevRoundTime, avMIN_CONSENSUS_TIME})
        alone == Live \ stale = {}
        state == IF alone THEN closeTimeAvalancheState
                 ELSE getNeededWeight(closeTimeAvalancheState, percent, 0, 0)
        participants == Cardinality(Live \ stale) + (IF Proposing THEN 1 ELSE 0)
    IN
    /\ currPeerPositions' = [p \in Peers |-> IF p \in stale THEN None ELSE currPeerPositions[p]]
    /\ closeTimeAvalancheState' = state
    /\ \E r \in {unVote(result, stale)} :
       \E D \in {[t \in DOMAIN r.disputes |-> updateVote(r.disputes[t], percent)]} :
       \E votes \in {closeTimeVotes(currPeerPositions', roundCloseTime(r.closeTime))} :
       \E most \in {Max({0} \cup {votes[t] : t \in DOMAIN votes})} :
       \E enough \in
         {most >= participantsNeeded(participants, avalancheCutoffs[state].consensusPct)} :
         /\ haveCloseTimeConsensus' =
              (alone \/ (enough /\ most >= participantsNeeded(participants, avCT_CONSENSUS_PCT)))
         /\ TakeStand(r, D, IF alone THEN roundCloseTime(r.closeTime)
                            ELSE IF enough THEN Max({t \in DOMAIN votes : votes[t] = most})
                            ELSE 0)

phaseEstablish ==
    /\ Called("phase") /\ phase = "establish"
    /\ establishCounter' = UpTo(establishCounter + 1, minimumCounter)
    /\ IF roundTime < ledgerMIN_CONSENSUS
       THEN /\ peerUnchangedCounter' = Unchanged
            /\ Then(<< >>)
            /\ UNCHANGED <<result, setVars, currPeerPositions, haveCloseTimeConsensus,
                           closeTimeAvalancheState, sent>>
       ELSE /\ updateOurPositions
            /\ Then(<<Call("haveConsensus")>>)
    /\ UNCHANGED <<now, phase, mode, ledgerVars, deadNodes, recentPeerPositions, lastVars,
                   selfCloseTime, openedAt, envVars>>

(* Wait for validators that lag behind?  v says how far ahead of the       *)
(* validated ledger we are and how many validators lag or are offline.     *)
shouldPause(v) ==
    LET behind == v.laggards + v.offline
        step == (v.ahead - 1) % 5
    IN  /\ v.ahead > 0 /\ v.laggards > 0 /\ v.validator
        /\ roundTime <= ledgerMAX_CONSENSUS
        /\ CASE step = 0 -> behind > v.total - v.quorum
             [] step = 4 -> TRUE
             [] OTHER -> 4 * (v.total - behind) < 4 * v.quorum + (v.total - v.quorum) * step

checkConsensusReached(agreeing, total, count_self, isStalled) ==
    LET own == IF count_self THEN 1 ELSE 0 IN
    IF total = 0 THEN roundTime > ledgerMAX_CONSENSUS
    ELSE isStalled \/ ((agreeing + own) * 100) \div (total + own) >= minCONSENSUS_PCT

allStalled ==
    /\ haveCloseTimeConsensus /\ DOMAIN result.disputes # {}
    /\ \A t \in DOMAIN result.disputes : stalled(result.disputes[t])

agreeing == {p \in Live : currPeerPositions[p].position = result.txns}

checkConsensus(finished) ==
    LET proposers == Cardinality(Live)
        abandon == Min({ledgerABANDON_CONSENSUS,
                        Max({ledgerMAX_CONSENSUS, prevRoundTime * ledgerABANDON_CONSENSUS_FACTOR})})
    IN  IF \/ roundTime <= ledgerMIN_CONSENSUS
           \/ /\ proposers < (prevProposers * 3) \div 4
              /\ roundTime < prevRoundTime + ledgerMIN_CONSENSUS
        THEN "No"
        ELSE IF checkConsensusReached(Cardinality(agreeing), proposers, Proposing, allStalled)
        THEN "Yes"
        ELSE IF checkConsensusReached(finished, proposers, FALSE, FALSE) THEN "MovedOn"
        ELSE IF roundTime > abandon THEN "Expired" ELSE "No"

(* Mutant: we stop proposing without a word. *)
leaveConsensusSilently(r) ==
    /\ result' = r /\ UNCHANGED sent
    /\ mode' = IF Proposing THEN "observing" ELSE mode

(* We tell our peers that we bow out, and observe for the rest of the      *)
(* round.                                                                  *)
leaveConsensus(r) ==
    IF Proposing /\ r # None /\ r.seq # seqLeave
    THEN /\ result' = [r EXCEPT !.seq = seqLeave, !.time = now]
         /\ sent' = Append(sent, seqLeave)
         /\ mode' = "observing"
    ELSE /\ result' = r /\ UNCHANGED sent
         /\ mode' = IF Proposing THEN "observing" ELSE mode

(* An expired round goes on until each threshold has had its chance. *)
MayEnd(state) ==
    \/ state \in {"Yes", "MovedOn"}
    \/ state = "Expired" /\ establishCounter >= minimumCounter

(* The rest of phaseEstablish: haveConsensus, unless it pauses, and then   *)
(* acceptance if there is a close time too.                                *)
haveConsensus ==
    /\ Called("haveConsensus")
    /\ \E lag \in Lags, finished \in Finished :
       \E state \in {checkConsensus(finished)} :
       \E r \in {[result EXCEPT !.state = state]} :
         IF shouldPause(lag) THEN UNCHANGED <<phase, mode, result, sent, prevProposers, prevRoundTime>>
         ELSE IF ~MayEnd(state)
         THEN result' = r /\ UNCHANGED <<phase, mode, sent, prevProposers, prevRoundTime>>
         ELSE /\ IF state = "Expired" THEN leaveConsensus(r)
                 ELSE result' = r /\ UNCHANGED <<mode, sent>>
              /\ IF haveCloseTimeConsensus
                 THEN /\ phase' = "accepted" /\ prevProposers' = Cardinality(Live)
                      /\ prevRoundTime' = roundTime
                 ELSE UNCHANGED <<phase, prevProposers, prevRoundTime>>
    /\ Then(<< >>)
    /\ UNCHANGED <<now, ledgerVars, peerUnchangedCounter, setVars, peerVars,
                   recentPeerPositions, prevCloseTime, timeVars, envVars>>

-----------------------------------------------------------------------------
(* The parent ledger.                                                      *)

(* Mutant: our position stays when the round starts over. *)
ResetNothing == UNCHANGED result

ResetResult == result' = None

startRoundInternal(id, ledger, newMode) ==
    /\ phase' = "open" /\ mode' = newMode
    /\ prevLedgerID' = id /\ previousLedger' = ledger
    /\ ResetResult
    /\ closeTimeAvalancheState' = "init" /\ haveCloseTimeConsensus' = FALSE
    /\ openedAt' = now /\ selfCloseTime' = 0
    /\ currPeerPositions' = NoPositions /\ deadNodes' = {} /\ acquired' = {}
    /\ UNCHANGED <<now, peerUnchangedCounter, establishCounter, inbound, prevProposers>>

RightLedger == net = prevLedgerID /\ previousLedger = prevLedgerID

(* The end of it: a timer entry at once if many have closed. *)
ConsiderClosing ==
    /\ Called("considerClosing")
    /\ Then(IF Cardinality(Live) > prevProposers \div 2
            THEN (IF RightLedger THEN << >> ELSE <<Call("checkLedger")>>) \o <<Call("phase")>>
            ELSE << >>)
    /\ UNCHANGED <<now, phase, mode, ledgerVars, voteVars, setVars, peerVars,
                   recentPeerPositions, lastVars, timeVars, sent, envVars>>

(* The server starts on the ledger of the network, with a ledger that it   *)
(* has; when that is another one it may have the right one too.            *)
startRound(ledger, nowUntrusted, proposing) ==
    LET found == ledger = net \/ net \in ledgers
        recent == [p \in Peers |-> IF p \in nowUntrusted THEN << >> ELSE recentPeerPositions[p]]
    IN  /\ prevRoundTime' = IF rounds = 0 THEN ledgerIDLE_INTERVAL ELSE prevRoundTime
        /\ prevCloseTime' = IF rounds = 0 THEN closeTimeOf[ledger] ELSE selfCloseTime
        /\ recentPeerPositions' = recent
        /\ startRoundInternal(net, IF found THEN net ELSE ledger,
                              IF ~found THEN "wrongLedger"
                              ELSE IF proposing THEN "proposing" ELSE "observing")

(* What was disputed on another parent ledger. *)
ForgetDisputes(r) ==
    IF r = None THEN None ELSE [r EXCEPT !.disputes = << >>, !.compares = {}]

(* checkLedger when the ledger is not right: handleWrongLedger up to the   *)
(* playback of proposals.                                                  *)
checkLedger ==
    /\ Called("checkLedger")
    /\ IF net = prevLedgerID
       THEN /\ leaveConsensus(result)
            /\ Then(<<Call("switchLedger")>>)
            /\ UNCHANGED <<prevLedgerID, peerVars>>
       ELSE /\ leaveConsensus(ForgetDisputes(result))
            /\ prevLedgerID' = net
            /\ currPeerPositions' = NoPositions /\ deadNodes' = {}
            /\ Then(playbackProposals(recentPeerPositions) \o <<Call("switchLedger")>>)
    /\ UNCHANGED <<now, phase, previousLedger, peerUnchangedCounter, setVars,
                   recentPeerPositions, lastVars, timeVars, envVars>>

(* Mutant: the mode stays when the right ledger is not here. *)
StillWrong == UNCHANGED mode

StayWrong == mode' = "wrongLedger"

(* The rest of handleWrongLedger. *)
switchLedger ==
    /\ Called("switchLedger")
    /\ IF previousLedger # prevLedgerID /\ prevLedgerID \in ledgers
       THEN /\ startRoundInternal(prevLedgerID, prevLedgerID, "switchedLedger")
            /\ Then(playbackProposals(recentPeerPositions) \o <<Call("considerClosing")>>)
       ELSE /\ IF previousLedger = prevLedgerID THEN UNCHANGED mode ELSE StayWrong
            /\ Then(<< >>)
            /\ UNCHANGED <<now, phase, ledgerVars, voteVars, setVars, peerVars,
                           prevProposers, timeVars>>
    /\ UNCHANGED <<recentPeerPositions, prevRoundTime, prevCloseTime, sent, envVars>>

-----------------------------------------------------------------------------
Init ==
    /\ calls = << >> /\ now = 0
    /\ phase = "accepted" /\ mode = "observing"
    /\ prevLedgerID = None /\ previousLedger = None
    /\ result = None /\ acquired = {} /\ inbound = {}
    /\ currPeerPositions = NoPositions /\ deadNodes = {}
    /\ recentPeerPositions = [p \in Peers |-> << >>]
    /\ prevProposers = 0 /\ prevRoundTime = 0 /\ prevCloseTime = 0
    /\ selfCloseTime = 0 /\ openedAt = 0
    /\ haveCloseTimeConsensus = FALSE /\ closeTimeAvalancheState = "init"
    /\ peerUnchangedCounter = 0 /\ establishCounter = 0
    /\ sent = << >>
    /\ net = FirstLedger /\ ledgers = {FirstLedger}
    /\ rounds = 0 /\ proposals = 0 /\ switches = 0

(* The server has accepted a ledger, or has just started. *)
StartRound ==
    /\ calls = << >> /\ phase = "accepted" /\ rounds < MaxRounds
    /\ \E ledger \in ledgers, nowUntrusted \in {{}, Peers}, proposing \in BOOLEAN :
         startRound(ledger, nowUntrusted, proposing)
    /\ calls' = playbackProposals(recentPeerPositions') \o <<Call("considerClosing")>>
    /\ sent' = << >>
    /\ rounds' = rounds + 1
    /\ UNCHANGED <<net, ledgers, proposals, switches>>

(* A proposal arrives, possibly not for the first time; the last MaxRecent *)
(* of each peer are kept.                                                  *)
peerProposal(prop) ==
    LET recent == recentPeerPositions[prop.peer]
        kept == IF Len(recent) >= MaxRecent THEN Tail(recent) ELSE recent
    IN  /\ recentPeerPositions' = [recentPeerPositions EXCEPT ![prop.peer] = Append(kept, prop)]
        /\ peerProposalInternal(prop)

PeerProposal ==
    /\ calls = << >> /\ proposals < MaxProposals
    /\ \E x \in PeerProposals :
         peerProposal([peer |-> x.peer, prevLedger |-> x.prevLedger, seq |-> x.seq,
                       position |-> x.position, closeTime |-> x.closeTime, time |-> now])
    /\ proposals' = proposals + 1
    /\ UNCHANGED <<calls, net, ledgers, rounds, switches>>

(* A set arrives that a proposal named. *)
GotTxSet ==
    /\ calls = << >>
    /\ \E p \in Peers : \E i \in DOMAIN recentPeerPositions[p] :
         LET o == recentPeerPositions[p][i].position IN
         /\ o \notin inbound
         /\ inbound' = inbound \cup {o}
         /\ UNCHANGED peerVars
         /\ gotTxSet(o)
    /\ UNCHANGED <<calls, now, phase, mode, ledgerVars, recentPeerPositions, lastVars,
                   timeVars, sent, envVars>>

TimerEntry ==
    /\ calls = << >> /\ phase # "accepted" /\ now < MaxTime
    /\ \E delay \in Delays : now' = now + delay
    /\ calls' = (IF RightLedger THEN << >> ELSE <<Call("checkLedger")>>) \o <<Call("phase")>>
    /\ UNCHANGED <<phase, mode, ledgerVars, voteVars, setVars, peerVars,
                   recentPeerPositions, lastVars, timeVars, sent, envVars>>

(* The validations make the network's ledger another one. *)
NetworkSwitches ==
    /\ calls = << >> /\ switches < MaxSwitches
    /\ net' \in Ledgers \ {net}
    /\ switches' = switches + 1
    /\ UNCHANGED <<calls, now, phase, mode, ledgerVars, voteVars, setVars, peerVars,
                   recentPeerPositions, lastVars, timeVars, sent, ledgers, rounds, proposals>>

(* A ledger that was asked for arrives. *)
LedgerArrives ==
    /\ calls = << >> /\ net \notin ledgers
    /\ ledgers' = ledgers \cup {net}
    /\ UNCHANGED <<calls, now, phase, mode, ledgerVars, voteVars, setVars, peerVars,
                   recentPeerPositions, lastVars, timeVars, sent, net, rounds, proposals,
                   switches>>

(* The handler that is running. *)
Continue ==
    \/ PlaybackProposal \/ phaseOpen \/ phaseEstablish \/ haveConsensus
    \/ ConsiderClosing \/ checkLedger \/ switchLedger

Next ==
    \/ StartRound \/ PeerProposal \/ GotTxSet \/ TimerEntry \/ Continue
    \/ NetworkSwitches \/ LedgerArrives

(* Only the heartbeat timer is relied on.  Everything from the network may *)
(* stop.                                                                   *)
Spec == Init /\ [][Next]_vars /\ WF_vars(TimerEntry) /\ WF_vars(Continue)

-----------------------------------------------------------------------------
(* While the ledger is open we have no position, and while consensus is    *)
(* being established we have one, also after a switch of ledgers in the    *)
(* middle of a round (closeLedger and phaseEstablish assert it).           *)
TypeOK ==
    /\ phase \in {"open", "establish", "accepted"}
    /\ mode \in {"proposing", "observing", "wrongLedger", "switchedLedger"}
    /\ phase = "open" => result = None
    /\ phase = "establish" => result # None

(* The disputes agree with the sets.  The votes on a dispute are those of  *)
(* the peers in the round, and each is what the peer's set says once that  *)
(* set is here: nothing of a peer that bowed out, fell silent or belongs   *)
(* to another parent is counted.  Every transaction on which such a set    *)
(* differs from ours is disputed, although a set is compared with ours     *)
(* only once and ours changes afterwards.  Our set holds the disputed      *)
(* transactions we vote for and no other disputed one, and it is never one *)
(* that we still wait for (the assertion in gotTxSet).                     *)
DisputesFollowSets ==
    TypeOK /\ (result # None =>
        /\ \A p \in Peers :
             LET prop == currPeerPositions[p]
                 VoteOn(t) == result.disputes[t].votes[p]
             IN  IF prop = None THEN \A t \in DOMAIN result.disputes : VoteOn(t) = None
                 ELSE prop.position \in acquired =>
                        /\ \A t \in DOMAIN result.disputes : VoteOn(t) = (t \in prop.position)
                        /\ SymDiff(prop.position, result.txns) \subseteq DOMAIN result.disputes
        /\ \A t \in DOMAIN result.disputes : result.disputes[t].ourVote <=> t \in result.txns
        /\ result.txns \in acquired)

(* Between handlers: while we do not have the ledger that the round is     *)
(* about, the mode says so; what is built then is reported as out of sync  *)
(* and nothing is proposed.                                                *)
WrongLedgerIsKnown ==
    calls = << >> /\ prevLedgerID # previousLedger => mode = "wrongLedger"

(* Our proposals of a round carry increasing numbers, none follows the one *)
(* that bows out (peers drop every other), and who stops proposing has     *)
(* bowed out.                                                              *)
ProposalsInOrder ==
    /\ \A i \in 1..Len(sent) - 1 : sent[i] < sent[i + 1]
    /\ sent # << >> /\ ~Proposing => Last(sent) = seqLeave

(* A peer's position is never replaced by one that it sent earlier. *)
PeersDoNotGoBack ==
    [][\A p \in Peers :
         /\ currPeerPositions[p] # None /\ currPeerPositions'[p] # None
         /\ prevLedgerID' = prevLedgerID
         => currPeerPositions'[p].seq >= currPeerPositions[p].seq]_vars

(* Every round ends, and before MaxTime, whatever the peers did, once they *)
(* have fallen silent: it reaches consensus, finds that the network moved  *)
(* on, or expires.                                                         *)
RoundEnds == phase # "accepted" ~> phase = "accepted"
=============================================================================
