------------------------------- MODULE Bridge -------------------------------
(***************************************************************************)
(* Cross-chain bridge events: the poll loop of evm-bridge-indexer.ts with  *)
(* its block cursors, the Stellar listener, and the matcher both use,      *)
(* lib/bridge/matcher.ts.                                                  *)
(*                                                                         *)
(* A task is a running pollChain() or handleStellarBridgeEvent().  Rows    *)
(* and match records are numbered as they are created.  The chains of one  *)
(* cycle are polled in parallel; when one poll ends in an error the cycle  *)
(* is over, and the others run on beside the next one.  Each poll that     *)
(* meets a log ends so: the log is stored and matched, but its block       *)
(* number is a BigInt, of which JSON.stringify makes no string to publish. *)
(* Tasks of one chain are told apart by their numbers.                     *)
(***************************************************************************)
EXTENDS Naturals, Sequences, FiniteSets

CONSTANTS
    BridgeEvents,    \* logs and burns: [chain, block, index, type, tx, proof, recipient, amount, time]
    EvmChains,
    MAX_BLOCK_RANGE,
    FirstLookback,   \* how far back a poll without a cursor begins
    TIMESTAMP_TOLERANCE,
    ExpireBefore,    \* burns with an earlier time are past the match timeout
    FirstBlock,      \* bound: the newest block of a chain at first,
    lastBlock,       \* and at last, of each chain
    MaxCalls,        \* bound: calls of the Stellar listener
    MaxRows,         \* bound: event rows
    MaxBridgeFaults  \* bound: failed calls and deaths of the indexer

NoProof == 0  NoRecipient == 0
Stellar == "stellar"

ASSUME BridgeAssumption ==
    /\ IsFiniteSet(BridgeEvents) /\ IsFiniteSet(EvmChains) /\ Stellar \notin EvmChains
    /\ \A e \in BridgeEvents :
         /\ e.chain \in EvmChains \cup {Stellar} /\ e.type \in {"burn", "mint"}
         /\ {e.block, e.index, e.proof, e.recipient, e.amount, e.time} \subseteq Nat
    /\ {MAX_BLOCK_RANGE, FirstLookback, TIMESTAMP_TOLERANCE, ExpireBefore, FirstBlock,
        MaxCalls, MaxRows, MaxBridgeFaults} \subseteq Nat
    /\ lastBlock \in [EvmChains -> Nat] /\ \A c \in EvmChains : FirstBlock <= lastBlock[c]

VARIABLES
    eventRows,   \* bridgeEvent rows: [event, matchId], 0 for null
    matchRows,   \* crossChainMatch rows: [status, of], of the event rows they name
    tasks,       \* [chain, id, todo, to, at, row, partner, awaited]
    blockCursor, \* the Redis cursor of each chain, 0 for none
    latestBlock,
    loop,        \* main(): sleep, poll, expire
    expiring,    \* the rest of expireUnmatchedBurns(): rows read as stale
    calls,       \* calls of the Stellar listener so far
    callsMet,    \* history: one was made while another ran
    overlapped,  \* history: two events were matched at a time, or one during the expiry
    bridgeFaults \* counter for MaxBridgeFaults

chainvars == <<blockCursor, latestBlock>>
loopvars == <<loop, expiring>>
callvars == <<calls, callsMet>>
bridgevars == <<eventRows, matchRows, tasks, chainvars, loopvars, callvars, overlapped, bridgeFaults>>

BridgeInit ==
    /\ eventRows = <<>> /\ matchRows = <<>> /\ tasks = {}
    /\ blockCursor = [c \in EvmChains |-> 0] /\ latestBlock = [c \in EvmChains |-> FirstBlock]
    /\ loop = "sleep" /\ expiring = {}
    /\ calls = 0 /\ callsMet = FALSE /\ overlapped = FALSE /\ bridgeFaults = 0

Working == {t \in tasks : t.at \in {"find", "match"}}
Become(t, T) == tasks' = (tasks \ {t}) \cup T

NextBlock(c) ==
    /\ latestBlock[c] < lastBlock[c]
    /\ latestBlock' = [latestBlock EXCEPT ![c] = @ + 1]
    /\ UNCHANGED <<eventRows, matchRows, tasks, blockCursor, loopvars, callvars, overlapped, bridgeFaults>>

-----------------------------------------------------------------------------
(* The loop of main() and the start of a poll.                           *)

\* A task with the logs it still has to store, under a number no other of its chain has.
Task(chain, at, todo, to) ==
    [chain |-> chain, todo |-> todo, to |-> to, at |-> at, row |-> 0, partner |-> 0, awaited |-> TRUE,
     id |-> CHOOSE n \in 0 .. Cardinality(tasks) : \A t \in tasks : t.chain = chain => t.id # n]

\* pollChain() up to getLogs(): the range begins at the cursor and ends at most
\* MAX_BLOCK_RANGE later; nothing is done before a block newer than its first.
Poll(c) ==
    LET latest == latestBlock[c]
        from == IF blockCursor[c] # 0 THEN blockCursor[c]
                ELSE IF latest > FirstLookback THEN latest - FirstLookback ELSE 0
        to == IF from + MAX_BLOCK_RANGE < latest THEN from + MAX_BLOCK_RANGE ELSE latest
        logs == {e \in BridgeEvents : e.chain = c /\ e.block \in from .. to}
    IN  IF from >= latest THEN {}
        ELSE {Task(c, IF logs = {} THEN "cursor" ELSE "create", logs, to)}

StartPolls ==
    /\ loop = "sleep" /\ loop' = "poll"
    /\ tasks' = tasks \cup UNION {Poll(c) : c \in EvmChains}
    /\ UNCHANGED <<eventRows, matchRows, chainvars, expiring, callvars, overlapped, bridgeFaults>>

\* Regression: the cursor advances while logs are left.
AdvanceCursorEarly(t) ==
    /\ t.at \in {"create", "cursor"} /\ t.chain # Stellar
    /\ blockCursor' = [blockCursor EXCEPT ![t.chain] = t.to + 1]
    /\ Become(t, {})
    /\ UNCHANGED <<eventRows, matchRows, latestBlock, loopvars, callvars, overlapped, bridgeFaults>>

AdvanceCursor(t) ==
    /\ t.at = "cursor"
    /\ blockCursor' = [blockCursor EXCEPT ![t.chain] = t.to + 1]
    /\ Become(t, {})
    /\ UNCHANGED <<eventRows, matchRows, latestBlock, loopvars, callvars, overlapped, bridgeFaults>>

\* Every poll of the cycle has ended well: perhaps it is time for the expiry.
PollsDone ==
    /\ loop = "poll" /\ \A t \in tasks : t.chain \in EvmChains => ~t.awaited
    /\ loop' \in {"sleep", "expire"}
    /\ UNCHANGED <<eventRows, matchRows, tasks, chainvars, expiring, callvars, overlapped, bridgeFaults>>

-----------------------------------------------------------------------------
(* The handling of one event.                                            *)

\* handleStellarBridgeEvent(), possibly for an event that is replayed.
StellarEvent(e) ==
    /\ e.chain = Stellar /\ e.type = "burn" /\ calls < MaxCalls
    /\ calls' = calls + 1
    /\ callsMet' = (callsMet \/ \E t \in tasks : t.chain = Stellar)
    /\ tasks' = tasks \cup {Task(Stellar, "lookup", {e}, 0)}
    /\ UNCHANGED <<eventRows, matchRows, chainvars, loopvars, overlapped, bridgeFaults>>

\* Regression: a burn that is replayed is not looked for.
LookupNothing(t) ==
    /\ t.at = "lookup" /\ Become(t, {[t EXCEPT !.at = "create"]})
    /\ UNCHANGED <<eventRows, matchRows, chainvars, loopvars, callvars, overlapped, bridgeFaults>>

\* A burn of the same transaction has a row: nothing more is done.
Lookup(t) ==
    /\ t.at = "lookup"
    /\ Become(t, IF \E i \in DOMAIN eventRows, e \in t.todo :
                        /\ eventRows[i].event.tx = e.tx
                        /\ eventRows[i].event.type = "burn" /\ eventRows[i].event.chain = Stellar
                 THEN {} ELSE {[t EXCEPT !.at = "create"]})
    /\ UNCHANGED <<eventRows, matchRows, chainvars, loopvars, callvars, overlapped, bridgeFaults>>

InChainOrder(e, f) == e.block < f.block \/ (e.block = f.block /\ e.index < f.index)

\* The first log of a task gets its row; it will not come to the others.
CreateRow(t) ==
    /\ t.at = "create" /\ Len(eventRows) < MaxRows
    /\ \E e \in t.todo :
         /\ \A f \in t.todo : ~InChainOrder(f, e)
         /\ eventRows' = Append(eventRows, [event |-> e, matchId |-> 0])
         /\ Become(t, {[t EXCEPT !.at = "find", !.row = Len(eventRows) + 1, !.todo = {}]})
    /\ overlapped' = (overlapped \/ Working # {} \/ loop = "mark")
    /\ UNCHANGED <<matchRows, chainvars, loopvars, callvars, bridgeFaults>>

Near(e, f) == e.time <= f.time + TIMESTAMP_TOLERANCE /\ f.time <= e.time + TIMESTAMP_TOLERANCE

\* The three tiers: what a counterpart of e has to agree in.
Agrees(tier, e, f) ==
    CASE tier = 1 -> e.proof # NoProof /\ f.proof = e.proof
      [] tier = 2 -> e.recipient # NoRecipient /\ f.recipient = e.recipient /\ f.amount = e.amount /\ Near(e, f)
      [] tier = 3 -> f.amount = e.amount /\ Near(e, f)

Counterparts(tier, e) ==
    {i \in DOMAIN eventRows : eventRows[i].matchId = 0 /\ eventRows[i].event.type # e.type
                                /\ Agrees(tier, e, eventRows[i].event)}

Earliest(S) == {i \in S : \A j \in S : eventRows[i].event.time <= eventRows[j].event.time}

\* A task ends early.  A poll the loop waits for ends the cycle; the other polls go on,
\* awaited by nobody.
TaskThrows(t) ==
    IF t.awaited /\ t.chain \in EvmChains
    THEN /\ tasks' = {[x EXCEPT !.awaited = x.awaited /\ x.chain = Stellar] : x \in tasks \ {t}}
         /\ loop' = "sleep"
    ELSE Become(t, {}) /\ UNCHANGED loop

\* Regression: the event is published, and the poll ends at its cursor.
HandledWell(t) ==
    /\ Become(t, IF t.chain = Stellar THEN {}
                 ELSE {[t EXCEPT !.row = 0, !.partner = 0, !.at = "cursor"]})
    /\ UNCHANGED loop

\* The event is handled: the call of the listener returns; a poll publishes the event,
\* which throws, whatever it holds.
Handled(t) == IF t.chain = Stellar THEN Become(t, {}) /\ UNCHANGED loop ELSE TaskThrows(t)

\* Regression: rows that have their match are found as well.
FindAnyway(t) ==
    LET e == eventRows[t.row].event
        S == {i \in DOMAIN eventRows : eventRows[i].event.type # e.type /\ Agrees(3, e, eventRows[i].event)}
    IN  /\ t.at = "find"
        /\ IF S = {} THEN Handled(t)
           ELSE UNCHANGED loop /\ \E i \in S : Become(t, {[t EXCEPT !.at = "match", !.partner = i]})
        /\ UNCHANGED <<eventRows, matchRows, chainvars, expiring, callvars, overlapped, bridgeFaults>>

\* Regression: only the proof counts.
FindByProof(t) ==
    LET S == Counterparts(1, eventRows[t.row].event)
    IN  /\ t.at = "find"
        /\ IF S = {} THEN Handled(t)
           ELSE UNCHANGED loop /\ \E i \in S : Become(t, {[t EXCEPT !.at = "match", !.partner = i]})
        /\ UNCHANGED <<eventRows, matchRows, chainvars, expiring, callvars, overlapped, bridgeFaults>>

\* matchBridgeEvent(): a row of the other type without a match, by the first tier that
\* has one; the second and third take the earliest.
Find(t) ==
    LET C(tier) == Counterparts(tier, eventRows[t.row].event)
        S == IF C(1) # {} THEN C(1) ELSE IF C(2) # {} THEN Earliest(C(2)) ELSE Earliest(C(3))
    IN  /\ t.at = "find"
        /\ IF S = {} THEN Handled(t)
           ELSE UNCHANGED loop /\ \E i \in S : Become(t, {[t EXCEPT !.at = "match", !.partner = i]})
        /\ UNCHANGED <<eventRows, matchRows, chainvars, expiring, callvars, overlapped, bridgeFaults>>

PersistMatch(t, linked) ==
    /\ t.at = "match"
    /\ matchRows' = Append(matchRows, [status |-> "matched", of |-> {t.row, t.partner}])
    /\ eventRows' = [i \in DOMAIN eventRows |->
          IF i \in linked THEN [eventRows[i] EXCEPT !.matchId = Len(matchRows) + 1] ELSE eventRows[i]]

\* Regression: the id of the record goes to any row.
LinkAll(t) ==
    /\ PersistMatch(t, DOMAIN eventRows)
    /\ Handled(t)
    /\ UNCHANGED <<chainvars, expiring, callvars, overlapped, bridgeFaults>>

\* persistMatch() creates the record and links both rows, linked or not by now.
Link(t) ==
    /\ PersistMatch(t, {t.row, t.partner})
    /\ Handled(t)
    /\ UNCHANGED <<chainvars, expiring, callvars, overlapped, bridgeFaults>>

-----------------------------------------------------------------------------
(* Failures.                                                             *)

Fault == bridgeFaults < MaxBridgeFaults /\ bridgeFaults' = bridgeFaults + 1

\* A call to a node, the database or Redis fails.  A match record may be left without its
\* links.
TaskFails(t) ==
    /\ Fault
    /\ \/ UNCHANGED <<eventRows, matchRows>>
       \/ PersistMatch(t, {})
       \/ PersistMatch(t, {t.row, t.partner})
    /\ TaskThrows(t)
    /\ UNCHANGED <<chainvars, expiring, callvars, overlapped>>

\* The indexer ends in the middle of its work, and is started again.
IndexerDies ==
    /\ Fault
    /\ tasks' = {t \in tasks : t.chain = Stellar}
    /\ loop' = "sleep" /\ expiring' = {}
    /\ UNCHANGED <<eventRows, matchRows, chainvars, callvars, overlapped>>

\* A call of the expiry fails, which ends the cycle; a record may be left without its link.
ExpiryFails ==
    /\ Fault /\ loop \in {"expire", "mark"}
    /\ \/ UNCHANGED matchRows
       \/ \E i \in expiring : matchRows' = Append(matchRows, [status |-> "unmatched", of |-> {i}])
    /\ loop' = "sleep" /\ expiring' = {}
    /\ UNCHANGED <<eventRows, tasks, chainvars, callvars, overlapped>>

-----------------------------------------------------------------------------
(* expireUnmatchedBurns().                                               *)

StaleBurns ==
    {i \in DOMAIN eventRows : eventRows[i].event.type = "burn" /\ eventRows[i].matchId = 0
                                /\ eventRows[i].event.time < ExpireBefore}

ReadStale ==
    /\ loop = "expire"
    /\ expiring' = StaleBurns
    /\ loop' = IF StaleBurns = {} THEN "sleep" ELSE "mark"
    /\ overlapped' = (overlapped \/ Working # {})
    /\ UNCHANGED <<eventRows, matchRows, tasks, chainvars, callvars, bridgeFaults>>

\* A record says a burn is unmatched, and the burn is linked to it.
MarkUnmatched ==
    /\ loop = "mark"
    /\ \E i \in expiring :
         /\ matchRows' = Append(matchRows, [status |-> "unmatched", of |-> {i}])
         /\ eventRows' = [eventRows EXCEPT ![i].matchId = Len(matchRows) + 1]
         /\ expiring' = expiring \ {i}
         /\ loop' = IF expiring = {i} THEN "sleep" ELSE "mark"
    /\ overlapped' = (overlapped \/ Working # {})
    /\ UNCHANGED <<tasks, chainvars, callvars, bridgeFaults>>

pollChain(t) ==
    \/ Lookup(t) \/ CreateRow(t) \/ Find(t) \/ Link(t) \/ AdvanceCursor(t) \/ TaskFails(t)

BridgeNext ==
    \/ StartPolls \/ PollsDone \/ ReadStale \/ MarkUnmatched \/ ExpiryFails \/ IndexerDies
    \/ \E c \in EvmChains : NextBlock(c)
    \/ \E e \in BridgeEvents : StellarEvent(e)
    \/ \E t \in tasks : pollChain(t)

BridgeSpec == BridgeInit /\ [][BridgeNext]_bridgevars

-----------------------------------------------------------------------------
(* Properties.                                                           *)

BridgeTypeOK ==
    /\ \A i \in DOMAIN eventRows :
         eventRows[i].event \in BridgeEvents /\ eventRows[i].matchId \in 0 .. Len(matchRows)
    /\ \A m \in DOMAIN matchRows :
         matchRows[m].status \in {"matched", "unmatched"} /\ matchRows[m].of \subseteq DOMAIN eventRows
    /\ \A t \in tasks :
         /\ t.row \in 0 .. Len(eventRows) /\ t.partner \in 0 .. Len(eventRows)
         /\ t.at \in {"lookup", "create"} => t.todo # {}
         /\ t.at \in {"find", "match"} => t.row # 0
    /\ loop \in {"sleep", "poll", "expire", "mark"} /\ (loop = "mark" <=> expiring # {})
    /\ \A c \in EvmChains : blockCursor[c] \in 0 .. lastBlock[c] + 1
    /\ calls \in 0 .. MaxCalls /\ callsMet \in BOOLEAN /\ bridgeFaults \in 0 .. MaxBridgeFaults

Unlinked(i) == eventRows[i].matchId = 0
Matchable(i, k) ==
    /\ eventRows[i].event.type # eventRows[k].event.type
    /\ \E tier \in 1 .. 3 : Agrees(tier, eventRows[i].event, eventRows[k].event)

\* However the events of two chains interleave, a burn and its mint are not both left
\* without a match: the later search finds the earlier row, unless a call failed.
NoPairMissed ==
    bridgeFaults = 0 =>
        \A i, k \in DOMAIN eventRows :
            i < k /\ Matchable(i, k) /\ Unlinked(i) /\ Unlinked(k)
                => \E t \in tasks : t.row \in {i, k} /\ t.at \in {"find", "match"}

\* A row belongs to one match record at most, and then points to it, unless two
\* events were handled at the same time, or one during the expiry.
OneMatchEach ==
    ~overlapped /\ bridgeFaults = 0 =>
        \A m, n \in DOMAIN matchRows : m # n => matchRows[m].of \cap matchRows[n].of = {}

\* A row that has a match is named by it, whatever was overwritten: a match may lose
\* one of its rows to another, never gain a stranger.
LinkNamesRow ==
    \A i \in DOMAIN eventRows : eventRows[i].matchId # 0 => i \in matchRows[eventRows[i].matchId].of

\* From where its polls begin, a chain's logs are read again and again.
FromStart(c) == FirstLookback >= lastBlock[c]

\* The cursor never passes a log, stored or not, whatever fails, dies or overlaps: a poll
\* that meets a log does not come to its cursor.
NoLogPassed ==
    \A e \in BridgeEvents :
        e.chain \in EvmChains /\ FromStart(e.chain) => blockCursor[e.chain] <= e.block

\* So a chain has rows of its first log only, one more for each poll of it.
FirstLogOnly ==
    \A i \in DOMAIN eventRows, e \in BridgeEvents :
        eventRows[i].event.chain = e.chain /\ e.chain \in EvmChains /\ FromStart(e.chain)
            => ~InChainOrder(e, eventRows[i].event)

\* A burn on Stellar is stored twice only if two calls of the listener overlap, whatever
\* fails in them: a call that is replayed finds the row.
BurnStoredOnce ==
    ~callsMet =>
        \A i, k \in DOMAIN eventRows :
            /\ eventRows[i].event.chain = Stellar /\ eventRows[k].event.chain = Stellar
            /\ eventRows[i].event.tx = eventRows[k].event.tx
            => i = k

\* Pairs are found and belong together.
MatchingSound == BridgeTypeOK /\ NoPairMissed /\ OneMatchEach /\ LinkNamesRow

\* The first log holds its chain up, and the burns are stored once.
LogsStored == NoLogPassed /\ FirstLogOnly /\ BurnStoredOnce

\* Rows of the bridge come from the chains, and matches from rows.
BridgeSafety == MatchingSound /\ LogsStored
=============================================================================
