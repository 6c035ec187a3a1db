--------------------------- MODULE InclusionProof ---------------------------
(***************************************************************************)
(* The Merkle trees of lib/stellar/stellar-proof.ts and of                 *)
(* lib/crypto/zk-event-accumulator.ts, and the paths through them.         *)
(* SHA-256 is a constructor: two hashes are equal when what they are made  *)
(* of is.                                                                  *)
(***************************************************************************)
EXTENDS Naturals, Sequences, SequencesExt, FiniteSets

leafHash(t) == <<"leaf", t>>
sha256Pair(l, r) == <<"inner", l, r>>
sorted(s) == SortSeq(s, <)

\* Regression: a last node without a sibling goes up as it is.
nextLevelLift(level) ==
    [k \in 1 .. (Len(level) + 1) \div 2 |->
        IF 2 * k <= Len(level) THEN sha256Pair(level[2 * k - 1], level[2 * k]) ELSE level[2 * k - 1]]

\* One level up; a last node without a sibling is paired with itself.
nextLevel(level) ==
    [k \in 1 .. (Len(level) + 1) \div 2 |->
        sha256Pair(level[2 * k - 1], IF 2 * k <= Len(level) THEN level[2 * k] ELSE level[2 * k - 1])]

buildMerkleTree(leaves) ==
    LET levels[n \in 1 .. Len(leaves)] ==
            IF n = 1 THEN <<leaves>>
            ELSE LET below == levels[n - 1]
                 IN  IF Len(Last(below)) > 1 THEN Append(below, nextLevel(Last(below))) ELSE below
    IN  levels[Len(leaves)]

rootOf(leaves) == Last(buildMerkleTree(leaves))[1]

\* Siblings from the leaf up: index n counts from 1, so that odd ones are on the left.
extractMerklePath(levels, leaf) ==
    LET at[l \in 1 .. Len(levels)] == IF l = 1 THEN leaf ELSE (at[l - 1] + 1) \div 2
    IN  [l \in 1 .. Len(levels) - 1 |->
            LET n == at[l] level == levels[l]
            IN  IF n % 2 = 0 THEN [siblingHash |-> level[n - 1], position |-> "left"]
                ELSE [siblingHash |-> IF n + 1 <= Len(level) THEN level[n + 1] ELSE level[n],
                      position |-> "right"]]

\* The walk of verifyInclusionProofSync() and of the browser.
walkMerklePath(p) ==
    FoldLeft(LAMBDA current, node : IF node.position = "left" THEN sha256Pair(node.siblingHash, current)
                                    ELSE sha256Pair(current, node.siblingHash),
             leafHash(p.txHash), p.merklePath)

-----------------------------------------------------------------------------
(***************************************************************************)
(* Merkle inclusion proofs: fetchInclusionProof() of                       *)
(* lib/stellar/stellar-proof.ts behind api/v1/events/proof, and            *)
(* useInclusionProof() of lib/hooks/useInclusionProof.ts, which checks the *)
(* proof again in the browser.                                             *)
(*                                                                         *)
(* A ledger's root is, as stellar-proof.ts says, the root of the tree over *)
(* all its transactions; Horizon is asked for those that succeeded.        *)
(***************************************************************************)

CONSTANTS
    ProofLedgers,      \* sequence of ledgers [txs, failed]: txs in Horizon's order
    HORIZON_PAGE, MAX_TX_FETCH,
    MaxProofFaults     \* bound: requests that fail

ASSUME InclusionProofAssumption ==
    /\ {HORIZON_PAGE, MAX_TX_FETCH, MaxProofFaults} \subseteq Nat /\ HORIZON_PAGE > 0
    /\ \A n \in DOMAIN ProofLedgers : /\ ProofLedgers[n].txs \in Seq(Nat) /\ IsInjective(ProofLedgers[n].txs)
                                      /\ ProofLedgers[n].failed \subseteq Range(ProofLedgers[n].txs)

VARIABLES
    selected,       \* the transaction the panel is open on: <<tx, ledger>>
    proofStatus, shownProof, computedRoot, expectedRoot,
    verifying,           \* verify() under way: [at, tx, ledger]
    proofFaults

proofvars == <<selected, proofStatus, shownProof, computedRoot, expectedRoot, verifying, proofFaults>>

-----------------------------------------------------------------------------
(* The server                                                            *)

ledgerRootHash(l) == rootOf([n \in DOMAIN ProofLedgers[l].txs |-> leafHash(sorted(ProofLedgers[l].txs)[n])])

\* Regression: the pages stop one short of the limit.
fetchLedgerTransactionsShort(l) ==
    LET listed == SelectSeq(ProofLedgers[l].txs, LAMBDA t : t \notin ProofLedgers[l].failed)
        pages[n \in 0 .. Len(listed)] ==
            IF n = 0 THEN <<>>
            ELSE IF Len(pages[n - 1]) + HORIZON_PAGE > MAX_TX_FETCH THEN pages[n - 1]
            ELSE SubSeq(listed, 1, IF n * HORIZON_PAGE < Len(listed) THEN n * HORIZON_PAGE ELSE Len(listed))
    IN  pages[Len(listed)]

\* Pages of Horizon, until there are none left or the limit is reached.
fetchLedgerTransactions(l) ==
    LET listed == SelectSeq(ProofLedgers[l].txs, LAMBDA t : t \notin ProofLedgers[l].failed)
        pages[n \in 0 .. Len(listed)] ==
            IF n = 0 THEN <<>>
            ELSE IF Len(pages[n - 1]) >= MAX_TX_FETCH THEN pages[n - 1]
            ELSE SubSeq(listed, 1, IF n * HORIZON_PAGE < Len(listed) THEN n * HORIZON_PAGE ELSE Len(listed))
    IN  pages[Len(listed)]

NoProof == [error |-> "none"]

fetchInclusionProof(tx, l) ==
    LET txHashes == fetchLedgerTransactions(l)
        sortedHashes == sorted(txHashes)
        tree == buildMerkleTree([n \in DOMAIN txHashes |-> leafHash(sortedHashes[n])])
        index == CHOOSE n \in DOMAIN txHashes : sortedHashes[n] = tx
    IN  IF Len(txHashes) > MAX_TX_FETCH THEN [error |-> "too many transactions"]
        ELSE IF tx \notin Range(txHashes) THEN [error |-> "not found"]
        ELSE [error |-> "none", txHash |-> tx, ledgerRootHash |-> ledgerRootHash(l), txCount |-> Len(txHashes),
              merklePath |-> IF Len(txHashes) = 1 THEN <<>> ELSE extractMerklePath(tree, index)]

\* GET /api/v1/events/proof: the status tells a wrong request from a failure of Horizon.
ProofRoute(tx, l) ==
    LET p == fetchInclusionProof(tx, l)
    IN  [status |-> CASE p.error = "none" -> 200 [] p.error = "not found" -> 404 [] OTHER -> 422, proof |-> p]

-----------------------------------------------------------------------------
(* The panel                                                             *)

AllTxs == UNION {Range(ProofLedgers[l].txs) : l \in DOMAIN ProofLedgers}

ProofInit ==
    /\ selected \in AllTxs \X DOMAIN ProofLedgers
    /\ proofStatus = "idle" /\ shownProof = NoProof /\ computedRoot = <<>> /\ expectedRoot = <<>>
    /\ verifying = [at |-> "none", tx |-> 0, ledger |-> 0] /\ proofFaults = 0

\* The buttons call verify() unless it is loading.
verify ==
    /\ proofStatus # "loading"
    /\ proofStatus' = "loading" /\ shownProof' = NoProof /\ computedRoot' = <<>> /\ expectedRoot' = <<>>
    /\ verifying' = [at |-> "fetch", tx |-> selected[1], ledger |-> selected[2]]
    /\ UNCHANGED <<selected, proofFaults>>

\* The dialog moves on to another event; the hook keeps what it has.
SelectTx(s) ==
    /\ selected' = s
    /\ UNCHANGED <<proofStatus, shownProof, computedRoot, expectedRoot, verifying, proofFaults>>

ProofArrives ==
    /\ verifying.at = "fetch"
    /\ LET r == ProofRoute(verifying.tx, verifying.ledger)
           p == r.proof
       IN  IF r.status # 200
           THEN /\ proofStatus' = "error" /\ verifying' = [verifying EXCEPT !.at = "none"]
                /\ UNCHANGED <<shownProof, expectedRoot>>
           ELSE /\ shownProof' = p /\ expectedRoot' = p.ledgerRootHash /\ verifying' = [verifying EXCEPT !.at = "hash"]
                /\ UNCHANGED proofStatus
    /\ UNCHANGED <<selected, computedRoot, proofFaults>>

ProofRequestFails ==
    /\ verifying.at = "fetch" /\ proofFaults < MaxProofFaults /\ proofFaults' = proofFaults + 1
    /\ proofStatus' = "error" /\ verifying' = [verifying EXCEPT !.at = "none"]
    /\ UNCHANGED <<selected, shownProof, computedRoot, expectedRoot>>

\* One transaction: the leaf is the root.  Otherwise the path is walked.
Hashed ==
    /\ verifying.at = "hash" /\ verifying' = [verifying EXCEPT !.at = "none"]
    /\ computedRoot' = IF shownProof.merklePath = <<>> /\ shownProof.txCount = 1
                       THEN leafHash(shownProof.txHash) ELSE walkMerklePath(shownProof)
    /\ proofStatus' = IF computedRoot' = shownProof.ledgerRootHash THEN "verified" ELSE "invalid"
    /\ UNCHANGED <<selected, shownProof, expectedRoot, proofFaults>>

ProofNext ==
    \/ verify \/ ProofArrives \/ ProofRequestFails \/ Hashed
    \/ \E s \in AllTxs \X DOMAIN ProofLedgers : SelectTx(s)

ProofSpec == ProofInit /\ [][ProofNext]_proofvars

-----------------------------------------------------------------------------
(* Properties                                                            *)

\* The verdict of the browser is about the whole ledger: verified means the ledger has
\* the transaction, and a transaction that succeeded is invalid only in a ledger with
\* one that failed, which the proof leaves out and the root does not.
VerdictIsRight ==
    LET l == verifying.ledger
    IN  /\ proofStatus = "verified" => verifying.tx \in Range(ProofLedgers[l].txs) \ ProofLedgers[l].failed
        /\ proofStatus = "invalid" => ProofLedgers[l].failed # {}

\* A ledger that has more than the limit is refused, never proved from a part of it.
ProofSetIsWhole ==
    shownProof # NoProof =>
        shownProof.txCount + Cardinality(ProofLedgers[verifying.ledger].failed) = Len(ProofLedgers[verifying.ledger].txs)

-----------------------------------------------------------------------------
(***************************************************************************)
(* The proof over a set of audited events of                               *)
(* lib/crypto/zk-event-accumulator.ts: a root over the sorted leaves and   *)
(* their number, checked against the events a verifier holds.              *)
(***************************************************************************)

CONSTANTS
    AuditEvents,       \* events, numbered in the order of their leaf hashes
    MaxAudited         \* bound: events supplied at a time

ASSUME EventAccumulatorAssumption == AuditEvents \subseteq Nat /\ MaxAudited \in Nat

VARIABLES
    supplied,       \* events the verifier holds
    accumulated     \* the proof that was made: [root, count], and of which events

auditvars == <<supplied, accumulated>>

\* The hash of the event's canonical row, whose order AuditEvents' numbers stand for.
computeEventLeaf(e) == leafHash(e)

buildAccumulatorRoot(events) ==
    IF events = <<>> THEN <<"empty">>
    ELSE rootOf([n \in DOMAIN events |-> computeEventLeaf(sorted(events)[n])])

\* Regression: the number of leaves is not compared.
verifyAggregatedRootOnly(proof, events) == buildAccumulatorRoot(events) = proof.root

verifyAggregated(proof, events) ==
    /\ buildAccumulatorRoot(events) = proof.root
    /\ proof.count = Len(events)

AuditInit == supplied = <<>> /\ accumulated = [root |-> <<"empty">>, count |-> 0, of |-> <<>>]

buildAggregatedEventsProof ==
    /\ accumulated' = [root |-> buildAccumulatorRoot(supplied), count |-> Len(supplied), of |-> supplied]
    /\ UNCHANGED supplied

\* The verifier supplies the events it holds, in any order, more or fewer of them.
Supply(e) == Len(supplied) < MaxAudited /\ supplied' = Append(supplied, e) /\ UNCHANGED accumulated
Withhold == supplied # <<>> /\ supplied' = Tail(supplied) /\ UNCHANGED accumulated

AuditNext == buildAggregatedEventsProof \/ Withhold \/ \E e \in AuditEvents : Supply(e)

AuditSpec == AuditInit /\ [][AuditNext]_auditvars

-----------------------------------------------------------------------------
(* Property                                                              *)

\* The accumulator's proof is accepted for the events it was made of, in any order, and
\* for no others, although repeating the last leaf of an odd level keeps the root.
AuditBindsEvents ==
    verifyAggregated(accumulated, supplied) <=> sorted(supplied) = sorted(accumulated.of)
=============================================================================
