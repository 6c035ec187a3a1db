---------------------------- MODULE SecureParser ----------------------------
(***************************************************************************)
(* Decoding of contract values within limits:                              *)
(* lib/translator/secure-xdr-parser.ts over the contexts, the limits and   *)
(* the metrics of lib/translator/parser-security.ts.                       *)
(*                                                                         *)
(* A value is a tree [kind, bytes, items]: the items of a vector, and the  *)
(* keys and values of a map in turn.  A context is copied into each child, *)
(* so depth and allocation add up along a path; the statistics are shared. *)
(***************************************************************************)
EXTENDS Naturals, Sequences, FiniteSets, SequencesExt

CONSTANTS
    HexInputs,    \* [chars, count, value]: the length, the count in a collection's header, and
                  \* what fromXDR() reads, Malformed if it throws
    SpecPayloads, \* sequences of entries [len, valid, whole]: the length field, whether
                  \* fromXDR() reads it, and whether that many bytes follow
    MAX_RECURSION_DEPTH, MAX_PAYLOAD_SIZE_BYTES, MAX_COLLECTION_SIZE, MAX_HEX_STRING_LENGTH,
    MaxEntryBytes,
    MAP_ENTRY_BYTES, VEC_ITEM_BYTES,
    Deadlines,    \* how many checks of the clock succeed before MAX_PARSE_TIME_MS has passed
    MaxParses

ASSUME SecureParserAssumption ==
    /\ {MAX_RECURSION_DEPTH, MAX_PAYLOAD_SIZE_BYTES, MAX_COLLECTION_SIZE, MAX_HEX_STRING_LENGTH} \subseteq Nat
    /\ {MaxEntryBytes, MAP_ENTRY_BYTES, VEC_ITEM_BYTES, MaxParses} \subseteq Nat /\ Deadlines \subseteq Nat

VARIABLES
    metrics,        \* [totalParses, successfulParses, rejectedParses, errorsByType, maxDepthReached, maxPayloadSizeSeen]
    parsing,        \* the item of a payload between secureParseScVal() and secureScValToString()
    parseOutcomes   \* what the calls returned

parservars == <<metrics, parsing, parseOutcomes>>

Malformed == [kind |-> "malformed", bytes |-> 0, items |-> <<>>]
NotParsing == [kind |-> "none", bytes |-> 0, items |-> <<>>]

ErrorTypes == {"MAX_DEPTH_EXCEEDED", "MAX_PAYLOAD_SIZE_EXCEEDED", "MAX_PARSE_TIME_EXCEEDED",
               "MAX_COLLECTION_SIZE_EXCEEDED", "MAX_HEX_LENGTH_EXCEEDED", "MALFORMED_XDR"}

SecureInit ==
    /\ metrics = [totalParses |-> 0, successfulParses |-> 0, rejectedParses |-> 0,
                  errorsByType |-> [e \in ErrorTypes |-> 0], maxDepthReached |-> 0, maxPayloadSizeSeen |-> 0]
    /\ parsing = NotParsing /\ parseOutcomes = {}

-----------------------------------------------------------------------------
(* Contexts.  A run of a parser is [error, clock, deepest, most]: the      *)
(* error it threw, the checks of the clock left, and the statistics.       *)

createParsingContext(deadline) == [error |-> "none", clock |-> deadline, deepest |-> 0, most |-> 0]

larger(a, b) == IF a > b THEN a ELSE b
throw(run, e) == [run EXCEPT !.error = e]

checkTimeout(run) ==
    IF run.error # "none" THEN run
    ELSE IF run.clock = 0 THEN throw(run, "MAX_PARSE_TIME_EXCEEDED") ELSE [run EXCEPT !.clock = @ - 1]

enterLevel(run, depth) ==
    IF run.error # "none" THEN run
    ELSE IF depth > MAX_RECURSION_DEPTH THEN throw(run, "MAX_DEPTH_EXCEEDED")
    ELSE [run EXCEPT !.deepest = larger(@, depth)]

trackAllocation(run, total) ==
    IF run.error # "none" THEN run
    ELSE IF total > MAX_PAYLOAD_SIZE_BYTES THEN throw(run, "MAX_PAYLOAD_SIZE_EXCEEDED")
    ELSE [run EXCEPT !.most = larger(@, total)]

validateCollectionSize(run, size) ==
    IF run.error = "none" /\ size > MAX_COLLECTION_SIZE THEN throw(run, "MAX_COLLECTION_SIZE_EXCEEDED") ELSE run

entriesOf(v) == IF v.kind = "map" THEN Len(v.items) \div 2 ELSE Len(v.items)
collectionBytes(v) == entriesOf(v) * (IF v.kind = "map" THEN MAP_ENTRY_BYTES ELSE VEC_ITEM_BYTES)

RECURSIVE validateScValStructure(_, _, _, _), scValToStringInternal(_, _, _), validateUnlevelled(_, _, _, _)

\* The walk of a parsed value; the first error ends it.
validateScValStructure(v, run, depth, allocated) ==
    LET started == checkTimeout(run)
        sized == validateCollectionSize(started, entriesOf(v))
        total == allocated + collectionBytes(v)
        entered == enterLevel(trackAllocation(sized, total), depth + 1)
    IN  IF v.kind \in {"vec", "map"}
        THEN FoldLeft(LAMBDA r, item : IF r.error # "none" THEN r
                                       ELSE validateScValStructure(item, r, depth + 1, total),
                      entered, v.items)
        ELSE trackAllocation(started, allocated + v.bytes)

\* Regression: children are checked in the context of their parent.
validateUnlevelled(v, run, depth, allocated) ==
    LET started == checkTimeout(run)
        total == allocated + collectionBytes(v)
        entered == enterLevel(trackAllocation(validateCollectionSize(started, entriesOf(v)), total), depth + 1)
    IN  IF v.kind \in {"vec", "map"}
        THEN FoldLeft(LAMBDA r, item : IF r.error # "none" THEN r ELSE validateUnlevelled(item, r, depth, total),
                      entered, v.items)
        ELSE trackAllocation(started, allocated + v.bytes)

scValToStringInternal(v, run, depth) ==
    LET started == checkTimeout(run)
        entered == enterLevel(validateCollectionSize(started, entriesOf(v)), depth + 1)
    IN  IF v.kind \in {"vec", "map"}
        THEN FoldLeft(LAMBDA r, item : IF r.error # "none" THEN r ELSE scValToStringInternal(item, r, depth + 1),
                      entered, v.items)
        ELSE started

-----------------------------------------------------------------------------
(* Parsers                                                               *)

\* The body of secureParseScVal(): length, the allocation of the input, the count of the
\* header, the parse and the walk.
parseScVal(hex, run) ==
    LET sized == IF run.error = "none" /\ hex.chars > MAX_HEX_STRING_LENGTH
                 THEN throw(run, "MAX_HEX_LENGTH_EXCEEDED") ELSE run
        counted == validateCollectionSize(trackAllocation(sized, hex.chars \div 2), hex.count)
    IN  IF counted.error # "none" THEN counted
        ELSE IF hex.value = Malformed THEN throw(counted, "MALFORMED_XDR")
        ELSE validateScValStructure(hex.value, counted, 0, hex.chars \div 2)

\* Regression: an entry that cannot be read ends the section.
parseSpecEntriesStop(payload) ==
    LET bad == {n \in DOMAIN payload : ~payload[n].whole \/ ~payload[n].valid}
    IN  IF bad = {} THEN payload ELSE SubSeq(payload, 1, (CHOOSE n \in bad : \A m \in bad : n <= m) - 1)

\* The entries read of a section: up to the first that is cut off, without those that
\* fromXDR() refuses.
parseSpecEntries(payload) ==
    LET cut == {n \in DOMAIN payload : ~payload[n].whole}
        upTo == IF cut = {} THEN Len(payload) ELSE (CHOOSE n \in cut : \A m \in cut : n <= m) - 1
    IN  SelectSeq(SubSeq(payload, 1, upTo), LAMBDA e : e.valid)

\* Each entry is checked for time, its length, and for the number of entries so far.
specRun(payload, deadline) ==
    LET start == trackAllocation(checkTimeout(createParsingContext(deadline)),
                                 FoldLeft(LAMBDA n, e : n + (IF e.whole THEN e.len ELSE 0) + 4, 0, payload))
        entry(r, n) ==
            IF r.error # "none" \/ \E m \in 1 .. n - 1 : ~payload[m].whole THEN r
            ELSE IF checkTimeout(r).error = "none" /\ payload[n].len > MaxEntryBytes THEN throw(r, "MALFORMED_XDR")
            ELSE validateCollectionSize(checkTimeout(r), Len(parseSpecEntries(SubSeq(payload, 1, n))))
    IN  FoldLeft(entry, start, [n \in DOMAIN payload |-> n])

-----------------------------------------------------------------------------
(* Calls                                                                 *)

\* Regression: what is rejected is not counted by type.
recordParseUntyped(m, run) ==
    [m EXCEPT !.totalParses = @ + 1,
              !.successfulParses = IF run.error = "none" THEN @ + 1 ELSE @,
              !.rejectedParses = IF run.error = "none" THEN @ ELSE @ + 1]

recordParse(m, run) ==
    [m EXCEPT !.totalParses = @ + 1,
              !.successfulParses = IF run.error = "none" THEN @ + 1 ELSE @,
              !.rejectedParses = IF run.error = "none" THEN @ ELSE @ + 1,
              !.errorsByType = [e \in ErrorTypes |-> @[e] + (IF e = run.error THEN 1 ELSE 0)],
              !.maxDepthReached = larger(@, run.deepest),
              !.maxPayloadSizeSeen = larger(@, run.most)]

\* safeParseXdr(): the clock is checked before the parser runs.
safeParseXdr(run) == metrics' = recordParse(metrics, run)

mayParse == metrics.totalParses < MaxParses

\* An item of secureDecodeEventPayload(): a value that is refused reads as the message of its error.
secureParseScVal(hex, deadline) ==
    /\ mayParse /\ parsing = NotParsing
    /\ LET run == parseScVal(hex, checkTimeout(createParsingContext(deadline)))
       IN  /\ safeParseXdr(run)
           /\ parsing' = IF run.error = "none" THEN hex.value ELSE NotParsing
           /\ parseOutcomes' = {[call |-> "parse", hex |-> hex, error |-> run.error]}

\* The rest of the item, in a context of its own.
secureScValToString(deadline) ==
    /\ parsing # NotParsing
    /\ LET run == scValToStringInternal(parsing, checkTimeout(createParsingContext(deadline)), 0)
       IN  /\ safeParseXdr(run)
           /\ parseOutcomes' = {[call |-> "convert", value |-> parsing, error |-> run.error]}
    /\ parsing' = NotParsing

\* The section of a contract: its outcome is recorded twice, the second time in a context
\* that has seen nothing.
secureParseSpecEntries(payload, deadline) ==
    /\ mayParse /\ parsing = NotParsing
    /\ LET run == specRun(payload, deadline)
       IN  /\ metrics' = recordParse(recordParse(metrics, run), [createParsingContext(0) EXCEPT !.error = run.error])
           /\ parseOutcomes' = {[call |-> "spec", payload |-> payload, error |-> run.error,
                                 entries |-> IF run.error = "none" THEN parseSpecEntries(payload) ELSE <<>>]}
    /\ UNCHANGED parsing

SecureNext ==
    \E deadline \in Deadlines :
        \/ \E hex \in HexInputs : secureParseScVal(hex, deadline)
        \/ secureScValToString(deadline)
        \/ \E payload \in SpecPayloads : secureParseSpecEntries(payload, deadline)

SecureSpec == SecureInit /\ [][SecureNext]_parservars

-----------------------------------------------------------------------------
(* Properties                                                            *)

\* Positions of a tree as sequences of indices.
RECURSIVE PositionsOf(_)
PositionsOf(v) == {<<>>} \cup UNION {{<<k>> \o p : p \in PositionsOf(v.items[k])} : k \in DOMAIN v.items}

\* The nodes from the root down to a position.
PathOf(v, position) ==
    LET node[n \in 0 .. Len(position)] == IF n = 0 THEN v ELSE node[n - 1].items[position[n]]
    IN  [n \in 1 .. Len(position) + 1 |-> node[n - 1]]

\* A value fits when along every path of its tree the collections nest no deeper than the
\* limit, and what they and the leaf take, with the input's own bytes, is no more than a
\* payload may take; items side by side share nothing.
Fits(hex) ==
    \A position \in PositionsOf(hex.value) :
        LET path == PathOf(hex.value, position)
            collections == SelectSeq(path, LAMBDA v : v.kind \in {"vec", "map"})
            taken == FoldLeft(LAMBDA n, v : n + (IF v.kind \in {"vec", "map"} THEN collectionBytes(v) ELSE v.bytes),
                              hex.chars \div 2, path)
        IN  /\ Len(collections) <= MAX_RECURSION_DEPTH /\ taken <= MAX_PAYLOAD_SIZE_BYTES
            /\ \A n \in DOMAIN collections : entriesOf(collections[n]) <= MAX_COLLECTION_SIZE

\* A value is accepted if and only if it fits, unless time ran out; what was accepted is
\* converted without falling back, unless time ran out then.
AcceptedIffFits ==
    \A o \in parseOutcomes :
        /\ o.call = "parse" /\ o.error # "MAX_PARSE_TIME_EXCEEDED" =>
              (o.error = "none" <=> /\ o.hex.value # Malformed /\ o.hex.chars <= MAX_HEX_STRING_LENGTH
                                    /\ o.hex.count <= MAX_COLLECTION_SIZE /\ Fits(o.hex))
        /\ o.call = "convert" => o.error \in {"none", "MAX_PARSE_TIME_EXCEEDED"}

\* The counters of the metrics add up however calls end.
MetricsAddUp ==
    /\ metrics.totalParses = metrics.successfulParses + metrics.rejectedParses
    /\ metrics.rejectedParses = FoldLeft(LAMBDA n, e : n + metrics.errorsByType[e], 0, SetToSeq(ErrorTypes))

\* A section that is read gives every entry that can be read before its end or its first
\* cut, in order: entries that cannot be read hide none after them.
EntriesAreWhole ==
    \A o \in parseOutcomes : o.call = "spec" /\ o.error = "none" =>
        \A n \in DOMAIN o.payload :
            (o.payload[n].valid /\ \A m \in 1 .. n : o.payload[m].whole)
                => \E k \in DOMAIN o.entries :
                     /\ o.entries[k] = o.payload[n]
                     /\ k = Cardinality({m \in 1 .. n : o.payload[m].valid})
=============================================================================
