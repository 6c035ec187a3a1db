----------------------------- MODULE XdrDecoders -----------------------------
(***************************************************************************)
(* What is read from XDR outside the parser: the stream of captive core,   *)
(* and the texts of the native binding.  The two share no state.           *)
(***************************************************************************)
EXTENDS Integers, Sequences, FiniteSets, SequencesExt

-----------------------------------------------------------------------------
(***************************************************************************)
(* From the bytes of captive core to events (lib/stellar/captive-core.ts): *)
(* the length-prefixed frames of its stream, which arrive in chunks of any *)
(* size, and the two walks over the decoded meta of a ledger that look for *)
(* its sequence and for its contract events.                               *)
(*                                                                         *)
(* A length takes HeaderBytes bytes, most significant first, of Base       *)
(* values each.  A decoded meta is a graph: the same object is reached     *)
(* through accessors and through the fields behind them.                   *)
(***************************************************************************)
CONSTANTS
    Metas,          \* payload -> its graph, a sequence of nodes, the root first: [num, contract,
                    \* xdr, methods, headers, branches, values]; num is 0 for no number,
                    \* contract NoContract for what is no event, the others sequences of nodes
    NoContract,
    XdrMessages,       \* the payloads core writes, in order
    HeaderBytes, Base,
    startLedger,
    contractIds,    \* contracts to keep, {} for all
    MaxSequenceDepth, MaxEventDepth

ASSUME CaptiveDecoderAssumption ==
    /\ startLedger \in Nat /\ HeaderBytes \in Nat \ {0} /\ Base \in Nat \ {0, 1}
    /\ \A n \in DOMAIN XdrMessages : XdrMessages[n] \in DOMAIN Metas /\ Len(XdrMessages[n]) < Base^HeaderBytes

VARIABLES
    written,       \* bytes of the stream that have arrived
    frameBuffer,   \* what the decoder holds
    frames,        \* payloads it gave out
    ledgersDecoded \* what was decoded of them: [sequence, events]

capvars == <<written, frameBuffer, frames, ledgersDecoded>>

-----------------------------------------------------------------------------
(* Frames                                                                *)

lengthBytes(n) == [k \in 1 .. HeaderBytes |-> (n \div Base^(HeaderBytes - k)) % Base]
readLength(b) == FoldLeft(LAMBDA n, k : Base * n + k, 0, SubSeq(b, 1, HeaderBytes))

Stream == FoldLeft(LAMBDA s, m : s \o lengthBytes(Len(m)) \o m, <<>>, XdrMessages)

\* Regression: a chunk gives at most one frame.
pushOnce(buffer) ==
    IF Len(buffer) < HeaderBytes \/ Len(buffer) < readLength(buffer) + HeaderBytes THEN [frames |-> <<>>, rest |-> buffer]
    ELSE [frames |-> <<SubSeq(buffer, HeaderBytes + 1, HeaderBytes + readLength(buffer))>>,
          rest |-> SubSeq(buffer, HeaderBytes + readLength(buffer) + 1, Len(buffer))]

\* Every whole frame of the buffer, and what is left.
push(buffer) ==
    LET take[n \in 0 .. Len(buffer)] ==
            IF n = 0 THEN [frames |-> <<>>, rest |-> buffer]
            ELSE LET before == take[n - 1]
                     size == IF Len(before.rest) < HeaderBytes THEN 0 ELSE readLength(before.rest)
                 IN  IF Len(before.rest) < HeaderBytes \/ Len(before.rest) < size + HeaderBytes THEN before
                     ELSE [frames |-> Append(before.frames, SubSeq(before.rest, HeaderBytes + 1, HeaderBytes + size)),
                           rest |-> SubSeq(before.rest, HeaderBytes + size + 1, Len(before.rest))]
    IN  take[Len(buffer)]

-----------------------------------------------------------------------------
(* Walks                                                                 *)

RECURSIVE inferFrom(_, _, _, _), collectFrom(_, _, _, _)

\* The first positive number below a node: the accessors of a sequence, then the headers,
\* then every field.  A walk is [found, visited].
inferFrom(graph, node, walk, depth) ==
    IF depth > MaxSequenceDepth \/ walk.found # 0 THEN walk
    ELSE IF graph[node].num > 0 THEN [walk EXCEPT !.found = graph[node].num]
    ELSE IF node \in walk.visited THEN walk
    ELSE FoldLeft(LAMBDA w, child : inferFrom(graph, child, w, depth + 1),
                  [walk EXCEPT !.visited = @ \cup {node}],
                  graph[node].methods \o graph[node].headers \o graph[node].values)

inferLedgerSequence(graph) == inferFrom(graph, 1, [found |-> 0, visited |-> {}], 0).found

\* The key of an event is its XDR, and its number that of the keys seen before it.
\* Regression: every event of a ledger is numbered by its contract's.
recordEventPerContract(walk, node, sequence) ==
    IF node.xdr \in walk.seen THEN walk
    ELSE [walk EXCEPT !.seen = @ \cup {node.xdr},
                      !.events = Append(@, [id |-> <<sequence, Len(SelectSeq(@, LAMBDA e : e.contract = node.contract))>>,
                                            contract |-> node.contract, xdr |-> node.xdr])]

recordEvent(walk, node, sequence) ==
    IF node.xdr \in walk.seen THEN walk
    ELSE [walk EXCEPT !.seen = @ \cup {node.xdr},
                      !.events = Append(@, [id |-> <<sequence, Cardinality(walk.seen)>>,
                                            contract |-> node.contract, xdr |-> node.xdr])]

\* A walk is [events, seen, visited, sequence].
collectFrom(graph, node, walk, depth) ==
    IF depth > MaxEventDepth \/ node \in walk.visited THEN walk
    ELSE LET kept == graph[node].contract # NoContract /\ (contractIds = {} \/ graph[node].contract \in contractIds)
             here == IF kept THEN recordEvent(walk, graph[node], walk.sequence) ELSE walk
         IN  FoldLeft(LAMBDA w, child : collectFrom(graph, child, w, depth + 1),
                      [here EXCEPT !.visited = @ \cup {node}], graph[node].branches \o graph[node].values)

collectContractEvents(graph, sequence) ==
    collectFrom(graph, 1, [events |-> <<>>, seen |-> {}, visited |-> {}, sequence |-> sequence], 0).events

\* A meta without a number takes the sequence after the last ledger's.
decodeLedgerCloseMetaFrame(payload, fallbackSequence) ==
    LET inferred == inferLedgerSequence(Metas[payload])
        sequence == IF inferred = 0 THEN fallbackSequence ELSE inferred
    IN  [sequence |-> sequence, events |-> collectContractEvents(Metas[payload], sequence)]

-----------------------------------------------------------------------------

CapInit == written = 0 /\ frameBuffer = <<>> /\ frames = <<>> /\ ledgersDecoded = <<>>

\* handleFrame(): a meta without a number gets the one after the last ledger's; lastLedger
\* starts at startLedger, so the first gets startLedger + 1.
fallbackAfter(ls) ==
    LET following == IF ls = <<>> THEN startLedger + 1 ELSE Last(ls).sequence + 1
    IN  IF following > startLedger THEN following ELSE startLedger

\* A chunk of stdout: its frames are handled in order.
Chunk(size) ==
    /\ written + size <= Len(Stream) /\ written' = written + size
    /\ LET pushed == push(frameBuffer \o SubSeq(Stream, written + 1, written + size))
       IN  /\ frameBuffer' = pushed.rest /\ frames' = frames \o pushed.frames
           /\ ledgersDecoded' =
                FoldLeft(LAMBDA ls, f : Append(ls, decodeLedgerCloseMetaFrame(f, fallbackAfter(ls))),
                         ledgersDecoded, pushed.frames)

CapNext == \E size \in 1 .. Len(Stream) : Chunk(size)

CapSpec == CapInit /\ [][CapNext]_capvars

-----------------------------------------------------------------------------
(* Properties                                                            *)

\* Whatever the chunks, the frames are the messages core wrote, each as soon as its last
\* byte has arrived, and the buffer holds the bytes of the one that is not whole.
FramesAreMessages ==
    LET whole == {n \in 0 .. Len(XdrMessages) :
                    FoldLeft(LAMBDA k, m : k + HeaderBytes + Len(m), 0, SubSeq(XdrMessages, 1, n)) <= written}
        count == CHOOSE n \in whole : \A m \in whole : m <= n
    IN  /\ frames = SubSeq(XdrMessages, 1, count)
        /\ FoldLeft(LAMBDA s, m : s \o lengthBytes(Len(m)) \o m, <<>>, frames) \o frameBuffer = SubSeq(Stream, 1, written)

\* The nodes within some number of steps of the root.
Within(graph, steps) ==
    LET reach[n \in 0 .. steps] ==
            IF n = 0 THEN {1}
            ELSE reach[n - 1] \cup UNION {Range(graph[k].branches \o graph[k].values) : k \in reach[n - 1]}
    IN  reach[steps]

\* The events of a decoded ledger are those of its meta within reach and of the contracts
\* kept, each once however many ways lead to it, numbered from 0 without a gap.
EventsFoundOnce ==
    \A n \in DOMAIN ledgersDecoded :
        LET graph == Metas[frames[n]]
            found == ledgersDecoded[n].events
            wanted == {k \in Within(graph, MaxEventDepth) :
                        graph[k].contract # NoContract /\ (contractIds = {} \/ graph[k].contract \in contractIds)}
        IN  /\ {found[k].xdr : k \in DOMAIN found} = {graph[k].xdr : k \in wanted}
            /\ \A k \in DOMAIN found : found[k].id = <<ledgersDecoded[n].sequence, k - 1>>
            /\ \A j, k \in DOMAIN found : found[j].xdr = found[k].xdr => j = k

-----------------------------------------------------------------------------
(***************************************************************************)
(* Values read from text: lib/native/xdr-binding.ts, which chooses between *)
(* the native addon of native/soroban-xdr-decode/src/lib.rs and a fallback *)
(* in TypeScript.                                                          *)
(*                                                                         *)
(* A value and its JSON are tuples that start with their type.  An         *)
(* optional collection is a sequence of at most one collection.  A text is *)
(* known by the value it encodes, how, and in how many 32-bit words.       *)
(***************************************************************************)
CONSTANTS
    XdrTexts,      \* [form, value, words, signs]: signs when the base64 has a "+" or a "/"
    Limb,          \* how many values a limb of 64 bits takes
    NotUtf8,       \* bytes of strings that are not UTF-8
    MaxTopics,     \* texts in one call
    MaxXdrCalls    \* calls of the binding

ASSUME XdrBindingAssumption ==
    /\ \A t \in XdrTexts : t.form \in {"prefixed", "hex", "base64"} /\ t.words \in Nat \ {0} /\ t.signs \in BOOLEAN
    /\ Limb \in Nat \ {0} /\ {MaxTopics, MaxXdrCalls} \subseteq Nat

VARIABLES
    built,       \* the binary is on disk
    addon,       \* _native and _loadAttempted: "untried", "loaded" or "absent"
    xdrCall,     \* [texts, answers, error]: the last call; error is 0 or the entry that made it throw
    readings     \* history: <<text, what it was read as>>

xdrvars == <<built, addon, xdrCall, readings>>

-----------------------------------------------------------------------------
(* What a value is to JavaScript.                                        *)

NotXdr == <<"NotXdr">>           \* bytes that are no value
Unread == <<"Error", "failed">>  \* an entry that could not be read

\* Regression: the low half is extended by its sign before the two are joined.
joinExtended(hi, lo) == IF lo >= Limb \div 2 THEN lo - Limb ELSE hi * Limb + lo

\* u128_to_string, i128_to_string
joinLimbs(hi, lo) == hi * Limb + lo

lossy(text) == [k \in DOMAIN text |-> IF text[k] \in NotUtf8 THEN "replaced" ELSE text[k]]

RECURSIVE scValToJson(_)

pairsOf(entries) == [k \in DOMAIN entries |-> <<scValToJson(entries[k][1]), scValToJson(entries[k][2])>>]

\* sc_val_to_json: a collection that is missing is shown as an empty one, storage that is
\* missing is left out.
scValToJson(val) ==
    LET type == val[1]
    IN  CASE type \in {"U128", "I128"} -> <<type, joinLimbs(val[2], val[3])>>
          [] type = "Bytes" -> <<type, val[2], Len(val[2])>>
          [] type = "String" -> <<type, lossy(val[2])>>
          [] type = "Vec" -> <<type, IF val[2] = <<>> THEN <<>> ELSE [k \in DOMAIN val[2][1] |-> scValToJson(val[2][1][k])]>>
          [] type = "Map" -> <<type, IF val[2] = <<>> THEN <<>> ELSE pairsOf(val[2][1])>>
          [] type = "ContractInstance" -> <<type, val[2]>> \o [k \in DOMAIN val[3] |-> pairsOf(val[3][k])]
          [] OTHER -> val

-----------------------------------------------------------------------------
(* Reading a text.                                                       *)

\* A base64 text ends in "=" unless its bytes come in threes.
hasBase64Char(text) == text.form = "base64" /\ (text.signs \/ (4 * text.words) % 3 # 0)

\* Regression: what is not marked as hex is taken for base64.
classifyMarked(text) == IF text.form = "prefixed" THEN "hex" ELSE "base64"

\* InputKind::classify
classify(text) == IF text.form # "prefixed" /\ hasBase64Char(text) THEN "base64" ELSE "hex"

\* decode_inner.  What is taken for the wrong encoding is either not of its alphabet or
\* starts with a discriminant no value has.
decodeInner(text) ==
    IF classify(text) = (IF text.form = "base64" THEN "base64" ELSE "hex") /\ text.value # NotXdr
    THEN scValToJson(text.value)
    ELSE Unread

\* fallbackDecodeScVal: everything without a prefix is base64, and every value is shown as
\* a string of its own XDR.
fallbackDecodeScVal(text) ==
    IF text.form \in {"prefixed", "base64"} /\ text.value # NotXdr THEN <<"String", <<"xdr", text.value>> >> ELSE Unread

-----------------------------------------------------------------------------
(* The binding.                                                          *)

NoXdrCall == [texts |-> <<>>, answers |-> <<>>, error |-> 0]

XdrInit == /\ built \in BOOLEAN /\ addon = "untried"
           /\ xdrCall = NoXdrCall /\ readings = {}

\* npm run build:native, or an image without the binary: the file comes and goes.
BuildNative == built' = ~built /\ UNCHANGED <<addon, xdrCall, readings>>

\* Regression: the addon is looked for at every call until it is found.
getNativeAgain == IF addon = "loaded" THEN addon ELSE IF built THEN "loaded" ELSE "absent"

\* getNative: the first call decides.
getNative == IF addon # "untried" THEN addon ELSE IF built THEN "loaded" ELSE "absent"

readText(text) == IF getNative = "loaded" THEN decodeInner(text) ELSE fallbackDecodeScVal(text)

\* Regression: the first entry that fails ends the batch.
answersOfCut(texts) ==
    LET failing == {k \in DOMAIN texts : readText(texts[k]) = Unread}
        whole == IF failing = {} THEN Len(texts) ELSE CHOOSE k \in failing : \A m \in failing : k <= m
    IN  [k \in 1 .. whole |-> readText(texts[k])]

answersOf(texts) == [k \in DOMAIN texts |-> readText(texts[k])]

firstFailure(texts) == SelectInSeq(texts, LAMBDA t : decodeInner(t) = Unread)

Returns(texts, answers, error) ==
    /\ Cardinality(readings) < MaxXdrCalls
    /\ addon' = getNative
    /\ xdrCall' = [texts |-> texts, answers |-> answers, error |-> error]
    /\ readings' = readings \cup {<<texts[k], answers[k]>> : k \in DOMAIN answers}
    /\ UNCHANGED built

\* batchDecode(): an entry that fails is an error in its place.
batchDecode(texts) == Returns(texts, answersOf(texts), 0)

\* decodeTopics(), and decodeScVal() for one text: the addon throws at the first entry that
\* fails, the fallback answers as for a batch.
decodeTopics(texts) ==
    LET error == IF getNative = "loaded" THEN firstFailure(texts) ELSE 0
    IN  Returns(texts, IF error = 0 THEN answersOf(texts) ELSE <<>>, error)

XdrNext ==
    \/ BuildNative
    \/ \E texts \in SeqOf(XdrTexts, MaxTopics) : batchDecode(texts) \/ decodeTopics(texts)

XdrSpec == XdrInit /\ [][XdrNext]_xdrvars

-----------------------------------------------------------------------------
(* Properties                                                            *)

\* A call answers every entry in its place or throws at the first that fails.  An entry
\* fails only if it is no value, or if its encoding cannot be told: for the addon base64
\* without a sign or a padding, for the fallback hex without a prefix.
RefusalHasCause ==
    LET untold(t) == IF addon = "loaded" THEN t.form = "base64" /\ ~t.signs /\ t.words % 3 = 0 ELSE t.form = "hex"
        fails(t) == t.value = NotXdr \/ untold(t)
        texts == xdrCall.texts
    IN  IF xdrCall.error = 0
        THEN /\ Len(xdrCall.answers) = Len(texts)
             /\ \A k \in DOMAIN texts : fails(texts[k]) <=> xdrCall.answers[k] = Unread
        ELSE /\ addon = "loaded" /\ fails(texts[xdrCall.error])
             /\ \A k \in 1 .. xdrCall.error - 1 : ~fails(texts[k])

\* The values JSON cannot tell apart: missing collections and empty ones, strings that
\* differ in bytes that are not UTF-8.
RECURSIVE shadow(_)
shadowPairs(entries) == [k \in DOMAIN entries |-> <<shadow(entries[k][1]), shadow(entries[k][2])>>]
shadow(val) ==
    CASE val[1] = "String" -> <<"String", lossy(val[2])>>
      [] val[1] = "Vec" -> <<"Vec", IF val[2] = <<>> THEN <<>> ELSE [k \in DOMAIN val[2][1] |-> shadow(val[2][1][k])]>>
      [] val[1] = "Map" -> <<"Map", IF val[2] = <<>> THEN <<>> ELSE shadowPairs(val[2][1])>>
      [] val[1] = "ContractInstance" -> <<val[1], val[2], [k \in DOMAIN val[3] |-> shadowPairs(val[3][k])]>>
      [] OTHER -> val

\* Two texts that are read alike hold the same value, but for what JSON cannot tell apart;
\* the two encodings of a value are read alike.
ReadingTellsValues == \A r, s \in readings :
    Unread \notin {r[2], s[2]} => (r[2] = s[2] <=>
        IF addon = "loaded" THEN shadow(r[1].value) = shadow(s[1].value) ELSE r[1].value = s[1].value)

\* A text is read the same way as long as the process lives, whatever happens to the
\* binary on disk meanwhile.
ReadingIsStable == \A r, s \in readings : r[1] = s[1] => r[2] = s[2]
=============================================================================
