-------------------------- MODULE ContractDecoders --------------------------
(***************************************************************************)
(* Decoding of a contract's own types by its specification on the chain:   *)
(* lib/translator/udt-decoder.ts, with its cache of type maps and the walk *)
(* through the WASM binary.  A contract may be upgraded between the two    *)
(* answers a specification takes, and while another call fetches it.       *)
(*                                                                         *)
(* A byte holds one bit of a LEB128 group here instead of seven, so a byte *)
(* is 0 .. 3 and 2 marks that the number goes on.                          *)
(***************************************************************************)
EXTENDS Naturals, Sequences, FiniteSets, SequencesExt, Integers

CONSTANTS
    UdtContracts,
    Binaries,       \* contract -> its versions: sequences of sections [id, name, body]
    specOf,         \* body of a specification -> the definitions secureParseSpecEntries() reads in it, in order
    UdtValues,      \* values to decode: [kind, entries, items]; secureParseScVal() refuses those of kind "refused"
    MaxUdtCalls, MaxUdtFaults

TARGET_SECTION == <<1, 3, 1>>   \* "contractSpecV0"

\* A definition is [name, kind, cases]; a case is [name, void].
ASSUME UdtDecoderAssumption ==
    /\ {MaxUdtCalls, MaxUdtFaults} \subseteq Nat
    /\ \A c \in UdtContracts : Binaries[c] # <<>>

VARIABLES
    version,      \* the version of each contract now
    SPEC_CACHE,   \* contract -> [types, of]: the type map, and the version it is of
    cacheMetrics, \* [hits, misses]
    udtCalls,     \* calls waiting for an answer: [no, contract, value, type, at, hash, began]
    udtAnswers,   \* what calls returned
    specRefused,  \* history: <<contract, version>> whose section the parser refused
    udtCount, udtFaults

udtvars == <<version, SPEC_CACHE, cacheMetrics, udtCalls, udtAnswers, specRefused, udtCount, udtFaults>>

UdtInit ==
    /\ version = [c \in UdtContracts |-> 1]
    /\ SPEC_CACHE = <<>> /\ cacheMetrics = [hits |-> 0, misses |-> 0]
    /\ udtCalls = {} /\ udtAnswers = {} /\ specRefused = {} /\ udtCount = 0 /\ udtFaults = 0

-----------------------------------------------------------------------------
(* The binary                                                            *)

\* What a compiler writes: unsigned LEB128, least significant group first.
leb128 == [n \in 0 .. 63 |->
    LET groups[k \in 0 .. 63] == IF k < 2 THEN <<k>> ELSE <<2 + (k % 2)>> \o groups[k \div 2]
    IN  groups[n]]

sectionBytes(s) ==
    LET content == IF s.id = 0 THEN leb128[Len(s.name)] \o s.name \o s.body ELSE s.body
    IN  <<s.id>> \o leb128[Len(content)] \o content

\* Eight bytes of magic and version, then the sections.
binaryOf(sections) == <<0, 1, 2, 3, 1, 0, 0, 0>> \o FoldLeft(LAMBDA b, s : b \o sectionBytes(s), <<>>, sections)

\* Regression: the groups are taken most significant first.
readLeb128Big(buf, offset) ==
    LET size == 1 + Cardinality({n \in 1 .. Len(buf) - offset : \A m \in 1 .. n : buf[offset + m] >= 2})
        value[n \in 0 .. size] == IF n = 0 THEN 0 ELSE 2 * value[n - 1] + (buf[offset + n] % 2)
    IN  <<value[size], size>>

\* <<value, bytes read>> of the number at an offset (the first byte is at 0); it ends with the buffer.
readLeb128(buf, offset) ==
    LET marked == Cardinality({n \in 1 .. Len(buf) - offset : \A m \in 1 .. n : buf[offset + m] >= 2})
        size == IF offset + marked < Len(buf) THEN marked + 1 ELSE marked
        value[n \in 0 .. size] == IF n = 0 THEN 0 ELSE value[n - 1] + (buf[offset + n] % 2) * 2^(n - 1)
    IN  <<value[size], size>>

NotFound == <<9>>  \* no byte

\* Section after section from byte 8: the payload of the first custom section of that name.
extractSpecFromWasm(wasm) ==
    LET sliceOf(from, to) == SubSeq(wasm, from + 1, IF to < Len(wasm) THEN to ELSE Len(wasm))
        walk[n \in 0 .. Len(wasm)] ==
            LET offset == Len(wasm) - n
                section == readLeb128(wasm, offset + 1)
                body == offset + 1 + section[2]
                end == body + section[1]
                name == readLeb128(wasm, body)
                nameStart == body + name[2]
            IN  IF n = 0 THEN NotFound
                ELSE IF wasm[offset + 1] = 0 /\ sliceOf(nameStart, nameStart + name[1]) = TARGET_SECTION
                THEN sliceOf(nameStart + name[1], end)
                ELSE walk[IF end < Len(wasm) THEN Len(wasm) - end ELSE 0]
    IN  walk[Len(wasm) - 8]

\* The type map; a case of a union that is not void makes voidCase() throw, another kind of
\* entry is passed over, and a name defined again keeps its last definition.
buildTypeMap(definitions) ==
    LET udts == {n \in DOMAIN definitions : definitions[n].kind \in {"struct", "union"}}
        throws == \E n \in udts : definitions[n].kind = "union" /\ \E k \in DOMAIN definitions[n].cases : ~definitions[n].cases[k].void
        last(name) == CHOOSE n \in udts : definitions[n].name = name /\ \A m \in udts : definitions[m].name = name => m <= n
    IN  [ok |-> ~throws, types |-> IF throws THEN <<>>
                                   ELSE [name \in {definitions[n].name : n \in udts} |-> definitions[last(name)]]]

-----------------------------------------------------------------------------
(* Values                                                                *)

\* A struct reads a map field by field whatever its definition lists; a union reads a
\* vector as a variant and one value; any other shape is one value.
decodeScValWithType(value, typeName, types) ==
    IF typeName \notin DOMAIN types THEN [shape |-> "raw", fields |-> {}]
    ELSE IF types[typeName].kind = "struct" /\ value.kind = "map"
    THEN [shape |-> "struct",
          fields |-> {LET same == {m \in DOMAIN value.entries : value.entries[m][1] = value.entries[n][1]}
                      IN  value.entries[CHOOSE m \in same : \A k \in same : k <= m] : n \in DOMAIN value.entries}]
    ELSE IF types[typeName].kind = "union" /\ value.kind = "vec"
    THEN [shape |-> "union",
          fields |-> {<<"variant", IF value.items = <<>> THEN "unknown" ELSE value.items[1]>>} \cup
                     (IF Len(value.items) > 1 THEN {<<"value", value.items[2]>>} ELSE {})]
    ELSE [shape |-> "value", fields |-> {<<"value", value>>}]

\* decodeUdt() of a value the parser refuses is a message.
decodeWith(value, typeName, types) ==
    IF value.kind = "refused" THEN [shape |-> "error", fields |-> {}]
    ELSE decodeScValWithType(value, typeName, types)

-----------------------------------------------------------------------------
(* Calls                                                                 *)

AnswerCall(call, decoded) == {[no |-> call.no, contract |-> call.contract, value |-> call.value, type |-> call.type, decoded |-> decoded]}
Raw == [shape |-> "raw", fields |-> {}]

\* decodeUdt(): a hit answers at once, a miss asks for the contract's instance.
resolveTypeMap(c, value, typeName) ==
    /\ udtCount < MaxUdtCalls /\ udtCount' = udtCount + 1
    /\ LET call == [no |-> udtCount + 1, contract |-> c, value |-> value, type |-> typeName,
                    at |-> "instance", hash |-> 0, began |-> version[c]]
       IN  IF c \in DOMAIN SPEC_CACHE
           THEN /\ cacheMetrics' = [cacheMetrics EXCEPT !.hits = @ + 1]
                /\ udtAnswers' = udtAnswers \cup AnswerCall(call, decodeWith(value, typeName, SPEC_CACHE[c].types))
                /\ UNCHANGED udtCalls
           ELSE /\ cacheMetrics' = [cacheMetrics EXCEPT !.misses = @ + 1]
                /\ udtCalls' = udtCalls \cup {call} /\ UNCHANGED udtAnswers
    /\ UNCHANGED <<version, SPEC_CACHE, specRefused, udtFaults>>

\* The instance names the hash of the code, and the code is asked for.
InstanceAnswer(call) ==
    /\ call.at = "instance"
    /\ udtCalls' = (udtCalls \ {call}) \cup {[call EXCEPT !.at = "code", !.hash = version[call.contract]]}
    /\ UNCHANGED <<version, SPEC_CACHE, cacheMetrics, udtAnswers, specRefused, udtCount, udtFaults>>

\* A call gets its type map, which stays in the cache: of the calls that missed together, that
\* of the last.
Resolved(call, types) ==
    /\ SPEC_CACHE' = [c \in DOMAIN SPEC_CACHE \cup {call.contract} |->
                        IF c = call.contract THEN [types |-> types, of |-> call.hash] ELSE SPEC_CACHE[c]]
    /\ udtAnswers' = udtAnswers \cup AnswerCall(call, decodeWith(call.value, call.type, types))

\* Regression: the code is that of the contract as it is now.
CodeAnswerNow(call) ==
    /\ call.at = "code"
    /\ LET payload == extractSpecFromWasm(binaryOf(Binaries[call.contract][version[call.contract]]))
           map == IF payload = NotFound THEN [ok |-> FALSE, types |-> <<>>] ELSE buildTypeMap(specOf[payload])
       IN  IF map.ok THEN Resolved(call, map.types)
           ELSE udtAnswers' = udtAnswers \cup AnswerCall(call, Raw) /\ UNCHANGED SPEC_CACHE
    /\ udtCalls' = udtCalls \ {call}
    /\ UNCHANGED <<version, cacheMetrics, specRefused, udtCount, udtFaults>>

\* The code: its section is found, read, kept and used.
CodeAnswer(call) ==
    /\ call.at = "code"
    /\ LET payload == extractSpecFromWasm(binaryOf(Binaries[call.contract][call.hash]))
           map == IF payload = NotFound THEN [ok |-> FALSE, types |-> <<>>] ELSE buildTypeMap(specOf[payload])
       IN  IF map.ok THEN Resolved(call, map.types)
           ELSE udtAnswers' = udtAnswers \cup AnswerCall(call, Raw) /\ UNCHANGED SPEC_CACHE
    /\ udtCalls' = udtCalls \ {call}
    /\ UNCHANGED <<version, cacheMetrics, specRefused, udtCount, udtFaults>>

\* parseSpecEntries(): the parser refuses the section, which is over a limit or takes too long.
\* That is a section without entries, whose map is kept like any other.
SectionRefused(call) ==
    /\ call.at = "code" /\ udtFaults < MaxUdtFaults /\ udtFaults' = udtFaults + 1
    /\ extractSpecFromWasm(binaryOf(Binaries[call.contract][call.hash])) # NotFound
    /\ Resolved(call, buildTypeMap(<<>>).types)
    /\ specRefused' = specRefused \cup {<<call.contract, call.hash>>}
    /\ udtCalls' = udtCalls \ {call}
    /\ UNCHANGED <<version, cacheMetrics, udtCount>>

\* No entry, not a WASM contract, or the node fails: the value is shown as it is.
SpecUnavailable(call) ==
    /\ udtFaults < MaxUdtFaults /\ udtFaults' = udtFaults + 1
    /\ udtAnswers' = udtAnswers \cup AnswerCall(call, Raw)
    /\ udtCalls' = udtCalls \ {call}
    /\ UNCHANGED <<version, SPEC_CACHE, cacheMetrics, specRefused, udtCount>>

\* update_current_contract_wasm
Upgrade(c) ==
    /\ version[c] < Len(Binaries[c]) /\ version' = [version EXCEPT ![c] = @ + 1]
    /\ UNCHANGED <<SPEC_CACHE, cacheMetrics, udtCalls, udtAnswers, specRefused, udtCount, udtFaults>>

UdtNext ==
    \/ \E c \in UdtContracts : \/ Upgrade(c)
                               \/ \E value \in UdtValues : \E typeName \in {"S", "U"} : resolveTypeMap(c, value, typeName)
    \/ \E call \in udtCalls : \/ InstanceAnswer(call) \/ CodeAnswer(call)
                               \/ SectionRefused(call) \/ SpecUnavailable(call)

UdtSpec == UdtInit /\ [][UdtNext]_udtvars

-----------------------------------------------------------------------------
(* Properties                                                            *)

\* The specification a binary was built with: the body of its first section of that name.
BuiltWith(sections) ==
    LET named == {n \in DOMAIN sections : sections[n].id = 0 /\ sections[n].name = TARGET_SECTION}
    IN  IF named = {} THEN NotFound ELSE sections[CHOOSE n \in named : \A m \in named : n <= m].body

\* A map that is cached is that of one version of the contract, found in its binary whatever
\* sections stand around it, or an empty one because the parser refused that version's section;
\* an empty one is kept as long as any.  What could not be had or throws is not cached, and
\* the next call tries again.
CachedIsOfAVersion ==
    \A c \in DOMAIN SPEC_CACHE :
        LET kept == SPEC_CACHE[c]
            body == BuiltWith(Binaries[c][kept.of])
        IN  /\ kept.of <= version[c] /\ body # NotFound
            /\ \/ buildTypeMap(specOf[body]).ok /\ kept.types = buildTypeMap(specOf[body]).types
               \/ <<c, kept.of>> \in specRefused /\ kept.types = <<>>

\* Every call counts as a hit or a miss, and misses are answered once each.
CallsAreCounted ==
    /\ cacheMetrics.hits + cacheMetrics.misses = udtCount
    /\ Cardinality(udtCalls) + Cardinality(udtAnswers) = udtCount

\* A struct keeps every field of its map, whatever its definition names.
StructIsWhole ==
    \A a \in udtAnswers : a.decoded.shape = "struct" =>
        {f[1] : f \in a.decoded.fields} = {a.value.entries[n][1] : n \in DOMAIN a.value.entries}

-----------------------------------------------------------------------------
(***************************************************************************)
(* What is shown of an event no blueprint knows:                           *)
(* lib/translator/generic-fallback-decoder.ts.                             *)
(*                                                                         *)
(* A payload is a sequence of words of 32 values; the integers of 64, 128  *)
(* and 256 bits take 2, 3 and 4 of them, a key KeyWords, and a byte of     *)
(* text one.                                                               *)
(***************************************************************************)

CONSTANTS
    Contents,      \* what events carry: [d, number], [d, text], [d, key] or [d, items], d the discriminant
    Cuts,          \* how many words at the end of a payload may be missing
    KeyWords,
    MaxText,       \* characters of a string that are shown
    MaxItems       \* items of a collection that are described

ASSUME GenericDecoderAssumption == Cuts \subseteq Nat /\ {KeyWords, MaxText, MaxItems} \subseteq Nat \ {0}

VARIABLES genericEvent, \* [content, cut]: the event shown
          genericShown, \* its decoded value
          genericDescription

genericvars == <<genericEvent, genericShown, genericDescription>>

Word == 32
SignedTypes == {4, 6, 10, 12}
widthOf(d) == CASE d \in {3, 4} -> 1 [] d \in {5, 6, 7, 8} -> 2 [] d \in {9, 10} -> 3 [] d \in {11, 12} -> 4

-----------------------------------------------------------------------------
(* Payloads: the XDR of a value, whose collections carry a flag before     *)
(* their length.                                                           *)

RECURSIVE xdrOf(_)
xdrOf(content) ==
    LET d == content.d
    IN  CASE d \in 3 .. 12 ->
                LET n == IF content.number < 0 THEN content.number + Word^widthOf(d) ELSE content.number
                IN  <<d>> \o [k \in 1 .. widthOf(d) |-> (n \div Word^(widthOf(d) - k)) % Word]
          [] d \in {13, 14, 15} -> <<d, Len(content.text)>> \o content.text
          [] d \in {16, 17} -> <<d, 1, Len(content.items)>> \o FlattenSeq([k \in DOMAIN content.items |-> xdrOf(content.items[k])])
          [] d = 18 -> <<d, content.kind>> \o content.key
          [] OTHER -> <<d>>

-----------------------------------------------------------------------------
(* Decoding                                                              *)

Marked(mark) == [type |-> "marked", mark |-> mark]
Unknown == Marked("hex")

\* A slice past the end of the payload is shorter.
slice(words, from, to) == SubSeq(words, from, IF to < Len(words) THEN to ELSE Len(words))

\* Regression: the smallest negative number is taken as positive.
signedOfHalf(value, width) == IF value > Word^width \div 2 THEN value - Word^width ELSE value

signedOf(value, width) == IF value >= Word^width \div 2 THEN value - Word^width ELSE value

\* decodeU32 .. decodeI256; of an empty slice BigInt() throws and parseInt() is not a number.
decodeNumber(d, words) ==
    LET digits == slice(words, 2, 1 + widthOf(d))
        value == FoldLeft(LAMBDA n, w : n * Word + w, 0, digits)
    IN  IF digits = <<>> THEN Unknown
        ELSE [type |-> "number", number |-> IF d \in SignedTypes THEN signedOf(value, widthOf(d)) ELSE value]

\* decodeBytes: what there is of the bytes.
decodeBytes(words) == [type |-> "text", text |-> slice(words, 3, IF Len(words) < 2 THEN 2 ELSE 2 + words[2])]

\* Regression: a text that is cut off is shown as far as it goes.
decodeTextCut(words) ==
    LET data == decodeBytes(words).text
    IN  [type |-> "text", text |-> IF words[1] = 14 THEN slice(data, 1, MaxText) ELSE data]

\* decodeString, decodeSymbol
decodeText(words) ==
    LET data == decodeBytes(words).text
    IN  IF Len(words) >= 2 /\ Len(words) < 2 + words[2] THEN Marked("invalid length")
        ELSE [type |-> "text", text |-> IF words[1] = 14 THEN slice(data, 1, MaxText) ELSE data]

decodeScAddress(words) ==
    IF Len(words) >= 2 + KeyWords /\ words[2] \in {0, 1}
    THEN [type |-> "key", kind |-> words[2], key |-> SubSeq(words, 3, 2 + KeyWords)]
    ELSE Marked("unknown address")

RECURSIVE decodeScValFromHex(_)

\* Each element is read one word after the one before, whatever that one took.
decodeVec(words) ==
    LET length == IF Len(words) < 2 THEN 0 ELSE words[2]
        count == IF length < Len(words) - 2 THEN length ELSE Len(words) - 2
    IN  [type |-> "items", items |-> [k \in 1 .. count |-> decodeScValFromHex(SubSeq(words, 2 + k, Len(words)))]]

\* A key and its value are read one word apart; a key without a value ends the map.
decodeMap(words) ==
    LET length == IF Len(words) < 2 THEN 0 ELSE words[2]
        whole == (Len(words) - 2) \div 2
        count == IF length < whole THEN length ELSE whole
        at(n) == decodeScValFromHex(SubSeq(words, 2 + n, Len(words)))
    IN  [type |-> "items", items |-> FlattenSeq([k \in 1 .. count |-> <<at(2 * k - 1), at(2 * k)>>])]

decodeScValFromHex(words) ==
    IF words = <<>> THEN Unknown
    ELSE LET d == words[1]
         IN  CASE d \in {0, 2} -> IF Len(words) < 2 THEN Unknown ELSE [type |-> "number", number |-> words[2]]
               [] d = 1 -> Marked("void")
               [] d \in 3 .. 12 -> decodeNumber(d, words)
               [] d = 13 -> decodeBytes(words)
               [] d \in {14, 15} -> decodeText(words)
               [] d = 16 -> decodeVec(words)
               [] d = 17 -> decodeMap(words)
               [] d = 18 -> decodeScAddress(words)
               [] OTHER -> Unknown

\* The first items of a collection, and whether there are more.
formatGenericValue(decoded) ==
    IF decoded.type = "items"
    THEN [shown |-> slice(decoded.items, 1, MaxItems), more |-> Len(decoded.items) > MaxItems]
    ELSE [shown |-> <<decoded>>, more |-> FALSE]

-----------------------------------------------------------------------------

NoGenericEvent == [content |-> [d |-> 1], cut |-> 0]

GenericInit ==
    /\ genericEvent = NoGenericEvent /\ genericShown = Marked("void") /\ genericDescription = formatGenericValue(Marked("void"))

\* decodeGenericEventPayload() of an event
decodeGenericEventPayload(content, cut) ==
    /\ genericEvent' = [content |-> content, cut |-> cut]
    /\ LET words == xdrOf(content)
           decoded == decodeScValFromHex(SubSeq(words, 1, Len(words) - cut))
       IN  genericShown' = decoded /\ genericDescription' = formatGenericValue(decoded)

GenericNext == \E content \in Contents : \E cut \in Cuts :
    cut < Len(xdrOf(content)) /\ decodeGenericEventPayload(content, cut)

GenericSpec == GenericInit /\ [][GenericNext]_genericvars

-----------------------------------------------------------------------------
(* Properties                                                            *)

\* A scalar is shown as what it is: integers of every width with their sign, texts whole
\* or cut at the length of the display, addresses with their kind and key.  Of a payload
\* whose end is missing neither a text nor an address is shown as if it were whole.
ScalarsAreThemselves ==
    LET content == genericEvent.content
        d == content.d
    IN  /\ genericEvent.cut = 0 =>
              /\ d \in 3 .. 12 => genericShown = [type |-> "number", number |-> content.number]
              /\ d = 14 => genericShown = [type |-> "text", text |-> slice(content.text, 1, MaxText)]
              /\ d \in {13, 15} => genericShown = [type |-> "text", text |-> content.text]
              /\ d = 18 => genericShown = [type |-> "key", kind |-> content.kind, key |-> content.key]
        /\ genericEvent.cut > 0 /\ genericEvent.cut <= Len(xdrOf(content)) - 2 /\ d \in {14, 15, 18} => genericShown.type = "marked"
=============================================================================
