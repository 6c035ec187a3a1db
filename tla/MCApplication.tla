---------------------------- MODULE MCApplication ----------------------------
(* Model-checking instance of everything of one process, one browser tab or *)
(* one function: the worker's publisher, webhooks, the sandbox, the pages,  *)
(* the stores behind the API, the decoders, the engines of the DAG and of   *)
(* the DSL, and the proofs.  They share no state with each other here, so a *)
(* behaviour takes the steps of one of them, chosen at first ("part").      *)
EXTENDS Application, EventPublisher, SandboxRunner, SecureParser,
        ContractDecoders, XdrDecoders, SorobanDsl, InclusionProof,
        Exports

CONSTANT Parts  \* the components checked
VARIABLE part   \* the component the behaviour is about

ServerVars == <<pubvars, hookvars, sandboxvars>>
PageVars == <<dashvars, listvars, xlatvars, searchvars, graphvars, ipfsvars,
    toastvars, dagpanelvars>>
DataVars == <<gqlvars, parservars, udtvars, capvars, columnvars, genericvars,
    blueprintvars, xdrvars>>
PureVars == <<dagvars, source, tokens, evalvars, proofvars, auditvars, exportvars>>
mcvars == <<part, ServerVars, PageVars, DataVars, PureVars>>

-----------------------------------------------------------------------------
(* Values of the constants.                                                *)

\* One contract with two subscriptions.
MCContractOf == [s \in Subscriptions |-> "contract"]
MCWasmPath == [x1 |-> "a", x2 |-> "a", x3 |-> "b"]

\* Three events on pages of one; rows of the bridge that share a time of creation.
DashEvent(c, t) == [contract |-> c, type |-> t]
MCInitialFeed == <<DashEvent("c1", "mint"), DashEvent("c2", "mint"), DashEvent("c1", "burn")>>
MCArriving == {DashEvent("c2", "burn")}
MCMockEvents == <<DashEvent("c1", "burn")>>
MCCreatedAt == <<1, 2, 2, 2, 3, 4>>
MCStatusOf == <<"matched", "matched", "pending", "matched", "matched", "pending">>

\* Two sets of events for the search index, and queries with a stop word, a capital and the keywords.
MCDocument(c, w) == [contract |-> c, words |-> w]
MCEventSets ==
    [e1 |-> <<MCDocument("c1", <<"mint", "to", "Ann">>), MCDocument("c2", <<"to", "bob">>),
              MCDocument("c1", <<"mint", "bob", "swap">>)>>,
     e2 |-> <<MCDocument("c2", <<"swap", "bob">>), MCDocument("c1", <<"mint">>)>>]
MCMarked(w, m) == [word |-> w, mark |-> m]
MCSearches ==
    {<<>>, <<Plain("swap"), Plain("bob")>>, <<Plain("mint"), MCMarked("bob", "!")>>,
     <<Plain("Ann"), MCMarked("or", "capitals"), Plain("swap")>>, <<Plain("to"), Plain("bob")>>}

\* Events that mention contracts, accounts and a topic too short for an address.
MCGraphEvent(c, a, t) == [contract |-> c, addresses |-> a, type |-> t]
MCGraphEvents ==
    {MCGraphEvent("k1", <<"a1", "a2">>, "send"), MCGraphEvent("k1", <<>>, "ping"),
     MCGraphEvent("k2", <<"a1">>, "send"), MCGraphEvent("k1", <<"tx", "a2">>, "send"),
     MCGraphEvent("k2", <<"k1", "a3">>, "ping"), MCGraphEvent("k1", <<"a1", "a1">>, "send")}

MCRawFields == << <<"big", "small">>, <<"large", "big">> >>
MCDagOf == [t1 |-> "graph", t2 |-> "no_events"]

MCBuiltIn == <<"b">>

\* Rows of built-in and registered contracts, two of which share a short name.
MCRow(c, t, n, p) == [contract |-> c, type |-> t, topics |-> n, persisted |-> p]
MCStoredRows ==
    <<MCRow("b", "Transfer", 3, FALSE), MCRow("x", "Other", 2, FALSE), MCRow("b", "Burn", 2, FALSE),
      MCRow("b", "Transfer", 3, TRUE), MCRow("y", "Other", 1, FALSE)>>
MCGraphQueries == {[limit |-> 3, selects |-> 1], [limit |-> 3, selects |-> 3]}
MCShortIdOf == [b |-> "p", x |-> "q", y |-> "q"]

\* Values nested up to three deep, against a limit of two; a header that counts too many
\* items, bytes that are no value, and a string that is too long.
MCLeaf(n) == [kind |-> "bytes", bytes |-> n, items |-> <<>>]
MCVec(s) == [kind |-> "vec", bytes |-> 0, items |-> s]
MCMap(s) == [kind |-> "map", bytes |-> 0, items |-> s]
MCFlat == {MCLeaf(12), MCVec(<<MCLeaf(2), MCLeaf(3)>>), MCVec(<<MCLeaf(1), MCLeaf(1), MCLeaf(1)>>)}
MCNested == MCFlat \cup {MCVec(<<a, b>>) : a, b \in MCFlat} \cup {MCMap(<<a, MCVec(<<b>>)>>) : a, b \in MCFlat}
MCHexInputs ==
    {[chars |-> 2, count |-> IF v.kind = "bytes" THEN 0 ELSE entriesOf(v), value |-> v] : v \in MCNested}
    \cup {[chars |-> 2, count |-> n, value |-> Malformed] : n \in {0, 3}}
    \cup {[chars |-> 9, count |-> 0, value |-> MCLeaf(1)]}
MCEntry(l, v, w) == [len |-> l, valid |-> v, whole |-> w]
MCSpecPayloads ==
    {<<MCEntry(1, TRUE, TRUE), MCEntry(1, FALSE, TRUE), MCEntry(0, TRUE, TRUE), MCEntry(1, TRUE, FALSE)>>,
     <<MCEntry(1, TRUE, TRUE), MCEntry(1, TRUE, TRUE), MCEntry(1, TRUE, TRUE)>>,
     <<MCEntry(2, FALSE, TRUE), MCEntry(9, TRUE, TRUE)>>}

\* Versions of two contracts: a struct, the same after other sections, a union, none.
MCSection(name, body) == [id |-> 0, name |-> name, body |-> body]
MCCode(body) == [id |-> 1, name |-> <<>>, body |-> body]
MCBinaries ==
    [k1 |-> << <<MCCode(<<0, 1, 2, 0, 3>>), MCSection(TARGET_SECTION, <<1>>)>>,
               <<MCSection(<<1>>, <<0>>), MCCode(<<0, 3, 1, 3, 1, 1, 3, 1, 0>>),
                 MCSection(TARGET_SECTION, <<2, 0>>), MCSection(TARGET_SECTION, <<>>)>> >>,
     k2 |-> << <<MCCode(<<>>), MCSection(<<1, 3>>, <<1, 1>>)>>, <<MCSection(TARGET_SECTION, <<3>>)>> >>]
MCDefinition(n, k, cs) == [name |-> n, kind |-> k, cases |-> cs]
MCSpecOf ==
    (<<1>> :> <<MCDefinition("S", "struct", <<>>), MCDefinition("F", "function", <<>>)>>) @@
    (<<2, 0>> :> <<MCDefinition("S", "struct", <<>>), MCDefinition("U", "union", <<[name |-> "A", void |-> TRUE]>>)>>) @@
    (<<3>> :> <<MCDefinition("U", "union", <<[name |-> "A", void |-> FALSE]>>)>>) @@ (<<>> :> <<>>)
MCUdtValues ==
    {[kind |-> "map", entries |-> << <<"a", 1>>, <<"b", 2>> >>, items |-> <<>>],
     [kind |-> "vec", entries |-> <<>>, items |-> <<"A", 3>>],
     [kind |-> "refused", entries |-> <<>>, items |-> <<>>]}

\* Ledger metas: the sequence number behind the header and elsewhere, events that an
\* accessor and a field both lead to, and a cycle.
MCNode(num, c, x, m, h, b, v) ==
    [num |-> num, contract |-> c, xdr |-> x, methods |-> m, headers |-> h, branches |-> b, values |-> v]
MCPlain(h, b, v) == MCNode(0, "-", "-", <<>>, h, b, v)
MCNumber(n) == MCNode(n, "-", "-", <<>>, <<>>, <<>>, <<>>)
MCEvent(c, x) == MCNode(0, c, x, <<>>, <<>>, <<>>, <<>>)
MCMeta(n, second) ==
    <<MCPlain(<<2>>, <<2>>, <<2>>), MCPlain(<<3>>, <<6>>, <<5, 3, 6>>), MCNode(0, "-", "-", <<4>>, <<>>, <<>>, <<5, 4>>),
      MCNumber(n), MCNumber(99), MCPlain(<<>>, <<7, 8>>, <<8, 7>>), MCEvent("k1", "x1"), second, MCEvent("k1", "x3")>>
MCMetas ==
    (<<0, 1>> :> MCMeta(1, MCEvent("k2", "x2"))) @@
    (<<3>> :> <<MCPlain(<<>>, <<>>, <<2>>), MCPlain(<<>>, <<1>>, <<3, 4>>), MCEvent("k2", "x4"), MCEvent("k2", "x4")>>) @@
    (<<>> :> <<MCPlain(<<>>, <<>>, <<>>)>>) @@
    (<<1, 0, 2, 1>> :> MCMeta(4, MCPlain(<<>>, <<9>>, <<>>)))
MCXdrMessages == << <<0, 1>>, <<3>>, <<>>, <<1, 0, 2, 1>> >>

\* Three back-fills of up to three rows, one of them without a time.
MCChunksOf == [p1 |-> << <<"a1", "a2">>, <<"a3">> >>, p2 |-> << <<"b1", "b2", "b3">> >>, p3 |-> << <<"c1">> >>]

\* Integers at the ends of their types, texts, keys and collections of two.
MCIntegers ==
    {[d |-> d, number |-> n] : d \in {3, 5, 7, 8, 9, 11}, n \in {0, 1, 31}} \cup
    {[d |-> 4, number |-> n] : n \in {-16, -1, 15}} \cup {[d |-> 6, number |-> n] : n \in {-512, -1, 0, 511}} \cup
    {[d |-> 10, number |-> n] : n \in {-16384, -1, 16383}} \cup {[d |-> 12, number |-> n] : n \in {-524288, -1, 524287}}
MCTexts == {[d |-> d, text |-> t] : d \in {13, 14, 15}, t \in {<<>>, <<5>>, <<16, 3, 7>>}}
MCKeys == {[d |-> 18, kind |-> k, key |-> <<4, 9>>] : k \in {0, 1}}
MCContents ==
    MCIntegers \cup MCTexts \cup MCKeys \cup {[d |-> 1], [d |-> 20]} \cup
    {[d |-> d, items |-> <<a, b>>] : d \in {16, 17}, a \in MCTexts, b \in MCKeys}

\* Numbers that share a half, collections missing and empty, strings that differ in what is
\* not UTF-8, in each encoding; base64 of three words needs no padding.
MCXdrText(f, v, n, s) == [form |-> f, value |-> v, words |-> n, signs |-> s]
MCSome(x) == <<x>>
MCXdrSymbol == <<"Symbol", <<"mint">> >>
MCXdrMap == << <<MCXdrSymbol, <<"U32", 3>> >> >>
MCXdrVec == <<"Vec", MCSome(<< <<"Vec", <<>> >>, <<"Map", MCSome(MCXdrMap)>> >>)>>
MCXdrTexts ==
    {MCXdrText("hex", <<"I128", hi, 3>>, 5, FALSE) : hi \in {-1, 0}} \cup
    {MCXdrText(f, MCXdrSymbol, 3, FALSE) : f \in {"prefixed", "hex", "base64"}} \cup
    {MCXdrText("prefixed", <<"String", <<b, "a">> >>, 3, FALSE) : b \in {"fe", "ff"}} \cup
    {MCXdrText("prefixed", NotXdr, 1, FALSE), MCXdrText("hex", MCXdrVec, 8, FALSE),
     MCXdrText("prefixed", <<"Vec", <<>> >>, 2, FALSE), MCXdrText("base64", <<"Vec", MCSome(<<>>)>>, 3, TRUE),
     MCXdrText("base64", <<"ContractInstance", "wasm", MCSome(MCXdrMap)>>, 17, FALSE)}

\* Files with untyped, skipped and shadowed records; specifications with and without
\* topics, one of them with a field of the wrong type.
MCAbiRecord(n, k, f) == [name |-> n, kind |-> k, fields |-> f]
MCAbiFiles ==
    {[contract |-> "c1", records |-> <<MCAbiRecord("pay", "none", <<"address", "bad", "amount">>),
                                       MCAbiRecord("mint", "function", <<>>)>>],
     [contract |-> "c1", records |-> <<MCAbiRecord("mint", "event", <<"amount">>)>>],
     [contract |-> "c2", records |-> <<MCAbiRecord("x", "struct", <<>>)>>]}
MCUserEvents ==
    {[contract |-> "c1", topics |-> <<"t-pay", "a">>, data |-> "d"],
     [contract |-> "c2", topics |-> <<"t-repay">>, data |-> "d"]}
MCDecodedNameOf == [t \in {"t-pay", "t-repay", "a"} |-> IF t = "t-pay" THEN "pay" ELSE "unknown"]
MCNamesIn == [t \in {"t-pay", "t-repay", "a"} |-> IF t = "a" THEN {} ELSE {"pay"}]
MCSpecEvent(n, ts, tm, fs, w) == [name |-> n, topics |-> ts, template |-> tm, fields |-> fs, wellTyped |-> w]
MCSpecField(n, s, i) == [name |-> n, source |-> s, index |-> i]
MCSpecFiles ==
    {<<>>,
     <<MCSpecEvent("Any", <<>>, <<"from", "to">>, <<MCSpecField("from", "topic", 2), MCSpecField("from", "topic", 0)>>, TRUE)>>,
     <<MCSpecEvent("Mint", <<[index |-> 1, name |-> "mint"]>>, <<"x">>, <<MCSpecField("x", "data", 0)>>, TRUE),
       MCSpecEvent("Pay", <<[index |-> 1, name |-> "pay"]>>, <<"who", "x">>, <<MCSpecField("who", "topic", 2)>>, TRUE)>>,
     <<MCSpecEvent("Bad", <<>>, <<>>, <<MCSpecField("x", "data", 0)>>, FALSE)>>}

\* Characters of strings, numbers and comments; programs over the ends of the range.
MCCharacters == {"a", "0", ".", "/", "=", "&", "\"", "\\", "\n"}
MCMinI128 == -12
MCAtoms ==
    {<<"lit", <<"int", -12>> >>, <<"lit", <<"int", -1>> >>, <<"lit", <<"int", 1>> >>,
     <<"lit", <<"bool", FALSE>> >>, <<"var", "x">>, <<"var", "y">>}
MCOuterContext == [x |-> <<"vec", << <<"int", 0>>, <<"address", <<"G", "A">> >> >> >>]

\* Ledgers of one to six transactions, some of which failed.
MCLedger(t, f) == [txs |-> t, failed |-> f]
MCProofLedgers ==
    <<MCLedger(<<3>>, {}), MCLedger(<<4, 1>>, {}), MCLedger(<<2, 5, 1>>, {}), MCLedger(<<5, 2, 4, 1, 3>>, {}),
      MCLedger(<<1, 2, 3, 4, 5, 6>>, {}), MCLedger(<<6, 4, 2, 3, 1>>, {1, 4}), MCLedger(<<1, 2>>, {1})>>

\* Events with a separator, a quote and an end of line in their texts, one without a type and
\* one that no blueprint translates; requests of every format, limit and range.
MCExportEvent(l, c, ty, to, tr, te) ==
    [ledger |-> l, contract |-> c, type |-> ty, topic |-> to, translated |-> tr, text |-> te]
MCCatalogue ==
    <<MCExportEvent(7, <<"c1">>, << <<"a", ",", "b">> >>, <<>>, TRUE, << <<"said", "quote", "x", "quote">> >>),
      MCExportEvent(5, <<"c1">>, <<>>, << <<"swap", "LF">> >>, FALSE, << <<"raw">> >>),
      MCExportEvent(5, <<"c2">>, <<>>, <<>>, TRUE, <<>>)>>
MCExportRequest(f, n, c, s, e) == [format |-> f, limit |-> n, contract |-> c, start |-> s, end |-> e]
MCExportRequests ==
    {MCExportRequest("csv", 0, <<>>, 0, 0), MCExportRequest("json", 2, <<"c1">>, 6, 0), MCExportRequest("json", 9, <<>>, 0, 5),
     MCExportRequest("ndjson", 1, <<"c3">>, 0, 0), MCExportRequest("csv", 9, <<>>, 9, 0), MCExportRequest("xml", 1, <<>>, 0, 0)}

-----------------------------------------------------------------------------
(* The sum of the components.                                              *)

MCInit ==
    /\ part \in Parts
    /\ PubInit /\ HookInit /\ SandboxInit /\ DashInit /\ ListInit
    /\ XlatInit /\ SearchInit /\ GraphInit /\ IpfsInit /\ ToastInit /\ DagPanelInit
    /\ GraphQLInit /\ SecureInit /\ UdtInit /\ CapInit /\ ColumnInit /\ GenericInit
    /\ BlueprintsInit /\ DagInit /\ LexerInit /\ ParserInit /\ EvalInit /\ ProofInit
    /\ AuditInit /\ XdrInit /\ ExportInit
    /\ part # "proof" => selected = <<1, 1>>
    /\ part # "xdr" => built

PublisherSteps == part = "publisher" /\ UNCHANGED <<part, PageVars, DataVars,
    PureVars, hookvars, sandboxvars>>
HookSteps == part = "webhooks" /\ UNCHANGED <<part, PageVars, DataVars, PureVars,
    pubvars, sandboxvars>>
SandboxSteps == part = "sandbox" /\ UNCHANGED <<part, PageVars, DataVars, PureVars,
    pubvars, hookvars>>
DashboardSteps == part = "dashboard" /\ UNCHANGED <<part, ServerVars, DataVars,
    PureVars, listvars, xlatvars, searchvars, graphvars, ipfsvars, toastvars,
    dagpanelvars>>
BridgeFeedSteps == part = "bridgeFeed" /\ UNCHANGED <<part, ServerVars, DataVars,
    PureVars, dashvars, xlatvars, searchvars, graphvars, ipfsvars, toastvars,
    dagpanelvars>>
TranslatorSteps == part = "translator" /\ UNCHANGED <<part, ServerVars, DataVars,
    PureVars, dashvars, listvars, searchvars, graphvars, ipfsvars, toastvars,
    dagpanelvars>>
SearchSteps == part = "search" /\ UNCHANGED <<part, ServerVars, DataVars, PureVars,
    dashvars, listvars, xlatvars, graphvars, ipfsvars, toastvars, dagpanelvars>>
GraphSteps == part = "graph" /\ UNCHANGED <<part, ServerVars, DataVars, PureVars,
    dashvars, listvars, xlatvars, searchvars, ipfsvars, toastvars, dagpanelvars>>
IpfsSteps == part = "ipfs" /\ UNCHANGED <<part, ServerVars, DataVars, PureVars,
    dashvars, listvars, xlatvars, searchvars, graphvars, toastvars, dagpanelvars>>
ToastSteps == part = "toasts" /\ UNCHANGED <<part, ServerVars, DataVars, PureVars,
    dashvars, listvars, xlatvars, searchvars, graphvars, ipfsvars, dagpanelvars>>
DagPanelSteps == part = "dagPanel" /\ UNCHANGED <<part, ServerVars, DataVars,
    PureVars, dashvars, listvars, xlatvars, searchvars, graphvars, ipfsvars,
    toastvars>>
GraphQLSteps == part = "graphql" /\ UNCHANGED <<part, ServerVars, PageVars, PureVars,
    parservars, udtvars, capvars, columnvars, genericvars, blueprintvars, xdrvars>>
ParserSteps == part = "parser" /\ UNCHANGED <<part, ServerVars, PageVars, PureVars,
    gqlvars, udtvars, capvars, columnvars, genericvars, blueprintvars, xdrvars>>
UdtSteps == part = "udt" /\ UNCHANGED <<part, ServerVars, PageVars, PureVars, gqlvars,
    parservars, capvars, columnvars, genericvars, blueprintvars, xdrvars>>
CaptiveSteps == part = "captive" /\ UNCHANGED <<part, ServerVars, PageVars, PureVars,
    gqlvars, parservars, udtvars, columnvars, genericvars, blueprintvars, xdrvars>>
ColumnSteps == part = "columns" /\ UNCHANGED <<part, ServerVars, PageVars, PureVars,
    gqlvars, parservars, udtvars, capvars, genericvars, blueprintvars, xdrvars>>
GenericSteps == part = "generic" /\ UNCHANGED <<part, ServerVars, PageVars, PureVars,
    gqlvars, parservars, udtvars, capvars, columnvars, blueprintvars, xdrvars>>
BlueprintSteps == part = "blueprints" /\ UNCHANGED <<part, ServerVars, PageVars,
    PureVars, gqlvars, parservars, udtvars, capvars, columnvars, genericvars, xdrvars>>
XdrSteps == part = "xdr" /\ UNCHANGED <<part, ServerVars, PageVars, PureVars, gqlvars,
    parservars, udtvars, capvars, columnvars, genericvars, blueprintvars>>
DagSteps == part = "dag" /\ UNCHANGED <<part, ServerVars, PageVars, DataVars, source,
    tokens, evalvars, proofvars, auditvars, exportvars>>
LexerSteps == part = "lexer" /\ UNCHANGED <<part, ServerVars, PageVars, DataVars,
    dagvars, tokens, evalvars, proofvars, auditvars, exportvars>>
DslSteps == part = "dsl" /\ UNCHANGED <<part, ServerVars, PageVars, DataVars, dagvars,
    source, evalvars, proofvars, auditvars, exportvars>>
EvalSteps == part = "eval" /\ UNCHANGED <<part, ServerVars, PageVars, DataVars,
    dagvars, source, tokens, proofvars, auditvars, exportvars>>
ProofSteps == part = "proof" /\ UNCHANGED <<part, ServerVars, PageVars, DataVars,
    dagvars, source, tokens, evalvars, auditvars, exportvars>>
AuditSteps == part = "audit" /\ UNCHANGED <<part, ServerVars, PageVars, DataVars,
    dagvars, source, tokens, evalvars, proofvars, exportvars>>
ExportSteps == part = "exports" /\ UNCHANGED <<part, ServerVars, PageVars, DataVars,
    dagvars, source, tokens, evalvars, proofvars, auditvars>>

MCNext ==
    \/ PublisherSteps /\ PubNext
    \/ HookSteps /\ HookNext
    \/ SandboxSteps /\ SandboxNext
    \/ DashboardSteps /\ DashNext
    \/ BridgeFeedSteps /\ ListNext
    \/ TranslatorSteps /\ XlatNext
    \/ SearchSteps /\ SearchNext
    \/ GraphSteps /\ GraphNext
    \/ IpfsSteps /\ IpfsNext
    \/ ToastSteps /\ ToastNext
    \/ DagPanelSteps /\ DagPanelNext
    \/ GraphQLSteps /\ GraphQLNext
    \/ ParserSteps /\ SecureNext
    \/ UdtSteps /\ UdtNext
    \/ CaptiveSteps /\ CapNext
    \/ ColumnSteps /\ ColumnNext
    \/ GenericSteps /\ GenericNext
    \/ BlueprintSteps /\ BlueprintsNext
    \/ XdrSteps /\ XdrNext
    \/ DagSteps /\ DagNext
    \/ LexerSteps /\ LexerNext
    \/ DslSteps /\ ParserNext
    \/ EvalSteps /\ EvalNext
    \/ ProofSteps /\ ProofNext
    \/ AuditSteps /\ AuditNext
    \/ ExportSteps /\ ExportNext

\* The fairness of PubSpec, SandboxSpec and DashSpec; the others state none.  What
\* is fair moves the variables of its component alone.
MCFairness ==
    /\ WF_pubvars(part = "publisher" /\ Ready) /\ WF_pubvars(part = "publisher" /\ Flush)
    /\ WF_pubvars(part = "publisher" /\ Deliver)
    /\ \A x \in Executions : WF_sandboxvars(part = "sandbox" /\ executeWithTimeout(x))
    /\ WF_dashvars(part = "dashboard" /\ Navigate)
    /\ WF_dashvars(part = "dashboard" /\ (\E n \in DOMAIN fetches : Receive(n) \/ Aborted(n)))

MCSpec == MCInit /\ [][MCNext]_mcvars /\ MCFairness

-----------------------------------------------------------------------------
(* Properties: those of Application, and here those of the components that  *)
(* compute a result from their input, each of which is about one of them.   *)

\* A program of the DSL is read by its grammar and evaluated exactly, or refused.
DslSafety ==
    /\ part = "lexer" => TokensTileSource /\ RefusedForCause
    /\ part = "dsl" => ParsesGrammar /\ LimitIsBrackets
    /\ part = "eval" => ExactOrRefused /\ AmountKeepsValue /\ BudgetCountsNodes

\* What is decoded is what the payload says: limits refuse what is too large and nothing
\* else, a type's definition is its contract's, frames and events are found once, and a text
\* reads the same however often it is read.
DecodersSafety ==
    /\ part = "parser" => AcceptedIffFits /\ MetricsAddUp /\ EntriesAreWhole
    /\ part = "udt" => CachedIsOfAVersion /\ CallsAreCounted /\ StructIsWhole
    /\ part = "captive" => FramesAreMessages /\ EventsFoundOnce
    /\ part = "generic" => ScalarsAreThemselves
    /\ part = "xdr" => RefusalHasCause /\ ReadingTellsValues /\ ReadingIsStable

\* What is computed over a whole collection is about all of it: a verdict of the browser
\* about the whole ledger, the auditor's about its events, a search about every document, the
\* graph about every event kept, a download about every row asked for, and what a call of the
\* host cost about every call below it.
ResultsSafety ==
    /\ part = "proof" => VerdictIsRight /\ ProofSetIsWhole
    /\ part = "audit" => AuditBindsEvents
    /\ part = "search" => HitsAreConjunction
    /\ part = "graph" => LinksHaveEnds /\ ValIsMentions /\ FilterNarrows
    /\ part = "exports" => ExportSafety
    /\ part = "dag" => DagTypeOK /\ SelfCostIsOwn

\* What waits is answered: messages for Redis go out, executions settle and a page
\* arrives.
WaitingEnds == QueueDrains /\ RunSettles /\ PageArrives
=============================================================================
