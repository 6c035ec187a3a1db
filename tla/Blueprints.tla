----------------------------- MODULE Blueprints -----------------------------
(***************************************************************************)
(* Blueprints written by users: the ABIs uploaded to the dashboard         *)
(* (lib/translator/custom-abi.ts, the handlers of DashboardClient.tsx and  *)
(* the preview of SandboxClient.tsx) and the specifications of the CLI     *)
(* (lib/translator/blueprint-spec.ts).                                     *)
(*                                                                         *)
(* The ABIs are kept in localStorage, which the tabs of a browser share; a *)
(* tab translates with the list it had when it last read or wrote it.      *)
(***************************************************************************)
EXTENDS Naturals, Sequences, FiniteSets, SequencesExt

CONSTANTS
    Tabs,
    AbiFiles,   \* files: [contract, records]; a record is [name, kind, fields], kind "none" if it has no
                \* type, a field is a type, or "bad" if it is no object
    UserEvents, \* events: [contract, topics, data]
    decodedNameOf, namesIn,  \* topic -> the event name it decodes to, or "unknown"; the names whose letters it holds
    SpecFiles,  \* specifications: sequences of [name, topics, template, fields, wellTyped]: a matcher
                \* is [index, name], a field [name, source, index], 0 if the file gives none
    ContractIds,
    MaxUploads

ASSUME BlueprintsAssumption ==
    /\ MaxUploads \in Nat
    /\ \A f \in AbiFiles : f.contract \in ContractIds /\ f.records \in Seq(Range(f.records))
    /\ \A s \in SpecFiles : s \in Seq(Range(s))

VARIABLES
    storedAbis,    \* the list in localStorage
    customAbisOf,  \* tab -> its state: a list of [contract, events]
    shownAbiEvent, \* the last event shown: [tab, event, result]
    previewed,     \* the last specification tried: [spec, event, matches, result], result <<>> for null
    uploads,
    lastKept,      \* history: contract -> the events last written for it, <<>> for none
    lastDone       \* history: tab -> contract -> what the tab itself last did: [done, events]

blueprintvars == <<storedAbis, customAbisOf, shownAbiEvent, previewed, uploads, lastKept, lastDone>>

NotDone == [done |-> "nothing", events |-> <<>>]

BlueprintsInit ==
    /\ storedAbis = <<>> /\ customAbisOf = [t \in Tabs |-> <<>>]
    /\ shownAbiEvent = <<>> /\ previewed = <<>> /\ uploads = 0
    /\ lastKept = [c \in ContractIds |-> <<>>]
    /\ lastDone = [t \in Tabs |-> [c \in ContractIds |-> NotDone]]

-----------------------------------------------------------------------------
(* Custom ABIs                                                           *)

\* filter(): what a list has at some of its places, in their order.
elementsAt(list, places) ==
    [k \in 1 .. Cardinality(places) |->
        list[CHOOSE n \in places : Cardinality({m \in places : m < n}) = k - 1]]

\* Records that are not tagged as something else; fields that are no objects leave their place.
eventsOf(file) ==
    LET events == elementsAt(file.records, {n \in DOMAIN file.records : file.records[n].kind \in {"none", "event"}})
        fieldsOfRecord(r) == elementsAt(r.fields, {k \in DOMAIN r.fields : r.fields[k] # "bad"})
    IN  [n \in DOMAIN events |-> [name |-> events[n].name, fields |-> fieldsOfRecord(events[n])]]

withoutContract(abis, c) == elementsAt(abis, {n \in DOMAIN abis : abis[n].contract # c})

\* What saveCustomAbi() returns.  Regression: it starts from the list of the tab.
saveCustomAbiOwn(t, abi) == Append(withoutContract(customAbisOf[t], abi.contract), abi)

saveCustomAbi(t, abi) == Append(withoutContract(storedAbis, abi.contract), abi)

removeCustomAbi(c) == withoutContract(storedAbis, c)

\* The write may be refused by the browser: the tab goes on as if it were not.
persist(t, next, c, events, isWritten) ==
    /\ customAbisOf' = [customAbisOf EXCEPT ![t] = next]
    /\ storedAbis' = IF isWritten THEN next ELSE storedAbis
    /\ lastKept' = IF isWritten THEN [lastKept EXCEPT ![c] = events] ELSE lastKept
    /\ lastDone' = [lastDone EXCEPT ![t][c] = [done |-> IF events = <<>> THEN "remove" ELSE "upload", events |-> events]]
    /\ UNCHANGED <<shownAbiEvent, previewed>>

\* A file without an event is refused by parseCustomAbi().
UploadAbi(t, file, isWritten) ==
    /\ uploads < MaxUploads /\ uploads' = uploads + 1
    /\ eventsOf(file) # <<>>
    /\ LET abi == [contract |-> file.contract, events |-> eventsOf(file)]
       IN  persist(t, saveCustomAbi(t, abi), abi.contract, abi.events, isWritten)

RemoveAbi(t, c, isWritten) ==
    /\ \E n \in DOMAIN customAbisOf[t] : customAbisOf[t][n].contract = c
    /\ persist(t, removeCustomAbi(c), c, <<>>, isWritten)
    /\ UNCHANGED uploads

\* The dashboard mounts again.
loadCustomAbis(t) ==
    /\ customAbisOf' = [customAbisOf EXCEPT ![t] = storedAbis]
    /\ lastDone' = [lastDone EXCEPT ![t] = [c \in ContractIds |-> NotDone]]
    /\ UNCHANGED <<storedAbis, shownAbiEvent, previewed, uploads, lastKept>>

matchesAbiEvent(topic, name) == decodedNameOf[topic] = name \/ name \in namesIn[topic]

\* The first definition that matches: its fields read the topics after the first, then the data.
translateWithAbi(events, event) ==
    LET topic == event.topics[1]
        matching == {n \in DOMAIN events : matchesAbiEvent(topic, events[n].name)}
        matched == CHOOSE n \in matching : \A m \in matching : n <= m
        positions == Append(Tail(event.topics), event.data)
    IN  IF matching = {} THEN <<>>
        ELSE <<[name |-> events[matched].name,
                values |-> [k \in DOMAIN events[matched].fields |-> IF k \in DOMAIN positions THEN positions[k] ELSE "0x00"]]>>

\* buildCustomBlueprints(): the tab's ABI of the contract, if it has one.
ShowEvent(t, event) ==
    /\ \E n \in DOMAIN customAbisOf[t] :
          /\ customAbisOf[t][n].contract = event.contract
          /\ shownAbiEvent' = [tab |-> t, event |-> event, result |-> translateWithAbi(customAbisOf[t][n].events, event)]
    /\ UNCHANGED <<storedAbis, customAbisOf, previewed, uploads, lastKept, lastDone>>

-----------------------------------------------------------------------------
(* Specifications                                                        *)

validateBlueprintSpec(spec) ==
    spec # <<>> /\ \A n \in DOMAIN spec : spec[n].wellTyped /\ spec[n].fields # <<>>

matchesEvent(event, eventSpec) ==
    \A k \in DOMAIN eventSpec.topics :
        LET m == eventSpec.topics[k]
        IN  m.index \in DOMAIN event.topics /\ decodedNameOf[event.topics[m.index]] = m.name

\* Regression: matches() looks at the first definition only.
blueprintMatchesFirst(spec, event) ==
    (\E n \in DOMAIN spec : spec[n].topics # <<>>) => matchesEvent(event, spec[1])

\* matches() of the blueprint; without a matcher in the file it has none, and is asked for any event.
blueprintMatches(spec, event) ==
    (\E n \in DOMAIN spec : spec[n].topics # <<>>) => \E n \in DOMAIN spec : matchesEvent(event, spec[n])

\* A field of a topic without an index reads the data; the last field of a name is the one filled in.
paramsOf(event, fields) ==
    [name \in {fields[k].name : k \in DOMAIN fields} |->
        LET named == {k \in DOMAIN fields : fields[k].name = name}
            f == fields[CHOOSE k \in named : \A j \in named : j <= k]
        IN  IF f.source = "topic" /\ f.index # 0
            THEN (IF f.index \in DOMAIN event.topics THEN event.topics[f.index] ELSE "unknown")
            ELSE event.data]

\* interpolate(): placeholders of no field stay.
translateSpec(spec, event) ==
    LET matching == {n \in DOMAIN spec : matchesEvent(event, spec[n])}
        matched == spec[CHOOSE n \in matching : \A m \in matching : n <= m]
        params == paramsOf(event, matched.fields)
    IN  IF matching = {} THEN <<>>
        ELSE <<[name |-> matched.name,
                description |-> [k \in DOMAIN matched.template |->
                    IF matched.template[k] \in DOMAIN params THEN params[matched.template[k]] ELSE matched.template[k]]]>>

\* What the CLI does with a file and a sample event.
TrySpec(spec, event) ==
    /\ validateBlueprintSpec(spec)
    /\ previewed' = [spec |-> spec, event |-> event, matches |-> blueprintMatches(spec, event),
                     result |-> translateSpec(spec, event)]
    /\ UNCHANGED <<storedAbis, customAbisOf, shownAbiEvent, uploads, lastKept, lastDone>>

-----------------------------------------------------------------------------

BlueprintsNext ==
    \/ \E t \in Tabs : \/ loadCustomAbis(t)
                       \/ \E isWritten \in BOOLEAN : \/ \E file \in AbiFiles : UploadAbi(t, file, isWritten)
                                                   \/ \E c \in ContractIds : RemoveAbi(t, c, isWritten)
                       \/ \E event \in UserEvents : ShowEvent(t, event)
    \/ \E spec \in SpecFiles : \E event \in UserEvents : TrySpec(spec, event)

BlueprintsSpec == BlueprintsInit /\ [][BlueprintsNext]_blueprintvars

-----------------------------------------------------------------------------
(* Properties                                                            *)

\* What a list has for a contract.
heldFor(abis, c) == {abis[n].events : n \in {m \in DOMAIN abis : abis[m].contract = c}}

\* What is stored is, for every contract, what was last written for it by whichever tab, once:
\* a tab that saves or removes one ABI undoes nothing another tab did to another.
StoredIsLastKept ==
    /\ \A n, m \in DOMAIN storedAbis : storedAbis[n].contract = storedAbis[m].contract => n = m
    /\ \A c \in ContractIds : heldFor(storedAbis, c) = {lastKept[c]} \ {<<>>}

\* Until a tab saves or removes another ABI, it translates with the one it uploaded last even
\* if the browser refused to keep it, and with none for the contract it removed last.
OwnWorkIsUsed ==
    \A t \in Tabs : \A c \in ContractIds :
        (\A d \in ContractIds \ {c} : lastDone[t][d] = NotDone) =>
            /\ lastDone[t][c].done = "upload" => heldFor(customAbisOf[t], c) = {lastDone[t][c].events}
            /\ lastDone[t][c].done = "remove" => heldFor(customAbisOf[t], c) = {}

\* matches() and translate() of one specification agree on every event, so the registry picks
\* no blueprint that then says nothing; and what is described is filled in from the event.
SpecsDescribeWhatTheyMatch ==
    previewed # <<>> =>
        /\ previewed.matches <=> previewed.result # <<>>
        /\ previewed.result # <<>> =>
              LET described == previewed.result[1]
                  names == {n \in DOMAIN previewed.spec : previewed.spec[n].name = described.name}
              IN  \E n \in names : \A k \in DOMAIN described.description :
                    \/ described.description[k] = previewed.spec[n].template[k]
                       /\ \A f \in DOMAIN previewed.spec[n].fields : previewed.spec[n].fields[f].name # described.description[k]
                    \/ described.description[k] \in Range(previewed.event.topics) \cup {previewed.event.data, "unknown"}

\* An event is shown under a name it carries, with its own topics and data in their order;
\* only fields past its data read zero.
ShownFromTheEvent ==
    shownAbiEvent # <<>> => \A n \in DOMAIN shownAbiEvent.result :
        LET event == shownAbiEvent.event
            seen == shownAbiEvent.result[n]
            own == Append(Tail(event.topics), event.data)
        IN  /\ matchesAbiEvent(event.topics[1], seen.name)
            /\ \A k \in DOMAIN seen.values : seen.values[k] = IF k \in DOMAIN own THEN own[k] ELSE "0x00"

BlueprintsSafety == StoredIsLastKept /\ OwnWorkIsUsed /\ SpecsDescribeWhatTheyMatch /\ ShownFromTheEvent
=============================================================================
