------------------------------- MODULE GraphQL -------------------------------
(***************************************************************************)
(* The GraphQL endpoint: POST of app/api/graphql/route.ts, the complexity  *)
(* of lib/graphql/complexity.ts, the schema of lib/graphql/schema.ts that  *)
(* follows the contracts registered, its resolvers, and the pool of        *)
(* decoded addresses of lib/translator/core.ts their rows point into.      *)
(*                                                                         *)
(* A resolver awaits translateWithCache() for each row, so the resolvers   *)
(* of several requests, and of several fields of one, take turns.          *)
(***************************************************************************)
EXTENDS Naturals, Integers, Sequences, FiniteSets, SequencesExt

CONSTANTS
    BuiltIn, CustomContracts,  \* contracts of the registry at first, in order, and those clients register
    shortIdOf,                 \* the first 8 characters of a contract's name
    StoredRows,                \* the table of events, newest first: [contract, type, topics, persisted]
    GraphQueries,              \* [limit, selects]: see computeNodeComplexity
    ADDRESS_POOL_SIZE, maxComplexity, MaxPosts

ASSUME GraphQLAssumption ==
    /\ {maxComplexity, MaxPosts} \subseteq Nat /\ ADDRESS_POOL_SIZE \in Nat \ {0}
    /\ BuiltIn \in Seq(Range(BuiltIn)) /\ BuiltIn # <<>>
    /\ Range(BuiltIn) \cup CustomContracts \subseteq DOMAIN shortIdOf
    /\ StoredRows \in Seq(Range(StoredRows))
    /\ \A q \in GraphQueries : q.limit \in Int /\ q.selects \in Nat

VARIABLES
    customAbis,      \* SERVER_CUSTOM_ABIS: contracts, in the order they were registered
    cachedSchema,    \* NoSchema, or the fields [kind, id] -> contract whose rows they answer with
    translationCache,\* Redis: row -> the type it was translated to
    addressPool, addressPoolIndex,
    resolvers,       \* fields being resolved
    gqlAnswers,      \* what was answered
    gqlPosts

gqlvars == <<customAbis, cachedSchema, translationCache, addressPool, addressPoolIndex, resolvers, gqlAnswers, gqlPosts>>

NoSchema == <<>>

GraphQLInit ==
    /\ customAbis = <<>> /\ cachedSchema = NoSchema /\ translationCache = <<>>
    /\ addressPool = [k \in 0 .. ADDRESS_POOL_SIZE - 1 |-> <<>>] /\ addressPoolIndex = 0
    /\ resolvers = {} /\ gqlAnswers = {} /\ gqlPosts = 0

-----------------------------------------------------------------------------
(* The schema                                                            *)

\* What each field keeps of a page: the type and the topics it needs, and those that are addresses.
TransferField == [type |-> "Transfer", needs |-> 3, addresses |-> <<2, 3>>]
MintField == [type |-> "Mint", needs |-> 3, addresses |-> <<2, 3>>]
BurnField == [type |-> "Burn", needs |-> 2, addresses |-> <<2>>]
\* An event of a custom ABI, with one field that is an address; a topic that is missing reads 0x00.
CustomField == [type |-> "Custom", needs |-> 0, addresses |-> <<2>>]
StandardFields == {TransferField, MintField, BurnField}

\* The keys of the Map, by their places: a contract registered again keeps its place.
getRegisteredContracts(abis) ==
    LET ids == BuiltIn \o abis
    IN  {k \in DOMAIN ids : \A j \in DOMAIN ids : ids[j] = ids[k] => k <= j}

fieldsOf(abis, c) == IF c \in Range(abis) THEN {CustomField} ELSE StandardFields

\* Names end in the short id, so the fields of a later contract replace those of an earlier one.
buildSchema(abis) ==
    LET ids == BuiltIn \o abis
        named(n) == {k \in getRegisteredContracts(abis) : shortIdOf[ids[k]] = n.id /\ n.field \in fieldsOf(abis, ids[k])}
        names == {n \in [field : StandardFields \cup {CustomField}, id : Range(shortIdOf)] : named(n) # {}}
    IN  [n \in names |-> ids[CHOOSE k \in named(n) : \A j \in named(n) : j <= k]]

currentSchema == IF cachedSchema = NoSchema THEN buildSchema(customAbis) ELSE cachedSchema

\* Regression: the schema stays cached.
registerContractKeep(c) ==
    /\ customAbis' = IF c \in Range(customAbis) THEN customAbis ELSE Append(customAbis, c)
    /\ UNCHANGED <<cachedSchema, translationCache, addressPool, addressPoolIndex, resolvers, gqlAnswers, gqlPosts>>

registerContract(c) ==
    /\ customAbis' = IF c \in Range(customAbis) THEN customAbis ELSE Append(customAbis, c)
    /\ cachedSchema' = NoSchema
    /\ UNCHANGED <<translationCache, addressPool, addressPoolIndex, resolvers, gqlAnswers, gqlPosts>>

-----------------------------------------------------------------------------
(* The limit on a request                                                *)

Unset == -99   \* a limit given by a variable the request does not set

\* Regression: what is under a list counts once.
computeNodeComplexityOnce(q) == 1 + q.selects

\* One list field that selects q.selects scalars; without a limit it counts ten times,
\* with one given by a variable that is not set once.
computeNodeComplexity(q) ==
    LET limit == IF q.limit = Unset THEN 1 ELSE q.limit
    IN  1 + q.selects * limit

-----------------------------------------------------------------------------
(* Requests                                                              *)

\* Rows of findMany(): newest first, those of the contract, the first `take` of them; a
\* negative number takes from the end.
findMany(contract, take) ==
    LET rows == {n \in DOMAIN StoredRows : StoredRows[n].contract = contract}
        wanted == IF take >= 0 THEN take ELSE -take
        size == IF wanted < Cardinality(rows) THEN wanted ELSE Cardinality(rows)
    IN  [k \in 1 .. size |-> CHOOSE r \in rows :
            IF take >= 0 THEN Cardinality({m \in rows : m < r}) = k - 1
            ELSE Cardinality({m \in rows : m > r}) = size - k]

defaultLimit == 2   \* resolvers: limit = 10, scaled to the table

\* POST: too complex is refused before the schema is built.
PostQuery(q, name, contract) ==
    /\ gqlPosts < MaxPosts /\ gqlPosts' = gqlPosts + 1
    /\ computeNodeComplexity(q) <= maxComplexity
    /\ cachedSchema' = currentSchema
    /\ resolvers' = resolvers \cup
            {[no |-> gqlPosts + 1, name |-> name, query |-> q, contract |-> contract,
              page |-> findMany(contract, IF q.limit = Unset THEN defaultLimit ELSE q.limit), results |-> <<>>]}
    /\ UNCHANGED <<customAbis, translationCache, addressPool, addressPoolIndex, gqlAnswers>>

\* A contract's own field, and getTransfers, getMints, getBurns, which name the contract.
PostContractField(q, name) == name \in DOMAIN currentSchema /\ PostQuery(q, name, currentSchema[name])
PostGenericField(q, field, contract) == PostQuery(q, [field |-> field, id |-> shortIdOf[contract]], contract)

\* The translation a row has now: Redis, then the one stored with it, then the blueprint.
translateWithCache(row) ==
    IF row \in DOMAIN translationCache THEN translationCache[row]
    ELSE IF StoredRows[row].persisted THEN StoredRows[row].type
    ELSE IF StoredRows[row].contract \in Range(customAbis) THEN "Custom"
    ELSE StoredRows[row].type

\* Regression: two slots at a time.
decodeAddressSkip(pool, at, value) == <<[pool EXCEPT ![at] = value], (at + 2) % ADDRESS_POOL_SIZE>>

\* The object of the pool is written and the next one is next.
decodeAddress(pool, at, value) == <<[pool EXCEPT ![at] = value], (at + 1) % ADDRESS_POOL_SIZE>>

\* The pool and its index when a row's addresses, none to two, have been decoded.
decodeAll(pool, at, row, count) ==
    LET first == decodeAddress(pool, at, <<row, 2>>)
    IN  IF count = 0 THEN <<pool, at>>
        ELSE IF count = 1 THEN first ELSE decodeAddress(first[1], first[2], <<row, 3>>)

\* The rows pushed so far count the addresses decoded since.
later(results, count) == [n \in DOMAIN results |-> [results[n] EXCEPT !.since = @ + count]]

\* One turn of a resolver: the rest of a row's iteration, after its translation arrived.
TranslateRow(r) ==
    /\ r.page # <<>>
    /\ LET row == Head(r.page)
           type == translateWithCache(row)
           kept == type = r.name.field.type /\ StoredRows[row].topics >= r.name.field.needs
           count == IF kept THEN Len(r.name.field.addresses) ELSE 0
           decoded == decodeAll(addressPool, addressPoolIndex, row, count)
           slots == [k \in 1 .. count |-> decodeAll(addressPool, addressPoolIndex, row, k - 1)[2]]
           pushed == IF kept THEN <<[row |-> row, slots |-> slots, since |-> 0]>> ELSE <<>>
       IN  /\ translationCache' = [n \in DOMAIN translationCache \cup {row} |->
                    IF n = row THEN type ELSE translationCache[n]]
           /\ addressPool' = decoded[1] /\ addressPoolIndex' = decoded[2]
           /\ resolvers' =
                {IF s = r THEN [s EXCEPT !.page = Tail(@), !.results = later(@, count) \o pushed]
                 ELSE [s EXCEPT !.results = later(@, count)] : s \in resolvers}
    /\ UNCHANGED <<customAbis, cachedSchema, gqlAnswers, gqlPosts>>

\* The list is written out: addresses are read through the rows' references.
AnswerField(r) ==
    /\ r.page = <<>>
    /\ resolvers' = resolvers \ {r}
    /\ gqlAnswers' = gqlAnswers \cup
        {[name |-> r.name, query |-> r.query, contract |-> r.contract,
          rows |-> [n \in DOMAIN r.results |->
              [row |-> r.results[n].row, since |-> r.results[n].since,
               shown |-> [k \in DOMAIN r.results[n].slots |-> addressPool[r.results[n].slots[k]]]]]]}
    /\ UNCHANGED <<customAbis, cachedSchema, translationCache, addressPool, addressPoolIndex, gqlPosts>>

GraphQLNext ==
    \/ \E c \in CustomContracts : registerContract(c)
    \/ \E q \in GraphQueries : \/ \E name \in DOMAIN currentSchema : PostContractField(q, name)
                         \/ \E field \in StandardFields, c \in Range(BuiltIn) \cup CustomContracts :
                                PostGenericField(q, field, c)
    \/ \E r \in resolvers : TranslateRow(r) \/ AnswerField(r)

GraphQLSpec == GraphQLInit /\ [][GraphQLNext]_gqlvars

-----------------------------------------------------------------------------
(* Properties                                                            *)

\* The cached schema is that of the contracts registered now, whoever built it and
\* whatever was registered since; and a field answers with rows of one contract, one
\* whose name starts as the field's does.
SchemaIsCurrent ==
    /\ cachedSchema # NoSchema => cachedSchema = buildSchema(customAbis)
    /\ \A a \in gqlAnswers : /\ shortIdOf[a.contract] = a.name.id
                             /\ \A n \in DOMAIN a.rows : StoredRows[a.rows[n].row].contract = a.contract

\* A row of an answer shows its own addresses unless the pool came round before the
\* answer was written: the requests beside it count too.
FreshRowsAreOwn ==
    \A a \in gqlAnswers : \A n \in DOMAIN a.rows :
        LET row == a.rows[n]
            addresses == Len(a.name.field.addresses)
        IN  row.since <= ADDRESS_POOL_SIZE - addresses
                => \A k \in 1 .. addresses : row.shown[k] = <<row.row, k + 1>>

\* The limit holds for the scalars of an answer whose limit is a number or left out.
AnswerWithinComplexity ==
    \A a \in gqlAnswers : a.query.limit # Unset /\ a.query.limit >= 0 =>
        1 + Len(a.rows) * a.query.selects <= maxComplexity
=============================================================================
