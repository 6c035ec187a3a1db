\* Small instances of every component; see MCApplication.tla for the data.
SPECIFICATION MCSpec
CONSTANTS
    Parts = {"publisher", "webhooks", "sandbox", "dashboard", "bridgeFeed", "translator", "search",
             "graph", "ipfs", "toasts", "dagPanel", "graphql", "parser", "udt", "captive", "columns",
             "generic", "blueprints", "xdr", "dag", "lexer", "dsl", "eval", "proof", "audit", "exports"}
    maxQueueSize = 1
    maxReconnectAttempts = 0
    MaxMessages = 3
    MaxLosses = 2
    Subscriptions = {s1}
    Contracts = {"contract"}
    contractOf <- MCContractOf
    MAX_ATTEMPTS = 2
    MaxDispatches = 3
    MaxFaults = 1
    Executions = {"x1", "x2", "x3"}
    wasmPath <- MCWasmPath
    invalidInput = {"x3"}
    DashboardContracts = {"c1", "c2"}
    EventTypes = {"mint", "burn"}
    PageLimit = 1
    LedgerTexts = {0, 5}
    SideButtons = 1
    MaxFeedEvents = 4
    Arriving <- MCArriving
    InitialFeed <- MCInitialFeed
    MOCK_RAW_EVENTS <- MCMockEvents
    MaxNavigations = 2
    MaxPageFaults = 1
    Statuses = {"any", "matched"}
    MatchLimit = 2
    createdAt <- MCCreatedAt
    statusOf <- MCStatusOf
    RowsAtStart = 4
    MaxListLoads = 4
    MaxListFaults = 1
    CHUNK_THRESHOLD = 2
    CHUNK_SIZE = 2
    BatchSizes = {0, 1, 3, 5}
    MaxBatches = 3
    EventSets <- MCEventSets
    Queries <- MCSearches
    SearchContracts = {"any", "c1"}
    StopWords = {"to"}
    Capitalised = {"Ann"}
    SearchLimit = 2
    MaxSearchCalls = 3
    GraphEvents <- MCGraphEvents
    ShortTopics = {"tx"}
    MAX_NODES = 3
    NodeEvents = 2
    MaxLinks = 2
    MaxBatch = 2
    MaxGraphEvents = 4
    RawFields <- MCRawFields
    Bloated = {"big", "large"}
    MaxIpfsFaults = 1
    MaxStores = 3
    MaxLooks = 2
    TOAST_LIMIT = 2
    Listeners = {m1}
    MaxToasts = 3
    TxHashes = {"t1", "t2"}
    BadHashes = {"x"}
    DagOf <- MCDagOf
    MaxDagRequests = 4
    MaxDagFaults = 1
    BuiltIn <- MCBuiltIn
    CustomContracts = {"x", "y"}
    shortIdOf <- MCShortIdOf
    StoredRows <- MCStoredRows
    GraphQueries <- MCGraphQueries
    ADDRESS_POOL_SIZE = 4
    maxComplexity = 5
    MaxPosts = 2
    HexInputs <- MCHexInputs
    SpecPayloads <- MCSpecPayloads
    MAX_RECURSION_DEPTH = 2
    MAX_PAYLOAD_SIZE_BYTES = 20
    MAX_COLLECTION_SIZE = 2
    MAX_HEX_STRING_LENGTH = 8
    MaxEntryBytes = 5
    MAP_ENTRY_BYTES = 3
    VEC_ITEM_BYTES = 2
    Deadlines = {3, 99}
    MaxParses = 2
    UdtContracts = {"k1", "k2"}
    Binaries <- MCBinaries
    specOf <- MCSpecOf
    UdtValues <- MCUdtValues
    MaxUdtCalls = 2
    MaxUdtFaults = 1
    Metas <- MCMetas
    NoContract = "-"
    XdrMessages <- MCXdrMessages
    HeaderBytes = 2
    Base = 4
    startLedger = 3
    contractIds = {}
    MaxSequenceDepth = 3
    MaxEventDepth = 3
    Backfills = {"p1", "p2", "p3"}
    chunksOf <- MCChunksOf
    timestamped = {"a1", "a2", "a3", "b1", "b2", "b3"}
    BATCH_SIZE = 2
    MaxStoreFaults = 1
    Contents <- MCContents
    Cuts = {0, 1, 2}
    KeyWords = 2
    MaxText = 2
    MaxItems = 1
    XdrTexts <- MCXdrTexts
    Limb = 4
    NotUtf8 = {"fe", "ff"}
    MaxTopics = 2
    MaxXdrCalls = 2
    Tabs = {"tab1", "tab2"}
    AbiFiles <- MCAbiFiles
    UserEvents <- MCUserEvents
    decodedNameOf <- MCDecodedNameOf
    namesIn <- MCNamesIn
    SpecFiles <- MCSpecFiles
    ContractIds = {"c1", "c2"}
    MaxUploads = 2
    MAX_DEPTH = 2
    MaxHostDepth = 3
    MaxHostCalls = 3
    MaxInsns = 3
    Characters <- MCCharacters
    MAX_TOKENS = 3
    MaxDigits = 2
    MaxSource = 4
    Alphabet = {"let", "return", "if", "else", "{", "}", "=", ";", "id", "-", "*", "&&", "(", ")", "[", "]", ".", ","}
    DSL_MAX_DEPTH = 2
    MaxTokens = 7
    MinI128 <- MCMinI128
    MaxI128 = 11
    STEP_BUDGET = 4
    MaxDecimals = 1
    Atoms <- MCAtoms
    outerContext <- MCOuterContext
    MaxNodes = 4
    ProofLedgers <- MCProofLedgers
    HORIZON_PAGE = 2
    MAX_TX_FETCH = 5
    MaxProofFaults = 1
    AuditEvents = {1, 2, 3}
    MaxAudited = 4
    Catalogue <- MCCatalogue
    ExportRequests <- MCExportRequests
    STREAM_THRESHOLD = 2
    ExportChunk = 1
    DEFAULT_LIMIT = 2
    MAX_LIMIT = 3
    MockRows = 1
    MaxExports = 2
INVARIANTS
    PublisherSafety
    WebhookSafety
    SandboxSafety
    DagSafety
    DslSafety
    BrowserWorkSafety
    PagesSafety
    StoresSafety
    DecodersSafety
    ResultsSafety
PROPERTIES
    StepsHaveCause
    WaitingEnds
CHECK_DEADLOCK FALSE
