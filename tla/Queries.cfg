SPECIFICATION Spec
CONSTANTS
    MaxHits = 4
    PageSizes = {1, 2, 3}
    FirstPages = {0, 1, 2}
    SFields <- IndexFields
    FSchema <- CollectionFields
    PrimaryKeys <- KeysOfCollections
    IndexedFields <- IndexedFieldSeq
    Queries <- SomeQueries
    FDocs <- Documents
    LongPrefix = 1
    SortableFields = {"t"}
    SearchReads = TRUE
    ReadKeys = {1, 2, 3, 4}
    ReadRequests <- SomeReads
    JsonLimit = 3
    MaxRestarts = 2
    MaxWrites = 1
    DocKeys = {1, 2, 3, 4}
    Inserts <- SomeInserts
    WriteReqs <- SomeWrites
    MaxFetch = 2
    MaxRequests = 4
    FieldChoices <- SomeSchemas
    WordLengths = {2, 3}
    MaxVersions = 3
    EvRows = {1}
    SSServers = {s1, s2}
    SSSchemas <- EngineSchemas
    SSReserved = {"_tigris_created_at"}
    MaxSSAsks = 4
    PSchemas <- PaySchemas
    PDocs <- PayDocs
    SignedDocs <- PaySigned
    PSets <- PaySets
    ImServers = {s1, s2}
    ImReqs = {1, 2}
    ImFirst <- FirstSchema
    ImBatches <- SomeBatches
    MaxImFaults = 1
    MaxImRuns = 2
    IrTypes = {"string", "double", "bool", "int64", "datetime"}
    IrRanks <- Ranks
    IrForms <- Forms
    PjKeys = {"a", "b"}
    PjKinds = {"true", "false", "1", "2", "expression", "other"}
    PjDocs <- ProjectedDocs
    MaxListed = 2
    MaxPjDocs = 2
SYMMETRY Interchangeable
CHECK_DEADLOCK FALSE
INVARIANTS
    PagesCorrect
    
    
    WritesCorrect
    SchemasCorrect
    EngineCorrect
    
    ImportsCorrect
