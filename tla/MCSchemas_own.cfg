CONSTANTS
    NONE = NONE
    JNULL = JNULL
    FieldSets <- MCFieldSets
    Assets <- MCAssets
    Parcels <- MCParcels
    Importers = {"cpp", "python"}
    MaxRounds = 1
SPECIFICATION ExchangeSpec
INVARIANTS ReadsItsOwn
CHECK_DEADLOCK FALSE
