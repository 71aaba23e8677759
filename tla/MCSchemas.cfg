CONSTANTS
    NONE = NONE
    JNULL = JNULL
    FieldSets <- MCFieldSets
    Assets <- MCAssets
    Parcels <- MCParcels
    Importers = {"cpp", "python"}
    MaxRounds = 2
SPECIFICATION ExchangeSpec
INVARIANTS RightAsset Understood
CHECK_DEADLOCK FALSE
