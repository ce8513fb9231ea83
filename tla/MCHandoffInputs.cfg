SPECIFICATION FairSpec
CONSTANTS
    a = a
    b = b
    evm = evm
    null = null
    label = label
    nolabel = nolabel
    DayTxIds = {h1}
    Owners = {a, b}
    ForeignOwners = {evm}
    NullKey = null
    NullLabel = nolabel
    OriginRecords <- AllOrigins
    AdapterIds = {jupiter_lend, kamino, save}
    JupiterLend = jupiter_lend
    Programs = {earn, klend, ghost}
    JupiterEarnProgram = earn
    ExecutablePrograms = {earn, klend}
    DefaultProgram = default
    Signers = {authority, relayer}
    PROTOCOL_AUTHORITY = authority
    MAX_ADAPTERS = 2
    MaxMicros = 2
    MaxDrift = 1
    MaxShortfall = 1
INVARIANTS TypeOK OneSlotPerAdapter DestinationLocked ExitBindingKept
PROPERTIES NeverRepointed OwnersExit DeliveryPositioned
