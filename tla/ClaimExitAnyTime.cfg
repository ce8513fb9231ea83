SPECIFICATION Spec
CONSTANTS
    a = a
    b = b
    evm = evm
    null = null
    label = label
    nolabel = nolabel
    DayTxIds = {h1}
    Owners = {a, b}
    ForeignOwners = {evm}
    NullKey = null
    NullLabel = nolabel
    OriginRecords <- GoodOrigins
    AdapterIds = {jupiter_lend}
    JupiterLend = jupiter_lend
    Programs = {earn}
    JupiterEarnProgram = earn
    ExecutablePrograms = {earn}
    DefaultProgram = default
    Signers = {authority}
    PROTOCOL_AUTHORITY = authority
    MAX_ADAPTERS = 1
    MaxMicros = 2
    MaxDrift = 0
    MaxShortfall = 0
INVARIANT CanExitAnyTime
