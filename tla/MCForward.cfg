SPECIFICATION MCSpec
CONSTANTS
    a = a
    b = b
    authority = authority
    router = router
    kamino = kamino
    marginfi = marginfi
    jupiter_lend = jupiter_lend
    save = save
    other = other
    klend = klend
    mfi = mfi
    earn = earn
    so1end = so1end
    foreign = foreign
    AdapterIds = {kamino, marginfi, jupiter_lend, save, other}
    Programs = {klend, mfi, earn, so1end, foreign}
    ExecutablePrograms = {klend, mfi, earn, so1end, foreign}
    DefaultProgram = default
    Signers = {a, b, authority}
    PROTOCOL_AUTHORITY = authority
    MAX_ADAPTERS = 4
    Owners = {a, b}
    RouterPda = router
    ArmOf <- MCArmOf
    PinnedProgram <- MCPinnedProgram
    Requests <- MCRequests
    Claims <- MCClaims
    Amounts = {0, 1, 2}
    FeeRates = {50, 201}
    PROFIT_FEE_BPS_DEFAULT = 100
    MAX_PROFIT_FEE_BPS = 200
    Supply <- MCSupply
    MaxShortfall = 1
INVARIANTS ForwardTypeOK MarginfiReported
PROPERTIES WithdrawPaysOwner RouterSpendsOnlyAsBound KaminoOwnerRooted PrefundNeverBlocks
