SPECIFICATION Spec
CONSTANTS
    Accounts = {a, b, c}
    Zero = zero
    Ids = {s1, s2}
    Amounts <- MCAmounts
    MAX_YIELD_SKIM_BPS = 2
    DEFAULT_YIELD_SKIM_BPS = 1
    BPS = 5
    MAX_UINT256 = 12
    MaxPlanned = 1
INVARIANTS CountExact SkimInFavour
PROPERTY OwnershipHandedOver
