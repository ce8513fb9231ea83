SPECIFICATION MCSpec
CONSTANTS
    usdc = usdc
    sol = sol
    xyz = xyz
    usdc_ref = usdc_ref
    sol_ref = sol_ref
    xyz_ref = xyz_ref
    PinnedReserves = {usdc, sol}
    UnlistedReserves = {xyz}
    ReferrerStates <- States
    HasReferrer = TRUE
    KLEND = klend
    NullKey = null
    Strays <- FewStrays
    MaxPositions = 2
    MaxFrame = 5
INVARIANTS CurrentFrameAccepted FrameFormat RefreshedOnceInOrder
PROPERTIES StaleNeverLands
