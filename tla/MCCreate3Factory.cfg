SPECIFICATION FactorySpec
CONSTANTS
    Deployers = {eoa, k, l}
    Contracts = {k, l}
    Factory = factory
    ZeroAddress = zero
    Salts = {1, 2}
    MaxDepth = 3
INVARIANTS ProxyOneShot RouteOpen NothingHalfway
CHECK_DEADLOCK FALSE
