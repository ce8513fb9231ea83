SPECIFICATION Spec
CONSTANTS
    Byte = {0, 1, 2, 3}
    WORD = 4
    ADDRESS = 3
    U64 = 2
    U32 = 1
    Submissions <- AllSubmissions
    DAY_CHAIN_ID_SOLANA <- SolanaChain
    CCTP_DOMAIN_SOLANA <- SolanaDomain
    RemotePeers <- EvmPeers
    Nonces <- TwoNonces
    MaxGated = 2
INVARIANTS TypeOK BodyIsMessage OneHandlerPerBody RequestIdsBind AccountsFollowHandoff ReturnsFollowWithdrawal
