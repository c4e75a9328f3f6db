\* One program: the game account created twice, packets below, at and above the limits.
CONSTANTS
    INITIAL_BALL_VALUE = 3
    MAX_RALLIES_CAP = 3
    U128 = 8
    Sepolia = Sepolia
    SolanaEid = SolanaEid
    EvmApp = EvmApp
    GamePDA = GamePDA
    Stranger = Stranger
    NoPeer = NoPeer
    Eids <- MCEids
    Addresses <- MCAddresses
    QuotedFees = {1, 2}
    Inbox <- MCInbox
    SendValues = {0, 2, 5}
    MaxLamports = 1
    InitLimit = 2
SPECIFICATION Spec
INVARIANTS TypeOK HeldBallIsPlayable SendsAccountedFor
PROPERTY ScoreFollowsPackets
