\* As PingPongEVM, with callers who run code inside serve.
CONSTANTS
    INITIAL_BALL_VALUE = 3
    MAX_RALLIES_CAP = 2
    MaxUint256 = 7
    Solana = Solana
    OtherChain = OtherChain
    EvmEid = EvmEid
    EvmApp = EvmApp
    GamePDA = GamePDA
    ProgramId = ProgramId
    NoPeer = NoPeer
    peerEid = Solana
    Eids <- MCEids
    Addresses <- MCAddresses
    Fees = {1, 2}
    Inbox <- MCInbox
    MaxBalance = 1
    ServeLimit = 2
    PauseLimit = 1
SPECIFICATION ServeSpec
PROPERTY ActsAtomically
