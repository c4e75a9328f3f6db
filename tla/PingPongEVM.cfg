\* One contract: two games served, two pauses, every configuration of two peers.
CONSTANTS
    INITIAL_BALL_VALUE = 3
    MAX_RALLIES_CAP = 2
    MaxUint256 = 7
    Solana = Solana
    OtherChain = OtherChain
    EvmEid = EvmEid
    EvmApp = EvmApp
    GamePDA = GamePDA
    ProgramId = ProgramId
    NoPeer = NoPeer
    peerEid = Solana
    Eids <- MCEids
    Addresses <- MCAddresses
    Fees = {1}
    Inbox <- MCInbox
    MaxBalance = 2
    ServeLimit = 2
    PauseLimit = 2
SPECIFICATION Spec
INVARIANTS TypeOK ActiveGameAwaitsBall HeldBallMeansGameOver BallsAccountedFor MessagesServeOrAnswer
PROPERTY GameRunsToItsEnd
