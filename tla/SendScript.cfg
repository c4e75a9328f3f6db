\* As SecondGame, with one run of send-ball-to-evm.ts for a player.
CONSTANTS
    INITIAL_BALL_VALUE = 7
    MAX_RALLIES_CAP = 3
    MaxUint256 = 16
    U128 = 8
    SepoliaEid = SepoliaEid
    SolanaEid = SolanaEid
    EvmApp = EvmApp
    GamePDA = GamePDA
    ProgramId = ProgramId
    NoPeer = NoPeer
    Fees = {1}
    EstimatedFee = 1
    Players = {s1}
    ScriptRuns = {s1}
    SendValues = {}
    MaxBalance = 1
    MaxLamports = 1
    ServeLimit = 1
    PauseLimit = 1
    InitLimit = 1
SPECIFICATION FairSpec
PROPERTY HeldBallIsReturned
