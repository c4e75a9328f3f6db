\* As Liveness, with two games and one player.
CONSTANTS
    INITIAL_BALL_VALUE = 7
    MAX_RALLIES_CAP = 3
    MaxUint256 = 16
    U128 = 8
    SepoliaEid = SepoliaEid
    SolanaEid = SolanaEid
    EvmApp = EvmApp
    GamePDA = GamePDA
    ProgramId = ProgramId
    NoPeer = NoPeer
    Fees = {1}
    EstimatedFee = 1
    Players = {r1}
    ScriptRuns = {}
    SendValues = {}
    MaxBalance = 1
    MaxLamports = 1
    ServeLimit = 2
    PauseLimit = 1
    InitLimit = 1
SPECIFICATION FairSpec
PROPERTY EveryGameEnds
