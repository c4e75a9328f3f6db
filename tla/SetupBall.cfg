\* The scripts alone, each run sooner or later.
CONSTANTS
    INITIAL_BALL_VALUE = 3
    MAX_RALLIES_CAP = 2
    MaxUint256 = 16
    U128 = 8
    SepoliaEid = SepoliaEid
    SolanaEid = SolanaEid
    EvmApp = EvmApp
    OldApp = OldApp
    GamePDA = GamePDA
    ProgramId = ProgramId
    NoPeer = NoPeer
    Fees = {1, 2}
    Operators = {o1, o2}
    ServeLimit = 2
    InitLimit = 2
SPECIFICATION ScriptSpec
PROPERTY BallReachesSolana
