\* Fair executor, funding and players; callers who name the largest u128; the owners stay
\* away; two games.
CONSTANTS
    INITIAL_BALL_VALUE = 9
    MAX_RALLIES_CAP = 4
    MaxUint256 = 16
    U128 = 11
    SepoliaEid = SepoliaEid
    SolanaEid = SolanaEid
    EvmApp = EvmApp
    GamePDA = GamePDA
    ProgramId = ProgramId
    NoPeer = NoPeer
    Fees = {1, 2}
    EstimatedFee = 2
    Players = {r1, r2}
    ScriptRuns = {}
    SendValues = {10}
    MaxBalance = 3
    MaxLamports = 2
    ServeLimit = 2
    PauseLimit = 1
    InitLimit = 1
SPECIFICATION FairSpec
INVARIANTS  FirstGameHasItsBall NothingTruncated
PROPERTIES   ImplementsFreeRally
