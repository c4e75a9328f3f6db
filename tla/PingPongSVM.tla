----------------------------- MODULE PingPongSVM -----------------------------
(***************************************************************************)
(* The Solana side of the game: the Anchor program in                      *)
(* src/svm/pingpong/programs/pingpong/src.                                 *)
(*                                                                         *)
(* A transaction is one step; one that fails changes no account and is no  *)
(* step.  Anchor writes back only the accounts an instruction declares     *)
(* `mut`, so an assignment to another account is lost when it returns.     *)
(* The LayerZero endpoint program appears through what the program asks of *)
(* it: register, send and clear.                                           *)
(***************************************************************************)
EXTENDS Integers, FiniteSets, SequencesExt

CONSTANTS
    INITIAL_BALL_VALUE, MAX_RALLIES_CAP,
    U128,                \* number of values of a u128
    Eids,                \* endpoint ids with a peer config account
    SolanaEid,           \* the endpoint id of this chain
    GamePDA,             \* address of the game account: the OApp
    Addresses,           \* what the admin may register as a peer
    NoPeer,              \* [0; 32], the peer address of a fresh config account
    QuotedFees,          \* what the endpoint may charge for one message
    Inbox,               \* packets the executor may present, any number of times
    SendValues,          \* values callers pass to send_ball
    MaxLamports,         \* bound: funding stops here
    InitLimit            \* bound: the account created last of this many is not closed

VARIABLES
    opened,              \* the game account and its LzReceiveTypes account exist
    game,                \* the fields of GameState
    peer,                \* the PeerConfig account of each endpoint id
    registered,          \* endpoint: the game PDA is a registered OApp
    lamports,            \* lamports of the game account above rent
    cleared,             \* endpoint: guids of the packets cleared by lz_receive
    svmNonce,            \* endpoint: messages accepted from the game PDA
    svmOutbound,         \* endpoint: the packets accepted from the game PDA
    inits,               \* number of times a game account was created
    lastSwitch           \* the last "Game paused" or "Game resumed" logged for this game

config == <<peer, registered>>
wire   == <<svmNonce, svmOutbound>>
vars   == <<opened, game, config, lamports, cleared, wire, inits, lastSwitch>>

Value     == 0 .. U128 - 1
GameState == [ball_value : Value, rally_count : 0 .. MAX_RALLIES_CAP,
              max_rallies : {MAX_RALLIES_CAP}, has_ball : BOOLEAN,
              game_active : BOOLEAN, paused : BOOLEAN]
Packet    == [guid : Nat, srcEid : Eids \cup {SolanaEid},
              sender : Addresses \cup {GamePDA},
              to : Addresses \cup {GamePDA, NoPeer}, value : Nat, rally : Nat]

ASSUME ConstantsAssumption ==
    /\ INITIAL_BALL_VALUE \in Nat \ {0}
    /\ MAX_RALLIES_CAP \in Nat \ {0}
    /\ U128 \in Nat /\ INITIAL_BALL_VALUE < U128
    /\ NoPeer \notin Addresses
    /\ QuotedFees \subseteq Nat
    /\ Inbox \subseteq Packet
    /\ SendValues \subseteq Value
    /\ MaxLamports \in Nat /\ InitLimit \in Nat

Bit(b) == IF b THEN 1 ELSE 0

\* What init_game writes, and what reading a closed account is taken to be.
NewGame == [ball_value |-> 0, rally_count |-> 0, max_rallies |-> MAX_RALLIES_CAP,
            has_ball |-> FALSE, game_active |-> FALSE, paused |-> FALSE]

NoConfig == [created |-> FALSE, peer_address |-> NoPeer, send |-> FALSE]

Unplayed ==
    /\ game = NewGame
    /\ cleared = {}
    /\ svmNonce = 0 /\ svmOutbound = {}
    /\ lastSwitch = "none"

\* A deployed program owns no account yet.
Init ==
    /\ Unplayed
    /\ opened = FALSE /\ inits = 0
    /\ peer = [e \in Eids |-> NoConfig]
    /\ registered = FALSE
    /\ lamports = 0

-----------------------------------------------------------------------------
(***************************************************************************)
(* Administration.                                                         *)
(***************************************************************************)

\* init_game: both accounts must not exist; anyone may pay for it.
InitGame ==
    /\ ~opened
    /\ opened' = TRUE
    /\ game' = NewGame
    /\ inits' = inits + 1
    /\ lastSwitch' = "none"
    /\ UNCHANGED <<config, lamports, cleared, wire>>

\* close_game: game, LzReceiveTypes and their lamports go; the endpoint's accounts
\* and the peer config stay.
CloseGame ==
    /\ inits < InitLimit
    /\ opened
    /\ opened' = FALSE
    /\ game' = NewGame
    /\ lamports' = 0
    /\ lastSwitch' = "none"
    /\ UNCHANGED <<config, cleared, wire, inits>>

RegisterOApp ==
    /\ opened
    /\ ~registered
    /\ registered' = TRUE
    /\ UNCHANGED <<opened, game, peer, lamports, cleared, wire, inits, lastSwitch>>

\* set_peer_config with PeerAddress; init_if_needed creates the account.
SetPeerAddress(eid, address) ==
    /\ opened
    /\ peer' = [peer EXCEPT ![eid] = [@ EXCEPT !.created = TRUE, !.peer_address = address]]
    /\ UNCHANGED <<opened, game, registered, lamports, cleared, wire, inits, lastSwitch>>

\* set_peer_config with EnforcedOptions { send }
SetPeerOptions(eid, send) ==
    /\ opened
    /\ peer' = [peer EXCEPT ![eid] = [@ EXCEPT !.created = TRUE, !.send = send]]
    /\ UNCHANGED <<opened, game, registered, lamports, cleared, wire, inits, lastSwitch>>

FundContract(amount) ==
    /\ opened
    /\ lamports + amount <= MaxLamports
    /\ lamports' = lamports + amount
    /\ UNCHANGED <<opened, game, config, cleared, wire, inits, lastSwitch>>

\* What the program keeps of an account that pause_game and resume_game assign to:
\* `game` is not declared mut there, so Anchor does not write it back.
Persisted(assigned, mut) == IF mut THEN assigned ELSE game

PauseGame ==
    /\ opened /\ game.game_active
    /\ game' = Persisted([game EXCEPT !.game_active = FALSE], FALSE)
    /\ lastSwitch' = "paused"
    /\ UNCHANGED <<opened, config, lamports, cleared, wire, inits>>

ResumeGame ==
    /\ opened /\ ~game.game_active
    /\ game' = Persisted([game EXCEPT !.game_active = TRUE], FALSE)
    /\ lastSwitch' = "resumed"
    /\ UNCHANGED <<opened, config, lamports, cleared, wire, inits>>

-----------------------------------------------------------------------------
(***************************************************************************)
(* Play.                                                                   *)
(***************************************************************************)

\* A 32-byte word of a message, as its two halves.
Word(high, low) == high * U128 + low

\* PingPongMessage::encode pads the u128 with 16 zero bytes.
Encode(value) == Word(0, value)

\* PingPongMessage::decode keeps the low 16 bytes of the value; the rally it also
\* decodes is only logged.
Decode(p) == p.value % U128

\* What the endpoint's clear takes, in its order (get_accounts_for_clear).
AccountsForClear == <<"endpointProgram", "game", "oappRegistry", "nonce", "payloadHash",
                      "endpoint", "eventAuthority", "endpointProgram">>

\* The accounts lz_receive_types tells the executor to present.
LzReceiveTypes == <<"game", "peer">> \o AccountsForClear

\* The accounts lz_receive declares; clear is given as many of the others as it takes.
Declared == <<"game", "peer", "endpoint">>

\* What a caller presents who does not ask the program.
AccountLists == {LzReceiveTypes, Declared \o AccountsForClear}

AccountsFit(accounts) ==
    IsPrefix(Declared \o AccountsForClear, accounts)

\* What the endpoint's send and quote take first of the accounts an instruction does not
\* declare: its program, the sender, the library that charges and sends.
AccountsForSend == <<"endpointProgram", "game", "sendLibrary">>

\* What a working caller of send_ball or quote_send presents; both declare the accounts
\* lz_receive does, with the endpoint's settings.
SendBallAccounts == Declared \o AccountsForSend

\* What send-ball-to-evm.ts presents: the endpoint's program for its settings, nothing more.
ScriptAccounts == <<"game", "peer", "endpointProgram">>

SendAccountsFit(accounts) == IsPrefix(SendBallAccounts, accounts)

\* lz_receive's account constraint: the sender is the configured peer of src_eid.
FromPeer(p) == p.srcEid \in Eids /\ peer[p.srcEid].created /\ p.sender = peer[p.srcEid].peer_address

\* Bug: the program takes the packet without having the endpoint clear it.
ClearBug(p) == registered /\ cleared' = cleared \cup {p.guid}

\* endpoint clear: the OApp is registered and the packet was not cleared before.
Clear(p) ==
    /\ registered
    /\ p.guid \notin cleared
    /\ cleared' = cleared \cup {p.guid}

\* Bugs: the ball stays in hand when the game is over; the hit costs no value; the game
\* ends one rally early.
StruckKeepsBallBug(value) ==
    [game EXCEPT !.ball_value = value - 1, !.rally_count = @ + 1,
                 !.has_ball = TRUE,
                 !.game_active = value > 1 /\ game.rally_count + 1 < game.max_rallies]
StruckNoCostBug(value) ==
    [game EXCEPT !.ball_value = value, !.rally_count = @ + 1, !.has_ball = TRUE,
                 !.game_active = TRUE]

StruckEarlyBug(value) ==
    LET rally == game.rally_count + 1
        over  == value = 1 \/ rally + 1 >= game.max_rallies
    IN  [game EXCEPT !.ball_value = value - 1, !.rally_count = rally,
                     !.has_ball = ~over, !.game_active = ~over]

\* The value returns one lower; the program counts rallies on its own.
Struck(value) ==
    LET rally == game.rally_count + 1
        over  == value = 1 \/ rally >= game.max_rallies
    IN  [game EXCEPT !.ball_value = value - 1, !.rally_count = rally,
                     !.has_ball = ~over, !.game_active = ~over]

\* Bug: < for <= in line 75 refuses every served ball.
ValidValueBug(value) == value \in 1 .. INITIAL_BALL_VALUE - 1

\* BallValueZero, BallValueTooHigh
ValidValue(value) == value \in 1 .. INITIAL_BALL_VALUE

\* Bug: one rally too many.
WithinCapBug(rally) == rally <= MAX_RALLIES_CAP + 1

\* MaxRalliesExceeded: the whole transaction fails, the packet stays uncleared.
WithinCap(rally) == rally <= MAX_RALLIES_CAP

LzReceive(p, accounts) ==
    /\ AccountsFit(accounts)
    /\ opened
    /\ FromPeer(p)
    /\ ~game.paused
    /\ Clear(p)
    /\ ValidValue(Decode(p))
    /\ WithinCap(game.rally_count + 1)
    /\ game' = Struck(Decode(p))
    /\ UNCHANGED <<opened, config, lamports, wire, inits, lastSwitch>>

\* What the endpoint is quoted for or sends: combine_options of the config account and the
\* caller's, one of which may be empty.
CanSend(eid, options, accounts) ==
    /\ SendAccountsFit(accounts)
    /\ registered /\ peer[eid].created
    /\ peer[eid].send \/ options

CpiSend(eid, value) ==
    /\ svmNonce' = svmNonce + 1
    /\ svmOutbound' = svmOutbound \cup
           {[guid |-> svmNonce + 1, srcEid |-> SolanaEid, sender |-> GamePDA,
             to |-> peer[eid].peer_address, value |-> Encode(value), rally |-> game.rally_count]}

\* Bug: has_ball stays set after the send (send_ball.rs:63).
ReleasedBug == game

Released == [game EXCEPT !.has_ball = FALSE]

\* send_ball: any caller, the caller's value; whoever signs pays native_fee.
SendBall(eid, value, options, native_fee, quoted, accounts) ==
    /\ opened
    /\ ~game.paused
    /\ game.has_ball
    /\ value > 0
    /\ CanSend(eid, options, accounts)
    /\ native_fee >= quoted
    /\ CpiSend(eid, value)
    /\ game' = Released
    /\ UNCHANGED <<opened, config, lamports, cleared, inits, lastSwitch>>

Admin ==
    \/ CloseGame
    \/ PauseGame
    \/ ResumeGame
    \/ \E eid \in Eids : \/ \E address \in Addresses \cup {NoPeer} : SetPeerAddress(eid, address)
                         \/ \E send \in BOOLEAN : SetPeerOptions(eid, send)

Anybody ==
    \/ InitGame
    \/ RegisterOApp
    \/ \E amount \in 1 .. MaxLamports : FundContract(amount)
    \/ \E eid \in Eids, value \in SendValues, options \in BOOLEAN,
          native_fee, quoted \in QuotedFees :
           SendBall(eid, value, options, native_fee, quoted, SendBallAccounts)

Next == Admin \/ Anybody \/ \E p \in Inbox, accounts \in AccountLists : LzReceive(p, accounts)

Spec == Init /\ [][Next]_vars

-----------------------------------------------------------------------------
TypeOK ==
    /\ opened \in BOOLEAN
    /\ game \in GameState
    /\ peer \in [Eids -> [created : BOOLEAN, peer_address : Addresses \cup {NoPeer},
                          send : BOOLEAN]]
    /\ registered \in BOOLEAN
    /\ lamports \in 0 .. MaxLamports
    /\ cleared \subseteq Nat /\ IsFiniteSet(cleared)
    /\ svmNonce \in Nat
    /\ svmOutbound \subseteq Packet
    /\ inits \in Nat
    /\ lastSwitch \in {"none", "paused", "resumed"}

\* A ball in hand can be played: the game is open, active and below its limit, and the
\* ball has been struck at least once and is not spent.
HeldBallIsPlayable ==
    game.has_ball =>
        /\ opened /\ game.game_active /\ ~game.paused
        /\ game.ball_value \in 1 .. INITIAL_BALL_VALUE - 1
        /\ game.rally_count \in 1 .. MAX_RALLIES_CAP - 1

\* Each message sent, and the ball in hand, stem from a packet of their own: neither a
\* retried delivery (clear, line 53), nor two senders, nor a game closed and created
\* again, returns the same ball twice.
SendsAccountedFor ==
    svmNonce + Bit(game.has_ball) <= Cardinality(cleared)

\* The game's score only moves with a packet cleared for good, by one rally at a time;
\* closing the account is the only other way to change it.
ScoreFollowsPackets ==
    [][ opened /\ opened' /\ game'.rally_count # game.rally_count =>
            /\ game'.rally_count = game.rally_count + 1
            /\ cleared' # cleared
            /\ game'.ball_value < INITIAL_BALL_VALUE ]_vars

\* pause_game.rs:24-25 sets game_active to false and logs "Game paused".
PauseTakesEffect ==
    [][ lastSwitch # "paused" /\ lastSwitch' = "paused" => ~game'.game_active ]_vars
=============================================================================
