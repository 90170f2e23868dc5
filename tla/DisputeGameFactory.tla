------------------------- MODULE DisputeGameFactory -------------------------
(***************************************************************************)
(* The part of the optimism DisputeGameFactory that OPSuccinctFault-       *)
(* DisputeGame and AccessManager read and write: the append-only list of   *)
(* games, and the L1 clock every deadline is measured against.  The        *)
(* factory is external to the repository; what is modelled is what the     *)
(* contracts call: create, gameAtIndex, gameCount.                         *)
(*                                                                         *)
(* games[i] is the game with factory index i - 1; parent NoParent stands   *)
(* for a parentIndex of uint32.max.                                        *)
(***************************************************************************)
EXTENDS Integers, Sequences, FiniteSets

CONSTANTS
    Actors,     \* accounts that send transactions
    NoAddress,  \* address(0)
    MaxGames,   \* bound: number of games the factory ever holds
    MaxBlock,   \* bound: L2 blocks 1..MaxBlock can be proposed, 0 is genesis
    MaxStride,  \* bound: a proposal is at most this many blocks past its start
    MaxTime,    \* bound: the L1 clock stops here
    LastCreation, \* bound: no game is created after this time
    InitBond,       \* the bond the factory requires for create
    ChallengerBond  \* CHALLENGER_BOND

ASSUME FactoryAssumption ==
    /\ NoAddress \notin Actors /\ Actors # {}
    /\ MaxGames \in Nat /\ MaxBlock \in Nat /\ MaxStride \in Nat
    /\ MaxTime \in Nat /\ LastCreation \in Nat
    /\ InitBond \in Nat /\ ChallengerBond \in Nat

VARIABLES
    games,  \* the factory's _disputeGameList, with every game's storage
    now     \* block.timestamp

Addresses == Actors \union {NoAddress}

NoParent == 0

(* An output root is told apart only by whether it is the root of the      *)
(* canonical L2 chain at its block.                                        *)
Roots == {"canonical", "forged"}

GameTypes == {"succinct", "other"}

GameStatuses == {"IN_PROGRESS", "CHALLENGER_WINS", "DEFENDER_WINS"}

ProposalStatuses == {"Unchallenged", "Challenged",
                     "UnchallengedAndValidProofProvided",
                     "ChallengedAndValidProofProvided", "Resolved"}

BondDistributionModes == {"UNDECIDED", "NORMAL", "REFUND"}

(* A game proxy: the immutable arguments of the clone, claimData, the      *)
(* bookkeeping of bonds, and the ether it holds.                           *)
Game == [ gameType     : GameTypes,
          parent       : 0..MaxGames,
          l2Block      : 1..MaxBlock,
          claim        : Roots,
          creator      : Actors,
          startBlock   : 0..MaxBlock,
          startRoot    : Roots,
          createdAt    : Nat,
          wasRespected : {"yes", "no"},
          proposal     : ProposalStatuses,
          counteredBy  : Addresses,
          prover       : Addresses,
          deadline     : Nat,
          status       : GameStatuses,
          resolvedAt   : Nat,
          mode         : BondDistributionModes,
          balance      : Nat,
          refund       : [Addresses -> Nat],
          normal       : [Addresses -> Nat] ]

Indices == 1..Len(games)

NoCredit == [a \in Addresses |-> 0]

(* create: the UUID hashes (type, claim, l2Block, parent), so no two games *)
(* agree on all four.                                                      *)
UniqueUUID(type, root, block, par) ==
    \A i \in Indices : ~ /\ games[i].gameType = type
                         /\ games[i].claim = root
                         /\ games[i].l2Block = block
                         /\ games[i].parent = par

FactoryInit == games = << >> /\ now = 1

(* L1 blocks go by: several transactions may share a timestamp.            *)
Tick == now < MaxTime /\ now' = now + 1
=============================================================================
