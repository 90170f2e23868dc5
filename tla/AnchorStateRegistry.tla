------------------------- MODULE AnchorStateRegistry -------------------------
(***************************************************************************)
(* The optimism AnchorStateRegistry, external to the repository, as far as *)
(* OPSuccinctFaultDisputeGame uses it: which games are respected, retired, *)
(* blacklisted, proper and finalized, and the anchor game that parentless  *)
(* proposals start from.  The guardian's powers are actions.               *)
(***************************************************************************)
EXTENDS DisputeGameFactory

CONSTANTS
    FinalityDelay,   \* disputeGameFinalityDelaySeconds
    GuardianPowers   \* which of the guardian's setters a run exercises

ASSUME RegistryAssumption ==
    /\ FinalityDelay \in Nat
    /\ GuardianPowers \subseteq {"blacklist", "retire", "respect", "pause"}

VARIABLES
    anchorGame,           \* index of the anchor game, NoParent before the first
    blacklisted,          \* indices of the blacklisted games
    retirementTimestamp,  \* games created at or before it are retired
    respectedGameType,    \* the respected game type
    paused                \* superchain pause: no game is proper meanwhile

registryVars == <<anchorGame, blacklisted, retirementTimestamp, respectedGameType, paused>>

RegistryInit ==
    /\ anchorGame = NoParent
    /\ blacklisted = {}
    /\ retirementTimestamp = 0
    /\ respectedGameType = "succinct"
    /\ paused = "no"

(* getAnchorRoot: before the first anchor game, the configured genesis.    *)
AnchorBlock == IF anchorGame = NoParent THEN 0 ELSE games[anchorGame].l2Block

AnchorRoot == IF anchorGame = NoParent THEN "canonical" ELSE games[anchorGame].claim

IsGameRespected(i) == games[i].wasRespected = "yes"

IsGameBlacklisted(i) == i \in blacklisted

IsGameRetired(i) == games[i].createdAt <= retirementTimestamp

IsGameProper(i) == ~IsGameBlacklisted(i) /\ ~IsGameRetired(i) /\ paused = "no"

IsGameFinalized(i) ==
    /\ games[i].status # "IN_PROGRESS"
    /\ now - games[i].resolvedAt > FinalityDelay

IsGameClaimValid(i) ==
    /\ IsGameProper(i) /\ IsGameRespected(i) /\ IsGameFinalized(i)
    /\ games[i].status = "DEFENDER_WINS"

(* setAnchorState succeeds, or reverts and changes nothing.                *)
AnchorAccepts(i) == IsGameClaimValid(i) /\ games[i].l2Block > AnchorBlock

(* Anyone may call setAnchorState.                                         *)
SetAnchorState(i) ==
    /\ AnchorAccepts(i)
    /\ anchorGame' = i
    /\ UNCHANGED <<blacklisted, retirementTimestamp, respectedGameType, paused>>

Blacklist(i) ==
    /\ "blacklist" \in GuardianPowers
    /\ blacklisted' = blacklisted \union {i}
    /\ UNCHANGED <<anchorGame, retirementTimestamp, respectedGameType, paused>>

UpdateRetirementTimestamp ==
    /\ "retire" \in GuardianPowers
    /\ retirementTimestamp' = now
    /\ UNCHANGED <<anchorGame, blacklisted, respectedGameType, paused>>

SetRespectedGameType(t) ==
    /\ "respect" \in GuardianPowers
    /\ respectedGameType' = t
    /\ UNCHANGED <<anchorGame, blacklisted, retirementTimestamp, paused>>

SetPaused(p) ==
    /\ "pause" \in GuardianPowers
    /\ paused' = p
    /\ UNCHANGED <<anchorGame, blacklisted, retirementTimestamp, respectedGameType>>
=============================================================================
