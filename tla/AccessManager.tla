---------------------------- MODULE AccessManager ----------------------------
(***************************************************************************)
(* AccessManager.sol: the whitelists of proposers and challengers and the  *)
(* permissionless fallback that opens proposing to everyone once no game   *)
(* of the OP Succinct type has been created for FallbackTimeout seconds.   *)
(***************************************************************************)
EXTENDS DisputeGameFactory

CONSTANTS
    FallbackTimeout,      \* FALLBACK_TIMEOUT
    DeploymentTimestamp,  \* DEPLOYMENT_TIMESTAMP
    InitProposers, InitChallengers,  \* the whitelists set at deployment
    OwnerPowers           \* which of the owner's setters a run exercises

ASSUME AccessAssumption ==
    /\ FallbackTimeout \in Nat
    /\ DeploymentTimestamp \in Nat
    /\ InitProposers \subseteq Addresses
    /\ InitChallengers \subseteq Addresses
    /\ OwnerPowers \subseteq {"setProposer", "setChallenger"}

VARIABLES
    proposers,   \* the addresses whose proposers[] flag is set
    challengers  \* the addresses whose challengers[] flag is set

AccessInit ==
    /\ proposers = InitProposers
    /\ challengers = InitChallengers

(* onlyOwner: the owner flips one entry of a whitelist.                    *)
SetProposer(a, allowed) ==
    /\ "setProposer" \in OwnerPowers
    /\ proposers' = IF allowed THEN proposers \union {a} ELSE proposers \ {a}
    /\ UNCHANGED challengers

SetChallenger(a, allowed) ==
    /\ "setChallenger" \in OwnerPowers
    /\ challengers' = IF allowed THEN challengers \union {a} ELSE challengers \ {a}
    /\ UNCHANGED proposers

\* mutant: only the newest game of the factory is looked at
GetLastProposalTimestamp_NewestOnly ==
    IF games = << >> \/ games[Len(games)].gameType # "succinct"
    THEN DeploymentTimestamp ELSE games[Len(games)].createdAt

(* The backward scan for the newest game of the OP Succinct type, which    *)
(* gives up at the first game older than this contract.                    *)
GetLastProposalTimestamp ==
    LET scan[i \in 0..Len(games)] ==
            IF i = 0 \/ games[i].createdAt < DeploymentTimestamp THEN DeploymentTimestamp
            ELSE IF games[i].gameType = "succinct" THEN games[i].createdAt
            ELSE scan[i - 1]
    IN  scan[Len(games)]

IsProposalPermissionlessMode ==
    \/ NoAddress \in proposers
    \/ now - GetLastProposalTimestamp > FallbackTimeout

IsAllowedProposer(a) == a \in proposers \/ IsProposalPermissionlessMode

IsAllowedChallenger(a) == NoAddress \in challengers \/ a \in challengers
=============================================================================
