-------------------------- MODULE MCPacedProposer --------------------------
(***************************************************************************)
(* FaultProposer under the assumption that it keeps pace with the clock.   *)
(***************************************************************************)
EXTENDS MCFaultProposer

(* A proposer that works: between two ticks of the clock it completes at   *)
(* least one pass over a block of the current second in which no read      *)
(* fails, and finishes the proofs it has begun.                            *)
VARIABLE worked   \* whether there was such a pass, and no fault since

pacedVars == <<allVars, worked>>

PacedInit == ProposerInit /\ worked = FALSE

PacedNext ==
    \/ Clock /\ worked /\ proving = {} /\ worked' = FALSE
    \/ (World \/ Confirm \/ L2Advances \/ CreationStep \/ SaveEnds) /\ UNCHANGED worked
    \/ TaskStep /\ worked' = (worked /\ faults' = faults)
    \/ Restart /\ worked' = FALSE
    \/ Loop /\ worked' = /\ faults' = faults
                         /\ worked \/ (phase = "spawn" /\ pinned.now = now)

PacedSpec == PacedInit /\ [][PacedNext]_pacedVars

(* One proposer that keeps pace is enough: no canonical claim on canonical *)
(* claims is ever lost, whoever made it and however many are challenged,   *)
(* with the defenses limited to MaxDefenses at a time.                     *)
CanonicalClaimsSurvive ==
    \A i \in Succinct :
        (\A j \in Ancestors(i) : ValidGame(games[j])) => games[i].status # "CHALLENGER_WINS"

(* When it can keep up: games have one type, MAX_GAME_DEADLINE_LAG hides   *)
(* none that is still disputed, and the time to prove is long enough to    *)
(* defend every game in turns of MaxDefenses, one second to each turn.     *)
Defensible ==
    /\ "other" \notin TypesInUse
    /\ MaxDeadlineLag >= 2 * (MaxChallengeDuration + MaxProveDuration)
    /\ MaxGames <= MaxDefenses * (MaxProveDuration - 1)
=============================================================================
