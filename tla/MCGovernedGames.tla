--------------------------- MODULE MCGovernedGames ---------------------------
(***************************************************************************)
(* FaultDisputeGame with interventions of the owner and of the guardian.   *)
(***************************************************************************)
EXTENDS FaultDisputeGame

CONSTANTS alice

Measures == {m \in {"blacklist", "pause", "retire", "respect"} :
                CASE m = "blacklist" -> blacklisted # {}
                  [] m = "pause" -> paused = "yes"
                  [] m = "retire" -> retirementTimestamp # 0
                  [] m = "respect" -> respectedGameType # "succinct"}
SamePermissions == proposers = InitProposers /\ challengers = InitChallengers
Ordinary == \A i \in Indices : games[i].gameType = "succinct" /\ games[i].wasRespected = "yes"
AllNew == \A i \in Indices : games[i].status = "IN_PROGRESS" /\ games[i].proposal = "Unchallenged"
Shallow(b) == \A i \in Indices : games[i].l2Block <= b

(* Where the state space ends: a chain of three games if nobody intervenes,*)
(* two games with a guardian who has one measure in force at a time, three *)
(* games at one height with an owner before anything happens to them.      *)
Explored ==
    \/ Measures = {} /\ SamePermissions /\ Ordinary
    \/ SamePermissions /\ Cardinality(Measures) <= 1 /\ Len(games) <= 2 /\ Shallow(2)
    \/ Measures = {} /\ AllNew /\ Shallow(1)
=============================================================================
