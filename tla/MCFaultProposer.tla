-------------------------- MODULE MCFaultProposer --------------------------
(***************************************************************************)
(* Small instances of FaultProposer for TLC, with the fairness that its    *)
(* runtime and its nodes justify.                                          *)
(***************************************************************************)
EXTENDS FaultProposer

CONSTANTS me, other

-----------------------------------------------------------------------------
Clean(A) == A /\ UNCHANGED faults

KindStep(k) == \E i \in pending[k] : Attempt(k, i) \/ PassOver(k, i)

ProvingStep == \E task \in proving : ProveSucceeds(task) \/ ProveFails(task)

(* Time passes, the confirmed block follows the head, and the loop and     *)
(* each of its tasks go on.  There are at most MaxFaults faults, so what   *)
(* is tried again succeeds in the end.  Nothing is assumed of the others.  *)
FairSpec ==
    /\ ProposerSpec
    /\ WF_allVars(Clock)
    /\ SF_allVars(Confirm)
    /\ WF_allVars(Clean(Loop))
    /\ WF_allVars(Clean(CreationStep))
    /\ WF_allVars(Clean(ProvingStep))
    /\ \A k \in Kinds : WF_allVars(Clean(KindStep(k)))

(* The proposer's own games come to an end without anybody's help, across  *)
(* failed passes, lost transactions and restarts: unless it is challenged, *)
(* a game on a settled parent is resolved after its deadline.              *)
OwnGamesGetResolved ==
    \A i \in 1..MaxGames :
        (/\ i \in Succinct /\ games[i].creator = Self /\ games[i].status = "IN_PROGRESS"
         /\ games[i].deadline < MaxTime /\ ParentGameStatus(games[i]) = "DEFENDER_WINS")
        ~> (i \in Succinct /\ (games[i].status # "IN_PROGRESS" \/ games[i].proposal = "Challenged"))

(* What a won game owes the proposer is paid to it in the end.             *)
OwnBondsGetPaid ==
    \A i \in 1..MaxGames :
        (/\ i \in Succinct /\ ValidGame(games[i]) /\ games[i].status = "DEFENDER_WINS"
         /\ games[i].resolvedAt + FinalityDelay < MaxTime)
        ~> (/\ i \in Succinct /\ games[i].mode # "UNDECIDED"
            /\ Credit(games[i], games[i].mode, Self) = 0)
=============================================================================
