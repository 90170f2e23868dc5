------------------------- MODULE MCFaultChallenger -------------------------
(***************************************************************************)
(* Small instances of FaultChallenger for TLC, with the fairness that its  *)
(* nodes justify.                                                          *)
(***************************************************************************)
EXTENDS FaultChallenger

CONSTANTS me, other

-----------------------------------------------------------------------------
(* Reads, validations and transactions that are tried again and again      *)
(* succeed now and then; nothing is assumed of the other accounts.         *)
FairSpec ==
    /\ ChallengerSpec
    /\ WF_allVars(Clock) /\ WF_allVars(Confirm) /\ WF_allVars(Cycle)
    /\ SF_allVars(SyncState({}, {}, ToValidate))
    /\ SF_allVars(Included)
    /\ \A i \in 1..MaxGames : SF_allVars(i \in todo /\ Send(i, i))

(* A game the challenger rightly countered is resolved: by the challenger  *)
(* itself if by nobody else, across failed cycles and restarts.  (In the   *)
(* testing mode a restart can always come before the turn of resolve.)     *)
OwnDisputesGetResolved ==
    \A i \in 1..MaxGames :
        (/\ config = "active" /\ i \in Succinct
         /\ games[i].counteredBy = Self /\ FirstLie(games[i]) /\ games[i].parent = NoParent
         /\ games[i].deadline < MaxTime)
        ~> (i \in Succinct /\ games[i].status = "CHALLENGER_WINS")

(* What a lost game owes the challenger is paid to it in the end, unless   *)
(* closing the game failed MAX_CLOSE_GAME_FAILURES times.                  *)
OwnWinsGetPaid ==
    \A i \in 1..MaxGames :
        (/\ config = "active" /\ i \in Succinct
         /\ games[i].status = "CHALLENGER_WINS" /\ games[i].counteredBy = Self
         /\ games[i].resolvedAt + FinalityDelay < MaxTime)
        ~> (\/ i \in Succinct /\ games[i].mode # "UNDECIDED" /\ Credit(games[i], games[i].mode, Self) = 0
            \/ closeGameFailures[i] = MaxCloseGameFailures)
=============================================================================
