------------------------- MODULE MCPacedChallenger -------------------------
(***************************************************************************)
(* FaultChallenger under the assumption that it keeps pace with the clock. *)
(***************************************************************************)
EXTENDS MCFaultChallenger

(* A challenger that works: between two ticks of the clock it completes at *)
(* least one cycle in which every read succeeds, the validator answers for *)
(* every game and every transaction gets its receipt, over a block of the  *)
(* current second.  Any number of faulty cycles, restarts and timeouts may *)
(* come before it.  Transactions given up on are lost here.                *)
VARIABLE clean   \* whether the cycle under way has been free of errors

pacedVars == <<allVars, clean>>

PacedInit == ChallengerInit /\ clean = FALSE

CleanSync == SyncState({}, {}, ToValidate) /\ pinned.now = now

PacedNext ==
    \/ Clock /\ clean /\ todo = {} /\ awaiting = NoTx /\ clean' = FALSE
    \/ World /\ UNCHANGED clean
    \/ Confirm /\ UNCHANGED clean
    \/ Cycle /\ clean' = (CleanSync
                        \/ /\ clean /\ todo # {} /\ ~TimedOut
                           /\ \A i \in todo \ {MaliceTurn} :
                                Skip(i) => ~Preflight([kind |-> Handler(i), index |-> i]))
    \/ Restart /\ clean' = FALSE

PacedSpec == PacedInit /\ [][PacedNext]_pacedVars

(* Where it can be enough: the challenger is whitelisted and challenges,   *)
(* every game is of the type it watches, the type stays respected, and a   *)
(* game is open to challenges for more than the time between two cycles.   *)
Protectable ==
    /\ Modes \subseteq {"active"} /\ {Self, NoAddress} \intersect InitChallengers # {}
    /\ "other" \notin TypesInUse /\ "respect" \notin GuardianPowers
    /\ MaxChallengeDuration > 1

(* One challenger that keeps pace is enough: no forged claim on a          *)
(* canonical start wins, so the anchor never leaves the canonical chain,   *)
(* whatever the other accounts propose, prove, resolve and close, and      *)
(* however many cycles fail in between.                                    *)
AnchorIsProtected ==
    /\ AnchorRoot = "canonical"
    /\ \A i \in Succinct : FirstLie(games[i]) => games[i].status # "DEFENDER_WINS"
=============================================================================
