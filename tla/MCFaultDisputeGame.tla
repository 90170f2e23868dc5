------------------------- MODULE MCFaultDisputeGame -------------------------
(***************************************************************************)
(* Small instances of FaultDisputeGame for TLC.                            *)
(***************************************************************************)
EXTENDS FaultDisputeGame

CONSTANTS alice, bob

(* Anybody may resolve a game and claim for anybody, and somebody does in  *)
(* the end: the agents poll for both.                                      *)
LiveSpec ==
    /\ Spec
    /\ WF_vars(PassTime)
    /\ \A i \in 1..MaxGames :
          /\ WF_vars(i \in Indices /\ Resolve(i))
          /\ \A a \in Addresses : WF_vars(i \in Indices /\ ClaimCredit(i, a))

(* Resolved so late that the model's clock stops before finality.          *)
CutShort(g) == g.status # "IN_PROGRESS" /\ g.resolvedAt + FinalityDelay >= MaxTime

(* Every bond posted is paid out in the end: no order of challenges,       *)
(* proofs, lost parents, guardian decisions and claims leaves a game that  *)
(* resolve cannot settle or ether that claimCredit cannot release.         *)
EveryBondPaidOut ==
    \A i \in 1..MaxGames :
        (i \in Succinct) ~> (i \in Succinct /\ (games[i].balance = 0 \/ CutShort(games[i])))
=============================================================================
