------------------------- MODULE MCValidityProposer -------------------------
(***************************************************************************)
(* The instances of ValidityProposer that TLC checks.                      *)
(***************************************************************************)
EXTENDS ValidityProposer

Scenario(deployment, head, failures, forkings, others) ==
    [mode |-> deployment, l2Head |-> head, faults |-> failures,
     reorgs |-> forkings, foreign |-> others]

(* A failure and a reorganisation together where proofs are bought, one of *)
(* them in the other deployments; a growing L2 chain without failures; and *)
(* two reorganisations, after which a checkpoint may have been taken over. *)
Deployments ==
    {Scenario("network", 2, 1, 1, 0), Scenario("network", 2, 0, 0, 1),
     Scenario("cluster", 2, 1, 0, 0), Scenario("cluster", 2, 0, 1, 0),
     Scenario("mock", 2, 0, 2, 0), Scenario("mock", 1, 0, 0, 0),
     Scenario("agglayer", 2, 1, 1, 0)}
=============================================================================
