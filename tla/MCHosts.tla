------------------------------ MODULE MCHosts ------------------------------
(***************************************************************************)
(* The validator, the estimator and the prover against the nodes they      *)
(* read.  Each is a program of its own and they share nothing but the      *)
(* nodes, which none of them changes, so a behaviour has one of them; the  *)
(* nodes move in the ways that program can tell apart.                     *)
(***************************************************************************)
EXTENDS OPStackGameValidator, CostEstimator, GameProver

VARIABLE client

vars == <<nodeVars, val, est, proverVars, client>>

\* Two branches: on a, block 2 ends one batch and block 3 another of two
\* blocks; b carries a different second L2 block, in block 3.
TwoBranches ==
    [b \in Blocks |->
        CASE b[1] = 0 -> <<>>
          [] b[1] = 1 -> <<"l2">>
          [] b = <<2, "a">> -> <<"l2", "a">>
          [] b = <<2, "b">> -> <<"l2">>
          [] b[1] > 2 /\ b[2] = "a" -> <<"l2", "a", "aa", "aaa">>
          [] OTHER -> <<"l2", "b">>]

Default ==
    [tag |-> "finalized", confirmations |-> 0, safeDb |-> TRUE, fallback |-> FALSE,
     noSplit |-> FALSE, rolling |-> FALSE, logOnly |-> FALSE,
     start |-> 0, end |-> 0, range |-> 3, batch |-> 2]

\* The default selection; selections that may be reorganized, with and
\* without the database they need; a rolling range; an end inside a batch;
\* the timestamp fallback; the fixed-size splitter.
SampleSettings ==
    {Default,
     [Default EXCEPT !.tag = "latest", !.confirmations = 1, !.logOnly = TRUE],
     [Default EXCEPT !.tag = "latest", !.safeDb = FALSE],
     [Default EXCEPT !.tag = "safe", !.rolling = TRUE, !.batch = 1, !.range = 2],
     [Default EXCEPT !.tag = "latest", !.start = 1, !.end = 3],
     [Default EXCEPT !.safeDb = FALSE, !.fallback = TRUE, !.start = 1, !.end = 2],
     [Default EXCEPT !.noSplit = TRUE, !.tag = "latest", !.end = 2]}

\* A game over both batches of branch a.
SampleGame == [l1Head |-> <<3, "a">>, start |-> 1, end |-> 4]

Init ==
    /\ NodesInit /\ ValidatorInit /\ EstimatorInit /\ ProverInit
    /\ client \in {"validator", "estimator", "prover"}
    \* the programs that do not run have one initial state
    /\ client # "estimator" => cfg = Default
    /\ client # "prover" => job.mode = CHOOSE m \in Modes : TRUE
    /\ client = "prover" => node.done = node.cur /\ node.cur = Fork

NodesMove ==
    /\ \/ L1Grows \/ L1Reorgs \/ NodeDerives \/ ExecFollows
       \/ client # "prover" /\ NodeResets
       \/ client = "estimator" /\ L1Finalizes
       \/ client # "estimator" /\ ExecRunsAhead
    /\ UNCHANGED <<val, est, proverVars, client>>

ValidatorActs ==
    client = "validator" /\ ValidatorNext /\ UNCHANGED <<nodeVars, est, proverVars, client>>

EstimatorActs ==
    client = "estimator" /\ EstimatorNext /\ UNCHANGED <<nodeVars, val, proverVars, client>>

ProverActs ==
    client = "prover" /\ ProverNext /\ UNCHANGED <<nodeVars, val, est, client>>

Next == NodesMove \/ ValidatorActs \/ EstimatorActs \/ ProverActs

\* Time passes, and an attempt that can go on or fail does one or the other;
\* nothing is assumed of the prover network.
Attempt ==
    /\ client = "prover"
    /\ \/ GetHeaderPreimages \/ RequestAggProof \/ SubmitProof \/ CallFails
       \/ \E i \in 1..Agg : SlotNext(i) \/ DetailsFail(i)
    /\ UNCHANGED <<nodeVars, val, est, client>>

TimePasses == client = "prover" /\ Tick /\ UNCHANGED <<nodeVars, val, est, client>>

Spec == Init /\ [][Next]_vars /\ WF_vars(Attempt) /\ WF_vars(TimePasses)
=============================================================================
