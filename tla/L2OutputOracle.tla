--------------------------- MODULE L2OutputOracle ---------------------------
(***************************************************************************)
(* OPSuccinctL2OutputOracle.sol with OPSuccinctDisputeGame.sol, the game   *)
(* it creates for every output once a dispute game factory is set.         *)
(* Transactions are atomic, so _enteredDGFCreate is true only inside       *)
(* DgfProposeL2Output and is a parameter, not a variable.                  *)
(***************************************************************************)
EXTENDS Integers, Sequences

CONSTANTS
    Actors,        \* accounts that originate transactions
    NoAddress,     \* address(0)
    ConfigNames,   \* names of OP Succinct configurations
    GenesisConfig, \* GENESIS_CONFIG_NAME
    FallbackTimeout, L2BlockTime, HashWindow,
    Intervals,     \* submission intervals the owner may set
    Periods,       \* finalization periods the owner may set
    L1Blocks,      \* L1 blocks whose hash may be checkpointed, numbered by time
    Powers,        \* which privileged operations a run exercises
    MaxOutputs, MaxBlock, MaxTime, MaxGames  \* bounds

ASSUME OracleAssumption ==
    /\ NoAddress \notin Actors
    /\ GenesisConfig \in ConfigNames
    /\ Intervals \subseteq Nat /\ Periods \subseteq Nat /\ L1Blocks \subseteq Nat
    /\ Intervals # {} /\ Periods # {}
    /\ \A n \in {FallbackTimeout, L2BlockTime, HashWindow, MaxOutputs, MaxBlock, MaxTime, MaxGames} :
          n \in Nat
    /\ Powers \subseteq {"delete", "proposers", "configs", "interval", "optimistic",
                         "factory", "upgrade"}

VARIABLES
    l2Outputs,    \* index i of the contract is l2Outputs[i + 1]
    submissionInterval,
    finalizationPeriodSeconds,
    approvedProposers,
    historicBlockHashes,  \* the L1 blocks checkpointed
    optimisticMode,       \* "on" or "off"
    opSuccinctConfigs,    \* the names whose configuration is valid
    disputeGameFactory,   \* "set" or "unset"
    games,                \* the OPSuccinctDisputeGames
    upgraded,             \* whether the reinitializer has run
    now

settings == <<submissionInterval, finalizationPeriodSeconds, approvedProposers,
              optimisticMode, opSuccinctConfigs, disputeGameFactory, upgraded>>

vars == <<l2Outputs, settings, historicBlockHashes, games, now>>

Roots == {"canonical", "forged"}

(* via is history: how the output was accepted.                            *)
Output == [root : Roots, timestamp : Nat, block : Nat,
           via : {"genesis", "proof", "optimistic"}]

Genesis == [root |-> "canonical", timestamp |-> 0, block |-> 0,
            via |-> "genesis"]

Init ==
    /\ l2Outputs = <<Genesis>>
    /\ submissionInterval \in Intervals \ {0}
    /\ finalizationPeriodSeconds \in Periods
    /\ \E p \in Actors : approvedProposers = {p}
    /\ historicBlockHashes = {}
    /\ optimisticMode = "off"
    /\ opSuccinctConfigs = {GenesisConfig}
    /\ disputeGameFactory = "unset"
    /\ games = << >>
    /\ upgraded = "no"
    /\ now = 1

-----------------------------------------------------------------------------
LatestOutput == l2Outputs[Len(l2Outputs)]

LatestBlockNumber == LatestOutput.block

NextBlockNumber == LatestBlockNumber + submissionInterval

LastProposalTimestamp == LatestOutput.timestamp

ComputeL2Timestamp(block) == Genesis.timestamp + (block - Genesis.block) * L2BlockTime

\* mutant: the midpoint itself is dropped from the upper half
SearchStep_SkipsMid(lo, hi, block) ==
    LET mid == (lo + hi) \div 2 IN
    IF l2Outputs[mid + 1].block < block \/ mid = lo THEN <<mid + 1, hi>> ELSE <<lo, mid - 1>>

(* One turn of the loop of getL2OutputIndexAfter.                          *)
SearchStep(lo, hi, block) ==
    LET mid == (lo + hi) \div 2 IN
    IF l2Outputs[mid + 1].block < block THEN <<mid + 1, hi>> ELSE <<lo, mid>>

GetL2OutputIndexAfter(block) ==
    LET n == Len(l2Outputs)
        loop[r \in (-1..n) \X (-1..n)] ==
            IF r[1] >= r[2] THEN r[1] ELSE loop[SearchStep(r[1], r[2], block)]
    IN  loop[<<0, n>>]

-----------------------------------------------------------------------------
(* proposeL2Output with a proof: an approved proposer, or anyone, or       *)
(* anyone after a silence.                                                 *)
IsAllowedProposer(sender) ==
    \/ sender \in approvedProposers \/ NoAddress \in approvedProposers
    \/ now - LastProposalTimestamp > FallbackTimeout

\* mutant: the proof is not bound to a previous output at all
ProofVerifies_AnyPreRoot(root) == root \in Roots

(* verifyProof from the latest output's root: sound, and nothing is known  *)
(* of a forged start.                                                      *)
ProofVerifies(root) == LatestOutput.root = "forged" \/ root = "canonical"

Push(root, block, via) ==
    /\ Len(l2Outputs) < MaxOutputs
    /\ l2Outputs' = Append(l2Outputs, [root |-> root, timestamp |-> now, block |-> block,
                                       via |-> via])

\* mutant: the caller does not matter
EnteredAsRequired_Unchecked(entered) == entered \in BOOLEAN

(* With a factory set, only from inside DisputeGameFactory.create; without *)
(* one, only from outside of it.                                           *)
EnteredAsRequired(entered) == entered = (disputeGameFactory = "set")

(* The body of proposeL2Output(config, root, block, l1Block, proof, prover).*)
AcceptProven(sender, config, root, block, l1Block, entered) ==
    /\ optimisticMode = "off"
    /\ IsAllowedProposer(sender)
    /\ block >= NextBlockNumber
    /\ ComputeL2Timestamp(block) < now
    /\ EnteredAsRequired(entered)
    /\ config \in opSuccinctConfigs
    /\ l1Block \in historicBlockHashes
    /\ ProofVerifies(root)
    /\ Push(root, block, "proof")

ProposeL2Output(sender, config, root, block, l1Block) ==
    /\ AcceptProven(sender, config, root, block, l1Block, FALSE)
    /\ UNCHANGED <<settings, historicBlockHashes, games, now>>

(* OPSuccinctDisputeGame.initialize: propose, then resolve at once.        *)
NewGame(root, block) ==
    /\ Len(games) < MaxGames
    /\ games' = Append(games, [root |-> root, block |-> block, createdAt |-> now,
                               status |-> "DEFENDER_WINS"])

DgfProposeL2Output(sender, config, root, block, l1Block) ==
    /\ disputeGameFactory = "set"
    /\ AcceptProven(sender, config, root, block, l1Block, TRUE)
    /\ NewGame(root, block)
    /\ UNCHANGED <<settings, historicBlockHashes, now>>

(* Anyone may call create of a factory that knows the game type: initialize *)
(* then calls the oracle without the oracle having entered.                *)
CreateDirectly(sender, config, root, block, l1Block) ==
    /\ AcceptProven(sender, config, root, block, l1Block, FALSE)
    /\ NewGame(root, block)
    /\ UNCHANGED <<settings, historicBlockHashes, now>>

(* initialize of an existing game has no guard of its own: it can be       *)
(* called again whenever the oracle would accept the same output again.    *)
InitializeAgain(sender, i, config, l1Block) ==
    /\ AcceptProven(sender, config, games[i].root, games[i].block, l1Block, FALSE)
    /\ games' = [games EXCEPT ![i] = [games[i] EXCEPT !.createdAt = now]]
    /\ UNCHANGED <<settings, historicBlockHashes, now>>

(* proposeL2Output(root, block, l1Hash, l1Block): no proof, no fallback,   *)
(* the next block exactly.                                                 *)
ProposeOptimistic(sender, root, block) ==
    /\ optimisticMode = "on"
    /\ sender \in approvedProposers \/ NoAddress \in approvedProposers
    /\ block = NextBlockNumber
    /\ ComputeL2Timestamp(block) < now
    /\ Push(root, block, "optimistic")
    /\ UNCHANGED <<settings, historicBlockHashes, games, now>>

\* mutant: the newest output decides whether the suffix is still open
StillDeletable_Newest(n) == now - LatestOutput.timestamp < finalizationPeriodSeconds

StillDeletable(n) == now - l2Outputs[n + 1].timestamp < finalizationPeriodSeconds

(* deleteL2Outputs by the challenger: the suffix from contract index n.    *)
DeleteL2Outputs(n) ==
    /\ "delete" \in Powers
    /\ n > 0 /\ n < Len(l2Outputs)
    /\ StillDeletable(n)
    /\ l2Outputs' = SubSeq(l2Outputs, 1, n)
    /\ UNCHANGED <<settings, historicBlockHashes, games, now>>

(* blockhash is known for the last HashWindow blocks only.                 *)
CheckpointBlockHash(n) ==
    /\ n < now /\ now - n <= HashWindow
    /\ historicBlockHashes' = historicBlockHashes \union {n}
    /\ UNCHANGED <<l2Outputs, settings, games, now>>

-----------------------------------------------------------------------------
(* The owner's operations.                                                 *)

ValidInterval(n) == n > 0

UpdateSubmissionInterval(n) ==
    /\ "interval" \in Powers
    /\ ValidInterval(n)
    /\ submissionInterval' = n
    /\ UNCHANGED <<finalizationPeriodSeconds, approvedProposers, optimisticMode,
                   opSuccinctConfigs, disputeGameFactory, upgraded>>

SetProposer(a, approved) ==
    /\ "proposers" \in Powers
    /\ approvedProposers' = IF approved THEN approvedProposers \union {a}
                            ELSE approvedProposers \ {a}
    /\ UNCHANGED <<submissionInterval, finalizationPeriodSeconds, optimisticMode,
                   opSuccinctConfigs, disputeGameFactory, upgraded>>

AddOpSuccinctConfig(c) ==
    /\ "configs" \in Powers
    /\ c \notin opSuccinctConfigs
    /\ opSuccinctConfigs' = opSuccinctConfigs \union {c}
    /\ UNCHANGED <<submissionInterval, finalizationPeriodSeconds, approvedProposers,
                   optimisticMode, disputeGameFactory, upgraded>>

DeleteOpSuccinctConfig(c) ==
    /\ "configs" \in Powers
    /\ opSuccinctConfigs' = opSuccinctConfigs \ {c}
    /\ UNCHANGED <<submissionInterval, finalizationPeriodSeconds, approvedProposers,
                   optimisticMode, disputeGameFactory, upgraded>>

(* enableOptimisticMode and disableOptimisticMode, each with a new window. *)
ToggleOptimisticMode(mode, period) ==
    /\ "optimistic" \in Powers
    /\ optimisticMode # mode
    /\ optimisticMode' = mode
    /\ finalizationPeriodSeconds' = period
    /\ UNCHANGED <<submissionInterval, approvedProposers, opSuccinctConfigs,
                   disputeGameFactory, upgraded>>

SetDisputeGameFactory(f) ==
    /\ "factory" \in Powers
    /\ disputeGameFactory' = f
    /\ UNCHANGED <<submissionInterval, finalizationPeriodSeconds, approvedProposers,
                   optimisticMode, opSuccinctConfigs, upgraded>>

(* initialize as the reinitializer of an upgrade: the outputs and the mode *)
(* stay, the factory is forgotten.                                         *)
Upgrade(interval, period, proposer) ==
    /\ "upgrade" \in Powers
    /\ upgraded = "no"
    /\ ValidInterval(interval)
    /\ upgraded' = "yes"
    /\ submissionInterval' = interval
    /\ finalizationPeriodSeconds' = period
    /\ approvedProposers' = approvedProposers \union {proposer}
    /\ opSuccinctConfigs' = opSuccinctConfigs \union {GenesisConfig}
    /\ disputeGameFactory' = "unset"
    /\ UNCHANGED optimisticMode

OwnerStep ==
    /\ \/ \E n \in Intervals : UpdateSubmissionInterval(n)
       \/ \E a \in Actors \union {NoAddress}, b \in BOOLEAN : SetProposer(a, b)
       \/ \E c \in ConfigNames : AddOpSuccinctConfig(c) \/ DeleteOpSuccinctConfig(c)
       \/ \E m \in {"on", "off"}, p \in Periods : ToggleOptimisticMode(m, p)
       \/ \E f \in {"set", "unset"} : SetDisputeGameFactory(f)
       \/ \E n \in Intervals, p \in Periods, a \in Actors : Upgrade(n, p, a)
    /\ UNCHANGED <<l2Outputs, historicBlockHashes, games, now>>

Tick ==
    /\ now < MaxTime
    /\ now' = now + 1
    /\ UNCHANGED <<l2Outputs, settings, historicBlockHashes, games>>

Next ==
    \/ Tick
    \/ OwnerStep
    \/ \E n \in L1Blocks : CheckpointBlockHash(n)
    \/ \E n \in 1..MaxOutputs : DeleteL2Outputs(n)
    \/ \E s \in Actors, c \in ConfigNames, r \in Roots, b \in 1..MaxBlock, l \in L1Blocks :
          \/ ProposeL2Output(s, c, r, b, l)
          \/ DgfProposeL2Output(s, c, r, b, l)
          \/ CreateDirectly(s, c, r, b, l)
    \/ \E s \in Actors, i \in 1..Len(games), c \in ConfigNames, l \in L1Blocks :
          InitializeAgain(s, i, c, l)
    \/ \E s \in Actors, r \in Roots, b \in 1..MaxBlock : ProposeOptimistic(s, r, b)

Spec == Init /\ [][Next]_vars

-----------------------------------------------------------------------------
(* Properties.                                                             *)

(* getL2OutputIndexAfter returns the first output at or after the block,   *)
(* for every block up to the latest.                                       *)
SearchFindsFirst ==
    \A b \in 0..LatestBlockNumber :
        LET k == GetL2OutputIndexAfter(b) IN
        /\ k \in 0..Len(l2Outputs) - 1
        /\ l2Outputs[k + 1].block >= b
        /\ \A j \in 0..k - 1 : l2Outputs[j + 1].block < b

(* An output accepted with a proof is canonical if the output before it    *)
(* is, even after optimistic phases and deletions in between: proofs always *)
(* start from the output they are stored behind.                           *)
ProvenExtendsPrevious ==
    \A i \in 2..Len(l2Outputs) :
        l2Outputs[i].via = "proof" /\ l2Outputs[i - 1].root = "canonical" =>
            l2Outputs[i].root = "canonical"

(* A deletion never takes an output whose finalization period, as it is    *)
(* then, has passed; nor the genesis output.                               *)
FinalizedNeverDeleted ==
    [][\A i \in 1..Len(l2Outputs) :
        i = 1 \/ now - l2Outputs[i].timestamp >= finalizationPeriodSeconds =>
            i <= Len(l2Outputs') /\ l2Outputs'[i] = l2Outputs[i]]_vars

(* While a dispute game factory is set, a proven output is stored only     *)
(* together with the game for it.                                          *)
OutputsComeWithGames ==
    [][disputeGameFactory = "set" /\ optimisticMode = "off" /\ Len(l2Outputs') > Len(l2Outputs) =>
        /\ Len(games') = Len(games) + 1
        /\ games'[Len(games')].root = l2Outputs'[Len(l2Outputs')].root
        /\ games'[Len(games')].block = l2Outputs'[Len(l2Outputs')].block]_vars
=============================================================================
