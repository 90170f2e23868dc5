# TLA+ verification of OP Succinct (Celo)

OP Succinct turns an OP Stack rollup into one whose output roots are backed by
SP1 validity proofs. It comes in two flavours that share the proving code:

* **fault proof ("Lite")**: proposals are optimistic dispute games on L1; a
  challenger disputes a wrong one and only then a proof is needed;
* **validity**: every output root is proved before an oracle contract takes it.

This directory models the contracts and the agents around them, checks the models
with TLC on small instances and proves the central facts with TLAPS.

## 1. Inventory

| Component (source) | State | Operations | Modelled in |
|---|---|---|---|
| `OPSuccinctFaultDisputeGame` (`contracts/src/fp`) | claim data, deadline, status, bond mode, two credit mappings, balance | initialize, challenge, prove, resolve, closeGame, claimCredit | `FaultDisputeGame` |
| `AccessManager` (`contracts/src/fp`) | whitelists of proposers and challengers | the setters, the permissionless fallback | `AccessManager` |
| factory and registry of optimism (external) | list of games, anchor game, blacklist, retirement time, respected type, pause | create, setAnchorState, guardian setters | `DisputeGameFactory`, `AnchorStateRegistry` |
| `OPSuccinctL2OutputOracle`, `OPSuccinctDisputeGame` (`contracts/src/validity`) | outputs, intervals, approvals, checkpoints, mode, configurations | propose (two modes), through the factory, delete, checkpoint, setters, reinitialize | `L2OutputOracle` |
| Challenger (`fault-proof/src/challenger.rs`) | cursor, cached games with validation and flags, retry queue, close failures | sync, challenge, resolve, close, claim, restart | `FaultChallenger` |
| Proposer (`fault-proof/src/proposer.rs`, `backup.rs`) | cursor, cached games and removed ones, anchor, canonical head, creation guard, task map, close failures, backup file | sync a confirmed block, back up, create, prove and defend, resolve, close, claim, restart and rebuild | `FaultProposer` (without L1 reorgs) |
| Proving for one game (`fault-proof/src/prover.rs`, `prove_game`, aggregation program) | one slot per range and one for the aggregation, requests at the network | split, prove ranges concurrently, poll with two timeouts, fetch headers, aggregate, submit | `GameProver` |
| OP Stack validator (`fault-proof/src/op_stack_game_validator.rs`) | the answers read so far | pairing at startup, a chain of RPC reads with guards between them | `OPStackGameValidator` (an oracle in `FaultChallenger`) |
| Validity proposer (`validity/src/proposer.rs`, `proof_requester.rs`) | loop position, tasks and their handles | poll proofs, retry and split, reconcile with L1, plan ranges, checkpoint, aggregate, request, relay, restart | `ValidityProposer`, `RangePlanner` |
| Request database (`validity/src/db`) | rows with status, L1 head, checkpoint, invalidation | the SQL statements | `RequestDatabase` |
| Host helpers and cost estimator (`utils/host`, `scripts/utils/bin/cost_estimator.rs`) | the plan being made | select an L1 block, choose and split a range, find L1 heads, execute, report | `CostEstimator` |
| Game monitor (`scripts/utils/bin/game_monitor.rs`, `utils/common/src/sequence_tracker.rs`) | queues of primary and background attempts, running children, contiguous end, `progress.json` | poll loop, reaping, retries, eviction, restart, `gen-background-retry` | `GameMonitor` |
| L1 node, op-node, execution node (external) | L1 branch, derivation position, safe-head records, L2 chain | answer reads; grow, reorganize, reset | `RollupNodes` |
| Signer (`utils/signer`) | a lock | send and wait for the receipt | seen through receipt, revert and timeout |
| Range and aggregation programs, client, data availability | none | derivation and execution in the zkVM | `ProofVerifies` assumes their soundness |
| Other scripts, bindings, ELFs | none | operator tools, generated code | not modelled |

**How they interact.** Agents read L1 at a *confirmed* block and act at the head: they
call the contracts by transactions that may be included, revert, or time out and land
later. Contracts call each other synchronously inside one transaction. The games form a
tree through `parentIndex`; the registry's anchor is the root new trees start from. The
validity proposer's loop, the tasks it spawns and the prover network meet only in the
request table. The challenger's validator, the prover and the estimator put an answer
together from several reads of nodes that move between them.

**What is hard.** Games are settled in the order of the tree while challenges, proofs,
guardian decisions and the clock interleave freely; one account may be proposer,
challenger and prover at once; agents decide on stale reads, keep their work in memory
and are restarted; every read may fail for one game and succeed for the next; a
transaction reported as failed may have succeeded; a proof takes long enough for L1 to be
reorganized under it, for its request to be withdrawn, or for its process to be gone.

**What makes each part correct.**
* games: bonds are conserved, verdicts follow the tree and are final, one honest
  challenge beats a lie, the anchor stays canonical;
* access: outsiders propose only after silence;
* oracle: the search is right, proved outputs extend their predecessor, finalized
  outputs stay, games and outputs go together;
* challenger: nothing that needs it is forgotten, it disputes only what is wrong, what
  it wins is resolved and paid, and if it keeps pace no lie wins;
* proposer: no second proposal beside one that can still win, no guard that blocks
  proposals for a game that is gone, what it creates is resolved, what it wins is paid,
  and if it keeps pace no canonical claim is lost;
* validity proposer: an aggregation rests on completed ranges as long as it lives, one that
  the oracle would refuse is discarded, a withdrawn request stays withdrawn, and everything
  due is proposed in the end;
* monitor: background retries survive restarts, the progress file skips no game (but, as the
  code is, the first of a launch), every game settles;
* validator: a verdict is the one the game's L1 head calls for, or unavailable;
* estimator: the ranges cut the range asked for and each head derives its range; if the nodes
  were disturbed meanwhile, no report about less than that range is written;
* prover: what is submitted is what the game verifies, and every attempt ends.

The hazards that led to the properties are listed, each at its line, in `PROJECT.json`.

## 2. Modules

* `DisputeGameFactory`, `AccessManager`, `AnchorStateRegistry`, `FaultDisputeGame`: each
  extends the previous ones' state. One action per external function; a call that reverts
  is not a step. An output root is `canonical` or `forged`; a proof verifies unless it
  would lead from a canonical start to a forged claim, so nothing is assumed about proofs
  that start from a forged root. `balance`, `refund` and `normal` are the ether and the two
  credit mappings of a game. Definitions ending in `_Something` under a `\* mutant` comment
  are plausible bugs, used to see that the properties notice them.
* `ProposalTree`: what the games promise in the abstract: a tree of proposals decided
  parent first, and a head that climbs along accepted ones. `FaultDisputeGame` implements
  it (`ImplementsProposalTree`).
* `FaultDisputeGameProofs` (bonds; then verdicts, anchor, fallback, refinement),
  `L2OutputOracleProofs`, `FaultChallengerProofs`, `FaultProposerProofs`,
  `ValidityProposerProofs`, `GameMonitorProofs`, `HostsProofs` (validator,
  prover and estimator): the theorems, see section 4. Those about an agent that keeps pace are about the specification
  of its `MCPaced...` module. `NaturalSets`: induction over natural numbers in the form the
  provers can use.
* `L2OutputOracle`: the oracle and the game it creates for each output. The binary search
  is a recursive function checked against its reference.
* `FaultChallenger`: the challenger on top of `FaultDisputeGame`. `pinned` is the confirmed
  block; `SyncState` is `sync_state` as a whole (it reads only that block) with the sets of
  failing reads and of games the validator can judge as parameters; `Send`, `Skip`,
  `LogChallenge`, `Included`, `Reverted`, `TimedOut` are the handlers, one candidate at a
  time; `LandsLate` is a transaction that outlived its timeout; `Restart` empties the
  memory; `World` is everybody else.
* `FaultProposer`: the proposer on top of `FaultDisputeGame`. `SyncState(n, ...)` is one
  pass of `sync_state` and the backup after it; it reads one block only and holds the sync
  lock, so it is one step, with `n` telling how far it gets before a read fails. `Spawn` is
  `spawn_pending_operations`; the tasks it starts are steps of their own: `CreateSend`,
  `CreateMined`, `Register` (the three moments of a creation: the lookup, the inclusion,
  the receipt that sets the guard), `ProveSucceeds`/`ProveFails`, `Attempt`/`PassOver` (one
  game of the resolution, close or claim task). `SaveEnds` is the atomic replacement of the
  backup file, `Restart` a crash followed by `init_state`, `LandsLate` a transaction that
  outlived its timeout. A game is known by its factory index, which stands for its address
  too. `untold` and `faults` are history: the first names own games no record of whose
  creation survived, the second counts failures and is bounded by `MaxFaults`. The proof
  that fast finality starts for a new game is started in `Register`, together with the
  guard. Foreign games (vkey mismatch) and finality of removals on L1 that comes late are
  left out.
* `RangePlanner`: gaps, planning of new ranges by block count or by gas, and
  `highest_contiguous_end`, as operators over sets of ranges (`<<a, b>>` for the blocks after `a` up
  to `b`). `RequestDatabase`: the `requests` table as a
  function from ids to rows, each SQL statement one atomic operator on it. `ValidityProposer`: the
  loop, a step per phase of `run_loop_iteration` that lies between two awaits others can interleave
  with; the tokio tasks; the prover; the oracle's latest block and checkpoints; L1 blocks as
  `<<number, version>>` so that a reorganization is visible. A scenario record says which
  deployment (network, cluster, mock, agglayer) runs and how many failures, reorganizations
  and acts of others it meets.
* `GameMonitor`: the daemon's loop phase by phase, its children, its queues and
  `progress.json`. `waited` and `aged` stand for the comparisons with the clock.
* `RollupNodes`: the nodes read over RPC, external: L1 as a tree of two branches with a
  finalized block, the op-node's position and safe-head records, the execution node's chain.
* `OPStackGameValidator`, `CostEstimator`, `GameProver`: one program each over
  `RollupNodes`, one action per read that later reads depend on. In `GameProver` a slot is a
  proof in the making, `request` the network's view of it, and the aggregation program's
  assertions are its checks on the results as they arrived.
* `MC...`: model values and the specifications with fairness or pacing. `MCGovernedGames`
  bounds the interventions that are combined; `MCHosts` runs one of the three node clients per
  behaviour.

## 3. Runs

| Run | Bounds | Shows |
|---|---|---|
| `bonds` | 2 games, 2 accounts in all roles, blacklisting, fair time and claims | bonds are conserved, refunds equal deposits, only unproven games lose on their own, every bond is paid out in the end |
| `governance` | a chain of 3 games if nobody intervenes; 2 games of two types with one guardian measure (blacklist, retirement, pause, type switch) in force; 3 games of two types with whitelist changes | a challenged lie loses, the anchor stays canonical if no first lie wins, the fallback opens only after silence, refinement of `ProposalTree` |
| `outputs` | up to 4 outputs, all powers of the owner, changing intervals and windows | search, proofs, deletion, games |
| `challenger` | 1 game of either type in three modes, reads that fail, restarts, one stray transaction | nothing forgotten, only lies are challenged, late transactions included, disputes resolved, wins paid |
| `challenger_paced` | 2 games (siblings, parent and child), challenge window of 2 ticks | the anchor is protected by one challenger that keeps pace, only lies are challenged, honest bond safe |
| `proposer_proposals` | 2 games, 2 blocks, backups, one fault anywhere, one stray transaction | no duplicate proposal, no guard that outlives its purpose unless discovery dropped or did not reach its game (`OutOfReach`) |
| `proposer_fair` | 1 game (own, forged or of another type), proofs and settlements by others, one fault anywhere | own games resolved, bonds remembered (`OutOfReach` excepted) and paid |
| `proposer_paced` | 2 games, fast finality, 1 defense at a time, window of 3 ticks to prove, one fault | canonical claims survive, proving limits hold |
| `forged_parent` | 3 games, 3 blocks | (violation) a canonical game on a forged parent becomes the canonical head, against two comments of `proposer.rs` |
| `validity` | 2 L2 blocks, 2 L1 blocks, seven scenarios over the four deployments | aggregations are backed by their ranges, unusable ones are detected unless a checkpoint taken over strands them (`Stranded`), one per start block, withdrawn requests stay so, everything due gets proposed otherwise |
| `monitor` | 3 games, one of another type, one child at a time, one retry, one fault | retries survive, nothing is skipped but the first game of a launch, every game settles |
| `hosts` | 2 L1 branches of height 3 forking at 2, one reset, seven estimator configurations, four providers | verdicts match the L1 head, undisturbed plans cover the range, a report is about the whole range whatever happened, the submitted proof is the game's, proving ends |

**Bounds.** Two games give siblings and parent with child; three give a chain with an
inner game, the least that distinguishes "parent" from "ancestor". Two accounts fill
every role in every combination, since a game has a creator, at most one challenger and at
most one prover. Deadlines are one to three ticks and the clock runs until the last game
created can be closed. Bonds of different size (2 and 1) make a swapped credit visible.
`LastCreation` and `MaxStride` only cut states that repeat earlier ones later. `Explored`
(`governance`) ends the state space where more than one kind of intervention would meet; each
kind meets every moment of a dispute. One fault (`MaxFaults`) at any point of the proposer
covers every single failure; its close limit is two, so that one failure must not stop it. In
`proposer_paced` three ticks to prove are needed with two games and one defense at a time:
with two the property fails, since the second game's defense starts when its time is over.
`MAX_GAME_DEADLINE_LAG` (14 days) is larger than every clock of the model, so the cutoff of
discovery by age is in the model but does not take effect in the runs.

In `validity` a range spans up to two blocks, so a failure can split it and a planner can find
a gap; a failure and a reorganization meet in the network deployment, another party's output
or a rewind comes alone, and two reorganizations meet in mock mode: the second one after a
checkpoint was taken over from an aggregation the first one had withdrawn. `MaxRows` is above what the scenarios use. `SplitAfter` is 0 where
the code has 2, so that one failure suffices to split. In `monitor` three games let the second
and third finish out of order around the one of another type. In `hosts` branch `a` carries
batches of different length and `b` another block at the same height; timeouts of 2, 1 and 3
make the auction timeout, the overall one and the network's deadline come at different times,
and let each be missed.

Some cases lie outside what a run exercises. `challenger_paced` has no stray transaction
(`MaxMempool` is 0); `challenger` has one, and `ChallengesOnlyLies` is proved for any number.
`proposer_fair` has one game, so that several own games competing for one task are not part of
its liveness. `NoDuplicateProposal` excepts a game that neither the backup nor the confirmed block
knew when the process died (`untold`): the proposer then has no record of it to go by.
`OutputsComeWithGames` is about the time in which a factory is set; an upgrade unsets it, and
outputs have no games until the owner sets it again.

**Fairness.** Contracts have none of their own. `LiveSpec` (`bonds`) assumes weak fairness
of time, resolve and claimCredit, which anybody may call and the agents poll for; a game
resolved so late that the model's clock ends before finality is excepted (`CutShort`).
`FairSpec` of the challenger assumes that the loop of `run` goes on (weak fairness of
`Cycle`), that the L1 confirms blocks, and strong fairness of an error-free sync and of
sending and inclusion: reads and transactions tried again and again succeed now and then.
`FairSpec` of the proposer assumes that time passes and blocks get confirmed, and weak
fairness of the main loop and of each task without a fault; at most `MaxFaults` faults
happen. Nothing is assumed of other accounts. The two `PacedSpec`s are safety
specifications: the clock moves only after an error-free cycle of the challenger, or after
a full pass of the proposer with no proof left running.

`FairSpec` of the validity proposer: the loop is driven by a timer and goes on, except while
it waits for a receipt; tasks run, the prover works on what it accepted, transactions are
mined, L2 grows to its bound. `FairSpec` of the monitor: the operator starts it again, the
daemon's loop goes on, and strong fairness of the delays and of ageing, which the loop may
disturb by moving entries between queues. `hosts`: an attempt's own steps and the clock; the
prover network may never answer.

## 4. Proofs

All theorems hold for any number of games, accounts, blocks and outputs, any bonds and
durations, and any number of failures and restarts: the bounds of the runs are constants
there; two theorems about agents that keep pace have a premise on these constants. Their
assumptions are the named ASSUMEs of the modules, i.e. that bounds, bonds and durations are
naturals, that address(0) is not an account, and what the configuration of an agent must
satisfy.

| Module | Theorem | States |
|---|---|---|
| `FaultDisputeGameProofs` | `TypeCorrect`, `AlwaysSolvent`, `RefundsAreDeposits` | `TypeOK`, `Solvent`, `RefundIsDeposit` |
| | `OnlyUnprovenLose`, `ChallengedLiesLose`, `AnchorIsCanonical` | `LosesOnlyUnproven`, `ChallengedLieNeverWins`, `OneHonestChallengerSuffices` |
| | `FallbackAfterSilence` | the action property `FallbackOnlyAfterSilence` |
| | `GamesImplementTree` | the refinement of `ProposalTree` |
| `L2OutputOracleProofs` | `SearchIsExact`, `ProvenExtends` | `SearchFindsFirst`, `ProvenExtendsPrevious` |
| | `FinalStays`, `GamesComeAlong` | the action properties `FinalizedNeverDeleted`, `OutputsComeWithGames` |
| `FaultChallengerProofs` | `NoDutyForgotten`, `HonestBondsSafe`, `ChallengesOnlyLies` | `NothingForgotten`, `HonestBondIsSafe`, `OnlyChallengesLies` |
| | `OneChallengerProtects` | `AnchorIsProtected`, under the premise `Protectable` |
| `FaultProposerProofs` | `NoBondForgotten`, `LimitsHold`, `GuardsAreTemporary` | `BondsRemembered`, `ProofsWithinLimits`, `GuardIsTemporary` |
| | `CanonicalClaimsAreSaved` | `CanonicalClaimsSurvive`, under the premise `Defensible` |
| `ValidityProposerProofs` | `OneAggregation`, `AggregationsStayBacked`, `UnusableDetected` | `OneAggregationPerStart`, `AggregationsAreBacked`, `UnusableIsDetected` |
| | `DeadStaysDead` | the action property `InvalidatedStaysDead` |
| `GameMonitorProofs` | `ProgressSkipsNothing`, `RetriesAreSaved` | `SkipsOnlyFirst`, `RetriesSurvive` |
| `HostsProofs` | `VerdictsAreRight`, `ProofsFitTheGame` | `VerdictMatchesL1Head`, `ProvesTheGame` |
| | `PlansCoverTheRange`, `ReportsAreComplete` | `PlanCoversRange`, `ReportIsComplete` |

**Bonds.** `Solvent` says that the balance is what the mappings owe, but not which entries
hold it, and is not inductive: a second challenge or a second resolution would break it. The
inductive invariant `BondInv` adds who holds the credits in each phase: before closing the
refunds are the deposits of creator and challenger; the `normal` mapping is empty until the
verdict and afterwards splits the balance between at most two accounts; a game that is
challenged has a challenger, an unchallenged one has none, and a resolved game cannot be
resolved again. Each action preserves it by a lemma on the record of one game, lifted to the
sequence of games by a lemma about replacing and one about appending an element.

**Chains of games.** `ChainInv` adds to `BondInv` what a verdict says about the parent's
(`VerdictOK`): a winner's parent won, a game on a winner lost only unproven, and a lie on
a canonical start has no prover and, once challenged, never won. Parents come earlier in the list, so facts about a
whole ancestry (the anchor is canonical, no winner stands on a loser) are proved by taking
the least index that violates them. The refinement maps a game to its proposal and every
step to a step of the tree or a stutter. `OrderInv` adds that games are listed in the order
of their creation, which the fallback's backward search relies on.

**Oracle.** `OracleInv`: outputs are stored at increasing blocks with a genesis output that
never goes, which the binary search needs; a proved output is canonical if its predecessor
is.

**Agents.** The invariants of challenger and proposer relate three pictures of a game: the
cached one, the one in the confirmed block and the one at the head. `Later` says what may
have changed between two of them (verdicts, modes and credits only move forward, the rest is
fixed) and every step of the contracts is shown to age all games in this sense, so a fact
read at a confirmed block is still good when it is used. `ChallengerInv` states that a game
behind the cursor that is neither cached nor queued can need the challenger no more.
`ProposerInv` states the same for the proposer (`Remembered`, `Gone`): what the cursor has
passed and the cache lacks is invalid, lost, paid or out of reach. It needs the domains of
the cache and of the tasks, bounds on the cached deadlines (for the cutoff by age), and four
lemmas on the recursive `Descendants`. `LimitsOK` adds to the proving limits that a creation
under way leaves room for one more proof, since `Register` starts it without counting.
`GuardOK` follows the guard through memory, the backup being written and the file: each is for
a game there is, the cursor is never ahead of the last block synced (so that `Register` sees
when a game was passed before it was known to be its own), and a guarded game behind the
cursor is cached, out of reach or paid out.
`MonitorInv` states that the tracker and the file claim only games that are accounted for,
that no game is queued twice for the background, and that the queue on disk is the one in
memory.

**A challenger that keeps pace.** `OneChallengerProtects` is about safety by deadline: no lie on
a canonical start wins, because none is still unchallenged when its time is up. Its invariant
`PacedInv` adds to `ChallengerInv` that no such lie has stayed open over a whole tick, that a
clean cycle has every older open lie on its list until it is challenged (`CleanOK`), and what
this needs: the confirmed block of the current second shows all games of earlier ones and
their deadlines (`PinnedCurrent`), the cache holds no wrong verdict, and the transaction
awaited is the one its flag asked for (`CacheCurrent`). The premise `Protectable` is about
constants only: a whitelisted challenger in active mode, one game type that stays
respected, and games that are open to challenges for more than the tick between two cycles.

**A proposer that keeps pace.** `CanonicalClaimsAreSaved` is about canonical claims whose
ancestors are canonical: whoever made them and however many are challenged at once, none is
lost. No single pass of the loop ensures this, since it starts at most `MaxDefenses` proofs;
the proof counts. `PaceOK` adds to `ProposerInv`
* `InTime`: every such game that is challenged and not yet proved has time left;
* `ListOK`: a dispute lasts no longer than the two durations after the creation;
* `FreshOK` and `AlertOK`: a confirmed block of the current second shows every challenge of
  the seconds before, and the cache the loop spawns tasks from has those games and their
  deadlines, none hidden by the lag;
* `DefendOK`: the defenses under way are of challenged games that have time left or are
  proved meanwhile;
* `WorkOK`: while a game waits, each second since its challenge has brought `MaxDefenses`
  proofs, and so will the current one once there was a pass that keeps pace. Such a pass
  defends every game challenged in an earlier second or fills all places (`SpawnFillsUp`).

A game still waiting in the last second before its deadline would have
`MaxDefenses * (MaxProveDuration - 1)` proved games besides it, so more games than that in
all. The premise `Defensible` is that `MaxGames` is not more, that one game type is in use,
and that `MAX_GAME_DEADLINE_LAG` covers the two durations twice. It is about constants only
and `proposer_paced` satisfies it; with 2 instead of 3 ticks to prove in that run, which
breaks the premise, TLC finds a canonical claim lost.

**Hosts.** The nodes move between any two reads. `NodesOK` has their types and says that the
op-node has processed its current L1 block or the one before. `ValidatorInv` says what each
stage of a validation has established as long as the game's block is on L1 (`StageOK`): that
the op-node follows the branch of the game's block, that the recorded safe head is what the
block derives unless the op-node was reset since the first status, and that the execution
node then has that chain. The second status is what turns the condition on resets into a
fact, or into `Regained`. `ProverInv` relates the slots of the ranges to what they will
prove: fetched roots have the length of their block, the roots in a proof are those of the
game's L1 head, every range is in the results once, and after the sort by index the results
are one chain from the start to the claim. It uses that prefixes of prefixes are prefixes,
so roots read from nodes that moved in between still fit together.

`PlanInv` is about the estimator's run as long as L1 is not reorganized and the op-node not
reset; blocks that were processed then stay processed, and the selected block only goes
forward (`CalmStep`, `SelectedGrows`). `SearchOK`: what a search has found so far `Covers` its
goal, and its upper bound stays within the selection. `SplittingOK`: the collection starts at
the L1 origin of the start, which lies before the block found for the end (`OriginFacts`), and
unless the range is empty, once it has passed that block a head at or beyond the end is among
the safe heads. Both splitters then cut the range exactly (`BasicCuts`, `SafeHeadsCut`).
`HeadsOK`: the heads determined so far derive their ranges, since a chain only grows with the
buffer and the cap does not go below the block found.

`ReportsAreComplete` drops the calm: resets and reorganizations may come anywhere. `main` only
compares two numbers, the blocks executed and the length of the range, and numbers alone would
not exclude a gap and an overlap that make up for each other. `ReportInv` has what is needed
besides: whatever the safe heads were, the ranges cut an initial part of the range picked
(`DraftOK`, from `BasicCuts` and `SafeHeadsCut`), the lengths of such a cut add up to the length
of that part (`CutsAddUp`), and so equal numbers mean that it is the whole range.

**Validity proposer.** None of the four properties is inductive: each depends on what the
loop and the tasks still hold in their hands. The invariant `Inv` adds to the types of the
table, where a withdrawn request is in flight or finished (`TableOK`), and of the
surroundings (`WorldOK`):
* `TasksOK`: the stage of a task determines the status of its row, withdrawn or not;
* `WorkOK`: what one step of the loop has read is still good in a later one. In particular the
  aggregation that waits for its checkpoint transaction is still backed by completed ranges,
  and there is still no active one at its start, though tasks went on in the meantime;
* `AcceptedOK`: what the external coordinator accepted is a new aggregation, in its mode only;
* `OneOK` and `BackedOK`: the properties on the rows. `BackedOK` holds for the aggregations
  whose ranges have been `Verified`, which for the external coordinator begins with the
  witness in the task, before the status of the row shows it.

Rows change only along `Fate`: range and checkpoint are fixed, a row that is not live never
becomes so, a withdrawn one stays withdrawn and is finally left alone. Every action is shown
to move the table along it (`Fated`), which gives `InvalidatedStaysDead`. All actions but the
withdrawal of stale ranges and the insertion of an aggregation also keep completed ranges
(`Tame`) and so preserve `OneOK` and `BackedOK` by one lemma. That the code's checks suffice
for `BackedOK` needs facts about its lists: rank is injective, so every
place of the sorted list has a row, and a chain of ranges in it covers every block from its start to its end
(`ChainCovers`, used for `highest_contiguous_end` and for `validate_aggregation_request`).

`DetectOK`, on top of `Inv`, is about L1. A reorganization gives the blocks it replaces a
version of its own, so a block that left the chain never comes back (`ChainMoves`), and a safe
one never leaves. For every live aggregation, and for the one that waits for its checkpoint,
each block is in a completed range whose L1 head is below the checkpoint, is the checkpoint, or
was off the chain already (`Detectable`); this survives reorganizations as it stands. So when a checkpoint
leaves the chain, the ranges that have it as their head are stale with it, and those that
have not are below it.
`ValidityAssumption` takes over from the contract that the submission interval is positive
(`OPSuccinctL2OutputOracle.sol:238` and `:612`): with an interval of 0 an aggregation without
any range could be planned.

**Recursion.** The induction theorems of the library take a predicate as parameter, which
the provers cannot instantiate. `NaturalSets` states induction for sets: the least element
of a set of naturals, induction over an interval, and the existence of a function with a
descending recursive equation. With these, what the recursive functions of the models
compute is proved for every input: the backward search of `getLastProposalTimestamp`, the
binary search, `Descendants`, the filter of the monitor's queues, and the estimator's splitter
by safe heads. Of its search by timestamp only the type of the result is needed and proved.

**Only model-checked.** All liveness (fairness and ENABLED are out of the prover's reach).
`NoDuplicateProposal` holds for a proposer that is alone (see section 5), as in its run.

## 5. What the models brought up

Besides the finding of `forged_parent`, these behaviours of the code are worth knowing. No
run fails on them: where a property would, it names the case as its exception.

* `game_monitor.rs:418`: a launch starts the tracker at `next_game_index`, so that index
  counts as processed before it was run; after a crash the progress file skips that
  game, against the comment at `:349`. `SkipsOnlyFirst` says that nothing else is skipped.
* `game_monitor.rs`: a primary attempt started while a background attempt at the same game
  runs takes over its entry of `running_processes`. The first child is then neither reaped
  nor killed at shutdown, and one more than `max_concurrent` runs.
* `proof_requester.rs:488`: when another account's output ends inside a range that then fails,
  the range is split across the latest proposed block and may overlap rows planned since;
  `highest_contiguous_end` then fails and proposing stops. The comment at
  `validity/src/proposer.rs:450` says requests do not overlap. `EverythingGetsProposed` excepts
  overlap, and the aggregations that are `Stranded` (below).
* `op_stack_game_validator.rs`: the two reads of the sync status detect a reset of the op-node
  only if it has not passed its former position by the second (`Regained`).
* `block_range.rs:126`: a reset of the op-node between the search for the end and the
  collection of safe heads shortens the plan; the cost estimator notices when it writes its
  report (`ReportIsComplete`), and not in log-only mode.
* `block_range.rs:98`: the example in the comment splits 49 to 90 at 69, the code at 79; a
  maximal range size of 0 would not end.
* `OPSuccinctL2OutputOracle.sol:590`: deletion rewinds the timestamp from which the
  permissionless fallback is measured. `:683`: raising the finalization window makes finalized
  outputs deletable again. `OPSuccinctDisputeGame.sol:59`: deletion leaves the games of
  deleted outputs `DEFENDER_WINS`.
* `OPSuccinctFaultDisputeGame.sol:279`: the anchor is read when a child is created and may
  have moved since; the same claim may exist twice, by parent index and from the anchor.
* `validity/src/proposer.rs:1323`: an aggregation may take over the checkpoint of an earlier one.
  If that block lies above every L1 head of the present ranges and is reorganized away, the
  oracle rejects the proof for good, yet no range is stale, so nothing withdraws the
  aggregation, and the check for an active one keeps another from being created (`Stranded`).
* `fault-proof/src/proposer.rs:1123`: discovery drops a game that stands on an invalid one, or
  does not reach it, without clearing the creation guard that waits for it, as pruning and
  `sync_games` do. `:1075`: a restart without a backup forgets bonds in games that a scan
  does not reach (below an anchor of another type, older than the deadline lag). Both are
  named by `OutOfReach`. The guard also stays when its game is closed as a refund, claimed and
  evicted while the head is below it (`PaidOut`): then nothing is proposed until the head
  passes the guarded block.
* `fault-proof/src/proposer.rs`, `select_canonical_head`: where other accounts propose too, one
  of their games on another branch may become the anchor, and the head then falls back to a
  descendant of it that is below a live game of the proposer's own, so that it proposes the
  same blocks again. The guard covers only the last creation. `NoDuplicateProposal` is
  therefore about a proposer that is alone.
* `challenger.rs:422`: a countered game that is proved before its parent loses goes to the
  challenger, who no longer marks it for resolution; `OwnDisputesGetResolved` is stated for
  games without a parent. `challenger.rs:457`: a game the defender won is evicted before
  finality, and a later refund is left to others.

## 6. Not modelled

Reverting calls, gas and re-entrancy (transactions are atomic; claimCredit clears the
credit before the transfer). The contents of proofs and the L2 derivation, in the clients and
the data-availability code: no protocol state. Ownership transfer and the verifier address of
the oracle. Metrics and logging.

Fault-proof agents: reorganizations of L1 below the confirmed block (`proposer.rs:870`) and
verification keys that change with a hardfork. Validity proposer: the chain lock
(`validity/src/proposer.rs:318`), which would need a second process on the table; a
reorganization that drops a confirmed transaction for good (`Reorg` takes it to be mined again
on the new branch, so the oracle's outputs and checkpoints stay); the configuration check at startup; rows older than the L1-head column; statistics. Host
helpers: an explicit `--l1-head`, loading of rollup configurations, the witness cache, the
EigenDA and Celestia hosts. Monitor: log files, classification of failures, and the medians
that decide an early kill (a kill may come at any time). The signer is seen through receipt,
revert and timeout. Other scripts, generated bindings and binaries carry no state.

## 7. Plan

1. contracts of both flavours, challenger, proposer without reorgs (done);
2. validity proposer and database, validator, prover, estimator, monitor (done);
3. proofs about the games, the oracle, the challenger, both proposers, the monitor, the
   validator, the prover and the estimator (done);
4. `ProposerReorg`: rebuild on a changed ancestor, reconciliation of the guard, recovery of
   removed games, over a small tree of L1 blocks; proposer and challenger together;
   `ValidityProposer` composed with `L2OutputOracle`.
