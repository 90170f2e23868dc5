-------------------------- MODULE ValidityProposer --------------------------
(***************************************************************************)
(* The validity proposer (validity/src/proposer.rs, proof_requester.rs):   *)
(* one process whose loop runs the steps of run_loop_iteration in order,   *)
(* beside the tokio tasks it spawns, one per proof request in preparation, *)
(* the prover network (or cluster), the L2OutputOracle on L1, L1 itself    *)
(* with its reorganisations, and other parties that propose to or rewind   *)
(* the oracle. The loop, the tasks and the rest of the world meet in the   *)
(* request table and on chain only.                                        *)
(*                                                                         *)
(* `pc` is the next step of the loop and `work` what earlier steps of the  *)
(* iteration read from the world and later ones act on: the requests still *)
(* to be polled, the ranges found stale, the aggregation whose checkpoint  *)
(* transaction is in flight, the aggregation being relayed.                *)
(*                                                                         *)
(* An L1 block is <<number, version>>; the k-th reorganisation replaces    *)
(* every block from number forks[k] on by version k.                       *)
(***************************************************************************)
EXTENDS RequestDatabase

CONSTANTS
    Scenarios,              \* the instances: records [mode, l2Head, faults, reorgs, foreign]
                            \* of the deployment ("network", "cluster", "mock" or
                            \* "agglayer"), the provable L2 blocks at the start, and
                            \* bounds on failures (of RPCs, tasks, proofs and the process),
                            \* on L1 reorganisations, and on what others do to the oracle
    MaxBlock,               \* bound: the L2 chain stops growing here
    MaxL1,                  \* bound: L1 blocks that can be a head or a checkpoint
    SafeL1,                 \* the safe one, which L1 does not reorganise
    RangeProofInterval,     \* range_proof_interval
    EvmGasLimit,            \* evm_gas_limit; 0 selects block-based planning
    SubmissionInterval,     \* the larger of the contract's and the proposer's
    SplitAfter,             \* failures of a range after which it is split (2 in the code)
    MaxPollFailures,        \* MAX_CONSECUTIVE_POLL_FAILURES (3 in the code)
    ForeignPowers,          \* of {"propose", "rewind"}: what others do to it
    MaxRows                 \* bound: rows of the table

ASSUME ValidityAssumption ==
    /\ \A n \in {MaxBlock, MaxL1, RangeProofInterval, EvmGasLimit, SubmissionInterval,
                 SplitAfter, MaxPollFailures, MaxRows} : n \in Nat
    /\ SafeL1 \in 1 .. MaxL1
    /\ SubmissionInterval > 0
    /\ EvmGasLimit = 0 => RangeProofInterval > 0
    /\ \A s \in Scenarios : /\ s.l2Head \in 0 .. MaxBlock
                            /\ s.mode \in {"network", "cluster", "mock", "agglayer"}

VARIABLES scenario, db, tasks, handles, network, pc, work, accepted,
          latest, l2Head, forks, historic, transactions, faults, foreign

vars == <<scenario, db, tasks, handles, network, pc, work, accepted,
          latest, l2Head, forks, historic, transactions, faults, foreign>>
process == <<tasks, handles, pc, work>>
world == <<latest, l2Head, forks, historic, foreign>>
given == <<scenario, accepted>>
budget == <<faults, given>>

(***************************************************************************)
(* L1.                                                                     *)
(***************************************************************************)
L1Blocks == 1 .. MaxL1

(* The version of block n on the chain that has version v at its tip.      *)
VersionOn(n, v) == LET past == {k \in 1 .. v : forks[k] <= n}
                   IN  IF past = {} THEN 0 ELSE CHOOSE k \in past : \A j \in past : j <= k
Canonical(n) == <<n, VersionOn(n, Len(forks))>>
IsCanonical(b) == b = Canonical(b[1])
IsAncestor(b, tip) == b[1] <= tip[1] /\ b[2] = VersionOn(b[1], tip[2])

(* historicBlockHashes[n] of the oracle: its value follows L1, because a   *)
(* checkpoint transaction that a reorganisation replays reads the new hash.*)
OnChain(b) == b[1] \in historic /\ IsCanonical(b)

(***************************************************************************)
(* Helpers.                                                                *)
(***************************************************************************)
mode == scenario.mode
Fault == faults < scenario.faults /\ faults' = faults + 1
NoFault == UNCHANGED faults
Room(n) == Cardinality(DOMAIN db) + n <= MaxRows
Goto(step) == pc' = step /\ work' = {}
NextIteration == Goto("log_proposer_metrics")
With(f, i, v) == [j \in DOMAIN f \cup {i} |-> IF j = i THEN v ELSE f[j]]
Without(f, i) == [j \in DOMAIN f \ {i} |-> f[j]]

BlockGas == [b \in 1 .. MaxBlock |-> 1]

Plan == LET gaps == find_gaps(latest, l2Head, fetch_ranges_after_block(db, latest))
        IN  IF EvmGasLimit > 0
            THEN get_ranges_to_prove_by_gas(gaps, EvmGasLimit, RangeProofInterval, BlockGas)
            ELSE get_ranges_to_prove_by_blocks(gaps, RangeProofInterval)

(* The table after handle_failed_request; `split` is FALSE when an RPC     *)
(* fails after the row was set to Failed and the halves are not inserted.  *)
Halves(r) == LET mid == (r.start + r.end) \div 2
             IN  {<<r.start, mid>>, <<mid, r.end>>}
ToBeSplit(table, i, unexecutable) ==
    /\ table[i].type = "Range"
    /\ table[i].end - table[i].start > 1
    /\ \/ fetch_failed_request_count_by_block_range(table, table[i].start, table[i].end)
            > SplitAfter
       \/ unexecutable
handle_failed_request(i, unexecutable, split) ==
    IF is_request_invalidated(db, i) THEN finish_invalidated_request(db, i)
    ELSE LET failed == update_request_status(db, i, "Failed")
         IN  IF split /\ ToBeSplit(failed, i, unexecutable)
             THEN insert_requests(failed, Halves(db[i])) ELSE failed

(***************************************************************************)
(* The loop, one action per step of run_loop_iteration.                    *)
(***************************************************************************)
HighestContiguous == highest_contiguous_end(latest, fetch_completed_ranges(db, latest))

(* validate_contract_config and log_proposer_metrics: the latter fails the *)
(* whole iteration when completed ranges overlap.                          *)
log_proposer_metrics ==
    /\ pc = "log_proposer_metrics"
    /\ IF HighestContiguous.ok THEN Goto("handle_ongoing_tasks") ELSE NextIteration
    /\ UNCHANGED <<db, tasks, handles, network, transactions, world, budget>>

Finished == {i \in DOMAIN tasks : tasks[i] \in {"done", "failed"}}

(* A finished task is reaped; a failed one is retried. An error of the     *)
(* retry is only logged, and the row keeps its status.                     *)
handle_ongoing_tasks ==
    /\ pc = "handle_ongoing_tasks"
    /\ IF Finished = {}
       THEN /\ Goto("set_orphaned_tasks_to_failed")
            /\ UNCHANGED <<db, tasks, faults>>
       ELSE \E i \in Finished :
              /\ tasks' = Without(tasks, i)
              /\ UNCHANGED <<pc, work>>
              /\ IF tasks[i] = "done" THEN UNCHANGED <<db, faults>>
                 ELSE /\ Room(2)
                      /\ \/ db' = handle_failed_request(i, FALSE, TRUE) /\ NoFault
                         \/ db' = handle_failed_request(i, FALSE, FALSE) /\ Fault
                         \/ db' = db /\ Fault
    /\ UNCHANGED <<handles, network, transactions, world, given>>

\* mutant: only rows being executed are looked at
Orphans_ExecutionOnly == fetch_requests_by_status(db, {"Execution"}) \ DOMAIN tasks

(* Rows in preparation that no task works on.                              *)
Orphans == fetch_requests_by_status(db, {"WitnessGeneration", "Execution"}) \ DOMAIN tasks

set_orphaned_tasks_to_failed ==
    /\ pc = "set_orphaned_tasks_to_failed"
    /\ db' = [i \in DOMAIN db |->
                IF i \notin Orphans THEN db[i]
                ELSE IF is_request_invalidated(db, i) THEN finish_invalidated_request(db, i)[i]
                ELSE update_request_status(db, i, "Failed")[i]]
    /\ pc' = "handle_proving_requests"
    /\ work' = IF mode = "mock" THEN {} ELSE fetch_requests_by_status(db', {"Prove"})
    /\ UNCHANGED <<tasks, handles, network, transactions, world, budget>>

(* The polling of request i is over and the loop turns to the next one.    *)
Polled(i) == work' = work \ {i} /\ UNCHANGED pc
Settle(i, table) == db' = table /\ network' = Without(network, i)

(* The network's answer about an invalidated request: it is only finished. *)
PollInvalidated(i) ==
    /\ \E late \in BOOLEAN :
         /\ IF late THEN Fault ELSE NoFault
         /\ IF late \/ network[i] # "assigned"
            THEN Settle(i, finish_invalidated_request(db, i))
            ELSE UNCHANGED <<db, network>>
    /\ Polled(i)

(* Past its deadline a request has failed even if it is fulfilled; an      *)
(* unfulfillable one fails too.  The loop's iteration fails when the       *)
(* handling of either fails half way.                                      *)
PollFailure(i) ==
    LET failed == network[i] \in {"unfulfillable", "unexecutable"}
        table(split) == handle_failed_request(i, network[i] = "unexecutable", split)
    IN  /\ Room(2)
        /\ \/ failed /\ NoFault /\ Polled(i) /\ Settle(i, table(TRUE))
           \/ Fault /\ Polled(i) /\ Settle(i, table(TRUE))      \* past the deadline
           \/ Fault /\ NextIteration /\ Settle(i, table(FALSE))  \* either, half way

PollFulfilled(i) ==
    /\ network[i] = "fulfilled"
    /\ Settle(i, update_proof_to_complete(db, i))
    /\ NoFault /\ Polled(i)

(* The auction of a request nobody took may have timed out: the request is *)
(* cancelled, except an aggregation of the external coordinator.           *)
PollPending(i) ==
    /\ network[i] \in {"requested", "assigned"}
    /\ \/ /\ network[i] = "requested"
          /\ ~(mode = "agglayer" /\ db[i].type = "Aggregation")
          /\ Fault
          /\ Settle(i, update_request_status(db, i, "Cancelled"))
       \/ NoFault /\ UNCHANGED <<db, network>>
    /\ Polled(i)

process_proof_request_status(i) ==
    /\ IF is_request_invalidated(db, i) THEN PollInvalidated(i)
       ELSE PollFailure(i) \/ PollFulfilled(i) \/ PollPending(i)
    /\ UNCHANGED handles

(* A cluster request fails after its wall-clock timeout, or when polling   *)
(* failed MaxPollFailures times in a row; the count starts again when the  *)
(* handle is rebuilt from the table after a restart.                       *)
Discard(i) == /\ handles' = Without(handles, i)
              /\ Settle(i, IF is_request_invalidated(db, i)
                           THEN finish_invalidated_request(db, i)
                           ELSE handle_failed_request(i, FALSE, TRUE))

(* The handle is dropped first; what follows may fail before the row is    *)
(* touched or before its halves are inserted, and the iteration with it.   *)
DiscardFails(i) == /\ handles' = Without(handles, i)
                   /\ \/ UNCHANGED <<db, network>>
                      \/ Settle(i, handle_failed_request(i, FALSE, FALSE))
                   /\ NextIteration
PollFailures(i) == IF i \in DOMAIN handles THEN handles[i] ELSE 0
ClusterPollError(i) ==
    IF PollFailures(i) + 1 >= MaxPollFailures THEN Discard(i)
    ELSE /\ handles' = With(handles, i, PollFailures(i) + 1)
         /\ UNCHANGED <<db, network>>

process_cluster_proof_status(i) ==
    /\ Room(2)
    /\ \/ /\ \/ Fault /\ Discard(i)                \* wall-clock timeout
             \/ /\ network[i] = "fulfilled"
                /\ NoFault
                /\ handles' = Without(handles, i)
                /\ Settle(i, IF is_request_invalidated(db, i)
                             THEN finish_invalidated_request(db, i)
                             ELSE update_proof_to_complete(db, i))
             \/ /\ network[i] \in {"requested", "assigned"}
                /\ NoFault
                /\ handles' = With(handles, i, 0)
                /\ UNCHANGED <<db, network>>
             \/ /\ network[i] \in {"unfulfillable", "unexecutable"}
                /\ NoFault
                /\ ClusterPollError(i)
             \/ Fault /\ ClusterPollError(i)       \* the poll itself fails
          /\ Polled(i)
       \/ Fault /\ DiscardFails(i)

handle_proving_requests ==
    /\ pc = "handle_proving_requests"
    /\ IF work = {}
       THEN /\ Goto("reconcile_completed_range_canonicality")
            /\ UNCHANGED <<db, handles, network, faults>>
       ELSE \E i \in work : IF mode = "cluster" THEN process_cluster_proof_status(i)
                                                ELSE process_proof_request_status(i)
    /\ UNCHANGED <<tasks, transactions, world, given>>

(* The L1 heads of the completed ranges are compared with the canonical    *)
(* chain; what is found stale is invalidated in a later transaction.       *)
reconcile_completed_range_canonicality ==
    /\ pc = "reconcile_completed_range_canonicality"
    /\ LET stale == {i \in CompletedRanges(db, latest) : ~IsCanonical(db[i].head)}
       IN  IF stale = {} THEN Goto("add_new_ranges")
           ELSE pc' = "invalidate_noncanonical_ranges" /\ work' = stale
    /\ UNCHANGED <<db, tasks, handles, network, transactions, world, budget>>

InvalidateStaleRanges ==
    /\ pc = "invalidate_noncanonical_ranges"
    /\ db' = invalidate_noncanonical_ranges(db, work)
    /\ Goto("add_new_ranges")
    /\ UNCHANGED <<tasks, handles, network, transactions, world, budget>>

add_new_ranges ==
    /\ pc = "add_new_ranges"
    /\ LET plan == Plan
       IN  /\ Room(Cardinality(plan))
           /\ db' = insert_requests(db, plan)
    /\ Goto(IF mode = "agglayer" THEN "request_queued_proofs"
                                 ELSE "create_aggregation_proofs")
    /\ UNCHANGED <<tasks, handles, network, transactions, world, budget>>

select_checkpoint_block_number(safeNumber, batchMax) == MaxOf(safeNumber, batchMax)

\* mutant: the hash is not compared with the oracle's
Reusable_AnyHash(checkpoint, batchMax) == checkpoint[1] >= batchMax

(* An earlier aggregation's checkpoint can be used again if the oracle     *)
(* still has its hash and it is not below a range's L1 head.               *)
Reusable(checkpoint, batchMax) == OnChain(checkpoint) /\ checkpoint[1] >= batchMax

(* An aggregation of all completed ranges from the oracle's latest block   *)
(* on, unless one is under way; a fresh checkpoint is read here and sent   *)
(* to the oracle in a transaction of its own.                              *)
create_aggregation_proofs ==
    LET highest == HighestContiguous
        batchMax == get_max_l1_head_block_number_for_range(db, latest, highest.end)
        existing == fetch_reusable_agg_checkpoint(db, latest, highest.end)
        request(checkpoint) == new_agg_request(latest, highest.end, checkpoint)
    IN  /\ pc = "create_aggregation_proofs"
        /\ IF fetch_active_agg_proofs_count(db, latest) > 0
           THEN Goto("request_queued_proofs") /\ UNCHANGED db
           ELSE IF ~highest.ok
           THEN NextIteration /\ UNCHANGED db
           ELSE IF highest.end - latest < SubmissionInterval
           THEN Goto("request_queued_proofs") /\ UNCHANGED db
           ELSE /\ Room(1)
                /\ \/ \E b \in existing :
                        /\ Reusable(b, batchMax)
                        /\ db' = insert_request(db, request(b))
                        /\ Goto("request_queued_proofs")
                   \/ /\ existing = {} \/ \E b \in existing : ~Reusable(b, batchMax)
                      /\ LET n == select_checkpoint_block_number(SafeL1, batchMax)
                         IN  work' = {request(Canonical(n))}
                      /\ pc' = "checkpoint_block_hash"
                      /\ UNCHANGED db
        /\ UNCHANGED <<tasks, handles, network, transactions, world, budget>>

(* The checkpoint transaction is confirmed; only then is the row inserted. *)
CheckpointBlockHash ==
    /\ pc = "checkpoint_block_hash"
    /\ \E row \in work : /\ historic' = historic \cup {row.checkpoint[1]}
                         /\ db' = insert_request(db, row)
    /\ Goto("request_queued_proofs")
    /\ UNCHANGED <<tasks, handles, network, transactions,
                   latest, l2Head, forks, foreign, budget>>

(* A validated aggregation first, then the lowest range.                   *)
get_next_unrequested_proof ==
    LET aggregations == IF mode = "agglayer" THEN {}
                        ELSE {i \in fetch_unrequested_agg_proof(db, latest) :
                                CoversExactly(db, db[i].start, db[i].end)}
    IN  IF aggregations # {} THEN aggregations
        ELSE fetch_first_unrequested_range_proof(db, latest)

request_queued_proofs ==
    /\ pc = "request_queued_proofs"
    /\ \/ \E i \in get_next_unrequested_proof :
            tasks' = IF i \in DOMAIN tasks THEN tasks ELSE With(tasks, i, "start")
       \/ get_next_unrequested_proof = {} /\ UNCHANGED tasks
    /\ IF mode = "agglayer" THEN NextIteration ELSE Goto("submit_agg_proofs")
    /\ UNCHANGED <<db, handles, network, transactions, world, budget>>

RelayOf(i) == [id |-> i, start |-> db[i].start, end |-> db[i].end,
               checkpoint |-> db[i].checkpoint]

submit_agg_proofs ==
    /\ pc = "submit_agg_proofs"
    /\ \/ \E i \in fetch_completed_agg_proof_after_block(db, latest) :
            /\ transactions' = transactions \cup {RelayOf(i)}
            /\ pc' = "relay_aggregation_proof" /\ work' = {i}
       \/ /\ fetch_completed_agg_proof_after_block(db, latest) = {}
          /\ NextIteration
          /\ UNCHANGED transactions
    /\ UNCHANGED <<db, tasks, handles, network, world, budget>>

(* The receipt is in: the relay is recorded, and the iteration ends.       *)
update_relayed ==
    /\ pc = "update_request_to_relayed"
    /\ \E i \in work : db' = update_request_to_relayed(db, i)
    /\ NextIteration
    /\ UNCHANGED <<tasks, handles, network, transactions, world, budget>>

(* Any step may fail on an RPC or a database error, or time out waiting    *)
(* for a receipt; run() then starts over.                                  *)
IterationFails ==
    /\ pc # "log_proposer_metrics"
    /\ Fault
    /\ NextIteration
    /\ UNCHANGED <<given, db, tasks, handles, network, transactions, world>>

Loop == \/ log_proposer_metrics \/ handle_ongoing_tasks \/ set_orphaned_tasks_to_failed
        \/ handle_proving_requests \/ reconcile_completed_range_canonicality
        \/ InvalidateStaleRanges \/ add_new_ranges \/ create_aggregation_proofs
        \/ CheckpointBlockHash \/ request_queued_proofs \/ submit_agg_proofs
        \/ update_relayed \/ IterationFails

(***************************************************************************)
(* The tasks: make_proof_request, one step per await that matters.         *)
(***************************************************************************)
Stage(i, stage) == tasks' = [tasks EXCEPT ![i] = stage]

TaskStart(i) ==
    /\ tasks[i] = "start"
    /\ db' = try_start_witness_generation(db, i)
    /\ Stage(i, IF CanStart(db, i) THEN "witness"
                ELSE IF mode = "agglayer" /\ db[i].type = "Aggregation" THEN "report"
                ELSE "done")
    /\ UNCHANGED network

(* A range's L1 head is recorded before the host runs.                     *)
range_proof_witnessgen(i) ==
    /\ tasks[i] = "witness" /\ db[i].type = "Range"
    /\ \E n \in L1Blocks : db' = update_l1_head(db, i, Canonical(n))
    /\ Stage(i, "request")
    /\ UNCHANGED network

(* The ranges are read again, and the L1 headers from the checkpoint down  *)
(* to every range's head; an orphaned checkpoint may not be served.        *)
agg_proof_witnessgen(i) ==
    /\ tasks[i] = "witness" /\ db[i].type = "Aggregation"
    /\ \/ /\ CoversExactly(db, db[i].start, db[i].end)
          /\ \A r \in get_consecutive_complete_range_proofs(db, db[i].start, db[i].end) :
                IsAncestor(db[r].head, db[i].checkpoint)
          /\ Stage(i, "request")
       \/ /\ \/ ~CoversExactly(db, db[i].start, db[i].end)
             \/ \E r \in get_consecutive_complete_range_proofs(db, db[i].start, db[i].end) :
                   ~IsAncestor(db[r].head, db[i].checkpoint)
             \/ ~IsCanonical(db[i].checkpoint)
          /\ Stage(i, "failed")
    /\ UNCHANGED <<db, network>>

(* With the witness ready an invalidated request is discarded.             *)
TaskRequest(i) ==
    /\ tasks[i] = "request"
    /\ IF is_request_invalidated(db, i)
       THEN db' = finish_invalidated_request(db, i) /\ Stage(i, "done")
       ELSE Stage(i, "submit") /\ UNCHANGED db
    /\ UNCHANGED network

(* The proof is requested and the row set to Prove: from the network, or   *)
(* from the cluster, whose handle is also kept in memory.                  *)
RequestProof(i) ==
    /\ db' = update_request_to_prove(db, i)
    /\ network' = With(network, i, "requested")
    /\ Stage(i, "done")

request_proof(i) == /\ tasks[i] = "submit" /\ mode \in {"network", "agglayer"}
                    /\ RequestProof(i)
                    /\ UNCHANGED handles
submit_cluster_proof(i) == /\ tasks[i] = "submit" /\ mode = "cluster"
                           /\ RequestProof(i)
                           /\ handles' = With(handles, i, 0)

(* In mock mode the task executes the program itself.                      *)
generate_mock_proof(i) == /\ tasks[i] = "submit" /\ mode = "mock"
                          /\ db' = update_request_status(db, i, "Execution")
                          /\ Stage(i, "store")
                          /\ UNCHANGED network

store_completed_proof(i) ==
    /\ tasks[i] = "store"
    /\ db' = IF CanComplete(db, i) THEN update_proof_to_complete(db, i)
                                   ELSE finish_invalidated_request(db, i)
    /\ Stage(i, IF CanComplete(db, i) \/ is_request_invalidated(db, i)
                THEN "done" ELSE "failed")
    /\ UNCHANGED network

(* A task of the agglayer's coordinator reports to it in the end: a        *)
(* request that found no capacity is cancelled.                            *)
external_proof_request_id(i) ==
    /\ tasks[i] = "report"
    /\ db' = IF db[i].status = "Unrequested"
             THEN update_request_status(db, i, "Cancelled") ELSE db
    /\ Stage(i, "done")
    /\ UNCHANGED network

Task(i) ==
    /\ \/ request_proof(i) \/ submit_cluster_proof(i)
       \/ /\ \/ TaskStart(i) \/ range_proof_witnessgen(i) \/ agg_proof_witnessgen(i)
             \/ TaskRequest(i) \/ generate_mock_proof(i) \/ store_completed_proof(i)
             \/ external_proof_request_id(i)
          /\ UNCHANGED handles
    /\ UNCHANGED <<pc, work, transactions, world, budget>>

TaskFails(i) ==
    /\ tasks[i] \notin {"done", "failed"}
    /\ Fault
    /\ Stage(i, "failed")
    /\ UNCHANGED <<given, db, network, pc, work, handles, transactions, world>>

(* The coordinator asks for an aggregation up to a block of its choice: it *)
(* is cut to the completed ranges and validated. (One request at a time;   *)
(* it is counted as a fault, to bound them.)                               *)
request_external_aggregation(start, upTo, n) ==
    LET ranges == get_consecutive_complete_range_proofs(db, start, upTo)
        end == db[CHOOSE i \in ranges : \A j \in ranges : db[j].end <= db[i].end].end
    IN  /\ mode = "agglayer"
        /\ Fault
        /\ ranges # {}
        /\ CoversExactly(db, start, end)
        /\ accepted' = {new_agg_request(start, end, Canonical(n))}
        /\ UNCHANGED <<scenario, db, tasks, handles, network, pc, work, transactions, world>>

(* It is inserted and given a task in one step, under the lock of `tasks`; *)
(* the ranges may have been invalidated since.                             *)
InsertExternal ==
    /\ \E row \in accepted :
         /\ Room(1)
         /\ db' = insert_request(db, row)
         /\ tasks' = With(tasks, Unused(db), "start")
    /\ accepted' = {}
    /\ UNCHANGED <<handles, network, pc, work, transactions, world,
                   faults, scenario>>

(***************************************************************************)
(* The process dies and starts again: initialize_proposer deletes what it  *)
(* cannot recover; what is being proved survives in the table.             *)
(***************************************************************************)
Restart ==
    /\ Fault
    /\ db' = delete_all_requests_with_statuses(db,
                 {"Unrequested", "Execution", "WitnessGeneration"})
    /\ tasks' = <<>> /\ handles' = <<>> /\ accepted' = {}
    /\ NextIteration
    /\ UNCHANGED <<scenario, network, transactions, world>>

(***************************************************************************)
(* The prover network, the oracle, L1 and L2, and other parties.           *)
(***************************************************************************)
Prover(i) ==
    /\ \/ network[i] = "requested" /\ network' = [network EXCEPT ![i] = "assigned"] /\ NoFault
       \/ network[i] = "assigned" /\ network' = [network EXCEPT ![i] = "fulfilled"] /\ NoFault
       \/ /\ network[i] \in {"requested", "assigned"}
          /\ \E s \in {"unfulfillable", "unexecutable"} : network' = [network EXCEPT ![i] = s]
          /\ Fault
    /\ UNCHANGED <<given, db, process, transactions, world>>

(* proposeL2Output: the block is due, the proof starts from the latest     *)
(* output, and the checkpointed hash is the one it was made for.           *)
Accepted(tx) == /\ tx.start = latest
                /\ tx.end >= latest + SubmissionInterval
                /\ OnChain(tx.checkpoint)

(* A relay transaction is mined; the loop sees it if it still waits.       *)
MineRelay(tx) ==
    /\ tx \in transactions
    /\ transactions' = transactions \ {tx}
    /\ latest' = IF Accepted(tx) THEN tx.end ELSE latest
    /\ IF pc = "relay_aggregation_proof" /\ work = {tx.id}
       THEN IF Accepted(tx) THEN pc' = "update_request_to_relayed" /\ UNCHANGED work
                            ELSE NextIteration
       ELSE UNCHANGED <<pc, work>>
    /\ UNCHANGED <<db, tasks, handles, network, l2Head, forks, historic, foreign, budget>>

L2Grows == /\ l2Head < MaxBlock
           /\ l2Head' = l2Head + 1
           /\ UNCHANGED <<db, process, network, transactions, latest, forks,
                          historic, foreign, budget>>

(* Blocks above the safe head are replaced. Confirmed transactions are     *)
(* mined again on the new chain.                                           *)
Reorg(n) == /\ n > SafeL1 /\ Len(forks) < scenario.reorgs
            /\ forks' = Append(forks, n)
            /\ UNCHANGED <<db, process, network, transactions, latest, l2Head,
                           historic, foreign, budget>>

(* Another proposer's output, or the owner deleting outputs.               *)
Foreign(block) ==
    /\ foreign < scenario.foreign /\ foreign' = foreign + 1
    /\ latest' = block
    /\ \/ "propose" \in ForeignPowers /\ block >= latest + SubmissionInterval /\ block <= l2Head
       \/ "rewind" \in ForeignPowers /\ block < latest
    /\ UNCHANGED <<db, process, network, transactions, l2Head, forks, historic, budget>>

Init ==
    /\ scenario \in Scenarios
    /\ db = <<>> /\ tasks = <<>> /\ handles = <<>> /\ network = <<>>
    /\ pc = "log_proposer_metrics" /\ work = {} /\ accepted = {}
    /\ latest = 0 /\ l2Head = scenario.l2Head /\ forks = <<>> /\ historic = {}
    /\ transactions = {} /\ faults = 0 /\ foreign = 0

Next == \/ Loop
        \/ \E i \in DOMAIN tasks : Task(i) \/ TaskFails(i)
        \/ \E start, upTo \in 0 .. MaxBlock, n \in L1Blocks :
              request_external_aggregation(start, upTo, n)
        \/ InsertExternal
        \/ Restart
        \/ \E i \in DOMAIN network : Prover(i)
        \/ \E tx \in transactions : MineRelay(tx)
        \/ L2Grows
        \/ \E n \in L1Blocks : Reorg(n)
        \/ \E block \in 0 .. MaxBlock : Foreign(block)

Spec == Init /\ [][Next]_vars

(***************************************************************************)
(* Fairness. The loop is driven by timers and always runs on, except while *)
(* it waits for the receipt of a relay (this is WF_vars(Loop), stated      *)
(* without ENABLED because that is the only place where no step of the     *)
(* loop is enabled); tokio runs the tasks; the network works on what it    *)
(* has accepted; transactions are mined; L2 grows. Failures are bounded.   *)
(***************************************************************************)
Fairness ==
    /\ []<><<Loop>>_vars \/ []<>(pc = "relay_aggregation_proof")
    /\ WF_vars(\E i \in DOMAIN tasks : tasks[i] = "start" /\ Task(i))
    /\ WF_vars(\E i \in DOMAIN tasks : tasks[i] # "start" /\ Task(i))
    /\ WF_vars(\E i \in DOMAIN network : Prover(i))
    /\ WF_vars(\E tx \in transactions : MineRelay(tx))
    /\ WF_vars(L2Grows)
FairSpec == Spec /\ Fairness

(***************************************************************************)
(* Properties.                                                             *)
(***************************************************************************)
LiveAggregations == Rows(db, "Aggregation", ActiveStatuses)
Blocks(row) == row.start + 1 .. row.end

(* Nothing an aggregation rests on is withdrawn behind its back: as long   *)
(* as it is not invalidated, every block of it is in a completed range     *)
(* whose L1 head is not above the checkpoint. The ranges are invalidated   *)
(* by the loop while the aggregation may be in a task or at the prover     *)
(* (invalidate_noncanonical_ranges, select_checkpoint_block_number). The   *)
(* external coordinator's requests are inserted after the ranges were read *)
(* and are safe from the time their witness is made.                       *)
AggregationsAreBacked ==
    \A a \in LiveAggregations :
        (mode # "agglayer" \/ db[a].status \in {"Prove", "Complete"}) =>
           \A b \in Blocks(db[a]) :
             \E r \in get_consecutive_complete_range_proofs(db, db[a].start, db[a].end) :
                b \in Blocks(db[r]) /\ db[r].head[1] <= db[a].checkpoint[1]

(* The oracle rejects this aggregation for its checkpoint, and no range of *)
(* it is stale: nothing discards it, and nothing is proposed past it.      *)
Stranded(a) ==
    LET ranges == get_consecutive_complete_range_proofs(db, db[a].start, db[a].end)
    IN  ~OnChain(db[a].checkpoint) /\ \A r \in ranges : IsCanonical(db[r].head)

(* An aggregation that the oracle would reject for its checkpoint is       *)
(* discarded by the next reconcile_completed_range_canonicality, which     *)
(* compares only the ranges with L1: one of them is stale as well. A later *)
(* reorganisation escapes this only if the checkpoint was taken over from  *)
(* an earlier aggregation and lies above the safe block and above the L1   *)
(* heads of the ranges that are there now.                                 *)
UnusableIsDetected ==
    mode # "agglayer" =>
      \A a \in LiveAggregations : Stranded(a) =>
        /\ db[a].checkpoint[1] > SafeL1
        /\ \A b \in Blocks(db[a]) :
             \E r \in get_consecutive_complete_range_proofs(db, db[a].start, db[a].end) :
                b \in Blocks(db[r]) /\ db[r].head[1] < db[a].checkpoint[1]

(* "There should only be one pending aggregation proof at a time for a     *)
(* specific start block" (submit_agg_proofs): whatever is retried, relayed *)
(* without being recorded, or rewound.                                     *)
OneAggregationPerStart ==
    mode # "agglayer" => \A s \in 0 .. MaxBlock : Cardinality(ActiveAggregations(db, s)) <= 1

(* A request that was invalidated is never completed, relayed or taken up  *)
(* again, however late its task or its proof comes in.                     *)
InvalidatedStaysDead ==
    [][\A i \in DOMAIN db \cap DOMAIN db' :
         db[i].invalid => /\ db'[i].invalid
                          /\ db'[i].status \notin {"Complete", "Relayed", "Unrequested", "Failed"}
                          /\ db[i].status = "Invalidated" => db'[i] = db[i]]_vars

(* "These requests are non-overlapping" (add_new_ranges): the active range *)
(* requests from the latest proposed block on are disjoint.                *)
RangesDisjoint ==
    LET active == From(db, Rows(db, "Range", ActiveStatuses), latest)
    IN  \A i, j \in active : i # j => Blocks(db[i]) \cap Blocks(db[j]) = {}

(* Whatever fails a bounded number of times, everything that is due gets   *)
(* proposed, unless range requests come to overlap or an aggregation is    *)
(* stranded with a checkpoint it took over.                                *)
EverythingGetsProposed ==
    (mode # "agglayer") =>
        \/ <>[](latest + SubmissionInterval > MaxBlock)
        \/ <>(~RangesDisjoint)
        \/ <>(\E a \in LiveAggregations : Stranded(a))
=============================================================================
