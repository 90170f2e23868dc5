--------------------------- MODULE RequestDatabase --------------------------
(***************************************************************************)
(* The `requests` table of the validity proposer and the SQL statements of *)
(* validity/src/db/client.rs, as operators from a table to a result set or *)
(* to the table after the statement. Every statement is one atomic step of *)
(* the database.                                                           *)
(*                                                                         *)
(* A table is a function from row ids to rows. All rows belong to one      *)
(* chain and one set of program commitments, so those filters of the       *)
(* queries are left out. `invalid` stands for `invalidated_at IS NOT NULL`,*)
(* `head` for the two l1_head columns of a range, `checkpoint` for the two *)
(* checkpoint columns of an aggregation: an L1 block <<number, version>>,  *)
(* or NoBlock. Ids of deleted rows are used again: nothing that refers to  *)
(* a row outlives its deletion, which happens only when the process starts.*)
(***************************************************************************)
EXTENDS RangePlanner

CONSTANTS MaxWitnesses,      \* max_concurrent_witness_gen
          MaxProofs          \* max_concurrent_proof_requests

NoBlock == <<0, 0>>

ActiveStatuses == {"Unrequested", "WitnessGeneration", "Execution", "Prove", "Complete"}
InFlight == {"WitnessGeneration", "Execution", "Prove"}

new_range_request(start, end) ==
    [type |-> "Range", start |-> start, end |-> end, status |-> "Unrequested",
     invalid |-> FALSE, head |-> NoBlock, checkpoint |-> NoBlock]
new_agg_request(start, end, checkpoint) ==
    [type |-> "Aggregation", start |-> start, end |-> end, status |-> "Unrequested",
     invalid |-> FALSE, head |-> NoBlock, checkpoint |-> checkpoint]

(***************************************************************************)
(* Queries.                                                                *)
(***************************************************************************)
Rows(db, type, statuses) ==
    {i \in DOMAIN db : db[i].type = type /\ db[i].status \in statuses /\ ~db[i].invalid}

(* A set of rows as ranges in the order ORDER BY start_block gives.        *)
Rank(db, ids, i) ==
    Cardinality({j \in ids : \/ db[j].start < db[i].start
                             \/ db[j].start = db[i].start /\ j <= i})
Sorted(db, ids) ==
    [n \in 1 .. Cardinality(ids) |->
        LET i == CHOOSE j \in ids : Rank(db, ids, j) = n IN <<db[i].start, db[i].end>>]

From(db, ids, latest) == {i \in ids : db[i].start >= latest}
Lowest(db, ids) == {i \in ids : \A j \in ids : db[i].start <= db[j].start}

fetch_ranges_after_block(db, latest) ==
    {<<db[i].start, db[i].end>> : i \in From(db, Rows(db, "Range", ActiveStatuses), latest)}

CompletedRanges(db, latest) == From(db, Rows(db, "Range", {"Complete"}), latest)
fetch_completed_ranges(db, latest) == Sorted(db, CompletedRanges(db, latest))

get_consecutive_complete_range_proofs(db, start, end) ==
    {i \in Rows(db, "Range", {"Complete"}) : db[i].start >= start /\ db[i].end <= end}

(* The completed ranges inside (start, end] are exactly one chain across it.*)
CoversExactly(db, start, end) ==
    LET chain == Sorted(db, get_consecutive_complete_range_proofs(db, start, end))
    IN  /\ chain # <<>>
        /\ Start(chain[1]) = start
        /\ End(chain[Len(chain)]) = end
        /\ \A n \in 1 .. Len(chain) - 1 : End(chain[n]) = Start(chain[n + 1])

get_max_l1_head_block_number_for_range(db, start, end) ==
    Max({db[i].head[1] : i \in get_consecutive_complete_range_proofs(db, start, end)})

(* Candidates of the LIMIT 1 query: any of them may be returned.           *)
fetch_reusable_agg_checkpoint(db, start, end) ==
    {db[i].checkpoint : i \in {j \in DOMAIN db :
        /\ db[j].type = "Aggregation" /\ db[j].start = start /\ db[j].end = end
        /\ db[j].status \in {"Failed", "Invalidated"}}}

ActiveAggregations(db, start) ==
    {i \in Rows(db, "Aggregation", ActiveStatuses) : db[i].start = start}

\* mutant: a completed aggregation that is not relayed yet does not count
fetch_active_agg_proofs_count_Unfinished(db, start) ==
    Cardinality({i \in ActiveAggregations(db, start) : db[i].status # "Complete"})

fetch_active_agg_proofs_count(db, start) == Cardinality(ActiveAggregations(db, start))

fetch_unrequested_agg_proof(db, latest) ==
    Lowest(db, From(db, Rows(db, "Aggregation", {"Unrequested"}), latest))
fetch_first_unrequested_range_proof(db, latest) ==
    Lowest(db, From(db, Rows(db, "Range", {"Unrequested"}), latest))
fetch_completed_agg_proof_after_block(db, latest) ==
    {i \in Rows(db, "Aggregation", {"Complete"}) : db[i].start = latest}

(* Invalidated rows are fetched by status too.                             *)
fetch_requests_by_status(db, statuses) == {i \in DOMAIN db : db[i].status \in statuses}

fetch_failed_request_count_by_block_range(db, start, end) ==
    Cardinality({i \in DOMAIN db : /\ db[i].start = start /\ db[i].end = end
                                   /\ db[i].status = "Failed"})

is_request_invalidated(db, i) == db[i].invalid

(***************************************************************************)
(* Updates.                                                                *)
(***************************************************************************)
Unused(db) == CHOOSE i \in 1 .. Cardinality(DOMAIN db) + 1 : i \notin DOMAIN db

insert_request(db, row) ==
    [i \in DOMAIN db \cup {Unused(db)} |-> IF i \in DOMAIN db THEN db[i] ELSE row]

(* New range requests, each with an id of its own.                         *)
insert_requests(db, ranges) ==
    LET fresh == (1 .. Cardinality(DOMAIN db) + Cardinality(ranges)) \ DOMAIN db
        id == CHOOSE f \in [ranges -> fresh] : IsInjective(f)
        At(i) == CHOOSE r \in ranges : id[r] = i
    IN  [i \in DOMAIN db \cup {id[r] : r \in ranges} |->
            IF i \in DOMAIN db THEN db[i] ELSE new_range_request(Start(At(i)), End(At(i)))]

update_request_status(db, i, status) == [db EXCEPT ![i].status = status]
update_request_to_prove(db, i) == [db EXCEPT ![i].status = "Prove"]
update_l1_head(db, i, head) == [db EXCEPT ![i].head = head]

HasCapacity(db) ==
    /\ Cardinality(fetch_requests_by_status(db, {"WitnessGeneration"})) < MaxWitnesses
    /\ Cardinality(fetch_requests_by_status(db, InFlight)) < MaxProofs

(* One transaction under the chain's admission lock.                       *)
CanStart(db, i) == HasCapacity(db) /\ db[i].status = "Unrequested" /\ ~db[i].invalid
try_start_witness_generation(db, i) ==
    IF CanStart(db, i) THEN update_request_status(db, i, "WitnessGeneration") ELSE db

\* mutant: an invalidated request is completed by a late proof
CanComplete_Late(db, i) == db[i].status \in {"Execution", "Prove"}

CanComplete(db, i) == db[i].status \in {"Execution", "Prove"} /\ ~db[i].invalid
update_proof_to_complete(db, i) ==
    IF CanComplete(db, i) THEN update_request_status(db, i, "Complete") ELSE db

CanRelay(db, i) == db[i].status = "Complete" /\ ~db[i].invalid
update_request_to_relayed(db, i) ==
    IF CanRelay(db, i) THEN update_request_status(db, i, "Relayed") ELSE db

finish_invalidated_request(db, i) ==
    IF db[i].invalid THEN update_request_status(db, i, "Invalidated") ELSE db

Contains(outer, inner) == outer.start <= inner.start /\ inner.end <= outer.end

\* mutant: aggregations in the hands of a task or the prover are left alone
invalidate_noncanonical_ranges_NotInFlight(db, stale) ==
    [i \in DOMAIN db |->
        IF \/ i \in stale \cap Rows(db, "Range", {"Complete"})
           \/ /\ i \in Rows(db, "Aggregation", ActiveStatuses \ InFlight)
              /\ \E s \in stale : Contains(db[i], db[s])
        THEN [db[i] EXCEPT !.status = "Invalidated", !.invalid = TRUE]
        ELSE db[i]]

(* One transaction: the stale ranges, then every aggregation around one.   *)
invalidate_noncanonical_ranges(db, stale) ==
    [i \in DOMAIN db |->
        IF i \in stale \cap Rows(db, "Range", {"Complete"})
        THEN [db[i] EXCEPT !.status = "Invalidated", !.invalid = TRUE]
        ELSE IF /\ i \in Rows(db, "Aggregation", ActiveStatuses)
                /\ \E s \in stale : Contains(db[i], db[s])
        THEN [db[i] EXCEPT !.invalid = TRUE,
                           !.status = IF @ \in {"Unrequested", "Complete"}
                                      THEN "Invalidated" ELSE @]
        ELSE db[i]]

delete_all_requests_with_statuses(db, statuses) ==
    [i \in {j \in DOMAIN db : db[j].status \notin statuses \/ db[j].invalid} |-> db[i]]
=============================================================================
