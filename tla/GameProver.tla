---------------------------- MODULE GameProver ----------------------------
(***************************************************************************)
(* Proving one game: prove_game (fault-proof/src/proposer.rs), the proof   *)
(* providers with their polling loop (fault-proof/src/prover.rs) and the   *)
(* aggregation program (programs/aggregation/src/main.rs).                 *)
(*                                                                         *)
(* A slot is a proof being made: one per range and, last, the aggregation. *)
(* Time is the age of each request, in units of the timeouts.              *)
(***************************************************************************)
EXTENDS RollupNodes

CONSTANTS
    Modes,            \* the providers to run: a subset of AllModes
    ProvenGame,       \* the game: [l1Head, start, end]
    RangeSplitCount,  \* how many ranges to split into
    MaxConcurrent,    \* range proofs made at a time
    Timeout,          \* overall wait for one proof
    AuctionTimeout,   \* wait for a prover to take a request
    ServerDeadline    \* the network's deadline for a request

VARIABLES
    job,              \* the attempt: [pc, mode, headers, output]
    slots,            \* slots[i]: [pc, pre, post, age, seen]
    results,          \* the ranges proved, in the order they were
    request           \* request[i]: the network's state of slot i's request

proverVars == <<job, slots, results, request>>

AllModes == {"mainnet", "testnet", "cluster", "mock"}

ASSUME ProverAssumption ==
    /\ Modes \subseteq AllModes
    /\ ProvenGame.l1Head \in Blocks
    /\ ProvenGame.start \in Nat /\ ProvenGame.end \in Nat
    /\ ProvenGame.start < ProvenGame.end
    /\ RangeSplitCount \in 1..16 /\ MaxConcurrent \in Nat \ {0}
    /\ {Timeout, AuctionTimeout, ServerDeadline} \subseteq Nat

\* Bound: ages above every timeout are the same.
MaxAge == Max({Timeout, AuctionTimeout, ServerDeadline}) + 1

game == ProvenGame

\* RangeSplitCount::split: even, contiguous, non-empty parts.
SplitRange(start, end, count) ==
    LET total == end - start
        parts == Min({count, total})
        step == (total + parts - 1) \div parts
    IN [i \in 1..((total + step - 1) \div step) |->
           [start |-> start + (i - 1) * step, end |-> Min({start + i * step, end})]]

Ranges == SplitRange(game.start, game.end, RangeSplitCount)
N == Len(Ranges)
Agg == N + 1

Idle == [pc |-> "todo", pre |-> <<>>, post |-> <<>>, age |-> 0, seen |-> "none"]

Fresh(pc, mode) ==
    /\ job' = [pc |-> pc, mode |-> mode, headers |-> <<>>, output |-> <<>>]
    /\ slots' = [i \in 1..Agg |-> Idle]
    /\ results' = <<>>
    /\ request' = [i \in 1..Agg |-> "none"]

\* The attempt ends with an error; what runs on the network is dropped with
\* the tasks that waited for it.
JobFails == Fresh("failed", job.mode)

Active == {i \in 1..Agg : slots[i].pc \notin {"todo", "done"}}

-----------------------------------------------------------------------------
ProveGame ==
    /\ job.pc \in {"idle", "failed", "rejected"}
    /\ Canonical(game.l1Head)
    /\ Fresh("ranges", job.mode)

(* A range: host.fetch reads the agreed and the claimed root from the      *)
(* execution node, one after the other.                                    *)

FetchAgreed(i) ==
    /\ job.pc = "ranges"
    /\ i <= N /\ slots[i].pc = "todo"
    /\ \A j \in 1..(i - 1) : slots[j].pc # "todo"
    /\ Cardinality(Active) < Min({MaxConcurrent, N})
    /\ L2Has(Ranges[i].start)
    /\ slots' = [slots EXCEPT ![i] = [Idle EXCEPT !.pc = "fetch", !.pre = L2BlockAt(Ranges[i].start)]]
    /\ UNCHANGED <<job, results, request>>

FetchClaimed(i) ==
    /\ slots[i].pc = "fetch"
    /\ L2Has(Ranges[i].end)
    /\ slots' = [slots EXCEPT ![i].pc = "witness", ![i].post = L2BlockAt(Ranges[i].end)]
    /\ UNCHANGED <<job, results, request>>

\* The range program: from the agreed root the L1 head derives the claimed
\* one.
Derives(pre, post) ==
    IsPrefix(pre, Derived[game.l1Head]) /\ IsPrefix(post, Derived[game.l1Head])

\* The mock provider executes the program and is done; the others ask for a
\* proof and wait for it.
MockProves(i) ==
    /\ slots' = [slots EXCEPT ![i].pc = "ready"]
    /\ UNCHANGED request

Submit(i) ==
    /\ slots' = [slots EXCEPT ![i].pc = "wait"]
    /\ request' = [request EXCEPT ![i] = "Requested"]

Generate(i) == IF job.mode = "mock" THEN MockProves(i) ELSE Submit(i)

RequestRangeProof(i) ==
    /\ slots[i].pc = "witness"
    /\ i <= N
    /\ Derives(slots[i].pre, slots[i].post)
    /\ Generate(i)
    /\ UNCHANGED <<job, results>>

-----------------------------------------------------------------------------
(* wait_for_proof, for a request of either kind; a call that fails or does *)
(* not answer in time is tried again after a pause.                        *)

\* mutant: the overall timeout is not looked at while calls fail.
CheckTimeout_Never(age) == FALSE

CheckTimeout(age) == age > Timeout

IsNetwork == job.mode \in {"mainnet", "testnet"}

ProvingTimeout(i) ==
    /\ slots[i].pc = "wait"
    /\ CheckTimeout(slots[i].age)
    /\ JobFails

GetProofStatus(i) ==
    /\ slots[i].pc = "wait" /\ IsNetwork
    /\ ~CheckTimeout(slots[i].age)
    /\ slots' = [slots EXCEPT ![i].pc = "details", ![i].seen = request[i]]
    /\ UNCHANGED <<job, results, request>>

DetailsFail(i) ==
    /\ slots[i].pc = "details"
    /\ slots' = [slots EXCEPT ![i].pc = "wait", ![i].seen = "none"]
    /\ UNCHANGED <<job, results, request>>

CheckAuction(status, age) ==
    job.mode = "mainnet" /\ status = "Requested" /\ age > AuctionTimeout

CheckDeadline(age) == age >= ServerDeadline

CheckStatus(status) ==
    CASE status = "Fulfilled"     -> "Ready"
      [] status = "Unfulfillable" -> "Failed"
      [] OTHER                    -> "Pending"

\* The request's details, or "none" if there are none yet (the auction is then
\* not looked at), and what follows from them and the status read before: give
\* up on the auction (cancelling the request, best effort), on the deadline or
\* on the proof, take the proof, or go on polling.
GetProofRequest(i) ==
    /\ slots[i].pc = "details"
    /\ \E details \in {request[i], "none"} :
       LET s == slots[i]
       IN IF \/ CheckAuction(details, s.age)
             \/ CheckDeadline(s.age)
             \/ CheckStatus(s.seen) = "Failed"
          THEN JobFails
          ELSE /\ slots' = [slots EXCEPT ![i].pc = IF CheckStatus(s.seen) = "Ready" THEN "ready" ELSE "wait",
                                         ![i].seen = "none"]
               /\ UNCHANGED <<job, results, request>>

\* The cluster is asked once, with the overall timeout around the call.
ClusterAnswers(i) ==
    /\ slots[i].pc = "wait" /\ job.mode = "cluster"
    /\ request[i] = "Fulfilled"
    /\ ~CheckTimeout(slots[i].age)
    /\ slots' = [slots EXCEPT ![i].pc = "ready"]
    /\ UNCHANGED <<job, results, request>>

-----------------------------------------------------------------------------
(* Collecting the ranges and aggregating them.                             *)

RangeProved(i) ==
    /\ i <= N /\ slots[i].pc = "ready"
    /\ slots' = [slots EXCEPT ![i] = [Idle EXCEPT !.pc = "done"]]
    /\ results' = Append(results, [idx |-> i, pre |-> slots[i].pre, post |-> slots[i].post,
                                   block |-> Ranges[i].end, l1Head |-> game.l1Head])
    /\ UNCHANGED <<job, request>>

\* mutant: the proofs are taken in the order they were finished.
BootInfos_Unordered == results

\* Every result put back at the index of its range.
BootInfos == [i \in 1..N |-> CHOOSE r \in ToSet(results) : r.idx = i]

\* get_header_preimages: the L1 headers, by number, from the earliest L1
\* head of the ranges to the last range's.
GetHeaderPreimages ==
    /\ job.pc = "ranges"
    /\ Len(results) = N
    /\ LET first == Min({BootInfos[i].l1Head[1] : i \in 1..N})
           last == BootInfos[N].l1Head[1]
       IN /\ L1Has(last)
          /\ job' = [job EXCEPT !.pc = "headers",
                                !.headers = [k \in 1..(last - first + 1) |-> L1BlockAt(first + k - 1)]]
    /\ UNCHANGED <<slots, results, request>>

\* The aggregation program: the ranges follow one another, and their L1
\* heads lie on the header chain that ends in the checkpoint.
Aggregates(boots, headers, checkpoint) ==
    /\ boots # <<>>
    /\ \A i \in 1..(Len(boots) - 1) : boots[i].post = boots[i + 1].pre
    /\ headers # <<>> /\ Last(headers) = checkpoint
    /\ \A i \in DOMAIN boots : boots[i].l1Head \in ToSet(headers)

AggregationOutputs(boots, checkpoint) ==
    [l1Head |-> checkpoint, pre |-> boots[1].pre, post |-> Last(boots).post, block |-> Last(boots).block]

RequestAggProof ==
    /\ job.pc = "headers"
    /\ LET checkpoint == BootInfos[N].l1Head
       IN IF ~Aggregates(BootInfos, job.headers, checkpoint)
          THEN Fresh("rejected", job.mode)
          ELSE /\ job' = [job EXCEPT !.pc = "agg", !.output = AggregationOutputs(BootInfos, checkpoint)]
               /\ Generate(Agg)
               /\ UNCHANGED results

SubmitProof ==
    /\ job.pc = "agg" /\ slots[Agg].pc = "ready"
    /\ job' = [job EXCEPT !.pc = "submitted"]
    /\ UNCHANGED <<slots, results, request>>

\* Any call of the attempt that is not retried may fail: the reads, the
\* witness, a request, the cluster, a proof missing from its answer, the
\* transaction.
CallFails ==
    /\ \/ \E i \in 1..Agg : slots[i].pc \in {"fetch", "witness", "ready"}
       \/ job.mode = "cluster" /\ Active # {}
       \/ job.pc = "headers" \/ (job.pc = "ranges" /\ Active = {})
    /\ JobFails

-----------------------------------------------------------------------------
(* The environment: the prover network, and time.                          *)

NetworkActs(i) ==
    /\ \/ request[i] = "Requested" /\ request' = [request EXCEPT ![i] = "Assigned"]
       \/ request[i] = "Assigned" /\ \E s \in {"Fulfilled", "Unfulfillable"} :
              request' = [request EXCEPT ![i] = s]
    /\ UNCHANGED <<job, slots, results>>

Tick ==
    /\ \E i \in 1..Agg : slots[i].pc \in {"wait", "details"} /\ slots[i].age < MaxAge
    /\ slots' = [i \in 1..Agg |->
                   IF slots[i].pc \in {"wait", "details"}
                   THEN [slots[i] EXCEPT !.age = Min({@ + 1, MaxAge})] ELSE slots[i]]
    /\ UNCHANGED <<job, results, request>>

ProverInit ==
    \E m \in Modes :
        /\ job = [pc |-> "idle", mode |-> m, headers |-> <<>>, output |-> <<>>]
        /\ slots = [i \in 1..Agg |-> Idle]
        /\ results = <<>>
        /\ request = [i \in 1..Agg |-> "none"]

SlotNext(i) ==
    \/ FetchAgreed(i) \/ FetchClaimed(i) \/ RequestRangeProof(i) \/ RangeProved(i)
    \/ ProvingTimeout(i) \/ GetProofStatus(i) \/ GetProofRequest(i) \/ ClusterAnswers(i)

ProverNext ==
    \/ ProveGame \/ GetHeaderPreimages \/ RequestAggProof \/ SubmitProof \/ CallFails \/ Tick
    \/ \E i \in 1..Agg : SlotNext(i) \/ DetailsFail(i) \/ NetworkActs(i)

-----------------------------------------------------------------------------
Ended == job.pc \in {"failed", "rejected", "submitted"}

\* The ranges are proved concurrently, finish in any order and are read from
\* nodes that move; still the proof sent to the game states what the game
\* verifies, and the aggregation program only refuses what prove_game gives
\* it when the game's own L1 block has been reorganized away.
ProvesTheGame ==
    /\ job.pc = "submitted" =>
         job.output = [l1Head |-> game.l1Head, block |-> game.end,
                       pre |-> SubSeq(Derived[game.l1Head], 1, game.start),
                       post |-> SubSeq(Derived[game.l1Head], 1, game.end)]
    /\ job.pc = "rejected" => ~Canonical(game.l1Head)

\* An attempt comes to an end, whatever the prover network does or does not
\* answer: the proving task's slot is given back.
ProvingEnds == [](job.pc = "ranges" => <>Ended)
=============================================================================
