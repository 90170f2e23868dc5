--------------------------- MODULE CostEstimator ---------------------------
(***************************************************************************)
(* Planning what to prove or execute: the L1 selection, the range, how it  *)
(* is split and the L1 head each part is derived from                      *)
(* (utils/host/src/{fetcher,block_range,l1_selection}.rs), in the order in *)
(* which scripts/utils/bin/cost_estimator.rs runs them.  Every read of a   *)
(* node that later reads depend on is an action of its own.                *)
(***************************************************************************)
EXTENDS RollupNodes

CONSTANTS
    Settings,     \* the flags and environment of a run: see SettingsAssumption
    Buffer,       \* L1 blocks added to the batch's block (20)
    PostDelay     \* time a batch may take to be posted (40 minutes)

VARIABLE est      \* the run in progress

NoBlock == 0      \* for an option that is not given: block 0 is never asked for

ASSUME SettingsAssumption ==
    /\ Buffer \in Nat /\ PostDelay \in Nat
    /\ Settings \subseteq
         [tag : {"finalized", "safe", "latest"}, confirmations : Nat,
          safeDb : BOOLEAN, fallback : BOOLEAN, noSplit : BOOLEAN,
          rolling : BOOLEAN, logOnly : BOOLEAN,
          start : Nat, end : Nat, range : Nat, batch : Nat \ {0}]

cfg == est.cfg

L1Time(n) == 2 * n + 1

\* The L1 origin of L2 block m: the L1 block before the one its batch is in.
OriginIn(branch, m) ==
    Min({n \in 0..(MaxHeight - 1) : Len(Derived[Block(branch, n + 1)]) >= m} \cup {MaxHeight})

Origin(m) == OriginIn(node.branch, m)

L2Time(m) == L1Time(Origin(m))

Step(pc) == est' = [est EXCEPT !.pc = pc]
Fail == est' = [pc |-> "failed", cfg |-> cfg]

-----------------------------------------------------------------------------
(* The selected L1 block.                                                  *)

IsDefault == cfg.tag = "finalized" /\ cfg.confirmations = 0

ToBlockId(tag) ==
    CASE tag = "finalized" -> l1.fin
      [] tag = "safe"      -> Max({l1.fin, l1.tip - 1})
      [] tag = "latest"    -> l1.tip

\* resolve_selected_l1_header: walk back by the confirmations, saturating.
Selected ==
    LET base == ToBlockId(cfg.tag)
    IN IF cfg.confirmations > base THEN 0 ELSE base - cfg.confirmations

\* What the op-node answers to a probe; an answer that is neither is an error.
IsSafeDbActivated == cfg.safeDb

\* A selection that may be reorganized needs the safe-head database.
ValidateL1Selection ==
    /\ est.pc = "start"
    /\ IF IsDefault \/ IsSafeDbActivated THEN Step("limit") ELSE Fail

-----------------------------------------------------------------------------
(* The range: get_max_provable_l2_block_number, then                       *)
(* get_validated_block_range or get_rolling_block_range.                   *)

\* The L2 block finality reaches: derived from a finalized L1 block.
L2Finalized == Len(Derived[Block(node.branch, Min({l1.fin, node.done}))])

\* The selected L1 block's number, for a selection that is not the default.
ResolveLimit ==
    /\ est.pc = "limit"
    /\ ~IsDefault
    /\ est' = [est EXCEPT !.pc = "range", !.low = Selected]

ValidatedRange(limit) ==
    LET end == IF cfg.end = NoBlock THEN limit ELSE cfg.end
        back == IF cfg.range > end THEN 0 ELSE end - cfg.range
        start == IF cfg.start = NoBlock THEN Max({1, back}) ELSE cfg.start
    IN [ok |-> end <= limit /\ start < end, start |-> start, end |-> end]

RollingRange(limit) ==
    [ok |-> cfg.range <= limit, end |-> limit,
     start |-> IF cfg.range <= limit THEN limit - cfg.range ELSE 0]

PickRange ==
    /\ est.pc = IF IsDefault THEN "limit" ELSE "range"
    /\ LET limit == IF IsDefault THEN L2Finalized ELSE Len(SafeHeadAt(est.low).head)
           r == IF cfg.rolling THEN RollingRange(limit) ELSE ValidatedRange(limit)
       IN IF r.ok THEN est' = [est EXCEPT !.pc = "split", !.low = 0,
                                          !.start = r.start, !.end = r.end]
                  ELSE Fail

-----------------------------------------------------------------------------
(* get_safe_l1_block_for_l2_block: the first L1 block whose safe head      *)
(* covers an L2 block, by binary search over the safe-head database.       *)

\* Search for L2 block m up to the selected L1 block, then go on at `then`.
StartSearch(m, then) ==
    est' = [est EXCEPT !.pc = "bound", !.goal = m, !.then = then,
                       !.low = 0, !.high = Selected, !.found = NoBlock]

\* The search begins at the L2 block's L1 origin.
SearchFrom ==
    /\ est.pc = "bound"
    /\ est' = [est EXCEPT !.pc = "search", !.low = Origin(est.goal)]

Probe ==
    /\ est.pc = "search"
    /\ est.low <= est.high
    /\ cfg.safeDb
    /\ LET mid == est.low + (est.high - est.low) \div 2
           rec == SafeHeadAt(mid)
       IN est' = IF Len(rec.head) >= est.goal
                 THEN [est EXCEPT !.found = rec.l1[1], !.high = mid - 1]
                 ELSE [est EXCEPT !.low = mid + 1]

SearchEnds ==
    /\ est.pc = "search"
    /\ est.low > est.high
    /\ est.found # NoBlock
    /\ est' = [est EXCEPT !.pc = est.then, !.goal = 0, !.low = 0, !.high = 0]

\* No L1 block qualifies, the database is off, or a read fails: get_l1_head
\* falls back to timestamps if told to; the splitter gives up.
SearchFails ==
    /\ \/ est.pc = "bound"
       \/ est.pc = "search" /\ (est.low <= est.high \/ est.found = NoBlock)
    /\ IF est.then = "cap" /\ cfg.fallback THEN Step("estimate") ELSE Fail

\* find_block_by_timestamp: the first block up to `upper` that is not before
\* the target.
FindBlockByTimestamp(target, upper) ==
    LET windows == {w \in (0..(upper + 1)) \X (0..(upper + 1)) : w[1] <= w[2]}
        mid(w) == (w[1] + w[2] - 1) \div 2
        search[w \in windows] ==   \* from w[1] up to, not including, w[2]
            IF w[1] = w[2] THEN w[1]
            ELSE IF L1Time(mid(w)) = target THEN mid(w)
            ELSE search[IF L1Time(mid(w)) < target THEN <<mid(w) + 1, w[2]>>
                                                   ELSE <<w[1], mid(w)>>]
    IN search[<<0, upper + 1>>]

\* The batch is taken to be posted within PostDelay of the block.
EstimateL1Head ==
    /\ est.pc = "estimate"
    /\ L2Has(est.goal)
    /\ LET target == Min({L2Time(est.goal) + PostDelay, L1Time(Selected)})
       IN est' = [est EXCEPT !.pc = "cap", !.guessed = TRUE,
                             !.found = FindBlockByTimestamp(target, Selected)]

-----------------------------------------------------------------------------
(* Splitting.                                                              *)

\* Consecutive ranges of at most `max` blocks from `start` to `end`.
SplitRangeBasic(start, end, max) ==
    [i \in 1..((end - start + max - 1) \div max) |->
        [start |-> start + (i - 1) * max, end |-> Min({start + i * max, end})]]

Split ==
    /\ est.pc = "split"
    /\ IF cfg.noSplit \/ ~IsSafeDbActivated
       THEN est' = [est EXCEPT !.pc = "heads",
                               !.ranges = SplitRangeBasic(est.start, est.end, cfg.batch)]
       ELSE Step("origin")

\* The safe head at each L1 block from the origin of the start to the block
\* that covers the end.
CollectFrom ==
    /\ est.pc = "origin"
    /\ est' = [est EXCEPT !.pc = "upto", !.from = Origin(est.start)]

CollectUpTo ==
    /\ est.pc = "upto"
    /\ StartSearch(est.end, "collect")

Collect ==
    /\ est.pc = "collect"
    /\ est.from <= est.found
    /\ est' = [est EXCEPT !.from = @ + 1, !.safe = @ \cup {Len(SafeHeadAt(est.from).head)}]

\* The safe heads in ascending order: from each block on, one part up to the
\* next of them or the end, in turn cut into ranges of at most the batch
\* size, and then the rest.
SplitRangeBasedOnSafeHeads(start, end, heads, max) ==
    LET above(x) == {h \in heads : h > x}
        upTo(x) == Min({end, Min(above(x))})
        rest[x \in start..end] ==
            IF x = end \/ above(x) = {}
            THEN <<>>
            ELSE SplitRangeBasic(x, upTo(x), max) \o rest[upTo(x)]
    IN rest[start]

Collected ==
    /\ est.pc = "collect"
    /\ est.from > est.found
    /\ est' = [est EXCEPT !.pc = "heads", !.safe = {}, !.from = 0, !.found = NoBlock,
                          !.ranges = SplitRangeBasedOnSafeHeads(est.start, est.end, est.safe, cfg.batch)]

-----------------------------------------------------------------------------
(* The L1 head of each range: host.fetch, calculate_safe_l1_head.          *)

CalculateSafeL1Head ==
    /\ est.pc = "heads"
    /\ Len(est.heads) < Len(est.ranges)
    /\ StartSearch(est.ranges[Len(est.heads) + 1].end, "cap")

\* mutant: the buffer takes the head past the selected block.
Capped_Uncapped(n) == Min({n + Buffer, l1.tip})

Capped(n) == Min({n + Buffer, Selected})

CapL1Head ==
    /\ est.pc = "cap"
    /\ est' = [est EXCEPT !.pc = "heads", !.found = NoBlock, !.goal = 0,
                          !.heads = Append(@, L1BlockAt(Capped(est.found)))]

\* A range runs through iff its head derives its last block.
Runs(r, head) == r.end <= Len(Derived[head])

\* What the range program commits to is what the execution node says by then.
ValidateRangeExecution(r, head) ==
    L2Has(r.end) /\ L2BlockAt(r.end) = SubSeq(Derived[head], 1, r.end)

\* The sum of the blocks that the ranges' statistics count.
ExecutedBlocks(ranges) ==
    LET total[n \in 0..Len(ranges)] ==
            IF n = 0 THEN 0 ELSE total[n - 1] + (ranges[n].end - ranges[n].start)
    IN total[Len(ranges)]

\* mutant: the report is written whatever its statistics count.
ExecuteBlocks_Unchecked ==
    /\ est.pc = "heads"
    /\ Len(est.heads) = Len(est.ranges)
    /\ IF \A i \in DOMAIN est.ranges : /\ Runs(est.ranges[i], est.heads[i])
                                        /\ ValidateRangeExecution(est.ranges[i], est.heads[i])
       THEN Step("reported")
       ELSE Fail

\* One range that fails fails the run; the report must then account for every
\* block of the range, unless stats are only logged.
ExecuteBlocks ==
    /\ est.pc = "heads"
    /\ Len(est.heads) = Len(est.ranges)
    /\ IF /\ \A i \in DOMAIN est.ranges : /\ Runs(est.ranges[i], est.heads[i])
                                           /\ ValidateRangeExecution(est.ranges[i], est.heads[i])
          /\ cfg.logOnly \/ ExecutedBlocks(est.ranges) = est.end - est.start
       THEN Step("reported")
       ELSE Fail

EstimatorReadFails ==
    /\ \/ est.pc \in {"limit", "range", "origin", "upto", "collect", "estimate", "cap"}
       \/ est.pc = "start" /\ ~IsDefault
       \/ est.pc = "split" /\ ~cfg.noSplit
    /\ Fail

-----------------------------------------------------------------------------
EstimatorInit ==
    \E c \in Settings :
        est = [cfg |-> c, pc |-> "start", then |-> "none", start |-> 0, end |-> 0, goal |-> 0,
               low |-> 0, high |-> 0, found |-> NoBlock, from |-> 0, guessed |-> FALSE, safe |-> {},
               ranges |-> <<>>, heads |-> <<>>]

EstimatorNext ==
    \/ ValidateL1Selection \/ ResolveLimit \/ PickRange \/ Split
    \/ SearchFrom \/ Probe \/ SearchEnds \/ SearchFails \/ EstimateL1Head
    \/ CollectFrom \/ CollectUpTo \/ Collect \/ Collected
    \/ CalculateSafeL1Head \/ CapL1Head \/ ExecuteBlocks \/ EstimatorReadFails

-----------------------------------------------------------------------------
Contiguous(ranges, start, end) ==
    /\ ranges # <<>> => Head(ranges).start = start /\ Last(ranges).end = end
    /\ \A i \in DOMAIN ranges : /\ ranges[i].start < ranges[i].end
                                /\ ranges[i].end - ranges[i].start <= cfg.batch
                                /\ i > 1 => ranges[i].start = ranges[i - 1].end

\* The op-node was reset or L1 reorganized.
Disturbed == resets > 0 \/ l1.branch = "b"

Complete == /\ Contiguous(est.ranges, est.start, est.end)
            /\ est.ranges # <<>> \/ est.start = est.end

\* While L1 grows and the op-node goes on between the reads, the ranges cut
\* the asked-for range exactly, each head found in the safe-head database
\* derives its range, and no head is past the selected block.
PlanCoversRange ==
    est.pc = "heads" /\ ~Disturbed =>
        /\ Complete
        /\ \A i \in DOMAIN est.heads :
               /\ est.heads[i][1] <= Selected
               /\ est.guessed \/ Runs(est.ranges[i], est.heads[i])

\* A node reset or an L1 reorganization between the reads may leave the safe
\* heads short of the end, and then the splitter silently drops the rest.  No
\* such plan is reported: what a written report sums up (unless it is only
\* logged) is the whole range, each block once.
ReportIsComplete == est.pc = "reported" /\ ~cfg.logOnly => Complete
=============================================================================
