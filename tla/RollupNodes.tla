---------------------------- MODULE RollupNodes ----------------------------
(***************************************************************************)
(* The nodes the off-chain programs ask over RPC: an L1 node, an op-node   *)
(* with its safe-head database, and the L2 execution node paired with it.  *)
(* None of them is under src/; they are modelled from the calls the        *)
(* programs make and from what those programs check of the answers.        *)
(*                                                                         *)
(* An L1 block is <<number, branch>>; below Fork every branch is the       *)
(* common one, so a reorganization replaces the blocks from Fork up.  The  *)
(* L2 chain an L1 block derives is the sequence Derived[block]; the hash   *)
(* of L2 block m of a chain is its prefix of length m, and so is its       *)
(* output root.                                                            *)
(***************************************************************************)
EXTENDS Naturals, Sequences, FiniteSets, SequencesExt, FiniteSetsExt

CONSTANTS
    MaxHeight,    \* bound: the highest L1 block
    Fork,         \* the first L1 block a reorganization replaces
    Derived,      \* Derived[b]: the L2 chain derived from L1 up to block b
    MaxResets,    \* bound: how often the op-node resets of its own accord
    Unsafe        \* an L2 block no batch contains

VARIABLES
    l1,           \* canonical L1: [branch, tip, fin], fin the finalized block
    node,         \* op-node: [branch, cur, done]; done is the last L1 block
                  \* whose safe head is recorded
    exec,         \* the L2 chain the execution node holds
    resets        \* resets so far

nodeVars == <<l1, node, exec, resets>>

Branches == {"a", "b"}

Block(branch, n) == <<n, IF n < Fork THEN "common" ELSE branch>>

Blocks == {Block(b, n) : b \in Branches, n \in 0..MaxHeight}

\* What L2 chains are made of.
L2Blocks == {Unsafe} \cup UNION {{Derived[b][i] : i \in DOMAIN Derived[b]} : b \in Blocks}

ASSUME DerivedAssumption ==
    /\ MaxHeight \in Nat /\ Fork \in 1..MaxHeight /\ MaxResets \in Nat
    /\ DOMAIN Derived = Blocks
    /\ \A b \in Blocks : Derived[b] \in Seq(L2Blocks)
    /\ \A b \in Branches, n \in 1..MaxHeight :
           IsPrefix(Derived[Block(b, n - 1)], Derived[Block(b, n)])

-----------------------------------------------------------------------------
(* Answers to the programs' calls.                                         *)

\* eth_getBlockByNumber on L1: the canonical block, if there is one.
L1BlockAt(n) == Block(l1.branch, n)
L1Has(n) == n <= l1.tip
Canonical(b) == L1Has(b[1]) /\ L1BlockAt(b[1]) = b

\* optimism_syncStatus: the L1 block the op-node is deriving from.
CurrentL1 == Block(node.branch, node.cur)

\* optimism_safeHeadAtL1Block: the last record at or before L1 block n; a
\* record exists for genesis and for each L1 block that moved the safe head.
SafeHeadAt(n) ==
    LET chain(k) == Derived[Block(node.branch, k)]
        moved == {k \in 1..Min({n, node.done}) : chain(k) # chain(k - 1)}
        b == Block(node.branch, Max(moved \cup {0}))
    IN [l1 |-> b, head |-> Derived[b]]

\* eth_getBlockByNumber on L2: block m of the execution node's chain.
L2Has(m) == m <= Len(exec)
L2BlockAt(m) == SubSeq(exec, 1, m)

-----------------------------------------------------------------------------
(* How the nodes move on their own.                                        *)

NodesInit ==
    /\ l1 = [branch |-> "a", tip |-> Fork, fin |-> Fork - 1]
    /\ \E n \in 1..Fork : \E d \in {n - 1, n} :
           node = [branch |-> "a", cur |-> n, done |-> d]
    /\ exec = Derived[Block("a", node.done)]
    /\ resets = 0

L1Grows ==
    /\ l1.tip < MaxHeight
    /\ l1' = [l1 EXCEPT !.tip = @ + 1]
    /\ UNCHANGED <<node, exec, resets>>

L1Finalizes ==
    /\ l1.fin < l1.tip
    /\ l1' = [l1 EXCEPT !.fin = @ + 1]
    /\ UNCHANGED <<node, exec, resets>>

\* One reorganization: branch b takes over from Fork.
L1Reorgs ==
    /\ l1.branch = "a"
    /\ l1.fin < Fork
    /\ \E tip \in Fork..MaxHeight : l1' = [l1 EXCEPT !.branch = "b", !.tip = tip]
    /\ UNCHANGED <<node, exec, resets>>

OnStaleBranch == node.cur >= Fork /\ node.branch # l1.branch

\* The op-node finishes the L1 block it is at, or goes on to the next one.
NodeDerives ==
    /\ \/ /\ node.done < node.cur
          /\ node' = [node EXCEPT !.done = node.cur]
       \/ /\ node.done = node.cur
          /\ node.cur < l1.tip
          /\ ~OnStaleBranch
          /\ node' = [node EXCEPT !.cur = @ + 1, !.branch = l1.branch]
    /\ UNCHANGED <<l1, exec, resets>>

\* A pipeline reset rewinds the op-node and drops the records it derives
\* again: forced by a reorganization, or of its own accord.
NodeResets ==
    /\ OnStaleBranch \/ resets < MaxResets
    /\ resets' = resets + 1
    /\ \E n \in 1..(IF OnStaleBranch THEN Fork - 1 ELSE node.cur - 1) :
           node' = [branch |-> l1.branch, cur |-> n, done |-> n - 1]
    /\ UNCHANGED <<l1, exec>>

\* The execution node catches up with the op-node, or builds ahead of it on
\* what the sequencer gossips.
ExecFollows ==
    /\ LET safe == Derived[Block(node.branch, node.done)]
       IN ~IsPrefix(safe, exec) /\ exec' = safe
    /\ UNCHANGED <<l1, node, resets>>

ExecRunsAhead ==
    /\ Len(exec) < Max({Len(Derived[b]) : b \in Blocks})
    /\ ~Contains(exec, Unsafe)
    /\ exec' = Append(exec, Unsafe)
    /\ UNCHANGED <<l1, node, resets>>
=============================================================================
