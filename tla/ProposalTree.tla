---------------------------- MODULE ProposalTree ----------------------------
(***************************************************************************)
(* What the dispute layer promises the rest of the system, without bonds,  *)
(* clocks, proofs or roles: a growing forest of proposals, each decided    *)
(* once and only after its parent, accepted only below an accepted parent, *)
(* and a head that moves along accepted proposals to ever higher blocks.   *)
(***************************************************************************)
EXTENDS Integers, Sequences

CONSTANT Blocks  \* the blocks proposals can be made for

VARIABLES
    proposals,  \* [parent, block, verdict], in the order they were made
    head        \* index of the accepted proposal withdrawals rely on, 0 = genesis

HeadBlock == IF head = 0 THEN 0 ELSE proposals[head].block

VerdictOf(p) == IF p = 0 THEN "accepted" ELSE proposals[p].verdict

TreeInit == proposals = << >> /\ head = 0

(* A proposal extends a parent that is not rejected, or the head.          *)
Propose(par, block) ==
    /\ VerdictOf(par) # "rejected"
    /\ block > HeadBlock
    /\ par # 0 => block > proposals[par].block
    /\ proposals' = Append(proposals, [parent |-> par, block |-> block, verdict |-> "pending"])
    /\ head' = head

Decide(i, verdict) ==
    /\ proposals[i].verdict = "pending"
    /\ VerdictOf(proposals[i].parent) # "pending"
    /\ verdict = "accepted" => VerdictOf(proposals[i].parent) = "accepted"
    /\ proposals' = [proposals EXCEPT ![i] = [proposals[i] EXCEPT !.verdict = verdict]]
    /\ head' = head

Advance(i) ==
    /\ proposals[i].verdict = "accepted"
    /\ proposals[i].block > HeadBlock
    /\ head' = i
    /\ proposals' = proposals

TreeNext ==
    \/ \E par \in 0..Len(proposals), block \in Blocks : Propose(par, block)
    \/ \E i \in 1..Len(proposals), v \in {"accepted", "rejected"} : Decide(i, v)
    \/ \E i \in 1..Len(proposals) : Advance(i)

TreeSpec == TreeInit /\ [][TreeNext]_<<proposals, head>>
=============================================================================
