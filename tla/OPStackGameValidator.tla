----------------------- MODULE OPStackGameValidator -----------------------
(***************************************************************************)
(* The challenger's validator of a game's claim                            *)
(* (fault-proof/src/op_stack_game_validator.rs).  A validation is a        *)
(* sequence of RPC reads, one action each, between which L1 may be         *)
(* reorganized, the op-node may go on or be reset, and the execution node  *)
(* may change chains.  Why a verdict is unavailable only reaches logs and  *)
(* metrics, so there is one Unavailable.                                   *)
(***************************************************************************)
EXTENDS RollupNodes

CONSTANTS
    Claims,       \* L2 block numbers games claim
    Overflow      \* a claimed number above the range of u64

VARIABLE val      \* the validation in progress

ASSUME ClaimsAssumption == Claims \subseteq Nat \ {0} /\ Overflow \in Nat \ Claims

NoGame == [l1Head |-> Block("a", 0), claim |-> 0, root |-> <<>>]

\* Games whose L1 head is a block of L1, claiming a root of either branch.
Games ==
    [l1Head : {L1BlockAt(n) : n \in 1..l1.tip},
     claim  : Claims \cup {Overflow},
     root   : {Derived[Block(b, MaxHeight)] : b \in Branches} \cup {<<Unsafe>>}]

Number(g) == g.l1Head[1]

NoRecord == [l1 |-> Block("a", 0), head |-> <<>>]

Resting(up) ==
    [pc |-> IF up THEN "idle" ELSE "startup", up |-> up, next |-> "idle",
     expect |-> Block("a", 0), game |-> NoGame, first |-> 0, second |-> 0,
     seen |-> 0, later |-> 0, rec |-> NoRecord, verdict |-> "none"]

\* A verdict, kept with the game and the watermarks it was reached from.
Finish(verdict) ==
    val' = [val EXCEPT !.pc = "idle", !.rec = NoRecord, !.verdict = verdict]

\* An error of any call, or an answer that fails a check: nothing is decided
\* and the challenger asks again on a later tick.
Unavailable == val' = Resting(val.up)

ReadFails ==
    /\ val.pc \notin {"idle", "startup"}
    /\ Unavailable

-----------------------------------------------------------------------------
(* validate_canonical_l1_block and validate_safe_head_response, called from *)
(* startup and from a validation.                                          *)

CheckCanonical(b, next) == [val EXCEPT !.pc = "canonical", !.expect = b, !.next = next]

ValidateCanonicalL1Block ==
    /\ val.pc = "canonical"
    /\ IF Canonical(val.expect) THEN val' = [val EXCEPT !.pc = val.next, !.expect = Block("a", 0), !.next = "idle"]
                                ELSE Unavailable

SafeDbRecordIsAtOrBefore(rec, requested) == rec.l1[1] <= requested

\* Ask the safe-head database for L1 block n and start checking its answer.
SafeHeadAtL1(n) ==
    IF SafeDbRecordIsAtOrBefore(SafeHeadAt(n), n)
    THEN val' = [CheckCanonical(SafeHeadAt(n).l1, "header") EXCEPT !.rec = SafeHeadAt(n)]
    ELSE Unavailable

ExecutionAgrees(head) == L2Has(Len(head)) /\ L2BlockAt(Len(head)) = head

ValidateSafeHeadResponse ==
    /\ val.pc = "header"
    /\ IF ~ExecutionAgrees(val.rec.head)
       THEN Unavailable
       ELSE val' = IF val.up THEN [val EXCEPT !.pc = "status2"] ELSE Resting(TRUE)

-----------------------------------------------------------------------------
(* Startup: validate_node_pairing.                                         *)

\* The op-node's status; the block before the one it is at is processed.
PairingStatus ==
    /\ val.pc = "startup"
    /\ node.cur >= 1
    /\ val' = [val EXCEPT !.pc = "pairing", !.first = node.cur - 1]

PairingSafeHead ==
    /\ val.pc = "pairing"
    /\ SafeHeadAtL1(val.first)

-----------------------------------------------------------------------------
(* One validation: validate and historical_local_safe_head.                *)

Validate ==
    /\ val.pc = "idle"
    /\ \E g \in Games :
           val' = [Resting(TRUE) EXCEPT
                     !.game = g,
                     !.pc = IF g.claim = Overflow THEN "idle" ELSE "game",
                     !.verdict = IF g.claim = Overflow THEN "Invalid" ELSE "none"]

\* The game's L1 block by hash: an orphaned block may still be served.
GameHeader ==
    /\ val.pc = "game"
    /\ val' = CheckCanonical(val.game.l1Head, "status")

FirstStatus ==
    /\ val.pc = "status"
    /\ val' = [CheckCanonical(CurrentL1, "safe") EXCEPT !.first = node.cur, !.seen = resets]

\* The op-node must be past the game's block, so that the block's record is
\* complete.
SafeHeadOfGame ==
    /\ val.pc = "safe"
    /\ IF val.first <= Number(val.game) THEN Unavailable
                                        ELSE SafeHeadAtL1(Number(val.game))

SecondStatus ==
    /\ val.pc = "status2"
    /\ val' = [CheckCanonical(CurrentL1, "claim") EXCEPT !.second = node.cur, !.later = resets]

\* mutant: a rewind between the two reads goes unnoticed.
OpNodeWatermarksAreUsable_FirstOnly(first, second, game) == first > game

OpNodeWatermarksAreUsable(first, second, game) == first > game /\ second >= first

\* The claim's height against the safe head, then its root against the one
\* the execution node computes; a block that node lacks is an error.
ClassifyClaim ==
    /\ val.pc = "claim"
    /\ LET g == val.game
       IN CASE ~OpNodeWatermarksAreUsable(val.first, val.second, Number(g)) -> Unavailable
            [] OTHER ->
               IF g.claim > Len(val.rec.head) THEN Finish("Invalid")
               ELSE IF ~L2Has(g.claim) THEN Unavailable
               ELSE Finish(IF IsPrefix(L2BlockAt(g.claim), g.root) THEN "Valid" ELSE "Invalid")

-----------------------------------------------------------------------------
ValidatorInit == val = Resting(FALSE)

ValidatorNext ==
    \/ PairingStatus \/ PairingSafeHead \/ Validate \/ GameHeader \/ FirstStatus
    \/ SafeHeadOfGame \/ SecondStatus \/ ClassifyClaim
    \/ ValidateCanonicalL1Block \/ ValidateSafeHeadResponse \/ ReadFails

-----------------------------------------------------------------------------
\* A game is right iff the chain its own L1 head derives has the claimed
\* block with the claimed root.
Backed(g) ==
    LET chain == Derived[g.l1Head]
    IN /\ g.claim # Overflow
       /\ g.claim <= Len(chain)
       /\ IsPrefix(SubSeq(chain, 1, g.claim), g.root)

\* The op-node lost records between the two reads of its status and had
\* made up for it by the second.
Regained == val.later # val.seen /\ val.second >= val.first

\* The answers a verdict is put together from are read one by one from three
\* nodes that move meanwhile; still the verdict is the one the game's L1 head
\* calls for, as long as that block is part of L1 and the op-node was not
\* reset and back past its former position between the two status reads,
\* which two watermarks cannot tell from an op-node that never moved.
VerdictMatchesL1Head ==
    /\ val.verdict \in {"Valid", "Invalid"}
    /\ Canonical(val.game.l1Head)
    /\ ~Regained
    => (val.verdict = "Valid" <=> Backed(val.game))
=============================================================================
