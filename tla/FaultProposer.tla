---------------------------- MODULE FaultProposer ----------------------------
(***************************************************************************)
(* The proposer agent (fault-proof/src/proposer.rs, backup.rs) running     *)
(* against the contracts of FaultDisputeGame.                              *)
(*                                                                         *)
(* The main loop syncs a cache from one confirmed L1 block (pinned), saves *)
(* a backup, and spawns tasks; the tasks create, prove, resolve, close and *)
(* claim at the head of the chain while the loop goes on.  A game is known *)
(* by its factory index, which also stands for its address: L1 reorgs, and *)
(* what the code does about them, are not modelled here; the rebuild of    *)
(* the cache after a restart is.                                           *)
(***************************************************************************)
EXTENDS FaultDisputeGame

CONSTANTS
    Self,                  \* the proposer's signer address
    ProposalInterval,      \* config.proposal_interval_in_blocks
    FastFinality,          \* config.fast_finality_mode
    ProvingLimit,          \* config.fast_finality_proving_limit
    MaxDefenses,           \* config.max_concurrent_defense_tasks
    MaxDeadlineLag,        \* MAX_GAME_DEADLINE_LAG
    MaxCloseGameFailures,  \* MAX_CLOSE_GAME_FAILURES
    WithBackup,            \* whether config.backup_path is set
    RemovalsFinal,         \* whether a pass finds the removals before it final on L1
    FirstL2Head,           \* the L2 head when the model starts
    MaxMempool,            \* bound: transactions given up on that may still land
    MaxFaults,             \* bound: failed reads, lost transactions, crashes
    OtherPowers            \* what the other accounts do in a run

ASSUME ProposerAssumption ==
    /\ Self \in Actors
    /\ FastFinality \in BOOLEAN /\ WithBackup \in BOOLEAN /\ RemovalsFinal \subseteq BOOLEAN
    /\ ProposalInterval \in Nat \ {0}
    /\ \A n \in {ProvingLimit, MaxDefenses, MaxDeadlineLag, MaxCloseGameFailures,
                 MaxMempool, MaxFaults} : n \in Nat
    /\ FirstL2Head \in 0..MaxBlock
    /\ OtherPowers \subseteq {"propose", "forge", "challenge", "prove", "settle"}

VARIABLES
    pinned,      \* the confirmed L1 block: its games, anchor and timestamp
    l2Head,      \* the last L2 block the nodes know and can prove
    phase,       \* the next step of the main loop: "sync" or "spawn"
    synced,      \* sync.block: how many games it has, NeverSynced for None
    complete,    \* sync.complete, and pinned has not moved since
    cursor,      \* ProposerState.cursor, 0 for None
    tracked,     \* ProposerState.games: the cached deadlines
    removed,     \* ProposerState.removed_games
    anchor,      \* ProposerState.anchor_game, NoParent for None
    head,        \* canonical_head_index, NoParent for None
    headBlock,   \* canonical_head_l2_block
    guard,       \* creation_guard: L2 block and game
    closeGameFailures,
    creation,    \* the creation task, or NoTask
    proving,     \* the proving tasks: game and purpose
    pending,     \* what the resolution, close and claim tasks still have to try
    saving,      \* the backup being written, or NoBackup
    disk,        \* the backup file, or NoBackup
    mempool,     \* transactions given up on that may still land
    untold,      \* history: own games no record of whose creation survived
    faults       \* history: how many faults there were

syncVars == <<phase, synced, complete>>

cache == <<cursor, tracked, removed, anchor, head, headBlock, guard, closeGameFailures>>

tasks == <<creation, proving, pending>>

(* Something goes wrong that need not have.                                *)
Fault == faults < MaxFaults /\ faults' = faults + 1

Unless(ok) == IF ok THEN UNCHANGED faults ELSE Fault

outside == <<pinned, l2Head, disk, mempool, untold, faults>>

proposerVars == <<syncVars, cache, tasks, saving, outside>>

allVars == <<vars, proposerVars>>

NeverSynced == -1

NoTask == [stage |-> "none", parent |-> NoParent, block |-> 0, index |-> 0]

NoGuard == [block |-> 0, index |-> 0]

NoBackup == [known |-> {}, guard |-> NoGuard, valid |-> FALSE]

Kinds == {"resolve", "close", "claim"}

NoneFailed == [i \in 1..MaxGames |-> 0]

PinnedIndices == 1..Len(pinned.games)

PinnedAnchorBlock == IF pinned.anchor = NoParent THEN 0 ELSE pinned.games[pinned.anchor].l2Block

-----------------------------------------------------------------------------
(* The DAG of cached games.  Parent and block of a game never change.      *)

(* descendants_of: the root, cached or not, and what hangs on it through   *)
(* cached games.                                                           *)
Descendants(root, cached) ==
    LET below[i \in Indices] ==
            \/ i = root
            \/ i \in cached /\ games[i].parent # NoParent /\ below[games[i].parent]
    IN  {i \in Indices : below[i]}

Highest(S) == {i \in S : \A j \in S : games[j].l2Block <= games[i].l2Block}

(* A game outside the anchor's subtree that is ahead of the anchor head a  *)
(* and branches off earlier.                                               *)
CatchUpRoots(a, cached, reachable) ==
    {g \in cached \ reachable :
        /\ games[g].l2Block > games[a].l2Block
        /\ \/ games[g].parent = NoParent
           \/ games[a].parent = NoParent
           \/ games[g].parent < games[a].parent}

(* select_canonical_head: the games it may return.  Among equally high     *)
(* ones the order of a hash map decides.                                   *)
CanonicalHeads(cached, anch) ==
    IF anch = NoParent THEN Highest(cached)
    ELSE LET reachable == Descendants(anch, cached) IN
         UNION {LET roots == CatchUpRoots(a, cached, reachable) IN
                IF roots = {} THEN {a}
                ELSE Highest(cached \intersect UNION {Descendants(r, cached) : r \in roots}) :
                   a \in Highest(cached \intersect reachable)}

-----------------------------------------------------------------------------
(* sync_state over the pinned block.                                       *)

(* read_game: other types are passed over; a type not respected when the   *)
(* game was created, or a claim other than the local output root, makes it *)
(* invalid.                                                                *)
Supported(g) == g.gameType = "succinct"

ValidGame(g) == Supported(g) /\ g.wasRespected = "yes" /\ g.claim = "canonical"

PinnedFinalized(g) == g.status # "IN_PROGRESS" /\ pinned.now - g.resolvedAt > FinalityDelay

(* The first sync of a process rebuilds: it re-reads the games the backup  *)
(* knew and forgets everything else.                                       *)
Rebuilding == synced = NeverSynced

Known == DOMAIN tracked \union removed

Rebuilt == {i \in Known \intersect PinnedIndices : ValidGame(pinned.games[i])}

CachedBefore == IF Rebuilding THEN Rebuilt ELSE DOMAIN tracked

RemovedBefore == IF Rebuilding THEN Known \ Rebuilt ELSE removed

CursorBefore == IF Rebuilding THEN 0 ELSE cursor

HeadBefore == IF Rebuilding THEN NoParent ELSE head

HeadBlockBefore == IF Rebuilding THEN PinnedAnchorBlock ELSE headBlock

DeadlineBefore(i) ==
    IF ~Rebuilding /\ i \in DOMAIN tracked THEN tracked[i] ELSE pinned.games[i].deadline

AbsDiff(a, b) == IF a < b THEN b - a ELSE a - b

(* The backward scan from the latest game to the cursor stops early at an  *)
(* anchor of an unsupported type, and at a game whose deadline is too far  *)
(* from the anchor's, once it has met the anchor.                          *)
StopsScan(i) ==
    LET g == pinned.games[i]  a == pinned.anchor IN
    \/ ~Supported(g) /\ i = a
    \/ /\ ValidGame(g) /\ a # NoParent /\ i <= a
       /\ ValidGame(pinned.games[a])
       /\ AbsDiff(DeadlineBefore(a), DeadlineBefore(i)) > MaxDeadlineLag

\* mutant: the latest game is not read
Scanned_NotLatest ==
    {i \in CursorBefore + 1..Len(pinned.games) - 1 :
        \A j \in i + 1..Len(pinned.games) : ~StopsScan(j)}

Scanned ==
    {i \in CursorBefore + 1..Len(pinned.games) :
        \A j \in i + 1..Len(pinned.games) : ~StopsScan(j)}

(* Reading a game asks the L2 node for the output root at its block, and   *)
(* fails the sync if the node does not have that block.                    *)
Readable(S) ==
    \A i \in S : Supported(pinned.games[i]) => pinned.games[i].l2Block <= l2Head

CanRebuild == Rebuilding => Readable(Known \intersect PinnedIndices)

CanDiscover == Readable(Scanned \ CachedBefore)

Loaded == CachedBefore \union {i \in Scanned : ValidGame(pinned.games[i])}

(* Discovery drops the subtrees of the invalid games it meets.             *)
Discovered(loaded) ==
    LET invalid == {i \in Scanned : Supported(pinned.games[i]) /\ ~ValidGame(pinned.games[i])}
    IN  loaded \ UNION {Descendants(i, loaded) : i \in invalid}

\* mutant: any resolved game goes with its subtree
Lost_AnyResolved(cached) ==
    LET roots == {i \in cached : pinned.games[i].status # "IN_PROGRESS"}
    IN  cached \intersect UNION {Descendants(i, cached) : i \in roots}

(* RemoveSubtree: cached games that lost, with all that hangs on them.     *)
Lost(cached) ==
    LET roots == {i \in cached : pinned.games[i].status = "CHALLENGER_WINS"}
    IN  cached \intersect UNION {Descendants(i, cached) : i \in roots}

(* The bond distribution of a won, finalized game is decided.              *)
Closed(i) ==
    /\ pinned.games[i].status = "DEFENDER_WINS"
    /\ PinnedFinalized(pinned.games[i])
    /\ pinned.games[i].mode # "UNDECIDED"

(* Remove: closed and paid, unless it is the head or the anchor.           *)
Settled(i) ==
    /\ Closed(i)
    /\ Credit(pinned.games[i], pinned.games[i].mode, Self) = 0
    /\ i \notin {HeadBefore, pinned.anchor}

GuardAfter(lost) == IF guard.index \in lost THEN NoGuard ELSE guard

(* The backup of a cache, as to_backup, validate and try_restore see it.   *)
BackupOf(cur, cached, rem, anch, g) ==
    [ known |-> cached \union rem,
      guard |-> g,
      valid |-> /\ cached \union rem = {} => cur <= 1
                /\ anch \in cached \union {NoParent} ]

(* backup(): begins to write unless a write is under way.                  *)
Backup(b) == saving' = IF WithBackup /\ saving = NoBackup THEN b ELSE saving

\* mutant: the deadline is read only once
DeadlineAfter_Stale(i) == DeadlineBefore(i)

(* Update: a challenge moves the deadline.                                 *)
DeadlineAfter(i) == pinned.games[i].deadline

SyncAnchorGame(cached) == IF pinned.anchor \in cached THEN pinned.anchor ELSE NoParent

(* Without a game the block of the last head stays.                        *)
ComputeCanonicalHead(cached) ==
    LET heads == CanonicalHeads(cached, SyncAnchorGame(cached)) IN
    IF heads = {} THEN head' = NoParent /\ headBlock' = HeadBlockBefore
    ELSE \E h \in heads : head' = h /\ headBlock' = games[h].l2Block

(* How far a pass of sync_state gets before a read fails.                  *)
Stages == <<"rebuilt", "discovered", "statuses", "head", "done">>

(* One pass of sync_state and, when it succeeds, the backup that follows.  *)
(* It gets through the first n stages and leaves what it did so far; pr    *)
(* tells whether the removals it knows of are final on L1.                 *)
SyncState(n, pr) ==
    LET did(stage) == \E k \in 1..n : Stages[k] = stage
        loaded == Loaded
        discovered == Discovered(loaded)
        lost == Lost(discovered)
        kept == {i \in discovered \ lost : ~Settled(i)}
        cached == IF did("statuses") THEN kept
                  ELSE IF did("discovered") THEN discovered ELSE CachedBefore
    IN /\ phase = "sync" /\ ~complete
       /\ CanRebuild
       /\ did("discovered") => CanDiscover
       /\ synced' = Len(pinned.games)
       /\ complete' = did("done")
       /\ phase' = IF did("done") THEN "spawn" ELSE "sync"
       /\ cursor' = IF did("discovered") THEN Len(pinned.games) ELSE CursorBefore
       /\ tracked' = [i \in cached |-> IF did("statuses") THEN DeadlineAfter(i)
                                       ELSE DeadlineBefore(i)]
       /\ removed' = IF did("done") /\ pr THEN {}
                     ELSE IF did("discovered") THEN (RemovedBefore \union loaded) \ cached
                     ELSE RemovedBefore
       /\ guard' = IF did("statuses") THEN GuardAfter(lost) ELSE guard
       /\ closeGameFailures' =
             [i \in 1..MaxGames |->
                 IF Rebuilding \/ (did("statuses") /\ i \in discovered \ lost /\ Closed(i))
                 THEN 0 ELSE closeGameFailures[i]]
       /\ anchor' = IF did("head") THEN SyncAnchorGame(kept)
                    ELSE IF Rebuilding THEN NoParent ELSE anchor
       /\ IF did("head") THEN ComputeCanonicalHead(kept)
          ELSE head' = HeadBefore /\ headBlock' = HeadBlockBefore
       /\ IF did("done") THEN Backup(BackupOf(cursor', cached, removed', anchor', guard'))
          ELSE UNCHANGED saving
       /\ Unless(did("done"))
       /\ UNCHANGED <<vars, tasks, pinned, l2Head, disk, mempool, untold>>

(* The confirmed block has not changed since the last complete pass.       *)
SyncUnchanged ==
    /\ phase = "sync" /\ complete
    /\ phase' = "spawn"
    /\ Backup(BackupOf(cursor, DOMAIN tracked, removed, anchor, guard))
    /\ UNCHANGED <<vars, synced, complete, cache, tasks, outside>>

(* The next pass finds a later confirmed block.                            *)
Confirm ==
    /\ phase = "sync"
    /\ pinned' = [games |-> games, anchor |-> anchorGame, now |-> now]
    /\ pinned' # pinned
    /\ complete' = FALSE
    /\ UNCHANGED <<vars, phase, synced, cache, tasks, saving, l2Head, disk, mempool,
                   untold, faults>>

-----------------------------------------------------------------------------
(* spawn_pending_operations: the cache as of the pinned block decides, the *)
(* latest block is asked again.                                            *)

PinnedParentResolved(g) ==
    g.parent # NoParent => pinned.games[g.parent].status # "IN_PROGRESS"

\* mutant: an unchallenged game is never over
IsOver_ProvenOnly(g) == g.proposal \notin {"Unchallenged", "Challenged"}

(* is_game_over.                                                           *)
IsOver(g) ==
    CASE g.proposal = "Unchallenged" -> pinned.now >= g.deadline
      [] g.proposal = "Challenged" -> FALSE
      [] OTHER -> TRUE

IsOwnGame(g) == g.creator = Self \/ g.prover = Self

(* The should_attempt_* flags sync_games left on the cached games.         *)
Candidates(kind) ==
    {i \in DOMAIN tracked : LET g == pinned.games[i] IN
        CASE kind = "resolve" -> /\ g.status = "IN_PROGRESS"
                                 /\ PinnedParentResolved(g) /\ IsOver(g) /\ IsOwnGame(g)
          [] kind = "close" -> /\ g.status = "DEFENDER_WINS" /\ PinnedFinalized(g)
                               /\ g.mode = "UNDECIDED"
          [] kind = "claim" -> Closed(i) /\ Credit(g, g.mode, Self) > 0}

(* should_skip_proving: proven or resolved by now, or the deadline passed. *)
ShouldSkipProving(i) ==
    \/ games[i].proposal \notin {"Unchallenged", "Challenged"}
    \/ now >= tracked[i]

BeingProved == {t[1] : t \in proving}

Defenses == {t \in proving : t[2] = "defense"}

Provable(proposal) ==
    {i \in DOMAIN tracked \ BeingProved :
        /\ pinned.games[i].status = "IN_PROGRESS" /\ pinned.games[i].proposal = proposal
        /\ ~ShouldSkipProving(i)}

(* Fast finality resumes proofs of own games in any order, as long as no   *)
(* creation is under way...                                                *)
Resumable == {i \in Provable("Unchallenged") : games[i].creator = Self}

\* mutant: proofs are resumed beside a creation
CanResume_WhileCreating(R) ==
    /\ R \subseteq Resumable
    /\ R # {} => FastFinality /\ Cardinality(R) + Cardinality(proving) <= ProvingLimit

CanResume(R) ==
    /\ R \subseteq Resumable
    /\ R # {} => /\ FastFinality /\ creation = NoTask
                 /\ Cardinality(R) + Cardinality(proving) <= ProvingLimit

(* ...and spawn_game_defense_tasks takes the games closest to expiring.    *)
CanDefend(D) ==
    /\ D \subseteq Provable("Challenged")
    /\ \A i \in D, j \in Provable("Challenged") \ D : tracked[i] <= tracked[j]
    /\ Cardinality(D) + Cardinality(Defenses) <= MaxDefenses

NextBlock == headBlock + ProposalInterval

\* mutant: a proposal at the block of the guarded game goes through
Guarded_Strict == guard.block > 0 /\ NextBlock < guard.block

(* A game created at or past the next block is not in the cache yet.       *)
Guarded == guard.block > 0 /\ NextBlock <= guard.block

(* should_create_game, with R the proofs just resumed.                     *)
ShouldCreate(R) ==
    /\ creation = NoTask
    /\ FastFinality => Cardinality(R) + Cardinality(proving) < ProvingLimit
    /\ respectedGameType = "succinct"
    /\ ~Guarded
    /\ l2Head >= NextBlock

(* The anchor itself cannot be a parent by index.                          *)
ProposalParent == IF head = anchor THEN NoParent ELSE head

CreationTask == [stage |-> "check", parent |-> ProposalParent, block |-> NextBlock, index |-> 0]

(* No read failed: as many proofs as allowed, and a proposal if one is due. *)
Full(R, D, create) ==
    /\ \A i \in Resumable \ R : ~CanResume(R \union {i})
    /\ \A i \in Provable("Challenged") \ D : ~CanDefend(D \union {i})
    /\ ShouldCreate(R) => create

(* R and D are the proofs resumed and the defenses begun, fewer than there *)
(* could be if reads fail; create says whether a creation task is spawned. *)
Spawn(R, D, create) ==
    /\ phase = "spawn"
    /\ CanResume(R) /\ CanDefend(D)
    /\ create => ShouldCreate(R)
    /\ creation' = IF create THEN CreationTask ELSE creation
    /\ proving' = proving \union (R \X {"finality"}) \union (D \X {"defense"})
    /\ pending' = [k \in Kinds |-> IF pending[k] = {} THEN Candidates(k) ELSE pending[k]]
    /\ phase' = "sync"
    /\ Unless(Full(R, D, create))
    /\ UNCHANGED <<vars, synced, complete, cache, saving, pinned, l2Head, disk, mempool, untold>>

-----------------------------------------------------------------------------
(* The creation task.                                                      *)

(* handle_game_creation looks for the first block for which no such game   *)
(* exists, and sends the transaction.                                      *)
CreateSend ==
    LET free == {b \in creation.block..l2Head :
                    UniqueUUID("succinct", "canonical", b, creation.parent)}
    IN /\ creation.stage = "check"
       /\ \E b \in free :
             /\ \A c \in free : b <= c
             /\ creation' = [creation EXCEPT !.stage = "sent", !.block = b]
       /\ UNCHANGED <<vars, syncVars, cache, proving, pending, saving, outside>>

CreateMined ==
    /\ creation.stage = "sent"
    /\ Create(Self, creation.parent, creation.block, "canonical")
    /\ creation' = [creation EXCEPT !.stage = "mined", !.index = Len(games')]
    /\ UNCHANGED <<syncVars, cache, proving, pending, saving, outside>>

(* A transaction given up on is lost, or may still land.                   *)
MayLandLater(txs) ==
    /\ mempool' \in {mempool, mempool \union txs}
    /\ Cardinality(mempool') <= MaxMempool

CreationTx(task) == [index |-> 0, parent |-> task.parent, block |-> task.block]

ProofTx(i) == [index |-> i, parent |-> NoParent, block |-> 0]

(* A read fails, the block is not there yet, the transaction reverts or    *)
(* its receipt does not come in time.                                      *)
CreateFails ==
    /\ creation.stage \in {"check", "sent"}
    /\ creation' = NoTask
    /\ MayLandLater(IF creation.stage = "sent" THEN {CreationTx(creation)} ELSE {})
    /\ Unless(\/ ~UniqueUUID("succinct", "canonical", creation.block, creation.parent)
              \/ creation.parent # NoParent /\ ~ValidParent(creation.parent)
              \/ creation.block <= StartingBlock(creation.parent))
    /\ UNCHANGED <<vars, syncVars, cache, proving, pending, saving,
                   pinned, l2Head, disk, untold>>

\* mutant: the scan is not repeated for a game that was synced already
Register_NoRescan ==
    LET set == [block |-> creation.block, index |-> creation.index] IN
    /\ creation.stage = "mined"
    /\ creation' = NoTask
    /\ guard' = set
    /\ Backup(BackupOf(cursor, DOMAIN tracked, removed, anchor, set))
    /\ UNCHANGED <<vars, syncVars, cursor, tracked, removed, anchor, head, headBlock,
                   closeGameFailures, proving, pending, outside>>

(* The receipt is there: fast finality starts a proof if the game is       *)
(* cached already, a game the last sync saw is scanned for again, the      *)
(* guard is set and a backup begun unless one is being written.            *)
Register ==
    LET seen == creation.index <= synced
        set == [block |-> creation.block, index |-> creation.index]
        starts == /\ FastFinality /\ creation.index \in DOMAIN tracked
                  /\ games[creation.index].proposal \in {"Unchallenged", "Challenged"}
    IN /\ creation.stage = "mined"
       /\ creation' = NoTask
       /\ proving' = IF starts THEN proving \union {<<creation.index, "finality">>} ELSE proving
       /\ cursor' = IF seen THEN 0 ELSE cursor
       /\ complete' = (complete /\ ~seen)
       /\ guard' = set
       /\ Backup(BackupOf(cursor', DOMAIN tracked, removed, anchor, set))
       /\ UNCHANGED <<vars, phase, synced, tracked, removed, anchor, head, headBlock,
                      closeGameFailures, pending, outside>>

-----------------------------------------------------------------------------
(* The proving, resolution, close and claim tasks.                         *)

(* prove_game: proofs over the ranges, the aggregation, the transaction.   *)
ProveSucceeds(task) ==
    /\ Prove(task[1], Self)
    /\ proving' = proving \ {task}
    /\ UNCHANGED <<syncVars, cache, creation, pending, saving, outside>>

ProveFails(task) ==
    /\ proving' = proving \ {task}
    /\ MayLandLater({ProofTx(task[1])})
    /\ Unless(GameOver(games[task[1]]))
    /\ UNCHANGED <<vars, syncVars, cache, creation, pending, saving,
                   pinned, l2Head, disk, untold>>

Tried(kind, i) == pending' = [pending EXCEPT ![kind] = @ \ {i}]

(* A preflight at the latest block, then the transaction.                  *)
Attempt(kind, i) ==
    /\ \/ kind = "resolve" /\ Resolve(i) /\ UNCHANGED closeGameFailures
       \/ /\ kind = "close" /\ closeGameFailures[i] < MaxCloseGameFailures
          /\ CloseGame(i) \/ (games[i].mode # "UNDECIDED" /\ UNCHANGED vars)
          /\ closeGameFailures' = [closeGameFailures EXCEPT ![i] = 0]
       \/ kind = "claim" /\ ClaimCredit(i, Self) /\ UNCHANGED closeGameFailures
    /\ Tried(kind, i)
    /\ UNCHANGED <<syncVars, cursor, tracked, removed, anchor, head, headBlock, guard,
                   creation, proving, saving, outside>>

(* Attempts to close are counted, and stop at the limit.                   *)
CloseFailures(kind, i) ==
    IF kind = "close" /\ closeGameFailures[i] < MaxCloseGameFailures
    THEN [closeGameFailures EXCEPT ![i] = @ + 1] ELSE closeGameFailures

(* The preflight says no or the transaction fails.                         *)
PassOver(kind, i) ==
    /\ closeGameFailures' = CloseFailures(kind, i)
    /\ Tried(kind, i)
    /\ Unless(CASE kind = "resolve" -> games[i].status # "IN_PROGRESS" \/ ~CanResolve(games[i])
                [] kind = "close" -> \/ closeGameFailures[i] = MaxCloseGameFailures
                                     \/ games[i].mode = "UNDECIDED" /\ ~CanClose(i)
                [] kind = "claim" -> Credit(games[i], games[i].mode, Self) = 0)
    /\ UNCHANGED <<vars, syncVars, cursor, tracked, removed, anchor, head, headBlock, guard,
                   creation, proving, saving, pinned, l2Head, disk, mempool, untold>>

-----------------------------------------------------------------------------
(* The backup file is replaced as a whole or not at all.                   *)
SaveEnds ==
    /\ saving # NoBackup
    /\ disk' \in {disk, saving}
    /\ Unless(disk' = saving)
    /\ saving' = NoBackup
    /\ UNCHANGED <<vars, syncVars, cache, tasks, pinned, l2Head, mempool, untold>>

(* A crash and init_state.  Of a restored cache the rebuild reads only     *)
(* which games it knew, so they are all put in removed here.               *)
Restart ==
    /\ Fault
    /\ phase' = "sync" /\ synced' = NeverSynced /\ complete' = FALSE
    /\ cursor' = 0 /\ tracked' = << >> /\ anchor' = NoParent
    /\ removed' = IF disk.valid THEN disk.known ELSE {}
    /\ guard' = IF disk.valid THEN disk.guard ELSE NoGuard
    /\ head' = NoParent /\ headBlock' = AnchorBlock
    /\ closeGameFailures' = NoneFailed
    /\ creation' = NoTask /\ proving' = {} /\ pending' = [k \in Kinds |-> {}]
    /\ saving' = NoBackup
    /\ MayLandLater(IF creation.stage = "sent" THEN {CreationTx(creation)} ELSE {})
    /\ untold' = untold \union {i \in Indices : /\ games[i].creator = Self
                                                /\ i > Len(pinned.games)
                                                /\ i > guard'.index}
    /\ UNCHANGED <<vars, pinned, l2Head, disk>>

(* A transaction nobody waits for any more lands, or reverts.              *)
LandsLate(tx) ==
    /\ mempool' = mempool \ {tx}
    /\ \/ UNCHANGED vars
       \/ tx.index = 0 /\ Create(Self, tx.parent, tx.block, "canonical")
       \/ tx.index # 0 /\ Prove(tx.index, Self)
    /\ untold' = untold \union (Indices' \ Indices)
    /\ UNCHANGED <<syncVars, cache, tasks, saving, pinned, l2Head, disk, faults>>

-----------------------------------------------------------------------------
ProposerInit ==
    /\ Init
    /\ pinned = [games |-> games, anchor |-> anchorGame, now |-> now]
    /\ l2Head = FirstL2Head
    /\ phase = "sync" /\ synced = NeverSynced /\ complete = FALSE
    /\ cursor = 0 /\ tracked = << >> /\ removed = {} /\ anchor = NoParent
    /\ head = NoParent /\ headBlock = 0 /\ guard = NoGuard
    /\ closeGameFailures = NoneFailed
    /\ creation = NoTask /\ proving = {} /\ pending = [k \in Kinds |-> {}]
    /\ saving = NoBackup /\ disk = NoBackup
    /\ mempool = {} /\ untold = {} /\ faults = 0

Others == Actors \ {Self}

(* Everybody else: other proposers, challengers, provers, the guardian.    *)
World ==
    /\ \/ RegistryStep
       \/ \E a \in Others, p \in {NoParent} \union Indices, b \in 1..MaxBlock, r \in Roots :
             /\ IF r = "canonical" THEN "propose" \in OtherPowers ELSE "forge" \in OtherPowers
             /\ Create(a, p, b, r)
       \/ \E b \in 1..MaxBlock, r \in Roots : CreateOther(b, r)
       \/ \E i \in Indices, v \in GameStatuses \ {"IN_PROGRESS"} : ResolveOther(i, v)
       \/ "challenge" \in OtherPowers /\ \E i \in Indices, a \in Others : Challenge(i, a)
       \/ "prove" \in OtherPowers /\ \E i \in Indices, a \in Others : Prove(i, a)
       \/ "settle" \in OtherPowers /\ \E i \in Indices : Resolve(i) \/ CloseGame(i)
       \/ "settle" \in OtherPowers /\ \E i \in Indices, a \in Addresses : ClaimCredit(i, a)
    /\ UNCHANGED proposerVars

Clock == PassTime /\ UNCHANGED proposerVars

L2Advances ==
    /\ l2Head < MaxBlock /\ l2Head' = l2Head + 1
    /\ UNCHANGED <<vars, syncVars, cache, tasks, saving, pinned, disk, mempool, untold, faults>>

Loop ==
    \/ \E n \in DOMAIN Stages, pr \in RemovalsFinal : SyncState(n, pr)
    \/ SyncUnchanged
    \/ \E R \in SUBSET DOMAIN tracked : \E D \in SUBSET DOMAIN tracked :
          \E create \in BOOLEAN : Spawn(R, D, create)

CreationStep == CreateSend \/ CreateMined \/ CreateFails \/ Register

TaskStep ==
    \/ \E task \in proving : ProveSucceeds(task) \/ ProveFails(task)
    \/ \E k \in Kinds : \E i \in pending[k] : Attempt(k, i) \/ PassOver(k, i)

ProposerNext ==
    \/ World \/ Clock \/ L2Advances \/ Confirm
    \/ Loop \/ CreationStep \/ TaskStep
    \/ SaveEnds \/ Restart
    \/ \E tx \in mempool : LandsLate(tx)

ProposerSpec == ProposerInit /\ [][ProposerNext]_allVars

-----------------------------------------------------------------------------
(* Properties.                                                             *)

(* A game that has lost, or stands on one that has.                        *)
Doomed == UNION {Descendants(i, Indices) : i \in {j \in Indices : games[j].status = "CHALLENGER_WINS"}}

(* However far the cache lags behind the chain, whatever lost, closed or   *)
(* was evicted in between, and across restarts, the proposer never creates *)
(* a game at or below the block of one of its own that can still win; a    *)
(* game whose creation it was never told of (timed out, or a crash before  *)
(* the guard was saved) is the exception (should_create_game, the guard).  *)
(* This is about a proposer that is alone: another's game that becomes the *)
(* anchor can take the head to a branch below its own.                     *)
NoDuplicateProposal ==
    [][creation.stage = "sent" /\ creation'.stage = "mined" =>
        \A i \in Indices :
            games[i].creator = Self /\ i \notin untold \union Doomed =>
                games[i].l2Block <= StartingBlock(creation.parent)]_allVars

Ancestors(i) == {j \in Indices : i \in Descendants(j, Indices)}

(* Games a scan may leave out although they are valid: those that stand on *)
(* an invalid one, those below an anchor of another type, and those that   *)
(* are older than MaxDeadlineLag allows.                                   *)
OutOfReach(i) ==
    \/ \E j \in Ancestors(i) : Supported(games[j]) /\ ~ValidGame(games[j])
    \/ \E j \in Indices : j > i /\ ~Supported(games[j]) /\ games[j].status = "DEFENDER_WINS"
    \/ now + MaxChallengeDuration + MaxProveDuration - games[i].createdAt > MaxDeadlineLag

(* Won, closed and with nothing left to claim.                             *)
PaidOut(i) ==
    /\ games[i].status = "DEFENDER_WINS" /\ games[i].mode # "UNDECIDED"
    /\ Credit(games[i], games[i].mode, Self) = 0

(* The guard does not outlive its purpose: while it holds proposals back,  *)
(* the game it waits for is in the cache or still to be scanned, however   *)
(* late its creation was registered and whatever became of it in between   *)
(* (GuardAfter, the second scan in Register).  A game that discovery drops *)
(* or does not reach is the exception, and so is one that was paid out and *)
(* evicted without the head ever passing it: the guard for these stays.    *)
GuardIsTemporary ==
    Guarded => \/ guard.index \in DOMAIN tracked \/ guard.index > cursor
               \/ OutOfReach(guard.index) \/ PaidOut(guard.index)

(* What the comments on sync_games ("Games are removed (along with their  *)
(* subtree) if their parent is not in the cache") and on                  *)
(* select_canonical_head ("the highest-L2-block game on the best valid    *)
(* chain") say: the head has no forged claim beneath it.                  *)
HeadOnValidChain ==
    head # NoParent => \A j \in Ancestors(head) : games[j].claim = "canonical"

(* A won game that still owes the proposer money is cached, or still to be *)
(* discovered, unless it is out of a scan's reach: then a restart without  *)
(* a backup forgets it.                                                    *)
BondsRemembered ==
    \A i \in Indices : LET g == games[i] IN
        /\ ValidGame(g) /\ g.status = "DEFENDER_WINS"
        /\ Credit(g, g.mode, Self) > 0 /\ ~OutOfReach(i)
        => i \in DOMAIN tracked \/ i > cursor \/ Rebuilding

(* The limits on concurrent proofs hold, with defenses counted against the *)
(* one on fast finality but not the other way round, and with the proof of *)
(* a game just created started outside the main loop.                      *)
ProofsWithinLimits ==
    /\ Cardinality(Defenses) <= MaxDefenses
    /\ Cardinality(proving \ Defenses) <= ProvingLimit
=============================================================================
