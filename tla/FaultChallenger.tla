-------------------------- MODULE FaultChallenger --------------------------
(***************************************************************************)
(* The challenger agent (fault-proof/src/challenger.rs) running against    *)
(* the contracts of FaultDisputeGame.                                      *)
(*                                                                         *)
(* The agent reads one confirmed L1 block per cycle (pinned), which may    *)
(* be older than the head the contracts are at; it rechecks the head only  *)
(* just before it sends a transaction, and the transaction lands later.    *)
(* sync_state reads nothing but the pinned block and is one action; the    *)
(* handlers that follow it take one action for every candidate, between    *)
(* which the rest of the world moves.  Games are known by factory index;   *)
(* the four should_attempt_* booleans, of which sync_game never raises two *)
(* at once, are the field flag.                                            *)
(***************************************************************************)
EXTENDS FaultDisputeGame, Functions

CONSTANTS
    Self,                  \* the challenger's signer address
    Modes,                 \* the configurations a run tries
    MaxCloseGameFailures,  \* MAX_CLOSE_GAME_FAILURES
    MaxMempool             \* bound: abandoned transactions that may still land

ASSUME ChallengerAssumption ==
    /\ Self \in Actors
    /\ Modes \subseteq {"active", "monitor", "malicious", "malicious monitor"}
    /\ MaxCloseGameFailures \in Nat /\ MaxMempool \in Nat

VARIABLES
    config,              \* the mode the agent is configured for, fixed
    pinned,              \* the confirmed L1 block: its games and timestamp
    cursor,              \* ChallengerState.cursor, 0 for None
    tracked,             \* ChallengerState.games
    pendingDiscoveries,  \* ChallengerState.pending_discoveries
    closeGameFailures,   \* close_game_failures
    todo,                \* candidates the handlers of this cycle have not reached
    awaiting,            \* the transaction whose receipt is awaited, or NoTx
    mempool              \* transactions given up on that may still land

memory == <<cursor, tracked, pendingDiscoveries, closeGameFailures, todo, awaiting>>

challengerVars == <<config, pinned, memory, mempool>>

allVars == <<vars, challengerVars>>

(* config.disable_monitor_only: whether challenges are sent at all.        *)
SubmitEnabled == config \in {"active", "malicious"}

(* config.malicious_challenge_percentage > 0, a mode for testing.          *)
Malicious == config \in {"malicious", "malicious monitor"}

(* The order in which run calls the handlers.                              *)
Handlers == <<"none", "challenge", "malice", "resolve", "close", "claim">>

Validations == {"Unavailable", "Valid", "Invalid"}

NoTx == [kind |-> "none", index |-> 0]

(* Stands in todo for the malicious part of handle_game_challenging.       *)
MaliceTurn == 0

PinnedIndices == 1..Len(pinned.games)

-----------------------------------------------------------------------------
(* sync_state                                                              *)

(* Games of another type, or of a type not respected at creation, are      *)
(* dropped by fetch_game for good.                                         *)
Eligible(g) == g.gameType = "succinct" /\ g.wasRespected = "yes"

NewEntry == [validation |-> "Unavailable", flag |-> "none", openUntil |-> 0]

\* mutant: a game that fails to load is given up
PendingAfter_Dropped(fails) == {}

(* Indices retried and discovered in this cycle; those in fails are kept   *)
(* for the next one while the cursor moves on.                             *)
Fetched == pendingDiscoveries \union (cursor + 1)..Len(pinned.games)

PendingAfter(fails) == Fetched \intersect fails

(* The verdict of the chain-specific validator once its nodes can answer:  *)
(* it compares the claim with the local safe chain.                        *)
Validate(g) == IF g.claim = "canonical" THEN "Valid" ELSE "Invalid"

PinnedParent(g) ==
    IF g.parent = NoParent THEN "DEFENDER_WINS" ELSE pinned.games[g.parent].status

PinnedFinalized(g) ==
    g.status # "IN_PROGRESS" /\ pinned.now - g.resolvedAt > FinalityDelay

\* mutant: a game that cannot be validated is challenged
ValidationAfter_Guess(g, entry, available) ==
    IF entry.validation # "Unavailable" THEN entry.validation
    ELSE IF available THEN Validate(g) ELSE "Invalid"

(* Validation is attempted while a challenge is still possible, and kept.  *)
ValidationAfter(g, entry, available) ==
    IF entry.validation = "Unavailable" /\ available
    THEN Validate(g) ELSE entry.validation

\* mutant: an unresolved parent counts as lost
FlagInProgress_ParentPending(g, validation) ==
    IF g.proposal = "Unchallenged" /\ now < g.deadline
       /\ (validation = "Invalid" \/ PinnedParent(g) # "DEFENDER_WINS")
    THEN "challenge" ELSE "none"

\* mutant: the deadline test of a countered game is inverted
FlagInProgress_ResolvesEarly(g, validation) ==
    CASE g.proposal = "Unchallenged" /\ now < g.deadline /\ validation = "Invalid"
            -> "challenge"
      [] g.proposal = "Challenged" /\ now < g.deadline /\ g.counteredBy = Self
            -> "resolve"
      [] OTHER -> "none"

(* The flag of a game in progress.  Deadlines are compared with the        *)
(* timestamp of the latest block, everything else is as of pinned.         *)
FlagInProgress(g, validation) ==
    CASE g.proposal = "Unchallenged" /\ now < g.deadline
         /\ (validation = "Invalid" \/ PinnedParent(g) = "CHALLENGER_WINS")
            -> "challenge"
      [] g.proposal = "Challenged" /\ now >= g.deadline /\ g.counteredBy = Self
         /\ PinnedParent(g) # "IN_PROGRESS"
            -> "resolve"
      [] OTHER -> "none"

\* mutant: a game is claimed from without having been closed
FlagLost_NeverCloses(g) ==
    IF PinnedFinalized(g) /\ g.mode # "UNDECIDED" THEN "claim" ELSE "none"

FlagLost(g) ==
    CASE ~PinnedFinalized(g) -> "none"
      [] PinnedFinalized(g) /\ g.mode = "UNDECIDED" -> "close"
      [] OTHER -> "claim"

(* GameSyncAction::Remove: a won game at once, a lost one when finalized   *)
(* with nothing left in it for the signer.                                 *)
Evicted(g) ==
    \/ g.status = "DEFENDER_WINS"
    \/ /\ g.status = "CHALLENGER_WINS" /\ PinnedFinalized(g)
       /\ IF g.mode = "UNDECIDED" THEN g.counteredBy # Self
          ELSE Credit(g, g.mode, Self) = 0

(* GameSyncAction::Update.                                                 *)
SyncedEntry(g, entry, available) ==
    LET open == g.status = "IN_PROGRESS" /\ g.proposal = "Unchallenged"
        v == IF open /\ now < g.deadline
             THEN ValidationAfter(g, entry, available) ELSE entry.validation
    IN [validation |-> v,
        flag |-> IF g.status = "IN_PROGRESS" THEN FlagInProgress(g, v) ELSE FlagLost(g),
        openUntil |-> IF open THEN g.deadline ELSE 0]

(* record_game_sync_failure: the game keeps its place and loses its flag.  *)
FailedEntry(entry) == [entry EXCEPT !.flag = "none"]

(* One cycle of sync_state over the pinned block.  fetchFails and          *)
(* syncFails are the games whose reads fail, available those the validator *)
(* can judge now.  What it leaves flagged is what the handlers work on.    *)
SyncState(fetchFails, syncFails, available) ==
    LET loaded == {i \in Fetched \ fetchFails : Eligible(pinned.games[i])}
        entries == [i \in loaded \union DOMAIN tracked |->
                        IF i \in loaded THEN NewEntry ELSE tracked[i]]
        evicted == {i \in DOMAIN entries \ syncFails : Evicted(pinned.games[i])}
        synced == [i \in DOMAIN entries \ evicted |->
                        IF i \in syncFails THEN FailedEntry(entries[i])
                        ELSE SyncedEntry(pinned.games[i], entries[i], i \in available)]
        settled == {i \in DOMAIN entries \ syncFails :
                        /\ pinned.games[i].status = "CHALLENGER_WINS"
                        /\ PinnedFinalized(pinned.games[i])
                        /\ pinned.games[i].mode # "UNDECIDED" \/ i \in evicted}
    IN /\ todo = {} /\ awaiting = NoTx
       /\ pendingDiscoveries' = PendingAfter(fetchFails)
       /\ cursor' = Len(pinned.games)
       /\ tracked' = synced
       /\ closeGameFailures' = [i \in DOMAIN closeGameFailures |->
                                   IF i \in settled THEN 0 ELSE closeGameFailures[i]]
       /\ todo' = {i \in DOMAIN synced : synced[i].flag # "none"}
                 \union (IF Malicious THEN {MaliceTurn} ELSE {})
       /\ UNCHANGED <<vars, config, pinned, awaiting, mempool>>

\* mutant: the retry queue is emptied before the retries
SyncAborted_QueueLost(fetchFails) ==
    /\ todo = {} /\ awaiting = NoTx
    /\ pendingDiscoveries # {}
    /\ pendingDiscoveries' = {}
    /\ UNCHANGED <<vars, config, pinned, cursor, tracked, closeGameFailures, todo, awaiting, mempool>>

(* A cycle that fails after the retries: the handlers are skipped.         *)
SyncAborted(fetchFails) ==
    LET loaded == {i \in pendingDiscoveries \ fetchFails : Eligible(pinned.games[i])}
    IN /\ todo = {} /\ awaiting = NoTx
       /\ pendingDiscoveries # {}
       /\ pendingDiscoveries' = pendingDiscoveries \intersect fetchFails
       /\ tracked' = [i \in loaded \union DOMAIN tracked |->
                        IF i \in loaded THEN NewEntry ELSE tracked[i]]
       /\ UNCHANGED <<vars, config, pinned, cursor, closeGameFailures, todo, awaiting, mempool>>

(* The confirmed block moves on.  sync_state refuses one that moved back.  *)
Confirm ==
    /\ pinned' = [games |-> games, now |-> now]
    /\ pinned' # pinned
    /\ UNCHANGED <<vars, config, memory, mempool>>

-----------------------------------------------------------------------------
(* The handlers: challenge, then resolve, close and claim.                 *)

Handler(i) == IF i = MaliceTurn THEN "malice" ELSE tracked[i].flag

Rank(i) == CHOOSE r \in DOMAIN Handlers : Handlers[r] = Handler(i)

(* run calls the handlers one after the other, each over its candidates.   *)
Turn(i) ==
    /\ i \in todo /\ awaiting = NoTx
    /\ \A j \in todo : Rank(i) <= Rank(j)

(* challenge_preflight, at the latest block.                               *)
ChallengePreflight(g) ==
    g.status = "IN_PROGRESS" /\ g.proposal = "Unchallenged" /\ now < g.deadline

(* Whether the contract accepts the transaction in the current L1 state.   *)
Accepted(tx) ==
    LET g == games[tx.index] IN
    CASE tx.kind \in {"challenge", "malice"} ->
            g.proposal = "Unchallenged" /\ ~GameOver(g) /\ IsAllowedChallenger(Self)
      [] tx.kind = "resolve" -> g.status = "IN_PROGRESS" /\ CanResolve(g)
      [] tx.kind = "close" -> CanClose(tx.index)
      [] tx.kind = "claim" ->
            CanClose(tx.index) /\ Credit(g, ModeAfterClose(tx.index), Self) > 0

(* What a handler checks at the latest block before it sends: the          *)
(* preflights, and for close and claim the gas estimate, which fails when  *)
(* the call would revert.                                                  *)
Preflight(tx) ==
    LET g == games[tx.index] IN
    CASE tx.kind \in {"challenge", "malice"} -> ChallengePreflight(g)
      [] tx.kind = "resolve" -> g.status = "IN_PROGRESS"
      [] tx.kind = "close" ->
            closeGameFailures[tx.index] < MaxCloseGameFailures /\ Accepted(tx)
      [] tx.kind = "claim" -> Credit(g, g.mode, Self) > 0 /\ Accepted(tx)

(* The malicious candidates: valid games open at the last sync.            *)
MaliceCandidates ==
    {j \in DOMAIN tracked : tracked[j].validation = "Valid" /\ now < tracked[j].openUntil}

(* The game a turn is about: for the testing mode, the lowest candidate.   *)
Target(i, j) ==
    IF i = MaliceTurn
    THEN j \in MaliceCandidates /\ \A k \in MaliceCandidates : j <= k
    ELSE j = i

(* submit_*_transaction: sent, and the receipt awaited.                    *)
Send(i, j) ==
    LET tx == [kind |-> Handler(i), index |-> j] IN
    /\ Turn(i) /\ Target(i, j)
    /\ Preflight(tx)
    /\ tx.kind \in {"challenge", "malice"} => SubmitEnabled
    /\ awaiting' = tx
    /\ UNCHANGED <<vars, config, pinned, cursor, tracked, pendingDiscoveries,
                   closeGameFailures, todo, mempool>>

(* Monitor-only mode logs the challenge and takes it for done.             *)
LogChallenge(i, j) ==
    /\ Turn(i) /\ Target(i, j) /\ ~SubmitEnabled
    /\ Handler(i) \in {"challenge", "malice"} /\ ChallengePreflight(games[j])
    /\ tracked' = [tracked EXCEPT ![j].flag = "none"]
    /\ todo' = todo \ {i}
    /\ UNCHANGED <<vars, config, pinned, cursor, pendingDiscoveries, closeGameFailures,
                   awaiting, mempool>>

(* The count of failed attempts to close, which stops them at the limit.   *)
Failed(i) == [closeGameFailures EXCEPT ![i] = @ + 1]

(* A candidate is passed over because its preflight says no, or cannot be  *)
(* read.  An attempt to close that fails before it is sent counts.         *)
Skip(i) ==
    /\ Turn(i)
    /\ todo' = todo \ {i}
    /\ closeGameFailures' =
          IF Handler(i) = "close" /\ closeGameFailures[i] < MaxCloseGameFailures
          THEN Failed(i) ELSE closeGameFailures
    /\ UNCHANGED <<vars, config, pinned, cursor, tracked, pendingDiscoveries, awaiting, mempool>>

(* The L1 executes one of the challenger's transactions.                   *)
Execute(tx) ==
    \/ tx.kind \in {"challenge", "malice"} /\ Challenge(tx.index, Self)
    \/ tx.kind = "resolve" /\ Resolve(tx.index)
    \/ tx.kind = "close" /\ CloseGame(tx.index)
    \/ tx.kind = "close" /\ games[tx.index].mode # "UNDECIDED" /\ UNCHANGED vars
    \/ tx.kind = "claim" /\ ClaimCredit(tx.index, Self)

TurnDone == todo' = todo \ {IF awaiting.kind = "malice" THEN MaliceTurn ELSE awaiting.index}

(* The awaited transaction succeeds: only challenge and close touch the    *)
(* cache, the rest is for the next sync to see.                            *)
Included ==
    LET i == awaiting.index IN
    /\ awaiting # NoTx
    /\ Execute(awaiting)
    /\ tracked' = IF awaiting.kind \in {"challenge", "malice"}
                  THEN [tracked EXCEPT ![i].flag = "none"] ELSE tracked
    /\ closeGameFailures' = IF awaiting.kind = "close"
                            THEN [closeGameFailures EXCEPT ![i] = 0]
                            ELSE closeGameFailures
    /\ TurnDone
    /\ awaiting' = NoTx
    /\ UNCHANGED <<config, pinned, cursor, pendingDiscoveries, mempool>>

(* An error: the handler goes on to its next candidate.                    *)
GiveUp ==
    /\ awaiting # NoTx
    /\ closeGameFailures' = IF awaiting.kind = "close"
                            THEN Failed(awaiting.index) ELSE closeGameFailures
    /\ TurnDone
    /\ awaiting' = NoTx
    /\ UNCHANGED <<vars, config, pinned, cursor, tracked, pendingDiscoveries>>

Reverted == GiveUp /\ ~Accepted(awaiting) /\ UNCHANGED mempool

(* No receipt in time: the transaction is lost, or may still land.         *)
TimedOut ==
    /\ GiveUp
    /\ mempool' \in {mempool, mempool \union {awaiting}}
    /\ Cardinality(mempool') <= MaxMempool

(* It lands, or fails, unnoticed.                                          *)
LandsLate(tx) ==
    /\ mempool' = mempool \ {tx}
    /\ Execute(tx) \/ (~Accepted(tx) /\ UNCHANGED vars)
    /\ UNCHANGED <<config, pinned, memory>>

(* Nothing is saved: a restart begins with an empty cache.                 *)
Restart ==
    /\ cursor' = 0 /\ tracked' = << >> /\ pendingDiscoveries' = {}
    /\ closeGameFailures' = [i \in 1..MaxGames |-> 0]
    /\ todo' = {} /\ awaiting' = NoTx
    /\ mempool' \in {mempool, mempool \union ({awaiting} \ {NoTx})}
    /\ Cardinality(mempool') <= MaxMempool
    /\ UNCHANGED <<vars, config, pinned>>

-----------------------------------------------------------------------------
ChallengerInit ==
    /\ Init
    /\ config \in Modes
    /\ pinned = [games |-> games, now |-> now]
    /\ cursor = 0 /\ tracked = << >> /\ pendingDiscoveries = {}
    /\ closeGameFailures = [i \in 1..MaxGames |-> 0]
    /\ todo = {} /\ awaiting = NoTx /\ mempool = {}

Others == Actors \ {Self}

(* Everybody else: proposers, provers, other challengers, the guardian.    *)
World ==
    /\ \/ RegistryStep
       \/ \E a \in Others, p \in {NoParent} \union Indices, b \in 1..MaxBlock, r \in Roots :
             Create(a, p, b, r)
       \/ \E b \in 1..MaxBlock, r \in Roots : CreateOther(b, r)
       \/ \E i \in Indices, v \in GameStatuses \ {"IN_PROGRESS"} : ResolveOther(i, v)
       \/ \E i \in Indices, a \in Others : Challenge(i, a) \/ Prove(i, a)
       \/ \E i \in Indices : Resolve(i) \/ CloseGame(i)
       \/ \E i \in Indices, a \in Addresses : ClaimCredit(i, a)
    /\ UNCHANGED challengerVars

Clock == PassTime /\ UNCHANGED challengerVars

(* The games sync_game would ask the validator about.                      *)
ToValidate == {i \in Fetched \union DOMAIN tracked :
                  /\ i \in DOMAIN tracked => tracked[i].validation = "Unavailable"
                  /\ pinned.games[i].status = "IN_PROGRESS"
                  /\ pinned.games[i].proposal = "Unchallenged"
                  /\ now < pinned.games[i].deadline}

Cycle ==
    \/ \E f \in SUBSET Fetched :
          \E s \in SUBSET ((Fetched \ f) \union DOMAIN tracked) :
          \E a \in SUBSET ToValidate : SyncState(f, s, a \ s)
    \/ \E f \in SUBSET pendingDiscoveries : SyncAborted(f)
    \/ \E i \in todo, j \in DOMAIN tracked : Send(i, j) \/ LogChallenge(i, j)
    \/ \E i \in todo : Skip(i)
    \/ Included \/ Reverted \/ TimedOut

ChallengerNext ==
    \/ World \/ Clock
    \/ Confirm \/ Cycle \/ Restart
    \/ \E tx \in mempool : LandsLate(tx)

ChallengerSpec == ChallengerInit /\ [][ChallengerNext]_allVars

-----------------------------------------------------------------------------
(* Properties.                                                             *)

(* What the challenger still has to look after: a claim it would have to   *)
(* challenge, and a lost game that still owes it money.                    *)
Unattended(g) ==
    \/ g.status = "IN_PROGRESS" /\ g.proposal = "Unchallenged" /\ g.claim = "forged"
    \/ g.status = "CHALLENGER_WINS" /\ Credit(g, g.mode, Self) > 0

(* Whatever reads failed, in whatever order games were discovered, synced  *)
(* from an outdated block and evicted, a game that needs the challenger at *)
(* the head of the chain is cached, queued for discovery, or still to be   *)
(* discovered (pending_discoveries, sync_game's Remove decisions).         *)
NothingForgotten ==
    \A i \in Indices :
        Eligible(games[i]) /\ Unattended(games[i]) =>
            i \in DOMAIN tracked \union pendingDiscoveries \/ i > cursor

(* An honest challenger only ever disputes a game whose claim is wrong or  *)
(* whose parent has lost, so its bond is never at risk: validations that   *)
(* are unavailable, stale flags and late transactions included.            *)
OnlyChallengesLies ==
    [][~Malicious => \A i \in Indices :
        games[i].counteredBy = NoAddress /\ games'[i].counteredBy = Self =>
            \/ games[i].claim = "forged"
            \/ ParentGameStatus(games[i]) = "CHALLENGER_WINS"]_allVars

(* A game the challenger countered pays out to it, as long as the game it  *)
(* countered is wrong: no interleaving of proof, resolution, closing and   *)
(* eviction costs an honest challenger its bond in a finished game that    *)
(* stood on a canonical start.                                             *)
HonestBondIsSafe ==
    ~Malicious => \A i \in Succinct : LET g == games[i] IN
        g.counteredBy = Self /\ g.status = "DEFENDER_WINS" => g.startRoot = "forged"
=============================================================================
