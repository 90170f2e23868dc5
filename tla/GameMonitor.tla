----------------------------- MODULE GameMonitor -----------------------------
(***************************************************************************)
(* The game monitor (scripts/utils/bin/game_monitor.rs): a daemon that     *)
(* runs the cost estimator, a child process, on every game of the factory. *)
(* A game is queued when it is discovered, tried a few times (primary      *)
(* attempts), and then moved to a queue of background retries that lasts   *)
(* until an attempt succeeds or the game is too old.                       *)
(*                                                                         *)
(* The progress file survives the process: the games up to which all are   *)
(* processed, and the background retries. Everything else is lost when the *)
(* daemon stops, whatever its children were doing.                         *)
(*                                                                         *)
(* `pc` is the phase of the poll loop, `ended` and `queue` snapshots that  *)
(* a phase takes when it begins and works through. Time is abstracted to   *)
(* what the loop compares it with: `waited` holds the queue entries whose  *)
(* delay is over and `aged` the games beyond background_retry_max_age.     *)
(***************************************************************************)
EXTENDS Integers, FiniteSets, Functions, SequencesExt, TLC

CONSTANTS
    MaxGames,           \* bound: games the factory ever holds
    WrongType,          \* the games that are not of GAME_TYPE
    MaxConcurrent,      \* max_concurrent
    MaxRetries,         \* max_retries: primary retries of a game
    StartIndexes,       \* values of --start-index the operator may give
    MaxFaults           \* bound: crashes, shutdowns, failed RPCs, spawns and writes

ASSUME MonitorAssumption == MaxGames \in Nat /\ StartIndexes \subseteq Nat

VARIABLES
    pc,
    ended,              \* the children phase 1 still has to deal with
    queue,              \* the candidates phase 4 or 5 still has to look at
    running,            \* running_processes: game |-> [kind, retries, exit]
    pending,            \* pending_games, front first: [game, retries]
    background,         \* background_retries: games
    next_game_index,
    tracker,            \* sequence_tracker
    disk,               \* progress.json, or None
    waited, aged, gameCount, faults,
    processed,          \* history: games that succeeded, ran out of retries or have
                        \* the wrong type
    skipped,            \* history: games left out by --start-index or a first start
    starts,             \* history: the index every launch began with
    unsaved             \* history: the last write of progress.json failed

memory == <<running, pending, background, next_game_index, tracker>>
file == <<disk, unsaved, faults>>
environment == <<waited, aged, gameCount>>
launches == <<skipped, starts>>
loop == <<pc, ended, queue>>
vars == <<loop, memory, file, environment, processed, launches>>

Games == 0 .. MaxGames - 1
None == [last |-> -1, background |-> <<>>]
Kinds == {"primary", "background"}

(* The entries of s that lie in S, in their order.                         *)
Keep(s, S) ==
    LET kept[n \in 0 .. Len(s)] ==
            IF n = 0 THEN <<>>
            ELSE IF s[n] \in S THEN Append(kept[n - 1], s[n]) ELSE kept[n - 1]
    IN  kept[Len(s)]

Drop(s, g) == Keep(s, Nat \ {g})
DropGame(s, g) == SelectSeq(s, LAMBDA p : p.game # g)
Without(f, g) == Restrict(f, DOMAIN f \ {g})
Fault == faults < MaxFaults /\ faults' = faults + 1

(***************************************************************************)
(* SequenceTracker (utils/common/src/sequence_tracker.rs).                 *)
(***************************************************************************)
(* mutant: a gap does not hold the end back. *)
Add_OverGaps(t, i) == IF i <= t.end THEN t ELSE [t EXCEPT !.end = i]
Add(t, i) ==
    IF i <= t.end THEN t
    ELSE LET seen == t.pending \cup {i}
             end == CHOOSE e \in t.end .. t.end + Cardinality(seen) :
                       t.end + 1 .. e \subseteq seen /\ e + 1 \notin seen
         IN  [end |-> end, pending |-> {j \in seen : j > end}]

(***************************************************************************)
(* Persistence. A failed write is only logged.                             *)
(***************************************************************************)
save_progress(retries, t) ==
    \/ /\ disk' = [last |-> t.end, background |-> retries]
       /\ unsaved' = FALSE
       /\ UNCHANGED faults
    \/ Fault /\ unsaved' = TRUE /\ UNCHANGED disk
SaveIf(needed, retries, t) == IF needed THEN save_progress(retries, t) ELSE UNCHANGED file

(* mark_game_completed, and the saves its callers add when `force`.        *)
Completed(g, retries, force) ==
    /\ tracker' = Add(tracker, g)
    /\ processed' = processed \cup {g}
    /\ SaveIf(force \/ tracker'.end # tracker.end, retries, tracker')

(***************************************************************************)
(* Start and stop.                                                         *)
(***************************************************************************)
Down ==
    /\ pc' = "down" /\ ended' = {} /\ queue' = <<>>
    /\ running' = <<>> /\ pending' = <<>> /\ background' = <<>>
    /\ UNCHANGED <<next_game_index, tracker>>

Init ==
    /\ pc = "down" /\ ended = {} /\ queue = <<>>
    /\ running = <<>> /\ pending = <<>> /\ background = <<>>
    /\ next_game_index = 0 /\ tracker = [end |-> 0, pending |-> {}]
    /\ disk = None /\ unsaved = FALSE /\ faults = 0
    /\ waited = {} /\ aged = {} /\ gameCount = 0
    /\ processed = {} /\ skipped = {} /\ starts = {}

(* The first index: the flag, or the persisted progress, or the latest     *)
(* game. The tracker starts at that index, not below it. Retries that aged *)
(* while the daemon was down are evicted at once.                          *)
FirstIndex(flag) ==
    IF flag # -1 THEN flag
    ELSE IF disk # None THEN disk.last + 1
    ELSE IF gameCount = 0 THEN 0 ELSE gameCount - 1

dedup_background_retries(s) ==
    Keep([i \in 1 .. Len(s) |-> IF \E j \in 1 .. i - 1 : s[j] = s[i] THEN -1 ELSE s[i]], Nat)

Young(retries, busy) == Keep(retries, busy \cup (Nat \ aged))
evict_aged_background_retries(retries, busy, t) ==
    /\ background' = Young(retries, busy)
    /\ SaveIf(background' # retries, background', t)

Launch ==
    /\ pc = "down"
    /\ \E flag \in StartIndexes \cup {-1} :
         /\ next_game_index' = FirstIndex(flag)
         /\ tracker' = [end |-> next_game_index', pending |-> {}]
         /\ evict_aged_background_retries(dedup_background_retries(disk.background), {}, tracker')
         /\ starts' = starts \cup {next_game_index'}
         /\ skipped' = IF flag # -1 \/ disk = None THEN skipped \cup (0 .. next_game_index' - 1)
                       ELSE skipped
    /\ pc' = "sleep"
    /\ waited' = {}
    /\ UNCHANGED <<ended, queue, running, pending, aged, gameCount, processed>>

(* A signal, seen between two polls: shutdown kills the children.          *)
Shutdown ==
    /\ pc = "sleep"
    /\ Fault
    /\ Down
    /\ UNCHANGED <<disk, unsaved, environment, processed, launches>>

(* The process dies, between any two writes: killed, or because a child    *)
(* could not be spawned, which ends `run` with an error.                   *)
Crash ==
    /\ pc # "down"
    /\ Fault
    /\ Down
    /\ UNCHANGED <<disk, unsaved, environment, processed, launches>>

(* gen-background-retry and the move of its output over progress.json,     *)
(* with the daemon stopped, for a game that is already sequenced.          *)
GenBackgroundRetry(g) ==
    /\ pc = "down"
    /\ g <= disk.last /\ g < gameCount /\ g \notin WrongType
    /\ g \notin ToSet(disk.background)
    /\ disk' = [disk EXCEPT !.background = Append(@, g)]
    /\ UNCHANGED <<loop, memory, unsaved, faults, environment, processed, launches>>

(***************************************************************************)
(* Phase 1: the children that have ended, one after the other.             *)
(***************************************************************************)
Poll ==
    /\ pc = "sleep"
    /\ pc' = "cleanup"
    /\ ended' = {g \in DOMAIN running : running[g].exit # "none"}
    /\ UNCHANGED <<queue, memory, file, environment, processed, launches>>

(* The estimator succeeded.                                                *)
Succeeded(g) ==
    /\ running[g].exit = "ok"
    /\ running' = Without(running, g)
    /\ IF running[g].kind = "primary"
       THEN Completed(g, background, FALSE) /\ UNCHANGED background
       ELSE /\ background' = Drop(background, g)
            /\ save_progress(background', tracker)
            /\ UNCHANGED <<tracker, processed>>
    /\ UNCHANGED <<pending, waited>>

(* maybe_requeue, after a failure or a kill: a primary attempt that may be *)
(* retried, one that may not, and a background attempt.                    *)
Retry(g) ==
    /\ running[g].kind = "primary" /\ running[g].retries < MaxRetries
    /\ pending' = <<[game |-> g, retries |-> running[g].retries + 1]>> \o pending
    /\ waited' = waited \ {<<"primary", g>>}
    /\ UNCHANGED <<background, tracker, processed, file>>

(* mutant: the entry is saved only when the tracker advances. *)
Exhausted_SavedByTracker(g) ==
    /\ running[g].kind = "primary" /\ running[g].retries >= MaxRetries
    /\ background' = IF g \in ToSet(background) THEN background ELSE Append(background, g)
    /\ Completed(g, background', FALSE)
    /\ waited' = waited \ {<<"background", g>>}
    /\ UNCHANGED pending
(* mutant: the guard against duplicates returns without marking. *)
Exhausted_Unmarked(g) ==
    /\ running[g].kind = "primary" /\ running[g].retries >= MaxRetries
    /\ IF g \in ToSet(background)
       THEN UNCHANGED <<background, tracker, processed, file, waited>>
       ELSE /\ background' = Append(background, g)
            /\ Completed(g, background', TRUE)
            /\ waited' = waited \ {<<"background", g>>}
    /\ UNCHANGED pending
Exhausted(g) ==
    /\ running[g].kind = "primary" /\ running[g].retries >= MaxRetries
    /\ IF g \in ToSet(background)
       THEN Completed(g, background, FALSE) /\ UNCHANGED <<background, waited>>
       ELSE /\ background' = Append(background, g)
            /\ Completed(g, background', TRUE)
            /\ waited' = waited \ {<<"background", g>>}
    /\ UNCHANGED pending

BackgroundFailed(g) ==
    /\ running[g].kind = "background"
    /\ waited' = waited \ {<<"background", g>>}
    /\ SaveIf(g \in ToSet(background), background, tracker)
    /\ UNCHANGED <<pending, background, tracker, processed>>

maybe_requeue(g) ==
    /\ running[g].exit = "failed"
    /\ running' = Without(running, g)
    /\ Retry(g) \/ Exhausted(g) \/ BackgroundFailed(g)

Reap(g) ==
    /\ pc = "cleanup" /\ g \in ended
    /\ Succeeded(g) \/ maybe_requeue(g)
    /\ ended' = ended \ {g}
    /\ UNCHANGED <<pc, queue, next_game_index, aged, gameCount, launches>>

(***************************************************************************)
(* Phases 2 to 5. Deleting logs (phase 3) has no effect on the rest.       *)
(***************************************************************************)
Candidates(s, kind) == SelectSeq(s, LAMBDA p : <<kind, p.game>> \in waited)

Evict ==
    /\ pc = "cleanup" /\ ended = {}
    /\ evict_aged_background_retries(background, DOMAIN running, tracker)
    /\ pc' = "primary"
    /\ queue' = Candidates(pending, "primary")
    /\ UNCHANGED <<ended, running, pending, next_game_index, tracker,
                   environment, processed, launches>>

can_spawn_new == Cardinality(DOMAIN running) < MaxConcurrent

(* The phase is over: every candidate was looked at, or no slot is free.   *)
ScanBackground ==
    /\ pc = "primary" /\ (queue = <<>> \/ ~can_spawn_new)
    /\ pc' = "background"
    /\ LET idle == SelectSeq(background, LAMBDA g : g \notin DOMAIN running)
           entries == [i \in DOMAIN idle |-> [game |-> idle[i], retries |-> 0]]
       IN  queue' = Candidates(entries, "background")
    /\ UNCHANGED <<ended, memory, file, environment, processed, launches>>
EndBackground ==
    /\ pc = "background" /\ (queue = <<>> \/ ~can_spawn_new)
    /\ pc' = "discover" /\ queue' = <<>>
    /\ UNCHANGED <<ended, memory, file, environment, processed, launches>>

Spawning(g) == pc \in Kinds /\ queue # <<>> /\ can_spawn_new /\ g = Head(queue).game

handle_wrong_game_type(g) ==
    /\ Spawning(g) /\ g \in WrongType
    /\ IF pc = "primary"
       THEN /\ pending' = DropGame(pending, g)
            /\ Completed(g, background, FALSE)
            /\ UNCHANGED background
       ELSE /\ background' = Drop(background, g)
            /\ save_progress(background', tracker)
            /\ UNCHANGED <<pending, tracker, processed>>
    /\ queue' = Tail(queue)
    /\ UNCHANGED <<pc, ended, running, next_game_index, environment, launches>>

(* The L1 or L2 endpoint failed: the rest of the iteration is abandoned.   *)
FetchFailed(g) ==
    /\ Spawning(g)
    /\ Fault
    /\ pc' = "sleep" /\ queue' = <<>>
    /\ UNCHANGED <<ended, memory, disk, unsaved, environment, processed, launches>>

L2Behind(g) ==
    /\ Spawning(g) /\ g \notin WrongType
    /\ Fault
    /\ queue' = Tail(queue)
    /\ UNCHANGED <<pc, ended, memory, disk, unsaved, environment, processed, launches>>

(* A primary attempt may take the place of a background attempt at the     *)
(* same game, whose process the daemon then forgets.                       *)
Spawned(g) ==
    /\ Spawning(g) /\ g \notin WrongType
    /\ running' = (g :> [kind |-> pc, retries |-> Head(queue).retries, exit |-> "none"])
                  @@ running
    /\ pending' = IF pc = "primary" THEN DropGame(pending, g) ELSE pending
    /\ queue' = Tail(queue)
    /\ UNCHANGED <<pc, ended, background, next_game_index, tracker, file, environment,
                   processed, launches>>

(***************************************************************************)
(* Phase 6: new games. Every one goes to the front of the queue.           *)
(***************************************************************************)
Discover ==
    /\ pc = "discover"
    /\ pc' = "sleep"
    /\ \/ /\ pending' = [i \in 1 .. gameCount - next_game_index |->
                            [game |-> gameCount - i, retries |-> 0]] \o pending
          /\ next_game_index' = IF next_game_index < gameCount THEN gameCount ELSE next_game_index
          /\ waited' = {w \in waited : w[1] = "background" \/ w[2] < next_game_index}
          /\ UNCHANGED faults
       \/ Fault /\ UNCHANGED <<pending, next_game_index, waited>>
    /\ UNCHANGED <<ended, queue, running, background, tracker, disk, unsaved, aged, gameCount,
                   processed, launches>>

(***************************************************************************)
(* The world. Its steps happen while the daemon sleeps or is down: the     *)
(* loop looks at each of them in one place, so one that happens in the     *)
(* middle of an iteration has the same effect before or after it. The      *)
(* delay of an entry that the iteration itself queued does not end in it.  *)
(***************************************************************************)
Idle == pc \in {"sleep", "down"}

(* A child exits, or reaches a limit for which it is killed: the maximum   *)
(* duration if no other.                                                   *)
ChildEnds(g) ==
    /\ Idle
    /\ g \in DOMAIN running /\ running[g].exit = "none"
    /\ \E e \in {"ok", "failed"} : running' = [running EXCEPT ![g].exit = e]
    /\ UNCHANGED <<loop, pending, background, next_game_index, tracker, file,
                   environment, processed, launches>>

(* A delay is over.                                                        *)
Elapse(kind, g) ==
    /\ pc = "sleep"
    /\ <<kind, g>> \notin waited
    /\ g \in IF kind = "primary" THEN {p.game : p \in ToSet(pending)} ELSE ToSet(background)
    /\ waited' = waited \cup {<<kind, g>>}
    /\ UNCHANGED <<loop, memory, file, aged, gameCount, processed, launches>>

(* A game with a background retry gets too old for it.                     *)
GetsOld(g) ==
    /\ Idle
    /\ g \notin aged /\ g \in ToSet(background) \cup ToSet(disk.background)
    /\ aged' = aged \cup {g}
    /\ UNCHANGED <<loop, memory, file, waited, gameCount, processed, launches>>

NewGame ==
    /\ Idle
    /\ gameCount < MaxGames
    /\ gameCount' = gameCount + 1
    /\ UNCHANGED <<loop, memory, file, waited, aged, processed, launches>>

Spawn(g) == handle_wrong_game_type(g) \/ Spawned(g)
Daemon == \/ Poll \/ Evict \/ ScanBackground \/ EndBackground \/ Discover
          \/ \E g \in Games : Reap(g) \/ Spawn(g)
Waiting == \E g \in Games : ChildEnds(g) \/ \E kind \in Kinds : Elapse(kind, g)
Ageing == \E g \in Games : GetsOld(g)
Next ==
    \/ Launch \/ Shutdown \/ Crash
    \/ Daemon
    \/ \E g \in Games : GenBackgroundRetry(g) \/ FetchFailed(g) \/ L2Behind(g)
    \/ Waiting \/ Ageing \/ NewGame

Spec == Init /\ [][Next]_vars

(* The loop never blocks, the daemon is restarted by its operator, and     *)
(* while it sleeps time passes: some child ends (none lives longer than    *)
(* the maximum duration) or some delay is over, and games grow old.        *)
FairSpec ==
    /\ Spec
    /\ WF_vars(Launch) /\ WF_vars(Daemon)
    /\ SF_vars(Waiting) /\ SF_vars(Ageing)

(***************************************************************************)
(* Properties.                                                             *)
(***************************************************************************)
(* "Background retries [...] survive process restarts": whatever sequence  *)
(* of attempts, evictions and restarts led here, the queue in memory is    *)
(* the one on disk, unless the last write failed.                          *)
RetriesSurvive == pc = "down" \/ unsaved \/ disk.background = background

(* A game the progress file claims is processed was, unless the operator   *)
(* chose to begin above it, or it was the very first game of a launch.     *)
SkipsOnlyFirst == 0 .. disk.last \subseteq processed \cup skipped \cup starts

(* Every game leaves the queues in the end, by success or by age, however  *)
(* often it fails, and the contiguous end catches up with the factory.     *)
EveryGameSettles ==
    <>[](/\ pending = <<>> /\ running = <<>> /\ background = <<>>
         /\ next_game_index >= gameCount /\ tracker.end >= gameCount - 1)
=============================================================================
