------------------------- MODULE GameMonitorProofs -------------------------
(***************************************************************************)
(* What the progress file of the game monitor promises, for any number of  *)
(* games, retries and faults.                                              *)
(***************************************************************************)
EXTENDS GameMonitor, NaturalSets, FiniteSetTheorems

(***************************************************************************)
(* Keep, the filter on queues.                                             *)
(***************************************************************************)
KeepBody(f, s, S, n) ==
    IF n = 0 THEN <<>>
    ELSE IF s[n] \in S THEN Append(f[n - 1], s[n]) ELSE f[n - 1]

IsKept(f, s, S) == f = [n \in 0 .. Len(s) |-> KeepBody(f, s, S, n)]

(* Keep's recursive equation has a solution.                               *)
LEMMA KeptExists ==
    ASSUME NEW s, NEW S, Len(s) \in Nat
    PROVE  \E f : IsKept(f, s, S)
<1>0. PICK N \in Nat : N = Len(s)
  OBVIOUS
<1> DEFINE Upto(f, k) == \A n \in 0 .. k : f[n] = KeepBody(f, s, S, n)
           T == {k \in 0 .. N : \E f : Upto(f, k)}
<1>1. 0 \in T
  <2> DEFINE g == [n \in 0 .. N |-> <<>>]
  <2>1. Upto(g, 0)
    BY DEF KeepBody
  <2> QED
    BY <2>1
<1>2. ASSUME NEW k \in 0 .. N - 1, k \in T PROVE k + 1 \in T
  <2>1. PICK f : Upto(f, k)
    BY <1>2
  <2> DEFINE v == KeepBody(f, s, S, k + 1)
             g == [n \in 0 .. N |-> IF n <= k THEN f[n] ELSE v]
  <2> HIDE DEF v
  <2>2. g[k + 1] = v
    OBVIOUS
  <2>3. v = KeepBody(g, s, S, k + 1)
    <3>1. g[(k + 1) - 1] = f[(k + 1) - 1]
      OBVIOUS
    <3> HIDE DEF g
    <3> QED
      BY <3>1 DEF v, KeepBody
  <2>4. ASSUME NEW n \in 0 .. k PROVE g[n] = KeepBody(g, s, S, n)
    <3>1. g[n] = f[n] /\ (n # 0 => g[n - 1] = f[n - 1])
      OBVIOUS
    <3>2. f[n] = KeepBody(f, s, S, n)
      BY <2>1
    <3> HIDE DEF g
    <3> QED
      BY <3>1, <3>2 DEF KeepBody
  <2>5. Upto(g, k + 1)
    <3> HIDE DEF g
    <3> SUFFICES ASSUME NEW n \in 0 .. k + 1 PROVE g[n] = KeepBody(g, s, S, n)
      OBVIOUS
    <3>1. n \in 0 .. k \/ n = k + 1
      OBVIOUS
    <3> QED
      BY <3>1, <2>2, <2>3, <2>4
  <2> HIDE DEF g, Upto
  <2> QED
    BY <2>5
<1>3. N \in T
  <2> HIDE DEF T
  <2> QED
    BY <1>0, <1>1, <1>2, IntervalInduction
<1>4. PICK f : Upto(f, N)
  BY <1>3
<1> DEFINE g == [n \in 0 .. N |-> f[n]]
<1>5. ASSUME NEW n \in 0 .. N PROVE g[n] = KeepBody(g, s, S, n)
  <2>1. g[n] = f[n] /\ (n # 0 => g[n - 1] = f[n - 1])
    OBVIOUS
  <2>2. f[n] = KeepBody(f, s, S, n)
    BY <1>4
  <2> HIDE DEF g
  <2> QED
    BY <2>1, <2>2 DEF KeepBody
<1>6. g = [n \in 0 .. N |-> KeepBody(g, s, S, n)]
  <2>1. g = [n \in 0 .. N |-> g[n]]
    OBVIOUS
  <2> HIDE DEF g
  <2> QED
    BY <2>1, <1>5
<1> HIDE DEF g
<1> QED
  BY <1>0, <1>6 DEF IsKept

(* Keep unfolds to the last value of that function.                        *)
LEMMA KeepUnfolds ==
    ASSUME NEW s, NEW S, Len(s) \in Nat
    PROVE  \E f : /\ \A n \in 0 .. Len(s) : f[n] = KeepBody(f, s, S, n)
                  /\ Keep(s, S) = f[Len(s)]
<1> DEFINE f == CHOOSE h : IsKept(h, s, S)
<1>1. IsKept(f, s, S)
  BY KeptExists
<1>2. Keep(s, S) = f[Len(s)]
  BY Zenon DEF Keep, IsKept, KeepBody
<1> HIDE DEF f
<1>3. \A n \in 0 .. Len(s) : f[n] = KeepBody(f, s, S, n)
  BY <1>1 DEF IsKept
<1> QED
  BY <1>2, <1>3

(* Every game at most once.                                                *)
Once(s) == s \in Seq(Nat) /\ \A i, j \in 1 .. Len(s) : s[i] = s[j] => i = j

(* What is kept of a queue without repetitions has none either.            *)
LEMMA KeepOnce ==
    ASSUME NEW s, NEW S, Once(s)
    PROVE  Once(Keep(s, S))
<1>1. s \in Seq(Nat) /\ Len(s) \in Nat
  BY DEF Once
<1>2. PICK f : /\ \A n \in 0 .. Len(s) : f[n] = KeepBody(f, s, S, n)
               /\ Keep(s, S) = f[Len(s)]
  BY <1>1, KeepUnfolds
<1>0. PICK N \in Nat : N = Len(s)
  BY <1>1
<1> DEFINE From(n) == \A i \in 1 .. Len(f[n]) : \E j \in 1 .. n : f[n][i] = s[j]
           T == {n \in 0 .. N : Once(f[n]) /\ From(n)}
<1>3. 0 \in T
  <2>1. f[0] = <<>>
    BY <1>1, <1>2 DEF KeepBody
  <2>2. Once(<<>>)
    BY DEF Once
  <2>3. From(0)
    BY <2>1
  <2> QED
    BY <2>1, <2>2, <2>3
<1>4. ASSUME NEW k \in 0 .. N - 1, k \in T PROVE k + 1 \in T
  <2>1. f[k + 1] = IF s[k + 1] \in S THEN Append(f[k], s[k + 1]) ELSE f[k]
    <3>1. k + 1 \in 0 .. Len(s) /\ k + 1 # 0 /\ (k + 1) - 1 = k
      BY <1>0, <1>1
    <3> QED
      BY <1>2, <3>1 DEF KeepBody
  <2>2. Once(f[k]) /\ From(k)
    BY <1>4
  <2>3. k + 1 \in 1 .. Len(s) /\ k + 1 \in 0 .. N /\ s[k + 1] \in Nat
    BY <1>0, <1>1
  <2>4. CASE s[k + 1] \notin S
    <3>1. f[k + 1] = f[k]
      BY <2>1, <2>4
    <3>2. From(k + 1)
      BY <2>2, <3>1
    <3> QED
      BY <2>2, <2>3, <3>1, <3>2
  <2>5. CASE s[k + 1] \in S
    <3> DEFINE q == f[k]
               x == s[k + 1]
    <3>1. f[k + 1] = Append(q, x)
      BY <2>1, <2>5
    <3>2. q \in Seq(Nat) /\ x \in Nat /\ Len(q) \in Nat
      BY <2>2, <2>3 DEF Once
    <3>3. \A i \in 1 .. Len(q) : q[i] # x
      <4> SUFFICES ASSUME NEW i \in 1 .. Len(q), q[i] = x PROVE FALSE
        OBVIOUS
      <4>1. PICK j \in 1 .. k : q[i] = s[j]
        BY <2>2
      <4>2. j \in 1 .. Len(s) /\ j # k + 1
        BY <1>0, <1>1
      <4> QED
        BY <2>3, <4>1, <4>2 DEF Once
    <3>4. /\ Append(q, x) \in Seq(Nat) /\ Len(Append(q, x)) = Len(q) + 1
          /\ Append(q, x)[Len(q) + 1] = x
          /\ \A i \in 1 .. Len(q) : Append(q, x)[i] = q[i]
      <4> HIDE DEF q, x
      <4> QED
        BY <3>2
    <3>5. Once(Append(q, x))
      <4>1. \A i, j \in 1 .. Len(q) : q[i] = q[j] => i = j
        BY <2>2 DEF Once
      <4> HIDE DEF q, x
      <4> SUFFICES ASSUME NEW i \in 1 .. Len(q) + 1, NEW j \in 1 .. Len(q) + 1,
                          Append(q, x)[i] = Append(q, x)[j]
                   PROVE  i = j
        BY <3>4 DEF Once
      <4>2. i \in 1 .. Len(q) \/ i = Len(q) + 1
        BY <3>2
      <4>3. j \in 1 .. Len(q) \/ j = Len(q) + 1
        BY <3>2
      <4> QED
        BY <3>3, <3>4, <4>1, <4>2, <4>3
    <3>6. \A i \in 1 .. Len(q) + 1 : \E j \in 1 .. k + 1 : Append(q, x)[i] = s[j]
      <4> SUFFICES ASSUME NEW i \in 1 .. Len(q) + 1
                   PROVE  \E j \in 1 .. k + 1 : Append(q, x)[i] = s[j]
        OBVIOUS
      <4>1. i \in 1 .. Len(q) \/ i = Len(q) + 1
        BY <3>2
      <4>2. CASE i = Len(q) + 1
        <5>1. k + 1 \in 1 .. k + 1 /\ Append(q, x)[i] = s[k + 1]
          BY <3>4, <4>2
        <5> QED
          BY <5>1
      <4>3. CASE i \in 1 .. Len(q)
        <5>1. PICK j \in 1 .. k : q[i] = s[j]
          BY <2>2, <4>3
        <5>2. j \in 1 .. k + 1 /\ Append(q, x)[i] = s[j]
          BY <3>4, <4>3, <5>1
        <5> QED
          BY <5>2
      <4> QED
        BY <4>1, <4>2, <4>3
    <3>7. From(k + 1)
      BY <3>1, <3>4, <3>6
    <3>8. Once(f[k + 1])
      BY <3>1, <3>5
    <3> HIDE DEF From, q, x
    <3> QED
      BY <2>3, <3>7, <3>8
  <2> QED
    BY <2>4, <2>5
<1>5. N \in T
  <2> HIDE DEF T
  <2> QED
    BY <1>3, <1>4, IntervalInduction
<1> QED
  BY <1>0, <1>2, <1>5

(* If everything is to be kept, nothing changes.                           *)
LEMMA KeepAll ==
    ASSUME NEW s \in Seq(Nat), NEW S, \A i \in 1 .. Len(s) : s[i] \in S
    PROVE  Keep(s, S) = s
<1>1. Len(s) \in Nat
  OBVIOUS
<1>2. PICK f : /\ \A n \in 0 .. Len(s) : f[n] = KeepBody(f, s, S, n)
               /\ Keep(s, S) = f[Len(s)]
  BY <1>1, KeepUnfolds
<1>0. PICK N \in Nat : N = Len(s)
  BY <1>1
<1> DEFINE Same(q, n) == /\ q \in Seq(Nat) /\ Len(q) = n
                         /\ \A i \in 1 .. n : q[i] = s[i]
           T == {n \in 0 .. N : Same(f[n], n)}
<1>3. 0 \in T
  <2>1. f[0] = <<>>
    BY <1>1, <1>2 DEF KeepBody
  <2>2. Same(<<>>, 0)
    OBVIOUS
  <2> HIDE DEF Same
  <2> QED
    BY <2>1, <2>2
<1>4. ASSUME NEW k \in 0 .. N - 1, k \in T PROVE k + 1 \in T
  <2>1. k + 1 \in 0 .. Len(s) /\ k + 1 # 0 /\ (k + 1) - 1 = k /\ k + 1 \in 1 .. Len(s)
    BY <1>0, <1>1
  <2>2. f[k + 1] = Append(f[k], s[k + 1])
    BY <1>2, <2>1 DEF KeepBody
  <2>3. PICK q : q = f[k]
    OBVIOUS
  <2>4. Same(q, k) /\ s[k + 1] \in Nat
    BY <1>4, <2>1, <2>3
  <2>5. Same(Append(q, s[k + 1]), k + 1)
    BY <2>4
  <2>6. Same(f[k + 1], k + 1)
    BY <2>2, <2>3, <2>5
  <2>7. k + 1 \in 0 .. N
    OBVIOUS
  <2> HIDE DEF Same
  <2> QED
    BY <2>6, <2>7
<1>5. N \in T
  <2> HIDE DEF T
  <2>1. \A k \in 0 .. N : k \in T
    BY <1>3, <1>4, IntervalInduction
  <2> QED
    BY <2>1
<1>6. PICK q : q = Keep(s, S)
  OBVIOUS
<1>7. Same(q, Len(s))
  BY <1>0, <1>2, <1>5, <1>6
<1>8. q = s
  BY <1>0, <1>7
<1> QED
  BY <1>6, <1>8

(***************************************************************************)
(* SequenceTracker.                                                        *)
(***************************************************************************)
(* A tracker that knows of nothing but C, and of all of it up to its end.  *)
TrackerIn(t, C) ==
    /\ t.end \in Nat /\ t.pending \in SUBSET Nat /\ IsFiniteSet(t.pending)
    /\ 0 .. t.end \subseteq C /\ t.pending \subseteq C

(* The first gap above e, at most Cardinality(seen) away.                  *)
LEMMA FirstGap ==
    ASSUME NEW e \in Nat, NEW seen \in SUBSET Nat, IsFiniteSet(seen)
    PROVE  \E x \in e .. e + Cardinality(seen) :
              e + 1 .. x \subseteq seen /\ x + 1 \notin seen
<1>1. PICK c \in Nat : c = Cardinality(seen)
  BY FS_CardinalityType
<1> DEFINE T == {x \in Nat : x >= e /\ x <= e + c /\ x + 1 \notin seen}
<1>2. T # {}
  <2> SUFFICES ASSUME T = {} PROVE FALSE
    OBVIOUS
  <2> DEFINE I == e + 1 .. e + c + 1
  <2>1. ASSUME NEW y \in I PROVE y \in seen
    <3>1. y - 1 \in Nat /\ y - 1 >= e /\ y - 1 <= e + c /\ (y - 1) + 1 = y
      OBVIOUS
    <3>2. y - 1 \notin T
      OBVIOUS
    <3> QED
      BY <3>1, <3>2
  <2>2. I \subseteq seen
    BY <2>1
  <2>3. Cardinality(I) = c + 1
    <3>1. /\ e + 1 \in Int /\ e + c + 1 \in Int
          /\ ~(e + 1 > e + c + 1) /\ (e + c + 1) - (e + 1) + 1 = c + 1
      OBVIOUS
    <3> QED
      BY <3>1, FS_Interval
  <2>4. Cardinality(I) <= Cardinality(seen)
    <3> HIDE DEF I
    <3> QED
      BY <2>2, FS_Subset
  <2> HIDE DEF I
  <2> QED
    BY <1>1, <2>3, <2>4
<1>3. PICK x \in T : \A y \in T : x <= y
  <2>1. T \in SUBSET Nat
    OBVIOUS
  <2> HIDE DEF T
  <2> QED
    BY <1>2, <2>1, LeastNatural
<1>4. x \in e .. e + c /\ x + 1 \notin seen
  OBVIOUS
<1>5. ASSUME NEW y \in e + 1 .. x PROVE y \in seen
  <2>1. y - 1 \in Nat /\ y - 1 >= e /\ y - 1 <= e + c /\ (y - 1) + 1 = y /\ ~(x <= y - 1)
    OBVIOUS
  <2>2. y - 1 \notin T
    BY <1>3, <2>1
  <2> QED
    BY <2>1, <2>2
<1>6. e + 1 .. x \subseteq seen
  BY <1>5
<1> HIDE DEF T
<1> QED
  BY <1>1, <1>4, <1>6

(* Adding a game gives such a tracker again.                               *)
LEMMA AddStaysIn ==
    ASSUME NEW t, NEW C, NEW i \in Nat, i \in C, TrackerIn(t, C)
    PROVE  TrackerIn(Add(t, i), C)
<1>1. CASE i <= t.end
  BY <1>1 DEF Add
<1>2. CASE ~(i <= t.end)
  <2> DEFINE seen == t.pending \cup {i}
             Fits(e) == t.end + 1 .. e \subseteq seen /\ e + 1 \notin seen
             end == CHOOSE e \in t.end .. t.end + Cardinality(seen) : Fits(e)
             u == [end |-> end, pending |-> {j \in seen : j > end}]
  <2>1. Add(t, i) = u
    BY <1>2 DEF Add
  <2>2. t.end \in Nat /\ seen \in SUBSET Nat /\ IsFiniteSet(seen)
    <3>1. IsFiniteSet(t.pending \cup {i})
      BY FS_AddElement DEF TrackerIn
    <3> QED
      BY <3>1 DEF TrackerIn
  <2>3. seen \subseteq C /\ 0 .. t.end \subseteq C
    BY DEF TrackerIn
  <2> HIDE DEF seen
  <2>4. Cardinality(seen) \in Nat
    BY <2>2, FS_CardinalityType
  <2>5. end \in t.end .. t.end + Cardinality(seen) /\ Fits(end)
    <3>1. \E e \in t.end .. t.end + Cardinality(seen) : Fits(e)
      BY <2>2, FirstGap
    <3> HIDE DEF Fits
    <3> QED
      BY <3>1
  <2> HIDE DEF end
  <2>6. end \in Nat /\ t.end <= end
    BY <2>2, <2>4, <2>5
  <2>7. 0 .. end \subseteq C
    <3> SUFFICES ASSUME NEW y \in 0 .. end PROVE y \in C
      OBVIOUS
    <3>1. y \in 0 .. t.end \/ y \in t.end + 1 .. end
      BY <2>2, <2>6
    <3> QED
      BY <2>3, <2>5, <3>1
  <2>8. {j \in seen : j > end} \subseteq seen
    OBVIOUS
  <2>9. IsFiniteSet({j \in seen : j > end})
    BY <2>2, <2>8, FS_Subset
  <2>10. TrackerIn(u, C)
    BY <2>2, <2>3, <2>6, <2>7, <2>9 DEF TrackerIn
  <2> QED
    BY <2>1, <2>10
<1> QED
  BY <1>1, <1>2

(***************************************************************************)
(* The inductive invariant.                                                *)
(***************************************************************************)
(* The games that the progress file may pass over.                         *)
Covered == processed \cup skipped \cup starts

(* A progress file that knows of nothing but C and repeats no retry.       *)
FileIn(d, C) ==
    /\ d = [last |-> d.last, background |-> d.background]
    /\ d.last \in Nat \cup {-1} /\ 0 .. d.last \subseteq C
    /\ Once(d.background)

(* The file is right only as long as the tracker in memory is, and a       *)
(* launch finds its own queue again only if no entry is there twice:       *)
(* dedup_background_retries changes it otherwise.                          *)
MonitorInv ==
    /\ gameCount \in Nat
    /\ Once(background)
    /\ FileIn(disk, Covered)
    /\ pc # "down" => TrackerIn(tracker, Covered)
    /\ RetriesSurvive

LEMMA MoreCovered ==
    ASSUME NEW C, NEW D, C \subseteq D
    PROVE  /\ \A t : TrackerIn(t, C) => TrackerIn(t, D)
           /\ \A d : FileIn(d, C) => FileIn(d, D)
<1>1. \A t : TrackerIn(t, C) => TrackerIn(t, D)
  BY DEF TrackerIn
<1>2. \A d : FileIn(d, C) => FileIn(d, D)
  BY DEF FileIn
<1> QED
  BY <1>1, <1>2

(* What is saved is a file that knows of C if the tracker does.            *)
LEMMA SavedIn ==
    ASSUME NEW t, NEW C, NEW q, TrackerIn(t, C), Once(q)
    PROVE  FileIn([last |-> t.end, background |-> q], C)
BY DEF TrackerIn, FileIn

LEMMA InitHolds == Init => MonitorInv
<1> SUFFICES ASSUME Init PROVE MonitorInv
  OBVIOUS
<1>1. Once(<<>>)
  BY DEF Once
<1>2. disk.last = -1 /\ disk.background = <<>> /\ FileIn(disk, Covered)
  BY <1>1 DEF Init, None, FileIn
<1> QED
  BY <1>1, <1>2 DEF Init, MonitorInv, RetriesSurvive

(* Steps that touch neither queue, tracker nor file.                       *)
LEMMA QuietStep ==
    ASSUME MonitorInv, UNCHANGED <<background, tracker, disk, unsaved, processed, launches>>,
           gameCount' \in Nat, pc' # "down" => pc # "down"
    PROVE  MonitorInv'
<1>1. Covered' = Covered
  BY DEF Covered, launches
<1> QED
  BY <1>1 DEF MonitorInv, RetriesSurvive

(* The daemon stops: what is on disk stays.                                *)
LEMMA DownStep ==
    ASSUME MonitorInv, Down, UNCHANGED <<disk, gameCount, processed, launches>>
    PROVE  MonitorInv'
<1>1. Covered' = Covered
  BY DEF Covered, launches
<1>2. Once(<<>>)
  BY DEF Once
<1> QED
  BY <1>1, <1>2 DEF MonitorInv, RetriesSurvive, Down

(* A save that comes with every change of the queue.                       *)
LEMMA SaveStep ==
    ASSUME MonitorInv, pc # "down", pc' # "down", NEW needed \in BOOLEAN,
           Once(background'), SaveIf(needed, background', tracker'),
           background' # background => needed,
           UNCHANGED <<tracker, gameCount, processed, launches>>
    PROVE  MonitorInv'
<1>1. Covered' = Covered
  BY DEF Covered, launches
<1>2. TrackerIn(tracker', Covered)
  BY DEF MonitorInv
<1>3. FileIn([last |-> tracker'.end, background |-> background'], Covered)
  BY <1>2, SavedIn
<1>4. CASE UNCHANGED <<disk, unsaved>> /\ background' = background
  BY <1>1, <1>2, <1>4 DEF MonitorInv, RetriesSurvive
<1>5. CASE disk' = [last |-> tracker'.end, background |-> background'] /\ unsaved' = FALSE
  <2>1. disk'.background = background'
    BY <1>5
  <2> QED
    BY <1>1, <1>2, <1>3, <1>5, <2>1 DEF MonitorInv, RetriesSurvive
<1>6. CASE unsaved' = TRUE /\ UNCHANGED disk
  BY <1>1, <1>2, <1>6 DEF MonitorInv, RetriesSurvive
<1> QED
  BY <1>4, <1>5, <1>6 DEF SaveIf, save_progress, file

(* A game is completed, and the queue saved with it if it changed.         *)
LEMMA CompletedStep ==
    ASSUME MonitorInv, pc # "down", pc' # "down", NEW force \in BOOLEAN, NEW g \in Nat,
           Once(background'), Completed(g, background', force),
           background' # background => force,
           UNCHANGED <<gameCount, launches>>
    PROVE  MonitorInv'
<1>1. Covered' = Covered \cup {g}
  BY DEF Covered, launches, Completed
<1>2. TrackerIn(tracker', Covered')
  <2>1. TrackerIn(tracker, Covered) /\ Covered \subseteq Covered' /\ g \in Covered'
    BY <1>1 DEF MonitorInv
  <2>2. TrackerIn(tracker, Covered')
    BY <2>1, MoreCovered
  <2>3. PICK t, C : t = tracker /\ C = Covered'
    OBVIOUS
  <2>4. TrackerIn(Add(t, g), C)
    BY <2>1, <2>2, <2>3, AddStaysIn
  <2> QED
    BY <2>3, <2>4 DEF Completed
<1>3. FileIn(disk, Covered')
  BY <1>1, MoreCovered DEF MonitorInv
<1>4. FileIn([last |-> tracker'.end, background |-> background'], Covered')
  BY <1>2, SavedIn
<1>5. CASE UNCHANGED <<disk, unsaved>> /\ background' = background
  BY <1>2, <1>3, <1>5 DEF MonitorInv, RetriesSurvive
<1>6. CASE disk' = [last |-> tracker'.end, background |-> background'] /\ unsaved' = FALSE
  <2>1. disk'.background = background'
    BY <1>6
  <2> QED
    BY <1>2, <1>4, <1>6, <2>1 DEF MonitorInv, RetriesSurvive
<1>7. CASE unsaved' = TRUE /\ UNCHANGED disk
  BY <1>2, <1>3, <1>7 DEF MonitorInv, RetriesSurvive
<1> QED
  BY <1>5, <1>6, <1>7 DEF Completed, SaveIf, save_progress, file

(* A queue without repetitions is what dedup_background_retries makes of it. *)
LEMMA DedupKeeps ==
    ASSUME NEW s, Once(s)
    PROVE  dedup_background_retries(s) = s
<1> DEFINE r == [i \in 1 .. Len(s) |-> IF \E j \in 1 .. i - 1 : s[j] = s[i] THEN -1 ELSE s[i]]
<1>1. s \in Seq(Nat) /\ Len(s) \in Nat
  BY DEF Once
<1>2. ASSUME NEW i \in 1 .. Len(s) PROVE ~ \E j \in 1 .. i - 1 : s[j] = s[i]
  <2> SUFFICES ASSUME NEW j \in 1 .. i - 1, s[j] = s[i] PROVE FALSE
    OBVIOUS
  <2>1. j \in 1 .. Len(s) /\ j # i
    BY <1>1
  <2> QED
    BY <2>1 DEF Once
<1>3. r = [i \in 1 .. Len(s) |-> s[i]]
  BY <1>2
<1>4. s = [i \in 1 .. Len(s) |-> s[i]]
  BY <1>1
<1>5. Keep(s, Nat) = s
  BY <1>1, KeepAll
<1> HIDE DEF r
<1>6. r = s
  BY <1>3, <1>4
<1> QED
  BY <1>5, <1>6 DEF dedup_background_retries, r

LEMMA LaunchStep ==
    ASSUME MonitorInv, Launch
    PROVE  MonitorInv'
<1>1. PICK flag \in StartIndexes \cup {-1} :
         /\ next_game_index' = FirstIndex(flag)
         /\ tracker' = [end |-> next_game_index', pending |-> {}]
         /\ evict_aged_background_retries(dedup_background_retries(disk.background), {}, tracker')
         /\ starts' = starts \cup {next_game_index'}
         /\ skipped' = IF flag # -1 \/ disk = None THEN skipped \cup (0 .. next_game_index' - 1)
                       ELSE skipped
  BY DEF Launch
<1>2. processed' = processed /\ gameCount' = gameCount /\ pc' = "sleep"
  BY DEF Launch
<1>3. PICK n : n = next_game_index'
  OBVIOUS
<1>4. gameCount \in Nat /\ disk.last \in Nat \cup {-1} /\ 0 .. disk.last \subseteq Covered
  BY DEF MonitorInv, FileIn
<1>5. n \in Nat
  <2>1. n = FirstIndex(flag)
    BY <1>1, <1>3
  <2>2. CASE flag # -1
    BY <1>1, <2>1, <2>2, MonitorAssumption DEF FirstIndex
  <2>3. CASE flag = -1
    BY <1>4, <2>1, <2>3 DEF FirstIndex
  <2> QED
    BY <2>2, <2>3
<1>6. Covered \subseteq Covered' /\ n \in Covered'
  BY <1>1, <1>2, <1>3 DEF Covered
<1>7. 0 .. n - 1 \subseteq Covered'
  <2>1. CASE flag # -1 \/ disk = None
    BY <1>1, <1>3, <2>1 DEF Covered
  <2>2. CASE flag = -1 /\ disk # None
    <3>1. n = disk.last + 1
      BY <1>1, <1>3, <2>2 DEF FirstIndex
    <3>2. n - 1 = disk.last
      BY <1>4, <3>1
    <3> QED
      BY <1>4, <1>6, <3>2
  <2> QED
    BY <2>1, <2>2
<1>8. TrackerIn(tracker', Covered')
  <2>1. tracker'.end = n /\ tracker'.pending = {}
    BY <1>1, <1>3
  <2>2. 0 .. n \subseteq Covered'
    <3>1. \A y \in 0 .. n : y \in 0 .. n - 1 \/ y = n
      BY <1>5
    <3> QED
      BY <1>6, <1>7, <3>1
  <2>3. IsFiniteSet({})
    BY FS_EmptySet
  <2> QED
    BY <1>5, <2>1, <2>2, <2>3 DEF TrackerIn
<1>9. PICK q : q = disk.background
  OBVIOUS
<1>10. Once(q) /\ dedup_background_retries(disk.background) = q
  <2>1. Once(q)
    BY <1>9 DEF MonitorInv, FileIn
  <2>2. dedup_background_retries(q) = q
    BY <2>1, DedupKeeps
  <2> QED
    BY <1>9, <2>1, <2>2
<1>11. background' = Young(q, {}) /\ SaveIf(background' # q, background', tracker')
  BY <1>1, <1>10 DEF evict_aged_background_retries
<1>12. Once(background')
  <2>1. PICK S : S = {} \cup (Nat \ aged)
    OBVIOUS
  <2>2. background' = Keep(q, S)
    BY <1>11, <2>1 DEF Young
  <2> QED
    BY <1>10, <2>2, KeepOnce
<1>13. FileIn(disk, Covered')
  BY <1>6, MoreCovered DEF MonitorInv
<1>14. FileIn([last |-> tracker'.end, background |-> background'], Covered')
  BY <1>8, <1>12, SavedIn
<1>15. CASE UNCHANGED <<disk, unsaved>> /\ background' = q
  BY <1>2, <1>4, <1>8, <1>9, <1>12, <1>13, <1>15 DEF MonitorInv, RetriesSurvive
<1>16. CASE disk' = [last |-> tracker'.end, background |-> background'] /\ unsaved' = FALSE
  <2>1. disk'.background = background'
    BY <1>16
  <2> QED
    BY <1>2, <1>4, <1>8, <1>12, <1>14, <1>16, <2>1 DEF MonitorInv, RetriesSurvive
<1>17. CASE unsaved' = TRUE /\ UNCHANGED disk
  BY <1>2, <1>4, <1>8, <1>12, <1>13, <1>17 DEF MonitorInv, RetriesSurvive
<1> QED
  BY <1>11, <1>15, <1>16, <1>17 DEF SaveIf, save_progress, file

(* gen-background-retry adds a game that is not in the queue.              *)
LEMMA AppendOnce ==
    ASSUME NEW s, Once(s), NEW g \in Nat, g \notin ToSet(s)
    PROVE  Once(Append(s, g))
<1>1. s \in Seq(Nat) /\ Len(s) \in Nat
  BY DEF Once
<1>2. \A i \in 1 .. Len(s) : s[i] # g
  BY <1>1 DEF ToSet
<1>3. /\ Append(s, g) \in Seq(Nat) /\ Len(Append(s, g)) = Len(s) + 1
      /\ Append(s, g)[Len(s) + 1] = g
      /\ \A i \in 1 .. Len(s) : Append(s, g)[i] = s[i]
  BY <1>1
<1> SUFFICES ASSUME NEW i \in 1 .. Len(s) + 1, NEW j \in 1 .. Len(s) + 1,
                    Append(s, g)[i] = Append(s, g)[j]
             PROVE  i = j
  BY <1>3 DEF Once
<1>4. i \in 1 .. Len(s) \/ i = Len(s) + 1
  BY <1>1
<1>5. j \in 1 .. Len(s) \/ j = Len(s) + 1
  BY <1>1
<1>6. \A k, l \in 1 .. Len(s) : s[k] = s[l] => k = l
  BY DEF Once
<1> QED
  BY <1>2, <1>3, <1>4, <1>5, <1>6

LEMMA GenStep ==
    ASSUME MonitorInv, NEW g \in Nat, GenBackgroundRetry(g)
    PROVE  MonitorInv'
<1>1. Covered' = Covered /\ UNCHANGED <<pc, background, gameCount>> /\ pc = "down"
  BY DEF GenBackgroundRetry, Covered, launches, loop, memory, environment
<1>2. PICK q : q = disk.background
  OBVIOUS
<1>3. Once(Append(q, g))
  BY <1>2, AppendOnce DEF GenBackgroundRetry, MonitorInv, FileIn
<1>4. disk' = [last |-> disk.last, background |-> Append(q, g)]
  BY <1>2 DEF GenBackgroundRetry, MonitorInv, FileIn
<1>5. FileIn(disk', Covered)
  BY <1>3, <1>4 DEF MonitorInv, FileIn
<1> QED
  BY <1>1, <1>5 DEF MonitorInv, RetriesSurvive

LEMMA ReapStep ==
    ASSUME MonitorInv, NEW g \in Nat, Reap(g)
    PROVE  MonitorInv'
<1>1. /\ pc # "down" /\ pc' # "down" /\ gameCount' = gameCount /\ gameCount \in Nat
      /\ UNCHANGED launches /\ Once(background)
  BY DEF Reap, MonitorInv
<1>2. CASE Succeeded(g) /\ running[g].kind = "primary"
  <2>1. background' = background /\ Completed(g, background', FALSE)
    BY <1>2 DEF Succeeded
  <2> QED
    BY <1>1, <2>1, CompletedStep
<1>3. CASE Succeeded(g) /\ running[g].kind # "primary"
  <2>1. /\ background' = Drop(background, g) /\ save_progress(background', tracker)
        /\ UNCHANGED <<tracker, processed>>
    BY <1>3 DEF Succeeded
  <2>2. Once(background')
    <3>1. PICK q, S : q = background /\ S = Nat \ {g}
      OBVIOUS
    <3> QED
      BY <1>1, <2>1, <3>1, KeepOnce DEF Drop
  <2>3. SaveIf(TRUE, background', tracker')
    BY <2>1 DEF SaveIf
  <2> QED
    BY <1>1, <2>1, <2>2, <2>3, SaveStep
<1>4. CASE Retry(g)
  <2>1. UNCHANGED <<background, tracker, disk, unsaved, processed>>
    BY <1>4 DEF Retry, file
  <2> QED
    BY <1>1, <2>1, QuietStep
<1>5. CASE Exhausted(g) /\ g \in ToSet(background)
  <2>1. background' = background /\ Completed(g, background', FALSE)
    BY <1>5 DEF Exhausted
  <2> QED
    BY <1>1, <2>1, CompletedStep
<1>6. CASE Exhausted(g) /\ g \notin ToSet(background)
  <2>1. background' = Append(background, g) /\ Completed(g, background', TRUE)
    BY <1>6 DEF Exhausted
  <2>2. Once(background')
    <3>1. PICK q : q = background
      OBVIOUS
    <3>2. g \notin ToSet(q) /\ Once(q)
      BY <1>1, <1>6, <3>1
    <3> QED
      BY <2>1, <3>1, <3>2, AppendOnce
  <2> QED
    BY <1>1, <2>1, <2>2, CompletedStep
<1>7. CASE BackgroundFailed(g)
  <2>1. /\ UNCHANGED <<background, tracker, processed>>
        /\ SaveIf(g \in ToSet(background), background, tracker)
    BY <1>7 DEF BackgroundFailed
  <2>2. CASE g \in ToSet(background)
    <3>1. SaveIf(TRUE, background', tracker')
      BY <2>1, <2>2 DEF SaveIf
    <3> QED
      BY <1>1, <2>1, <3>1, SaveStep
  <2>3. CASE g \notin ToSet(background)
    <3>1. SaveIf(FALSE, background', tracker')
      BY <2>1, <2>3 DEF SaveIf
    <3> QED
      BY <1>1, <2>1, <3>1, SaveStep
  <2> QED
    BY <2>2, <2>3
<1> QED
  BY <1>2, <1>3, <1>4, <1>5, <1>6, <1>7 DEF Reap, maybe_requeue

LEMMA EvictStep ==
    ASSUME MonitorInv, Evict
    PROVE  MonitorInv'
<1>1. /\ pc # "down" /\ pc' # "down" /\ gameCount' = gameCount
      /\ UNCHANGED <<tracker, processed, launches>> /\ Once(background)
  BY DEF Evict, MonitorInv, environment
<1>2. /\ background' = Young(background, DOMAIN running)
      /\ SaveIf(background' # background, background', tracker)
  BY DEF Evict, evict_aged_background_retries
<1>3. Once(background')
  <2>1. PICK q, S : q = background /\ S = DOMAIN running \cup (Nat \ aged)
    OBVIOUS
  <2> QED
    BY <1>1, <1>2, <2>1, KeepOnce DEF Young
<1>4. PICK needed : needed = (background' # background)
  OBVIOUS
<1>5. needed \in BOOLEAN /\ SaveIf(needed, background', tracker')
  BY <1>1, <1>2, <1>4 DEF SaveIf
<1> QED
  BY <1>1, <1>3, <1>4, <1>5, SaveStep

LEMMA WrongTypeStep ==
    ASSUME MonitorInv, NEW g \in Nat, handle_wrong_game_type(g)
    PROVE  MonitorInv'
<1>1. /\ pc # "down" /\ pc' # "down" /\ gameCount' = gameCount
      /\ UNCHANGED launches /\ Once(background)
  BY DEF handle_wrong_game_type, Spawning, Kinds, MonitorInv, environment
<1>2. CASE pc = "primary"
  <2>1. background' = background /\ Completed(g, background', FALSE)
    BY <1>2 DEF handle_wrong_game_type
  <2> QED
    BY <1>1, <2>1, CompletedStep
<1>3. CASE pc # "primary"
  <2>1. /\ background' = Drop(background, g) /\ save_progress(background', tracker)
        /\ UNCHANGED <<tracker, processed>>
    BY <1>3 DEF handle_wrong_game_type
  <2>2. Once(background')
    <3>1. PICK q, S : q = background /\ S = Nat \ {g}
      OBVIOUS
    <3> QED
      BY <1>1, <2>1, <3>1, KeepOnce DEF Drop
  <2>3. SaveIf(TRUE, background', tracker')
    BY <2>1 DEF SaveIf
  <2> QED
    BY <1>1, <2>1, <2>2, <2>3, SaveStep
<1> QED
  BY <1>2, <1>3

LEMMA StepKeeps == MonitorInv /\ [Next]_vars => MonitorInv'
<1> SUFFICES ASSUME MonitorInv, [Next]_vars PROVE MonitorInv'
  OBVIOUS
<1>1. gameCount \in Nat /\ Games \subseteq Nat
  BY MonitorAssumption DEF MonitorInv, Games
<1>2. CASE Launch
  BY <1>2, LaunchStep
<1>3. CASE Shutdown
  BY <1>3, DownStep DEF Shutdown, environment
<1>4. CASE Crash
  BY <1>4, DownStep DEF Crash, environment
<1>5. CASE Poll
  BY <1>1, <1>5, QuietStep DEF Poll, memory, file, environment
<1>6. CASE Evict
  BY <1>6, EvictStep
<1>7. CASE ScanBackground
  BY <1>1, <1>7, QuietStep DEF ScanBackground, memory, file, environment
<1>8. CASE EndBackground
  BY <1>1, <1>8, QuietStep DEF EndBackground, memory, file, environment
<1>9. CASE Discover
  BY <1>1, <1>9, QuietStep DEF Discover
<1>10. ASSUME NEW g \in Games, Reap(g) PROVE MonitorInv'
  BY <1>1, <1>10, ReapStep
<1>11. ASSUME NEW g \in Games, handle_wrong_game_type(g) PROVE MonitorInv'
  BY <1>1, <1>11, WrongTypeStep
<1>12. ASSUME NEW g \in Games, Spawned(g) PROVE MonitorInv'
  BY <1>1, <1>12, QuietStep DEF Spawned, file, environment
<1>13. ASSUME NEW g \in Games, GenBackgroundRetry(g) PROVE MonitorInv'
  BY <1>1, <1>13, GenStep
<1>14. ASSUME NEW g \in Games, FetchFailed(g) PROVE MonitorInv'
  <2>1. pc # "down"
    BY <1>14 DEF FetchFailed, Spawning, Kinds
  <2> QED
    BY <1>1, <1>14, <2>1, QuietStep DEF FetchFailed, memory, environment
<1>15. ASSUME NEW g \in Games, L2Behind(g) PROVE MonitorInv'
  BY <1>1, <1>15, QuietStep DEF L2Behind, memory, environment
<1>16. ASSUME NEW g \in Games, ChildEnds(g) PROVE MonitorInv'
  BY <1>1, <1>16, QuietStep DEF ChildEnds, loop, file, environment
<1>17. ASSUME NEW g \in Games, NEW kind \in Kinds, Elapse(kind, g) PROVE MonitorInv'
  BY <1>1, <1>17, QuietStep DEF Elapse, loop, memory, file
<1>18. ASSUME NEW g \in Games, GetsOld(g) PROVE MonitorInv'
  BY <1>1, <1>18, QuietStep DEF GetsOld, loop, memory, file
<1>19. CASE NewGame
  BY <1>1, <1>19, QuietStep DEF NewGame, loop, memory, file
<1>20. CASE UNCHANGED vars
  BY <1>1, <1>20, QuietStep DEF vars, loop, memory, file, environment
<1> QED
  BY <1>2, <1>3, <1>4, <1>5, <1>6, <1>7, <1>8, <1>9, <1>10, <1>11, <1>12, <1>13, <1>14,
     <1>15, <1>16, <1>17, <1>18, <1>19, <1>20 DEF Next, Daemon, Waiting, Ageing, Spawn

LEMMA MonitorInvariant == Spec => []MonitorInv
BY InitHolds, StepKeeps, PTL DEF Spec

(* Whatever the order of results, crashes, failed writes and restarts, the *)
(* progress file claims no game that was neither run to its end nor left   *)
(* out on purpose nor the first of a launch (load_or_init_state,           *)
(* mark_game_completed, SequenceTracker).                                  *)
THEOREM ProgressSkipsNothing == Spec => []SkipsOnlyFirst
<1>1. MonitorInv => SkipsOnlyFirst
  BY DEF MonitorInv, FileIn, SkipsOnlyFirst, Covered
<1> QED
  BY <1>1, MonitorInvariant, PTL

(* The background retries in memory are those on disk as soon as the       *)
(* daemon is up and its last write succeeded, across any number of         *)
(* restarts (save_progress, dedup_background_retries).                     *)
THEOREM RetriesAreSaved == Spec => []RetriesSurvive
<1>1. MonitorInv => RetriesSurvive
  BY DEF MonitorInv
<1> QED
  BY <1>1, MonitorInvariant, PTL
=============================================================================
