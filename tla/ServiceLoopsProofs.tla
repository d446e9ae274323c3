------------------------- MODULE ServiceLoopsProofs -------------------------
(***************************************************************************)
(* Theorems about the lookups of ServiceLoops, for every value of the      *)
(* constants: their queue, and the requests a peer may be charged with.    *)
(***************************************************************************)
EXTENDS ServiceLoops, SequenceLemmas, FiniteSetTheorems, TLAPS

(* What the variables of the lookups hold. *)

Targets == Debugs \cup Buckets \cup {Other}

Tasks ==
    [kind : {"debug", "refresh"}, target : Targets, alpha : Nat, idle : Nat,
     iteration : Nat, queried : SUBSET Peers, inflight : SUBSET Peers]

LookupTypes ==
    /\ queue \in Seq(Tasks)
    /\ active \in SUBSET Tasks
    /\ table \in SUBSET Peers
    /\ tracked \in [Peers -> Seq(0 .. TrackTTL)]
    /\ pending_reqs \in [Peers -> Nat \cup {None}]
    /\ credit \in [Peers -> Nat]

-----------------------------------------------------------------------------
(* The queue and the active lookup *)

\* A queue that keeps its bound, with no lookup twice and none that runs.
Sound(q, running) ==
    /\ Len(q) <= QueueMax
    /\ \A i, j \in 1 .. Len(q) : Lookups!SameLookup(q[i], q[j]) => i = j
    /\ \A i \in 1 .. Len(q) : \A task \in running : ~ Lookups!SameLookup(q[i], task)

QueueInv ==
    /\ LookupTypes
    /\ Sound(queue, active)
    /\ \A a, b \in active : a = b

LEMMA ConstantsTyped ==
    /\ IsFiniteSet(Buckets) /\ None \notin Nat
    /\ {Alpha, RefreshAlpha, QueueMax, Iterations, RefreshEvery} \subseteq Nat \ {0}
    /\ {PerTick, PerSparseTick, SendGoal, ReqTimeout, TrackTTL, MaxRequests} \subseteq Nat
    /\ ReqTimeout <= TrackTTL
<1>1. \A S : Lookups!IsFiniteSet(S) <=> IsFiniteSet(S)
  BY DEF Lookups!IsFiniteSet, IsFiniteSet
<1> QED
  BY <1>1, InstancesAssumption DEF Lookups!ConstantsAssumption

LEMMA QueueInit == Init => QueueInv
<1> SUFFICES ASSUME Init PROVE QueueInv
  OBVIOUS
<1>1. /\ queue = <<>> /\ active = {} /\ table \in SUBSET Peers
      /\ tracked = [d \in Peers |-> <<>>] /\ pending_reqs = [d \in Peers |-> None]
      /\ credit = [d \in Peers |-> 0]
  BY DEF Init, Lookups!Init
<1>2. <<>> \in Seq(0 .. TrackTTL) /\ <<>> \in Seq(Tasks) /\ Len(<<>>) = 0
  OBVIOUS
<1>3. LookupTypes
  BY <1>1, <1>2 DEF LookupTypes
<1>4. QueueMax \in Nat /\ 1 .. 0 = {}
  BY ConstantsTyped
<1>5. Sound(queue, active)
  BY <1>1, <1>2, <1>4 DEF Sound
<1> QED
  BY <1>1, <1>3, <1>5 DEF QueueInv

\* What has the kind and the target of a lookup is the same lookup.
LEMMA SameIs ==
    ASSUME NEW a \in Tasks, NEW b \in Tasks
    PROVE  Lookups!SameLookup(a, b) <=> a.kind = b.kind /\ a.target = b.target
BY DEF Lookups!SameLookup

\* A queue without its k-th lookup.
LEMMA RemovedSound ==
    ASSUME NEW q \in Seq(Tasks), NEW k \in 1 .. Len(q), NEW running, Sound(q, running),
           NEW r \in Seq(Tasks), Without(q, k, r)
    PROVE  Sound(r, running)
<1>1. Len(q) \in Nat /\ Len(r) \in Nat /\ k \in Nat /\ k >= 1 /\ k <= Len(q) /\ QueueMax \in Nat
  BY ConstantsTyped
<1>9. Len(r) = Len(q) - 1 /\ \A i \in 1 .. Len(r) : r[i] = q[IF i < k THEN i ELSE i + 1]
  BY DEF Without
<1>2. Len(r) <= QueueMax
  BY <1>1, <1>9 DEF Sound
<1> DEFINE place(i) == IF i < k THEN i ELSE i + 1
<1>3. \A i \in 1 .. Len(r) : place(i) \in 1 .. Len(q) /\ r[i] = q[place(i)]
  BY <1>1, <1>9
<1>4. \A i, j \in 1 .. Len(r) : place(i) = place(j) => i = j
  BY <1>1, <1>9
<1> HIDE DEF place
<1>5. \A i, j \in 1 .. Len(r) : Lookups!SameLookup(r[i], r[j]) => i = j
  BY <1>3, <1>4 DEF Sound
<1>6. \A i \in 1 .. Len(r) : \A task \in running : ~ Lookups!SameLookup(r[i], task)
  BY <1>3 DEF Sound
<1> QED
  BY <1>2, <1>5, <1>6 DEF Sound

\* A queue with one lookup more.
LEMMA AppendedSound ==
    ASSUME NEW q \in Seq(Tasks), Sound(q, active), Len(q) < QueueMax,
           NEW task \in Tasks, \A i \in 1 .. Len(q) : ~ Lookups!SameLookup(q[i], task),
           \A run \in active : ~ Lookups!SameLookup(run, task)
    PROVE  Append(q, task) \in Seq(Tasks) /\ Sound(Append(q, task), active)
<1>1. PICK r : r = Append(q, task)
  OBVIOUS
<1>2. /\ r \in Seq(Tasks) /\ Len(r) = Len(q) + 1 /\ r[Len(q) + 1] = task /\ Len(q) \in Nat
      /\ \A i \in 1 .. Len(q) : r[i] = q[i]
  BY <1>1
<1>3. \A i \in 1 .. Len(r) : i \in 1 .. Len(q) \/ i = Len(q) + 1
  BY <1>2
<1>4. Len(r) <= QueueMax
  BY <1>2, ConstantsTyped
<1>5. ASSUME NEW a, NEW b, Lookups!SameLookup(a, b) PROVE Lookups!SameLookup(b, a)
  BY <1>5 DEF Lookups!SameLookup
<1>6. ASSUME NEW i \in 1 .. Len(r), NEW j \in 1 .. Len(r), Lookups!SameLookup(r[i], r[j])
      PROVE  i = j
  <2>1. CASE i = Len(q) + 1 /\ j = Len(q) + 1
    BY <2>1
  <2>2. CASE i \in 1 .. Len(q) /\ j \in 1 .. Len(q)
    BY <1>2, <1>6, <2>2 DEF Sound
  <2>3. CASE i \in 1 .. Len(q) /\ j = Len(q) + 1
    BY <1>2, <1>6, <2>3
  <2>4. CASE j \in 1 .. Len(q) /\ i = Len(q) + 1
    BY <1>2, <1>5, <1>6, <2>4
  <2> QED
    BY <1>3, <2>1, <2>2, <2>3, <2>4
<1>7. ASSUME NEW i \in 1 .. Len(r), NEW run \in active PROVE ~ Lookups!SameLookup(r[i], run)
  <2>1. CASE i \in 1 .. Len(q)
    BY <1>2, <2>1 DEF Sound
  <2>2. CASE i = Len(q) + 1
    BY <1>2, <1>5, <2>2
  <2> QED
    BY <1>3, <2>1, <2>2
<1> QED
  BY <1>1, <1>2, <1>4, <1>6, <1>7 DEF Sound

\* Room is made by one lookup: a refresh when there is one, else the oldest.
LEMMA RoomIs ==
    ASSUME NEW q \in Seq(Tasks), Len(q) > 0
    PROVE  \E k \in 1 .. Len(q), r \in Seq(Tasks) :
              /\ r = Lookups!Room(q)
              /\ Without(q, k, r)
              /\ IF \E i \in 1 .. Len(q) : q[i].kind = "refresh" THEN q[k].kind = "refresh" ELSE k = 1
<1>0. Len(q) \in Nat /\ DOMAIN q = 1 .. Len(q) /\ 1 \in 1 .. Len(q)
  OBVIOUS
<1>1. Lookups!Refreshes(q) = {i \in 1 .. Len(q) : q[i].kind = "refresh"}
  BY <1>0 DEF Lookups!Refreshes
<1>2. CASE \E i \in 1 .. Len(q) : q[i].kind = "refresh"
  <2>1. PICK T \in SUBSET Nat : T = Lookups!Refreshes(q)
    BY <1>1
  <2>2. T # {} /\ \A i \in T : i \in 1 .. Len(q) /\ q[i].kind = "refresh"
    BY <1>1, <1>2, <2>1
  <2>3. \E m \in T : \A n \in T : m <= n
    BY <2>2, LeastNatural
  <2>4. PICK k \in T : k = Lookups!First(T)
    BY <2>3 DEF Lookups!First
  <2>5. k \in 1 .. Len(q) /\ q[k].kind = "refresh"
    BY <2>2, <2>4
  <2>6. Lookups!Room(q) = SubSeq(q, 1, k - 1) \o SubSeq(q, k + 1, Len(q))
    BY <2>1, <2>2, <2>4 DEF Lookups!Room, Lookups!RemoveAt
  <2>7. PICK r \in Seq(Tasks) :
              /\ r = SubSeq(q, 1, k - 1) \o SubSeq(q, k + 1, Len(q))
              /\ Without(q, k, r)
    <3>1. k \in 1 .. Len(q)
      BY <2>5
    <3> QED
      BY <3>1, Removed
  <2> QED
    BY <1>2, <2>5, <2>6, <2>7
<1>3. CASE ~ \E i \in 1 .. Len(q) : q[i].kind = "refresh"
  <2>1. Lookups!Room(q) = Tail(q)
    BY <1>1, <1>3 DEF Lookups!Room
  <2>2. Tail(q) \in Seq(Tasks) /\ Len(Tail(q)) = Len(q) - 1
        /\ \A i \in 1 .. Len(Tail(q)) : Tail(q)[i] = q[i + 1]
    BY <1>0
  <2>3. \A i \in 1 .. Len(Tail(q)) : Tail(q)[i] = q[IF i < 1 THEN i ELSE i + 1]
    BY <1>0, <2>2
  <2> QED
    BY <1>0, <1>3, <2>1, <2>2, <2>3 DEF Without
<1> QED
  BY <1>2, <1>3

\* Whether a lookup is known.
LEMMA ExistsIs ==
    ASSUME NEW q \in Seq(Tasks), NEW task, ~ Lookups!Exists(q, task)
    PROVE  /\ \A i \in 1 .. Len(q) : ~ Lookups!SameLookup(q[i], task)
           /\ \A run \in active : ~ Lookups!SameLookup(run, task)
<1>1. DOMAIN q = 1 .. Len(q)
  OBVIOUS
<1> QED
  BY <1>1 DEF Lookups!Exists, Lookups!ToSet

\* What start_lookup makes of a queue: at most one lookup makes room, and only for a
\* debug lookup in a full queue.
LEMMA EnqueueIs ==
    ASSUME NEW q \in Seq(Tasks), NEW task \in Tasks, Sound(q, active)
    PROVE  /\ Lookups!Enqueue(q, task) \in Seq(Tasks)
           /\ Sound(Lookups!Enqueue(q, task), active)
           /\ \/ Lookups!Enqueue(q, task) = q
              \/ Lookups!Enqueue(q, task) = Append(q, task)
              \/ /\ task.kind = "debug" /\ Len(q) = QueueMax
                 /\ \E k \in 1 .. Len(q), r \in Seq(Tasks) :
                      /\ Lookups!Enqueue(q, task) = Append(r, task)
                      /\ Without(q, k, r)
                      /\ IF \E i \in 1 .. Len(q) : q[i].kind = "refresh"
                         THEN q[k].kind = "refresh" ELSE k = 1
<1>0. Len(q) \in Nat /\ QueueMax \in Nat /\ QueueMax > 0 /\ Len(q) <= QueueMax
  BY ConstantsTyped DEF Sound
<1>1. CASE Lookups!Exists(q, task)
  <2>1. Lookups!Enqueue(q, task) = q
    BY <1>1 DEF Lookups!Enqueue
  <2> QED
    BY <2>1
<1>2. CASE ~ Lookups!Exists(q, task) /\ Len(q) < QueueMax
  <2>0. ~ Lookups!Exists(q, task) /\ Len(q) < QueueMax /\ ~ (Len(q) >= QueueMax)
    BY <1>0, <1>2
  <2>1. Lookups!Enqueue(q, task) = Append(q, task)
    BY <2>0 DEF Lookups!Enqueue
  <2> QED
    BY <1>2, <2>1, ExistsIs, AppendedSound
<1>3. CASE ~ Lookups!Exists(q, task) /\ ~ (Len(q) < QueueMax)
  <2>1. Len(q) >= QueueMax /\ Len(q) = QueueMax /\ Len(q) > 0
    BY <1>0, <1>3
  <2>2. Lookups!Enqueue(q, task)
            = IF task.kind = "debug" THEN Append(Lookups!Room(q), task) ELSE q
    BY <1>3, <2>1 DEF Lookups!Enqueue
  <2>3. CASE task.kind = "debug"
    <3>1. PICK k \in 1 .. Len(q), r \in Seq(Tasks) :
              /\ r = Lookups!Room(q)
              /\ Without(q, k, r)
              /\ IF \E i \in 1 .. Len(q) : q[i].kind = "refresh"
                 THEN q[k].kind = "refresh" ELSE k = 1
      BY <2>1, RoomIs
    <3>2. Lookups!Enqueue(q, task) = Append(r, task)
      BY <2>2, <2>3, <3>1
    <3>3. Sound(r, active)
      BY <3>1, RemovedSound
    <3>4. Len(r) < QueueMax
      BY <1>0, <2>1, <3>1 DEF Without
    <3>5. \A i \in 1 .. Len(r) : (IF i < k THEN i ELSE i + 1) \in 1 .. Len(q)
      BY <1>0, <3>1 DEF Without
    <3>6. \A i \in 1 .. Len(r) : ~ Lookups!SameLookup(r[i], task)
      BY <1>3, <3>1, <3>5, ExistsIs DEF Without
    <3>7. \A run \in active : ~ Lookups!SameLookup(run, task)
      BY <1>3, ExistsIs
    <3>8. Append(r, task) \in Seq(Tasks) /\ Sound(Append(r, task), active)
      BY <3>3, <3>4, <3>6, <3>7, AppendedSound
    <3> QED
      BY <2>1, <2>3, <3>1, <3>2, <3>8
  <2>4. CASE task.kind # "debug"
    BY <2>2, <2>4
  <2> QED
    BY <2>3, <2>4
<1> QED
  BY <1>1, <1>2, <1>3

IsRefreshes(tasks) ==
    tasks \in Seq(Tasks) /\ \A i \in 1 .. Len(tasks) : tasks[i].kind = "refresh"

\* r is q with more lookups behind.
Longer(q, r) == Len(q) <= Len(r) /\ \A i \in 1 .. Len(q) : r[i] = q[i]

\* f is the queues of q after each of the first m lookups.
Chain(f, q, tasks, m) ==
    f = [n \in 0 .. m |-> IF n = 0 THEN q ELSE Lookups!Enqueue(f[n - 1], tasks[n])]

LEMMA ChainExists ==
    ASSUME NEW q, NEW tasks, NEW m \in Nat
    PROVE  \E f : Chain(f, q, tasks, m)
<1> DEFINE M == {n \in Nat : \E f : Chain(f, q, tasks, n)}
<1>1. 0 \in M
  <2>1. PICK f : f = [n \in 0 .. 0 |-> q]
    OBVIOUS
  <2>2. f = [n \in 0 .. 0 |-> IF n = 0 THEN q ELSE Lookups!Enqueue(f[n - 1], tasks[n])]
    BY <2>1
  <2> QED
    BY <2>2 DEF Chain
<1>2. ASSUME NEW n \in Nat, n \in M PROVE n + 1 \in M
  <2>1. PICK f : f = [i \in 0 .. n |-> IF i = 0 THEN q ELSE Lookups!Enqueue(f[i - 1], tasks[i])]
    BY <1>2 DEF Chain
  <2>2. PICK g : g = [i \in 0 .. n + 1 |-> IF i <= n THEN f[i] ELSE Lookups!Enqueue(f[n], tasks[n + 1])]
    OBVIOUS
  <2>3. ASSUME NEW i \in 0 .. n + 1
        PROVE  g[i] = IF i = 0 THEN q ELSE Lookups!Enqueue(g[i - 1], tasks[i])
    <3>1. CASE i = 0
      <4>1. 0 \in 0 .. n /\ 0 <= n
        OBVIOUS
      <4>2. f[0] = q
        BY <2>1, <4>1
      <4>3. g[0] = f[0]
        BY <2>2, <4>1
      <4> QED
        BY <3>1, <4>2, <4>3
    <3>2. CASE i \in 1 .. n
      <4>1. i \in 0 .. n /\ i # 0 /\ i <= n /\ i - 1 \in 0 .. n + 1 /\ i - 1 <= n
        BY <3>2
      <4>2. f[i] = Lookups!Enqueue(f[i - 1], tasks[i])
        BY <2>1, <4>1
      <4>3. g[i] = f[i] /\ g[i - 1] = f[i - 1]
        BY <2>2, <4>1
      <4> QED
        BY <4>1, <4>2, <4>3
    <3>3. CASE i = n + 1
      <4>1. n + 1 # 0 /\ ~ (n + 1 <= n) /\ (n + 1) - 1 = n /\ n \in 0 .. n + 1 /\ n + 1 \in 0 .. n + 1
        OBVIOUS
      <4>2. g[n + 1] = Lookups!Enqueue(f[n], tasks[n + 1]) /\ g[n] = f[n]
        BY <2>2, <4>1
      <4> QED
        BY <3>3, <4>1, <4>2
    <3> QED
      BY <3>1, <3>2, <3>3
  <2>4. g = [i \in 0 .. n + 1 |-> IF i = 0 THEN q ELSE Lookups!Enqueue(g[i - 1], tasks[i])]
    BY <2>2, <2>3
  <2>5. \E h : Chain(h, q, tasks, n + 1)
    BY <2>4 DEF Chain
  <2> QED
    BY <2>5
<1> HIDE DEF M
<1>3. Nat \subseteq M
  BY <1>1, <1>2, Induction
<1> QED
  BY <1>3 DEF M

\* A refresh only ever joins the end of the queue.
LEMMA EnqueueAllIs ==
    ASSUME NEW q \in Seq(Tasks), Sound(q, active), NEW tasks, IsRefreshes(tasks)
    PROVE  /\ Lookups!EnqueueAll(q, tasks) \in Seq(Tasks)
           /\ Sound(Lookups!EnqueueAll(q, tasks), active)
           /\ Longer(q, Lookups!EnqueueAll(q, tasks))
<1>1. tasks \in Seq(Tasks) /\ Len(tasks) \in Nat
  BY DEF IsRefreshes
<1>2. PICK m \in Nat : m = Len(tasks)
  BY <1>1
<1>3. PICK f : Chain(f, q, tasks, m) /\ Lookups!EnqueueAll(q, tasks) = f[m]
  <2>1. \E f : Chain(f, q, tasks, m)
    BY ChainExists
  <2>2. \E f : f = [n \in 0 .. Len(tasks) |->
                        IF n = 0 THEN q ELSE Lookups!Enqueue(f[n - 1], tasks[n])]
    BY <1>2, <2>1 DEF Chain
  <2> QED
    BY <1>2, <2>2 DEF Chain, Lookups!EnqueueAll
<1>4. f = [n \in 0 .. m |-> IF n = 0 THEN q ELSE Lookups!Enqueue(f[n - 1], tasks[n])]
  BY <1>3 DEF Chain
<1> DEFINE Fine(r) == r \in Seq(Tasks) /\ Sound(r, active) /\ Longer(q, r)
           M == {n \in Nat : n \in 0 .. m => Fine(f[n])}
<1>5. 0 \in M
  <2>1. f[0] = q
    BY <1>4
  <2>2. Longer(q, q)
    BY DEF Longer
  <2> QED
    BY <2>1, <2>2
<1>6. ASSUME NEW n \in Nat, n \in M PROVE n + 1 \in M
  <2> SUFFICES ASSUME n + 1 \in 0 .. m PROVE Fine(f[n + 1])
    OBVIOUS
  <2>1. n \in 0 .. m /\ n + 1 # 0 /\ (n + 1) - 1 = n /\ n + 1 \in 1 .. m
    OBVIOUS
  <2>2. Fine(f[n])
    BY <1>6, <2>1
  <2>3. PICK r : r = f[n]
    OBVIOUS
  <2>4. f[n + 1] = Lookups!Enqueue(r, tasks[n + 1])
    BY <1>4, <2>1, <2>3
  <2>5. tasks[n + 1] \in Tasks /\ tasks[n + 1].kind = "refresh"
    BY <1>2, <2>1 DEF IsRefreshes
  <2>6. PICK task \in Tasks : task = tasks[n + 1] /\ task.kind # "debug"
    BY <2>5
  <2>7. r \in Seq(Tasks) /\ Sound(r, active) /\ Longer(q, r)
    BY <2>2, <2>3
  <2>8. /\ Lookups!Enqueue(r, task) \in Seq(Tasks)
        /\ Sound(Lookups!Enqueue(r, task), active)
        /\ Lookups!Enqueue(r, task) = r \/ Lookups!Enqueue(r, task) = Append(r, task)
    BY <2>6, <2>7, EnqueueIs
  <2>9. Longer(q, Append(r, task))
    <3>1. Len(Append(r, task)) = Len(r) + 1 /\ Len(r) \in Nat /\ Len(q) \in Nat
          /\ \A i \in 1 .. Len(r) : Append(r, task)[i] = r[i]
      BY <2>7
    <3>2. \A i \in 1 .. Len(q) : i \in 1 .. Len(r) /\ r[i] = q[i]
      BY <2>7, <3>1 DEF Longer
    <3>3. Len(q) <= Len(Append(r, task))
      BY <2>7, <3>1 DEF Longer
    <3> QED
      BY <3>1, <3>2, <3>3 DEF Longer
  <2> QED
    BY <2>4, <2>6, <2>7, <2>8, <2>9
<1> HIDE DEF M, Fine
<1>7. Nat \subseteq M
  BY <1>5, <1>6, Induction
<1>8. Fine(f[m])
  BY <1>7 DEF M
<1> QED
  BY <1>3, <1>8 DEF Fine

LEMMA NewTaskTyped ==
    ASSUME NEW kind \in {"debug", "refresh"}, NEW target \in Targets, NEW alpha \in Nat
    PROVE  /\ Lookups!NewTask(kind, target, alpha) \in Tasks
           /\ Lookups!NewTask(kind, target, alpha).kind = kind
BY DEF Lookups!NewTask, Tasks

\* What a tick starts are refreshes.
LEMMA PicksAre ==
    ASSUME NEW stale \in Lookups!StaleLists, NEW sparse \in BOOLEAN
    PROVE  IsRefreshes(Lookups!Picks(stale, sparse))
<1>1. stale \in Seq(Buckets)
  <2>1. PICK S \in SUBSET Buckets : stale \in Lookups!SetToSeqs(S)
    BY DEF Lookups!StaleLists
  <2>2. IsFiniteSet(S) /\ \A T : Lookups!Cardinality(T) = Cardinality(T)
    <3>1. \A T : Lookups!Cardinality(T) = Cardinality(T)
      BY DEF Lookups!Cardinality, Cardinality
    <3> QED
      BY <3>1, ConstantsTyped, FS_Subset
  <2>3. PICK n \in Nat : n = Cardinality(S)
    BY <2>2, FS_CardinalityType
  <2>4. stale \in [1 .. n -> S]
    BY <2>1, <2>2, <2>3 DEF Lookups!SetToSeqs
  <2> QED
    BY <2>4
<1>2. ASSUME NEW n \in Nat, NEW alpha \in Nat, NEW r,
             r = [i \in 1 .. Len(Lookups!Take(stale, n)) |-> Lookups!RefreshOf(stale[i], alpha)]
      PROVE  IsRefreshes(r)
  <2>1. PICK m \in 0 .. Len(stale) : m = IF n < Len(stale) THEN n ELSE Len(stale)
    BY <1>1
  <2>2. Len(Lookups!Take(stale, n)) = m
    BY <1>1, <2>1 DEF Lookups!Take
  <2>3. ASSUME NEW i \in 1 .. m
        PROVE  Lookups!RefreshOf(stale[i], alpha) \in Tasks
               /\ Lookups!RefreshOf(stale[i], alpha).kind = "refresh"
    <3>1. stale[i] \in Buckets
      BY <1>1, <2>1
    <3>2. stale[i] \in Targets
      BY <3>1 DEF Targets
    <3> QED
      BY <3>2, NewTaskTyped DEF Lookups!RefreshOf
  <2>4. r = [i \in 1 .. m |-> Lookups!RefreshOf(stale[i], alpha)]
    BY <1>2, <2>2
  <2>5. r \in Seq(Tasks) /\ Len(r) = m
    BY <2>1, <2>3, <2>4
  <2> QED
    BY <2>3, <2>4, <2>5 DEF IsRefreshes
<1>3. ASSUME NEW a, NEW b, IsRefreshes(a), IsRefreshes(b) PROVE IsRefreshes(a \o b)
  <2>1. a \in Seq(Tasks) /\ b \in Seq(Tasks)
    BY <1>3 DEF IsRefreshes
  <2>2. /\ a \o b \in Seq(Tasks) /\ Len(a \o b) = Len(a) + Len(b)
        /\ \A i \in 1 .. Len(a) : (a \o b)[i] = a[i]
        /\ \A i \in 1 .. Len(b) : (a \o b)[Len(a) + i] = b[i]
    BY <2>1, Joined
  <2>3. ASSUME NEW i \in 1 .. Len(a \o b) PROVE (a \o b)[i].kind = "refresh"
    <3>0. Len(a) \in Nat /\ Len(b) \in Nat
      BY <2>1
    <3>1. CASE i \in 1 .. Len(a)
      BY <1>3, <2>2, <3>1 DEF IsRefreshes
    <3>2. CASE i \notin 1 .. Len(a)
      <4>1. PICK j \in 1 .. Len(b) : i = Len(a) + j
        <5>1. i - Len(a) \in 1 .. Len(b) /\ i = Len(a) + (i - Len(a))
          BY <2>2, <3>0, <3>2
        <5> QED
          BY <5>1
      <4> QED
        BY <1>3, <2>2, <4>1 DEF IsRefreshes
    <3> QED
      BY <3>1, <3>2
  <2> QED
    BY <2>2, <2>3 DEF IsRefreshes
<1>4. IsRefreshes(<<>>)
  BY DEF IsRefreshes
<1>5. {PerSparseTick, PerTick, RefreshAlpha, Alpha} \subseteq Nat
  BY ConstantsTyped
<1>6. PICK a : a = [i \in 1 .. Len(Lookups!Take(stale, PerSparseTick)) |->
                        Lookups!RefreshOf(stale[i], RefreshAlpha)]
  OBVIOUS
<1>7. PICK b : b = [i \in 1 .. Len(Lookups!Take(stale, PerTick)) |->
                        Lookups!RefreshOf(stale[i], Alpha)]
  OBVIOUS
<1>8. IsRefreshes(a) /\ IsRefreshes(b)
  BY <1>2, <1>5, <1>6, <1>7
<1>9. Lookups!Picks(stale, sparse) = (IF sparse THEN a ELSE <<>>) \o b
  BY <1>6, <1>7 DEF Lookups!Picks
<1> QED
  BY <1>3, <1>4, <1>8, <1>9

-----------------------------------------------------------------------------
(* Requests: what a peer may be charged with *)

\* The tracked requests of a peer are in the order of their ages and fewer than it
\* owes; the last of them has at least the time that is left to the pending one.
Owed(d) ==
    /\ Ordered(tracked[d])
    /\ Len(tracked[d]) <= credit[d]
    /\ pending_reqs[d] \notin {None, 0} /\ d \notin spoiled =>
          /\ tracked[d] # <<>>
          /\ tracked[d][Len(tracked[d])] + pending_reqs[d] <= ReqTimeout

LookupsInv == QueueInv /\ \A d \in Peers : Owed(d)

RequestsKept ==
    /\ tracked' \in [Peers -> Seq(0 .. TrackTTL)]
    /\ pending_reqs' \in [Peers -> Nat \cup {None}]
    /\ credit' \in [Peers -> Nat]
    /\ \A d \in Peers : Owed(d)'

LEMMA RequestsInit == Init => \A d \in Peers : Owed(d)
<1> SUFFICES ASSUME Init, NEW d \in Peers PROVE Owed(d)
  OBVIOUS
<1>1. tracked[d] = <<>> /\ pending_reqs[d] = None /\ credit[d] = 0
  BY DEF Init, Lookups!Init
<1>2. Ordered(<<>>) /\ Len(<<>>) = 0
  BY DEF Ordered
<1> QED
  BY <1>1, <1>2 DEF Owed

\* A peer nothing happens to.
LEMMA SameOwed ==
    ASSUME NEW d \in Peers, Owed(d), tracked'[d] = tracked[d], credit'[d] = credit[d],
           pending_reqs'[d] \in {None, pending_reqs[d]}, d \in spoiled => d \in spoiled'
    PROVE  Owed(d)'
<1>1. Ordered(tracked[d])' /\ (Len(tracked[d]) <= credit[d])'
  BY DEF Owed
<1>2. ASSUME pending_reqs'[d] \notin {None, 0}, d \notin spoiled'
      PROVE  /\ tracked'[d] # <<>>
             /\ tracked'[d][Len(tracked'[d])] + pending_reqs'[d] <= ReqTimeout
  BY <1>2 DEF Owed
<1> QED
  BY <1>1, <1>2 DEF Owed

LEMMA RequestsUnchanged ==
    ASSUME LookupsInv, UNCHANGED <<tracked, pending_reqs, credit, spoiled>>
    PROVE  RequestsKept
BY SameOwed DEF LookupsInv, QueueInv, LookupTypes, RequestsKept

LEMMA SendKeeps ==
    ASSUME LookupsInv, NEW S \in SUBSET Peers, NEW overdue, Lookups!Send(S, overdue)
    PROVE  RequestsKept
<1>1. /\ tracked \in [Peers -> Seq(0 .. TrackTTL)]
      /\ pending_reqs \in [Peers -> Nat \cup {None}]
      /\ credit \in [Peers -> Nat]
      /\ ReqTimeout \in Nat /\ TrackTTL \in Nat /\ None \notin Nat
  BY ConstantsTyped DEF LookupsInv, QueueInv, LookupTypes
<1>2. /\ tracked' = [d \in Peers |-> IF d \in S THEN Append(tracked[d], 0) ELSE tracked[d]]
      /\ pending_reqs' = [d \in Peers |->
                            IF d \in S THEN ReqTimeout
                            ELSE IF d \in overdue THEN None ELSE pending_reqs[d]]
      /\ credit' = [d \in Peers |-> IF d \in S THEN credit[d] + 1 ELSE credit[d]]
      /\ spoiled' = spoiled \ S
  BY DEF Lookups!Send
<1>3. \A d \in Peers : Append(tracked[d], 0) \in Seq(0 .. TrackTTL) /\ tracked[d] \in Seq(0 .. TrackTTL)
  BY <1>1
<1>4. tracked' \in [Peers -> Seq(0 .. TrackTTL)]
  BY <1>2, <1>3
<1>5. pending_reqs' \in [Peers -> Nat \cup {None}] /\ credit' \in [Peers -> Nat]
  BY <1>1, <1>2
<1>6. ASSUME NEW d \in Peers PROVE Owed(d)'
  <2>0. Owed(d)
    BY DEF LookupsInv
  <2>1. CASE d \notin S
    BY <1>2, <2>0, <2>1, SameOwed
  <2>2. CASE d \in S
    <3>1. PICK ages \in Seq(0 .. TrackTTL) : ages = tracked[d]
      BY <1>1
    <3>2. PICK r : r = Append(ages, 0)
      OBVIOUS
    <3>3. r # <<>> /\ Len(r) = Len(ages) + 1 /\ r[Len(r)] = 0 /\ Len(ages) \in Nat
      BY <3>1, <3>2
    <3>4. Ordered(r)
      <4>1. PICK length \in Nat \ {0} : length = TrackTTL + 1
        BY <1>1
      <4>2. ages \in Seq(0 .. length - 1) /\ Ordered(ages)
        BY <1>1, <2>0, <3>1, <4>1 DEF Owed
      <4> QED
        BY <3>2, <4>2, AppendOrdered
    <3>5. Len(r) <= credit[d] + 1
      BY <1>1, <2>0, <3>1, <3>3 DEF Owed
    <3>6. r[Len(r)] + ReqTimeout <= ReqTimeout
      BY <1>1, <3>3
    <3>7. tracked'[d] = r /\ pending_reqs'[d] = ReqTimeout /\ credit'[d] = credit[d] + 1
      BY <1>2, <2>2, <3>1, <3>2
    <3> QED
      BY <3>3, <3>4, <3>5, <3>6, <3>7 DEF Owed
  <2> QED
    BY <2>1, <2>2
<1> QED
  BY <1>4, <1>5, <1>6 DEF RequestsKept

\* An answer takes the oldest request.
LEMMA TakenKeeps ==
    ASSUME LookupsInv, NEW d \in Peers, tracked[d] # <<>>,
           tracked' = [tracked EXCEPT ![d] = Tail(tracked[d])],
           credit' = [credit EXCEPT ![d] = @ - 1],
           pending_reqs' \in [Peers -> Nat \cup {None}],
           \A p \in Peers : p # d => pending_reqs'[p] = pending_reqs[p],
           spoiled \subseteq spoiled', pending_reqs'[d] = None \/ d \in spoiled'
    PROVE  RequestsKept
<1>1. /\ tracked \in [Peers -> Seq(0 .. TrackTTL)]
      /\ credit \in [Peers -> Nat]
      /\ \A p \in Peers : Owed(p)
  BY DEF LookupsInv, QueueInv, LookupTypes
<1>2. PICK ages \in Seq(0 .. TrackTTL) : ages = tracked[d]
  BY <1>1
<1>3. /\ Tail(ages) \in Seq(0 .. TrackTTL) /\ Len(Tail(ages)) = Len(ages) - 1
      /\ Len(ages) \in Nat /\ Len(ages) >= 1
      /\ \A i \in 1 .. Len(Tail(ages)) : Tail(ages)[i] = ages[i + 1]
  BY <1>2, TailIs
<1>4. PICK r : r = Tail(ages)
  OBVIOUS
<1>5. tracked'[d] = r /\ credit'[d] = credit[d] - 1
  BY <1>1, <1>2, <1>4
<1>6. Len(ages) <= credit[d] /\ Ordered(ages)
  BY <1>1, <1>2 DEF Owed
<1>7. credit[d] - 1 \in Nat
  BY <1>1, <1>3, <1>6
<1>8. tracked' \in [Peers -> Seq(0 .. TrackTTL)] /\ credit' \in [Peers -> Nat]
  BY <1>1, <1>2, <1>3, <1>7
<1>9. Owed(d)'
  <2>1. Ordered(r)
    <3>1. \A i \in 1 .. Len(r) : i \in Int /\ i + 1 \in 1 .. Len(ages)
      BY <1>3, <1>4
    <3>2. ASSUME NEW i \in 1 .. Len(r), NEW j \in 1 .. Len(r), i <= j PROVE r[i] >= r[j]
      <4>1. i + 1 <= j + 1 /\ i + 1 \in 1 .. Len(ages) /\ j + 1 \in 1 .. Len(ages)
        BY <3>1, <3>2
      <4>2. ages[i + 1] >= ages[j + 1]
        BY <1>6, <4>1 DEF Ordered
      <4> QED
        BY <1>3, <1>4, <4>2
    <3> QED
      BY <3>2 DEF Ordered
  <2>2. Len(r) <= credit[d] - 1
    BY <1>1, <1>3, <1>4, <1>6
  <2> QED
    BY <1>5, <2>1, <2>2 DEF Owed
<1>10. ASSUME NEW p \in Peers, p # d PROVE Owed(p)'
  <2>1. tracked'[p] = tracked[p] /\ credit'[p] = credit[p] /\ pending_reqs'[p] = pending_reqs[p]
    BY <1>1, <1>10
  <2> QED
    BY <1>1, <2>1, SameOwed
<1> QED
  BY <1>8, <1>9, <1>10 DEF RequestsKept

LEMMA LiveIs ==
    ASSUME NEW ages \in Seq(0 .. TrackTTL), Ordered(ages)
    PROVE  Passed(ages, 1, TrackTTL + 1, Lookups!Live(ages))
<1>1. TrackTTL \in Nat /\ Len(ages) \in Nat /\ DOMAIN ages = 1 .. Len(ages)
      /\ \A i \in 1 .. Len(ages) : ages[i] \in 0 .. TrackTTL
  BY ConstantsTyped
<1>2. PICK length \in Nat \ {0} : length = TrackTTL + 1
  BY <1>1
<1>3. ages \in Seq(0 .. length - 1)
  BY <1>1, <1>2
<1>4. PICK n \in 0 .. Len(ages) : \A i \in 1 .. Len(ages) : i > n <=> ages[i] + 1 < length
  BY <1>3, CutExists
<1>5. \A i \in 1 .. Len(ages) : ages[i] + 1 < length <=> ages[i] < TrackTTL
  BY <1>1, <1>2
<1>6. \E gone \in 0 .. Len(ages) : \A i \in DOMAIN ages : i > gone <=> ages[i] < TrackTTL
  BY <1>1, <1>4, <1>5
<1>7. PICK gone \in 0 .. Len(ages) :
        /\ \A i \in DOMAIN ages : i > gone <=> ages[i] < TrackTTL
        /\ Lookups!Live(ages) = [i \in 1 .. Len(ages) - gone |-> ages[i + gone] + 1]
  BY <1>6 DEF Lookups!Live
<1>8. PICK r : r = Lookups!Live(ages)
  OBVIOUS
<1>9. gone \in Nat /\ gone <= Len(ages)
  BY <1>1, <1>7
<1>10. \A i \in 1 .. Len(ages) : i > gone <=> ages[i] + 1 < length
  BY <1>1, <1>5, <1>7
<1>11. \A i \in 1 .. Len(ages) - gone : i + gone \in 1 .. Len(ages) /\ i + gone > gone
  BY <1>1, <1>9
<1>12. \A i \in 1 .. Len(ages) - gone : ages[i + gone] + 1 \in 0 .. length - 1
  <2> TAKE i \in 1 .. Len(ages) - gone
  <2>1. ages[i + gone] + 1 < length /\ ages[i + gone] \in Nat
    BY <1>1, <1>10, <1>11
  <2> QED
    BY <2>1
<1>13. PICK m \in Nat : m = Len(ages) - gone
  <2>1. Len(ages) - gone \in Nat
    BY <1>1, <1>9
  <2> QED
    BY <2>1
<1>14. r = [i \in 1 .. m |-> ages[i + gone] + 1]
  BY <1>7, <1>8, <1>13
<1>15. r \in Seq(0 .. length - 1) /\ Len(r) = m /\ \A i \in 1 .. m : r[i] = ages[i + gone] + 1
  BY <1>12, <1>13, <1>14
<1>16. Passed(ages, 1, length, r)
  BY <1>7, <1>10, <1>13, <1>15 DEF Passed
<1> QED
  BY <1>2, <1>8, <1>16

LEMMA ClockKeepsRequests == LookupsInv /\ Lookups!Clock => RequestsKept
<1> SUFFICES ASSUME LookupsInv, Lookups!Clock PROVE RequestsKept
  OBVIOUS
<1>1. /\ tracked \in [Peers -> Seq(0 .. TrackTTL)]
      /\ pending_reqs \in [Peers -> Nat \cup {None}]
      /\ credit \in [Peers -> Nat]
      /\ ReqTimeout \in Nat /\ TrackTTL \in Nat /\ None \notin Nat /\ ReqTimeout <= TrackTTL
  BY ConstantsTyped DEF LookupsInv, QueueInv, LookupTypes
<1>2. /\ tracked' = [d \in Peers |-> Lookups!Live(tracked[d])]
      /\ pending_reqs' = [d \in Peers |->
                            IF pending_reqs[d] \in {None, 0} THEN pending_reqs[d]
                            ELSE pending_reqs[d] - 1]
      /\ credit' = credit /\ spoiled' = spoiled
  BY DEF Lookups!Clock
<1>3. pending_reqs' \in [Peers -> Nat \cup {None}] /\ credit' \in [Peers -> Nat]
  BY <1>1, <1>2
<1>4. PICK length \in Nat \ {0} : length = TrackTTL + 1
  BY <1>1
<1>5. ASSUME NEW d \in Peers
      PROVE  Lookups!Live(tracked[d]) \in Seq(0 .. TrackTTL) /\ Owed(d)'
  <2>1. PICK ages \in Seq(0 .. TrackTTL) : ages = tracked[d]
    BY <1>1
  <2>2. PICK r : r = Lookups!Live(ages) /\ tracked'[d] = r
    BY <1>2, <2>1
  <2>3. Ordered(ages) /\ Len(ages) <= credit[d]
    BY <2>1 DEF LookupsInv, Owed
  <2>4. Passed(ages, 1, length, r)
    BY <1>4, <2>2, <2>3, LiveIs
  <2>5. ages \in Seq(0 .. length - 1) /\ Len(ages) \in Nat
        /\ \A i \in 1 .. Len(ages) : ages[i] \in Nat
    BY <1>1, <1>4
  <2>6. Ordered(r)
    BY <2>3, <2>4, <2>5, PassedOrdered
  <2>7. PICK n \in 0 .. Len(ages) :
        /\ \A i \in 1 .. Len(ages) : i > n <=> ages[i] + 1 < length
        /\ Len(r) = Len(ages) - n
        /\ r \in Seq(0 .. length - 1)
        /\ \A i \in 1 .. Len(r) : r[i] = ages[i + n] + 1
    BY <2>4 DEF Passed
  <2>8. r \in Seq(0 .. TrackTTL) /\ Len(r) <= credit[d]
    <3>1. length - 1 = TrackTTL
      BY <1>1, <1>4
    <3>2. Len(r) <= Len(ages) /\ Len(r) \in Nat
      BY <2>5, <2>7
    <3> QED
      BY <1>1, <2>3, <2>5, <2>7, <3>1, <3>2
  <2>9. ASSUME pending_reqs'[d] \notin {None, 0}, d \notin spoiled
        PROVE  r # <<>> /\ r[Len(r)] + pending_reqs'[d] <= ReqTimeout
    <3>1. pending_reqs[d] \in Nat \ {0} /\ pending_reqs'[d] = pending_reqs[d] - 1
      BY <1>1, <1>2, <2>9
    <3>2. pending_reqs[d] \notin {None, 0}
      BY <1>1, <3>1
    <3>3. ages # <<>> /\ ages[Len(ages)] + pending_reqs[d] <= ReqTimeout
      BY <2>1, <2>9, <3>2 DEF LookupsInv, Owed
    <3>4. PICK m \in 1 .. Len(ages) : m = Len(ages)
      BY <2>5, <3>3
    <3>5. ages[m] \in Nat /\ ages[m] + 1 <= ReqTimeout
      BY <1>1, <2>5, <3>1, <3>3, <3>4
    <3>6. ages[m] + 1 < length
      BY <1>1, <1>4, <3>5
    <3>7. m > n
      BY <2>7, <3>6
    <3>8. Len(r) \in 1 .. Len(r) /\ Len(r) + n = m /\ Len(r) > 0
      BY <2>5, <2>7, <3>4, <3>7
    <3>9. r[Len(r)] = ages[m] + 1
      BY <2>7, <3>8
    <3>10. r # <<>>
      BY <3>8
    <3> QED
      BY <1>1, <3>1, <3>3, <3>4, <3>5, <3>9, <3>10
  <2> QED
    BY <1>2, <2>1, <2>2, <2>6, <2>8, <2>9 DEF Owed
<1>6. tracked' \in [Peers -> Seq(0 .. TrackTTL)]
  BY <1>2, <1>5
<1> QED
  BY <1>3, <1>5, <1>6 DEF RequestsKept

-----------------------------------------------------------------------------
(* Steps *)

\* Lookups that only grew older, or took a round, are the same lookups.
LEMMA SameSound ==
    ASSUME NEW q, NEW running, Sound(q, running), NEW r, Len(r) = Len(q),
           \A i \in 1 .. Len(q) : Lookups!SameLookup(r[i], q[i]),
           NEW later, \A b \in later : \E a \in running : Lookups!SameLookup(b, a)
    PROVE  Sound(r, later)
<1>1. \A a, b, c : Lookups!SameLookup(a, b) /\ Lookups!SameLookup(a, c) => Lookups!SameLookup(b, c)
  BY DEF Lookups!SameLookup
<1>2. \A a, b : Lookups!SameLookup(a, b) => Lookups!SameLookup(b, a)
  BY DEF Lookups!SameLookup
<1>3. ASSUME NEW i \in 1 .. Len(r), NEW j \in 1 .. Len(r), Lookups!SameLookup(r[i], r[j])
      PROVE  i = j
  <2>1. Lookups!SameLookup(r[i], q[i]) /\ Lookups!SameLookup(r[j], q[j])
    OBVIOUS
  <2>2. Lookups!SameLookup(r[j], q[i])
    BY <1>1, <1>3, <2>1
  <2>3. Lookups!SameLookup(q[i], q[j])
    BY <1>1, <2>1, <2>2
  <2> QED
    BY <2>3 DEF Sound
<1>4. ASSUME NEW i \in 1 .. Len(r), NEW b \in later, Lookups!SameLookup(r[i], b)
      PROVE  FALSE
  <2>1. PICK a \in running : Lookups!SameLookup(b, a)
    OBVIOUS
  <2>2. Lookups!SameLookup(r[i], q[i])
    OBVIOUS
  <2>3. Lookups!SameLookup(b, q[i])
    BY <1>1, <1>4, <2>2
  <2>4. Lookups!SameLookup(q[i], a)
    BY <1>1, <2>1, <2>3
  <2> QED
    BY <2>4 DEF Sound
<1> QED
  BY <1>3, <1>4 DEF Sound

LEMMA Kept ==
    ASSUME LookupsInv, RequestsKept, queue' \in Seq(Tasks), active' \in SUBSET Tasks,
           table' \in SUBSET Peers,
           Sound(queue', active'), \A a, b \in active' : a = b
    PROVE  LookupsInv'
BY DEF LookupsInv, QueueInv, LookupTypes, RequestsKept

LEMMA Typed ==
    ASSUME LookupsInv
    PROVE  /\ queue \in Seq(Tasks) /\ active \in SUBSET Tasks
           /\ table \in SUBSET Peers
           /\ Sound(queue, active) /\ \A a, b \in active : a = b
BY DEF LookupsInv, QueueInv, LookupTypes

LEMMA StartKeeps ==
    ASSUME LookupsInv, NEW target \in Debugs, Lookups!StartDebugLookup(target)
    PROVE  LookupsInv'
<1>1. /\ queue' = Lookups!Enqueue(queue, Lookups!NewTask("debug", target, Alpha))
      /\ UNCHANGED <<active, table, tracked, pending_reqs, credit, spoiled>>
  BY DEF Lookups!StartDebugLookup, Lookups!requests
<1>2. PICK task \in Tasks : task = Lookups!NewTask("debug", target, Alpha)
  BY NewTaskTyped, ConstantsTyped DEF Targets
<1>3. queue' \in Seq(Tasks) /\ Sound(queue', active)
  BY <1>1, <1>2, Typed, EnqueueIs
<1>4. RequestsKept
  BY <1>1, RequestsUnchanged
<1> QED
  BY <1>1, <1>3, <1>4, Typed, Kept

LEMMA CrawlKeeps == LookupsInv /\ Lookups!Crawl => LookupsInv'
<1> SUFFICES ASSUME LookupsInv, Lookups!Crawl PROVE LookupsInv'
  OBVIOUS
<1>1. PICK S \in SUBSET {d \in table : pending_reqs[d] = None} :
        /\ Lookups!Send(S, {})
        /\ UNCHANGED <<queue, active, table, since>>
  BY DEF Lookups!Crawl
<1>2. S \in SUBSET Peers
  BY Typed
<1>3. RequestsKept
  BY <1>1, <1>2, SendKeeps
<1> QED
  BY <1>1, <1>3, Typed, Kept

\* What an answer, a round and a tick make of a lookup.
LEMMA RoundIs ==
    ASSUME NEW task \in Tasks, NEW S \in SUBSET Peers
    PROVE  Lookups!Round(task, S) \in Tasks /\ Lookups!SameLookup(Lookups!Round(task, S), task)
<1>1. PICK n \in Nat : n = IF S = {} THEN task.iteration ELSE task.iteration + 1
  BY DEF Tasks
<1>2. Lookups!Round(task, S) = [task EXCEPT !.queried = task.queried \cup S,
                                            !.inflight = task.inflight \cup S, !.iteration = n]
  BY <1>1 DEF Lookups!Round
<1> QED
  BY <1>2 DEF Tasks, Lookups!SameLookup

LEMMA HearIs ==
    ASSUME NEW task \in Tasks, NEW d, NEW target, NEW inserted
    PROVE  /\ Lookups!Hear(task, d, target, inserted) \in Tasks
           /\ Lookups!SameLookup(Lookups!Hear(task, d, target, inserted), task)
<1>1. PICK n \in Nat : n = IF inserted = {} THEN task.idle ELSE 0
  BY DEF Tasks
<1>2. Lookups!Hear(task, d, target, inserted)
        = IF task.target # target THEN task
          ELSE [task EXCEPT !.inflight = task.inflight \ {d}, !.idle = n]
  BY <1>1 DEF Lookups!Hear
<1> QED
  BY <1>2 DEF Tasks, Lookups!SameLookup

LEMMA OlderIs ==
    ASSUME NEW task \in Tasks
    PROVE  Lookups!OlderTask(task) \in Tasks /\ Lookups!SameLookup(Lookups!OlderTask(task), task)
<1>1. PICK n \in Nat : n = Lookups!Older(task.idle, ReqTimeout + 1)
  BY DEF Tasks, Lookups!Older
<1>2. Lookups!OlderTask(task) = [task EXCEPT !.idle = n]
  BY <1>1 DEF Lookups!OlderTask
<1> QED
  BY <1>2 DEF Tasks, Lookups!SameLookup

LEMMA SameItself ==
    ASSUME NEW a
    PROVE  Lookups!SameLookup(a, a)
BY DEF Lookups!SameLookup

\* A round of a lookup: it goes on or ends.
LEMMA TakeRoundKeeps ==
    ASSUME LookupsInv, table' \in SUBSET Peers, NEW task \in Tasks, Lookups!TakeRound(task),
           queue' \in Seq(Tasks), Sound(queue', {task})
    PROVE  LookupsInv'
<1>1. PICK S \in SUBSET (table' \ task.queried) :
        /\ Lookups!Send(S, Lookups!Overdue)
        /\ active' = IF Lookups!Done(Lookups!Round(task, S), S) THEN {} ELSE {Lookups!Round(task, S)}
  BY DEF Lookups!TakeRound
<1>2. S \in SUBSET Peers
  OBVIOUS
<1>3. RequestsKept
  BY <1>1, <1>2, SendKeeps
<1>4. PICK after \in Tasks : after = Lookups!Round(task, S) /\ Lookups!SameLookup(after, task)
  BY <1>2, RoundIs
<1>5. active' \in {{}, {after}}
  BY <1>1, <1>4
<1>6. \A i \in 1 .. Len(queue') : Lookups!SameLookup(queue'[i], queue'[i])
  BY SameItself
<1>7. Sound(queue', active')
  <2>1. Lookups!SameLookup(after, task)
    BY <1>4
  <2>2. \A b \in active' : \E a \in {task} : Lookups!SameLookup(b, a)
    BY <1>5, <2>1
  <2> QED
    BY <1>6, <2>2, SameSound
<1> QED
  BY <1>3, <1>4, <1>5, <1>7, Kept

\* A queue whose head is taken out.
LEMMA TailSound ==
    ASSUME NEW q \in Seq(Tasks), q # <<>>, NEW running, Sound(q, running)
    PROVE  Head(q) \in Tasks /\ Tail(q) \in Seq(Tasks) /\ Sound(Tail(q), {Head(q)})
<1>1. /\ Len(q) \in Nat /\ Len(q) >= 1
      /\ Tail(q) \in Seq(Tasks) /\ Len(Tail(q)) = Len(q) - 1
      /\ \A i \in 1 .. Len(Tail(q)) : Tail(q)[i] = q[i + 1]
  BY TailIs
<1>2. Head(q) = q[1] /\ Head(q) \in Tasks
  BY <1>1
<1>3. PICK r \in Seq(Tasks) : r = Tail(q) /\ Len(r) = Len(q) - 1
                              /\ \A i \in 1 .. Len(r) : r[i] = q[i + 1]
  BY <1>1
<1>4. Without(q, 1, r) /\ 1 \in 1 .. Len(q)
  BY <1>1, <1>3 DEF Without
<1>5. Sound(r, running)
  BY <1>3, <1>4, RemovedSound
<1>6. ASSUME NEW i \in 1 .. Len(r) PROVE ~ Lookups!SameLookup(r[i], Head(q))
  <2>1. i + 1 \in 1 .. Len(q) /\ 1 \in 1 .. Len(q) /\ i + 1 # 1 /\ r[i] = q[i + 1]
    BY <1>1, <1>3
  <2> QED
    BY <1>2, <2>1 DEF Sound
<1> QED
  BY <1>2, <1>3, <1>5, <1>6 DEF Sound

LEMMA MaintenanceKeeps == LookupsInv /\ Lookups!Maintenance => LookupsInv'
<1> SUFFICES ASSUME LookupsInv, Lookups!Maintenance PROVE LookupsInv'
  OBVIOUS
<1>0. \A stale \in Lookups!StaleLists, sparse \in BOOLEAN :
            Lookups!EnqueueAll(queue, Lookups!Picks(stale, sparse)) \in Seq(Tasks)
  BY Typed, PicksAre, EnqueueAllIs
<1>1. PICK evicted \in SUBSET table, stale \in Lookups!StaleLists, sparse \in BOOLEAN,
          queued \in Seq(Tasks) :
        /\ queued = Lookups!EnqueueAll(queue, Lookups!Picks(stale, sparse))
        /\ table' = table \ evicted
        /\ queue' = IF active = {} /\ queued # <<>> THEN Tail(queued) ELSE queued
        /\ \/ active = {} /\ queued # <<>> /\ Lookups!TakeRound(Head(queued))
           \/ \E task \in active : Lookups!TakeRound(task)
           \/ ~ (active = {} /\ queued # <<>>) /\ active = {} /\ Lookups!NoRound
  BY <1>0 DEF Lookups!Maintenance
<1>2. queued \in Seq(Tasks) /\ Sound(queued, active)
  BY <1>1, Typed, PicksAre, EnqueueAllIs
<1>3. table' \in SUBSET Peers
  BY <1>1, Typed
<1>4. CASE active = {} /\ queued # <<>> /\ Lookups!TakeRound(Head(queued))
  <2>1. queue' = Tail(queued)
    BY <1>1, <1>4
  <2>2. PICK task \in Tasks : task = Head(queued) /\ Tail(queued) \in Seq(Tasks) /\ Sound(Tail(queued), {task})
    BY <1>2, <1>4, TailSound
  <2> QED
    BY <1>3, <1>4, <2>1, <2>2, TakeRoundKeeps
<1>5. CASE \E task \in active : Lookups!TakeRound(task)
  <2>1. PICK task \in active : Lookups!TakeRound(task)
    BY <1>5
  <2>2. queue' = queued /\ task \in Tasks
    BY <1>1, <2>1, Typed
  <2>3. Sound(queued, {task})
    BY <1>2, <2>1 DEF Sound
  <2> QED
    BY <1>2, <1>3, <2>1, <2>2, <2>3, TakeRoundKeeps
<1>6. CASE ~ (active = {} /\ queued # <<>>) /\ active = {} /\ Lookups!NoRound
  <2>1. Lookups!Send({}, Lookups!Overdue) /\ active' = active /\ queue' = queued
    BY <1>1, <1>6 DEF Lookups!NoRound
  <2>2. RequestsKept
    BY <2>1, SendKeeps
  <2> QED
    BY <1>2, <1>3, <2>1, <2>2, Typed, Kept
<1> QED
  BY <1>1, <1>4, <1>5, <1>6

LEMMA AnswerKeeps ==
    ASSUME LookupsInv, NEW d \in Peers,
           Lookups!UndecodableAnswer(d) \/ Lookups!Answer(d)
    PROVE  LookupsInv'
<1>1. pending_reqs \in [Peers -> Nat \cup {None}]
  BY DEF LookupsInv, QueueInv, LookupTypes
<1>2. CASE Lookups!UndecodableAnswer(d)
  <2>1. /\ tracked[d] # <<>>
        /\ tracked' = [tracked EXCEPT ![d] = Tail(tracked[d])]
        /\ spoiled' = spoiled \cup {d}
        /\ credit' = [credit EXCEPT ![d] = @ - 1]
        /\ UNCHANGED <<queue, active, table, pending_reqs>>
    BY <1>2 DEF Lookups!UndecodableAnswer, Lookups!Consume, Lookups!TrackedAfter
  <2>2. RequestsKept
    BY <1>1, <2>1, TakenKeeps
  <2> QED
    BY <2>1, <2>2, Typed, Kept
<1>3. CASE Lookups!Answer(d)
  <2>1. PICK inserted \in SUBSET (Peers \ table), target \in Debugs \cup Buckets \cup {Other} :
        /\ tracked[d] # <<>>
        /\ tracked' = [tracked EXCEPT ![d] = Tail(tracked[d])]
        /\ pending_reqs' = [pending_reqs EXCEPT ![d] = None]
        /\ credit' = [credit EXCEPT ![d] = @ - 1]
        /\ table' = table \cup inserted
        /\ active' = {Lookups!Hear(task, d, target, inserted) : task \in active}
        /\ UNCHANGED <<queue, spoiled>>
    BY <1>3 DEF Lookups!Answer, Lookups!Consume, Lookups!TrackedAfter, Lookups!PendingAfter
  <2>2. /\ pending_reqs' \in [Peers -> Nat \cup {None}] /\ pending_reqs'[d] = None
        /\ \A p \in Peers : p # d => pending_reqs'[p] = pending_reqs[p]
    BY <1>1, <2>1
  <2>3. RequestsKept
    BY <2>1, <2>2, TakenKeeps
  <2>4. table' \in SUBSET Peers
    BY <2>1, Typed
  <2>5. /\ active' \in SUBSET Tasks
        /\ \A b \in active' : \E a \in active : Lookups!SameLookup(b, a)
        /\ \A a, b \in active' : a = b
    BY <2>1, Typed, HearIs
  <2>6. Sound(queue, active')
    BY <2>5, Typed, SameItself, SameSound
  <2> QED
    BY <2>1, <2>3, <2>4, <2>5, <2>6, Typed, Kept
<1> QED
  BY <1>2, <1>3

LEMMA ClockKeeps == LookupsInv /\ Lookups!Clock => LookupsInv'
<1> SUFFICES ASSUME LookupsInv, Lookups!Clock PROVE LookupsInv'
  OBVIOUS
<1>1. /\ queue' = [i \in DOMAIN queue |-> Lookups!OlderTask(queue[i])]
      /\ active' = {Lookups!OlderTask(task) : task \in active}
      /\ table' = table
  BY DEF Lookups!Clock
<1>2. RequestsKept
  BY ClockKeepsRequests
<1>3. /\ active' \in SUBSET Tasks
      /\ \A b \in active' : \E a \in active : Lookups!SameLookup(b, a)
      /\ \A a, b \in active' : a = b
  BY <1>1, Typed, OlderIs
<1>4. DOMAIN queue = 1 .. Len(queue) /\ Len(queue) \in Nat /\ \A i \in 1 .. Len(queue) : queue[i] \in Tasks
  BY Typed
<1>5. PICK n \in Nat : n = Len(queue)
  BY <1>4
<1>6. queue' = [i \in 1 .. n |-> Lookups!OlderTask(queue[i])]
  BY <1>1, <1>4, <1>5
<1>7. \A i \in 1 .. n : Lookups!OlderTask(queue[i]) \in Tasks /\ Lookups!SameLookup(Lookups!OlderTask(queue[i]), queue[i])
  BY <1>4, <1>5, OlderIs
<1>8. queue' \in Seq(Tasks) /\ Len(queue') = n
  BY <1>6, <1>7
<1>9. \A i \in 1 .. Len(queue) : Lookups!SameLookup(queue'[i], queue[i])
  BY <1>5, <1>6, <1>7
<1>10. Sound(queue', active')
  BY <1>3, <1>5, <1>8, <1>9, Typed, SameSound
<1> QED
  BY <1>1, <1>2, <1>3, <1>8, <1>10, Typed, Kept

LEMMA LookupsUnchanged == LookupsInv /\ UNCHANGED lookups => LookupsInv'
BY DEF LookupsInv, QueueInv, LookupTypes, Owed, Ordered, Sound, lookups

LEMMA LookupsStep == LookupsInv /\ [Next]_vars => LookupsInv'
<1> SUFFICES ASSUME LookupsInv, [Next]_vars PROVE LookupsInv'
  OBVIOUS
<1>1. Lookups!Next \/ UNCHANGED lookups
  BY DEF Next, vars
<1> QED
  BY <1>1, StartKeeps, CrawlKeeps, MaintenanceKeeps, AnswerKeeps, ClockKeeps, LookupsUnchanged
     DEF Lookups!Next

LEMMA LookupsInvariant == Spec => []LookupsInv
<1>1. Init => LookupsInv
  BY QueueInit, RequestsInit DEF LookupsInv
<1> QED
  BY <1>1, LookupsStep, PTL DEF Spec

-----------------------------------------------------------------------------
(* The theorems *)

\* At every moment, for any bound and any peers, the queue of lookups keeps its bound,
\* start_lookup never lets a lookup in twice, and nothing waits that runs: the
\* coalescing survives the round that takes the head of the queue.
THEOREM LookupsAreQueuedOnce == Spec => []QueueSound
<1>1. ASSUME LookupsInv PROVE QueueSound
  <2>1. DOMAIN queue = 1 .. Len(queue)
    BY <1>1, Typed
  <2>2. Lookups!Cardinality(active) <= 1
    <3>1. \A S : Lookups!Cardinality(S) = Cardinality(S)
      BY DEF Lookups!Cardinality, Cardinality
    <3>2. CASE active = {}
      BY <3>1, <3>2, FS_EmptySet
    <3>3. CASE active # {}
      <4>1. PICK a : a \in active
        BY <3>3
      <4>2. \A b \in active : b = a
        BY <1>1, <4>1, Typed
      <4>3. active = {a}
        BY <4>1, <4>2
      <4>4. Cardinality({a}) = 1
        BY FS_Singleton
      <4>5. Cardinality(active) <= 1
        BY <4>3, <4>4
      <4> QED
        BY <3>1, <4>5
    <3> QED
      BY <3>2, <3>3
  <2> QED
    BY <1>1, <2>1, <2>2, Typed DEF QueueSound, Lookups!QueueSound, Sound
<1> QED
  BY <1>1, LookupsInvariant, PTL

\* Whatever answers are lost, late, repeated or undecodable, a request that may still
\* be charged to a peer as a timeout is one whose answer would be accepted, unless an
\* answer that could not be decoded took it; and no peer is believed more answers
\* than it was sent requests.
THEOREM ChargesAreFair == Spec => []PendingIsTracked
<1>1. ASSUME LookupsInv PROVE PendingIsTracked
  BY <1>1 DEF PendingIsTracked, Lookups!PendingIsTracked, LookupsInv, Owed
<1> QED
  BY <1>1, LookupsInvariant, PTL

\* What becomes of the i-th lookup of the queue in a step.
Stays(i) ==
    queue[i].kind = "debug" =>
        \/ \E j \in 1 .. Len(queue') : Lookups!SameLookup(queue'[j], queue[i])
        \/ i = 1 /\ active = {}
        \/ i = 1 /\ Len(queue) = QueueMax
           /\ Lookups!Refreshes(queue) = {} /\ Lookups!Refreshes(queue') = {}

LEMMA RefreshesAre ==
    ASSUME NEW q \in Seq(Tasks), \A i \in 1 .. Len(q) : q[i].kind # "refresh"
    PROVE  Lookups!Refreshes(q) = {}
<1>1. DOMAIN q = 1 .. Len(q)
  OBVIOUS
<1> QED
  BY <1>1 DEF Lookups!Refreshes

LEMMA StartOutranks ==
    ASSUME LookupsInv, NEW target \in Debugs, Lookups!StartDebugLookup(target),
           NEW i \in 1 .. Len(queue)
    PROVE  Stays(i)
<1> SUFFICES ASSUME queue[i].kind = "debug"
             PROVE  \/ \E j \in 1 .. Len(queue') : Lookups!SameLookup(queue'[j], queue[i])
                    \/ i = 1 /\ Len(queue) = QueueMax
                       /\ Lookups!Refreshes(queue) = {} /\ Lookups!Refreshes(queue') = {}
  BY DEF Stays
<1>1. PICK task \in Tasks : queue' = Lookups!Enqueue(queue, task) /\ task.kind = "debug"
  BY NewTaskTyped, ConstantsTyped DEF Targets, Lookups!StartDebugLookup
<1>2. PICK q \in Seq(Tasks) : q = queue /\ Sound(q, active)
  BY Typed
<1>3. /\ queue' \in Seq(Tasks)
      /\ \/ queue' = q
         \/ queue' = Append(q, task)
         \/ /\ Len(q) = QueueMax
            /\ \E k \in 1 .. Len(q), r \in Seq(Tasks) :
                 /\ queue' = Append(r, task)
                 /\ Without(q, k, r)
                 /\ IF \E n \in 1 .. Len(q) : q[n].kind = "refresh" THEN q[k].kind = "refresh" ELSE k = 1
  BY <1>1, <1>2, EnqueueIs
<1>4. i \in 1 .. Len(q) /\ Len(q) \in Nat /\ i \in Nat
  BY <1>2
<1>5. CASE queue' = q
  BY <1>2, <1>5, SameItself
<1>6. CASE queue' = Append(q, task)
  <2>1. PICK r : r = Append(q, task)
    OBVIOUS
  <2>2. i \in 1 .. Len(r) /\ r[i] = q[i]
    BY <1>4, <2>1
  <2> QED
    BY <1>2, <1>6, <2>1, <2>2, SameItself
<1>7. CASE /\ Len(q) = QueueMax
           /\ \E k \in 1 .. Len(q), r \in Seq(Tasks) :
                 /\ queue' = Append(r, task)
                 /\ Without(q, k, r)
                 /\ IF \E n \in 1 .. Len(q) : q[n].kind = "refresh" THEN q[k].kind = "refresh" ELSE k = 1
  <2>1. PICK k \in 1 .. Len(q), r \in Seq(Tasks) :
                 /\ queue' = Append(r, task)
                 /\ Without(q, k, r)
                 /\ IF \E n \in 1 .. Len(q) : q[n].kind = "refresh" THEN q[k].kind = "refresh" ELSE k = 1
    BY <1>7
  <2>2. /\ k \in Nat /\ k >= 1 /\ k <= Len(q) /\ Len(r) = Len(q) - 1
        /\ \A n \in 1 .. Len(r) : r[n] = q[IF n < k THEN n ELSE n + 1]
    BY <1>4, <2>1 DEF Without
  <2>3. PICK u \in Seq(Tasks) : u = queue'
    BY <1>3
  <2>4. /\ Len(u) = Len(r) + 1 /\ u[Len(r) + 1] = task /\ Len(r) \in Nat
        /\ \A n \in 1 .. Len(r) : u[n] = r[n]
    BY <2>1, <2>3
  <2>5. CASE i # k
    <3>1. PICK j \in 1 .. Len(r) : i = IF j < k THEN j ELSE j + 1
      <4>1. CASE i < k
        <5>1. i \in 1 .. Len(r) /\ i = IF i < k THEN i ELSE i + 1
          BY <1>4, <2>2, <2>4, <4>1
        <5> QED
          BY <5>1
      <4>2. CASE ~ (i < k)
        <5>1. i - 1 \in 1 .. Len(r) /\ i = IF i - 1 < k THEN i - 1 ELSE (i - 1) + 1
          BY <1>4, <2>2, <2>4, <2>5, <4>2
        <5> QED
          BY <5>1
      <4> QED
        BY <4>1, <4>2
    <3>2. j \in 1 .. Len(u) /\ u[j] = q[i]
      BY <2>2, <2>4, <3>1
    <3> QED
      BY <1>2, <2>3, <3>2, SameItself
  <2>6. CASE i = k
    <3>1. q[k].kind # "refresh"
      BY <1>2, <2>6
    <3>2. k = 1 /\ \A n \in 1 .. Len(q) : q[n].kind # "refresh"
      BY <2>1, <3>1
    <3>3. \A n \in 1 .. Len(u) : u[n].kind # "refresh"
      <4> TAKE n \in 1 .. Len(u)
      <4>1. CASE n = Len(r) + 1
        BY <1>1, <2>4, <4>1
      <4>2. CASE n # Len(r) + 1
        <5>1. n \in 1 .. Len(r)
          BY <2>4, <4>2
        <5>2. u[n] = q[n + 1] /\ n + 1 \in 1 .. Len(q)
          BY <1>4, <2>2, <2>4, <3>2, <5>1
        <5> QED
          BY <3>2, <5>2
      <4> QED
        BY <4>1, <4>2
    <3>4. Lookups!Refreshes(q) = {} /\ Lookups!Refreshes(u) = {}
      BY <3>2, <3>3, RefreshesAre
    <3> QED
      BY <1>2, <1>7, <2>3, <2>6, <3>2, <3>4
  <2> QED
    BY <2>5, <2>6
<1> QED
  BY <1>3, <1>5, <1>6, <1>7

LEMMA MaintenanceOutranks ==
    ASSUME LookupsInv, Lookups!Maintenance, NEW i \in 1 .. Len(queue)
    PROVE  Stays(i)
<1>0. \A stale \in Lookups!StaleLists, sparse \in BOOLEAN :
            /\ Lookups!EnqueueAll(queue, Lookups!Picks(stale, sparse)) \in Seq(Tasks)
            /\ Longer(queue, Lookups!EnqueueAll(queue, Lookups!Picks(stale, sparse)))
  BY Typed, PicksAre, EnqueueAllIs
<1>1. PICK queued \in Seq(Tasks) :
        /\ Longer(queue, queued)
        /\ queue' = IF active = {} /\ queued # <<>> THEN Tail(queued) ELSE queued
  BY <1>0 DEF Lookups!Maintenance
<1>2. i \in 1 .. Len(queued) /\ queued[i] = queue[i] /\ i \in Nat /\ Len(queued) \in Nat
  <2>1. Len(queue) \in Nat /\ Len(queued) \in Nat
    BY Typed
  <2> QED
    BY <1>1, <2>1 DEF Longer
<1>3. CASE active = {} /\ queued # <<>>
  <2>1. CASE i = 1
    BY <1>3, <2>1 DEF Stays
  <2>2. CASE i # 1
    <3>1. PICK r : r = Tail(queued)
      OBVIOUS
    <3>2. Len(r) = Len(queued) - 1 /\ \A n \in 1 .. Len(r) : r[n] = queued[n + 1]
      BY <1>3, <3>1, TailIs
    <3>3. PICK j \in 1 .. Len(r) : i = j + 1
      <4>1. i - 1 \in 1 .. Len(r) /\ i = (i - 1) + 1
        BY <1>2, <2>2, <3>2
      <4> QED
        BY <4>1
    <3>4. r[j] = queue[i]
      BY <1>2, <3>2, <3>3
    <3>5. queue' = r
      BY <1>1, <1>3, <3>1
    <3> QED
      BY <3>3, <3>4, <3>5, SameItself DEF Stays
  <2> QED
    BY <2>1, <2>2
<1>4. CASE ~ (active = {} /\ queued # <<>>)
  BY <1>1, <1>2, <1>4, SameItself DEF Stays
<1> QED
  BY <1>3, <1>4

LEMMA ClockOutranks ==
    ASSUME LookupsInv, Lookups!Clock, NEW i \in 1 .. Len(queue)
    PROVE  Stays(i)
<1>1. PICK n \in Nat : n = Len(queue) /\ DOMAIN queue = 1 .. n /\ queue[i] \in Tasks
  BY Typed
<1>2. queue' = [m \in 1 .. n |-> Lookups!OlderTask(queue[m])]
  BY <1>1 DEF Lookups!Clock
<1>3. Len(queue') = n
  BY <1>2
<1>4. Lookups!SameLookup(queue'[i], queue[i])
  BY <1>1, <1>2, OlderIs
<1> QED
  BY <1>1, <1>3, <1>4 DEF Stays

LEMMA UnchangedOutranks ==
    ASSUME queue' = queue, NEW i \in 1 .. Len(queue)
    PROVE  Stays(i)
BY SameItself DEF Stays

\* In no step does a refresh displace a lookup somebody asked for: such a lookup
\* leaves the queue for its turn, or as the oldest of a full queue without a refresh,
\* for another of its kind.
THEOREM RefreshesYield == Spec => DebugOutranksRefresh
<1>1. ASSUME LookupsInv, [Next]_vars
      PROVE  [\A i \in DOMAIN queue :
          queue[i].kind = "debug" =>
             \/ \E j \in DOMAIN queue' : Lookups!SameLookup(queue'[j], queue[i])
             \/ i = 1 /\ active = {}
             \/ i = 1 /\ Len(queue) = QueueMax
                /\ Lookups!Refreshes(queue) = {} /\ Lookups!Refreshes(queue') = {}]_(Lookups!vars)
  <2>1. LookupsInv'
    BY <1>1, LookupsStep
  <2>2. queue \in Seq(Tasks) /\ queue' \in Seq(Tasks)
    BY <1>1, <2>1, Typed DEF LookupsInv, QueueInv, LookupTypes
  <2>3. DOMAIN queue = 1 .. Len(queue) /\ DOMAIN queue' = 1 .. Len(queue')
    BY <2>2
  <2>4. Lookups!Next \/ UNCHANGED lookups
    BY <1>1 DEF Next, vars
  <2>5. CASE UNCHANGED lookups
    BY <2>5 DEF lookups, Lookups!vars, Lookups!requests
  <2>6. CASE Lookups!Next
    <3>1. ASSUME NEW i \in 1 .. Len(queue) PROVE Stays(i)
      <4>1. ASSUME NEW target \in Debugs, Lookups!StartDebugLookup(target) PROVE Stays(i)
        BY <1>1, <4>1, StartOutranks
      <4>2. CASE Lookups!Crawl
        BY <4>2, UnchangedOutranks DEF Lookups!Crawl
      <4>3. CASE Lookups!Maintenance
        BY <1>1, <4>3, MaintenanceOutranks
      <4>5. ASSUME NEW d \in Peers, Lookups!UndecodableAnswer(d) PROVE Stays(i)
        BY <4>5, UnchangedOutranks DEF Lookups!UndecodableAnswer
      <4>6. ASSUME NEW d \in Peers, Lookups!Answer(d) PROVE Stays(i)
        BY <4>6, UnchangedOutranks DEF Lookups!Answer
      <4>7. CASE Lookups!Clock
        BY <1>1, <4>7, ClockOutranks
      <4> QED
        BY <2>6, <4>1, <4>2, <4>3, <4>5, <4>6, <4>7 DEF Lookups!Next
    <3> QED
      BY <2>3, <3>1 DEF Stays
  <2> QED
    BY <2>4, <2>5, <2>6
<1> QED
  BY <1>1, LookupsInvariant, PTL DEF Spec, DebugOutranksRefresh, Lookups!DebugOutranksRefresh
=============================================================================
