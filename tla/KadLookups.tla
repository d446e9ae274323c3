----------------------------- MODULE KadLookups -----------------------------
(***************************************************************************)
(* The lookups of the KAD service (src/src/kad/service/lookup.rs), the     *)
(* requests they and the crawl send, and the matching of answers to        *)
(* requests (src/src/kad/service.rs).  One task owns all of this state and *)
(* each branch of its select! is one step.                                 *)
(*                                                                         *)
(* A peer may answer at any time: late, twice, never, unasked, and for     *)
(* any target, since the target of an answer is read from its payload and  *)
(* not from the request it is matched with.  The target of a refresh is a  *)
(* random id of its bucket and is named by the bucket.  The routing table  *)
(* is the set of the peers it holds; which of them are evicted or learned  *)
(* is RoutingTable's matter.                                               *)
(*                                                                         *)
(* A definition marked "Slip" is a mistaken form of the one after it.      *)
(***************************************************************************)
EXTENDS Integers, FiniteSets, Sequences, SequencesExt

CONSTANTS
    Peers,        \* destinations of KAD nodes
    Debugs,       \* targets of debug lookups
    Buckets,      \* buckets of the routing table
    Other,        \* every target no lookup has
    None,         \* no request pending
    Alpha,        \* alpha
    RefreshAlpha, \* refresh_underpopulated_alpha
    PerTick,      \* refresh_buckets_per_tick
    PerSparseTick,\* refresh_underpopulated_buckets_per_tick
    SendGoal,     \* the most requests of one crawl
    QueueMax,     \* LOOKUP_QUEUE_MAX
    Iterations,   \* the rounds a lookup may have, 8
    ReqTimeout,   \* req_timeout_secs
    TrackTTL,     \* TRACKED_OUT_REQUEST_TTL
    RefreshEvery, \* half of refresh_interval_secs
    MaxRequests,  \* bound: requests to a peer of Retried that it has not answered
    Retried       \* bound: peers that are asked again before they answered

\* What the constants may be; ServiceLoops assumes it.
ConstantsAssumption ==
    /\ IsFiniteSet(Peers) /\ IsFiniteSet(Buckets)
    /\ None \notin Nat
    /\ Other \notin Debugs \cup Buckets
    /\ Debugs \cap Buckets = {}
    /\ {Alpha, RefreshAlpha, QueueMax, Iterations, RefreshEvery} \subseteq Nat \ {0}
    /\ {PerTick, PerSparseTick, SendGoal, ReqTimeout, TrackTTL, MaxRequests} \subseteq Nat
    /\ ReqTimeout <= TrackTTL  \* 45 s and 180 s in the code

VARIABLES
    queue,        \* lookup_queue
    active,       \* active_lookup: the set of at most one lookup
    table,        \* the peers of the routing table
    since,        \* the age of bucket_last_refresh, by bucket
    tracked,      \* the ages of the live tracked_out_requests, by peer
    pending_reqs, \* the time left to the request pending at a peer
    credit,       \* history: requests sent less answers accepted, by peer
    spoiled       \* history: peers whose last request was taken by an answer
                  \* that could not be decoded

requests == <<tracked, pending_reqs, credit, spoiled>>
vars == <<queue, active, table, since, requests>>

\* idle counts from last_progress.
NewTask(kind, target, alpha) ==
    [kind |-> kind, target |-> target, alpha |-> alpha, idle |-> 0,
     iteration |-> 0, queried |-> {}, inflight |-> {}]

Init ==
    /\ queue = <<>>
    /\ active = {}
    /\ table \in SUBSET Peers
    /\ since = [b \in Buckets |-> RefreshEvery]
    /\ tracked = [d \in Peers |-> <<>>]
    /\ pending_reqs = [d \in Peers |-> None]
    /\ credit = [d \in Peers |-> 0]
    /\ spoiled = {}

-----------------------------------------------------------------------------
(* The queue of lookups. *)

SameLookup(a, b) == a.kind = b.kind /\ a.target = b.target

Exists(q, task) == \E known \in active \cup ToSet(q) : SameLookup(known, task)

Refreshes(q) == {i \in DOMAIN q : q[i].kind = "refresh"}

First(S) == CHOOSE i \in S : \A j \in S : i <= j

\* A full queue after room was made for a debug lookup: its first refresh
\* goes, the oldest lookup when there is none.
Room(q) ==
    IF Refreshes(q) = {} THEN Tail(q) ELSE RemoveAt(q, First(Refreshes(q)))

\* Slip: only the queue is searched for the lookup, not the active one.
EnqueueBesideActive(q, task) ==
    CASE \E i \in DOMAIN q : SameLookup(q[i], task)  -> q
      [] OTHER -> Append(IF Len(q) < QueueMax THEN q ELSE Room(q), task)

\* Slip: a refresh makes room for itself.
EnqueueEvicting(q, task) ==
    CASE Exists(q, task)  -> q
      [] OTHER            -> Append(IF Len(q) < QueueMax THEN q ELSE Room(q), task)

\* The queue q after start_lookup.
Enqueue(q, task) ==
    CASE Exists(q, task)                             -> q
      [] ~ Exists(q, task) /\ Len(q) < QueueMax      -> Append(q, task)
      [] ~ Exists(q, task) /\ Len(q) >= QueueMax     ->
            IF task.kind = "debug" THEN Append(Room(q), task) ELSE q

\* The queue q after start_lookup for each of the tasks.
EnqueueAll(q, tasks) ==
    LET after[n \in 0 .. Len(tasks)] ==
            IF n = 0 THEN q ELSE Enqueue(after[n - 1], tasks[n])
    IN  after[Len(tasks)]

StartDebugLookup(target) ==
    /\ queue' = Enqueue(queue, NewTask("debug", target, Alpha))
    /\ UNCHANGED <<active, table, since, requests>>

\* The first n members of a list.
Take(list, n) == SubSeq(list, 1, IF n < Len(list) THEN n ELSE Len(list))

RefreshOf(bucket, alpha) == NewTask("refresh", bucket, alpha)

\* The refreshes one tick starts: stale lists the stale buckets from the
\* longest idle, and sparse tells whether the table is underpopulated.
Picks(stale, sparse) ==
    (IF sparse
     THEN [i \in 1 .. Len(Take(stale, PerSparseTick)) |-> RefreshOf(stale[i], RefreshAlpha)]
     ELSE <<>>)
    \o [i \in 1 .. Len(Take(stale, PerTick)) |-> RefreshOf(stale[i], Alpha)]

\* The lists of buckets that may be found stale.  Whether a bucket was idle
\* long enough is left open.
StaleLists ==
    UNION {SetToSeqs(S) : S \in SUBSET {b \in Buckets : since[b] >= RefreshEvery}}

-----------------------------------------------------------------------------
(* Requests and answers. *)

\* send_kad2_req to the peers of S.
Send(S, overdue) ==
    /\ \A d \in S : credit[d] < (IF d \in Retried THEN MaxRequests ELSE 1)
    /\ tracked' = [d \in Peers |-> IF d \in S THEN Append(tracked[d], 0) ELSE tracked[d]]
    /\ pending_reqs' = [d \in Peers |->
                            IF d \in S THEN ReqTimeout
                            ELSE IF d \in overdue THEN None ELSE pending_reqs[d]]
    /\ credit' = [d \in Peers |-> IF d \in S THEN credit[d] + 1 ELSE credit[d]]
    /\ spoiled' = spoiled \ S

\* crawl_once: a random target, or our own id.  Only peers no request is
\* pending at are asked.
Crawl ==
    \E S \in SUBSET {d \in table : pending_reqs[d] = None} :
        /\ S # {}
        /\ Cardinality(S) <= SendGoal
        /\ Send(S, {})
        /\ UNCHANGED <<queue, active, table, since>>

-----------------------------------------------------------------------------
(* The maintenance branch: requests expire, peers are evicted, stale       *)
(* buckets get their lookups and the active lookup takes a round.          *)

Overdue == {d \in Peers : pending_reqs[d] = 0}

\* Slip: a lookup whose peers stay silent is kept.
DoneUnlessSilent(task, sent) ==
    task.iteration >= Iterations \/ (sent = {} /\ task.inflight = {})

\* Whether a lookup ends after a round that asked the peers of sent.
Done(task, sent) ==
    \/ task.iteration >= Iterations
    \/ sent = {} /\ task.inflight = {}
    \/ task.idle > ReqTimeout

\* A lookup after the round.
Round(task, sent) ==
    [task EXCEPT !.queried = @ \cup sent,
                 !.inflight = @ \cup sent,
                 !.iteration = IF sent = {} THEN @ ELSE @ + 1]

\* The candidates are the closest peers; a send may be refused or fail, so
\* that any of them may be left out.
TakeRound(task) ==
    \E S \in SUBSET (table' \ task.queried) :
        /\ Cardinality(S) <= task.alpha
        /\ Send(S, Overdue)
        /\ LET after == Round(task, S)
           IN  active' = IF Done(after, S) THEN {} ELSE {after}

NoRound ==
    /\ Send({}, Overdue)
    /\ UNCHANGED active

Maintenance ==
    \E evicted \in SUBSET table, stale \in StaleLists, sparse \in BOOLEAN :
        LET picks    == Picks(stale, sparse)
            queued   == EnqueueAll(queue, picks)
            waiting  == active = {} /\ queued # <<>>
        IN  /\ table' = table \ evicted
            /\ since' = [b \in Buckets |->
                            IF \E i \in DOMAIN picks : picks[i].target = b
                            THEN 0 ELSE since[b]]
            /\ queue' = IF waiting THEN Tail(queued) ELSE queued
            /\ \/ waiting /\ TakeRound(Head(queued))
               \/ \E task \in active : TakeRound(task)
               \/ ~ waiting /\ active = {} /\ NoRound

-----------------------------------------------------------------------------
(* A KADEMLIA2_RES arrives from a peer.  One that matches no tracked       *)
(* request is dropped before anything is read from it, which is no step.   *)

\* consume_tracked_out_request takes the oldest request of the peer.
TrackedAfter(d) == Tail(tracked[d])

Consume(d) ==
    /\ tracked[d] # <<>>
    /\ tracked' = [tracked EXCEPT ![d] = TrackedAfter(d)]
    /\ credit' = [credit EXCEPT ![d] = @ - 1]

\* decode_kad2_res fails: the request is gone and still pending.
UndecodableAnswer(d) ==
    /\ Consume(d)
    /\ spoiled' = spoiled \cup {d}
    /\ UNCHANGED <<queue, active, table, since, pending_reqs>>

\* handle_lookup_response, with the target the answer names.
Hear(task, d, target, inserted) ==
    IF task.target # target THEN task
    ELSE [task EXCEPT !.inflight = @ \ {d},
                      !.idle = IF inserted = {} THEN @ ELSE 0]

\* Slip: the answered request may still time out.
PendingAfterLate(d) ==
    [pending_reqs EXCEPT ![d] = IF @ = 0 THEN None ELSE @]

PendingAfter(d) == [pending_reqs EXCEPT ![d] = None]

Answer(d) ==
    /\ Consume(d)
    /\ pending_reqs' = PendingAfter(d)
    /\ \E inserted \in SUBSET (Peers \ table), target \in Debugs \cup Buckets \cup {Other} :
        /\ table' = table \cup inserted
        /\ active' = {Hear(task, d, target, inserted) : task \in active}
    /\ UNCHANGED <<queue, since, spoiled>>

-----------------------------------------------------------------------------
(* Time. *)

Older(age, last) == IF age < last THEN age + 1 ELSE age

\* A tracked request past its time is dropped at its next use; here at once.
\* The oldest come first.
Live(ages) ==
    LET gone == CHOOSE n \in 0 .. Len(ages) :
                    \A i \in DOMAIN ages : i > n <=> ages[i] < TrackTTL
    IN  [i \in 1 .. Len(ages) - gone |-> ages[i + gone] + 1]

OlderTask(task) == [task EXCEPT !.idle = Older(@, ReqTimeout + 1)]

Clock ==
    /\ queue' = [i \in DOMAIN queue |-> OlderTask(queue[i])]
    /\ active' = {OlderTask(task) : task \in active}
    /\ since' = [b \in Buckets |-> Older(since[b], RefreshEvery)]
    /\ tracked' = [d \in Peers |-> Live(tracked[d])]
    /\ pending_reqs' = [d \in Peers |->
                            IF pending_reqs[d] \in {None, 0} THEN pending_reqs[d]
                            ELSE pending_reqs[d] - 1]
    /\ UNCHANGED <<table, credit, spoiled>>

Next ==
    \/ \E target \in Debugs : StartDebugLookup(target)
    \/ Crawl
    \/ Maintenance
    \/ \E d \in Peers : UndecodableAnswer(d)
    \/ \E d \in Peers : Answer(d)
    \/ Clock

\* The maintenance interval fires and time passes.
Spec == Init /\ [][Next]_vars /\ WF_vars(Maintenance) /\ WF_vars(Clock)

-----------------------------------------------------------------------------
(* Properties. *)

\* The queue keeps its bound and no lookup is queued twice, nor queued while
\* it is active: start_lookup coalesces (lookup_queue_coalesces_refresh_by_
\* bucket_and_caps_growth), also across a round that activates the head.
QueueSound ==
    /\ Len(queue) <= QueueMax
    /\ Cardinality(active) <= 1
    /\ \A i, j \in DOMAIN queue : SameLookup(queue[i], queue[j]) => i = j
    /\ \A i \in DOMAIN queue : \A task \in active : ~ SameLookup(queue[i], task)

\* A peer that may be charged with a timeout can still clear itself: the
\* answer to its pending request finds a tracked request, however answers of
\* earlier requests were lost, late or repeated, unless an answer that could
\* not be decoded took it; and repeated answers are not accepted beyond the
\* requests that were sent.
PendingIsTracked ==
    \A d \in Peers :
        /\ pending_reqs[d] \notin {None, 0} => tracked[d] # <<>> \/ d \in spoiled
        /\ Len(tracked[d]) <= credit[d]

\* A debug lookup leaves the queue for its turn, or to make room for another
\* when the queue holds nothing else: refreshes never displace it.
DebugOutranksRefresh ==
    [][\A i \in DOMAIN queue :
          queue[i].kind = "debug" =>
             \/ \E j \in DOMAIN queue' : SameLookup(queue'[j], queue[i])
             \/ i = 1 /\ active = {}
             \/ i = 1 /\ Len(queue) = QueueMax
                /\ Refreshes(queue) = {} /\ Refreshes(queue') = {}]_vars

\* A lookup that was asked for ends, so that the single slot is free for the
\* next one, unless answers for its target bring new nodes again and again:
\* silence, late and repeated answers, evictions and refused sends cannot keep
\* it.
LookupEnds ==
    \A target \in Debugs :
        \/ []<>(\A task \in active : task.target # target)
        \/ []<>(\E task \in active : task.target = target /\ task.idle = 0)
=============================================================================
