---------------------------- MODULE RoutingTable ----------------------------
(***************************************************************************)
(* The KAD routing table of src/src/kad/routing.rs and the handlers of the *)
(* KAD service that change it (src/src/kad/service/inbound.rs and          *)
(* src/src/kad/service.rs).  One task owns the table, so each handler is   *)
(* one step.                                                               *)
(*                                                                         *)
(* The table keeps its nodes by id and an index from destination to id.    *)
(* Peers are reached, and what they do is noted, through the index.  Times *)
(* are ages counted up to the last one the code tells apart.  What only    *)
(* paces the sending of requests (last_queried, last_hello, needs_hello,   *)
(* the bucket times) is left out: a request may go to any node.  Requests  *)
(* are matched to answers elsewhere; here any destination may have been    *)
(* asked.                                                                  *)
(*                                                                         *)
(* A definition marked "Slip" is a mistaken form of the one after it.      *)
(***************************************************************************)
EXTENDS Integers, FiniteSets, Sequences

CONSTANTS
    Ids,          \* node ids, ours included
    Self,         \* my_id
    Dests,        \* I2P destinations
    Versions,     \* KAD versions nodes announce
    Keys,         \* UDP keys other than 0
    NoKey,        \* the UDP key 0
    None,         \* no node, no id
    Capacity,     \* max_runtime_nodes
    MaxFailures,  \* max_failures
    UnreliableAt, \* UNRELIABLE_FAILURE_THRESHOLD
    EvictAge,     \* evict_age_secs
    StableWindow, \* STABLE_RECENT_WINDOW
    MaxContacts,  \* nodes named in one answer, at most two here
    MaxSaved,     \* nodes read at a start, at most two here
    MaxPending    \* requests that await their answer at a time

\* The version upsert is given for the sender of a KADEMLIA2_REQ.
RequestVersion == 6

Legacy == 1 .. 5

\* Ages and failure counts beyond these are not told apart.
OldAge     == IF EvictAge > StableWindow THEN EvictAge ELSE StableWindow + 1
FailureCap == IF MaxFailures > UnreliableAt THEN MaxFailures ELSE UnreliableAt

Entry == [dest     : Dests,
          version  : Versions,
          key      : Keys \cup {NoKey},
          verified : BOOLEAN,
          hello    : BOOLEAN,            \* received_hello
          failures : 0 .. FailureCap,
          age      : 0 .. OldAge,        \* since last_seen
          heard    : -1 .. OldAge]       \* since last_inbound, -1 for never

Node == [id : Ids, dest : Dests, version : Versions,
         key : Keys \cup {NoKey}, verified : BOOLEAN]

\* The lists over S of at most `most` members, two where it is larger.
Lists(S, most) ==
    {<<>>} \cup (IF most >= 1 THEN {<<n>> : n \in S} ELSE {})
           \cup (IF most >= 2 THEN {<<m, n>> : m, n \in S} ELSE {})

\* What a contact list says of a node, and what nodes.dat does.
Contacts == {n \in Node : n.key = NoKey /\ ~ n.verified}

ASSUME ConstantsAssumption ==
    /\ Self \in Ids
    /\ IsFiniteSet(Ids)
    /\ IsFiniteSet(Dests)
    /\ Versions \subseteq Nat
    /\ RequestVersion \in Versions
    /\ NoKey \notin Keys
    /\ None \notin Ids
    /\ None \notin Entry
    /\ Capacity \in Nat
    /\ MaxFailures \in Nat
    /\ UnreliableAt \in Nat \ {0}
    /\ EvictAge \in Nat \ {0}
    /\ StableWindow \in Nat
    /\ MaxContacts \in Nat
    /\ MaxSaved \in Nat
    /\ MaxPending \in Nat

VARIABLES
    by_id,        \* the nodes of the table
    by_dest,      \* the index from destination to id
    moved,        \* whether upsert ever let go of the old destination of a
                  \* node: no part of the code
    pending_reqs  \* the destinations of requests that may still time out

vars == <<by_id, by_dest, moved, pending_reqs>>

Table == [by_id   : [Ids -> Entry \cup {None}],
          by_dest : [Dests -> Ids \cup {None}],
          moved   : BOOLEAN]

table == [by_id |-> by_id, by_dest |-> by_dest, moved |-> moved]

Become(t) ==
    /\ by_id' = t.by_id
    /\ by_dest' = t.by_dest
    /\ moved' = t.moved

Known(t) == {id \in Ids : t.by_id[id] # None}

\* The table after the nodes of S were removed, each with the index of the
\* destination it was entered at.
Without(t, S) ==
    [t EXCEPT
        !.by_id = [id \in Ids |-> IF id \in S THEN None ELSE @[id]],
        !.by_dest = [d \in Dests |->
            IF \E id \in S : t.by_id[id] # None /\ t.by_id[id].dest = d
            THEN None ELSE @[d]]]

-----------------------------------------------------------------------------
(* upsert *)

\* Slip: a verified node may be offered elsewhere.
RefusedUnlessVerified(t, n) ==
    /\ t.by_id[n.id] # None
    /\ LET old == t.by_id[n.id]
       IN  \/ old.dest # n.dest /\ n.version < old.version
           \/ old.key # NoKey /\ n.key # NoKey /\ old.key # n.key
           \/ /\ old.version \in Legacy /\ old.hello
              /\ old.dest # n.dest \/ old.version # n.version

\* A known node may not be overwritten from another destination once it is
\* verified, by an older version, under another key, or after a legacy node
\* said hello.
Refused(t, n) ==
    /\ t.by_id[n.id] # None
    /\ LET old == t.by_id[n.id]
       IN  \/ old.verified /\ old.dest # n.dest
           \/ old.dest # n.dest /\ n.version < old.version
           \/ old.key # NoKey /\ n.key # NoKey /\ old.key # n.key
           \/ /\ old.version \in Legacy /\ old.hello
              /\ old.dest # n.dest \/ old.version # n.version

\* The index lets go of the old destination of a node that moves.
Unindexed(t, n) ==
    IF t.by_id[n.id] # None /\ t.by_id[n.id].dest # n.dest
    THEN [t EXCEPT !.by_dest[t.by_id[n.id].dest] = None, !.moved = TRUE]
    ELSE t

\* The node the destination of n belongs to already, if it is another.
Owned(t, n) ==
    /\ t.by_dest[n.dest] \notin {None, n.id}
    /\ t.by_id[t.by_dest[n.dest]] # None

\* Slip: a verified owner gives way to a newer version.
KeptByVersion(t, n) ==
    /\ Owned(t, n)
    /\ LET existing == t.by_id[t.by_dest[n.dest]]
       IN  ~ n.verified /\ existing.version >= n.version

Kept(t, n) ==
    /\ Owned(t, n)
    /\ LET existing == t.by_id[t.by_dest[n.dest]]
       IN  existing.verified \/ (~ n.verified /\ existing.version >= n.version)

NewEntry(n) ==
    [dest |-> n.dest, version |-> n.version, key |-> n.key,
     verified |-> n.verified, hello |-> FALSE, failures |-> 0, age |-> 0,
     heard |-> -1]

\* A legacy node that said hello has only its timers refreshed.
Refreshed(e, n) ==
    LET met == [e EXCEPT !.age = 0, !.failures = 0]
    IN  IF e.version \in Legacy /\ e.hello THEN met
        ELSE [met EXCEPT
                 !.version = IF n.version > @ THEN n.version ELSE @,
                 !.key = IF n.key # NoKey THEN n.key ELSE @,
                 !.verified = @ \/ n.verified]

\* The entry and the index of n, once nothing speaks against n.
Written(t, n) ==
    [t EXCEPT
        !.by_id[n.id] = IF @ = None THEN NewEntry(n) ELSE Refreshed(@, n),
        !.by_dest[n.dest] = n.id]

\* Slip: the former owner of the destination is left in the table.
StoredBesideOwner(t, n) == Written(t, n)

\* The former owner of the destination leaves the table.
Stored(t, n) ==
    Written(IF Owned(t, n) THEN [t EXCEPT !.by_id[t.by_dest[n.dest]] = None]
                           ELSE t, n)

\* Slip: our own id is entered like any other.
UpsertAnybody(t, n) ==
    IF Refused(t, n) THEN t
    ELSE LET u == Unindexed(t, n)
         IN  IF Kept(u, n) THEN u ELSE Stored(u, n)

Upsert(t, n) ==
    IF n.id = Self \/ Refused(t, n) THEN t
    ELSE LET u == Unindexed(t, n)
         IN  IF Kept(u, n) THEN u ELSE Stored(u, n)

Harvest(t, ns) ==
    CASE ns = <<>> -> t
      [] Len(ns) = 1 -> Upsert(t, ns[1])
      [] OTHER -> Upsert(Upsert(t, ns[1]), ns[2])

-----------------------------------------------------------------------------
(* The marks, made through the index *)

EntryAt(t, d) == IF t.by_dest[d] = None THEN None ELSE t.by_id[t.by_dest[d]]

\* The table with e for the entry of d, if d leads to one.
Marked(t, d, e) ==
    IF EntryAt(t, d) = None THEN t ELSE [t EXCEPT !.by_id[t.by_dest[d]] = e]

Seen(e) == [e EXCEPT !.age = 0, !.heard = 0, !.failures = 0]

mark_seen(t, d) == Marked(t, d, Seen(EntryAt(t, d)))

mark_received_hello(t, d) ==
    Marked(t, d, [Seen(EntryAt(t, d)) EXCEPT !.hello = TRUE])

update_sender_keys(t, d, key, verified) ==
    Marked(t, d, [Seen(EntryAt(t, d)) EXCEPT
                     !.key = IF key # NoKey THEN key ELSE @,
                     !.verified = @ \/ verified])

-----------------------------------------------------------------------------
(* Eviction *)

Health(e) ==
    CASE e.failures >= UnreliableAt -> "Unreliable"
      [] e.failures < UnreliableAt /\ ~ e.verified -> "Unknown"
      [] e.failures < UnreliableAt /\ e.verified ->
            IF e.heard \in 0 .. StableWindow /\ e.failures = 0
            THEN "Stable" ELSE "Verified"

HealthRank == [Stable |-> 0, Verified |-> 1, Unknown |-> 2, Unreliable |-> 3]

AsInt(b) == IF b THEN 1 ELSE 0

\* Slip: the healthiest nodes go first.
RankBackwards(e) ==
    <<HealthRank[Health(e)], - e.failures, AsInt(e.heard >= 0),
      AsInt(e.verified), AsInt(e.key # NoKey), - e.age>>

\* The node with the least rank goes first.
Rank(e) ==
    <<- HealthRank[Health(e)], - e.failures, AsInt(e.heard >= 0),
      AsInt(e.verified), AsInt(e.key # NoKey), - e.age>>

Before(a, b) == \E i \in 1 .. 6 : a[i] < b[i] /\ \A j \in 1 .. i - 1 : a[j] = b[j]

\* The tables enforce_capacity may leave: several where nodes rank alike.
Enforced(t) ==
    LET excess == Cardinality(Known(t)) - Capacity
    IN  IF excess <= 0 THEN {t}
        ELSE IF Capacity = 0
        THEN {[t EXCEPT !.by_id = [id \in Ids |-> None],
                        !.by_dest = [d \in Dests |-> None]]}
        ELSE {Without(t, S) :
                 S \in {R \in SUBSET Known(t) :
                     /\ Cardinality(R) = excess
                     /\ \A r \in R, k \in Known(t) \ R :
                            ~ Before(Rank(t.by_id[k]), Rank(t.by_id[r]))}}

Evicted(t) ==
    Without(t, {id \in Known(t) : /\ t.by_id[id].failures >= MaxFailures
                                  /\ t.by_id[id].age >= EvictAge})

-----------------------------------------------------------------------------
(* The handlers *)

\* What every packet that decrypts does, and all that one does which is then
\* dropped: not parsed, over the limit, or an answer nobody asked for.
Drop(d) ==
    \E key \in Keys \cup {NoKey}, verified \in BOOLEAN :
        /\ Become(update_sender_keys(table, d, key, verified))
        /\ UNCHANGED pending_reqs

\* PING, PONG, HELLO_RES_ACK, the publish and search packets, BOOTSTRAP_REQ,
\* and a REQ without the id of its sender.
Hear(d) ==
    \E key \in Keys \cup {NoKey}, verified \in BOOLEAN :
        /\ Become(mark_seen(update_sender_keys(table, d, key, verified), d))
        /\ UNCHANGED pending_reqs

\* The table after a packet from n.dest under n.key was decrypted and its
\* sender entered, before the cap is enforced.
Introduced(t, n) ==
    Upsert(update_sender_keys(t, n.dest, n.key, n.verified), n)

\* KADEMLIA2_HELLO_REQ and KADEMLIA2_HELLO_RES.
Hello(d) ==
    \E n \in Node :
        /\ n.dest = d
        /\ \E t \in Enforced(Introduced(table, n)) :
               Become(mark_received_hello(t, d))
        /\ UNCHANGED pending_reqs

\* Slip: the cap is left to the next handler.
RequestUncapped(d) ==
    \E n \in Node :
        /\ n.dest = d /\ n.version = RequestVersion
        /\ Become(mark_seen(Introduced(table, n), d))
        /\ UNCHANGED pending_reqs

\* KADEMLIA2_REQ with the id of its sender.
Request(d) ==
    \E n \in Node :
        /\ n.dest = d /\ n.version = RequestVersion
        /\ \E t \in Enforced(Introduced(table, n)) : Become(mark_seen(t, d))
        /\ UNCHANGED pending_reqs

\* KADEMLIA2_RES.
Response(d) ==
    \E key \in Keys \cup {NoKey}, verified \in BOOLEAN, ns \in Lists(Contacts, MaxContacts) :
        LET t == mark_seen(update_sender_keys(table, d, key, verified), d)
        IN  /\ \E u \in Enforced(Harvest(t, ns)) : Become(u)
            /\ pending_reqs' = pending_reqs \ {d}

\* KADEMLIA2_BOOTSTRAP_RES.
BootstrapResponse(d) ==
    \E n \in Node, ns \in Lists(Contacts, MaxContacts) :
        /\ n.dest = d
        /\ \E t \in Enforced(Introduced(table, n)) :
           \E u \in Enforced(Harvest(mark_seen(t, d), ns)) : Become(u)
        /\ UNCHANGED pending_reqs

\* send_kad2_req, to the destination the entry of id holds.
SendRequest(id) ==
    /\ by_id[id] # None
    /\ pending_reqs' = pending_reqs \cup {by_id[id].dest}
    /\ Cardinality(pending_reqs') <= MaxPending
    /\ UNCHANGED <<by_id, by_dest, moved>>

\* The requests of `expired` have passed their deadline.  Two destinations
\* that lead to one node count one failure each.
Failed(t, expired) ==
    LET hits(id) == {d \in expired : t.by_dest[d] = id}
        fail(e, n) == [e EXCEPT !.failures =
                          IF @ + n < FailureCap THEN @ + n ELSE FailureCap]
    IN  [t EXCEPT !.by_id = [id \in Ids |->
            IF @[id] = None THEN None
            ELSE fail(@[id], Cardinality(hits(id)))]]

Maintenance ==
    \E expired \in SUBSET pending_reqs :
        /\ Become(Evicted(Failed(table, expired)))
        /\ pending_reqs' = pending_reqs \ expired

Older(a) == IF a \in 0 .. OldAge - 1 THEN a + 1 ELSE a

\* Time passes.
ClockTick ==
    /\ by_id' = [id \in Ids |->
                    IF by_id[id] = None THEN None
                    ELSE [by_id[id] EXCEPT !.age = Older(@), !.heard = Older(@)]]
    /\ UNCHANGED <<by_dest, moved, pending_reqs>>

-----------------------------------------------------------------------------

Empty == [by_id |-> [id \in Ids |-> None], by_dest |-> [d \in Dests |-> None],
          moved |-> FALSE]

\* A start, with the nodes the last run saved or none.
Init ==
    /\ \E ns \in Lists(Node, MaxSaved) : \E t \in Enforced(Harvest(Empty, ns)) :
           /\ by_id = t.by_id
           /\ by_dest = t.by_dest
           /\ moved = t.moved
    /\ pending_reqs = {}

Packet(d) ==
    Drop(d) \/ Hear(d) \/ Hello(d) \/ Request(d) \/ Response(d) \/ BootstrapResponse(d)

Next ==
    \/ \E d \in Dests : Packet(d)
    \/ \E id \in Ids : SendRequest(id)
    \/ Maintenance
    \/ ClockTick

Spec == Init /\ [][Next]_vars

-----------------------------------------------------------------------------
(* Properties *)

\* The table is a table: our own id is never in it.
TypeOK ==
    /\ table \in Table
    /\ by_id[Self] = None
    /\ pending_reqs \subseteq Dests

\* The index leads to every node of the table from its own destination, and
\* to nothing else.
Agrees(t) ==
    /\ \A id \in Ids : t.by_id[id] # None => t.by_dest[t.by_id[id].dest] = id
    /\ \A d \in Dests : t.by_dest[d] # None =>
           /\ t.by_id[t.by_dest[d]] # None
           /\ t.by_id[t.by_dest[d]].dest = d

\* by_id and by_dest agree, through displacement, eviction and the cap, for
\* as long as no node was let in from a second destination: then upsert drops
\* the old index and leaves the entry where it was.
IndexAgrees == moved \/ Agrees(table)

\* Every handler that may add a node has the cap enforced before it ends.
WithinCapacity == Cardinality(Known(table)) <= Capacity

\* A node that upsert must not move: verified, or legacy and greeted.
Settled(e) == e.verified \/ (e.version \in Legacy /\ e.hello)

\* No packet brings the index of another destination to a node that was
\* settled before it and is after it: neither a hello sent from elsewhere
\* nor what third parties say.
SettledPeersStay ==
    [][\A id \in Ids, d \in Dests :
           /\ by_id[id] # None /\ by_id'[id] # None
           /\ Settled(by_id[id]) /\ Settled(by_id'[id])
           /\ by_dest'[d] = id
           => by_dest[d] = id \/ by_id[id].dest = d]_vars

\* A verified node leaves the table because it is old or has failed too often,
\* or because the table is full, and never because another node claims its
\* destination.
VerifiedOwnerStays ==
    [][\A id \in Ids :
           by_id[id] # None /\ by_id'[id] = None /\ by_id[id].verified
           => \/ by_id[id].age >= EvictAge
              \/ Health(by_id[id]) = "Unreliable"
              \/ Cardinality(Known(table')) >= Capacity]_vars

\* No step drops a stable peer and keeps a node that has failed too often.
StablePeersOutliveDead ==
    [][\A id, other \in Ids :
           /\ by_id[id] # None /\ Health(by_id[id]) = "Stable"
           /\ by_id[other] # None /\ by_id'[other] # None
           /\ Health(by_id'[other]) = "Unreliable"
           => by_id'[id] # None]_vars

\* The test upsert_keeps_one_entry_per_destination: no two nodes of the table
\* hold one destination.
OneEntryPerDestination ==
    \A i, j \in Ids :
        by_id[i] # None /\ by_id[j] # None /\ by_id[i].dest = by_id[j].dest => i = j
=============================================================================
