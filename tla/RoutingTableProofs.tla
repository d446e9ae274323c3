------------------------- MODULE RoutingTableProofs -------------------------
(***************************************************************************)
(* Theorems about RoutingTable, for every set of ids, destinations, keys   *)
(* and versions and every value of the caps and ages.                      *)
(***************************************************************************)
EXTENDS RoutingTable, FiniteSetTheorems, TLAPS

\* The inductive invariant, of a table: it is typed, we are not in it, and
\* its two maps agree unless a node has moved.
Sound(t) ==
    /\ t \in Table
    /\ t.by_id[Self] = None
    /\ t.moved \/ Agrees(t)

-----------------------------------------------------------------------------
(* Entries *)

LEMMA CapsTyped ==
    /\ OldAge \in Nat \ {0}
    /\ FailureCap \in Nat \ {0}
    /\ None \notin Entry
    /\ None \notin Ids
    /\ Self \in Ids
BY ConstantsAssumption DEF OldAge, FailureCap

LEMMA ZeroTyped ==
    /\ 0 \in 0 .. OldAge
    /\ 0 \in -1 .. OldAge
    /\ -1 \in -1 .. OldAge
    /\ 0 \in 0 .. FailureCap
BY CapsTyped

LEMMA NewEntryTyped ==
    ASSUME NEW n \in Node
    PROVE  NewEntry(n) \in Entry /\ NewEntry(n).dest = n.dest
BY ZeroTyped DEF NewEntry, Node, Entry

LEMMA RefreshedTyped ==
    ASSUME NEW e \in Entry, NEW n \in Node
    PROVE  Refreshed(e, n) \in Entry /\ Refreshed(e, n).dest = e.dest
<1> DEFINE met == [e EXCEPT !.age = 0, !.failures = 0]
<1>1. met \in Entry /\ met.dest = e.dest
  BY ZeroTyped DEF Entry
<1> HIDE DEF met
<1> DEFINE version == IF n.version > met.version THEN n.version ELSE met.version
           key == IF n.key # NoKey THEN n.key ELSE met.key
           verified == met.verified \/ n.verified
<1>2. version \in Versions /\ key \in Keys \cup {NoKey} /\ verified \in BOOLEAN
  BY <1>1 DEF Entry, Node
<1>3. CASE e.version \in Legacy /\ e.hello
  BY <1>1, <1>3 DEF Refreshed, met
<1>4. CASE ~ (e.version \in Legacy /\ e.hello)
  <2>1. Refreshed(e, n) = [met EXCEPT !.version = version, !.key = key,
                                      !.verified = verified]
    BY <1>1, <1>4 DEF Refreshed, met, Entry
  <2> HIDE DEF version, key, verified
  <2>2. [met EXCEPT !.version = version, !.key = key, !.verified = verified] \in Entry
    BY <1>1, <1>2 DEF Entry
  <2>3. [met EXCEPT !.version = version, !.key = key, !.verified = verified].dest = met.dest
    BY <1>1 DEF Entry
  <2> QED
    BY <1>1, <2>1, <2>2, <2>3
<1> QED
  BY <1>3, <1>4

LEMMA SeenTyped ==
    ASSUME NEW e \in Entry
    PROVE  Seen(e) \in Entry /\ Seen(e).dest = e.dest
BY ZeroTyped DEF Seen, Entry

-----------------------------------------------------------------------------
(* A change to one entry that leaves its destination *)

LEMMA ReplacedSound ==
    ASSUME NEW t, Sound(t), NEW id \in Ids, t.by_id[id] # None,
           NEW e \in Entry, e.dest = t.by_id[id].dest
    PROVE  Sound([t EXCEPT !.by_id[id] = e])
<1> DEFINE u == [t EXCEPT !.by_id[id] = e]
<1>1. /\ u.by_id = [t.by_id EXCEPT ![id] = e]
      /\ u.by_dest = t.by_dest
      /\ u.moved = t.moved
      /\ u \in Table
  BY DEF Sound, Table
<1>2. t.by_id \in [Ids -> Entry \cup {None}] /\ t.by_dest \in [Dests -> Ids \cup {None}]
  BY DEF Sound, Table
<1>3. id # Self
  BY DEF Sound
<1>4. Agrees(t) => Agrees(u)
  BY <1>1, <1>2, CapsTyped DEF Agrees
<1> HIDE DEF u
<1>5. u.by_id[Self] = None
  BY <1>1, <1>2, <1>3, CapsTyped DEF Sound
<1>6. Sound(u)
  BY <1>1, <1>4, <1>5 DEF Sound
<1> QED
  BY <1>6 DEF u

LEMMA MarkedSound ==
    ASSUME NEW t, Sound(t), NEW d \in Dests, NEW e,
           EntryAt(t, d) # None => e \in Entry /\ e.dest = EntryAt(t, d).dest
    PROVE  Sound(Marked(t, d, e))
<1>1. CASE EntryAt(t, d) = None
  BY <1>1 DEF Marked
<1>2. CASE EntryAt(t, d) # None
  <2>1. t.by_dest[d] \in Ids /\ EntryAt(t, d) = t.by_id[t.by_dest[d]]
    BY <1>2 DEF EntryAt, Sound, Table
  <2> QED
    BY <1>2, <2>1, ReplacedSound DEF Marked
<1> QED
  BY <1>1, <1>2

LEMMA EntryAtTyped ==
    ASSUME NEW t, Sound(t), NEW d \in Dests, EntryAt(t, d) # None
    PROVE  EntryAt(t, d) \in Entry
BY DEF EntryAt, Sound, Table

LEMMA MarkSeenSound ==
    ASSUME NEW t, Sound(t), NEW d \in Dests
    PROVE  Sound(mark_seen(t, d))
BY MarkedSound, EntryAtTyped, SeenTyped DEF mark_seen

LEMMA MarkHelloSound ==
    ASSUME NEW t, Sound(t), NEW d \in Dests
    PROVE  Sound(mark_received_hello(t, d))
<1>1. \A e \in Entry : /\ [e EXCEPT !.hello = TRUE] \in Entry
                       /\ [e EXCEPT !.hello = TRUE].dest = e.dest
  BY DEF Entry
<1> QED
  BY <1>1, MarkedSound, EntryAtTyped, SeenTyped DEF mark_received_hello

LEMMA UpdateKeysSound ==
    ASSUME NEW t, Sound(t), NEW d \in Dests, NEW key \in Keys \cup {NoKey},
           NEW verified \in BOOLEAN
    PROVE  Sound(update_sender_keys(t, d, key, verified))
<1> DEFINE keyed(e) == [e EXCEPT !.key = IF key # NoKey THEN key ELSE @,
                                 !.verified = @ \/ verified]
<1>1. \A e \in Entry : keyed(e) \in Entry /\ keyed(e).dest = e.dest
  <2> SUFFICES ASSUME NEW e \in Entry
               PROVE  keyed(e) \in Entry /\ keyed(e).dest = e.dest
    OBVIOUS
  <2> DEFINE k == IF key # NoKey THEN key ELSE e.key
             b == e.verified \/ verified
  <2>1. k \in Keys \cup {NoKey} /\ b \in BOOLEAN
    BY DEF Entry
  <2>2. keyed(e) = [e EXCEPT !.key = k, !.verified = b]
    BY DEF Entry
  <2> HIDE DEF k, b, keyed
  <2>3. [e EXCEPT !.key = k, !.verified = b] \in Entry
    BY <2>1 DEF Entry
  <2>4. [e EXCEPT !.key = k, !.verified = b].dest = e.dest
    BY DEF Entry
  <2> QED
    BY <2>2, <2>3, <2>4
<1>2. update_sender_keys(t, d, key, verified) = Marked(t, d, keyed(Seen(EntryAt(t, d))))
  BY DEF update_sender_keys
<1> HIDE DEF keyed
<1> QED
  BY <1>1, <1>2, MarkedSound, EntryAtTyped, SeenTyped

-----------------------------------------------------------------------------
(* upsert *)

LEMMA UnindexedSound ==
    ASSUME NEW t, Sound(t), NEW n \in Node
    PROVE  /\ Sound(Unindexed(t, n))
           /\ Unindexed(t, n).by_id = t.by_id
           /\ \/ Unindexed(t, n).moved
              \/ t.by_id[n.id] # None => t.by_id[n.id].dest = n.dest
<1>1. CASE t.by_id[n.id] # None /\ t.by_id[n.id].dest # n.dest
  <2> DEFINE old == t.by_id[n.id].dest
             u == [t EXCEPT !.by_dest[old] = None, !.moved = TRUE]
  <2>1. old \in Dests
    BY <1>1 DEF Sound, Table, Node, Entry
  <2>2. t.by_dest \in [Dests -> Ids \cup {None}]
    BY DEF Sound, Table
  <2> HIDE DEF old
  <2>3. [t.by_dest EXCEPT ![old] = None] \in [Dests -> Ids \cup {None}]
    BY <2>1, <2>2
  <2>4. u \in Table /\ u.by_id = t.by_id /\ u.moved
    BY <2>3 DEF Sound, Table
  <2>5. Unindexed(t, n) = u
    BY <1>1 DEF Unindexed, old
  <2> HIDE DEF u
  <2> QED
    BY <2>4, <2>5 DEF Sound
<1>2. CASE ~ (t.by_id[n.id] # None /\ t.by_id[n.id].dest # n.dest)
  BY <1>2 DEF Unindexed
<1> QED
  BY <1>1, <1>2

LEMMA WrittenShape ==
    ASSUME NEW t \in Table, NEW n \in Node
    PROVE  /\ Written(t, n) \in Table
           /\ Written(t, n).moved = t.moved
           /\ Written(t, n).by_dest = [t.by_dest EXCEPT ![n.dest] = n.id]
           /\ \E e \in Entry :
                /\ Written(t, n).by_id = [t.by_id EXCEPT ![n.id] = e]
                /\ e.dest = IF t.by_id[n.id] = None THEN n.dest
                            ELSE t.by_id[n.id].dest
<1> DEFINE e == IF t.by_id[n.id] = None THEN NewEntry(n)
                ELSE Refreshed(t.by_id[n.id], n)
<1>1. /\ t.by_id \in [Ids -> Entry \cup {None}]
      /\ t.by_dest \in [Dests -> Ids \cup {None}]
      /\ n.id \in Ids /\ n.dest \in Dests
  BY DEF Table, Node
<1>2. /\ e \in Entry
      /\ e.dest = IF t.by_id[n.id] = None THEN n.dest ELSE t.by_id[n.id].dest
  BY <1>1, NewEntryTyped, RefreshedTyped
<1>3. Written(t, n) = [t EXCEPT !.by_id = [t.by_id EXCEPT ![n.id] = e],
                                !.by_dest = [t.by_dest EXCEPT ![n.dest] = n.id]]
  BY <1>1 DEF Written, Table
<1> HIDE DEF e
<1>4. /\ [t.by_id EXCEPT ![n.id] = e] \in [Ids -> Entry \cup {None}]
      /\ [t.by_dest EXCEPT ![n.dest] = n.id] \in [Dests -> Ids \cup {None}]
  BY <1>1, <1>2
<1> QED
  BY <1>2, <1>3, <1>4 DEF Table

\* The former owner has left and the node is entered: what was right for all
\* other ids and destinations still is.
LEMMA StoredSound ==
    ASSUME NEW t, Sound(t), NEW n \in Node, n.id # Self,
           t.moved \/ (t.by_id[n.id] # None => t.by_id[n.id].dest = n.dest)
    PROVE  Sound(Stored(t, n))
<1> DEFINE owner == t.by_dest[n.dest]
           u == IF Owned(t, n) THEN [t EXCEPT !.by_id[owner] = None] ELSE t
<1>1. /\ t.by_id \in [Ids -> Entry \cup {None}]
      /\ t.by_dest \in [Dests -> Ids \cup {None}]
      /\ n.id \in Ids /\ n.dest \in Dests
  BY DEF Sound, Table, Node
<1>2. Owned(t, n) => owner \in Ids \ {n.id}
  BY <1>1 DEF Owned
<1>3. /\ u \in Table
      /\ u.moved = t.moved
      /\ u.by_dest = t.by_dest
      /\ u.by_id = IF Owned(t, n) THEN [t.by_id EXCEPT ![owner] = None] ELSE t.by_id
  BY <1>1, <1>2 DEF Sound, Table
<1>4. Stored(t, n) = Written(u, n)
  BY DEF Stored
<1>5. u.by_id[n.id] = t.by_id[n.id] /\ u.by_id[Self] = None
  BY <1>1, <1>2, <1>3, CapsTyped DEF Sound
<1> HIDE DEF u
<1> DEFINE w == Written(u, n)
<1>6. PICK e \in Entry :
          /\ w.by_id = [u.by_id EXCEPT ![n.id] = e]
          /\ e.dest = IF u.by_id[n.id] = None THEN n.dest ELSE u.by_id[n.id].dest
  BY <1>3, WrittenShape
<1>7. w \in Table /\ w.moved = t.moved /\ w.by_dest = [t.by_dest EXCEPT ![n.dest] = n.id]
  BY <1>3, WrittenShape
<1> HIDE DEF w
<1>8. w.by_id[Self] = None
  BY <1>1, <1>3, <1>5, <1>6, CapsTyped DEF Table
<1>9. ASSUME ~ t.moved PROVE Agrees(w)
  <2>1. Agrees(t) /\ e.dest = n.dest
    BY <1>5, <1>6, <1>9 DEF Sound
  <2>2. \A id \in Ids : w.by_id[id] = IF id = n.id THEN e
                                      ELSE IF Owned(t, n) /\ id = owner THEN None
                                      ELSE t.by_id[id]
    BY <1>1, <1>2, <1>3, <1>6
  <2>3. \A d \in Dests : w.by_dest[d] = IF d = n.dest THEN n.id ELSE t.by_dest[d]
    BY <1>1, <1>7
  <2>4. ASSUME NEW id \in Ids, w.by_id[id] # None
        PROVE  w.by_dest[w.by_id[id].dest] = id
    <3>1. CASE id = n.id
      BY <1>1, <2>1, <2>2, <2>3, <3>1
    <3>2. CASE id # n.id
      <4>1. /\ t.by_id[id] # None /\ w.by_id[id] = t.by_id[id]
            /\ ~ (Owned(t, n) /\ id = owner)
        BY <2>2, <2>4, <3>2
      <4>2. t.by_id[id].dest \in Dests /\ t.by_dest[t.by_id[id].dest] = id
        BY <1>1, <2>1, <4>1 DEF Agrees, Entry
      <4>3. t.by_id[id].dest # n.dest
        BY <1>1, <3>2, <4>1, <4>2, CapsTyped DEF Owned
      <4> QED
        BY <2>3, <4>1, <4>2, <4>3
    <3> QED
      BY <3>1, <3>2
  <2>5. ASSUME NEW d \in Dests, w.by_dest[d] # None
        PROVE  w.by_id[w.by_dest[d]] # None /\ w.by_id[w.by_dest[d]].dest = d
    <3>1. CASE d = n.dest
      BY <1>1, <2>1, <2>2, <2>3, <3>1, CapsTyped
    <3>2. CASE d # n.dest
      <4>1. w.by_dest[d] = t.by_dest[d] /\ t.by_dest[d] \in Ids
        BY <1>1, <2>3, <2>5, <3>2
      <4>2. t.by_id[t.by_dest[d]] # None /\ t.by_id[t.by_dest[d]].dest = d
        BY <2>1, <2>5, <4>1 DEF Agrees
      <4>3. t.by_dest[d] # n.id
        BY <1>5, <1>6, <2>1, <3>2, <4>2
      <4>4. ~ (Owned(t, n) /\ t.by_dest[d] = owner)
        BY <1>1, <2>1, <3>2, <4>2 DEF Agrees, Owned
      <4> QED
        BY <2>2, <4>1, <4>2, <4>3, <4>4
    <3> QED
      BY <3>1, <3>2
  <2> QED
    BY <2>4, <2>5 DEF Agrees
<1> QED
  BY <1>4, <1>7, <1>8, <1>9 DEF Sound, w

LEMMA UpsertSound ==
    ASSUME NEW t, Sound(t), NEW n \in Node
    PROVE  Sound(Upsert(t, n))
<1> DEFINE u == Unindexed(t, n)
<1>1. Sound(u) /\ (u.moved \/ (u.by_id[n.id] # None => u.by_id[n.id].dest = n.dest))
  BY UnindexedSound
<1> HIDE DEF u
<1>2. n.id # Self => Sound(Stored(u, n))
  BY <1>1, StoredSound
<1> QED
  BY <1>1, <1>2 DEF Upsert, u

LEMMA HarvestSound ==
    ASSUME NEW t, Sound(t), NEW S \in SUBSET Node, NEW most \in Nat,
           NEW ns \in Lists(S, most)
    PROVE  Sound(Harvest(t, ns))
<1>1. CASE ns = <<>>
  BY <1>1 DEF Harvest
<1>2. CASE \E n \in S : ns = <<n>>
  <2>1. PICK n \in S : ns = <<n>>
    BY <1>2
  <2>2. Harvest(t, ns) = Upsert(t, n)
    BY <2>1 DEF Harvest
  <2> QED
    BY <2>1, <2>2, UpsertSound
<1>3. CASE \E m, n \in S : ns = <<m, n>>
  <2>1. PICK m \in S, n \in S : ns = <<m, n>>
    BY <1>3
  <2>2. Harvest(t, ns) = Upsert(Upsert(t, m), n)
    BY <2>1 DEF Harvest
  <2>3. Sound(Upsert(t, m))
    BY UpsertSound
  <2> QED
    BY <2>2, <2>3, UpsertSound
<1> QED
  BY <1>1, <1>2, <1>3 DEF Lists

-----------------------------------------------------------------------------
(* Eviction, timeouts and time *)

LEMMA MappedSound ==
    ASSUME NEW t, Sound(t), NEW u \in Table,
           u.by_dest = t.by_dest, u.moved = t.moved,
           \A id \in Ids :
               /\ u.by_id[id] = None <=> t.by_id[id] = None
               /\ t.by_id[id] # None => u.by_id[id].dest = t.by_id[id].dest
    PROVE  Sound(u)
<1>1. t.by_dest \in [Dests -> Ids \cup {None}] /\ Self \in Ids
  BY CapsTyped DEF Sound, Table
<1>2. Agrees(t) => Agrees(u)
  BY <1>1 DEF Agrees
<1> QED
  BY <1>1, <1>2 DEF Sound

LEMMA WithoutShape ==
    ASSUME NEW t \in Table, NEW S \in SUBSET Ids
    PROVE  /\ Without(t, S) \in Table
           /\ Without(t, S).moved = t.moved
           /\ \A id \in Ids :
                  Without(t, S).by_id[id] = IF id \in S THEN None ELSE t.by_id[id]
           /\ \A d \in Dests :
                  Without(t, S).by_dest[d] =
                      IF \E id \in S : t.by_id[id] # None /\ t.by_id[id].dest = d
                      THEN None ELSE t.by_dest[d]
<1> DEFINE ids == [id \in Ids |-> IF id \in S THEN None ELSE t.by_id[id]]
           dests == [d \in Dests |->
                        IF \E id \in S : t.by_id[id] # None /\ t.by_id[id].dest = d
                        THEN None ELSE t.by_dest[d]]
<1>1. ids \in [Ids -> Entry \cup {None}] /\ dests \in [Dests -> Ids \cup {None}]
  BY DEF Table
<1>2. Without(t, S) = [t EXCEPT !.by_id = ids, !.by_dest = dests]
  BY DEF Without, Table
<1>3. /\ \A id \in Ids : ids[id] = IF id \in S THEN None ELSE t.by_id[id]
      /\ \A d \in Dests :
             dests[d] = IF \E id \in S : t.by_id[id] # None /\ t.by_id[id].dest = d
                        THEN None ELSE t.by_dest[d]
  OBVIOUS
<1> HIDE DEF ids, dests
<1>4. /\ Without(t, S) \in Table
      /\ Without(t, S).moved = t.moved
      /\ Without(t, S).by_id = ids
      /\ Without(t, S).by_dest = dests
  BY <1>1, <1>2 DEF Table
<1> QED
  BY <1>3, <1>4

LEMMA WithoutSound ==
    ASSUME NEW t, Sound(t), NEW S \in SUBSET Ids
    PROVE  Sound(Without(t, S))
<1> DEFINE u == Without(t, S)
<1>1. t \in Table /\ t.by_id \in [Ids -> Entry \cup {None}]
      /\ t.by_dest \in [Dests -> Ids \cup {None}]
  BY DEF Sound, Table
<1>2. /\ u \in Table
      /\ u.moved = t.moved
      /\ \A id \in Ids : u.by_id[id] = IF id \in S THEN None ELSE t.by_id[id]
      /\ \A d \in Dests :
             u.by_dest[d] = IF \E id \in S : t.by_id[id] # None /\ t.by_id[id].dest = d
                            THEN None ELSE t.by_dest[d]
  BY <1>1, WithoutShape
<1> HIDE DEF u
<1>3. u.by_id[Self] = None
  BY <1>2, CapsTyped DEF Sound
<1>4. ASSUME Agrees(t) PROVE Agrees(u)
  <2>1. ASSUME NEW id \in Ids, u.by_id[id] # None
        PROVE  u.by_dest[u.by_id[id].dest] = id
    <3>1. id \notin S /\ u.by_id[id] = t.by_id[id] /\ t.by_id[id] # None
      BY <1>2, <2>1
    <3>2. t.by_id[id].dest \in Dests
      BY <1>1, <3>1 DEF Entry
    <3>3. \A j \in S : t.by_id[j] # None => t.by_id[j].dest # t.by_id[id].dest
      BY <1>4, <3>1 DEF Agrees
    <3> QED
      BY <1>2, <1>4, <3>1, <3>2, <3>3 DEF Agrees
  <2>2. ASSUME NEW d \in Dests, u.by_dest[d] # None
        PROVE  u.by_id[u.by_dest[d]] # None /\ u.by_id[u.by_dest[d]].dest = d
    <3>1. u.by_dest[d] = t.by_dest[d] /\ t.by_dest[d] \in Ids
      BY <1>1, <1>2, <2>2
    <3>2. t.by_id[t.by_dest[d]] # None /\ t.by_id[t.by_dest[d]].dest = d
      BY <1>4, <2>2, <3>1 DEF Agrees
    <3>3. t.by_dest[d] \notin S
      BY <1>2, <2>2, <3>2
    <3> QED
      BY <1>2, <3>1, <3>2, <3>3
  <2> QED
    BY <2>1, <2>2 DEF Agrees
<1>5. Sound(u)
  BY <1>2, <1>3, <1>4 DEF Sound
<1> QED
  BY <1>5 DEF u

LEMMA EnforcedSound ==
    ASSUME NEW t, Sound(t), NEW u \in Enforced(t)
    PROVE  Sound(u)
<1> DEFINE cleared == [t EXCEPT !.by_id = [id \in Ids |-> None],
                                !.by_dest = [d \in Dests |-> None]]
<1>1. Sound(cleared)
  <2>1. /\ cleared \in Table
        /\ cleared.by_id = [id \in Ids |-> None]
        /\ cleared.by_dest = [d \in Dests |-> None]
    BY DEF Sound, Table
  <2> QED
    BY <2>1, CapsTyped DEF Sound, Agrees
<1>2. \A S \in SUBSET Known(t) : Sound(Without(t, S))
  BY WithoutSound DEF Known
<1> QED
  BY <1>1, <1>2 DEF Enforced

LEMMA FailedSound ==
    ASSUME NEW t, Sound(t), NEW expired \in SUBSET Dests
    PROVE  Sound(Failed(t, expired))
<1> DEFINE hits(id) == {d \in expired : t.by_dest[d] = id}
           fail(e, n) == [e EXCEPT !.failures =
                             IF @ + n < FailureCap THEN @ + n ELSE FailureCap]
           ids == [id \in Ids |-> IF t.by_id[id] = None THEN None
                                  ELSE fail(t.by_id[id], Cardinality(hits(id)))]
<1>1. \A id \in Ids : Cardinality(hits(id)) \in Nat
  <2> TAKE id \in Ids
  <2>1. IsFiniteSet(hits(id))
    BY FS_Subset, ConstantsAssumption
  <2> QED
    BY <2>1, FS_CardinalityType
<1>2. \A e \in Entry, n \in Nat : fail(e, n) \in Entry /\ fail(e, n).dest = e.dest
  BY CapsTyped DEF Entry
<1> HIDE DEF hits, fail
<1>3. /\ ids \in [Ids -> Entry \cup {None}]
      /\ \A id \in Ids : /\ ids[id] = None <=> t.by_id[id] = None
                         /\ t.by_id[id] # None => ids[id].dest = t.by_id[id].dest
  BY <1>1, <1>2, CapsTyped DEF Sound, Table
<1>4. Failed(t, expired) = [t EXCEPT !.by_id = ids]
  BY DEF Failed, hits, fail, Sound, Table
<1> HIDE DEF ids
<1>5. /\ Failed(t, expired) \in Table
      /\ Failed(t, expired).by_id = ids
      /\ Failed(t, expired).by_dest = t.by_dest
      /\ Failed(t, expired).moved = t.moved
  BY <1>3, <1>4 DEF Sound, Table
<1> QED
  BY <1>3, <1>5, MappedSound

LEMMA ClockTickSound ==
    ASSUME Sound(table), ClockTick
    PROVE  Sound(table')
<1>1. /\ by_id \in [Ids -> Entry \cup {None}]
      /\ by_dest \in [Dests -> Ids \cup {None}]
      /\ moved \in BOOLEAN
  BY DEF Sound, Table, table
<1> DEFINE aged(e) == [e EXCEPT !.age = Older(@), !.heard = Older(@)]
<1>2. \A e \in Entry : aged(e) \in Entry /\ aged(e).dest = e.dest
  <2>1. /\ \A a \in 0 .. OldAge : Older(a) \in 0 .. OldAge
        /\ \A a \in -1 .. OldAge : Older(a) \in -1 .. OldAge
    BY CapsTyped DEF Older
  <2> QED
    BY <2>1 DEF Entry
<1> HIDE DEF aged
<1>3. by_id' = [id \in Ids |-> IF by_id[id] = None THEN None ELSE aged(by_id[id])]
  BY DEF ClockTick, aged
<1>4. /\ by_id' \in [Ids -> Entry \cup {None}]
      /\ \A id \in Ids : /\ by_id'[id] = None <=> by_id[id] = None
                         /\ by_id[id] # None => by_id'[id].dest = by_id[id].dest
  BY <1>1, <1>2, <1>3, CapsTyped
<1>5. /\ table' \in Table
      /\ table'.by_id = by_id' /\ table'.by_dest = by_dest /\ table'.moved = moved
      /\ table.by_id = by_id /\ table.by_dest = by_dest /\ table.moved = moved
  BY <1>1, <1>4 DEF table, Table, ClockTick
<1> QED
  BY <1>4, <1>5, MappedSound

-----------------------------------------------------------------------------
(* The handlers *)

LEMMA BecomeIs ==
    ASSUME NEW t \in Table, Become(t)
    PROVE  table' = t
BY DEF Become, table, Table

LEMMA IntroducedSound ==
    ASSUME NEW t, Sound(t), NEW n \in Node
    PROVE  Sound(Introduced(t, n))
<1>1. n.dest \in Dests /\ n.key \in Keys \cup {NoKey} /\ n.verified \in BOOLEAN
  BY DEF Node
<1>2. Sound(update_sender_keys(t, n.dest, n.key, n.verified))
  BY <1>1, UpdateKeysSound
<1> QED
  BY <1>2, UpsertSound DEF Introduced

LEMMA ListsTyped == Contacts \in SUBSET Node /\ MaxContacts \in Nat /\ MaxSaved \in Nat
BY ConstantsAssumption DEF Contacts

LEMMA PacketSound ==
    ASSUME Sound(table), NEW d \in Dests, Packet(d)
    PROVE  Sound(table')
<1>1. CASE Drop(d)
  BY <1>1, UpdateKeysSound, BecomeIs DEF Drop, Sound
<1>2. CASE Hear(d)
  <2>1. PICK key \in Keys \cup {NoKey}, verified \in BOOLEAN :
            Become(mark_seen(update_sender_keys(table, d, key, verified), d))
    BY <1>2 DEF Hear
  <2>2. Sound(mark_seen(update_sender_keys(table, d, key, verified), d))
    BY UpdateKeysSound, MarkSeenSound
  <2> QED
    BY <2>1, <2>2, BecomeIs DEF Sound
<1>3. CASE Hello(d)
  <2>1. PICK n \in Node : \E t \in Enforced(Introduced(table, n)) : Become(mark_received_hello(t, d))
    BY <1>3 DEF Hello
  <2>2. PICK t \in Enforced(Introduced(table, n)) : Become(mark_received_hello(t, d))
    BY <2>1
  <2>3. Sound(mark_received_hello(t, d))
    BY IntroducedSound, EnforcedSound, MarkHelloSound
  <2> QED
    BY <2>2, <2>3, BecomeIs DEF Sound
<1>4. CASE Request(d)
  <2>1. PICK n \in Node : \E t \in Enforced(Introduced(table, n)) : Become(mark_seen(t, d))
    BY <1>4 DEF Request
  <2>2. PICK t \in Enforced(Introduced(table, n)) : Become(mark_seen(t, d))
    BY <2>1
  <2>3. Sound(mark_seen(t, d))
    BY IntroducedSound, EnforcedSound, MarkSeenSound
  <2> QED
    BY <2>2, <2>3, BecomeIs DEF Sound
<1>5. CASE Response(d)
  <2>1. PICK key \in Keys \cup {NoKey}, verified \in BOOLEAN,
             ns \in Lists(Contacts, MaxContacts) :
            \E u \in Enforced(Harvest(
                mark_seen(update_sender_keys(table, d, key, verified), d), ns)) : Become(u)
    BY <1>5 DEF Response
  <2> DEFINE t == mark_seen(update_sender_keys(table, d, key, verified), d)
  <2>2. Sound(t)
    BY UpdateKeysSound, MarkSeenSound
  <2> HIDE DEF t
  <2>3. Sound(Harvest(t, ns))
    BY <2>2, HarvestSound, ListsTyped
  <2>4. PICK u \in Enforced(Harvest(t, ns)) : Become(u)
    BY <2>1 DEF t
  <2> QED
    BY <2>3, <2>4, EnforcedSound, BecomeIs DEF Sound
<1>6. CASE BootstrapResponse(d)
  <2>1. PICK n \in Node, ns \in Lists(Contacts, MaxContacts) :
            \E t \in Enforced(Introduced(table, n)) :
            \E u \in Enforced(Harvest(mark_seen(t, d), ns)) : Become(u)
    BY <1>6 DEF BootstrapResponse
  <2>2. PICK t \in Enforced(Introduced(table, n)) :
            \E u \in Enforced(Harvest(mark_seen(t, d), ns)) : Become(u)
    BY <2>1
  <2>3. Sound(mark_seen(t, d))
    BY IntroducedSound, EnforcedSound, MarkSeenSound
  <2>4. Sound(Harvest(mark_seen(t, d), ns))
    BY <2>3, HarvestSound, ListsTyped
  <2>5. PICK u \in Enforced(Harvest(mark_seen(t, d), ns)) : Become(u)
    BY <2>2
  <2> QED
    BY <2>4, <2>5, EnforcedSound, BecomeIs DEF Sound
<1> QED
  BY <1>1, <1>2, <1>3, <1>4, <1>5, <1>6 DEF Packet

LEMMA MaintenanceSound ==
    ASSUME Sound(table), pending_reqs \subseteq Dests, Maintenance
    PROVE  Sound(table')
<1>1. PICK expired \in SUBSET pending_reqs : Become(Evicted(Failed(table, expired)))
  BY DEF Maintenance
<1>2. Sound(Failed(table, expired))
  BY FailedSound
<1>3. Sound(Evicted(Failed(table, expired)))
  BY <1>2, WithoutSound DEF Evicted, Known
<1> QED
  BY <1>1, <1>3, BecomeIs DEF Sound

-----------------------------------------------------------------------------
(* The theorems *)

Inv == Sound(table) /\ pending_reqs \subseteq Dests

LEMMA InitInv ==
    ASSUME Init
    PROVE  Inv
<1>1. Empty \in Table
  BY DEF Empty, Table
<1>2. Sound(Empty)
  BY <1>1, CapsTyped DEF Empty, Sound, Agrees
<1>3. PICK ns \in Lists(Node, MaxSaved) : \E t \in Enforced(Harvest(Empty, ns)) :
          by_id = t.by_id /\ by_dest = t.by_dest /\ moved = t.moved
  BY DEF Init
<1>4. PICK t \in Enforced(Harvest(Empty, ns)) :
          by_id = t.by_id /\ by_dest = t.by_dest /\ moved = t.moved
  BY <1>3
<1>5. Sound(t)
  BY <1>2, HarvestSound, EnforcedSound, ListsTyped
<1>6. table = t
  BY <1>4, <1>5 DEF table, Sound, Table
<1> QED
  BY <1>5, <1>6 DEF Inv, Init

LEMMA NextInv ==
    ASSUME Inv, [Next]_vars
    PROVE  Inv'
<1>1. CASE UNCHANGED vars
  <2>1. table' = table /\ pending_reqs' = pending_reqs
    BY <1>1 DEF vars, table
  <2> QED
    BY <2>1 DEF Inv
<1>2. ASSUME NEW d \in Dests, Packet(d)
      PROVE  Inv'
  <2>1. pending_reqs' \subseteq pending_reqs
    BY <1>2 DEF Packet, Drop, Hear, Hello, Request, Response, BootstrapResponse
  <2> QED
    BY <1>2, <2>1, PacketSound DEF Inv
<1>3. ASSUME NEW id \in Ids, SendRequest(id)
      PROVE  Inv'
  <2>1. table' = table
    BY <1>3 DEF SendRequest, table
  <2>2. by_id[id] \in Entry
    BY <1>3 DEF SendRequest, Inv, Sound, Table, table
  <2>3. pending_reqs' \subseteq Dests
    BY <1>3, <2>2 DEF SendRequest, Inv, Entry
  <2> QED
    BY <2>1, <2>3 DEF Inv
<1>4. CASE Maintenance
  BY <1>4, MaintenanceSound DEF Inv, Maintenance
<1>5. CASE ClockTick
  BY <1>5, ClockTickSound DEF Inv, ClockTick
<1> QED
  BY <1>1, <1>2, <1>3, <1>4, <1>5 DEF Next

THEOREM Invariance == Spec => []Inv
<1>1. Inv /\ [Next]_vars => Inv'
  BY NextInv
<1> QED
  BY <1>1, InitInv, PTL DEF Spec

\* Whatever peers say of themselves and of each other, the table is typed and
\* upsert never lets our own id in.
THEOREM TableTyped == Spec => []TypeOK
<1>1. Inv => TypeOK
  BY DEF Inv, Sound, TypeOK, table
<1> QED
  BY <1>1, Invariance, PTL

\* by_id and by_dest agree in every handler until some node is taken at a
\* second destination, which is the one thing upsert does to them unequally.
THEOREM IndexAgreement == Spec => []IndexAgrees
<1>1. Inv => IndexAgrees
  BY DEF Inv, Sound, IndexAgrees, table
<1> QED
  BY <1>1, Invariance, PTL

-----------------------------------------------------------------------------
(* The cap *)

Within(t) == Cardinality(Known(t)) <= Capacity

LEMMA KnownFinite ==
    ASSUME NEW t
    PROVE  IsFiniteSet(Known(t)) /\ Cardinality(Known(t)) \in Nat
<1>1. IsFiniteSet(Known(t))
  BY FS_Subset, ConstantsAssumption DEF Known
<1> QED
  BY <1>1, FS_CardinalityType

LEMMA FewerWithin ==
    ASSUME NEW t, Within(t), NEW u, Known(u) \subseteq Known(t)
    PROVE  Within(u)
<1>1. Cardinality(Known(u)) <= Cardinality(Known(t))
  BY KnownFinite, FS_Subset
<1> QED
  BY <1>1, KnownFinite, ConstantsAssumption DEF Within

LEMMA EnforcedWithin ==
    ASSUME NEW t \in Table, NEW u \in Enforced(t)
    PROVE  Within(u)
<1> DEFINE excess == Cardinality(Known(t)) - Capacity
<1>1. Capacity \in Nat /\ Cardinality(Known(t)) \in Nat /\ IsFiniteSet(Known(t))
  BY KnownFinite, ConstantsAssumption
<1>2. CASE excess <= 0
  BY <1>1, <1>2 DEF Enforced, Within
<1>3. CASE ~ (excess <= 0) /\ Capacity = 0
  <2>1. u = [t EXCEPT !.by_id = [id \in Ids |-> None],
                      !.by_dest = [d \in Dests |-> None]]
    BY <1>3 DEF Enforced
  <2>2. u.by_id = [id \in Ids |-> None]
    BY <2>1 DEF Table
  <2>3. \A id \in Ids : u.by_id[id] = None
    BY <2>2
  <2>4. Known(u) = {}
    BY <2>3 DEF Known
  <2> QED
    BY <1>3, <2>4, FS_EmptySet DEF Within
<1>4. CASE ~ (excess <= 0) /\ Capacity # 0
  <2>1. PICK S \in SUBSET Known(t) : Cardinality(S) = excess /\ u = Without(t, S)
    BY <1>4 DEF Enforced
  <2>2. S \in SUBSET Ids
    BY DEF Known
  <2>3. Known(u) = Known(t) \ S
    BY <2>1, <2>2, WithoutShape DEF Known
  <2>4. IsFiniteSet(S)
    BY <1>1, FS_Subset
  <2>5. Cardinality(Known(t) \ S) = Cardinality(Known(t)) - Cardinality(Known(t) \cap S)
    BY <1>1, FS_Difference
  <2>6. Known(t) \cap S = S
    OBVIOUS
  <2> QED
    BY <1>1, <2>1, <2>3, <2>5, <2>6 DEF Within
<1> QED
  BY <1>2, <1>3, <1>4

LEMMA MarkedKnown ==
    ASSUME NEW t \in Table, NEW d \in Dests, NEW e,
           EntryAt(t, d) # None => e \in Entry
    PROVE  Known(Marked(t, d, e)) = Known(t)
<1>1. CASE EntryAt(t, d) = None
  BY <1>1 DEF Marked
<1>2. CASE EntryAt(t, d) # None
  <2>1. t.by_dest[d] \in Ids /\ t.by_id[t.by_dest[d]] # None
    BY <1>2 DEF EntryAt, Table
  <2>2. Marked(t, d, e).by_id = [t.by_id EXCEPT ![t.by_dest[d]] = e]
    BY <1>2, <2>1 DEF Marked, Table
  <2> QED
    BY <1>2, <2>1, <2>2, CapsTyped DEF Known, Table
<1> QED
  BY <1>1, <1>2

LEMMA MarksKnown ==
    ASSUME NEW t, Sound(t), NEW d \in Dests
    PROVE  /\ Known(mark_seen(t, d)) = Known(t)
           /\ Known(mark_received_hello(t, d)) = Known(t)
           /\ \A key \in Keys \cup {NoKey}, verified \in BOOLEAN :
                  Known(update_sender_keys(t, d, key, verified)) = Known(t)
<1>1. EntryAt(t, d) # None => Seen(EntryAt(t, d)) \in Entry
  BY EntryAtTyped, SeenTyped
<1>2. t \in Table
  BY DEF Sound
<1>3. Known(mark_seen(t, d)) = Known(t)
  BY <1>1, <1>2, MarkedKnown DEF mark_seen
<1>4. \A e \in Entry : [e EXCEPT !.hello = TRUE] \in Entry
  BY DEF Entry
<1>5. Known(mark_received_hello(t, d)) = Known(t)
  BY <1>1, <1>2, <1>4, MarkedKnown DEF mark_received_hello
<1>6. ASSUME NEW key \in Keys \cup {NoKey}, NEW verified \in BOOLEAN
      PROVE  Known(update_sender_keys(t, d, key, verified)) = Known(t)
  <2> DEFINE keyed(e) == [e EXCEPT !.key = IF key # NoKey THEN key ELSE @,
                                   !.verified = @ \/ verified]
  <2>1. \A e \in Entry : keyed(e) \in Entry
    BY DEF Entry
  <2>2. update_sender_keys(t, d, key, verified) = Marked(t, d, keyed(Seen(EntryAt(t, d))))
    BY DEF update_sender_keys
  <2> HIDE DEF keyed
  <2> QED
    BY <1>1, <1>2, <2>1, <2>2, MarkedKnown
<1> QED
  BY <1>3, <1>5, <1>6

LEMMA PacketWithin ==
    ASSUME Inv, Within(table), NEW d \in Dests, Packet(d)
    PROVE  Within(table')
<1>1. Sound(table)
  BY DEF Inv
<1>2. Sound(table') /\ table' \in Table
  BY <1>1, PacketSound DEF Sound
<1>3. CASE Drop(d)
  <2>1. PICK key \in Keys \cup {NoKey}, verified \in BOOLEAN :
            Become(update_sender_keys(table, d, key, verified))
    BY <1>3 DEF Drop
  <2>2. table' = update_sender_keys(table, d, key, verified)
    BY <1>1, <2>1, BecomeIs, UpdateKeysSound DEF Sound
  <2> QED
    BY <1>1, <2>2, MarksKnown DEF Within
<1>4. CASE Hear(d)
  <2>1. PICK key \in Keys \cup {NoKey}, verified \in BOOLEAN :
            Become(mark_seen(update_sender_keys(table, d, key, verified), d))
    BY <1>4 DEF Hear
  <2>2. Sound(update_sender_keys(table, d, key, verified))
    BY <1>1, UpdateKeysSound
  <2>3. table' = mark_seen(update_sender_keys(table, d, key, verified), d)
    BY <2>1, <2>2, BecomeIs, MarkSeenSound DEF Sound
  <2> QED
    BY <1>1, <2>2, <2>3, MarksKnown DEF Within
<1>5. CASE Hello(d)
  <2>1. PICK n \in Node :
            \E t \in Enforced(Introduced(table, n)) : Become(mark_received_hello(t, d))
    BY <1>5 DEF Hello
  <2>2. PICK t \in Enforced(Introduced(table, n)) : Become(mark_received_hello(t, d))
    BY <2>1
  <2>3. Sound(t) /\ Within(t)
    BY <1>1, IntroducedSound, EnforcedSound, EnforcedWithin DEF Sound
  <2>4. table' = mark_received_hello(t, d)
    BY <2>2, <2>3, BecomeIs, MarkHelloSound DEF Sound
  <2> QED
    BY <2>3, <2>4, MarksKnown DEF Within
<1>6. CASE Request(d)
  <2>1. PICK n \in Node : \E t \in Enforced(Introduced(table, n)) : Become(mark_seen(t, d))
    BY <1>6 DEF Request
  <2>2. PICK t \in Enforced(Introduced(table, n)) : Become(mark_seen(t, d))
    BY <2>1
  <2>3. Sound(t) /\ Within(t)
    BY <1>1, IntroducedSound, EnforcedSound, EnforcedWithin DEF Sound
  <2>4. table' = mark_seen(t, d)
    BY <2>2, <2>3, BecomeIs, MarkSeenSound DEF Sound
  <2> QED
    BY <2>3, <2>4, MarksKnown DEF Within
<1>7. CASE Response(d)
  <2>1. PICK key \in Keys \cup {NoKey}, verified \in BOOLEAN,
             ns \in Lists(Contacts, MaxContacts) :
            \E u \in Enforced(Harvest(
                mark_seen(update_sender_keys(table, d, key, verified), d), ns)) : Become(u)
    BY <1>7 DEF Response
  <2> DEFINE h == Harvest(mark_seen(update_sender_keys(table, d, key, verified), d), ns)
  <2>2. Sound(mark_seen(update_sender_keys(table, d, key, verified), d))
    BY <1>1, UpdateKeysSound, MarkSeenSound
  <2>3. Sound(h)
    BY <2>2, HarvestSound, ListsTyped
  <2>4. PICK u \in Enforced(h) : Become(u)
    BY <2>1
  <2> HIDE DEF h
  <2>5. Sound(u) /\ Within(u)
    BY <2>3, EnforcedSound, EnforcedWithin DEF Sound
  <2> QED
    BY <2>4, <2>5, BecomeIs DEF Sound
<1>8. CASE BootstrapResponse(d)
  <2>1. PICK n \in Node, ns \in Lists(Contacts, MaxContacts) :
            \E t \in Enforced(Introduced(table, n)) :
            \E u \in Enforced(Harvest(mark_seen(t, d), ns)) : Become(u)
    BY <1>8 DEF BootstrapResponse
  <2>2. PICK t \in Enforced(Introduced(table, n)) :
            \E u \in Enforced(Harvest(mark_seen(t, d), ns)) : Become(u)
    BY <2>1
  <2>3. Sound(mark_seen(t, d))
    BY <1>1, IntroducedSound, EnforcedSound, MarkSeenSound
  <2>4. Sound(Harvest(mark_seen(t, d), ns))
    BY <2>3, HarvestSound, ListsTyped
  <2>5. PICK u \in Enforced(Harvest(mark_seen(t, d), ns)) : Become(u)
    BY <2>2
  <2>6. Sound(u) /\ Within(u)
    BY <2>4, EnforcedSound, EnforcedWithin DEF Sound
  <2> QED
    BY <2>5, <2>6, BecomeIs DEF Sound
<1> QED
  BY <1>3, <1>4, <1>5, <1>6, <1>7, <1>8 DEF Packet

LEMMA NextWithin ==
    ASSUME Inv, Within(table), [Next]_vars
    PROVE  Within(table')
<1>1. CASE UNCHANGED vars
  <2>1. table' = table
    BY <1>1 DEF vars, table
  <2> QED
    BY <2>1
<1>2. ASSUME NEW id \in Ids, SendRequest(id)
      PROVE  Within(table')
  <2>1. table' = table
    BY <1>2 DEF SendRequest, table
  <2> QED
    BY <2>1
<1>3. CASE Maintenance
  <2>1. PICK expired \in SUBSET pending_reqs : Become(Evicted(Failed(table, expired)))
    BY <1>3 DEF Maintenance
  <2> DEFINE f == Failed(table, expired)
             gone == {id \in Known(f) : /\ f.by_id[id].failures >= MaxFailures
                                        /\ f.by_id[id].age >= EvictAge}
  <2>2. Sound(f)
    BY FailedSound DEF Inv
  <2>3. Known(f) \subseteq Known(table)
    BY DEF Failed, Known, Inv, Sound, Table
  <2>4. gone \in SUBSET Ids /\ Evicted(f) = Without(f, gone)
    BY DEF Evicted, Known
  <2> HIDE DEF f, gone
  <2>5. Sound(Evicted(f)) /\ Known(Evicted(f)) \subseteq Known(f)
    BY <2>2, <2>4, WithoutSound, WithoutShape DEF Known, Sound
  <2>6. table' = Evicted(f)
    BY <2>1, <2>5, BecomeIs DEF Sound, f
  <2> QED
    BY <2>3, <2>5, <2>6, FewerWithin
<1>4. CASE ClockTick
  <2>1. Known(table') \subseteq Known(table)
    BY <1>4 DEF ClockTick, Known, table
  <2> QED
    BY <2>1, FewerWithin
<1> QED
  BY <1>1, <1>2, <1>3, <1>4, PacketWithin DEF Next

\* No handler ends with more nodes than the cap, however many it added.
THEOREM CapHolds == Spec => []WithinCapacity
<1>1. Init => Within(table)
  <2> SUFFICES ASSUME Init PROVE Within(table)
    OBVIOUS
  <2>1. PICK ns \in Lists(Node, MaxSaved) : \E t \in Enforced(Harvest(Empty, ns)) :
            by_id = t.by_id /\ by_dest = t.by_dest /\ moved = t.moved
    BY DEF Init
  <2>2. PICK t \in Enforced(Harvest(Empty, ns)) : by_id = t.by_id
    BY <2>1
  <2>3. Empty \in Table /\ Sound(Empty)
    BY CapsTyped DEF Empty, Table, Sound, Agrees
  <2>4. Sound(Harvest(Empty, ns))
    BY <2>3, HarvestSound, ListsTyped
  <2>5. Within(t)
    BY <2>4, EnforcedWithin DEF Sound
  <2>6. Known(table) = Known(t)
    BY <2>2 DEF Known, table
  <2> QED
    BY <2>5, <2>6 DEF Within
<1>2. Inv /\ Within(table) /\ [Next]_vars => Within(table)'
  BY NextWithin
<1>3. Within(table) => WithinCapacity
  BY DEF Within, WithinCapacity
<1> QED
  BY <1>1, <1>2, <1>3, Invariance, PTL DEF Spec

-----------------------------------------------------------------------------
(* What an entry keeps while its node stays in the table *)

\* Whoever was heard was seen then.
Timed(e) == e.heard = -1 \/ e.age <= e.heard

\* A packet never moves a node, never takes back that it is verified or
\* settled, and never adds a failure.
Grown(e, f) ==
    /\ f.dest = e.dest
    /\ e.verified => f.verified
    /\ Settled(e) => Settled(f)
    /\ f.failures \in {0, e.failures}
    /\ f.heard \in {0, e.heard}
    /\ Timed(e) => Timed(f)

\* An entry of a node that others have just named.
Fresh(e) == ~ e.verified /\ ~ e.hello /\ e.failures = 0

Dead(e) == e.failures >= UnreliableAt

LEMMA GrownBack == ASSUME NEW e PROVE Grown(e, e)
BY DEF Grown

LEMMA GrownOn ==
    ASSUME NEW e, NEW f, NEW g, Grown(e, f), Grown(f, g)
    PROVE  Grown(e, g)
BY DEF Grown

LEMMA SeenGrows == ASSUME NEW e \in Entry PROVE Grown(e, Seen(e))
<1>1. /\ Seen(e).dest = e.dest /\ Seen(e).verified = e.verified /\ Seen(e).hello = e.hello
      /\ Seen(e).version = e.version /\ Seen(e).failures = 0 /\ Seen(e).heard = 0
      /\ Seen(e).age = 0
  BY DEF Seen, Entry
<1> QED
  BY <1>1 DEF Grown, Settled, Timed

LEMMA GreetedGrows == ASSUME NEW e \in Entry PROVE Grown(e, [e EXCEPT !.hello = TRUE])
<1> DEFINE f == [e EXCEPT !.hello = TRUE]
<1>1. /\ f.dest = e.dest /\ f.verified = e.verified /\ f.hello = TRUE
      /\ f.version = e.version /\ f.failures = e.failures /\ f.heard = e.heard
      /\ f.age = e.age
  BY DEF Entry
<1> HIDE DEF f
<1>2. Grown(e, f)
  BY <1>1 DEF Grown, Settled, Timed
<1> QED
  BY <1>2 DEF f

Keyed(e, key, verified) ==
    [e EXCEPT !.key = IF key # NoKey THEN key ELSE @, !.verified = @ \/ verified]

LEMMA KeyedGrows ==
    ASSUME NEW e \in Entry, NEW key \in Keys \cup {NoKey}, NEW verified \in BOOLEAN
    PROVE  Keyed(e, key, verified) \in Entry /\ Grown(e, Keyed(e, key, verified))
<1> DEFINE k == IF key # NoKey THEN key ELSE e.key
           b == e.verified \/ verified
           f == [e EXCEPT !.key = k, !.verified = b]
<1>1. f = Keyed(e, key, verified)
  BY DEF Entry, Keyed
<1>2. (e.verified => b) /\ k \in Keys \cup {NoKey} /\ b \in BOOLEAN
  BY DEF Entry
<1> HIDE DEF k, b
<1>3. /\ f.dest = e.dest /\ f.verified = b /\ f.hello = e.hello
      /\ f.version = e.version /\ f.failures = e.failures /\ f.heard = e.heard
      /\ f.age = e.age
      /\ f \in Entry
  BY <1>2 DEF Entry
<1> HIDE DEF f
<1>4. Grown(e, f)
  BY <1>2, <1>3 DEF Grown, Settled, Timed
<1> QED
  BY <1>1, <1>3, <1>4

LEMMA RefreshedGrows ==
    ASSUME NEW e \in Entry, NEW n \in Node
    PROVE  /\ Grown(e, Refreshed(e, n))
           /\ Fresh(e) /\ ~ n.verified => Fresh(Refreshed(e, n))
<1> DEFINE met == [e EXCEPT !.age = 0, !.failures = 0]
<1>1. /\ met \in Entry /\ met.dest = e.dest /\ met.verified = e.verified /\ met.hello = e.hello
      /\ met.version = e.version /\ met.failures = 0 /\ met.heard = e.heard
      /\ met.age = 0 /\ e.heard \in -1 .. OldAge /\ OldAge \in Nat
  BY ZeroTyped, CapsTyped DEF Entry
<1> HIDE DEF met
<1> DEFINE version == IF n.version > met.version THEN n.version ELSE met.version
           key == IF n.key # NoKey THEN n.key ELSE met.key
           verified == met.verified \/ n.verified
<1>2. CASE e.version \in Legacy /\ e.hello
  <2>1. Refreshed(e, n) = met
    BY <1>2 DEF Refreshed, met
  <2> QED
    BY <1>1, <2>1 DEF Grown, Settled, Fresh, Timed
<1>3. CASE ~ (e.version \in Legacy /\ e.hello)
  <2>1. Refreshed(e, n) = [met EXCEPT !.version = version, !.key = key,
                                      !.verified = verified]
    BY <1>1, <1>3 DEF Refreshed, met, Entry
  <2>2. (e.verified => verified) /\ (~ e.verified /\ ~ n.verified => ~ verified)
    BY <1>1
  <2> HIDE DEF version, key, verified
  <2> DEFINE f == [met EXCEPT !.version = version, !.key = key, !.verified = verified]
  <2>3. /\ f.dest = e.dest /\ f.verified = verified /\ f.hello = e.hello
        /\ f.failures = 0 /\ f.heard = e.heard /\ f.age = 0
    BY <1>1 DEF Entry
  <2> HIDE DEF f
  <2>4. Grown(e, f)
    BY <1>1, <1>3, <2>2, <2>3 DEF Grown, Settled, Timed
  <2>5. Fresh(e) /\ ~ n.verified => Fresh(f)
    BY <2>2, <2>3 DEF Fresh
  <2> QED
    BY <2>1, <2>4, <2>5 DEF f
<1> QED
  BY <1>2, <1>3

\* A mark leaves the index and the nodes, and entries grow.
GrownTo(t, u) ==
    /\ Sound(u)
    /\ u.by_dest = t.by_dest
    /\ Known(u) = Known(t)
    /\ \A id \in Known(t) : Grown(t.by_id[id], u.by_id[id])

LEMMA MarkedGrows ==
    ASSUME NEW t, Sound(t), NEW d \in Dests, NEW e,
           EntryAt(t, d) # None => e \in Entry /\ Grown(EntryAt(t, d), e)
    PROVE  GrownTo(t, Marked(t, d, e))
<1>1. Sound(Marked(t, d, e))
  BY MarkedSound DEF Grown
<1>2. Known(Marked(t, d, e)) = Known(t)
  BY MarkedKnown DEF Sound
<1>3. CASE EntryAt(t, d) = None
  BY <1>1, <1>3, GrownBack DEF Marked, GrownTo
<1>4. CASE EntryAt(t, d) # None
  <2>1. t.by_dest[d] \in Ids /\ EntryAt(t, d) = t.by_id[t.by_dest[d]]
    BY <1>4 DEF EntryAt, Sound, Table
  <2>2. /\ Marked(t, d, e).by_id = [t.by_id EXCEPT ![t.by_dest[d]] = e]
        /\ Marked(t, d, e).by_dest = t.by_dest
        /\ t.by_id \in [Ids -> Entry \cup {None}]
    BY <1>4, <2>1 DEF Marked, Sound, Table
  <2>3. \A id \in Known(t) : Grown(t.by_id[id], Marked(t, d, e).by_id[id])
    BY <1>4, <2>1, <2>2, GrownBack DEF Known
  <2> QED
    BY <1>1, <1>2, <2>2, <2>3 DEF GrownTo
<1> QED
  BY <1>3, <1>4

LEMMA MarksGrow ==
    ASSUME NEW t, Sound(t), NEW d \in Dests
    PROVE  /\ GrownTo(t, mark_seen(t, d))
           /\ GrownTo(t, mark_received_hello(t, d))
           /\ \A key \in Keys \cup {NoKey}, verified \in BOOLEAN :
                  GrownTo(t, update_sender_keys(t, d, key, verified))
<1> DEFINE e == EntryAt(t, d)
<1>1. e # None => e \in Entry /\ Seen(e) \in Entry /\ Grown(e, Seen(e))
  BY EntryAtTyped, SeenTyped, SeenGrows
<1>2. GrownTo(t, mark_seen(t, d))
  BY <1>1, MarkedGrows DEF mark_seen
<1>3. GrownTo(t, mark_received_hello(t, d))
  <2> DEFINE f == [Seen(e) EXCEPT !.hello = TRUE]
  <2>1. Seen(e) \in Entry => f \in Entry
    BY DEF Entry
  <2>2. e # None => f \in Entry /\ Grown(e, f)
    BY <1>1, <2>1, GreetedGrows, GrownOn
  <2>3. mark_received_hello(t, d) = Marked(t, d, f)
    BY DEF mark_received_hello
  <2> HIDE DEF f
  <2> QED
    BY <2>2, <2>3, MarkedGrows
<1>4. ASSUME NEW key \in Keys \cup {NoKey}, NEW verified \in BOOLEAN
      PROVE  GrownTo(t, update_sender_keys(t, d, key, verified))
  <2>1. update_sender_keys(t, d, key, verified) = Marked(t, d, Keyed(Seen(e), key, verified))
    BY DEF update_sender_keys, Keyed
  <2>2. e # None => /\ Keyed(Seen(e), key, verified) \in Entry
                    /\ Grown(e, Keyed(Seen(e), key, verified))
    BY <1>1, KeyedGrows, GrownOn
  <2> QED
    BY <2>1, <2>2, MarkedGrows
<1> QED
  BY <1>2, <1>3, <1>4

\* What one upsert may do to the others, and to the node it is told of.
UpsertedTo(t, n, u) ==
    /\ Sound(u)
    /\ \A id \in Ids :
          /\ t.by_id[id] # None /\ u.by_id[id] # None =>
                /\ Grown(t.by_id[id], u.by_id[id])
                /\ Fresh(t.by_id[id]) /\ ~ n.verified => Fresh(u.by_id[id])
          /\ t.by_id[id] # None /\ u.by_id[id] = None => ~ t.by_id[id].verified
          /\ t.by_id[id] = None /\ u.by_id[id] # None => u.by_id[id] = NewEntry(n)
    /\ \A id \in Ids, d \in Dests :
          u.by_dest[d] = id =>
             \/ t.by_dest[d] = id
             \/ t.by_id[id] # None /\ Settled(t.by_id[id]) => t.by_id[id].dest = d

LEMMA UpsertSteps ==
    ASSUME NEW t, Sound(t), NEW n \in Node
    PROVE  UpsertedTo(t, n, Upsert(t, n))
<1> DEFINE v == Unindexed(t, n)
           owner == t.by_dest[n.dest]
<1>1. /\ t.by_id \in [Ids -> Entry \cup {None}]
      /\ t.by_dest \in [Dests -> Ids \cup {None}]
      /\ n.id \in Ids /\ n.dest \in Dests /\ None \notin Ids /\ None \notin Entry
  BY CapsTyped DEF Sound, Table, Node
<1>2. Sound(v) /\ v.by_id = t.by_id /\ Sound(Upsert(t, n))
  BY UnindexedSound, UpsertSound
<1>3. \A d \in Dests : v.by_dest[d] \in {None, t.by_dest[d]}
  <2>1. CASE t.by_id[n.id] # None /\ t.by_id[n.id].dest # n.dest
    <3>1. v.by_dest = [t.by_dest EXCEPT ![t.by_id[n.id].dest] = None]
      BY <2>1 DEF Unindexed, Sound, Table
    <3> QED
      BY <1>1, <3>1
  <2>2. CASE ~ (t.by_id[n.id] # None /\ t.by_id[n.id].dest # n.dest)
    BY <2>2 DEF Unindexed
  <2> QED
    BY <2>1, <2>2
<1>4. v.by_dest \in [Dests -> Ids \cup {None}] /\ v \in Table
  BY <1>2 DEF Sound, Table
<1> HIDE DEF v
<1>5. CASE Upsert(t, n) = t \/ Upsert(t, n) = v
  <2>1. Upsert(t, n).by_id = t.by_id
    BY <1>2, <1>5
  <2>2. \A d \in Dests : Upsert(t, n).by_dest[d] \in {None, t.by_dest[d]}
    BY <1>3, <1>5
  <2> QED
    BY <1>1, <1>2, <2>1, <2>2, GrownBack DEF UpsertedTo
<1>6. CASE n.id # Self /\ ~ Refused(t, n) /\ ~ Kept(v, n) /\ Upsert(t, n) = Stored(v, n)
  <2> DEFINE o == v.by_dest[n.dest]
             w == IF Owned(v, n) THEN [v EXCEPT !.by_id[o] = None] ELSE v
             u == Stored(v, n)
  <2>1. Owned(v, n) => o \in Ids \ {n.id} /\ t.by_id[o] # None /\ ~ t.by_id[o].verified
    BY <1>1, <1>2, <1>4, <1>6 DEF Owned, Kept
  <2>2. /\ w.by_id = IF Owned(v, n) THEN [t.by_id EXCEPT ![o] = None] ELSE t.by_id
        /\ w.by_dest = v.by_dest /\ w \in Table
    <3>1. CASE Owned(v, n)
      <4>1. w = [v EXCEPT !.by_id = [t.by_id EXCEPT ![o] = None]]
        BY <1>2, <1>4, <3>1 DEF Table
      <4>2. [t.by_id EXCEPT ![o] = None] \in [Ids -> Entry \cup {None}]
        BY <1>1, <2>1, <3>1
      <4> QED
        BY <1>2, <1>4, <3>1, <4>1, <4>2 DEF Table
    <3>2. CASE ~ Owned(v, n)
      BY <1>2, <1>4, <3>2
    <3> QED
      BY <3>1, <3>2
  <2>3. u = Written(w, n)
    BY DEF Stored
  <2>4. w.by_id[n.id] = t.by_id[n.id]
    BY <1>1, <2>1, <2>2
  <2>5. /\ u.by_id = [w.by_id EXCEPT ![n.id] = IF @ = None THEN NewEntry(n)
                                               ELSE Refreshed(@, n)]
        /\ u.by_dest = [w.by_dest EXCEPT ![n.dest] = n.id]
    BY <2>2, <2>3 DEF Written, Table
  <2>6. u.by_id[n.id] = IF t.by_id[n.id] = None THEN NewEntry(n)
                        ELSE Refreshed(t.by_id[n.id], n)
    <3> HIDE DEF w, u
    <3> QED
      BY <1>1, <2>2, <2>4, <2>5 DEF Table
  <2>7. \A id \in Ids \ {n.id} : u.by_id[id] = IF Owned(v, n) /\ id = o THEN None ELSE t.by_id[id]
    <3> HIDE DEF w, u
    <3> QED
      BY <1>1, <2>1, <2>2, <2>5 DEF Table
  <2>8. \A d \in Dests : u.by_dest[d] = IF d = n.dest THEN n.id ELSE v.by_dest[d]
    <3> HIDE DEF w, u
    <3> QED
      BY <1>1, <1>4, <2>2, <2>5
  <2>9. Sound(u)
    BY <1>2, <1>6
  <2> HIDE DEF o, w, u
  <2>10. ASSUME NEW id \in Ids, t.by_id[id] # None, u.by_id[id] # None
         PROVE  /\ Grown(t.by_id[id], u.by_id[id])
                /\ Fresh(t.by_id[id]) /\ ~ n.verified => Fresh(u.by_id[id])
    <3>1. CASE id = n.id
      <4>1. t.by_id[id] \in Entry /\ u.by_id[id] = Refreshed(t.by_id[id], n)
        BY <1>1, <2>6, <2>10, <3>1
      <4> QED
        BY <4>1, RefreshedGrows
    <3>2. CASE id # n.id
      <4>1. u.by_id[id] = t.by_id[id]
        BY <2>7, <2>10, <3>2
      <4> QED
        BY <4>1, GrownBack
    <3> QED
      BY <3>1, <3>2
  <2>11. ASSUME NEW id \in Ids, t.by_id[id] # None, u.by_id[id] = None
         PROVE  ~ t.by_id[id].verified
    <3>1. id # n.id
      <4>1. NewEntry(n) \in Entry /\ \A e \in Entry : Refreshed(e, n) \in Entry
        BY NewEntryTyped, RefreshedTyped
      <4> QED
        BY <1>1, <2>6, <2>11, <4>1
    <3> QED
      BY <2>1, <2>7, <2>11, <3>1
  <2>12. ASSUME NEW id \in Ids, t.by_id[id] = None, u.by_id[id] # None
         PROVE  u.by_id[id] = NewEntry(n)
    BY <2>6, <2>7, <2>12
  <2>13. ASSUME NEW id \in Ids, NEW d \in Dests, u.by_dest[d] = id, t.by_dest[d] # id,
                t.by_id[id] # None, Settled(t.by_id[id])
         PROVE  t.by_id[id].dest = d
    <3>1. id = n.id /\ d = n.dest
      BY <1>1, <1>3, <2>8, <2>13
    <3> QED
      BY <1>6, <2>13, <3>1 DEF Refused, Settled
  <2>14. UpsertedTo(t, n, u)
    BY <2>9, <2>10, <2>11, <2>12, <2>13 DEF UpsertedTo
  <2> QED
    BY <1>6, <2>14 DEF u
<1> QED
  BY <1>5, <1>6 DEF Upsert, v

-----------------------------------------------------------------------------
(* Whom the cap takes *)

LEMMA HealthIs ==
    ASSUME NEW e \in Entry
    PROVE  /\ Health(e) \in {"Stable", "Verified", "Unknown", "Unreliable"}
           /\ HealthRank[Health(e)] \in 0 .. 3
           /\ Health(e) = "Unreliable" <=> Dead(e)
           /\ Dead(e) <=> HealthRank[Health(e)] = 3
           /\ e.verified /\ ~ Dead(e) <=> HealthRank[Health(e)] <= 1
           /\ Health(e) = "Stable" <=>
                 e.verified /\ ~ Dead(e) /\ e.heard \in 0 .. StableWindow /\ e.failures = 0
           /\ Health(e) = "Stable" <=> HealthRank[Health(e)] = 0
<1>1. e.failures \in Nat /\ UnreliableAt \in Nat /\ e.verified \in BOOLEAN
  BY ConstantsAssumption, CapsTyped DEF Entry
<1>2. CASE e.failures >= UnreliableAt
  <2>1. Health(e) = "Unreliable"
    BY <1>1, <1>2 DEF Health
  <2> QED
    BY <1>2, <2>1 DEF HealthRank, Dead
<1>3. CASE e.failures < UnreliableAt /\ ~ e.verified
  <2>1. Health(e) = "Unknown" /\ ~ Dead(e)
    BY <1>1, <1>3 DEF Health, Dead
  <2> QED
    BY <1>3, <2>1 DEF HealthRank
<1>4. CASE e.failures < UnreliableAt /\ e.verified
  <2>1. /\ Health(e) = (IF e.heard \in 0 .. StableWindow /\ e.failures = 0
                        THEN "Stable" ELSE "Verified")
        /\ ~ Dead(e)
    BY <1>1, <1>4 DEF Health, Dead
  <2> QED
    BY <1>4, <2>1 DEF HealthRank
<1> QED
  BY <1>1, <1>2, <1>3, <1>4

LEMMA SickerBefore ==
    ASSUME NEW e \in Entry, NEW f \in Entry, HealthRank[Health(e)] > HealthRank[Health(f)]
    PROVE  Before(Rank(e), Rank(f))
<1>1. HealthRank[Health(e)] \in 0 .. 3 /\ HealthRank[Health(f)] \in 0 .. 3
  BY HealthIs
<1>2. Rank(e)[1] = - HealthRank[Health(e)] /\ Rank(f)[1] = - HealthRank[Health(f)]
  BY DEF Rank
<1>3. Rank(e)[1] < Rank(f)[1]
  BY <1>1, <1>2
<1> QED
  BY <1>3 DEF Before

\* The cap changes no entry and no index but of those it takes, and takes
\* nobody while it keeps a sicker one.
EnforcedTo(t, u) ==
    /\ Sound(u)
    /\ \A id \in Ids : u.by_id[id] \in {None, t.by_id[id]}
    /\ \A d \in Dests : u.by_dest[d] \in {None, t.by_dest[d]}
    /\ Cardinality(Known(t)) >= Capacity => Cardinality(Known(u)) >= Capacity
    /\ \A id \in Known(t) \ Known(u) :
          /\ Cardinality(Known(u)) >= Capacity
          /\ \A k \in Known(u) :
                HealthRank[Health(t.by_id[k])] <= HealthRank[Health(t.by_id[id])]

LEMMA EnforcedSteps ==
    ASSUME NEW t, Sound(t), NEW u \in Enforced(t)
    PROVE  EnforcedTo(t, u)
<1> DEFINE excess == Cardinality(Known(t)) - Capacity
<1>1. /\ Capacity \in Nat /\ Cardinality(Known(t)) \in Nat /\ IsFiniteSet(Known(t))
      /\ t \in Table /\ t.by_id \in [Ids -> Entry \cup {None}] /\ Known(t) \subseteq Ids
      /\ Sound(u)
  BY KnownFinite, EnforcedSound, ConstantsAssumption DEF Sound, Table, Known
<1>2. CASE excess <= 0
  <2>1. u = t
    BY <1>2 DEF Enforced
  <2> QED
    BY <1>1, <2>1 DEF EnforcedTo
<1>3. CASE ~ (excess <= 0) /\ Capacity = 0
  <2>1. u = [t EXCEPT !.by_id = [id \in Ids |-> None],
                      !.by_dest = [d \in Dests |-> None]]
    BY <1>3 DEF Enforced
  <2>2. u.by_id = [id \in Ids |-> None] /\ u.by_dest = [d \in Dests |-> None]
    BY <1>1, <2>1 DEF Table
  <2>3. Known(u) = {}
    BY <2>2 DEF Known
  <2>4. Cardinality(Known(u)) >= Capacity
    BY <1>3, <2>3, FS_EmptySet
  <2> QED
    BY <1>1, <2>2, <2>3, <2>4 DEF EnforcedTo
<1>4. CASE ~ (excess <= 0) /\ Capacity # 0
  <2>1. PICK S \in SUBSET Known(t) :
           /\ Cardinality(S) = excess /\ u = Without(t, S)
           /\ \A r \in S, k \in Known(t) \ S :
                 ~ Before(Rank(t.by_id[k]), Rank(t.by_id[r]))
    BY <1>4 DEF Enforced
  <2>2. S \in SUBSET Ids
    BY <1>1
  <2>3. /\ \A id \in Ids : u.by_id[id] = IF id \in S THEN None ELSE t.by_id[id]
        /\ \A d \in Dests : u.by_dest[d] \in {None, t.by_dest[d]}
    BY <1>1, <2>1, <2>2, WithoutShape
  <2>4. Known(u) = Known(t) \ S
    BY <2>2, <2>3 DEF Known
  <2>5. Cardinality(Known(t) \ S) = Cardinality(Known(t)) - Cardinality(Known(t) \cap S)
    BY <1>1, FS_Difference
  <2>6. Known(t) \cap S = S
    OBVIOUS
  <2>7. Cardinality(Known(u)) >= Capacity
    <3>1. Cardinality(Known(u)) = Cardinality(Known(t)) - Cardinality(S)
      BY <2>4, <2>5, <2>6
    <3>2. Cardinality(S) = Cardinality(Known(t)) - Capacity
      BY <2>1
    <3> QED
      BY <1>1, <3>1, <3>2
  <2>8. ASSUME NEW id \in Known(t) \ Known(u), NEW k \in Known(u)
        PROVE  HealthRank[Health(t.by_id[k])] <= HealthRank[Health(t.by_id[id])]
    <3>1. id \in S /\ k \in Known(t) \ S
      BY <2>4
    <3>2. t.by_id[k] \in Entry /\ t.by_id[id] \in Entry
      BY <1>1, <3>1 DEF Known
    <3>3. ~ (HealthRank[Health(t.by_id[k])] > HealthRank[Health(t.by_id[id])])
      BY <2>1, <3>1, <3>2, SickerBefore
    <3>4. /\ HealthRank[Health(t.by_id[k])] \in 0 .. 3
          /\ HealthRank[Health(t.by_id[id])] \in 0 .. 3
      BY <3>2, HealthIs
    <3> QED
      BY <3>3, <3>4
  <2> QED
    BY <1>1, <2>3, <2>7, <2>8 DEF EnforcedTo
<1> QED
  BY <1>2, <1>3, <1>4

-----------------------------------------------------------------------------
(* A packet, from the table it found *)

Stable(e) == Health(e) = "Stable"

\* A verified node of s that t no longer has as such.
Lost(s, t, id) ==
    /\ s.by_id[id] # None /\ s.by_id[id].verified
    /\ t.by_id[id] = None \/ ~ t.by_id[id].verified

Verified(t) == {id \in Known(t) : t.by_id[id].verified}

Full(t) == Cardinality(Verified(t)) >= Capacity

Timely(t) == \A id \in Known(t) : Timed(t.by_id[id])

\* No node has moved or worsened; those that left and came back are fresh; a verified
\* one left for others that are verified, a stable one for others that do not fail; and
\* no settled one got the index of another destination.
Since(s, t) ==
    /\ Sound(s) /\ Sound(t)
    /\ Timely(s) => Timely(t)
    /\ \A id \in Ids : s.by_id[id] # None /\ t.by_id[id] # None =>
          Grown(s.by_id[id], t.by_id[id]) \/ Fresh(t.by_id[id])
    /\ \A id \in Ids : Lost(s, t, id) => Dead(s.by_id[id]) \/ Full(t)
    /\ \A id, k \in Ids :
          /\ Lost(s, t, id) /\ Stable(s.by_id[id])
          /\ s.by_id[k] # None /\ t.by_id[k] # None
          => ~ Dead(t.by_id[k])
    /\ \A id \in Ids, d \in Dests :
          /\ s.by_id[id] # None /\ t.by_id[id] # None
          /\ Settled(s.by_id[id]) /\ Settled(t.by_id[id])
          /\ t.by_dest[d] = id
          => s.by_dest[d] = id \/ s.by_id[id].dest = d

\* As long as nobody is named by others, nobody comes back.
Growing(s, t) ==
    \A id \in Ids : s.by_id[id] # None /\ t.by_id[id] # None =>
        Grown(s.by_id[id], t.by_id[id])

Unlost(s, t) == \A id \in Ids : ~ Lost(s, t, id)

LEMMA FreshOrSettled == ASSUME NEW e, Fresh(e) PROVE ~ Settled(e) /\ ~ e.verified
BY DEF Fresh, Settled

LEMMA StillWell ==
    ASSUME NEW e \in Entry, NEW f \in Entry, Grown(e, f)
    PROVE  /\ ~ Dead(e) => ~ Dead(f)
           /\ Stable(e) => Stable(f)
<1>1. UnreliableAt \in Nat \ {0} /\ StableWindow \in Nat
  BY ConstantsAssumption
<1>2. ~ Dead(e) => ~ Dead(f)
  BY <1>1 DEF Dead, Grown, Entry
<1>3. Stable(e) => Stable(f)
  <2> SUFFICES ASSUME Stable(e) PROVE Stable(f)
    OBVIOUS
  <2>1. e.verified /\ ~ Dead(e) /\ e.heard \in 0 .. StableWindow /\ e.failures = 0
    BY HealthIs DEF Stable
  <2>2. f.verified /\ ~ Dead(f) /\ f.heard \in 0 .. StableWindow /\ f.failures = 0
    BY <1>1, <1>2, <2>1 DEF Grown
  <2> QED
    BY <2>2, HealthIs DEF Stable
<1> QED
  BY <1>2, <1>3

LEMMA FreshIsAlive == ASSUME NEW e, Fresh(e) PROVE ~ Dead(e)
BY ConstantsAssumption DEF Fresh, Dead

LEMMA VerifiedFinite ==
    ASSUME NEW t
    PROVE  IsFiniteSet(Verified(t)) /\ Cardinality(Verified(t)) \in Nat
<1>1. Verified(t) \subseteq Ids
  BY DEF Verified, Known
<1> QED
  BY <1>1, FS_Subset, FS_CardinalityType, ConstantsAssumption

LEMMA FullStays ==
    ASSUME NEW t, NEW u, Verified(t) \subseteq Verified(u), Full(t)
    PROVE  Full(u)
<1>1. Cardinality(Verified(t)) <= Cardinality(Verified(u))
  BY VerifiedFinite, FS_Subset
<1> QED
  BY <1>1, VerifiedFinite, ConstantsAssumption DEF Full

LEMMA FullIsCrowded ==
    ASSUME NEW t, Full(t)
    PROVE  Cardinality(Known(t)) >= Capacity
<1>1. Cardinality(Verified(t)) <= Cardinality(Known(t))
  BY KnownFinite, FS_Subset DEF Verified
<1> QED
  BY <1>1, VerifiedFinite, KnownFinite, ConstantsAssumption DEF Full

LEMMA SinceStart ==
    ASSUME NEW s, Sound(s)
    PROVE  Since(s, s) /\ Growing(s, s) /\ Unlost(s, s)
BY GrownBack DEF Since, Growing, Unlost, Lost

LEMMA SinceMark ==
    ASSUME NEW s, NEW t, Since(s, t), Growing(s, t), NEW u, GrownTo(t, u)
    PROVE  /\ Since(s, u) /\ Growing(s, u)
           /\ Unlost(s, t) => Unlost(s, u)
<1>1. \A id \in Ids : u.by_id[id] = None <=> t.by_id[id] = None
  BY DEF GrownTo, Known
<1>2. \A id \in Ids : t.by_id[id] # None => Grown(t.by_id[id], u.by_id[id])
  BY DEF GrownTo, Known
<1>3. Growing(s, u)
  BY <1>1, <1>2, GrownOn DEF Growing
<1>4. \A id \in Ids : Lost(s, u, id) => Lost(s, t, id)
  BY <1>1, <1>2 DEF Lost, Grown
<1>5. Full(t) => Full(u)
  <2>1. Verified(t) \subseteq Verified(u)
    BY <1>1, <1>2 DEF Verified, Known, Grown
  <2> QED
    BY <2>1, FullStays
<1>6. \A id \in Ids : t.by_id[id] # None => t.by_id[id] \in Entry
  BY DEF Since, Sound, Table
<1>7. \A id \in Ids : u.by_id[id] # None => u.by_id[id] \in Entry
  BY DEF GrownTo, Sound, Table
<1>8. ASSUME NEW id \in Ids, NEW k \in Ids, Lost(s, u, id), Stable(s.by_id[id]),
             s.by_id[k] # None, u.by_id[k] # None
      PROVE  ~ Dead(u.by_id[k])
  <2>1. ~ Dead(t.by_id[k]) /\ t.by_id[k] # None
    BY <1>1, <1>4, <1>8 DEF Since
  <2> QED
    BY <1>2, <1>6, <1>7, <1>8, <2>1, StillWell
<1>9. ASSUME NEW id \in Ids, NEW d \in Dests, s.by_id[id] # None, u.by_id[id] # None,
             Settled(s.by_id[id]), Settled(u.by_id[id]), u.by_dest[d] = id
      PROVE  s.by_dest[d] = id \/ s.by_id[id].dest = d
  <2>1. t.by_id[id] # None /\ Settled(t.by_id[id]) /\ t.by_dest[d] = id
    BY <1>1, <1>9 DEF Growing, Grown, GrownTo
  <2> QED
    BY <1>9, <2>1 DEF Since
<1>10. \A id \in Ids : Lost(s, u, id) => Dead(s.by_id[id]) \/ Full(u)
  BY <1>4, <1>5 DEF Since
<1>11. Since(s, u)
  <2>1. Sound(s) /\ Sound(u)
    BY DEF Since, GrownTo
  <2>2. Timely(s) => Timely(u)
    BY <1>1, <1>2 DEF Since, Timely, Known, Grown
  <2> QED
    BY <1>3, <1>8, <1>9, <1>10, <2>1, <2>2 DEF Since, Growing
<1> QED
  BY <1>3, <1>4, <1>11 DEF Unlost

LEMMA TimelyUpsert ==
    ASSUME NEW t, NEW n \in Node, NEW u, UpsertedTo(t, n, u), Timely(t)
    PROVE  Timely(u)
<1>1. Timed(NewEntry(n))
  BY DEF Timed, NewEntry
<1> QED
  BY <1>1 DEF UpsertedTo, Timely, Known, Grown

LEMMA TimelyEnforced ==
    ASSUME NEW t, NEW u, EnforcedTo(t, u), Timely(t)
    PROVE  Timely(u)
BY DEF EnforcedTo, Timely, Known

\* The first upsert of a packet is told of its sender, and finds every node there.
LEMMA SinceSender ==
    ASSUME NEW s, NEW t, Since(s, t), Growing(s, t), Known(t) = Known(s), Unlost(s, t),
           NEW n \in Node
    PROVE  LET u == Upsert(t, n) IN Since(s, u) /\ Growing(s, u) /\ Unlost(s, u)
<1> DEFINE u == Upsert(t, n)
<1>1. UpsertedTo(t, n, u)
  BY UpsertSteps DEF Since
<1> HIDE DEF u
<1>2. \A id \in Ids : s.by_id[id] # None => t.by_id[id] # None
  BY DEF Known
<1>3. Growing(s, u)
  BY <1>1, <1>2, GrownOn DEF Growing, UpsertedTo
<1>4. Unlost(s, u)
  <2> SUFFICES ASSUME NEW id \in Ids, s.by_id[id] # None, s.by_id[id].verified
               PROVE  u.by_id[id] # None /\ u.by_id[id].verified
    BY DEF Unlost, Lost
  <2>1. t.by_id[id] # None /\ t.by_id[id].verified
    BY <1>2 DEF Unlost, Lost
  <2>2. u.by_id[id] # None
    BY <1>1, <2>1 DEF UpsertedTo
  <2> QED
    BY <1>1, <2>1, <2>2 DEF UpsertedTo, Grown
<1>5. ASSUME NEW id \in Ids, NEW d \in Dests, s.by_id[id] # None, u.by_id[id] # None,
             Settled(s.by_id[id]), Settled(u.by_id[id]), u.by_dest[d] = id
      PROVE  s.by_dest[d] = id \/ s.by_id[id].dest = d
  <2>1. t.by_id[id] # None /\ Grown(s.by_id[id], t.by_id[id])
    BY <1>2, <1>5 DEF Growing
  <2>2. Settled(t.by_id[id]) /\ t.by_id[id].dest = s.by_id[id].dest
    BY <1>5, <2>1 DEF Grown
  <2>3. t.by_dest[d] = id \/ t.by_id[id].dest = d
    BY <1>1, <1>5, <2>1, <2>2 DEF UpsertedTo
  <2> QED
    BY <1>5, <2>1, <2>2, <2>3 DEF Since
<1>6. Since(s, u)
  <2>1. Sound(s) /\ Sound(u)
    BY <1>1 DEF Since, UpsertedTo
  <2>2. Timely(s) => Timely(u)
    BY <1>1, TimelyUpsert DEF Since
  <2> QED
    BY <1>3, <1>4, <1>5, <2>1, <2>2 DEF Since, Growing, Unlost
<1> QED
  BY <1>3, <1>4, <1>6 DEF u

\* The others are named by the sender, none of them as verified.
LEMMA SinceNamed ==
    ASSUME NEW s, NEW t, Since(s, t), NEW n \in Node, ~ n.verified
    PROVE  Since(s, Upsert(t, n))
<1> DEFINE u == Upsert(t, n)
<1>1. UpsertedTo(t, n, u)
  BY UpsertSteps DEF Since
<1> HIDE DEF u
<1>2. Fresh(NewEntry(n))
  BY DEF Fresh, NewEntry
<1>3. \A id \in Ids : /\ t.by_id[id] # None => t.by_id[id] \in Entry
                      /\ u.by_id[id] # None => u.by_id[id] \in Entry
                      /\ s.by_id[id] # None => s.by_id[id] \in Entry
  BY <1>1 DEF Since, UpsertedTo, Sound, Table
<1>4. ASSUME NEW id \in Ids, s.by_id[id] # None, u.by_id[id] # None, ~ Fresh(u.by_id[id])
      PROVE  /\ t.by_id[id] # None /\ ~ Fresh(t.by_id[id])
             /\ Grown(s.by_id[id], t.by_id[id]) /\ Grown(s.by_id[id], u.by_id[id])
             /\ Grown(t.by_id[id], u.by_id[id])
  <2>1. t.by_id[id] # None
    BY <1>1, <1>2, <1>4 DEF UpsertedTo
  <2>2. Grown(t.by_id[id], u.by_id[id]) /\ ~ Fresh(t.by_id[id])
    BY <1>1, <1>4, <2>1 DEF UpsertedTo
  <2>3. Grown(s.by_id[id], t.by_id[id])
    BY <1>4, <2>1, <2>2 DEF Since
  <2> QED
    BY <2>1, <2>2, <2>3, GrownOn
<1>5. ASSUME NEW id \in Ids, Lost(s, u, id)
      PROVE  Lost(s, t, id)
  <2> SUFFICES ASSUME t.by_id[id] # None, t.by_id[id].verified
               PROVE  u.by_id[id] # None /\ u.by_id[id].verified
    BY <1>5 DEF Lost
  <2>1. u.by_id[id] # None
    BY <1>1 DEF UpsertedTo
  <2> QED
    BY <1>1, <2>1 DEF UpsertedTo, Grown
<1>6. Full(t) => Full(u)
  <2>1. \A id \in Verified(t) : id \in Verified(u)
    BY <1>1 DEF Verified, Known, UpsertedTo, Grown
  <2> QED
    BY <2>1, FullStays
<1>7. ASSUME NEW id \in Ids, NEW k \in Ids, Lost(s, u, id), Stable(s.by_id[id]),
             s.by_id[k] # None, u.by_id[k] # None
      PROVE  ~ Dead(u.by_id[k])
  <2>1. CASE Fresh(u.by_id[k])
    BY <2>1, FreshIsAlive
  <2>2. CASE ~ Fresh(u.by_id[k])
    <3>1. t.by_id[k] # None /\ Grown(t.by_id[k], u.by_id[k])
      BY <1>4, <1>7, <2>2
    <3>2. ~ Dead(t.by_id[k])
      BY <1>5, <1>7, <3>1 DEF Since
    <3> QED
      BY <1>3, <1>7, <3>1, <3>2, StillWell
  <2> QED
    BY <2>1, <2>2
<1>8. ASSUME NEW id \in Ids, NEW d \in Dests, s.by_id[id] # None, u.by_id[id] # None,
             Settled(s.by_id[id]), Settled(u.by_id[id]), u.by_dest[d] = id
      PROVE  s.by_dest[d] = id \/ s.by_id[id].dest = d
  <2>1. ~ Fresh(u.by_id[id])
    BY <1>8, FreshOrSettled
  <2>2. t.by_id[id] # None /\ Grown(s.by_id[id], t.by_id[id])
    BY <1>4, <1>8, <2>1
  <2>3. Settled(t.by_id[id]) /\ t.by_id[id].dest = s.by_id[id].dest
    BY <1>8, <2>2 DEF Grown
  <2>4. t.by_dest[d] = id \/ t.by_id[id].dest = d
    BY <1>1, <1>8, <2>2, <2>3 DEF UpsertedTo
  <2> QED
    BY <1>8, <2>2, <2>3, <2>4 DEF Since
<1>9. \A id \in Ids : Lost(s, u, id) => Dead(s.by_id[id]) \/ Full(u)
  BY <1>5, <1>6 DEF Since
<1>10. \A id \in Ids : s.by_id[id] # None /\ u.by_id[id] # None =>
          Grown(s.by_id[id], u.by_id[id]) \/ Fresh(u.by_id[id])
  BY <1>4
<1>11. Since(s, u)
  <2>1. Sound(s) /\ Sound(u)
    BY <1>1 DEF Since, UpsertedTo
  <2>2. Timely(s) => Timely(u)
    BY <1>1, TimelyUpsert DEF Since
  <2> QED
    BY <1>7, <1>8, <1>9, <1>10, <2>1, <2>2 DEF Since
<1> QED
  BY <1>11 DEF u

LEMMA SinceHarvest ==
    ASSUME NEW s, NEW t, Since(s, t), NEW ns \in Lists(Contacts, MaxContacts)
    PROVE  Since(s, Harvest(t, ns))
<1>1. \A n \in Contacts : n \in Node /\ ~ n.verified
  BY DEF Contacts
<1>2. CASE ns = <<>>
  BY <1>2 DEF Harvest
<1>3. CASE \E n \in Contacts : ns = <<n>>
  <2>1. PICK n \in Contacts : ns = <<n>>
    BY <1>3
  <2>2. Harvest(t, ns) = Upsert(t, n)
    BY <2>1 DEF Harvest
  <2> QED
    BY <1>1, <2>2, SinceNamed
<1>4. CASE \E m, n \in Contacts : ns = <<m, n>>
  <2>1. PICK m \in Contacts, n \in Contacts : ns = <<m, n>>
    BY <1>4
  <2>2. Harvest(t, ns) = Upsert(Upsert(t, m), n)
    BY <2>1 DEF Harvest
  <2>3. Since(s, Upsert(t, m))
    BY <1>1, SinceNamed
  <2> QED
    BY <1>1, <2>2, <2>3, SinceNamed
<1> QED
  BY <1>2, <1>3, <1>4 DEF Lists

\* The cap, before which nobody verified was lost, takes a verified node that does not
\* fail only when it leaves no other.
LEMMA SinceCapped ==
    ASSUME NEW s, NEW t, Since(s, t), Growing(s, t), Unlost(s, t), NEW u \in Enforced(t)
    PROVE  Since(s, u) /\ Growing(s, u)
<1>1. EnforcedTo(t, u)
  BY EnforcedSteps DEF Since
<1>2. \A id \in Ids : u.by_id[id] # None => u.by_id[id] = t.by_id[id] /\ t.by_id[id] # None
  BY <1>1 DEF EnforcedTo
<1>3. Growing(s, u)
  BY <1>2 DEF Growing
<1>4. \A id \in Ids : /\ t.by_id[id] # None => t.by_id[id] \in Entry
                      /\ s.by_id[id] # None => s.by_id[id] \in Entry
  BY DEF Since, Sound, Table
<1>5. ASSUME NEW id \in Ids, Lost(s, u, id)
      PROVE  /\ id \in Known(t) \ Known(u) /\ t.by_id[id].verified
             /\ s.by_id[id] \in Entry /\ t.by_id[id] \in Entry
             /\ Grown(s.by_id[id], t.by_id[id])
  <2>1. s.by_id[id] # None /\ t.by_id[id] # None /\ t.by_id[id].verified
    BY <1>5 DEF Lost, Unlost
  <2>2. u.by_id[id] = None
    BY <1>2, <1>5, <2>1 DEF Lost
  <2> QED
    BY <1>4, <2>1, <2>2 DEF Known, Growing
<1>6. ASSUME NEW id \in Ids, Lost(s, u, id), ~ Dead(s.by_id[id])
      PROVE  Full(u)
  <2>1. ~ Dead(t.by_id[id]) /\ HealthRank[Health(t.by_id[id])] <= 1
    BY <1>5, <1>6, StillWell, HealthIs
  <2>2. ASSUME NEW k \in Known(u) PROVE k \in Verified(u)
    <3>1. k \in Ids /\ u.by_id[k] = t.by_id[k] /\ t.by_id[k] \in Entry
      BY <1>2, <1>4, <2>2 DEF Known
    <3>2. HealthRank[Health(t.by_id[k])] <= HealthRank[Health(t.by_id[id])]
      BY <1>1, <1>5, <1>6 DEF EnforcedTo
    <3>3. HealthRank[Health(t.by_id[k])] <= 1
      BY <1>5, <1>6, <2>1, <3>1, <3>2, HealthIs
    <3> QED
      BY <3>1, <3>3, HealthIs DEF Verified
  <2>3. Verified(u) = Known(u)
    BY <2>2 DEF Verified
  <2> QED
    BY <1>1, <1>5, <1>6, <2>3 DEF EnforcedTo, Full
<1>7. ASSUME NEW id \in Ids, NEW k \in Ids, Lost(s, u, id), Stable(s.by_id[id]),
             s.by_id[k] # None, u.by_id[k] # None
      PROVE  ~ Dead(u.by_id[k])
  <2>1. HealthRank[Health(t.by_id[id])] = 0
    BY <1>5, <1>7, StillWell, HealthIs DEF Stable
  <2>2. k \in Known(u) /\ u.by_id[k] = t.by_id[k] /\ t.by_id[k] \in Entry
    BY <1>2, <1>4, <1>7 DEF Known
  <2>3. HealthRank[Health(t.by_id[k])] <= 0
    BY <1>1, <1>5, <1>7, <2>1, <2>2 DEF EnforcedTo
  <2> QED
    BY <2>2, <2>3, HealthIs
<1>8. \A id \in Ids, d \in Dests :
         /\ s.by_id[id] # None /\ u.by_id[id] # None
         /\ Settled(s.by_id[id]) /\ Settled(u.by_id[id])
         /\ u.by_dest[d] = id
         => s.by_dest[d] = id \/ s.by_id[id].dest = d
  <2>1. \A id \in Ids, d \in Dests : u.by_dest[d] = id => t.by_dest[d] = id
    BY <1>1, CapsTyped DEF EnforcedTo
  <2> QED
    BY <1>2, <2>1 DEF Since
<1>9. Since(s, u)
  <2>1. Sound(s) /\ Sound(u)
    BY <1>1 DEF Since, EnforcedTo
  <2>2. Timely(s) => Timely(u)
    BY <1>1, TimelyEnforced DEF Since
  <2> QED
    BY <1>3, <1>6, <1>7, <1>8, <2>1, <2>2 DEF Since, Growing
<1> QED
  BY <1>3, <1>9

\* What the properties say of a step from s to t.
Done(s, t) ==
    /\ \A id \in Ids, d \in Dests :
          /\ s.by_id[id] # None /\ t.by_id[id] # None
          /\ Settled(s.by_id[id]) /\ Settled(t.by_id[id])
          /\ t.by_dest[d] = id
          => s.by_dest[d] = id \/ s.by_id[id].dest = d
    /\ \A id \in Ids :
          s.by_id[id] # None /\ t.by_id[id] = None /\ s.by_id[id].verified =>
             \/ s.by_id[id].age >= EvictAge
             \/ Dead(s.by_id[id])
             \/ Cardinality(Known(t)) >= Capacity
    /\ Timely(s) => Timely(t)

\* A stable node does not leave while a dead one stays.
Spared(s, t) ==
    \A id, other \in Ids :
        /\ s.by_id[id] # None /\ Stable(s.by_id[id])
        /\ s.by_id[other] # None /\ t.by_id[other] # None /\ Dead(t.by_id[other])
        => t.by_id[id] # None

LEMMA StableIsVerified ==
    ASSUME NEW s, Sound(s), NEW id \in Ids, s.by_id[id] # None
    PROVE  Stable(s.by_id[id]) =>
              /\ s.by_id[id].verified /\ s.by_id[id].failures = 0
              /\ s.by_id[id].heard \in 0 .. StableWindow
<1>1. s.by_id[id] \in Entry
  BY DEF Sound, Table
<1> QED
  BY <1>1, HealthIs DEF Stable

LEMMA SinceDone ==
    ASSUME NEW s, NEW t, Since(s, t)
    PROVE  Done(s, t) /\ Spared(s, t)
<1>1. \A id \in Ids :
         s.by_id[id] # None /\ t.by_id[id] = None /\ s.by_id[id].verified =>
            Dead(s.by_id[id]) \/ Cardinality(Known(t)) >= Capacity
  BY FullIsCrowded DEF Since, Lost
<1>2. Done(s, t)
  BY <1>1 DEF Done, Since
<1>3. Spared(s, t)
  <2> SUFFICES ASSUME NEW id \in Ids, NEW other \in Ids,
                      s.by_id[id] # None, Stable(s.by_id[id]), s.by_id[other] # None,
                      t.by_id[other] # None, Dead(t.by_id[other]), t.by_id[id] = None
               PROVE  FALSE
    BY DEF Spared
  <2>1. Sound(s)
    BY DEF Since
  <2>2. Lost(s, t, id)
    BY <2>1, StableIsVerified DEF Lost
  <2> QED
    BY <2>2 DEF Since
<1> QED
  BY <1>2, <1>3

\* The cap at the end of a packet may also take who came back during it.
LEMMA CappedDone ==
    ASSUME NEW s, NEW t, Since(s, t), NEW u \in Enforced(t)
    PROVE  Done(s, u) /\ Spared(s, u)
<1>1. EnforcedTo(t, u)
  BY EnforcedSteps DEF Since
<1>2. \A id \in Ids : u.by_id[id] # None => u.by_id[id] = t.by_id[id] /\ t.by_id[id] # None
  BY <1>1 DEF EnforcedTo
<1>3. \A id \in Ids : /\ t.by_id[id] # None => t.by_id[id] \in Entry
                      /\ s.by_id[id] # None => s.by_id[id] \in Entry
  BY DEF Since, Sound, Table
<1>4. ASSUME NEW id \in Ids, s.by_id[id] # None, u.by_id[id] = None, s.by_id[id].verified,
             ~ Dead(s.by_id[id])
      PROVE  Cardinality(Known(u)) >= Capacity
  <2>1. CASE t.by_id[id] # None
    BY <1>1, <1>4, <2>1 DEF EnforcedTo, Known
  <2>2. CASE t.by_id[id] = None
    <3>1. Full(t)
      BY <1>4, <2>2 DEF Since, Lost
    <3> QED
      BY <1>1, <3>1, FullIsCrowded DEF EnforcedTo
  <2> QED
    BY <2>1, <2>2
<1>5. \A id \in Ids, d \in Dests :
         /\ s.by_id[id] # None /\ u.by_id[id] # None
         /\ Settled(s.by_id[id]) /\ Settled(u.by_id[id])
         /\ u.by_dest[d] = id
         => s.by_dest[d] = id \/ s.by_id[id].dest = d
  <2>1. \A id \in Ids, d \in Dests : u.by_dest[d] = id => t.by_dest[d] = id
    BY <1>1, CapsTyped DEF EnforcedTo
  <2> QED
    BY <1>2, <2>1 DEF Since
<1>6. Done(s, u)
  BY <1>1, <1>4, <1>5, TimelyEnforced DEF Done, Since
<1>7. Spared(s, u)
  <2> SUFFICES ASSUME NEW id \in Ids, NEW other \in Ids,
                      s.by_id[id] # None, Stable(s.by_id[id]), s.by_id[other] # None,
                      u.by_id[other] # None, Dead(u.by_id[other]), u.by_id[id] = None
               PROVE  FALSE
    BY DEF Spared
  <2>1. s.by_id[id].verified
    BY StableIsVerified DEF Since
  <2>2. t.by_id[other] # None /\ Dead(t.by_id[other])
    BY <1>2
  <2>3. ~ Lost(s, t, id)
    BY <2>2 DEF Since
  <2>4. t.by_id[id] # None /\ t.by_id[id].verified
    BY <2>1, <2>3 DEF Lost
  <2>5. Grown(s.by_id[id], t.by_id[id])
    BY <2>4, FreshOrSettled DEF Since
  <2>6. HealthRank[Health(t.by_id[id])] = 0
    BY <1>3, <2>4, <2>5, StillWell, HealthIs DEF Stable
  <2>7. HealthRank[Health(t.by_id[other])] <= HealthRank[Health(t.by_id[id])]
    BY <1>1, <2>4 DEF EnforcedTo, Known
  <2>8. HealthRank[Health(t.by_id[other])] = 3
    BY <1>3, <2>2, HealthIs
  <2> QED
    BY <2>6, <2>7, <2>8
<1> QED
  BY <1>6, <1>7

LEMMA IntroducedSince ==
    ASSUME NEW s, Sound(s), NEW n \in Node, NEW t \in Enforced(Introduced(s, n))
    PROVE  Since(s, t) /\ Growing(s, t)
<1> DEFINE m == update_sender_keys(s, n.dest, n.key, n.verified)
<1>1. n.dest \in Dests /\ n.key \in Keys \cup {NoKey} /\ n.verified \in BOOLEAN
  BY DEF Node
<1>2. GrownTo(s, m)
  BY <1>1, MarksGrow
<1>3. Introduced(s, n) = Upsert(m, n)
  BY DEF Introduced
<1> HIDE DEF m
<1>4. Since(s, m) /\ Growing(s, m) /\ Unlost(s, m)
  BY <1>2, SinceStart, SinceMark
<1>5. Known(m) = Known(s)
  BY <1>2 DEF GrownTo
<1>6. /\ Since(s, Upsert(m, n)) /\ Growing(s, Upsert(m, n)) /\ Unlost(s, Upsert(m, n))
  BY <1>4, <1>5, SinceSender
<1> QED
  BY <1>3, <1>6, SinceCapped

LEMMA HeardSince ==
    ASSUME NEW s, Sound(s), NEW d \in Dests, NEW key \in Keys \cup {NoKey},
           NEW verified \in BOOLEAN
    PROVE  /\ Since(s, update_sender_keys(s, d, key, verified))
           /\ Since(s, mark_seen(update_sender_keys(s, d, key, verified), d))
<1> DEFINE m == update_sender_keys(s, d, key, verified)
<1>1. GrownTo(s, m)
  BY MarksGrow
<1> HIDE DEF m
<1>2. Since(s, m) /\ Growing(s, m)
  BY <1>1, SinceStart, SinceMark
<1>3. GrownTo(m, mark_seen(m, d))
  BY <1>2, MarksGrow DEF Since
<1>4. Since(s, mark_seen(m, d))
  BY <1>2, <1>3, SinceMark
<1> QED
  BY <1>2, <1>4 DEF m

LEMMA PacketDone ==
    ASSUME Inv, NEW d \in Dests, Packet(d)
    PROVE  Done(table, table') /\ Spared(table, table')
<1>1. Sound(table)
  BY DEF Inv
<1>2. CASE Drop(d)
  <2>1. PICK key \in Keys \cup {NoKey}, verified \in BOOLEAN :
            Become(update_sender_keys(table, d, key, verified))
    BY <1>2 DEF Drop
  <2>2. Since(table, update_sender_keys(table, d, key, verified))
    BY <1>1, HeardSince
  <2>3. table' = update_sender_keys(table, d, key, verified)
    BY <2>1, <2>2, BecomeIs DEF Since, Sound
  <2> QED
    BY <2>2, <2>3, SinceDone
<1>3. CASE Hear(d)
  <2>1. PICK key \in Keys \cup {NoKey}, verified \in BOOLEAN :
            Become(mark_seen(update_sender_keys(table, d, key, verified), d))
    BY <1>3 DEF Hear
  <2>2. Since(table, mark_seen(update_sender_keys(table, d, key, verified), d))
    BY <1>1, HeardSince
  <2>3. table' = mark_seen(update_sender_keys(table, d, key, verified), d)
    BY <2>1, <2>2, BecomeIs DEF Since, Sound
  <2> QED
    BY <2>2, <2>3, SinceDone
<1>4. CASE Hello(d)
  <2>1. PICK n \in Node : \E t \in Enforced(Introduced(table, n)) : Become(mark_received_hello(t, d))
    BY <1>4 DEF Hello
  <2>2. PICK t \in Enforced(Introduced(table, n)) : Become(mark_received_hello(t, d))
    BY <2>1
  <2>3. Since(table, t) /\ Growing(table, t)
    BY <1>1, IntroducedSince
  <2>4. GrownTo(t, mark_received_hello(t, d))
    BY <2>3, MarksGrow DEF Since
  <2>5. Since(table, mark_received_hello(t, d))
    BY <2>3, <2>4, SinceMark
  <2>6. table' = mark_received_hello(t, d)
    BY <2>2, <2>5, BecomeIs DEF Since, Sound
  <2> QED
    BY <2>5, <2>6, SinceDone
<1>5. CASE Request(d)
  <2>1. PICK n \in Node : \E t \in Enforced(Introduced(table, n)) : Become(mark_seen(t, d))
    BY <1>5 DEF Request
  <2>2. PICK t \in Enforced(Introduced(table, n)) : Become(mark_seen(t, d))
    BY <2>1
  <2>3. Since(table, t) /\ Growing(table, t)
    BY <1>1, IntroducedSince
  <2>4. GrownTo(t, mark_seen(t, d))
    BY <2>3, MarksGrow DEF Since
  <2>5. Since(table, mark_seen(t, d))
    BY <2>3, <2>4, SinceMark
  <2>6. table' = mark_seen(t, d)
    BY <2>2, <2>5, BecomeIs DEF Since, Sound
  <2> QED
    BY <2>5, <2>6, SinceDone
<1>6. CASE Response(d)
  <2>1. PICK key \in Keys \cup {NoKey}, verified \in BOOLEAN,
             ns \in Lists(Contacts, MaxContacts) :
            \E u \in Enforced(Harvest(
                mark_seen(update_sender_keys(table, d, key, verified), d), ns)) : Become(u)
    BY <1>6 DEF Response
  <2> DEFINE t == mark_seen(update_sender_keys(table, d, key, verified), d)
  <2>2. Since(table, t)
    BY <1>1, HeardSince
  <2>3. PICK u \in Enforced(Harvest(t, ns)) : Become(u)
    BY <2>1
  <2> HIDE DEF t
  <2>4. Since(table, Harvest(t, ns))
    BY <2>2, SinceHarvest
  <2>5. Done(table, u) /\ Spared(table, u)
    BY <2>4, CappedDone
  <2>6. Sound(u)
    BY <2>4, EnforcedSound DEF Since
  <2>7. table' = u
    BY <2>3, <2>6, BecomeIs DEF Sound
  <2> QED
    BY <2>5, <2>7
<1>7. CASE BootstrapResponse(d)
  <2>1. PICK n \in Node, ns \in Lists(Contacts, MaxContacts) :
            \E t \in Enforced(Introduced(table, n)) :
            \E u \in Enforced(Harvest(mark_seen(t, d), ns)) : Become(u)
    BY <1>7 DEF BootstrapResponse
  <2>2. PICK t \in Enforced(Introduced(table, n)) :
            \E u \in Enforced(Harvest(mark_seen(t, d), ns)) : Become(u)
    BY <2>1
  <2>3. Since(table, t) /\ Growing(table, t)
    BY <1>1, IntroducedSince
  <2>4. GrownTo(t, mark_seen(t, d))
    BY <2>3, MarksGrow DEF Since
  <2>5. Since(table, Harvest(mark_seen(t, d), ns))
    BY <2>3, <2>4, SinceMark, SinceHarvest
  <2>6. PICK u \in Enforced(Harvest(mark_seen(t, d), ns)) : Become(u)
    BY <2>2
  <2>7. Done(table, u) /\ Spared(table, u)
    BY <2>5, CappedDone
  <2>8. Sound(u)
    BY <2>5, EnforcedSound DEF Since
  <2>9. table' = u
    BY <2>6, <2>8, BecomeIs DEF Sound
  <2> QED
    BY <2>7, <2>9
<1> QED
  BY <1>2, <1>3, <1>4, <1>5, <1>6, <1>7 DEF Packet

-----------------------------------------------------------------------------
(* Timeouts and time *)

\* A timeout changes the failures of an entry and nothing else.
LEMMA FailedIs ==
    ASSUME NEW t, Sound(t), NEW expired \in SUBSET Dests
    PROVE  /\ Failed(t, expired).by_dest = t.by_dest
           /\ \A id \in Ids :
                 /\ t.by_id[id] = None => Failed(t, expired).by_id[id] = None
                 /\ t.by_id[id] # None =>
                       /\ Failed(t, expired).by_id[id] # None
                       /\ Failed(t, expired).by_id[id].age = t.by_id[id].age
                       /\ Failed(t, expired).by_id[id].heard = t.by_id[id].heard
<1> DEFINE hits(id) == {d \in expired : t.by_dest[d] = id}
           fail(e, n) == [e EXCEPT !.failures =
                             IF @ + n < FailureCap THEN @ + n ELSE FailureCap]
           ids == [id \in Ids |-> IF t.by_id[id] = None THEN None
                                  ELSE fail(t.by_id[id], Cardinality(hits(id)))]
<1>1. \A id \in Ids : Cardinality(hits(id)) \in Nat
  <2> TAKE id \in Ids
  <2>1. IsFiniteSet(hits(id))
    BY FS_Subset, ConstantsAssumption
  <2> QED
    BY <2>1, FS_CardinalityType
<1>2. \A e \in Entry, n \in Nat :
         fail(e, n) \in Entry /\ fail(e, n).age = e.age /\ fail(e, n).heard = e.heard
  BY CapsTyped DEF Entry
<1>3. Failed(t, expired) = [t EXCEPT !.by_id = ids]
  BY DEF Failed, Sound, Table
<1> HIDE DEF hits, fail
<1>4. \A id \in Ids :
         /\ t.by_id[id] = None => ids[id] = None
         /\ t.by_id[id] # None => /\ ids[id] # None /\ ids[id].age = t.by_id[id].age
                                  /\ ids[id].heard = t.by_id[id].heard
  BY <1>1, <1>2, CapsTyped DEF Sound, Table
<1> HIDE DEF ids
<1> QED
  BY <1>3, <1>4 DEF Sound, Table

LEMMA MaintenanceDone ==
    ASSUME Inv, Maintenance
    PROVE  /\ Done(table, table')
           /\ Timely(table) /\ EvictAge > StableWindow => Spared(table, table')
<1>1. PICK expired \in SUBSET pending_reqs : Become(Evicted(Failed(table, expired)))
  BY DEF Maintenance
<1> DEFINE f == Failed(table, expired)
           gone == {id \in Known(f) : /\ f.by_id[id].failures >= MaxFailures
                                      /\ f.by_id[id].age >= EvictAge}
<1>2. Sound(table) /\ Sound(f) /\ gone \subseteq Ids
  BY FailedSound DEF Inv, Known
<1>3. Sound(Evicted(f)) /\ Evicted(f) = Without(f, gone)
  BY <1>2, WithoutSound DEF Evicted
<1>4. table' = Without(f, gone)
  BY <1>1, <1>3, BecomeIs DEF Sound
<1>5. /\ f.by_dest = table.by_dest
      /\ \A id \in Ids :
            /\ table.by_id[id] = None => f.by_id[id] = None
            /\ table.by_id[id] # None => /\ f.by_id[id] # None
                                         /\ f.by_id[id].age = table.by_id[id].age
                                         /\ f.by_id[id].heard = table.by_id[id].heard
  BY <1>2, FailedIs DEF Inv
<1>6. \A id \in gone : f.by_id[id].age >= EvictAge /\ f.by_id[id] # None
  BY DEF Known
<1> HIDE DEF f, gone
<1>7. /\ \A id \in Ids : table'.by_id[id] = IF id \in gone THEN None ELSE f.by_id[id]
      /\ \A d \in Dests : table'.by_dest[d] \in {None, table.by_dest[d]}
  BY <1>2, <1>4, <1>5, WithoutShape DEF Sound
<1>8. Done(table, table')
  <2>1. \A id \in Ids, d \in Dests : table'.by_dest[d] = id => table.by_dest[d] = id
    BY <1>7, CapsTyped
  <2>2. \A id \in Ids :
           table.by_id[id] # None /\ table'.by_id[id] = None => table.by_id[id].age >= EvictAge
    BY <1>5, <1>6, <1>7
  <2>3. Timely(table) => Timely(table')
    BY <1>5, <1>7 DEF Timely, Known, Timed
  <2> QED
    BY <2>1, <2>2, <2>3 DEF Done
<1>9. ASSUME Timely(table), EvictAge > StableWindow
      PROVE  Spared(table, table')
  <2> SUFFICES ASSUME NEW id \in Ids, table.by_id[id] # None, Stable(table.by_id[id]),
                      id \in gone
               PROVE  FALSE
    BY <1>5, <1>7 DEF Spared
  <2>1. table.by_id[id] \in Entry /\ table.by_id[id].heard \in 0 .. StableWindow
    BY <1>2, StableIsVerified DEF Sound, Table
  <2>2. table.by_id[id].age <= table.by_id[id].heard /\ table.by_id[id].age \in Nat
    BY <1>9, <2>1, CapsTyped DEF Timely, Known, Timed, Entry
  <2>3. table.by_id[id].age >= EvictAge
    BY <1>5, <1>6
  <2> QED
    BY <1>9, <2>1, <2>2, <2>3, ConstantsAssumption
<1> QED
  BY <1>8, <1>9

LEMMA ClockTickDone ==
    ASSUME Inv, ClockTick
    PROVE  Done(table, table') /\ Spared(table, table')
<1> DEFINE aged(e) == [e EXCEPT !.age = Older(@), !.heard = Older(@)]
<1>1. /\ by_id \in [Ids -> Entry \cup {None}] /\ None \notin Entry
      /\ table.by_id = by_id /\ table.by_dest = by_dest
      /\ table'.by_id = by_id' /\ table'.by_dest = by_dest
  BY CapsTyped DEF Inv, Sound, Table, table, ClockTick
<1>2. \A e \in Entry : aged(e) \in Entry /\ (Timed(e) => Timed(aged(e)))
  <2> SUFFICES ASSUME NEW e \in Entry PROVE aged(e) \in Entry /\ (Timed(e) => Timed(aged(e)))
    OBVIOUS
  <2>1. /\ \A a \in 0 .. OldAge : Older(a) \in 0 .. OldAge
        /\ \A a \in -1 .. OldAge : Older(a) \in -1 .. OldAge
        /\ Older(-1) = -1
        /\ \A a, b \in 0 .. OldAge : a <= b => Older(a) <= Older(b)
    BY CapsTyped DEF Older
  <2>2. aged(e) \in Entry /\ aged(e).age = Older(e.age) /\ aged(e).heard = Older(e.heard)
    BY <2>1 DEF Entry
  <2>3. e.age \in 0 .. OldAge /\ (e.heard = -1 \/ e.heard \in 0 .. OldAge)
    BY CapsTyped DEF Entry
  <2> HIDE DEF aged
  <2> QED
    BY <2>1, <2>2, <2>3 DEF Timed
<1> HIDE DEF aged
<1>3. by_id' = [id \in Ids |-> IF by_id[id] = None THEN None ELSE aged(by_id[id])]
  BY DEF ClockTick, aged
<1>4. \A id \in Ids : by_id'[id] = None <=> by_id[id] = None
  BY <1>1, <1>2, <1>3
<1>5. Timely(table) => Timely(table')
  BY <1>1, <1>2, <1>3, <1>4 DEF Timely, Known
<1> QED
  BY <1>1, <1>4, <1>5 DEF Done, Spared

LEMMA SendRequestDone ==
    ASSUME Inv, NEW id \in Ids, SendRequest(id)
    PROVE  Done(table, table') /\ Spared(table, table')
<1>1. table' = table /\ Sound(table)
  BY DEF SendRequest, table, Inv
<1> QED
  BY <1>1, SinceStart, SinceDone

LEMMA NextDone ==
    ASSUME Inv, Next
    PROVE  /\ Done(table, table')
           /\ Timely(table) /\ EvictAge > StableWindow => Spared(table, table')
BY PacketDone, MaintenanceDone, ClockTickDone, SendRequestDone DEF Next

-----------------------------------------------------------------------------
(* Who stays in the table, and where *)

\* Neither a hello sent from elsewhere nor what third parties say brings the
\* index of another destination to a node that is verified, or legacy and greeted.
THEOREM SettledStay == Spec => SettledPeersStay
<1> DEFINE A == \A id \in Ids, d \in Dests :
                   /\ by_id[id] # None /\ by_id'[id] # None
                   /\ Settled(by_id[id]) /\ Settled(by_id'[id])
                   /\ by_dest'[d] = id
                   => by_dest[d] = id \/ by_id[id].dest = d
<1>1. Inv /\ [Next]_vars => [A]_vars
  <2>1. Inv /\ Next => A
    BY NextDone DEF Done, table
  <2> HIDE DEF A
  <2> QED
    BY <2>1
<1> QED
  BY <1>1, Invariance, PTL DEF Spec, SettledPeersStay

\* A verified node is never displaced by another that claims its destination: it goes
\* with age, with failures, or for the cap, however many nodes one packet brings.
THEOREM VerifiedStay == Spec => VerifiedOwnerStays
<1> DEFINE A == \A id \in Ids :
                   by_id[id] # None /\ by_id'[id] = None /\ by_id[id].verified
                   => \/ by_id[id].age >= EvictAge
                      \/ Health(by_id[id]) = "Unreliable"
                      \/ Cardinality(Known(table')) >= Capacity
<1>1. Inv /\ [Next]_vars => [A]_vars
  <2>1. Inv /\ Next => A
    <3> SUFFICES ASSUME Inv, Next PROVE A
      OBVIOUS
    <3>1. Done(table, table')
      BY NextDone
    <3>2. \A id \in Ids : by_id[id] # None => by_id[id] \in Entry
      BY DEF Inv, Sound, Table, table
    <3>3. table.by_id = by_id /\ table'.by_id = by_id'
      BY DEF table
    <3>4. \A id \in Ids : by_id[id] # None /\ Dead(by_id[id]) => Health(by_id[id]) = "Unreliable"
      BY <3>2, HealthIs
    <3> QED
      BY <3>1, <3>3, <3>4 DEF Done
  <2> HIDE DEF A
  <2> QED
    BY <2>1
<1> QED
  BY <1>1, Invariance, PTL DEF Spec, VerifiedOwnerStays

LEMMA TimelyHarvest ==
    ASSUME NEW t, Sound(t), Timely(t), NEW S \in SUBSET Node, NEW most \in Nat,
           NEW ns \in Lists(S, most)
    PROVE  Timely(Harvest(t, ns))
<1>1. CASE ns = <<>>
  BY <1>1 DEF Harvest
<1>2. CASE \E n \in S : ns = <<n>>
  <2>1. PICK n \in S : ns = <<n>>
    BY <1>2
  <2>2. Harvest(t, ns) = Upsert(t, n)
    BY <2>1 DEF Harvest
  <2> QED
    BY <2>2, UpsertSteps, TimelyUpsert
<1>3. CASE \E m, n \in S : ns = <<m, n>>
  <2>1. PICK m \in S, n \in S : ns = <<m, n>>
    BY <1>3
  <2>2. Harvest(t, ns) = Upsert(Upsert(t, m), n)
    BY <2>1 DEF Harvest
  <2>3. Sound(Upsert(t, m)) /\ Timely(Upsert(t, m))
    BY UpsertSteps, TimelyUpsert, UpsertSound
  <2> QED
    BY <2>2, <2>3, UpsertSteps, TimelyUpsert
<1> QED
  BY <1>1, <1>2, <1>3 DEF Lists

LEMMA InitTimely ==
    ASSUME Init
    PROVE  Timely(table)
<1>1. PICK ns \in Lists(Node, MaxSaved) : \E t \in Enforced(Harvest(Empty, ns)) :
          by_id = t.by_id /\ by_dest = t.by_dest /\ moved = t.moved
  BY DEF Init
<1>2. PICK t \in Enforced(Harvest(Empty, ns)) : by_id = t.by_id
  BY <1>1
<1>3. Sound(Empty) /\ Timely(Empty)
  BY CapsTyped DEF Empty, Table, Sound, Agrees, Timely, Known
<1>4. Sound(Harvest(Empty, ns)) /\ Timely(Harvest(Empty, ns))
  BY <1>3, HarvestSound, TimelyHarvest, ListsTyped
<1>5. Timely(t)
  BY <1>4, EnforcedSteps, TimelyEnforced
<1> QED
  BY <1>2, <1>5 DEF Timely, Known, table

\* The code keeps nodes for a day and calls stable who was heard in ten minutes.  Then
\* no packet and no maintenance drops a stable node and keeps one that fails.
THEOREM StableOutlive ==
    ASSUME EvictAge > StableWindow
    PROVE  Spec => StablePeersOutliveDead
<1> DEFINE A == \A id, other \in Ids :
                   /\ by_id[id] # None /\ Health(by_id[id]) = "Stable"
                   /\ by_id[other] # None /\ by_id'[other] # None
                   /\ Health(by_id'[other]) = "Unreliable"
                   => by_id'[id] # None
           T == Timely(table)
<1>1. Init => T
  BY InitTimely
<1>2. Inv /\ T /\ [Next]_vars => T'
  <2>1. Inv /\ T /\ Next => T'
    BY NextDone DEF Done
  <2>2. T /\ UNCHANGED vars => T'
    BY DEF vars, table, Timely, Known
  <2> HIDE DEF T
  <2> QED
    BY <2>1, <2>2
<1>3. Inv /\ Inv' /\ T /\ [Next]_vars => [A]_vars
  <2>1. Inv /\ Inv' /\ T /\ Next => A
    <3> SUFFICES ASSUME Inv, Inv', T, Next PROVE A
      OBVIOUS
    <3>1. Spared(table, table')
      BY NextDone
    <3>2. table.by_id = by_id /\ table'.by_id = by_id'
      BY DEF table
    <3>3. \A id \in Ids : by_id'[id] # None => by_id'[id] \in Entry
      BY <3>2 DEF Inv, Sound, Table
    <3>4. \A id \in Ids : by_id'[id] # None /\ Health(by_id'[id]) = "Unreliable" => Dead(by_id'[id])
      BY <3>3, HealthIs
    <3> QED
      BY <3>1, <3>2, <3>4 DEF Spared, Stable
  <2> HIDE DEF A, T
  <2> QED
    BY <2>1
<1> HIDE DEF A, T
<1>4. Spec => [][A]_vars
  BY <1>1, <1>2, <1>3, Invariance, PTL DEF Spec
<1> QED
  BY <1>4 DEF StablePeersOutliveDead, A
=============================================================================
