------------------------------ MODULE NodesFile ------------------------------
(***************************************************************************)
(* The seed pool of the KAD service on disk, nodes.dat, from the start of  *)
(* the program (src/src/app.rs) through the bootstrap exchange             *)
(* (src/src/kad/bootstrap.rs) to the service and its reconnects, with a    *)
(* kill at any point.  Each write of the file is a write of nodes.tmp and  *)
(* a rename (src/src/nodes/imule.rs).                                      *)
(*                                                                         *)
(* A pool gives each node None, "plain" or "verified".  Keys, versions and *)
(* ids are merged like the verified mark, so that it stands for them.      *)
(*                                                                         *)
(* A definition marked "Slip" is a mistaken form of the one after it.      *)
(***************************************************************************)
EXTENDS Integers, FiniteSets

CONSTANTS
    Nodes,
    Seeds,      \* the nodes of nodes.initseed.dat and nodes.fallback.dat
    None, Torn, \* no file or no entry; what a cut write leaves
    Malformed,  \* a file that does not parse
    Small,      \* a pool below this size is seeded again, 50
    MaxSaved,   \* how many nodes the start writes
    MaxPersist  \* max_persist_nodes

Quality == {"plain", "verified"}
Pools == [Nodes -> Quality \cup {None}]

\* What the constants may be; KadServices assumes it.
NodesFileAssumption ==
    /\ IsFiniteSet(Nodes)
    /\ None \notin Quality /\ {None, Torn, Malformed} \cap Pools = {}
    /\ Seeds \subseteq Nodes
    /\ {Small, MaxSaved, MaxPersist} \subseteq Nat \ {0}
    /\ Seeds # {}

VARIABLES
    nodes_dat,  \* the file: None, Malformed or a pool
    nodes_tmp,  \* the file it is written to first
    pc,         \* what the program does
    pool,       \* in memory: the loaded nodes, then the routing table
    discovered  \* what the bootstrap learned

fileVars == <<nodes_dat, nodes_tmp, pc, pool, discovered>>

Nobody == [n \in Nodes |-> None]
SeedPool == [n \in Nodes |-> IF n \in Seeds THEN "plain" ELSE None]

Present(p) == {n \in Nodes : p[n] # None}

Init ==
    /\ nodes_dat = None
    /\ nodes_tmp = None
    /\ pc = "stopped"
    /\ pool = Nobody
    /\ discovered = Nobody

-----------------------------------------------------------------------------
(* Merging and truncating. *)

\* Nodes of p, improved and completed by those of q.
Merged(p, q) ==
    [n \in Nodes |-> IF "verified" \in {p[n], q[n]} THEN "verified"
                     ELSE IF p[n] # None THEN p[n] ELSE q[n]]

\* The seeds complete a pool and improve none.
Reseeded(p) == [n \in Nodes |-> IF p[n] # None THEN p[n] ELSE SeedPool[n]]

Better(p, a, b) == p[a] = "verified" \/ p[b] = "plain"

\* The pools that may stay when the list is sorted and cut.
Cut(p, max) ==
    IF Cardinality(Present(p)) <= max THEN {p}
    ELSE {[n \in Nodes |-> IF n \in K THEN p[n] ELSE None] :
             K \in {L \in SUBSET Present(p) :
                       /\ Cardinality(L) = max
                       /\ \A a \in L, b \in Present(p) \ L : Better(p, a, b)}}

\* What can be read from the file: nothing when it is missing or malformed.
Readable == IF nodes_dat \in Pools THEN nodes_dat ELSE Nobody

-----------------------------------------------------------------------------
(* Writing: nodes.tmp, then the rename.  A failure of either is logged and *)
(* the program goes on.                                                    *)

\* Where the program is after each kind of write, and where a failure leads.
Follows(write) ==
    CASE write = "reseed"          -> "bootstrap"
      [] write = "download"        -> "parse"
      [] write = "refresh"         -> "service"
      [] write = "persist"         -> "service"
      [] write = "lost"            -> "reconnect"

FailureOf(write) == IF write = "download" THEN "bootstrap" ELSE Follows(write)

\* The content is in nodes.tmp, or the write fails or is cut in it.
Store(content, write) ==
    /\ \/ nodes_tmp' = content /\ pc' = write
       \/ nodes_tmp' = Torn /\ pc' = FailureOf(write)
    /\ UNCHANGED nodes_dat

\* persist_nodes_dat_v2 renames the file it wrote.
Rename(write) ==
    /\ pc = write
    /\ \/ nodes_dat' = nodes_tmp /\ nodes_tmp' = None /\ pc' = Follows(write)
       \/ UNCHANGED <<nodes_dat, nodes_tmp>> /\ pc' = FailureOf(write)
    /\ UNCHANGED <<pool, discovered>>

\* Somebody kills the program, it fails, or its runtime is over.
Stop ==
    /\ pc # "stopped"
    /\ pc' = "stopped"
    /\ pool' = Nobody
    /\ discovered' = Nobody
    /\ UNCHANGED <<nodes_dat, nodes_tmp>>

-----------------------------------------------------------------------------
(* The start. *)

\* nodes.dat is there and large enough.
StartPrimary ==
    /\ pc = "stopped"
    /\ nodes_dat \in Pools
    /\ Cardinality(Present(nodes_dat)) >= Small
    /\ pool' = nodes_dat
    /\ pc' = "bootstrap"
    /\ UNCHANGED <<nodes_dat, nodes_tmp, discovered>>

\* nodes.dat has become too small: the seeds are merged into it, and the
\* result is written when it is large enough.
StartReseeded ==
    /\ pc = "stopped"
    /\ nodes_dat \in Pools
    /\ Cardinality(Present(nodes_dat)) < Small
    /\ \E cut \in Cut(Reseeded(nodes_dat), MaxSaved) :
        /\ pool' = cut
        /\ IF Cardinality(Present(cut)) >= Small
           THEN Store(cut, "reseed")
           ELSE pc' = "bootstrap" /\ UNCHANGED <<nodes_dat, nodes_tmp>>
    /\ UNCHANGED discovered

\* There is no nodes.dat: the seeds are loaded and try_download_nodes2_dat
\* may write what the server answers before it parses it.
StartSeeded ==
    /\ pc = "stopped"
    /\ nodes_dat = None
    /\ pool' = SeedPool
    /\ \/ pc' = "bootstrap" /\ UNCHANGED <<nodes_dat, nodes_tmp>>
       \/ Store(Malformed, "download")
       \/ Store([n \in Nodes |-> "plain"], "download")
    /\ UNCHANGED discovered

\* A nodes.dat that does not parse keeps the program from starting; somebody
\* removes it.
RemoveUnreadable ==
    /\ pc = "stopped"
    /\ nodes_dat \in {Malformed, Torn}
    /\ nodes_dat' = None
    /\ UNCHANGED <<nodes_tmp, pc, pool, discovered>>

ParseDownload ==
    /\ pc = "parse"
    /\ pool' = IF nodes_dat \in Pools THEN nodes_dat ELSE pool
    /\ pc' = "bootstrap"
    /\ UNCHANGED <<nodes_dat, nodes_tmp, discovered>>

-----------------------------------------------------------------------------
(* The bootstrap exchange. *)

\* A HELLO_REQ or HELLO_RES of n replaces what was known of it; quality says
\* whether it came with our key.
Hello(n, quality) ==
    /\ pc = "bootstrap"
    /\ discovered' = [discovered EXCEPT ![n] = quality]
    /\ UNCHANGED <<nodes_dat, nodes_tmp, pc, pool>>

\* So does a BOOTSTRAP_RES, and the contacts it lists are added where they are
\* unknown.
BootstrapRes(n, quality, contacts) ==
    /\ pc = "bootstrap"
    /\ discovered' =
         [m \in Nodes |-> IF m = n THEN quality
                          ELSE IF m \in contacts /\ discovered[m] = None THEN "plain"
                          ELSE discovered[m]]
    /\ UNCHANGED <<nodes_dat, nodes_tmp, pc, pool>>

\* The time for it is over: what is known is written and seeds the service.
EndBootstrap ==
    /\ pc = "bootstrap"
    /\ discovered' = Nobody
    /\ \E cut \in Cut(Merged(pool, discovered), MaxSaved) :
        /\ pool' = cut
        /\ Store(cut, "refresh")

-----------------------------------------------------------------------------
(* The service. *)

\* The routing table learns and evicts nodes.
TableChanges(n, quality) ==
    /\ pc = "service"
    /\ pool[n] = "verified" => quality # "plain"
    /\ pool' = [pool EXCEPT ![n] = quality]
    /\ UNCHANGED <<nodes_dat, nodes_tmp, pc, discovered>>

\* Slip: what the file holds is not read first.
SnapshotAlone(snapshot) == snapshot

\* What persist_snapshot makes of a snapshot of the table.
WithFile(snapshot) == Merged(Readable, snapshot)

\* The persist interval fires.
PersistSnapshot ==
    /\ pc = "service"
    /\ \E snapshot \in Cut(pool, MaxPersist) :
       \E cut \in Cut(WithFile(snapshot), MaxPersist) : Store(cut, "persist")
    /\ UNCHANGED <<pool, discovered>>

\* A recoverable error of the socket: the snapshot is written as it is.
LoseSocket ==
    /\ pc = "service"
    /\ \E snapshot \in Cut(pool, MaxPersist) : Store(snapshot, "lost")
    /\ UNCHANGED <<pool, discovered>>

\* create_kad_socket succeeds; when it fails the program ends.
Reconnect ==
    /\ pc = "reconnect"
    /\ pc' = "service"
    /\ UNCHANGED <<nodes_dat, nodes_tmp, pool, discovered>>

Next ==
    \/ StartPrimary
    \/ StartReseeded
    \/ StartSeeded
    \/ RemoveUnreadable
    \/ ParseDownload
    \/ \E n \in Nodes, quality \in Quality : Hello(n, quality)
    \/ \E n \in Nodes, quality \in Quality, contacts \in SUBSET Nodes :
          BootstrapRes(n, quality, contacts)
    \/ EndBootstrap
    \/ \E n \in Nodes, quality \in Quality \cup {None} : TableChanges(n, quality)
    \/ PersistSnapshot
    \/ LoseSocket
    \/ Reconnect
    \/ \E write \in {"reseed", "download", "refresh", "persist", "lost"} : Rename(write)
    \/ Stop

Spec == Init /\ [][Next]_fileVars

-----------------------------------------------------------------------------
(* Properties. *)

\* What the next list keeps of the last one, n: the node, or nothing when it is
\* full of nodes at least as good.
Keeps(n) ==
    \/ nodes_dat'[n] \in {nodes_dat[n], "verified"}
    \/ /\ nodes_dat'[n] = None
       /\ Cardinality(Present(nodes_dat')) \in {MaxSaved, MaxPersist}
       /\ \A m \in Present(nodes_dat') : nodes_dat'[m] = "verified" \/ nodes_dat[n] = "plain"

\* Whatever is killed or fails in a write, the next start finds a file it can
\* read, unless the server sent one that does not parse; and from one file to
\* the next, a node leaves it, or the file forgets that it was verified, only for
\* a full list of nodes at least as good, or when the socket was lost.
PoolIsKept ==
    [][/\ nodes_dat' \in Pools \cup {None, Malformed}
       /\ pc # "lost" /\ nodes_dat \in Pools =>
             \A n \in Present(nodes_dat) : Keeps(n)]_fileVars

\* The service merges into the file "to avoid losing seed nodes after an
\* eviction cycle": a list that is not full never loses a node.
SeedsOutliveEviction ==
    [][(pc \in {"persist", "lost"}) /\ nodes_dat \in Pools =>
          \A n \in Present(nodes_dat) : Keeps(n)]_fileVars
=============================================================================
