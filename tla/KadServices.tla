---------------------------- MODULE KadServices -----------------------------
(***************************************************************************)
(* The parts of the KAD side that keep state of their own, with one        *)
(* instance each.  They share no variable, so a behaviour runs one of      *)
(* them, part, and leaves the others as they begin: every state and every  *)
(* step of each part is there, and no product of unrelated parts.          *)
(***************************************************************************)
EXTENDS Integers

CONSTANTS
    None, Torn, Malformed, NotYet,
    Keywords, Files, Peers,
    \* cache
    RequireInterest, MaxKeywords, MaxPerKeyword, MaxTotal, InterestTTL, ResultsTTL,
    \* stores
    SourceIds, Me, StoreMaxKeywords, StoreMaxTotal, StoreTTL,
    MaxFiles, MaxPerFile, MaxSources,
    \* publishing
    JobKeywords, JobFiles, JobPeers, SourceFiles,
    ActionBatch, ActionEvery, JobTTL, MaxProbes, MaxOpen,
    \* flood
    FloodSources, Opcodes, Limit, FloodWindow, MaxFloodSources, EntryTTL, CleanupEvery,
    \* shaper
    Classes, Second, GlobalInterval, PeerInterval, GlobalPerSec, PeerPerSec,
    GlobalFloor, PeerFloor, StateTTL, StateMax,
    \* nodes
    Nodes, Seeds, Small, MaxSaved, MaxPersist,
    \* datagrams
    Sizes, MaxSize, MaxWire, MaxSent,
    \* greetings
    MinInterval, GreetBatch, MaxFailures, MaxHellos

VARIABLES
    part,
    hits, interest, hits_total,                              \* cache
    store, store_total, sources,                             \* stores
    keyword_jobs, jobs_tracked, jobs_net, probes, acks,      \* publishing
    tracked_in, last_cleanup, admitted, refused,             \* flood
    window, global_sent, peer_sent, last_global, last_peer, sends, class_sends, \* shaper
    nodes_dat, nodes_tmp, pc, pool, discovered,              \* nodes
    wire, reader, returned, sent_no, returned_no, junk, misread, cut, \* datagrams
    greeted, hellos, quiet, strayed, rushed                  \* greetings

Cache == INSTANCE KeywordCache

Stores == INSTANCE KadStores WITH Nodes <- SourceIds

Publishing == INSTANCE KadPublishing WITH
    Keywords <- JobKeywords, Files <- JobFiles, Peers <- JobPeers,
    Batch <- ActionBatch, MaxTracked <- MaxOpen,
    tracked <- jobs_tracked, net <- jobs_net

Flood == INSTANCE FloodLimiter WITH
    Sources <- FloodSources, Window <- FloodWindow, MaxSources <- MaxFloodSources

Shaper == INSTANCE OutboundShaper

NodesDat == INSTANCE NodesFile

Datagrams == INSTANCE SamDatagram

Greetings == INSTANCE KadGreetings WITH
    Batch <- GreetBatch, MaxTracked <- MaxHellos, table <- greeted, tracked <- hellos

ASSUME InstancesAssumption ==
    /\ Cache!CacheAssumption /\ Stores!StoresAssumption
    /\ Publishing!PublishingAssumption /\ Flood!FloodAssumption
    /\ Shaper!ShaperAssumption /\ NodesDat!NodesFileAssumption
    /\ Datagrams!DatagramAssumption /\ Greetings!GreetingsAssumption

cache      == <<hits, interest, hits_total>>
stores     == <<store, store_total, sources>>
publishing == <<keyword_jobs, jobs_tracked, jobs_net, probes, acks>>
flood      == <<tracked_in, last_cleanup, admitted, refused>>
shaper     == <<window, global_sent, peer_sent, last_global, last_peer, sends, class_sends>>
nodes      == <<nodes_dat, nodes_tmp, pc, pool, discovered>>
datagrams  == <<wire, reader, returned, sent_no, returned_no, junk, misread, cut>>
greetings  == <<greeted, hellos, quiet, strayed, rushed>>
vars == <<part, cache, stores, publishing, flood, shaper, nodes, datagrams, greetings>>

Init ==
    /\ part \in {"cache", "stores", "publishing", "flood", "shaper", "nodes",
                 "datagrams", "greetings"}
    /\ Cache!Init
    /\ Stores!Init
    /\ Publishing!Init
    /\ Flood!Init
    /\ Shaper!Init
    /\ NodesDat!Init
    /\ Datagrams!Init
    /\ Greetings!Init
    /\ part # "greetings" => greeted = [p \in Peers |-> None]

Next ==
    /\ part' = part
    /\ IF part = "cache" THEN Cache!Next ELSE UNCHANGED cache
    /\ IF part = "stores" THEN Stores!Next ELSE UNCHANGED stores
    /\ IF part = "publishing" THEN Publishing!Next ELSE UNCHANGED publishing
    /\ IF part = "flood" THEN Flood!Next ELSE UNCHANGED flood
    /\ IF part = "shaper" THEN Shaper!Next ELSE UNCHANGED shaper
    /\ IF part = "nodes" THEN NodesDat!Next ELSE UNCHANGED nodes
    /\ IF part = "datagrams" THEN Datagrams!Next ELSE UNCHANGED datagrams
    /\ IF part = "greetings" THEN Greetings!Next ELSE UNCHANGED greetings

Spec == Init /\ [][Next]_vars

-----------------------------------------------------------------------------
(* The properties of the parts, each stated where its part is modelled. *)

\* keyword_hits_total is exact and the caps of the keyword cache hold.
CacheWithinCaps == Cache!CacheWithinCaps

\* The caps of the keyword store and of the source store hold together.
StoresWithinCaps == Stores!StoresWithinCaps

\* Sources of others go before our own.
LocalSourceOutlives == Stores!LocalSourceOutlives

\* A file does not lose its acknowledgements when its publish is over.
AckCoverageKeeps == Publishing!AckCoverageKeeps

\* Peers get at most two windows' worth of requests into a window.
FloodIsLimited == Flood!FloodIsLimited

\* Classes send at most two windows' worth in a second, and a peer's packets
\* are a gap apart.
RateIsKept == Shaper!RateIsKept

\* nodes.dat stays readable and loses nodes only to better ones.
PoolIsKept == NodesDat!PoolIsKept

\* Datagrams come in order and whole until recv is dropped within a frame, and
\* whole until bytes of a payload read as a header.
DatagramsAreWhole == Datagrams!DatagramsAreWhole

\* Peers are not greeted again too soon, whoever greets them.
GreetingsArePaced == Greetings!GreetingsArePaced
=============================================================================
