# Verification of rust-mule

TLA+ modules, TLC runs and TLAPS proofs about rust-mule, the I2P-only client
for the iMule network in this repository (about 31,000 lines of Rust under
`src/src`). Paths below are relative to `src/src`. Run the tools in this
directory: `tlc -config X.cfg M` checks a run, `tlapm M.tla` a proof module.
`PROJECT.json` lists runs, proofs, hazards and, definition by definition, the
lines each one models.

## 1. The system

rust-mule is a KAD node and a downloader in one process. It talks UDP-like
datagrams (KAD) and streams (file blocks) through an I2P router's SAM bridge, and
is driven through a local HTTP API. Its parts are tokio tasks that send each other
commands over bounded channels, each with a oneshot for the reply.

| Component | State | Operations | What makes it correct |
|---|---|---|---|
| Download actor, `download/service.rs` | map part number -> metadata, leases, cooldown; known-file keys | create, pause, resume, cancel, delete, reserve, received, failed, ingest, peer disconnected, tick, finalize, recover | every byte is missing, leased or received, through failures and restarts; finished files are delivered |
| Ranges, end of `download/service.rs` | vectors `missing_ranges`, `inflight_ranges` | merge, subtract, carve, give back | sorted, disjoint, no byte lost or counted twice |
| Part store, `download/store.rs` | `NNN.part`, `NNN.part.met`, `.bak`, `.tmp`, `known.met` | save, load with fallback, scan, allocate a number, append to known.met | one loadable copy at every instant; no number in use is handed out |
| Transfer wire, `download/protocol.rs`, `download/transfer.rs` | none | encode, decode, request a block | pure conversion and one exchange |
| Transfer pump, `app.rs` 687-879 | time of the last search of each file | every 2 s: list, sources, reserve, fetch, ingest or fail | what it reserves is ingested, failed or left to the deadline |
| Accept loop and SAM session, `app.rs` 914-1190 | session owner, semaphore | accept, serve a block, re-establish the session | never more streams than permits; a lost session is replaced |
| KAD service loop, `kad/service.rs`, `kad/service/inbound.rs` | all the KAD state below | command, inbound packet, half a dozen timers | no request answered twice, no state left behind by a lost answer |
| Routing table, `kad/routing.rs` | `by_id`, `by_dest`, bucket times | upsert, seen, failure, evict, cap | the two indexes agree; verified contacts are not displaced |
| Lookups, `kad/service/lookup.rs` | queue of 128, one active lookup | start, tick, answer | each one ends; a late answer is harmless |
| Keyword cache, store, jobs, `kad/service/keyword.rs` | two maps with running totals, jobs | hit, publish, prune, job tick | totals equal the maps; caps hold; jobs are not lost |
| Source store, `kad/service.rs` 1206-1353 | file -> source -> destinations | publish, cap files, cap per file, cap total | caps hold; our own sources survive |
| Requests, flood limiter, shaper, `kad/service.rs` 1645-2157 | outstanding requests, counters per peer and opcode, send windows | track, match, count, evict, schedule, send | an answer is accepted once; limits hold per window |
| Bootstrap, `kad/bootstrap.rs`, `nodes/imule.rs` | contacts learnt | start-up exchange | ends, with what it learnt |
| Wire formats, cryptography, `kad/{wire,packed,udp_crypto,md4}.rs` | none | encode, decode, hash | pure functions on byte strings |
| Uploads, `upload.rs` | active ranges and recent sessions of each file | held, sending, terminal, prune | one session per active range; the first terminal reason stays |
| Shared library, `share.rs`, `shared_ops.rs`, `publish.rs` | library, status of each action | index, reindex, republish | one action of a kind at a time; cooldowns hold |
| SAM client, `i2p/sam/*` | sockets | handshake, session, stream, datagram | one reply per command |
| HTTP API, `api/*` | sessions, token, rate buckets | handlers, middleware | no session outlives its expiry or a rotation |
| Process shell, `main.rs`, `config*.rs`, `single_instance.rs` | config, lock file | start, stop | one instance per data directory |

How they meet: the API and the pump are clients of the download actor; the pump
asks the KAD service for sources and the SAM client for streams; finished files,
uploads and publishing meet in the shared library. Shared state is behind locks
(library, upload tracker, publish tracker, API sessions); all the rest is owned by
one task each, so the hard behaviours are: the order in which commands of several
clients reach an actor; what an actor does after one of several writes failed; a
kill between two writes; deadlines racing late answers; and caps enforced in
several steps. `PROJECT.json` lists them under "hazards", each at its line.

## 2. Modules

### Downloads and the routing table

`DownloadService` is the actor. State against the code:

| Variable | Code |
|---|---|
| `running` | the task of `run_service` is alive |
| `downloads` | the map, each entry's `PartMet` (state, ranges, `downloaded_bytes`, `retry_count`) |
| `leases` | `ManagedDownload::leases`, each with the time left to its deadline |
| `cooldown` | time left to `cooldown_until`, 0 for none |
| `met`, `partFiles` | `NNN.part.met` and `NNN.part` on disk |
| `written`, `stray` | which bytes of the `.part` a packet wrote, and which of them a packet without a lease wrote last |
| `incoming` | whose file was moved to the incoming directory |
| `pass` | where the actor is inside `finalize_completed_downloads` |

There is one action per command that changes something, one for all that are
refused (they still run the finalization pass), the tick in its success and
failure forms, the finalization pass one download at a time, stop and start. The pass
is not one step because it makes several writes per download and a kill may
come after each one that completes: between two downloads (`Stop`), and between the move of
a file and the save of Completed (`KilledAfterMove`). `FinalizeFails` covers the three places in it
that may fail, with the memory and the disk each leaves. A handler whose save fails
keeps the map already changed, as the `?` after `save_part_met` does.
A kill inside a handler that writes once leaves what a failed write leaves, so it
is that failure followed by `Stop`.

Data are abstracted as follows. A range is its set of byte positions; `RangeLists`
checks that the vectors compute these sets. File names, hashes, `last_error` and
time stamps are dropped; a packet is the block it carries, and malformed packets are
refused commands. `incoming` is kept per part number, so two files of the same
name are told apart (the code gives the second one another name). Counters of
statistics and transfer rates are left out. `total_missing` is the number of missing bytes,
`Progress` what the code derives from it, the leased bytes counted as downloaded.
The copy that `finalize_single_download` falls back to when a rename fails is
atomic here; `PartStore` has its steps.

`DownloadProgress` adds one history variable to it (section 4, `found_progress`).

`BlockCarving` defines on sets of bytes which blocks `reserve_blocks` takes;
`BlockPool` is the abstract specification of one download's ranges built on it;
`RangeLists` has the code's vectors, with `merge_ranges`, `subtract_range` and
`remove_inflight` as written, and implements `BlockPool` under the mapping from
lists to sets. `DownloadService` uses the same carving and the same set operations.

`DownloadServiceProofs`, `DownloadLeaseProofs` and `DownloadRecoveryProofs` hold
the theorems, each one extending the one before; `RoutingTableProofs`, `HostServicesProofs`,
`KadServicesProofs` and `ServiceLoopsProofs` those of the other modules, on the
lemmas of `SequenceLemmas`.

`RoutingTable` is `kad/routing.rs` with the handlers of `kad/service/inbound.rs` and
`kad/service.rs` that change it. State against the code:

| Variable | Code |
|---|---|
| `by_id` | the map from node id to `NodeState`; `age` is the time since `last_seen`, `heard` the time since `last_inbound` |
| `by_dest` | the index from destination to node id |
| `pending_reqs` | the destinations of `pending_reqs` whose time-out is still to come |
| `moved` | history only: whether `upsert` ever dropped the old index of a known node named at a second destination |

One task owns the table, so a handler is one step, with every call it makes on the
table in the order of the code: the keys learnt when a packet decrypts, the
mark, the upserts of the sender and of the contacts it names, the cap, the mark again.
`Drop`, `Hear`, `Hello`, `Request`, `Response` and `BootstrapResponse` are the
packets, by what they do to the table; `Maintenance` charges the requests that timed
out and evicts; `SendRequest` and `ClockTick` are the rest. A start is `Init`, which
reads up to `MaxSaved` nodes back.

Times are ages, counted up to the last one the code compares with; what only paces
requests (`last_queried`, `last_hello`, `needs_hello`, bucket times) is left out, so
a request may go to any node at any time. A contact list has at most two nodes, which is
what it takes for one to displace the other. Where nodes rank alike, `enforce_capacity`
sorts them in the order of a hash map, so `Enforced` is a set of tables.

A definition whose comment starts with "Slip" is a mistaken form of the one after
it. "mutants" in `PROJECT.json` pairs them with the properties that notice.

### The other parts of the file side, composed in `HostServices`

`PartStore` takes apart what `DownloadService` does in one step: `save_part_met`
(copy to `.bak`, write `.tmp`, rename), the load that falls back to `.bak`, and a
finalization (rename, or copy and remove, into the incoming directory, `known.met`, the
save of Completed, the removal of the metadata). One step is one file operation, which may
fail or be the last one of the process. `met`, `bak`, `tmp`, `part`, `incoming`, `known` and
`known_tmp` are the files, a content being the file it belongs to, `Torn` or none;
`entry` and `known_keys` are the actor's memory; `pc`, `reason` and `target` say where a
handler is and what it does next; `log` and `lost` are history: the last two
versions saved, the files whose known.met could not be read, and, as `leftover`, whether the `.bak` is of a
download that is gone. While the program is down the disk
may damage a metadata file or `known.met`.

`TransferPump` is the two-second task: `todo` is the list it took, `visit` where it is
(source, reserved blocks, packets so far), `waited` how long the fetch takes. Next to it are
the four calls of the actor it makes and what may happen to downloads in between:
deletion, another file under the same number, leases that run out. A reserve may take its leases and fail
to save them; the answer to a request may be any packet, since `request_block` does not compare it with what was
asked. `spoilt`, of a lease, is history: the step that lease depended on failed.

`UploadTracker` has one serving stream per element of `Streams` (`stream`: idle, reading
the block, writing it) and the tracker with `active`, `recent` and `next_id`; ranges expire by
age. `failed` is history: ranges whose stream failed after it noted them.

`SharedOps` is the library and its cache (`library`, `cache`), the files on disk as pairs
of a stamp and a content, the status of each action (`status`), and its tasks (`runs`), each of
which lists, hashes file by file, stores the cache and swaps the library while files
change. `fresh` and `repeated` are history: an index ran while nothing changed;
something was announced twice within its cooldown.

`HostSettings` is the configuration in memory (`cfg`), `config.toml` and its temporary file
(`file`, `tmp`), and where the handler of each client is (`request`). A client
that goes away drops its handler; what the blocking pool had begun goes on (`orphans`)
without the lock. `acked` and `dropped` are history.

### The parts of the KAD side, composed in `KadServices`

| Module | State | Code |
|---|---|---|
| `KeywordCache` | `hits`, `interest`, `hits_total` | the results of searches, by keyword and file; who asked for which keyword, and when; the running total |
| `KadStores` | `store`, `store_total`, `sources` | keywords and sources that others, and we, published here; the total is kept by differences, as in the code |
| `KadPublishing` | `keyword_jobs`, `tracked`, `net`, `probes`, `acks` | jobs with their batches; open requests; answers on their way; probes; history: which file's publish was answered |
| `KadGreetings` | `table`, `tracked` | of a routing entry, `needs_hello`, `last_hello`, `failures`, `received_hello` and whether `by_dest` leads to it; open HELLO requests. `quiet`, `strayed`, `rushed` are history |
| `FloodLimiter` | `tracked_in`, `last_cleanup` | counter and window of each source and opcode; `admitted`, `refused` are history |
| `OutboundShaper` | `window`, `global_sent`, `peer_sent`, `last_global`, `last_peer` | the one-second window with its counters; last sends; `sends` is history |
| `NodesFile` | `nodes_dat`, `nodes_tmp`, `pc`, `pool`, `discovered` | the file, its temporary, what start, bootstrap and service hold |
| `SamDatagram` | `wire`, `reader`, `returned` | bytes sent by the bridge as pieces, what `recv` keeps in locals, its last result; history: `sent_no`, `returned_no` number the datagrams, `cut` (a receive was dropped within a frame), `junk` (a line was read that nobody sent), `misread` (such a line was taken for a header) |

Times are ages. Where the code takes "the oldest" of several equally old ones, it takes the one
a hash map yields first, so any of them may go. Peers are left out of a batch freely
(the shaper drops a send it would delay), and answers arrive late, twice, out of
order or never. In `KadGreetings` the choice of whom to greet first is reduced to
`needs_hello`, and of the routing table there is one entry per peer; what
happens between two nodes is `RoutingTable`'s.

### The two loops whose progress matters, composed in `ServiceLoops`

`KadLookups` is `kad/service/lookup.rs` with the requests it sends: `queue`, `active`
(a set of at most one lookup), `since` (time since the last refresh of each
bucket), `tracked` and `pending_reqs` per peer. An answer may come at any time and for any target: the
code matches it with a request by peer and opcode, and reads the target from the payload. One that matches
no request changes nothing. `credit` and `spoiled` are history: requests that may still be
answered, and peers whose undecodable answer took their tracked request.

`AcceptLoop` is `run_transfer_accept_loop`: `at` (where the loop is), `owner` (whether it
holds a control connection), `free` (permits), `streams`; and `bridge`, which
is down, up without our session, with it, or with a stale one of ours. `faults` counts to the bound. A stream may
end at any time and need not: a read has a time-out of 30 s, but a peer may go on asking, and the write of an
answer (`app.rs` 1086) has none.

### Composition

The parts of `HostServices`, `KadServices` and `ServiceLoops` share no variable with each other, as
the parts of the program they model share none: they are reached through commands and results, which are
inputs of each module. So each of the three has the constants and variables of its parts and a variable `part` that says which of
them runs, and the others stay at their initial state: every state and every step of
each part is checked, and no product of unrelated state is built. What two parts
do share is inside one module: the actor's calls in `TransferPump`, the tracked
requests in `KadLookups`, `KadPublishing` and `KadGreetings` (each for its own opcodes,
which is how the code tells them apart), the streams in `UploadTracker`.

### Plan

1. A refinement from the files of `PartStore` to the one cell per part that `DownloadService` assumes.
2. API sessions and the rate limiter; the order of the bootstrap rounds.

## 3. Runs

| Run | Bounds | Faults | Shows |
|---|---|---|---|
| `download_faults` | 1 part, 2 peers, 2 bytes, blocks of 1-2 | saves, finalization, removals, kill | `TypeOK`, `LeaseAccounting`, `CompletionIsWhole`, `RecoveryIsBacked`, `DiskNotAhead`, `NothingReceivedIsLost` |
| `download_exact` | 1 part, 2 peers, 3 bytes, blocks of 1-2 | kill, creation, removals | `RestartIsExact`, `ActiveHasPartFile`, `LeaseCaps`, `PauseHolds` |
| `download_fair` | 1 part, 1 peer, 2 bytes, 2 leases | saves, finalization, creation, kill | `LeasesComeBack`, `CompletingIsSettled` |
| `routing_index` | 3 nodes and ours, 2 destinations, versions 5 and 6, 2 entries, 1 contact, 2 saved | none | `IndexAgrees`, `SettledPeersStay`, `VerifiedOwnerStays` |
| `routing_health` | 3 nodes and ours, 3 destinations, 2 entries, 1 request, 2 failures | time-outs | `WithinCapacity`, `StablePeersOutliveDead` |
| `loops_fair` | lookups: 2 peers, one of them asked again before it answered, 2 debug targets, 1 bucket, queue of 1, 2 rounds; listener: 2 streams, 4 faults | answers lost, late, repeated, undecodable, for other targets; bridge down, session lost or stale, accepts that fail, streams that never end | `QueueSound`, `PendingIsTracked`, `DebugOutranksRefresh`, `LookupEnds`, `ListenerRecovers` |
| `kad_services` | see below | sends refused, answers lost, late or repeated, kills, dropped receives | `CacheWithinCaps`, `StoresWithinCaps`, `LocalSourceOutlives`, `AckCoverageKeeps`, `GreetingsArePaced`, `FloodIsLimited`, `RateIsKept`, `PoolIsKept`, `DatagramsAreWhole` |
| `host_services` | see below | failing file operations, kills, damaged files, clients that go away | `ImplementsPool`, `LoadIsRecent`, `ContentIsKept`, `OwnBlocksOnly`, `NothingLeftBehind`, `ActiveIsSent`, `IndexIsTrue`, `AnnouncedOnce`, `PatchesLast` |
| `found_cancel` | 1 part, 1 peer, 2 bytes | none | `CancelHolds` fails |
| `found_twins` | 2 nodes and ours, 2 destinations, versions 5 and 6, 1 key | none | `OneEntryPerDestination` fails |
| `found_desync` | payloads of 1 piece, 1 datagram | a dropped receive | `NoDesync` fails |
| `found_shrink` | 3 nodes, 2 of them seeds, lists of 2 | a lost socket | `SeedsOutliveEviction` fails |

The bounds. Downloads meet only in the tick's and a disconnect's walk, in the
finalization pass and in the choice of part numbers, and one is enough for what concerns the metadata of a single
download; the runs have one, and what concerns several is proved. Two peers are needed for one to hold what the other may want, and the caps of
one lease per peer and two per download make both bite. Three bytes give a first, a
middle and a last byte, so a hole can be given back between two received ones;
the ranges of `host_services`, where the shape of the lists is the question, have six. The lease
time, the cooldown and the retry bound are 1: a deadline is near, passed or not set;
`RetryMax` stands for the saturation of a 32-bit counter. Peers are a symmetry set
where no liveness is checked. Deadlock is checked in all the
runs of these modules and in `loops_fair`: a stopped actor can be started and a running one
can always take a refused command. `kad_services`, `host_services` and `found_desync` do not check it,
because parts of them do stop at a bound: the bytes on the wire, the sessions of uploads,
the slots in incoming.

The bounds of the composed runs. Every cap is smaller than what competes for it, so that each
bites and has to choose a victim.

| Part | Bounds |
|---|---|
| keyword cache | 3 keywords, 3 files; 2 keywords, 2 hits per keyword, 3 in all |
| stores | 3 keywords, 3 files, 3 nodes, one of them ours; 2 keywords, 2 hits; 2 files, 2 sources per file, 3 in all |
| publishing | 1 keyword, 2 files, 1 peer: a job taken over by another file needs no more |
| greetings | 2 peers, 1 greeting per tick, 2 failures; waits of 1 and, after a failure, 2 |
| flood limiter | 3 sources, 2 of which fit, 2 opcodes, 1 request per window of 2 |
| shaper | 2 peers, queries and greetings, a window of 5 with gaps of 1 and 2, 1 per window |
| nodes.dat | 3 nodes, 2 of them seeds, lists of 2 |
| datagrams | payloads of 0 to 3 pieces of which 2 are allowed, 5 pieces on the wire, 2 datagrams per connection |
| ranges | 6 bytes, blocks of 1 to 3, 2 blocks per call, 3 leases |
| part store | 2 files, 1 name in incoming |
| pump | 2 parts, 2 files, 1 peer, 2 blocks, a lease of 2 and fetches of 1 each: two fetches outlast the lease |
| uploads | 2 streams of 1 peer, 2 ranges, a lifetime of 1, a history of 2 ranges kept for 2, 3 sessions |
| shared library | 1 path, 2 contents, 2 stamps, a cooldown of 1 |
| settings | 2 clients, 2 fields of 2 values |

`Faults` says what may fail. Failing saves together with failing finalizations break
`RestartIsExact` and `ActiveHasPartFile` (`found_stranded.cfg` shows how), so
`download_exact` has neither; that the last save of a download fails and its file is moved all the same is
for `found_stranded.cfg` alone. A `.part` created by a failed `create_download` under
a number that a failed deletion left in the map, or that belongs to a stranded
download, pairs old metadata with an empty file: with "create" among the faults of
`download_faults`, `RecoveryIsBacked` does not hold, and so it is not among them.
`download_fair` has no failing removals: one that removes the metadata and not
the backup ends a download's record while its `.part` is still there only as far as
the user's deletion is concerned, and the property asks for both to go. It has one
download: with two, `CompletingIsSettled` fails under failing finalizations, because fairness owes a success to the pass,
not to each download in it, and one whose move fails for ever ends the loop before the next (the `?` at line 1631).
`download_pair.cfg`, kept without a listed run, has two downloads and no failing write, and passes.

`DirectMarks` lets a client send `MarkBlockReceived`, which marks a block without
delivering it. Only tests do, and in `download_exact` they may; `RecoveryIsBacked` cannot hold with it.

The routing runs ask two questions. `routing_index` is about who may take whose place:
a legacy and a current version make every refusal of `upsert` bite, two destinations
for three nodes make them compete, and contacts and saved nodes give third
parties a say; nothing fails there. `routing_health` is about who has to leave:
three nodes for two entries overflow the table, and two failures tell a node that is
unreliable from one that may be evicted; there are no contact lists, so that the table is over-filled by one node at most (`CapHolds` has the lists). `Keys` is empty
in both, because with one key each takes longer than five minutes: the refusal
of another key is exercised by `found_twins` and covered by the proofs.

Fairness, in `download_fair`. `Start` and the clock are weakly fair: somebody
starts the program again, and time passes. The tick is strongly fair because `select!`
picks at random among the ready branches, so commands cannot keep it out for ever.
The steps of the finalization pass are strongly fair because a kill may interrupt, or a failing write end,
any of them, but not every single one. Commands are under no fairness:
nobody has to send any.

Fairness, in `loops_fair`. For the lookups, the maintenance branch of the service and the clock
are weakly fair: an interval timer that is due stays due until its branch is taken. No answer
is owed, so `LookupEnds` holds against peers that never reply. It does not hold against peers that answer for
the target of the lookup with new nodes again and again: each such answer resets `last_progress`. The rounds of the code are bounded
(8), but only those that ask somebody count: a lookup that has asked everybody and waits for one that is silent is kept
by such answers for as long as they come. `LookupEnds` exempts those runs and no others. For the listener, the steps of the
loop are weakly fair (it is one task that waits for nothing else), and the bridge comes back and gives up a stale
session in the end: without that no loop could recover. No stream is owed an end, so `ListenerRecovers` promises a
listener that accepts or one whose every permit is held by a running stream. Faults are under no fairness and are
finitely many.

## 4. What the violation runs found

Each one is a disagreement between a text of the repository and what the code does,
quoted in `PROJECT.json`.

* `found_cancel`. Reserve, cancel, then the fetch fails: `mark_block_failed` puts the
  cancelled download back into the queue.
* `found_twins`. A node is known at one destination, and a message names it at another one:
  `upsert` takes it, points the index of the second destination to it and drops the
  index of the first, while the entry keeps the first. A second node named at the
  first destination is then entered there too, beside it: two entries hold
  one destination, where the test `upsert_keeps_one_entry_per_destination` expects
  one. Requests are still sent to the first destination for both nodes, and what
  happens to them is noted for the second node only. This is why `IndexAgrees` speaks of
  tables where no node has moved.
* `found_desync`. A header line arrives in two pieces and the caller of `recv` gives up between them
  (a timer of the service's `select!`, or the bootstrap's time-out): what was read is lost, and the next
  `recv` takes the rest for a line; after a longer cut it takes payload for lines. `DatagramsAreWhole` says what still
  holds: a datagram that is returned has its own bytes until a line made of payload reads as `DATAGRAM RECEIVED` with
  a destination and a size. The payload is the remote peer's, and from there on nothing is promised.
* `found_shrink`. The service merges its table into `nodes.dat`; the reconnect after a lost socket
  writes the bare snapshot over it, and the seeds evicted from the table are gone. `PoolIsKept` says
  that this is the only way a list that is not full loses a node.

Further divergences, with configurations kept here, each of which TLC finds violated:

* `found_progress.cfg` (`DownloadProgress`). Reserve both blocks, receive one (saved: 2 of 2 bytes
  downloaded, since nothing is missing), kill, start, reserve again and fail: the saved
  progress is 1. The resume soak test (`src/scripts/test/README.md:338`) expects it never to regress.
* `found_stray.cfg` (`MCDownloadService`). A packet for a block whose lease is gone is written to the `.part`
  before it is refused; the bytes may be those of a block already received.
  `OwnBlocksOnly` says that they are never those of another file.
* `found_stranded.cfg` (`MCDownloadService`). The save at the end of the last block's ingest fails, the pass that
  follows every command moves the `.part` all the same, and the process dies before the
  metadata is removed: the next start has an active download that can never write a block.

* `found_old_backup.cfg` (`PartStore`, `FallbackIsOwn`). The `.bak` is removed after the `.part.met` and stays when its removal
  fails or the process dies. Once the `.part` is moved the number is free, the first save of the next download has
  nothing to copy over the old `.bak`, and a damaged `.part.met` makes the start load the earlier file's
  metadata, where `src/docs/10_architecture/DOWNLOAD_DESIGN.md:156` asks for recoverable metadata.
  `LoadIsRecent` exempts this backup as `leftover`.

And two properties that are stated in their modules and that the code does not keep, without a text that
promises them: `KadPublishing.AckedFileWasAcked` (an answer that comes after a job was taken over
by another file counts for that one) and `KadGreetings.EveryGreetingIsPaced` (an entry
whose destination leads elsewhere, as in `found_twins`, is greeted at every tick, since the
greeting cannot be noted).

What else the modelling showed:

* A lookup counts its last progress from when it was queued, so one that waited longer than the request
  time-out ends after its first round. One whose first round is refused by the shaper ends at
  once, having asked nobody.
* An answer that cannot be decoded takes the tracked request, while `pending_reqs` keeps the
  peer until it is charged with a failure (`spoiled` in `KadLookups`).
* With the default intervals of the shaper, of several requests that a handler sends back to back usually
  only the first leaves: sends that would be delayed are dropped. Its base delay and jitter
  have no effect. The cap of 8 opcodes per source is as large as the number of limited opcodes.
* The total cap of the keyword cache can fail when `keyword_require_interest` is off,
  because its eviction walks the interests; `CacheWithinCaps` asks for it only with interest required.
* After a start that loaded the backup, the next save first copies the damaged file over that
  backup. When the damaged `known.met` cannot be renamed away, no download is finalized any more.
* A fetch of four blocks may take 75 s while a lease lasts 15: the blocks arrive without one and are fetched again.
* `session_create_idempotent` recognises the messages of an existing session under `I2P_ERROR` only, so
  with a bridge that answers `DUPLICATED_ID` the loop waits until the bridge drops the stale session.
* When the KAD socket is lost and cannot be made again the program ends (`app.rs` 676), where the comment
  at 1588 says that it re-creates the session and keeps the service running. A panic in a share action leaves its status at "running".
  A share root that cannot be read stops the start.

## 5. Proofs

The theorems hold for every value of the constants that satisfies the assumptions of the module:
parts are positive numbers, sizes, caps and windows positive, ids, destinations, peers and files
finitely many, `None` none of them. Each module that declares constants names its assumption; the
compositions assume those of their parts, and TLC evaluates them in the runs. A hypothesis of one
theorem alone is in the last column.

| Theorem | States | If |
|---|---|---|
| `TypeCorrect` | `Spec => []TypeOK` of `DownloadService` | |
| `LeasesAccounted` | `Spec => []LeaseAccounting` | |
| `CompletionWhole` | `Spec => []CompletionIsWhole` | |
| `CapsHold` | `Spec => []LeaseCaps` | |
| `DiskBehind` | `Spec => []DiskNotAhead` | |
| `ReceivedIsKept` | `Spec => NothingReceivedIsLost` | |
| `RecoveryBacked` | `Spec => []RecoveryIsBacked` | creations do not fail, `DirectMarks` is off |
| `ActiveHasPart` | `Spec => []ActiveHasPartFile` | saves do not fail |
| `RestartExact` | `Spec => []RestartIsExact` | saves and finalizations do not fail |
| `PauseKept` | `Spec => PauseHolds` | |
| `TableTyped` | `Spec => []TypeOK` of `RoutingTable` | |
| `IndexAgreement` | `Spec => []IndexAgrees` | |
| `CapHolds` | `Spec => []WithinCapacity` | |
| `SettledStay`, `VerifiedStay` | `Spec => SettledPeersStay`, `Spec => VerifiedOwnerStays` | |
| `StableOutlive` | `Spec => StablePeersOutliveDead` | `EvictAge > StableWindow` |
| `LookupsAreQueuedOnce` | `Spec => []QueueSound` | |
| `ChargesAreFair` | `Spec => []PendingIsTracked` | |
| `RefreshesYield` | `Spec => DebugOutranksRefresh` | |
| `CacheKeepsItsCaps` | `Spec => []CacheWithinCaps` | |
| `StoresKeepTheirCaps`, `WeOutliveOthers` | `Spec => []StoresWithinCaps`, `Spec => LocalSourceOutlives` | |
| `CoverageIsKept` | `Spec => AckCoverageKeeps` | |
| `PeersAreGreetedInTime` | `Spec => []GreetingsArePaced` | |
| `FloodsAreLimited` | `Spec => []FloodIsLimited` | |
| `CapsAreKept` | `Spec => []Shaper!CapIsKept` | |
| `RatesAreKept` | `Spec => []RateIsKept` | `RecordsFit` |
| `NodesAreKept` | `Spec => PoolIsKept` | |
| `DatagramsComeWhole` | `Spec => []DatagramsAreWhole` | |
| `ListsArePools` | `Spec => ImplementsPool` | |
| `LatestIsLoaded`, `FinishedFilesKept` | `Spec => []LoadIsRecent`, `Spec => []ContentIsKept` | |
| `OwnBlocks`, `LeasesReturned` | `Spec => []OwnBlocksOnly`, `Spec => []NothingLeftBehind` | |
| `ActiveIsReal` | `Spec => []ActiveIsSent` | |
| `IndexesAreTrue`, `AnnouncementsAreSpaced` | `Spec => []IndexIsTrue`, `Spec => []AnnouncedOnce` | |
| `PatchesAreKept` | `Spec => []PatchesLast` | |

So of what the passing runs check, every safety property is a theorem.

### Downloads

`TypeOK` is inductive by itself; what takes work is the cardinality of the missing bytes
(`downloaded` stays within the file size) and the carving of blocks.

`LeaseAccounting` and `CompletionIsWhole` are proved together as `Books`, with
the fact that a stopped actor has an empty map. Neither is inductive alone: when the last
block arrives, completion is whole because the leases account for all that is in
flight, and a recovered download starts with no leases because recovery empties its
in-flight ranges. The lemmas on `FirstBlocks` (blocks are disjoint subsets of what is
missing) carry the reservation; those on `Reserve`, `Receive`, `Fail`, `Reclaim` and
`Recover` say what each does to one download; then there is one lemma per action.
`CapsKept` counts leases: a call grants no more blocks than the peer and the download have room for, and
`FirstBlocks` of n is a set of at most n.

The recovery theorems rest on a case lemma: whatever the step, a single download
begins, rests, moves (to metadata that has received at least as much), leaves, dies
with the actor, loses its metadata, or returns from disk. `DiskNotAhead` then needs
only that each case keeps disk behind memory, and `NothingReceivedIsLost` reads off
the same cases. `RecoveryIsBacked` is strengthened to `Backed`, which also says it of
the map, and adds that a block is marked received only in the step that writes it.
`Exact` is the invariant of `RestartExact` and `ActiveHasPart`: what a restart makes of the saved
metadata and of the actor's is the same unless the file was delivered, and the states that write to the `.part`
have it. Which fault breaks which half is the hypothesis of each theorem;
`found_stranded.cfg` shows that they are needed.

### The routing table

The first theorems use one invariant, `Sound`: the table is typed, our id is
not in it, and its maps agree unless a node has moved. There is a lemma per
operation on the table (a mark, an upsert, removing a set, the cap) that it keeps
a sound table sound, then a lemma per handler. Agreement is inductive only with the
flag: after a move, a displacement can remove an entry whose index leads to another
node. In `Stored` the proof turns on the displaced owner having no other index; in
`Without` on no destination leading to two nodes. The cap follows from the
cardinality of what `Enforced` keeps, for each handler that may add a node.

The action properties compare the table before a handler with the one after all it did, which is
up to a dozen operations. `Since(s, t)` is what any number of them may do between two tables: entries
only grow (`Grown`: no move, no worse standing, no more failures) or are fresh, a verified one left only for a full
table of verified ones or was dead, a stable one left only where nobody failing stays, and no settled one
got another's index. Each operation keeps `Since`, so a handler does, and the three theorems read off it.
`Timely` says that who was heard was seen no longer ago; without it, a stable node could be old enough to be evicted.
For the same reason `StableOutlive` needs `EvictAge > StableWindow` (by default a day against ten
minutes): if a node could be evicted for age while it still counts as stable, then a request of its that times out would have
`Maintenance` evict it beside a failing node that is younger, and TLC finds that with both at 1.

### The loops

`QueueSound` is strengthened with the types of tasks and with what makes `enqueue` refuse: no two
entries of the queue are the same lookup and none is the active one. `PendingIsTracked` needs `Owed`: the
tracked requests of a peer are in the order of their ages, at most as many as the answers it still owes
(`credit`), and the last one is young enough to outlive the deadline in `pending_reqs`.

### The KAD parts

* Cache and stores. The invariants count: the total is the cardinality of the set of pairs (keyword,
  file), and each of the caps, applied one after the other, keeps those before it.
* Publishing. A job that remembers an acknowledgement publishes that file or none; `Heir` is what a step may make of a job.
* Greetings. What the entry remembers is the last greeting, unless the destination leads elsewhere.
* Flood limiter and shaper. A counter and a window that restarts do not limit a sliding window to its
  cap, but to twice that. The invariant splits the packets of the last window into those of the counter's
  own window, as many as it says, and those before it, at most a cap, all older than the counter's age; it survives an
  eviction because a counter that is dropped is older than the window.
* Gaps. `GapsInv` says that the last send of each lane and class is in the records, as long as it is young.
  `cleanup` drops the oldest beyond `StateMax`, so young records survive only where the caps let
  fewer lanes be young than that: `RecordsFit`, 360 of 8192 by default. Without it the gap to a peer can fail after
  a burst to thousands of others; the caps (`CapsAreKept`) hold without it.
* `nodes.dat`. Every writer but the reconnect writes a list that contains the file's, or is full.
* Datagrams. `Stream` says that the wire is a sequence of whole frames but for its first, numbered on from one to the next;
  `Aligned`, that a reader that was never cut is between two lines, or in one, with as many datagrams returned as were before it;
  `InPayloadOf`, that a payload is read to the end of the frame it belongs to, unless a line was misread.

### The file parts

* `RangesInv`: the vector of missing ranges is sorted with gaps, no two leases share a byte, and no leased
  byte is missing. With it each handler on the vectors maps to the step of `BlockPool` on the bytes.
  `SubtractIs` and `MergeIs` say what `subtract_range` and `merge_ranges` do to the bytes and that they leave gaps;
  `TotalIs` that `total_missing` counts each byte once, which is why the gaps matter. The hard one is `reserve_blocks`:
  the pool cuts every run of missing bytes into blocks and takes the first n, the loop takes a block off the head of the vector
  n times. `CarveHead` shows that the block off the head is one of the cut of what was missing and
  that taking it leaves the other blocks as they were, although what is left of the run begins elsewhere; `Carving`
  carries that through the loop, and `CarvingEnds` concludes that what was granted are the first n blocks.
* `FilesInv`: where a handler is, and whether the backup is left over, decides which of file, backup and temporary has the latest version (`Versions`),
  and which of `.part` and incoming has the content (`AllKept`).
* `PumpInv`: the leases the actor has of the pump are the blocks in its hand, or spoilt.
* `UploadsInv`: session numbers are below `next_id`, differ, and each active range is written by a stream or was given
  up. `start` prunes while it adds, so the order of `active` is part of it.
* `LibraryInv`: a task vouches for what it hashed only where the disk was `calm`; one task per kind; what is still
  to be announced has waited.
* `SettingsInv`: one client is inside the lock, its patch is of the configuration in force, and without dropped
  handlers `config.toml` is that configuration whenever nobody is.

### How recursion is proved

The library's induction theorems take an operator as a parameter, which no installed prover can instantiate. `SequenceLemmas`
gets it from the least element of a set of naturals instead: a set that contains 0 and the successors
of its members contains all numbers. A function defined by recursion is then shown to exist by that induction and to have a property at every
argument. That is enough for the queue of lookups, for the lists of what happened within a window, for the walks of the tracker,
and for the loops over the vectors of ranges.
A few definitions are written for it: `EnqueueAll` and the loops of `RangeLists` are recursive functions (the sort of
`merge_ranges` one that puts each range in its place), `Recent` and `Live` are
given by the place where the list is cut, and the clock of the tracker's history is chosen by order. They
compute what the code computes, and the runs check them.

### Left to TLC

* Liveness: `LeasesComeBack`, `CompletingIsSettled`, `LookupEnds`, `ListenerRecovers`. The prover has no rules for `ENABLED`.
* The violation runs, which are counterexamples.

For everything else the question whether the bounds of section 3 are large enough no longer arises.

## 6. Not modelled

* The wire formats and cryptography of KAD, the encoding of transfer packets and the parsing of SAM lines,
  configuration and node files: pure conversions of byte strings.
* The contents of files: no part hash is verified by the code either, and a content stands
  for its hash in `PartStore` and `SharedOps`.
* API sessions, the token, the rate limiter and the handlers that only pass a command on.
* The order of the bootstrap rounds and the live bootstrap refresh of the service; of its
  result, what is learnt and written is in `NodesFile`.
* In the routing table: the order in which nodes are chosen for requests, and bucket times.
* The search half of the source probe, statistics, status events and logging.
* The instance lock, start-up order beyond what `NodesFile`, `SharedOps` and `HostSettings` have, key generation.
