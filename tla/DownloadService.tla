--------------------------- MODULE DownloadService ---------------------------
(***************************************************************************)
(* The download actor of src/src/download/service.rs: one task that owns   *)
(* the queue of downloads and handles, one at a time, the commands of its  *)
(* channel and a one-second tick.                                          *)
(*                                                                         *)
(* A byte range is the set of its byte positions, so `missing_ranges` is a *)
(* set of bytes (the code keeps the list sorted and merged: RangeLists     *)
(* checks that its list operations compute the set operations used here)   *)
(* and `inflight_ranges` a set of blocks.  Time is counted down: a lease   *)
(* holds the time left to its deadline, a download the time left to its    *)
(* cooldown.  Every write to disk may fail, where Faults says so, and the  *)
(* process may be killed between any two steps; a kill in the middle of a  *)
(* handler leaves what that handler leaves when its next write fails.      *)
(*                                                                         *)
(* A definition marked "Slip" is a mistaken form of the one after it; the  *)
(* runs use it to show that a property would notice the mistake.           *)
(***************************************************************************)
EXTENDS Integers, FiniteSets, BlockCarving

CONSTANTS
    Parts,            \* part numbers, u16 in the code
    Peers,            \* peer ids
    FileSize,         \* size of every file, in bytes
    BlockSizes,       \* block sizes the callers of reserve_blocks use
    MaxReserveBlocks, \* MAX_RESERVE_BLOCKS_PER_CALL
    PeerLeaseCap,     \* MAX_INFLIGHT_LEASES_PER_PEER
    DownloadLeaseCap, \* MAX_INFLIGHT_LEASES_PER_DOWNLOAD
    LeaseTime,        \* INFLIGHT_LEASE_TIMEOUT
    BackoffBase,      \* RETRY_BACKOFF_BASE_MS
    BackoffMax,       \* RETRY_BACKOFF_MAX_MS
    RetryMax,         \* where retry_count saturates (u32::MAX in the code)
    Faults,           \* what may go wrong: see FaultKinds
    DirectMarks       \* whether callers send MarkBlockReceived themselves

FaultKinds == {"save", "finalize", "remove", "create", "kill"}

ASSUME ConstantsAssumption ==
    /\ Parts \subseteq Nat \ {0}
    /\ FileSize \in Nat \ {0}
    /\ BlockSizes \subseteq Nat \ {0}
    /\ MaxReserveBlocks \in Nat \ {0}
    /\ PeerLeaseCap \in Nat \ {0}
    /\ DownloadLeaseCap \in Nat \ {0}
    /\ LeaseTime \in Nat \ {0}
    /\ BackoffBase \in Nat \ {0}
    /\ BackoffMax \in Nat \ {0}
    /\ RetryMax \in Nat \ {0}
    /\ Faults \subseteq FaultKinds
    /\ DirectMarks \in BOOLEAN

VARIABLES
    running,    \* the actor task is alive
    downloads,  \* the actor's map: the PartMet of each managed download
    leases,     \* the leases of each managed download
    cooldown,   \* the time left of cooldown_until, 0 when there is none
    met,        \* NNN.part.met on disk
    partFiles,  \* the parts with a NNN.part on disk
    written,    \* the bytes of NNN.part some packet was written to
    stray,      \* those of them last written by a packet no lease covered
    incoming,   \* the parts whose file is in the incoming directory
    pass        \* the finalization pass the actor is inside of, if any

vars == <<running, downloads, leases, cooldown, met, partFiles, written, stray,
          incoming, pass>>

memory == <<downloads, leases, cooldown>>
files  == <<partFiles, written, stray, incoming>>

-----------------------------------------------------------------------------
(* Data *)

Bytes  == 0 .. FileSize - 1
Blocks == {a .. b : a, b \in Bytes} \ {{}}

Active == {"Queued", "Downloading"}
States == Active \cup {"None", "Paused", "Completing", "Completed", "Cancelled",
                       "Error"}

PartMet == [state      : States,
            missing    : SUBSET Bytes,
            inflight   : SUBSET (SUBSET Bytes),
            downloaded : 0 .. FileSize,
            retry      : 0 .. RetryMax]

\* No download, no .part.met.
None == [state |-> "None", missing |-> {}, inflight |-> {}, downloaded |-> 0,
         retry |-> 0]

NewMet == [None EXCEPT !.state = "Queued", !.missing = Bytes]

Lease == [peer : Peers, block : SUBSET Bytes, left : 0 .. LeaseTime]

NoPass == [kind |-> "none", todo |-> {}, done |-> {}]

PassKinds == {"none", "command", "tick"}

\* What a .part.met says has still to arrive.
Outstanding(m) == m.missing \cup UNION m.inflight

\* What it says has arrived.
Received(m) == Bytes \ Outstanding(m)

AtMost(x, cap) == IF x <= cap THEN x ELSE cap

\* total_missing, and the progress every handler derives from it: what is in
\* flight counts as downloaded.
Progress(missing) == FileSize - Cardinality(missing)

\* retry_backoff_delay
RetryBackoffDelay(retry) ==
    LET shift == AtMost(IF retry = 0 THEN 0 ELSE retry - 1, 6)
    IN  AtMost(BackoffBase * <<1, 2, 4, 8, 16, 32, 64>>[shift + 1], BackoffMax)

-----------------------------------------------------------------------------
(* What the handlers do to the metadata of one download *)

\* Some blocks are leased out.
Reserve(d, blocks) ==
    [d EXCEPT !.state = "Downloading", !.missing = @ \ UNION blocks,
              !.inflight = @ \cup blocks]

\* Slip: completion looks at the missing ranges only.
ReceiveIgnoringInflight(d, block) ==
    [d EXCEPT !.inflight = @ \ {block},
              !.downloaded = Progress(d.missing),
              !.state = IF d.missing = {} THEN "Completing" ELSE @]

\* Slip: remove_inflight forgotten.
ReceiveLeavingInflight(d, block) ==
    [d EXCEPT !.downloaded = Progress(d.missing),
              !.state = IF d.missing = {} /\ d.inflight = {block} THEN "Completing"
                        ELSE @]

\* A leased block has arrived: mark_block_received after release_lease.
Receive(d, block) ==
    LET inflight == d.inflight \ {block}
    IN  [d EXCEPT !.inflight = inflight,
                  !.downloaded = Progress(d.missing),
                  !.state = IF d.missing = {} /\ inflight = {} THEN "Completing"
                            ELSE IF d.state = "Queued" THEN "Downloading"
                            ELSE d.state]

\* Slip: retry_count without saturation.
GiveBackCounting(d, blocks) ==
    [d EXCEPT !.missing = @ \cup UNION blocks, !.inflight = @ \ blocks,
              !.retry = @ + 1, !.downloaded = Progress(d.missing \cup UNION blocks)]

\* Leased blocks go back to the missing ranges, and that counts as one retry.
GiveBack(d, blocks) ==
    LET missing == d.missing \cup UNION blocks
    IN  [d EXCEPT !.missing = missing, !.inflight = @ \ blocks,
                  !.retry = AtMost(@ + 1, RetryMax),
                  !.downloaded = Progress(missing)]

\* Slip: as after a timeout of an active download.
FailToQueued(d, block) == [GiveBack(d, {block}) EXCEPT !.state = "Queued"]

\* mark_block_failed
Fail(d, block) ==
    [GiveBack(d, {block}) EXCEPT
        !.state = IF d.state = "Paused" THEN "Paused" ELSE "Queued"]

\* The same for leases lost to a disconnect or a deadline.
Reclaim(d, blocks) ==
    [GiveBack(d, blocks) EXCEPT
        !.state = IF d.state = "Downloading" THEN "Queued" ELSE d.state]

\* Slip: in-flight ranges cleared without going back to missing.
RecoverClearing(m) ==
    [m EXCEPT !.inflight = {}, !.state = IF @ = "Downloading" THEN "Queued" ELSE @]

\* What run_service makes of a recovered .part.met before it serves anything.
Recover(m) ==
    IF m.inflight = {} THEN m
    ELSE [m EXCEPT !.missing = Outstanding(m), !.inflight = {},
                   !.state = IF m.state = "Downloading" THEN "Queued" ELSE m.state]

-----------------------------------------------------------------------------
(* What every handler shares *)

\* The actor takes a command or a tick only between two finalization passes.
Ready == running /\ pass.kind = "none"

Managed(p) == downloads[p].state # "None"

\* The downloads finalize_completed_downloads has work to do for.
Finished(ds) ==
    {p \in Parts :
        \/ ds[p].state = "Completed"
        \/ ds[p].state = "Completing" /\ ds[p].missing = {} /\ ds[p].inflight = {}}

Pass(kind, todo, done) ==
    IF todo = {} /\ done = {} THEN NoPass
    ELSE [kind |-> kind, todo |-> todo, done |-> done]

\* Every command, and the tick, ends in a finalization pass.
ThenFinalize(kind) == pass' = Pass(kind, Finished(downloads'), {})

\* save_part_met: the new metadata replaces the old one, or the write fails and
\* the handler returns the error with the map already changed.
Save(p) ==
    \/ met' = [met EXCEPT ![p] = downloads'[p]]
    \/ "save" \in Faults /\ met' = met

\* The actor ends and takes the map with it.
Forget ==
    /\ running' = FALSE
    /\ downloads' = [p \in Parts |-> None]
    /\ leases' = [p \in Parts |-> {}]
    /\ cooldown' = [p \in Parts |-> 0]
    /\ pass' = NoPass

LeasesOf(p, peer) == {l \in leases[p] : l.peer = peer}

BlocksOf(ls) == {l.block : l \in ls}

\* Cooldown after a block was given back.
Backoff(d) == RetryBackoffDelay(d.retry)

-----------------------------------------------------------------------------
(* Commands of the API: create, pause, resume, cancel, delete *)

\* allocate_next_part_number looks for .part and .part.met files only.
FreeParts == {p \in Parts : p \notin partFiles /\ met[p] = None}

\* create_download; a failure after the .part was created leaves that file.
CreateDownload ==
    /\ Ready
    /\ FreeParts # {}
    /\ LET p == Least(FreeParts) IN
        /\ partFiles' = partFiles \cup {p}
        /\ \/ /\ downloads' = [downloads EXCEPT ![p] = NewMet]
              /\ leases' = [leases EXCEPT ![p] = {}]
              /\ cooldown' = [cooldown EXCEPT ![p] = 0]
              /\ met' = [met EXCEPT ![p] = NewMet]
           \/ /\ "create" \in Faults
              /\ UNCHANGED <<memory, met>>
    /\ ThenFinalize("command")
    /\ UNCHANGED <<running, written, stray, incoming>>

\* Slip: the change is not saved.
SetStateUnsaved(p, next, allowed) ==
    /\ Ready
    /\ downloads[p].state \in allowed
    /\ downloads' = [downloads EXCEPT ![p].state = next]
    /\ ThenFinalize("command")
    /\ UNCHANGED <<running, leases, cooldown, met, files>>

\* set_state: the leases stay as they are.
SetState(p, next, allowed) ==
    /\ Ready
    /\ downloads[p].state \in allowed
    /\ downloads' = [downloads EXCEPT ![p].state = next]
    /\ Save(p)
    /\ ThenFinalize("command")
    /\ UNCHANGED <<running, leases, cooldown, files>>

Pause(p)  == SetState(p, "Paused", Active)
Resume(p) == SetState(p, "Queued", {"Paused"})
Cancel(p) == SetState(p, "Cancelled", Active \cup {"Paused"})

\* delete_download removes .part.met, its backup and .part, in that order, and
\* the map entry last: a failed removal returns with the entry still there.
DeleteDownload(p) ==
    /\ Ready
    /\ Managed(p)
    /\ met' = [met EXCEPT ![p] = None]
    /\ partFiles' = partFiles \ {p}
    /\ written' = [written EXCEPT ![p] = {}]
    /\ stray' = [stray EXCEPT ![p] = {}]
    /\ downloads' = [downloads EXCEPT ![p] = None]
    /\ leases' = [leases EXCEPT ![p] = {}]
    /\ cooldown' = [cooldown EXCEPT ![p] = 0]
    /\ ThenFinalize("command")
    /\ UNCHANGED <<running, incoming>>

\* Slip: the .part is removed first, then the metadata.
DeleteFailsAfterPart(p) ==
    /\ Ready
    /\ "remove" \in Faults
    /\ Managed(p)
    /\ partFiles' = partFiles \ {p}
    /\ written' = [written EXCEPT ![p] = {}]
    /\ stray' = [stray EXCEPT ![p] = {}]
    /\ UNCHANGED <<running, memory, met, incoming>>
    /\ ThenFinalize("command")

\* The removal of the backup or of the .part failed.
DeleteFails(p) ==
    /\ Ready
    /\ "remove" \in Faults
    /\ Managed(p)
    /\ met' = [met EXCEPT ![p] = None]
    /\ UNCHANGED <<running, memory, files>>
    /\ ThenFinalize("command")

\* A command that is refused changes nothing and still runs the pass.
RefusedCommand ==
    /\ Ready
    /\ UNCHANGED <<running, memory, met, files>>
    /\ ThenFinalize("command")

-----------------------------------------------------------------------------
(* Commands of the transfer side *)

\* Slip: only the caller's limit.
BudgetOfCall(p, peer, max) == max

\* How many blocks a call may still lease under the two caps.
Budget(p, peer, max) ==
    AtMost(AtMost(max, PeerLeaseCap - Cardinality(LeasesOf(p, peer))),
           DownloadLeaseCap - Cardinality(leases[p]))

\* reserve_blocks, when it grants something.  A denial (cooldown, state, caps,
\* nothing missing) is a RefusedCommand.
ReserveBlocks(p, peer, max, size) ==
    LET blocks == FirstBlocks(downloads[p].missing, size, Budget(p, peer, max))
    IN  /\ Ready
        /\ downloads[p].state \in Active
        /\ cooldown[p] = 0
        /\ Budget(p, peer, max) > 0
        /\ blocks # {}
        /\ downloads' = [downloads EXCEPT ![p] = Reserve(@, blocks)]
        /\ leases' = [leases EXCEPT ![p] = @ \cup
                        [peer : {peer}, block : blocks, left : {LeaseTime}]]
        /\ Save(p)
        /\ ThenFinalize("command")
        /\ UNCHANGED <<running, cooldown, files>>

\* mark_block_received and mark_block_failed start with release_lease: the peer
\* must hold a lease of exactly this block.
LeaseFor(p, peer, block) == {l \in LeasesOf(p, peer) : l.block = block}

\* Slip: the lease is kept.
MarkReceivedOnly(p, peer, block) ==
    /\ downloads' = [downloads EXCEPT ![p] = Receive(@, block)]
    /\ UNCHANGED leases
    /\ Save(p)

MarkReceived(p, peer, block) ==
    /\ downloads' = [downloads EXCEPT ![p] = Receive(@, block)]
    /\ leases' = [leases EXCEPT ![p] = @ \ LeaseFor(p, peer, block)]
    /\ Save(p)

\* The MarkBlockReceived command: nothing in src/ but tests sends it, since it
\* takes the caller's word that the block is in the .part.
MarkBlockReceived(p, peer, block) ==
    /\ DirectMarks
    /\ Ready
    /\ LeaseFor(p, peer, block) # {}
    /\ MarkReceived(p, peer, block)
    /\ ThenFinalize("command")
    /\ UNCHANGED <<running, cooldown, files>>

\* persist_part_block writes what the packet carries, leased or not.
Persist(p, bytes, leased) ==
    /\ written' = [written EXCEPT ![p] = @ \cup bytes]
    /\ stray' = [stray EXCEPT ![p] = IF leased THEN @ \ bytes ELSE @ \cup bytes]

\* ingest_inbound_packet: a well-formed packet of this file, with any range in
\* it, is written to the .part and only then matched against the leases.
IngestInboundPacket(p, peer, block) ==
    LET leased == LeaseFor(p, peer, block) # {}
    IN  /\ Ready
        /\ Managed(p)
        /\ p \in partFiles
        /\ Persist(p, block, leased)
        /\ IF leased THEN MarkReceived(p, peer, block)
           ELSE UNCHANGED <<downloads, leases, met>>
        /\ ThenFinalize("command")
        /\ UNCHANGED <<running, cooldown, partFiles, incoming>>

\* The write of a packet stops in the middle.
IngestTorn(p, peer, block) ==
    /\ "save" \in Faults
    /\ Ready
    /\ Managed(p)
    /\ p \in partFiles
    /\ \E b \in block :
            Persist(p, {a \in block : a < b}, LeaseFor(p, peer, block) # {})
    /\ UNCHANGED <<running, memory, met, partFiles, incoming>>
    /\ ThenFinalize("command")

MarkBlockFailed(p, peer, block) ==
    /\ Ready
    /\ LeaseFor(p, peer, block) # {}
    /\ downloads' = [downloads EXCEPT ![p] = Fail(@, block)]
    /\ leases' = [leases EXCEPT ![p] = @ \ LeaseFor(p, peer, block)]
    /\ cooldown' = [cooldown EXCEPT ![p] = Backoff(downloads'[p])]
    /\ Save(p)
    /\ ThenFinalize("command")
    /\ UNCHANGED <<running, files>>

\* peer_disconnected and process_timeouts walk the map in order, reclaim the
\* lost leases of each download and save it; a failed save ends the walk, with
\* that download changed and not saved and the ones after it not reached.
Losing(lost) == {p \in Parts : lost[p] # {}}

Failures(hit) == IF "save" \in Faults THEN {{p} : p \in hit} ELSE {}

Before(hit, failed) == {p \in hit : \A q \in failed : p < q}

ReclaimIn(lost, parts) ==
    [p \in Parts |-> IF p \in parts THEN Reclaim(downloads[p], BlocksOf(lost[p]))
                     ELSE downloads[p]]

SaveIn(ds, parts) == [p \in Parts |-> IF p \in parts THEN ds[p] ELSE met[p]]

ReclaimLeases(lost, failed) ==
    LET saved   == Before(Losing(lost), failed)
        reached == saved \cup failed
        now     == ReclaimIn(lost, reached)
    IN  /\ downloads' = now
        /\ leases' = [p \in Parts |-> IF p \in reached THEN leases[p] \ lost[p]
                                      ELSE leases[p]]
        /\ cooldown' = [p \in Parts |-> IF p \in reached THEN Backoff(now[p])
                                        ELSE cooldown[p]]
        /\ met' = SaveIn(now, saved)

PeerDisconnected(peer) ==
    LET lost == [p \in Parts |-> LeasesOf(p, peer)]
    IN  /\ Ready
        /\ Losing(lost) # {}
        /\ \E failed \in {{}} \cup Failures(Losing(lost)) : ReclaimLeases(lost, failed)
        /\ ThenFinalize("command")
        /\ UNCHANGED <<running, files>>

-----------------------------------------------------------------------------
(* The tick *)

Expired == [p \in Parts |-> {l \in leases[p] : l.left = 0}]

\* Slip: expired leases are left alone.
TickWithoutTimeouts ==
    /\ Ready
    /\ UNCHANGED <<running, memory, met, files>>
    /\ ThenFinalize("tick")

\* One second of run_service: process_timeouts, then the finalization pass.
ServiceTick ==
    /\ Ready
    /\ ReclaimLeases(Expired, {})
    /\ ThenFinalize("tick")
    /\ UNCHANGED <<running, files>>

\* An error in process_timeouts is returned by run_service.
ServiceTickFails ==
    /\ Ready
    /\ \E failed \in Failures(Losing(Expired)) :
            LET saved == Before(Losing(Expired), failed)
            IN  met' = SaveIn(ReclaimIn(Expired, saved), saved)
    /\ Forget
    /\ UNCHANGED files

Less(t) == IF t = 0 THEN 0 ELSE t - 1

ClockTick ==
    /\ leases' = [p \in Parts |-> {[l EXCEPT !.left = Less(@)] : l \in leases[p]}]
    /\ cooldown' = [p \in Parts |-> Less(cooldown[p])]
    /\ UNCHANGED <<running, downloads, met, files, pass>>

-----------------------------------------------------------------------------
(* finalize_completed_downloads, one download at a time *)

InPass == running /\ pass.kind # "none"

\* finalize_single_download moves the .part, or finds it moved already.
Moved(p) ==
    /\ partFiles' = partFiles \ {p}
    /\ written' = [written EXCEPT ![p] = {}]
    /\ stray' = [stray EXCEPT ![p] = {}]
    /\ incoming' = incoming \cup {p}

\* Slip: incoming_file_exists is not asked.
PartIsThere(p) == p \in partFiles

Movable(p) == p \in partFiles \cup incoming

\* The error is only logged after a command, and ends the actor on a tick.
PassFails ==
    IF pass.kind = "tick" THEN Forget
    ELSE pass' = NoPass /\ UNCHANGED <<running, leases, cooldown>>

\* A Completed download only has its metadata left to remove.
FinalizeCompleted ==
    /\ InPass
    /\ pass.todo # {}
    /\ LET p == Least(pass.todo) IN
        /\ downloads[p].state = "Completed"
        /\ pass' = Pass(pass.kind, pass.todo \ {p}, pass.done \cup {p})
    /\ UNCHANGED <<running, memory, met, files>>

FinalizeCompleting ==
    /\ InPass
    /\ pass.todo # {}
    /\ LET p     == Least(pass.todo)
           whole == downloads[p].downloaded = FileSize
           after == [downloads EXCEPT
                        ![p].state = IF whole THEN "Completed" ELSE "Error"]
       IN
        /\ downloads[p].state = "Completing"
        /\ IF whole THEN Movable(p) /\ Moved(p) ELSE UNCHANGED files
        /\ downloads' = after
        /\ met' = [met EXCEPT ![p] = after[p]]
        /\ pass' = Pass(pass.kind, pass.todo \ {p},
                        IF whole THEN pass.done \cup {p} ELSE pass.done)
    /\ UNCHANGED <<running, leases, cooldown>>

\* A kill after the move and before the save of Completed.
KilledAfterMove ==
    /\ InPass
    /\ "kill" \in Faults
    /\ pass.todo # {}
    /\ LET p == Least(pass.todo) IN
        /\ downloads[p].state = "Completing"
        /\ downloads[p].downloaded = FileSize
        /\ p \in partFiles
        /\ Moved(p)
    /\ Forget
    /\ UNCHANGED met

\* One of its three writes fails: the move, known.met after the move, or the
\* .part.met after both.  With no file left to move, the move always fails.  (A
\* failed save of the Error state is left out: no download gets there.)
FinalizeFailures(p) ==
    IF ~ Movable(p) THEN {"move"}
    ELSE IF "finalize" \notin Faults THEN {}
    ELSE {"known", "met"} \cup (IF p \in partFiles THEN {"move"} ELSE {})

FinalizeFails ==
    /\ InPass
    /\ pass.todo # {}
    /\ LET p == Least(pass.todo) IN
        /\ downloads[p].state = "Completing"
        /\ downloads[p].downloaded = FileSize
        /\ \E failed \in FinalizeFailures(p) :
            /\ IF failed = "move" THEN UNCHANGED files ELSE Moved(p)
            /\ PassFails
            /\ pass.kind = "command" =>
                downloads' = IF failed = "met"
                             THEN [downloads EXCEPT ![p].state = "Completed"]
                             ELSE downloads
    /\ UNCHANGED met

\* delete_download_metadata_only, after the loop: .part.met, its backup, and the
\* map entry, which stays when a removal fails.
RemoveMetadata ==
    /\ InPass
    /\ pass.todo = {}
    /\ LET p == Least(pass.done) IN
        /\ met' = [met EXCEPT ![p] = None]
        /\ downloads' = [downloads EXCEPT ![p] = None]
        /\ leases' = [leases EXCEPT ![p] = {}]
        /\ cooldown' = [cooldown EXCEPT ![p] = 0]
        /\ pass' = Pass(pass.kind, {}, pass.done \ {p})
    /\ UNCHANGED <<running, files>>

RemoveFails ==
    /\ InPass
    /\ pass.todo = {}
    /\ "remove" \in Faults
    /\ met' \in {met, [met EXCEPT ![Least(pass.done)] = None]}
    /\ PassFails
    /\ pass.kind = "command" => UNCHANGED downloads
    /\ UNCHANGED files

-----------------------------------------------------------------------------
(* Stop and start *)

\* Kill, or the Shutdown command: the map is gone, the files stay.
Stop ==
    /\ running
    /\ "kill" \in Faults
    /\ Forget
    /\ UNCHANGED <<met, files>>

\* start_service: scan_recoverable_downloads, then the top of run_service.
Start ==
    /\ ~ running
    /\ running' = TRUE
    /\ downloads' = [p \in Parts |-> Recover(met[p])]
    /\ UNCHANGED <<leases, cooldown, met, files, pass>>

Init ==
    /\ running = TRUE
    /\ downloads = [p \in Parts |-> None]
    /\ leases = [p \in Parts |-> {}]
    /\ cooldown = [p \in Parts |-> 0]
    /\ met = [p \in Parts |-> None]
    /\ partFiles = {}
    /\ written = [p \in Parts |-> {}]
    /\ stray = [p \in Parts |-> {}]
    /\ incoming = {}
    /\ pass = NoPass

UserCommand ==
    \/ CreateDownload
    \/ \E p \in Parts :
            \/ Pause(p)
            \/ Resume(p)
            \/ Cancel(p)
            \/ DeleteDownload(p)
            \/ DeleteFails(p)
    \/ RefusedCommand

TransferCommand ==
    \/ \E p \in Parts, peer \in Peers, max \in 1 .. MaxReserveBlocks, size \in BlockSizes :
            ReserveBlocks(p, peer, max, size)
    \/ \E p \in Parts, peer \in Peers, block \in Blocks :
            \/ MarkBlockReceived(p, peer, block)
            \/ IngestInboundPacket(p, peer, block)
            \/ IngestTorn(p, peer, block)
            \/ MarkBlockFailed(p, peer, block)
    \/ \E peer \in Peers : PeerDisconnected(peer)

Finalize == FinalizeCompleted \/ FinalizeCompleting \/ KilledAfterMove \/ FinalizeFails
            \/ RemoveMetadata \/ RemoveFails

Next == UserCommand \/ TransferCommand \/ ServiceTick \/ ServiceTickFails
        \/ ClockTick \/ Finalize \/ Stop \/ Start

Spec == Init /\ [][Next]_vars

\* The actor's loop and the clock keep going; select! picks among the ready
\* branches at random, so a tick that is ready again and again is taken, and a
\* kill does not hit every finalization.
Fairness ==
    /\ WF_vars(Start)
    /\ WF_vars(ClockTick)
    /\ SF_vars(ServiceTick)
    /\ SF_vars(FinalizeCompleted)
    /\ SF_vars(FinalizeCompleting)
    /\ SF_vars(RemoveMetadata)

FairSpec == Spec /\ Fairness

-----------------------------------------------------------------------------
(* Properties *)

\* Every variable stays in its range; in particular no path of the code counts more
\* retries or downloaded bytes than there can be.
TypeOK ==
    /\ running \in BOOLEAN
    /\ downloads \in [Parts -> PartMet]
    /\ leases \in [Parts -> SUBSET Lease]
    /\ cooldown \in [Parts -> 0 .. BackoffMax]
    /\ met \in [Parts -> PartMet]
    /\ partFiles \subseteq Parts
    /\ written \in [Parts -> SUBSET Bytes]
    /\ stray \in [Parts -> SUBSET Bytes]
    /\ incoming \subseteq Parts
    /\ pass \in [kind : PassKinds, todo : SUBSET Parts, done : SUBSET Parts]

\* The leases ls of a download are what its metadata d calls in flight.
Accounted(d, ls) ==
    /\ d.inflight = BlocksOf(ls)
    /\ \A l \in ls : l.block # {} /\ l.block \cap d.missing = {}
    /\ \A l, m \in ls : l # m => l.block \cap m.block = {}

\* The in-flight ranges of a download are the blocks of its leases, so every one
\* of them is given back or received some day, and no byte is both missing and in
\* flight, or in flight with two peers.
LeaseAccounting == \A p \in Parts : Accounted(downloads[p], leases[p])

\* The caps of reserve_blocks hold over any sequence of calls.
LeaseCaps ==
    \A p \in Parts :
        /\ Cardinality(leases[p]) <= DownloadLeaseCap
        /\ \A peer \in Peers : Cardinality(LeasesOf(p, peer)) <= PeerLeaseCap

\* Metadata in a completed state describes a whole file.
Whole(m) ==
    /\ m.state \in {"Completing", "Completed"} =>
          Outstanding(m) = {} /\ m.downloaded = FileSize
    /\ m.state # "Error"

\* A download is completing, in the actor or on disk, only when nothing of it is
\* outstanding, and then its size adds up: finalization never ends in Error.
CompletionIsWhole == \A p \in Parts : Whole(downloads[p]) /\ Whole(met[p])

\* What the metadata on disk calls received is in the .part on disk, whatever
\* write failed and whenever the process was killed.
RecoveryIsBacked ==
    \A p \in partFiles : met[p] # None => Received(met[p]) \subseteq written[p]

\* Metadata on disk claims no more than the actor knows: a restart can only ask
\* again for what was already received, never skip what was not.
DiskNotAhead ==
    \A p \in Parts : Managed(p) /\ met[p] # None =>
        Received(met[p]) \subseteq Received(downloads[p])

\* A restart recovers what the actor had, up to the blocks in flight: every
\* handler saves what it changed.
RestartIsExact ==
    \A p \in Parts : Managed(p) /\ met[p] # None =>
        Recover(met[p]) = Recover(downloads[p])

\* A download with blocks to fetch has the .part file to write them to.
ActiveHasPartFile ==
    \A p \in Parts : downloads[p].state \in Active => p \in partFiles

\* Only Resume takes a paused download back into the queue: leases that fail,
\* expire or arrive while it is paused do not.
PauseHolds ==
    [][\A p \in partFiles :
        downloads[p].state = "Paused" /\ downloads'[p].state \in Active => Resume(p)]_vars

\* Received bytes stay received: in the actor, as long as the .part is there (once
\* it is delivered its number may be used again), and on disk.
NothingReceivedIsLost ==
    [][\A p \in Parts :
        /\ p \in partFiles /\ Managed(p) /\ Managed(p)' =>
              Received(downloads[p]) \subseteq Received(downloads'[p])
        /\ met[p] # None /\ met'[p] # None => Received(met[p]) \subseteq Received(met'[p])]_vars

\* A leased block is received or given back within the lease time.
LeasesComeBack ==
    \A p \in Parts : \A b \in Bytes :
        b \in UNION downloads[p].inflight ~> b \notin UNION downloads[p].inflight

\* A download saved as complete leaves the disk of the queue: its .part is moved
\* and its metadata removed (or the user deletes both), through any restarts, and
\* even if the process was killed when the .part had gone and the metadata still
\* said Completing.
CompletingIsSettled ==
    \A p \in Parts :
        met[p].state = "Completing" ~> met[p] = None /\ p \notin partFiles

\* A cancelled download stays cancelled until it is deleted.
CancelHolds ==
    [][\A p \in Parts :
        downloads[p].state = "Cancelled" => downloads'[p].state \in {"Cancelled", "None"}]_vars

\* What counts as received was delivered under a lease.
ReceivedUnderLease ==
    \A p \in Parts : Managed(p) => Received(downloads[p]) \cap stray[p] = {}
=============================================================================
