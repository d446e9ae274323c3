---------------------------- MODULE TransferPump ----------------------------
(***************************************************************************)
(* The task that fetches blocks for the downloads                          *)
(* (run_download_transfer_pump, src/src/app.rs).  Every two seconds it     *)
(* lists the downloads and goes through the list: it asks the KAD service  *)
(* for a source, reserves blocks, fetches them one after the other from    *)
(* that peer, and only then hands them to the download actor.  Much may    *)
(* happen to the downloads in between: a part number is deleted and given  *)
(* to another file, a lease runs out.                                      *)
(*                                                                         *)
(* Of the actor (DownloadService has all of it) there is what the pump     *)
(* calls: reserve, ingest, fail, peer disconnected, and the reclaiming of  *)
(* leases.                                                                 *)
(*                                                                         *)
(* A definition marked "Slip" is a mistaken form of the one after it.      *)
(***************************************************************************)
EXTENDS Integers, Sequences, FiniteSets

CONSTANTS
    Parts, Files, Peers,
    None,       \* no download
    NBlocks,    \* blocks of a file
    MaxReserve, \* MAX_BLOCKS_PER_RESERVE
    LeaseTime,  \* INFLIGHT_LEASE_TIMEOUT
    IoTime      \* TRANSFER_IO_TIMEOUT

\* What the constants may be; HostServices assumes it.
PumpAssumption ==
    /\ None \notin Files
    /\ {NBlocks, MaxReserve, LeaseTime, IoTime} \subseteq Nat \ {0}

VARIABLES
    downloads,  \* the actor: the file of each part number, what is missing,
                \* whose blocks its .part has, and the leases
    todo,       \* what is left of the list
    visit,      \* the download the pump is at
    waited      \* how long the current connect or request takes

pumpVars == <<downloads, todo, visit, waited>>

Blocks == 1 .. NBlocks

NoDownload == [file |-> None, missing |-> {}, got |-> [b \in Blocks |-> None], leases |-> {}]

\* A lease is spoilt when a step failed that it depended on (a history field).
Lease(peer, b, spoilt) == [peer |-> peer, block |-> b, left |-> LeaseTime, spoilt |-> spoilt]

\* Of a visit: the blocks reserved, those asked for, and the answers, in order.
NoVisit == [at |-> "list", part |-> 0, file |-> None, peer |-> None,
            blocks |-> {}, asked |-> {}, packets |-> <<>>]

Init ==
    /\ downloads = [p \in Parts |-> NoDownload]
    /\ todo = {}
    /\ visit = NoVisit
    /\ waited = 0

-----------------------------------------------------------------------------
(* The actor and its other clients. *)

CreateDownload(p, f) ==
    /\ downloads[p].file = None
    /\ downloads' = [downloads EXCEPT ![p] = [NoDownload EXCEPT !.file = f, !.missing = Blocks]]
    /\ UNCHANGED <<todo, visit, waited>>

DeleteDownload(p) ==
    /\ downloads[p].file # None
    /\ downloads' = [downloads EXCEPT ![p] = NoDownload]
    /\ UNCHANGED <<todo, visit, waited>>

\* Gives leases back.
Released(d, gone) ==
    [d EXCEPT !.leases = @ \ gone, !.missing = @ \cup {l.block : l \in gone}]

\* Time passes: leases run out; an I/O of the pump is given up in time.
Tick ==
    /\ visit.at = "fetch" => waited < IoTime
    /\ waited' = IF visit.at = "fetch" THEN waited + 1 ELSE 0
    /\ downloads' = [p \in Parts |->
          LET d == [downloads[p] EXCEPT !.leases = {[l EXCEPT !.left = @ - 1] : l \in @}]
          IN  Released(d, {l \in d.leases : l.left = 0})]
    /\ UNCHANGED <<todo, visit>>

-----------------------------------------------------------------------------
(* The pump. *)

\* A tick of the pump: the list, of part numbers with their files.
List ==
    /\ visit.at = "list" /\ todo = {}
    /\ todo' = {<<p, downloads[p].file>> : p \in {q \in Parts : downloads[q].file # None}}
    /\ UNCHANGED <<downloads, visit, waited>>

Visit(v) ==
    /\ todo' = todo \ {<<v.part, v.file>>}
    /\ visit' = v

\* The next download has no source, the answer is late, or the search for one
\* is started; the download may also have gone into another state.
Skip ==
    /\ visit.at = "list"
    /\ \E item \in todo : todo' = todo \ {item}
    /\ UNCHANGED <<downloads, visit, waited>>

\* The first source the KAD service knows.
ChooseSource(item, peer) ==
    /\ visit.at = "list" /\ item \in todo
    /\ Visit([NoVisit EXCEPT !.at = "reserve", !.part = item[1], !.file = item[2], !.peer = peer])
    /\ UNCHANGED <<downloads, waited>>

\* The lowest n missing blocks, which go to the peer.
Lowest(d, n) == {b \in d.missing : Cardinality({c \in d.missing : c <= b}) <= n}

Leased(d, peer, blocks, spoilt) ==
    [d EXCEPT !.missing = @ \ blocks,
              !.leases = @ \cup {Lease(peer, b, spoilt) : b \in blocks}]

\* reserve_blocks_for_peer knows the part number only; it grants the lowest
\* missing blocks, as many as the caps allow, none during a cooldown.  When it
\* cannot save them it fails with the leases taken, and the pump goes on.
Reserve ==
    /\ visit.at = "reserve"
    /\ \/ \E n \in 1 .. MaxReserve :
             LET d      == downloads[visit.part]
                 blocks == Lowest(d, n)
             IN  /\ blocks # {}
                 /\ \/ /\ visit' = [visit EXCEPT !.at = "fetch", !.blocks = blocks]
                       /\ downloads' = [downloads EXCEPT
                             ![visit.part] = Leased(d, visit.peer, blocks, FALSE)]
                    \/ /\ visit' = NoVisit
                       /\ downloads' = [downloads EXCEPT
                             ![visit.part] = Leased(d, visit.peer, blocks, TRUE)]
       \/ visit' = NoVisit /\ UNCHANGED downloads
    /\ waited' = 0
    /\ UNCHANGED todo

\* The leases of a block to the peer of the visit can no longer be used.
Spoilt(d, b) ==
    [d EXCEPT !.leases =
        {[l EXCEPT !.spoilt = @ \/ (l.peer = visit.peer /\ l.block = b)] : l \in @}]

\* request_block: the answer is a packet with a block, which need not be the one
\* it was asked for, or with anything else, 0.
FetchBlock ==
    /\ visit.at = "fetch" /\ visit.asked # visit.blocks
    /\ \E b \in visit.blocks \ visit.asked, packet \in Blocks \cup {0} :
          /\ \A c \in visit.blocks \ visit.asked : b <= c
          /\ visit' = [visit EXCEPT !.asked = @ \cup {b}, !.packets = Append(@, packet)]
          /\ IF packet = b
             THEN UNCHANGED downloads
             ELSE downloads' = [downloads EXCEPT ![visit.part] = Spoilt(@, b)]
    /\ waited' = 0
    /\ UNCHANGED todo

Fetched ==
    /\ visit.at = "fetch" /\ visit.asked = visit.blocks
    /\ visit' = [visit EXCEPT !.at = "ingest"]
    /\ waited' = 0
    /\ UNCHANGED <<downloads, todo>>

\* Slip: the blocks that came before the error are neither ingested nor given
\* back.
LeftBehind(d) == {l \in d.leases : l.peer = visit.peer /\ l.block \notin visit.asked}

\* mark_block_failed_by_peer for every block and peer_disconnected.
GivenBack(d) == {l \in d.leases : l.peer = visit.peer}

\* The connect or a request fails or times out, after some blocks have come.
FetchFails ==
    /\ visit.at = "fetch"
    /\ downloads' = [p \in Parts |-> Released(downloads[p], GivenBack(downloads[p]))]
    /\ visit' = NoVisit
    /\ waited' = 0
    /\ UNCHANGED <<todo>>

\* Slip: ingest does not look at the hash in the packet.
ForAnyFile(d, file) == d.file # None

\* ingest_inbound_packet: the packet is for this file.
ForThisFile(d, file) == d.file = file

\* A packet is written, and then counts if its block is leased to the peer.
\* An error is only logged: what was leased is left to its deadline.
Ingest ==
    /\ visit.at = "ingest"
    /\ LET d == downloads[visit.part]
           b == Head(visit.packets)
           leased == {l \in d.leases : l.peer = visit.peer /\ l.block = b}
       IN  /\ visit' = IF Tail(visit.packets) = <<>> THEN NoVisit
                       ELSE [visit EXCEPT !.packets = Tail(@)]
           /\ \/ /\ b # 0 /\ ForThisFile(d, visit.file)
                 /\ downloads' = [downloads EXCEPT ![visit.part] =
                       [d EXCEPT !.leases = @ \ leased, !.got[b] = visit.file]]
              \* it is for another file, or malformed, or the disk fails
              \/ downloads' = [downloads EXCEPT ![visit.part] = Spoilt(@, b)]
    /\ UNCHANGED <<todo, waited>>

Next ==
    \/ \E p \in Parts, f \in Files : CreateDownload(p, f)
    \/ \E p \in Parts : DeleteDownload(p)
    \/ Tick
    \/ List
    \/ Skip
    \/ \E item \in todo, peer \in Peers : ChooseSource(item, peer)
    \/ Reserve
    \/ FetchBlock
    \/ Fetched
    \/ FetchFails
    \/ Ingest

Spec == Init /\ [][Next]_pumpVars

-----------------------------------------------------------------------------
(* Properties. *)

\* A .part has blocks of its own file only, although the pump keeps a part
\* number through list, reserve and fetch while it may be deleted and given to
\* another file.
OwnBlocksOnly ==
    \A p \in Parts, b \in Blocks : downloads[p].got[b] \in {None, downloads[p].file}

\* When the pump is done with a peer, whether everything came or only some of
\* it, and whatever became of the part number meanwhile, no lease of the visit is
\* left to its deadline but those whose own step failed: the reserve that took it
\* was not saved, the answer was not the block asked for, the packet was for
\* another file by then, or the disk failed.  A step that fails for one block
\* leaves no other.
NothingLeftBehind ==
    visit.at = "list" =>
        \A p \in Parts : \A l \in downloads[p].leases : l.spoilt
=============================================================================
