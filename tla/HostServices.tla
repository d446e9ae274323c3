---------------------------- MODULE HostServices ----------------------------
(***************************************************************************)
(* The parts of the file side that keep state of their own, with one       *)
(* instance each.  They share no variable, so a behaviour runs one of      *)
(* them, part, and leaves the others as they begin.                        *)
(***************************************************************************)
EXTENDS Integers

CONSTANTS
    None, Torn, Files,
    \* ranges
    FileSize, BlockSizes, MaxBlocks, MaxInflight,
    \* files
    Slots, MayDamage,
    \* pump
    Parts, Sources, NBlocks, MaxReserve, LeaseTime, IoTime,
    \* uploads
    Streams, Peers, Ranges, ActivityTTL, Retention, MaxRecent, MaxSessions,
    \* library
    Paths, Contents, Republish, Cooldown, Stamps,
    \* settings
    Clients, Fields, Values, Default

VARIABLES
    part,
    missing, inflight, downloaded,                          \* ranges
    met, bak, met_tmp, part_file, incoming, known, known_tmp, entry, known_keys,
    lost, pc, reason, target, log, leftover,                \* files
    downloads, todo, visit, waited,                         \* pump
    stream, active, recent, next_id, failed,                \* uploads
    disk, cache, library, status, runs, fresh, age, repeated, \* library
    cfg, file, tmp, request, orphans, acked, dropped        \* settings

Lists == INSTANCE RangeLists

Store == INSTANCE PartStore WITH tmp <- met_tmp, part <- part_file

Pump == INSTANCE TransferPump WITH Peers <- Sources

Uploads == INSTANCE UploadTracker WITH TTL <- ActivityTTL

Library == INSTANCE SharedOps

Settings == INSTANCE HostSettings

ASSUME InstancesAssumption ==
    /\ Lists!RangeAssumption /\ Store!PartStoreAssumption /\ Pump!PumpAssumption
    /\ Uploads!TrackerAssumption /\ Library!SharedOpsAssumption
    /\ Settings!SettingsAssumption

ranges     == <<missing, inflight, downloaded>>
part_store == <<met, bak, met_tmp, part_file, incoming, known, known_tmp, entry,
                known_keys, lost, pc, reason, target, log, leftover>>
pump       == <<downloads, todo, visit, waited>>
uploads    == <<stream, active, recent, next_id, failed>>
shared     == <<disk, cache, library, status, runs, fresh, age, repeated>>
settings   == <<cfg, file, tmp, request, orphans, acked, dropped>>
vars == <<part, ranges, part_store, pump, uploads, shared, settings>>

Init ==
    /\ part \in {"ranges", "files", "pump", "uploads", "library", "settings"}
    /\ Lists!Init
    /\ Store!Init
    /\ Pump!Init
    /\ Uploads!Init
    /\ Library!Init
    /\ Settings!Init

Next ==
    /\ part' = part
    /\ IF part = "ranges" THEN Lists!Next ELSE UNCHANGED ranges
    /\ IF part = "files" THEN Store!Next ELSE UNCHANGED part_store
    /\ IF part = "pump" THEN Pump!Next ELSE UNCHANGED pump
    /\ IF part = "uploads" THEN Uploads!Next ELSE UNCHANGED uploads
    /\ IF part = "library" THEN Library!Next ELSE UNCHANGED shared
    /\ IF part = "settings" THEN Settings!Next ELSE UNCHANGED settings

Spec == Init /\ [][Next]_vars

-----------------------------------------------------------------------------
(* The properties of the parts, each stated where its part is modelled. *)

\* The vectors of ranges do what the sets of bytes of BlockPool do:
\* RangeLists!ImplementsPool, with its steps looked at only while they run.
ImplementsPool ==
    /\ Lists!Pool!Init
    /\ [][part = "ranges" => Lists!Pool!Next]_vars
    /\ []Lists!Canonical

\* A start loads the last metadata saved, or the backup of one before it.
LoadIsRecent == Store!LoadIsRecent

\* A finished file is whole in one place or the other.
ContentIsKept == Store!ContentIsKept

\* A .part has only blocks of its own file.
OwnBlocksOnly == Pump!OwnBlocksOnly

\* The pump leaves no lease to its deadline.
NothingLeftBehind == Pump!NothingLeftBehind

\* A range shown as being sent is.
ActiveIsSent == Uploads!ActiveIsSent

\* An undisturbed index is right, whatever the ones before it left.
IndexIsTrue == Library!IndexIsTrue

\* A file is announced once in a cooldown.
AnnouncedOnce == Library!AnnouncedOnce

\* An answered patch is in force and in config.toml.
PatchesLast == Settings!PatchesLast
=============================================================================
