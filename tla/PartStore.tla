----------------------------- MODULE PartStore ------------------------------
(***************************************************************************)
(* The files of one part number, one file operation at a time, with a kill *)
(* or a failure at any of them: NNN.part.met with its backup and temporary *)
(* (src/src/download/store.rs), NNN.part, the incoming directory and       *)
(* known.met (finalize_completed_downloads and what it calls,              *)
(* src/src/download/service.rs).  DownloadService takes the save and each  *)
(* stage of a finalization for one step; here they are many.               *)
(*                                                                         *)
(* A kill within an operation leaves what its failure leaves.  All files   *)
(* have the same name, so that they compete for it in incoming.            *)
(*                                                                         *)
(* A definition marked "Slip" is a mistaken form of the one after it.      *)
(***************************************************************************)
EXTENDS Integers, FiniteSets

CONSTANTS
    Files,      \* what may be downloaded
    None, Torn, \* no file; what a cut write leaves
    Slots,      \* bound: the names unique_incoming_path tries, 1 .. n
    MayDamage   \* whether .part.met and known.met may become unreadable while we are down

\* What .part.met may hold of a download.
Mets == [file : Files, state : {"queued", "downloading", "completing", "completed"}]

\* What the constants may be; HostServices assumes it.
PartStoreAssumption ==
    /\ {None, Torn} \cap (Files \cup Mets) = {} /\ None # Torn
    /\ \A S \in SUBSET Files : S # Torn
    /\ Slots \in Nat \ {0}
    /\ MayDamage \in BOOLEAN

VARIABLES
    met, bak, tmp,    \* NNN.part.met, its .bak and its .tmp
    part,             \* NNN.part: None or the file it belongs to
    incoming,         \* what is under each name
    known, known_tmp, \* known.met and its .tmp, sets of files; known may be Torn
    entry,            \* the download in the actor's map
    known_keys,       \* the actor's copy of known.met
    lost,             \* history: what unreadable versions of known.met listed
    pc,               \* the operation that is next, "ready", or "dead"
    reason,           \* who saves: "create", "command" or "finalize"
    target,           \* where a copy went
    log,              \* history: the last two versions of met
    leftover          \* history: bak is of a download that is gone

storeFiles == <<met, bak, tmp, part, incoming, known, known_tmp>>
partStoreVars == <<storeFiles, entry, known_keys, lost, pc, reason, target, log, leftover>>

Met(file, state) == [file |-> file, state |-> state]

Init ==
    /\ met = None /\ bak = None /\ tmp = None /\ part = None
    /\ incoming = [s \in 1 .. Slots |-> None]
    /\ known = {} /\ known_tmp = {}
    /\ entry = None
    /\ known_keys = {} /\ lost = {}
    /\ pc = "ready" /\ reason = "command" /\ target = 1
    /\ log = <<None, None>> /\ leftover = FALSE

-----------------------------------------------------------------------------
(* save_part_met. *)

\* A failed save of a new download leaves no entry; one in a finalization
\* ends the actor when the tick runs it.
SaveFails ==
    /\ entry' = IF reason = "create" THEN None ELSE entry
    /\ pc' \in IF reason = "finalize" THEN {"ready", "dead"} ELSE {"ready"}

SaveStep == UNCHANGED <<part, incoming, known, known_tmp, known_keys, lost, reason, target>>

\* Slip: a backup is made once.
BackedUpOnce == IF bak = None THEN met ELSE bak

\* What the copy of the old metadata makes of the backup.
BackedUp == met

Backup ==
    /\ pc = "backup"
    /\ \/ /\ bak' = IF met = None THEN bak ELSE BackedUp
          /\ pc' = "write"
          /\ UNCHANGED entry
       \/ met # None /\ bak' = Torn /\ SaveFails
    /\ leftover' = (leftover /\ met = None)
    /\ UNCHANGED <<met, tmp, log>>
    /\ SaveStep

WriteMet ==
    /\ pc = "write"
    /\ \/ tmp' = entry /\ pc' = "rename" /\ UNCHANGED entry
       \/ tmp' = Torn /\ SaveFails
    /\ UNCHANGED <<met, bak, log, leftover>>
    /\ SaveStep

RenameMet ==
    /\ pc = "rename"
    /\ \/ /\ met' = tmp
          /\ tmp' = None
          /\ log' = <<log[2], tmp>>
          /\ pc' = IF reason = "finalize" THEN "remove_met" ELSE "ready"
          /\ UNCHANGED entry
       \/ SaveFails /\ UNCHANGED <<met, tmp, log>>
    /\ UNCHANGED <<bak, leftover>>
    /\ SaveStep

\* A handler changes the entry and saves it.
SaveEntry(m, why) ==
    /\ entry' = m
    /\ pc' = "backup"
    /\ reason' = why

-----------------------------------------------------------------------------
(* Commands. *)

\* create_download takes the number when neither .part nor .part.met exists.
CreateDownload(f) ==
    /\ pc = "ready" /\ part = None /\ met = None
    /\ part' = f
    /\ SaveEntry(Met(f, "queued"), "create")
    /\ UNCHANGED <<met, bak, tmp, incoming, known, known_tmp, known_keys, lost, target, log, leftover>>

\* Blocks are leased, then the last one arrives.
Advance ==
    /\ pc = "ready" /\ entry # None
    /\ \/ entry.state = "queued" /\ SaveEntry(Met(entry.file, "downloading"), "command")
       \/ /\ entry.state = "downloading" /\ part = entry.file
          /\ SaveEntry(Met(entry.file, "completing"), "command")
    /\ UNCHANGED <<storeFiles, known_keys, lost, target, log, leftover>>

\* delete_download: .part.met, .bak and .part, then the entry.
BeginDelete ==
    /\ pc = "ready" /\ entry # None
    /\ pc' = "delete_met"
    /\ UNCHANGED <<storeFiles, entry, known_keys, lost, reason, target, log, leftover>>

Follows(step) ==
    CASE step = "delete_met" -> "delete_bak" [] step = "delete_bak" -> "delete_part"
      [] step = "remove_met" -> "remove_bak" [] OTHER -> "ready"

\* One removal of a deletion, or of delete_download_metadata_only, which may
\* fail; the last takes the entry.
Remove(step) ==
    /\ pc = step
    /\ \/ /\ met' = IF step \in {"delete_met", "remove_met"} THEN None ELSE met
          /\ log' = IF step \in {"delete_met", "remove_met"} THEN <<None, None>> ELSE log
          /\ bak' = IF step \in {"delete_bak", "remove_bak"} THEN None ELSE bak
          /\ leftover' = (met' = None /\ bak' # None)
          /\ part' = IF step = "delete_part" THEN None ELSE part
          /\ pc' = Follows(step)
          /\ entry' = IF pc' = "ready" THEN None ELSE entry
       \/ /\ pc' \in IF step \in {"remove_met", "remove_bak"} THEN {"ready", "dead"} ELSE {"ready"}
          /\ UNCHANGED <<met, log, leftover, bak, part, entry>>
    /\ UNCHANGED <<tmp, incoming, known, known_tmp, known_keys, lost, reason, target>>

-----------------------------------------------------------------------------
(* finalize_completed_downloads. *)

BeginPass ==
    /\ pc = "ready" /\ entry # None
    /\ \/ entry.state = "completing" /\ pc' = "move"
       \/ entry.state = "completed" /\ pc' = "remove_met"
    /\ UNCHANGED <<storeFiles, entry, known_keys, lost, reason, target, log, leftover>>

\* unique_incoming_path
FreeSlots == {s \in 1 .. Slots : incoming[s] = None}
FreeSlot == CHOOSE s \in FreeSlots : \A t \in FreeSlots : s <= t

PassFails == pc' \in {"ready", "dead"}

\* Slip: the .part goes although its copy was cut.
PartAfterCopy(cut) == None

\* The .part while the copy is made of it.
PartAfterCut(cut) == part

\* finalize_single_download: a rename, or when that fails a copy.
MovePart ==
    /\ pc = "move" /\ part # None /\ FreeSlots # {}
    /\ target' = FreeSlot
    /\ \/ /\ incoming' = [incoming EXCEPT ![FreeSlot] = part]
          /\ part' = None
          /\ pc' = "known_write"
       \/ /\ incoming' = [incoming EXCEPT ![FreeSlot] = part]
          /\ pc' = "unlink"
          /\ UNCHANGED part
       \/ /\ incoming' = [incoming EXCEPT ![FreeSlot] = Torn]
          /\ part' = PartAfterCut(TRUE)
          /\ PassFails
    /\ UNCHANGED <<met, bak, tmp, known, known_tmp, entry, known_keys, lost, reason, log, leftover>>

\* The copied .part is removed; when that fails, so is the copy, if it can be.
UnlinkPart ==
    /\ pc = "unlink"
    /\ \/ part' = None /\ pc' = "known_write" /\ UNCHANGED incoming
       \/ /\ \/ incoming' = [incoming EXCEPT ![target] = None]
             \/ UNCHANGED incoming
          /\ PassFails
          /\ UNCHANGED part
    /\ UNCHANGED <<met, bak, tmp, known, known_tmp, entry, known_keys, lost, reason, target, log, leftover>>

\* No .part: an earlier pass moved it, if any of the names is there.
MissingPart ==
    /\ pc = "move" /\ part = None
    /\ \/ FreeSlots # 1 .. Slots /\ pc' = "known_write"
       \/ FreeSlots = 1 .. Slots /\ PassFails
    /\ UNCHANGED <<storeFiles, entry, known_keys, lost, reason, target, log, leftover>>

\* persist_known_entry; a known.met that does not parse fails it.
WriteKnown ==
    /\ pc = "known_write"
    /\ \/ entry.file \in known_keys /\ pc' = "settle" /\ UNCHANGED known_tmp
       \/ entry.file \notin known_keys /\ known = Torn /\ PassFails /\ UNCHANGED known_tmp
       \/ /\ entry.file \notin known_keys /\ known # Torn
          /\ \/ entry.file \in known /\ pc' = "settle" /\ UNCHANGED known_tmp
             \/ /\ entry.file \notin known
                /\ \/ known_tmp' = known \cup {entry.file} /\ pc' = "known_rename"
                   \/ PassFails /\ UNCHANGED known_tmp
    /\ UNCHANGED <<met, bak, tmp, part, incoming, known, entry, known_keys, lost, reason,
                   target, log, leftover>>

RenameKnown ==
    /\ pc = "known_rename"
    /\ \/ /\ known' = known_tmp
          /\ known_keys' = known_keys \cup {entry.file}
          /\ pc' = "settle"
       \/ PassFails /\ UNCHANGED <<known, known_keys>>
    /\ UNCHANGED <<met, bak, tmp, part, incoming, known_tmp, entry, lost, reason, target, log, leftover>>

Settle ==
    /\ pc = "settle"
    /\ SaveEntry(Met(entry.file, "completed"), "finalize")
    /\ UNCHANGED <<storeFiles, known_keys, lost, target, log, leftover>>

-----------------------------------------------------------------------------
(* The end of the process and its start. *)

Kill ==
    /\ pc' = "dead"
    /\ UNCHANGED <<storeFiles, entry, known_keys, lost, reason, target, log, leftover>>

Damage ==
    /\ MayDamage /\ pc = "dead" /\ met \notin {None, Torn}
    /\ met' = Torn
    /\ UNCHANGED <<bak, tmp, part, incoming, known, known_tmp, entry, known_keys, lost, pc,
                   reason, target, log, leftover>>

DamageKnown ==
    /\ MayDamage /\ pc = "dead" /\ known # Torn
    /\ known' = Torn
    /\ lost' = lost \cup known
    /\ UNCHANGED <<met, bak, tmp, part, incoming, known_tmp, entry, known_keys, pc, reason,
                   target, log, leftover>>

\* load_part_met_with_fallback, for a .part.met that exists.
Loaded ==
    CASE met # Torn -> met
      [] met = Torn /\ bak \in {None, Torn} -> None
      [] OTHER -> bak

\* load_known_keys_resilient: a known.met that does not parse is put aside, if
\* it can be, and the start goes on with no keys.
LoadKnown ==
    \/ known # Torn /\ known_keys' = known /\ UNCHANGED known
    \/ known = Torn /\ known_keys' = {} /\ known' \in {Torn, {}}

\* start_service scans for .part.met files and reads known.met.
Start ==
    /\ pc = "dead"
    /\ pc' = "ready"
    /\ entry' = Loaded
    /\ LoadKnown
    /\ UNCHANGED <<met, bak, tmp, part, incoming, known_tmp, lost, reason, target, log, leftover>>

Next ==
    \/ \E f \in Files : CreateDownload(f)
    \/ Advance
    \/ BeginDelete
    \/ Backup \/ WriteMet \/ RenameMet
    \/ \E step \in {"delete_met", "delete_bak", "delete_part", "remove_met", "remove_bak"} :
          Remove(step)
    \/ BeginPass \/ MovePart \/ UnlinkPart \/ MissingPart
    \/ WriteKnown \/ RenameKnown \/ Settle
    \/ Kill \/ Damage \/ DamageKnown \/ Start

Spec == Init /\ [][Next]_partStoreVars

-----------------------------------------------------------------------------
(* Properties. *)

\* Wherever the process was killed, the start loads the last version that was
\* saved, or, when the .part.met cannot be read, that version or the one
\* before it from the backup, and nothing where there was only one; unless the
\* backup was cut, or was left there by an earlier download of the number,
\* whose .part.met was removed and its .bak not: then it is loaded for the new
\* one until that is saved twice.
LoadIsRecent ==
    pc = "dead" /\ met # None =>
        IF met # Torn THEN Loaded = log[2]
        ELSE Loaded \in {log[1], log[2]} \/ bak = Torn \/ leftover

\* The metadata of a download is recoverable from its backup: what is loaded
\* when the .part.met cannot be read is of the same file.
FallbackIsOwn ==
    pc = "dead" /\ met = Torn /\ Loaded # None => Loaded.file = log[2].file

\* A finished file is never only in memory: as long as its metadata says that
\* it is complete, the .part is there or a whole copy is in incoming, although
\* the move may be a copy cut short, repeated under another name or undone;
\* and a download that is called completed is in incoming and, unless a known.met
\* could not be read, in known.met.
ContentIsKept ==
    met \notin {None, Torn} =>
        LET delivered == \E s \in 1 .. Slots : incoming[s] = met.file
        IN  /\ met.state = "completing" => part = met.file \/ delivered
            /\ met.state = "completed" => /\ delivered
                                           /\ \/ met.file \in lost
                                              \/ known # Torn /\ met.file \in known
=============================================================================
