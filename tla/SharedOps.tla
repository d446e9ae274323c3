------------------------------ MODULE SharedOps -----------------------------
(***************************************************************************)
(* The shared library and the operations on it: the index with its cache   *)
(* (src/src/share.rs), the actions an API client starts, each with a task  *)
(* of its own (src/src/shared_ops.rs), and the start of the process, which *)
(* indexes and announces by itself (src/src/app.rs).  Files change while   *)
(* all of that runs, and the process may be killed.                        *)
(*                                                                         *)
(* A file is its stamp (size and modification time) and its content, which *)
(* stands for the hash too.  A change of the share roots is that files     *)
(* come and go.                                                            *)
(*                                                                         *)
(* A definition marked "Slip" is a mistaken form of the one after it.      *)
(***************************************************************************)
EXTENDS Integers, FiniteSets

CONSTANTS
    Paths, Contents,
    Republish,  \* the kinds of republishing: of sources, of keywords
    Cooldown,   \* REPUBLISH_*_COOLDOWN_SECS
    Stamps      \* bound: a stamp is used again when nothing remembers it

\* What the constants may be; HostServices assumes it.
SharedOpsAssumption ==
    /\ Cooldown \in Nat
    /\ Republish \cap {"reindex", "boot", "startup"} = {}

VARIABLES
    disk,      \* the files under the share roots
    cache,     \* shared_library.json: what each path hashed to, and when
    library,   \* what is shared, at most one path per content
    status,    \* the status of each action
    runs,      \* the tasks that are running
    fresh,     \* history: the library is of an index during and since which
               \* no file changed
    age,       \* history: how long ago an action announced a content
    repeated   \* history: one was announced again before the cooldown was over

sharedVars == <<disk, cache, library, status, runs, fresh, age, repeated>>

Kinds == {"reindex"} \cup Republish

Idle == [state |-> "idle", cooldown |-> 0]

\* A task: what it is at, the files it found, what is left of them or of its
\* snapshot of the library, what it made of the others, and whether no file has
\* changed since it began (history).
Task(kind, pc, found, left) ==
    [kind |-> kind, pc |-> pc, found |-> found, left |-> left, done |-> {}, calm |-> TRUE]

Entry(path, stamp, content) == [path |-> path, stamp |-> stamp, content |-> content]

\* Main indexes before it serves requests.
Booting == {Task("boot", "scan", {}, {})}

Serving == \A r \in runs : r.kind # "boot"

Init ==
    /\ disk = {}
    /\ cache = {}
    /\ library = {}
    /\ status = [k \in Kinds |-> Idle]
    /\ runs = Booting
    /\ fresh = FALSE
    /\ age = [k \in Republish |-> [c \in Contents |-> Cooldown]]
    /\ repeated = FALSE

-----------------------------------------------------------------------------
(* The world. *)

Indexing(r) == r.kind \in {"reindex", "boot"}

NewStamps(p) ==
    Stamps \ {e.stamp : e \in {e \in disk \cup cache \cup UNION {r.found : r \in runs} :
                                e.path = p}}

\* A file is written or replaced, which gives it a new stamp, or removed.
FileChanges(p) ==
    LET old == {e \in disk : e.path = p}
    IN  /\ \/ /\ NewStamps(p) # {}
              /\ \E c \in Contents :
                    disk' = (disk \ old) \cup {Entry(p, CHOOSE s \in NewStamps(p) : TRUE, c)}
           \/ old # {} /\ disk' = disk \ old
        /\ runs' = {[r EXCEPT !.calm = ~ Indexing(r)] : r \in runs}
        /\ fresh' = FALSE
        /\ UNCHANGED <<cache, library, status, age, repeated>>

Kill ==
    /\ library' = {}
    /\ status' = [k \in Kinds |-> Idle]
    /\ runs' = Booting
    /\ fresh' = FALSE
    /\ age' = [k \in Republish |-> [c \in Contents |-> Cooldown]]
    /\ UNCHANGED <<disk, cache, repeated>>

Tick ==
    /\ status' = [k \in Kinds |->
          [status[k] EXCEPT !.cooldown = IF @ > 0 THEN @ - 1 ELSE 0]]
    /\ age' = [k \in Republish |-> [c \in Contents |->
          IF age[k][c] < Cooldown THEN age[k][c] + 1 ELSE Cooldown]]
    /\ UNCHANGED <<disk, cache, library, runs, fresh, repeated>>

-----------------------------------------------------------------------------
(* Actions and their tasks. *)

\* Slip: "running" is set by the task, after the lock is released.
Claimed(kind) == [status EXCEPT ![kind].cooldown = 0]

\* The status of an action that starts, set under the lock of the check.
Running(kind) == [status EXCEPT ![kind] = [state |-> "running", cooldown |-> 0]]

FirstStep(kind) == IF kind = "reindex" THEN "scan" ELSE "snapshot"

\* start_action.  Two tasks of a kind can only come of a mistake.
StartAction(kind) ==
    /\ Serving
    /\ status[kind].state # "running" /\ status[kind].cooldown = 0
    /\ Cardinality({r \in runs : r.kind = kind}) <= 1
    /\ status' = Running(kind)
    /\ runs' = runs \cup {Task(kind, FirstStep(kind), {}, {})}
    /\ UNCHANGED <<disk, cache, library, fresh, age, repeated>>

Becomes(r, s) == runs' = (runs \ {r}) \cup {s}

\* run_action: an error has no cooldown.  An error at boot ends the process.
Ends(r, result) ==
    /\ runs' = IF r.kind = "boot" /\ result.state = "failed" THEN Booting ELSE runs \ {r}
    /\ status' = IF r.kind \in Kinds THEN [status EXCEPT ![r.kind] = result] ELSE status

Failed == [state |-> "failed", cooldown |-> 0]

-----------------------------------------------------------------------------
(* load_or_rebuild_shared_library. *)

\* enumerate_shared_files; without its contents, which are not read yet.
Scan(r) ==
    /\ Indexing(r) /\ r.pc = "scan"
    /\ Becomes(r, Task(r.kind, "hash", disk, disk))
    /\ UNCHANGED <<disk, cache, library, status, fresh, age, repeated>>

\* An entry of the cache that was made of the file as it is.
Reusable(e) == {c \in cache : c.path = e.path /\ c.stamp = e.stamp}

\* What hash_file_md4 finds; a file that was changed after the scan may be
\* changed while it is read.
Hashes(e) ==
    LET now == {d \in disk : d.path = e.path}
    IN  IF now = {} THEN {}
        ELSE IF \E d \in now : d.stamp = e.stamp THEN {d.content : d \in now}
        ELSE Contents

\* Slip: the stamp is the one the file has after it was read.
StampedLate(e, content) ==
    CHOOSE d \in [path : {e.path}, stamp : Stamps, content : {content}] :
        (\E f \in disk : f.path = e.path) => \E f \in disk : f.path = e.path /\ f.stamp = d.stamp

\* The entry of a file that was read has the stamp the scan found.
Hashed(e, content) == Entry(e.path, e.stamp, content)

HashFile(r, e) ==
    /\ Indexing(r) /\ r.pc = "hash" /\ e \in r.left
    /\ LET taken(entry) ==
              Becomes(r, [r EXCEPT !.left = @ \ {e}, !.done = @ \cup {entry}])
       IN  \/ \E c \in Reusable(e) : taken(Hashed(e, c.content))
           \/ /\ Reusable(e) = {}
              /\ \E c \in Hashes(e) : taken(Hashed(e, c))
    /\ UNCHANGED <<disk, cache, library, status, fresh, age, repeated>>

\* A directory or a file cannot be read, or is gone.
IndexFails(r) ==
    /\ Indexing(r) /\ r.pc \in {"scan", "hash"}
    /\ Ends(r, Failed)
    /\ UNCHANGED <<disk, cache, library, fresh, age, repeated>>

\* store_index_cache, which replaces the file by a rename or fails.
StoreCache(r) ==
    /\ Indexing(r) /\ r.pc = "hash" /\ r.left = {}
    /\ \/ cache' = r.done
       \/ UNCHANGED cache
    /\ Becomes(r, [r EXCEPT !.pc = "swap"])
    /\ UNCHANGED <<disk, library, status, fresh, age, repeated>>

\* insert_library_file keeps the first path of a content, in the order of the
\* directories.
Distinct(entries) ==
    {l \in SUBSET entries :
        /\ {e.content : e \in l} = {e.content : e \in entries}
        /\ \A e, f \in l : e.content = f.content => e = f}

Swap(r) ==
    /\ Indexing(r) /\ r.pc = "swap"
    /\ library' \in Distinct(r.done)
    /\ fresh' = r.calm
    /\ IF r.kind = "boot"
       THEN runs' = {Task("startup", "snapshot", {}, {})} /\ UNCHANGED status
       ELSE Ends(r, [state |-> "succeeded", cooldown |-> 0])
    /\ UNCHANGED <<disk, cache, age, repeated>>

-----------------------------------------------------------------------------
(* Announcing: run_republish_* and what main does at the start. *)

\* The KAD service may be disabled.
Snapshot(r) ==
    /\ r.pc = "snapshot"
    /\ \/ Becomes(r, Task(r.kind, "queue", {}, {e.content : e \in library})) /\ UNCHANGED status
       \/ Ends(r, Failed)
    /\ UNCHANGED <<disk, cache, library, fresh, age, repeated>>

\* queue_source_publishes and queue_keyword_publishes; a send fails when the
\* service has ended.
QueuePublish(r, c) ==
    /\ r.pc = "queue" /\ c \in r.left
    /\ Becomes(r, [r EXCEPT !.left = @ \ {c}])
    /\ \/ /\ r.kind \in Republish
          /\ age' = [age EXCEPT ![r.kind][c] = 0]
          /\ repeated' = (repeated \/ age[r.kind][c] < Cooldown)
       \/ UNCHANGED <<age, repeated>>
    /\ UNCHANGED <<disk, cache, library, status, fresh>>

EndPublish(r) ==
    /\ r.pc = "queue" /\ r.left = {}
    /\ \E state \in {"succeeded", "failed"} :
          Ends(r, [state |-> state, cooldown |-> Cooldown])
    /\ UNCHANGED <<disk, cache, library, fresh, age, repeated>>

Next ==
    \/ \E p \in Paths : FileChanges(p)
    \/ Kill
    \/ Tick
    \/ \E k \in Kinds : StartAction(k)
    \/ \E r \in runs : Scan(r)
    \/ \E r \in runs : \E e \in r.left : HashFile(r, e)
    \/ \E r \in runs : IndexFails(r)
    \/ \E r \in runs : StoreCache(r)
    \/ \E r \in runs : Swap(r)
    \/ \E r \in runs : Snapshot(r)
    \/ \E r \in runs : \E c \in r.left : QueuePublish(r, c)
    \/ \E r \in runs : EndPublish(r)

Spec == Init /\ [][Next]_sharedVars

-----------------------------------------------------------------------------
(* Properties. *)

\* An index made while no file changes is right, whatever changed during the
\* earlier ones, whichever of them failed or were killed and whatever they
\* left in the cache: each content there is has an entry, and no other.
IndexIsTrue ==
    fresh =>
        /\ library \subseteq disk
        /\ {e.content : e \in library} = {e.content : e \in disk}

\* A file is announced at most once in a cooldown by what API clients start,
\* however the starts, the tasks and their failures interleave.
AnnouncedOnce == ~ repeated
=============================================================================
