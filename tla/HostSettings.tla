---------------------------- MODULE HostSettings ----------------------------
(***************************************************************************)
(* The configuration: in memory, behind a lock, and in config.toml.        *)
(* PATCH /api/v1/settings changes both (settings_patch,                    *)
(* src/src/api/handlers/settings.rs; persist_to, src/src/config.rs), and a *)
(* start reads the file (src/src/config_io.rs).  The handler of a request  *)
(* is dropped when its client goes away; what it had handed to the pool of *)
(* blocking threads, a write of the temporary file or its rename, goes on  *)
(* without it and without the lock.                                        *)
(*                                                                         *)
(* A definition marked "Slip" is a mistaken form of the one after it.      *)
(***************************************************************************)
EXTENDS Integers, FiniteSets

CONSTANTS
    Clients,
    Fields,     \* groups of settings a patch may change
    Values,     \* what they may be set to
    Default,    \* one of them, what a new file has
    Torn        \* a file that is being written

\* What the constants may be; HostServices assumes it.
SettingsAssumption == Default \in Values

VARIABLES
    cfg,      \* ApiState.config
    file,     \* config.toml
    tmp,      \* config.tmp
    request,  \* what the handler of each client is at
    orphans,  \* what dropped handlers left in the pool
    acked,    \* history: the last acknowledged value of each field
    dropped   \* history: a handler was dropped since the start

settingsVars == <<cfg, file, tmp, request, orphans, acked, dropped>>

Configs == [Fields -> Values]

NoRequest == [at |-> "none"]
Request(base, f, v) ==
    [at |-> "write", field |-> f, next |-> [base EXCEPT ![f] = v]]
Job(at, next) == [at |-> at, next |-> next]

Locked == \E c \in Clients : request[c].at \notin {"none", "read"}

Init ==
    /\ cfg = [f \in Fields |-> Default]
    /\ file = cfg
    /\ tmp = Torn
    /\ request = [c \in Clients |-> NoRequest]
    /\ orphans = {}
    /\ acked = cfg
    /\ dropped = FALSE

-----------------------------------------------------------------------------
(* settings_patch. *)

Goes(c, r) == request' = [request EXCEPT ![c] = r]

\* Slip: the configuration is cloned before the lock is taken for the rest.
ClonedEarly(c, base) ==
    \/ request[c] = NoRequest /\ Goes(c, [at |-> "read", next |-> base])
    \/ /\ request[c].at = "read" /\ ~ Locked
       /\ \E f \in Fields, v \in Values : Goes(c, Request(request[c].next, f, v))

\* The lock, the clone, the patch applied to it and found valid.
Cloned(c, base) ==
    /\ request[c] = NoRequest /\ ~ Locked
    /\ \E f \in Fields, v \in Values : Goes(c, Request(base, f, v))

Patch(c) == Cloned(c, cfg) /\ UNCHANGED <<cfg, file, tmp, orphans, acked, dropped>>

\* tokio::fs::write opens the temporary file, which truncates it, and writes.
OpenTmp(c) ==
    /\ request[c].at = "write"
    /\ \/ tmp' = Torn /\ Goes(c, [request[c] EXCEPT !.at = "writing"])
       \/ Goes(c, NoRequest) /\ UNCHANGED tmp
    /\ UNCHANGED <<cfg, file, orphans, acked, dropped>>

WriteTmp(c) ==
    /\ request[c].at = "writing"
    /\ \/ tmp' = request[c].next /\ Goes(c, [request[c] EXCEPT !.at = "rename"])
       \/ Goes(c, NoRequest) /\ UNCHANGED tmp
    /\ UNCHANGED <<cfg, file, orphans, acked, dropped>>

\* A file that is still being written by an orphan goes on being written under
\* its new name.
Renamed == {IF j.at = "writing" THEN [j EXCEPT !.at = "in place"] ELSE j : j \in orphans}

RenameTmp(c) ==
    /\ request[c].at = "rename"
    /\ \/ /\ file' = tmp /\ orphans' = Renamed
          /\ Goes(c, [request[c] EXCEPT !.at = "assign"])
       \/ Goes(c, NoRequest) /\ UNCHANGED <<file, orphans>>
    /\ UNCHANGED <<cfg, tmp, acked, dropped>>

\* `*cfg = next`, the answer, and the lock is released.
Acknowledge(c) ==
    /\ request[c].at = "assign"
    /\ cfg' = request[c].next
    /\ acked' = [acked EXCEPT ![request[c].field] = request[c].next[request[c].field]]
    /\ Goes(c, NoRequest)
    /\ UNCHANGED <<file, tmp, orphans, dropped>>

-----------------------------------------------------------------------------
(* Dropped handlers. *)

\* The client goes away.  A step that was handed to the pool is carried out.
Drop(c) ==
    /\ request[c].at \notin {"none", "assign"} /\ orphans = {}
    /\ Goes(c, NoRequest)
    /\ orphans' = IF request[c].at = "read" THEN {} ELSE {Job(request[c].at, request[c].next)}
    /\ dropped' = TRUE
    /\ UNCHANGED <<cfg, file, tmp, acked>>

RunOrphan(j) ==
    /\ j \in orphans
    /\ \/ /\ j.at = "write"
          /\ tmp' = Torn /\ orphans' = {Job("writing", j.next)}
          /\ UNCHANGED file
       \/ /\ j.at = "writing"
          /\ tmp' = j.next /\ orphans' = {}
          /\ UNCHANGED file
       \/ /\ j.at = "in place"
          /\ file' \in {j.next, Torn} /\ orphans' = {}
          /\ UNCHANGED tmp
       \/ /\ j.at = "rename"
          /\ file' = tmp /\ orphans' = {}
          /\ UNCHANGED tmp
    /\ UNCHANGED <<cfg, request, acked, dropped>>

\* The process is killed and started again; it does not start from a file it
\* cannot parse.
Restart ==
    /\ file # Torn
    /\ cfg' = file
    /\ request' = [c \in Clients |-> NoRequest]
    /\ orphans' = {}
    /\ acked' = file
    /\ dropped' = FALSE
    /\ UNCHANGED <<file, tmp>>

Next ==
    \/ \E c \in Clients : Patch(c)
    \/ \E c \in Clients : OpenTmp(c)
    \/ \E c \in Clients : WriteTmp(c)
    \/ \E c \in Clients : RenameTmp(c)
    \/ \E c \in Clients : Acknowledge(c)
    \/ \E c \in Clients : Drop(c)
    \/ \E j \in orphans : RunOrphan(j)
    \/ Restart

Spec == Init /\ [][Next]_settingsVars

-----------------------------------------------------------------------------
(* Properties. *)

\* A patch that was answered is in force, with those of other clients to other
\* fields; and as long as no client went away during a patch, config.toml is
\* whole and has it, whatever failed or was killed: the file is what is in
\* force, or the one patch further that was being made.
PatchesLast ==
    /\ cfg = acked
    /\ ~ dropped =>
          \/ file = cfg
          \/ \E c \in Clients : request[c].at = "assign" /\ file = request[c].next
=============================================================================
