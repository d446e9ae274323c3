---------------------------- MODULE FloodLimiter ----------------------------
(***************************************************************************)
(* How many requests of a peer the KAD service lets in                     *)
(* (inbound_request_allowed, src/src/kad/service.rs).  A source has one    *)
(* counter for each limited opcode; its window starts with its first       *)
(* request.  The cap on the opcodes of a source is as large as the number  *)
(* of limited opcodes and never bites, so it is left out.  Times are ages. *)
(*                                                                         *)
(* A definition marked "Slip" is a mistaken form of the one after it.      *)
(***************************************************************************)
EXTENDS Integers, FiniteSets, Sequences

CONSTANTS
    Sources, Opcodes,
    None,        \* no counter
    Limit,       \* inbound_request_limit_per_minute, the same for all here
    Window,      \* a minute
    MaxSources,  \* TRACKED_IN_MAX_SOURCES
    EntryTTL,    \* TRACKED_IN_ENTRY_TTL
    CleanupEvery \* TRACKED_IN_CLEANUP_EVERY

\* The counter of an opcode: the age of its window, and the requests in it.
Counter == [age : 0 .. EntryTTL + 1, count : 0 .. Limit + 1]

\* What the constants may be; KadServices assumes it.
FloodAssumption ==
    /\ IsFiniteSet(Sources) /\ IsFiniteSet(Opcodes)
    /\ {Limit, Window, MaxSources, EntryTTL, CleanupEvery} \subseteq Nat \ {0}
    /\ EntryTTL >= Window  \* 15 minutes and one
    /\ None \notin Counter

VARIABLES
    tracked_in,   \* tracked_in_requests: by source and opcode
    last_cleanup, \* the age of tracked_in_last_cleanup
    admitted,     \* history: the ages, within a window, of the requests let in
                  \* since the cap evicted the source
    refused       \* history: the request just refused, if any

floodVars == <<tracked_in, last_cleanup, admitted, refused>>

Init ==
    /\ tracked_in = [s \in Sources |-> [o \in Opcodes |-> None]]
    /\ last_cleanup = 0
    /\ admitted = [s \in Sources |-> [o \in Opcodes |-> <<>>]]
    /\ refused = {}

Tracked(t) == {s \in Sources : \E o \in Opcodes : t[s][o] # None}

\* cleanup_tracked_in_requests.
Swept(t) ==
    [s \in Sources |-> [o \in Opcodes |->
        IF t[s][o] # None /\ t[s][o].age > EntryTTL THEN None ELSE t[s][o]]]

CleanupDue ==
    \/ Cardinality(Tracked(tracked_in)) >= MaxSources
    \/ last_cleanup >= CleanupEvery

Oldest(t, s) ==
    CHOOSE age \in 0 .. EntryTTL + 1 :
        /\ \E o \in Opcodes : t[s][o] # None /\ t[s][o].age = age
        /\ \A o \in Opcodes : t[s][o] # None => t[s][o].age <= age

\* Who makes room for a new source: a source whose oldest counter is oldest.
Victims(t, s) ==
    LET known == Tracked(t)
    IN  IF s \in known \/ Cardinality(known) < MaxSources THEN {{}}
        ELSE {{v} : v \in {w \in known : \A x \in known : Oldest(t, w) >= Oldest(t, x)}}

\* Slip: the window starts again with each request.
CountedSliding(c) ==
    IF c = None \/ (c # None /\ c.age >= Window) THEN [age |-> 0, count |-> 1]
    ELSE [age |-> 0, count |-> IF c.count > Limit THEN c.count ELSE c.count + 1]

\* The counter of an opcode after a request.  Above the limit it may as well
\* stop.
Counted(c) ==
    IF c = None \/ (c # None /\ c.age >= Window) THEN [age |-> 0, count |-> 1]
    ELSE [c EXCEPT !.count = IF @ > Limit THEN @ ELSE @ + 1]

\* inbound_request_allowed.
Request(s, o) ==
    LET swept == IF CleanupDue THEN Swept(tracked_in) ELSE tracked_in
    IN  \E gone \in Victims(swept, s) :
          LET counter == Counted(swept[s][o])
              room    == [x \in Sources |->
                            IF x \in gone THEN [p \in Opcodes |-> None] ELSE swept[x]]
              history == [x \in Sources |->
                            IF x \in gone THEN [p \in Opcodes |-> <<>>] ELSE admitted[x]]
              allowed == counter.count <= Limit
          IN  /\ tracked_in' = [room EXCEPT ![s][o] = counter]
              /\ last_cleanup' = IF CleanupDue THEN 0 ELSE last_cleanup
              /\ admitted' = IF allowed THEN [history EXCEPT ![s][o] = Append(@, 0)] ELSE history
              /\ refused' = IF allowed THEN {} ELSE {<<s, o>>}

\* Ages, the oldest first, a tick later and within a window.
Recent(ages) ==
    LET gone == CHOOSE n \in 0 .. Len(ages) :
                    \A i \in DOMAIN ages : i > n <=> ages[i] + 1 < Window
    IN  [i \in 1 .. Len(ages) - gone |-> ages[i + gone] + 1]

Clock ==
    /\ tracked_in' = [s \in Sources |-> [o \in Opcodes |->
          IF tracked_in[s][o] = None THEN None
          ELSE [tracked_in[s][o] EXCEPT !.age = IF @ > EntryTTL THEN @ ELSE @ + 1]]]
    /\ last_cleanup' = IF last_cleanup < CleanupEvery THEN last_cleanup + 1 ELSE last_cleanup
    /\ admitted' = [s \in Sources |-> [o \in Opcodes |-> Recent(admitted[s][o])]]
    /\ refused' = {}

Next ==
    \/ \E s \in Sources, o \in Opcodes : Request(s, o)
    \/ Clock

Spec == Init /\ [][Next]_floodVars

-----------------------------------------------------------------------------
(* Properties. *)

\* No peer gets more than two windows' worth of requests of a kind into any
\* minute, however its requests lie across windows and clean-ups, unless the
\* cap evicted it; one that is refused had its share in the last minute, what
\* was refused before not counted; and no more sources are tracked than the
\* cap allows.
FloodIsLimited ==
    /\ \A s \in Sources, o \in Opcodes : Len(admitted[s][o]) <= 2 * Limit
    /\ \A r \in refused : Len(admitted[r[1]][r[2]]) >= Limit
    /\ Cardinality(Tracked(tracked_in)) <= MaxSources
=============================================================================
