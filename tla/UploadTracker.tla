---------------------------- MODULE UploadTracker ---------------------------
(***************************************************************************)
(* What is being uploaded, as the API shows it: the streams that serve     *)
(* blocks (handle_transfer_io, src/src/app.rs) note each block before they *)
(* write it and after, in the tracker (src/src/upload.rs), which forgets   *)
(* by itself what is not noted again in time.  Several streams may be of   *)
(* one peer.  One file; what the library has of it may change at any time. *)
(*                                                                         *)
(* A definition marked "Slip" is a mistaken form of the one after it.      *)
(***************************************************************************)
EXTENDS Integers, Sequences, FiniteSets

CONSTANTS
    Streams, Peers, Ranges,
    TTL,         \* UPLOAD_ACTIVITY_TTL
    Retention,   \* RECENT_SESSION_RETENTION
    MaxRecent,   \* MAX_RECENT_SESSIONS_PER_FILE
    MaxSessions  \* bound: on next_session_id

\* What the constants may be; HostServices assumes it.
TrackerAssumption == {TTL, Retention, MaxRecent, MaxSessions} \subseteq Nat \ {0}

VARIABLES
    stream,    \* what each stream is writing, and whether it still will
    active,    \* active_ranges, in their order
    recent,    \* recent_sessions, in their order
    next_id,   \* next_session_id
    failed     \* history: the ranges a stream gave up since they were noted

trackerVars == <<stream, active, recent, next_id, failed>>

Closed == [peer |-> "none"]
Reading(peer) == [peer |-> peer]
Writing(peer, range) == [peer |-> peer, range |-> range]

IsWriting(s) == "range" \in DOMAIN stream[s]
Is(s, key) == IsWriting(s) /\ <<stream[s].peer, stream[s].range>> = key

Init ==
    /\ stream = [s \in Streams |-> Closed]
    /\ active = <<>>
    /\ recent = <<>>
    /\ next_id = 0
    /\ failed = {}

-----------------------------------------------------------------------------
(* The tracker. *)

Running(session) == session.left > 0

Aged(session) == [session EXCEPT !.left = IF @ > 0 THEN @ - 1 ELSE 0]

Ended(session, reason) == [session EXCEPT !.left = Retention, !.reason = reason]

\* The oldest are dropped at the limit.
Capped(sessions) ==
    IF Len(sessions) > MaxRecent
    THEN SubSeq(sessions, Len(sessions) - MaxRecent + 1, Len(sessions)) ELSE sessions

\* The sessions at some positions, in their order.
At(sessions, positions) ==
    LET n == Cardinality(positions)
        order == CHOOSE f \in [1 .. n -> positions] : \A i, j \in 1 .. n : i < j => f[i] < f[j]
    IN  [i \in 1 .. n |-> sessions[order[i]]]

RunningIn(sessions) == {i \in DOMAIN sessions : Running(sessions[i])}

\* prune_expired, with which every operation begins.
PrunedActive == At(active, RunningIn(active))

PrunedRecent ==
    LET over == At(active, DOMAIN active \ RunningIn(active))
        expired == [i \in DOMAIN over |-> Ended(over[i], "expired")]
    IN  Capped(At(recent, RunningIn(recent)) \o expired)

\* Slip: a session is found by its peer alone.
SamePeer(session, key) == session.key[1] = key[1]

\* Whether a session is of this peer and this range.
SameSession(session, key) == session.key = key

\* Where the session of a range is in a list, the first if there are several.
PositionsOf(sessions, key) == {i \in DOMAIN sessions : SameSession(sessions[i], key)}

First(positions) == CHOOSE i \in positions : \A j \in positions : i <= j

-----------------------------------------------------------------------------
(* The streams. *)

Open(s, peer) ==
    /\ stream[s] = Closed
    /\ stream' = [stream EXCEPT ![s] = Reading(peer)]
    /\ UNCHANGED <<active, recent, next_id, failed>>

\* A block is built and noted (note): an active session of the range goes on,
\* otherwise there is a new one.
NoteSending(s, range) ==
    /\ stream[s] # Closed /\ ~ IsWriting(s)
    /\ stream' = [stream EXCEPT ![s] = Writing(@.peer, range)]
    /\ recent' = PrunedRecent
    /\ LET key == <<stream[s].peer, range>>
           found == {i \in DOMAIN PrunedActive : PrunedActive[i].key = key}
       IN  /\ failed' = failed \ {key}
           /\ IF found # {}
              THEN /\ active' = [PrunedActive EXCEPT ![First(found)].left = TTL]
                   /\ UNCHANGED next_id
              ELSE /\ next_id < MaxSessions
                   /\ next_id' = next_id + 1
                   /\ active' = Append(PrunedActive,
                          [id |-> next_id', key |-> key, left |-> TTL, reason |-> "none"])

\* The block is written (note_terminal).
Completed(s) ==
    /\ IsWriting(s)
    /\ stream' = [stream EXCEPT ![s] = Reading(@.peer)]
    /\ LET found == PositionsOf(PrunedActive, <<stream[s].peer, stream[s].range>>)
       IN  IF found = {}
           THEN active' = PrunedActive /\ recent' = PrunedRecent
           ELSE /\ active' = SubSeq(PrunedActive, 1, First(found) - 1)
                             \o SubSeq(PrunedActive, First(found) + 1, Len(PrunedActive))
                /\ recent' = Capped(Append(PrunedRecent,
                                           Ended(PrunedActive[First(found)], "completed")))
    /\ UNCHANGED <<next_id, failed>>

\* A read or a write of the stream fails or is too late: nothing is noted.
Close(s) ==
    /\ stream[s] # Closed
    /\ stream' = [stream EXCEPT ![s] = Closed]
    /\ failed' = IF IsWriting(s) THEN failed \cup {<<stream[s].peer, stream[s].range>>} ELSE failed
    /\ UNCHANGED <<active, recent, next_id>>

\* snapshot_all and snapshot_for_hash.
Snapshot ==
    /\ active' = PrunedActive
    /\ recent' = PrunedRecent
    /\ UNCHANGED <<stream, next_id, failed>>

Tick ==
    /\ active' = [i \in DOMAIN active |-> Aged(active[i])]
    /\ recent' = [i \in DOMAIN recent |-> Aged(recent[i])]
    /\ UNCHANGED <<stream, next_id, failed>>

Next ==
    \/ \E s \in Streams, peer \in Peers : Open(s, peer)
    \/ \E s \in Streams, range \in Ranges : NoteSending(s, range)
    \/ \E s \in Streams : Completed(s)
    \/ \E s \in Streams : Close(s)
    \/ Snapshot
    \/ Tick

Spec == Init /\ [][Next]_trackerVars

-----------------------------------------------------------------------------
(* Properties. *)

\* What is shown as being sent is: a range is active only while a stream of
\* that peer writes it, or after one failed to, until its time is over; one
\* range of a peer is one session, however many streams ask for it; and a
\* session ends once, as completed or as expired.
ActiveIsSent ==
    /\ \A i \in DOMAIN active :
          \/ \E s \in Streams : Is(s, active[i].key)
          \/ active[i].key \in failed
    /\ \A i, j \in DOMAIN active : active[i].key = active[j].key => i = j
    /\ LET all == active \o recent
       IN  \A i, j \in DOMAIN all : all[i].id = all[j].id => i = j
=============================================================================
