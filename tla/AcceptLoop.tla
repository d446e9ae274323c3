----------------------------- MODULE AcceptLoop -----------------------------
(***************************************************************************)
(* The task that accepts transfer streams (run_transfer_accept_loop,       *)
(* src/src/app.rs) against a SAM bridge that may restart and may lose our  *)
(* session.  The loop owns the session through a control connection        *)
(* (SamClient, src/src/i2p/sam/client.rs) it never reads, so that it       *)
(* learns of a lost session only from an accept that is refused.           *)
(*                                                                         *)
(* A definition marked "Slip" is a mistaken form of the one after it.      *)
(***************************************************************************)
EXTENDS Integers

CONSTANTS
    MaxStreams, \* max_concurrent_transfer_streams
    MaxFaults   \* bound: how often the bridge, the session or an accept fails

\* What the constants may be; ServiceLoops assumes it.
AcceptAssumption == MaxStreams \in Nat \ {0} /\ MaxFaults \in Nat

VARIABLES
    at,       \* where the loop is
    owner,    \* session_owner is there
    free,     \* permits of transfer_stream_slots
    streams,  \* handlers that are running, each with a permit
    bridge,   \* whether the bridge is there and has our session, or a stale
              \* one under its name, of a connection that is closed
    faults    \* how many faults are left

acceptVars == <<at, owner, free, streams, bridge, faults>>

Init ==
    /\ at = "top" /\ owner = FALSE
    /\ free = MaxStreams /\ streams = 0
    /\ bridge \in {"no session", "stale"}
    /\ faults = MaxFaults

-----------------------------------------------------------------------------
(* The bridge (external). *)

\* It goes away, or it loses the session, which ends a pending accept; only a
\* bridge that is back can get a session again.
BridgeFails ==
    /\ faults > 0 /\ faults' = faults - 1
    /\ \/ bridge # "down" /\ bridge' = "down"
       \/ bridge = "session" /\ bridge' = "no session"
    /\ UNCHANGED <<at, owner, free, streams>>

\* It notices that the connection of a stale session is closed.
StaleEnds ==
    /\ bridge = "stale"
    /\ bridge' = "no session"
    /\ UNCHANGED <<at, owner, free, streams, faults>>

BridgeReturns ==
    /\ bridge = "down"
    /\ bridge' = "no session"
    /\ UNCHANGED <<at, owner, free, streams, faults>>

-----------------------------------------------------------------------------
(* The loop. *)

\* establish_stream_session_owner: connect_hello.
Connect ==
    /\ at = "top" /\ ~ owner
    /\ at' = IF bridge = "down" THEN "sleep" ELSE "create"
    /\ UNCHANGED <<owner, free, streams, bridge, faults>>

\* session_create_idempotent asks for the session, and once more after it
\* destroyed a stale one.  The reply may be late: then the connection is
\* dropped and the session is left behind.  Of the replies to a name that is
\* taken, the code knows some.
Create(step) ==
    /\ at = step
    /\ \/ /\ bridge = "no session"
          /\ bridge' = "session" /\ owner' = TRUE /\ at' = "permit"
          /\ UNCHANGED faults
       \/ /\ bridge = "no session" /\ faults > 0
          /\ bridge' = "stale" /\ at' = "sleep"
          /\ faults' = faults - 1
          /\ UNCHANGED owner
       \/ /\ bridge \in {"down", "stale"}
          /\ at' \in IF <<step, bridge>> = <<"create", "stale">>
                    THEN {"destroy", "sleep"} ELSE {"sleep"}
          /\ UNCHANGED <<bridge, owner, faults>>
    /\ UNCHANGED <<free, streams>>

\* session_destroy; its failure is only logged.
Destroy ==
    /\ at = "destroy"
    /\ bridge' \in IF bridge = "stale" THEN {"stale", "no session"} ELSE {bridge}
    /\ at' = "recreate"
    /\ UNCHANGED <<owner, free, streams, faults>>

HasOwner ==
    /\ at = "top" /\ owner
    /\ at' = "permit"
    /\ UNCHANGED <<owner, free, streams, bridge, faults>>

\* try_acquire_owned, or acquire_owned, which waits for a stream to end.
Acquire ==
    /\ at = "permit" /\ free > 0
    /\ free' = free - 1
    /\ at' = "accept"
    /\ UNCHANGED <<owner, streams, bridge, faults>>

\* A stream is accepted and its handler takes the permit.
Accept ==
    /\ at = "accept" /\ bridge = "session"
    /\ streams' = streams + 1
    /\ at' = "top"
    /\ UNCHANGED <<owner, free, bridge, faults>>

\* Slip: only a lost connection is a reason for a new session.
OnlyIfDown == bridge = "down"

\* is_invalid_stream_session: INVALID_ID, from a bridge without our session.
InvalidSession == bridge = "no session"

Refused ==
    /\ at = "accept"
    /\ free' = free + 1
    /\ owner' = (owner /\ ~ InvalidSession)
    /\ at' = "sleep"
    /\ UNCHANGED <<streams, bridge>>

AcceptFails == bridge # "session" /\ Refused /\ UNCHANGED faults

\* The bridge is well and the accept fails all the same.
AcceptBreaks == bridge = "session" /\ faults > 0 /\ faults' = faults - 1 /\ Refused

\* The backoff is over.
Wake ==
    /\ at = "sleep"
    /\ at' = "top"
    /\ UNCHANGED <<owner, free, streams, bridge, faults>>

\* A handler may end: its peer is silent for 30 s, the stream breaks, or what
\* it sent makes no sense.  Its permit goes with its guard.  Nothing makes it
\* end: a peer may go on asking, and the write of an answer has no time-out.
StreamEnds ==
    /\ streams > 0
    /\ streams' = streams - 1
    /\ free' = free + 1
    /\ UNCHANGED <<at, owner, bridge, faults>>

LoopSteps ==
    \/ Connect \/ Create("create") \/ Destroy \/ Create("recreate")
    \/ HasOwner \/ Acquire \/ AcceptFails \/ Wake

Next == BridgeFails \/ StaleEnds \/ BridgeReturns \/ LoopSteps \/ Accept \/ AcceptBreaks \/ StreamEnds

\* The loop runs, the bridge notices closed connections, and the router is
\* started again.  No stream is owed an end.
Fairness ==
    /\ WF_acceptVars(LoopSteps)
    /\ WF_acceptVars(StaleEnds)
    /\ WF_acceptVars(BridgeReturns)

Spec == Init /\ [][Next]_acceptVars /\ Fairness

-----------------------------------------------------------------------------
(* Properties. *)

\* Every permit is held by a stream: nothing more is accepted until one ends.
HouseFull == at = "permit" /\ streams = MaxStreams

\* However bridge restarts, lost and stale sessions, late replies and failing
\* accepts interleave, once they are over the loop waits for streams on a
\* session the bridge has, again and again, unless as many streams run as may:
\* then it waits for one of them, and no permit was lost on the way.
ListenerRecovers == []<>((at = "accept" /\ bridge = "session") \/ HouseFull)
=============================================================================
