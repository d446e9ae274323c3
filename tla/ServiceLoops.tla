---------------------------- MODULE ServiceLoops ----------------------------
(***************************************************************************)
(* The two loops whose progress is a property, with one instance each:     *)
(* the lookups of the KAD service and the listener of the transfer accept  *)
(* loop.  They share no variable: a behaviour runs one of them, part, with *)
(* the fairness of its own specification.                                  *)
(***************************************************************************)
EXTENDS Integers

CONSTANTS
    None, Other,
    \* lookups
    Peers, Debugs, Buckets, Alpha, RefreshAlpha, PerTick, PerSparseTick, SendGoal,
    QueueMax, Iterations, ReqTimeout, TrackTTL, RefreshEvery, MaxRequests, Retried,
    \* listener
    MaxStreams, MaxFaults

VARIABLES
    part,
    queue, active, table, since, tracked, pending_reqs, credit, spoiled, \* lookups
    at, owner, free, streams, bridge, faults                             \* listener

Lookups == INSTANCE KadLookups

Listener == INSTANCE AcceptLoop

ASSUME InstancesAssumption == Lookups!ConstantsAssumption /\ Listener!AcceptAssumption

lookups  == <<queue, active, table, since, tracked, pending_reqs, credit, spoiled>>
listener == <<at, owner, free, streams, bridge, faults>>
vars == <<part, lookups, listener>>

Init ==
    /\ part \in {"lookups", "listener"}
    /\ Lookups!Init
    /\ Listener!Init
    /\ part = "listener" => table = {}
    /\ part = "lookups" => bridge = "no session"

Next ==
    /\ part' = part
    /\ IF part = "lookups" THEN Lookups!Next ELSE UNCHANGED lookups
    /\ IF part = "listener" THEN Listener!Next ELSE UNCHANGED listener

\* What a loop is owed while its part runs, as in its own specification.
Spec ==
    /\ Init /\ [][Next]_vars
    /\ WF_lookups(part = "lookups" /\ Lookups!Maintenance)
    /\ WF_lookups(part = "lookups" /\ Lookups!Clock)
    /\ WF_listener(part = "listener" /\ Listener!LoopSteps)
    /\ WF_listener(part = "listener" /\ Listener!StaleEnds)
    /\ WF_listener(part = "listener" /\ Listener!BridgeReturns)

-----------------------------------------------------------------------------
(* The properties of the parts, each stated where its part is modelled. *)

\* The queue keeps its bound and no lookup is there twice.
QueueSound == Lookups!QueueSound

\* A peer that may be charged with a timeout can still clear itself.
PendingIsTracked == Lookups!PendingIsTracked

\* Refreshes never displace a lookup somebody asked for.
DebugOutranksRefresh == Lookups!DebugOutranksRefresh

\* A lookup somebody asked for ends, or hears of new nodes again and again.
LookupEnds == Lookups!LookupEnds

\* Once faults are over, the loop waits on a session that the bridge has, or
\* for one of as many streams as may run.
ListenerRecovers == part = "listener" => Listener!ListenerRecovers
=============================================================================
