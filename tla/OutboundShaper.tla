--------------------------- MODULE OutboundShaper ---------------------------
(***************************************************************************)
(* The traffic shaper of the KAD service (shaper_send and what it calls,   *)
(* src/src/kad/service.rs).  A lane is a class of packets to a peer.  The  *)
(* base delay and the jitter are left out: they concern classes that are   *)
(* not dropped when delayed, and for the only one of these, responses,     *)
(* both are 0.  A send takes time, in which nothing else happens.          *)
(*                                                                         *)
(* A definition marked "Slip" is a mistaken form of the one after it.      *)
(***************************************************************************)
EXTENDS Integers, FiniteSets, Sequences

CONSTANTS
    Peers, Classes,   \* some of "query", "hello", "bootstrap", "response"
    Second,           \* the length of a window
    GlobalInterval, PeerInterval, \* of queries, from the configuration
    GlobalPerSec, PeerPerSec,     \* caps of queries, 0 for none
    GlobalFloor, PeerFloor,       \* the least caps of the other classes
    StateTTL,         \* SHAPER_PEER_STATE_TTL
    StateMax          \* SHAPER_PEER_STATE_MAX

\* What the constants may be; KadServices assumes it.
ShaperAssumption ==
    /\ IsFiniteSet(Peers)
    /\ Classes \subseteq {"query", "hello", "bootstrap", "response"}
    /\ {GlobalInterval, PeerInterval, GlobalPerSec, PeerPerSec,
        GlobalFloor, PeerFloor, StateTTL, StateMax} \subseteq Nat
    /\ Second \in Nat \ {0}
    /\ StateTTL > PeerInterval  \* an hour and 20 ms

VARIABLES
    window,      \* the age of shaper_window_started
    global_sent, \* shaper_global_sent_in_window
    peer_sent,   \* shaper_peer_sent_in_window
    last_global, \* the age of each class in shaper_last_global_send
    last_peer,   \* the age of each lane in shaper_last_peer_send
    sends,       \* history: by lane, the ages of the sends of the last second
    class_sends  \* history: the same by class

shaperVars == <<window, global_sent, peer_sent, last_global, last_peer, sends, class_sends>>

Lanes == Classes \X Peers

Never == [x \in {} |-> 0]
NoneSent(S) == [x \in S |-> 0]

Init ==
    /\ window = 0
    /\ global_sent = NoneSent(Classes)
    /\ peer_sent = NoneSent(Lanes)
    /\ last_global = Never
    /\ last_peer = Never
    /\ sends = [lane \in Lanes |-> <<>>]
    /\ class_sends = [class \in Classes |-> <<>>]

-----------------------------------------------------------------------------
(* shaper_policy.  An interval halved is rounded down. *)

Scaled(base, factor, floor) ==
    IF base = 0 THEN 0 ELSE IF base * factor > floor THEN base * factor ELSE floor

GlobalGap(class) ==
    CASE class \in {"query", "hello"} -> GlobalInterval
      [] class = "bootstrap"          -> GlobalInterval \div 2
      [] class = "response"           -> 0

PeerGap(class) ==
    CASE class = "query"                  -> PeerInterval
      [] class \in {"hello", "bootstrap"} -> PeerInterval \div 2
      [] class = "response"               -> 0

Factor(class) ==
    CASE class = "query" -> 1 [] class = "response" -> 4 [] OTHER -> 2

GlobalCap(class) ==
    Scaled(GlobalPerSec, Factor(class), IF class = "query" THEN 0 ELSE GlobalFloor)

PeerCap(class) ==
    Scaled(PeerPerSec, Factor(class), IF class = "query" THEN 0 ELSE PeerFloor)

-----------------------------------------------------------------------------
(* Windows and intervals at a time that is later by some ticks. *)

Later(ages, ticks, last) ==
    [x \in DOMAIN ages |-> IF ages[x] + ticks > last THEN last ELSE ages[x] + ticks]

\* shaper_cleanup_stale_peers: the newest StateMax lanes stay.
KeptLanes(ages) ==
    LET fresh == {x \in DOMAIN ages : ages[x] <= StateTTL}
    IN  IF Cardinality(fresh) <= StateMax THEN {fresh}
        ELSE {K \in SUBSET fresh : /\ Cardinality(K) = StateMax
                                   /\ \A x \in K, y \in fresh \ K : ages[x] <= ages[y]}

Shaper == [window |-> window, gsent |-> global_sent, psent |-> peer_sent,
           glast |-> last_global, plast |-> last_peer]

After(s, ticks) ==
    [s EXCEPT !.window = IF @ + ticks > Second THEN Second ELSE @ + ticks,
              !.glast = Later(@, ticks, GlobalInterval),
              !.plast = Later(@, ticks, StateTTL + 1)]

\* shaper_roll_window.
Rolled(s) ==
    IF s.window < Second THEN {s}
    ELSE {[window |-> 0, gsent |-> NoneSent(Classes), psent |-> NoneSent(Lanes),
           glast |-> s.glast,
           plast |-> [x \in K |-> s.plast[x]]] : K \in KeptLanes(s.plast)}

\* Slip: one packet more than the cap fits into a window.
HasRoomForOneMore(s, lane) ==
    /\ GlobalCap(lane[1]) > 0 => s.gsent[lane[1]] <= GlobalCap(lane[1])
    /\ PeerCap(lane[1]) > 0 => s.psent[lane] <= PeerCap(lane[1])

HasRoom(s, lane) ==
    /\ GlobalCap(lane[1]) > 0 => s.gsent[lane[1]] < GlobalCap(lane[1])
    /\ PeerCap(lane[1]) > 0 => s.psent[lane] < PeerCap(lane[1])

Delayed(s, lane) ==
    \/ lane[1] \in DOMAIN s.glast /\ s.glast[lane[1]] < GlobalGap(lane[1])
    \/ lane \in DOMAIN s.plast /\ s.plast[lane] < PeerGap(lane[1])

\* shaper_schedule_send: a query, a greeting or a bootstrap request that
\* would be delayed is dropped.
Sendable(s, lane) == HasRoom(s, lane) /\ (lane[1] = "response" \/ ~ Delayed(s, lane))

Assign(ages, x) == [y \in DOMAIN ages \cup {x} |-> IF y = x THEN 0 ELSE ages[y]]

\* shaper_mark_sent, after the window was rolled.
Marked(s, lane) ==
    [s EXCEPT !.gsent[lane[1]] = @ + 1,
              !.psent[lane] = @ + 1,
              !.glast = Assign(@, lane[1]),
              !.plast = Assign(@, lane)]

Become(s) ==
    /\ window' = s.window
    /\ global_sent' = s.gsent
    /\ peer_sent' = s.psent
    /\ last_global' = s.glast
    /\ last_peer' = s.plast

\* Ages, the oldest first, some ticks later and within a second.
Recent(ages, ticks) ==
    LET gone == CHOOSE n \in 0 .. Len(ages) :
                    \A i \in DOMAIN ages : i > n <=> ages[i] + ticks < Second
    IN  [i \in 1 .. Len(ages) - gone |-> ages[i + gone] + ticks]

Past(history, ticks) == [x \in DOMAIN history |-> Recent(history[x], ticks)]

\* The packet goes out and the send took some ticks.
Send(lane) ==
    \E s \in Rolled(Shaper), took \in 0 .. 1 :
        /\ Sendable(s, lane)
        /\ \E t \in Rolled(After(s, took)) : Become(Marked(t, lane))
        /\ sends' = [Past(sends, took) EXCEPT ![lane] = Append(@, 0)]
        /\ class_sends' = [Past(class_sends, took) EXCEPT ![lane[1]] = Append(@, 0)]

\* The shaper drops the packet, or the socket fails: nothing is marked.
Unsent(lane) ==
    \E s \in Rolled(Shaper) :
        /\ Become(s)
        /\ UNCHANGED <<sends, class_sends>>

Clock ==
    /\ Become(After(Shaper, 1))
    /\ sends' = Past(sends, 1)
    /\ class_sends' = Past(class_sends, 1)

Next ==
    \/ \E lane \in Lanes : Send(lane)
    \/ \E lane \in Lanes : Unsent(lane)
    \/ Clock

Spec == Init /\ [][Next]_shaperVars

-----------------------------------------------------------------------------
(* Properties. *)

\* In any second a class gets at most two windows' worth of packets out, in
\* all and to a peer: a send that ends in the next window counts there, and
\* no window is shorter than a second.
CapIsKept ==
    \A class \in Classes :
        /\ GlobalCap(class) > 0 => Len(class_sends[class]) <= 2 * GlobalCap(class)
        /\ PeerCap(class) > 0 => \A p \in Peers : Len(sends[<<class, p>>]) <= 2 * PeerCap(class)

\* Two packets of a class for one peer are the interval apart, although the
\* windows in between clear the counters and the record of the first may be
\* dropped to keep the number of lanes.
GapIsKept ==
    \A lane \in Lanes : \A i \in 1 .. Len(sends[lane]) - 1 :
        sends[lane][i] - sends[lane][i + 1] >= PeerGap(lane[1])

\* Classes and peers get what their windows hold, and not in bursts.
RateIsKept == CapIsKept /\ GapIsKept
=============================================================================
