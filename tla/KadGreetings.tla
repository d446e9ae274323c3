---------------------------- MODULE KadGreetings ----------------------------
(***************************************************************************)
(* The HELLO exchange of the KAD service (src/src/kad/service.rs and       *)
(* service/inbound.rs): which peers are greeted by the hello interval,     *)
(* before a search or a publish, on an answer and by a probe, what the     *)
(* routing table remembers of it, and which HELLO packets are taken.       *)
(*                                                                         *)
(* A peer is a destination.  Of its entry in the routing table there is    *)
(* what greetings read.  The other requests a peer is sent are those of    *)
(* KadLookups and KadPublishing; hello_dual_obfuscated is off.             *)
(*                                                                         *)
(* A definition marked "Slip" is a mistaken form of the one after it.      *)
(***************************************************************************)
EXTENDS Integers, FiniteSets

CONSTANTS
    Peers,
    None, NotYet,  \* no entry; not yet
    MinInterval,  \* hello_min_interval
    Batch,        \* hello_batch
    MaxFailures,  \* max_failures
    MaxTracked    \* bound: requests of one kind open at a peer

\* The entries of the routing table: needs_hello, last_hello, failures,
\* received_hello, and whether by_dest still leads to the entry.
Entries ==
    [needs : BOOLEAN, hello : Nat \cup {NotYet}, failures : Nat, received : BOOLEAN,
     indexed : BOOLEAN]

\* What the constants may be; KadServices assumes it.
GreetingsAssumption ==
    /\ IsFiniteSet(Peers)
    /\ NotYet \notin Nat /\ None \notin Entries
    /\ {MinInterval, Batch, MaxFailures, MaxTracked} \subseteq Nat \ {0}

VARIABLES
    table,    \* the entry of each peer in the routing table, or None
    tracked,  \* how many live tracked_out_requests of each kind a peer has
    quiet,    \* history: the time since a HELLO_REQ left for a peer whose
              \* entry has stayed since
    strayed,  \* history: peers whose entry by_dest once did not lead to
    rushed    \* history: peers that were greeted before their time

greetingVars == <<table, tracked, quiet, strayed, rushed>>

NewEntry == [needs |-> TRUE, hello |-> NotYet, failures |-> 0, received |-> FALSE, indexed |-> TRUE]

Present == {p \in Peers : table[p] # None}
Indexed == {p \in Present : table[p].indexed}

Init ==
    /\ table \in [Peers -> {None, NewEntry}]
    /\ tracked = [p \in Peers |-> [req |-> 0, res |-> 0]]
    /\ quiet = [p \in Peers |-> NotYet]
    /\ strayed = {}
    /\ rushed = {}

-----------------------------------------------------------------------------
(* Greeting. *)

Doubled(n) == 2 ^ (IF n < 8 THEN n ELSE 8)

\* The time last_hello counts to: the longest wait is over.
Longest == MinInterval * Doubled(MaxFailures - 1)

Over(age, wait) == IF age = NotYet THEN TRUE ELSE age >= wait

\* should_send_hello.
Due(e) == e.needs \/ Over(e.hello, MinInterval)

\* The filter of select_hello_candidates.
Candidates ==
    {p \in Present :
        /\ table[p].failures < MaxFailures
        /\ \/ table[p].needs
           \/ Over(table[p].hello, MinInterval * Doubled(table[p].failures))}

\* Slip: last_hello is set by the first greeting only.
MarkedFirst(e) == [e EXCEPT !.needs = FALSE, !.hello = IF e.needs THEN 0 ELSE @]

\* mark_hello_sent_by_dest.
MarkedSent(e) == [e EXCEPT !.needs = FALSE, !.hello = 0]

\* HELLO_REQs leave for the peers of S, each noted in the entry by_dest leads
\* to; the table before that is base.
Greet(base, S, paced) ==
    /\ \A p \in S : tracked[p].req < MaxTracked
    /\ table' = [p \in Peers |-> IF p \in S \cap Indexed THEN MarkedSent(base[p]) ELSE base[p]]
    /\ tracked' = [p \in Peers |-> IF p \in S THEN [tracked[p] EXCEPT !.req = @ + 1] ELSE tracked[p]]
    /\ quiet' = [p \in Peers |-> IF p \in S THEN 0 ELSE quiet[p]]
    /\ rushed' = rushed \cup
          {p \in S \ strayed : paced /\ ~ Over(quiet[p], MinInterval)}
    /\ UNCHANGED strayed

\* send_hello_batch: those that need it come first.  The shaper or the socket
\* may refuse any of the chosen.
HelloBatch ==
    \E chosen \in SUBSET Candidates, sent \in SUBSET Present :
        /\ Cardinality(chosen) <= Batch
        /\ Cardinality(chosen) < Batch => chosen = Candidates
        /\ \A p \in chosen, q \in Candidates \ chosen : table[q].needs => table[p].needs
        /\ sent \subseteq chosen
        /\ Greet(table, sent, TRUE)

\* maybe_send_hello_to_peer, before p gets a search or a publish.
Preflight(p) ==
    /\ p \in Indexed /\ Due(table[p])
    /\ Greet(table, {p}, TRUE)

\* debug_probe_peer greets at any time.
Probe(p) ==
    /\ p \in Indexed
    /\ Greet(table, {p}, FALSE)

-----------------------------------------------------------------------------
(* What comes in. *)

\* The entry of p as every packet of p leaves it: update_sender_keys_by_dest.
Heard(e) == [e EXCEPT !.failures = 0]

\* mark_received_hello_by_dest.
MarkedReceived(e) == [e EXCEPT !.received = TRUE, !.needs = FALSE, !.failures = 0]

\* p is in the table no more.
Gone(p) ==
    /\ table' = [table EXCEPT ![p] = None]
    /\ quiet' = [quiet EXCEPT ![p] = NotYet]
    /\ strayed' = strayed \ {p}

\* p as upsert leaves it at its own destination.
Entered(p) == IF table[p] = None THEN NewEntry
              ELSE [table[p] EXCEPT !.indexed = TRUE, !.failures = 0]

\* A HELLO names its sender, which is upserted under its destination.  The
\* table may be full and the peer be the one that has to go.
TakeHello(p) ==
    \/ /\ table' = [table EXCEPT ![p] = MarkedReceived(Entered(p))]
       /\ UNCHANGED <<quiet, strayed>>
    \/ Gone(p)

\* A HELLO_REQ is answered with a HELLO_RES that asks for its ACK, if the
\* shaper lets it.
HelloReq(p) ==
    /\ TakeHello(p)
    /\ \/ UNCHANGED tracked
       \/ tracked[p].res < MaxTracked /\ tracked' = [tracked EXCEPT ![p].res = @ + 1]
    /\ UNCHANGED rushed

\* A HELLO_RES is taken once for each HELLO_REQ that is tracked.
HelloRes(p) ==
    /\ tracked[p].req > 0
    /\ tracked' = [tracked EXCEPT ![p].req = @ - 1]
    /\ TakeHello(p)
    /\ UNCHANGED rushed

HelloResAck(p) ==
    /\ tracked[p].res > 0
    /\ tracked' = [tracked EXCEPT ![p].res = @ - 1]
    /\ table' = [table EXCEPT ![p] = IF p \in Indexed THEN Heard(@) ELSE @]
    /\ UNCHANGED <<quiet, strayed, rushed>>

\* A BOOTSTRAP_RES, RES, SEARCH_RES or PUBLISH_RES of p: maybe_hello_on_inbound
\* greets it when it is due.
Answer(p) ==
    /\ p \in Indexed
    /\ \E sent \in SUBSET {p} :
          /\ sent # {} => Due(table[p])
          /\ Greet([table EXCEPT ![p] = Heard(@)], sent, TRUE)

-----------------------------------------------------------------------------
(* The routing table and time. *)

\* A contact list names p.
Learn(p) ==
    /\ table' = [table EXCEPT ![p] = Entered(p)]
    /\ UNCHANGED <<tracked, quiet, strayed, rushed>>

\* It is evicted, or displaced by another node at its destination.
Forget(p) ==
    /\ table[p] # None
    /\ Gone(p)
    /\ UNCHANGED <<tracked, rushed>>

\* A request to it timed out.
Fail(p) ==
    /\ p \in Indexed /\ table[p].failures < MaxFailures
    /\ table' = [table EXCEPT ![p].failures = @ + 1]
    /\ UNCHANGED <<tracked, quiet, strayed, rushed>>

\* The node of p is named at a second destination: by_dest leads to it from
\* there, its entry keeps the first.
Move(p) ==
    /\ p \in Indexed
    /\ table' = [table EXCEPT ![p].indexed = FALSE, ![p].failures = 0]
    /\ strayed' = strayed \cup {p}
    /\ UNCHANGED <<tracked, quiet, rushed>>

\* TRACKED_OUT_REQUEST_TTL is over for a request.
TrackedExpires(p, kind) ==
    /\ tracked[p][kind] > 0
    /\ tracked' = [tracked EXCEPT ![p][kind] = @ - 1]
    /\ UNCHANGED <<table, quiet, strayed, rushed>>

Older(age) ==
    IF age = NotYet THEN NotYet
    ELSE IF age < Longest THEN age + 1 ELSE age

Clock ==
    /\ table' = [p \in Peers |-> IF p \in Present THEN [table[p] EXCEPT !.hello = Older(@)]
                                 ELSE None]
    /\ quiet' = [p \in Peers |-> Older(quiet[p])]
    /\ UNCHANGED <<tracked, strayed, rushed>>

Next ==
    \/ HelloBatch
    \/ \E p \in Peers : Preflight(p)
    \/ \E p \in Peers : Probe(p)
    \/ \E p \in Peers : HelloReq(p)
    \/ \E p \in Peers : HelloRes(p)
    \/ \E p \in Peers : HelloResAck(p)
    \/ \E p \in Peers : Answer(p)
    \/ \E p \in Peers : Learn(p)
    \/ \E p \in Peers : Forget(p)
    \/ \E p \in Peers : Fail(p)
    \/ \E p \in Peers : Move(p)
    \/ \E p \in Peers, kind \in {"req", "res"} : TrackedExpires(p, kind)
    \/ Clock

Spec == Init /\ [][Next]_greetingVars

-----------------------------------------------------------------------------
(* Properties. *)

\* However the interval, searches, answers and probes take turns, no peer is
\* greeted again before hello_min_interval is over, by any of them but a probe,
\* as long as its entry stays and its destination leads to it; and what the
\* table remembers is the last greeting that went out, so that one the shaper
\* or the socket refused does not count.
GreetingsArePaced ==
    /\ rushed = {}
    /\ \A p \in Present \ strayed : table[p].hello = quiet[p]

\* The same of every peer in the table, which the code does not keep.
EveryGreetingIsPaced == \A p \in Present : table[p].hello = quiet[p]
=============================================================================
