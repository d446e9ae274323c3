--------------------------- MODULE KadPublishing ----------------------------
(***************************************************************************)
(* What the KAD service does for keywords and files of this node           *)
(* (src/src/kad/service.rs): keyword jobs that search and publish in       *)
(* batches, publishes of sources, the matching of their answers, the probe *)
(* of each file (src/src/kad/service/source_probe.rs) and the publish      *)
(* status the API reads.  The probe's search events are like its publish   *)
(* events and are left out.                                                *)
(*                                                                         *)
(* Answers come late, twice, in any order or never.  A peer is left out of *)
(* a batch when the shaper refuses it or the send fails, so that batches   *)
(* are chosen freely.  The requests for closer nodes a job sends besides   *)
(* are the Crawl of KadLookups, and greetings are left out.                *)
(*                                                                         *)
(* A definition marked "Slip" is a mistaken form of the one after it.      *)
(***************************************************************************)
EXTENDS Integers, FiniteSets, Sequences, SequencesExt

CONSTANTS
    Keywords, Files, Peers,
    None,         \* no job, no file
    Batch,        \* KEYWORD_JOB_ACTION_BATCH
    ActionEvery,  \* KEYWORD_JOB_ACTION_EVERY
    JobTTL,       \* KEYWORD_JOB_TTL
    MaxProbes,    \* SOURCE_PROBE_MAX_TRACKED_FILES
    MaxTracked,   \* bound: requests a peer may have open
    SourceFiles   \* bound: the files that are published with their sources

\* What the constants may be; KadServices assumes it.
PublishingAssumption ==
    /\ IsFiniteSet(Keywords) /\ IsFiniteSet(Files) /\ IsFiniteSet(Peers)
    /\ None \notin Files
    /\ SourceFiles \subseteq Files
    /\ {Batch, ActionEvery, JobTTL, MaxProbes, MaxTracked} \subseteq Nat \ {0}

VARIABLES
    keyword_jobs,  \* the job of each keyword, or None
    tracked,       \* the kinds of the live tracked_out_requests, by peer
    net,           \* the answers that may still arrive
    probes,        \* source_probe_by_file, from the least recently updated
    acks           \* history: the pairs of a keyword and a file whose publish
                   \* was answered

vars == <<keyword_jobs, tracked, net, probes, acks>>

\* A KadKeywordJob: want_search, the file it publishes, got_publish_ack,
\* publish_ack_file, sent_to_search, sent_to_publish, the times until
\* next_search_at and next_publish_at, and that since created_at.
NewJob == [want_search |-> FALSE, publish |-> None, got_ack |-> FALSE,
           ack_file |-> None, searched |-> {}, published |-> {},
           search_in |-> 0, publish_in |-> 0, age |-> 0]

Init ==
    /\ keyword_jobs = [k \in Keywords |-> None]
    /\ tracked = [d \in Peers |-> <<>>]
    /\ net = {}
    /\ probes = <<>>
    /\ acks = {}

KeyAnswer(d, k, f) == [from |-> d, kind |-> "key", keyword |-> k, file |-> f]
SourceAnswer(d, f) == [from |-> d, kind |-> "source", keyword |-> None, file |-> f]

-----------------------------------------------------------------------------
(* Keyword jobs. *)

SearchDue(job) == job.want_search /\ job.search_in = 0

PublishDue(job) == job.publish # None /\ ~ job.got_ack /\ job.publish_in = 0

\* The peers a job may address next.
Batches(due, served) ==
    IF due THEN {S \in SUBSET (Peers \ served) : Cardinality(S) <= Batch} ELSE {{}}

\* progress_keyword_job, with the peers it searched at and published to.
Progressed(job, S, P) ==
    [job EXCEPT !.searched = @ \cup S,
                !.search_in = IF SearchDue(job) THEN ActionEvery ELSE @,
                !.published = @ \cup P,
                !.publish_in = IF PublishDue(job) THEN ActionEvery ELSE @]

\* The publishes of one step are tracked and may be answered.
SendPublishes(sent) ==
    /\ \A d \in Peers :
          Len(tracked[d]) + Cardinality({s \in sent : s.from = d}) <= MaxTracked
    /\ tracked' = [d \in Peers |->
          tracked[d] \o [i \in 1 .. Cardinality({s \in sent : s.from = d}) |-> "key"]]
    /\ net' = net \cup sent

\* A step that leaves the jobs of K as given and lets them progress.
Progress(jobs, K) ==
    \E S \in [K -> SUBSET Peers], P \in [K -> SUBSET Peers] :
        /\ \A k \in K : /\ S[k] \in Batches(SearchDue(jobs[k]), jobs[k].searched)
                        /\ P[k] \in Batches(PublishDue(jobs[k]), jobs[k].published)
        /\ keyword_jobs' = [k \in Keywords |->
                               IF k \in K THEN Progressed(jobs[k], S[k], P[k]) ELSE jobs[k]]
        /\ SendPublishes(UNION {{KeyAnswer(d, k, jobs[k].publish) : d \in P[k]} : k \in K})
        /\ UNCHANGED <<probes, acks>>

Open(k) == IF keyword_jobs[k] = None THEN NewJob ELSE keyword_jobs[k]

\* start_keyword_job_search.
SearchKeyword(k) ==
    Progress([keyword_jobs EXCEPT ![k] =
                [Open(k) EXCEPT !.want_search = TRUE, !.age = 0,
                                !.search_in = 0, !.searched = {}]], {k})

Republish(job, f) ==
    [job EXCEPT !.publish = f, !.age = 0, !.publish_in = 0, !.published = {},
                !.got_ack = FALSE, !.ack_file = None]

\* start_keyword_job_publish.
PublishKeyword(k, f) ==
    Progress([keyword_jobs EXCEPT ![k] = Republish(Open(k), f)], {k})

\* What progress_keyword_jobs makes of a job before it progresses.
Kept(job) ==
    IF job.got_ack THEN [job EXCEPT !.publish = None, !.published = {}] ELSE job

Expired(job) == job.age > JobTTL

\* The maintenance branch.
ProgressJobs ==
    LET open == {k \in Keywords : keyword_jobs[k] # None}
        live == {k \in open : ~ Expired(keyword_jobs[k])}
    IN  /\ open # {}
        /\ Progress([k \in Keywords |-> IF k \in live THEN Kept(keyword_jobs[k]) ELSE None], live)

\* A KADEMLIA2_RES for a keyword nudges its job.
Nudge(k) == keyword_jobs[k] # None /\ Progress(keyword_jobs, {k})

StopKeywordSearch(k) ==
    /\ keyword_jobs[k] # None
    /\ keyword_jobs' = [keyword_jobs EXCEPT ![k].want_search = FALSE,
                                            ![k].publish = None, ![k].got_ack = TRUE]
    /\ UNCHANGED <<tracked, net, probes, acks>>

DeleteKeywordSearch(k) ==
    /\ keyword_jobs[k] # None
    /\ keyword_jobs' = [keyword_jobs EXCEPT ![k] = None]
    /\ UNCHANGED <<tracked, net, probes, acks>>

-----------------------------------------------------------------------------
(* Sources and their probes. *)

Probed(f) == {i \in DOMAIN probes : probes[i].file = f}

Seen(f) == UNION {probes[i].seen : i \in Probed(f)}

\* source_probe_state_mut: the least recently updated makes room.
ProbesWithout(f) ==
    IF Probed(f) = {} /\ Len(probes) >= MaxProbes THEN Tail(probes)
    ELSE SelectSeq(probes, LAMBDA p : p.file # f)

NoteProbe(f, event) ==
    probes' = Append(ProbesWithout(f), [file |-> f, seen |-> Seen(f) \cup {event}])

\* send_publish_source to the peers of S.
PublishSource(f) ==
    \E S \in SUBSET Peers :
        /\ S # {}
        /\ \A d \in S : Len(tracked[d]) < MaxTracked
        /\ tracked' = [d \in Peers |-> IF d \in S THEN Append(tracked[d], "source") ELSE tracked[d]]
        /\ net' = net \cup {SourceAnswer(d, f) : d \in S}
        /\ NoteProbe(f, "publish_sent")
        /\ UNCHANGED <<keyword_jobs, acks>>

-----------------------------------------------------------------------------
(* Answers.  A KADEMLIA2_PUBLISH_RES for a keyword wants a publish of a    *)
(* keyword, one for a source takes either; the oldest at the peer goes.    *)

Expected(answer) == IF answer.kind = "key" THEN {"key"} ELSE {"source", "key"}

Matches(answer) ==
    {i \in DOMAIN tracked[answer.from] : tracked[answer.from][i] \in Expected(answer)}

Oldest(S) == CHOOSE i \in S : \A j \in S : i <= j

Consume(answer) ==
    /\ Matches(answer) # {}
    /\ tracked' = [tracked EXCEPT ![answer.from] = RemoveAt(@, Oldest(Matches(answer)))]
    /\ net' \in {net, net \ {answer}}

\* The first acknowledgement ends the publish, in the name of its file.
Acknowledged(job) ==
    IF job.got_ack THEN job
    ELSE [job EXCEPT !.got_ack = TRUE,
                     !.ack_file = IF job.publish # None THEN job.publish ELSE @]

PublishResKey(answer) ==
    /\ answer.kind = "key"
    /\ Consume(answer)
    /\ keyword_jobs' = [keyword_jobs EXCEPT ![answer.keyword] =
                           IF @ = None THEN None ELSE Acknowledged(@)]
    /\ acks' = acks \cup {<<answer.keyword, answer.file>>}
    /\ UNCHANGED probes

PublishResSource(answer) ==
    /\ answer.kind = "source"
    /\ Consume(answer)
    /\ NoteProbe(answer.file, "publish_res")
    /\ UNCHANGED <<keyword_jobs, acks>>

\* No request matches: the packet is dropped.
DropAnswer(answer) ==
    /\ Matches(answer) = {}
    /\ net' = net \ {answer}
    /\ UNCHANGED <<keyword_jobs, tracked, probes, acks>>

\* TRACKED_OUT_REQUEST_TTL is over for the oldest request at a peer.
TrackedExpires(d) ==
    /\ tracked[d] # <<>>
    /\ tracked' = [tracked EXCEPT ![d] = Tail(@)]
    /\ UNCHANGED <<keyword_jobs, net, probes, acks>>

Sooner(n) == IF n = 0 THEN 0 ELSE n - 1

Clock ==
    /\ keyword_jobs' = [k \in Keywords |->
          IF keyword_jobs[k] = None THEN None
          ELSE [keyword_jobs[k] EXCEPT !.search_in = Sooner(@), !.publish_in = Sooner(@),
                                       !.age = IF @ > JobTTL THEN @ ELSE @ + 1]]
    /\ UNCHANGED <<tracked, net, probes, acks>>

Next ==
    \/ \E k \in Keywords : SearchKeyword(k)
    \/ \E k \in Keywords, f \in Files : PublishKeyword(k, f)
    \/ \E k \in Keywords : Nudge(k)
    \/ \E k \in Keywords : StopKeywordSearch(k)
    \/ \E k \in Keywords : DeleteKeywordSearch(k)
    \/ ProgressJobs
    \/ \E f \in SourceFiles : PublishSource(f)
    \/ \E answer \in net : PublishResKey(answer)
    \/ \E answer \in net : PublishResSource(answer)
    \/ \E answer \in net : DropAnswer(answer)
    \/ \E d \in Peers : TrackedExpires(d)
    \/ Clock

Spec == Init /\ [][Next]_vars

-----------------------------------------------------------------------------
(* The status of shared files. *)

\* Slip: a job whose publish is over is not looked at.
AckedWhilePublishing(f) ==
    {k \in Keywords : keyword_jobs[k] # None /\ keyword_jobs[k].publish = f
                                             /\ keyword_jobs[k].ack_file # None}

\* shared_publish_status_for_file: the keywords whose publish of f counts as
\* acknowledged.
AckedKeywords(f) ==
    {k \in Keywords :
        /\ keyword_jobs[k] # None
        /\ keyword_jobs[k].ack_file # None
        /\ \/ keyword_jobs[k].publish = f
           \/ keyword_jobs[k].publish = None /\ keyword_jobs[k].ack_file = f}

-----------------------------------------------------------------------------
(* Properties. *)

\* The coverage of a file does not fall when its publish is over: a keyword
\* stops counting only with its job or when another publish takes the job
\* (shared_publish_status_keeps_counting_acked_keywords_after_publish_is_
\* cleared).
AckCoverageKeeps ==
    [][\A f \in Files : \A k \in AckedKeywords(f) \ AckedKeywords(f)' :
          \/ keyword_jobs'[k] = None
          \/ keyword_jobs'[k].publish # None /\ ~ keyword_jobs'[k].got_ack]_vars

\* A file counts as acknowledged only if a peer answered the publish of that
\* very file.
AckedFileWasAcked ==
    \A f \in Files : \A k \in AckedKeywords(f) : <<k, f>> \in acks
=============================================================================
