------------------------- MODULE KadServicesProofs --------------------------
(***************************************************************************)
(* Theorems about the parts of KadServices, for every value of the         *)
(* constants.                                                              *)
(***************************************************************************)
EXTENDS KadServices, SequenceLemmas, FiniteSetTheorems, TLAPS

LEMMA OneLess ==
    ASSUME NEW S, IsFiniteSet(S), NEW x \in S
    PROVE  /\ IsFiniteSet(S \ {x}) /\ Cardinality(S) \in Nat
           /\ Cardinality(S \ {x}) = Cardinality(S) - 1
BY FS_RemoveElement, FS_CardinalityType

LEMMA OneMore ==
    ASSUME NEW S, IsFiniteSet(S), NEW x
    PROVE  /\ IsFiniteSet(S \cup {x}) /\ Cardinality(S) \in Nat
           /\ Cardinality(S \cup {x}) \in {Cardinality(S), Cardinality(S) + 1}
           /\ x \notin S => Cardinality(S \cup {x}) = Cardinality(S) + 1
BY FS_AddElement, FS_CardinalityType
-----------------------------------------------------------------------------
(* Greetings *)

GreetingTypes ==
    /\ greeted \in [Peers -> Greetings!Entries \cup {None}]
    /\ quiet \in [Peers -> Nat \cup {NotYet}]
    /\ strayed \subseteq Peers

\* What the table remembers of a peer that never strayed is the last greeting; one
\* that needs a greeting had none, and a peer that is not there has no past.
PacedEntry(p) ==
    IF greeted[p] = None THEN quiet[p] = NotYet /\ p \notin strayed
    ELSE p \notin strayed =>
            /\ greeted[p].indexed
            /\ greeted[p].hello = quiet[p]
            /\ greeted[p].needs => quiet[p] = NotYet

GreetingsInv ==
    /\ GreetingTypes
    /\ \A p \in Peers : PacedEntry(p)
    /\ rushed = {}

LEMMA IntervalsTyped ==
    /\ MinInterval \in Nat \ {0} /\ MaxFailures \in Nat \ {0}
    /\ NotYet \notin Nat /\ None \notin Greetings!Entries
BY InstancesAssumption
   DEF Greetings!GreetingsAssumption

LEMMA NewEntryTyped ==
    /\ Greetings!NewEntry \in Greetings!Entries
    /\ Greetings!NewEntry.hello = NotYet /\ Greetings!NewEntry.indexed
BY DEF Greetings!NewEntry, Greetings!Entries

LEMMA GreetingsInit == Init => GreetingsInv
BY NewEntryTyped, IntervalsTyped
   DEF Init, Greetings!Init, GreetingsInv, GreetingTypes, PacedEntry

\* Failures make the wait longer, never shorter.
LEMMA WaitGrows ==
    ASSUME NEW n \in Nat
    PROVE  MinInterval * Greetings!Doubled(n) \in Nat
           /\ MinInterval * Greetings!Doubled(n) >= MinInterval
<1>1. Greetings!Doubled(n) \in {1, 2, 4, 8, 16, 32, 64, 128, 256}
  <2>1. CASE n < 8
    <3> DEFINE pow(m) == 2 ^ m
    <3>1. /\ pow(0) = 1 /\ pow(1) = 2 /\ pow(2) = 4 /\ pow(3) = 8
          /\ pow(4) = 16 /\ pow(5) = 32 /\ pow(6) = 64 /\ pow(7) = 128
      OBVIOUS
    <3>2. Greetings!Doubled(n) = pow(n)
      BY <2>1 DEF Greetings!Doubled
    <3> HIDE DEF pow
    <3>3. n = 0 \/ n = 1 \/ n = 2 \/ n = 3 \/ n = 4 \/ n = 5 \/ n = 6 \/ n = 7
      BY <2>1
    <3> QED
      BY <3>1, <3>2, <3>3
  <2>2. CASE ~ (n < 8)
    BY <2>2 DEF Greetings!Doubled
  <2> QED
    BY <2>1, <2>2
<1> QED
  BY <1>1, IntervalsTyped

\* Greetings leave for peers of S that are in the table.
LEMMA GreetPaced ==
    ASSUME GreetingsInv, NEW S \in SUBSET Greetings!Present, NEW paced, NEW base,
           Greetings!Greet(base, S, paced),
           base \in [Peers -> Greetings!Entries \cup {None}],
           \A p \in Peers : IF greeted[p] = None THEN base[p] = None
                            ELSE base[p] = greeted[p] \/ base[p] = Greetings!Heard(greeted[p]),
           paced => \A p \in S \ strayed : Greetings!Over(quiet[p], MinInterval)
    PROVE  GreetingsInv'
<1>1. /\ greeted' = [p \in Peers |-> IF p \in S \cap Greetings!Indexed
                                     THEN Greetings!MarkedSent(base[p]) ELSE base[p]]
      /\ quiet' = [p \in Peers |-> IF p \in S THEN 0 ELSE quiet[p]]
      /\ strayed' = strayed
  BY DEF Greetings!Greet
<1>2. rushed' = {}
  <2>1. {p \in S \ strayed : paced /\ ~ Greetings!Over(quiet[p], MinInterval)} = {}
    OBVIOUS
  <2> QED
    BY <2>1 DEF Greetings!Greet, GreetingsInv
<1>3. ASSUME NEW p \in Peers, greeted[p] # None
      PROVE  /\ base[p] \in Greetings!Entries
             /\ base[p].indexed = greeted[p].indexed
             /\ base[p].hello = greeted[p].hello /\ base[p].needs = greeted[p].needs
             /\ Greetings!MarkedSent(base[p]) \in Greetings!Entries
             /\ Greetings!MarkedSent(base[p]).indexed = greeted[p].indexed
             /\ Greetings!MarkedSent(base[p]).hello = 0
             /\ ~ Greetings!MarkedSent(base[p]).needs
  <2>1. greeted[p] \in Greetings!Entries
    BY <1>3 DEF GreetingsInv, GreetingTypes
  <2>2. base[p] = greeted[p] \/ base[p] = Greetings!Heard(greeted[p])
    BY <1>3
  <2>3. /\ base[p] \in Greetings!Entries
        /\ base[p].indexed = greeted[p].indexed
        /\ base[p].hello = greeted[p].hello /\ base[p].needs = greeted[p].needs
    BY <2>1, <2>2 DEF Greetings!Entries, Greetings!Heard
  <2> QED
    BY <2>3 DEF Greetings!Entries, Greetings!MarkedSent
<1>4. GreetingTypes'
  BY <1>1, <1>3 DEF GreetingsInv, GreetingTypes, Greetings!Indexed, Greetings!Present
<1>5. ASSUME NEW p \in Peers PROVE PacedEntry(p)'
  BY <1>1, <1>3, IntervalsTyped
     DEF GreetingsInv, PacedEntry, Greetings!Indexed, Greetings!Present
<1> QED
  BY <1>2, <1>4, <1>5 DEF GreetingsInv

LEMMA GreetingsStep == GreetingsInv /\ Greetings!Next => GreetingsInv'
<1> SUFFICES ASSUME GreetingsInv, Greetings!Next PROVE GreetingsInv'
  OBVIOUS
<1> USE IntervalsTyped
<1>a. ASSUME NEW p \in Greetings!Present
      PROVE  p \in Peers /\ greeted[p] # None /\ greeted[p] \in Greetings!Entries
  BY DEF Greetings!Present, GreetingsInv, GreetingTypes
<1>b. ASSUME NEW p \in Greetings!Present, p \notin strayed, Greetings!Due(greeted[p])
      PROVE  Greetings!Over(quiet[p], MinInterval)
  BY <1>a, <1>b DEF Greetings!Due, Greetings!Over, GreetingsInv, PacedEntry
<1>1. CASE Greetings!HelloBatch
  <2>1. PICK chosen \in SUBSET Greetings!Candidates, sent \in SUBSET Greetings!Present :
           sent \subseteq chosen /\ Greetings!Greet(greeted, sent, TRUE)
    BY <1>1 DEF Greetings!HelloBatch
  <2>2. ASSUME NEW p \in sent, p \notin strayed PROVE Greetings!Over(quiet[p], MinInterval)
    <3>1. /\ p \in Greetings!Present
          /\ \/ greeted[p].needs
             \/ Greetings!Over(greeted[p].hello, MinInterval * Greetings!Doubled(greeted[p].failures))
      BY <2>1 DEF Greetings!Candidates
    <3>2. greeted[p].failures \in Nat /\ greeted[p].hello \in Nat \cup {NotYet}
      BY <1>a, <3>1 DEF Greetings!Entries
    <3>3. greeted[p].needs \/ Greetings!Over(greeted[p].hello, MinInterval)
      BY <3>1, <3>2, WaitGrows DEF Greetings!Over
    <3> QED
      BY <1>b, <2>2, <3>1, <3>3 DEF Greetings!Due
  <2> QED
    BY <2>1, <2>2, GreetPaced DEF GreetingsInv, GreetingTypes
<1>2. ASSUME NEW p \in Peers, Greetings!Preflight(p) PROVE GreetingsInv'
  <2>1. /\ p \in Greetings!Present /\ Greetings!Due(greeted[p])
        /\ Greetings!Greet(greeted, {p}, TRUE)
    BY <1>2 DEF Greetings!Preflight, Greetings!Indexed
  <2> QED
    BY <1>b, <2>1, GreetPaced DEF GreetingsInv, GreetingTypes
<1>3. ASSUME NEW p \in Peers, Greetings!Probe(p) PROVE GreetingsInv'
  <2>1. p \in Greetings!Present /\ Greetings!Greet(greeted, {p}, FALSE)
    BY <1>3 DEF Greetings!Probe, Greetings!Indexed
  <2> QED
    BY <2>1, GreetPaced DEF GreetingsInv, GreetingTypes
\* The entry of one peer changes, and nothing that greetings are paced by.
<1>c. ASSUME NEW p \in Peers, NEW e \in Greetings!Entries,
             greeted' = [greeted EXCEPT ![p] = e], UNCHANGED <<quiet, strayed, rushed>>,
             IF greeted[p] = None THEN e.indexed /\ e.hello = NotYet
             ELSE p \notin strayed => e.indexed /\ e.hello = greeted[p].hello
                                      /\ (e.needs => greeted[p].needs)
      PROVE  GreetingsInv'
  <2>1. GreetingTypes'
    BY <1>c DEF GreetingsInv, GreetingTypes
  <2>2. ASSUME NEW q \in Peers PROVE PacedEntry(q)'
    BY <1>c DEF GreetingsInv, GreetingTypes, PacedEntry
  <2> QED
    BY <1>c, <2>1, <2>2 DEF GreetingsInv
<1>d. ASSUME NEW p \in Peers, Greetings!Gone(p), UNCHANGED rushed PROVE GreetingsInv'
  BY <1>d DEF Greetings!Gone, GreetingsInv, GreetingTypes, PacedEntry
<1>e. ASSUME NEW p \in Peers
      PROVE  /\ Greetings!Entered(p) \in Greetings!Entries
             /\ Greetings!Entered(p).indexed
             /\ Greetings!Entered(p).hello = IF greeted[p] = None THEN NotYet ELSE greeted[p].hello
             /\ greeted[p] # None => Greetings!Entered(p).needs = greeted[p].needs
  BY NewEntryTyped
     DEF Greetings!Entered, GreetingsInv, GreetingTypes, Greetings!Entries
<1>f. ASSUME NEW p \in Peers, Greetings!TakeHello(p), UNCHANGED rushed PROVE GreetingsInv'
  <2> DEFINE e == Greetings!MarkedReceived(Greetings!Entered(p))
  <2>1. /\ e \in Greetings!Entries /\ e.indexed /\ e.hello = Greetings!Entered(p).hello
        /\ ~ e.needs
    BY <1>e DEF Greetings!MarkedReceived, Greetings!Entries
  <2> HIDE DEF e
  <2>2. CASE greeted' = [greeted EXCEPT ![p] = e] /\ UNCHANGED <<quiet, strayed>>
    BY <1>c, <1>e, <1>f, <2>1, <2>2
  <2> QED
    BY <1>d, <1>f, <2>2 DEF Greetings!TakeHello, e
<1>4. ASSUME NEW p \in Peers, Greetings!HelloReq(p) PROVE GreetingsInv'
  BY <1>f, <1>4 DEF Greetings!HelloReq
<1>5. ASSUME NEW p \in Peers, Greetings!HelloRes(p) PROVE GreetingsInv'
  BY <1>f, <1>5 DEF Greetings!HelloRes
<1>6. ASSUME NEW p \in Peers, Greetings!HelloResAck(p) PROVE GreetingsInv'
  <2>1. /\ greeted' = [greeted EXCEPT ![p] = IF p \in Greetings!Indexed
                                             THEN Greetings!Heard(@) ELSE @]
        /\ UNCHANGED <<quiet, strayed, rushed>>
    BY <1>6 DEF Greetings!HelloResAck
  <2>2. CASE p \in Greetings!Indexed
    <3> DEFINE e == Greetings!Heard(greeted[p])
    <3>1. /\ e \in Greetings!Entries /\ e.indexed = greeted[p].indexed
          /\ e.hello = greeted[p].hello /\ e.needs = greeted[p].needs /\ greeted[p].indexed
          /\ greeted[p] # None
      BY <1>a, <2>2 DEF Greetings!Heard, Greetings!Entries, Greetings!Indexed
    <3>2. greeted' = [greeted EXCEPT ![p] = e]
      BY <2>1, <2>2
    <3> HIDE DEF e
    <3> QED
      BY <1>c, <2>1, <3>1, <3>2
  <2>3. CASE p \notin Greetings!Indexed
    BY <2>1, <2>3 DEF GreetingsInv, GreetingTypes, PacedEntry
  <2> QED
    BY <2>2, <2>3
<1>7. ASSUME NEW p \in Peers, Greetings!Answer(p) PROVE GreetingsInv'
  <2> DEFINE base == [greeted EXCEPT ![p] = Greetings!Heard(@)]
  <2>1. PICK sent \in SUBSET {p} :
           /\ sent # {} => Greetings!Due(greeted[p])
           /\ Greetings!Greet(base, sent, TRUE)
    BY <1>7 DEF Greetings!Answer
  <2>2. p \in Greetings!Present
    BY <1>7 DEF Greetings!Answer, Greetings!Indexed
  <2>3. /\ base \in [Peers -> Greetings!Entries \cup {None}]
        /\ \A q \in Peers : IF greeted[q] = None THEN base[q] = None
                            ELSE base[q] = greeted[q] \/ base[q] = Greetings!Heard(greeted[q])
    BY <1>a, <2>2 DEF GreetingsInv, GreetingTypes, Greetings!Heard, Greetings!Entries
  <2>4. \A q \in sent \ strayed : Greetings!Over(quiet[q], MinInterval)
    BY <1>b, <2>1, <2>2
  <2> HIDE DEF base
  <2> QED
    BY <2>1, <2>2, <2>3, <2>4, GreetPaced
<1>8. ASSUME NEW p \in Peers, Greetings!Learn(p) PROVE GreetingsInv'
  BY <1>c, <1>e, <1>8 DEF Greetings!Learn
<1>9. ASSUME NEW p \in Peers, Greetings!Forget(p) PROVE GreetingsInv'
  BY <1>d, <1>9 DEF Greetings!Forget
<1>10. ASSUME NEW p \in Peers, Greetings!Fail(p) PROVE GreetingsInv'
  <2> DEFINE e == [greeted[p] EXCEPT !.failures = @ + 1]
  <2>1. greeted' = [greeted EXCEPT ![p] = e] /\ UNCHANGED <<quiet, strayed, rushed>>
    BY <1>10 DEF Greetings!Fail
  <2>2. /\ e \in Greetings!Entries /\ e.indexed /\ e.hello = greeted[p].hello
        /\ e.needs = greeted[p].needs /\ greeted[p] # None
    BY <1>a, <1>10 DEF Greetings!Fail, Greetings!Indexed, Greetings!Entries
  <2> HIDE DEF e
  <2> QED
    BY <1>c, <2>1, <2>2
<1>11. ASSUME NEW p \in Peers, Greetings!Move(p) PROVE GreetingsInv'
  <2> DEFINE e == [greeted[p] EXCEPT !.indexed = FALSE, !.failures = 0]
  <2>1. /\ greeted' = [greeted EXCEPT ![p] = e] /\ strayed' = strayed \cup {p}
        /\ UNCHANGED <<quiet, rushed>>
    BY <1>11 DEF Greetings!Move
  <2>2. e \in Greetings!Entries
    BY <1>a, <1>11 DEF Greetings!Move, Greetings!Indexed, Greetings!Entries
  <2> HIDE DEF e
  <2> QED
    BY <2>1, <2>2 DEF GreetingsInv, GreetingTypes, PacedEntry
<1>12. ASSUME NEW p \in Peers, NEW kind \in {"req", "res"}, Greetings!TrackedExpires(p, kind)
       PROVE  GreetingsInv'
  BY <1>12 DEF Greetings!TrackedExpires, GreetingsInv, GreetingTypes, PacedEntry
<1>13. CASE Greetings!Clock
  <2> DEFINE later(p) == [greeted[p] EXCEPT !.hello = Greetings!Older(@)]
  <2>1. /\ greeted' = [p \in Peers |-> IF p \in Greetings!Present THEN later(p) ELSE None]
        /\ quiet' = [p \in Peers |-> Greetings!Older(quiet[p])]
        /\ UNCHANGED <<strayed, rushed>>
    BY <1>13 DEF Greetings!Clock
  <2>2. \A age \in Nat \cup {NotYet} : /\ Greetings!Older(age) \in Nat \cup {NotYet}
                                       /\ age = NotYet => Greetings!Older(age) = NotYet
    BY DEF Greetings!Older
  <2>3. ASSUME NEW p \in Greetings!Present
        PROVE  /\ later(p) \in Greetings!Entries /\ later(p).indexed = greeted[p].indexed
               /\ later(p).hello = Greetings!Older(greeted[p].hello)
               /\ later(p).needs = greeted[p].needs
    BY <1>a, <2>2 DEF Greetings!Entries
  <2> HIDE DEF later
  <2>4. GreetingTypes'
    BY <2>1, <2>2, <2>3 DEF GreetingsInv, GreetingTypes
  <2>5. ASSUME NEW p \in Peers PROVE PacedEntry(p)'
    BY <2>1, <2>2, <2>3 DEF GreetingsInv, PacedEntry, Greetings!Present
  <2> QED
    BY <2>1, <2>4, <2>5 DEF GreetingsInv
<1> QED
  BY <1>1, <1>2, <1>3, <1>4, <1>5, <1>6, <1>7, <1>8, <1>9, <1>10, <1>11, <1>12, <1>13
     DEF Greetings!Next

\* No peer whose entry stays and is found under its destination is greeted again
\* before hello_min_interval is over, whichever of the greeters come first.
THEOREM PeersAreGreetedInTime == Spec => []GreetingsArePaced
<1>1. GreetingsInv /\ [Next]_vars => GreetingsInv'
  <2>1. GreetingsInv /\ UNCHANGED greetings => GreetingsInv'
    BY DEF GreetingsInv, GreetingTypes, PacedEntry, greetings
  <2> QED
    BY <2>1, GreetingsStep DEF Next, vars
<1>2. GreetingsInv => GreetingsArePaced
  BY DEF GreetingsInv, PacedEntry, GreetingsArePaced, Greetings!GreetingsArePaced,
         Greetings!Present
<1> QED
  BY <1>1, <1>2, GreetingsInit, PTL DEF Spec


-----------------------------------------------------------------------------
(* Publishing *)

Jobs ==
    [want_search : BOOLEAN, publish : JobFiles \cup {None}, got_ack : BOOLEAN,
     ack_file : JobFiles \cup {None}, searched : SUBSET JobPeers,
     published : SUBSET JobPeers, search_in : Nat, publish_in : Nat, age : Nat]

\* A job that remembers an acknowledgement publishes that file or none.
SoundJob(job) == job \in Jobs /\ (job.ack_file # None => job.publish \in {None, job.ack_file})

JobsInv ==
    /\ keyword_jobs \in [JobKeywords -> Jobs \cup {None}]
    /\ \A k \in JobKeywords : keyword_jobs[k] # None => SoundJob(keyword_jobs[k])

\* What a step may make of a job: only another publish takes the
\* acknowledgement.
Heir(old, new) ==
    /\ SoundJob(new)
    /\ (old # None /\ old.ack_file # None) =>
          \/ new.publish # None /\ ~ new.got_ack
          \/ new.ack_file = old.ack_file /\ new.publish \in {None, old.publish}

AllFollow ==
    /\ keyword_jobs' \in [JobKeywords -> Jobs \cup {None}]
    /\ \A k \in JobKeywords : keyword_jobs'[k] = None \/ Heir(keyword_jobs[k], keyword_jobs'[k])

LEMMA JobConstants ==
    /\ None \notin JobFiles /\ ActionEvery \in Nat /\ JobTTL \in Nat
    /\ ActionBatch \in Nat
BY InstancesAssumption DEF Publishing!PublishingAssumption

LEMMA JobsFollow ==
    ASSUME JobsInv, AllFollow
    PROVE  /\ JobsInv'
           /\ \A f \in JobFiles : \A k \in Publishing!AckedKeywords(f) \ Publishing!AckedKeywords(f)' :
                 \/ keyword_jobs'[k] = None
                 \/ keyword_jobs'[k].publish # None /\ ~ keyword_jobs'[k].got_ack
<1>1. JobsInv'
  BY DEF JobsInv, AllFollow, Heir
<1>2. ASSUME NEW f \in JobFiles, NEW k \in Publishing!AckedKeywords(f),
             keyword_jobs'[k] # None,
             ~ (keyword_jobs'[k].publish # None /\ ~ keyword_jobs'[k].got_ack)
      PROVE  k \in Publishing!AckedKeywords(f)'
  <2>1. /\ k \in JobKeywords /\ keyword_jobs[k] # None /\ keyword_jobs[k].ack_file # None
        /\ \/ keyword_jobs[k].publish = f
           \/ keyword_jobs[k].publish = None /\ keyword_jobs[k].ack_file = f
    BY DEF Publishing!AckedKeywords
  <2>2. keyword_jobs[k].ack_file = f /\ keyword_jobs[k].publish \in {None, f}
    BY <2>1, JobConstants DEF JobsInv, SoundJob
  <2>3. /\ keyword_jobs'[k].ack_file = f
        /\ keyword_jobs'[k].publish \in {None, f}
    BY <1>2, <2>1, <2>2 DEF AllFollow, Heir
  <2> QED
    BY <1>2, <2>1, <2>3, JobConstants DEF Publishing!AckedKeywords
<1> QED
  BY <1>1, <1>2

\* Progress adds peers and times to a job.
LEMMA ProgressFollows ==
    ASSUME NEW job \in Jobs, NEW S \in SUBSET JobPeers, NEW P \in SUBSET JobPeers
    PROVE  /\ Publishing!Progressed(job, S, P) \in Jobs
           /\ Publishing!Progressed(job, S, P).publish = job.publish
           /\ Publishing!Progressed(job, S, P).ack_file = job.ack_file
           /\ Publishing!Progressed(job, S, P).got_ack = job.got_ack
<1> DEFINE s == IF Publishing!SearchDue(job) THEN ActionEvery ELSE job.search_in
           p == IF Publishing!PublishDue(job) THEN ActionEvery ELSE job.publish_in
<1>1. s \in Nat /\ p \in Nat
  BY JobConstants DEF Jobs
<1>2. Publishing!Progressed(job, S, P) =
         [job EXCEPT !.searched = job.searched \cup S, !.search_in = s,
                     !.published = job.published \cup P, !.publish_in = p]
  BY DEF Publishing!Progressed, Jobs
<1> HIDE DEF s, p
<1> QED
  BY <1>1, <1>2 DEF Jobs

LEMMA ProgressAllFollow ==
    ASSUME NEW jobs, NEW K \in SUBSET JobKeywords, Publishing!Progress(jobs, K),
           \A k \in K : Heir(keyword_jobs[k], jobs[k]),
           \A k \in JobKeywords \ K : /\ jobs[k] \in Jobs \cup {None}
                                      /\ jobs[k] = None \/ Heir(keyword_jobs[k], jobs[k])
    PROVE  AllFollow
<1>1. PICK S \in [K -> SUBSET JobPeers], P \in [K -> SUBSET JobPeers] :
        keyword_jobs' = [k \in JobKeywords |->
            IF k \in K THEN Publishing!Progressed(jobs[k], S[k], P[k]) ELSE jobs[k]]
  BY DEF Publishing!Progress
<1>2. ASSUME NEW k \in K
      PROVE  Heir(keyword_jobs[k], Publishing!Progressed(jobs[k], S[k], P[k]))
  <2> DEFINE job == Publishing!Progressed(jobs[k], S[k], P[k])
  <2>1. /\ job \in Jobs /\ job.publish = jobs[k].publish
        /\ job.ack_file = jobs[k].ack_file /\ job.got_ack = jobs[k].got_ack
    BY ProgressFollows DEF Heir, SoundJob
  <2> HIDE DEF job
  <2>2. Heir(keyword_jobs[k], job)
    BY <2>1 DEF SoundJob, Heir
  <2> QED
    BY <2>2 DEF job
<1> QED
  BY <1>1, <1>2 DEF AllFollow, Heir, SoundJob

\* A job one step changes, and the others stay.
LEMMA OneFollows ==
    ASSUME JobsInv, NEW k \in JobKeywords, NEW job,
           keyword_jobs' = [keyword_jobs EXCEPT ![k] = job],
           job = None \/ Heir(keyword_jobs[k], job)
    PROVE  AllFollow
BY DEF JobsInv, AllFollow, Heir, SoundJob

LEMMA OpenSound ==
    ASSUME JobsInv, NEW k \in JobKeywords
    PROVE  /\ SoundJob(Publishing!Open(k))
           /\ keyword_jobs[k] # None => Publishing!Open(k) = keyword_jobs[k]
BY JobConstants DEF JobsInv, SoundJob, Jobs, Publishing!Open, Publishing!NewJob

LEMMA UnchangedFollows ==
    ASSUME JobsInv, NEW k \in JobKeywords
    PROVE  /\ keyword_jobs[k] \in Jobs \cup {None}
           /\ keyword_jobs[k] = None \/ Heir(keyword_jobs[k], keyword_jobs[k])
BY DEF JobsInv, Heir, SoundJob

LEMMA JobsStep == JobsInv /\ Publishing!Next => AllFollow
<1> SUFFICES ASSUME JobsInv, Publishing!Next PROVE AllFollow
  OBVIOUS
<1>1. ASSUME NEW k \in JobKeywords, Publishing!SearchKeyword(k) PROVE AllFollow
  <2> DEFINE job == [Publishing!Open(k) EXCEPT !.want_search = TRUE, !.age = 0,
                                               !.search_in = 0, !.searched = {}]
  <2>1. Publishing!Progress([keyword_jobs EXCEPT ![k] = job], {k})
    BY <1>1 DEF Publishing!SearchKeyword
  <2>2. /\ job \in Jobs /\ job.publish = Publishing!Open(k).publish
        /\ job.ack_file = Publishing!Open(k).ack_file
    BY OpenSound DEF SoundJob, Jobs
  <2> HIDE DEF job
  <2>3. Heir(keyword_jobs[k], job)
    BY <2>2, OpenSound DEF SoundJob, Heir
  <2> DEFINE jobs == [keyword_jobs EXCEPT ![k] = job]
  <2>4. /\ \A j \in {k} : Heir(keyword_jobs[j], jobs[j])
        /\ \A j \in JobKeywords \ {k} : jobs[j] = keyword_jobs[j]
    BY <2>3 DEF JobsInv
  <2>5. Publishing!Progress(jobs, {k})
    BY <2>1
  <2> HIDE DEF jobs
  <2>6. \A j \in JobKeywords \ {k} : /\ jobs[j] \in Jobs \cup {None}
                                     /\ jobs[j] = None \/ Heir(keyword_jobs[j], jobs[j])
    BY <2>4, UnchangedFollows
  <2> QED
    BY <2>4, <2>5, <2>6, ProgressAllFollow
<1>2. ASSUME NEW k \in JobKeywords, NEW f \in JobFiles, Publishing!PublishKeyword(k, f)
      PROVE AllFollow
  <2> DEFINE job == Publishing!Republish(Publishing!Open(k), f)
  <2>1. Publishing!Progress([keyword_jobs EXCEPT ![k] = job], {k})
    BY <1>2 DEF Publishing!PublishKeyword
  <2>2. /\ job \in Jobs /\ job.publish = f /\ ~ job.got_ack /\ job.ack_file = None
    BY OpenSound DEF SoundJob, Jobs, Publishing!Republish
  <2> HIDE DEF job
  <2>3. Heir(keyword_jobs[k], job)
    BY <2>2, JobConstants DEF SoundJob, Heir
  <2> DEFINE jobs == [keyword_jobs EXCEPT ![k] = job]
  <2>4. /\ \A j \in {k} : Heir(keyword_jobs[j], jobs[j])
        /\ \A j \in JobKeywords \ {k} : jobs[j] = keyword_jobs[j]
    BY <2>3 DEF JobsInv
  <2>5. Publishing!Progress(jobs, {k})
    BY <2>1
  <2> HIDE DEF jobs
  <2>6. \A j \in JobKeywords \ {k} : /\ jobs[j] \in Jobs \cup {None}
                                     /\ jobs[j] = None \/ Heir(keyword_jobs[j], jobs[j])
    BY <2>4, UnchangedFollows
  <2> QED
    BY <2>4, <2>5, <2>6, ProgressAllFollow
<1>3. ASSUME NEW k \in JobKeywords, Publishing!Nudge(k) PROVE AllFollow
  <2>1. keyword_jobs[k] # None /\ Publishing!Progress(keyword_jobs, {k})
    BY <1>3 DEF Publishing!Nudge
  <2> QED
    BY <2>1, ProgressAllFollow DEF JobsInv, Heir, SoundJob
<1>4. ASSUME NEW k \in JobKeywords, Publishing!StopKeywordSearch(k) PROVE AllFollow
  <2> DEFINE job == [keyword_jobs[k] EXCEPT !.want_search = FALSE, !.publish = None,
                                            !.got_ack = TRUE]
  <2>1. keyword_jobs[k] # None /\ keyword_jobs' = [keyword_jobs EXCEPT ![k] = job]
    BY <1>4 DEF Publishing!StopKeywordSearch, JobsInv
  <2>2. job \in Jobs /\ job.publish = None /\ job.ack_file = keyword_jobs[k].ack_file
    BY <2>1 DEF JobsInv, SoundJob, Jobs
  <2> HIDE DEF job
  <2> QED
    BY <2>1, <2>2, OneFollows DEF Heir, SoundJob
<1>5. ASSUME NEW k \in JobKeywords, Publishing!DeleteKeywordSearch(k) PROVE AllFollow
  BY <1>5, OneFollows DEF Publishing!DeleteKeywordSearch
<1>6. CASE Publishing!ProgressJobs
  <2> DEFINE open == {k \in JobKeywords : keyword_jobs[k] # None}
             live == {k \in open : ~ Publishing!Expired(keyword_jobs[k])}
             jobs == [k \in JobKeywords |-> IF k \in live THEN Publishing!Kept(keyword_jobs[k])
                                            ELSE None]
  <2>1. Publishing!Progress(jobs, live)
    BY <1>6 DEF Publishing!ProgressJobs
  <2>2. ASSUME NEW k \in live PROVE Heir(keyword_jobs[k], Publishing!Kept(keyword_jobs[k]))
    <3> DEFINE job == Publishing!Kept(keyword_jobs[k])
    <3>1. SoundJob(keyword_jobs[k])
      BY DEF JobsInv
    <3>2. /\ job \in Jobs /\ job.ack_file = keyword_jobs[k].ack_file
          /\ job.publish \in {None, keyword_jobs[k].publish}
      BY <3>1 DEF SoundJob, Jobs, Publishing!Kept
    <3> HIDE DEF job
    <3>3. Heir(keyword_jobs[k], job)
      BY <3>1, <3>2 DEF Heir, SoundJob
    <3> QED
      BY <3>3 DEF job
  <2>3. live \in SUBSET JobKeywords /\ \A k \in JobKeywords \ live : jobs[k] = None
    OBVIOUS
  <2>4. \A k \in live : Heir(keyword_jobs[k], jobs[k])
    BY <2>2
  <2> HIDE DEF live, jobs
  <2> QED
    BY <2>1, <2>3, <2>4, ProgressAllFollow
<1>7. ASSUME NEW f \in SourceFiles, Publishing!PublishSource(f) PROVE AllFollow
  BY <1>7 DEF Publishing!PublishSource, AllFollow, JobsInv, Heir, SoundJob
<1>8. ASSUME NEW answer \in jobs_net, Publishing!PublishResKey(answer) PROVE AllFollow
  <2> DEFINE k == answer.keyword
             job == Publishing!Acknowledged(keyword_jobs[k])
  <2>1. keyword_jobs' = [keyword_jobs EXCEPT ![k] = IF @ = None THEN None
                                                    ELSE Publishing!Acknowledged(@)]
    BY <1>8 DEF Publishing!PublishResKey
  <2>2. CASE k \in JobKeywords /\ keyword_jobs[k] # None
    <3>1. SoundJob(keyword_jobs[k])
      BY <2>2 DEF JobsInv
    <3>2. /\ job \in Jobs /\ job.publish = keyword_jobs[k].publish
          /\ job.ack_file = IF ~ keyword_jobs[k].got_ack /\ keyword_jobs[k].publish # None
                            THEN keyword_jobs[k].publish ELSE keyword_jobs[k].ack_file
      BY <3>1 DEF SoundJob, Jobs, Publishing!Acknowledged
    <3>3. keyword_jobs' = [keyword_jobs EXCEPT ![k] = job]
      BY <2>1, <2>2 DEF JobsInv
    <3> HIDE DEF job, k
    <3>4. Heir(keyword_jobs[k], job)
      BY <3>1, <3>2 DEF Heir, SoundJob
    <3> QED
      BY <2>2, <3>3, <3>4, OneFollows
  <2>3. CASE k \notin JobKeywords \/ keyword_jobs[k] = None
    <3>1. keyword_jobs' = keyword_jobs
      BY <2>1, <2>3 DEF JobsInv
    <3> QED
      BY <3>1 DEF AllFollow, JobsInv, Heir, SoundJob
  <2> QED
    BY <2>2, <2>3
<1>9. ASSUME NEW answer \in jobs_net, Publishing!PublishResSource(answer) PROVE AllFollow
  BY <1>9 DEF Publishing!PublishResSource, AllFollow, JobsInv, Heir, SoundJob
<1>10. ASSUME NEW answer \in jobs_net, Publishing!DropAnswer(answer) PROVE AllFollow
  BY <1>10 DEF Publishing!DropAnswer, AllFollow, JobsInv, Heir, SoundJob
<1>11. ASSUME NEW d \in JobPeers, Publishing!TrackedExpires(d) PROVE AllFollow
  BY <1>11 DEF Publishing!TrackedExpires, AllFollow, JobsInv, Heir, SoundJob
<1>12. CASE Publishing!Clock
  <2> DEFINE older(k) == [keyword_jobs[k] EXCEPT !.search_in = Publishing!Sooner(@),
                             !.publish_in = Publishing!Sooner(@),
                             !.age = IF @ > JobTTL THEN @ ELSE @ + 1]
  <2>1. keyword_jobs' = [k \in JobKeywords |-> IF keyword_jobs[k] = None THEN None ELSE older(k)]
    BY <1>12 DEF Publishing!Clock
  <2>2. ASSUME NEW k \in JobKeywords, keyword_jobs[k] # None
        PROVE  Heir(keyword_jobs[k], older(k))
    <3>1. SoundJob(keyword_jobs[k])
      BY <2>2 DEF JobsInv
    <3>2. \A n \in Nat : Publishing!Sooner(n) \in Nat
      BY DEF Publishing!Sooner
    <3> DEFINE s == Publishing!Sooner(keyword_jobs[k].search_in)
               p == Publishing!Sooner(keyword_jobs[k].publish_in)
               a == IF keyword_jobs[k].age > JobTTL THEN keyword_jobs[k].age
                    ELSE keyword_jobs[k].age + 1
    <3>3. s \in Nat /\ p \in Nat /\ a \in Nat
      BY <3>1, <3>2, JobConstants DEF SoundJob, Jobs
    <3>4. older(k) = [keyword_jobs[k] EXCEPT !.search_in = s, !.publish_in = p, !.age = a]
      OBVIOUS
    <3> HIDE DEF older, s, p, a
    <3>5. /\ older(k) \in Jobs /\ older(k).publish = keyword_jobs[k].publish
          /\ older(k).ack_file = keyword_jobs[k].ack_file
      BY <3>1, <3>3, <3>4 DEF SoundJob, Jobs
    <3> QED
      BY <3>1, <3>5 DEF Heir, SoundJob
  <2> HIDE DEF older
  <2> QED
    BY <2>1, <2>2 DEF AllFollow, Heir, SoundJob
<1> QED
  BY <1>1, <1>2, <1>3, <1>4, <1>5, <1>6, <1>7, <1>8, <1>9, <1>10, <1>11, <1>12
     DEF Publishing!Next

\* The coverage of a file does not fall when its publish is over: a keyword stops
\* counting only with its job or when another publish takes the job.
THEOREM CoverageIsKept == Spec => AckCoverageKeeps
<1>1. Init => JobsInv
  BY DEF Init, Publishing!Init, JobsInv
<1>2. JobsInv /\ Publishing!Next =>
        /\ JobsInv'
        /\ \A f \in JobFiles : \A k \in Publishing!AckedKeywords(f) \ Publishing!AckedKeywords(f)' :
                 \/ keyword_jobs'[k] = None
                 \/ keyword_jobs'[k].publish # None /\ ~ keyword_jobs'[k].got_ack
  BY JobsFollow, JobsStep
<1>3. JobsInv /\ UNCHANGED publishing => JobsInv' /\ UNCHANGED Publishing!vars
  BY DEF JobsInv, publishing, Publishing!vars
<1>4. JobsInv /\ [Next]_vars =>
        /\ JobsInv'
        /\ [\A f \in JobFiles :
              \A k \in Publishing!AckedKeywords(f) \ Publishing!AckedKeywords(f)' :
                 \/ keyword_jobs'[k] = None
                 \/ keyword_jobs'[k].publish # None /\ ~ keyword_jobs'[k].got_ack]_Publishing!vars
  <2>1. JobsInv /\ [Next]_vars => Publishing!Next \/ UNCHANGED publishing
    BY DEF Next, vars
  <2> QED
    BY <1>2, <1>3, <2>1
<1> QED
  BY <1>1, <1>4, PTL DEF Spec, AckCoverageKeeps, Publishing!AckCoverageKeeps

-----------------------------------------------------------------------------
(* Datagrams *)

Frames == Nat \X Nat

Pieces == [frame : Frames, part : {"head", "payload", "control"}, i : Nat]

\* The first pieces of what the bridge sends.
Starts ==
    {Datagrams!Piece(f, "head", 1) : f \in Frames}
        \cup {Datagrams!Piece(<<n, 0>>, "control", 1) : n \in Nat}

\* Whether the frame of a piece goes on after it, and with what.
GoesOn(p) ==
    CASE p.part = "control" -> p.i = 1
      [] p.part = "head"    -> p.i = 1 \/ p.frame[2] > 0
      [] OTHER              -> p.i < p.frame[2]

NextPiece(p) ==
    CASE p.part = "control"           -> Datagrams!Piece(p.frame, "control", 2)
      [] p.part = "head" /\ p.i = 1   -> Datagrams!Piece(p.frame, "head", 2)
      [] p.part = "head" /\ p.i # 1   -> Datagrams!Piece(p.frame, "payload", 1)
      [] OTHER                        -> Datagrams!Piece(p.frame, "payload", p.i + 1)

\* The frame that begins with p has the number that is due after k datagrams.
Follows(p, k) ==
    /\ p \in Starts
    /\ p.frame[1] = IF p.part = "head" /\ p.frame[2] <= MaxSize THEN k + 1 ELSE k

Leads(p, q) == IF GoesOn(p) THEN q = NextPiece(p) ELSE Follows(q, p.frame[1])

\* Pieces of frames one after the other, to the end of the last, after which n
\* datagrams were sent.
Stream(s, n) ==
    /\ s \in Seq(Pieces)
    /\ \A i \in 1 .. Len(s) - 1 : Leads(s[i], s[i + 1])
    /\ s # <<>> => ~ GoesOn(s[Len(s)]) /\ s[Len(s)].frame[1] = n

\* A stream of n datagrams in all, from after the k-th of them on.
From(s, k, n) == IF s = <<>> THEN k = n ELSE Follows(Head(s), k)

LEMMA DatagramConstants ==
    /\ Sizes \subseteq Nat /\ MaxSize \in Nat /\ MaxWire \in Nat
    /\ \A f \in Frames : f[1] \in Nat /\ f[2] \in Nat
    /\ \A n, z \in Nat : <<n, z>> \in Frames
<1>1. Sizes \subseteq Nat /\ MaxSize \in Nat /\ MaxWire \in Nat
  BY InstancesAssumption DEF Datagrams!DatagramAssumption
<1> QED
  BY <1>1 DEF Frames

LEMMA StartsArePieces ==
    /\ Starts \subseteq Pieces
    /\ \A p \in Starts : p.i = 1 /\ p.part \in {"head", "control"} /\ GoesOn(p)
    /\ \A p \in Starts : p.frame \in Frames
BY DatagramConstants DEF Starts, Pieces, Datagrams!Piece, GoesOn

LEMMA StreamsJoin ==
    ASSUME NEW s, NEW t, NEW m, NEW n, Stream(s, m), Stream(t, n), From(t, m, n)
    PROVE  Stream(s \o t, n)
<1> USE DEF Stream
<1>1. /\ s \o t \in Seq(Pieces) /\ Len(s \o t) = Len(s) + Len(t)
      /\ \A i \in 1 .. Len(s) : (s \o t)[i] = s[i]
      /\ \A i \in 1 .. Len(t) : (s \o t)[Len(s) + i] = t[i]
  OBVIOUS
<1>2. ASSUME NEW i \in 1 .. Len(s \o t) - 1 PROVE Leads((s \o t)[i], (s \o t)[i + 1])
  <2>1. CASE i < Len(s)
    BY <1>1, <2>1
  <2>2. CASE i = Len(s)
    <3>1. s # <<>> /\ t # <<>> /\ (s \o t)[i] = s[Len(s)] /\ (s \o t)[i + 1] = t[1]
      BY <1>1, <2>2
    <3> QED
      BY <3>1 DEF Leads, From
  <2>3. CASE i > Len(s)
    <3> DEFINE j == i - Len(s)
    <3>1. j \in 1 .. Len(t) - 1 /\ i = Len(s) + j /\ i + 1 = Len(s) + (j + 1)
      BY <1>1, <2>3
    <3>2. (s \o t)[i] = t[j] /\ (s \o t)[i + 1] = t[j + 1]
      BY <1>1, <3>1
    <3> QED
      BY <3>1, <3>2
  <2> QED
    BY <1>1, <2>1, <2>2, <2>3
<1>3. s \o t # <<>> =>
         ~ GoesOn((s \o t)[Len(s \o t)]) /\ (s \o t)[Len(s \o t)].frame[1] = n
  <2>1. CASE t = <<>>
    BY <1>1, <2>1 DEF From
  <2>2. CASE t # <<>>
    <3>1. Len(t) \in 1 .. Len(t) /\ (s \o t)[Len(s) + Len(t)] = t[Len(t)]
      BY <1>1, <2>2
    <3> QED
      BY <1>1, <2>2, <3>1
  <2> QED
    BY <2>1, <2>2
<1> QED
  BY <1>1, <1>2, <1>3

LEMMA StreamGoesOn ==
    ASSUME NEW s, NEW n, Stream(s, n), s # <<>>
    PROVE  /\ Head(s) \in Pieces
           /\ Stream(Tail(s), n)
           /\ GoesOn(Head(s)) => Tail(s) # <<>> /\ Head(Tail(s)) = NextPiece(Head(s))
           /\ ~ GoesOn(Head(s)) => From(Tail(s), Head(s).frame[1], n)
<1> USE DEF Stream
<1>1. /\ Head(s) = s[1] /\ s[1] \in Pieces /\ Tail(s) \in Seq(Pieces)
      /\ Len(s) \in Nat \ {0} /\ Len(Tail(s)) = Len(s) - 1
      /\ \A i \in 1 .. Len(s) - 1 : Tail(s)[i] = s[i + 1]
  OBVIOUS
<1>2. ASSUME NEW i \in 1 .. Len(Tail(s)) - 1 PROVE Leads(Tail(s)[i], Tail(s)[i + 1])
  <2>1. i \in 1 .. Len(s) - 1 /\ i + 1 \in 1 .. Len(s) - 1 /\ i + 1 + 1 = i + 2
    BY <1>1
  <2> QED
    BY <1>1, <2>1
<1>3. Tail(s) # <<>> => ~ GoesOn(Tail(s)[Len(Tail(s))]) /\ Tail(s)[Len(Tail(s))].frame[1] = n
  <2>1. Tail(s) # <<>> => Len(s) - 1 \in 1 .. Len(s) - 1
    BY <1>1
  <2> QED
    BY <1>1, <2>1
<1>4. Tail(s) # <<>> => Leads(Head(s), Head(Tail(s)))
  <2>1. Tail(s) # <<>> => 1 \in 1 .. Len(s) - 1 /\ Head(Tail(s)) = Tail(s)[1] /\ Tail(s)[1] = s[2]
    BY <1>1
  <2> QED
    BY <1>1, <2>1
<1>5. Tail(s) = <<>> => ~ GoesOn(Head(s)) /\ Head(s).frame[1] = n
  <2>0. Len(<<>>) = 0
    OBVIOUS
  <2>1. Tail(s) = <<>> => Len(Tail(s)) = 0
    BY <2>0, Zenon
  <2>2. Tail(s) = <<>> => Len(s) = 1
    BY <1>1, <2>1
  <2> QED
    BY <1>1, <2>2
<1>6. Stream(Tail(s), n)
  BY <1>1, <1>2, <1>3
<1> QED
  BY <1>1, <1>4, <1>5, <1>6 DEF Leads, From

LEMMA FramesStream ==
    ASSUME NEW f \in Frames, NEW k,
           f[1] = IF f[2] <= MaxSize THEN k + 1 ELSE k
    PROVE  /\ Stream(Datagrams!Header(f) \o Datagrams!Payload(f), f[1])
           /\ From(Datagrams!Header(f) \o Datagrams!Payload(f), k, f[1])
           /\ Datagrams!Header(f) \o Datagrams!Payload(f) # <<>>
<1> DEFINE h == Datagrams!Header(f)
           p == Datagrams!Payload(f)
           s == h \o p
<1>0. f[2] \in Nat
  BY DatagramConstants
<1>1. /\ h \in Seq(Pieces) /\ Len(h) = 2 /\ h[1] = Datagrams!Piece(f, "head", 1)
      /\ h[2] = Datagrams!Piece(f, "head", 2)
  BY DEF Datagrams!Header, Datagrams!Piece, Pieces
<1>2. /\ p \in Seq(Pieces) /\ Len(p) = f[2]
      /\ \A i \in 1 .. f[2] : p[i] = Datagrams!Piece(f, "payload", i)
  <2>1. \A i \in 1 .. f[2] : Datagrams!Piece(f, "payload", i) \in Pieces
    BY <1>0 DEF Datagrams!Piece, Pieces
  <2>2. p \in [1 .. f[2] -> Pieces]
    BY <2>1 DEF Datagrams!Payload
  <2> QED
    BY <1>0, <2>2 DEF Datagrams!Payload
<1> HIDE DEF h, p
<1>j. /\ s \in Seq(Pieces) /\ Len(s) = Len(h) + Len(p)
      /\ \A i \in 1 .. Len(h) : s[i] = h[i]
      /\ \A i \in 1 .. Len(p) : s[Len(h) + i] = p[i]
  <2>1. \A a, b \in Seq(Pieces) :
          /\ a \o b \in Seq(Pieces) /\ Len(a \o b) = Len(a) + Len(b)
          /\ \A i \in 1 .. Len(a) : (a \o b)[i] = a[i]
          /\ \A i \in 1 .. Len(b) : (a \o b)[Len(a) + i] = b[i]
    BY Joined
  <2> QED
    BY <1>1, <1>2, <2>1
<1>3. /\ s \in Seq(Pieces) /\ Len(s) = f[2] + 2
      /\ s[1] = Datagrams!Piece(f, "head", 1) /\ s[2] = Datagrams!Piece(f, "head", 2)
      /\ \A i \in 3 .. f[2] + 2 : s[i] = Datagrams!Piece(f, "payload", i - 2)
  <2>1. /\ s \in Seq(Pieces) /\ Len(s) = f[2] + 2
        /\ s[1] = h[1] /\ s[2] = h[2]
    BY <1>0, <1>1, <1>2, <1>j
  <2> HIDE DEF s
  <2>2. ASSUME NEW i \in 3 .. f[2] + 2 PROVE s[i] = Datagrams!Piece(f, "payload", i - 2)
    <3>1. i - 2 \in 1 .. f[2] /\ 2 + (i - 2) = i
      BY <1>0
    <3>2. s[2 + (i - 2)] = p[i - 2]
      BY <1>1, <1>2, <3>1, <1>j
    <3> QED
      BY <1>2, <3>1, <3>2
  <2> QED
    BY <1>1, <2>1, <2>2
<1> HIDE DEF s
<1>4. ASSUME NEW i \in 1 .. Len(s) - 1 PROVE Leads(s[i], s[i + 1])
  <2>1. CASE i = 1
    BY <1>3, <2>1 DEF Leads, GoesOn, NextPiece, Datagrams!Piece
  <2>2. CASE i = 2
    <3>0. PICK n \in Nat : n = f[2] /\ Len(s) = n + 2
      BY <1>0, <1>3
    <3>1. s[i + 1] = Datagrams!Piece(f, "payload", 1) /\ f[2] > 0
      <4>1. i \in 1 .. n + 1 /\ i = 2 /\ i + 1 = 3 /\ 3 - 2 = 1 /\ n > 0 /\ 3 \in 3 .. n + 2
        BY <2>2, <3>0
      <4> QED
        BY <1>3, <3>0, <4>1
    <3> QED
      BY <1>3, <2>2, <3>1 DEF Leads, GoesOn, NextPiece, Datagrams!Piece
  <2>3. CASE i > 2
    <3>1. /\ i \in 3 .. f[2] + 2 /\ i + 1 \in 3 .. f[2] + 2 /\ i - 2 < f[2]
          /\ (i - 2) + 1 = i - 1 /\ (i + 1) - 2 = i - 1
      <4>1. PICK n \in Nat : n = f[2] /\ Len(s) = n + 2
        BY <1>0, <1>3
      <4>2. i \in Int /\ i > 2 /\ i <= n + 1
        BY <2>3, <4>1
      <4>3. /\ i \in 3 .. n + 2 /\ i + 1 \in 3 .. n + 2 /\ i - 2 < n
            /\ (i - 2) + 1 = i - 1 /\ (i + 1) - 2 = i - 1
        BY <4>2
      <4> QED
        BY <4>1, <4>3
    <3>2. /\ s[i] = Datagrams!Piece(f, "payload", i - 2)
          /\ s[i + 1] = Datagrams!Piece(f, "payload", i - 1)
      BY <1>3, <3>1
    <3> QED
      BY <3>1, <3>2 DEF Leads, GoesOn, NextPiece, Datagrams!Piece
  <2> QED
    BY <1>0, <1>3, <2>1, <2>2, <2>3
<1>5. ~ GoesOn(s[Len(s)]) /\ s[Len(s)].frame[1] = f[1]
  <2>1. CASE f[2] = 0
    <3>1. s[Len(s)] = Datagrams!Piece(f, "head", 2)
      BY <1>3, <2>1
    <3> QED
      BY <2>1, <3>1 DEF GoesOn, Datagrams!Piece
  <2>2. CASE f[2] # 0
    <3>1. s[Len(s)] = Datagrams!Piece(f, "payload", f[2])
      BY <1>0, <1>3, <2>2
    <3> QED
      BY <1>0, <3>1 DEF GoesOn, Datagrams!Piece
  <2> QED
    BY <2>1, <2>2
<1>6. Stream(s, f[1])
  BY <1>3, <1>4, <1>5 DEF Stream
<1>7. s # <<>> /\ From(s, k, f[1])
  <2>1. Head(s) = s[1] /\ s # <<>>
    BY <1>0, <1>3
  <2>2. s[1] \in Starts /\ s[1].part = "head" /\ s[1].frame = f
    BY <1>3 DEF Starts, Datagrams!Piece
  <2> QED
    BY <2>1, <2>2 DEF From, Follows
<1> QED
  BY <1>6, <1>7 DEF s, h, p

LEMMA ControlStreams ==
    ASSUME NEW n \in Nat
    PROVE  /\ Stream(Datagrams!Control(n), n) /\ From(Datagrams!Control(n), n, n)
           /\ Datagrams!Control(n) # <<>>
<1> DEFINE c == Datagrams!Control(n)
           f == <<n, 0>>
<1>1. f \in Frames /\ f[1] = n
  BY DatagramConstants
<1>2. /\ c = <<Datagrams!Piece(f, "control", 1), Datagrams!Piece(f, "control", 2)>>
  BY DEF Datagrams!Control
<1>3. /\ Datagrams!Piece(f, "control", 1) \in Pieces
      /\ Datagrams!Piece(f, "control", 2) \in Pieces
  BY <1>1 DEF Datagrams!Piece, Pieces
<1>4. /\ c \in Seq(Pieces) /\ Len(c) = 2 /\ c # <<>> /\ Head(c) = c[1]
      /\ c[1] = Datagrams!Piece(f, "control", 1)
      /\ c[2] = Datagrams!Piece(f, "control", 2)
  BY <1>2, <1>3
<1> HIDE DEF c, f
<1>5. Leads(c[1], c[2]) /\ ~ GoesOn(c[2]) /\ c[2].frame[1] = n
  BY <1>1, <1>4 DEF Leads, GoesOn, NextPiece, Datagrams!Piece
<1>6. Follows(c[1], n)
  <2>1. c[1] \in Starts
    BY <1>4 DEF Starts, f
  <2>2. c[1].frame = f /\ c[1].part = "control"
    BY <1>4 DEF Datagrams!Piece
  <2> QED
    BY <1>1, <2>1, <2>2 DEF Follows
<1>7. Stream(c, n) /\ From(c, n, n)
  BY <1>4, <1>5, <1>6 DEF Stream, From
<1> QED
  BY <1>4, <1>7 DEF c

\* How far recv is in a payload, and what it reads next.
InPayloadOf(f, got) ==
    /\ f \in Frames
    /\ got \in Seq(Pieces) /\ Len(got) <= f[2]
    /\ \A i \in 1 .. Len(got) : got[i] = Datagrams!Piece(f, "payload", i)
    /\ Len(got) < f[2] => wire # <<>> /\ Head(wire) = Datagrams!Piece(f, "payload", Len(got) + 1)
    /\ Len(got) = f[2] => From(wire, f[1], sent_no)

\* A recv that was never dropped within a frame is between two lines, or in one,
\* with every datagram returned up to there.
Aligned(got) ==
    \/ got = <<>> /\ From(wire, returned_no, sent_no)
    \/ \E p \in Starts : /\ got = <<p>> /\ Follows(p, returned_no)
                         /\ wire # <<>> /\ Head(wire) = NextPiece(p)

\* Where recv is: in a line, or in a payload, which is the one it takes it for
\* unless a line was misread.
ReaderInv ==
    \/ /\ reader = Datagrams!InLine(reader.got) /\ reader.got \in Seq(Pieces)
       /\ ~ cut => Aligned(reader.got)
    \/ /\ \/ /\ reader = Datagrams!InPayload(reader.frame, reader.got)
             /\ ~ cut => reader.frame[1] = returned_no + 1
          \/ /\ reader = Datagrams!Discarding(reader.frame, reader.got)
             /\ ~ cut => reader.frame[1] = returned_no
       /\ ~ misread => InPayloadOf(reader.frame, reader.got)

ReturnedInv ==
    /\ ~ misread => returned.got = Datagrams!Payload(returned.frame)
    /\ ~ cut => returned.frame[1] = returned_no

FlagsInv ==
    /\ sent_no \in Nat /\ returned_no \in Nat
    /\ {junk, misread, cut} \subseteq BOOLEAN
    /\ ~ cut => ~ junk /\ ~ misread

DatagramsInv == Stream(wire, sent_no) /\ ReaderInv /\ ReturnedInv /\ FlagsInv

\* The connection as it is made.
LEMMA NewConnection == Datagrams!Init => DatagramsInv
<1> SUFFICES ASSUME Datagrams!Init PROVE DatagramsInv
  OBVIOUS
<1> USE DEF Datagrams!Init
<1>1. Stream(<<>>, 0) /\ From(<<>>, 0, 0)
  BY DEF Stream, From
<1>2. reader = Datagrams!InLine(reader.got) /\ reader.got = <<>> /\ reader.got \in Seq(Pieces)
  BY DEF Datagrams!Fresh, Datagrams!InLine
<1>3. Aligned(reader.got)
  BY <1>1, <1>2 DEF Aligned
<1>4. ReturnedInv
  <2>1. /\ returned.frame = <<0, 0>> /\ returned.got = <<>>
    BY DEF Datagrams!Nothing, Datagrams!NoFrame
  <2>2. Datagrams!Payload(<<0, 0>>) = <<>>
    BY DEF Datagrams!Payload
  <2> QED
    BY <2>1, <2>2 DEF ReturnedInv
<1> QED
  BY <1>1, <1>2, <1>3, <1>4 DEF DatagramsInv, ReaderInv, FlagsInv

LEMMA DatagramsInit == Init => DatagramsInv
BY NewConnection DEF Init

\* The bridge sends more: what recv reads next stays.
LEMMA BridgeSendsStep ==
    ASSUME DatagramsInv, NEW s, Stream(s, sent_no'), From(s, sent_no, sent_no'), s # <<>>,
           sent_no' \in Nat, Datagrams!BridgeSends(s)
    PROVE  DatagramsInv'
<1>1. wire' = wire \o s /\ UNCHANGED <<reader, returned, returned_no, junk, misread, cut>>
  BY DEF Datagrams!BridgeSends, Datagrams!flags
<1>2. wire \in Seq(Pieces) /\ s \in Seq(Pieces)
  BY DEF DatagramsInv, Stream
<1>3. /\ wire # <<>> => Head(wire') = Head(wire)
      /\ wire = <<>> => wire' = s
      /\ wire' # <<>>
  BY <1>1, <1>2
<1>4. Stream(wire', sent_no')
  BY <1>1, StreamsJoin DEF DatagramsInv
<1>5. \A k : From(wire, k, sent_no) => From(wire', k, sent_no')
  BY <1>3 DEF From
<1>6. \A got : Aligned(got) => Aligned(got)'
  BY <1>1, <1>3, <1>5 DEF Aligned
<1>7. \A f, got : InPayloadOf(f, got) => InPayloadOf(f, got)'
  BY <1>3, <1>5 DEF InPayloadOf
<1>8. ReaderInv'
  BY <1>1, <1>6, <1>7 DEF DatagramsInv, ReaderInv
<1> QED
  BY <1>1, <1>4, <1>8 DEF DatagramsInv, ReturnedInv, FlagsInv

\* The last piece of a whole line is the piece that was read last.
LEMMA WholeLines ==
    ASSUME NEW got \in Seq(Pieces), NEW p \in Pieces
    PROVE  LET line == Append(got, p)
           IN  /\ line \in Seq(Pieces) /\ line[1] \in Pieces
               /\ Datagrams!IsControl(line) =>
                     p = Datagrams!Piece(<<line[1].frame[1], 0>>, "control", 2)
               /\ Datagrams!IsHeader(line) => p = Datagrams!Piece(line[1].frame, "head", 2)
               /\ Datagrams!IsHeader(line) => line[1] = Datagrams!Piece(line[1].frame, "head", 1)
<1> DEFINE line == Append(got, p)
<1>1. /\ line \in Seq(Pieces) /\ Len(line) = Len(got) + 1 /\ line[Len(got) + 1] = p
      /\ line[1] \in Pieces
  <2>1. line \in Seq(Pieces) /\ Len(line) = Len(got) + 1 /\ line[Len(got) + 1] = p
    OBVIOUS
  <2>2. 1 \in 1 .. Len(line)
    BY <2>1
  <2> QED
    BY <2>1, <2>2
<1>2. \A n, f :
        /\ Len(Datagrams!Control(n)) = 2
        /\ Datagrams!Control(n)[2] = Datagrams!Piece(<<n, 0>>, "control", 2)
        /\ Len(Datagrams!Header(f)) = 2
        /\ Datagrams!Header(f)[1] = Datagrams!Piece(f, "head", 1)
        /\ Datagrams!Header(f)[2] = Datagrams!Piece(f, "head", 2)
  BY DEF Datagrams!Control, Datagrams!Header
<1>3. Len(line) = 2 => line[2] = p
  BY <1>1
<1> HIDE DEF line
<1>4. Datagrams!IsControl(line) => p = Datagrams!Piece(<<line[1].frame[1], 0>>, "control", 2)
  BY <1>2, <1>3 DEF Datagrams!IsControl
<1>5. Datagrams!IsHeader(line) => /\ p = Datagrams!Piece(line[1].frame, "head", 2)
                                  /\ line[1] = Datagrams!Piece(line[1].frame, "head", 1)
  BY <1>2, <1>3 DEF Datagrams!IsHeader
<1> QED
  BY <1>1, <1>4, <1>5 DEF line

\* recv before the payload of the header f, or after it if it is empty.
LEMMA HeaderStep ==
    ASSUME NEW f, NEW sz \in Nat, sz = f[2],
           reader' = Datagrams!AfterHeader(f),
           ~ cut' => f[1] = IF sz <= MaxSize THEN returned_no' + 1 ELSE returned_no',
           ~ misread' => InPayloadOf(f, <<>>)'
    PROVE  ReaderInv'
<1>1. /\ reader'.frame = f /\ reader'.got = <<>>
      /\ \/ sz <= MaxSize /\ reader' = Datagrams!InPayload(reader'.frame, reader'.got)
         \/ ~ (sz <= MaxSize) /\ reader' = Datagrams!Discarding(reader'.frame, reader'.got)
  BY DatagramConstants DEF Datagrams!AfterHeader, Datagrams!InPayload, Datagrams!Discarding
<1>2. ~ misread' => InPayloadOf(reader.frame, reader.got)'
  BY <1>1
<1> QED
  BY <1>1, <1>2 DEF ReaderInv

\* recv in a line.
LEMMA LineStep ==
    ASSUME NEW got \in Seq(Pieces), reader' = Datagrams!InLine(got), ~ cut' => Aligned(got)'
    PROVE  ReaderInv'
<1>1. reader'.got = got /\ reader' = Datagrams!InLine(reader'.got)
  BY DEF Datagrams!InLine
<1> QED
  BY <1>1 DEF ReaderInv

LEMMA FreshIsLine == Datagrams!Fresh = Datagrams!InLine(<<>>) /\ <<>> \in Seq(Pieces)
BY DEF Datagrams!Fresh, Datagrams!InLine

\* As long as recv was not dropped within a frame, the line it reads is the first
\* piece of a frame or whole.
LEMMA LineAligned ==
    ASSUME DatagramsInv, ~ cut, reader.at = "line", wire # <<>>
    PROVE  LET p == Head(wire)
               line == Append(reader.got, p)
           IN  \/ reader.got = <<>> /\ Follows(p, returned_no)
               \/ /\ Datagrams!IsControl(line) \/ Datagrams!IsHeader(line)
                  /\ p.part # "payload" /\ p.i # 1 /\ p.frame[1] \in Nat
                  /\ p.part = "control" => p.frame[1] = returned_no
                  /\ p.part = "head" =>
                       p.frame[1] = IF p.frame[2] <= MaxSize THEN returned_no + 1 ELSE returned_no
<1> DEFINE p == Head(wire)
           line == Append(reader.got, p)
<1>1. reader.got \in Seq(Pieces) /\ Aligned(reader.got)
  BY DEF DatagramsInv, ReaderInv, Datagrams!InPayload, Datagrams!Discarding
<1>2. CASE reader.got = <<>> /\ From(wire, returned_no, sent_no)
  BY <1>2 DEF From
<1>3. CASE \E q \in Starts : reader.got = <<q>> /\ Follows(q, returned_no) /\ p = NextPiece(q)
  <2>1. PICK q \in Starts : reader.got = <<q>> /\ Follows(q, returned_no) /\ p = NextPiece(q)
    BY <1>3
  <2>2. p \in Pieces /\ q \in Pieces
    BY StreamGoesOn, StartsArePieces DEF DatagramsInv
  <2>3. line = <<q, p>> /\ line[1] = q
    <3>1. PICK t \in Seq(Pieces) : t = reader.got /\ t = <<q>>
      BY <1>1, <2>1
    <3>2. /\ Append(t, p) \in Seq(Pieces) /\ Len(Append(t, p)) = Len(t) + 1
          /\ Append(t, p)[Len(t) + 1] = p
          /\ \A i \in 1 .. Len(t) : Append(t, p)[i] = t[i]
      BY <2>2
    <3>3. Len(t) = 1 /\ t[1] = q
      BY <3>1
    <3>4. /\ line \in Seq(Pieces) /\ Len(line) = 2 /\ line[1] = q /\ line[2] = p
      BY <3>1, <3>2, <3>3
    <3> QED
      BY <3>4, PairIs
  <2> HIDE DEF line, p
  <2>4. CASE \E n \in Nat : q = Datagrams!Piece(<<n, 0>>, "control", 1)
    <3>1. PICK n \in Nat : q = Datagrams!Piece(<<n, 0>>, "control", 1)
      BY <2>4
    <3>2. /\ p = Datagrams!Piece(<<n, 0>>, "control", 2)
          /\ q.frame[1] = n /\ q.part = "control"
      BY <2>1, <3>1 DEF NextPiece, Datagrams!Piece
    <3>3. p.frame[1] = n /\ p.part = "control" /\ p.i = 2
      BY <3>2 DEF Datagrams!Piece
    <3>4. Datagrams!IsControl(line)
      BY <2>3, <3>1, <3>2 DEF Datagrams!IsControl, Datagrams!Control
    <3> QED
      BY <2>1, <3>2, <3>3, <3>4 DEF Follows, line, p
  <2>5. CASE \E f \in Frames : q = Datagrams!Piece(f, "head", 1)
    <3>1. PICK f \in Frames : q = Datagrams!Piece(f, "head", 1)
      BY <2>5
    <3>2. p = Datagrams!Piece(f, "head", 2) /\ q.frame = f /\ q.part = "head"
      BY <2>1, <3>1 DEF NextPiece, Datagrams!Piece
    <3>3. p.frame = f /\ p.part = "head" /\ p.i = 2
      BY <3>2 DEF Datagrams!Piece
    <3>4. Datagrams!IsHeader(line)
      BY <2>3, <3>1, <3>2 DEF Datagrams!IsHeader, Datagrams!Header
    <3> QED
      BY <2>1, <3>2, <3>3, <3>4, DatagramConstants DEF Follows, line, p
  <2> QED
    BY <2>4, <2>5 DEF Starts
<1> QED
  BY <1>1, <1>2, <1>3 DEF Aligned

\* A whole line puts recv before what follows it.
LEMMA WholeLineStep ==
    ASSUME DatagramsInv, reader.at = "line", wire # <<>>, wire' = Tail(wire),
           UNCHANGED <<returned, sent_no, returned_no>>,
           LET line == Append(reader.got, Head(wire))
           IN  /\ Datagrams!IsControl(line) \/ Datagrams!IsHeader(line)
               /\ Datagrams!WholeLine(line)
    PROVE  DatagramsInv'
<1>0. PICK p, line, f : p = Head(wire) /\ line = Append(reader.got, p) /\ f = line[1].frame
  OBVIOUS
<1>1. /\ p \in Pieces /\ Stream(wire', sent_no)
      /\ GoesOn(p) => wire' # <<>> /\ Head(wire') = NextPiece(p)
      /\ ~ GoesOn(p) => From(wire', p.frame[1], sent_no)
  BY <1>0, StreamGoesOn DEF DatagramsInv
<1>2. UNCHANGED <<junk, misread, cut>>
  BY DEF Datagrams!WholeLine, Datagrams!flags
<1>3. reader.got \in Seq(Pieces)
  BY DEF DatagramsInv, ReaderInv, Datagrams!InPayload, Datagrams!Discarding
<1>4. line[1] \in Pieces /\ f \in Frames
  BY <1>0, <1>1, <1>3, WholeLines DEF Pieces
<1>5. CASE Datagrams!IsHeader(line)
  <2>1. /\ p = Datagrams!Piece(f, "head", 2)
        /\ line[1] = Datagrams!Piece(f, "head", 1)
    BY <1>0, <1>1, <1>3, <1>5, WholeLines
  <2>2. p.frame = f /\ p.part = "head" /\ p.i = 2
    BY <2>1 DEF Datagrams!Piece
  <2>3. f[2] \in Nat
    BY <1>4, DatagramConstants
  <2>4. reader' = Datagrams!AfterHeader(f)
    BY <1>0, <1>5 DEF Datagrams!WholeLine
  <2>5. ~ cut => f[1] = IF f[2] <= MaxSize THEN returned_no + 1 ELSE returned_no
    <3>1. ~ Follows(p, returned_no)
      BY <2>2, StartsArePieces DEF Follows
    <3> QED
      BY <1>0, <2>2, <3>1, LineAligned
  <2>6. InPayloadOf(f, <<>>)'
    <3>1. (GoesOn(p) <=> f[2] > 0) /\ NextPiece(p) = Datagrams!Piece(f, "payload", 1)
      BY <2>2 DEF GoesOn, NextPiece
    <3>2. /\ Len(<<>>) = 0 /\ <<>> \in Seq(Pieces) /\ 0 + 1 = 1 /\ 0 <= f[2]
          /\ f[2] > 0 \/ f[2] = 0
      BY <2>3
    <3> QED
      BY <1>1, <1>4, <2>2, <3>1, <3>2 DEF InPayloadOf
  <2>7. ReaderInv'
    BY <1>2, <2>3, <2>4, <2>5, <2>6, HeaderStep
  <2> QED
    BY <1>1, <1>2, <2>7 DEF DatagramsInv, ReturnedInv, FlagsInv
<1>6. CASE Datagrams!IsControl(line) /\ ~ Datagrams!IsHeader(line)
  <2>1. p = Datagrams!Piece(<<f[1], 0>>, "control", 2)
    BY <1>0, <1>1, <1>3, <1>6, WholeLines
  <2>2. p.part = "control" /\ p.i = 2 /\ ~ GoesOn(p)
    BY <2>1 DEF Datagrams!Piece, GoesOn
  <2>3. reader' = Datagrams!Fresh
    BY <1>0, <1>6 DEF Datagrams!WholeLine
  <2>4. ~ cut => p.frame[1] = returned_no
    <3>1. ~ Follows(p, returned_no)
      BY <2>2, StartsArePieces DEF Follows
    <3> QED
      BY <1>0, <2>2, <3>1, LineAligned
  <2>5. ~ cut => Aligned(<<>>)'
    BY <1>1, <2>2, <2>4 DEF Aligned
  <2>6. ReaderInv'
    BY <1>2, <2>3, <2>5, FreshIsLine, LineStep
  <2> QED
    BY <1>1, <1>2, <2>6 DEF DatagramsInv, ReturnedInv, FlagsInv
<1> QED
  BY <1>0, <1>5, <1>6

LEMMA ReadLineStep ==
    ASSUME DatagramsInv, Datagrams!ReadLine
    PROVE  DatagramsInv'
<1>p. PICK p, line : p = Head(wire) /\ line = Append(reader.got, p)
  OBVIOUS
<1> DEFINE whole == Datagrams!IsControl(line) \/ Datagrams!IsHeader(line)
<1>0. /\ reader.at = "line" /\ wire # <<>> /\ wire' = Tail(wire)
      /\ UNCHANGED <<returned, sent_no, returned_no>>
      /\ \/ whole /\ Datagrams!WholeLine(line)
         \/ ~ whole /\ p.part # "payload" /\ p.i = 2 /\ Datagrams!JunkLine(<<>>)
         \/ /\ p.part = "payload"
            /\ \E rest \in {<<>>, <<p>>} : Datagrams!JunkLine(rest)
         \/ ~ whole /\ (p.part = "payload" \/ p.i = 2) /\ Datagrams!MisreadLine
         \/ /\ p.part = "payload" \/ p.i = 1
            /\ reader' = Datagrams!InLine(line)
            /\ UNCHANGED <<junk, misread, cut>>
  BY <1>p DEF Datagrams!ReadLine, Datagrams!flags
<1>1. /\ p \in Pieces /\ Stream(wire', sent_no)
      /\ GoesOn(p) => wire' # <<>> /\ Head(wire') = NextPiece(p)
  BY <1>p, <1>0, StreamGoesOn DEF DatagramsInv
<1>2. reader.got \in Seq(Pieces) /\ line \in Seq(Pieces)
  <2>1. reader.got \in Seq(Pieces)
    BY <1>0 DEF DatagramsInv, ReaderInv, Datagrams!InPayload, Datagrams!Discarding
  <2> QED
    BY <1>p, <1>1, <2>1
<1>3. ~ cut => \/ reader.got = <<>> /\ Follows(p, returned_no)
               \/ whole /\ p.part # "payload" /\ p.i # 1
  BY <1>p, <1>0, LineAligned
<1>4. \A q : Follows(q, returned_no) => q.part # "payload" /\ q.i = 1 /\ GoesOn(q) /\ q \in Starts
  BY StartsArePieces DEF Follows
<1>5. CASE whole /\ Datagrams!WholeLine(line)
  BY <1>p, <1>0, <1>5, WholeLineStep
<1>6. ASSUME cut, NEW rest \in Seq(Pieces), Datagrams!JunkLine(rest)
      PROVE  DatagramsInv'
  <2>1. reader' = Datagrams!InLine(rest) /\ junk' = TRUE /\ UNCHANGED <<misread, cut>>
    BY <1>6 DEF Datagrams!JunkLine
  <2>2. ReaderInv'
    BY <1>6, <2>1, LineStep
  <2> QED
    BY <1>0, <1>1, <1>6, <2>1, <2>2 DEF DatagramsInv, ReturnedInv, FlagsInv
<1>7. CASE ~ whole /\ p.part # "payload" /\ p.i = 2 /\ Datagrams!JunkLine(<<>>)
  <2>1. cut
    BY <1>3, <1>4, <1>7
  <2>2. <<>> \in Seq(Pieces)
    OBVIOUS
  <2> QED
    BY <1>6, <1>7, <2>1, <2>2
<1>8. CASE p.part = "payload" /\ \E rest \in {<<>>, <<p>>} : Datagrams!JunkLine(rest)
  <2>1. <<p>> \in Seq(Pieces)
    BY <1>1
  <2> QED
    BY <1>3, <1>4, <1>6, <1>8, <2>1, FreshIsLine
<1>9. CASE ~ whole /\ (p.part = "payload" \/ p.i = 2) /\ Datagrams!MisreadLine
  <2>1. cut
    BY <1>3, <1>4, <1>9
  <2>2. PICK z \in Sizes : reader' = Datagrams!AfterHeader(<<0, z>>)
    BY <1>9 DEF Datagrams!MisreadLine
  <2>3. junk' = TRUE /\ misread' = TRUE /\ UNCHANGED cut
    BY <1>9 DEF Datagrams!MisreadLine
  <2>4. z \in Nat /\ z = <<0, z>>[2]
    BY DatagramConstants
  <2>5. ReaderInv'
    BY <2>1, <2>2, <2>3, <2>4, HeaderStep
  <2> QED
    BY <1>0, <1>1, <2>1, <2>3, <2>5 DEF DatagramsInv, ReturnedInv, FlagsInv
<1>10. CASE /\ p.part = "payload" \/ p.i = 1
            /\ reader' = Datagrams!InLine(line)
            /\ UNCHANGED <<junk, misread, cut>>
  <2>1. ~ cut => Aligned(line)'
    <3> SUFFICES ASSUME ~ cut PROVE Aligned(line)'
      OBVIOUS
    <3>1. reader.got = <<>> /\ Follows(p, returned_no)
      BY <1>3, <1>4, <1>10
    <3>2. line = <<p>>
      BY <1>p, <3>1
    <3>3. wire' # <<>> /\ Head(wire') = NextPiece(p) /\ p \in Starts
      BY <1>1, <1>4, <3>1
    <3>4. Follows(p, returned_no')
      BY <1>0, <3>1
    <3> QED
      BY <3>2, <3>3, <3>4 DEF Aligned
  <2>2. ReaderInv'
    BY <1>2, <1>10, <2>1, LineStep
  <2> QED
    BY <1>0, <1>1, <1>10, <2>2 DEF DatagramsInv, ReturnedInv, FlagsInv
<1> HIDE DEF whole
<1> QED
  BY <1>0, <1>5, <1>7, <1>8, <1>9, <1>10

LEMMA ReadPayloadStep ==
    ASSUME DatagramsInv, Datagrams!ReadPayload
    PROVE  DatagramsInv'
<1>0. PICK f, got, p : f = reader.frame /\ got = reader.got /\ p = Head(wire)
  OBVIOUS
<1> DEFINE next == Append(got, p)
<1>1. /\ Len(got) < f[2] /\ wire # <<>> /\ wire' = Tail(wire)
      /\ reader' = [reader EXCEPT !.got = Append(@, Head(wire))]
      /\ UNCHANGED <<returned, sent_no, returned_no, junk, misread, cut>>
      /\ reader.at \in {"payload", "discard"}
  BY <1>0 DEF Datagrams!ReadPayload, Datagrams!flags
<1>2. /\ \/ reader = Datagrams!InPayload(f, got) /\ (~ cut => f[1] = returned_no + 1)
         \/ reader = Datagrams!Discarding(f, got) /\ (~ cut => f[1] = returned_no)
      /\ ~ misread => InPayloadOf(f, got)
  BY <1>0, <1>1 DEF DatagramsInv, ReaderInv, Datagrams!InLine
<1>3. /\ Stream(wire', sent_no)
      /\ GoesOn(p) => wire' # <<>> /\ Head(wire') = NextPiece(p)
      /\ ~ GoesOn(p) => From(wire', p.frame[1], sent_no)
  BY <1>0, <1>1, StreamGoesOn DEF DatagramsInv
<1>4. /\ reader'.frame = f /\ reader'.got = next
      /\ \/ reader' = Datagrams!InPayload(f, next) /\ (~ cut => f[1] = returned_no + 1)
         \/ reader' = Datagrams!Discarding(f, next) /\ (~ cut => f[1] = returned_no)
  <2>1. reader' = [reader EXCEPT !.got = next]
    BY <1>0, <1>1
  <2> HIDE DEF next
  <2>2. CASE reader = Datagrams!InPayload(f, got) /\ (~ cut => f[1] = returned_no + 1)
    BY <2>1, <2>2 DEF Datagrams!InPayload
  <2>3. CASE reader = Datagrams!Discarding(f, got) /\ (~ cut => f[1] = returned_no)
    BY <2>1, <2>3 DEF Datagrams!Discarding
  <2> QED
    BY <1>2, <2>2, <2>3
<1>5. ~ misread => InPayloadOf(f, next)'
  <2> SUFFICES ASSUME ~ misread PROVE InPayloadOf(f, next)'
    OBVIOUS
  <2>1. /\ f \in Frames /\ f[2] \in Nat /\ got \in Seq(Pieces)
        /\ \A i \in 1 .. Len(got) : got[i] = Datagrams!Piece(f, "payload", i)
        /\ p = Datagrams!Piece(f, "payload", Len(got) + 1)
    BY <1>0, <1>1, <1>2, DatagramConstants DEF InPayloadOf
  <2>2. p \in Pieces
    BY <1>0, <1>1, StreamGoesOn DEF DatagramsInv
  <2>3. /\ next \in Seq(Pieces) /\ Len(next) = Len(got) + 1
        /\ \A i \in 1 .. Len(got) : next[i] = got[i]
        /\ next[Len(got) + 1] = p /\ Len(got) \in Nat
    BY <2>1, <2>2
  <2>4. /\ GoesOn(p) <=> Len(got) + 1 < f[2]
        /\ NextPiece(p) = Datagrams!Piece(f, "payload", (Len(got) + 1) + 1)
        /\ p.frame = f
    BY <2>1 DEF GoesOn, NextPiece, Datagrams!Piece
  <2> HIDE DEF next
  <2>5. \A i \in 1 .. Len(next) : next[i] = Datagrams!Piece(f, "payload", i)
    BY <2>1, <2>3
  <2>6. Len(next) <= f[2]
    BY <1>1, <2>1, <2>3
  <2> QED
    BY <1>1, <1>3, <2>1, <2>3, <2>4, <2>5, <2>6 DEF InPayloadOf
<1> HIDE DEF next
<1>6. ReaderInv'
  BY <1>1, <1>4, <1>5 DEF ReaderInv
<1> QED
  BY <1>1, <1>3, <1>6 DEF DatagramsInv, ReturnedInv, FlagsInv

\* What recv read of a payload is the payload when nothing is missing.
LEMMA PayloadRead ==
    ASSUME NEW f, NEW got, InPayloadOf(f, got), Len(got) = f[2]
    PROVE  got = Datagrams!Payload(f) /\ From(wire, f[1], sent_no)
<1>1. /\ got \in Seq(Pieces)
      /\ \A i \in 1 .. Len(got) : got[i] = Datagrams!Piece(f, "payload", i)
  BY DEF InPayloadOf
<1>2. got = [i \in 1 .. Len(got) |-> got[i]]
  BY <1>1
<1>3. got = Datagrams!Payload(f)
  BY <1>1, <1>2 DEF Datagrams!Payload
<1> QED
  BY <1>3 DEF InPayloadOf

LEMMA ReturnStep ==
    ASSUME DatagramsInv, Datagrams!Return
    PROVE  DatagramsInv'
<1>1. /\ reader.at = "payload" /\ Len(reader.got) = reader.frame[2]
      /\ returned' = [frame |-> reader.frame, got |-> reader.got]
      /\ returned_no' = IF cut THEN returned_no ELSE returned_no + 1
      /\ reader' = Datagrams!Fresh /\ UNCHANGED <<wire, sent_no, junk, misread, cut>>
  BY DEF Datagrams!Return, Datagrams!flags
<1>2. /\ ~ misread => InPayloadOf(reader.frame, reader.got)
      /\ ~ cut => reader.frame[1] = returned_no + 1
  BY <1>1 DEF DatagramsInv, ReaderInv, Datagrams!InLine, Datagrams!Discarding
<1>3. ~ misread => /\ reader.got = Datagrams!Payload(reader.frame)
                   /\ From(wire, reader.frame[1], sent_no)
  BY <1>1, <1>2, PayloadRead
<1>4. ~ cut => ~ misread /\ returned_no' = returned_no + 1 /\ returned_no' = reader.frame[1]
  BY <1>1, <1>2 DEF DatagramsInv, FlagsInv
<1>5. ~ cut' => Aligned(<<>>)'
  BY <1>1, <1>3, <1>4 DEF Aligned
<1>6. ReaderInv'
  BY <1>1, <1>5, FreshIsLine, LineStep
<1>7. returned'.frame = reader.frame /\ returned'.got = reader.got
  BY <1>1
<1>8. ReturnedInv'
  BY <1>1, <1>3, <1>4, <1>7 DEF ReturnedInv
<1>9. returned_no' \in Nat
  BY <1>1 DEF DatagramsInv, FlagsInv
<1> QED
  BY <1>1, <1>6, <1>8, <1>9 DEF DatagramsInv, FlagsInv

LEMMA DiscardedStep ==
    ASSUME DatagramsInv, Datagrams!Discarded
    PROVE  DatagramsInv'
<1>1. /\ reader.at = "discard" /\ Len(reader.got) = reader.frame[2]
      /\ reader' = Datagrams!Fresh
      /\ UNCHANGED <<wire, returned, sent_no, returned_no, junk, misread, cut>>
  BY DEF Datagrams!Discarded, Datagrams!flags
<1>2. /\ ~ misread => InPayloadOf(reader.frame, reader.got)
      /\ ~ cut => reader.frame[1] = returned_no
  BY <1>1 DEF DatagramsInv, ReaderInv, Datagrams!InLine, Datagrams!InPayload
<1>3. ~ cut => From(wire, returned_no, sent_no)
  BY <1>1, <1>2, PayloadRead DEF DatagramsInv, FlagsInv
<1>4. ~ cut' => Aligned(<<>>)'
  BY <1>1, <1>3 DEF Aligned
<1>5. ReaderInv'
  BY <1>1, <1>4, FreshIsLine, LineStep
<1> QED
  BY <1>1, <1>5 DEF DatagramsInv, ReturnedInv, FlagsInv

LEMMA CancelStep ==
    ASSUME DatagramsInv, Datagrams!Cancel
    PROVE  DatagramsInv'
<1>1. /\ reader' = Datagrams!Fresh /\ cut' = (cut \/ reader # Datagrams!Fresh)
      /\ UNCHANGED <<wire, returned, sent_no, returned_no, junk, misread>>
  BY DEF Datagrams!Cancel, Datagrams!Cancelled
<1>2. ~ cut' => Aligned(<<>>)'
  <2> SUFFICES ASSUME ~ cut' PROVE Aligned(<<>>)'
    OBVIOUS
  <2>1. ~ cut /\ reader = Datagrams!Fresh
    BY <1>1
  <2>2. reader.got = <<>> /\ reader.at = "line"
    BY <2>1 DEF Datagrams!Fresh
  <2>3. Aligned(<<>>)
    BY <2>1, <2>2 DEF DatagramsInv, ReaderInv, Datagrams!InPayload, Datagrams!Discarding
  <2> QED
    BY <1>1, <2>3 DEF Aligned
<1>3. ReaderInv'
  BY <1>1, <1>2, FreshIsLine, LineStep
<1>4. cut' \in BOOLEAN /\ (~ cut' => ~ cut)
  BY <1>1
<1> QED
  BY <1>1, <1>3, <1>4 DEF DatagramsInv, ReturnedInv, FlagsInv

LEMMA DatagramsStep == DatagramsInv /\ Datagrams!Next => DatagramsInv'
<1> SUFFICES ASSUME DatagramsInv, Datagrams!Next PROVE DatagramsInv'
  OBVIOUS
<1>0. sent_no \in Nat
  BY DEF DatagramsInv, FlagsInv
<1>1. ASSUME NEW z \in Sizes, Datagrams!SendDatagram(z)
      PROVE  DatagramsInv'
  <2>1. PICK f \in Frames : /\ f = <<sent_no', z>> /\ f[1] = sent_no' /\ f[2] = z /\ sent_no' \in Nat
                            /\ sent_no' = IF z <= MaxSize THEN sent_no + 1 ELSE sent_no
    <3>1. sent_no' = IF z <= MaxSize THEN sent_no + 1 ELSE sent_no
      BY <1>1 DEF Datagrams!SendDatagram
    <3>2. sent_no' \in Nat /\ z \in Nat
      BY <1>0, <3>1, DatagramConstants
    <3> QED
      BY <3>1, <3>2, DatagramConstants
  <2>2. Datagrams!BridgeSends(Datagrams!Header(f) \o Datagrams!Payload(f))
    BY <1>1, <2>1 DEF Datagrams!SendDatagram
  <2>3. f[1] = IF f[2] <= MaxSize THEN sent_no + 1 ELSE sent_no
    BY <2>1
  <2>4. LET s == Datagrams!Header(f) \o Datagrams!Payload(f)
        IN  Stream(s, f[1]) /\ From(s, sent_no, f[1]) /\ s # <<>>
    BY <2>3, FramesStream
  <2> QED
    BY <2>1, <2>2, <2>4, BridgeSendsStep
<1>2. CASE Datagrams!SendControl
  <2>1. Datagrams!BridgeSends(Datagrams!Control(sent_no)) /\ UNCHANGED sent_no
    BY <1>2 DEF Datagrams!SendControl
  <2> QED
    BY <1>0, <2>1, ControlStreams, BridgeSendsStep
<1>3. CASE Datagrams!Reconnect
  <2>1. Datagrams!Init'
    BY <1>3 DEF Datagrams!Reconnect, Datagrams!Init
  <2> QED
    BY <2>1, NewConnection, PTL
<1> QED
  BY <1>1, <1>2, <1>3, ReadLineStep, ReadPayloadStep, ReturnStep, DiscardedStep, CancelStep
     DEF Datagrams!Next

\* Until recv is dropped within a frame, the n-th datagram it returns is the n-th
\* that was sent over the connection, with its own payload, and none is missing when
\* the connection is read empty, whatever the sizes and the way the frames arrive.
\* After that a datagram still comes with its own payload until bytes of a payload
\* read as a header.
THEOREM DatagramsComeWhole == Spec => []DatagramsAreWhole
<1>1. DatagramsInv /\ [Next]_vars => DatagramsInv'
  <2>1. DatagramsInv /\ UNCHANGED datagrams => DatagramsInv'
    BY DEF DatagramsInv, ReaderInv, ReturnedInv, FlagsInv, InPayloadOf, Aligned, datagrams
  <2> QED
    BY <2>1, DatagramsStep DEF Next, vars
<1>2. DatagramsInv => DatagramsAreWhole
  <2> SUFFICES ASSUME DatagramsInv PROVE DatagramsAreWhole
    OBVIOUS
  <2>1. wire = <<>> /\ reader = Datagrams!Fresh /\ ~ cut => returned_no = sent_no
    <3>1. reader = Datagrams!Fresh => reader.at = "line" /\ reader.got = <<>>
      BY DEF Datagrams!Fresh
    <3>2. reader = Datagrams!Fresh /\ ~ cut => Aligned(<<>>)
      BY <3>1 DEF DatagramsInv, ReaderInv, Datagrams!InPayload, Datagrams!Discarding
    <3> QED
      BY <3>2 DEF Aligned, From
  <2> QED
    BY <2>1 DEF DatagramsInv, ReturnedInv, FlagsInv, DatagramsAreWhole,
                Datagrams!DatagramsAreWhole
<1> QED
  BY <1>1, <1>2, DatagramsInit, PTL DEF Spec

-----------------------------------------------------------------------------
(* nodes.dat *)

\* Nodes of the pool d are in q, or q is a list of max nodes at least as good.
Keeps(d, q, max) ==
    \A n \in NodesDat!Present(d) :
        \/ q[n] \in {d[n], "verified"}
        \/ /\ q[n] = None
           /\ NodesDat!Cardinality(NodesDat!Present(q)) = max
           /\ \A m \in NodesDat!Present(q) : q[m] = "verified" \/ d[n] = "plain"

\* The nodes of p that do for one of the quality k.
AsGood(p, k) == {m \in NodesDat!Present(p) : p[m] = "verified" \/ k = "plain"}

\* Nodes of d are in p, or p has enough nodes at least as good: what is left of d
\* after p was cut and completed again.
Covers(d, p, max) ==
    \A n \in NodesDat!Present(d) :
        \/ p[n] \in {d[n], "verified"}
        \/ Cardinality(AsGood(p, d[n])) >= max

Writes == {"reseed", "download", "refresh", "persist", "lost"}

\* Whatever is in nodes.tmp when it may be renamed keeps the file, and so does the
\* pool the bootstrap completes, which may differ from both.
NodesInv ==
    /\ nodes_dat \in NodesDat!Pools \cup {None, Malformed}
    /\ pool \in NodesDat!Pools /\ discovered \in NodesDat!Pools
    /\ pc \in Writes => nodes_tmp \in NodesDat!Pools \cup {Malformed}
    /\ pc = "reseed" => nodes_tmp = pool
    /\ pc = "download" => nodes_dat = None
    /\ pc \in {"reseed", "refresh", "persist"} => nodes_tmp \in NodesDat!Pools
    /\ nodes_dat \in NodesDat!Pools =>
         /\ pc \in {"reseed", "refresh", "persist"} =>
               Keeps(nodes_dat, nodes_tmp, MaxSaved) \/ Keeps(nodes_dat, nodes_tmp, MaxPersist)
         /\ pc \in {"reseed", "bootstrap"} => Keeps(nodes_dat, pool, MaxSaved)

LEMMA NodesConstants ==
    /\ IsFiniteSet(Nodes)
    /\ MaxSaved \in Nat /\ MaxPersist \in Nat
    /\ None \notin NodesDat!Quality
    /\ None \notin NodesDat!Pools /\ Torn \notin NodesDat!Pools /\ Malformed \notin NodesDat!Pools
    /\ Seeds \subseteq Nodes
<1>1. NodesDat!NodesFileAssumption
  BY InstancesAssumption
<1>2. NodesDat!IsFiniteSet(Nodes) <=> IsFiniteSet(Nodes)
  BY DEF NodesDat!IsFiniteSet, IsFiniteSet
<1> QED
  BY <1>1, <1>2 DEF NodesDat!NodesFileAssumption

LEMMA NodesCardinality == \A S : NodesDat!Cardinality(S) = Cardinality(S)
BY DEF NodesDat!Cardinality, Cardinality, NodesDat!IsFiniteSet, IsFiniteSet

LEMMA PresentFinite ==
    ASSUME NEW p
    PROVE  /\ IsFiniteSet(NodesDat!Present(p)) /\ NodesDat!Present(p) \subseteq Nodes
           /\ Cardinality(NodesDat!Present(p)) \in Nat
           /\ \A S \in SUBSET NodesDat!Present(p) : IsFiniteSet(S) /\ Cardinality(S) \in Nat
<1>1. NodesDat!Present(p) \subseteq Nodes
  BY DEF NodesDat!Present
<1>2. \A S : S \subseteq Nodes => IsFiniteSet(S) /\ Cardinality(S) \in Nat
  BY NodesConstants, FS_Subset, FS_CardinalityType
<1> QED
  BY <1>1, <1>2

LEMMA FilePools ==
    /\ NodesDat!Nobody \in NodesDat!Pools /\ NodesDat!SeedPool \in NodesDat!Pools
    /\ [n \in Nodes |-> "plain"] \in NodesDat!Pools
    /\ \A p, q \in NodesDat!Pools : NodesDat!Merged(p, q) \in NodesDat!Pools
    /\ \A p \in NodesDat!Pools : NodesDat!Reseeded(p) \in NodesDat!Pools
    /\ \A p \in NodesDat!Pools : \A max : \A q \in NodesDat!Cut(p, max) : q \in NodesDat!Pools
BY DEF NodesDat!Nobody, NodesDat!SeedPool, NodesDat!Pools, NodesDat!Quality, NodesDat!Merged,
       NodesDat!Reseeded, NodesDat!Cut

\* A list that is cut from one that covers d keeps d.
LEMMA CutKeeps ==
    ASSUME NEW d \in NodesDat!Pools, NEW p \in NodesDat!Pools, NEW max \in Nat,
           NEW q \in NodesDat!Cut(p, max), Covers(d, p, max)
    PROVE  Keeps(d, q, max)
<1> DEFINE P == NodesDat!Present(p)
<1> USE NodesCardinality, NodesConstants
<1>1. SUFFICES ASSUME NEW n \in NodesDat!Present(d)
               PROVE  \/ q[n] \in {d[n], "verified"}
                      \/ /\ q[n] = None
                         /\ Cardinality(NodesDat!Present(q)) = max
                         /\ \A m \in NodesDat!Present(q) : q[m] = "verified" \/ d[n] = "plain"
  BY DEF Keeps
<1> DEFINE G == AsGood(p, d[n])
<1>2. /\ n \in Nodes /\ d[n] \in {"plain", "verified"}
      /\ \A m \in P : m \in Nodes /\ p[m] \in {"plain", "verified"}
      /\ \A m \in Nodes : m \in P <=> p[m] # None
      /\ None # "plain" /\ None # "verified"
  BY DEF NodesDat!Present, NodesDat!Pools, NodesDat!Quality
<1>3. /\ G \subseteq P /\ \A m \in P : m \in G <=> (p[m] = "verified" \/ d[n] = "plain")
      /\ IsFiniteSet(G) /\ Cardinality(G) \in Nat
      /\ IsFiniteSet(P) /\ Cardinality(P) \in Nat
  BY PresentFinite DEF AsGood
<1>4. p[n] \in {d[n], "verified"} \/ Cardinality(G) >= max
  BY DEF Covers
<1>5. CASE Cardinality(P) <= max
  <2>1. q = p
    BY <1>5 DEF NodesDat!Cut
  <2>2. CASE Cardinality(G) >= max
    <3>1. Cardinality(G) <= Cardinality(P)
      BY <1>3, FS_Subset
    <3>2. Cardinality(G) = Cardinality(P) /\ Cardinality(P) = max
      BY <1>3, <1>5, <2>2, <3>1
    <3>3. G = P
      BY <1>3, <3>2, FS_Subset
    <3> HIDE DEF G
    <3> QED
      BY <1>2, <1>3, <2>1, <3>2, <3>3
  <2> QED
    BY <1>4, <2>1, <2>2
<1>6. CASE ~ (Cardinality(P) <= max)
  <2>1. PICK L \in SUBSET P :
          /\ Cardinality(L) = max
          /\ \A a \in L, b \in P \ L : NodesDat!Better(p, a, b)
          /\ q = [m \in Nodes |-> IF m \in L THEN p[m] ELSE None]
    BY <1>6 DEF NodesDat!Cut
  <2>2. NodesDat!Present(q) = L
    BY <1>2, <2>1 DEF NodesDat!Present
  <2>3. IsFiniteSet(L)
    BY PresentFinite
  <2> HIDE DEF G
  \* A node of L that is worse than the nodes of G leaves room for one of them.
  <2>4. ASSUME Cardinality(G) >= max, NEW m \in L PROVE p[m] = "verified" \/ d[n] = "plain"
    <3>1. SUFFICES ASSUME m \notin G PROVE FALSE
      BY <1>3
    <3>2. PICK b \in G : b \notin L
      <4>1. SUFFICES ASSUME G \subseteq L PROVE FALSE
        OBVIOUS
      <4>2. Cardinality(G) <= Cardinality(L)
        BY <2>3, <4>1, FS_Subset
      <4>3. Cardinality(G) = Cardinality(L)
        BY <1>3, <2>1, <2>4, <4>2
      <4>4. G = L
        BY <2>3, <4>1, <4>3, FS_Subset
      <4> QED
        BY <3>1, <4>4
    <3>3. p[m] = "verified" \/ p[b] = "plain"
      BY <1>3, <2>1, <3>2 DEF NodesDat!Better
    <3> QED
      BY <1>2, <1>3, <3>1, <3>2, <3>3
  <2>5. CASE n \in L
    <3>1. q[n] = p[n] /\ p[n] \in {"plain", "verified"}
      BY <1>2, <2>1, <2>5
    <3> QED
      BY <1>2, <1>4, <2>4, <2>5, <3>1
  <2>6. CASE n \notin L
    <3>1. q[n] = None /\ Cardinality(NodesDat!Present(q)) = max
      BY <1>2, <2>1, <2>2, <2>6
    <3>2. ASSUME NEW m \in L PROVE q[m] = "verified" \/ d[n] = "plain"
      <4>1. q[m] = p[m] /\ p[m] \in {"plain", "verified"} /\ m \in Nodes
        BY <1>2, <2>1
      <4>2. CASE p[n] \in {d[n], "verified"}
        <5>1. n \in P \ L
          BY <1>2, <2>6, <4>2
        <5>2. p[m] = "verified" \/ p[n] = "plain"
          BY <2>1, <5>1 DEF NodesDat!Better
        <5> QED
          BY <1>2, <4>1, <4>2, <5>2
      <4> QED
        BY <1>4, <2>4, <4>1, <4>2
    <3> QED
      BY <2>2, <3>1, <3>2
  <2> QED
    BY <2>5, <2>6
<1> QED
  BY <1>5, <1>6

LEMMA MergedCovers ==
    ASSUME NEW d \in NodesDat!Pools, NEW p \in NodesDat!Pools, NEW q \in NodesDat!Pools,
           NEW max \in Nat, Keeps(d, p, max)
    PROVE  Covers(d, NodesDat!Merged(p, q), max)
<1> DEFINE m == NodesDat!Merged(p, q)
<1> USE NodesCardinality, NodesConstants
<1>1. /\ \A n \in Nodes : p[n] \in {"plain", "verified", None} /\ q[n] \in {"plain", "verified", None}
      /\ \A n \in Nodes : d[n] \in {"plain", "verified", None}
      /\ \A n \in Nodes : m[n] = IF "verified" \in {p[n], q[n]} THEN "verified"
                                 ELSE IF p[n] # None THEN p[n] ELSE q[n]
      /\ None # "plain" /\ None # "verified"
  BY DEF NodesDat!Pools, NodesDat!Quality, NodesDat!Merged
<1>2. /\ \A n \in Nodes : n \in NodesDat!Present(p) <=> p[n] # None
      /\ \A n \in Nodes : n \in NodesDat!Present(m) <=> m[n] # None
      /\ NodesDat!Present(p) \subseteq Nodes /\ NodesDat!Present(d) \subseteq Nodes
      /\ \A n \in NodesDat!Present(d) : d[n] # None
  BY DEF NodesDat!Present
<1> HIDE DEF m
<1>3. ASSUME NEW n \in NodesDat!Present(d) PROVE \/ m[n] \in {d[n], "verified"}
                                                 \/ Cardinality(AsGood(m, d[n])) >= max
  <2>1. CASE p[n] \in {d[n], "verified"}
    BY <1>1, <1>2, <2>1
  <2>2. CASE /\ Cardinality(NodesDat!Present(p)) = max
             /\ \A k \in NodesDat!Present(p) : p[k] = "verified" \/ d[n] = "plain"
    <3>1. NodesDat!Present(p) \subseteq AsGood(m, d[n])
      BY <1>1, <1>2, <2>2 DEF AsGood
    <3>2. IsFiniteSet(AsGood(m, d[n])) /\ Cardinality(AsGood(m, d[n])) \in Nat
      BY PresentFinite DEF AsGood
    <3>3. Cardinality(NodesDat!Present(p)) <= Cardinality(AsGood(m, d[n]))
      BY <3>1, <3>2, FS_Subset
    <3> QED
      BY <2>2, <3>2, <3>3
  <2> QED
    BY <2>1, <2>2 DEF Keeps
<1> QED
  BY <1>3 DEF Covers, m

\* A pool covers what it completes and what it is merged into.
LEMMA CompletedCovers ==
    ASSUME NEW d \in NodesDat!Pools
    PROVE  /\ \A max : Covers(d, NodesDat!Reseeded(d), max)
           /\ \A max : \A q \in NodesDat!Pools : Covers(d, NodesDat!Merged(d, q), max)
           /\ \A max : Keeps(d, d, max)
BY DEF Covers, Keeps, NodesDat!Reseeded, NodesDat!Merged, NodesDat!Present, NodesDat!Pools

\* What a step does to the file.
FileKept ==
    /\ nodes_dat' \in NodesDat!Pools \cup {None, Malformed}
    /\ pc # "lost" /\ nodes_dat \in NodesDat!Pools =>
          \A n \in NodesDat!Present(nodes_dat) : NodesDat!Keeps(n)

LEMMA UnchangedKept == NodesInv /\ UNCHANGED nodes_dat => FileKept
BY DEF NodesInv, FileKept, NodesDat!Keeps

LEMMA KeepsIsKept ==
    ASSUME nodes_dat \in NodesDat!Pools,
           Keeps(nodes_dat, nodes_dat', MaxSaved) \/ Keeps(nodes_dat, nodes_dat', MaxPersist)
    PROVE  \A n \in NodesDat!Present(nodes_dat) : NodesDat!Keeps(n)
BY DEF Keeps, NodesDat!Keeps, NodesDat!Present

\* A write of content that keeps the file, with the pool the program goes on with.
LEMMA StoreStep ==
    ASSUME NodesInv, NEW content \in NodesDat!Pools,
           NEW write \in {"reseed", "refresh", "persist"}, NodesDat!Store(content, write),
           pool' \in NodesDat!Pools, discovered' \in NodesDat!Pools,
           nodes_dat \in NodesDat!Pools =>
              Keeps(nodes_dat, content, MaxSaved) \/ Keeps(nodes_dat, content, MaxPersist),
           write = "reseed" => pool' = content /\ (nodes_dat \in NodesDat!Pools =>
                                                     Keeps(nodes_dat, content, MaxSaved))
    PROVE  NodesInv' /\ UNCHANGED nodes_dat
BY DEF NodesInv, Writes, NodesDat!Store, NodesDat!FailureOf, NodesDat!Follows

LEMMA NodesStep == NodesInv /\ NodesDat!Next => NodesInv' /\ FileKept
<1> SUFFICES ASSUME NodesInv, NodesDat!Next PROVE NodesInv' /\ FileKept
  OBVIOUS
<1> USE NodesConstants
<1>1. CASE NodesDat!StartPrimary
  <2>1. NodesInv' /\ UNCHANGED nodes_dat
    BY <1>1, CompletedCovers DEF NodesDat!StartPrimary, NodesInv, Writes
  <2> QED
    BY <2>1, UnchangedKept
<1>2. CASE NodesDat!StartReseeded
  <2>1. PICK shorter \in NodesDat!Cut(NodesDat!Reseeded(nodes_dat), MaxSaved) :
          /\ pool' = shorter
          /\ \/ NodesDat!Store(shorter, "reseed")
             \/ pc' = "bootstrap" /\ UNCHANGED <<nodes_dat, nodes_tmp>>
    BY <1>2 DEF NodesDat!StartReseeded
  <2>2. nodes_dat \in NodesDat!Pools /\ UNCHANGED discovered
    BY <1>2 DEF NodesDat!StartReseeded
  <2>3. shorter \in NodesDat!Pools /\ Keeps(nodes_dat, shorter, MaxSaved)
    BY <2>2, FilePools, CompletedCovers, CutKeeps
  <2>4. CASE NodesDat!Store(shorter, "reseed")
    BY <2>1, <2>2, <2>3, <2>4, StoreStep, UnchangedKept DEF NodesInv
  <2>5. CASE pc' = "bootstrap" /\ UNCHANGED <<nodes_dat, nodes_tmp>>
    <3>1. NodesInv'
      BY <2>1, <2>2, <2>3, <2>5 DEF NodesInv, Writes
    <3> QED
      BY <2>5, <3>1, UnchangedKept
  <2> QED
    BY <2>1, <2>4, <2>5
<1>3. CASE NodesDat!StartSeeded
  <2>1. /\ nodes_dat = None /\ pool' = NodesDat!SeedPool /\ UNCHANGED <<discovered, nodes_dat>>
        /\ \/ pc' = "bootstrap"
           \/ pc' = "download" /\ nodes_tmp' \in {Malformed, [n \in Nodes |-> "plain"]}
    BY <1>3 DEF NodesDat!StartSeeded, NodesDat!Store, NodesDat!FailureOf
  <2>2. NodesInv'
    BY <2>1, FilePools DEF NodesInv, Writes
  <2> QED
    BY <2>1, <2>2, UnchangedKept
<1>4. CASE NodesDat!RemoveUnreadable
  <2>1. nodes_dat \notin NodesDat!Pools /\ nodes_dat' = None
        /\ UNCHANGED <<nodes_tmp, pc, pool, discovered>> /\ pc = "stopped"
    BY <1>4 DEF NodesDat!RemoveUnreadable
  <2> QED
    BY <2>1 DEF NodesInv, Writes, FileKept
<1>5. CASE NodesDat!ParseDownload
  <2>1. NodesInv' /\ UNCHANGED nodes_dat
    BY <1>5, CompletedCovers DEF NodesDat!ParseDownload, NodesInv, Writes
  <2> QED
    BY <2>1, UnchangedKept
<1>6. ASSUME NEW n \in Nodes, NEW quality \in NodesDat!Quality, NodesDat!Hello(n, quality)
      PROVE  NodesInv' /\ FileKept
  <2>1. discovered' \in NodesDat!Pools
    BY <1>6 DEF NodesDat!Hello, NodesInv, NodesDat!Pools
  <2>2. NodesInv' /\ UNCHANGED nodes_dat
    BY <1>6, <2>1 DEF NodesDat!Hello, NodesInv, Writes
  <2> QED
    BY <2>2, UnchangedKept
<1>7. ASSUME NEW n \in Nodes, NEW quality \in NodesDat!Quality, NEW contacts \in SUBSET Nodes,
             NodesDat!BootstrapRes(n, quality, contacts)
      PROVE  NodesInv' /\ FileKept
  <2>1. discovered' \in NodesDat!Pools
    BY <1>7 DEF NodesDat!BootstrapRes, NodesInv, NodesDat!Pools, NodesDat!Quality
  <2>2. NodesInv' /\ UNCHANGED nodes_dat
    BY <1>7, <2>1 DEF NodesDat!BootstrapRes, NodesInv, Writes
  <2> QED
    BY <2>2, UnchangedKept
<1>8. CASE NodesDat!EndBootstrap
  <2>1. PICK shorter \in NodesDat!Cut(NodesDat!Merged(pool, discovered), MaxSaved) :
          pool' = shorter /\ NodesDat!Store(shorter, "refresh")
    BY <1>8 DEF NodesDat!EndBootstrap
  <2>2. pc = "bootstrap" /\ discovered' = NodesDat!Nobody
    BY <1>8 DEF NodesDat!EndBootstrap
  <2>3. shorter \in NodesDat!Pools
    BY FilePools DEF NodesInv
  <2>4. nodes_dat \in NodesDat!Pools => Keeps(nodes_dat, shorter, MaxSaved)
    BY <2>2, FilePools, MergedCovers, CutKeeps DEF NodesInv
  <2> QED
    BY <2>1, <2>2, <2>3, <2>4, FilePools, StoreStep, UnchangedKept
<1>9. ASSUME NEW n \in Nodes, NEW quality \in NodesDat!Quality \cup {None},
             NodesDat!TableChanges(n, quality)
      PROVE  NodesInv' /\ FileKept
  <2>1. pool' \in NodesDat!Pools
    BY <1>9 DEF NodesDat!TableChanges, NodesInv, NodesDat!Pools
  <2>2. NodesInv' /\ UNCHANGED nodes_dat
    BY <1>9, <2>1 DEF NodesDat!TableChanges, NodesInv, Writes
  <2> QED
    BY <2>2, UnchangedKept
<1>10. CASE NodesDat!PersistSnapshot
  <2>0. PICK snapshot \in NodesDat!Cut(pool, MaxPersist) :
          \E shorter \in NodesDat!Cut(NodesDat!WithFile(snapshot), MaxPersist) :
             NodesDat!Store(shorter, "persist")
    BY <1>10 DEF NodesDat!PersistSnapshot
  <2>1. PICK shorter \in NodesDat!Cut(NodesDat!WithFile(snapshot), MaxPersist) :
          NodesDat!Store(shorter, "persist")
    BY <2>0
  <2>2. UNCHANGED <<pool, discovered>>
    BY <1>10 DEF NodesDat!PersistSnapshot
  <2>3. snapshot \in NodesDat!Pools /\ NodesDat!Readable \in NodesDat!Pools
    BY FilePools DEF NodesInv, NodesDat!Readable
  <2>4. shorter \in NodesDat!Pools
    BY <2>3, FilePools DEF NodesDat!WithFile
  <2>5. nodes_dat \in NodesDat!Pools => Keeps(nodes_dat, shorter, MaxPersist)
    BY <2>3, FilePools, CompletedCovers, CutKeeps DEF NodesDat!WithFile, NodesDat!Readable
  <2> QED
    BY <2>1, <2>2, <2>4, <2>5, StoreStep, UnchangedKept DEF NodesInv
<1>11. CASE NodesDat!LoseSocket
  <2>1. PICK snapshot \in NodesDat!Cut(pool, MaxPersist) : NodesDat!Store(snapshot, "lost")
    BY <1>11 DEF NodesDat!LoseSocket
  <2>2. snapshot \in NodesDat!Pools
    BY FilePools DEF NodesInv
  <2>3. /\ UNCHANGED <<nodes_dat, pool, discovered>>
        /\ \/ pc' = "lost" /\ nodes_tmp' = snapshot
           \/ pc' = "reconnect"
    BY <1>11, <2>1 DEF NodesDat!LoseSocket, NodesDat!Store, NodesDat!FailureOf, NodesDat!Follows
  <2>4. NodesInv'
    BY <2>2, <2>3 DEF NodesInv, Writes
  <2> QED
    BY <2>3, <2>4, UnchangedKept
<1>12. CASE NodesDat!Reconnect
  <2>1. NodesInv' /\ UNCHANGED nodes_dat
    BY <1>12 DEF NodesDat!Reconnect, NodesInv, Writes
  <2> QED
    BY <2>1, UnchangedKept
<1>13. ASSUME NEW write \in Writes, NodesDat!Rename(write) PROVE NodesInv' /\ FileKept
  <2>1. pc = write /\ UNCHANGED <<pool, discovered>>
    BY <1>13 DEF NodesDat!Rename
  <2>2. CASE nodes_dat' = nodes_tmp /\ nodes_tmp' = None /\ pc' = NodesDat!Follows(write)
    <3>1. FileKept
      BY <2>1, <2>2, KeepsIsKept DEF NodesInv, Writes, FileKept
    <3>2. /\ pc' \in {"bootstrap", "parse", "service", "reconnect"}
          /\ pc' = "bootstrap" => pc = "reseed"
      BY <2>1, <2>2 DEF NodesDat!Follows, Writes
    <3>3. pc' = "bootstrap" => nodes_dat' = pool'
      BY <2>1, <2>2, <3>2 DEF NodesInv
    <3>4. NodesInv'
      BY <2>1, <2>2, <3>2, <3>3, CompletedCovers DEF NodesInv, Writes
    <3> QED
      BY <3>1, <3>4
  <2>3. CASE UNCHANGED <<nodes_dat, nodes_tmp>> /\ pc' = NodesDat!FailureOf(write)
    <3>1. /\ pc' \in {"bootstrap", "service", "reconnect"}
          /\ pc' = "bootstrap" => pc \in {"reseed", "download"}
      BY <2>1, <2>3 DEF NodesDat!FailureOf, NodesDat!Follows, Writes
    <3>2. pc = "reseed" /\ nodes_dat \in NodesDat!Pools => Keeps(nodes_dat, pool, MaxSaved)
      BY DEF NodesInv
    <3>3. NodesInv'
      BY <2>1, <2>3, <3>1, <3>2 DEF NodesInv, Writes
    <3> QED
      BY <2>3, <3>3, UnchangedKept
  <2> QED
    BY <1>13, <2>2, <2>3 DEF NodesDat!Rename
<1>14. CASE NodesDat!Stop
  <2>1. NodesInv' /\ UNCHANGED nodes_dat
    BY <1>14, FilePools DEF NodesDat!Stop, NodesInv, Writes
  <2> QED
    BY <2>1, UnchangedKept
<1> QED
  BY <1>1, <1>2, <1>3, <1>4, <1>5, <1>6, <1>7, <1>8, <1>9, <1>10, <1>11, <1>12, <1>13, <1>14
     DEF NodesDat!Next, Writes

\* Whatever is killed or fails in a write, nodes.dat stays readable unless the server
\* sent a file that does not parse, and loses a node only to a full list of nodes at
\* least as good, although the pool is cut and completed several times on its way.
THEOREM NodesAreKept == Spec => PoolIsKept
<1>1. Init => NodesInv
  BY FilePools, NodesConstants DEF Init, NodesDat!Init, NodesInv, Writes
<1>2. NodesInv /\ UNCHANGED nodes => NodesInv' /\ UNCHANGED NodesDat!fileVars
  BY DEF NodesInv, nodes, NodesDat!fileVars
<1>3. NodesInv /\ [Next]_vars => NodesInv' /\ [FileKept]_NodesDat!fileVars
  <2>1. NodesInv /\ [Next]_vars => NodesDat!Next \/ UNCHANGED nodes
    BY DEF Next, vars
  <2> QED
    BY <1>2, <2>1, NodesStep
<1> QED
  BY <1>1, <1>3, PTL DEF Spec, PoolIsKept, NodesDat!PoolIsKept, FileKept

-----------------------------------------------------------------------------
(* Stores *)

Shelves == UNION {[S -> Nat] : S \in SUBSET Files}

\* The stored pairs of a keyword of K and a file.
Shelved(s, K) == UNION {{k} \X DOMAIN s[k] : k \in K}

StoresInv ==
    /\ store \in [Keywords -> Shelves]
    /\ sources \in [Files -> SUBSET SourceIds]
    /\ StoresWithinCaps

LEMMA StoresConstants ==
    /\ IsFiniteSet(Keywords) /\ IsFiniteSet(Files) /\ IsFiniteSet(SourceIds)
    /\ Me \in SourceIds
    /\ StoreMaxKeywords \in Nat /\ StoreMaxTotal \in Nat /\ StoreTTL \in Nat
    /\ MaxFiles \in Nat /\ MaxPerFile \in Nat /\ MaxSources \in Nat
<1>1. Stores!StoresAssumption
  BY InstancesAssumption
<1>2. \A S : Stores!IsFiniteSet(S) <=> IsFiniteSet(S)
  BY DEF Stores!IsFiniteSet, IsFiniteSet
<1> QED
  BY <1>1, <1>2 DEF Stores!StoresAssumption

LEMMA StoresCardinality == \A S : Stores!Cardinality(S) = Cardinality(S)
BY DEF Stores!Cardinality, Cardinality, Stores!IsFiniteSet, IsFiniteSet

LEMMA SizeIs ==
    ASSUME NEW s \in [Keywords -> Shelves], NEW K \in SUBSET Keywords
    PROVE  /\ Stores!Size(s, K) = Cardinality(Shelved(s, K)) /\ Stores!Size(s, K) \in Nat
           /\ IsFiniteSet(Shelved(s, K))
           /\ \A x : x \in Shelved(s, K) <=> \E k \in K : \E f \in DOMAIN s[k] : x = <<k, f>>
<1>1. Shelved(s, K) \subseteq Keywords \X Files
  BY DEF Shelved, Shelves
<1>2. IsFiniteSet(Keywords \X Files)
  BY StoresConstants, FS_Product
<1>3. IsFiniteSet(Shelved(s, K)) /\ Cardinality(Shelved(s, K)) \in Nat
  BY <1>1, <1>2, FS_Subset, FS_CardinalityType
<1> QED
  BY <1>3, StoresCardinality DEF Stores!Size, Shelved

LEMMA StoredIs ==
    ASSUME NEW s \in [Keywords -> Shelves]
    PROVE  /\ \A k \in Keywords : k \in Stores!Stored(s) <=> DOMAIN s[k] # {}
           /\ Stores!Stored(s) \subseteq Keywords
           /\ IsFiniteSet(Stores!Stored(s)) /\ Cardinality(Stores!Stored(s)) \in Nat
<1>1. \A k \in Keywords : s[k] = Stores!Nothing <=> DOMAIN s[k] = {}
  <2>1. \A k \in Keywords : s[k] = [f \in DOMAIN s[k] |-> s[k][f]]
    BY DEF Shelves
  <2> QED
    BY <2>1 DEF Stores!Nothing
<1>2. Stores!Stored(s) \subseteq Keywords
  BY DEF Stores!Stored
<1> QED
  BY <1>1, <1>2, StoresConstants, FS_Subset, FS_CardinalityType DEF Stores!Stored

LEMMA NothingIs == Stores!Nothing \in Shelves /\ DOMAIN Stores!Nothing = {}
<1>1. Stores!Nothing \in [{} -> Nat] /\ {} \in SUBSET Files
  BY DEF Stores!Nothing
<1> QED
  BY <1>1 DEF Shelves

LEMMA WithoutIs ==
    ASSUME NEW s \in [Keywords -> Shelves], NEW D \in SUBSET Keywords
    PROVE  /\ Stores!Without(s, D) \in [Keywords -> Shelves]
           /\ Stores!Stored(Stores!Without(s, D)) = Stores!Stored(s) \ D
           /\ Stores!Size(Stores!Without(s, D), Keywords) = Stores!Size(s, Stores!Stored(s) \ D)
           /\ Stores!Size(Stores!Without(s, D), Keywords) <= Stores!Size(s, Keywords)
<1> DEFINE t == Stores!Without(s, D)
<1>1. /\ t \in [Keywords -> Shelves]
      /\ \A k \in D : DOMAIN t[k] = {}
      /\ \A k \in Keywords \ D : t[k] = s[k]
  BY NothingIs DEF Stores!Without
<1> HIDE DEF t
<1>2. Stores!Stored(t) = Stores!Stored(s) \ D
  BY <1>1, StoredIs
<1>3. Shelved(t, Keywords) = Shelved(s, Stores!Stored(s) \ D)
  <2>1. Stores!Stored(s) \ D \in SUBSET Keywords
    BY StoredIs
  <2>2. \A x : x \in Shelved(t, Keywords) <=> \E k \in Keywords : \E f \in DOMAIN t[k] : x = <<k, f>>
    BY <1>1, SizeIs
  <2>3. \A x : x \in Shelved(s, Stores!Stored(s) \ D) <=>
                  \E k \in Stores!Stored(s) \ D : \E f \in DOMAIN s[k] : x = <<k, f>>
    BY <2>1, SizeIs
  <2>4. \A k \in Keywords : DOMAIN t[k] # {} <=> k \in Stores!Stored(s) \ D
    BY <1>1, <1>2, StoredIs
  <2>5. \A k \in Stores!Stored(s) \ D : k \in Keywords /\ t[k] = s[k]
    BY <1>1, <2>1
  <2>6. \A x : x \in Shelved(t, Keywords) <=> x \in Shelved(s, Stores!Stored(s) \ D)
    BY <2>2, <2>3, <2>4, <2>5
  <2> QED
    BY <2>6
<1>4. Shelved(s, Stores!Stored(s) \ D) \subseteq Shelved(s, Keywords)
  BY StoredIs DEF Shelved
<1>5. Stores!Size(t, Keywords) = Stores!Size(s, Stores!Stored(s) \ D)
  BY <1>1, <1>3, SizeIs, StoredIs
<1>6. Stores!Size(s, Stores!Stored(s) \ D) <= Stores!Size(s, Keywords)
  BY <1>4, SizeIs, StoredIs, FS_Subset
<1> QED
  BY <1>1, <1>2, <1>5, <1>6 DEF t

\* A part of a store taken away: sizes subtract.
LEMMA SizeLess ==
    ASSUME NEW s \in [Keywords -> Shelves], NEW K \in SUBSET Keywords, NEW D \in SUBSET K
    PROVE  /\ Stores!Size(s, K \ D) = Stores!Size(s, K) - Stores!Size(s, D)
           /\ Stores!Size(s, K \ D) = Stores!Less(Stores!Size(s, K), Stores!Size(s, D))
<1>1. D \in SUBSET Keywords /\ K \ D \in SUBSET Keywords
  OBVIOUS
<1>2. Shelved(s, K \ D) = Shelved(s, K) \ Shelved(s, D)
  <2>1. \A x : x \in Shelved(s, K \ D) <=> \E k \in K \ D : \E f \in DOMAIN s[k] : x = <<k, f>>
    BY <1>1, SizeIs
  <2>2. \A x : x \in Shelved(s, K) <=> \E k \in K : \E f \in DOMAIN s[k] : x = <<k, f>>
    BY SizeIs
  <2>3. \A x : x \in Shelved(s, D) <=> \E k \in D : \E f \in DOMAIN s[k] : x = <<k, f>>
    BY <1>1, SizeIs
  <2>4. \A x : x \in Shelved(s, K \ D) <=> x \in Shelved(s, K) /\ x \notin Shelved(s, D)
    BY <2>1, <2>2, <2>3
  <2> QED
    BY <2>4
<1>3. Shelved(s, K) \cap Shelved(s, D) = Shelved(s, D)
  BY DEF Shelved
<1>4. Cardinality(Shelved(s, K) \ Shelved(s, D))
        = Cardinality(Shelved(s, K)) - Cardinality(Shelved(s, K) \cap Shelved(s, D))
  BY SizeIs, FS_Difference
<1>5. /\ Stores!Size(s, K) = Cardinality(Shelved(s, K)) /\ Stores!Size(s, K) \in Nat
      /\ Stores!Size(s, D) = Cardinality(Shelved(s, D)) /\ Stores!Size(s, D) \in Nat
      /\ Stores!Size(s, K \ D) = Cardinality(Shelved(s, K \ D)) /\ Stores!Size(s, K \ D) \in Nat
  BY <1>1, SizeIs
<1>6. Stores!Size(s, K \ D) = Stores!Size(s, K) - Stores!Size(s, D)
  BY <1>2, <1>3, <1>4, <1>5
<1> QED
  BY <1>5, <1>6 DEF Stores!Less

\* What dropping keywords leaves, and that the total follows.
LEMMA DroppedIs ==
    ASSUME NEW s \in [Keywords -> Shelves], NEW D \in SUBSET Keywords
    PROVE  Stores!Dropped(s, Stores!Size(s, Keywords), D)
              = <<Stores!Without(s, D), Stores!Size(Stores!Without(s, D), Keywords)>>
<1>1. Stores!Size(s, Keywords \ D) = Stores!Less(Stores!Size(s, Keywords), Stores!Size(s, D))
  BY SizeLess
<1>2. Stores!Size(s, Keywords \ D) = Stores!Size(s, Stores!Stored(s) \ D)
  <2>1. Keywords \ D \in SUBSET Keywords /\ Stores!Stored(s) \ D \in SUBSET Keywords
    BY StoredIs
  <2>2. \A x : x \in Shelved(s, Keywords \ D) <=>
                  \E k \in Keywords \ D : \E f \in DOMAIN s[k] : x = <<k, f>>
    BY <2>1, SizeIs
  <2>3. \A x : x \in Shelved(s, Stores!Stored(s) \ D) <=>
                  \E k \in Stores!Stored(s) \ D : \E f \in DOMAIN s[k] : x = <<k, f>>
    BY <2>1, SizeIs
  <2>4. \A k \in Keywords : k \in Stores!Stored(s) <=> DOMAIN s[k] # {}
    BY StoredIs
  <2>5. \A x : x \in Shelved(s, Keywords \ D) <=> x \in Shelved(s, Stores!Stored(s) \ D)
    BY <2>1, <2>2, <2>3, <2>4
  <2>6. Shelved(s, Keywords \ D) = Shelved(s, Stores!Stored(s) \ D)
    BY <2>5
  <2> QED
    BY <2>1, <2>6, SizeIs
<1> QED
  BY <1>1, <1>2, WithoutIs DEF Stores!Dropped

\* Whatever the limits leave is within both, and the total is its size.
LEMMA LimitsHold ==
    ASSUME NEW s \in [Keywords -> Shelves],
           NEW p \in Stores!StoreLimits(s, Stores!Size(s, Keywords))
    PROVE  \E u \in [Keywords -> Shelves] :
              /\ p = <<u, Stores!Size(u, Keywords)>>
              /\ Cardinality(Stores!Stored(u)) <= StoreMaxKeywords
              /\ Stores!Size(u, Keywords) <= StoreMaxTotal
<1> USE StoresCardinality, StoresConstants
<1>1. CASE StoreMaxKeywords = 0 \/ StoreMaxTotal = 0
  <2>1. PICK u : p = <<u, 0>> /\ u = Stores!Without(s, Keywords)
    BY <1>1 DEF Stores!StoreLimits
  <2>2. Stores!Stored(s) \ Keywords = {}
    BY StoredIs
  <2>3. /\ u \in [Keywords -> Shelves] /\ Stores!Stored(u) = {}
        /\ Stores!Size(u, Keywords) = Stores!Size(s, {})
    BY <2>1, <2>2, WithoutIs
  <2>4. Shelved(s, {}) = {}
    BY DEF Shelved
  <2>5. Stores!Size(s, {}) = 0 /\ Cardinality({}) = 0
    <3>1. Stores!Size(s, {}) = Cardinality(Shelved(s, {}))
      BY SizeIs
    <3> QED
      BY <2>4, <3>1, FS_EmptySet
  <2>6. p = <<u, Stores!Size(u, Keywords)>> /\ Stores!Size(u, Keywords) = 0
    BY <2>1, <2>3, <2>5
  <2> QED
    BY <2>3, <2>5, <2>6
<1>2. CASE ~ (StoreMaxKeywords = 0 \/ StoreMaxTotal = 0)
  <2>1. PICK q \in Stores!KeywordCap(s, Stores!Size(s, Keywords)) : p \in Stores!HitsCap(q[1], q[2])
    BY <1>2 DEF Stores!StoreLimits
  <2>2. PICK D \in SUBSET Stores!Stored(s) :
          /\ Stores!Cardinality(Stores!Stored(s) \ D) <= StoreMaxKeywords
          /\ q = Stores!Dropped(s, Stores!Size(s, Keywords), D)
    BY <2>1 DEF Stores!KeywordCap, Stores!OldestStored
  <2>3. D \in SUBSET Keywords
    BY StoredIs
  <2>4. PICK t : t = Stores!Without(s, D)
    OBVIOUS
  <2>5. /\ t \in [Keywords -> Shelves] /\ Stores!Stored(t) = Stores!Stored(s) \ D
        /\ q = <<t, Stores!Size(t, Keywords)>>
    BY <2>2, <2>3, <2>4, WithoutIs, DroppedIs
  <2>6. p \in Stores!HitsCap(t, Stores!Size(t, Keywords))
    BY <2>1, <2>5
  <2>7. PICK E \in SUBSET Stores!Stored(t) :
          /\ Stores!Less(Stores!Size(t, Keywords),
                         Stores!Size(t, Stores!Stored(t) \ (Stores!Stored(t) \ E))) <= StoreMaxTotal
          /\ p = Stores!Dropped(t, Stores!Size(t, Keywords), E)
    BY <2>6 DEF Stores!HitsCap, Stores!OldestStored
  <2>8. E \in SUBSET Keywords /\ Stores!Stored(t) \ (Stores!Stored(t) \ E) = E
    BY <2>5, StoredIs
  <2>9. PICK u : u = Stores!Without(t, E)
    OBVIOUS
  <2>10. /\ u \in [Keywords -> Shelves] /\ Stores!Stored(u) = Stores!Stored(t) \ E
         /\ p = <<u, Stores!Size(u, Keywords)>>
    BY <2>5, <2>7, <2>8, <2>9, WithoutIs, DroppedIs
  <2>11. Stores!Size(u, Keywords) <= StoreMaxTotal
    <3>1. p = <<u, Stores!Less(Stores!Size(t, Keywords), Stores!Size(t, E))>>
      BY <2>7, <2>9 DEF Stores!Dropped
    <3>2. Stores!Less(Stores!Size(t, Keywords), Stores!Size(t, E)) <= StoreMaxTotal
      BY <2>7, <2>8
    <3> QED
      BY <2>10, <3>1, <3>2
  <2>12. Cardinality(Stores!Stored(u)) <= Cardinality(Stores!Stored(t))
    BY <2>5, <2>10, StoredIs, FS_Subset
  <2>13. /\ Cardinality(Stores!Stored(u)) \in Nat /\ Cardinality(Stores!Stored(t)) \in Nat
         /\ Cardinality(Stores!Stored(t)) <= StoreMaxKeywords
    BY <2>2, <2>5, <2>10, StoredIs
  <2> QED
    BY <2>10, <2>11, <2>12, <2>13
<1> QED
  BY <1>1, <1>2

\* A store within the caps, with its size for the total.
LEMMA StoreBecomesStep ==
    ASSUME StoresInv, NEW t \in [Keywords -> Shelves],
           Stores!StoreBecomes(<<t, Stores!Size(t, Keywords)>>),
           Cardinality(Stores!Stored(t)) <= StoreMaxKeywords,
           Stores!Size(t, Keywords) <= StoreMaxTotal
    PROVE  StoresInv' /\ UNCHANGED sources
<1>1. store' = t /\ UNCHANGED sources /\ store_total' = Stores!Size(t, Keywords)
  BY DEF Stores!StoreBecomes
<1> QED
  BY <1>1, StoresCardinality
     DEF StoresInv, StoresWithinCaps, Stores!StoresWithinCaps

LEMMA LimitedStep ==
    ASSUME StoresInv, NEW s \in [Keywords -> Shelves], NEW n, n = Stores!Size(s, Keywords),
           \E p \in Stores!StoreLimits(s, n) : Stores!StoreBecomes(p)
    PROVE  StoresInv' /\ UNCHANGED sources
<1>1. PICK p \in Stores!StoreLimits(s, Stores!Size(s, Keywords)) : Stores!StoreBecomes(p)
  OBVIOUS
<1>2. PICK u \in [Keywords -> Shelves] :
              /\ p = <<u, Stores!Size(u, Keywords)>>
              /\ Cardinality(Stores!Stored(u)) <= StoreMaxKeywords
              /\ Stores!Size(u, Keywords) <= StoreMaxTotal
  BY LimitsHold
<1>3. Stores!StoreBecomes(<<u, Stores!Size(u, Keywords)>>)
  BY <1>1, <1>2
<1> QED
  BY <1>2, <1>3, StoreBecomesStep

\* A store whose keywords keep their files, at whatever age.
LEMMA SameShelves ==
    ASSUME NEW s \in [Keywords -> Shelves], NEW t \in [Keywords -> Shelves],
           \A k \in Keywords : DOMAIN t[k] = DOMAIN s[k]
    PROVE  Stores!Stored(t) = Stores!Stored(s) /\ Stores!Size(t, Keywords) = Stores!Size(s, Keywords)
<1>1. Stores!Stored(t) = Stores!Stored(s)
  BY StoredIs
<1>2. Shelved(t, Keywords) = Shelved(s, Keywords)
  BY DEF Shelved
<1> QED
  BY <1>1, <1>2, SizeIs

LEMMA KeywordStoreStep ==
    /\ \A k \in Keywords : \A F \in SUBSET Files :
          StoresInv /\ Stores!PublishKeyReq(k, F) => StoresInv' /\ UNCHANGED sources
    /\ \A k \in Keywords : StoresInv /\ Stores!PurgeStored(k) => StoresInv' /\ UNCHANGED sources
    /\ StoresInv /\ Stores!MaintainStore => StoresInv' /\ UNCHANGED sources
    /\ StoresInv /\ Stores!StoreClock => StoresInv' /\ UNCHANGED sources
<1> USE StoresConstants
<1>0. ASSUME StoresInv
      PROVE  /\ store \in [Keywords -> Shelves]
             /\ Cardinality(Stores!Stored(store)) <= StoreMaxKeywords
             /\ Stores!Size(store, Keywords) <= StoreMaxTotal
             /\ store_total = Stores!Size(store, Keywords) /\ store_total \in Nat
  BY <1>0, StoresCardinality, SizeIs DEF StoresInv, StoresWithinCaps, Stores!StoresWithinCaps
<1>1. ASSUME StoresInv, NEW k \in Keywords, NEW F \in SUBSET Files, Stores!PublishKeyReq(k, F)
      PROVE  StoresInv' /\ UNCHANGED sources
  <2> DEFINE filled == [f \in DOMAIN store[k] \cup F |-> IF f \in F THEN 0 ELSE store[k][f]]
             seen == [store EXCEPT ![k] = filled]
             new == F \ DOMAIN store[k]
  <2>1. \/ new = {} /\ Stores!StoreBecomes(<<seen, store_total>>)
        \/ \E p \in Stores!StoreLimits(seen, store_total + Stores!Cardinality(new)) :
              Stores!StoreBecomes(p)
    BY <1>1 DEF Stores!PublishKeyReq
  <2>2. filled \in Shelves /\ DOMAIN filled = DOMAIN store[k] \cup new
    <3>1. PICK S \in SUBSET Files : store[k] \in [S -> Nat]
      BY <1>0, <1>1 DEF Shelves
    <3>2. filled \in [S \cup F -> Nat] /\ S \cup F \in SUBSET Files
      BY <3>1
    <3> QED
      BY <3>1, <3>2 DEF Shelves
  <2> HIDE DEF filled
  <2>3. seen \in [Keywords -> Shelves]
    BY <1>0, <1>1, <2>2
  <2>4. new = {} => \A j \in Keywords : DOMAIN seen[j] = DOMAIN store[j]
    BY <1>0, <1>1, <2>2
  <2>5. Shelved(seen, Keywords) = Shelved(store, Keywords) \cup ({k} \X new)
    <3>1. \A j \in Keywords : DOMAIN seen[j] = DOMAIN store[j] \cup (IF j = k THEN new ELSE {})
      BY <1>0, <1>1, <2>2
    <3> HIDE DEF seen, new
    <3>2. \A x : x \in Shelved(seen, Keywords) <=>
                    \E j \in Keywords : \E f \in DOMAIN seen[j] : x = <<j, f>>
      BY <2>3, SizeIs
    <3>3. \A x : x \in Shelved(store, Keywords) <=>
                    \E j \in Keywords : \E f \in DOMAIN store[j] : x = <<j, f>>
      BY <1>0, <1>1, SizeIs
    <3>4. \A x : x \in {k} \X new <=> \E f \in new : x = <<k, f>>
      OBVIOUS
    <3>5. \A x : x \in Shelved(seen, Keywords) <=> x \in Shelved(store, Keywords) \/ x \in {k} \X new
      BY <3>1, <3>2, <3>3, <3>4
    <3> QED
      BY <3>5
  <2>6. Stores!Size(seen, Keywords) = store_total + Stores!Cardinality(new)
    <3>1. Shelved(store, Keywords) \cap ({k} \X new) = {}
      <4>1. \A x : x \in Shelved(store, Keywords) <=>
                      \E j \in Keywords : \E f \in DOMAIN store[j] : x = <<j, f>>
        BY <1>0, <1>1, SizeIs
      <4> QED
        BY <4>1
    <3>2. IsFiniteSet(new)
      BY FS_Subset
    <3> HIDE DEF seen, new
    <3>3. IsFiniteSet({k} \X new) /\ Cardinality({k} \X new) = Cardinality(new)
      <4>1. IsFiniteSet({k}) /\ Cardinality({k}) = 1
        BY FS_Singleton
      <4>2. IsFiniteSet({k} \X new) /\ Cardinality({k} \X new) = Cardinality({k}) * Cardinality(new)
        BY <3>2, <4>1, FS_Product
      <4>3. Cardinality(new) \in Nat
        BY <3>2, FS_CardinalityType
      <4> QED
        BY <4>1, <4>2, <4>3
    <3>4. IsFiniteSet(Shelved(store, Keywords))
      BY <1>0, <1>1, SizeIs
    <3>5. Cardinality(Shelved(seen, Keywords))
            = Cardinality(Shelved(store, Keywords)) + Cardinality({k} \X new)
              - Cardinality(Shelved(store, Keywords) \cap ({k} \X new))
      BY <2>5, <3>3, <3>4, FS_Union
    <3>6. Cardinality({}) = 0
      BY FS_EmptySet
    <3>7. /\ Stores!Size(seen, Keywords) = Cardinality(Shelved(seen, Keywords))
          /\ store_total = Cardinality(Shelved(store, Keywords)) /\ store_total \in Nat
      BY <1>0, <1>1, <2>3, SizeIs
    <3>8. Cardinality(new) \in Nat
      BY <3>2, FS_CardinalityType
    <3> QED
      BY <3>1, <3>3, <3>5, <3>6, <3>7, <3>8, StoresCardinality
  <2>7. CASE new = {} /\ Stores!StoreBecomes(<<seen, store_total>>)
    <3> HIDE DEF seen, new
    <3>1. /\ Stores!Stored(seen) = Stores!Stored(store)
          /\ Stores!Size(seen, Keywords) = Stores!Size(store, Keywords)
      BY <1>0, <1>1, <2>3, <2>4, <2>7, SameShelves
    <3>2. Stores!StoreBecomes(<<seen, Stores!Size(seen, Keywords)>>)
      BY <1>0, <1>1, <2>7, <3>1
    <3> QED
      BY <1>0, <1>1, <2>3, <3>1, <3>2, StoreBecomesStep
  <2>8. CASE \E p \in Stores!StoreLimits(seen, store_total + Stores!Cardinality(new)) :
               Stores!StoreBecomes(p)
    <3> HIDE DEF seen, new
    <3> QED
      BY <1>1, <2>3, <2>6, <2>8, LimitedStep
  <2> QED
    BY <2>1, <2>7, <2>8
<1>2. ASSUME StoresInv, NEW k \in Keywords, Stores!PurgeStored(k)
      PROVE  StoresInv' /\ UNCHANGED sources
  <2> DEFINE t == Stores!Without(store, {k})
  <2>1. /\ t \in [Keywords -> Shelves] /\ Stores!Stored(t) \subseteq Stores!Stored(store)
        /\ Stores!Size(t, Keywords) <= Stores!Size(store, Keywords)
    BY <1>0, <1>2, WithoutIs
  <2>2. Stores!StoreBecomes(<<t, Stores!Size(t, Keywords)>>)
    <3>1. Stores!StoreBecomes(Stores!Dropped(store, Stores!Size(store, Keywords), {k}))
      BY <1>0, <1>2 DEF Stores!PurgeStored
    <3> QED
      BY <1>0, <1>2, <3>1, DroppedIs
  <2> HIDE DEF t
  <2>3. Cardinality(Stores!Stored(t)) <= StoreMaxKeywords
    <3>1. Cardinality(Stores!Stored(t)) <= Cardinality(Stores!Stored(store))
      BY <1>0, <1>2, <2>1, StoredIs, FS_Subset
    <3> QED
      BY <1>0, <1>2, <2>1, <3>1, StoredIs
  <2>4. Stores!Size(t, Keywords) <= StoreMaxTotal
    <3>1. Stores!Size(t, Keywords) \in Nat /\ Stores!Size(store, Keywords) \in Nat
      BY <1>0, <1>2, <2>1, SizeIs
    <3> QED
      BY <1>0, <1>2, <2>1, <3>1
  <2> QED
    BY <1>2, <2>1, <2>2, <2>3, <2>4, StoreBecomesStep
<1>3. ASSUME StoresInv, Stores!MaintainStore PROVE StoresInv' /\ UNCHANGED sources
  <2> DEFINE fresh == [k \in Keywords |-> [f \in DOMAIN store[k] \ Stores!Old(k) |-> store[k][f]]]
             gone == UNION {{k} \X Stores!Old(k) : k \in Keywords}
  <2>1. \E p \in Stores!StoreLimits(fresh, Stores!Less(store_total, Stores!Cardinality(gone))) :
            Stores!StoreBecomes(p)
    BY <1>3 DEF Stores!MaintainStore
  <2>2. ASSUME NEW k \in Keywords
        PROVE  fresh[k] \in Shelves /\ DOMAIN fresh[k] = DOMAIN store[k] \ Stores!Old(k)
    <3>1. PICK S \in SUBSET Files : store[k] \in [S -> Nat]
      BY <1>0, <1>3 DEF Shelves
    <3>2. fresh[k] \in [S \ Stores!Old(k) -> Nat] /\ S \ Stores!Old(k) \in SUBSET Files
      BY <3>1
    <3> QED
      BY <3>1, <3>2 DEF Shelves
  <2>3. fresh \in [Keywords -> Shelves]
    BY <2>2
  <2>4. \A k \in Keywords : Stores!Old(k) \subseteq DOMAIN store[k]
    BY DEF Stores!Old
  <2>5. \A x : x \in gone <=> \E k \in Keywords : \E f \in Stores!Old(k) : x = <<k, f>>
    OBVIOUS
  <2> HIDE DEF fresh, gone
  <2>6. \A x : x \in Shelved(fresh, Keywords) <=>
                  \E k \in Keywords : \E f \in DOMAIN fresh[k] : x = <<k, f>>
    BY <2>3, SizeIs
  <2>7. \A x : x \in Shelved(store, Keywords) <=>
                  \E k \in Keywords : \E f \in DOMAIN store[k] : x = <<k, f>>
    BY <1>0, <1>3, SizeIs
  <2>8. Shelved(fresh, Keywords) = Shelved(store, Keywords) \ gone
    <3>1. \A x : x \in Shelved(fresh, Keywords) <=> x \in Shelved(store, Keywords) /\ x \notin gone
      BY <2>2, <2>5, <2>6, <2>7
    <3> QED
      BY <3>1
  <2>9. Shelved(store, Keywords) \cap gone = gone
    <3>1. \A x : x \in gone => x \in Shelved(store, Keywords)
      BY <2>4, <2>5, <2>7
    <3> QED
      BY <3>1
  <2>10. IsFiniteSet(Shelved(store, Keywords)) /\ IsFiniteSet(gone)
    <3>1. IsFiniteSet(Shelved(store, Keywords))
      BY <1>0, <1>3, SizeIs
    <3> QED
      BY <2>9, <3>1, FS_Subset
  <2>11. Cardinality(Shelved(fresh, Keywords)) = Cardinality(Shelved(store, Keywords)) - Cardinality(gone)
    BY <2>8, <2>9, <2>10, FS_Difference
  <2>12. /\ Stores!Size(fresh, Keywords) = Cardinality(Shelved(fresh, Keywords))
         /\ Stores!Size(fresh, Keywords) \in Nat
         /\ store_total = Cardinality(Shelved(store, Keywords)) /\ store_total \in Nat
         /\ Cardinality(gone) \in Nat
    BY <1>0, <1>3, <2>3, <2>10, SizeIs, FS_CardinalityType
  <2>13. Stores!Less(store_total, Stores!Cardinality(gone)) = Stores!Size(fresh, Keywords)
    BY <2>11, <2>12, StoresCardinality DEF Stores!Less
  <2> QED
    BY <1>3, <2>1, <2>3, <2>13, LimitedStep
<1>4. ASSUME StoresInv, Stores!StoreClock PROVE StoresInv' /\ UNCHANGED sources
  <2>1. /\ store' = [k \in Keywords |-> [f \in DOMAIN store[k] |->
                       IF store[k][f] < StoreTTL THEN store[k][f] + 1 ELSE StoreTTL]]
        /\ UNCHANGED <<store_total, sources>>
    BY <1>4 DEF Stores!StoreClock
  <2>2. ASSUME NEW k \in Keywords PROVE store'[k] \in Shelves /\ DOMAIN store'[k] = DOMAIN store[k]
    <3>1. PICK S \in SUBSET Files : store[k] \in [S -> Nat]
      BY <1>0, <1>4 DEF Shelves
    <3>2. store'[k] \in [S -> Nat]
      BY <2>1, <3>1
    <3> QED
      BY <3>1, <3>2 DEF Shelves
  <2>3. store' \in [Keywords -> Shelves]
    BY <2>1, <2>2
  <2>4. /\ Stores!Stored(store') = Stores!Stored(store)
        /\ Stores!Size(store', Keywords) = Stores!Size(store, Keywords)
    BY <1>0, <1>4, <2>2, <2>3, SameShelves
  <2> QED
    BY <1>4, <2>1, <2>3, <2>4 DEF StoresInv, StoresWithinCaps, Stores!StoresWithinCaps
<1> QED
  BY <1>1, <1>2, <1>3, <1>4

SourceLists == [Files -> SUBSET SourceIds]

\* Sources are gone, none is new.
Fewer(t, s) == t \in SourceLists /\ \A f \in Files : t[f] \subseteq s[f]

LEMMA SourcesFinite ==
    ASSUME NEW s \in SourceLists
    PROVE  /\ IsFiniteSet(Stores!Listed(s)) /\ Cardinality(Stores!Listed(s)) \in Nat
           /\ IsFiniteSet(Stores!Entries(s)) /\ Cardinality(Stores!Entries(s)) \in Nat
           /\ \A f \in Files : IsFiniteSet(s[f]) /\ Cardinality(s[f]) \in Nat
           /\ \A f \in Files : f \in Stores!Listed(s) <=> s[f] # {}
           /\ Stores!Listed(s) \subseteq Files
           /\ \A x : x \in Stores!Entries(s) <=> \E f \in Files : \E n \in s[f] : x = <<f, n>>
<1> USE StoresConstants DEF SourceLists
<1>1. Stores!Listed(s) \subseteq Files
  BY DEF Stores!Listed
<1>2. Stores!Entries(s) \subseteq Files \X SourceIds
  BY DEF Stores!Entries
<1>3. IsFiniteSet(Files \X SourceIds)
  BY FS_Product
<1>4. \A f \in Files : s[f] \subseteq SourceIds
  OBVIOUS
<1> QED
  BY <1>1, <1>2, <1>3, <1>4, FS_Subset, FS_CardinalityType DEF Stores!Listed, Stores!Entries

LEMMA FewerCounts ==
    ASSUME NEW s \in SourceLists, NEW t, Fewer(t, s)
    PROVE  /\ Stores!Listed(t) \subseteq Stores!Listed(s)
           /\ Cardinality(Stores!Listed(t)) <= Cardinality(Stores!Listed(s))
           /\ Stores!Entries(t) \subseteq Stores!Entries(s)
           /\ Cardinality(Stores!Entries(t)) <= Cardinality(Stores!Entries(s))
           /\ \A f \in Files : Cardinality(t[f]) <= Cardinality(s[f])
<1>1. t \in SourceLists
  BY DEF Fewer
<1>2. Stores!Listed(t) \subseteq Stores!Listed(s)
  BY <1>1, SourcesFinite DEF Fewer
<1>3. Stores!Entries(t) \subseteq Stores!Entries(s)
  BY <1>1, SourcesFinite DEF Fewer
<1> QED
  BY <1>1, <1>2, <1>3, SourcesFinite, FS_Subset DEF Fewer

\* A file has another source than us when it has more than the cap allows.
LEMMA OthersAreThere ==
    ASSUME NEW S \in SUBSET SourceIds, NEW max \in Nat, max # 0, ~ (Cardinality(S) <= max)
    PROVE  S \ {Me} # {}
<1>1. SUFFICES ASSUME S \subseteq {Me} PROVE FALSE
  OBVIOUS
<1>2. IsFiniteSet({Me}) /\ Cardinality({Me}) = 1
  BY FS_Singleton
<1>3. Cardinality(S) <= 1 /\ Cardinality(S) \in Nat
  BY <1>1, <1>2, FS_Subset, FS_CardinalityType
<1> QED
  BY <1>3

\* What each cap leaves: only fewer sources, and us wherever anyone is when it
\* takes us somewhere.
AllOurs(s) == \A f \in Files : s[f] # {} => Me \in s[f]

KeepsUs(s, t) ==
    /\ AllOurs(s) => AllOurs(t)
    /\ (\E f \in Files : Me \in s[f] /\ Me \notin t[f]) => AllOurs(t)

LEMMA FilesCapLeaves ==
    ASSUME NEW s \in SourceLists, NEW t \in Stores!FilesCap(s)
    PROVE  /\ Fewer(t, s) /\ KeepsUs(s, t)
           /\ MaxFiles > 0 /\ Cardinality(Stores!Listed(s)) <= MaxFiles + 1 =>
                 Cardinality(Stores!Listed(t)) <= MaxFiles
<1> USE StoresCardinality, StoresConstants DEF SourceLists
<1>1. CASE MaxFiles = 0
  <2>1. t = [f \in Files |-> IF Me \in s[f] THEN s[f] ELSE {}]
    BY <1>1 DEF Stores!FilesCap
  <2> QED
    BY <1>1, <2>1 DEF Fewer, KeepsUs, AllOurs
<1>2. CASE MaxFiles # 0 /\ Cardinality(Stores!Listed(s)) <= MaxFiles
  <2>1. t = s
    BY <1>2 DEF Stores!FilesCap
  <2> QED
    BY <1>2, <2>1 DEF Fewer, KeepsUs, AllOurs
<1>3. CASE MaxFiles # 0 /\ ~ (Cardinality(Stores!Listed(s)) <= MaxFiles)
  <2>1. PICK f \in Stores!FileVictims(s) : t = [s EXCEPT ![f] = {}]
    BY <1>3 DEF Stores!FilesCap
  <2> DEFINE foreign == {g \in Stores!Listed(s) : Me \notin s[g]}
  <2>2. /\ f \in Stores!Listed(s)
        /\ foreign # {} => Me \notin s[f]
    BY <2>1 DEF Stores!FileVictims
  <2>3. /\ f \in Files /\ t \in SourceLists /\ t[f] = {}
        /\ \A g \in Files \ {f} : t[g] = s[g]
    BY <2>1, <2>2, SourcesFinite
  <2>4. Fewer(t, s)
    BY <2>3 DEF Fewer
  <2>5. KeepsUs(s, t)
    <3>1. CASE foreign # {}
      BY <2>2, <2>3, <3>1 DEF KeepsUs, AllOurs
    <3>2. CASE foreign = {}
      <4>1. AllOurs(s)
        BY <3>2, SourcesFinite DEF AllOurs
      <4> QED
        BY <2>3, <4>1 DEF KeepsUs, AllOurs
    <3> QED
      BY <3>1, <3>2
  <2>6. Cardinality(Stores!Listed(t)) = Cardinality(Stores!Listed(s)) - 1
    <3>1. Stores!Listed(t) = Stores!Listed(s) \ {f}
      BY <2>3, SourcesFinite
    <3> QED
      BY <2>2, <3>1, SourcesFinite, OneLess
  <2>7. Cardinality(Stores!Listed(s)) \in Nat
    BY SourcesFinite
  <2> QED
    BY <2>4, <2>5, <2>6, <2>7
<1> QED
  BY <1>1, <1>2, <1>3

LEMMA PerFileCapLeaves ==
    ASSUME NEW s \in SourceLists, NEW f \in Files, NEW t \in Stores!PerFileCap(s, f)
    PROVE  /\ Fewer(t, s) /\ KeepsUs(s, t)
           /\ MaxPerFile > 0 /\ Cardinality(s[f]) <= MaxPerFile + 1 =>
                 Cardinality(t[f]) <= MaxPerFile
<1> USE StoresCardinality, StoresConstants DEF SourceLists
<1>1. CASE MaxPerFile = 0
  <2>1. t = [g \in Files |-> s[g] \cap {Me}]
    BY <1>1 DEF Stores!PerFileCap, Stores!OnlyMe
  <2> QED
    BY <1>1, <2>1 DEF Fewer, KeepsUs, AllOurs
<1>2. CASE MaxPerFile # 0 /\ Cardinality(s[f]) <= MaxPerFile
  <2>1. t = s
    BY <1>2 DEF Stores!PerFileCap
  <2> QED
    BY <1>2, <2>1 DEF Fewer, KeepsUs, AllOurs
<1>3. CASE MaxPerFile # 0 /\ ~ (Cardinality(s[f]) <= MaxPerFile)
  <2>1. PICK n \in Stores!SourceVictims(s[f]) : t = [s EXCEPT ![f] = @ \ {n}]
    BY <1>3 DEF Stores!PerFileCap
  <2>2. n \in s[f] /\ n # Me
    BY <1>3, <2>1, OthersAreThere DEF Stores!SourceVictims
  <2>3. /\ t \in SourceLists /\ t[f] = s[f] \ {n}
        /\ \A g \in Files \ {f} : t[g] = s[g]
    BY <2>1
  <2>4. Fewer(t, s) /\ KeepsUs(s, t)
    BY <2>2, <2>3 DEF Fewer, KeepsUs, AllOurs
  <2>5. Cardinality(t[f]) = Cardinality(s[f]) - 1 /\ Cardinality(s[f]) \in Nat
    BY <2>2, <2>3, SourcesFinite, OneLess
  <2> QED
    BY <2>4, <2>5
<1> QED
  BY <1>1, <1>2, <1>3

LEMMA SourcesCapLeaves ==
    ASSUME NEW s \in SourceLists, NEW t \in Stores!SourcesCap(s)
    PROVE  /\ Fewer(t, s) /\ KeepsUs(s, t)
           /\ MaxSources > 0 /\ Cardinality(Stores!Entries(s)) <= MaxSources + 1 =>
                 Cardinality(Stores!Entries(t)) <= MaxSources
<1> USE StoresCardinality, StoresConstants DEF SourceLists
<1>1. CASE MaxSources = 0
  <2>1. t = [g \in Files |-> s[g] \cap {Me}]
    BY <1>1 DEF Stores!SourcesCap, Stores!OnlyMe
  <2> QED
    BY <1>1, <2>1 DEF Fewer, KeepsUs, AllOurs
<1>2. CASE MaxSources # 0 /\ Cardinality(Stores!Entries(s)) <= MaxSources
  <2>1. t = s
    BY <1>2 DEF Stores!SourcesCap
  <2> QED
    BY <1>2, <2>1 DEF Fewer, KeepsUs, AllOurs
<1>3. CASE MaxSources # 0 /\ ~ (Cardinality(Stores!Entries(s)) <= MaxSources)
  <2>1. PICK f \in Stores!LargestFiles(s) :
           t \in {[s EXCEPT ![f] = @ \ {n}] : n \in Stores!SourceVictims(s[f])}
    BY <1>3 DEF Stores!SourcesCap
  <2>2. PICK n \in Stores!SourceVictims(s[f]) : t = [s EXCEPT ![f] = @ \ {n}]
    BY <2>1
  <2> DEFINE mixed == {g \in Files : s[g] \ {Me} # {}}
  <2>3. f \in Files /\ (mixed # {} => s[f] \ {Me} # {})
    BY <2>1 DEF Stores!LargestFiles, Stores!Listed
  <2>4. n \in s[f] /\ (mixed # {} => n # Me)
    BY <2>2, <2>3 DEF Stores!SourceVictims
  <2>5. /\ t \in SourceLists /\ t[f] = s[f] \ {n}
        /\ \A g \in Files \ {f} : t[g] = s[g]
    BY <2>2, <2>3
  <2>6. Fewer(t, s)
    BY <2>3, <2>5 DEF Fewer
  <2>7. KeepsUs(s, t)
    <3>1. CASE mixed # {}
      BY <2>3, <2>4, <2>5, <3>1 DEF KeepsUs, AllOurs
    <3>2. CASE mixed = {}
      <4>1. \A g \in Files : s[g] \subseteq {Me}
        BY <3>2
      <4>2. \A g \in Files : t[g] \subseteq {Me}
        BY <2>6, <4>1 DEF Fewer
      <4>3. AllOurs(t)
        BY <4>2 DEF AllOurs
      <4> QED
        BY <4>3 DEF KeepsUs
    <3> QED
      BY <3>1, <3>2
  <2>8. Cardinality(Stores!Entries(t)) = Cardinality(Stores!Entries(s)) - 1
    <3>1. <<f, n>> \in Stores!Entries(s)
      BY <2>3, <2>4, SourcesFinite
    <3>2. ASSUME NEW x PROVE x \in Stores!Entries(t) <=> x \in Stores!Entries(s) \ {<<f, n>>}
      <4>1. x \in Stores!Entries(t) <=> \E g \in Files : \E m \in t[g] : x = <<g, m>>
        BY <2>5, SourcesFinite
      <4>2. x \in Stores!Entries(s) <=> \E g \in Files : \E m \in s[g] : x = <<g, m>>
        BY SourcesFinite
      <4>3. \A g \in Files : \A m : m \in t[g] <=> (m \in s[g] /\ ~ (g = f /\ m = n))
        BY <2>5
      <4> QED
        BY <4>1, <4>2, <4>3
    <3>3. Stores!Entries(t) = Stores!Entries(s) \ {<<f, n>>}
      BY <3>2
    <3> QED
      BY <3>1, <3>3, SourcesFinite, OneLess
  <2>9. Cardinality(Stores!Entries(s)) \in Nat
    BY SourcesFinite
  <2> QED
    BY <2>6, <2>7, <2>8, <2>9
<1> QED
  BY <1>1, <1>2, <1>3

\* What a step may do to the places where we are.
OursOutlive ==
    \A f \in Files : Me \in sources[f] /\ Me \notin sources'[f] =>
        \A g \in Stores!Listed(sources') : Me \in sources'[g]

\* A source more, and the three caps one after the other.
LEMMA StoreSourceStep ==
    ASSUME StoresInv, NEW f \in Files, NEW n \in SourceIds, Stores!StoreSource(f, n)
    PROVE  StoresInv' /\ OursOutlive
<1> USE StoresCardinality, StoresConstants
<1> DEFINE s == Stores!WithSource(f, n)
<1>1. /\ sources \in SourceLists /\ UNCHANGED <<store, store_total>>
  BY DEF StoresInv, SourceLists, Stores!StoreSource
<1>2. /\ s \in SourceLists /\ s[f] = sources[f] \cup {n}
      /\ \A g \in Files \ {f} : s[g] = sources[g]
  BY <1>1 DEF SourceLists, Stores!WithSource
<1>3. PICK u \in UNION {Stores!PerFileCap(t, f) : t \in Stores!FilesCap(s)} :
        sources' \in Stores!SourcesCap(u)
  BY DEF Stores!StoreSource, Stores!SourceLimits
<1>4. PICK t \in Stores!FilesCap(s) : u \in Stores!PerFileCap(t, f)
  BY <1>3
<1> HIDE DEF s
<1> DEFINE v == sources'
<1>5. Fewer(t, s) /\ KeepsUs(s, t) /\ t \in SourceLists
  BY <1>2, <1>4, FilesCapLeaves DEF Fewer
<1>6. Fewer(u, t) /\ KeepsUs(t, u) /\ u \in SourceLists
  BY <1>4, <1>5, PerFileCapLeaves DEF Fewer
<1>7. Fewer(v, u) /\ KeepsUs(u, v) /\ v \in SourceLists
  BY <1>3, <1>6, SourcesCapLeaves DEF Fewer
<1>8. MaxFiles > 0 => Cardinality(Stores!Listed(v)) <= MaxFiles
  <2> SUFFICES ASSUME MaxFiles > 0 PROVE Cardinality(Stores!Listed(v)) <= MaxFiles
    OBVIOUS
  <2>1. Cardinality(Stores!Listed(sources)) <= MaxFiles
    BY DEF StoresInv, StoresWithinCaps, Stores!StoresWithinCaps
  <2>2. Stores!Listed(s) \subseteq Stores!Listed(sources) \cup {f}
    BY <1>1, <1>2, SourcesFinite
  <2>3. Cardinality(Stores!Listed(s)) <= MaxFiles + 1
    <3>1. IsFiniteSet(Stores!Listed(sources)) /\ Cardinality(Stores!Listed(sources)) \in Nat
      BY <1>1, SourcesFinite
    <3>2. /\ IsFiniteSet(Stores!Listed(sources) \cup {f})
          /\ Cardinality(Stores!Listed(sources) \cup {f}) \in
                {Cardinality(Stores!Listed(sources)), Cardinality(Stores!Listed(sources)) + 1}
      BY <3>1, OneMore
    <3>3. Cardinality(Stores!Listed(s)) <= Cardinality(Stores!Listed(sources) \cup {f})
      BY <2>2, <3>2, FS_Subset
    <3>4. Cardinality(Stores!Listed(s)) \in Nat
      BY <1>2, SourcesFinite
    <3> QED
      BY <2>1, <3>1, <3>2, <3>3, <3>4
  <2>4. Cardinality(Stores!Listed(t)) <= MaxFiles
    BY <1>2, <1>4, <2>3, FilesCapLeaves
  <2>5. /\ Cardinality(Stores!Listed(u)) <= Cardinality(Stores!Listed(t))
        /\ Cardinality(Stores!Listed(v)) <= Cardinality(Stores!Listed(u))
    BY <1>5, <1>6, <1>7, FewerCounts
  <2>6. /\ Cardinality(Stores!Listed(t)) \in Nat /\ Cardinality(Stores!Listed(u)) \in Nat
        /\ Cardinality(Stores!Listed(v)) \in Nat
    BY <1>5, <1>6, <1>7, SourcesFinite
  <2> QED
    BY <2>4, <2>5, <2>6
<1>9. MaxPerFile > 0 => \A g \in Files : Cardinality(v[g]) <= MaxPerFile
  <2> SUFFICES ASSUME MaxPerFile > 0, NEW g \in Files PROVE Cardinality(v[g]) <= MaxPerFile
    OBVIOUS
  <2>1. \A h \in Files : Cardinality(sources[h]) <= MaxPerFile
    BY DEF StoresInv, StoresWithinCaps, Stores!StoresWithinCaps
  <2>2. /\ Cardinality(v[g]) <= Cardinality(u[g]) /\ Cardinality(u[g]) <= Cardinality(t[g])
        /\ Cardinality(t[g]) <= Cardinality(s[g])
    BY <1>2, <1>5, <1>6, <1>7, FewerCounts
  <2>3. /\ Cardinality(v[g]) \in Nat /\ Cardinality(u[g]) \in Nat /\ Cardinality(t[g]) \in Nat
        /\ Cardinality(s[g]) \in Nat /\ Cardinality(sources[g]) \in Nat
    BY <1>1, <1>2, <1>5, <1>6, <1>7, SourcesFinite
  <2>4. CASE g # f
    <3>1. Cardinality(s[g]) <= MaxPerFile
      BY <1>2, <2>1, <2>4
    <3> QED
      BY <2>2, <2>3, <3>1
  <2>5. CASE g = f
    <3>1. Cardinality(s[g]) <= MaxPerFile + 1
      <4>1. IsFiniteSet(sources[g])
        BY <1>1, SourcesFinite
      <4>2. Cardinality(s[g]) \in {Cardinality(sources[g]), Cardinality(sources[g]) + 1}
        BY <1>2, <2>5, <4>1, OneMore
      <4> QED
        BY <2>1, <2>3, <4>2
    <3>2. Cardinality(t[f]) <= MaxPerFile + 1
      BY <2>2, <2>3, <2>5, <3>1
    <3>3. Cardinality(u[f]) <= MaxPerFile
      BY <1>4, <1>5, <3>2, PerFileCapLeaves
    <3> QED
      BY <2>2, <2>3, <2>5, <3>3
  <2> QED
    BY <2>4, <2>5
<1>10. MaxSources > 0 => Cardinality(Stores!Entries(v)) <= MaxSources
  <2> SUFFICES ASSUME MaxSources > 0 PROVE Cardinality(Stores!Entries(v)) <= MaxSources
    OBVIOUS
  <2>1. Cardinality(Stores!Entries(sources)) <= MaxSources
    BY DEF StoresInv, StoresWithinCaps, Stores!StoresWithinCaps
  <2>2. Stores!Entries(s) \subseteq Stores!Entries(sources) \cup {<<f, n>>}
    <3> SUFFICES ASSUME NEW x \in Stores!Entries(s)
                 PROVE  x \in Stores!Entries(sources) \cup {<<f, n>>}
      OBVIOUS
    <3>1. PICK g \in Files : \E m \in s[g] : x = <<g, m>>
      BY <1>2, SourcesFinite
    <3>a. PICK m \in s[g] : x = <<g, m>>
      BY <3>1
    <3>2. m \in sources[g] \/ (g = f /\ m = n)
      BY <1>2
    <3>3. m \in sources[g] => x \in Stores!Entries(sources)
      BY <1>1, <3>a, SourcesFinite
    <3> QED
      BY <3>a, <3>2, <3>3
  <2>3. Cardinality(Stores!Entries(s)) <= MaxSources + 1
    <3>1. IsFiniteSet(Stores!Entries(sources)) /\ Cardinality(Stores!Entries(sources)) \in Nat
      BY <1>1, SourcesFinite
    <3>2. /\ IsFiniteSet(Stores!Entries(sources) \cup {<<f, n>>})
          /\ Cardinality(Stores!Entries(sources) \cup {<<f, n>>}) \in
                {Cardinality(Stores!Entries(sources)), Cardinality(Stores!Entries(sources)) + 1}
      BY <3>1, OneMore
    <3>3. Cardinality(Stores!Entries(s)) <= Cardinality(Stores!Entries(sources) \cup {<<f, n>>})
      BY <2>2, <3>2, FS_Subset
    <3>4. Cardinality(Stores!Entries(s)) \in Nat
      BY <1>2, SourcesFinite
    <3> QED
      BY <2>1, <3>1, <3>2, <3>3, <3>4
  <2>4. /\ Cardinality(Stores!Entries(u)) <= Cardinality(Stores!Entries(t))
        /\ Cardinality(Stores!Entries(t)) <= Cardinality(Stores!Entries(s))
    BY <1>2, <1>5, <1>6, FewerCounts
  <2>5. /\ Cardinality(Stores!Entries(s)) \in Nat /\ Cardinality(Stores!Entries(t)) \in Nat
        /\ Cardinality(Stores!Entries(u)) \in Nat
    BY <1>2, <1>5, <1>6, SourcesFinite
  <2>6. Cardinality(Stores!Entries(u)) <= MaxSources + 1
    BY <2>3, <2>4, <2>5
  <2> QED
    BY <1>3, <1>6, <2>6, SourcesCapLeaves
<1>11. StoresInv'
  BY <1>1, <1>7, <1>8, <1>9, <1>10
     DEF StoresInv, SourceLists, StoresWithinCaps, Stores!StoresWithinCaps
<1>12. OursOutlive
  <2> SUFFICES ASSUME NEW g \in Files, Me \in sources[g], Me \notin v[g] PROVE AllOurs(v)
    BY <1>7, SourcesFinite DEF OursOutlive, AllOurs
  <2>1. Me \in s[g]
    BY <1>2
  <2> HIDE DEF v
  <2>2. CASE Me \notin t[g]
    BY <1>5, <1>6, <1>7, <2>1, <2>2 DEF KeepsUs
  <2>3. CASE Me \in t[g] /\ Me \notin u[g]
    BY <1>6, <1>7, <2>3 DEF KeepsUs
  <2>4. CASE Me \in u[g]
    BY <1>7, <2>4 DEF KeepsUs
  <2> QED
    BY <2>2, <2>3, <2>4
<1> QED
  BY <1>11, <1>12

LEMMA StoresInit == Init => StoresInv
<1> SUFFICES ASSUME Init PROVE StoresInv
  OBVIOUS
<1> USE StoresCardinality, StoresConstants
<1>1. /\ store = [k \in Keywords |-> Stores!Nothing] /\ store_total = 0
      /\ sources = [f \in Files |-> {}]
  BY DEF Init, Stores!Init
<1>2. Stores!Nothing \in Shelves /\ DOMAIN Stores!Nothing = {}
  BY NothingIs
<1>3. store \in [Keywords -> Shelves] /\ sources \in SourceLists
  BY <1>1, <1>2 DEF SourceLists
<1>4. Stores!Stored(store) = {} /\ Shelved(store, Keywords) = {}
  BY <1>1, <1>2 DEF Stores!Stored, Shelved
<1>5. Stores!Size(store, Keywords) = 0
  BY <1>3, <1>4, SizeIs, FS_EmptySet
<1>6. Stores!Listed(sources) = {} /\ Stores!Entries(sources) = {}
  BY <1>1 DEF Stores!Listed, Stores!Entries
<1>7. Stores!Cardinality({}) = 0
  BY FS_EmptySet
<1>8. \A f \in Files : sources[f] = {}
  BY <1>1
<1>9. StoresWithinCaps
  <2>1. /\ store_total = Stores!Size(store, Keywords) /\ store_total <= StoreMaxTotal
        /\ Stores!Cardinality(Stores!Stored(store)) <= StoreMaxKeywords
    BY <1>1, <1>4, <1>5, <1>7
  <2>2. MaxFiles > 0 => Stores!Cardinality(Stores!Listed(sources)) <= MaxFiles
    BY <1>6, <1>7
  <2>3. MaxPerFile > 0 => \A f \in Files : Stores!Cardinality(sources[f]) <= MaxPerFile
    BY <1>7, <1>8
  <2>4. MaxSources > 0 => Stores!Cardinality(Stores!Entries(sources)) <= MaxSources
    BY <1>6, <1>7
  <2> QED
    BY <2>1, <2>2, <2>3, <2>4 DEF StoresWithinCaps, Stores!StoresWithinCaps
<1> QED
  BY <1>3, <1>9
     DEF StoresInv, SourceLists, StoresWithinCaps, Stores!StoresWithinCaps

LEMMA StoresStep == StoresInv /\ Stores!Next => StoresInv' /\ OursOutlive
<1> SUFFICES ASSUME StoresInv, Stores!Next PROVE StoresInv' /\ OursOutlive
  OBVIOUS
<1>1. UNCHANGED sources => OursOutlive
  BY DEF OursOutlive
<1>2. ASSUME NEW f \in Files, NEW n \in SourceIds,
             Stores!PublishSourceReq(f, n) \/ Stores!SourceResult(f, n)
      PROVE  StoresInv' /\ OursOutlive
  BY <1>2, StoreSourceStep DEF Stores!PublishSourceReq, Stores!SourceResult
<1>3. ASSUME NEW f \in Files, Stores!PublishSource(f) PROVE StoresInv' /\ OursOutlive
  BY <1>3, StoresConstants, StoreSourceStep DEF Stores!PublishSource
<1> QED
  BY <1>1, <1>2, <1>3, KeywordStoreStep DEF Stores!Next

LEMMA StoresAlways ==
    /\ StoresInv /\ [Next]_vars => StoresInv'
    /\ StoresInv /\ [Next]_vars => [OursOutlive]_Stores!storeVars
<1>1. StoresInv /\ UNCHANGED stores => StoresInv' /\ UNCHANGED Stores!storeVars
  BY DEF StoresInv, StoresWithinCaps, Stores!StoresWithinCaps, stores, Stores!storeVars
<1>2. [Next]_vars => Stores!Next \/ UNCHANGED stores
  BY DEF Next, vars
<1> QED
  BY <1>1, <1>2, StoresStep

\* The keyword store's total is exact and its two caps hold, although they are looked
\* at only where a file is new, and the three caps of the source store hold together.
THEOREM StoresKeepTheirCaps == Spec => []StoresWithinCaps
<1>1. StoresInv => StoresWithinCaps
  BY DEF StoresInv
<1> QED
  BY <1>1, StoresInit, StoresAlways, PTL DEF Spec

\* We stop being listed for a file only when whoever stays listed shares it with us.
THEOREM WeOutliveOthers == Spec => LocalSourceOutlives
BY StoresInit, StoresAlways, PTL
   DEF Spec, LocalSourceOutlives, Stores!LocalSourceOutlives, OursOutlive

-----------------------------------------------------------------------------
(* The keyword cache *)

Interests == UNION {[S -> Nat] : S \in SUBSET Keywords}

CacheRecords == [hits : [Keywords -> Shelves], interest : Interests, total : Nat]

\* The total is exact, and with interest required every hit is found by the walk
\* over the interests.
Good(c) ==
    /\ c \in CacheRecords
    /\ c.total = Cardinality(Shelved(c.hits, Keywords))
    /\ RequireInterest => \A k \in Keywords : DOMAIN c.hits[k] # {} => k \in DOMAIN c.interest

InterestCapped(c) == Cardinality(DOMAIN c.interest) <= MaxKeywords

KeywordCapped(c, K) ==
    MaxPerKeyword > 0 => \A k \in K : Cardinality(DOMAIN c.hits[k]) <= MaxPerKeyword

TotalCapped(c) == RequireInterest /\ MaxTotal > 0 => c.total <= MaxTotal

\* d is what c has, or less.
Lesser(d, c) ==
    /\ \A k \in Keywords : DOMAIN d.hits[k] \subseteq DOMAIN c.hits[k]
    /\ DOMAIN d.interest \subseteq DOMAIN c.interest
    /\ d.total <= c.total

CacheInv ==
    /\ Good(Cache!cache) /\ InterestCapped(Cache!cache)
    /\ KeywordCapped(Cache!cache, Keywords) /\ TotalCapped(Cache!cache)

LEMMA CacheConstants ==
    /\ IsFiniteSet(Keywords) /\ IsFiniteSet(Files) /\ RequireInterest \in BOOLEAN
    /\ MaxKeywords \in Nat /\ MaxPerKeyword \in Nat /\ MaxTotal \in Nat
    /\ InterestTTL \in Nat /\ ResultsTTL \in Nat
<1>1. Cache!CacheAssumption
  BY InstancesAssumption
<1>2. \A S : Cache!IsFiniteSet(S) <=> IsFiniteSet(S)
  BY DEF Cache!IsFiniteSet, IsFiniteSet
<1> QED
  BY <1>1, <1>2 DEF Cache!CacheAssumption

LEMMA CacheCardinality == \A S : Cache!Cardinality(S) = Cardinality(S)
BY DEF Cache!Cardinality, Cardinality, Cache!IsFiniteSet, IsFiniteSet

LEMMA PairsIs == \A h, K : Cache!Pairs(h, K) = Shelved(h, K)
BY DEF Cache!Pairs, Shelved

LEMMA DomainsFinite ==
    ASSUME NEW c \in CacheRecords
    PROVE  /\ DOMAIN c.interest \subseteq Keywords /\ IsFiniteSet(DOMAIN c.interest)
           /\ \A S \in SUBSET DOMAIN c.interest : IsFiniteSet(S) /\ Cardinality(S) \in Nat
           /\ \A k \in Keywords : /\ DOMAIN c.hits[k] \subseteq Files
                                  /\ IsFiniteSet(DOMAIN c.hits[k])
                                  /\ Cardinality(DOMAIN c.hits[k]) \in Nat
           /\ c.hits \in [Keywords -> Shelves]
<1>1. DOMAIN c.interest \subseteq Keywords /\ \A k \in Keywords : DOMAIN c.hits[k] \subseteq Files
  BY DEF CacheRecords, Interests, Shelves
<1>2. \A S : S \subseteq Keywords => IsFiniteSet(S) /\ Cardinality(S) \in Nat
  BY CacheConstants, FS_Subset, FS_CardinalityType
<1>3. \A S : S \subseteq Files => IsFiniteSet(S) /\ Cardinality(S) \in Nat
  BY CacheConstants, FS_Subset, FS_CardinalityType
<1> QED
  BY <1>1, <1>2, <1>3 DEF CacheRecords

LEMMA LesserCaps ==
    ASSUME NEW c \in CacheRecords, NEW d \in CacheRecords, Lesser(d, c)
    PROVE  /\ InterestCapped(c) => InterestCapped(d)
           /\ \A K \in SUBSET Keywords : KeywordCapped(c, K) => KeywordCapped(d, K)
           /\ TotalCapped(c) => TotalCapped(d)
<1> USE CacheConstants
<1>1. Cardinality(DOMAIN d.interest) <= Cardinality(DOMAIN c.interest)
  BY DomainsFinite, FS_Subset DEF Lesser
<1>2. \A k \in Keywords : Cardinality(DOMAIN d.hits[k]) <= Cardinality(DOMAIN c.hits[k])
  BY DomainsFinite, FS_Subset DEF Lesser
<1>3. InterestCapped(c) => InterestCapped(d)
  BY <1>1, DomainsFinite DEF InterestCapped
<1>4. \A K \in SUBSET Keywords : KeywordCapped(c, K) => KeywordCapped(d, K)
  BY <1>2, DomainsFinite DEF KeywordCapped
<1>5. c.total \in Nat /\ d.total \in Nat /\ d.total <= c.total
  BY DEF CacheRecords, Lesser
<1>6. TotalCapped(c) => TotalCapped(d)
  BY <1>5 DEF TotalCapped
<1> QED
  BY <1>3, <1>4, <1>6

LEMMA LesserTwice ==
    ASSUME NEW c \in CacheRecords, NEW d \in CacheRecords, NEW e \in CacheRecords,
           Lesser(d, c), Lesser(e, d)
    PROVE  Lesser(e, c)
<1>1. c.total \in Nat /\ d.total \in Nat /\ e.total \in Nat
  BY DEF CacheRecords
<1> QED
  BY <1>1 DEF Lesser

LEMMA LesserSame == \A c \in CacheRecords : Lesser(c, c)
BY DEF Lesser, CacheRecords

LEMMA EmptyIs == Cache!Empty \in Shelves /\ DOMAIN Cache!Empty = {}
<1>1. Cache!Empty \in [{} -> Nat] /\ {} \in SUBSET Files
  BY DEF Cache!Empty
<1> QED
  BY <1>1 DEF Shelves

\* What an eviction takes from the total is what it takes from the hits.
LEMMA DropGood ==
    ASSUME NEW c, Good(c), NEW K \in SUBSET Keywords
    PROVE  /\ Good(Cache!Drop(c, K)) /\ Lesser(Cache!Drop(c, K), c)
           /\ DOMAIN Cache!Drop(c, K).interest = DOMAIN c.interest \ K
           /\ Cache!Drop(c, K).total = c.total - Cardinality(Shelved(c.hits, K))
           /\ \A k \in K : DOMAIN Cache!Drop(c, K).hits[k] = {}
           /\ \A k \in Keywords \ K : Cache!Drop(c, K).hits[k] = c.hits[k]
<1> DEFINE h == [k \in Keywords |-> IF k \in K THEN Cache!Empty ELSE c.hits[k]]
           i == Cache!Only(c.interest, DOMAIN c.interest \ K)
           t == c.total - Cardinality(Shelved(c.hits, K))
           d == Cache!Drop(c, K)
<1>1. d = [hits |-> h, interest |-> i, total |-> t]
  BY CacheCardinality, PairsIs DEF Cache!Drop
<1>2. c.hits \in [Keywords -> Shelves] /\ c.interest \in Interests /\ c.total \in Nat
  BY DEF Good, CacheRecords
<1>3. /\ h \in [Keywords -> Shelves] /\ \A k \in K : DOMAIN h[k] = {}
      /\ \A k \in Keywords \ K : h[k] = c.hits[k]
  BY <1>2, EmptyIs
<1>4. i \in Interests /\ DOMAIN i = DOMAIN c.interest \ K
  <2>1. PICK S \in SUBSET Keywords : c.interest \in [S -> Nat]
    BY <1>2 DEF Interests
  <2>2. i \in [S \ K -> Nat] /\ DOMAIN i = DOMAIN c.interest \ K
    BY <2>1 DEF Cache!Only
  <2> QED
    BY <2>2 DEF Interests
<1> HIDE DEF h, i
<1>5. Shelved(h, Keywords) = Shelved(c.hits, Keywords) \ Shelved(c.hits, K)
  <2>1. \A x : x \in Shelved(h, Keywords) <=> \E k \in Keywords : \E f \in DOMAIN h[k] : x = <<k, f>>
    BY <1>3, SizeIs
  <2>2. \A x : x \in Shelved(c.hits, Keywords) <=>
                  \E k \in Keywords : \E f \in DOMAIN c.hits[k] : x = <<k, f>>
    BY <1>2, SizeIs
  <2>3. \A x : x \in Shelved(c.hits, K) <=> \E k \in K : \E f \in DOMAIN c.hits[k] : x = <<k, f>>
    BY <1>2, SizeIs
  <2>4. \A x : x \in Shelved(h, Keywords) <=>
                  (x \in Shelved(c.hits, Keywords) /\ x \notin Shelved(c.hits, K))
    BY <1>3, <2>1, <2>2, <2>3
  <2> QED
    BY <2>4
<1>6. /\ IsFiniteSet(Shelved(c.hits, Keywords)) /\ Shelved(c.hits, K) \subseteq Shelved(c.hits, Keywords)
      /\ IsFiniteSet(Shelved(c.hits, K))
  <2>1. IsFiniteSet(Shelved(c.hits, Keywords)) /\ IsFiniteSet(Shelved(c.hits, K))
    BY <1>2, SizeIs
  <2>2. \A x : x \in Shelved(c.hits, K) => x \in Shelved(c.hits, Keywords)
    <3>1. \A x : x \in Shelved(c.hits, Keywords) <=>
                    \E k \in Keywords : \E f \in DOMAIN c.hits[k] : x = <<k, f>>
      BY <1>2, SizeIs
    <3>2. \A x : x \in Shelved(c.hits, K) <=> \E k \in K : \E f \in DOMAIN c.hits[k] : x = <<k, f>>
      BY <1>2, SizeIs
    <3> QED
      BY <3>1, <3>2
  <2> QED
    BY <2>1, <2>2
<1>7. Cardinality(Shelved(h, Keywords)) =
         Cardinality(Shelved(c.hits, Keywords)) - Cardinality(Shelved(c.hits, K))
  <2>1. Shelved(c.hits, Keywords) \cap Shelved(c.hits, K) = Shelved(c.hits, K)
    BY <1>6
  <2>2. Cardinality(Shelved(c.hits, Keywords) \ Shelved(c.hits, K)) =
          Cardinality(Shelved(c.hits, Keywords))
          - Cardinality(Shelved(c.hits, Keywords) \cap Shelved(c.hits, K))
    BY <1>6, FS_Difference
  <2> QED
    BY <1>5, <2>1, <2>2
<1>8. t = Cardinality(Shelved(h, Keywords)) /\ t \in Nat /\ t <= c.total
  <2>1. /\ Cardinality(Shelved(h, Keywords)) \in Nat /\ Cardinality(Shelved(c.hits, K)) \in Nat
    BY <1>3, <1>6, SizeIs, FS_CardinalityType
  <2>2. c.total = Cardinality(Shelved(c.hits, Keywords))
    BY DEF Good
  <2> QED
    BY <1>2, <1>7, <2>1, <2>2
<1> HIDE DEF t
<1>9. Good(d)
  <2>1. d \in CacheRecords
    BY <1>1, <1>3, <1>4, <1>8 DEF CacheRecords
  <2>2. RequireInterest => \A k \in Keywords : DOMAIN d.hits[k] # {} => k \in DOMAIN d.interest
    BY <1>1, <1>3, <1>4 DEF Good
  <2> QED
    BY <1>1, <1>8, <2>1, <2>2 DEF Good
<1>10. Lesser(d, c)
  BY <1>1, <1>3, <1>4, <1>8 DEF Lesser
<1> QED
  BY <1>1, <1>3, <1>4, <1>9, <1>10 DEF t

LEMMA RemoveGood ==
    ASSUME NEW c, Good(c), NEW F, \A k \in Keywords : F[k] \subseteq DOMAIN c.hits[k]
    PROVE  /\ Good(Cache!Remove(c, F)) /\ Lesser(Cache!Remove(c, F), c)
           /\ \A k \in Keywords : DOMAIN Cache!Remove(c, F).hits[k] = DOMAIN c.hits[k] \ F[k]
           /\ Cache!Remove(c, F).interest = c.interest
<1> DEFINE h == [k \in Keywords |-> Cache!Only(c.hits[k], DOMAIN c.hits[k] \ F[k])]
           gone == UNION {{k} \X F[k] : k \in Keywords}
           t == c.total - Cardinality(gone)
           d == Cache!Remove(c, F)
<1>1. c.hits \in [Keywords -> Shelves] /\ c.interest \in Interests /\ c.total \in Nat
      /\ c \in CacheRecords
  BY DEF Good, CacheRecords
<1>2. d = [c EXCEPT !.hits = h, !.total = t]
  BY <1>1, CacheCardinality DEF Cache!Remove, CacheRecords
<1>3. h \in [Keywords -> Shelves] /\ \A k \in Keywords : DOMAIN h[k] = DOMAIN c.hits[k] \ F[k]
  <2>1. ASSUME NEW k \in Keywords PROVE h[k] \in Shelves /\ DOMAIN h[k] = DOMAIN c.hits[k] \ F[k]
    <3>1. PICK S \in SUBSET Files : c.hits[k] \in [S -> Nat]
      BY <1>1 DEF Shelves
    <3>2. h[k] \in [S \ F[k] -> Nat] /\ DOMAIN h[k] = DOMAIN c.hits[k] \ F[k]
      BY <3>1 DEF Cache!Only
    <3> QED
      BY <3>2 DEF Shelves
  <2> QED
    BY <2>1
<1> HIDE DEF h
<1>4. \A x : x \in gone <=> \E k \in Keywords : \E f \in F[k] : x = <<k, f>>
  OBVIOUS
<1> HIDE DEF gone
<1>5. gone \subseteq Shelved(c.hits, Keywords) /\ Shelved(h, Keywords) = Shelved(c.hits, Keywords) \ gone
  <2>1. \A x : x \in Shelved(h, Keywords) <=> \E k \in Keywords : \E f \in DOMAIN h[k] : x = <<k, f>>
    BY <1>3, SizeIs
  <2>2. \A x : x \in Shelved(c.hits, Keywords) <=>
                  \E k \in Keywords : \E f \in DOMAIN c.hits[k] : x = <<k, f>>
    BY <1>1, SizeIs
  <2>3. \A x : x \in gone => x \in Shelved(c.hits, Keywords)
    BY <1>4, <2>2
  <2>4. \A x : x \in Shelved(h, Keywords) <=> (x \in Shelved(c.hits, Keywords) /\ x \notin gone)
    BY <1>3, <1>4, <2>1, <2>2
  <2> QED
    BY <2>3, <2>4
<1>6. t = Cardinality(Shelved(h, Keywords)) /\ t \in Nat /\ t <= c.total
  <2>1. IsFiniteSet(Shelved(c.hits, Keywords))
    BY <1>1, SizeIs
  <2>2. IsFiniteSet(gone) /\ Cardinality(gone) \in Nat
    BY <1>5, <2>1, FS_Subset, FS_CardinalityType
  <2>3. Shelved(c.hits, Keywords) \cap gone = gone
    BY <1>5
  <2>4. Cardinality(Shelved(h, Keywords)) = Cardinality(Shelved(c.hits, Keywords)) - Cardinality(gone)
    BY <1>5, <2>1, <2>3, FS_Difference
  <2>5. Cardinality(Shelved(h, Keywords)) \in Nat
    BY <1>3, SizeIs, FS_CardinalityType
  <2>6. c.total = Cardinality(Shelved(c.hits, Keywords))
    BY DEF Good
  <2> QED
    BY <1>1, <2>2, <2>4, <2>5, <2>6
<1> HIDE DEF t
<1>7. /\ d \in CacheRecords /\ d.hits = h /\ d.interest = c.interest /\ d.total = t
  BY <1>1, <1>2, <1>3, <1>6 DEF CacheRecords
<1> HIDE DEF d
<1>8. Good(d)
  BY <1>3, <1>6, <1>7 DEF Good
<1>9. Lesser(d, c)
  BY <1>3, <1>6, <1>7 DEF Lesser
<1> QED
  BY <1>3, <1>7, <1>8, <1>9 DEF d

LEMMA InterestLimitGood ==
    ASSUME NEW c, Good(c), NEW d \in Cache!InterestLimit(c)
    PROVE  Good(d) /\ Lesser(d, c) /\ InterestCapped(d)
<1> USE CacheConstants, CacheCardinality
<1>0. c \in CacheRecords /\ DOMAIN c.interest \subseteq Keywords
  BY DomainsFinite DEF Good
<1>1. CASE MaxKeywords = 0
  <2>1. d = Cache!Drop(c, Keywords)
    BY <1>1 DEF Cache!InterestLimit
  <2>2. DOMAIN d.interest = {}
    BY <1>0, <2>1, DropGood
  <2> QED
    BY <1>1, <2>1, <2>2, DropGood, FS_EmptySet DEF InterestCapped
<1>2. CASE MaxKeywords # 0
  <2>1. PICK K \in Cache!OldestUntil(c.interest, LAMBDA S : Cache!Cardinality(S) <= MaxKeywords) :
          d = Cache!Drop(c, K)
    BY <1>2 DEF Cache!InterestLimit
  <2>2. /\ K \subseteq DOMAIN c.interest
        /\ Cache!Cardinality(DOMAIN c.interest \ K) <= MaxKeywords \/ K = DOMAIN c.interest
    BY <2>1 DEF Cache!OldestUntil
  <2>3. K \in SUBSET Keywords
    BY <1>0, <2>2
  <2>4. DOMAIN d.interest = DOMAIN c.interest \ K
    BY <2>1, <2>3, DropGood
  <2>5. K = DOMAIN c.interest => DOMAIN d.interest = {}
    BY <2>4
  <2>6. Good(d) /\ Lesser(d, c)
    BY <2>1, <2>3, DropGood
  <2>7. Cardinality({}) = 0
    BY FS_EmptySet
  <2>8. Cardinality(DOMAIN d.interest) <= MaxKeywords
    BY <2>2, <2>4, <2>5, <2>7
  <2> QED
    BY <2>6, <2>8 DEF InterestCapped
<1> QED
  BY <1>1, <1>2

LEMMA PerKeywordCapGood ==
    ASSUME NEW c, Good(c), NEW K \in SUBSET Keywords, NEW d \in Cache!PerKeywordCap(c, K)
    PROVE  Good(d) /\ Lesser(d, c) /\ KeywordCapped(d, K)
<1> USE CacheConstants, CacheCardinality
<1> DEFINE surplus(k) ==
              IF MaxPerKeyword = 0 \/ k \notin K THEN {{}}
              ELSE Cache!OldestUntil(c.hits[k], LAMBDA S : Cache!Cardinality(S) <= MaxPerKeyword)
           choices == UNION {{k} \X surplus(k) : k \in Keywords}
<1>1. PICK F : /\ d = Cache!Remove(c, F)
               /\ \A k \in Keywords : <<k, F[k]>> \in choices
  <2>1. Cache!PerKeywordCap(c, K) =
           {Cache!Remove(c, F) : F \in {G \in [Keywords -> {x[2] : x \in choices}] :
                                          \A k \in Keywords : <<k, G[k]>> \in choices}}
    BY DEF Cache!PerKeywordCap
  <2> HIDE DEF choices
  <2> QED
    BY <2>1
<1> HIDE DEF surplus
<1>2. \A k \in Keywords : \A S : <<k, S>> \in choices => S \in surplus(k)
  OBVIOUS
<1> HIDE DEF choices
<1>3. \A k \in Keywords : F[k] \in surplus(k)
  BY <1>1, <1>2
<1>4. ASSUME NEW k \in Keywords
      PROVE  /\ F[k] \subseteq DOMAIN c.hits[k]
             /\ k \in K /\ MaxPerKeyword > 0 =>
                   \/ Cardinality(DOMAIN c.hits[k] \ F[k]) <= MaxPerKeyword
                   \/ F[k] = DOMAIN c.hits[k]
  <2>1. CASE MaxPerKeyword = 0 \/ k \notin K
    <3>1. surplus(k) = {{}}
      BY <2>1 DEF surplus
    <3>2. F[k] = {}
      BY <1>3, <3>1
    <3>3. ~ (k \in K /\ MaxPerKeyword > 0)
      BY <2>1
    <3> QED
      BY <3>2, <3>3
  <2>2. CASE ~ (MaxPerKeyword = 0 \/ k \notin K)
    <3>1. F[k] \in Cache!OldestUntil(c.hits[k], LAMBDA S : Cache!Cardinality(S) <= MaxPerKeyword)
      BY <1>3, <2>2 DEF surplus
    <3> QED
      BY <3>1 DEF Cache!OldestUntil
  <2> QED
    BY <2>1, <2>2
<1>5. /\ Good(d) /\ Lesser(d, c)
      /\ \A k \in Keywords : DOMAIN d.hits[k] = DOMAIN c.hits[k] \ F[k]
  <2>1. \A k \in Keywords : F[k] \subseteq DOMAIN c.hits[k]
    BY <1>4
  <2> QED
    BY <1>1, <2>1, RemoveGood
<1>6. ASSUME NEW k \in K, MaxPerKeyword > 0
      PROVE  Cardinality(DOMAIN d.hits[k]) <= MaxPerKeyword
  <2>1. k \in Keywords /\ DOMAIN d.hits[k] = DOMAIN c.hits[k] \ F[k]
    BY <1>5
  <2>2. \/ Cardinality(DOMAIN c.hits[k] \ F[k]) <= MaxPerKeyword
        \/ F[k] = DOMAIN c.hits[k]
    BY <1>4, <1>6, <2>1
  <2>3. F[k] = DOMAIN c.hits[k] => DOMAIN d.hits[k] = {}
    BY <2>1
  <2>4. Cardinality({}) = 0
    BY FS_EmptySet
  <2> QED
    BY <2>1, <2>2, <2>3, <2>4
<1> QED
  BY <1>5, <1>6 DEF KeywordCapped

LEMMA TotalCapGood ==
    ASSUME NEW c, Good(c), NEW d \in Cache!TotalCap(c)
    PROVE  Good(d) /\ Lesser(d, c) /\ TotalCapped(d)
<1> USE CacheConstants, CacheCardinality, PairsIs
<1>0. c \in CacheRecords /\ DOMAIN c.interest \subseteq Keywords
  BY DomainsFinite DEF Good
<1>1. CASE MaxTotal = 0 \/ c.total <= MaxTotal
  <2>1. d = c
    BY <1>1 DEF Cache!TotalCap
  <2> QED
    BY <1>0, <1>1, <2>1, LesserSame DEF TotalCapped
<1>2. CASE ~ (MaxTotal = 0 \/ c.total <= MaxTotal)
  <2>1. PICK K \in Cache!OldestUntil(c.interest,
             LAMBDA S : c.total - Cache!Cardinality(Cache!Pairs(c.hits, DOMAIN c.interest \ S))
                           <= MaxTotal) :
          d = Cache!Drop(c, K)
    BY <1>2 DEF Cache!TotalCap
  <2>2. /\ K \subseteq DOMAIN c.interest
        /\ \/ c.total - Cardinality(Shelved(c.hits, DOMAIN c.interest \ (DOMAIN c.interest \ K)))
                 <= MaxTotal
           \/ K = DOMAIN c.interest
    BY <2>1 DEF Cache!OldestUntil
  <2>3. DOMAIN c.interest \ (DOMAIN c.interest \ K) = K /\ K \in SUBSET Keywords
    BY <1>0, <2>2
  <2>4. /\ Good(d) /\ Lesser(d, c) /\ d.total = c.total - Cardinality(Shelved(c.hits, K))
        /\ \A k \in K : DOMAIN d.hits[k] = {}
        /\ \A k \in Keywords \ K : d.hits[k] = c.hits[k]
    BY <2>1, <2>3, DropGood
  <2>5. ASSUME RequireInterest, K = DOMAIN c.interest PROVE d.total = 0
    <3>1. \A k \in Keywords : DOMAIN d.hits[k] = {}
      BY <2>4, <2>5 DEF Good
    <3>2. Shelved(d.hits, Keywords) = {}
      BY <3>1 DEF Shelved
    <3> QED
      BY <2>4, <3>2, FS_EmptySet DEF Good
  <2>6. TotalCapped(d)
    BY <2>2, <2>3, <2>4, <2>5 DEF TotalCapped
  <2> QED
    BY <2>4, <2>6
<1> QED
  BY <1>1, <1>2

LEMMA SizeLimitsGood ==
    ASSUME NEW c, Good(c), NEW K \in SUBSET Keywords, NEW d \in Cache!SizeLimits(c, K)
    PROVE  Good(d) /\ Lesser(d, c) /\ KeywordCapped(d, K) /\ TotalCapped(d)
<1>1. PICK e \in Cache!PerKeywordCap(c, K) : d \in Cache!TotalCap(e)
  BY DEF Cache!SizeLimits
<1>2. Good(e) /\ Lesser(e, c) /\ KeywordCapped(e, K)
  BY <1>1, PerKeywordCapGood
<1>3. Good(d) /\ Lesser(d, e) /\ TotalCapped(d)
  BY <1>1, <1>2, TotalCapGood
<1>4. c \in CacheRecords /\ d \in CacheRecords /\ e \in CacheRecords
  BY <1>2, <1>3 DEF Good
<1> QED
  BY <1>2, <1>3, <1>4, LesserTwice, LesserCaps

\* A new hit is counted once.
LEMMA WithHitsGood ==
    ASSUME NEW c, Good(c), NEW k \in Keywords, NEW F \in SUBSET Files, Cache!Accepts(c, k)
    PROVE  /\ Good(Cache!WithHits(c, k, F))
           /\ Cache!WithHits(c, k, F).interest = c.interest
           /\ \A j \in Keywords \ {k} : Cache!WithHits(c, k, F).hits[j] = c.hits[j]
<1> DEFINE filled == [f \in DOMAIN c.hits[k] \cup F |-> IF f \in F THEN 0 ELSE c.hits[k][f]]
           h == [c.hits EXCEPT ![k] = filled]
           new == {k} \X (F \ DOMAIN c.hits[k])
           t == c.total + Cardinality(F \ DOMAIN c.hits[k])
           d == Cache!WithHits(c, k, F)
<1>1. c.hits \in [Keywords -> Shelves] /\ c.interest \in Interests /\ c.total \in Nat
      /\ c \in CacheRecords
  BY DEF Good, CacheRecords
<1>2. d = [c EXCEPT !.hits = h, !.total = t]
  BY <1>1, CacheCardinality DEF Cache!WithHits, CacheRecords
<1>3. filled \in Shelves /\ DOMAIN filled = DOMAIN c.hits[k] \cup F
  <2>0. c.hits[k] \in Shelves
    BY <1>1
  <2>1. PICK S \in SUBSET Files : c.hits[k] \in [S -> Nat]
    BY <2>0 DEF Shelves
  <2>2. filled \in [S \cup F -> Nat] /\ S \cup F \in SUBSET Files
    BY <2>1
  <2> QED
    BY <2>1, <2>2 DEF Shelves
<1> HIDE DEF filled
<1>4. /\ h \in [Keywords -> Shelves] /\ DOMAIN h[k] = DOMAIN c.hits[k] \cup F
      /\ \A j \in Keywords \ {k} : h[j] = c.hits[j]
  BY <1>1, <1>3
<1> HIDE DEF h
<1>5. \A x : x \in new <=> \E f \in F \ DOMAIN c.hits[k] : x = <<k, f>>
  OBVIOUS
<1>6. IsFiniteSet(new) /\ Cardinality(new) = Cardinality(F \ DOMAIN c.hits[k])
      /\ Cardinality(new) \in Nat
  <2>1. IsFiniteSet(F \ DOMAIN c.hits[k]) /\ Cardinality(F \ DOMAIN c.hits[k]) \in Nat
    BY CacheConstants, FS_Subset, FS_CardinalityType
  <2>2. IsFiniteSet({k}) /\ Cardinality({k}) = 1
    BY FS_Singleton
  <2>3. IsFiniteSet(new) /\ Cardinality(new) = Cardinality({k}) * Cardinality(F \ DOMAIN c.hits[k])
    BY <2>1, <2>2, FS_Product
  <2> QED
    BY <2>1, <2>2, <2>3
<1> HIDE DEF new
<1>7. Shelved(h, Keywords) = Shelved(c.hits, Keywords) \cup new
      /\ Shelved(c.hits, Keywords) \cap new = {}
  <2>1. \A x : x \in Shelved(h, Keywords) <=> \E j \in Keywords : \E f \in DOMAIN h[j] : x = <<j, f>>
    BY <1>4, SizeIs
  <2>2. \A x : x \in Shelved(c.hits, Keywords) <=>
                  \E j \in Keywords : \E f \in DOMAIN c.hits[j] : x = <<j, f>>
    BY <1>1, SizeIs
  <2>3. ASSUME NEW x PROVE x \in Shelved(h, Keywords) <=> (x \in Shelved(c.hits, Keywords) \/ x \in new)
    BY <1>4, <1>5, <2>1, <2>2
  <2>4. ASSUME NEW x PROVE ~ (x \in Shelved(c.hits, Keywords) /\ x \in new)
    BY <1>5, <2>2
  <2> QED
    BY <2>3, <2>4
<1>8. t = Cardinality(Shelved(h, Keywords)) /\ t \in Nat
  <2>1. IsFiniteSet(Shelved(c.hits, Keywords))
    BY <1>1, SizeIs
  <2>2. Cardinality(Shelved(h, Keywords)) =
           Cardinality(Shelved(c.hits, Keywords)) + Cardinality(new) - Cardinality({})
    BY <1>6, <1>7, <2>1, FS_Union
  <2>3. Cardinality({}) = 0 /\ c.total = Cardinality(Shelved(c.hits, Keywords))
    BY FS_EmptySet DEF Good
  <2> QED
    BY <1>1, <1>6, <2>2, <2>3
<1> HIDE DEF t
<1>9. /\ d \in CacheRecords /\ d.hits = h /\ d.interest = c.interest /\ d.total = t
  BY <1>1, <1>2, <1>4, <1>8 DEF CacheRecords
<1> HIDE DEF d
<1>10. RequireInterest => \A j \in Keywords : DOMAIN d.hits[j] # {} => j \in DOMAIN d.interest
  BY <1>4, <1>9 DEF Good, Cache!Accepts
<1>11. Good(d)
  BY <1>8, <1>9, <1>10 DEF Good
<1> QED
  BY <1>4, <1>9, <1>11 DEF d

LEMMA TouchedGood ==
    ASSUME NEW c, Good(c), NEW k \in Keywords
    PROVE  /\ Good(Cache!Touched(c, k))
           /\ Cache!Touched(c, k).hits = c.hits /\ Cache!Touched(c, k).total = c.total
<1> DEFINE i == [x \in DOMAIN c.interest \cup {k} |-> IF x = k THEN 0 ELSE c.interest[x]]
           d == Cache!Touched(c, k)
<1>1. c.hits \in [Keywords -> Shelves] /\ c.interest \in Interests /\ c.total \in Nat
      /\ c \in CacheRecords
  BY DEF Good, CacheRecords
<1>2. d = [c EXCEPT !.interest = i]
  BY <1>1 DEF Cache!Touched, CacheRecords
<1>3. i \in Interests /\ DOMAIN i = DOMAIN c.interest \cup {k}
  <2>1. PICK S \in SUBSET Keywords : c.interest \in [S -> Nat]
    BY <1>1 DEF Interests
  <2>2. i \in [S \cup {k} -> Nat] /\ S \cup {k} \in SUBSET Keywords
    BY <2>1
  <2> QED
    BY <2>1, <2>2 DEF Interests
<1> HIDE DEF i
<1>4. d \in CacheRecords /\ d.hits = c.hits /\ d.total = c.total /\ d.interest = i
  BY <1>1, <1>2, <1>3 DEF CacheRecords
<1> HIDE DEF d
<1>5. Good(d)
  BY <1>3, <1>4 DEF Good
<1> QED
  BY <1>4, <1>5 DEF d

\* The cache becomes a good record within the caps.
LEMMA BecomeStep ==
    ASSUME NEW c, Good(c), InterestCapped(c), KeywordCapped(c, Keywords), TotalCapped(c),
           Cache!Become(c)
    PROVE  CacheInv'
<1>1. c = [hits |-> c.hits, interest |-> c.interest, total |-> c.total]
  BY DEF Good, CacheRecords
<1>2. hits' = c.hits /\ interest' = c.interest /\ hits_total' = c.total
  BY DEF Cache!Become
<1>3. Cache!cache' = c
  BY <1>1, <1>2 DEF Cache!cache
<1> QED
  BY <1>3 DEF CacheInv

LEMMA CacheStep == CacheInv /\ Cache!Next => CacheInv'
<1> SUFFICES ASSUME CacheInv, Cache!Next PROVE CacheInv'
  OBVIOUS
<1> DEFINE now == Cache!cache
<1>0. PICK b : b = now
  OBVIOUS
<1>a. /\ Good(b) /\ InterestCapped(b) /\ KeywordCapped(b, Keywords) /\ TotalCapped(b)
      /\ b \in CacheRecords
  BY <1>0 DEF CacheInv, Good
\* A step that evicts for the limit on interests, and one that goes on from there.
<1>b. ASSUME NEW c, Good(c), KeywordCapped(c, Keywords), TotalCapped(c),
             NEW d \in Cache!InterestLimit(c)
      PROVE  Good(d) /\ InterestCapped(d) /\ KeywordCapped(d, Keywords) /\ TotalCapped(d)
  <2>1. Good(d) /\ Lesser(d, c) /\ InterestCapped(d)
    BY <1>b, InterestLimitGood
  <2>2. c \in CacheRecords /\ d \in CacheRecords
    BY <1>b, <2>1 DEF Good
  <2> QED
    BY <1>b, <2>1, <2>2, LesserCaps
<1>c. ASSUME NEW c, Good(c), InterestCapped(c), NEW d \in Cache!SizeLimits(c, Keywords)
      PROVE  Good(d) /\ InterestCapped(d) /\ KeywordCapped(d, Keywords) /\ TotalCapped(d)
  <2>1. Good(d) /\ Lesser(d, c) /\ KeywordCapped(d, Keywords) /\ TotalCapped(d)
    BY <1>c, SizeLimitsGood
  <2>2. c \in CacheRecords /\ d \in CacheRecords
    BY <1>c, <2>1 DEF Good
  <2> QED
    BY <1>c, <2>1, <2>2, LesserCaps
<1>d. ASSUME NEW k \in Keywords
      PROVE  /\ Good(Cache!Touched(b, k)) /\ KeywordCapped(Cache!Touched(b, k), Keywords)
             /\ TotalCapped(Cache!Touched(b, k))
  BY <1>a, TouchedGood DEF KeywordCapped, TotalCapped
<1>1. ASSUME NEW k \in Keywords, Cache!TouchInterest(k) PROVE CacheInv'
  <2>1. PICK c \in Cache!InterestLimit(Cache!Touched(b, k)) : Cache!Become(c)
    BY <1>0, <1>1 DEF Cache!TouchInterest
  <2> QED
    BY <1>b, <1>d, <2>1, BecomeStep
<1>2. ASSUME NEW k \in Keywords, NEW f \in Files, Cache!PublishLocally(k, f) PROVE CacheInv'
  <2>1. PICK c \in Cache!InterestLimit(Cache!Touched(b, k)) :
          IF Cache!Accepts(c, k)
          THEN \E d \in Cache!SizeLimits(Cache!WithHits(c, k, {f}), Keywords) : Cache!Become(d)
          ELSE Cache!Become(c)
    BY <1>0, <1>2 DEF Cache!PublishLocally
  <2>2. Good(c) /\ InterestCapped(c) /\ KeywordCapped(c, Keywords) /\ TotalCapped(c)
    BY <1>b, <1>d, <2>1
  <2>3. CASE ~ Cache!Accepts(c, k)
    BY <2>1, <2>2, <2>3, BecomeStep
  <2>4. CASE Cache!Accepts(c, k)
    <3>1. PICK d \in Cache!SizeLimits(Cache!WithHits(c, k, {f}), Keywords) : Cache!Become(d)
      BY <2>1, <2>4
    <3>2. Good(Cache!WithHits(c, k, {f})) /\ InterestCapped(Cache!WithHits(c, k, {f}))
      BY <2>2, <2>4, WithHitsGood DEF InterestCapped
    <3> QED
      BY <1>c, <3>1, <3>2, BecomeStep
  <2> QED
    BY <2>3, <2>4
<1>3. ASSUME NEW k \in Keywords, NEW F \in SUBSET Files, Cache!SearchRes(k, F) PROVE CacheInv'
  <2>1. PICK c \in Cache!SizeLimits(Cache!WithHits(b, k, F), {k}) : Cache!Become(c)
    BY <1>0, <1>3 DEF Cache!SearchRes
  <2>2. Cache!Accepts(b, k)
    BY <1>0, <1>3 DEF Cache!SearchRes
  <2> DEFINE w == Cache!WithHits(b, k, F)
  <2>3. /\ Good(w) /\ w.interest = b.interest
        /\ \A j \in Keywords \ {k} : w.hits[j] = b.hits[j]
    BY <1>a, <2>2, WithHitsGood
  <2> HIDE DEF w
  <2>4. Good(c) /\ Lesser(c, w) /\ KeywordCapped(c, {k}) /\ TotalCapped(c)
    BY <2>1, <2>3, SizeLimitsGood DEF w
  <2>5. InterestCapped(c) /\ KeywordCapped(c, Keywords \ {k})
    <3>1. InterestCapped(w) /\ KeywordCapped(w, Keywords \ {k})
      BY <1>a, <2>3 DEF InterestCapped, KeywordCapped
    <3>2. c \in CacheRecords /\ w \in CacheRecords
      BY <2>3, <2>4 DEF Good
    <3> QED
      BY <2>4, <3>1, <3>2, LesserCaps
  <2>6. KeywordCapped(c, Keywords)
    BY <2>4, <2>5 DEF KeywordCapped
  <2> QED
    BY <2>1, <2>4, <2>5, <2>6, BecomeStep
<1>e. ASSUME NEW K \in SUBSET Keywords, NEW c, Good(c), InterestCapped(c),
             KeywordCapped(c, Keywords), TotalCapped(c)
      PROVE  /\ Good(Cache!Drop(c, K)) /\ InterestCapped(Cache!Drop(c, K))
             /\ KeywordCapped(Cache!Drop(c, K), Keywords) /\ TotalCapped(Cache!Drop(c, K))
  <2>1. Good(Cache!Drop(c, K)) /\ Lesser(Cache!Drop(c, K), c)
    BY <1>e, DropGood
  <2>2. c \in CacheRecords /\ Cache!Drop(c, K) \in CacheRecords
    BY <1>e, <2>1 DEF Good
  <2> QED
    BY <1>e, <2>1, <2>2, LesserCaps
<1>4. ASSUME NEW k \in Keywords, Cache!PurgeSearch(k) PROVE CacheInv'
  <2>1. Cache!Become(Cache!Drop(b, {k}))
    BY <1>0, <1>4 DEF Cache!PurgeSearch
  <2> QED
    BY <1>a, <1>e, <2>1, BecomeStep
<1>5. CASE Cache!Maintain
  <2> DEFINE c1 == Cache!ExpiredInterest(b)
             c2 == Cache!Uninteresting(c1)
             c3 == Cache!ExpiredHits(c2)
  <2>1. PICK c \in Cache!InterestLimit(c3) : \E d \in Cache!SizeLimits(c, Keywords) : Cache!Become(d)
    BY <1>0, <1>5 DEF Cache!Maintain
  <2>2. Good(c1) /\ InterestCapped(c1) /\ KeywordCapped(c1, Keywords) /\ TotalCapped(c1)
    <3>1. {k \in DOMAIN b.interest : b.interest[k] >= InterestTTL} \in SUBSET Keywords
      BY <1>a, DomainsFinite
    <3> QED
      BY <1>a, <1>e, <3>1 DEF Cache!ExpiredInterest
  <2> HIDE DEF c1
  <2>3. Good(c2) /\ InterestCapped(c2) /\ KeywordCapped(c2, Keywords) /\ TotalCapped(c2)
    <3>1. Keywords \ DOMAIN c1.interest \in SUBSET Keywords
      OBVIOUS
    <3> QED
      BY <1>e, <2>2, <3>1 DEF Cache!Uninteresting
  <2> HIDE DEF c2
  <2>4. Good(c3) /\ Lesser(c3, c2)
    <3> DEFINE F == [k \in Keywords |-> {f \in DOMAIN c2.hits[k] : c2.hits[k][f] >= ResultsTTL}]
    <3>1. \A k \in Keywords : F[k] \subseteq DOMAIN c2.hits[k]
      OBVIOUS
    <3>2. c3 = Cache!Remove(c2, F)
      BY DEF Cache!ExpiredHits
    <3> HIDE DEF F, c3
    <3> QED
      BY <2>3, <3>1, <3>2, RemoveGood
  <2> HIDE DEF c3
  <2>5. KeywordCapped(c3, Keywords) /\ TotalCapped(c3)
    <3>1. c2 \in CacheRecords /\ c3 \in CacheRecords
      BY <2>3, <2>4 DEF Good
    <3> QED
      BY <2>3, <2>4, <3>1, LesserCaps
  <2>6. Good(c) /\ InterestCapped(c) /\ KeywordCapped(c, Keywords) /\ TotalCapped(c)
    BY <1>b, <2>1, <2>4, <2>5
  <2> QED
    BY <1>c, <2>1, <2>6, BecomeStep
<1>6. CASE Cache!Clock
  <2> DEFINE c == [hits |-> [k \in Keywords |-> Cache!Aged(hits[k], ResultsTTL)],
                   interest |-> Cache!Aged(interest, InterestTTL), total |-> hits_total]
  <2>1. \A S : \A ages \in [S -> Nat] : \A ttl \in Nat :
           Cache!Aged(ages, ttl) \in [S -> Nat]
    BY DEF Cache!Aged
  <2>2. hits \in [Keywords -> Shelves] /\ interest \in Interests /\ hits_total \in Nat
    BY <1>0, <1>a DEF Cache!cache, CacheRecords
  <2>3. ASSUME NEW k \in Keywords
        PROVE  /\ Cache!Aged(hits[k], ResultsTTL) \in Shelves
               /\ DOMAIN Cache!Aged(hits[k], ResultsTTL) = DOMAIN hits[k]
    <3>1. PICK S \in SUBSET Files : hits[k] \in [S -> Nat]
      BY <2>2 DEF Shelves
    <3>2. Cache!Aged(hits[k], ResultsTTL) \in [S -> Nat]
      BY <2>1, <3>1, CacheConstants
    <3> QED
      BY <3>1, <3>2 DEF Shelves
  <2>4. Cache!Aged(interest, InterestTTL) \in Interests
        /\ DOMAIN Cache!Aged(interest, InterestTTL) = DOMAIN interest
    <3>1. PICK S \in SUBSET Keywords : interest \in [S -> Nat]
      BY <2>2 DEF Interests
    <3>2. Cache!Aged(interest, InterestTTL) \in [S -> Nat]
      BY <2>1, <3>1, CacheConstants
    <3> QED
      BY <3>1, <3>2 DEF Interests
  <2>5. /\ c \in CacheRecords /\ \A k \in Keywords : DOMAIN c.hits[k] = DOMAIN b.hits[k]
        /\ DOMAIN c.interest = DOMAIN b.interest /\ c.total = b.total
    BY <1>0, <2>2, <2>3, <2>4 DEF CacheRecords, Cache!cache
  <2>6. Cache!Become(c)
    BY <1>6 DEF Cache!Clock, Cache!Become
  <2> HIDE DEF c
  <2>7. Shelved(c.hits, Keywords) = Shelved(b.hits, Keywords)
    BY <2>5 DEF Shelved
  <2>8. Good(c) /\ InterestCapped(c) /\ KeywordCapped(c, Keywords) /\ TotalCapped(c)
    BY <1>a, <2>5, <2>7 DEF Good, InterestCapped, KeywordCapped, TotalCapped
  <2> QED
    BY <2>6, <2>8, BecomeStep
<1> QED
  BY <1>1, <1>2, <1>3, <1>4, <1>5, <1>6 DEF Cache!Next

LEMMA CacheInit == Init => CacheInv
<1> SUFFICES ASSUME Init PROVE CacheInv
  OBVIOUS
<1>1. hits = [k \in Keywords |-> Cache!Empty] /\ interest = Cache!Empty /\ hits_total = 0
  BY DEF Init, Cache!Init
<1>2. Cache!Empty \in Interests
  <2>1. Cache!Empty \in [{} -> Nat] /\ {} \in SUBSET Keywords
    BY DEF Cache!Empty
  <2> QED
    BY <2>1 DEF Interests
<1>3. PICK b : b = Cache!cache
  OBVIOUS
<1>4. /\ b \in CacheRecords /\ b.total = 0 /\ DOMAIN b.interest = {}
      /\ \A k \in Keywords : DOMAIN b.hits[k] = {}
  BY <1>1, <1>2, <1>3, EmptyIs DEF CacheRecords, Cache!cache
<1>5. Shelved(b.hits, Keywords) = {}
  BY <1>4 DEF Shelved
<1>6. Good(b) /\ InterestCapped(b) /\ KeywordCapped(b, Keywords) /\ TotalCapped(b)
  <2>1. Cardinality({}) = 0
    BY FS_EmptySet
  <2>2. Good(b)
    BY <1>4, <1>5, <2>1 DEF Good
  <2>3. InterestCapped(b) /\ KeywordCapped(b, Keywords)
    BY <1>4, <2>1, CacheConstants DEF InterestCapped, KeywordCapped
  <2>4. TotalCapped(b)
    BY <1>4, CacheConstants DEF TotalCapped
  <2> QED
    BY <2>2, <2>3, <2>4
<1> QED
  BY <1>3, <1>6 DEF CacheInv

\* The running total five operations keep by differences is the number of hits, and with
\* interest required the three caps hold after every step.
THEOREM CacheKeepsItsCaps == Spec => []CacheWithinCaps
<1>1. CacheInv /\ [Next]_vars => CacheInv'
  <2>1. CacheInv /\ UNCHANGED cache => CacheInv'
    BY DEF CacheInv, Cache!cache, cache
  <2> QED
    BY <2>1, CacheStep DEF Next, vars
<1>2. CacheInv => CacheWithinCaps
  <2> SUFFICES ASSUME CacheInv PROVE CacheWithinCaps
    OBVIOUS
  <2>1. \A k \in Keywords : DOMAIN hits[k] = {} => hits[k] = Cache!Empty
    <3>1. hits \in [Keywords -> Shelves]
      BY DEF CacheInv, Good, CacheRecords, Cache!cache
    <3>2. \A k \in Keywords : hits[k] = [f \in DOMAIN hits[k] |-> hits[k][f]]
      BY <3>1 DEF Shelves
    <3> QED
      BY <3>2 DEF Cache!Empty
  <2> QED
    BY <2>1, CacheCardinality, PairsIs
       DEF CacheInv, Good, InterestCapped, KeywordCapped, TotalCapped, Cache!cache,
           CacheWithinCaps, Cache!CacheWithinCaps
<1> QED
  BY <1>1, <1>2, CacheInit, PTL DEF Spec


-----------------------------------------------------------------------------
(* The flood limiter *)

Ages == 0 .. FloodWindow - 1

\* The requests of a counter that were let in.
LetIn(c) == IF c.count > Limit THEN Limit ELSE c.count

\* No counter is like one whose window is over.
AgeOf(c) == IF c = None THEN FloodWindow ELSE c.age
CountOf(c) == IF c = None THEN 0 ELSE LetIn(c)

Shares(c, ages) == Shared(AgeOf(c), CountOf(c), Limit, FloodWindow, ages)

FloodInv ==
    /\ tracked_in \in [FloodSources -> [Opcodes -> Flood!Counter \cup {None}]]
    /\ admitted \in [FloodSources -> [Opcodes -> Seq(Ages)]]
    /\ \A s \in FloodSources, o \in Opcodes :
          /\ tracked_in[s][o] # None => tracked_in[s][o].count > 0
          /\ Shares(tracked_in[s][o], admitted[s][o])
    /\ refused \subseteq FloodSources \X Opcodes
    /\ \A r \in refused : Len(admitted[r[1]][r[2]]) >= Limit
    /\ Cardinality(Flood!Tracked(tracked_in)) <= MaxFloodSources

LEMMA FloodConstants ==
    /\ IsFiniteSet(FloodSources)
    /\ Limit \in Nat \ {0} /\ FloodWindow \in Nat \ {0} /\ MaxFloodSources \in Nat \ {0}
    /\ EntryTTL \in Nat \ {0} /\ EntryTTL >= FloodWindow
    /\ None \notin Flood!Counter
<1>1. Flood!FloodAssumption
  BY InstancesAssumption
<1>2. \A S : Flood!IsFiniteSet(S) <=> IsFiniteSet(S)
  BY DEF Flood!IsFiniteSet, IsFiniteSet
<1> QED
  BY <1>1, <1>2 DEF Flood!FloodAssumption

LEMMA RecentIs ==
    ASSUME NEW ages \in Seq(Ages), Ordered(ages)
    PROVE  Passed(ages, 1, FloodWindow, Flood!Recent(ages)) /\ Flood!Recent(ages) \in Seq(Ages)
<1> USE FloodConstants
<1> DEFINE Cut(n) == \A i \in DOMAIN ages : i > n <=> ages[i] + 1 < FloodWindow
           gone == CHOOSE n \in 0 .. Len(ages) : Cut(n)
<1>1. Len(ages) \in Nat /\ DOMAIN ages = 1 .. Len(ages)
      /\ \A i \in 1 .. Len(ages) : ages[i] \in Ages
  OBVIOUS
<1>2. \E n \in 0 .. Len(ages) : Cut(n)
  <2>1. ages \in Seq(0 .. FloodWindow - 1) /\ 1 \in Nat
    BY DEF Ages
  <2> QED
    BY <1>1, <2>1, CutExists
<1>3. gone \in 0 .. Len(ages) /\ Cut(gone)
  BY <1>2
<1>4. Flood!Recent(ages) = [i \in 1 .. Len(ages) - gone |-> ages[i + gone] + 1]
  BY DEF Flood!Recent
<1> HIDE DEF gone
<1>5. Len(ages) - gone \in Nat /\ gone \in Nat
  BY <1>1, <1>3
<1>6. ASSUME NEW i \in 1 .. Len(ages) - gone PROVE ages[i + gone] + 1 \in Ages
  <2>1. i + gone \in 1 .. Len(ages) /\ i + gone > gone
    BY <1>1, <1>5, <1>6
  <2>2. ages[i + gone] + 1 < FloodWindow /\ ages[i + gone] \in 0 .. FloodWindow - 1
    BY <1>1, <1>3, <2>1 DEF Ages
  <2> QED
    BY <2>2 DEF Ages
<1>7. /\ Flood!Recent(ages) \in Seq(Ages) /\ Len(Flood!Recent(ages)) = Len(ages) - gone
      /\ \A i \in 1 .. Len(ages) - gone : Flood!Recent(ages)[i] = ages[i + gone] + 1
  BY <1>4, <1>5, <1>6
<1> QED
  BY <1>1, <1>3, <1>7 DEF Passed, Ages

\* A tick keeps the shares.
LEMMA SharesAge ==
    ASSUME NEW c \in Flood!Counter \cup {None}, NEW ages, Shares(c, ages),
           NEW d, d = IF c = None THEN None
                      ELSE [c EXCEPT !.age = IF @ > EntryTTL THEN @ ELSE @ + 1]
    PROVE  Shares(d, Flood!Recent(ages)) /\ d \in Flood!Counter \cup {None}
           /\ (d = None <=> c = None) /\ (c # None => d.count = c.count)
<1> USE FloodConstants
<1>1. /\ d \in Flood!Counter \cup {None} /\ (d = None <=> c = None)
      /\ c # None => /\ d.count = c.count /\ c.age \in Nat /\ c.count \in 0 .. Limit + 1
                     /\ d.age = IF c.age > EntryTTL THEN c.age ELSE c.age + 1
  <2>1. CASE c = None
    BY <2>1
  <2>2. CASE c # None
    <3>1. c \in Flood!Counter /\ c.age \in 0 .. EntryTTL + 1 /\ c.count \in 0 .. Limit + 1
      BY <2>2 DEF Flood!Counter
    <3>2. /\ d \in Flood!Counter /\ d.count = c.count
          /\ d.age = IF c.age > EntryTTL THEN c.age ELSE c.age + 1
      BY <2>2, <3>1 DEF Flood!Counter
    <3> QED
      BY <2>2, <3>1, <3>2
  <2> QED
    BY <2>1, <2>2
<1>2. /\ AgeOf(c) \in Nat /\ AgeOf(d) \in Nat /\ CountOf(c) \in 0 .. Limit /\ CountOf(d) = CountOf(c)
      /\ IF AgeOf(c) + 1 >= FloodWindow THEN AgeOf(d) >= FloodWindow ELSE AgeOf(d) = AgeOf(c) + 1
  <2>1. CASE c = None
    BY <1>1, <2>1 DEF AgeOf, CountOf
  <2>2. CASE c # None
    BY <1>1, <2>2 DEF AgeOf, CountOf, LetIn
  <2> QED
    BY <2>1, <2>2
<1>3. ages \in Seq(Ages) /\ Ordered(ages)
  BY DEF Shares, Shared, Ages
<1>4. Passed(ages, 1, FloodWindow, Flood!Recent(ages))
  BY <1>3, RecentIs
<1>5. Shared(AgeOf(d), CountOf(c), Limit, FloodWindow, Flood!Recent(ages))
  BY <1>2, <1>4, SharedAges DEF Shares
<1> QED
  BY <1>1, <1>2, <1>5 DEF Shares

\* A request counts against the window it falls into.
LEMMA SharesCount ==
    ASSUME NEW c \in Flood!Counter \cup {None}, NEW ages, Shares(c, ages),
           c # None => c.count > 0,
           NEW d, d = Flood!Counted(c)
    PROVE  /\ d \in Flood!Counter /\ d.count > 0
           /\ d.count <= Limit => Shares(d, Append(ages, 0))
           /\ d.count > Limit => Shares(d, ages) /\ Len(ages) >= Limit
<1> USE FloodConstants
<1>1. CASE c = None \/ (c # None /\ c.age >= FloodWindow)
  <2>1. d = [age |-> 0, count |-> 1]
    BY <1>1 DEF Flood!Counted
  <2>2. d \in Flood!Counter /\ d # None /\ d.age = 0 /\ d.count = 1 /\ AgeOf(d) = 0 /\ CountOf(d) = 1
    BY <2>1 DEF Flood!Counter, LetIn, AgeOf, CountOf
  <2>3. AgeOf(c) \in Nat /\ AgeOf(c) >= FloodWindow
    BY <1>1 DEF AgeOf, Flood!Counter
  <2>4. Shared(0, 0, Limit, FloodWindow, ages)
    BY <2>3, SharedRolls DEF Shares
  <2>5. Shared(0, 0 + 1, Limit, FloodWindow, Append(ages, 0))
    BY <2>4, SharedGrows
  <2> QED
    BY <2>2, <2>5 DEF Shares
<1>2. CASE ~ (c = None \/ (c # None /\ c.age >= FloodWindow))
  <2>1. c \in Flood!Counter /\ c # None /\ c.age \in 0 .. EntryTTL + 1 /\ c.count \in 1 .. Limit + 1
        /\ c.age < FloodWindow
    BY <1>2 DEF Flood!Counter
  <2>2. d = [c EXCEPT !.count = IF @ > Limit THEN @ ELSE @ + 1]
    BY <1>2 DEF Flood!Counted
  <2>3. /\ d \in Flood!Counter /\ d # None /\ d.age = c.age
        /\ d.count = IF c.count > Limit THEN c.count ELSE c.count + 1
    BY <2>1, <2>2 DEF Flood!Counter
  <2>4. AgeOf(c) = c.age /\ AgeOf(d) = c.age /\ c.age \in Nat
        /\ CountOf(c) = LetIn(c) /\ CountOf(d) = LetIn(d)
    BY <2>1, <2>3 DEF AgeOf, CountOf
  <2>5. CASE d.count <= Limit
    <3>1. LetIn(d) = LetIn(c) + 1 /\ LetIn(c) \in Nat
      BY <2>1, <2>3, <2>5 DEF LetIn
    <3>2. Shared(c.age, LetIn(c) + 1, Limit, FloodWindow, Append(ages, 0))
      BY <2>1, <2>4, <3>1, SharedGrows DEF Shares
    <3>3. Shares(d, Append(ages, 0))
      BY <2>4, <3>1, <3>2 DEF Shares
    <3> QED
      BY <2>1, <2>3, <2>5, <3>3
  <2>6. CASE d.count > Limit
    <3>1. LetIn(d) = Limit /\ LetIn(c) = Limit
      BY <2>1, <2>3, <2>6 DEF LetIn
    <3>2. Limit \in 0 .. Limit /\ Shared(c.age, Limit, Limit, FloodWindow, ages)
      BY <2>4, <3>1 DEF Shares
    <3>3. Len(ages) >= Limit
      BY <2>1, <2>4, <3>2, SharedBound
    <3> QED
      BY <2>1, <2>3, <2>4, <2>6, <3>1, <3>2, <3>3 DEF Shares
  <2> QED
    BY <2>1, <2>3, <2>5, <2>6
<1> QED
  BY <1>1, <1>2

LEMMA NoShares == Shares(None, <<>>) /\ <<>> \in Seq(Ages)
<1>1. FloodWindow \in Nat \ {0} /\ Limit \in Nat /\ FloodWindow \in Nat
  BY FloodConstants
<1>2. Shared(FloodWindow, 0, Limit, FloodWindow, <<>>) /\ <<>> \in Seq(0 .. FloodWindow - 1)
  BY <1>1, SharedEmpty
<1> QED
  BY <1>2 DEF Shares, AgeOf, CountOf, Ages

LEMMA TrackedFinite ==
    \A t : /\ Flood!Tracked(t) \subseteq FloodSources /\ IsFiniteSet(Flood!Tracked(t))
           /\ Cardinality(Flood!Tracked(t)) \in Nat
BY FloodConstants, FS_Subset, FS_CardinalityType DEF Flood!Tracked

LEMMA RequestStep ==
    ASSUME FloodInv, NEW s \in FloodSources, NEW o \in Opcodes, Flood!Request(s, o)
    PROVE  FloodInv'
<1> USE FloodConstants
<1> DEFINE Counters == [FloodSources -> [Opcodes -> Flood!Counter \cup {None}]]
<1>1. PICK t : t = IF Flood!CleanupDue THEN Flood!Swept(tracked_in) ELSE tracked_in
  OBVIOUS
<1>2. PICK gone \in Flood!Victims(t, s) :
          LET counter == Flood!Counted(t[s][o])
              room    == [x \in FloodSources |->
                            IF x \in gone THEN [p \in Opcodes |-> None] ELSE t[x]]
              history == [x \in FloodSources |->
                            IF x \in gone THEN [p \in Opcodes |-> <<>>] ELSE admitted[x]]
              allowed == counter.count <= Limit
          IN  /\ tracked_in' = [room EXCEPT ![s][o] = counter]
              /\ admitted' = IF allowed THEN [history EXCEPT ![s][o] = Append(@, 0)] ELSE history
              /\ refused' = IF allowed THEN {} ELSE {<<s, o>>}
  BY <1>1 DEF Flood!Request
\* The sweep forgets counters whose window is over.
<1>3. /\ t \in Counters
      /\ \A x \in FloodSources, p \in Opcodes :
            /\ t[x][p] # None => t[x][p].count > 0
            /\ Shares(t[x][p], admitted[x][p])
      /\ Flood!Tracked(t) \subseteq Flood!Tracked(tracked_in)
  <2>1. CASE t = tracked_in
    BY <2>1 DEF FloodInv
  <2>2. CASE t = Flood!Swept(tracked_in)
    <3>1. t = [x \in FloodSources |-> [p \in Opcodes |->
                IF tracked_in[x][p] # None /\ tracked_in[x][p].age > EntryTTL
                THEN None ELSE tracked_in[x][p]]]
      BY <2>2 DEF Flood!Swept
    <3>2. t \in Counters
      BY <3>1 DEF FloodInv
    <3>3. ASSUME NEW x \in FloodSources, NEW p \in Opcodes
          PROVE  /\ t[x][p] # None => t[x][p].count > 0 /\ tracked_in[x][p] # None
                 /\ Shares(t[x][p], admitted[x][p])
      <4>1. tracked_in[x][p] \in Flood!Counter \cup {None}
            /\ Shares(tracked_in[x][p], admitted[x][p])
            /\ (tracked_in[x][p] # None => tracked_in[x][p].count > 0)
        BY DEF FloodInv
      <4>2. CASE tracked_in[x][p] # None /\ tracked_in[x][p].age > EntryTTL
        <5>1. t[x][p] = None
          BY <3>1, <4>2
        <5>2. PICK c \in Flood!Counter : c = tracked_in[x][p]
          BY <4>1, <4>2
        <5>3. c # None /\ c.age \in Nat /\ c.age >= FloodWindow /\ Shares(c, admitted[x][p])
          BY <4>1, <4>2, <5>2 DEF Flood!Counter
        <5>4. Shares(None, admitted[x][p])
          BY <5>3 DEF Shares, Shared, AgeOf
        <5> QED
          BY <5>1, <5>4
      <4>3. CASE ~ (tracked_in[x][p] # None /\ tracked_in[x][p].age > EntryTTL)
        BY <3>1, <4>1, <4>3
      <4> QED
        BY <4>2, <4>3
    <3> QED
      BY <3>2, <3>3 DEF Flood!Tracked
  <2> QED
    BY <1>1, <2>1, <2>2
\* One source at most goes, for a new one that would be too many.
<1>4. /\ gone \subseteq FloodSources /\ s \notin gone
      /\ s \in Flood!Tracked(t) \/ Cardinality(Flood!Tracked(t)) < MaxFloodSources
            \/ \E v \in Flood!Tracked(t) : gone = {v}
  <2>1. Flood!Cardinality(Flood!Tracked(t)) = Cardinality(Flood!Tracked(t))
    BY DEF Flood!Cardinality, Cardinality, Flood!IsFiniteSet, IsFiniteSet
  <2>2. CASE s \in Flood!Tracked(t) \/ Cardinality(Flood!Tracked(t)) < MaxFloodSources
    <3>1. gone = {}
      BY <1>2, <2>1, <2>2 DEF Flood!Victims
    <3> QED
      BY <2>2, <3>1
  <2>3. CASE ~ (s \in Flood!Tracked(t) \/ Cardinality(Flood!Tracked(t)) < MaxFloodSources)
    <3>1. \E v \in Flood!Tracked(t) : gone = {v}
      BY <1>2, <2>1, <2>3 DEF Flood!Victims
    <3> QED
      BY <2>3, <3>1, TrackedFinite
  <2> QED
    BY <2>2, <2>3
<1>5. PICK c : c = Flood!Counted(t[s][o])
  OBVIOUS
<1>6. PICK room : room = [x \in FloodSources |-> IF x \in gone THEN [p \in Opcodes |-> None] ELSE t[x]]
  OBVIOUS
<1>7. PICK history :
         history = [x \in FloodSources |-> IF x \in gone THEN [p \in Opcodes |-> <<>>] ELSE admitted[x]]
  OBVIOUS
<1>8. /\ tracked_in' = [room EXCEPT ![s][o] = c]
      /\ c.count <= Limit =>
            admitted' = [history EXCEPT ![s][o] = Append(@, 0)] /\ refused' = {}
      /\ c.count > Limit => admitted' = history /\ refused' = {<<s, o>>}
      /\ c \in Flood!Counter
  <2>1. t[s][o] \in Flood!Counter \cup {None} /\ Shares(t[s][o], admitted[s][o])
        /\ (t[s][o] # None => t[s][o].count > 0)
    BY <1>3
  <2>2. c \in Flood!Counter /\ c.count \in Nat
    BY <1>5, <2>1, SharesCount DEF Flood!Counter
  <2>3. ~ (c.count <= Limit) <=> c.count > Limit
    BY <2>2
  <2> QED
    BY <1>2, <1>5, <1>6, <1>7, <2>2, <2>3
<1>9. /\ room \in Counters /\ history \in [FloodSources -> [Opcodes -> Seq(Ages)]]
      /\ room[s] = t[s] /\ history[s] = admitted[s]
      /\ \A x \in FloodSources, p \in Opcodes :
            /\ room[x][p] # None => room[x][p].count > 0
            /\ Shares(room[x][p], history[x][p])
  <2>1. room \in Counters /\ history \in [FloodSources -> [Opcodes -> Seq(Ages)]]
    BY <1>3, <1>6, <1>7, NoShares DEF FloodInv
  <2>2. ASSUME NEW x \in FloodSources, NEW p \in Opcodes
        PROVE  /\ room[x][p] # None => room[x][p].count > 0
               /\ Shares(room[x][p], history[x][p])
    <3>1. CASE x \in gone
      BY <1>6, <1>7, <3>1, NoShares
    <3>2. CASE x \notin gone
      BY <1>3, <1>6, <1>7, <3>2
    <3> QED
      BY <3>1, <3>2
  <2> QED
    BY <1>4, <1>6, <1>7, <2>1, <2>2
<1>10. /\ c.count > 0
       /\ c.count <= Limit => Shares(c, Append(admitted[s][o], 0))
       /\ c.count > Limit => Shares(c, admitted[s][o]) /\ Len(admitted[s][o]) >= Limit
  <2>1. t[s][o] \in Flood!Counter \cup {None} /\ Shares(t[s][o], admitted[s][o])
        /\ (t[s][o] # None => t[s][o].count > 0)
    BY <1>3
  <2> QED
    BY <1>5, <2>1, SharesCount
<1>11. tracked_in' \in Counters
  BY <1>8, <1>9
<1>12. /\ tracked_in'[s][o] = c
       /\ \A x \in FloodSources, p \in Opcodes :
             ~ (x = s /\ p = o) => tracked_in'[x][p] = room[x][p]
  BY <1>8, <1>9
<1>13. /\ admitted' \in [FloodSources -> [Opcodes -> Seq(Ages)]]
       /\ admitted'[s][o] = IF c.count <= Limit THEN Append(admitted[s][o], 0) ELSE admitted[s][o]
       /\ \A x \in FloodSources, p \in Opcodes :
             ~ (x = s /\ p = o) => admitted'[x][p] = history[x][p]
  <2>1. c.count \in Nat
    BY <1>8 DEF Flood!Counter
  <2>2. CASE c.count <= Limit
    <3>1. Append(history[s][o], 0) \in Seq(Ages)
      BY <1>9 DEF Ages
    <3>2. PICK new : new = Append(history[s][o], 0)
      OBVIOUS
    <3>3. admitted' = [history EXCEPT ![s][o] = new] /\ new \in Seq(Ages)
      BY <1>8, <2>2, <3>1, <3>2
    <3>4. /\ admitted' \in [FloodSources -> [Opcodes -> Seq(Ages)]] /\ admitted'[s][o] = new
          /\ \A x \in FloodSources, p \in Opcodes :
                ~ (x = s /\ p = o) => admitted'[x][p] = history[x][p]
      BY <1>9, <3>3
    <3> QED
      BY <1>9, <2>2, <3>2, <3>4
  <2>3. CASE c.count > Limit
    BY <1>8, <1>9, <2>3
  <2> QED
    BY <2>1, <2>2, <2>3
<1>14. ASSUME NEW x \in FloodSources, NEW p \in Opcodes
       PROVE  /\ tracked_in'[x][p] # None => tracked_in'[x][p].count > 0
              /\ Shares(tracked_in'[x][p], admitted'[x][p])
  <2>1. CASE x = s /\ p = o
    <3>1. c.count \in Nat
      BY <1>8 DEF Flood!Counter
    <3>2. c.count <= Limit \/ c.count > Limit
      BY <3>1
    <3>3. Shares(c, admitted'[s][o])
      BY <1>10, <1>13, <3>1, <3>2
    <3> QED
      BY <1>10, <1>12, <2>1, <3>3
  <2>2. CASE ~ (x = s /\ p = o)
    <3>1. tracked_in'[x][p] = room[x][p] /\ admitted'[x][p] = history[x][p]
      BY <1>12, <1>13, <2>2
    <3> QED
      BY <1>9, <3>1
  <2> QED
    BY <2>1, <2>2
<1>15. /\ refused' \subseteq FloodSources \X Opcodes
       /\ \A r \in refused' : Len(admitted'[r[1]][r[2]]) >= Limit
  <2>1. c.count \in Nat
    BY <1>8 DEF Flood!Counter
  <2>2. CASE c.count <= Limit
    BY <1>8, <2>2
  <2>3. CASE c.count > Limit
    <3>1. Len(admitted'[s][o]) >= Limit
      BY <1>10, <1>13, <2>1, <2>3
    <3> QED
      BY <1>8, <2>3, <3>1
  <2> QED
    BY <2>1, <2>2, <2>3
<1>16. Cardinality(Flood!Tracked(tracked_in')) <= MaxFloodSources
  <2>1. Flood!Tracked(tracked_in') \subseteq (Flood!Tracked(t) \ gone) \cup {s}
    <3> SUFFICES ASSUME NEW x \in Flood!Tracked(tracked_in'), x # s
                 PROVE  x \in Flood!Tracked(t) \ gone
      OBVIOUS
    <3>1. PICK p \in Opcodes : tracked_in'[x][p] # None
      BY DEF Flood!Tracked
    <3>2. x \in FloodSources
      BY DEF Flood!Tracked
    <3>3. room[x][p] # None
      BY <1>12, <3>1, <3>2
    <3>4. x \notin gone /\ t[x][p] # None
      BY <1>6, <3>2, <3>3
    <3> QED
      BY <3>2, <3>4 DEF Flood!Tracked
  <2> DEFINE S == Flood!Tracked(t)
             n == Cardinality(S)
  <2>2. IsFiniteSet(S) /\ n \in Nat /\ n <= MaxFloodSources
    <3>1. n <= Cardinality(Flood!Tracked(tracked_in))
      BY <1>3, TrackedFinite, FS_Subset
    <3> QED
      BY <3>1, TrackedFinite DEF FloodInv
  <2>3. IsFiniteSet((S \ gone) \cup {s}) /\ Cardinality((S \ gone) \cup {s}) <= MaxFloodSources
    <3> HIDE DEF S
    <3>1. CASE s \in S
      <4>1. IsFiniteSet(S \ gone) /\ Cardinality((S \ gone) \cup {s}) <= n
            /\ IsFiniteSet((S \ gone) \cup {s}) /\ Cardinality((S \ gone) \cup {s}) \in Nat
        <5>1. (S \ gone) \cup {s} \subseteq S /\ S \ gone \subseteq S
          BY <3>1
        <5> QED
          BY <2>2, <5>1, FS_Subset, FS_CardinalityType
      <4> QED
        BY <2>2, <4>1
    <3>2. CASE n < MaxFloodSources
      <4>1. IsFiniteSet(S \ gone) /\ Cardinality(S \ gone) <= n /\ Cardinality(S \ gone) \in Nat
        <5>1. S \ gone \subseteq S
          OBVIOUS
        <5> QED
          BY <2>2, <5>1, FS_Subset, FS_CardinalityType
      <4>2. IsFiniteSet((S \ gone) \cup {s})
            /\ Cardinality((S \ gone) \cup {s}) \in {Cardinality(S \ gone), Cardinality(S \ gone) + 1}
        BY <4>1, OneMore
      <4> QED
        BY <2>2, <3>2, <4>1, <4>2
    <3>3. CASE \E v \in S : gone = {v}
      <4>1. PICK v \in S : gone = {v}
        BY <3>3
      <4>2. IsFiniteSet(S \ gone) /\ Cardinality(S \ gone) = n - 1
        BY <2>2, <4>1, OneLess
      <4>3. IsFiniteSet((S \ gone) \cup {s})
            /\ Cardinality((S \ gone) \cup {s}) \in {Cardinality(S \ gone), Cardinality(S \ gone) + 1}
        BY <4>2, OneMore
      <4> QED
        BY <2>2, <4>2, <4>3
    <3> QED
      BY <1>4, <3>1, <3>2, <3>3 DEF S
  <2>4. Cardinality(Flood!Tracked(tracked_in')) <= Cardinality((S \ gone) \cup {s})
    BY <2>1, <2>3, FS_Subset
  <2> QED
    BY <2>2, <2>3, <2>4, TrackedFinite, FS_CardinalityType
<1> QED
  BY <1>11, <1>13, <1>14, <1>15, <1>16 DEF FloodInv

LEMMA FloodStep == FloodInv /\ Flood!Next => FloodInv'
<1> SUFFICES ASSUME FloodInv, Flood!Next PROVE FloodInv'
  OBVIOUS
<1> USE FloodConstants
<1>1. CASE \E s \in FloodSources, o \in Opcodes : Flood!Request(s, o)
  BY <1>1, RequestStep
<1>2. CASE Flood!Clock
  <2> DEFINE Later(c) == IF c = None THEN None
                         ELSE [c EXCEPT !.age = IF @ > EntryTTL THEN @ ELSE @ + 1]
  <2>1. /\ tracked_in' = [s \in FloodSources |-> [o \in Opcodes |-> Later(tracked_in[s][o])]]
        /\ admitted' = [s \in FloodSources |-> [o \in Opcodes |-> Flood!Recent(admitted[s][o])]]
        /\ refused' = {}
    BY <1>2 DEF Flood!Clock
  <2>2. ASSUME NEW s \in FloodSources, NEW o \in Opcodes
        PROVE  /\ Later(tracked_in[s][o]) \in Flood!Counter \cup {None}
               /\ Flood!Recent(admitted[s][o]) \in Seq(Ages)
               /\ tracked_in[s][o] # None <=> Later(tracked_in[s][o]) # None
               /\ Later(tracked_in[s][o]) # None => Later(tracked_in[s][o]).count > 0
               /\ Shares(Later(tracked_in[s][o]), Flood!Recent(admitted[s][o]))
    <3>1. /\ tracked_in[s][o] \in Flood!Counter \cup {None}
          /\ Shares(tracked_in[s][o], admitted[s][o])
          /\ tracked_in[s][o] # None => tracked_in[s][o].count > 0
      BY DEF FloodInv
    <3>2. Shares(Later(tracked_in[s][o]), Flood!Recent(admitted[s][o]))
          /\ Later(tracked_in[s][o]) \in Flood!Counter \cup {None}
          /\ (Later(tracked_in[s][o]) = None <=> tracked_in[s][o] = None)
          /\ (tracked_in[s][o] # None => Later(tracked_in[s][o]).count = tracked_in[s][o].count)
      BY <3>1, SharesAge
    <3> HIDE DEF Later
    <3>3. Flood!Recent(admitted[s][o]) \in Seq(Ages)
      BY <3>2 DEF Shares, Shared, Ages
    <3> QED
      BY <3>1, <3>2, <3>3
  <2> HIDE DEF Later
  <2>3. tracked_in' \in [FloodSources -> [Opcodes -> Flood!Counter \cup {None}]]
        /\ admitted' \in [FloodSources -> [Opcodes -> Seq(Ages)]]
    BY <2>1, <2>2
  <2>4. \A s \in FloodSources, o \in Opcodes :
           tracked_in'[s][o] = Later(tracked_in[s][o])
           /\ admitted'[s][o] = Flood!Recent(admitted[s][o])
    BY <2>1
  <2>5. Flood!Tracked(tracked_in') = Flood!Tracked(tracked_in)
    BY <2>2, <2>4 DEF Flood!Tracked
  <2>6. \A s \in FloodSources, o \in Opcodes :
          /\ tracked_in'[s][o] # None => tracked_in'[s][o].count > 0
          /\ Shares(tracked_in'[s][o], admitted'[s][o])
    BY <2>2, <2>4
  <2>7. Cardinality(Flood!Tracked(tracked_in')) <= MaxFloodSources
    BY <2>5 DEF FloodInv
  <2> QED
    BY <2>1, <2>3, <2>6, <2>7 DEF FloodInv
<1> QED
  BY <1>1, <1>2 DEF Flood!Next

LEMMA FloodInit == Init => FloodInv
<1> SUFFICES ASSUME Init PROVE FloodInv
  OBVIOUS
<1> USE FloodConstants
<1>1. /\ tracked_in = [s \in FloodSources |-> [o \in Opcodes |-> None]]
      /\ admitted = [s \in FloodSources |-> [o \in Opcodes |-> <<>>]]
      /\ refused = {}
  BY DEF Init, Flood!Init
<1>2. Flood!Tracked(tracked_in) = {}
  BY <1>1 DEF Flood!Tracked
<1>3. Cardinality(Flood!Tracked(tracked_in)) <= MaxFloodSources
  BY <1>2, FS_EmptySet
<1>4. tracked_in \in [FloodSources -> [Opcodes -> Flood!Counter \cup {None}]]
      /\ admitted \in [FloodSources -> [Opcodes -> Seq(Ages)]]
  BY <1>1, NoShares
<1> QED
  BY <1>1, <1>3, <1>4, NoShares DEF FloodInv

\* Two windows' worth of requests of a kind at most get in within a minute, nobody is
\* refused whose share was not used up, and the sources tracked keep their cap.
THEOREM FloodsAreLimited == Spec => []FloodIsLimited
<1>1. FloodInv /\ [Next]_vars => FloodInv'
  <2>1. FloodInv /\ UNCHANGED flood => FloodInv'
    BY DEF FloodInv, flood
  <2> QED
    BY <2>1, FloodStep DEF Next, vars
<1>2. FloodInv => FloodIsLimited
  <2> SUFFICES ASSUME FloodInv PROVE FloodIsLimited
    OBVIOUS
  <2>1. ASSUME NEW s \in FloodSources, NEW o \in Opcodes
        PROVE  Len(admitted[s][o]) <= 2 * Limit
    <3>1. PICK c \in Flood!Counter \cup {None}, a \in Seq(Ages) :
              c = tracked_in[s][o] /\ a = admitted[s][o]
      BY DEF FloodInv
    <3>2. Shares(c, a) /\ Len(a) \in Nat /\ Limit \in Nat
      BY <3>1, FloodConstants DEF FloodInv
    <3>3. AgeOf(c) \in Nat /\ CountOf(c) \in 0 .. Limit
      BY <3>1, FloodConstants DEF AgeOf, CountOf, LetIn, Flood!Counter
    <3> QED
      BY <3>1, <3>2, <3>3, FloodConstants, SharedBound DEF Shares
  <2>2. Flood!Cardinality(Flood!Tracked(tracked_in)) = Cardinality(Flood!Tracked(tracked_in))
    BY DEF Flood!Cardinality, Cardinality, Flood!IsFiniteSet, IsFiniteSet
  <2>3. /\ \A r \in refused : Len(admitted[r[1]][r[2]]) >= Limit
        /\ Flood!Cardinality(Flood!Tracked(tracked_in)) <= MaxFloodSources
    BY <2>2 DEF FloodInv
  <2> QED
    BY <2>1, <2>3 DEF FloodIsLimited, Flood!FloodIsLimited
<1> QED
  BY <1>1, <1>2, FloodInit, PTL DEF Spec

-----------------------------------------------------------------------------
(* The outbound shaper *)

\* A counter of the window against its cap, when there is one.
Within(cap, count, age, ages) ==
    cap > 0 => count <= cap /\ Shared(age, count, cap, Second, ages)

Rates(age, gsent, psent, lanes, classes) ==
    /\ age \in 0 .. Second
    /\ gsent \in [Classes -> Nat] /\ DOMAIN classes = Classes
    /\ psent \in [Shaper!Lanes -> Nat] /\ DOMAIN lanes = Shaper!Lanes
    /\ \A x \in Classes : Within(Shaper!GlobalCap(x), gsent[x], age, classes[x])
    /\ \A x \in Shaper!Lanes : Within(Shaper!PeerCap(x[1]), psent[x], age, lanes[x])

ShaperInv == Rates(window, global_sent, peer_sent, sends, class_sends)

LEMMA ShaperConstants ==
    /\ Second \in Nat \ {0}
    /\ \A x \in Classes : Shaper!GlobalCap(x) \in Nat /\ Shaper!PeerCap(x) \in Nat
    /\ \A x \in Shaper!Lanes : x[1] \in Classes
<1>1. Shaper!ShaperAssumption
  BY InstancesAssumption
<1>2. /\ Classes \subseteq {"query", "hello", "bootstrap", "response"}
      /\ GlobalPerSec \in Nat /\ PeerPerSec \in Nat /\ GlobalFloor \in Nat /\ PeerFloor \in Nat
      /\ Second \in Nat \ {0}
  BY <1>1 DEF Shaper!ShaperAssumption
<1>3. \A x \in Classes : Shaper!Factor(x) \in {1, 2, 4}
  BY <1>2 DEF Shaper!Factor
<1>4. ASSUME NEW base \in Nat, NEW factor \in {1, 2, 4}, NEW floor \in Nat
      PROVE  Shaper!Scaled(base, factor, floor) \in Nat
  <2>1. base * factor \in Nat
    <3>1. factor = 1 \/ factor = 2 \/ factor = 4
      OBVIOUS
    <3>2. base * 1 \in Nat /\ base * 2 \in Nat /\ base * 4 \in Nat
      OBVIOUS
    <3> QED
      BY <3>1, <3>2
  <2> QED
    BY <2>1 DEF Shaper!Scaled
<1>5. ASSUME NEW x \in Classes PROVE Shaper!GlobalCap(x) \in Nat /\ Shaper!PeerCap(x) \in Nat
  <2>1. PICK factor \in {1, 2, 4} : factor = Shaper!Factor(x)
    BY <1>3
  <2>2. PICK gfloor \in Nat : gfloor = IF x = "query" THEN 0 ELSE GlobalFloor
    BY <1>2
  <2>3. PICK pfloor \in Nat : pfloor = IF x = "query" THEN 0 ELSE PeerFloor
    BY <1>2
  <2>4. Shaper!GlobalCap(x) = Shaper!Scaled(GlobalPerSec, factor, gfloor)
        /\ Shaper!PeerCap(x) = Shaper!Scaled(PeerPerSec, factor, pfloor)
    BY <2>1, <2>2, <2>3 DEF Shaper!GlobalCap, Shaper!PeerCap
  <2>5. Shaper!Scaled(GlobalPerSec, factor, gfloor) \in Nat
    BY <1>2, <1>4
  <2>6. Shaper!Scaled(PeerPerSec, factor, pfloor) \in Nat
    BY <1>2, <1>4
  <2> QED
    BY <2>4, <2>5, <2>6
<1>6. \A x \in Shaper!Lanes : x[1] \in Classes
  BY DEF Shaper!Lanes
<1> QED
  BY <1>2, <1>5, <1>6

LEMMA SendsRecentIs ==
    ASSUME NEW ages \in Seq(0 .. Second - 1), Ordered(ages), NEW ticks \in Nat
    PROVE  Passed(ages, ticks, Second, Shaper!Recent(ages, ticks))
<1> USE ShaperConstants
<1> DEFINE Cut(n) == \A i \in DOMAIN ages : i > n <=> ages[i] + ticks < Second
           gone == CHOOSE n \in 0 .. Len(ages) : Cut(n)
           r == Shaper!Recent(ages, ticks)
<1>1. Len(ages) \in Nat /\ DOMAIN ages = 1 .. Len(ages)
      /\ \A i \in 1 .. Len(ages) : ages[i] \in 0 .. Second - 1
  OBVIOUS
<1>2. \E n \in 0 .. Len(ages) : Cut(n)
  BY <1>1, CutExists
<1>3. gone \in 0 .. Len(ages) /\ Cut(gone)
  BY <1>2
<1>4. r = [i \in 1 .. Len(ages) - gone |-> ages[i + gone] + ticks]
  BY DEF Shaper!Recent
<1> HIDE DEF gone, r
<1>5. Len(ages) - gone \in Nat /\ gone \in Nat
  BY <1>1, <1>3
<1>6. ASSUME NEW i \in 1 .. Len(ages) - gone PROVE ages[i + gone] + ticks \in 0 .. Second - 1
  <2>1. i + gone \in 1 .. Len(ages) /\ i + gone > gone
    BY <1>1, <1>5, <1>6
  <2>2. ages[i + gone] + ticks < Second /\ ages[i + gone] \in 0 .. Second - 1
    BY <1>1, <1>3, <2>1
  <2> QED
    BY <2>2
<1>7. /\ r \in Seq(0 .. Second - 1) /\ Len(r) = Len(ages) - gone
      /\ \A i \in 1 .. Len(ages) - gone : r[i] = ages[i + gone] + ticks
  BY <1>4, <1>5, <1>6
<1> QED
  BY <1>1, <1>3, <1>7 DEF Passed, r

\* A new window starts with nothing in it, whether or not lanes are forgotten.
LEMMA RatesRoll ==
    ASSUME NEW s, NEW lanes, NEW classes, Rates(s.window, s.gsent, s.psent, lanes, classes),
           NEW t \in Shaper!Rolled(s)
    PROVE  /\ Rates(t.window, t.gsent, t.psent, lanes, classes) /\ t.window < Second
           /\ \A x \in Classes : t.gsent[x] = s.gsent[x] \/ t.gsent[x] = 0
           /\ \A x \in Shaper!Lanes : t.psent[x] = s.psent[x] \/ t.psent[x] = 0
<1> USE ShaperConstants
<1>1. CASE s.window < Second
  <2>1. t = s
    BY <1>1 DEF Shaper!Rolled
  <2> QED
    BY <1>1, <2>1
<1>2. CASE ~ (s.window < Second)
  <2>1. /\ t.window = 0 /\ t.gsent = [x \in Classes |-> 0]
        /\ t.psent = [x \in Shaper!Lanes |-> 0]
    BY <1>2 DEF Shaper!Rolled, Shaper!NoneSent
  <2>2. s.window \in Nat /\ s.window >= Second
    BY <1>2 DEF Rates
  <2>3. ASSUME NEW cap \in Nat, NEW count, NEW ages, Within(cap, count, s.window, ages)
        PROVE  Within(cap, 0, 0, ages)
    <3>1. CASE cap > 0
      <4>1. Shared(s.window, count, cap, Second, ages)
        BY <2>3, <3>1 DEF Within
      <4>2. Shared(0, 0, cap, Second, ages)
        BY <2>2, <4>1, SharedRolls
      <4> QED
        BY <4>2 DEF Within
    <3>2. CASE ~ (cap > 0)
      BY <3>2 DEF Within
    <3> QED
      BY <3>1, <3>2
  <2>4. \A x \in Classes : Within(Shaper!GlobalCap(x), t.gsent[x], t.window, classes[x])
    BY <2>1, <2>3 DEF Rates
  <2>5. \A x \in Shaper!Lanes : Within(Shaper!PeerCap(x[1]), t.psent[x], t.window, lanes[x])
    BY <2>1, <2>3 DEF Rates
  <2>6. Rates(t.window, t.gsent, t.psent, lanes, classes)
    BY <2>1, <2>4, <2>5 DEF Rates
  <2> QED
    BY <2>1, <2>6
<1> QED
  BY <1>1, <1>2

LEMMA RatesPass ==
    ASSUME NEW age, NEW gsent, NEW psent, NEW lanes, NEW classes,
           Rates(age, gsent, psent, lanes, classes), NEW ticks \in Nat
    PROVE  Rates(IF age + ticks > Second THEN Second ELSE age + ticks, gsent, psent,
                 Shaper!Past(lanes, ticks), Shaper!Past(classes, ticks))
<1> USE ShaperConstants
<1>1. PICK later : later = IF age + ticks > Second THEN Second ELSE age + ticks
  OBVIOUS
<1>2. age \in Nat /\ later \in 0 .. Second
      /\ IF age + ticks >= Second THEN later >= Second ELSE later = age + ticks
  BY <1>1 DEF Rates
<1>3. ASSUME NEW cap \in Nat, NEW count \in Nat, NEW ages, Within(cap, count, age, ages)
      PROVE  Within(cap, count, later, Shaper!Recent(ages, ticks))
  <2>1. CASE cap > 0
    <3>1. Shared(age, count, cap, Second, ages) /\ count \in 0 .. cap
      BY <1>3, <2>1 DEF Within
    <3>2. ages \in Seq(0 .. Second - 1) /\ Ordered(ages)
      BY <3>1 DEF Shared
    <3>3. Passed(ages, ticks, Second, Shaper!Recent(ages, ticks))
      BY <3>2, SendsRecentIs
    <3>4. Shared(later, count, cap, Second, Shaper!Recent(ages, ticks))
      BY <1>2, <3>1, <3>3, SharedAges
    <3> QED
      BY <3>1, <3>4 DEF Within
  <2>2. CASE ~ (cap > 0)
    BY <2>2 DEF Within
  <2> QED
    BY <2>1, <2>2
<1>4. /\ DOMAIN lanes = Shaper!Lanes /\ DOMAIN classes = Classes
      /\ gsent \in [Classes -> Nat] /\ psent \in [Shaper!Lanes -> Nat]
  BY DEF Rates
<1>5. /\ Shaper!Past(lanes, ticks) = [x \in Shaper!Lanes |-> Shaper!Recent(lanes[x], ticks)]
      /\ Shaper!Past(classes, ticks) = [x \in Classes |-> Shaper!Recent(classes[x], ticks)]
  BY <1>4 DEF Shaper!Past
<1>6. \A x \in Classes :
         Within(Shaper!GlobalCap(x), gsent[x], later, Shaper!Past(classes, ticks)[x])
  BY <1>3, <1>4, <1>5 DEF Rates
<1>7. \A x \in Shaper!Lanes :
         Within(Shaper!PeerCap(x[1]), psent[x], later, Shaper!Past(lanes, ticks)[x])
  BY <1>3, <1>4, <1>5 DEF Rates
<1>8. Rates(later, gsent, psent, Shaper!Past(lanes, ticks), Shaper!Past(classes, ticks))
  BY <1>2, <1>4, <1>5, <1>6, <1>7 DEF Rates
<1> QED
  BY <1>1, <1>8

\* A packet that has room is counted for its class and its lane.
LEMMA RatesMark ==
    ASSUME NEW age, age < Second, NEW gsent, NEW psent, NEW lanes, NEW classes,
           Rates(age, gsent, psent, lanes, classes), NEW lane \in Shaper!Lanes,
           Shaper!GlobalCap(lane[1]) > 0 => gsent[lane[1]] < Shaper!GlobalCap(lane[1]),
           Shaper!PeerCap(lane[1]) > 0 => psent[lane] < Shaper!PeerCap(lane[1])
    PROVE  Rates(age, [gsent EXCEPT ![lane[1]] = @ + 1], [psent EXCEPT ![lane] = @ + 1],
                 [lanes EXCEPT ![lane] = Append(@, 0)],
                 [classes EXCEPT ![lane[1]] = Append(@, 0)])
<1> USE ShaperConstants
<1>1. PICK class \in Classes : class = lane[1]
  OBVIOUS
<1>2. age \in Nat
  BY DEF Rates
<1>3. ASSUME NEW cap \in Nat, NEW count \in Nat, NEW ages, Within(cap, count, age, ages),
             cap > 0 => count < cap
      PROVE  Within(cap, count + 1, age, Append(ages, 0))
  <2>1. CASE cap > 0
    <3>1. Shared(age, count, cap, Second, ages)
      BY <1>3, <2>1 DEF Within
    <3>2. Shared(age, count + 1, cap, Second, Append(ages, 0))
      BY <1>2, <3>1, SharedGrows
    <3>3. count + 1 <= cap
      BY <1>3, <2>1
    <3> QED
      BY <3>2, <3>3 DEF Within
  <2>2. CASE ~ (cap > 0)
    BY <2>2 DEF Within
  <2> QED
    BY <2>1, <2>2
<1>4. /\ DOMAIN lanes = Shaper!Lanes /\ DOMAIN classes = Classes
      /\ gsent \in [Classes -> Nat] /\ psent \in [Shaper!Lanes -> Nat]
      /\ \A x \in Classes : Within(Shaper!GlobalCap(x), gsent[x], age, classes[x])
      /\ \A x \in Shaper!Lanes : Within(Shaper!PeerCap(x[1]), psent[x], age, lanes[x])
  BY DEF Rates
<1>5. PICK g, p, ls, cs :
         /\ g = [gsent EXCEPT ![class] = @ + 1] /\ p = [psent EXCEPT ![lane] = @ + 1]
         /\ ls = [lanes EXCEPT ![lane] = Append(@, 0)]
         /\ cs = [classes EXCEPT ![class] = Append(@, 0)]
  OBVIOUS
<1>6. /\ g \in [Classes -> Nat] /\ p \in [Shaper!Lanes -> Nat]
      /\ DOMAIN ls = Shaper!Lanes /\ DOMAIN cs = Classes
      /\ g[class] = gsent[class] + 1 /\ cs[class] = Append(classes[class], 0)
      /\ p[lane] = psent[lane] + 1 /\ ls[lane] = Append(lanes[lane], 0)
      /\ \A x \in Classes : x # class => g[x] = gsent[x] /\ cs[x] = classes[x]
      /\ \A x \in Shaper!Lanes : x # lane => p[x] = psent[x] /\ ls[x] = lanes[x]
  BY <1>4, <1>5
<1>7. ASSUME NEW x \in Classes PROVE Within(Shaper!GlobalCap(x), g[x], age, cs[x])
  <2>1. CASE x = class
    <3>1. Shaper!GlobalCap(class) \in Nat /\ gsent[class] \in Nat
          /\ Within(Shaper!GlobalCap(class), gsent[class], age, classes[class])
          /\ (Shaper!GlobalCap(class) > 0 => gsent[class] < Shaper!GlobalCap(class))
      BY <1>1, <1>4
    <3>2. Within(Shaper!GlobalCap(class), gsent[class] + 1, age, Append(classes[class], 0))
      BY <1>3, <3>1
    <3> QED
      BY <1>6, <2>1, <3>2
  <2>2. CASE x # class
    BY <1>4, <1>6, <2>2
  <2> QED
    BY <2>1, <2>2
<1>8. ASSUME NEW x \in Shaper!Lanes PROVE Within(Shaper!PeerCap(x[1]), p[x], age, ls[x])
  <2>1. CASE x = lane
    <3>1. Shaper!PeerCap(lane[1]) \in Nat /\ psent[lane] \in Nat
          /\ Within(Shaper!PeerCap(lane[1]), psent[lane], age, lanes[lane])
      BY <1>4
    <3>2. Within(Shaper!PeerCap(lane[1]), psent[lane] + 1, age, Append(lanes[lane], 0))
      BY <1>3, <3>1
    <3> QED
      BY <1>6, <2>1, <3>2
  <2>2. CASE x # lane
    BY <1>4, <1>6, <2>2
  <2> QED
    BY <2>1, <2>2
<1>9. age \in 0 .. Second
  BY DEF Rates
<1>10. Rates(age, g, p, ls, cs)
  BY <1>6, <1>7, <1>8, <1>9 DEF Rates
<1> QED
  BY <1>1, <1>5, <1>10

\* The shaper's state as a record: what its helpers make of it.
Recorded(s) == \E w, g, p, gl, pl :
    s = [window |-> w, gsent |-> g, psent |-> p, glast |-> gl, plast |-> pl]

LEMMA ShaperIs ==
    /\ Recorded(Shaper!Shaper)
    /\ Shaper!Shaper.window = window /\ Shaper!Shaper.gsent = global_sent
    /\ Shaper!Shaper.psent = peer_sent /\ Shaper!Shaper.plast = last_peer
<1>1. PICK b : b = [window |-> window, gsent |-> global_sent, psent |-> peer_sent,
                    glast |-> last_global, plast |-> last_peer]
  OBVIOUS
<1>2. /\ b.window = window /\ b.gsent = global_sent /\ b.psent = peer_sent /\ b.plast = last_peer
      /\ Recorded(b)
  BY <1>1 DEF Recorded
<1> QED
  BY <1>1, <1>2 DEF Shaper!Shaper

LEMMA RolledIs ==
    ASSUME NEW s, Recorded(s), NEW t \in Shaper!Rolled(s)
    PROVE  /\ Recorded(t)
           /\ \/ t = s
              \/ /\ ~ (s.window < Second)
                 /\ \E K \in Shaper!KeptLanes(s.plast) : t.plast = [x \in K |-> s.plast[x]]
<1>1. CASE s.window < Second
  BY <1>1 DEF Shaper!Rolled
<1>2. CASE ~ (s.window < Second)
  <2>1. PICK K \in Shaper!KeptLanes(s.plast) :
          t = [window |-> 0, gsent |-> Shaper!NoneSent(Classes), psent |-> Shaper!NoneSent(Shaper!Lanes),
               glast |-> s.glast, plast |-> [x \in K |-> s.plast[x]]]
    BY <1>2 DEF Shaper!Rolled
  <2>2. Recorded(t)
    BY <2>1 DEF Recorded
  <2>3. t.plast = [x \in K |-> s.plast[x]]
    BY <2>1
  <2> QED
    BY <1>2, <2>2, <2>3
<1> QED
  BY <1>1, <1>2

LEMMA AfterIs ==
    ASSUME NEW s, Recorded(s), NEW ticks
    PROVE  LET a == Shaper!After(s, ticks)
           IN  /\ Recorded(a)
               /\ a.window = IF s.window + ticks > Second THEN Second ELSE s.window + ticks
               /\ a.gsent = s.gsent /\ a.psent = s.psent
               /\ a.plast = Shaper!Later(s.plast, ticks, StateTTL + 1)
<1>1. PICK w, g, p, gl, pl :
         s = [window |-> w, gsent |-> g, psent |-> p, glast |-> gl, plast |-> pl]
  BY DEF Recorded
<1>2. PICK W, GL, PL : /\ W = (IF s.window + ticks > Second THEN Second ELSE s.window + ticks)
                       /\ GL = Shaper!Later(s.glast, ticks, GlobalInterval)
                       /\ PL = Shaper!Later(s.plast, ticks, StateTTL + 1)
  OBVIOUS
<1>3. Shaper!After(s, ticks) = [s EXCEPT !.window = W, !.glast = GL, !.plast = PL]
  BY <1>2 DEF Shaper!After
<1>4. PICK s1 : s1 = [s EXCEPT !.window = W]
  OBVIOUS
<1>5. s1 = [window |-> W, gsent |-> g, psent |-> p, glast |-> gl, plast |-> pl]
  BY <1>1, <1>4
<1>6. PICK s2 : s2 = [s1 EXCEPT !.glast = GL]
  OBVIOUS
<1>7. s2 = [window |-> W, gsent |-> g, psent |-> p, glast |-> GL, plast |-> pl]
  BY <1>5, <1>6
<1>8. PICK s3 : s3 = [s2 EXCEPT !.plast = PL]
  OBVIOUS
<1>9. s3 = [window |-> W, gsent |-> g, psent |-> p, glast |-> GL, plast |-> PL]
  BY <1>7, <1>8
<1>10. s3 = Shaper!After(s, ticks)
  BY <1>3, <1>4, <1>6, <1>8
<1>11. s.gsent = g /\ s.psent = p
  BY <1>1
<1>12. Recorded(s3) /\ s3.window = W /\ s3.gsent = g /\ s3.psent = p /\ s3.plast = PL
  BY <1>9 DEF Recorded
<1> QED
  BY <1>2, <1>10, <1>11, <1>12

LEMMA MarkedIs ==
    ASSUME NEW s, Recorded(s), NEW lane
    PROVE  LET m == Shaper!Marked(s, lane)
           IN  /\ m.window = s.window
               /\ m.gsent = [s.gsent EXCEPT ![lane[1]] = @ + 1]
               /\ m.psent = [s.psent EXCEPT ![lane] = @ + 1]
               /\ m.plast = Shaper!Assign(s.plast, lane)
<1>1. PICK w, g, p, gl, pl :
         s = [window |-> w, gsent |-> g, psent |-> p, glast |-> gl, plast |-> pl]
  BY DEF Recorded
<1> QED
  BY <1>1 DEF Shaper!Marked

LEMMA BecomeIs ==
    ASSUME NEW s, Shaper!Become(s)
    PROVE  /\ window' = s.window /\ global_sent' = s.gsent /\ peer_sent' = s.psent
           /\ last_peer' = s.plast
BY DEF Shaper!Become

\* What a send does, from one of its states to the next.
Sending(lane, s, took, a, ls, cs, t) ==
    /\ s \in Shaper!Rolled(Shaper!Shaper) /\ Recorded(s) /\ Shaper!Sendable(s, lane)
    /\ took \in Nat
    /\ Recorded(a) /\ a = Shaper!After(s, took)
    /\ ls = Shaper!Past(sends, took) /\ cs = Shaper!Past(class_sends, took)
    /\ t \in Shaper!Rolled(a)
    /\ window' = t.window
    /\ global_sent' = [t.gsent EXCEPT ![lane[1]] = @ + 1]
    /\ peer_sent' = [t.psent EXCEPT ![lane] = @ + 1]
    /\ last_peer' = Shaper!Assign(t.plast, lane)
    /\ sends' = [ls EXCEPT ![lane] = Append(@, 0)]
    /\ class_sends' = [cs EXCEPT ![lane[1]] = Append(@, 0)]

LEMMA SendIs ==
    ASSUME NEW lane \in Shaper!Lanes, Shaper!Send(lane)
    PROVE  \E s, took, a, ls, cs, t : Sending(lane, s, took, a, ls, cs, t)
<1>1. PICK s \in Shaper!Rolled(Shaper!Shaper), took \in 0 .. 1 :
      /\ Shaper!Sendable(s, lane)
      /\ \E t \in Shaper!Rolled(Shaper!After(s, took)) : Shaper!Become(Shaper!Marked(t, lane))
      /\ sends' = [Shaper!Past(sends, took) EXCEPT ![lane] = Append(@, 0)]
      /\ class_sends' = [Shaper!Past(class_sends, took) EXCEPT ![lane[1]] = Append(@, 0)]
  BY DEF Shaper!Send
<1>2. PICK t \in Shaper!Rolled(Shaper!After(s, took)) : Shaper!Become(Shaper!Marked(t, lane))
  BY <1>1
<1>3. PICK a, ls, cs : /\ a = Shaper!After(s, took)
                       /\ ls = Shaper!Past(sends, took) /\ cs = Shaper!Past(class_sends, took)
  OBVIOUS
<1>4. Recorded(s)
  BY ShaperIs, RolledIs
<1>5. Recorded(a)
  BY <1>3, <1>4, AfterIs
<1>6. Recorded(t)
  BY <1>2, <1>3, <1>5, RolledIs
<1>7. PICK m : m = Shaper!Marked(t, lane)
  OBVIOUS
<1>8. /\ m.window = t.window /\ m.gsent = [t.gsent EXCEPT ![lane[1]] = @ + 1]
      /\ m.psent = [t.psent EXCEPT ![lane] = @ + 1] /\ m.plast = Shaper!Assign(t.plast, lane)
  BY <1>6, <1>7, MarkedIs
<1>9. /\ window' = m.window /\ global_sent' = m.gsent /\ peer_sent' = m.psent
      /\ last_peer' = m.plast
  BY <1>2, <1>7, BecomeIs
<1>10. Sending(lane, s, took, a, ls, cs, t)
  BY <1>1, <1>2, <1>3, <1>4, <1>5, <1>8, <1>9 DEF Sending
<1> QED
  BY <1>10

LEMMA ShaperStep == ShaperInv /\ Shaper!Next => ShaperInv'
<1> SUFFICES ASSUME ShaperInv, Shaper!Next PROVE ShaperInv'
  OBVIOUS
<1>1. PICK b : b = Shaper!Shaper
  OBVIOUS
<1>2. Recorded(b) /\ Rates(b.window, b.gsent, b.psent, sends, class_sends)
  BY <1>1, ShaperIs DEF ShaperInv
<1>3. ASSUME NEW lane \in Shaper!Lanes, Shaper!Send(lane) PROVE ShaperInv'
  <2>1. PICK s, took, a, ls, cs, t : Sending(lane, s, took, a, ls, cs, t)
    BY <1>3, SendIs
  <2>2. /\ s \in Shaper!Rolled(b) /\ Recorded(s) /\ Shaper!Sendable(s, lane)
        /\ took \in Nat /\ a = Shaper!After(s, took)
        /\ ls = Shaper!Past(sends, took) /\ cs = Shaper!Past(class_sends, took)
        /\ t \in Shaper!Rolled(a)
    BY <1>1, <2>1 DEF Sending
  <2>3. /\ window' = t.window
        /\ global_sent' = [t.gsent EXCEPT ![lane[1]] = @ + 1]
        /\ peer_sent' = [t.psent EXCEPT ![lane] = @ + 1]
        /\ sends' = [ls EXCEPT ![lane] = Append(@, 0)]
        /\ class_sends' = [cs EXCEPT ![lane[1]] = Append(@, 0)]
    BY <2>1 DEF Sending
  <2>4. Rates(s.window, s.gsent, s.psent, sends, class_sends)
    BY <1>2, <2>2, RatesRoll
  <2>5. /\ a.window = IF s.window + took > Second THEN Second ELSE s.window + took
        /\ a.gsent = s.gsent /\ a.psent = s.psent
    BY <2>2, AfterIs
  <2>6. Rates(a.window, a.gsent, a.psent, ls, cs)
    BY <2>2, <2>4, <2>5, RatesPass
  <2>7. /\ Rates(t.window, t.gsent, t.psent, ls, cs) /\ t.window < Second
        /\ t.gsent[lane[1]] = a.gsent[lane[1]] \/ t.gsent[lane[1]] = 0
        /\ t.psent[lane] = a.psent[lane] \/ t.psent[lane] = 0
    BY <2>2, <2>6, RatesRoll, ShaperConstants
  <2>8. /\ Shaper!GlobalCap(lane[1]) > 0 => s.gsent[lane[1]] < Shaper!GlobalCap(lane[1])
        /\ Shaper!PeerCap(lane[1]) > 0 => s.psent[lane] < Shaper!PeerCap(lane[1])
    BY <2>2 DEF Shaper!Sendable, Shaper!HasRoom
  <2>9. /\ Shaper!GlobalCap(lane[1]) > 0 => t.gsent[lane[1]] < Shaper!GlobalCap(lane[1])
        /\ Shaper!PeerCap(lane[1]) > 0 => t.psent[lane] < Shaper!PeerCap(lane[1])
    BY <2>5, <2>7, <2>8
  <2>10. Rates(t.window, [t.gsent EXCEPT ![lane[1]] = @ + 1], [t.psent EXCEPT ![lane] = @ + 1],
               [ls EXCEPT ![lane] = Append(@, 0)], [cs EXCEPT ![lane[1]] = Append(@, 0)])
    BY <2>7, <2>9, RatesMark
  <2> QED
    BY <2>3, <2>10 DEF ShaperInv
<1>4. ASSUME NEW lane \in Shaper!Lanes, Shaper!Unsent(lane) PROVE ShaperInv'
  <2>1. PICK s \in Shaper!Rolled(b) : Shaper!Become(s) /\ UNCHANGED <<sends, class_sends>>
    BY <1>1, <1>4 DEF Shaper!Unsent
  <2>2. Rates(s.window, s.gsent, s.psent, sends, class_sends)
    BY <1>2, RatesRoll
  <2> QED
    BY <2>1, <2>2, BecomeIs DEF ShaperInv
<1>5. CASE Shaper!Clock
  <2>1. PICK a : a = Shaper!After(b, 1)
    OBVIOUS
  <2>2. /\ Shaper!Become(a)
        /\ sends' = Shaper!Past(sends, 1) /\ class_sends' = Shaper!Past(class_sends, 1)
    BY <1>1, <1>5, <2>1 DEF Shaper!Clock
  <2>3. 1 \in Nat
    OBVIOUS
  <2>4. /\ a.window = IF b.window + 1 > Second THEN Second ELSE b.window + 1
        /\ a.gsent = b.gsent /\ a.psent = b.psent
    BY <1>2, <2>1, AfterIs
  <2>5. Rates(a.window, a.gsent, a.psent, sends', class_sends')
    BY <1>2, <2>2, <2>3, <2>4, RatesPass
  <2> QED
    BY <2>2, <2>5, BecomeIs DEF ShaperInv
<1> QED
  BY <1>3, <1>4, <1>5 DEF Shaper!Next

LEMMA ShaperInit == Init => ShaperInv
<1> SUFFICES ASSUME Init PROVE ShaperInv
  OBVIOUS
<1> USE ShaperConstants
<1>1. /\ window = 0 /\ global_sent = [x \in Classes |-> 0]
      /\ peer_sent = [x \in Shaper!Lanes |-> 0]
      /\ sends = [x \in Shaper!Lanes |-> <<>>] /\ class_sends = [x \in Classes |-> <<>>]
  BY DEF Init, Shaper!Init, Shaper!NoneSent
<1>2. ASSUME NEW cap \in Nat PROVE Within(cap, 0, 0, <<>>)
  BY SharedEmpty DEF Within
<1>3. \A x \in Classes : Within(Shaper!GlobalCap(x), global_sent[x], window, class_sends[x])
  BY <1>1, <1>2
<1>4. \A x \in Shaper!Lanes : Within(Shaper!PeerCap(x[1]), peer_sent[x], window, sends[x])
  BY <1>1, <1>2
<1> QED
  BY <1>1, <1>3, <1>4 DEF ShaperInv, Rates

LEMMA CapsFollow == ShaperInv => Shaper!CapIsKept
<1> SUFFICES ASSUME ShaperInv PROVE Shaper!CapIsKept
  OBVIOUS
<1> USE ShaperConstants
<1>1. ASSUME NEW cap \in Nat, cap > 0, NEW count \in Nat, NEW ages, Within(cap, count, window, ages)
      PROVE  Len(ages) <= 2 * cap
  <2>1. window \in Nat /\ count \in 0 .. cap /\ Shared(window, count, cap, Second, ages)
    BY <1>1 DEF ShaperInv, Rates, Within
  <2> QED
    BY <2>1, SharedBound
<1>2. ASSUME NEW x \in Classes, Shaper!GlobalCap(x) > 0
      PROVE  Len(class_sends[x]) <= 2 * Shaper!GlobalCap(x)
  <2>1. global_sent[x] \in Nat
        /\ Within(Shaper!GlobalCap(x), global_sent[x], window, class_sends[x])
    BY DEF ShaperInv, Rates
  <2> QED
    BY <1>1, <1>2, <2>1
<1>3. ASSUME NEW x \in Classes, Shaper!PeerCap(x) > 0, NEW p \in Peers
      PROVE  Len(sends[<<x, p>>]) <= 2 * Shaper!PeerCap(x)
  <2>1. <<x, p>> \in Shaper!Lanes /\ <<x, p>>[1] = x
    BY DEF Shaper!Lanes
  <2>2. peer_sent[<<x, p>>] \in Nat
        /\ Within(Shaper!PeerCap(x), peer_sent[<<x, p>>], window, sends[<<x, p>>])
    BY <2>1 DEF ShaperInv, Rates
  <2> QED
    BY <1>1, <1>3, <2>2
<1> QED
  BY <1>2, <1>3 DEF Shaper!CapIsKept

\* In any second a class gets at most two windows' worth of packets out, in all and to a
\* peer, although a send may end in the window after the one that had room for it.
THEOREM CapsAreKept == Spec => []Shaper!CapIsKept
<1>1. ShaperInv /\ [Next]_vars => ShaperInv'
  <2>1. ShaperInv /\ UNCHANGED shaper => ShaperInv'
    BY DEF ShaperInv, shaper
  <2> QED
    BY <2>1, ShaperStep DEF Next, vars
<1>2. ShaperInv => Shaper!CapIsKept
  BY CapsFollow
<1> QED
  BY <1>1, <1>2, ShaperInit, PTL DEF Spec

-----------------------------------------------------------------------------
(* The gap between two packets for one peer *)

LEMMA Together ==
    ASSUME NEW S, IsFiniteSet(S), NEW T, IsFiniteSet(T)
    PROVE  /\ IsFiniteSet(S \cup T) /\ Cardinality(S \cup T) \in Nat
           /\ Cardinality(S \cup T) <= Cardinality(S) + Cardinality(T)
<1>1. PICK a, b, c \in Nat : /\ a = Cardinality(S) /\ b = Cardinality(T) /\ c = Cardinality(S \cap T)
  BY FS_Intersection, FS_CardinalityType
<1>2. IsFiniteSet(S \cup T) /\ Cardinality(S \cup T) = a + b - c
  BY <1>1, FS_Union
<1>3. a + b - c <= a + b
  OBVIOUS
<1> QED
  BY <1>1, <1>2, <1>3, FS_CardinalityType

LEMMA AppendIs ==
    ASSUME NEW ages \in Seq(0 .. Second - 1)
    PROVE  /\ Append(ages, 0) \in Seq(0 .. Second - 1) /\ Len(Append(ages, 0)) = Len(ages) + 1
           /\ Append(ages, 0)[Len(ages) + 1] = 0
           /\ Len(Append(ages, 0)) \in Nat /\ Append(ages, 0)[Len(Append(ages, 0))] = 0
           /\ \A i \in 1 .. Len(ages) : Append(ages, 0)[i] = ages[i]
<1>1. 0 \in 0 .. Second - 1
  BY ShaperConstants
<1> QED
  BY <1>1

\* The last send of a lane is on record, or too long ago to matter.
Remembered(record, x, ages) ==
    /\ ages \in Seq(0 .. Second - 1) /\ Ordered(ages) /\ Spaced(ages, Shaper!PeerGap(x[1]))
    /\ Len(ages) > 0 => \/ ages[Len(ages)] >= Shaper!PeerGap(x[1])
                        \/ x \in DOMAIN record /\ record[x] = ages[Len(ages)]

Young(record, x) == x \in DOMAIN record /\ record[x] < Second /\ record[x] <= StateTTL

\* The sends of a class in the last second, by peer: no more lanes are young than these.
Named(record, class, ages) ==
    /\ ages \in Seq(0 .. Second - 1) /\ Ordered(ages)
    /\ \E who \in [1 .. Len(ages) -> Peers] : \A p \in Peers :
          Young(record, <<class, p>>) =>
             \E i \in 1 .. Len(ages) : who[i] = p /\ ages[i] = record[<<class, p>>]

LEMMA SameYoung ==
    ASSUME NEW r, NEW record, NEW class, NEW ages, Named(record, class, ages),
           \A p \in Peers : Young(r, <<class, p>>) =>
              Young(record, <<class, p>>) /\ r[<<class, p>>] = record[<<class, p>>]
    PROVE  Named(r, class, ages)
<1>1. PICK who \in [1 .. Len(ages) -> Peers] : \A p \in Peers :
        Young(record, <<class, p>>) =>
           \E i \in 1 .. Len(ages) : who[i] = p /\ ages[i] = record[<<class, p>>]
  BY DEF Named
<1>2. ASSUME NEW p \in Peers, Young(r, <<class, p>>)
      PROVE  \E i \in 1 .. Len(ages) : who[i] = p /\ ages[i] = r[<<class, p>>]
  BY <1>1, <1>2
<1>3. ages \in Seq(0 .. Second - 1) /\ Ordered(ages)
  BY DEF Named
<1> QED
  BY <1>2, <1>3 DEF Named

Gaps(record, lanes, classes) ==
    /\ DOMAIN record \subseteq Shaper!Lanes /\ \A x \in DOMAIN record : record[x] \in Nat
    /\ DOMAIN lanes = Shaper!Lanes /\ DOMAIN classes = Classes
    /\ \A x \in Shaper!Lanes : Remembered(record, x, lanes[x])
    /\ \A class \in Classes : Named(record, class, classes[class])

GapsInv == Gaps(last_peer, sends, class_sends)

Share(class) == IF class \in Classes THEN Shaper!GlobalCap(class) ELSE 0

\* Every class has a cap, and the lanes that the caps let into a window can all be kept.
\* The configuration's defaults make that 360 lanes of the 8192.
RecordsFit ==
    /\ \A class \in Classes : Shaper!GlobalCap(class) > 0
    /\ Share("query") + Share("hello") + Share("bootstrap") + Share("response") <= StateMax

LEMMA GapConstants ==
    /\ StateTTL \in Nat /\ StateMax \in Nat /\ IsFiniteSet(Peers)
    /\ Classes \subseteq {"query", "hello", "bootstrap", "response"}
    /\ \A x \in Classes : Shaper!PeerGap(x) \in 0 .. StateTTL
    /\ \A c \in Classes, p \in Peers : <<c, p>> \in Shaper!Lanes
    /\ \A x \in Shaper!Lanes : x[1] \in Classes /\ x[2] \in Peers /\ x = <<x[1], x[2]>>
<1>1. Shaper!ShaperAssumption
  BY InstancesAssumption
<1>2. /\ Classes \subseteq {"query", "hello", "bootstrap", "response"}
      /\ PeerInterval \in Nat /\ StateTTL \in Nat /\ StateMax \in Nat /\ StateTTL > PeerInterval
  BY <1>1 DEF Shaper!ShaperAssumption
<1>3. IsFiniteSet(Peers)
  BY <1>1 DEF Shaper!ShaperAssumption, Shaper!IsFiniteSet, IsFiniteSet
<1>4. PeerInterval \div 2 \in Nat /\ PeerInterval \div 2 <= PeerInterval
  BY <1>2
<1>5. ASSUME NEW x \in Classes PROVE Shaper!PeerGap(x) \in 0 .. StateTTL
  <2>1. x = "query" => Shaper!PeerGap(x) = PeerInterval
    BY DEF Shaper!PeerGap
  <2>2. x \in {"hello", "bootstrap"} => Shaper!PeerGap(x) = PeerInterval \div 2
    BY DEF Shaper!PeerGap
  <2>3. x = "response" => Shaper!PeerGap(x) = 0
    BY DEF Shaper!PeerGap
  <2> QED
    BY <1>2, <1>4, <2>1, <2>2, <2>3
<1> QED
  BY <1>2, <1>3, <1>5 DEF Shaper!Lanes

\* Later, the records are as much older, or as old as records get.
LEMMA GapsPass ==
    ASSUME NEW record, NEW lanes, NEW classes, Gaps(record, lanes, classes), NEW ticks \in Nat
    PROVE  Gaps(Shaper!Later(record, ticks, StateTTL + 1),
                Shaper!Past(lanes, ticks), Shaper!Past(classes, ticks))
<1> USE ShaperConstants, GapConstants
<1>1. PICK r : r = Shaper!Later(record, ticks, StateTTL + 1)
  OBVIOUS
<1>2. /\ DOMAIN record \subseteq Shaper!Lanes /\ \A x \in DOMAIN record : record[x] \in Nat
      /\ DOMAIN lanes = Shaper!Lanes /\ DOMAIN classes = Classes
      /\ \A x \in Shaper!Lanes : Remembered(record, x, lanes[x])
      /\ \A c \in Classes : Named(record, c, classes[c])
  BY DEF Gaps
<1>3. /\ DOMAIN r = DOMAIN record
      /\ \A x \in DOMAIN record :
            r[x] = IF record[x] + ticks > StateTTL + 1 THEN StateTTL + 1 ELSE record[x] + ticks
  BY <1>1 DEF Shaper!Later
<1>4. \A x \in DOMAIN r : r[x] \in Nat
  BY <1>2, <1>3
<1>5. /\ Shaper!Past(lanes, ticks) = [x \in Shaper!Lanes |-> Shaper!Recent(lanes[x], ticks)]
      /\ Shaper!Past(classes, ticks) = [x \in Classes |-> Shaper!Recent(classes[x], ticks)]
  BY <1>2 DEF Shaper!Past
<1>6. ASSUME NEW x \in Shaper!Lanes PROVE Remembered(r, x, Shaper!Recent(lanes[x], ticks))
  <2>1. PICK ages \in Seq(0 .. Second - 1) : ages = lanes[x]
    BY <1>2 DEF Remembered
  <2>2. PICK gap \in 0 .. StateTTL : gap = Shaper!PeerGap(x[1])
    OBVIOUS
  <2>3. /\ Ordered(ages) /\ Spaced(ages, gap)
        /\ Len(ages) > 0 => \/ ages[Len(ages)] >= gap
                            \/ x \in DOMAIN record /\ record[x] = ages[Len(ages)]
    BY <1>2, <2>1, <2>2 DEF Remembered
  <2>4. PICK q : q = Shaper!Recent(ages, ticks)
    OBVIOUS
  <2>5. Passed(ages, ticks, Second, q)
    BY <2>3, <2>4, SendsRecentIs
  <2>6. Ordered(q)
    BY <2>3, <2>5, PassedOrdered
  <2>7. PICK n \in 0 .. Len(ages) :
          /\ Len(q) = Len(ages) - n /\ q \in Seq(0 .. Second - 1)
          /\ \A i \in 1 .. Len(q) : q[i] = ages[i + n] + ticks
    BY <2>5 DEF Passed
  <2>8. \A i \in 1 .. Len(ages) : ages[i] \in Nat
    OBVIOUS
  <2>10. Spaced(q, gap)
    BY <2>3, <2>5, PassedSpaced
  <2>11. ASSUME Len(q) > 0
         PROVE  q[Len(q)] >= gap \/ (x \in DOMAIN r /\ r[x] = q[Len(q)])
    <3>1. Len(ages) > 0 /\ ages[Len(ages)] \in Nat /\ q[Len(q)] = ages[Len(ages)] + ticks
      BY <2>5, <2>11, PassedLast
    <3>2. PICK a \in Nat : a = ages[Len(ages)]
      BY <3>1
    <3>3. q[Len(q)] = a + ticks
      BY <3>1, <3>2
    <3>4. CASE a >= gap
      BY <3>3, <3>4
    <3>5. CASE x \in DOMAIN record /\ record[x] = a
      <4>1. r[x] = IF a + ticks > StateTTL + 1 THEN StateTTL + 1 ELSE a + ticks
        BY <1>3, <3>5
      <4>2. q[Len(q)] >= gap \/ r[x] = q[Len(q)]
        BY <3>3, <4>1
      <4> QED
        BY <1>3, <3>5, <4>2
    <3> QED
      BY <2>3, <3>1, <3>2, <3>4, <3>5
  <2>12. Remembered(r, x, q)
    BY <2>2, <2>6, <2>7, <2>10, <2>11 DEF Remembered
  <2> QED
    BY <2>1, <2>4, <2>12
<1>7. ASSUME NEW c \in Classes PROVE Named(r, c, Shaper!Recent(classes[c], ticks))
  <2>1. PICK ages \in Seq(0 .. Second - 1) : ages = classes[c]
    BY <1>2 DEF Named
  <2>2. Named(record, c, ages) /\ Ordered(ages)
    <3>1. Named(record, c, ages)
      BY <1>2, <2>1
    <3> QED
      BY <3>1 DEF Named
  <2>3. PICK who \in [1 .. Len(ages) -> Peers] : \A p \in Peers :
          Young(record, <<c, p>>) =>
             \E i \in 1 .. Len(ages) : who[i] = p /\ ages[i] = record[<<c, p>>]
    BY <2>2 DEF Named
  <2>4. PICK q : q = Shaper!Recent(ages, ticks)
    OBVIOUS
  <2>5. Passed(ages, ticks, Second, q)
    BY <2>2, <2>4, SendsRecentIs
  <2>6. Ordered(q)
    BY <2>2, <2>5, PassedOrdered
  <2>7. PICK n \in 0 .. Len(ages) :
          /\ \A i \in 1 .. Len(ages) : i > n <=> ages[i] + ticks < Second
          /\ Len(q) = Len(ages) - n /\ q \in Seq(0 .. Second - 1)
          /\ \A i \in 1 .. Len(q) : q[i] = ages[i + n] + ticks
    BY <2>5 DEF Passed
  <2>8. Len(ages) \in Nat /\ \A i \in 1 .. Len(ages) : ages[i] \in Nat
    OBVIOUS
  <2>9. \A i \in 1 .. Len(q) : i + n \in 1 .. Len(ages)
    <3>1. PICK l \in Nat : l = Len(ages)
      BY <2>8
    <3>2. n \in 0 .. l /\ Len(q) = l - n
      BY <2>7, <3>1
    <3>3. \A i \in 1 .. l - n : i + n \in 1 .. l
      BY <3>2
    <3> QED
      BY <3>1, <3>2, <3>3
  <2>10. PICK whose : whose = [i \in 1 .. Len(q) |-> who[i + n]]
    OBVIOUS
  <2>11. whose \in [1 .. Len(q) -> Peers]
    BY <2>3, <2>9, <2>10
  <2>12. ASSUME NEW p \in Peers, Young(r, <<c, p>>)
         PROVE  \E i \in 1 .. Len(q) : whose[i] = p /\ q[i] = r[<<c, p>>]
    <3>1. PICK x : x = <<c, p>>
      OBVIOUS
    <3>2. /\ x \in DOMAIN record /\ record[x] \in Nat
          /\ r[x] = record[x] + ticks /\ r[x] < Second
      BY <1>2, <1>3, <2>12, <3>1 DEF Young
    <3>3. record[x] < Second /\ record[x] <= StateTTL
      <4>1. r[x] <= StateTTL
        BY <2>12, <3>1 DEF Young
      <4> QED
        BY <3>2, <4>1
    <3>4. Young(record, <<c, p>>)
      BY <3>1, <3>2, <3>3 DEF Young
    <3>5. PICK i \in 1 .. Len(ages) : who[i] = p /\ ages[i] = record[x]
      BY <2>3, <3>1, <3>4
    <3>6. i > n
      BY <2>7, <3>2, <3>5
    <3>7. PICK j : j = i - n
      OBVIOUS
    <3>8. j \in 1 .. Len(q) /\ j + n = i
      BY <2>7, <2>8, <3>6, <3>7
    <3>9. whose[j] = p /\ q[j] = r[x]
      BY <2>7, <2>10, <3>2, <3>5, <3>8
    <3> QED
      BY <3>1, <3>8, <3>9
  <2>13. Named(r, c, q)
    BY <2>6, <2>7, <2>11, <2>12 DEF Named
  <2> QED
    BY <2>1, <2>4, <2>13
<1>8. Gaps(r, Shaper!Past(lanes, ticks), Shaper!Past(classes, ticks))
  BY <1>2, <1>3, <1>4, <1>5, <1>6, <1>7 DEF Gaps
<1> QED
  BY <1>1, <1>8

\* Few enough lanes are young that all of them can be kept.
LEMMA YoungAreFew ==
    ASSUME RecordsFit, NEW record, NEW lanes, NEW classes, Gaps(record, lanes, classes),
           \A c \in Classes : Len(classes[c]) <= Shaper!GlobalCap(c)
    PROVE  LET young == {x \in Shaper!Lanes : Young(record, x)}
           IN  IsFiniteSet(young) /\ Cardinality(young) <= StateMax
<1> USE GapConstants
<1> DEFINE Of(c) == {x \in Shaper!Lanes : x[1] = c /\ Young(record, x)}
           young == {x \in Shaper!Lanes : Young(record, x)}
<1>1. ASSUME NEW c PROVE IsFiniteSet(Of(c)) /\ Cardinality(Of(c)) \in Nat
                         /\ Cardinality(Of(c)) <= Share(c) /\ Share(c) \in Nat
  <2>1. CASE c \in Classes
    <3>1. PICK ages \in Seq(0 .. Second - 1) : ages = classes[c] /\ Named(record, c, ages)
      BY <2>1 DEF Gaps, Named
    <3>2. PICK who \in [1 .. Len(ages) -> Peers] : \A p \in Peers :
            Young(record, <<c, p>>) => \E i \in 1 .. Len(ages) : who[i] = p
      BY <3>1 DEF Named
    <3>3. PICK n \in Nat : n = Len(ages) /\ n <= Shaper!GlobalCap(c)
      BY <2>1, <3>1
    <3>4. PICK S : S = {<<c, who[i]>> : i \in 1 .. n}
      OBVIOUS
    <3>5. [i \in 1 .. n |-> <<c, who[i]>>] \in Surjection(1 .. n, S)
      BY <3>4 DEF Surjection
    <3>6. IsFiniteSet(1 .. n) /\ Cardinality(1 .. n) = n
      <4>1. 1 \in Int /\ n \in Int /\ (IF 1 > n THEN 0 ELSE n - 1 + 1) = n
        OBVIOUS
      <4> QED
        BY <4>1, FS_Interval
    <3>7. IsFiniteSet(S) /\ Cardinality(S) <= n /\ Cardinality(S) \in Nat
      BY <3>5, <3>6, FS_Surjection, FS_CardinalityType
    <3>8. Of(c) \subseteq S
      <4>1. ASSUME NEW x \in Of(c) PROVE x \in S
        <5>1. x[2] \in Peers /\ x = <<c, x[2]>> /\ Young(record, <<c, x[2]>>)
          OBVIOUS
        <5>2. PICK i \in 1 .. Len(ages) : who[i] = x[2]
          BY <3>2, <5>1
        <5> QED
          BY <3>3, <3>4, <5>1, <5>2
      <4> QED
        BY <4>1
    <3>9. IsFiniteSet(Of(c)) /\ Cardinality(Of(c)) <= Cardinality(S) /\ Cardinality(Of(c)) \in Nat
      BY <3>7, <3>8, FS_Subset, FS_CardinalityType
    <3> QED
      BY <2>1, <3>3, <3>7, <3>9, ShaperConstants DEF Share
  <2>2. CASE c \notin Classes
    <3>1. Of(c) = {}
      BY <2>2
    <3>2. Share(c) = 0
      BY <2>2 DEF Share
    <3> HIDE DEF Of
    <3> QED
      BY <3>1, <3>2, FS_EmptySet
  <2> QED
    BY <2>1, <2>2
<1>2. PICK A, B, C, D : A = Of("query") /\ B = Of("hello") /\ C = Of("bootstrap") /\ D = Of("response")
  OBVIOUS
<1>3. young = (A \cup B) \cup (C \cup D)
  BY <1>2
<1>4. PICK a, b, c, d \in Nat : /\ a = Cardinality(A) /\ b = Cardinality(B)
                                /\ c = Cardinality(C) /\ d = Cardinality(D)
  BY <1>1, <1>2
<1>5. IsFiniteSet(A) /\ IsFiniteSet(B) /\ IsFiniteSet(C) /\ IsFiniteSet(D)
  BY <1>1, <1>2
<1>6. IsFiniteSet(A \cup B) /\ Cardinality(A \cup B) \in Nat /\ Cardinality(A \cup B) <= a + b
  BY <1>4, <1>5, Together
<1>7. IsFiniteSet(C \cup D) /\ Cardinality(C \cup D) \in Nat /\ Cardinality(C \cup D) <= c + d
  BY <1>4, <1>5, Together
<1>8. IsFiniteSet((A \cup B) \cup (C \cup D))
      /\ Cardinality((A \cup B) \cup (C \cup D)) \in Nat
      /\ Cardinality((A \cup B) \cup (C \cup D)) <= Cardinality(A \cup B) + Cardinality(C \cup D)
  BY <1>6, <1>7, Together
<1>9. a + b + c + d <= StateMax
  <2>1. PICK s, t, u, v \in Nat : s = Share("query") /\ t = Share("hello")
                                  /\ u = Share("bootstrap") /\ v = Share("response")
    BY <1>1
  <2>2. a <= s /\ b <= t /\ c <= u /\ d <= v
    BY <1>1, <1>2, <1>4, <2>1
  <2>3. s + t + u + v <= StateMax
    BY <2>1 DEF RecordsFit
  <2> QED
    BY <2>2, <2>3
<1>10. Cardinality(young) <= StateMax
  <2>1. PICK e, f, g \in Nat : /\ e = Cardinality(A \cup B) /\ f = Cardinality(C \cup D)
                               /\ g = Cardinality((A \cup B) \cup (C \cup D))
    BY <1>6, <1>7, <1>8
  <2>2. e <= a + b /\ f <= c + d /\ g <= e + f
    BY <1>6, <1>7, <1>8, <2>1
  <2>3. g <= StateMax
    BY <1>9, <2>2
  <2> QED
    BY <1>3, <2>1, <2>3
<1> QED
  BY <1>3, <1>8, <1>10

\* The cleanup takes no record of a lane that is young.
LEMMA GapsForget ==
    ASSUME RecordsFit, NEW record, NEW lanes, NEW classes, Gaps(record, lanes, classes),
           \A c \in Classes : Len(classes[c]) <= Shaper!GlobalCap(c),
           NEW K \in Shaper!KeptLanes(record)
    PROVE  Gaps([x \in K |-> record[x]], lanes, classes)
<1> USE GapConstants, ShaperConstants
<1> DEFINE fresh == {x \in DOMAIN record : record[x] <= StateTTL}
           young == {x \in Shaper!Lanes : Young(record, x)}
<1>1. PICK r : r = [x \in K |-> record[x]]
  OBVIOUS
<1>2. /\ DOMAIN record \subseteq Shaper!Lanes /\ \A x \in DOMAIN record : record[x] \in Nat
      /\ DOMAIN lanes = Shaper!Lanes /\ DOMAIN classes = Classes
      /\ \A x \in Shaper!Lanes : Remembered(record, x, lanes[x])
      /\ \A c \in Classes : Named(record, c, classes[c])
  BY DEF Gaps
<1>3. IsFiniteSet(young) /\ Cardinality(young) <= StateMax /\ Cardinality(young) \in Nat
  BY YoungAreFew, FS_CardinalityType
<1>4. \A S : Shaper!Cardinality(S) = Cardinality(S)
  BY DEF Shaper!Cardinality, Cardinality, Shaper!IsFiniteSet, IsFiniteSet
<1>5. \/ K = fresh
      \/ /\ K \subseteq fresh /\ Cardinality(K) = StateMax
         /\ \A x \in K, y \in fresh \ K : record[x] <= record[y]
  <2>1. CASE Cardinality(fresh) <= StateMax
    BY <1>4, <2>1 DEF Shaper!KeptLanes
  <2>2. CASE ~ (Cardinality(fresh) <= StateMax)
    BY <1>4, <2>2 DEF Shaper!KeptLanes
  <2> QED
    BY <2>1, <2>2
<1>6. K \subseteq fresh /\ K \subseteq DOMAIN record
  BY <1>5
<1>7. ASSUME NEW y \in DOMAIN record, Young(record, y) PROVE y \in K
  <2> SUFFICES ASSUME y \notin K PROVE FALSE
    OBVIOUS
  <2>1. y \in fresh \ K /\ record[y] < Second /\ record[y] \in Nat
    BY <1>2, <1>7 DEF Young
  <2>2. Cardinality(K) = StateMax /\ \A x \in K : record[x] <= record[y]
    BY <1>5, <2>1
  <2>3. ASSUME NEW x \in K PROVE x \in young
    <3>1. x \in DOMAIN record /\ record[x] \in Nat /\ record[x] <= StateTTL /\ x \in Shaper!Lanes
      BY <1>2, <1>6
    <3>2. record[x] <= record[y]
      BY <2>2
    <3>3. record[x] < Second
      BY <2>1, <3>1, <3>2
    <3> QED
      BY <3>1, <3>3 DEF Young
  <2>4. y \in young
    BY <1>2, <1>7
  <2>5. K \cup {y} \subseteq young
    BY <2>3, <2>4
  <2>6. IsFiniteSet(K)
    BY <1>3, <2>3, FS_Subset
  <2>7. Cardinality(K \cup {y}) = StateMax + 1
    BY <2>2, <2>6, FS_AddElement
  <2>8. Cardinality(K \cup {y}) <= Cardinality(young)
    BY <1>3, <2>5, FS_Subset
  <2> QED
    BY <1>3, <2>7, <2>8
<1>8. DOMAIN r = K /\ \A x \in K : r[x] = record[x]
  BY <1>1
<1>9. ASSUME NEW x \in Shaper!Lanes PROVE Remembered(r, x, lanes[x])
  <2>1. PICK ages \in Seq(0 .. Second - 1) : ages = lanes[x]
    BY <1>2 DEF Remembered
  <2>2. PICK gap \in 0 .. StateTTL : gap = Shaper!PeerGap(x[1])
    OBVIOUS
  <2>3. Remembered(record, x, ages)
    BY <1>2, <2>1
  <2>4. ASSUME Len(ages) > 0, x \in DOMAIN record, record[x] = ages[Len(ages)], x \notin K
        PROVE  ages[Len(ages)] >= gap
    <3>1. ages[Len(ages)] \in 0 .. Second - 1
      BY <2>4
    <3>2. PICK a \in 0 .. Second - 1 : a = record[x] /\ a = ages[Len(ages)]
      BY <2>4, <3>1
    <3>3. ~ Young(record, x)
      BY <1>7, <2>4
    <3>4. ~ (a <= StateTTL)
      BY <2>4, <3>2, <3>3 DEF Young
    <3> QED
      BY <2>2, <3>2, <3>4
  <2>5. Remembered(r, x, ages)
    BY <1>8, <2>2, <2>3, <2>4 DEF Remembered
  <2> QED
    BY <2>1, <2>5
<1>10. ASSUME NEW x, Young(r, x) PROVE Young(record, x) /\ r[x] = record[x]
  BY <1>6, <1>8, <1>10 DEF Young
<1>11. ASSUME NEW c \in Classes PROVE Named(r, c, classes[c])
  <2>1. PICK ages : ages = classes[c]
    OBVIOUS
  <2>2. Named(record, c, ages)
    BY <1>2, <2>1
  <2>3. Named(r, c, ages)
    BY <1>10, <2>2, SameYoung
  <2> QED
    BY <2>1, <2>3
<1>12. Gaps(r, lanes, classes)
  BY <1>2, <1>6, <1>8, <1>9, <1>11 DEF Gaps
<1> QED
  BY <1>1, <1>12

\* A packet that is not delayed has its gap from the last one, and is the last one then.
LEMMA GapsMark ==
    ASSUME NEW record, NEW lanes, NEW classes, Gaps(record, lanes, classes),
           NEW lane \in Shaper!Lanes,
           Len(lanes[lane]) > 0 => lanes[lane][Len(lanes[lane])] >= Shaper!PeerGap(lane[1])
    PROVE  Gaps(Shaper!Assign(record, lane), [lanes EXCEPT ![lane] = Append(@, 0)],
                [classes EXCEPT ![lane[1]] = Append(@, 0)])
<1> USE GapConstants, ShaperConstants
<1>1. PICK class \in Classes, peer \in Peers : class = lane[1] /\ peer = lane[2] /\ lane = <<class, peer>>
  OBVIOUS
<1>2. PICK r, ls, cs : /\ r = Shaper!Assign(record, lane)
                       /\ ls = [lanes EXCEPT ![lane] = Append(@, 0)]
                       /\ cs = [classes EXCEPT ![class] = Append(@, 0)]
  OBVIOUS
<1>3. /\ DOMAIN record \subseteq Shaper!Lanes /\ \A x \in DOMAIN record : record[x] \in Nat
      /\ DOMAIN lanes = Shaper!Lanes /\ DOMAIN classes = Classes
      /\ \A x \in Shaper!Lanes : Remembered(record, x, lanes[x])
      /\ \A c \in Classes : Named(record, c, classes[c])
  BY DEF Gaps
<1>4. /\ DOMAIN r = DOMAIN record \cup {lane} /\ r[lane] = 0
      /\ \A x \in DOMAIN record : x # lane => r[x] = record[x]
  BY <1>2 DEF Shaper!Assign
<1>5. /\ DOMAIN ls = Shaper!Lanes /\ DOMAIN cs = Classes
      /\ ls[lane] = Append(lanes[lane], 0) /\ cs[class] = Append(classes[class], 0)
      /\ \A x \in Shaper!Lanes : x # lane => ls[x] = lanes[x]
      /\ \A c \in Classes : c # class => cs[c] = classes[c]
  BY <1>2, <1>3
<1>6. ASSUME NEW x \in Shaper!Lanes PROVE Remembered(r, x, ls[x])
  <2>1. CASE x # lane
    <3>1. Remembered(record, x, lanes[x])
      BY <1>3
    <3> QED
      BY <1>4, <1>5, <2>1, <3>1 DEF Remembered
  <2>2. CASE x = lane
    <3>1. PICK ages \in Seq(0 .. Second - 1) : ages = lanes[x]
      BY <1>3 DEF Remembered
    <3>2. PICK gap \in 0 .. StateTTL : gap = Shaper!PeerGap(x[1])
      OBVIOUS
    <3>3. /\ Ordered(ages) /\ Spaced(ages, gap)
          /\ Len(ages) > 0 => ages[Len(ages)] >= gap
      BY <1>3, <2>2, <3>1, <3>2 DEF Remembered
    <3>4. PICK q : q = Append(ages, 0)
      OBVIOUS
    <3>5. q \in Seq(0 .. Second - 1) /\ Len(q) \in Nat /\ q[Len(q)] = 0
      BY <3>4, AppendIs
    <3>6. Second \in Nat \ {0} /\ gap \in Nat
      OBVIOUS
    <3>7. Ordered(q)
      BY <3>3, <3>4, <3>6, AppendOrdered
    <3>8. Spaced(q, gap)
      BY <3>3, <3>4, <3>6, AppendSpaced
    <3>9. x \in DOMAIN r /\ r[x] = q[Len(q)]
      BY <1>4, <2>2, <3>5
    <3>10. Remembered(r, x, q)
      BY <3>2, <3>5, <3>7, <3>8, <3>9 DEF Remembered
    <3> QED
      BY <1>5, <2>2, <3>1, <3>4, <3>10
  <2> QED
    BY <2>1, <2>2
<1>7. ASSUME NEW c \in Classes PROVE Named(r, c, cs[c])
  <2>1. PICK ages \in Seq(0 .. Second - 1) : ages = classes[c]
    BY <1>3 DEF Named
  <2>2. Named(record, c, ages)
    BY <1>3, <2>1
  <2>3. PICK who \in [1 .. Len(ages) -> Peers] : \A p \in Peers :
          Young(record, <<c, p>>) =>
             \E i \in 1 .. Len(ages) : who[i] = p /\ ages[i] = record[<<c, p>>]
    BY <2>2 DEF Named
  <2>4. Ordered(ages)
    BY <2>2 DEF Named
  <2>5. CASE c # class
    <3>1. ASSUME NEW p \in Peers, Young(r, <<c, p>>)
          PROVE  Young(record, <<c, p>>) /\ r[<<c, p>>] = record[<<c, p>>]
      <4>1. <<c, p>> # lane
        BY <1>1, <2>5
      <4>2. <<c, p>> \in DOMAIN record /\ r[<<c, p>>] = record[<<c, p>>]
        BY <1>4, <3>1, <4>1 DEF Young
      <4> QED
        BY <3>1, <4>2 DEF Young
    <3>2. Named(r, c, ages)
      BY <2>2, <3>1, SameYoung
    <3> QED
      BY <1>5, <2>1, <2>5, <3>2
  <2>6. CASE c = class
    <3>1. PICK l \in Nat : l = Len(ages)
      BY <2>1
    <3>2. PICK q : q = Append(ages, 0)
      OBVIOUS
    <3>3. /\ q \in Seq(0 .. Second - 1) /\ Len(q) = l + 1 /\ q[l + 1] = 0
          /\ \A i \in 1 .. l : q[i] = ages[i]
      BY <3>1, <3>2, AppendIs
    <3>4. Ordered(q)
      BY <2>4, <3>2, AppendOrdered
    <3>5. PICK whose : whose = [i \in 1 .. l + 1 |-> IF i <= l THEN who[i] ELSE peer]
      OBVIOUS
    <3>6. whose \in [1 .. Len(q) -> Peers]
      <4>1. \A i \in 1 .. l : who[i] \in Peers
        BY <3>1
      <4>2. \A i \in 1 .. l + 1 : i <= l => i \in 1 .. l
        OBVIOUS
      <4> QED
        BY <3>3, <3>5, <4>1, <4>2
    <3>7. ASSUME NEW p \in Peers, Young(r, <<c, p>>)
          PROVE  \E i \in 1 .. Len(q) : whose[i] = p /\ q[i] = r[<<c, p>>]
      <4>1. CASE p = peer
        <5>1. l + 1 \in 1 .. l + 1 /\ ~ (l + 1 <= l)
          OBVIOUS
        <5>3. l + 1 \in 1 .. Len(q) /\ whose[l + 1] = peer
          BY <3>3, <3>5, <5>1
        <5>2. q[l + 1] = r[<<c, p>>]
          BY <1>1, <1>4, <2>6, <3>3, <4>1
        <5> QED
          BY <4>1, <5>2, <5>3
      <4>2. CASE p # peer
        <5>1. <<c, p>> # lane
          BY <1>1, <4>2
        <5>2. <<c, p>> \in DOMAIN record /\ r[<<c, p>>] = record[<<c, p>>]
          BY <1>4, <3>7, <5>1 DEF Young
        <5>3. Young(record, <<c, p>>)
          BY <3>7, <5>2 DEF Young
        <5>4. PICK i \in 1 .. l : who[i] = p /\ ages[i] = record[<<c, p>>]
          BY <2>3, <3>1, <5>3
        <5>5. i \in 1 .. l + 1 /\ i <= l
          OBVIOUS
        <5>6. whose[i] = p /\ q[i] = r[<<c, p>>]
          BY <3>3, <3>5, <5>2, <5>4, <5>5
        <5> QED
          BY <3>3, <5>5, <5>6
      <4> QED
        BY <4>1, <4>2
    <3>8. Named(r, c, q)
      BY <3>3, <3>4, <3>6, <3>7 DEF Named
    <3> QED
      BY <1>5, <2>1, <2>6, <3>2, <3>8
  <2> QED
    BY <2>5, <2>6
<1>8. \A x \in DOMAIN r : r[x] \in Nat
  BY <1>3, <1>4
<1>9. Gaps(r, ls, cs)
  BY <1>3, <1>4, <1>5, <1>6, <1>7, <1>8 DEF Gaps
<1> QED
  BY <1>1, <1>2, <1>9

LEMMA GapsRoll ==
    ASSUME RecordsFit, NEW s, Recorded(s), NEW lanes, NEW classes, Gaps(s.plast, lanes, classes),
           Rates(s.window, s.gsent, s.psent, lanes, classes), NEW t \in Shaper!Rolled(s)
    PROVE  Gaps(t.plast, lanes, classes)
<1>1. CASE t = s
  BY <1>1
<1>2. CASE ~ (s.window < Second) /\ \E K \in Shaper!KeptLanes(s.plast) : t.plast = [x \in K |-> s.plast[x]]
  <2>1. s.window \in Nat /\ s.window >= Second
    BY <1>2, ShaperConstants DEF Rates
  <2>2. ASSUME NEW c \in Classes PROVE Len(classes[c]) <= Shaper!GlobalCap(c)
    <3>1. Shaper!GlobalCap(c) > 0
      BY DEF RecordsFit
    <3>2. Within(Shaper!GlobalCap(c), s.gsent[c], s.window, classes[c])
      BY DEF Rates
    <3>3. Shared(s.window, s.gsent[c], Shaper!GlobalCap(c), Second, classes[c])
      BY <3>1, <3>2 DEF Within
    <3> QED
      BY <2>1, <3>3 DEF Shared
  <2> QED
    BY <1>2, <2>2, GapsForget
<1> QED
  BY <1>1, <1>2, RolledIs

LEMMA GapsStep == RecordsFit /\ ShaperInv /\ GapsInv /\ Shaper!Next => GapsInv'
<1> SUFFICES ASSUME RecordsFit, ShaperInv, GapsInv, Shaper!Next PROVE GapsInv'
  OBVIOUS
<1>1. PICK b : b = Shaper!Shaper
  OBVIOUS
<1>2. /\ Recorded(b) /\ Gaps(b.plast, sends, class_sends)
      /\ Rates(b.window, b.gsent, b.psent, sends, class_sends)
  BY <1>1, ShaperIs DEF ShaperInv, GapsInv
<1>3. ASSUME NEW lane \in Shaper!Lanes, Shaper!Send(lane) PROVE GapsInv'
  <2>1. PICK s, took, a, ls, cs, t : Sending(lane, s, took, a, ls, cs, t)
    BY <1>3, SendIs
  <2>2. /\ s \in Shaper!Rolled(b) /\ Recorded(s) /\ Shaper!Sendable(s, lane)
        /\ took \in Nat /\ Recorded(a) /\ a = Shaper!After(s, took)
        /\ ls = Shaper!Past(sends, took) /\ cs = Shaper!Past(class_sends, took)
        /\ t \in Shaper!Rolled(a)
    BY <1>1, <2>1 DEF Sending
  <2>3. /\ last_peer' = Shaper!Assign(t.plast, lane)
        /\ sends' = [ls EXCEPT ![lane] = Append(@, 0)]
        /\ class_sends' = [cs EXCEPT ![lane[1]] = Append(@, 0)]
    BY <2>1 DEF Sending
  <2>4. took \in Nat
    BY <2>2
  <2>5. Gaps(s.plast, sends, class_sends) /\ Rates(s.window, s.gsent, s.psent, sends, class_sends)
    BY <1>2, <2>2, GapsRoll, RatesRoll
  <2>6. /\ a.plast = Shaper!Later(s.plast, took, StateTTL + 1)
        /\ a.window = IF s.window + took > Second THEN Second ELSE s.window + took
        /\ a.gsent = s.gsent /\ a.psent = s.psent
    BY <2>2, AfterIs
  <2>7. Gaps(a.plast, ls, cs)
    BY <2>2, <2>4, <2>5, <2>6, GapsPass
  <2>8. Rates(a.window, a.gsent, a.psent, ls, cs)
    BY <2>2, <2>4, <2>5, <2>6, RatesPass
  <2>9. Gaps(t.plast, ls, cs)
    BY <2>2, <2>7, <2>8, GapsRoll
  <2>10. ASSUME Len(ls[lane]) > 0 PROVE ls[lane][Len(ls[lane])] >= Shaper!PeerGap(lane[1])
    <3>1. Remembered(s.plast, lane, sends[lane])
      BY <2>5 DEF Gaps
    <3>2. lane \in DOMAIN s.plast => Shaper!PeerGap(lane[1]) = 0
                                     \/ ~ (s.plast[lane] < Shaper!PeerGap(lane[1]))
      <4>1. lane[1] = "response" \/ ~ Shaper!Delayed(s, lane)
        BY <2>2 DEF Shaper!Sendable
      <4>2. CASE lane[1] = "response"
        BY <4>2 DEF Shaper!PeerGap
      <4>3. CASE ~ Shaper!Delayed(s, lane)
        BY <4>3 DEF Shaper!Delayed
      <4> QED
        BY <4>1, <4>2, <4>3
    <3>3. PICK gap \in Nat : gap = Shaper!PeerGap(lane[1])
      BY GapConstants
    <3>4. PICK ages \in Seq(0 .. Second - 1) : ages = sends[lane] /\ Ordered(ages)
      BY <3>1 DEF Remembered
    <3>5. ls[lane] = Shaper!Recent(ages, took)
      BY <2>2, <2>5, <3>4 DEF Shaper!Past, Gaps
    <3>6. PICK q : q = ls[lane]
      OBVIOUS
    <3>7. Passed(ages, took, Second, q)
      BY <2>4, <3>4, <3>5, <3>6, SendsRecentIs
    <3>8. Len(ages) > 0 /\ ages[Len(ages)] \in Nat /\ q[Len(q)] = ages[Len(ages)] + took
      BY <2>4, <2>10, <3>6, <3>7, ShaperConstants, PassedLast
    <3>9. PICK last \in Nat : last = ages[Len(ages)]
      BY <3>8
    <3>10. last >= gap
      <4>1. \/ last >= gap
            \/ lane \in DOMAIN s.plast /\ s.plast[lane] = last
        BY <3>1, <3>3, <3>4, <3>8, <3>9 DEF Remembered
      <4> QED
        BY <3>2, <3>3, <4>1
    <3>11. last + took >= gap
      BY <2>4, <3>10
    <3> QED
      BY <3>3, <3>6, <3>8, <3>9, <3>11
  <2>11. Gaps(last_peer', sends', class_sends')
    BY <2>3, <2>9, <2>10, GapsMark
  <2> QED
    BY <2>11 DEF GapsInv
<1>4. ASSUME NEW lane \in Shaper!Lanes, Shaper!Unsent(lane) PROVE GapsInv'
  <2>1. PICK s \in Shaper!Rolled(b) : Shaper!Become(s) /\ UNCHANGED <<sends, class_sends>>
    BY <1>1, <1>4 DEF Shaper!Unsent
  <2>2. Gaps(s.plast, sends, class_sends)
    BY <1>2, GapsRoll
  <2>3. last_peer' = s.plast
    BY <2>1, BecomeIs
  <2> QED
    BY <2>1, <2>2, <2>3 DEF GapsInv
<1>5. CASE Shaper!Clock
  <2>1. PICK a : a = Shaper!After(b, 1)
    OBVIOUS
  <2>2. /\ Shaper!Become(a)
        /\ sends' = Shaper!Past(sends, 1) /\ class_sends' = Shaper!Past(class_sends, 1)
    BY <1>1, <1>5, <2>1 DEF Shaper!Clock
  <2>3. 1 \in Nat
    OBVIOUS
  <2>4. last_peer' = Shaper!Later(b.plast, 1, StateTTL + 1)
    BY <1>2, <2>1, <2>2, AfterIs, BecomeIs
  <2>5. Gaps(last_peer', sends', class_sends')
    BY <1>2, <2>2, <2>3, <2>4, GapsPass
  <2> QED
    BY <2>5 DEF GapsInv
<1> QED
  BY <1>3, <1>4, <1>5 DEF Shaper!Next

LEMMA GapsInit == Init => GapsInv
<1> SUFFICES ASSUME Init PROVE GapsInv
  OBVIOUS
<1> USE ShaperConstants, GapConstants
<1>1. /\ last_peer = Shaper!Never /\ DOMAIN Shaper!Never = {}
      /\ sends = [x \in Shaper!Lanes |-> <<>>] /\ class_sends = [x \in Classes |-> <<>>]
  BY DEF Init, Shaper!Init, Shaper!Never
<1>2. <<>> \in Seq(0 .. Second - 1) /\ Ordered(<<>>) /\ Len(<<>>) = 0
      /\ \A gap : Spaced(<<>>, gap)
  BY DEF Ordered, Spaced
<1>3. ASSUME NEW x \in Shaper!Lanes PROVE Remembered(last_peer, x, sends[x])
  BY <1>1, <1>2 DEF Remembered
<1>4. ASSUME NEW c \in Classes PROVE Named(last_peer, c, class_sends[c])
  <2>1. \A p \in Peers : ~ Young(last_peer, <<c, p>>)
    BY <1>1 DEF Young
  <2>2. [i \in 1 .. Len(<<>>) |-> <<>>] \in [1 .. Len(<<>>) -> Peers]
    BY <1>2
  <2>3. Named(last_peer, c, <<>>)
    BY <1>2, <2>1, <2>2 DEF Named
  <2> QED
    BY <1>1, <2>3
<1> QED
  BY <1>1, <1>3, <1>4 DEF GapsInv, Gaps

\* And two packets of a class for one peer are the interval apart, whatever the cleanup
\* of old records takes, when the records of a window's lanes fit into the map.
THEOREM RatesAreKept == ASSUME RecordsFit PROVE Spec => []RateIsKept
<1> DEFINE Inv == ShaperInv /\ GapsInv
<1>1. Inv /\ [Next]_vars => Inv'
  <2>1. ShaperInv /\ GapsInv /\ UNCHANGED shaper => ShaperInv' /\ GapsInv'
    BY DEF ShaperInv, GapsInv, shaper
  <2> QED
    BY <2>1, ShaperStep, GapsStep DEF Next, vars
<1>2. GapsInv => Shaper!GapIsKept
  BY DEF GapsInv, Gaps, Remembered, Spaced, Shaper!GapIsKept
<1>3. Inv => RateIsKept
  BY <1>2, CapsFollow DEF RateIsKept, Shaper!RateIsKept
<1>4. Init => Inv
  BY ShaperInit, GapsInit
<1> QED
  BY <1>1, <1>3, <1>4, PTL DEF Spec
=============================================================================
