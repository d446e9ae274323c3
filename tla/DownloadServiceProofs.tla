------------------------ MODULE DownloadServiceProofs ------------------------
(***************************************************************************)
(* Theorems about DownloadService, for every set of parts and peers, every *)
(* file size, every value of the caps and every set of faults.             *)
(***************************************************************************)
EXTENDS DownloadService, FiniteSetTheorems, TLAPS

-----------------------------------------------------------------------------
(* The operators the handlers are built from *)

LEMMA LeastIsLeast ==
    ASSUME NEW S \in SUBSET Nat, S # {}
    PROVE  Least(S) \in S /\ \A y \in S : Least(S) <= y
<1>1. PICK x \in S : \A y \in S : <<y, x>> \notin OpToRel(<, Nat)
  BY NatLessThanWellFounded, WFMin, Zenon
<1>2. \A y \in S : ~ (y < x)
  BY <1>1, Zenon DEF OpToRel
<1>3. \A y \in S : x <= y
  BY <1>2
<1> QED
  BY <1>3, Zenon DEF Least

\* What arrived and what is missing add up to the size of the file.
LEMMA ProgressIsBounded ==
    ASSUME NEW M \in SUBSET Bytes
    PROVE  Progress(M) \in 0 .. FileSize /\ (Progress(M) = FileSize <=> M = {})
<1>1. IsFiniteSet(Bytes) /\ Cardinality(Bytes) = FileSize
  BY FS_Interval, ConstantsAssumption DEF Bytes
<1>2. IsFiniteSet(M) /\ Cardinality(M) <= FileSize
  BY <1>1, FS_Subset
<1>3. Cardinality(M) \in Nat /\ (Cardinality(M) = 0 <=> M = {})
  BY <1>2, FS_CardinalityType, FS_EmptySet
<1> QED
  BY <1>2, <1>3, ConstantsAssumption DEF Progress

LEMMA AtMostIsBounded ==
    ASSUME NEW x \in Nat, NEW cap \in Nat
    PROVE  AtMost(x, cap) \in 0 .. cap
BY DEF AtMost

LEMMA BackoffIsBounded ==
    ASSUME NEW retry \in Nat
    PROVE  RetryBackoffDelay(retry) \in 0 .. BackoffMax
<1> DEFINE shift == AtMost(IF retry = 0 THEN 0 ELSE retry - 1, 6)
           factor == <<1, 2, 4, 8, 16, 32, 64>>[shift + 1]
<1>1. shift \in 0 .. 6
  BY DEF AtMost
<1>2. factor \in Nat
  BY <1>1
<1>3. BackoffBase * factor \in Nat
  BY <1>2, ConstantsAssumption
<1> QED
  BY <1>3, AtMostIsBounded, ConstantsAssumption DEF RetryBackoffDelay

-----------------------------------------------------------------------------
(* The metadata of one download stays metadata *)

LEMMA NewMetTyped == None \in PartMet /\ NewMet \in PartMet
<1>1. None \in PartMet
  BY ConstantsAssumption DEF None, PartMet, States
<1>2. NewMet \in PartMet
  BY <1>1 DEF NewMet, PartMet, States, Active
<1> QED
  BY <1>1, <1>2

LEMMA StateChangeTyped ==
    ASSUME NEW d \in PartMet, NEW s \in States
    PROVE  [d EXCEPT !.state = s] \in PartMet
BY DEF PartMet

LEMMA ReserveTyped ==
    ASSUME NEW d \in PartMet, NEW blocks \in SUBSET (SUBSET Bytes)
    PROVE  Reserve(d, blocks) \in PartMet
BY DEF Reserve, PartMet, States, Active

LEMMA ReceiveTyped ==
    ASSUME NEW d \in PartMet, NEW block \in SUBSET Bytes
    PROVE  Receive(d, block) \in PartMet
<1>1. Progress(d.missing) \in 0 .. FileSize
  BY ProgressIsBounded DEF PartMet
<1> QED
  BY <1>1 DEF Receive, PartMet, States, Active

LEMMA GiveBackTyped ==
    ASSUME NEW d \in PartMet, NEW blocks \in SUBSET (SUBSET Bytes)
    PROVE  GiveBack(d, blocks) \in PartMet
<1> DEFINE missing == d.missing \cup UNION blocks
           inflight == d.inflight \ blocks
           retry == AtMost(d.retry + 1, RetryMax)
           downloaded == Progress(missing)
<1>1. missing \in SUBSET Bytes /\ inflight \in SUBSET (SUBSET Bytes)
  BY DEF PartMet
<1>2. downloaded \in 0 .. FileSize
  BY <1>1, ProgressIsBounded
<1>3. retry \in 0 .. RetryMax
  <2>1. d.retry + 1 \in Nat /\ RetryMax \in Nat
    BY ConstantsAssumption DEF PartMet
  <2> QED
    BY <2>1, AtMostIsBounded
<1>4. GiveBack(d, blocks) = [d EXCEPT !.missing = missing, !.inflight = inflight,
                                     !.retry = retry, !.downloaded = downloaded]
  BY DEF GiveBack
<1> HIDE DEF missing, inflight, retry, downloaded
<1> QED
  BY <1>1, <1>2, <1>3, <1>4 DEF PartMet

LEMMA FailTyped ==
    ASSUME NEW d \in PartMet, NEW block \in SUBSET Bytes
    PROVE  Fail(d, block) \in PartMet
BY GiveBackTyped, StateChangeTyped DEF Fail, States, Active

LEMMA ReclaimTyped ==
    ASSUME NEW d \in PartMet, NEW blocks \in SUBSET (SUBSET Bytes)
    PROVE  Reclaim(d, blocks) \in PartMet
<1>1. d.state \in States
  BY DEF PartMet
<1> QED
  BY <1>1, GiveBackTyped, StateChangeTyped DEF Reclaim, States, Active

LEMMA RecoverTyped ==
    ASSUME NEW m \in PartMet
    PROVE  Recover(m) \in PartMet
BY DEF Recover, Outstanding, PartMet, States, Active
-----------------------------------------------------------------------------
(* What every handler shares *)

PassRecord == [kind : PassKinds, todo : SUBSET Parts, done : SUBSET Parts]

LEMMA PassTyped ==
    ASSUME NEW kind \in PassKinds, NEW todo \in SUBSET Parts, NEW done \in SUBSET Parts
    PROVE  Pass(kind, todo, done) \in PassRecord
BY DEF Pass, NoPass, PassRecord, PassKinds

LEMMA ThenFinalizeTyped ==
    ASSUME NEW kind \in PassKinds, ThenFinalize(kind)
    PROVE  pass' \in PassRecord
<1>1. Finished(downloads)' \in SUBSET Parts
  BY DEF Finished
<1> QED
  BY <1>1, PassTyped DEF ThenFinalize, Finished

LEMMA BackoffTyped ==
    ASSUME NEW d \in PartMet
    PROVE  Backoff(d) \in 0 .. BackoffMax
<1>1. d.retry \in Nat
  BY ConstantsAssumption DEF PartMet
<1> QED
  BY <1>1, BackoffIsBounded DEF Backoff

LEMMA SaveTyped ==
    ASSUME TypeOK, NEW p \in Parts, downloads' \in [Parts -> PartMet], Save(p)
    PROVE  met' \in [Parts -> PartMet]
BY DEF TypeOK, Save

LEMMA ForgetTyped ==
    ASSUME Forget
    PROVE  /\ running' \in BOOLEAN
           /\ downloads' \in [Parts -> PartMet]
           /\ leases' \in [Parts -> SUBSET Lease]
           /\ cooldown' \in [Parts -> 0 .. BackoffMax]
           /\ pass' \in PassRecord
<1>1. pass' \in PassRecord
  BY DEF Forget, NoPass, PassRecord, PassKinds
<1>2. 0 \in 0 .. BackoffMax
  BY ConstantsAssumption
<1> QED
  BY <1>1, <1>2, NewMetTyped DEF Forget

\* The pass takes one of the parts it still has to do.
LEMMA LeastPart ==
    ASSUME NEW S \in SUBSET Parts, S # {}
    PROVE  Least(S) \in S /\ Least(S) \in Parts
BY LeastIsLeast, ConstantsAssumption

LEMMA BlocksOfLeases ==
    ASSUME NEW ls \in SUBSET Lease
    PROVE  BlocksOf(ls) \in SUBSET (SUBSET Bytes)
BY DEF BlocksOf, Lease

\* reserve_blocks grants blocks of missing bytes.
LEMMA FirstBlocksMissing ==
    ASSUME NEW M, NEW size, NEW n, NEW B \in FirstBlocks(M, size, n)
    PROVE  B \in SUBSET M
BY DEF FirstBlocks, Carve

LEMMA ReclaimLeasesTyped ==
    ASSUME TypeOK, NEW lost \in [Parts -> SUBSET Lease], NEW failed,
           ReclaimLeases(lost, failed)
    PROVE  /\ downloads' \in [Parts -> PartMet]
           /\ leases' \in [Parts -> SUBSET Lease]
           /\ cooldown' \in [Parts -> 0 .. BackoffMax]
           /\ met' \in [Parts -> PartMet]
<1> DEFINE saved == Before(Losing(lost), failed)
           reached == saved \cup failed
           now == ReclaimIn(lost, reached)
<1>1. now \in [Parts -> PartMet]
  <2> SUFFICES ASSUME NEW p \in Parts
               PROVE  Reclaim(downloads[p], BlocksOf(lost[p])) \in PartMet
    BY DEF TypeOK, ReclaimIn
  <2> QED
    BY ReclaimTyped, BlocksOfLeases DEF TypeOK
<1>2. \A p \in Parts : Backoff(now[p]) \in 0 .. BackoffMax
  BY <1>1, BackoffTyped
<1>3. /\ downloads' = now
      /\ leases' = [p \in Parts |-> IF p \in reached THEN leases[p] \ lost[p]
                                     ELSE leases[p]]
      /\ cooldown' = [p \in Parts |-> IF p \in reached THEN Backoff(now[p])
                                       ELSE cooldown[p]]
      /\ met' = [p \in Parts |-> IF p \in saved THEN now[p] ELSE met[p]]
  BY DEF ReclaimLeases, SaveIn
<1> HIDE DEF saved, reached, now
<1> QED
  BY <1>1, <1>2, <1>3 DEF TypeOK
-----------------------------------------------------------------------------
(* Type correctness *)

LEMMA InitTyped == Init => TypeOK
BY NewMetTyped, ConstantsAssumption DEF Init, TypeOK, NoPass, PassKinds

LEMMA SetStateTyped ==
    ASSUME TypeOK, NEW p \in Parts, NEW next \in States, NEW allowed,
           SetState(p, next, allowed)
    PROVE  TypeOK'
<1>1. downloads' \in [Parts -> PartMet]
  BY StateChangeTyped DEF TypeOK, SetState
<1>2. met' \in [Parts -> PartMet]
  BY <1>1, SaveTyped DEF SetState
<1>3. pass' \in PassRecord
  BY ThenFinalizeTyped DEF SetState, PassKinds
<1> QED
  BY <1>1, <1>2, <1>3 DEF TypeOK, SetState, files, PassRecord

LEMMA UserCommandTyped ==
    ASSUME TypeOK, UserCommand
    PROVE  TypeOK'
<1>1. ASSUME CreateDownload PROVE TypeOK'
  <2> DEFINE p == Least(FreeParts)
  <2>1. p \in Parts
    BY <1>1, LeastPart DEF CreateDownload, FreeParts
  <2>2. pass' \in PassRecord
    BY <1>1, ThenFinalizeTyped DEF CreateDownload, PassKinds
  <2>3. 0 \in 0 .. BackoffMax
    BY ConstantsAssumption
  <2> HIDE DEF p
  <2>4. CASE /\ downloads' = [downloads EXCEPT ![p] = NewMet]
             /\ leases' = [leases EXCEPT ![p] = {}]
             /\ cooldown' = [cooldown EXCEPT ![p] = 0]
             /\ met' = [met EXCEPT ![p] = NewMet]
    BY <1>1, <2>1, <2>2, <2>3, <2>4, NewMetTyped
       DEF CreateDownload, TypeOK, PassRecord, p
  <2>5. CASE UNCHANGED <<memory, met>>
    BY <1>1, <2>1, <2>2, <2>5 DEF CreateDownload, TypeOK, PassRecord, memory, p
  <2> QED
    BY <1>1, <2>4, <2>5 DEF CreateDownload, p
<1>2. ASSUME NEW p \in Parts, Pause(p) \/ Resume(p) \/ Cancel(p) PROVE TypeOK'
  BY <1>2, SetStateTyped DEF Pause, Resume, Cancel, States, Active
<1>3. ASSUME NEW p \in Parts, DeleteDownload(p) PROVE TypeOK'
  <2>1. pass' \in PassRecord
    BY <1>3, ThenFinalizeTyped DEF DeleteDownload, PassKinds
  <2>2. 0 \in 0 .. BackoffMax
    BY ConstantsAssumption
  <2> QED
    BY <1>3, <2>1, <2>2, NewMetTyped DEF DeleteDownload, TypeOK, PassRecord
<1>4. ASSUME NEW p \in Parts, DeleteFails(p) PROVE TypeOK'
  <2>1. pass' \in PassRecord
    BY <1>4, ThenFinalizeTyped DEF DeleteFails, PassKinds
  <2> QED
    BY <1>4, <2>1, NewMetTyped DEF DeleteFails, TypeOK, PassRecord, memory, files
<1>5. ASSUME RefusedCommand PROVE TypeOK'
  <2>1. pass' \in PassRecord
    BY <1>5, ThenFinalizeTyped DEF RefusedCommand, PassKinds
  <2> QED
    BY <1>5, <2>1 DEF RefusedCommand, TypeOK, PassRecord, memory, files
<1> QED
  BY <1>1, <1>2, <1>3, <1>4, <1>5 DEF UserCommand

LEMMA ReserveBlocksTyped ==
    ASSUME TypeOK, NEW p \in Parts, NEW peer \in Peers, NEW max, NEW size,
           ReserveBlocks(p, peer, max, size)
    PROVE  TypeOK'
<1> DEFINE blocks == FirstBlocks(downloads[p].missing, size, Budget(p, peer, max))
           new == [peer : {peer}, block : blocks, left : {LeaseTime}]
<1>1. blocks \in SUBSET (SUBSET Bytes)
  BY FirstBlocksMissing DEF TypeOK, PartMet
<1>2. new \in SUBSET Lease
  BY <1>1, ConstantsAssumption DEF Lease
<1>3. Reserve(downloads[p], blocks) \in PartMet
  BY <1>1, ReserveTyped DEF TypeOK
<1>4. /\ downloads' = [downloads EXCEPT ![p] = Reserve(downloads[p], blocks)]
      /\ leases' = [leases EXCEPT ![p] = leases[p] \cup new]
      /\ UNCHANGED <<running, cooldown, partFiles, written, stray, incoming>>
      /\ Save(p)
  BY DEF ReserveBlocks, files, TypeOK
<1> HIDE DEF blocks, new
<1>5. downloads' \in [Parts -> PartMet] /\ leases' \in [Parts -> SUBSET Lease]
  BY <1>2, <1>3, <1>4 DEF TypeOK
<1>6. met' \in [Parts -> PartMet]
  BY <1>4, <1>5, SaveTyped
<1>7. pass' \in PassRecord
  BY ThenFinalizeTyped DEF ReserveBlocks, PassKinds
<1> QED
  BY <1>4, <1>5, <1>6, <1>7 DEF TypeOK, PassRecord

LEMMA MarkReceivedTyped ==
    ASSUME TypeOK, NEW p \in Parts, NEW peer \in Peers, NEW block \in SUBSET Bytes,
           MarkReceived(p, peer, block)
    PROVE  /\ downloads' \in [Parts -> PartMet]
           /\ leases' \in [Parts -> SUBSET Lease]
           /\ met' \in [Parts -> PartMet]
<1>1. downloads' \in [Parts -> PartMet]
  BY ReceiveTyped DEF TypeOK, MarkReceived
<1>2. leases' \in [Parts -> SUBSET Lease]
  BY DEF TypeOK, MarkReceived
<1> QED
  BY <1>1, <1>2, SaveTyped DEF MarkReceived

LEMMA PersistTyped ==
    ASSUME TypeOK, NEW p \in Parts, NEW bytes \in SUBSET Bytes, NEW leased,
           Persist(p, bytes, leased)
    PROVE  written' \in [Parts -> SUBSET Bytes] /\ stray' \in [Parts -> SUBSET Bytes]
BY DEF TypeOK, Persist

LEMMA BlocksAreBytes == Blocks \subseteq SUBSET Bytes
BY ConstantsAssumption DEF Blocks, Bytes

LEMMA TransferCommandTyped ==
    ASSUME TypeOK, TransferCommand
    PROVE  TypeOK'
<1>1. ASSUME NEW p \in Parts, NEW peer \in Peers, NEW max, NEW size,
             ReserveBlocks(p, peer, max, size)
      PROVE  TypeOK'
  BY <1>1, ReserveBlocksTyped
<1>2. ASSUME NEW p \in Parts, NEW peer \in Peers, NEW block \in Blocks,
             MarkBlockReceived(p, peer, block)
      PROVE  TypeOK'
  <2>1. pass' \in PassRecord
    BY <1>2, ThenFinalizeTyped DEF MarkBlockReceived, PassKinds
  <2> QED
    BY <1>2, <2>1, BlocksAreBytes, MarkReceivedTyped
       DEF MarkBlockReceived, TypeOK, PassRecord, files
<1>3. ASSUME NEW p \in Parts, NEW peer \in Peers, NEW block \in Blocks,
             IngestInboundPacket(p, peer, block)
      PROVE  TypeOK'
  <2>1. pass' \in PassRecord
    BY <1>3, ThenFinalizeTyped DEF IngestInboundPacket, PassKinds
  <2>2. written' \in [Parts -> SUBSET Bytes] /\ stray' \in [Parts -> SUBSET Bytes]
    BY <1>3, BlocksAreBytes, PersistTyped DEF IngestInboundPacket
  <2>3. /\ downloads' \in [Parts -> PartMet]
        /\ leases' \in [Parts -> SUBSET Lease]
        /\ met' \in [Parts -> PartMet]
    <3>1. CASE MarkReceived(p, peer, block)
      BY <3>1, BlocksAreBytes, MarkReceivedTyped
    <3>2. CASE UNCHANGED <<downloads, leases, met>>
      BY <3>2 DEF TypeOK
    <3> QED
      BY <1>3, <3>1, <3>2 DEF IngestInboundPacket
  <2> QED
    BY <1>3, <2>1, <2>2, <2>3 DEF IngestInboundPacket, TypeOK, PassRecord
<1>4. ASSUME NEW p \in Parts, NEW peer \in Peers, NEW block \in Blocks,
             IngestTorn(p, peer, block)
      PROVE  TypeOK'
  <2>1. pass' \in PassRecord
    BY <1>4, ThenFinalizeTyped DEF IngestTorn, PassKinds
  <2>2. PICK b \in block :
            Persist(p, {a \in block : a < b}, LeaseFor(p, peer, block) # {})
    BY <1>4 DEF IngestTorn
  <2>3. {a \in block : a < b} \in SUBSET Bytes
    BY BlocksAreBytes
  <2>4. written' \in [Parts -> SUBSET Bytes] /\ stray' \in [Parts -> SUBSET Bytes]
    BY <2>2, <2>3, PersistTyped
  <2> QED
    BY <1>4, <2>1, <2>4 DEF IngestTorn, TypeOK, PassRecord, memory
<1>5. ASSUME NEW p \in Parts, NEW peer \in Peers, NEW block \in Blocks,
             MarkBlockFailed(p, peer, block)
      PROVE  TypeOK'
  <2>1. pass' \in PassRecord
    BY <1>5, ThenFinalizeTyped DEF MarkBlockFailed, PassKinds
  <2>2. downloads' \in [Parts -> PartMet]
    BY <1>5, BlocksAreBytes, FailTyped DEF MarkBlockFailed, TypeOK
  <2>3. met' \in [Parts -> PartMet]
    BY <1>5, <2>2, SaveTyped DEF MarkBlockFailed
  <2>4. Backoff(downloads[p])' \in 0 .. BackoffMax
    BY <2>2, BackoffTyped
  <2>5. cooldown' \in [Parts -> 0 .. BackoffMax]
    BY <1>5, <2>4 DEF MarkBlockFailed, TypeOK, Backoff
  <2>6. leases' \in [Parts -> SUBSET Lease]
    BY <1>5 DEF MarkBlockFailed, TypeOK
  <2> QED
    BY <1>5, <2>1, <2>2, <2>3, <2>5, <2>6
       DEF MarkBlockFailed, TypeOK, PassRecord, files
<1>6. ASSUME NEW peer \in Peers, PeerDisconnected(peer) PROVE TypeOK'
  <2> DEFINE lost == [p \in Parts |-> LeasesOf(p, peer)]
  <2>1. lost \in [Parts -> SUBSET Lease]
    BY DEF LeasesOf, TypeOK
  <2>2. PICK failed : ReclaimLeases(lost, failed)
    BY <1>6 DEF PeerDisconnected
  <2>3. pass' \in PassRecord
    BY <1>6, ThenFinalizeTyped DEF PeerDisconnected, PassKinds
  <2> HIDE DEF lost
  <2>4. /\ downloads' \in [Parts -> PartMet]
        /\ leases' \in [Parts -> SUBSET Lease]
        /\ cooldown' \in [Parts -> 0 .. BackoffMax]
        /\ met' \in [Parts -> PartMet]
    BY <2>1, <2>2, ReclaimLeasesTyped
  <2> QED
    BY <1>6, <2>3, <2>4 DEF PeerDisconnected, TypeOK, PassRecord, files
<1> QED
  BY <1>1, <1>2, <1>3, <1>4, <1>5, <1>6 DEF TransferCommand

LEMMA ServiceTickTyped ==
    ASSUME TypeOK, ServiceTick \/ ServiceTickFails
    PROVE  TypeOK'
<1>0. Expired \in [Parts -> SUBSET Lease]
  BY DEF Expired, TypeOK
<1>1. CASE ServiceTick
  <2>1. pass' \in PassRecord
    BY <1>1, ThenFinalizeTyped DEF ServiceTick, PassKinds
  <2>2. /\ downloads' \in [Parts -> PartMet]
        /\ leases' \in [Parts -> SUBSET Lease]
        /\ cooldown' \in [Parts -> 0 .. BackoffMax]
        /\ met' \in [Parts -> PartMet]
    BY <1>0, <1>1, ReclaimLeasesTyped DEF ServiceTick
  <2> QED
    BY <1>1, <2>1, <2>2 DEF ServiceTick, TypeOK, PassRecord, files
<1>2. CASE ServiceTickFails
  <2>1. PICK saved : met' = SaveIn(ReclaimIn(Expired, saved), saved)
    BY <1>2 DEF ServiceTickFails
  <2>2. ASSUME NEW p \in Parts
        PROVE  Reclaim(downloads[p], BlocksOf(Expired[p])) \in PartMet
    BY <1>0, ReclaimTyped, BlocksOfLeases DEF TypeOK
  <2>3. ReclaimIn(Expired, saved) \in [Parts -> PartMet]
    BY <2>2 DEF ReclaimIn, TypeOK
  <2>4. met' \in [Parts -> PartMet]
    BY <2>1, <2>3 DEF SaveIn, TypeOK
  <2> QED
    BY <1>2, <2>4, ForgetTyped DEF ServiceTickFails, TypeOK, PassRecord, files
<1> QED
  BY <1>1, <1>2

LEMMA ClockTickTyped ==
    ASSUME TypeOK, ClockTick
    PROVE  TypeOK'
<1>1. ASSUME NEW l \in Lease PROVE [l EXCEPT !.left = Less(@)] \in Lease
  BY ConstantsAssumption DEF Lease, Less
<1>2. leases' \in [Parts -> SUBSET Lease]
  BY <1>1 DEF ClockTick, TypeOK
<1>3. \A t \in 0 .. BackoffMax : Less(t) \in 0 .. BackoffMax
  BY ConstantsAssumption DEF Less
<1>4. cooldown' \in [Parts -> 0 .. BackoffMax]
  BY <1>3 DEF ClockTick, TypeOK
<1> QED
  BY <1>2, <1>4 DEF ClockTick, TypeOK, files

LEMMA MovedTyped ==
    ASSUME TypeOK, NEW p \in Parts, Moved(p) \/ UNCHANGED files
    PROVE  /\ partFiles' \subseteq Parts
           /\ written' \in [Parts -> SUBSET Bytes]
           /\ stray' \in [Parts -> SUBSET Bytes]
           /\ incoming' \subseteq Parts
BY DEF TypeOK, Moved, files

\* After a failed pass either the actor is gone or only its map may have changed.
LEMMA PassFailsTyped ==
    ASSUME TypeOK, InPass, PassFails,
           pass.kind = "command" => downloads' \in [Parts -> PartMet]
    PROVE  /\ running' \in BOOLEAN
           /\ downloads' \in [Parts -> PartMet]
           /\ leases' \in [Parts -> SUBSET Lease]
           /\ cooldown' \in [Parts -> 0 .. BackoffMax]
           /\ pass' \in PassRecord
<1>1. CASE pass.kind = "tick"
  BY <1>1, ForgetTyped DEF PassFails
<1>2. CASE pass.kind = "command"
  BY <1>2 DEF PassFails, TypeOK, NoPass, PassRecord, PassKinds
<1> QED
  BY <1>1, <1>2 DEF InPass, TypeOK, PassKinds

LEMMA FinalizeTyped ==
    ASSUME TypeOK, Finalize
    PROVE  TypeOK'
<1>1. CASE FinalizeCompleted
  <2> DEFINE p == Least(pass.todo)
  <2>1. p \in Parts
    BY <1>1, LeastPart DEF FinalizeCompleted, TypeOK
  <2>2. pass' \in PassRecord
    BY <1>1, <2>1, PassTyped DEF FinalizeCompleted, TypeOK
  <2> QED
    BY <1>1, <2>2 DEF FinalizeCompleted, TypeOK, PassRecord, memory, files
<1>2. CASE FinalizeCompleting
  <2> DEFINE p == Least(pass.todo)
             whole == downloads[p].downloaded = FileSize
             after == [downloads EXCEPT
                          ![p].state = IF whole THEN "Completed" ELSE "Error"]
  <2>1. p \in Parts
    BY <1>2, LeastPart DEF FinalizeCompleting, TypeOK
  <2>2. pass' \in PassRecord
    BY <1>2, <2>1, PassTyped DEF FinalizeCompleting, TypeOK
  <2>3. after \in [Parts -> PartMet]
    BY StateChangeTyped DEF TypeOK, States
  <2>4. Moved(p) \/ UNCHANGED files
    BY <1>2 DEF FinalizeCompleting
  <2>5. downloads' = after /\ met' = [met EXCEPT ![p] = after[p]]
    BY <1>2 DEF FinalizeCompleting
  <2>6. UNCHANGED <<running, leases, cooldown>>
    BY <1>2 DEF FinalizeCompleting
  <2> HIDE DEF p, after
  <2>7. met' \in [Parts -> PartMet]
    BY <2>1, <2>3, <2>5 DEF TypeOK
  <2> QED
    BY <2>1, <2>2, <2>3, <2>4, <2>5, <2>6, <2>7, MovedTyped DEF TypeOK, PassRecord
<1>3. CASE FinalizeFails
  <2> DEFINE p == Least(pass.todo)
  <2>1. p \in Parts
    BY <1>3, LeastPart DEF FinalizeFails, TypeOK
  <2>2. PICK failed : /\ IF failed = "move" THEN UNCHANGED files ELSE Moved(p)
                      /\ PassFails
                      /\ pass.kind = "command" =>
                           downloads' = IF failed = "met"
                                        THEN [downloads EXCEPT ![p].state = "Completed"]
                                        ELSE downloads
    BY <1>3 DEF FinalizeFails
  <2> HIDE DEF p
  <2>3. pass.kind = "command" => downloads' \in [Parts -> PartMet]
    <3>1. [downloads EXCEPT ![p].state = "Completed"] \in [Parts -> PartMet]
      BY <2>1, StateChangeTyped DEF TypeOK, States
    <3>2. downloads \in [Parts -> PartMet]
      BY DEF TypeOK
    <3> QED
      BY <2>2, <3>1, <3>2
  <2>4. Moved(p) \/ UNCHANGED files
    BY <2>2
  <2>5. InPass /\ met' = met
    BY <1>3 DEF FinalizeFails
  <2> QED
    BY <2>1, <2>2, <2>3, <2>4, <2>5, MovedTyped, PassFailsTyped DEF TypeOK, PassRecord
<1>4. CASE RemoveMetadata
  <2> DEFINE p == Least(pass.done)
  <2>1. pass' \in PassRecord
    BY <1>4, PassTyped DEF RemoveMetadata, TypeOK
  <2>2. 0 \in 0 .. BackoffMax
    BY ConstantsAssumption
  <2> QED
    BY <1>4, <2>1, <2>2, NewMetTyped DEF RemoveMetadata, TypeOK, PassRecord, files
<1>5. CASE RemoveFails
  <2>1. pass.kind = "command" => downloads' \in [Parts -> PartMet]
    BY <1>5 DEF RemoveFails, TypeOK
  <2>2. met' \in [Parts -> PartMet]
    BY <1>5, NewMetTyped DEF RemoveFails, TypeOK
  <2> QED
    BY <1>5, <2>1, <2>2, PassFailsTyped DEF RemoveFails, TypeOK, PassRecord, files
<1>6. CASE KilledAfterMove
  <2> DEFINE p == Least(pass.todo)
  <2>1. p \in Parts
    BY <1>6, LeastPart DEF KilledAfterMove, TypeOK
  <2>2. Moved(p) /\ Forget /\ met' = met
    BY <1>6 DEF KilledAfterMove
  <2> HIDE DEF p
  <2> QED
    BY <2>1, <2>2, MovedTyped, ForgetTyped DEF TypeOK, PassRecord
<1> QED
  BY <1>1, <1>2, <1>3, <1>4, <1>5, <1>6 DEF Finalize

LEMMA StopStartTyped ==
    ASSUME TypeOK, Stop \/ Start
    PROVE  TypeOK'
<1>1. CASE Stop
  BY <1>1, ForgetTyped DEF Stop, TypeOK, PassRecord, files
<1>2. CASE Start
  BY <1>2, RecoverTyped DEF Start, TypeOK, files
<1> QED
  BY <1>1, <1>2

\* Every reachable state is typed: no handler, in whatever order they run and
\* whichever of their writes fail, takes a counter or a range out of its bounds.
THEOREM TypeCorrect == Spec => []TypeOK
<1>1. TypeOK /\ [Next]_vars => TypeOK'
  <2> SUFFICES ASSUME TypeOK, [Next]_vars PROVE TypeOK'
    OBVIOUS
  <2>1. CASE UNCHANGED vars
    BY <2>1 DEF TypeOK, vars
  <2> QED
    BY <2>1, UserCommandTyped, TransferCommandTyped, ServiceTickTyped, ClockTickTyped,
       FinalizeTyped, StopStartTyped DEF Next
<1> QED
  BY <1>1, InitTyped, PTL DEF Spec
=============================================================================
