----------------------- MODULE DownloadRecoveryProofs -----------------------
(***************************************************************************)
(* What DownloadService keeps of the bytes it received: in the actor, in   *)
(* the .part.met on disk, and in the .part file.  Every step does one of   *)
(* seven things to a part (StepOf); the theorems follow from those.        *)
(***************************************************************************)
EXTENDS DownloadLeaseProofs

\* A record of no state is no record.
AbsentIsNone ==
    \A p \in Parts : /\ downloads[p].state = "None" => downloads[p] = None
                     /\ met[p].state = "None" => met[p] = None

\* The metadata of a download goes from d to e, and the bytes that stop being
\* outstanding are in the .part, unless a caller marked them received itself.
Advances(d, e, inPart) ==
    /\ d.state # "None" /\ e.state # "None"
    /\ Outstanding(e) \subseteq Outstanding(d)
    /\ DirectMarks \/ Outstanding(d) \subseteq Outstanding(e) \cup inPart

\* The .part file of p, if it is there, was there and lost no byte.
PartKept(p) ==
    "create" \notin Faults /\ p \in partFiles' =>
        p \in partFiles /\ written[p] \subseteq written'[p]

Rests(p) == UNCHANGED <<downloads[p], met[p]>>

Leaves(p) == downloads'[p] = None /\ met'[p] \in {met[p], None}

Dies(p) == /\ downloads'[p] = None
           /\ Advances(downloads[p], met'[p], written'[p])

LosesMet(p) == downloads'[p] = downloads[p] /\ met'[p] = None

Moves(p) == /\ Advances(downloads[p], downloads'[p], written'[p])
            /\ met'[p] \in {met[p], downloads'[p]}

Begins(p) == /\ p \notin partFiles /\ met[p] = None
             /\ downloads'[p] = NewMet /\ met'[p] = NewMet

Returns(p) == ~ running /\ downloads'[p] = Recover(met[p]) /\ met'[p] = met[p]

StepOf(p) ==
    \/ Begins(p)
    \/ /\ PartKept(p)
       /\ Rests(p) \/ Leaves(p) \/ Dies(p) \/ LosesMet(p) \/ Moves(p) \/ Returns(p)

Known == TypeOK /\ Books /\ AbsentIsNone

-----------------------------------------------------------------------------
(* Outstanding bytes *)

LEMMA StateChangeOutstanding ==
    ASSUME NEW d \in PartMet, NEW s
    PROVE  Outstanding([d EXCEPT !.state = s]) = Outstanding(d)
BY DEF Outstanding, PartMet

LEMMA ReserveOutstanding ==
    ASSUME NEW d \in PartMet, NEW blocks \in SUBSET (SUBSET d.missing)
    PROVE  Outstanding(Reserve(d, blocks)) = Outstanding(d)
<1>1. /\ Reserve(d, blocks).missing = d.missing \ UNION blocks
      /\ Reserve(d, blocks).inflight = d.inflight \cup blocks
  BY DEF Reserve, PartMet
<1> QED
  BY <1>1 DEF Outstanding

LEMMA ReceiveOutstanding ==
    ASSUME NEW d \in PartMet, NEW block \in d.inflight
    PROVE  /\ Outstanding(Receive(d, block)) \subseteq Outstanding(d)
           /\ Outstanding(d) \subseteq Outstanding(Receive(d, block)) \cup block
BY ReceiveFields DEF Outstanding

LEMMA FailOutstanding ==
    ASSUME NEW d \in PartMet, NEW block \in d.inflight
    PROVE  Outstanding(Fail(d, block)) = Outstanding(d)
<1>1. block \in SUBSET Bytes
  BY DEF PartMet
<1> QED
  BY <1>1, FailFields DEF Outstanding

LEMMA ReclaimOutstanding ==
    ASSUME NEW d \in PartMet, NEW blocks \in SUBSET d.inflight
    PROVE  Outstanding(Reclaim(d, blocks)) = Outstanding(d)
<1>1. blocks \in SUBSET (SUBSET Bytes)
  BY DEF PartMet
<1> QED
  BY <1>1, ReclaimFields DEF Outstanding

LEMMA OutstandingBytes ==
    ASSUME NEW d \in PartMet
    PROVE  Outstanding(d) \in SUBSET Bytes
BY DEF Outstanding, PartMet

-----------------------------------------------------------------------------
(* Every step does one of the seven things *)

\* A lease makes its download a managed one.
LEMMA LeasedIsManaged ==
    ASSUME Known, NEW p \in Parts, leases[p] # {}
    PROVE  Managed(p)
<1>1. downloads[p].inflight # {}
  BY DEF Known, Books, LeaseAccounting, Accounted, BlocksOf
<1> QED
  BY <1>1, NewMetFields DEF Known, AbsentIsNone, Managed

LEMMA SaveCases ==
    ASSUME Known, NEW p \in Parts, Save(p), NEW q \in Parts
    PROVE  IF q = p THEN met'[p] \in {met[p], downloads'[p]} ELSE met'[q] = met[q]
BY DEF Save, Known, TypeOK

LEMMA SetStateSteps ==
    ASSUME Known, NEW p \in Parts, NEW s \in {"Paused", "Queued", "Cancelled"},
           NEW allowed, "None" \notin allowed, SetState(p, s, allowed), NEW q \in Parts
    PROVE  StepOf(q)
<1>1. /\ downloads'[p] = [downloads[p] EXCEPT !.state = s]
      /\ \A r \in Parts \ {p} : downloads'[r] = downloads[r]
      /\ downloads[p].state # "None" /\ UNCHANGED files /\ Save(p)
  BY DEF SetState, Known, TypeOK
<1>2. downloads[p] \in PartMet
  BY DEF Known, TypeOK
<1>3. Outstanding(downloads'[p]) = Outstanding(downloads[p])
  BY <1>1, <1>2, StateChangeOutstanding
<1>4. downloads'[p].state = s
  BY <1>1, <1>2 DEF PartMet
<1>5. PartKept(q)
  BY <1>1 DEF PartKept, files
<1> QED
  BY <1>1, <1>3, <1>4, <1>5, SaveCases DEF StepOf, Moves, Rests, Advances

LEMMA UserCommandSteps ==
    ASSUME Known, UserCommand, NEW q \in Parts
    PROVE  StepOf(q)
<1>1. ASSUME CreateDownload PROVE StepOf(q)
  <2> DEFINE p == Least(FreeParts)
  <2>1. p \in FreeParts
    BY <1>1, LeastPart DEF CreateDownload, FreeParts
  <2>2. partFiles' = partFiles \cup {p} /\ UNCHANGED written
    BY <1>1 DEF CreateDownload
  <2> HIDE DEF p
  <2>3. CASE /\ downloads' = [downloads EXCEPT ![p] = NewMet]
             /\ met' = [met EXCEPT ![p] = NewMet]
    BY <2>1, <2>2, <2>3
       DEF FreeParts, StepOf, Begins, Rests, PartKept, Known, TypeOK
  <2>4. CASE "create" \in Faults /\ UNCHANGED <<memory, met>>
    BY <2>4 DEF StepOf, Rests, PartKept, memory
  <2> QED
    BY <1>1, <2>3, <2>4 DEF CreateDownload, p
<1>2. ASSUME NEW p \in Parts, Pause(p) \/ Resume(p) \/ Cancel(p) PROVE StepOf(q)
  BY <1>2, SetStateSteps DEF Pause, Resume, Cancel, Active
<1>3. ASSUME NEW p \in Parts, DeleteDownload(p) PROVE StepOf(q)
  BY <1>3 DEF DeleteDownload, StepOf, Leaves, Rests, PartKept, Known, TypeOK
<1>4. ASSUME NEW p \in Parts, DeleteFails(p) PROVE StepOf(q)
  BY <1>4 DEF DeleteFails, StepOf, LosesMet, Rests, PartKept, Known, TypeOK, memory, files
<1>5. ASSUME RefusedCommand PROVE StepOf(q)
  BY <1>5 DEF RefusedCommand, StepOf, Rests, PartKept, memory, files
<1> QED
  BY <1>1, <1>2, <1>3, <1>4, <1>5 DEF UserCommand

LEMMA ReserveBlocksSteps ==
    ASSUME Known, NEW p \in Parts, NEW peer \in Peers, NEW max, NEW size,
           ReserveBlocks(p, peer, max, size), NEW q \in Parts
    PROVE  StepOf(q)
<1> DEFINE blocks == FirstBlocks(downloads[p].missing, size, Budget(p, peer, max))
<1>1. blocks \in SUBSET (SUBSET downloads[p].missing)
  BY FirstBlocksMissing
<1>2. /\ downloads'[p] = Reserve(downloads[p], blocks)
      /\ \A r \in Parts \ {p} : downloads'[r] = downloads[r]
      /\ downloads[p].state \in Active /\ UNCHANGED files /\ Save(p)
  BY DEF ReserveBlocks, Known, TypeOK
<1>3. downloads[p] \in PartMet
  BY DEF Known, TypeOK
<1> HIDE DEF blocks
<1>4. Outstanding(downloads'[p]) = Outstanding(downloads[p])
  BY <1>1, <1>2, <1>3, ReserveOutstanding
<1>5. downloads'[p].state = "Downloading" /\ downloads[p].state # "None"
  BY <1>2, <1>3 DEF Reserve, PartMet, Active
<1>6. PartKept(q)
  BY <1>2 DEF PartKept, files
<1> QED
  BY <1>2, <1>4, <1>5, <1>6, SaveCases DEF StepOf, Moves, Rests, Advances

\* A received block is in the .part by then, or the caller says so.
LEMMA MarkReceivedSteps ==
    ASSUME Known, NEW p \in Parts, NEW peer \in Peers, NEW block \in SUBSET Bytes,
           LeaseFor(p, peer, block) # {}, MarkReceived(p, peer, block),
           DirectMarks \/ block \subseteq written'[p],
           \A r \in Parts : PartKept(r), NEW q \in Parts
    PROVE  StepOf(q)
<1>1. /\ downloads'[p] = Receive(downloads[p], block)
      /\ \A r \in Parts \ {p} : downloads'[r] = downloads[r]
      /\ Save(p) /\ downloads[p] \in PartMet
  BY DEF MarkReceived, Known, TypeOK
<1>2. block \in downloads[p].inflight
  BY LeaseForBlock DEF Known, Books
<1>3. leases[p] # {}
  BY DEF LeaseFor, LeasesOf
<1>4. downloads[p].state # "None"
  BY <1>3, LeasedIsManaged DEF Managed
<1>5. downloads'[p].state # "None"
  BY <1>1, <1>4, ReceiveFields
<1>6. Advances(downloads[p], downloads'[p], written'[p])
  BY <1>1, <1>2, <1>4, <1>5, ReceiveOutstanding DEF Advances
<1> QED
  BY <1>1, <1>6, SaveCases DEF StepOf, Moves, Rests

LEMMA MarkBlockFailedSteps ==
    ASSUME Known, NEW p \in Parts, NEW peer \in Peers, NEW block \in SUBSET Bytes,
           MarkBlockFailed(p, peer, block), NEW q \in Parts
    PROVE  StepOf(q)
<1>1. /\ downloads'[p] = Fail(downloads[p], block)
      /\ \A r \in Parts \ {p} : downloads'[r] = downloads[r]
      /\ Save(p) /\ downloads[p] \in PartMet /\ UNCHANGED files
      /\ LeaseFor(p, peer, block) # {}
  BY DEF MarkBlockFailed, Known, TypeOK
<1>2. block \in downloads[p].inflight
  BY <1>1, LeaseForBlock DEF Known, Books
<1>3. leases[p] # {}
  BY <1>1 DEF LeaseFor, LeasesOf
<1>4. downloads[p].state # "None"
  BY <1>3, LeasedIsManaged DEF Managed
<1>5. downloads'[p].state # "None"
  BY <1>1, FailFields
<1>6. Outstanding(downloads'[p]) = Outstanding(downloads[p])
  BY <1>1, <1>2, FailOutstanding
<1>7. PartKept(q)
  BY <1>1 DEF PartKept, files
<1> QED
  BY <1>1, <1>4, <1>5, <1>6, <1>7, SaveCases DEF StepOf, Moves, Rests, Advances

\* Reclaiming some of the leases of a download advances it by nothing.
LEMMA ReclaimAdvances ==
    ASSUME Known, NEW q \in Parts, NEW ls \in SUBSET leases[q], ls # {}, NEW inPart
    PROVE  Advances(downloads[q], Reclaim(downloads[q], BlocksOf(ls)), inPart)
<1>1. downloads[q] \in PartMet
  BY DEF Known, TypeOK
<1>2. BlocksOf(ls) \in SUBSET downloads[q].inflight
  BY LeasedBlocks DEF Known, Books
<1>3. BlocksOf(ls) \in SUBSET (SUBSET Bytes)
  BY <1>1, <1>2 DEF PartMet
<1>4. downloads[q].state # "None"
  BY LeasedIsManaged DEF Managed
<1>5. Reclaim(downloads[q], BlocksOf(ls)).state # "None"
  BY <1>1, <1>3, <1>4, ReclaimFields
<1> QED
  BY <1>1, <1>2, <1>4, <1>5, ReclaimOutstanding DEF Advances

LEMMA ReclaimLeasesSteps ==
    ASSUME Known, NEW lost \in [Parts -> SUBSET Lease],
           \A p \in Parts : lost[p] \subseteq leases[p],
           NEW failed, failed \subseteq Losing(lost),
           ReclaimLeases(lost, failed), UNCHANGED files, NEW q \in Parts
    PROVE  StepOf(q)
<1> DEFINE saved == Before(Losing(lost), failed)
<1>1. saved \subseteq Losing(lost)
  BY DEF Before
<1>2. /\ downloads'[q] = IF q \in saved \cup failed
                         THEN Reclaim(downloads[q], BlocksOf(lost[q]))
                         ELSE downloads[q]
      /\ met'[q] = IF q \in saved THEN downloads'[q] ELSE met[q]
  BY DEF ReclaimLeases, ReclaimIn, SaveIn
<1>3. PartKept(q)
  BY DEF PartKept, files
<1>4. q \in saved \cup failed => lost[q] # {}
  BY <1>1 DEF Losing
<1> HIDE DEF saved
<1>5. q \in saved \cup failed => Advances(downloads[q], downloads'[q], written'[q])
  BY <1>2, <1>4, ReclaimAdvances
<1> QED
  BY <1>2, <1>3, <1>5 DEF StepOf, Moves, Rests

LEMMA TransferCommandSteps ==
    ASSUME Known, TransferCommand, NEW q \in Parts
    PROVE  StepOf(q)
<1>1. ASSUME NEW p \in Parts, NEW peer \in Peers, NEW max, NEW size,
             ReserveBlocks(p, peer, max, size)
      PROVE  StepOf(q)
  BY <1>1, ReserveBlocksSteps
<1>2. ASSUME NEW p \in Parts, NEW peer \in Peers, NEW block \in Blocks,
             MarkBlockReceived(p, peer, block)
      PROVE  StepOf(q)
  <2>1. \A r \in Parts : PartKept(r)
    BY <1>2 DEF MarkBlockReceived, PartKept, files
  <2> QED
    BY <1>2, <2>1, BlocksAreBytes, MarkReceivedSteps DEF MarkBlockReceived
<1>3. ASSUME NEW p \in Parts, NEW peer \in Peers, NEW block \in Blocks,
             IngestInboundPacket(p, peer, block)
      PROVE  StepOf(q)
  <2>1. block \subseteq written'[p] /\ \A r \in Parts : PartKept(r)
    BY <1>3 DEF IngestInboundPacket, Persist, PartKept, Known, TypeOK
  <2>2. CASE LeaseFor(p, peer, block) # {}
    BY <1>3, <2>1, <2>2, BlocksAreBytes, MarkReceivedSteps DEF IngestInboundPacket
  <2>3. CASE LeaseFor(p, peer, block) = {}
    BY <1>3, <2>1, <2>3 DEF IngestInboundPacket, StepOf, Rests
  <2> QED
    BY <2>2, <2>3
<1>4. ASSUME NEW p \in Parts, NEW peer \in Peers, NEW block \in Blocks,
             IngestTorn(p, peer, block)
      PROVE  StepOf(q)
  BY <1>4 DEF IngestTorn, Persist, PartKept, StepOf, Rests, memory, Known, TypeOK
<1>5. ASSUME NEW p \in Parts, NEW peer \in Peers, NEW block \in Blocks,
             MarkBlockFailed(p, peer, block)
      PROVE  StepOf(q)
  BY <1>5, BlocksAreBytes, MarkBlockFailedSteps
<1>6. ASSUME NEW peer \in Peers, PeerDisconnected(peer) PROVE StepOf(q)
  <2> DEFINE lost == [p \in Parts |-> LeasesOf(p, peer)]
  <2>1. lost \in [Parts -> SUBSET Lease] /\ \A p \in Parts : lost[p] \subseteq leases[p]
    BY DEF LeasesOf, Known, TypeOK
  <2>2. PICK failed : failed \subseteq Losing(lost) /\ ReclaimLeases(lost, failed)
    BY <1>6 DEF PeerDisconnected, Failures
  <2> HIDE DEF lost
  <2> QED
    BY <1>6, <2>1, <2>2, ReclaimLeasesSteps DEF PeerDisconnected
<1> QED
  BY <1>1, <1>2, <1>3, <1>4, <1>5, <1>6 DEF TransferCommand

LEMMA ForgetSteps ==
    ASSUME Forget, NEW q \in Parts, met'[q] \in {met[q], None}, PartKept(q)
    PROVE  StepOf(q)
BY DEF Forget, StepOf, Leaves

LEMMA TickSteps ==
    ASSUME Known, ServiceTick \/ ServiceTickFails \/ ClockTick, NEW q \in Parts
    PROVE  StepOf(q)
<1>1. Expired \in [Parts -> SUBSET Lease] /\ \A p \in Parts : Expired[p] \subseteq leases[p]
  BY DEF Expired, Known, TypeOK
<1>2. CASE ServiceTick
  BY <1>1, <1>2, ReclaimLeasesSteps DEF ServiceTick
<1>3. CASE ServiceTickFails
  <2>1. PICK saved : /\ saved \subseteq Losing(Expired)
                     /\ met' = SaveIn(ReclaimIn(Expired, saved), saved)
    BY <1>3 DEF ServiceTickFails, Before
  <2>2. met'[q] = IF q \in saved THEN Reclaim(downloads[q], BlocksOf(Expired[q]))
                  ELSE met[q]
    BY <2>1 DEF SaveIn, ReclaimIn
  <2>3. q \in saved => Expired[q] # {}
    BY <2>1 DEF Losing
  <2>4. q \in saved => Advances(downloads[q], met'[q], written'[q])
    BY <1>1, <2>2, <2>3, ReclaimAdvances
  <2>5. PartKept(q) /\ downloads'[q] = None
    BY <1>3 DEF ServiceTickFails, Forget, PartKept, files
  <2> QED
    BY <2>2, <2>4, <2>5 DEF StepOf, Leaves, Dies
<1>4. CASE ClockTick
  BY <1>4 DEF ClockTick, StepOf, Rests, PartKept, files
<1> QED
  BY <1>2, <1>3, <1>4

\* A completing download becomes completed, with the .part moved or not.
LEMMA CompletedSteps ==
    ASSUME Known, NEW p \in Parts, downloads[p].state = "Completing",
           NEW s \in {"Completed", "Error"},
           downloads' = [downloads EXCEPT ![p].state = s],
           \A r \in Parts : met'[r] \in {met[r], downloads'[r]},
           \A r \in Parts \ {p} : met'[r] = met[r],
           NEW q \in Parts, PartKept(q)
    PROVE  StepOf(q)
<1>1. /\ downloads'[p] = [downloads[p] EXCEPT !.state = s]
      /\ \A r \in Parts \ {p} : downloads'[r] = downloads[r]
      /\ downloads[p] \in PartMet
  BY DEF Known, TypeOK
<1>2. Outstanding(downloads'[p]) = Outstanding(downloads[p])
  BY <1>1, StateChangeOutstanding
<1>3. downloads'[p].state = s
  BY <1>1 DEF PartMet
<1> QED
  BY <1>1, <1>2, <1>3 DEF StepOf, Moves, Rests, Advances

LEMMA MovedKeeps ==
    ASSUME Known, NEW p \in Parts, Moved(p) \/ UNCHANGED files, NEW q \in Parts
    PROVE  PartKept(q)
BY DEF Moved, files, PartKept, Known, TypeOK

LEMMA FinalizeSteps ==
    ASSUME Known, Finalize, NEW q \in Parts
    PROVE  StepOf(q)
<1>1. CASE FinalizeCompleted
  BY <1>1 DEF FinalizeCompleted, StepOf, Rests, PartKept, memory, files
<1>2. CASE FinalizeCompleting
  <2> DEFINE p == Least(pass.todo)
             s == IF downloads[p].downloaded = FileSize THEN "Completed" ELSE "Error"
  <2>1. p \in Parts
    BY <1>2, LeastPart DEF FinalizeCompleting, Known, TypeOK
  <2>2. /\ downloads[p].state = "Completing"
        /\ downloads' = [downloads EXCEPT ![p].state = s]
        /\ met' = [met EXCEPT ![p] = downloads'[p]]
        /\ Moved(p) \/ UNCHANGED files
    BY <1>2 DEF FinalizeCompleting
  <2>3. s \in {"Completed", "Error"}
    OBVIOUS
  <2> HIDE DEF p, s
  <2>4. /\ \A r \in Parts : met'[r] \in {met[r], downloads'[r]}
        /\ \A r \in Parts \ {p} : met'[r] = met[r]
    BY <2>1, <2>2 DEF Known, TypeOK
  <2> QED
    BY <2>1, <2>2, <2>3, <2>4, MovedKeeps, CompletedSteps
<1>3. CASE FinalizeFails
  <2> DEFINE p == Least(pass.todo)
  <2>1. p \in Parts
    BY <1>3, LeastPart DEF FinalizeFails, Known, TypeOK
  <2>2. /\ downloads[p].state = "Completing" /\ met' = met
        /\ PassFails /\ (Moved(p) \/ UNCHANGED files)
        /\ pass.kind = "command" =>
              downloads' \in {downloads, [downloads EXCEPT ![p].state = "Completed"]}
    BY <1>3 DEF FinalizeFails
  <2> HIDE DEF p
  <2>3. PartKept(q)
    BY <2>1, <2>2, MovedKeeps
  <2>4. CASE pass.kind = "tick"
    BY <2>2, <2>3, <2>4, ForgetSteps DEF PassFails
  <2>5. CASE downloads' = downloads
    BY <2>2, <2>3, <2>5 DEF StepOf, Rests
  <2>6. CASE downloads' = [downloads EXCEPT ![p].state = "Completed"]
    BY <2>1, <2>2, <2>3, <2>6, CompletedSteps
  <2>7. pass.kind \in {"tick", "command"}
    BY <1>3 DEF FinalizeFails, InPass, Known, TypeOK, PassKinds
  <2> QED
    BY <2>2, <2>4, <2>5, <2>6, <2>7
<1>4. CASE RemoveMetadata
  BY <1>4 DEF RemoveMetadata, StepOf, Leaves, Rests, PartKept, files, Known, TypeOK
<1>5. CASE RemoveFails
  <2>1. met'[q] \in {met[q], None} /\ PartKept(q) /\ PassFails
    BY <1>5 DEF RemoveFails, PartKept, files, Known, TypeOK
  <2>2. CASE pass.kind = "tick"
    BY <2>1, <2>2, ForgetSteps DEF PassFails
  <2>3. CASE downloads' = downloads
    BY <2>1, <2>3 DEF StepOf, Rests, LosesMet
  <2>4. pass.kind \in {"tick", "command"}
    BY <1>5 DEF RemoveFails, InPass, Known, TypeOK, PassKinds
  <2> QED
    BY <1>5, <2>2, <2>3, <2>4 DEF RemoveFails
<1>6. CASE KilledAfterMove
  <2> DEFINE p == Least(pass.todo)
  <2>1. p \in Parts
    BY <1>6, LeastPart DEF KilledAfterMove, Known, TypeOK
  <2>2. Moved(p) /\ Forget /\ met' = met
    BY <1>6 DEF KilledAfterMove
  <2> HIDE DEF p
  <2>3. PartKept(q)
    BY <2>1, <2>2, MovedKeeps
  <2> QED
    BY <2>2, <2>3, ForgetSteps
<1> QED
  BY <1>1, <1>2, <1>3, <1>4, <1>5, <1>6 DEF Finalize

LEMMA Steps ==
    ASSUME Known, [Next]_vars, NEW q \in Parts
    PROVE  StepOf(q)
<1>1. CASE UNCHANGED vars
  BY <1>1 DEF vars, StepOf, Rests, PartKept
<1>2. CASE Stop
  BY <1>2, ForgetSteps DEF Stop, PartKept, files
<1>3. CASE Start
  BY <1>3 DEF Start, StepOf, Returns, PartKept, files
<1> QED
  BY <1>1, <1>2, <1>3, UserCommandSteps, TransferCommandSteps, TickSteps, FinalizeSteps
     DEF Next

-----------------------------------------------------------------------------
(* The theorems *)

LEMMA AlwaysKnown == Spec => []Known
<1>1. Init => AbsentIsNone
  BY DEF Init, AbsentIsNone
<1>2. Known /\ [Next]_vars => AbsentIsNone'
  <2> SUFFICES ASSUME Known, [Next]_vars, NEW q \in Parts
               PROVE  /\ downloads'[q].state = "None" => downloads'[q] = None
                      /\ met'[q].state = "None" => met'[q] = None
    BY DEF AbsentIsNone
  <2>1. /\ downloads[q].state = "None" => downloads[q] = None
        /\ met[q].state = "None" => met[q] = None
    BY DEF Known, AbsentIsNone
  <2>2. CASE Returns(q)
    <3>1. met[q] \in PartMet
      BY DEF Known, TypeOK
    <3>2. CASE Recover(met[q]).state = "None"
      <4>1. met[q] = None
        BY <2>1, <3>1, <3>2, RecoverFields
      <4> QED
        BY <2>2, <4>1, NewMetFields DEF Returns, Recover
    <3> QED
      BY <2>1, <2>2, <3>2 DEF Returns
  <2>3. StepOf(q)
    BY Steps
  <2> QED
    BY <2>1, <2>2, <2>3, NewMetFields
       DEF StepOf, Begins, Rests, Leaves, Dies, LosesMet, Moves, Advances
<1> QED
  BY <1>1, <1>2, BooksHold, PTL DEF Spec, Known

\* Outstanding and Received are complements in the file.
LEMMA ReceivedAntitone ==
    ASSUME NEW d \in PartMet, NEW e \in PartMet
    PROVE  Received(d) \subseteq Received(e) <=> Outstanding(e) \subseteq Outstanding(d)
BY OutstandingBytes DEF Received

LEMMA RecoverReceived ==
    ASSUME NEW m \in PartMet
    PROVE  Received(Recover(m)) = Received(m)
BY RecoverFields DEF Received

LEMMA AdvancesReceives ==
    ASSUME NEW d \in PartMet, NEW e \in PartMet, NEW inPart, Advances(d, e, inPart)
    PROVE  /\ Received(d) \subseteq Received(e)
           /\ d # None /\ e # None
           /\ ~ DirectMarks => Received(e) \subseteq Received(d) \cup inPart
BY ReceivedAntitone, OutstandingBytes, NewMetFields DEF Advances, Received

LEMMA StepTypes ==
    ASSUME Known, TypeOK', NEW q \in Parts
    PROVE  /\ downloads[q] \in PartMet /\ downloads'[q] \in PartMet
           /\ met[q] \in PartMet /\ met'[q] \in PartMet
BY DEF Known, TypeOK

\* The actor knows of every byte the saved metadata calls received: mark_block_received
\* changes the map before it saves, and nothing makes the map forget a byte.
THEOREM DiskBehind == Spec => []DiskNotAhead
<1>1. Init => DiskNotAhead
  BY DEF Init, DiskNotAhead
<1>2. Known /\ TypeOK' /\ DiskNotAhead /\ [Next]_vars => DiskNotAhead'
  <2> SUFFICES ASSUME Known, TypeOK', DiskNotAhead, [Next]_vars, NEW q \in Parts,
                      Managed(q)', met'[q] # None
               PROVE  Received(met'[q]) \subseteq Received(downloads'[q])
    BY DEF DiskNotAhead
  <2>1. /\ downloads[q] \in PartMet /\ downloads'[q] \in PartMet
        /\ met[q] \in PartMet /\ met'[q] \in PartMet
    BY StepTypes
  <2>2. downloads'[q] # None
    BY NewMetFields DEF Managed
  <2>3. downloads[q].state # "None" /\ met[q] # None =>
            Received(met[q]) \subseteq Received(downloads[q])
    BY DEF DiskNotAhead, Managed
  <2>4. CASE Moves(q)
    <3>1. Received(downloads[q]) \subseteq Received(downloads'[q])
      BY <2>1, <2>4, AdvancesReceives DEF Moves
    <3>2. CASE met'[q] = met[q]
      BY <2>3, <2>4, <3>1, <3>2 DEF Moves, Advances
    <3>3. CASE met'[q] = downloads'[q]
      BY <3>3
    <3> QED
      BY <2>4, <3>2, <3>3 DEF Moves
  <2>5. CASE Returns(q)
    BY <2>1, <2>5, RecoverReceived DEF Returns
  <2>6. CASE Rests(q)
    BY <2>3, <2>6 DEF Rests, Managed
  <2>7. StepOf(q)
    BY Steps
  <2> QED
    BY <2>2, <2>4, <2>5, <2>6, <2>7
       DEF StepOf, Begins, Leaves, Dies, LosesMet, Advances
<1> QED
  BY <1>1, <1>2, AlwaysKnown, TypeCorrect, PTL DEF Spec

\* No step un-receives a byte, in the actor as long as the .part is there, or on disk:
\* whichever writes fail, an update of the metadata only ever adds to it.
THEOREM ReceivedIsKept == Spec => NothingReceivedIsLost
<1> DEFINE Kept == \A p \in Parts :
               /\ p \in partFiles /\ Managed(p) /\ Managed(p)' =>
                     Received(downloads[p]) \subseteq Received(downloads'[p])
               /\ met[p] # None /\ met'[p] # None =>
                     Received(met[p]) \subseteq Received(met'[p])
<1>1. Known /\ TypeOK' /\ DiskNotAhead /\ [Next]_vars => Kept
  <2> SUFFICES ASSUME Known, TypeOK', DiskNotAhead, [Next]_vars, NEW q \in Parts
               PROVE  /\ q \in partFiles /\ Managed(q) /\ Managed(q)' =>
                            Received(downloads[q]) \subseteq Received(downloads'[q])
                      /\ met[q] # None /\ met'[q] # None =>
                            Received(met[q]) \subseteq Received(met'[q])
    OBVIOUS
  <2>1. /\ downloads[q] \in PartMet /\ downloads'[q] \in PartMet
        /\ met[q] \in PartMet /\ met'[q] \in PartMet
    BY StepTypes
  <2>2. downloads[q].state # "None" /\ met[q] # None =>
            Received(met[q]) \subseteq Received(downloads[q])
    BY DEF DiskNotAhead, Managed
  <2>3. Managed(q)' => downloads'[q] # None
    BY NewMetFields DEF Managed
  <2>4. CASE Moves(q)
    BY <2>1, <2>2, <2>4, AdvancesReceives DEF Moves, Advances
  <2>5. CASE Dies(q)
    BY <2>1, <2>2, <2>3, <2>5, AdvancesReceives DEF Dies, Advances
  <2>6. CASE Returns(q)
    <3>1. ~ Managed(q)
      BY <2>6, NewMetFields DEF Returns, Known, Books, StoppedIsEmpty, Managed
    <3> QED
      BY <2>6, <3>1 DEF Returns
  <2>7. CASE Rests(q) \/ Leaves(q) \/ LosesMet(q) \/ Begins(q)
    BY <2>3, <2>7 DEF Rests, Leaves, LosesMet, Begins
  <2>8. StepOf(q)
    BY Steps
  <2> QED
    BY <2>4, <2>5, <2>6, <2>7, <2>8 DEF StepOf
<1>2. Known /\ TypeOK' /\ DiskNotAhead /\ [Next]_vars => [Kept]_vars
  BY <1>1
<1>3. Spec => [][Kept]_vars
  BY <1>2, AlwaysKnown, TypeCorrect, DiskBehind, PTL DEF Spec
<1> QED
  BY <1>3 DEF NothingReceivedIsLost

\* The .part holds what the actor and the disk call received.
Backed ==
    \A p \in partFiles : Received(downloads[p]) \subseteq written[p] \/ ~ Managed(p)

LEMMA BackedStep ==
    ASSUME "create" \notin Faults, ~ DirectMarks, Known, TypeOK', Backed, RecoveryIsBacked,
           [Next]_vars
    PROVE  Backed' /\ RecoveryIsBacked'
<1> SUFFICES ASSUME NEW q \in Parts, q \in partFiles'
             PROVE  /\ Managed(q)' => Received(downloads'[q]) \subseteq written'[q]
                    /\ met'[q] # None => Received(met'[q]) \subseteq written'[q]
  BY DEF Backed, RecoveryIsBacked, TypeOK, Managed
<1>1. /\ downloads[q] \in PartMet /\ downloads'[q] \in PartMet
      /\ met[q] \in PartMet /\ met'[q] \in PartMet
  BY StepTypes
<1>2. Managed(q)' => downloads'[q] # None
  BY NewMetFields DEF Managed
<1>3. CASE Begins(q)
  BY <1>3, NewMetFields DEF Begins, Received, Outstanding
<1>4. ASSUME PartKept(q)
      PROVE  /\ written[q] \subseteq written'[q]
             /\ downloads[q].state # "None" => Received(downloads[q]) \subseteq written'[q]
             /\ met[q] # None => Received(met[q]) \subseteq written'[q]
  BY <1>4 DEF PartKept, Backed, RecoveryIsBacked, Managed
<1>5. CASE PartKept(q) /\ Moves(q)
  BY <1>1, <1>4, <1>5, AdvancesReceives DEF Moves, Advances
<1>6. CASE PartKept(q) /\ Dies(q)
  BY <1>1, <1>2, <1>4, <1>6, AdvancesReceives DEF Dies, Advances
<1>7. CASE PartKept(q) /\ Returns(q)
  BY <1>1, <1>2, <1>4, <1>7, RecoverReceived, NewMetFields DEF Returns, Recover, Managed
<1>8. CASE PartKept(q) /\ (Rests(q) \/ Leaves(q) \/ LosesMet(q))
  BY <1>2, <1>4, <1>8 DEF Rests, Leaves, LosesMet, Managed
<1>9. StepOf(q)
  BY Steps
<1> QED
  BY <1>3, <1>5, <1>6, <1>7, <1>8, <1>9 DEF StepOf

\* What a restart reads from disk is true of the .part next to it, whatever write
\* failed and whenever the process was killed, as long as no create_download fails
\* half-way and every block is marked by the packet that carried it.
THEOREM RecoveryBacked ==
    ASSUME "create" \notin Faults, ~ DirectMarks
    PROVE  Spec => []RecoveryIsBacked
<1>1. Init => Backed /\ RecoveryIsBacked
  BY DEF Init, Backed, RecoveryIsBacked
<1>2. Known /\ TypeOK' /\ Backed /\ RecoveryIsBacked /\ [Next]_vars
          => Backed' /\ RecoveryIsBacked'
  BY BackedStep
<1> QED
  BY <1>1, <1>2, AlwaysKnown, TypeCorrect, PTL DEF Spec

-----------------------------------------------------------------------------
(* What is on disk when every save succeeds *)

\* The states in which a download still has its .part.
Parted == States \ {"None", "Completing", "Completed"}

HasPart(p) == downloads[p].state \in Parted \/ met[p].state \in Parted => p \in partFiles

\* A delivered download may be saved as completing: its last save failed.
Delivered(p) ==
    /\ "finalize" \in Faults
    /\ downloads[p].state = "Completed" /\ met[p].state = "Completing"

SavedAs(p) ==
    Managed(p) /\ met[p] # None => Recover(met[p]) = Recover(downloads[p]) \/ Delivered(p)

Exact == \A p \in Parts : HasPart(p) /\ SavedAs(p)

\* The .part of p stays, unless its download is being delivered.
PartStays(p) == p \in partFiles => p \in partFiles' \/ downloads[p].state = "Completing"

Keeps(p) == downloads'[p] = downloads[p] /\ met'[p] \in {met[p], None} /\ PartStays(p)

Saves(p) ==
    /\ met'[p] = downloads'[p]
    /\ downloads'[p].state \in Parted => p \in partFiles'

Drops(p) ==
    /\ downloads'[p] = None
    /\ met'[p] = None \/ (met'[p] = met[p] /\ PartStays(p))

Restores(p) == downloads'[p] = Recover(met[p]) /\ met'[p] = met[p] /\ partFiles' = partFiles

Delivers(p) ==
    /\ "finalize" \in Faults /\ downloads[p].state = "Completing"
    /\ downloads'[p] = [downloads[p] EXCEPT !.state = "Completed"] /\ met'[p] = met[p]

ExactStepOf(p) == Keeps(p) \/ Saves(p) \/ Drops(p) \/ Restores(p) \/ Delivers(p)

LEMMA SavedExactly ==
    ASSUME "save" \notin Faults, Known, NEW p \in Parts, Save(p)
    PROVE  met' = [met EXCEPT ![p] = downloads'[p]]
BY DEF Save

\* A step that saves the one download it changes.
LEMMA OneSaved ==
    ASSUME "save" \notin Faults, Known, NEW p \in Parts, Save(p), UNCHANGED partFiles,
           \A r \in Parts \ {p} : downloads'[r] = downloads[r],
           downloads'[p].state \in Parted => p \in partFiles,
           NEW q \in Parts
    PROVE  ExactStepOf(q)
BY SavedExactly DEF ExactStepOf, Keeps, Saves, PartStays, Known, TypeOK

LEMMA UserCommandExact ==
    ASSUME "save" \notin Faults, Known, Exact, UserCommand, NEW q \in Parts
    PROVE  ExactStepOf(q)
<1>1. ASSUME CreateDownload PROVE ExactStepOf(q)
  <2> DEFINE p == Least(FreeParts)
  <2>1. p \in Parts
    BY <1>1, LeastPart DEF CreateDownload, FreeParts
  <2>2. partFiles' = partFiles \cup {p}
    BY <1>1 DEF CreateDownload
  <2> HIDE DEF p
  <2>3. CASE /\ downloads' = [downloads EXCEPT ![p] = NewMet]
             /\ met' = [met EXCEPT ![p] = NewMet]
    BY <2>1, <2>2, <2>3 DEF ExactStepOf, Keeps, Saves, PartStays, Known, TypeOK
  <2>4. CASE UNCHANGED <<memory, met>>
    BY <2>2, <2>4 DEF ExactStepOf, Keeps, PartStays, memory
  <2> QED
    BY <1>1, <2>3, <2>4 DEF CreateDownload, p
<1>2. ASSUME NEW p \in Parts, NEW s \in {"Paused", "Queued", "Cancelled"}, NEW allowed,
             allowed \subseteq Active \cup {"Paused"}, SetState(p, s, allowed)
      PROVE  ExactStepOf(q)
  <2>1. /\ downloads[p].state \in Parted /\ Save(p) /\ UNCHANGED partFiles
        /\ \A r \in Parts \ {p} : downloads'[r] = downloads[r]
    BY <1>2 DEF SetState, files, Parted, States, Active, Known, TypeOK
  <2>2. p \in partFiles
    BY <2>1 DEF Exact, HasPart
  <2> QED
    BY <2>1, <2>2, OneSaved
<1>3. ASSUME NEW p \in Parts, DeleteDownload(p) PROVE ExactStepOf(q)
  BY <1>3 DEF DeleteDownload, ExactStepOf, Drops, Keeps, PartStays, Known, TypeOK
<1>4. ASSUME NEW p \in Parts, DeleteFails(p) PROVE ExactStepOf(q)
  BY <1>4 DEF DeleteFails, ExactStepOf, Keeps, PartStays, memory, files, Known, TypeOK
<1>5. ASSUME RefusedCommand PROVE ExactStepOf(q)
  BY <1>5 DEF RefusedCommand, ExactStepOf, Keeps, PartStays, memory, files
<1> QED
  BY <1>1, <1>2, <1>3, <1>4, <1>5 DEF UserCommand, Pause, Resume, Cancel

\* A download with something in flight is not complete, so its .part is there.
LEMMA LeasedHasPart ==
    ASSUME Known, Exact, NEW p \in Parts, NEW l \in leases[p]
    PROVE  downloads[p].state \in Parted /\ p \in partFiles
<1>1. l.block \in downloads[p].inflight /\ l.block # {}
  BY DEF Known, Books, LeaseAccounting, Accounted, BlocksOf
<1>2. downloads[p].state \notin {"Completing", "Completed"}
  BY <1>1 DEF Known, Books, CompletionIsWhole, Whole, Outstanding
<1>3. downloads[p].state # "None" /\ downloads[p].state \in States
  BY LeasedIsManaged DEF Managed, Known, TypeOK, PartMet
<1> QED
  BY <1>2, <1>3 DEF Exact, HasPart, Parted

LEMMA MarkReceivedExact ==
    ASSUME "save" \notin Faults, Known, Exact, NEW p \in Parts, NEW peer \in Peers,
           NEW block \in SUBSET Bytes, LeaseFor(p, peer, block) # {},
           MarkReceived(p, peer, block), UNCHANGED partFiles, NEW q \in Parts
    PROVE  ExactStepOf(q)
<1>1. PICK l \in leases[p] : TRUE
  BY DEF LeaseFor, LeasesOf
<1>2. p \in partFiles
  BY <1>1, LeasedHasPart
<1>3. Save(p) /\ \A r \in Parts \ {p} : downloads'[r] = downloads[r]
  BY DEF MarkReceived, Known, TypeOK
<1> QED
  BY <1>2, <1>3, OneSaved

LEMMA ReclaimLeasesExact ==
    ASSUME "save" \notin Faults, Known, Exact, NEW lost \in [Parts -> SUBSET Lease],
           \A p \in Parts : lost[p] \subseteq leases[p],
           ReclaimLeases(lost, {}), UNCHANGED partFiles, NEW q \in Parts
    PROVE  ExactStepOf(q)
<1>1. Before(Losing(lost), {}) \cup {} = Losing(lost)
  BY DEF Before
<1>2. /\ downloads'[q] = IF q \in Losing(lost) THEN Reclaim(downloads[q], BlocksOf(lost[q]))
                         ELSE downloads[q]
      /\ met'[q] = IF q \in Losing(lost) THEN downloads'[q] ELSE met[q]
  BY <1>1 DEF ReclaimLeases, ReclaimIn, SaveIn
<1>3. CASE q \in Losing(lost)
  <2>1. PICK l \in leases[q] : TRUE
    BY <1>3 DEF Losing
  <2> QED
    BY <1>2, <1>3, <2>1, LeasedHasPart DEF ExactStepOf, Saves
<1>4. CASE q \notin Losing(lost)
  BY <1>2, <1>4 DEF ExactStepOf, Keeps, PartStays
<1> QED
  BY <1>3, <1>4

LEMMA TransferCommandExact ==
    ASSUME "save" \notin Faults, Known, Exact, TransferCommand, NEW q \in Parts
    PROVE  ExactStepOf(q)
<1>1. ASSUME NEW p \in Parts, NEW peer \in Peers, NEW max, NEW size,
             ReserveBlocks(p, peer, max, size)
      PROVE  ExactStepOf(q)
  <2>1. /\ downloads[p].state \in Parted /\ Save(p) /\ UNCHANGED partFiles
        /\ \A r \in Parts \ {p} : downloads'[r] = downloads[r]
    BY <1>1 DEF ReserveBlocks, files, Parted, States, Active, Known, TypeOK
  <2>2. p \in partFiles
    BY <2>1 DEF Exact, HasPart
  <2> QED
    BY <2>1, <2>2, OneSaved
<1>2. ASSUME NEW p \in Parts, NEW peer \in Peers, NEW block \in Blocks,
             MarkBlockReceived(p, peer, block)
      PROVE  ExactStepOf(q)
  BY <1>2, BlocksAreBytes, MarkReceivedExact DEF MarkBlockReceived, files
<1>3. ASSUME NEW p \in Parts, NEW peer \in Peers, NEW block \in Blocks,
             IngestInboundPacket(p, peer, block)
      PROVE  ExactStepOf(q)
  <2>1. CASE LeaseFor(p, peer, block) # {}
    BY <1>3, <2>1, BlocksAreBytes, MarkReceivedExact DEF IngestInboundPacket
  <2>2. CASE LeaseFor(p, peer, block) = {}
    BY <1>3, <2>2 DEF IngestInboundPacket, ExactStepOf, Keeps, PartStays
  <2> QED
    BY <2>1, <2>2
<1>4. ASSUME NEW p \in Parts, NEW peer \in Peers, NEW block \in Blocks,
             MarkBlockFailed(p, peer, block)
      PROVE  ExactStepOf(q)
  <2>1. PICK l \in leases[p] : TRUE
    BY <1>4 DEF MarkBlockFailed, LeaseFor, LeasesOf
  <2>2. p \in partFiles
    BY <2>1, LeasedHasPart
  <2>3. /\ Save(p) /\ UNCHANGED partFiles
        /\ \A r \in Parts \ {p} : downloads'[r] = downloads[r]
    BY <1>4 DEF MarkBlockFailed, files, Known, TypeOK
  <2> QED
    BY <2>2, <2>3, OneSaved
<1>5. ASSUME NEW peer \in Peers, PeerDisconnected(peer) PROVE ExactStepOf(q)
  <2> DEFINE lost == [p \in Parts |-> LeasesOf(p, peer)]
  <2>1. lost \in [Parts -> SUBSET Lease] /\ \A p \in Parts : lost[p] \subseteq leases[p]
    BY DEF LeasesOf, Known, TypeOK
  <2>2. ReclaimLeases(lost, {}) /\ UNCHANGED partFiles
    BY <1>5 DEF PeerDisconnected, Failures, files
  <2> HIDE DEF lost
  <2> QED
    BY <2>1, <2>2, ReclaimLeasesExact
<1> QED
  BY <1>1, <1>2, <1>3, <1>4, <1>5 DEF TransferCommand, IngestTorn

LEMMA FinalizeExact ==
    ASSUME "save" \notin Faults, Known, Finalize, NEW q \in Parts
    PROVE  ExactStepOf(q)
<1>1. CASE FinalizeCompleted
  BY <1>1 DEF FinalizeCompleted, ExactStepOf, Keeps, PartStays, memory, files
<1>2. CASE FinalizeCompleting
  <2> DEFINE p == Least(pass.todo)
  <2>1. p \in Parts
    BY <1>2, LeastPart DEF FinalizeCompleting, Known, TypeOK
  <2>2. downloads[p].state = "Completing" /\ downloads[p].downloaded = FileSize
    BY <1>2, <2>1 DEF FinalizeCompleting, Known, Books, CompletionIsWhole, Whole
  <2>3. /\ downloads' = [downloads EXCEPT ![p].state = "Completed"]
        /\ met' = [met EXCEPT ![p] = downloads'[p]] /\ Moved(p)
    BY <1>2, <2>2 DEF FinalizeCompleting
  <2> HIDE DEF p
  <2>4. downloads'[p].state = "Completed"
    BY <2>1, <2>3 DEF Known, TypeOK, PartMet
  <2> QED
    BY <2>1, <2>3, <2>4
       DEF Moved, ExactStepOf, Keeps, Saves, PartStays, Parted, Known, TypeOK
<1>3. CASE FinalizeFails
  <2> DEFINE p == Least(pass.todo)
  <2>1. p \in Parts
    BY <1>3, LeastPart DEF FinalizeFails, Known, TypeOK
  <2>2. /\ downloads[p].state = "Completing" /\ met' = met /\ PassFails
        /\ Moved(p) \/ UNCHANGED files
    BY <1>3 DEF FinalizeFails
  <2>3. pass.kind = "command" =>
            \/ downloads' = downloads
            \/ /\ "finalize" \in Faults
               /\ downloads' = [downloads EXCEPT ![p].state = "Completed"]
    BY <1>3 DEF FinalizeFails, FinalizeFailures
  <2> HIDE DEF p
  <2>4. \A r \in Parts : PartStays(r)
    BY <2>1, <2>2 DEF PartStays, Moved, files, Known, TypeOK
  <2>5. pass.kind \in {"tick", "command"}
    BY <1>3 DEF FinalizeFails, InPass, Known, TypeOK, PassKinds
  <2>6. CASE pass.kind = "tick"
    BY <2>2, <2>4, <2>6 DEF PassFails, Forget, ExactStepOf, Drops
  <2>7. CASE downloads' = downloads
    BY <2>2, <2>4, <2>7 DEF ExactStepOf, Keeps
  <2>8. CASE "finalize" \in Faults /\ downloads' = [downloads EXCEPT ![p].state = "Completed"]
    BY <2>1, <2>2, <2>4, <2>8 DEF ExactStepOf, Keeps, Delivers, Known, TypeOK
  <2> QED
    BY <2>3, <2>5, <2>6, <2>7, <2>8
<1>4. CASE RemoveMetadata
  BY <1>4 DEF RemoveMetadata, ExactStepOf, Keeps, Drops, PartStays, files, Known, TypeOK
<1>5. CASE RemoveFails
  <2>1. met'[q] \in {met[q], None} /\ PartStays(q) /\ PassFails
    BY <1>5 DEF RemoveFails, PartStays, files, Known, TypeOK
  <2>2. CASE pass.kind = "tick"
    BY <2>1, <2>2 DEF PassFails, Forget, ExactStepOf, Drops
  <2>3. CASE downloads' = downloads
    BY <2>1, <2>3 DEF ExactStepOf, Keeps
  <2>4. pass.kind \in {"tick", "command"}
    BY <1>5 DEF RemoveFails, InPass, Known, TypeOK, PassKinds
  <2> QED
    BY <1>5, <2>2, <2>3, <2>4 DEF RemoveFails
<1>6. CASE KilledAfterMove
  <2> DEFINE p == Least(pass.todo)
  <2>1. p \in Parts
    BY <1>6, LeastPart DEF KilledAfterMove, Known, TypeOK
  <2>2. downloads[p].state = "Completing" /\ Moved(p) /\ Forget /\ met' = met
    BY <1>6 DEF KilledAfterMove
  <2> HIDE DEF p
  <2>3. \A r \in Parts : PartStays(r)
    BY <2>1, <2>2 DEF PartStays, Moved, Known, TypeOK
  <2> QED
    BY <2>2, <2>3 DEF Forget, ExactStepOf, Drops
<1> QED
  BY <1>1, <1>2, <1>3, <1>4, <1>5, <1>6 DEF Finalize

LEMMA ExactSteps ==
    ASSUME "save" \notin Faults, Known, Exact, [Next]_vars, NEW q \in Parts
    PROVE  ExactStepOf(q)
<1>1. CASE ServiceTick
  <2>1. Expired \in [Parts -> SUBSET Lease] /\ \A p \in Parts : Expired[p] \subseteq leases[p]
    BY DEF Expired, Known, TypeOK
  <2> QED
    BY <1>1, <2>1, ReclaimLeasesExact DEF ServiceTick, files
<1>2. CASE ServiceTickFails
  BY <1>2 DEF ServiceTickFails, Failures
<1>3. CASE ClockTick
  BY <1>3 DEF ClockTick, files, ExactStepOf, Keeps, PartStays
<1>4. CASE Stop
  BY <1>4 DEF Stop, Forget, files, ExactStepOf, Drops, PartStays
<1>5. CASE Start
  BY <1>5 DEF Start, files, ExactStepOf, Restores
<1>6. CASE UNCHANGED vars
  BY <1>6 DEF vars, ExactStepOf, Keeps, PartStays
<1> QED
  BY <1>1, <1>2, <1>3, <1>4, <1>5, <1>6, UserCommandExact, TransferCommandExact, FinalizeExact
     DEF Next

\* What is being delivered is saved as such, so that no metadata asks for its .part.
LEMMA CompletingIsSaved ==
    ASSUME Known, NEW p \in Parts, SavedAs(p), downloads[p].state = "Completing"
    PROVE  met[p].state \in {"None", "Completing"}
<1>1. met[p] \in PartMet /\ downloads[p] \in PartMet
  BY DEF Known, TypeOK
<1>2. CASE met[p] = None
  BY <1>2, NewMetFields
<1>3. CASE Recover(met[p]) = Recover(downloads[p])
  BY <1>1, <1>3, RecoverFields
<1> QED
  BY <1>2, <1>3 DEF SavedAs, Delivered, Managed

LEMMA ExactStep ==
    ASSUME "save" \notin Faults, Known, TypeOK', Exact, [Next]_vars
    PROVE  Exact'
<1> SUFFICES ASSUME NEW q \in Parts PROVE HasPart(q)' /\ SavedAs(q)'
  BY DEF Exact
<1>1. HasPart(q) /\ SavedAs(q)
  BY DEF Exact
<1>2. /\ downloads[q] \in PartMet /\ downloads'[q] \in PartMet
      /\ met[q] \in PartMet /\ met'[q] \in PartMet
  BY StepTypes
<1>3. downloads[q].state = "Completing" => met[q].state \in {"None", "Completing"}
  BY <1>1, CompletingIsSaved
<1>4. CASE Keeps(q)
  BY <1>1, <1>3, <1>4, NewMetFields
     DEF Keeps, PartStays, HasPart, SavedAs, Delivered, Managed, Parted
<1>5. CASE Saves(q)
  BY <1>5 DEF Saves, HasPart, SavedAs
<1>6. CASE Drops(q)
  BY <1>1, <1>3, <1>6, NewMetFields DEF Drops, PartStays, HasPart, SavedAs, Managed, Parted
<1>7. CASE Restores(q)
  <2>1. Recover(Recover(met[q])) = Recover(met[q])
    BY <1>2, RecoverFields DEF Recover
  <2>2. Recover(met[q]).state \in Parted => met[q].state \in Parted
    BY <1>2, RecoverFields DEF Parted, States, Active
  <2> QED
    BY <1>1, <1>7, <2>1, <2>2 DEF Restores, HasPart, SavedAs
<1>8. CASE Delivers(q)
  <2>1. downloads'[q].state = "Completed"
    BY <1>2, <1>8 DEF Delivers, PartMet
  <2>2. met[q].state = "None" => met[q] = None
    BY DEF Known, AbsentIsNone
  <2> QED
    BY <1>3, <1>8, <2>1, <2>2 DEF Delivers, HasPart, SavedAs, Delivered, Parted
<1> QED
  BY <1>4, <1>5, <1>6, <1>7, <1>8, ExactSteps DEF ExactStepOf

LEMMA ExactHolds ==
    ASSUME "save" \notin Faults
    PROVE  Spec => []Exact
<1>1. Init => Exact
  BY NewMetFields DEF Init, Exact, HasPart, SavedAs, Managed, Parted
<1>2. Known /\ TypeOK' /\ Exact /\ [Next]_vars => Exact'
  BY ExactStep
<1> QED
  BY <1>1, <1>2, AlwaysKnown, TypeCorrect, PTL DEF Spec

\* As long as no save fails, whatever else does, a download that wants blocks has the
\* .part to put them in: neither a delivery that failed half-way, nor a restart after
\* it, brings a download back whose file has gone.
THEOREM ActiveHasPart ==
    ASSUME "save" \notin Faults
    PROVE  Spec => []ActiveHasPartFile
<1>1. Exact => ActiveHasPartFile
  BY DEF Exact, HasPart, ActiveHasPartFile, Parted, States, Active
<1> QED
  BY <1>1, ExactHolds, PTL

\* Every handler saves all it changed: if no save fails, neither in a handler nor at the
\* end of a delivery, what a restart makes of the disk is what it would make of the map.
THEOREM RestartExact ==
    ASSUME "save" \notin Faults, "finalize" \notin Faults
    PROVE  Spec => []RestartIsExact
<1>1. Exact => RestartIsExact
  BY DEF Exact, SavedAs, Delivered, RestartIsExact
<1> QED
  BY <1>1, ExactHolds, PTL

-----------------------------------------------------------------------------
(* Paused downloads *)

StaysPaused(q) == downloads[q].state = "Paused" => downloads'[q].state \notin Active

LEMMA PauseStep ==
    ASSUME Known, [Next]_vars, NEW q \in partFiles
    PROVE  StaysPaused(q) \/ Resume(q)
<1>1. q \in Parts /\ downloads[q] \in PartMet
  BY DEF Known, TypeOK
<1>2. ASSUME UNCHANGED downloads PROVE StaysPaused(q)
  BY <1>2 DEF StaysPaused, Active
<1>3. ASSUME downloads'[q] = None PROVE StaysPaused(q)
  BY <1>3, NewMetFields DEF StaysPaused, Active
<1>4. ASSUME UserCommand PROVE StaysPaused(q) \/ Resume(q)
  <2>1. CASE CreateDownload
    <3> DEFINE p == Least(FreeParts)
    <3>1. p \in FreeParts
      BY <2>1, LeastPart DEF CreateDownload, FreeParts
    <3>2. p # q /\ downloads' \in {downloads, [downloads EXCEPT ![p] = NewMet]}
      BY <2>1, <3>1 DEF CreateDownload, FreeParts, memory
    <3> HIDE DEF p
    <3> QED
      BY <1>1, <3>2 DEF StaysPaused, Active, Known, TypeOK
  <2>2. ASSUME NEW p \in Parts, Pause(p) \/ Cancel(p) PROVE StaysPaused(q)
    BY <1>1, <2>2 DEF Pause, Cancel, SetState, StaysPaused, Active, Known, TypeOK, PartMet
  <2>3. ASSUME NEW p \in Parts, Resume(p) PROVE StaysPaused(q) \/ Resume(q)
    BY <1>1, <2>3 DEF Resume, SetState, StaysPaused, Active, Known, TypeOK
  <2>4. ASSUME NEW p \in Parts, DeleteDownload(p) PROVE StaysPaused(q)
    BY <1>1, <2>4, NewMetFields DEF DeleteDownload, StaysPaused, Active, Known, TypeOK
  <2> QED
    BY <1>2, <1>4, <2>1, <2>2, <2>3, <2>4 DEF UserCommand, DeleteFails, RefusedCommand, memory
<1>5. ASSUME NEW lost \in [Parts -> SUBSET Lease], NEW failed, ReclaimLeases(lost, failed)
      PROVE  StaysPaused(q)
  <2>1. Reclaim(downloads[q], BlocksOf(lost[q])).state =
            IF downloads[q].state = "Downloading" THEN "Queued" ELSE downloads[q].state
    BY <1>1, BlocksOfLeases, ReclaimFields
  <2> QED
    BY <1>1, <1>5, <2>1 DEF ReclaimLeases, ReclaimIn, StaysPaused, Active
<1>6. ASSUME TransferCommand PROVE StaysPaused(q)
  <2>1. ASSUME NEW p \in Parts, NEW peer \in Peers, NEW max, NEW size,
               ReserveBlocks(p, peer, max, size)
        PROVE  StaysPaused(q)
    BY <1>1, <2>1 DEF ReserveBlocks, StaysPaused, Active, Known, TypeOK
  <2>2. ASSUME NEW p \in Parts, NEW peer \in Peers, NEW block \in Blocks,
               MarkReceived(p, peer, block)
        PROVE  StaysPaused(q)
    <3>1. Receive(downloads[q], block).state =
              IF downloads[q].missing = {} /\ downloads[q].inflight \ {block} = {}
              THEN "Completing"
              ELSE IF downloads[q].state = "Queued" THEN "Downloading" ELSE downloads[q].state
      BY <1>1, ReceiveFields
    <3> QED
      BY <1>1, <2>2, <3>1 DEF MarkReceived, StaysPaused, Active, Known, TypeOK
  <2>3. ASSUME NEW p \in Parts, NEW peer \in Peers, NEW block \in Blocks,
               MarkBlockFailed(p, peer, block)
        PROVE  StaysPaused(q)
    <3>1. Fail(downloads[q], block).state =
              IF downloads[q].state = "Paused" THEN "Paused" ELSE "Queued"
      BY <1>1, BlocksAreBytes, FailFields
    <3> QED
      BY <1>1, <2>3, <3>1 DEF MarkBlockFailed, StaysPaused, Active, Known, TypeOK
  <2>4. ASSUME NEW peer \in Peers, PeerDisconnected(peer) PROVE StaysPaused(q)
    <3> DEFINE lost == [p \in Parts |-> LeasesOf(p, peer)]
    <3>1. lost \in [Parts -> SUBSET Lease]
      BY DEF LeasesOf, Known, TypeOK
    <3>2. \E failed : ReclaimLeases(lost, failed)
      BY <2>4 DEF PeerDisconnected
    <3> HIDE DEF lost
    <3> QED
      BY <1>5, <3>1, <3>2
  <2>5. ASSUME NEW p \in Parts, NEW peer \in Peers, NEW block \in Blocks,
               MarkBlockReceived(p, peer, block)
        PROVE  StaysPaused(q)
    BY <2>2, <2>5 DEF MarkBlockReceived
  <2>6. ASSUME NEW p \in Parts, NEW peer \in Peers, NEW block \in Blocks,
               IngestInboundPacket(p, peer, block)
        PROVE  StaysPaused(q)
    BY <1>2, <2>2, <2>6 DEF IngestInboundPacket
  <2>7. ASSUME NEW p \in Parts, NEW peer \in Peers, NEW block \in Blocks,
               IngestTorn(p, peer, block)
        PROVE  StaysPaused(q)
    BY <1>2, <2>7 DEF IngestTorn, memory
  <2> QED
    BY <1>6, <2>1, <2>3, <2>4, <2>5, <2>6, <2>7 DEF TransferCommand
<1>7. ASSUME ServiceTick PROVE StaysPaused(q)
  <2>1. Expired \in [Parts -> SUBSET Lease]
    BY DEF Expired, Known, TypeOK
  <2> QED
    BY <1>5, <1>7, <2>1 DEF ServiceTick
<1>8. ASSUME Finalize PROVE StaysPaused(q)
  <2>1. ASSUME NEW p, NEW s \in {"Completed", "Error"},
               downloads' = [downloads EXCEPT ![p].state = s]
        PROVE  StaysPaused(q)
    BY <1>1, <2>1 DEF StaysPaused, Active, Known, TypeOK, PartMet
  <2>2. ASSUME PassFails, pass.kind = "tick" PROVE StaysPaused(q)
    BY <1>1, <1>3, <2>2 DEF PassFails, Forget
  <2>3. ASSUME InPass PROVE pass.kind \in {"tick", "command"}
    BY <2>3 DEF InPass, Known, TypeOK, PassKinds
  <2>4. CASE FinalizeCompleting
    <3> DEFINE p == Least(pass.todo)
               s == IF downloads[p].downloaded = FileSize THEN "Completed" ELSE "Error"
    <3>1. downloads' = [downloads EXCEPT ![p].state = s] /\ s \in {"Completed", "Error"}
      BY <2>4 DEF FinalizeCompleting
    <3> HIDE DEF p, s
    <3> QED
      BY <2>1, <3>1
  <2>5. CASE FinalizeFails
    <3> DEFINE p == Least(pass.todo)
    <3>1. /\ InPass /\ PassFails
          /\ pass.kind = "command" =>
                downloads' \in {downloads, [downloads EXCEPT ![p].state = "Completed"]}
      BY <2>5 DEF FinalizeFails
    <3> HIDE DEF p
    <3> QED
      BY <1>2, <2>1, <2>2, <2>3, <3>1
  <2>6. CASE RemoveMetadata
    <3> DEFINE p == Least(pass.done)
    <3>1. downloads' = [downloads EXCEPT ![p] = None]
      BY <2>6 DEF RemoveMetadata
    <3> HIDE DEF p
    <3> QED
      BY <1>1, <3>1, NewMetFields DEF StaysPaused, Active, Known, TypeOK
  <2>7. CASE RemoveFails
    BY <1>2, <2>2, <2>3, <2>7 DEF RemoveFails
  <2>8. CASE FinalizeCompleted
    BY <1>2, <2>8 DEF FinalizeCompleted, memory
  <2>9. CASE KilledAfterMove
    BY <1>1, <1>3, <2>9 DEF KilledAfterMove, Forget
  <2> QED
    BY <1>8, <2>4, <2>5, <2>6, <2>7, <2>8, <2>9 DEF Finalize
<1>9. CASE Start
  <2>1. downloads[q] = None
    BY <1>1, <1>9 DEF Start, Known, Books, StoppedIsEmpty
  <2> QED
    BY <2>1, NewMetFields DEF StaysPaused
<1> QED
  BY <1>1, <1>2, <1>3, <1>4, <1>6, <1>7, <1>8, <1>9
     DEF Next, ServiceTickFails, Stop, Forget, ClockTick, vars

\* A paused download stays out of the queue until it is resumed, although its leases
\* are not given up: they may be received, fail, expire or go with their peer.
THEOREM PauseKept == Spec => PauseHolds
<1> DEFINE Kept == \A p \in partFiles :
                      downloads[p].state = "Paused" /\ downloads'[p].state \in Active => Resume(p)
<1>1. Known /\ [Next]_vars => [Kept]_vars
  BY PauseStep DEF StaysPaused
<1>2. Spec => [][Kept]_vars
  BY <1>1, AlwaysKnown, PTL DEF Spec
<1> QED
  BY <1>2 DEF PauseHolds
=============================================================================
