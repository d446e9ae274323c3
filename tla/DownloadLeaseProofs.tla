------------------------- MODULE DownloadLeaseProofs -------------------------
(***************************************************************************)
(* The leases of DownloadService and the ranges in flight are two books of *)
(* the same thing, kept by different lines of the code.  They always agree *)
(* (LeaseAccounting), and from that follows that a download is called      *)
(* complete only when it is whole (CompletionIsWhole).                     *)
(***************************************************************************)
EXTENDS DownloadServiceProofs

\* A stopped actor manages nothing.
StoppedIsEmpty == ~ running => downloads = [p \in Parts |-> None]

-----------------------------------------------------------------------------
(* The handlers, one download at a time *)

LEMMA NewMetFields ==
    /\ None.state = "None" /\ None.missing = {} /\ None.inflight = {}
    /\ NewMet.state = "Queued" /\ NewMet.missing = Bytes /\ NewMet.inflight = {}
BY DEF NewMet, None

LEMMA NothingLeased ==
    ASSUME NEW d, d.inflight = {}
    PROVE  Accounted(d, {})
BY DEF Accounted, BlocksOf

LEMMA StateChangeAccounted ==
    ASSUME NEW d \in PartMet, NEW s, NEW ls, Accounted(d, ls)
    PROVE  Accounted([d EXCEPT !.state = s], ls)
BY DEF Accounted, PartMet

\* The blocks one call carves are non-empty, missing, and do not overlap.
LEMMA CarvedBlocks ==
    ASSUME NEW M, NEW size, NEW B \in Carve(M, size), NEW C \in Carve(M, size)
    PROVE  B # {} /\ B \in SUBSET M /\ (B # C => B \cap C = {})
<1>1. PICK b \in M : B = {x \in M : BlockKey(M, size, x) = BlockKey(M, size, b)}
  BY DEF Carve
<1>2. PICK c \in M : C = {x \in M : BlockKey(M, size, x) = BlockKey(M, size, c)}
  BY DEF Carve
<1> QED
  BY <1>1, <1>2

\* Leasing such blocks keeps the books.
LEMMA ReserveAccounted ==
    ASSUME NEW d \in PartMet, NEW ls \in SUBSET Lease, Accounted(d, ls),
           NEW peer, NEW left, NEW blocks \in SUBSET (SUBSET d.missing),
           \A B, C \in blocks : B # {} /\ (B # C => B \cap C = {})
    PROVE  Accounted(Reserve(d, blocks),
                     ls \cup [peer : {peer}, block : blocks, left : {left}])
<1> DEFINE new == [peer : {peer}, block : blocks, left : {left}]
           e == Reserve(d, blocks)
<1>1. e.missing = d.missing \ UNION blocks /\ e.inflight = d.inflight \cup blocks
  BY DEF Reserve, PartMet
<1>2. BlocksOf(new) = blocks
  <2>1. \A l \in new : l.block \in blocks
    OBVIOUS
  <2>2. ASSUME NEW B \in blocks PROVE \E l \in new : l.block = B
    <3>1. [peer |-> peer, block |-> B, left |-> left] \in new
      OBVIOUS
    <3> QED
      BY <3>1
  <2> HIDE DEF new
  <2> QED
    BY <2>1, <2>2 DEF BlocksOf
<1>3. BlocksOf(ls \cup new) = BlocksOf(ls) \cup BlocksOf(new)
  BY DEF BlocksOf
<1>4. \A l \in new : l.block \in blocks
  OBVIOUS
<1>5. \A l, m \in new : l # m => l.block # m.block
  OBVIOUS
<1> HIDE DEF new, e
<1>6. e.inflight = BlocksOf(ls \cup new)
  BY <1>1, <1>2, <1>3 DEF Accounted
<1>7. ASSUME NEW l \in ls \cup new
      PROVE  l.block # {} /\ l.block \cap e.missing = {}
  BY <1>1, <1>4 DEF Accounted
<1>8. ASSUME NEW l \in ls \cup new, NEW m \in ls \cup new, l # m
      PROVE  l.block \cap m.block = {}
  <2>1. CASE l \in ls /\ m \in ls
    BY <1>8, <2>1 DEF Accounted
  <2>2. CASE l \in new /\ m \in new
    BY <1>4, <1>5, <1>8, <2>2
  <2>3. CASE l \in ls /\ m \in new
    BY <1>4, <2>3 DEF Accounted
  <2>4. CASE l \in new /\ m \in ls
    BY <1>4, <2>4 DEF Accounted
  <2> QED
    BY <2>1, <2>2, <2>3, <2>4
<1> QED
  BY <1>6, <1>7, <1>8 DEF Accounted, e, new

\* Dropping leases keeps the books when their blocks leave the in-flight ranges
\* and nothing but their bytes becomes missing.
LEMMA DropAccounted ==
    ASSUME NEW d, NEW ls, Accounted(d, ls), NEW gone \in SUBSET ls,
           NEW e, e.inflight = d.inflight \ BlocksOf(gone),
           e.missing \subseteq d.missing \cup UNION BlocksOf(gone)
    PROVE  Accounted(e, ls \ gone)
<1>1. \A l \in ls \ gone, m \in gone : l.block \cap m.block = {} /\ m.block # {}
  BY DEF Accounted
<1>2. BlocksOf(ls \ gone) = BlocksOf(ls) \ BlocksOf(gone)
  BY <1>1 DEF BlocksOf, Accounted
<1>3. \A l \in ls \ gone : l.block \cap e.missing = {}
  BY <1>1 DEF BlocksOf, Accounted
<1> QED
  BY <1>2, <1>3 DEF Accounted

LEMMA ReceiveFields ==
    ASSUME NEW d \in PartMet, NEW block
    PROVE  /\ Receive(d, block).missing = d.missing
           /\ Receive(d, block).inflight = d.inflight \ {block}
           /\ Receive(d, block).downloaded = Progress(d.missing)
           /\ Receive(d, block).state =
                IF d.missing = {} /\ d.inflight \ {block} = {} THEN "Completing"
                ELSE IF d.state = "Queued" THEN "Downloading" ELSE d.state
BY DEF Receive, PartMet

LEMMA GiveBackFields ==
    ASSUME NEW d \in PartMet, NEW blocks
    PROVE  /\ GiveBack(d, blocks).missing = d.missing \cup UNION blocks
           /\ GiveBack(d, blocks).inflight = d.inflight \ blocks
           /\ GiveBack(d, blocks).state = d.state
BY DEF GiveBack, PartMet

LEMMA FailFields ==
    ASSUME NEW d \in PartMet, NEW block \in SUBSET Bytes
    PROVE  /\ Fail(d, block).missing = d.missing \cup block
           /\ Fail(d, block).inflight = d.inflight \ {block}
           /\ Fail(d, block).state = IF d.state = "Paused" THEN "Paused" ELSE "Queued"
<1>1. GiveBack(d, {block}) \in PartMet
  BY GiveBackTyped
<1> QED
  BY <1>1, GiveBackFields DEF Fail, PartMet

LEMMA ReclaimFields ==
    ASSUME NEW d \in PartMet, NEW blocks \in SUBSET (SUBSET Bytes)
    PROVE  /\ Reclaim(d, blocks).missing = d.missing \cup UNION blocks
           /\ Reclaim(d, blocks).inflight = d.inflight \ blocks
           /\ Reclaim(d, blocks).state = IF d.state = "Downloading" THEN "Queued"
                                         ELSE d.state
<1>1. GiveBack(d, blocks) \in PartMet
  BY GiveBackTyped
<1> QED
  BY <1>1, GiveBackFields DEF Reclaim, PartMet

LEMMA RecoverFields ==
    ASSUME NEW m \in PartMet
    PROVE  /\ Recover(m).inflight = {}
           /\ Outstanding(Recover(m)) = Outstanding(m)
           /\ Recover(m).downloaded = m.downloaded
           /\ Recover(m).state = IF m.inflight # {} /\ m.state = "Downloading"
                                 THEN "Queued" ELSE m.state
BY DEF Recover, Outstanding, PartMet

\* All the leases a peer holds of one block are one lease, and its block is in
\* flight.
LEMMA LeaseForBlock ==
    ASSUME TypeOK, LeaseAccounting, NEW p \in Parts, NEW peer, NEW block,
           LeaseFor(p, peer, block) # {}
    PROVE  /\ LeaseFor(p, peer, block) \in SUBSET leases[p]
           /\ BlocksOf(LeaseFor(p, peer, block)) = {block}
           /\ block \in downloads[p].inflight
<1>1. LeaseFor(p, peer, block) \in SUBSET leases[p]
  BY DEF LeaseFor, LeasesOf
<1>2. BlocksOf(LeaseFor(p, peer, block)) = {block}
  BY DEF BlocksOf, LeaseFor
<1>3. block \in BlocksOf(leases[p])
  BY <1>1 DEF BlocksOf, LeaseFor
<1> QED
  BY <1>1, <1>2, <1>3 DEF LeaseAccounting, Accounted

-----------------------------------------------------------------------------
(* Every step keeps the books *)

LEMMA ReserveBlocksAccounts ==
    ASSUME TypeOK, LeaseAccounting, NEW p \in Parts, NEW peer \in Peers, NEW max,
           NEW size, ReserveBlocks(p, peer, max, size)
    PROVE  LeaseAccounting'
<1> DEFINE blocks == FirstBlocks(downloads[p].missing, size, Budget(p, peer, max))
           new == [peer : {peer}, block : blocks, left : {LeaseTime}]
<1>1. blocks \in SUBSET (SUBSET downloads[p].missing)
  BY FirstBlocksMissing
<1>2. \A B, C \in blocks : B # {} /\ (B # C => B \cap C = {})
  BY CarvedBlocks DEF FirstBlocks
<1>3. downloads[p] \in PartMet /\ leases[p] \in SUBSET Lease
  BY DEF TypeOK
<1>4. Accounted(downloads[p], leases[p])
  BY DEF LeaseAccounting
<1>5. /\ downloads' = [downloads EXCEPT ![p] = Reserve(downloads[p], blocks)]
      /\ leases' = [leases EXCEPT ![p] = leases[p] \cup new]
  BY DEF ReserveBlocks, TypeOK
<1> HIDE DEF blocks
<1>6. Accounted(Reserve(downloads[p], blocks), leases[p] \cup new)
  BY <1>1, <1>2, <1>3, <1>4, ReserveAccounted
<1> QED
  BY <1>5, <1>6 DEF LeaseAccounting, TypeOK

LEMMA MarkReceivedAccounts ==
    ASSUME TypeOK, LeaseAccounting, NEW p \in Parts, NEW peer \in Peers,
           NEW block \in SUBSET Bytes, LeaseFor(p, peer, block) # {},
           MarkReceived(p, peer, block)
    PROVE  LeaseAccounting'
<1> DEFINE gone == LeaseFor(p, peer, block)
           e == Receive(downloads[p], block)
<1>1. gone \in SUBSET leases[p] /\ BlocksOf(gone) = {block}
  BY LeaseForBlock
<1>2. e.inflight = downloads[p].inflight \ BlocksOf(gone) /\ e.missing = downloads[p].missing
  BY <1>1, ReceiveFields DEF TypeOK
<1>3. /\ downloads' = [downloads EXCEPT ![p] = e]
      /\ leases' = [leases EXCEPT ![p] = leases[p] \ gone]
  BY DEF MarkReceived, TypeOK
<1> HIDE DEF gone, e
<1>4. Accounted(e, leases[p] \ gone)
  BY <1>1, <1>2, DropAccounted DEF LeaseAccounting
<1> QED
  BY <1>3, <1>4 DEF LeaseAccounting, TypeOK

LEMMA MarkBlockFailedAccounts ==
    ASSUME TypeOK, LeaseAccounting, NEW p \in Parts, NEW peer \in Peers,
           NEW block \in SUBSET Bytes, MarkBlockFailed(p, peer, block)
    PROVE  LeaseAccounting'
<1> DEFINE gone == LeaseFor(p, peer, block)
           e == Fail(downloads[p], block)
<1>1. gone \in SUBSET leases[p] /\ BlocksOf(gone) = {block}
  BY LeaseForBlock DEF MarkBlockFailed
<1>2. /\ e.inflight = downloads[p].inflight \ BlocksOf(gone)
      /\ e.missing = downloads[p].missing \cup UNION BlocksOf(gone)
  BY <1>1, FailFields DEF TypeOK
<1>3. /\ downloads' = [downloads EXCEPT ![p] = e]
      /\ leases' = [leases EXCEPT ![p] = leases[p] \ gone]
  BY DEF MarkBlockFailed, TypeOK
<1> HIDE DEF gone, e
<1>4. Accounted(e, leases[p] \ gone)
  BY <1>1, <1>2, DropAccounted DEF LeaseAccounting
<1> QED
  BY <1>3, <1>4 DEF LeaseAccounting, TypeOK

LEMMA ReclaimLeasesAccounts ==
    ASSUME TypeOK, LeaseAccounting, NEW lost \in [Parts -> SUBSET Lease],
           \A p \in Parts : lost[p] \subseteq leases[p],
           NEW failed, ReclaimLeases(lost, failed)
    PROVE  LeaseAccounting'
<1> DEFINE reached == Before(Losing(lost), failed) \cup failed
<1>1. /\ downloads' = [p \in Parts |-> IF p \in reached
                                        THEN Reclaim(downloads[p], BlocksOf(lost[p]))
                                        ELSE downloads[p]]
      /\ leases' = [p \in Parts |-> IF p \in reached THEN leases[p] \ lost[p]
                                     ELSE leases[p]]
  BY DEF ReclaimLeases, ReclaimIn
<1> HIDE DEF reached
<1>2. ASSUME NEW p \in Parts
      PROVE  Accounted(Reclaim(downloads[p], BlocksOf(lost[p])), leases[p] \ lost[p])
  <2>1. BlocksOf(lost[p]) \in SUBSET (SUBSET Bytes)
    BY BlocksOfLeases
  <2>2. downloads[p] \in PartMet /\ Accounted(downloads[p], leases[p])
    BY DEF TypeOK, LeaseAccounting
  <2> DEFINE e == Reclaim(downloads[p], BlocksOf(lost[p]))
  <2>3. /\ e.inflight = downloads[p].inflight \ BlocksOf(lost[p])
        /\ e.missing = downloads[p].missing \cup UNION BlocksOf(lost[p])
    BY <2>1, <2>2, ReclaimFields
  <2> HIDE DEF e
  <2> QED
    BY <2>2, <2>3, DropAccounted DEF e
<1> QED
  BY <1>1, <1>2 DEF LeaseAccounting

LEMMA ClockTickAccounts ==
    ASSUME TypeOK, LeaseAccounting, ClockTick
    PROVE  LeaseAccounting'
<1> SUFFICES ASSUME NEW p \in Parts PROVE Accounted(downloads[p], leases[p])'
  BY DEF LeaseAccounting
<1> DEFINE older(l) == [l EXCEPT !.left = Less(@)]
<1>1. leases'[p] = {older(l) : l \in leases[p]} /\ downloads'[p] = downloads[p]
  BY DEF ClockTick, TypeOK
<1>2. Accounted(downloads[p], leases[p]) /\ leases[p] \in SUBSET Lease
  BY DEF LeaseAccounting, TypeOK
<1>3. \A l \in leases[p] : older(l).block = l.block
  BY <1>2 DEF Lease
<1> HIDE DEF older
<1>4. BlocksOf(leases'[p]) = BlocksOf(leases[p])
  BY <1>1, <1>3 DEF BlocksOf
<1> QED
  BY <1>1, <1>2, <1>3, <1>4 DEF Accounted

-----------------------------------------------------------------------------
(* What each handler does to a whole download *)

LEMMA NewIsWhole == Whole(None) /\ Whole(NewMet)
BY NewMetFields DEF Whole

LEMMA UnfinishedIsWhole ==
    ASSUME NEW d, d.state \notin {"Completing", "Completed", "Error"}
    PROVE  Whole(d)
BY DEF Whole

LEMMA ReceiveWhole ==
    ASSUME NEW d \in PartMet, Whole(d), NEW block \in d.inflight, block # {}
    PROVE  Whole(Receive(d, block))
<1>1. d.state \notin {"Completing", "Completed", "Error"}
  BY DEF Whole, Outstanding
<1>2. d.missing \in SUBSET Bytes
  BY DEF PartMet
<1>3. d.missing = {} => Progress(d.missing) = FileSize
  BY <1>2, ProgressIsBounded
<1> QED
  BY <1>1, <1>3, ReceiveFields DEF Whole, Outstanding

LEMMA ReclaimWhole ==
    ASSUME NEW d \in PartMet, Whole(d), NEW blocks \in SUBSET d.inflight
    PROVE  Whole(Reclaim(d, blocks))
<1> DEFINE e == Reclaim(d, blocks)
<1>0. blocks \in SUBSET (SUBSET Bytes) /\ d.missing \in SUBSET Bytes
  BY DEF PartMet
<1>1. /\ e.missing = d.missing \cup UNION blocks
      /\ e.inflight = d.inflight \ blocks
      /\ e.state = IF d.state = "Downloading" THEN "Queued" ELSE d.state
  BY <1>0, ReclaimFields
<1>2. e.downloaded = Progress(e.missing)
  <2>1. GiveBack(d, blocks).downloaded = Progress(d.missing \cup UNION blocks)
    BY DEF GiveBack, PartMet
  <2>2. GiveBack(d, blocks) \in PartMet
    BY <1>0, GiveBackTyped
  <2>3. e.downloaded = GiveBack(d, blocks).downloaded
    BY <2>2 DEF Reclaim, PartMet
  <2> QED
    BY <1>1, <2>1, <2>3
<1>3. Progress({}) = FileSize
  BY ProgressIsBounded
<1> HIDE DEF e
<1>4. CASE e.state \in {"Completing", "Completed"}
  <2>1. d.missing = {} /\ UNION d.inflight = {} /\ e.state # "Error"
    BY <1>1, <1>4 DEF Whole, Outstanding
  <2>2. e.missing = {} /\ UNION e.inflight = {}
    BY <1>1, <2>1
  <2> QED
    BY <1>2, <1>3, <1>4, <2>2 DEF Whole, Outstanding, e
<1>5. CASE e.state \notin {"Completing", "Completed"}
  BY <1>1, <1>5 DEF Whole, e
<1> QED
  BY <1>4, <1>5

LEMMA RecoverWhole ==
    ASSUME NEW m \in PartMet, Whole(m)
    PROVE  Whole(Recover(m))
BY RecoverFields DEF Whole

LEMMA CompletedIsWhole ==
    ASSUME NEW d \in PartMet, Whole(d), d.state = "Completing"
    PROVE  Whole([d EXCEPT !.state = "Completed"])
BY DEF Whole, Outstanding, PartMet

LEMMA SaveWhole ==
    ASSUME TypeOK, CompletionIsWhole, NEW p \in Parts, Whole(downloads'[p]), Save(p)
    PROVE  \A q \in Parts : Whole(met'[q])
BY DEF TypeOK, CompletionIsWhole, Save

-----------------------------------------------------------------------------
(* The inductive invariant *)

Books == StoppedIsEmpty /\ LeaseAccounting /\ CompletionIsWhole

LEMMA InitBooks == Init => Books
<1> SUFFICES ASSUME Init PROVE Books
  OBVIOUS
<1>1. LeaseAccounting
  BY NothingLeased, NewMetFields DEF Init, LeaseAccounting
<1> QED
  BY <1>1, NewIsWhole DEF Init, Books, StoppedIsEmpty, CompletionIsWhole

LEMMA ForgetBooks ==
    ASSUME Forget, \A p \in Parts : Whole(met'[p])
    PROVE  Books'
<1>1. LeaseAccounting'
  BY NothingLeased, NewMetFields DEF Forget, LeaseAccounting
<1> QED
  BY <1>1, NewIsWhole DEF Forget, Books, StoppedIsEmpty, CompletionIsWhole

\* A step that leaves the leases alone and takes the download p to a clean slate.
LEMMA ResetBooks ==
    ASSUME TypeOK, Books, running', NEW p \in Parts, NEW d \in {None, NewMet},
           downloads' = [downloads EXCEPT ![p] = d],
           leases' = [leases EXCEPT ![p] = {}],
           met' = [met EXCEPT ![p] = d]
    PROVE  Books'
<1>1. Accounted(d, {}) /\ Whole(d)
  BY NothingLeased, NewMetFields, NewIsWhole
<1>2. LeaseAccounting'
  BY <1>1 DEF Books, LeaseAccounting, TypeOK
<1>3. CompletionIsWhole'
  BY <1>1 DEF Books, CompletionIsWhole, TypeOK
<1> QED
  BY <1>2, <1>3 DEF Books, StoppedIsEmpty

\* A step that changes no download and at most removes metadata.
LEMMA RestBooks ==
    ASSUME TypeOK, Books, running', UNCHANGED <<downloads, leases>>,
           \A p \in Parts : met'[p] \in {met[p], None}
    PROVE  Books'
<1>1. LeaseAccounting'
  BY DEF Books, LeaseAccounting
<1>2. CompletionIsWhole'
  BY NewIsWhole DEF Books, CompletionIsWhole
<1> QED
  BY <1>1, <1>2 DEF Books, StoppedIsEmpty

\* A step that only changes the state of one download.
LEMMA StateBooks ==
    ASSUME TypeOK, Books, running', NEW p \in Parts, NEW s \in States,
           downloads' = [downloads EXCEPT ![p].state = s], UNCHANGED leases,
           Whole([downloads[p] EXCEPT !.state = s]),
           \A q \in Parts : met'[q] \in {met[q], downloads'[q]}
    PROVE  Books'
<1>1. /\ downloads'[p] = [downloads[p] EXCEPT !.state = s]
      /\ \A q \in Parts \ {p} : downloads'[q] = downloads[q]
  BY DEF TypeOK
<1>2. Accounted(downloads[p], leases[p]) /\ downloads[p] \in PartMet
  BY DEF TypeOK, Books, LeaseAccounting
<1>3. Accounted(downloads'[p], leases[p])
  BY <1>1, <1>2, StateChangeAccounted
<1>4. LeaseAccounting'
  BY <1>1, <1>3 DEF Books, LeaseAccounting
<1>5. CompletionIsWhole'
  BY <1>1 DEF Books, CompletionIsWhole
<1> QED
  BY <1>4, <1>5 DEF Books, StoppedIsEmpty

LEMMA UserCommandBooks ==
    ASSUME TypeOK, Books, UserCommand
    PROVE  Books'
<1>1. ASSUME CreateDownload PROVE Books'
  <2> DEFINE p == Least(FreeParts)
  <2>1. p \in Parts
    BY <1>1, LeastPart DEF CreateDownload, FreeParts
  <2> HIDE DEF p
  <2>2. CASE /\ downloads' = [downloads EXCEPT ![p] = NewMet]
             /\ leases' = [leases EXCEPT ![p] = {}]
             /\ met' = [met EXCEPT ![p] = NewMet]
    BY <1>1, <2>1, <2>2, ResetBooks DEF CreateDownload, Ready
  <2>3. CASE UNCHANGED <<memory, met>>
    BY <1>1, <2>3, RestBooks DEF CreateDownload, Ready, memory
  <2> QED
    BY <1>1, <2>2, <2>3 DEF CreateDownload, p
<1>2. ASSUME NEW p \in Parts, NEW s \in {"Paused", "Queued", "Cancelled"}, NEW allowed,
             SetState(p, s, allowed)
      PROVE  Books'
  <2>1. Whole([downloads[p] EXCEPT !.state = s])
    BY UnfinishedIsWhole DEF TypeOK, PartMet
  <2>2. \A q \in Parts : met'[q] \in {met[q], downloads'[q]}
    BY <1>2 DEF SetState, Save, TypeOK
  <2>3. s \in States
    BY DEF States, Active
  <2> QED
    BY <1>2, <2>1, <2>2, <2>3, StateBooks DEF SetState, Ready
<1>3. ASSUME NEW p \in Parts, DeleteDownload(p) PROVE Books'
  BY <1>3, ResetBooks DEF DeleteDownload, Ready
<1>4. ASSUME NEW p \in Parts, DeleteFails(p) PROVE Books'
  BY <1>4, RestBooks DEF DeleteFails, Ready, memory, TypeOK
<1>5. ASSUME RefusedCommand PROVE Books'
  BY <1>5, RestBooks DEF RefusedCommand, Ready, memory
<1> QED
  BY <1>1, <1>2, <1>3, <1>4, <1>5 DEF UserCommand, Pause, Resume, Cancel

\* The blocks of leases are in flight, and none is empty.
LEMMA LeasedBlocks ==
    ASSUME LeaseAccounting, NEW p \in Parts, NEW ls \in SUBSET leases[p]
    PROVE  BlocksOf(ls) \in SUBSET downloads[p].inflight /\ {} \notin BlocksOf(ls)
BY DEF LeaseAccounting, Accounted, BlocksOf

LEMMA MarkReceivedBooks ==
    ASSUME TypeOK, Books, running', NEW p \in Parts, NEW peer \in Peers,
           NEW block \in SUBSET Bytes, LeaseFor(p, peer, block) # {},
           MarkReceived(p, peer, block)
    PROVE  Books'
<1>1. LeaseAccounting'
  BY MarkReceivedAccounts DEF Books
<1>2. block \in downloads[p].inflight /\ block # {}
  <2> DEFINE ls == LeaseFor(p, peer, block)
  <2>1. ls \in SUBSET leases[p] /\ BlocksOf(ls) = {block} /\ block \in downloads[p].inflight
    BY LeaseForBlock DEF Books
  <2> HIDE DEF ls
  <2>2. {} \notin BlocksOf(ls)
    BY <2>1, LeasedBlocks DEF Books
  <2> QED
    BY <2>1, <2>2
<1>3. Whole(Receive(downloads[p], block))
  BY <1>2, ReceiveWhole DEF Books, CompletionIsWhole, TypeOK
<1>4. /\ downloads'[p] = Receive(downloads[p], block)
      /\ \A q \in Parts \ {p} : downloads'[q] = downloads[q]
  BY DEF MarkReceived, TypeOK
<1>5. \A q \in Parts : Whole(met'[q])
  BY <1>3, <1>4, SaveWhole DEF MarkReceived, Books
<1>6. CompletionIsWhole'
  BY <1>3, <1>4, <1>5 DEF Books, CompletionIsWhole
<1> QED
  BY <1>1, <1>6 DEF Books, StoppedIsEmpty

LEMMA ReclaimLeasesBooks ==
    ASSUME TypeOK, Books, running', NEW lost \in [Parts -> SUBSET Lease],
           \A p \in Parts : lost[p] \subseteq leases[p],
           NEW failed, ReclaimLeases(lost, failed)
    PROVE  Books'
<1>1. LeaseAccounting'
  BY ReclaimLeasesAccounts DEF Books
<1>2. ASSUME NEW p \in Parts
      PROVE  Whole(Reclaim(downloads[p], BlocksOf(lost[p])))
  BY LeasedBlocks, ReclaimWhole DEF Books, CompletionIsWhole, TypeOK
<1>3. \A p \in Parts : Whole(downloads'[p]) /\ Whole(met'[p])
  BY <1>2 DEF ReclaimLeases, ReclaimIn, SaveIn, Books, CompletionIsWhole
<1> QED
  BY <1>1, <1>3 DEF Books, StoppedIsEmpty, CompletionIsWhole

LEMMA TransferCommandBooks ==
    ASSUME TypeOK, Books, TransferCommand
    PROVE  Books'
<1>1. ASSUME NEW p \in Parts, NEW peer \in Peers, NEW max, NEW size,
             ReserveBlocks(p, peer, max, size)
      PROVE  Books'
  <2> DEFINE blocks == FirstBlocks(downloads[p].missing, size, Budget(p, peer, max))
  <2>1. LeaseAccounting'
    BY <1>1, ReserveBlocksAccounts DEF Books
  <2>2. /\ downloads'[p] = Reserve(downloads[p], blocks)
        /\ \A q \in Parts \ {p} : downloads'[q] = downloads[q]
        /\ Save(p) /\ running'
    BY <1>1 DEF ReserveBlocks, TypeOK, Ready
  <2> HIDE DEF blocks
  <2>3. Whole(downloads'[p])
    <3>1. Reserve(downloads[p], blocks).state = "Downloading"
      BY DEF Reserve, TypeOK, PartMet
    <3> QED
      BY <2>2, <3>1, UnfinishedIsWhole
  <2>4. \A q \in Parts : Whole(met'[q])
    BY <2>2, <2>3, SaveWhole DEF Books
  <2> QED
    BY <2>1, <2>2, <2>3, <2>4 DEF Books, StoppedIsEmpty, CompletionIsWhole
<1>2. ASSUME NEW p \in Parts, NEW peer \in Peers, NEW block \in Blocks,
             MarkBlockReceived(p, peer, block)
      PROVE  Books'
  BY <1>2, BlocksAreBytes, MarkReceivedBooks DEF MarkBlockReceived, Ready
<1>3. ASSUME NEW p \in Parts, NEW peer \in Peers, NEW block \in Blocks,
             IngestInboundPacket(p, peer, block)
      PROVE  Books'
  <2>1. CASE LeaseFor(p, peer, block) # {}
    BY <1>3, <2>1, BlocksAreBytes, MarkReceivedBooks DEF IngestInboundPacket, Ready
  <2>2. CASE LeaseFor(p, peer, block) = {}
    BY <1>3, <2>2, RestBooks DEF IngestInboundPacket, Ready
  <2> QED
    BY <2>1, <2>2
<1>4. ASSUME NEW p \in Parts, NEW peer \in Peers, NEW block \in Blocks,
             IngestTorn(p, peer, block)
      PROVE  Books'
  BY <1>4, RestBooks DEF IngestTorn, Ready, memory
<1>5. ASSUME NEW p \in Parts, NEW peer \in Peers, NEW block \in Blocks,
             MarkBlockFailed(p, peer, block)
      PROVE  Books'
  <2>1. LeaseAccounting'
    BY <1>5, BlocksAreBytes, MarkBlockFailedAccounts DEF Books
  <2>2. /\ downloads'[p] = Fail(downloads[p], block)
        /\ \A q \in Parts \ {p} : downloads'[q] = downloads[q]
        /\ Save(p) /\ running'
    BY <1>5 DEF MarkBlockFailed, TypeOK, Ready
  <2>3. Whole(downloads'[p])
    BY <2>2, BlocksAreBytes, FailFields, UnfinishedIsWhole DEF TypeOK
  <2>4. \A q \in Parts : Whole(met'[q])
    BY <2>2, <2>3, SaveWhole DEF Books
  <2> QED
    BY <2>1, <2>2, <2>3, <2>4 DEF Books, StoppedIsEmpty, CompletionIsWhole
<1>6. ASSUME NEW peer \in Peers, PeerDisconnected(peer) PROVE Books'
  <2> DEFINE lost == [p \in Parts |-> LeasesOf(p, peer)]
  <2>1. lost \in [Parts -> SUBSET Lease] /\ \A p \in Parts : lost[p] \subseteq leases[p]
    BY DEF LeasesOf, TypeOK
  <2>2. PICK failed : ReclaimLeases(lost, failed)
    BY <1>6 DEF PeerDisconnected
  <2> HIDE DEF lost
  <2> QED
    BY <1>6, <2>1, <2>2, ReclaimLeasesBooks DEF PeerDisconnected, Ready
<1> QED
  BY <1>1, <1>2, <1>3, <1>4, <1>5, <1>6 DEF TransferCommand

LEMMA TickBooks ==
    ASSUME TypeOK, Books, ServiceTick \/ ServiceTickFails \/ ClockTick
    PROVE  Books'
<1>0. Expired \in [Parts -> SUBSET Lease] /\ \A p \in Parts : Expired[p] \subseteq leases[p]
  BY DEF Expired, TypeOK
<1>1. CASE ServiceTick
  BY <1>0, <1>1, ReclaimLeasesBooks DEF ServiceTick, Ready
<1>2. CASE ServiceTickFails
  <2>1. PICK saved : met' = SaveIn(ReclaimIn(Expired, saved), saved)
    BY <1>2 DEF ServiceTickFails
  <2>2. ASSUME NEW p \in Parts
        PROVE  Whole(Reclaim(downloads[p], BlocksOf(Expired[p])))
    BY <1>0, LeasedBlocks, ReclaimWhole DEF Books, CompletionIsWhole, TypeOK
  <2>3. \A p \in Parts : Whole(met'[p])
    BY <2>1, <2>2 DEF SaveIn, ReclaimIn, Books, CompletionIsWhole
  <2> QED
    BY <1>2, <2>3, ForgetBooks DEF ServiceTickFails
<1>3. CASE ClockTick
  <2>1. LeaseAccounting'
    BY <1>3, ClockTickAccounts DEF Books
  <2> QED
    BY <1>3, <2>1 DEF ClockTick, Books, StoppedIsEmpty, CompletionIsWhole
<1> QED
  BY <1>1, <1>2, <1>3

LEMMA FinalizeBooks ==
    ASSUME TypeOK, Books, Finalize
    PROVE  Books'
<1>0. running
  BY DEF Finalize, FinalizeCompleted, FinalizeCompleting, KilledAfterMove, FinalizeFails,
         RemoveMetadata, RemoveFails, InPass
<1>1. CASE FinalizeCompleted
  BY <1>0, <1>1, RestBooks DEF FinalizeCompleted, memory
<1>2. CASE FinalizeCompleting
  <2> DEFINE p == Least(pass.todo)
             s == IF downloads[p].downloaded = FileSize THEN "Completed" ELSE "Error"
  <2>1. p \in Parts
    BY <1>2, LeastPart DEF FinalizeCompleting, TypeOK
  <2>2. /\ downloads[p].state = "Completing"
        /\ downloads' = [downloads EXCEPT ![p].state = s]
        /\ met' = [met EXCEPT ![p] = downloads'[p]]
        /\ UNCHANGED <<running, leases>>
    BY <1>2 DEF FinalizeCompleting
  <2> HIDE DEF p
  <2>3. s = "Completed" /\ s \in States
    BY <2>1, <2>2 DEF Books, CompletionIsWhole, Whole, States
  <2>4. Whole([downloads[p] EXCEPT !.state = s])
    BY <2>1, <2>2, <2>3, CompletedIsWhole DEF Books, CompletionIsWhole, TypeOK
  <2>5. \A q \in Parts : met'[q] \in {met[q], downloads'[q]}
    BY <2>1, <2>2 DEF TypeOK
  <2> HIDE DEF s
  <2> QED
    BY <1>0, <2>1, <2>2, <2>3, <2>4, <2>5, StateBooks
<1>3. CASE FinalizeFails
  <2> DEFINE p == Least(pass.todo)
  <2>1. p \in Parts
    BY <1>3, LeastPart DEF FinalizeFails, TypeOK
  <2>2. /\ downloads[p].state = "Completing" /\ met' = met
        /\ PassFails
        /\ pass.kind = "command" =>
              downloads' \in {downloads, [downloads EXCEPT ![p].state = "Completed"]}
    BY <1>3 DEF FinalizeFails
  <2> HIDE DEF p
  <2>3. CASE pass.kind = "tick"
    BY <2>2, <2>3, ForgetBooks DEF PassFails, Books, CompletionIsWhole
  <2>4. CASE pass.kind # "tick" /\ downloads' = downloads
    BY <1>0, <2>2, <2>4, RestBooks DEF PassFails
  <2>5. CASE pass.kind # "tick" /\ downloads' = [downloads EXCEPT ![p].state = "Completed"]
    <3>1. Whole([downloads[p] EXCEPT !.state = "Completed"])
      BY <2>1, <2>2, CompletedIsWhole DEF Books, CompletionIsWhole, TypeOK
    <3>2. "Completed" \in States
      BY DEF States
    <3> QED
      BY <1>0, <2>1, <2>2, <2>5, <3>1, <3>2, StateBooks DEF PassFails
  <2>6. pass.kind \in {"tick", "command"}
    BY <1>3 DEF FinalizeFails, InPass, TypeOK, PassKinds
  <2> QED
    BY <2>2, <2>3, <2>4, <2>5, <2>6
<1>4. CASE RemoveMetadata
  <2>1. ASSUME NEW p \in Parts,
               downloads' = [downloads EXCEPT ![p] = None],
               leases' = [leases EXCEPT ![p] = {}],
               met' = [met EXCEPT ![p] = None]
        PROVE  Books'
    BY <1>0, <1>4, <2>1, ResetBooks DEF RemoveMetadata
  <2>2. CASE Least(pass.done) \in Parts
    BY <1>4, <2>1, <2>2 DEF RemoveMetadata
  <2>3. CASE Least(pass.done) \notin Parts
    BY <1>0, <1>4, <2>3, RestBooks DEF RemoveMetadata, TypeOK
  <2> QED
    BY <2>2, <2>3
<1>5. CASE RemoveFails
  <2>1. \A p \in Parts : met'[p] \in {met[p], None}
    BY <1>5 DEF RemoveFails, TypeOK
  <2>2. CASE pass.kind = "tick"
    BY <1>5, <2>1, <2>2, NewIsWhole, ForgetBooks
       DEF RemoveFails, PassFails, Books, CompletionIsWhole
  <2>3. CASE pass.kind = "command"
    BY <1>0, <1>5, <2>1, <2>3, RestBooks DEF RemoveFails, PassFails
  <2> QED
    BY <1>5, <2>2, <2>3 DEF RemoveFails, InPass, TypeOK, PassKinds
<1>6. CASE KilledAfterMove
  BY <1>6, ForgetBooks DEF KilledAfterMove, Books, CompletionIsWhole
<1> QED
  BY <1>1, <1>2, <1>3, <1>4, <1>5, <1>6 DEF Finalize

LEMMA StopStartBooks ==
    ASSUME TypeOK, Books, Stop \/ Start
    PROVE  Books'
<1>1. CASE Stop
  BY <1>1, ForgetBooks DEF Stop, Books, CompletionIsWhole
<1>2. CASE Start
  <2>1. ASSUME NEW p \in Parts PROVE leases[p] = {}
    <3>1. downloads[p] = None
      BY <1>2 DEF Start, Books, StoppedIsEmpty
    <3>2. BlocksOf(leases[p]) = {}
      BY <3>1, NewMetFields DEF Books, LeaseAccounting, Accounted
    <3> QED
      BY <3>2 DEF BlocksOf
  <2>2. LeaseAccounting'
    BY <1>2, <2>1, RecoverFields, NothingLeased DEF Start, LeaseAccounting, TypeOK
  <2>3. CompletionIsWhole'
    BY <1>2, RecoverWhole DEF Start, Books, CompletionIsWhole, TypeOK
  <2> QED
    BY <1>2, <2>2, <2>3 DEF Start, Books, StoppedIsEmpty
<1> QED
  BY <1>1, <1>2

-----------------------------------------------------------------------------

LEMMA BooksHold == Spec => [](TypeOK /\ Books)
<1>1. TypeOK /\ Books /\ [Next]_vars => Books'
  <2> SUFFICES ASSUME TypeOK, Books, [Next]_vars PROVE Books'
    OBVIOUS
  <2>1. CASE UNCHANGED vars
    BY <2>1 DEF Books, StoppedIsEmpty, LeaseAccounting, CompletionIsWhole, vars
  <2> QED
    BY <2>1, UserCommandBooks, TransferCommandBooks, TickBooks, FinalizeBooks,
       StopStartBooks DEF Next
<1> QED
  BY <1>1, InitBooks, TypeCorrect, PTL DEF Spec

\* The ranges marked in flight are at all times the blocks of the leases, no two of
\* them overlap and none is also missing: reserving, receiving, failing, timing out,
\* disconnecting, deleting and restarting never lose a byte nor lease it twice.
THEOREM LeasesAccounted == Spec => []LeaseAccounting
BY BooksHold, PTL DEF Books

\* A download in a completed state, in the actor or on disk, has every byte: the size
\* check of finalize_completed_downloads never sends one to Error.
THEOREM CompletionWhole == Spec => []CompletionIsWhole
BY BooksHold, PTL DEF Books
-----------------------------------------------------------------------------
(* The caps of reserve_blocks *)

\* What a function reaches from a finite set is finite and no larger.
LEMMA ImageSize ==
    ASSUME NEW S, NEW T, IsFiniteSet(S), NEW f \in [S -> T], \A t \in T : \E s \in S : f[s] = t
    PROVE  IsFiniteSet(T) /\ Cardinality(T) <= Cardinality(S)
<1>1. f \in Surjection(S, T)
  BY DEF Surjection
<1> QED
  BY <1>1, FS_Surjection

\* The blocks of one call are as many as it was granted: they begin at different bytes,
\* and the last of them has fewer than n before it.
LEMMA FirstBlocksAreFew ==
    ASSUME NEW M \in SUBSET Bytes, NEW size, NEW n \in Nat \ {0}
    PROVE  /\ IsFiniteSet(FirstBlocks(M, size, n))
           /\ Cardinality(FirstBlocks(M, size, n)) <= n
<1> DEFINE F == FirstBlocks(M, size, n)
           P == Carve(M, size)
<1>1. IsFiniteSet(P)
  <2>1. IsFiniteSet(SUBSET M)
    <3>1. IsFiniteSet(Bytes)
      BY FS_Interval, ConstantsAssumption DEF Bytes
    <3> QED
      BY <3>1, FS_Subset, FS_SUBSET
  <2>2. P \in SUBSET (SUBSET M)
    BY DEF Carve
  <2> HIDE DEF P
  <2> QED
    BY <2>1, <2>2, FS_Subset
<1>2. F \in SUBSET P
  BY DEF FirstBlocks
<1>3. IsFiniteSet(F)
  BY <1>1, <1>2, FS_Subset
<1>4. ASSUME NEW B \in P
      PROVE  Least(B) \in B /\ Least(B) \in Bytes
  <2>1. B # {} /\ B \in SUBSET M
    BY CarvedBlocks
  <2>2. B \in SUBSET Nat
    BY <2>1, ConstantsAssumption DEF Bytes
  <2> QED
    BY <2>1, <2>2, LeastIsLeast
<1>5. ASSUME NEW B \in P, NEW C \in P, B # C PROVE Least(B) # Least(C)
  BY <1>4, <1>5, CarvedBlocks
<1>6. CASE F = {}
  BY <1>3, <1>6, FS_EmptySet
<1>7. CASE F # {}
  <2> DEFINE behind == {FileSize - Least(B) : B \in F}
  <2>1. behind \in SUBSET Nat /\ behind # {}
    BY <1>2, <1>4, <1>7, ConstantsAssumption DEF Bytes
  <2> HIDE DEF behind
  <2>2. Least(behind) \in behind /\ \A x \in behind : Least(behind) <= x
    BY <2>1, LeastIsLeast
  <2>3. PICK B \in F : \A x \in behind : FileSize - Least(B) <= x
    BY <2>2 DEF behind
  <2>4. ASSUME NEW C \in F PROVE Least(C) <= Least(B)
    <3>1. FileSize - Least(B) <= FileSize - Least(C)
      BY <2>3 DEF behind
    <3> QED
      BY <1>2, <1>4, <3>1, ConstantsAssumption DEF Bytes
  <2> DEFINE L == {C \in P : Least(C) < Least(B)}
  <2>5. F \ {B} \in SUBSET L
    <3> SUFFICES ASSUME NEW C \in F, C # B PROVE C \in L
      OBVIOUS
    <3>1. Least(C) # Least(B) /\ Least(C) <= Least(B)
      BY <1>2, <1>5, <2>4
    <3>2. Least(C) \in Int /\ Least(B) \in Int
      BY <1>2, <1>4 DEF Bytes
    <3> QED
      BY <1>2, <3>1, <3>2
  <2>6. IsFiniteSet(L) /\ Cardinality(L) < n
    BY <1>1, FS_Subset DEF FirstBlocks
  <2> HIDE DEF F, L
  <2>7. Cardinality(F \ {B}) = Cardinality(F) - 1 /\ Cardinality(F \ {B}) <= Cardinality(L)
    BY <1>3, <2>5, <2>6, FS_RemoveElement, FS_Subset
  <2>8. Cardinality(F) <= n
    BY <1>3, <2>6, <2>7, FS_CardinalityType
  <2> QED
    BY <1>3, <2>8 DEF F
<1> QED
  BY <1>3, <1>6, <1>7

\* The caps, and what makes counting leases meaningful.
Capped(ls) ==
    /\ IsFiniteSet(ls)
    /\ Cardinality(ls) <= DownloadLeaseCap
    /\ \A peer \in Peers : Cardinality({l \in ls : l.peer = peer}) <= PeerLeaseCap

CapsKept == \A p \in Parts : Capped(leases[p])

LEMMA FewerIsCapped ==
    ASSUME NEW ls, NEW fewer \in SUBSET ls, Capped(ls)
    PROVE  Capped(fewer)
<1>1. IsFiniteSet(fewer) /\ Cardinality(fewer) <= Cardinality(ls)
  BY FS_Subset DEF Capped
<1>2. ASSUME NEW peer \in Peers
      PROVE  Cardinality({l \in fewer : l.peer = peer}) <= PeerLeaseCap
  <2> DEFINE of(S) == {l \in S : l.peer = peer}
  <2>1. IsFiniteSet(of(ls)) /\ of(fewer) \in SUBSET of(ls)
    <3>1. of(ls) \in SUBSET ls /\ of(fewer) \in SUBSET of(ls)
      OBVIOUS
    <3> HIDE DEF of
    <3> QED
      BY <3>1, FS_Subset DEF Capped
  <2>2. Cardinality(of(ls)) <= PeerLeaseCap
    BY DEF Capped
  <2> HIDE DEF of
  <2>3. Cardinality(of(fewer)) <= Cardinality(of(ls)) /\ IsFiniteSet(of(fewer))
    BY <2>1, FS_Subset
  <2>4. Cardinality(of(fewer)) <= PeerLeaseCap
    BY <2>1, <2>2, <2>3, FS_CardinalityType, ConstantsAssumption
  <2> QED
    BY <2>4 DEF of
<1> QED
  BY <1>1, <1>2, FS_CardinalityType, ConstantsAssumption DEF Capped

\* Leases of which only the time left changes.
LEMMA AgedIsCapped ==
    ASSUME NEW ls \in SUBSET Lease, Capped(ls)
    PROVE  Capped({[l EXCEPT !.left = Less(@)] : l \in ls})
<1> DEFINE older(l) == [l EXCEPT !.left = Less(@)]
           aged(S) == {older(l) : l \in S}
<1>1. ASSUME NEW S \in SUBSET ls
      PROVE  IsFiniteSet(aged(S)) /\ Cardinality(aged(S)) <= Cardinality(S)
  <2> DEFINE f == [l \in S |-> older(l)]
  <2>1. f \in [S -> aged(S)] /\ \A t \in aged(S) : \E s \in S : f[s] = t
    OBVIOUS
  <2>2. IsFiniteSet(S)
    BY FS_Subset DEF Capped
  <2> HIDE DEF f, aged
  <2> QED
    BY <2>1, <2>2, ImageSize
<1>2. ASSUME NEW peer \in Peers
      PROVE  {l \in aged(ls) : l.peer = peer} = aged({l \in ls : l.peer = peer})
  <2>1. \A l \in ls : older(l).peer = l.peer
    BY DEF Lease
  <2> HIDE DEF older
  <2> QED
    BY <2>1
<1>3. IsFiniteSet(aged(ls)) /\ Cardinality(aged(ls)) <= DownloadLeaseCap
  <2>1. IsFiniteSet(aged(ls)) /\ Cardinality(aged(ls)) <= Cardinality(ls)
    BY <1>1
  <2> HIDE DEF aged
  <2> QED
    BY <2>1, FS_CardinalityType, ConstantsAssumption DEF Capped
<1>4. ASSUME NEW peer \in Peers
      PROVE  Cardinality({l \in aged(ls) : l.peer = peer}) <= PeerLeaseCap
  <2> DEFINE mine == {l \in ls : l.peer = peer}
  <2>1. mine \in SUBSET ls /\ Cardinality(mine) <= PeerLeaseCap
    BY DEF Capped
  <2>2. IsFiniteSet(mine)
    BY <2>1, FS_Subset DEF Capped
  <2>3. Cardinality(aged(mine)) <= Cardinality(mine) /\ IsFiniteSet(aged(mine))
    BY <1>1, <2>1
  <2>4. {l \in aged(ls) : l.peer = peer} = aged(mine)
    BY <1>2
  <2> HIDE DEF mine, aged
  <2>5. Cardinality(mine) \in Nat /\ Cardinality(aged(mine)) \in Nat
    BY <2>2, <2>3, FS_CardinalityType
  <2> QED
    BY <2>1, <2>3, <2>4, <2>5, ConstantsAssumption
<1> QED
  BY <1>3, <1>4 DEF Capped

\* New leases of one peer, no more than both caps leave room for.
LEMMA GrantedIsCapped ==
    ASSUME NEW ls, Capped(ls), NEW peer \in Peers, NEW blocks, IsFiniteSet(blocks), NEW left,
           Cardinality(ls) + Cardinality(blocks) <= DownloadLeaseCap,
           Cardinality({l \in ls : l.peer = peer}) + Cardinality(blocks) <= PeerLeaseCap
    PROVE  Capped(ls \cup [peer : {peer}, block : blocks, left : {left}])
<1> DEFINE new == [peer : {peer}, block : blocks, left : {left}]
           mine(S) == {l \in S : l.peer = peer}
           n == Cardinality(blocks)
<1>1. IsFiniteSet(new) /\ Cardinality(new) <= n
  <2> DEFINE f == [b \in blocks |-> [peer |-> peer, block |-> b, left |-> left]]
  <2>1. f \in [blocks -> new]
    OBVIOUS
  <2>2. \A t \in new : t.block \in blocks /\ f[t.block] = t
    OBVIOUS
  <2> HIDE DEF f, new
  <2> QED
    BY <2>1, <2>2, ImageSize
<1>2. \A l \in new : l.peer = peer
  OBVIOUS
<1>3. n \in Nat
  BY FS_CardinalityType
<1> HIDE DEF new, n
<1>4. ASSUME NEW S, IsFiniteSet(S), NEW cap \in Nat, Cardinality(S) + n <= cap
      PROVE  IsFiniteSet(S \cup new) /\ Cardinality(S \cup new) <= cap
  <2>1. Cardinality(S \cup new) = Cardinality(S) + Cardinality(new) - Cardinality(S \cap new)
    BY <1>1, <1>4, FS_Union
  <2>2. IsFiniteSet(S \cup new) /\ IsFiniteSet(S \cap new)
    BY <1>1, <1>4, FS_Union, FS_Intersection
  <2>3. /\ Cardinality(S) \in Nat /\ Cardinality(new) \in Nat
        /\ Cardinality(S \cap new) \in Nat /\ Cardinality(S \cup new) \in Nat
    BY <1>1, <1>4, <2>2, FS_CardinalityType
  <2> QED
    BY <1>1, <1>3, <1>4, <2>1, <2>2, <2>3
<1>5. IsFiniteSet(mine(ls)) /\ mine(ls \cup new) = mine(ls) \cup new
  BY <1>2, FS_Subset DEF Capped
<1>6. IsFiniteSet(ls \cup new) /\ Cardinality(ls \cup new) <= DownloadLeaseCap
  BY <1>4, ConstantsAssumption DEF Capped, n
<1>7. Cardinality(mine(ls \cup new)) <= PeerLeaseCap
  BY <1>4, <1>5, ConstantsAssumption DEF n
<1>8. ASSUME NEW other \in Peers, other # peer
      PROVE  {l \in ls \cup new : l.peer = other} = {l \in ls : l.peer = other}
  BY <1>2, <1>8
<1> QED
  BY <1>6, <1>7, <1>8 DEF Capped, new

LEMMA ReserveBlocksCaps ==
    ASSUME TypeOK, CapsKept, NEW p \in Parts, NEW peer \in Peers,
           NEW max \in Nat, NEW size, ReserveBlocks(p, peer, max, size)
    PROVE  CapsKept'
<1> DEFINE n == Budget(p, peer, max)
           blocks == FirstBlocks(downloads[p].missing, size, n)
           held == Cardinality(leases[p])
           mine == Cardinality(LeasesOf(p, peer))
<1>1. Capped(leases[p])
  BY DEF CapsKept
<1>2. IsFiniteSet(LeasesOf(p, peer))
  BY <1>1, FS_Subset DEF Capped, LeasesOf
<1>3. held \in Nat /\ mine \in Nat
  BY <1>1, <1>2, FS_CardinalityType DEF Capped
<1>4. n \in Nat \ {0} /\ n <= PeerLeaseCap - mine /\ n <= DownloadLeaseCap - held
  <2>1. n > 0
    BY DEF ReserveBlocks
  <2> HIDE DEF held, mine
  <2> QED
    BY <1>3, <2>1, ConstantsAssumption DEF Budget, AtMost, held, mine
<1>5. downloads[p].missing \in SUBSET Bytes
  BY DEF TypeOK, PartMet
<1> HIDE DEF n
<1>6. IsFiniteSet(blocks) /\ Cardinality(blocks) <= n
  BY <1>4, <1>5, FirstBlocksAreFew
<1>7. leases' = [leases EXCEPT ![p] = leases[p] \cup
                    [peer : {peer}, block : blocks, left : {LeaseTime}]]
  BY DEF ReserveBlocks, TypeOK, n
<1> HIDE DEF blocks
<1>8. held + Cardinality(blocks) <= DownloadLeaseCap /\ mine + Cardinality(blocks) <= PeerLeaseCap
  BY <1>3, <1>4, <1>6, FS_CardinalityType, ConstantsAssumption
<1>9. Capped(leases[p] \cup [peer : {peer}, block : blocks, left : {LeaseTime}])
  BY <1>1, <1>6, <1>8, GrantedIsCapped DEF LeasesOf
<1> QED
  BY <1>7, <1>9 DEF CapsKept, TypeOK

\* Every other step but the clock's takes leases away, if it does anything to them.
LEMMA OthersTakeLeases ==
    ASSUME TypeOK, [Next]_vars, ~ ClockTick,
           ~ \E p \in Parts, peer \in Peers, max \in 1 .. MaxReserveBlocks, size \in BlockSizes :
                 ReserveBlocks(p, peer, max, size),
           NEW q \in Parts
    PROVE  leases'[q] \in SUBSET leases[q]
<1>1. ASSUME UserCommand PROVE leases'[q] \in SUBSET leases[q]
  <2>1. CASE CreateDownload
    BY <2>1 DEF CreateDownload, memory, TypeOK
  <2>2. CASE \E p \in Parts : Pause(p) \/ Resume(p) \/ Cancel(p)
    BY <2>2 DEF Pause, Resume, Cancel, SetState
  <2>3. CASE \E p \in Parts : DeleteDownload(p) \/ DeleteFails(p)
    BY <2>3 DEF DeleteDownload, DeleteFails, memory, TypeOK
  <2>4. CASE RefusedCommand
    BY <2>4 DEF RefusedCommand, memory
  <2> QED
    BY <1>1, <2>1, <2>2, <2>3, <2>4 DEF UserCommand
<1>2. ASSUME TransferCommand PROVE leases'[q] \in SUBSET leases[q]
  <2>1. ASSUME NEW p \in Parts, NEW peer \in Peers, NEW block \in Blocks,
               MarkBlockReceived(p, peer, block) \/ MarkBlockFailed(p, peer, block)
        PROVE  leases'[q] \in SUBSET leases[q]
    BY <2>1 DEF MarkBlockReceived, MarkReceived, MarkBlockFailed, TypeOK
  <2>2. ASSUME NEW p \in Parts, NEW peer \in Peers, NEW block \in Blocks,
               IngestInboundPacket(p, peer, block) \/ IngestTorn(p, peer, block)
        PROVE  leases'[q] \in SUBSET leases[q]
    BY <2>2 DEF IngestInboundPacket, IngestTorn, MarkReceived, memory, TypeOK
  <2>3. ASSUME NEW peer \in Peers, PeerDisconnected(peer)
        PROVE  leases'[q] \in SUBSET leases[q]
    BY <2>3 DEF PeerDisconnected, ReclaimLeases
  <2> QED
    BY <1>2, <2>1, <2>2, <2>3 DEF TransferCommand
<1>3. ASSUME Finalize PROVE leases'[q] \in SUBSET leases[q]
  BY <1>3 DEF Finalize, FinalizeCompleted, FinalizeCompleting, KilledAfterMove, FinalizeFails,
              RemoveMetadata, RemoveFails, PassFails, Forget, memory, TypeOK
<1>4. ASSUME ServiceTick \/ ServiceTickFails \/ Stop \/ Start
      PROVE  leases'[q] \in SUBSET leases[q]
  BY <1>4 DEF ServiceTick, ServiceTickFails, ReclaimLeases, Stop, Start, Forget
<1>5. CASE UNCHANGED vars
  BY <1>5 DEF vars
<1> QED
  BY <1>1, <1>2, <1>3, <1>4, <1>5 DEF Next

\* No sequence of reserve_blocks calls, with leases that are received, fail, expire or are
\* lost with their peer between them, gets a download or one of its peers past its cap.
THEOREM CapsHold == Spec => []LeaseCaps
<1>1. Init => CapsKept
  BY FS_EmptySet, ConstantsAssumption DEF Init, CapsKept, Capped
<1>2. TypeOK /\ CapsKept /\ [Next]_vars => CapsKept'
  <2> SUFFICES ASSUME TypeOK, CapsKept, [Next]_vars PROVE CapsKept'
    OBVIOUS
  <2>1. CASE \E p \in Parts, peer \in Peers, max \in 1 .. MaxReserveBlocks, size \in BlockSizes :
                 ReserveBlocks(p, peer, max, size)
    BY <2>1, ReserveBlocksCaps
  <2>2. CASE ClockTick
    BY <2>2, AgedIsCapped DEF ClockTick, CapsKept, TypeOK
  <2>3. CASE \A q \in Parts : leases'[q] \in SUBSET leases[q]
    BY <2>3, FewerIsCapped DEF CapsKept
  <2> QED
    BY <2>1, <2>2, <2>3, OthersTakeLeases
<1>3. CapsKept => LeaseCaps
  BY DEF CapsKept, Capped, LeaseCaps, LeasesOf
<1> QED
  BY <1>1, <1>2, <1>3, TypeCorrect, PTL DEF Spec
=============================================================================
