----------------------------- MODULE RangeLists -----------------------------
(***************************************************************************)
(* The range lists of one download as src/src/download/service.rs keeps    *)
(* them: `missing_ranges` and `inflight_ranges` are vectors of closed      *)
(* ranges, cut by subtract_range and joined by merge_ranges.  The leases   *)
(* run in step with `inflight_ranges`, so a lease is its index.            *)
(*                                                                         *)
(* A definition marked "Slip" is a mistaken form of the one after it; the  *)
(* runs use it to show that a property would notice the mistake.           *)
(***************************************************************************)
EXTENDS Integers, SequencesExt

CONSTANTS
    FileSize,     \* bytes of the file
    BlockSizes,   \* block sizes the callers use
    MaxBlocks,    \* blocks one call may grant
    MaxInflight   \* bound on the leases of the download

\* What the constants may be; HostServices assumes it.
RangeAssumption ==
    /\ FileSize \in Nat \ {0}
    /\ BlockSizes \subseteq Nat \ {0}
    /\ MaxBlocks \in Nat \ {0}
    /\ MaxInflight \in Nat

VARIABLES
    missing,      \* missing_ranges
    inflight,     \* inflight_ranges
    downloaded    \* downloaded_bytes

vars == <<missing, inflight, downloaded>>

-----------------------------------------------------------------------------
(* The helpers at the end of service.rs *)

ByteRange(a, b) == [start |-> a, end |-> b]

\* The bytes of a list of ranges.
BytesOf(ranges) == UNION {r.start .. r.end : r \in ToSet(ranges)}

TotalMissing(ranges) ==
    LET total[k \in 0 .. Len(ranges)] ==
          IF k = 0 THEN 0 ELSE total[k - 1] + (ranges[k].end - ranges[k].start) + 1
    IN  total[Len(ranges)]

\* One turn of the loop of merge_ranges: r is joined to the last range or follows it.
Join(merged, r) ==
    IF merged # <<>> /\ r.start <= Last(merged).end + 1
    THEN Append(Front(merged),
                ByteRange(Last(merged).start, Max({Last(merged).end, r.end})))
    ELSE Append(merged, r)

RangeOrder(r, s) == r.start < s.start \/ (r.start = s.start /\ r.end <= s.end)

\* A range put in its place among sorted ones.
Inserted(sorted, r) ==
    InsertAt(sorted,
             Min({i \in DOMAIN sorted : ~ RangeOrder(sorted[i], r)} \cup {Len(sorted) + 1}), r)

Sorted(ranges) ==
    LET sorted[k \in 0 .. Len(ranges)] ==
          IF k = 0 THEN <<>> ELSE Inserted(sorted[k - 1], ranges[k])
    IN  sorted[Len(ranges)]

MergeRanges(ranges) ==
    LET sorted == Sorted(ranges)
        merged[k \in 0 .. Len(ranges)] ==
          IF k = 0 THEN <<>> ELSE Join(merged[k - 1], sorted[k])
    IN  merged[Len(ranges)]

\* Slip: the byte after the block stays out.
CutShort(r, start, end) ==
    (IF start > r.start THEN <<ByteRange(r.start, start - 1)>> ELSE <<>>)
        \o (IF end < r.end THEN <<ByteRange(end + 2, r.end)>> ELSE <<>>)

\* What subtract_range leaves of one range.
Cut(r, start, end) ==
    IF end < r.start \/ start > r.end THEN <<r>>
    ELSE (IF start > r.start THEN <<ByteRange(r.start, start - 1)>> ELSE <<>>)
             \o (IF end < r.end THEN <<ByteRange(end + 1, r.end)>> ELSE <<>>)

SubtractRange(ranges, start, end) ==
    FlattenSeq([i \in DOMAIN ranges |-> Cut(ranges[i], start, end)])

RemoveInflight(ranges, r) == RemoveFirst(ranges, r)

-----------------------------------------------------------------------------
(* The handlers *)

\* One turn of the loop of reserve_blocks: a block off the first missing range.
GrantOne(turn, size) ==
    IF turn.missing = <<>> THEN turn
    ELSE LET first == Head(turn.missing)
             take  == Min({first.end - first.start + 1, size})
             block == ByteRange(first.start, first.start + take - 1)
         IN  [missing |-> SubtractRange(turn.missing, block.start, block.end),
              granted |-> Append(turn.granted, block)]

\* reserve_blocks: n turns of its loop.
Grant(size, n) ==
    LET turn[k \in 0 .. n] ==
          IF k = 0 THEN [missing |-> missing, granted |-> <<>>]
          ELSE GrantOne(turn[k - 1], size)
    IN  turn[n]

ReserveBlocks(max, size) ==
    LET turns == Grant(size, max)
    IN  /\ Len(inflight) + max <= MaxInflight
        /\ missing' = turns.missing
        /\ inflight' = inflight \o turns.granted
        /\ UNCHANGED downloaded

Counted == downloaded' = FileSize - TotalMissing(missing')

MarkBlockReceived(i) ==
    /\ inflight' = RemoveInflight(inflight, inflight[i])
    /\ UNCHANGED missing
    /\ Counted

MarkBlockFailed(i) ==
    /\ inflight' = RemoveInflight(inflight, inflight[i])
    /\ missing' = MergeRanges(Append(missing, inflight[i]))
    /\ Counted

\* peer_disconnected and process_timeouts: the lost leases in order, then one merge.
ReclaimLeases(lost) ==
    LET taken == [i \in 1 .. Len(inflight) |-> IF i \in lost THEN <<inflight[i]>> ELSE <<>>]
        kept  == [i \in 1 .. Len(inflight) |-> IF i \in lost THEN <<>> ELSE <<inflight[i]>>]
    IN  /\ inflight' = FlattenSeq(kept)
        /\ missing' = MergeRanges(missing \o FlattenSeq(taken))
        /\ Counted

\* run_service, on a recovered download: downloaded_bytes stays what was saved.
Restart ==
    /\ inflight # <<>>
    /\ missing' = MergeRanges(missing \o inflight)
    /\ inflight' = <<>>
    /\ UNCHANGED downloaded

Init ==
    /\ missing = <<ByteRange(0, FileSize - 1)>>
    /\ inflight = <<>>
    /\ downloaded = 0

Next ==
    \/ \E max \in 1 .. MaxBlocks, size \in BlockSizes : ReserveBlocks(max, size)
    \/ \E i \in 1 .. Len(inflight) : MarkBlockReceived(i) \/ MarkBlockFailed(i)
    \/ \E lost \in SUBSET (1 .. Len(inflight)) : lost # {} /\ ReclaimLeases(lost)
    \/ Restart

Spec == Init /\ [][Next]_vars

-----------------------------------------------------------------------------
(* Properties *)

\* missing_ranges is sorted, without overlaps and with a gap between neighbours,
\* after any sequence of handlers: reserve_blocks relies on its first range being
\* the lowest and the longest one there, total_missing on every byte counting once.
Canonical ==
    /\ \A i \in DOMAIN missing : missing[i].start <= missing[i].end
    /\ \A i \in 1 .. Len(missing) - 1 : missing[i].end + 1 < missing[i + 1].start

Pool == INSTANCE BlockPool
            WITH missing <- BytesOf(missing),
                 inflight <- {r.start .. r.end : r \in ToSet(inflight)}

\* The lists do what the set operations of BlockPool (and of DownloadService) say:
\* same blocks granted, same bytes given back, same progress; and they stay in the
\* order the handlers rely on.
ImplementsPool == Pool!Spec /\ []Canonical
=============================================================================
