------------------------------ MODULE BlockPool ------------------------------
(***************************************************************************)
(* What the ranges of one download promise, over sets of bytes: a byte is  *)
(* missing, in flight in one block, or received; the blocks granted are    *)
(* the first ones of the missing bytes; what is not missing counts as      *)
(* downloaded.  RangeLists implements it; DownloadService uses the same    *)
(* operations.                                                             *)
(***************************************************************************)
EXTENDS BlockCarving

CONSTANTS FileSize, BlockSizes, MaxBlocks

VARIABLES missing, inflight, downloaded

Bytes == 0 .. FileSize - 1

Init == missing = Bytes /\ inflight = {} /\ downloaded = 0

Counted == downloaded' = FileSize - Cardinality(missing')

Reserve(max, size) ==
    LET granted == FirstBlocks(missing, size, max)
    IN  /\ missing' = missing \ UNION granted
        /\ inflight' = inflight \cup granted
        /\ UNCHANGED downloaded

Receive(block) ==
    /\ inflight' = inflight \ {block}
    /\ UNCHANGED missing
    /\ Counted

GiveBack(blocks) ==
    /\ missing' = missing \cup UNION blocks
    /\ inflight' = inflight \ blocks
    /\ Counted

Restart ==
    /\ missing' = missing \cup UNION inflight
    /\ inflight' = {}
    /\ UNCHANGED downloaded

Next ==
    \/ \E max \in 1 .. MaxBlocks, size \in BlockSizes : Reserve(max, size)
    \/ \E block \in inflight : Receive(block)
    \/ \E blocks \in SUBSET inflight : GiveBack(blocks)
    \/ Restart

Spec == Init /\ [][Next]_<<missing, inflight, downloaded>>
=============================================================================
