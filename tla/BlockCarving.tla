---------------------------- MODULE BlockCarving ----------------------------
(***************************************************************************)
(* How reserve_blocks of src/src/download/service.rs cuts the missing      *)
(* bytes of a file into blocks, over sets of bytes.                        *)
(***************************************************************************)
EXTENDS Integers, FiniteSets

Least(S) == CHOOSE x \in S : \A y \in S : x <= y

\* The blocks reserve_blocks carves: it keeps taking up to `size` bytes off the
\* front of the first missing range, so each maximal run of missing bytes is cut
\* into blocks of `size` from its start, and the first n of them are granted.
RunStart(M, b) == Least({a \in M : a <= b /\ a .. b \subseteq M})

BlockKey(M, size, b) == <<RunStart(M, b), (b - RunStart(M, b)) \div size>>

Carve(M, size) ==
    {{c \in M : BlockKey(M, size, c) = BlockKey(M, size, b)} : b \in M}

FirstBlocks(M, size, n) ==
    {B \in Carve(M, size) :
        Cardinality({C \in Carve(M, size) : Least(C) < Least(B)}) < n}
=============================================================================
