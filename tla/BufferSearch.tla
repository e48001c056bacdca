---------------------------- MODULE BufferSearch ---------------------------
(***************************************************************************)
(* The search functions of Buffer, which walk the chain of blocks, against *)
(* what they should return for the bytes the buffer holds.                 *)
(***************************************************************************)
EXTENDS Buffer

CONSTANT MaxNeedle      \* bound on the length of a string searched for

ASSUME NeedleAssumption == MaxNeedle \in Nat

\* Wrong on purpose: a needle is not followed into the next block.
MatchesInOneBlock(b, k, i, needle) ==
    LET bytes == ReadableBytes(b.blocks[k])
        n == Smaller(Len(needle), Len(bytes) - i)
    IN  SubSeq(bytes, i + 1, i + n) = SubSeq(needle, 1, n)

\* find(needle): does needle match from index i of the readable part of block
\* k, going on at the beginning of the next blocks?  matched[t] is how much of it
\* has been compared before the t-th block after k.  Running out of blocks leaves
\* match true.
MatchesAt(b, k, i, needle) ==
    LET search_idx(t) == IF t = 0 THEN i ELSE 0
        to_check(t, m) ==
            Smaller(Len(needle) - m, Readable(b.blocks[k + t]) - search_idx(t))
        matched[t \in 0..(Len(b.blocks) - k)] ==
            IF t = 0 THEN 0 ELSE matched[t - 1] + to_check(t - 1, matched[t - 1])
    IN  \A t \in 0..(Len(b.blocks) - k) :
            LET m == matched[t]
                n == to_check(t, m)
            IN  SubSeq(ReadableBytes(b.blocks[k + t]), search_idx(t) + 1, search_idx(t) + n)
                    = SubSeq(needle, m + 1, m + n)

\* offset: the readable bytes from the read block up to block k.
Offset(b, k) ==
    LET offset[t \in 0..(k - b.read_block_)] ==
            IF t = 0 THEN 0 ELSE offset[t - 1] + Readable(b.blocks[b.read_block_ + t - 1])
    IN  offset[k - b.read_block_]

\* The positions find(needle) tries, block by block and so in ascending order,
\* at which it has a match.
Hits(b, needle) ==
    UNION {{Offset(b, k) + i : i \in {l \in 0..(Readable(b.blocks[k]) - 1) :
                                        /\ Offset(b, k) + l + Len(needle) <= b.size_
                                        /\ MatchesAt(b, k, l, needle)}} :
              k \in b.read_block_..Len(b.blocks)}

\* The first match ends the search.
FirstOf(hits) == IF hits = {} THEN -1 ELSE Min(hits)

Find(b, needle) ==
    IF needle = <<>> \/ b.size_ < Len(needle) THEN -1 ELSE FirstOf(Hits(b, needle))

\* find(c): memchr() in the readable part of each block.
CharHits(b, c) ==
    UNION {{Offset(b, k) + i : i \in {l \in 0..(Readable(b.blocks[k]) - 1) :
                                        ReadableBytes(b.blocks[k])[l + 1] = c}} :
              k \in b.read_block_..Len(b.blocks)}

FindChar(b, c) == IF b.size_ = 0 THEN -1 ELSE FirstOf(CharHits(b, c))

\* read_until(): the slice, or nothing when it is not in the first block.
ReadUntil(b, delim) ==
    LET pos == Find(b, delim)
        total == pos + Len(delim)
    IN  IF pos < 0 \/ total > Readable(ReadBlock(b)) THEN <<>>
        ELSE SubSeq(ReadableBytes(ReadBlock(b)), 1, total)

-----------------------------------------------------------------------------
Needles == BoundedSeq(Byte, MaxNeedle) \ {<<>>}

\* Where needle occurs in the bytes the buffer holds.
Occurrences(bytes, needle) ==
    {p \in 0..(Len(bytes) - Len(needle)) :
        SubSeq(bytes, p + 1, p + Len(needle)) = needle}

\* The first occurrence in the flat bytes, -1 when there is none.
FirstOccurrence(bytes, needle) == FirstOf(Occurrences(bytes, needle))

\* find() returns the offset of the first occurrence, wherever the blocks
\* begin and end, and -1 exactly when there is none: a needle cut by a block
\* boundary is found, and one that runs past the end of the data is not.  A
\* slice read_until() returns is the beginning of the data up to and with the
\* first delimiter, so that a retrieve() of its size consumes the delimiter.
\* (buffer_test.cpp:117-123 expects 26 for the CR LF at offset 24 of a request
\* line; what find() returns is 24.)
FindIsFirstOccurrence ==
    \A needle \in Needles :
        LET first == FirstOccurrence(Content(buf), needle)
            slice == ReadUntil(buf, needle)
        IN  /\ Find(buf, needle) = first
            /\ Len(needle) = 1 => FindChar(buf, needle[1]) = first
            /\ slice # <<>> => slice = SubSeq(Content(buf), 1, first + Len(needle))

=============================================================================
